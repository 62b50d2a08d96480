# Verification of the downloads, the player's pipeline and the music engine

TLA+ models of the parts of this program that run concurrently or must survive a
power cut: the download manager (`source/offline/`), the way of a picture from
the socket to the screen (`player/`, `video/`), the switch of the television to
the film's rate, and the music engine. They are checked with TLC and, where marked,
proved with TLAPS. Paths below are relative to `src/source/`.

## 1. The system and its parts

The program is a Jellyfin client for the PlayStation 3: browse, stream, play
music, and keep films on the console's disk ("downloads for offline"). `PROJECT.json`
lists every component with its status; these are the ones with logic of their own.

| Part | State | Operations | What is hard |
|---|---|---|---|
| Download rules, `offline/dl_model.cpp` | none | `dl_next_state`, error classes, HTTP status | every event in every state |
| Download manager, `offline/dl_manager.cpp` | `s_slots`, `s_next_seq`, the holds (`s_auth_hold`, `s_space_hold`, `s_suspended`, `s_play_block`), the session header | `dl_enqueue/pause/resume/cancel/retry/remove` from any thread, `dl_manager_step` on one worker, restore | the transfer runs unlocked; control is posted to it; power cuts; full disk |
| Store, `offline/dl_store.cpp` | one directory per item: record, metadata, partial, media | atomic save, load with a fallback, removal | a crash inside each of them |
| Transfer, `attempt()` | 512 KB buffer, the range protocol | recv, flush, fsync, checkpoint, space gate, verify, rename | order of bytes and record; film replaced on the server |
| Service, `offline/dl_service.cpp`, `dl_ps3.cpp` | worker thread, store location | start, stop and join, move to another store | callers against a store that is being swapped |
| Jitter buffer and uploads, `video/jbuf.cpp`, `player_threads.cpp` | ring of frames, `s_vid_frame_ready` | push, peek, pop, clear | decode, upload and display threads |
| Read-ahead ring, `player_threads.cpp` | ring of TS packets | push, feed | ring full, audio fed past video |
| Seek, `player/core/player_seek.cpp` | `s_seeking`, `paused`, socket, threads | seek, reopen | flush against running threads, early returns |
| Music engine, `music/music_player.cpp` | one command cell, queue, track | play, seek, next, jump | lost and overwritten commands, track boundary |
| Thumbnail cache, `cache/thumbnail_cache.cpp` | slots, request list | request, fetch, evict | stale answers |
| 24 Hz output, `video/display_24p.cpp` | marker and confirmation files | switch, confirm, back out | a crash in a mode that shows nothing |
| SPU audio worker, `spu/` | job mailbox | post, wait | hand-shake of two processors |

Interactions. Screens call the manager directly, under its lock. The service's
worker calls `dl_manager_step` in a loop. The player blocks or slows the manager
(`dl_playback_begin/end`), a sign-in gives it a header (`dl_set_auth_header`).
The manager calls the store and the platform (`dl_platform.h`: sockets, files,
free space). Everything else is a reader.

What makes the downloads correct, in the order of importance used here:

1. what the library offers is the whole film, and one film;
2. a power cut loses no item and changes no item's state, and what was removed stays removed;
3. the partial is never thrown away for nothing, and the record never claims
   bytes the disk does not have;
4. one transfer at a time; posted control is taken up; failures at the front of the queue
   leave the rest a chance; nothing is retried for ever without progress;
5. the reserve of free space is kept.

What makes a playback correct:

1. no thread writes what another one, or the GPU, is reading;
2. pictures are shown in order, none twice, none of before a seek after it;
3. no packet is lost, fed twice or fed out of order; and no two threads wait for each other;
4. the screen says what the ear hears, and a press does something;
5. a mode that shows nothing is left, and not entered again.

## 2. The modules

| Module | Models | Lines of code |
|---|---|---|
| `DlModel` | states, events, `dl_next_state`, `dl_error_for_http_status`, `dl_error_retryable` | `dl_model.cpp` |
| `DlManager` | table, user calls, worker, restore, gates, service stop, power cut | `dl_manager.cpp`, `dl_service.cpp`, results of `dl_store.cpp` |
| `DlSpace` | `space_gate`, `write_margin` and the buffer | `dl_manager.cpp` 209, 681-723, the body loop |
| `DlStore` | one item directory call by call | `dl_store.cpp` |
| `DlTransfer` | bytes of one item through `attempt()` | `dl_manager.cpp` 880-1210, `dl_ts.cpp` |
| `DlFile` | abstract promise about an item's bytes | implemented by `DlTransfer` |
| `JBuf` | ring of decoded pictures; decode, upload and display thread; a seek's flush | `video/jbuf.cpp`, `vdec_pull_frame`, `upload_thread_fn`, `player_display_frame`, `player_execute_seek` 213-255 |
| `ReadAhead` | the decode thread between socket, ring and decoder | `player_threads.cpp` 76-308, `vdec_submit`, `video.cpp` 94-130 |
| `Display24p` | marker, answers, candidates, switch and way back | `video/display_24p.cpp` |
| `MusicEngine` | stream and pump thread, one command cell, one boundary, start and stop | `music/music_player.cpp` |
| `DlManager_proofs`, `DlSpace_proofs`, `DlStore_proofs`, `DlTransfer_proofs`, `JBuf_proofs`, `ReadAhead_proofs`, `Display24p_proofs`, `MusicEngine_proofs` | theorems of the module of that name, with the inductive invariant they rest on (section 4) | |
| `MC...` | finite values for TLC | |

`DlManager` EXTENDS `DlModel`. `DlStore` opens the single steps that `DlManager`
takes for a save and a removal; `DlTransfer` and `DlSpace` open its body loop.
`DlTransfer` instantiates `DlFile` with a refinement mapping. `ReadAhead` sees of the
jitter buffer only how full it is, `JBuf` sees of the decoder only that a picture
comes or fails: the two meet at `vdec_pull_frame`, an action of each.

### How DlManager corresponds to the code

- A call of the user is one action, since it runs under `LOCK()`.
- The worker is cut at each point where it does not hold the lock. `pc` names
  where it is: `idle` (between two steps), `pick` (the holds have been read without the lock, the
  slot not yet chosen: somebody may set a hold in between, as in the code),
  `start`, `connect`, `head`, `body`, `verify`, `rename`, `finish`, and `off`
  (before `dl_manager_init`).
- `r` is the worker's private copy of the record, `have0` is `have_at_start`,
  `tok` the session its request carries, `out` the `Outcome`.
- `finish()` has one action per branch, in the order of the code's tests.
- `disk` is what survives. A save into a directory that is gone fails
  silently, as `transition` and `finish` let it.
- A file is its length, in units of `Size`. A backoff is the flag `due`.
- A full and an unreadable disk are one reading, `LOW`: the code treats both the same but
  for the error it shows.
- `Crash` may come between any two steps, and also within `dl_enqueue` (the
  directory exists, no record) and within `dl_store_remove_item` (media gone,
  record there or gone).
- A body may come without a length (`lengthNamed` FALSE: a live transcode): it ends wherever the
  server or the line ends it, and what has come counts as the whole. A write that fails may leave bytes in the
  partial that nobody has counted (`AfterBadWrite`, a short write in `flush_buf`). A 200 whose
  partial cannot be discarded ends the attempt with both still there (`HeadUncut`).
- `Damage` shortens a finished file, or makes a record unreadable, while the app is off: the cases
  the corrupt and the rebuilding branch of `restore_one` are for (a film whose metadata cannot be
  read is not rebuilt as one: `known`).

### DlTransfer

`part` and `media` carry their length and the set of film versions their bytes
come from, so a splice is visible. `synced` is what a power cut cannot take.
Write, fsync and save are separate steps in the code's order; any attempt may
be interrupted, the film replaced, the power lost. An item is a file (length and ranges known), or a
transcode (neither, ended by its last chunk and checked by the stream's
duration). A response carries one version: replacing the film while it is being
sent is not modelled.

Films of one length count as one: a server tells two films apart by nothing but the total its
206 names, and where those agree the code appends. So `NeverSpliced`, `MediaNearlyWhole` and `DlFile` ask that
the lengths of what is mixed agree, and no more. A server whose 206 names no total (`item.shown`
FALSE, "/*") can have anything appended (`dl_manager.cpp:999`, `range_total < 0`); the promises about content are for the others.
`DlFile` has the lengths of the films as a variable that does not change, and `enough[v]`, the
lengths that pass for the whole of one.

### DlSpace and DlStore

`DlSpace` keeps numbers and no protocol: two gates before the body, one each
`Check` bytes in it, a buffer flushed when a full read no longer fits. `DlStore` gives each platform call a step; a write that
fails is handled by the code, so it is free; a power cut, a removal or rename
that fails counts as a fault. A removal takes the media, the record, its `.tmp`, the media once
more, and the manager forgets the item whatever was left behind; a later `dl_enqueue` or start finds the rest. `hurt` counts the faults since a save last went through or the
item last went: `CrashLeavesOldOrNew` and `MediaHasRecord` are about one at a time, any number of times over, because two in a
row do lose both copies (section 3).

### JBuf

A picture is its number in decode order. `data` is the slot's buffer pointer and `pix` what
is in each buffer, so that trading pointers, writing outside the lock and copying outside the
lock are different things. The upload thread is cut where it leaves the lock (`UploadLooks`)
and where it publishes. The display thread's choice of when a picture has lasted long
enough (durations, A/V drift, 1:1 cadence, blending) is data: `Gate(drops, pop)` may at any vblank drop late
pictures, all but the last, and pop the front or keep it. What the code does at
that vblank follows in order: `rsxSync`, clear `s_vid_frame_ready`, toggle
`s_vid_disp_idx`. A seek joins the decode thread, clears the ring, unstages and prefills,
all from the display thread, with the upload thread running.

Two constants name assumptions about time, TRUE in the run: `FlipAtOnce`, no thread runs
between the two adjacent stores of a flip; `CopyEnds`, an upload under way ends during the
about 200 ms a seek spends closing and opening the decoder. With the first FALSE TLC finds
the upload thread filling the texture on the screen; with the second FALSE, an old picture shown after the
seek (`s_seeking`, set to "gate upload thread during flush window", `player_seek.cpp:219`, is
never read by it).

### ReadAhead

One video packet stands for one access unit and one picture, a packet is its number in the
stream. `pc` follows the loop: `feed` (top, buffered video first), `drain`, `batch`, `got` (feed
again), `place`, `pull`, and `submit` from wherever the decoder is fed, with `ret` the way back. A submit may find
all units busy and pulls pictures while it waits, as `vdec_submit` does. Three things of a submit are left out: the 500 ms
after which it overwrites a unit (`vdec.cpp:373-385`), since `NeverBacksUp` says that the wait is never one that only
a viewer could end; an access unit given up after 200 BUSY answers (408-424), so `StreamIntact` ends where
`vdecDecodeAu` begins; and the pull right behind a submit (`video.cpp:127-128`), which only empties the
decoder sooner.

### Display24p

The four files are variables, and every write to one is a step, or two where the emptied file
means something else than the old one: `conf_put` reads all answers, empties the file and writes
them back with the new one (`Ask`, `Truncate`, `Write`), and `d24_boot_check` empties the switch, which then means
on, before it writes its 0. `Die` can come between any two. What is written between is one
buffer of the C library, so a half-written line is not modelled, nor is `conf_put`'s limit of 31 lines. `Die` puts the output in the system's own mode. A television is what it advertises and
what it shows; the clock of each bit is the console's. `Begin` is everything before the marker that changes nothing else; `Bit(b, c)` is one turn of
the loop that collects the candidates (402-408).
`rejected` remembers the modes turned down, since the console last died with the answers file
empty. A file that cannot be written (a full HDD), and `revert`'s calls failing, are not modelled.

### MusicEngine

Sound is counted in units known by track and place, `heard` is the last one played. A track's
start is cut at each lock: flush, clocks, boundary, publish, open; a command is read and
cleared in two steps, and its argument read only after the track's blocking calls. The
stream thread's `s_pos + 1 < s_count` and its increment are one step, so is the way `s_pos` takes from
`s_ui_pos` to the track a command asks for (786-802: the first half is under the lock, the second is not,
and a new play order could fall in between), and so is everything `music_stop` does before it returns. Trimming of encoder padding is left out, a unit being more than that. A track
is at least a block long (a shorter one keeps `play_local_track` waiting at 499 for a
boundary that is never heard). `torn` remembers that a pending boundary was overwritten, or moved by a new play order
to a track it does not belong to: `ScreenFollowsSound` says that nothing else parts screen and sound.

## 3. The runs

Every bound is a constant with "bound:" in its comment.

| Run | Shows | Bounds and why they are enough |
|---|---|---|
| `DlManager_one` | one item under every event; all of the safety properties but the ones below | 2 units per film give a proper part; 2 attempts tell a retry from giving up; 1 attempt for bad media tells the two limits apart; 2 sessions are a revocation and a new sign-in; a server that names its lengths and one that does not; 1 power cut at any step; 1 enqueue per start of the app (`DlManager_two` removes and adds again) |
| `DlManager_two` | two items in two slots: queue places, reused slots, restore in any order, 1 damaged file or record | symmetric items; 1 unit, 1 attempt: what one item does alone is the other run's matter |
| `DlManager_live` | `ControlIsTaken`, `FirstTwoGetTheirTurn` | 2 items, since a third is out of TLC's reach under fairness (and is promised nothing); no symmetry, since the properties are temporal; 3 attempts, so that a part dropped and fetched again resets the count and failures can go on for ever |
| `DlSpace` | the strengthened and the plain reserve property | a buffer of 4 against a gate every 3, disks below, at and above the margin; the constraint ends files at 16 units |
| `DlStore` | save, load, removal with faults | 6 saves and 3 faults: power cuts, failed removals (of media, record or `.tmp`) and renames, before and after a save that heals the last one |
| `DlTransfer` | bytes; refinement of `DlFile`; `FilmArrives` | films of 4 and 5 (or 2) units, a buffer of 3, 3 failures, 1 power cut; a longer and a shorter replacement, and one of the same length |
| `JBuf` | nothing read is written, order, nothing old, no circular wait | 5 slots: 2 locked by blending and room to reorder behind them; a B-frame pyramid, a discontinuity, a picture without a time stamp; 1 seek at any moment |
| `ReadAhead` | the packets stay in order and whole; the decoder never backs up; reading goes on in a pause | a ring of 3 and none at all; 10 packets of both kinds wrap it; jitter buffer and decoder of 2; 1 seek; the thread ends with the stream, so deadlock is not checked |
| `Display24p` | no black screen that comes back | 3 playbacks, 2 deaths (the second while recovering from the first), one television that shows every mode and one that stays black at one it advertises |
| `MusicEngine` | screen and sound, nothing cut off, the queue ends, presses are taken up | 3 tracks, two of which fit in the ring behind another; 1 command, 1 new play order, any number of pauses; it ends when the user leaves, so deadlock is not checked |

Expected violations, told in `PROJECT.json` under `findings`:

| Run | Property | In short |
|---|---|---|
| `DlManager_readd` | `AcceptedIsOnDisk` | an item added again while its removal is pending is deleted |
| `MusicEngine_short` | `ShownIsHeard` | a short streamed track's boundary overwrites one not yet heard; files wait for it, streams do not |

Other places where code and documents part, met while modelling and listed as hazards
with their lines: a pause or cancel posted while the attempt fails is dropped
(`dl_manager.cpp:1232`); the 401 of an old session holds the queue of the new one (1274); a
shortened film, downloaded again, can be COMPLETED after a restart (254); two faults in a row lose
both copies of a record (`dl_store.cpp:37`); a part of a film passes for a shorter film of just that
length that replaced it (`dl_manager.cpp:982`); a removal posted to the active item is in memory only until the
attempt ends (520-525), so a power cut brings the item back although `dl_remove` returned OK and
`dl_manager.h:12-14` says that every state change is persisted; a body without a length that the line cuts short is COMPLETED (1142, 1173); of three queued items the third
is not started as long as the first two keep failing with progress (1266, 1313); and a television's rejected mode is
tried again after the console died inside `conf_put` (`display_24p.cpp:148`), although the log says it "will not retry until jf_24p_confirmed.txt
is deleted" (570-571). All but the third item, which follows from the code's backoffs, were counterexamples of TLC.

The passing runs leave these cases out by a constant or a condition that says so:
`ReAddWhileRemoving = FALSE`, `hurt <= 1`, `damages = 0`, `item.shown`, `lengthNamed`, `torn = "no"`, `RemovalPending(id)`, two `Ahead`,
`rejected` emptied by a death during `Write`; `RestartKeepsQueue` and
`MediaNearlyWhole` state how much the code does keep. `PartialIsKept` is checked and proved where nothing
is damaged from outside: with a finished file shortened twice over, and a restart in the middle of the second download, the record
ends with a length shorter than the partial, and a retry drops it. Every property of a passing run has a mutant: a plausible
bug in a definition of the code, kept beside it as "Faulty variant", under which TLC
finds the property violated. Type invariants are in the list of a run where the type says more than a
type (`DlManager_one`); elsewhere `TypeOK` is kept as the statement of what the variables are.

### Fairness

- `DlManager!FairSpec`: weak fairness of the worker and restore together. The
  worker is a thread in a loop, and each of its waits has a deadline (connect,
  head and idle timeouts, a 50 ms to 1 s sleep). It is not fair to single
  outcomes: an attempt may fail each time. Strong fairness of `Tick`: a backoff is finite and
  time passes whenever the worker sleeps or transfers. `FirstTwoGetTheirTurn` assumes
  that in the end the session is good, the disk has room, nothing suspends the
  queue and the user leaves it alone. It does not assume that a transfer ever succeeds.
- `DlTransfer!FairSpec`: weak fairness of the worker; failures are bounded by
  `MaxFails` and power cuts by `MaxCrashes`.
- `JBuf!Spec`: each thread is a loop and runs again and again (weak fairness of its
  steps). Strong fairness of `Push`: the decoder, though it may fail (`vdecGetPicture`), does not fail for
  ever; of `Gate(0, 1)`: a picture's duration runs out. The user need not unpause: a pause is a gate that does not come
  yet, and one that never comes is not what `QueueDrains` is about.
- `ReadAhead!Spec`: the decode thread's loop and the decoder run; the socket is readable
  again and again (strong fairness of `Read` and of the end). Nobody need watch or listen.
- `MusicEngine!Spec`: the stream thread and the pump thread run. The user need do nothing;
  `QueueFinishes` excepts a pause.
- `Display24p` has safety only: each of its waits is bounded, but a console may die.

## 4. What is proved

Every safety property of a passing run, state invariant or action property, is also a theorem, for every value of the
constants: any number of items, slots, films, pictures, televisions, tracks, saves, power cuts
and failures. So is the refinement of `DlFile` by `DlTransfer`. Each follows from an inductive invariant
of its module; one lemma (or one case) per action says that the action keeps it. The named ASSUMEs of the modules are the only assumptions on constants,
and TLC evaluates them in the runs. Where a theorem has a further hypothesis, its statement says so:

| Hypothesis | Of | Why the code justifies it |
|---|---|---|
| `OncePerItem` (`~ReAddWhileRemoving`) | the theorems of `Sound` in `DlManager_proofs` | without it they are false: `DlManager_readd` is the counterexample |
| `damages = 0` | `CompletedIsWholeAlways` (state by state), `PartialIsKeptAlways` (of the run) | a finished file shortened from outside is fetched again with the record's size forgotten (`dl_manager.cpp:399`), a record lost is rebuilt without it; until then the app alone writes its files |
| `TotalsShown` | `TransferKeepsPromise` only | a server whose 206 names the total, as a static file's does; the invariants of `DlTransfer` say `item.shown` themselves |
| `FlipAtOnce`, `CopyEnds` | `JBuf_proofs`, but for `QueueInOrderAlways` | the two facts of timing of section 2: without them TLC finds the violations told there |
| `ClocksDiffer` | `RejectedStaysOffAlways` only | "which of 0x10/0x20 is 23.976 is learned" (`display_24p.cpp:393`): one is, the other is 24.000; were both alike, the answer to one bit would not keep the other from the candidates |

**`DlManager_proofs`**, in three layers.

- `IInv` (`IInvAlways`): types and one transfer. `TypeOK` is not inductive: a record's bytes stay in
  `0..Size` only if the partial on disk does, and its attempts stay in `0..MaxAttempts` only
  if a record that waits in the queue has used up less than its limit, in the table, on disk (a
  restart reads it back) and in the worker's copy. So `IInv` types every record as a `GoodRec`,
  says that a used record names an item, and carries `OneTransfer` with the worker's copy
  (`WorkerRec`). From it: `TypeOKAlways`, `OneTransferAlways`, `RetriesAreBoundedAlways`.
- `Owners`, on top: `Table`, the table is filled by a restart and only then, and an unused slot is
  an empty one; `Owned`, every directory on disk has its entry, every record lies in its own
  directory, and a restart finds no more directories than it has slots. The last is what lets restore make an entry of
  every directory, and it survives a power cut because entries and directories are counted against each other. From it, with no
  hypothesis: `RemovedIsGoneAlways`, `CompletedIsFinalAlways`, `StopIsObeyedAlways`.
- `Sound`, on top (`SoundAlways`, needs `OncePerItem`): `Saved`, what the records say together (no two in one place in
  line, an absent directory is empty, lengths are such as a body can have (`Lengths`) unless damaged); `Entries`, each entry of the table
  is on disk in its state and place, an idle one claims no byte its partial does not hold, a
  completed one its media; `Transfer`, the worker's copy counts the bytes on disk at every place of the
  attempt, all of them until a write fails, and what is verified and renamed has the length the record will name. From it: `EachItemListedOnceAlways`,
  `DoneIsOnDiskAlways`, `RestartKeepsQueueAlways`, `CompletedIsWholeAlways`, `PartialIsKeptAlways`.

**`DlTransfer_proofs`**: `NeverSplicedAlways`, `MediaNearlyWholeAlways`, `RecordNeverAhead`, and the
refinement `TransferKeepsPromise`, step by step. `Synced`: nothing waits in the buffer from the fsync to the
save. `Bytes`: the partial is no longer than the film it is from; the record on disk knows that
film's length, and it is the one the table has but for a 416 that ends the attempt (`TotalKnown`); a body carries more of the
same film (`BodyFits`); a transcode is fetched in one piece; what is verified has the length of a film that
was or is there.

**`DlStore_proofs`**: `CrashLeavesOldOrNewAlways`, `MediaHasRecordAlways`, `LoadNeverGoesBackAlways`. `Order`
holds whatever fails: at each place of a save or removal, which of the two files can be what. `Acked` and
`MediaFirst` hold while nothing has failed (`hurt = 0`), and a fault passes from them to the properties.

**`DlSpace_proofs`**: `ReserveNearlyKeptAlways`. The gate's arithmetic makes a credit: after a gate
the disk has the reserve and the margin less what was already in the buffer;
what has been received since, written or not, spends it, and the next gate
comes before it is gone. `SpaceInv` states that balance. The bound is exact up
to the part of the buffer a gate does not count, `Buf - RecvMin`; the comment at
`dl_manager.cpp:205` ("no write ever lands inside the reserve") would need 0.

**`JBuf_proofs`**: `QueueInOrderAlways` from `Ring` alone (the ring holds pictures of this stream, each once, each
in its own buffer, in order behind the slots in use). `SlotsNotRacedAlways`, `TextureIsRetiredAlways`,
`StagedIsFrontAlways`, `NeverBackAlways` from `Ring` and `Sharing`: whose turn it is with the textures
(`Turns`), that what is being copied or staged is the front of the queue (`Copying`, `Staged`), and that a picture on the screen is
at the front or has left the queue (`Shown`). The step that matters is a push: it trades buffers only behind the
slots in use, so that the copy under way and the picture staged stay what they were.

**`ReadAhead_proofs`**: `NeverBacksUpAlways`: with the counts inside their limits it is inductive, since a submit begins with room
in the jitter buffer, and what takes that room away while it waits is a picture pulled, which leaves the
decoder room for one more. `StreamIntactAlways` from `SInv`: what was read and not yet submitted (`Due`) is exactly what is in
the ring, in hand or just read, nowhere twice, and in that order; and a packet was read because there was
room for it (`Placed`), so that the place where the loop gives a packet up is never reached with a full ring.

**`Display24p_proofs`**: `MarkerCoversModeAlways` from `Marked`, which says at which places of the session
the marker is there; `BurntStaysOffAlways` from `Off` on top of it: after a death while switched
either the boot has still to look at the marker or 24p is off. `FilmIsSeenAlways` from `Seen` (answers on disk are true, the
answer in hand is the one on disk, and from the measurement on the mode is the candidate at the film's clock);
`RejectedStaysOffAlways` from `Learned` (nobody is asked about a bit before its clock is measured and remembered) and
`Keeping` (what `conf_put` holds while the file is empty is what it read, and the new answer).

**`MusicEngine_proofs`**: `VideoUntouchedAlways` from `LeftBehind`; `ScreenFollowsSoundAlways` and
`NothingCutOffAlways` (and `TypesAlways`) from `Types`, `Control` (what the stream thread knows at each place), `Uncut` (on a file's way to a
flush the ring is short or the user asked), `Waited` (a file waits until its predecessor's boundary was heard) and `Synced`: every unit of the
ring, counted from the clock, is of the track shown up to the boundary and of the next one from its start behind it (`Due`).

Only model-checked: what is temporal beyond safety (`ControlIsTaken`, `FirstTwoGetTheirTurn`,
`FilmArrives`, `QueueDrains`, `ReadsAhead`, `QueueFinishes`, `CommandsTaken`), since liveness under fairness and
ENABLED are out of the prover's reach; and the two expected violations, which are not theorems. Facts by induction over the
length of a sequence are avoided: the invariants quantify over places instead.

## 5. Not modelled

Inside the downloads: artwork; pacing beside a light stream; the committed-bytes
term in `dl_enqueue`'s space check (a refusal for space is already possible at any time); I/O errors inside
`dl_enqueue`; the text form of a record; the choice of a root among several;
`dl_plat_write_file` without fsync (a call is on the disk when it returns); the
scan of the stream but for its verdict. `dl_http.cpp`, `dl_season.cpp`,
`dl_library.cpp`, `dl_request.cpp` and the screens have no module yet or need none.
In the pipeline: durations and A/V synchronisation, allocation, the drawing itself, statistics
and watchdog, the seek's retries and sessions, the audio queues. In the 24 Hz switch: the
arithmetic of the measurement. In the music engine: padding, reports to the server, the
album fetch. Elsewhere: see `components` in `PROJECT.json`. Drawing, parsing, codecs and
vendored or generated code (nearly all of the repository's lines: fonts, images, decoders, a
file system) stay out: it is data or arithmetic, not control.

## 6. Plan

Done: the downloads, `JBuf`, the read-ahead pipeline, `Display24p`, `MusicEngine`. Left, in this order:

1. `PlayerSeek`: the seek's input and `player_execute_seek` with its retries, early returns and
   the `paused` and `seeking` flags, over `JBuf` and `ReadAhead`.
2. `DlService`: start, stop, move of the store, callers at any moment; failed saves and removals in `DlManager`.
3. `DlHttp`: the chunked decoder as a recursive function against a
   reference definition; bodies of undeclared length in `DlTransfer`. `DlTs`: span and wrap of time stamps.
4. `ThumbnailCache`; the SPU job mailbox.
5. Small functions: receive gap, stream budget, live watch, backoff.

Theorems next: which restarts may drop a partial once files are damaged from outside, so that `PartialIsKeptAlways` and
`CompletedIsWholeAlways` can do without `damages = 0`; the type invariants of the modules whose proofs carry them as part of
their own invariant; lemmas about `DlModel`'s table for every state and event; then the modules above, each with its proofs.
