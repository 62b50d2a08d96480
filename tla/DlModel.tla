------------------------------ MODULE DlModel ------------------------------
(***************************************************************************)
(* The pure rules of offline/dl_model.cpp: which event moves an item from  *)
(* which state, which errors are retried, what an HTTP status means, and   *)
(* how long a retry waits.  No variables: DlManager applies these rules.   *)
(***************************************************************************)
EXTENDS Integers

States == {"QUEUED", "DOWNLOADING", "PAUSED", "COMPLETED", "FAILED", "CANCELLED"}

Events == {"START", "PAUSE", "RESUME", "CANCEL", "COMPLETE", "FAIL_RETRY",
           "FAIL", "RETRY", "INTERRUPTED"}

TransientErrors == {"UNREACHABLE", "TIMEOUT", "NETWORK", "PARTIAL", "SERVER",
                    "BAD_RESPONSE", "BAD_MEDIA"}

PermanentErrors == {"HTTP", "AUTH", "NOT_FOUND", "NO_SPACE", "DISK",
                    "UNSUPPORTED", "CORRUPT", "SPACE_UNKNOWN"}

Errors == {"NONE"} \cup TransientErrors \cup PermanentErrors

\* dl_error_retryable
Retryable(e) == e \in TransientErrors

\* The switch of dl_next_state, one triple per arm: <<from, event, to>>.
Transitions ==
  {<<"QUEUED", "START", "DOWNLOADING">>,
   <<"QUEUED", "PAUSE", "PAUSED">>,
   <<"QUEUED", "CANCEL", "CANCELLED">>,
   <<"DOWNLOADING", "PAUSE", "PAUSED">>,
   <<"DOWNLOADING", "CANCEL", "CANCELLED">>,
   <<"DOWNLOADING", "COMPLETE", "COMPLETED">>,
   <<"DOWNLOADING", "FAIL_RETRY", "QUEUED">>,
   <<"DOWNLOADING", "INTERRUPTED", "QUEUED">>,
   <<"DOWNLOADING", "FAIL", "FAILED">>,
   <<"PAUSED", "RESUME", "QUEUED">>,
   <<"PAUSED", "CANCEL", "CANCELLED">>,
   <<"FAILED", "RETRY", "QUEUED">>,
   <<"FAILED", "CANCEL", "CANCELLED">>,
   <<"CANCELLED", "RETRY", "QUEUED">>}

Legal(s, ev) == \E n \in States : <<s, ev, n>> \in Transitions

\* apply(): the next state when the event is legal, the same state otherwise.
Apply(s, ev) == IF Legal(s, ev)
                THEN CHOOSE n \in States : <<s, ev, n>> \in Transitions
                ELSE s

\* dl_error_for_http_status, for the statuses dl_manager's attempt() passes
\* to it (neither 200, 206 nor 416).
ErrorForStatus(status) ==
  CASE status = 401 -> "AUTH"
    [] status = 403 -> "HTTP"
    [] status \in {404, 410} -> "NOT_FOUND"
    [] status \in {408, 429} \cup (500..599) -> "SERVER"
    [] status \in (400..499) \ {401, 403, 404, 408, 410, 429} -> "HTTP"
    [] status \in 200..299 -> "NONE"
    [] OTHER -> "BAD_RESPONSE"

=============================================================================
