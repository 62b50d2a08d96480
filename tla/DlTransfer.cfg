\* A file, a transcode and a file that gets shorter, each replaced once; one power cut.
SPECIFICATION FairSpec
CONSTANTS
  Versions <- TwoFilms
  Items <- AllItems
  Slack = 1
  Cap = 3
  RecvMin = 2
  MaxFails = 3
  MaxCrashes = 1
CHECK_DEADLOCK FALSE
INVARIANTS MediaNearlyWhole NeverSpliced
PROPERTIES RecordNotAhead FilmArrives PromiseKept
