\* Three playbacks, two deaths, two televisions.
SPECIFICATION Spec
CONSTANTS
  TVs <- MCTVs
  Advertised <- MCAdvertised
  Shows <- MCShows
  Clock <- MCClock
  MaxSessions = 3
  MaxDeaths = 2
INVARIANTS MarkerCoversMode BurntStaysOff FilmIsSeen
PROPERTY RejectedStaysOff
