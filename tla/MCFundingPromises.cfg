\* Two callers, a restart, and expectations that replace each other.  Each promise is
\* violated by a behaviour of its own: name one at a time.
CONSTANTS
  w1 = w1
  w2 = w2
  e1 = e1
  e2 = e2
  e3 = e3
  Direct = Direct
  Workers = {w1, w2}
  Expectations = {e1, e2, e3}
  First = e1
  MaxTopUps = 3
  MaxCrashes = 1
  TornSaves = FALSE
SPECIFICATION FairSpec
INVARIANT OneTopUpUnderWay
\* INVARIANT AnswerCanBeSaved
\* INVARIANT ObservationsAreKept
\* PROPERTY QueueEnds
\* PROPERTY ReservationEnds
CHECK_DEADLOCK FALSE
