\* MaxClaims = 3: a claim, its takeover, and a takeover of that.
CONSTANTS
  c1 = c1
  c2 = c2
  w1 = w1
  w2 = w2
  Cases <- MCCases
  Workers <- MCWorkers
  Versions <- MCVersions
  MaxClaims = 3
SPECIFICATION Spec
SYMMETRY Symmetry
INVARIANTS TypeOK OneReservation ExecutingIsReserved SingleWriter
PROPERTY FencedWrites
