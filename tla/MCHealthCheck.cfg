CONSTANTS
  Workers = {w1, w2}
  Peers = {p1}
  Fall = 2
  Rise = 1
  MaxVersion = 2
  MaxRespawns = 1
  NoPeer = NoPeer
  Nobody = Nobody
  Dead = Dead
SPECIFICATION FairSpec
INVARIANTS TypeOK OneChecker CurrentWorkersAgree
PROPERTIES TurnedInARow WorkersLearn
