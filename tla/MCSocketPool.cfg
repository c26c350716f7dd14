CONSTANTS
  Socks = {s1, s2, s3}
  Keys = {k1}
  Conns = {c1, c2, c3, c4}
  PoolSize = 1
  Backlog = 1
  Options = {"none", "size", "limit"}
  Rekeys = TRUE
  None = None
SPECIFICATION FairSpec
INVARIANTS TypeOK ConnectionsHaveOneOwner CountsAgree PoolKeptWhileUsed QueueWatched
PROPERTY QueuedIsAnswered
CHECK_DEADLOCK FALSE
