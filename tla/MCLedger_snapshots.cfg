\* Two validators with snapshot files crash at any point.
SPECIFICATION Spec
CONSTANTS
    s1 = s1  s2 = s2  k1 = k1  k2 = k2  x = x  y = y  n1 = n1  n2 = n2  NONE = NONE
    Senders = {s1, s2}
    Keys = {k1, k2}
    Owner <- OwnKeys
    Values = {x, y}
    Txs <- SixTxs
    Malformed <- BadTxs
    Nodes = {n1, n2}
    Stored = {n1, n2}
    MaxHeight = 3
    MaxTxs = 2
INVARIANTS TypeOK ExecutionIsSequential AppliedOnce HoldsReplay SameHistory DiskKeepsUp NoGap
PROPERTIES NoRollback LogSpec
\* The last height ends the run.
CHECK_DEADLOCK FALSE
