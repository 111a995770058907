\* Two sealers, a verifier and an exporter; a sealer and a verifier on damaged
\* storage; a sealer and an archiver over two periods, verified or not.
CONSTANTS
  s1 = s1  s2 = s2  v1 = v1
  Sealers = {s1, s2}
  Verifiers = {v1}
  MaxSeq = 3
  MaxPeriod = 2
  MaxFaults = 2
  Setups <- All
SPECIFICATION Spec
INVARIANTS TypeOK SealsLinked VerifiedMeansIntact AnchoredInWorm 
           ArchivedAsChecked
CHECK_DEADLOCK FALSE
