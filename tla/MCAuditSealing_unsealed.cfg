\* Sealer and archiver, undamaged storage.
CONSTANTS
  s1 = s1  s2 = s2  v1 = v1
  Sealers = {s1, s2}
  Verifiers = {v1}
  MaxSeq = 3
  MaxPeriod = 2
  MaxFaults = 2
  Setups <- Archiver
SPECIFICATION Spec
INVARIANT ArchivedSealed
CHECK_DEADLOCK FALSE
