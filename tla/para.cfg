CONSTANTS
  Threads = {t1, t2}
  NData = 2
  MaxVer = 2
  MaxSeed = 2
  Absent = Absent
  Nobody = Nobody
SYMMETRY Symmetry
SPECIFICATION Spec
INVARIANTS TypeOK Covered AllStored Kept
