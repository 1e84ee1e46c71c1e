SPECIFICATION Spec
CONSTANTS
  t1 = t1
  t2 = t2
  s1 = s1
  s2 = s2
  s3 = s3
  Threads = {t1, t2}
  Slots = {s1, s2, s3}
  Owner <- MCOwner
  Blocks = {b1, b2, b3}
  None = None
SYMMETRY BlockSymmetry
INVARIANTS
  RefsValid
  WriteExclusive
  ContentStable
  PoolSafe
  NoLeak
  BufferInv
