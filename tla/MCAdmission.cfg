CONSTANTS
  JobIds = {j1, j2}
  o1 = o1
  o2 = o2
  o3 = o3
  Osts <- MCOsts
  Limits <- MCLimits
  NewJobs <- MCNewJobs
  MaxTime = 1
  UintMod = 8
  FloatExact = 4
  Null = Null
  MaxListed = 3
SPECIFICATION Spec
SYMMETRY JobSymmetry
INVARIANTS ListsSorted JobsAreListed
