CONSTANTS
  p1 = p1
  p2 = p2
  Groups <- OneAndTwo
  Callers = {c1, c2}
  MaxBundles = 6
  MaxCrashes = 1
  Providers <- BothProviders
  Missing <- OnlyBinary
  Nobody = Nobody
SPECIFICATION FairSpec
INVARIANTS OneBundle MaskedBeforeUse
PROPERTIES CallersReturn ImplementsSharedBundle
CHECK_DEADLOCK FALSE
