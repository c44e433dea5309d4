SPECIFICATION Spec
CONSTANT N = 4
INVARIANTS
  TypeOK
  SetupSound
  TakesFirstAddress
CHECK_DEADLOCK FALSE
