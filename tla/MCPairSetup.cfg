\* Two clients that pair at the same time, with two PINs between them and the receiver.
CONSTANTS
  Clients = {a, b}
  Pins = {p, q}
SPECIFICATION Spec
INVARIANTS
  TypeOK
  KeysAgree
  InStepUntilPaired
SYMMETRY ClientSymmetry
\* Every attempt comes to an end.
CHECK_DEADLOCK FALSE
