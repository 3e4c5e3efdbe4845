\* Five accounts: gaps at the head, in the middle and at the end of the array.
SPECIFICATION Spec
CONSTANTS
  Accounts = {u1, u2, u3, u4, u5}
INVARIANTS
  TypeOK
  ListConsistent
PROPERTY
  ImplementsSet
