SPECIFICATION Spec
CONSTANT
  Versions = {"1.1", "3.0"}
INVARIANTS
  TempsBalanced
  SecretCopiesCleansed
CHECK_DEADLOCK FALSE
