\* Three clients that know each other, one secret for each pair; every call succeeds,
\* and batches are lost where handling a message throws.
SPECIFICATION Spec
CONSTANTS
  Users = {u1, u2, u3}
  Secrets = {k1, k2, k3}
  MaxPosts = 4
  Types = {"KEY_REQUEST", "KEY_SEND", "FILE"}
  MayFail = FALSE
  Acquainted = TRUE
  NoThing = NoThing
SYMMETRY Anyone
INVARIANT
  SecretsOfThePair
CHECK_DEADLOCK FALSE
