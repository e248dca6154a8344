\* Two clients, five messages; calls fail and clients restart.  A file takes every step a
\* text takes, and may fail to be saved.
SPECIFICATION Spec
CONSTANTS
  Users = {u1, u2}
  Secrets = {k1, k2}
  MaxPosts = 5
  Types = {"KEY_REQUEST", "KEY_SEND", "FILE"}
  MayFail = TRUE
  Acquainted = FALSE
  NoThing = NoThing
SYMMETRY Anyone
INVARIANTS
  TypeOK
  TextsReadable
  KeysAgree
CHECK_DEADLOCK FALSE
