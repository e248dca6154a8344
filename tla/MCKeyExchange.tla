--------------------------- MODULE MCKeyExchange ---------------------------
(* Instances of KeyExchange for TLC. *)
EXTENDS KeyExchange, TLC

\* Users and secrets are interchangeable.
Anyone == Permutations(Users) \cup Permutations(Secrets)
=============================================================================
