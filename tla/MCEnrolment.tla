---------------------------- MODULE MCEnrolment ----------------------------
(* Instances of Enrolment for TLC. *)
EXTENDS Enrolment, TLC

Calls == {"REGISTER", "LIST_CLIENT"}

\* Installations, threads, names, identifiers and keys are interchangeable.
Alike ==
  Permutations(Clients) \cup Permutations(Conns) \cup Permutations(Names)
    \cup Permutations(Ids) \cup Permutations(Keys)
=============================================================================
