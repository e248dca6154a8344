------------------------------ MODULE MCServer ------------------------------
(* Instances of Server for TLC. *)
EXTENDS Server, TLC

Mail == {"SEND_MESSEGE", "GET_MESSEGES", "UNKNOWN"}
Registry == {"REGISTER"}
Everything == Codes \cup {"UNKNOWN"}

\* Threads, users and names are interchangeable.
Everyone == Permutations(Conns) \cup Permutations(Ids) \cup Permutations(Names)
=============================================================================
