---------------------------- MODULE ServerProofs ----------------------------
(***************************************************************************)
(* Theorems about Server, for every number of threads, users and messages: *)
(* type correctness, and the registrations.  The mail is the subject of    *)
(* ServerMailProofs.                                                       *)
(***************************************************************************)
EXTENDS Server, FiniteSetTheorems, TLAPS

(***************************************************************************)
(* Type correctness.                                                       *)
(***************************************************************************)

\* A database method keeps the tables well typed, whether it commits or raises.
LEMMA CommitType ==
  ASSUME DbTypeOK, NEW cs \in SUBSET User, NEW ms \in SUBSET Row,
         nextRow' \in Nat \ {0},
         Commit(cs, ms) \/ Raise(cs, ms) \/ Reload
  PROVE  DbTypeOK'
BY DEF DbTypeOK, Commit, Raise, Reload

\* A thread that closes forgets its request, user and response.
LEMMA CloseType ==
  ASSUME ThreadsTypeOK, NEW c \in Conns, Close(c)
  PROVE  ThreadsTypeOK'
BY DEF ThreadsTypeOK, Close, Goto, Stages

\* A thread that responds has a response.
LEMMA RespondType ==
  ASSUME ThreadsTypeOK, NEW c \in Conns, NEW r \in Response, Respond(c, r),
         UNCHANGED <<req, user>>
  PROVE  ThreadsTypeOK'
BY DEF ThreadsTypeOK, Respond, Goto, Stages

\* The error response is one.
LEMMA ErrorType == error_response \in Response
BY DEF error_response, Response

\* A batch holds rows of the table messages.
LEMMA BatchType ==
  ASSUME ThreadsTypeOK, NEW c \in Conns
  PROVE  Batch(c) \subseteq Row
BY DEF ThreadsTypeOK, Batch, Carries, Response

\* What a thread handling a well-formed request of each kind finds in it.
LEMMA RequestType ==
  ASSUME ThreadsTypeOK, NEW c \in Conns
  PROVE  /\ Handling(c, "REGISTER") => req[c].name \in Names /\ req[c].key \in Keys
         /\ Handling(c, "LIST_CLIENT") \/ Handling(c, "GET_MESSEGES") => req[c].cid \in Ids
         /\ Handling(c, "GET_PUBLIC_KEY") \/ Handling(c, "SEND_MESSEGE") =>
              req[c].cid \in Ids /\ req[c].target \in Ids
BY DEF ThreadsTypeOK, Handling, Request

\* The row that handle_messege stores is well formed.
LEMMA PostedType ==
  ASSUME TypeOK, NEW c \in Conns, Handling(c, "SEND_MESSEGE")
  PROVE  Posted(c) \in Row
BY RequestType DEF TypeOK, DbTypeOK, Posted, NewRow, Row

\* The initial state is well typed.
LEMMA InitType == Init => TypeOK
BY DEF Init, DbInit, TypeOK, DbTypeOK, ThreadsTypeOK, HistoryTypeOK, Stages

\* So is every later one.
LEMMA NextType == TypeOK /\ [Next]_vars => TypeOK'
<1> SUFFICES ASSUME TypeOK, [Next]_vars PROVE TypeOK'
  OBVIOUS
<1> USE DEF TypeOK
<1>1. ASSUME NEW c \in Conns, handle_connection(c) PROVE TypeOK'
  <2>1. CASE recv_request(c)
    <3>1. ThreadsTypeOK'
      BY <2>1 DEF recv_request, ThreadsTypeOK, Goto, Stages
    <3> QED
      BY <2>1, <3>1 DEF recv_request, dbVars, history, DbTypeOK, HistoryTypeOK
  <2>2. CASE recv_invalid(c)
    BY <2>2, RespondType, ErrorType
    DEF recv_invalid, dbVars, history, DbTypeOK, HistoryTypeOK
  <2> QED
    BY <1>1, <2>1, <2>2 DEF handle_connection
<1>2. ASSUME NEW c \in Conns, handle_error(c) PROVE TypeOK'
  BY <1>2, RespondType, ErrorType
  DEF handle_error, dbVars, history, DbTypeOK, HistoryTypeOK
<1>3. ASSUME NEW c \in Conns, handle_register(c) PROVE TypeOK'
  <2>1. CASE username_exists(req[c].name)
    BY <1>3, <2>1, RespondType, ErrorType
    DEF handle_register, dbVars, history, DbTypeOK, HistoryTypeOK
  <2>2. CASE ~ username_exists(req[c].name)
    <3>1. PICK id \in Ids :
            /\ minted' = minted \cup {id}
            /\ user' = [user EXCEPT ![c] =
                 [id |-> id, username |-> req[c].name, public_key |-> req[c].key]]
      BY <1>3, <2>2 DEF handle_register
    <3>2. [id |-> id, username |-> req[c].name, public_key |-> req[c].key] \in User
      BY <1>3, RequestType DEF handle_register, User
    <3>3. ThreadsTypeOK'
      BY <1>3, <2>2, <3>1, <3>2 DEF handle_register, ThreadsTypeOK, Goto, Stages
    <3> QED
      BY <1>3, <3>1, <3>3 DEF handle_register, dbVars, history, DbTypeOK, HistoryTypeOK
  <2> QED
    BY <2>1, <2>2
<1>4. ASSUME NEW c \in Conns, handle_register_add(c) PROVE TypeOK'
  <2>1. user[c] \in User
    BY <1>4 DEF handle_register_add, ThreadsTypeOK
  <2>2. DbTypeOK'
    BY <1>4, <2>1, CommitType DEF handle_register_add, add_client, DbTypeOK
  <2>3. ThreadsTypeOK'
    BY <1>4, <2>1 DEF handle_register_add, ThreadsTypeOK, Goto, Stages
  <2> QED
    BY <1>4, <2>2, <2>3 DEF handle_register_add, history, HistoryTypeOK
<1>5. ASSUME NEW c \in Conns, handle_register_print(c) PROVE TypeOK'
  <2>1. [code |-> "REGISTER", user |-> user[c]] \in Response
    BY <1>5 DEF handle_register_print, ThreadsTypeOK, Response
  <2> QED
    BY <1>5, <2>1, RespondType
    DEF handle_register_print, dbVars, history, DbTypeOK, HistoryTypeOK
<1>6. ASSUME NEW c \in Conns, handle_list_clients(c) PROVE TypeOK'
  <2>1. [code |-> "USERS", users |-> {u \in clients : u.id # req[c].cid}] \in Response
    BY DEF DbTypeOK, Response
  <2> QED
    BY <1>6, <2>1, RespondType
    DEF handle_list_clients, dbVars, history, DbTypeOK, HistoryTypeOK
<1>7. ASSUME NEW c \in Conns, handle_public_key_request(c) PROVE TypeOK'
  <2>1. PICK r \in Response : Respond(c, r)
    <3>1. \A u \in clients : [code |-> "PUBLIC_KEY", user |-> u] \in Response
      BY DEF DbTypeOK, Response
    <3> QED
      BY <1>7, <3>1, ErrorType DEF handle_public_key_request, get_public_key_of_user
  <2> QED
    BY <1>7, <2>1, RespondType
    DEF handle_public_key_request, dbVars, history, DbTypeOK, HistoryTypeOK
<1>8. ASSUME NEW c \in Conns, handle_messege(c) PROVE TypeOK'
  <2>1. Posted(c) \in Row
    BY <1>8, PostedType DEF handle_messege
  <2>2. DbTypeOK'
    BY <1>8, <2>1, CommitType DEF handle_messege, save_message, DbTypeOK
  <2>3. [code |-> "SENT", message |-> Posted(c)] \in Response
    BY <2>1 DEF Response
  <2> QED
    BY <1>8, <2>2, <2>3, RespondType DEF handle_messege, history, HistoryTypeOK
<1>9. ASSUME NEW c \in Conns, handle_pending_messeges(c) PROVE TypeOK'
  <2>1. WaitingFor(req[c].cid) \subseteq Row
    BY DEF WaitingFor, DbTypeOK
  <2>2. DbTypeOK'
    BY <1>9, CommitType
    DEF handle_pending_messeges, retrieve_and_delete_all_waiting_messages, DbTypeOK
  <2>3. [code |-> "MESSEGES", batch |-> WaitingFor(req[c].cid)] \in Response
    BY <2>1 DEF Response
  <2> QED
    BY <1>9, <2>2, <2>3, RespondType DEF handle_pending_messeges, history, HistoryTypeOK
<1>10. ASSUME NEW c \in Conns, database_raises(c) PROVE TypeOK'
  <2>1. ThreadsTypeOK'
    BY <1>10, RespondType, ErrorType DEF database_raises
  <2>2. DbTypeOK' /\ dropped' \subseteq Row
    <3>1. CASE Handling(c, "SEND_MESSEGE") /\ save_message_raises(Posted(c)) /\ UNCHANGED dropped
      <4>1. messages \cup {Posted(c)} \in SUBSET Row
        BY <3>1, PostedType DEF DbTypeOK
      <4>2. Raise(clients, messages \cup {Posted(c)}) /\ nextRow' \in Nat \ {0}
        BY <3>1 DEF save_message_raises, DbTypeOK
      <4>3. DbTypeOK'
        BY <4>1, <4>2, CommitType DEF DbTypeOK
      <4> QED
        BY <3>1, <4>3 DEF HistoryTypeOK
    <3>2. CASE /\ retrieve_and_delete_raises(req[c].cid)
               /\ dropped' = dropped \cup (WaitingFor(req[c].cid) \ messages')
      <4>1. messages \ WaitingFor(req[c].cid) \in SUBSET Row
        BY DEF DbTypeOK
      <4>2. DbTypeOK'
        BY <3>2, <4>1, CommitType DEF retrieve_and_delete_raises, DbTypeOK
      <4> QED
        BY <3>2, <4>2 DEF WaitingFor, DbTypeOK, HistoryTypeOK
    <3>3. CASE pc[c] = "checked" /\ add_client_raises(user[c]) /\ UNCHANGED dropped
      <4>1. user[c] \in User
        BY <3>3 DEF ThreadsTypeOK
      <4> QED
        BY <3>3, <4>1, CommitType DEF add_client_raises, DbTypeOK, HistoryTypeOK
    <3>4. CASE select_raises /\ UNCHANGED dropped
      BY <3>4 DEF select_raises, Reload, DbTypeOK, HistoryTypeOK
    <3> QED
      BY <1>10, <3>1, <3>2, <3>3, <3>4 DEF database_raises
  <2> QED
    BY <1>10, <2>1, <2>2 DEF database_raises, HistoryTypeOK
<1>11. ASSUME NEW c \in Conns, response_too_long(c) PROVE TypeOK'
  BY <1>11, RespondType, ErrorType, BatchType
  DEF response_too_long, dbVars, DbTypeOK, HistoryTypeOK
<1>12. ASSUME NEW c \in Conns, send_response(c) PROVE TypeOK'
  <2>1. acked' \subseteq Row /\ enrolled' \subseteq User
    BY <1>12
    DEF send_response, ThreadsTypeOK, HistoryTypeOK, Response, Confirming, Enrolling, Carries
  <2> QED
    BY <1>12, <2>1, CloseType, BatchType
    DEF send_response, dbVars, DbTypeOK, HistoryTypeOK
<1>13. ASSUME NEW c \in Conns, lose_response(c) PROVE TypeOK'
  BY <1>13, CloseType, BatchType DEF lose_response, dbVars, DbTypeOK, HistoryTypeOK
<1>14. CASE crash
  <2>1. ThreadsTypeOK'
    BY <1>14 DEF crash, ThreadsTypeOK, Stages
  <2> QED
    BY <1>14, <2>1, BatchType DEF crash, dbVars, DbTypeOK, HistoryTypeOK
<1>15. CASE start
  <2>1. DbTypeOK'
    BY <1>15 DEF start, connect_and_init, Reload, DbTypeOK
  <2> QED
    BY <1>15, <2>1 DEF start, threads, history, ThreadsTypeOK, HistoryTypeOK
<1>16. CASE accept_raises \/ UNCHANGED vars
  BY <1>16 DEF accept_raises, vars, dbVars, threads, history, DbTypeOK, ThreadsTypeOK, HistoryTypeOK
<1> QED
  BY <1>1, <1>2, <1>3, <1>4, <1>5, <1>6, <1>7, <1>8, <1>9, <1>10, <1>11, <1>12,
     <1>13, <1>14, <1>15, <1>16
  DEF Next, handle_request

\* Every variable keeps its type; in particular a thread that inserts a user
\* has built one, and a thread that replies has a response.
THEOREM TypeCorrect == Spec => []TypeOK
BY InitType, NextType, PTL DEF Spec

(***************************************************************************)
(* Registrations.  That they are durable rests on one fact about the table *)
(* clients: no method takes a row off it, so what the file holds is always *)
(* part of what the connection sees, and of what every later commit        *)
(* writes.                                                                 *)
(***************************************************************************)

EnrolInv ==
  /\ disk.clients \subseteq clients
  /\ \A c \in Conns : pc[c] = "added" => user[c] \in disk.clients
  /\ Registered \subseteq disk.clients

\* Users on disk stay there, and on the table.
LEMMA ClientsStay ==
  ASSUME TypeOK, EnrolInv, [Next]_vars
  PROVE  /\ disk.clients \subseteq disk'.clients
         /\ disk'.clients \subseteq clients'
<1> USE DEF EnrolInv
<1>1. CASE UNCHANGED <<clients, disk>>
  BY <1>1
<1>2. ASSUME NEW c \in Conns, handle_register_add(c) \/ handle_messege(c) \/ handle_pending_messeges(c)
      PROVE  disk.clients \subseteq disk'.clients /\ disk'.clients \subseteq clients'
  BY <1>2
  DEF handle_register_add, add_client, handle_messege, save_message, handle_pending_messeges,
      retrieve_and_delete_all_waiting_messages, Commit
<1>3. ASSUME NEW c \in Conns, database_raises(c)
      PROVE  disk.clients \subseteq disk'.clients /\ disk'.clients \subseteq clients'
  BY <1>3
  DEF database_raises, save_message_raises, retrieve_and_delete_raises, add_client_raises,
      select_raises, Raise, Reload, dbVars
<1>4. CASE start
  BY <1>4 DEF start, connect_and_init, Reload
<1>5. CASE crash \/ accept_raises \/ UNCHANGED vars
  BY <1>5 DEF crash, accept_raises, vars, dbVars
<1>6. ASSUME NEW c \in Conns,
             \/ handle_connection(c) \/ handle_error(c) \/ handle_register(c)
             \/ handle_register_print(c) \/ handle_list_clients(c)
             \/ handle_public_key_request(c) \/ response_too_long(c)
             \/ send_response(c) \/ lose_response(c)
      PROVE  UNCHANGED <<clients, disk>>
  BY <1>6
  DEF handle_connection, recv_request, recv_invalid, handle_error, handle_register,
      handle_register_print, handle_list_clients, handle_public_key_request,
      response_too_long, send_response, lose_response, dbVars
<1> QED
  BY <1>1, <1>2, <1>3, <1>4, <1>5, <1>6 DEF Next, handle_request

\* A thread is about to print, or to enrol a user, only after its insertion was
\* committed.
LEMMA AddedSteps ==
  ASSUME TypeOK, EnrolInv, [Next]_vars, NEW d \in Conns
  PROVE  /\ pc'[d] = "added" => user'[d] \in disk'.clients
         /\ Enrolling(d)' \subseteq disk'.clients
<1> USE DEF EnrolInv
<1>1. disk.clients \subseteq disk'.clients
  BY ClientsStay
<1>2. CASE UNCHANGED <<pc, res, user>>
  <2>1. Enrolling(d)' = Enrolling(d) /\ pc'[d] = pc[d] /\ user'[d] = user[d]
    BY <1>2 DEF Enrolling, Carries
  <2> QED
    BY <1>1, <2>1 DEF Registered
<1>3. CASE \A c \in Conns : pc'[c] = "idle"
  BY <1>3 DEF Enrolling, Carries
<1>4. ASSUME NEW c \in Conns, handle_connection(c) \/ handle_request(c)
      PROVE  /\ pc'[d] = "added" => user'[d] \in disk'.clients
             /\ Enrolling(d)' \subseteq disk'.clients
  <2>1. CASE c # d
    <3>1. pc'[d] = pc[d] /\ user'[d] = user[d] /\ res'[d] = res[d]
      BY <1>4, <2>1
      DEF handle_connection, handle_request, recv_request, recv_invalid, handle_error,
          handle_register, handle_register_add, handle_register_print, handle_list_clients,
          handle_public_key_request, handle_messege, handle_pending_messeges,
          database_raises, response_too_long, send_response, lose_response,
          Respond, Close, Goto, TypeOK, ThreadsTypeOK
    <3> QED
      BY <1>1, <3>1 DEF Enrolling, Carries, Registered
  <2>2. CASE c = d
    <3>1. CASE handle_register_add(d)
      <4>1. pc'[d] = "added" /\ user'[d] = user[d] /\ user[d] \in disk'.clients
        BY <3>1 DEF handle_register_add, add_client, Commit, Goto, TypeOK, ThreadsTypeOK
      <4> QED
        BY <4>1 DEF Enrolling, Carries
    <3>2. CASE handle_register_print(d)
      <4>1. pc'[d] = "replying" /\ res'[d].user = user[d] /\ user[d] \in disk.clients
        BY <3>2 DEF handle_register_print, Respond, Goto, TypeOK, ThreadsTypeOK
      <4> QED
        BY <1>1, <4>1 DEF Enrolling, Carries
    <3>3. ASSUME \/ handle_connection(d) \/ handle_register(d) \/ handle_error(d)
                 \/ database_raises(d) \/ response_too_long(d)
          PROVE  pc'[d] # "added" /\ Enrolling(d)' = {}
      BY <3>3
      DEF handle_connection, recv_request, recv_invalid, handle_register, handle_error,
          database_raises, response_too_long, Respond, Goto, error_response,
          Enrolling, Carries, TypeOK, ThreadsTypeOK
    <3>4. ASSUME handle_list_clients(d) \/ handle_messege(d) \/ handle_pending_messeges(d)
          PROVE  pc'[d] # "added" /\ Enrolling(d)' = {}
      BY <3>4
      DEF handle_list_clients, handle_messege, handle_pending_messeges, Respond, Goto,
          Enrolling, Carries, TypeOK, ThreadsTypeOK
    <3>5. ASSUME handle_public_key_request(d)
          PROVE  pc'[d] # "added" /\ Enrolling(d)' = {}
      <4>1. PICK r : Respond(d, r) /\ r.code # "REGISTER"
        <5>1. ASSUME NEW u, Respond(d, [code |-> "PUBLIC_KEY", user |-> u])
              PROVE  \E r : Respond(d, r) /\ r.code # "REGISTER"
          BY <5>1
        <5>2. ASSUME Respond(d, error_response)
              PROVE  \E r : Respond(d, r) /\ r.code # "REGISTER"
          BY <5>2 DEF error_response
        <5> QED
          BY <3>5, <5>1, <5>2 DEF handle_public_key_request
      <4> QED
        BY <4>1 DEF Respond, Goto, Enrolling, Carries, TypeOK, ThreadsTypeOK
    <3>6. ASSUME send_response(d) \/ lose_response(d)
          PROVE  pc'[d] # "added" /\ Enrolling(d)' = {}
      BY <3>6
      DEF send_response, lose_response, Close, Goto, Enrolling, Carries, TypeOK, ThreadsTypeOK
    <3> QED
      BY <1>4, <2>2, <3>1, <3>2, <3>3, <3>4, <3>5, <3>6 DEF handle_request
  <2> QED
    BY <2>1, <2>2
<1> QED
  BY <1>2, <1>3, <1>4 DEF Next, crash, start, accept_raises, threads, vars

\* The invariant is inductive.
LEMMA EnrolNext == TypeOK /\ EnrolInv /\ [Next]_vars => EnrolInv'
<1> SUFFICES ASSUME TypeOK, EnrolInv, [Next]_vars PROVE EnrolInv'
  OBVIOUS
<1>1. /\ disk.clients \subseteq disk'.clients
      /\ disk'.clients \subseteq clients'
  BY ClientsStay
<1>2. \A d \in Conns : /\ pc'[d] = "added" => user'[d] \in disk'.clients
                       /\ Enrolling(d)' \subseteq disk'.clients
  BY AddedSteps
<1>3. enrolled' \subseteq Registered
  <2>1. CASE \E c \in Conns : send_response(c)
    BY <2>1 DEF send_response, Registered
  <2>2. CASE enrolled' = enrolled
    BY <2>2 DEF Registered
  <2> QED
    BY <2>1, <2>2
    DEF Next, handle_connection, handle_request, recv_request, recv_invalid, handle_error,
        handle_register, handle_register_add, handle_register_print, handle_list_clients,
        handle_public_key_request, handle_messege, handle_pending_messeges,
        database_raises, response_too_long, lose_response, crash, start, accept_raises, history, vars
<1> QED
  BY <1>1, <1>2, <1>3 DEF EnrolInv, Registered

\* Whoever was told an identifier is on the table and on disk, in every state
\* that follows: handle_register answers after add_client has committed.
THEOREM RegistrationsAreDurable == Spec => []RegistrationsDurable
<1>1. Init => EnrolInv
  BY DEF Init, DbInit, EnrolInv, Registered, Enrolling, Carries
<1>2. EnrolInv => RegistrationsDurable
  BY DEF EnrolInv, RegistrationsDurable
<1> QED
  BY <1>1, <1>2, EnrolNext, TypeCorrect, PTL DEF Spec

-----------------------------------------------------------------------------
(* Duplicates.  A thread between the test and the insertion stands for a row  *)
(* that is still to come; a rolled back transaction takes rows away only.     *)

Taken(name) == Cardinality(Named(name)) + Cardinality(Registering(name))

DupInv ==
  /\ IsFiniteSet(clients)
  /\ disk.clients \subseteq clients
  /\ DuplicatesBounded

\* The sets that DuplicatesBounded counts are finite.
LEMMA CountsFinite ==
  ASSUME IsFiniteSet(clients), NEW name
  PROVE  /\ IsFiniteSet(Named(name)) /\ Cardinality(Named(name)) \in Nat
         /\ IsFiniteSet(Registering(name)) /\ Cardinality(Registering(name)) \in Nat
         /\ Cardinality(Registering(name)) <= Cardinality(Conns)
<1>1. Named(name) \in SUBSET clients /\ Registering(name) \in SUBSET Conns
  BY DEF Named, Registering
<1>2. IsFiniteSet(Named(name)) /\ IsFiniteSet(Registering(name))
      /\ Cardinality(Registering(name)) <= Cardinality(Conns)
  BY <1>1, FS_Subset, ConstantsAssumption
<1> QED
  BY <1>2, FS_CardinalityType

\* Fewer rows and fewer threads in between: no name gets closer to its bound.
LEMMA FewerTaken ==
  ASSUME DupInv, clients' \subseteq clients, disk'.clients \subseteq clients',
         \A name \in Names : Registering(name)' \subseteq Registering(name)
  PROVE  DupInv'
<1>1. IsFiniteSet(clients')
  BY FS_Subset DEF DupInv
<1>2. ASSUME NEW name \in Names PROVE Taken(name)' <= Cardinality(Conns)
  <2>1. Named(name)' \subseteq Named(name)
    BY DEF Named
  <2>2. /\ Cardinality(Named(name)') <= Cardinality(Named(name))
        /\ Cardinality(Registering(name)') <= Cardinality(Registering(name))
        /\ Cardinality(Named(name)') \in Nat /\ Cardinality(Registering(name)') \in Nat
    <3>1. IsFiniteSet(Named(name)) /\ IsFiniteSet(Registering(name))
      BY CountsFinite DEF DupInv
    <3> QED
      BY <2>1, <3>1, FS_Subset, FS_CardinalityType
  <2>3. Cardinality(Named(name)) \in Nat /\ Cardinality(Registering(name)) \in Nat
    BY CountsFinite DEF DupInv
  <2>4. Cardinality(Named(name)) + Cardinality(Registering(name)) <= Cardinality(Conns)
    BY DEF DupInv, DuplicatesBounded
  <2>5. Cardinality(Conns) \in Nat
    BY FS_CardinalityType, ConstantsAssumption
  <2> QED
    BY <2>2, <2>3, <2>4, <2>5 DEF Taken
<1> QED
  BY <1>1, <1>2 DEF DupInv, DuplicatesBounded, Taken

\* The thread that inserts its user leaves the gap: the row takes its place.
LEMMA InsertTaken ==
  ASSUME DupInv, NEW c \in Conns, pc[c] = "checked", pc'[c] # "checked",
         clients' = clients \cup {user[c]}, disk'.clients \subseteq clients',
         \A d \in Conns \ {c} : pc'[d] = pc[d] /\ user'[d] = user[d]
  PROVE  DupInv'
<1>1. IsFiniteSet(clients')
  BY FS_AddElement DEF DupInv
<1>2. ASSUME NEW name \in Names PROVE Taken(name)' <= Cardinality(Conns)
  <2>0. /\ IsFiniteSet(Named(name)) /\ Cardinality(Named(name)) \in Nat
        /\ IsFiniteSet(Registering(name)) /\ Cardinality(Registering(name)) \in Nat
    BY CountsFinite DEF DupInv
  <2>1. Registering(name)' = Registering(name) \ {c}
    BY DEF Registering
  <2>2. Cardinality(Named(name)) + Cardinality(Registering(name)) <= Cardinality(Conns)
    BY DEF DupInv, DuplicatesBounded
  <2>3. Cardinality(Conns) \in Nat
    BY FS_CardinalityType, ConstantsAssumption
  <2>4. CASE user[c].username = name
    <3>1. Named(name)' = Named(name) \cup {user[c]}
      BY <2>4 DEF Named
    <3>2. Cardinality(Named(name)') <= Cardinality(Named(name)) + 1
          /\ Cardinality(Named(name)') \in Nat
      <4>1. /\ IsFiniteSet(Named(name)')
            /\ \/ Cardinality(Named(name)') = Cardinality(Named(name))
               \/ Cardinality(Named(name)') = Cardinality(Named(name)) + 1
        <5> DEFINE S == Named(name)
        <5>1. /\ IsFiniteSet(S \cup {user[c]})
              /\ Cardinality(S \cup {user[c]}) =
                   IF user[c] \in S THEN Cardinality(S) ELSE Cardinality(S) + 1
          <6> HIDE DEF S
          <6>1. IsFiniteSet(S)
            BY <2>0 DEF S
          <6> QED
            BY <6>1, FS_AddElement
        <5> QED
          BY <3>1, <5>1
      <4> QED
        BY <2>0, <4>1, FS_CardinalityType
    <3>3. c \in Registering(name)
      BY <2>4 DEF Registering
    <3>4. Cardinality(Registering(name)') = Cardinality(Registering(name)) - 1
      BY <2>0, <2>1, <3>3, FS_RemoveElement
    <3> QED
      BY <2>0, <2>2, <2>3, <3>2, <3>4 DEF Taken
  <2>5. CASE user[c].username # name
    <3>1. Named(name)' = Named(name)
      BY <2>5 DEF Named
    <3>2. Registering(name)' = Registering(name)
      BY <2>1, <2>5 DEF Registering
    <3> QED
      BY <2>2, <3>1, <3>2 DEF Taken
  <2> QED
    BY <2>4, <2>5
<1> QED
  BY <1>1, <1>2 DEF DupInv, DuplicatesBounded, Taken

\* A thread passes the test of a name that no row has.
LEMMA TestTaken ==
  ASSUME TypeOK, DupInv, NEW c \in Conns, handle_register(c)
  PROVE  DupInv'
<1>1. UNCHANGED <<clients, disk>>
  BY DEF handle_register, dbVars
<1>2. CASE username_exists(req[c].name)
  <2>1. pc'[c] = "replying" /\ \A d \in Conns \ {c} : pc'[d] = pc[d]
    BY <1>2 DEF handle_register, Respond, Goto, TypeOK, ThreadsTypeOK
  <2>2. user' = user
    BY <1>2 DEF handle_register
  <2> QED
    BY <1>1, <2>1, <2>2, FewerTaken DEF Registering, DupInv
<1>3. CASE ~ username_exists(req[c].name)
  <2>1. \A d \in Conns \ {c} : pc'[d] = pc[d] /\ user'[d] = user[d]
    BY <1>3 DEF handle_register, Goto, TypeOK, ThreadsTypeOK
  <2>2. user'[c].username = req[c].name
    BY <1>3 DEF handle_register, TypeOK, ThreadsTypeOK
  <2>3. ASSUME NEW name \in Names PROVE Taken(name)' <= Cardinality(Conns)
    <3>1. Named(name)' = Named(name)
      BY <1>1 DEF Named
    <3>2. CASE name = req[c].name
      <4>1. Named(name) = {}
        BY <1>3, <3>2 DEF username_exists, Named
      <4>2. Cardinality(Named(name)') = 0
        BY <3>1, <4>1, FS_EmptySet
      <4>3. /\ Cardinality(Registering(name)') \in Nat
            /\ Cardinality(Registering(name)') <= Cardinality(Conns)
        <5>1. Registering(name)' \in SUBSET Conns
          BY DEF Registering
        <5> QED
          BY <5>1, FS_Subset, FS_CardinalityType, ConstantsAssumption
      <4> QED
        BY <4>2, <4>3 DEF Taken
    <3>3. CASE name # req[c].name
      <4>1. Registering(name)' \subseteq Registering(name)
        BY <2>1, <2>2, <3>3 DEF Registering
      <4>2. IsFiniteSet(Registering(name)) /\ Cardinality(Registering(name)) \in Nat
            /\ Cardinality(Named(name)) \in Nat
        BY CountsFinite DEF DupInv
      <4>3. /\ Cardinality(Registering(name)') \in Nat
            /\ Cardinality(Registering(name)') <= Cardinality(Registering(name))
        BY <4>1, <4>2, FS_Subset, FS_CardinalityType
      <4>4. Cardinality(Named(name)) + Cardinality(Registering(name)) <= Cardinality(Conns)
        BY DEF DupInv, DuplicatesBounded
      <4>5. Cardinality(Conns) \in Nat
        BY FS_CardinalityType, ConstantsAssumption
      <4> QED
        BY <3>1, <4>2, <4>3, <4>4, <4>5 DEF Taken
    <3> QED
      BY <3>2, <3>3
  <2> QED
    BY <1>1, <2>3 DEF DupInv, DuplicatesBounded, Taken
<1> QED
  BY <1>2, <1>3

\* The invariant is inductive, given what the table clients keeps.
LEMMA DupNext == TypeOK /\ EnrolInv /\ DupInv /\ [Next]_vars => DupInv'
<1> SUFFICES ASSUME TypeOK, EnrolInv, DupInv, [Next]_vars PROVE DupInv'
  OBVIOUS
<1>1. disk'.clients \subseteq clients'
  BY ClientsStay
<1>2. ASSUME NEW c \in Conns, handle_register(c) PROVE DupInv'
  BY <1>2, TestTaken
<1>3. ASSUME NEW c \in Conns, handle_register_add(c) PROVE DupInv'
  <2>1. /\ clients' = clients \cup {user[c]}
        /\ pc[c] = "checked" /\ pc'[c] # "checked"
        /\ \A d \in Conns \ {c} : pc'[d] = pc[d] /\ user'[d] = user[d]
    BY <1>3 DEF handle_register_add, add_client, Commit, Goto, TypeOK, ThreadsTypeOK
  <2> QED
    BY <1>1, <2>1, InsertTaken
<1>4. ASSUME NEW c \in Conns, database_raises(c) PROVE DupInv'
  <2>1. /\ pc'[c] # "checked"
        /\ \A d \in Conns \ {c} : pc'[d] = pc[d]
        /\ user' = user
    BY <1>4 DEF database_raises, Respond, Goto, TypeOK, ThreadsTypeOK
  <2>2. \A name \in Names : Registering(name)' \subseteq Registering(name)
    BY <2>1 DEF Registering
  <2>3. CASE clients' \subseteq clients
    BY <1>1, <2>2, <2>3, FewerTaken
  <2>4. CASE pc[c] = "checked" /\ clients' = clients \cup {user[c]}
    BY <1>1, <2>1, <2>4, InsertTaken
  <2>5. disk.clients \subseteq clients
    BY DEF EnrolInv
  <2> QED
    BY <1>4, <2>3, <2>4, <2>5
    DEF database_raises, save_message_raises, retrieve_and_delete_raises, add_client_raises,
        select_raises, Raise, Reload, dbVars
<1>5. ASSUME clients' \subseteq clients,
             \A d \in Conns : pc'[d] = "checked" => pc[d] = "checked" /\ user'[d] = user[d]
      PROVE  DupInv'
  <2>1. \A name \in Names : Registering(name)' \subseteq Registering(name)
    BY <1>5 DEF Registering
  <2> QED
    BY <1>1, <1>5, <2>1, FewerTaken
<1>6. ASSUME NEW c \in Conns,
             \/ handle_connection(c) \/ handle_error(c)
             \/ handle_register_print(c) \/ handle_list_clients(c)
             \/ handle_public_key_request(c) \/ handle_messege(c)
             \/ handle_pending_messeges(c) \/ response_too_long(c)
             \/ send_response(c) \/ lose_response(c)
      PROVE  DupInv'
  <2>1. clients' = clients
    BY <1>6
    DEF handle_connection, recv_request, recv_invalid, handle_error,
        handle_register_print, handle_list_clients, handle_public_key_request,
        handle_messege, save_message, handle_pending_messeges,
        retrieve_and_delete_all_waiting_messages, Commit, response_too_long,
        send_response, lose_response, dbVars
  <2>2. pc'[c] # "checked" /\ \A d \in Conns \ {c} : pc'[d] = pc[d] /\ user'[d] = user[d]
    BY <1>6
    DEF handle_connection, recv_request, recv_invalid, handle_error,
        handle_register_print, handle_list_clients, handle_public_key_request,
        handle_messege, handle_pending_messeges, response_too_long,
        send_response, lose_response, Respond, Close, Goto, TypeOK, ThreadsTypeOK
  <2> QED
    BY <1>5, <2>1, <2>2
<1>7. CASE crash \/ start \/ accept_raises \/ UNCHANGED vars
  <2>1. clients' \subseteq clients
    BY <1>7 DEF crash, start, accept_raises, connect_and_init, Reload, dbVars, vars, EnrolInv
  <2>2. \A d \in Conns : pc'[d] = "checked" => pc[d] = "checked" /\ user'[d] = user[d]
    BY <1>7 DEF crash, start, accept_raises, threads, vars
  <2> QED
    BY <1>5, <2>1, <2>2
<1> QED
  BY <1>2, <1>3, <1>4, <1>6, <1>7 DEF Next, handle_request

\* Before the first request no name is taken.
LEMMA DupInit == Init => DupInv
<1> SUFFICES ASSUME Init PROVE DupInv
  OBVIOUS
<1>1. clients = {} /\ disk.clients = {}
  BY DEF Init, DbInit
<1>2. ASSUME NEW name \in Names
      PROVE  Cardinality(Named(name)) + Cardinality(Registering(name)) <= Cardinality(Conns)
  <2>1. Named(name) = {} /\ Registering(name) = {}
    BY <1>1 DEF Init, Named, Registering
  <2>2. Cardinality(Conns) \in Nat
    BY FS_CardinalityType, ConstantsAssumption
  <2> QED
    BY <2>1, <2>2, FS_EmptySet
<1> QED
  BY <1>1, <1>2, FS_EmptySet DEF DupInv, DuplicatesBounded

\* No name ever gets more rows than there are threads at once: of any number of
\* registrations of a name, only those that overlap the first can succeed.
THEOREM DuplicatesAreBounded == Spec => []DuplicatesBounded
<1>1. Init => EnrolInv
  BY DEF Init, DbInit, EnrolInv, Registered, Enrolling, Carries
<1>2. DupInv => DuplicatesBounded
  BY DEF DupInv
<1> QED
  BY <1>1, <1>2, DupInit, EnrolNext, DupNext, TypeCorrect, PTL DEF Spec
=============================================================================
