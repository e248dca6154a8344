--------------------------- MODULE EnrolmentProofs ---------------------------
(***************************************************************************)
(* Theorems about Enrolment, for every number of installations, threads,   *)
(* names and identifiers.                                                  *)
(*                                                                         *)
(* Who a client believes to be is put together from three places: the      *)
(* identifier of the response, the name it typed and the key it made.  The *)
(* server knows that combination because the thread that responds built    *)
(* its row from the very request of the client that waits for it           *)
(* (AnswersMatch and CallsMatch), and the row was committed before the     *)
(* response was made (EnrolInv of ServerProofs).                           *)
(*                                                                         *)
(* A peer is a name and an identifier, and the row they came from may be   *)
(* gone.  The pair stays right because an identifier is drawn once: all    *)
(* rows that are in the tables, with a thread or in a response and have    *)
(* the identifier of a peer have its name, and no later row gets the       *)
(* identifier (NamesInv).  Nobody is missed in a listing because the rows  *)
(* that were committed when it was asked for are in the table the thread   *)
(* reads it from, and in the response from then on (ListsMatch).           *)
(***************************************************************************)
EXTENDS Enrolment, ServerProofs

-----------------------------------------------------------------------------
(* The server's side: a row comes from the request its thread is handling. *)

RowOf(u, r) == r.code = "REGISTER" /\ u.username = r.name /\ u.public_key = r.key

AnswersMatch ==
  \A c \in Conns :
    /\ pc[c] \in {"checked", "added"} => RowOf(user[c], req[c])
    /\ Carries(c, "REGISTER") => RowOf(res[c].user, req[c])

\* A thread that responds with something else than an identifier.
LEMMA OtherAnswers ==
  ASSUME TypeOK, AnswersMatch, NEW c \in Conns, NEW r, r.code # "REGISTER",
         Respond(c, r), UNCHANGED <<req, user>>
  PROVE  AnswersMatch'
BY DEF AnswersMatch, Respond, Goto, Carries, TypeOK, ThreadsTypeOK

\* A thread whose connection begins or ends.
LEMMA NoAnswers ==
  ASSUME TypeOK, AnswersMatch, NEW c \in Conns, pc'[c] \in {"idle", "handling"},
         \A d \in Conns \ {c} : pc'[d] = pc[d] /\ req'[d] = req[d] /\ user'[d] = user[d] /\ res'[d] = res[d]
  PROVE  AnswersMatch'
BY DEF AnswersMatch, Carries

LEMMA AnswersNext == TypeOK /\ AnswersMatch /\ [Next]_vars => AnswersMatch'
<1> SUFFICES ASSUME TypeOK, AnswersMatch, [Next]_vars PROVE AnswersMatch'
  OBVIOUS
<1>1. error_response.code # "REGISTER"
  BY DEF error_response
<1>2. ASSUME NEW c \in Conns,
             recv_invalid(c) \/ handle_error(c) \/ database_raises(c) \/ response_too_long(c)
      PROVE  AnswersMatch'
  BY <1>1, <1>2, OtherAnswers DEF recv_invalid, handle_error, database_raises, response_too_long
<1>3. ASSUME NEW c \in Conns, recv_request(c) \/ send_response(c) \/ lose_response(c)
      PROVE  AnswersMatch'
  BY <1>3, NoAnswers
  DEF recv_request, send_response, lose_response, Close, Goto, TypeOK, ThreadsTypeOK
<1>4. ASSUME NEW c \in Conns, handle_register(c) PROVE AnswersMatch'
  <2>1. CASE Respond(c, error_response) /\ UNCHANGED <<req, user>>
    BY <1>1, <2>1, OtherAnswers
  <2>2. CASE \E id \in Ids :
               /\ user' = [user EXCEPT ![c] =
                    [id |-> id, username |-> req[c].name, public_key |-> req[c].key]]
               /\ Goto(c, "checked")
               /\ UNCHANGED <<req, res>>
    <3>1. req[c].code = "REGISTER"
      BY <1>4 DEF handle_register, Handling
    <3>2. RowOf(user'[c], req'[c]) /\ pc'[c] = "checked"
      BY <2>2, <3>1 DEF RowOf, Goto, TypeOK, ThreadsTypeOK
    <3>3. \A d \in Conns \ {c} :
            pc'[d] = pc[d] /\ req'[d] = req[d] /\ user'[d] = user[d] /\ res'[d] = res[d]
      BY <2>2 DEF Goto, TypeOK, ThreadsTypeOK
    <3> QED
      BY <3>2, <3>3 DEF AnswersMatch, Carries
  <2> QED
    BY <1>4, <2>1, <2>2 DEF handle_register
<1>5. ASSUME NEW c \in Conns, handle_register_add(c) PROVE AnswersMatch'
  <2>1. pc[c] = "checked" /\ pc'[c] = "added" /\ UNCHANGED <<req, user, res>>
        /\ \A d \in Conns \ {c} : pc'[d] = pc[d]
    BY <1>5 DEF handle_register_add, Goto, TypeOK, ThreadsTypeOK
  <2> QED
    BY <2>1 DEF AnswersMatch, Carries
<1>6. ASSUME NEW c \in Conns, handle_register_print(c) PROVE AnswersMatch'
  <2>1. pc[c] = "added" /\ pc'[c] = "replying" /\ UNCHANGED <<req, user>> /\ res'[c].user = user[c]
        /\ \A d \in Conns \ {c} : pc'[d] = pc[d] /\ res'[d] = res[d]
    BY <1>6 DEF handle_register_print, Respond, Goto, TypeOK, ThreadsTypeOK
  <2> QED
    BY <2>1 DEF AnswersMatch, Carries
<1>7. ASSUME NEW c \in Conns,
             \/ handle_list_clients(c) \/ handle_public_key_request(c)
             \/ handle_messege(c) \/ handle_pending_messeges(c)
      PROVE  AnswersMatch'
  <2>1. PICK r : Respond(c, r) /\ r.code # "REGISTER"
    <3>1. CASE handle_list_clients(c)
      BY <3>1 DEF handle_list_clients
    <3>2. CASE handle_messege(c)
      BY <3>2 DEF handle_messege
    <3>3. CASE handle_pending_messeges(c)
      BY <3>3 DEF handle_pending_messeges
    <3>4. CASE handle_public_key_request(c)
      <4>1. ASSUME NEW u, Respond(c, [code |-> "PUBLIC_KEY", user |-> u])
            PROVE  \E r : Respond(c, r) /\ r.code # "REGISTER"
        BY <4>1
      <4>2. ASSUME Respond(c, error_response)
            PROVE  \E r : Respond(c, r) /\ r.code # "REGISTER"
        BY <1>1, <4>2
      <4> QED
        BY <3>4, <4>1, <4>2 DEF handle_public_key_request
    <3> QED
      BY <1>7, <3>1, <3>2, <3>3, <3>4
  <2>2. UNCHANGED <<req, user>>
    BY <1>7
    DEF handle_list_clients, handle_public_key_request, handle_messege, handle_pending_messeges
  <2> QED
    BY <2>1, <2>2, OtherAnswers
<1>8. CASE crash
  BY <1>8 DEF crash, AnswersMatch, Carries
<1>9. CASE UNCHANGED threads
  BY <1>9 DEF threads, AnswersMatch, Carries
<1> QED
  BY <1>2, <1>3, <1>4, <1>5, <1>6, <1>7, <1>8, <1>9
  DEF Next, handle_connection, handle_request, accept_raises, start, vars

-----------------------------------------------------------------------------
(* The clients' side. *)

\* A client that waits has a connection of its own, and has asked with its own key.
CallsMatch ==
  \A k \in Clients : proc[k] = "waiting" =>
    /\ pc[conn[k]] # "idle"
    /\ req[conn[k]].code = "REGISTER" => req[conn[k]].key = me[k].public_key /\ ~ isRegistered(k)
    /\ \A j \in Clients \ {k} : proc[j] = "waiting" => conn[j] # conn[k]

\* Identities are on disk, and a process that may still save one has a key that
\* me.info does not have.
IdentitiesKnown ==
  \A k \in Clients :
    /\ isRegistered(k) => me[k] \in disk.clients
    /\ info[k] # NoThing => info[k] \in disk.clients /\ info[k].public_key \in drawn
    /\ proc[k] = "saving" => isRegistered(k)
    /\ proc[k] # "off" => me[k].public_key \in drawn
    /\ (proc[k] # "off" /\ ~ isRegistered(k)) \/ proc[k] = "saving" =>
         (info[k] # NoThing => info[k].public_key # me[k].public_key)

Inv ==
  /\ TypeOK /\ EnrolmentTypeOK
  /\ EnrolInv /\ AnswersMatch
  /\ CallsMatch /\ IdentitiesKnown

\* Every step is a step of the server or leaves it alone.
LEMMA ServerSteps == EnrolmentTypeOK /\ [EnrolmentNext]_allVars => [Next]_vars
<1> SUFFICES ASSUME EnrolmentTypeOK, [EnrolmentNext]_allVars PROVE [Next]_vars
  OBVIOUS
<1>1. ASSUME NEW c \in Conns,
             \/ recv_request(c) \/ send_response(c) \/ lose_response(c)
             \/ handle_register(c) \/ handle_register_add(c) \/ handle_register_print(c)
             \/ handle_list_clients(c) \/ database_raises(c)
      PROVE  [Next]_vars
  BY <1>1 DEF Next, handle_connection, handle_request
<1>2. ASSUME NEW k \in Clients, ClientStep(k) PROVE [Next]_vars
  <2>1. proc[k] = "waiting" => conn[k] \in Conns
    BY DEF EnrolmentTypeOK
  <2>2. CASE client_start(k) \/ client_ends(k) \/ save_me_info(k) \/ call_fails(k)
    BY <2>2 DEF client_start, client_ends, save_me_info, call_fails
  <2>3. ASSUME NEW c \in Conns, registerClient(k, c) \/ getPeers(k, c) PROVE [Next]_vars
    BY <1>1, <2>3 DEF registerClient, getPeers, Ask
  <2>4. CASE client_registered(k) \/ client_lists_namesake(k) \/ client_lists(k) \/ client_refused(k)
    BY <1>1, <2>1, <2>4
    DEF client_registered, client_lists_namesake, client_lists, client_refused, Answered
  <2> QED
    BY <1>2, <2>2, <2>3, <2>4 DEF ClientStep
<1>3. ASSUME NEW c \in Conns, thread_runs(c) \/ response_lost(c) PROVE [Next]_vars
  BY <1>1, <1>3 DEF thread_runs, response_lost
<1>4. CASE server_stops_accepting \/ server_crashes \/ server_starts
  BY <1>4 DEF server_stops_accepting, server_crashes, server_starts, Next
<1>5. CASE UNCHANGED allVars
  BY <1>5 DEF allVars
<1> QED
  BY <1>2, <1>3, <1>4, <1>5 DEF EnrolmentNext

\* The response that enrols a client carries the user of its request.
LEMMA EnrolledUser ==
  ASSUME Inv, NEW k \in Clients, proc[k] = "waiting", Carries(conn[k], "REGISTER")
  PROVE  LET self == [id |-> res[conn[k]].user.id, username |-> req[conn[k]].name,
                      public_key |-> me[k].public_key]
         IN  self \in Identity /\ self \in disk.clients /\ ~ isRegistered(k)
<1> DEFINE c == conn[k]
           u == res[c].user
<1>1. c \in Conns
  BY DEF Inv, EnrolmentTypeOK
<1>2. res[c] \in Response /\ res[c].code = "REGISTER"
  BY <1>1 DEF Inv, TypeOK, ThreadsTypeOK, Carries
<1>3. u \in User
  BY <1>2 DEF Response
<1>4. u \in disk.clients
  BY <1>1 DEF Inv, EnrolInv, Registered, Enrolling
<1>5. req[c].code = "REGISTER" /\ u.username = req[c].name /\ u.public_key = req[c].key
  BY <1>1 DEF Inv, AnswersMatch, RowOf
<1>6. req[c].key = me[k].public_key /\ ~ isRegistered(k)
  BY <1>5 DEF Inv, CallsMatch
<1>7. u = [id |-> u.id, username |-> req[c].name, public_key |-> me[k].public_key]
  BY <1>3, <1>5, <1>6 DEF User
<1> QED
  BY <1>3, <1>4, <1>6, <1>7 DEF User, Identity

-----------------------------------------------------------------------------
(* Identities. *)

\* A step of the calls: nobody starts, ends, saves or learns who it is.
CallsOnly ==
  /\ me' = me /\ info' = info /\ drawn' = drawn
  /\ \A k \in Clients :
       proc'[k] # proc[k] =>
         proc[k] \in {"prompt", "waiting"} /\ proc'[k] \in {"prompt", "waiting"}

LEMMA IdentitiesStay ==
  ASSUME IdentitiesKnown, disk.clients \subseteq disk'.clients, CallsOnly
  PROVE  IdentitiesKnown'
<1> USE DEF CallsOnly
<1> SUFFICES ASSUME NEW k \in Clients
             PROVE  /\ isRegistered(k)' => me'[k] \in disk'.clients
                    /\ info'[k] # NoThing => info'[k] \in disk'.clients /\ info'[k].public_key \in drawn'
                    /\ proc'[k] = "saving" => isRegistered(k)'
                    /\ proc'[k] # "off" => me'[k].public_key \in drawn'
                    /\ (proc'[k] # "off" /\ ~ isRegistered(k)') \/ proc'[k] = "saving" =>
                         (info'[k] # NoThing => info'[k].public_key # me'[k].public_key)
  BY DEF IdentitiesKnown
<1>1. isRegistered(k)' <=> isRegistered(k)
  BY DEF isRegistered
<1> QED
  BY <1>1 DEF IdentitiesKnown

\* A step of one process: for the others nothing changes.
LEMMA OneIdentity ==
  ASSUME IdentitiesKnown, NEW k \in Clients, disk.clients \subseteq disk'.clients,
         drawn \subseteq drawn',
         \A j \in Clients \ {k} : proc'[j] = proc[j] /\ me'[j] = me[j] /\ info'[j] = info[j],
         isRegistered(k)' => me'[k] \in disk'.clients,
         info'[k] # NoThing => info'[k] \in disk'.clients /\ info'[k].public_key \in drawn',
         proc'[k] = "saving" => isRegistered(k)',
         proc'[k] # "off" => me'[k].public_key \in drawn',
         (proc'[k] # "off" /\ ~ isRegistered(k)') \/ proc'[k] = "saving" =>
           (info'[k] # NoThing => info'[k].public_key # me'[k].public_key)
  PROVE  IdentitiesKnown'
BY DEF IdentitiesKnown, isRegistered

LEMMA StartIdentity ==
  ASSUME Inv, NEW k \in Clients, client_start(k), disk.clients \subseteq disk'.clients
  PROVE  IdentitiesKnown'
<1>1. /\ proc'[k] = "prompt" /\ UNCHANGED info
      /\ \A j \in Clients \ {k} : proc'[j] = proc[j] /\ me'[j] = me[j]
  BY DEF client_start, Inv, EnrolmentTypeOK
<1>2. info[k] # NoThing => info[k] \in disk.clients /\ info[k].public_key \in drawn
  BY DEF Inv, IdentitiesKnown
<1>3. CASE info[k] # NoThing /\ me' = [me EXCEPT ![k] = info[k]] /\ UNCHANGED drawn
  <2>1. me'[k] = info[k] /\ info[k] \in Identity
    BY <1>3 DEF Inv, EnrolmentTypeOK
  <2>2. isRegistered(k)'
    BY <2>1, EnrolmentAssumption DEF isRegistered, Identity
  <2> QED
    BY <1>1, <1>2, <1>3, <2>1, <2>2, OneIdentity DEF Inv
<1>4. ASSUME NEW key \in Keys \ drawn, me' = [me EXCEPT ![k] = Nobody(key)], drawn' = drawn \cup {key}
      PROVE  IdentitiesKnown'
  <2>1. me'[k] = Nobody(key)
    BY <1>4 DEF Inv, EnrolmentTypeOK
  <2>2. ~ isRegistered(k)' /\ me'[k].public_key = key
    BY <2>1 DEF isRegistered, Nobody
  <2> QED
    BY <1>1, <1>2, <1>4, <2>2, OneIdentity DEF Inv
<1> QED
  BY <1>3, <1>4 DEF client_start

LEMMA EndIdentity ==
  ASSUME Inv, NEW k \in Clients, client_ends(k), disk.clients \subseteq disk'.clients
  PROVE  IdentitiesKnown'
<1>1. /\ proc'[k] = "off" /\ me'[k] = Nobody(NoThing) /\ UNCHANGED drawn
      /\ \A j \in Clients \ {k} : proc'[j] = proc[j] /\ me'[j] = me[j] /\ info'[j] = info[j]
  BY DEF client_ends, Saved, Torn, Inv, EnrolmentTypeOK
<1>2. ~ isRegistered(k)'
  BY <1>1 DEF isRegistered, Nobody
<1>3. \/ info'[k] = info[k] \/ info'[k] = NoThing
      \/ proc[k] = "saving" /\ info'[k] = me[k]
  BY DEF client_ends, Saved, Torn, Inv, EnrolmentTypeOK
<1>4. info'[k] # NoThing => info'[k] \in disk'.clients /\ info'[k].public_key \in drawn'
  BY <1>1, <1>3 DEF Inv, IdentitiesKnown
<1> QED
  BY <1>1, <1>2, <1>4, OneIdentity DEF Inv

LEMMA SaveIdentity ==
  ASSUME Inv, NEW k \in Clients, save_me_info(k), disk.clients \subseteq disk'.clients
  PROVE  IdentitiesKnown'
<1>1. /\ proc[k] = "saving" /\ proc'[k] = "prompt" /\ UNCHANGED <<me, drawn>>
      /\ \A j \in Clients \ {k} : proc'[j] = proc[j] /\ info'[j] = info[j]
  BY DEF save_me_info, Saved, Torn, Inv, EnrolmentTypeOK
<1>2. isRegistered(k)'
  BY <1>1 DEF Inv, IdentitiesKnown, isRegistered
<1>3. info'[k] = info[k] \/ info'[k] = NoThing \/ info'[k] = me[k]
  BY DEF save_me_info, Saved, Torn, Inv, EnrolmentTypeOK
<1>4. info'[k] # NoThing => info'[k] \in disk'.clients /\ info'[k].public_key \in drawn'
  BY <1>1, <1>3 DEF Inv, IdentitiesKnown
<1>5. me'[k] \in disk'.clients /\ me'[k].public_key \in drawn'
  BY <1>1 DEF Inv, IdentitiesKnown
<1> QED
  BY <1>1, <1>2, <1>4, <1>5, OneIdentity DEF Inv

LEMMA RegisteredIdentity ==
  ASSUME Inv, NEW k \in Clients, client_registered(k), disk.clients \subseteq disk'.clients
  PROVE  IdentitiesKnown'
<1> DEFINE self == [id |-> res[conn[k]].user.id, username |-> req[conn[k]].name,
                    public_key |-> me[k].public_key]
<1>1. proc[k] = "waiting" /\ Carries(conn[k], "REGISTER")
  BY DEF client_registered, Answered
<1>2. self \in Identity /\ self \in disk.clients /\ ~ isRegistered(k)
  BY <1>1, EnrolledUser
<1>3. me' = [me EXCEPT ![k] = self]
  BY DEF client_registered, EnrolledAs
<1>4. self.public_key = me[k].public_key /\ self.id \in Ids
  BY <1>2 DEF Identity
<1> HIDE DEF self
<1>5. me'[k] = self /\ \A j \in Clients \ {k} : me'[j] = me[j]
  BY <1>3 DEF Inv, EnrolmentTypeOK
<1>6. /\ proc'[k] = "saving" /\ UNCHANGED <<info, drawn>>
      /\ \A j \in Clients \ {k} : proc'[j] = proc[j]
  BY DEF client_registered, Answered, Inv, EnrolmentTypeOK
<1>7. isRegistered(k)'
  BY <1>4, <1>5, EnrolmentAssumption DEF isRegistered
<1>8. me[k].public_key \in drawn /\
      (info[k] # NoThing => /\ info[k] \in disk.clients /\ info[k].public_key \in drawn
                            /\ info[k].public_key # me[k].public_key)
  BY <1>1, <1>2 DEF Inv, IdentitiesKnown
<1> QED
  BY <1>2, <1>4, <1>5, <1>6, <1>7, <1>8, OneIdentity DEF Inv

LEMMA IdentitiesNext == Inv /\ [EnrolmentNext]_allVars => IdentitiesKnown'
<1> SUFFICES ASSUME Inv, [EnrolmentNext]_allVars PROVE IdentitiesKnown'
  OBVIOUS
<1>1. disk.clients \subseteq disk'.clients
  BY ServerSteps, ClientsStay DEF Inv
<1>2. IdentitiesKnown
  BY DEF Inv
<1>3. ASSUME NEW k \in Clients, NEW c \in Conns, registerClient(k, c) \/ getPeers(k, c)
      PROVE  IdentitiesKnown'
  <2>1. /\ UNCHANGED <<me, info, drawn>>
        /\ proc[k] = "prompt" /\ proc' = [proc EXCEPT ![k] = "waiting"]
    BY <1>3 DEF registerClient, getPeers, Ask
  <2>2. CallsOnly
    BY <2>1 DEF CallsOnly, Inv, EnrolmentTypeOK
  <2> QED
    BY <1>1, <1>2, <2>2, IdentitiesStay
<1>4. ASSUME NEW k \in Clients, client_lists_namesake(k) \/ client_lists(k) \/ client_refused(k)
      PROVE  IdentitiesKnown'
  <2>1. /\ UNCHANGED <<me, info, drawn>>
        /\ proc[k] = "waiting" /\ proc' = [proc EXCEPT ![k] = "prompt"]
    BY <1>4 DEF client_lists_namesake, client_lists, client_refused, Answered
  <2>2. CallsOnly
    BY <2>1 DEF CallsOnly, Inv, EnrolmentTypeOK
  <2> QED
    BY <1>1, <1>2, <2>2, IdentitiesStay
<1>5. ASSUME NEW ks \in SUBSET Clients, \A k \in ks : proc[k] = "waiting", Fail(ks)
      PROVE  IdentitiesKnown'
  <2>1. CallsOnly
    BY <1>5 DEF Fail, CallsOnly
  <2> QED
    BY <1>1, <1>2, <2>1, IdentitiesStay
<1>6. ASSUME NEW k \in Clients, ClientStep(k) PROVE IdentitiesKnown'
  <2>1. CASE call_fails(k)
    BY <1>5, <2>1 DEF call_fails
  <2> QED
    BY <1>1, <1>3, <1>4, <1>6, <2>1, StartIdentity, EndIdentity, SaveIdentity, RegisteredIdentity
    DEF ClientStep
<1>7. ASSUME NEW c \in Conns, response_lost(c) PROVE IdentitiesKnown'
  <2>1. \A k \in Clients : conn[k] = c => proc[k] = "waiting"
    BY EnrolmentAssumption DEF Inv, EnrolmentTypeOK
  <2> QED
    BY <1>5, <1>7, <2>1 DEF response_lost
<1>8. CASE server_crashes
  BY <1>5, <1>8 DEF server_crashes
<1>9. CASE UNCHANGED clientVars
  BY <1>1, <1>2, <1>9, IdentitiesStay DEF clientVars, CallsOnly
<1> QED
  BY <1>6, <1>7, <1>8, <1>9
  DEF EnrolmentNext, thread_runs, server_stops_accepting, server_starts, allVars

-----------------------------------------------------------------------------
(* Calls. *)

\* No call begins; those that go on find their thread as it was.
LEMMA CallsStay ==
  ASSUME CallsMatch,
         \A k \in Clients : proc'[k] = "waiting" =>
           /\ proc[k] = "waiting" /\ conn'[k] = conn[k] /\ me'[k] = me[k]
           /\ pc'[conn[k]] # "idle" /\ req'[conn[k]] = req[conn[k]]
  PROVE  CallsMatch'
BY DEF CallsMatch, isRegistered

\* A call begins, on a connection nobody waits for.
LEMMA AskCalls ==
  ASSUME Inv, NEW k \in Clients, NEW c \in Conns, NEW r, Ask(k, c, r), UNCHANGED me,
         r.code = "REGISTER" => r.key = me[k].public_key /\ ~ isRegistered(k)
  PROVE  CallsMatch'
<1>1. /\ pc[c] = "idle" /\ pc'[c] = "handling" /\ req'[c] = r
      /\ \A d \in Conns \ {c} : pc'[d] = pc[d] /\ req'[d] = req[d]
  BY DEF Ask, recv_request, Goto, Inv, TypeOK, ThreadsTypeOK
<1>2. /\ proc'[k] = "waiting" /\ conn'[k] = c
      /\ \A j \in Clients \ {k} : proc'[j] = proc[j] /\ conn'[j] = conn[j]
  BY DEF Ask, Inv, EnrolmentTypeOK
<1>3. \A j \in Clients : proc[j] = "waiting" => conn[j] \in Conns /\ conn[j] # c
  BY <1>1 DEF Inv, EnrolmentTypeOK, CallsMatch
<1>4. \A j \in Clients : isRegistered(j)' <=> isRegistered(j)
  BY DEF isRegistered
<1> QED
  BY <1>1, <1>2, <1>3, <1>4 DEF Inv, CallsMatch

\* A call ends, and its thread with it.
LEMMA AnsweredCalls ==
  ASSUME Inv, NEW k \in Clients, NEW code, NEW next, next # "waiting", Answered(k, code, next),
         \A j \in Clients \ {k} : me'[j] = me[j]
  PROVE  CallsMatch'
<1>1. conn[k] \in Conns /\ proc[k] = "waiting"
  BY DEF Answered, Inv, EnrolmentTypeOK
<1>2. \A d \in Conns \ {conn[k]} : pc'[d] = pc[d] /\ req'[d] = req[d]
  BY <1>1 DEF Answered, send_response, Close, Goto, Inv, TypeOK, ThreadsTypeOK
<1>3. /\ proc'[k] # "waiting"
      /\ \A j \in Clients \ {k} : proc'[j] = proc[j] /\ conn'[j] = conn[j]
  BY DEF Answered, Inv, EnrolmentTypeOK
<1>4. \A j \in Clients \ {k} : proc[j] = "waiting" =>
        conn[j] \in Conns \ {conn[k]} /\ pc[conn[j]] # "idle"
  BY <1>1 DEF Inv, EnrolmentTypeOK, CallsMatch
<1>5. CallsMatch
  BY DEF Inv
<1> QED
  BY <1>2, <1>3, <1>4, <1>5, CallsStay

LEMMA CallsNext == Inv /\ [EnrolmentNext]_allVars => CallsMatch'
<1> SUFFICES ASSUME Inv, [EnrolmentNext]_allVars PROVE CallsMatch'
  OBVIOUS
<1>1. CallsMatch /\ \A k \in Clients : proc[k] = "waiting" => pc[conn[k]] # "idle"
  BY DEF Inv, CallsMatch
<1>2. ASSUME NEW k \in Clients, NEW c \in Conns, registerClient(k, c) PROVE CallsMatch'
  <2>1. PICK name \in Names :
          Ask(k, c, [code |-> "REGISTER", sized |-> TRUE, name |-> name, key |-> me[k].public_key])
    BY <1>2 DEF registerClient
  <2>2. ~ isRegistered(k) /\ UNCHANGED me
    BY <1>2 DEF registerClient, MayRegister
  <2> QED
    BY <2>1, <2>2, AskCalls
<1>3. ASSUME NEW k \in Clients, NEW c \in Conns, getPeers(k, c) PROVE CallsMatch'
  <2>1. Ask(k, c, [code |-> "LIST_CLIENT", sized |-> TRUE, cid |-> me[k].id]) /\ UNCHANGED me
    BY <1>3 DEF getPeers
  <2> QED
    BY <2>1, AskCalls
<1>4. ASSUME NEW k \in Clients, client_registered(k) PROVE CallsMatch'
  <2>1. \A j \in Clients \ {k} : me'[j] = me[j]
    BY <1>4 DEF client_registered, Inv, EnrolmentTypeOK
  <2> QED
    BY <1>4, <2>1, AnsweredCalls DEF client_registered
<1>5. ASSUME NEW k \in Clients, client_lists_namesake(k) \/ client_lists(k) \/ client_refused(k)
      PROVE  CallsMatch'
  BY <1>5, AnsweredCalls DEF client_lists_namesake, client_lists, client_refused
<1>6. ASSUME NEW k \in Clients, client_start(k) \/ client_ends(k) \/ save_me_info(k)
      PROVE  CallsMatch'
  <2>1. /\ proc'[k] # "waiting" /\ UNCHANGED <<pc, req>>
        /\ \A j \in Clients \ {k} : proc'[j] = proc[j] /\ conn'[j] = conn[j] /\ me'[j] = me[j]
    BY <1>6
    DEF client_start, client_ends, save_me_info, Inv, EnrolmentTypeOK, vars, threads
  <2> QED
    BY <1>1, <2>1, CallsStay
<1>7. ASSUME NEW k \in Clients, call_fails(k) PROVE CallsMatch'
  BY <1>1, <1>7, CallsStay DEF call_fails, Fail, Closed, vars, threads
<1>8. ASSUME NEW c \in Conns, thread_runs(c) PROVE CallsMatch'
  <2>1. UNCHANGED <<req, proc, conn, me>>
    BY <1>8
    DEF thread_runs, handle_register, handle_register_add, handle_register_print,
        handle_list_clients, database_raises, clientVars
  <2>2. pc'[c] # "idle" /\ \A d \in Conns \ {c} : pc'[d] = pc[d]
    BY <1>8
    DEF thread_runs, handle_register, handle_register_add, handle_register_print,
        handle_list_clients, database_raises, Respond, Goto, Inv, TypeOK, ThreadsTypeOK
  <2>3. \A k \in Clients : proc[k] = "waiting" => conn[k] \in Conns
    BY DEF Inv, EnrolmentTypeOK
  <2> QED
    BY <1>1, <2>1, <2>2, <2>3, CallsStay
<1>9. ASSUME NEW c \in Conns, response_lost(c) PROVE CallsMatch'
  <2>1. \A d \in Conns \ {c} : pc'[d] = pc[d] /\ req'[d] = req[d]
    BY <1>9 DEF response_lost, lose_response, Close, Goto, Inv, TypeOK, ThreadsTypeOK
  <2>2. \A k \in Clients : proc[k] = "waiting" => conn[k] \in Conns
    BY DEF Inv, EnrolmentTypeOK
  <2> QED
    BY <1>1, <1>9, <2>1, <2>2, CallsStay DEF response_lost, Fail, Closed
<1>10. CASE server_crashes
  BY <1>1, <1>10, CallsStay DEF server_crashes, Fail
<1>11. CASE UNCHANGED <<threads, clientVars>>
  BY <1>1, <1>11, CallsStay DEF threads, clientVars
<1> QED
  BY <1>2, <1>3, <1>4, <1>5, <1>6, <1>7, <1>8, <1>9, <1>10, <1>11
  DEF EnrolmentNext, ClientStep, server_stops_accepting, server_starts, accept_raises, start,
      allVars, vars

-----------------------------------------------------------------------------
(* Types. *)

Believed == Identity \cup {Nobody(key) : key \in Keys \cup {NoThing}}

LEMMA StartType ==
  ASSUME EnrolmentTypeOK, NEW k \in Clients, client_start(k)
  PROVE  EnrolmentTypeOK'
<1>0. /\ me \in [Clients -> Believed] /\ drawn \subseteq Keys
      /\ info \in [Clients -> Identity \cup {NoThing}]
  BY DEF EnrolmentTypeOK, Believed
<1>1. me' \in [Clients -> Believed] /\ drawn' \subseteq Keys
  <2>1. CASE info[k] # NoThing /\ me' = [me EXCEPT ![k] = info[k]] /\ UNCHANGED drawn
    <3>1. info[k] \in Believed
      BY <1>0, <2>1 DEF Believed
    <3> QED
      BY <1>0, <2>1, <3>1
  <2>2. CASE \E key \in Keys \ drawn :
               /\ me' = [me EXCEPT ![k] = Nobody(key)]
               /\ drawn' = drawn \cup {key}
    <3>1. \A key \in Keys : Nobody(key) \in Believed
      BY DEF Believed
    <3> QED
      BY <1>0, <2>2, <3>1
  <2> QED
    BY <2>1, <2>2 DEF client_start
<1>2. proc' \in [Clients -> {"off", "prompt", "waiting", "saving"}]
  BY DEF client_start, EnrolmentTypeOK
<1>3. \A j \in Clients : (conn'[j] # NoThing) <=> (proc'[j] = "waiting")
  BY DEF client_start, EnrolmentTypeOK
<1> QED
  BY <1>1, <1>2, <1>3 DEF client_start, EnrolmentTypeOK, Believed

\* A registered process has all the fields of an identity.
LEMMA Whole ==
  ASSUME EnrolmentTypeOK, NEW k \in Clients, isRegistered(k)
  PROVE  me[k] \in Identity
BY DEF EnrolmentTypeOK, isRegistered, Nobody

LEMMA FileType ==
  ASSUME EnrolmentTypeOK, NEW k \in Clients, isRegistered(k), info' \in {info, Torn(k), Saved(k)}
  PROVE  info' \in [Clients -> Identity \cup {NoThing}]
BY Whole DEF EnrolmentTypeOK, Torn, Saved

LEMMA EndType ==
  ASSUME Inv, NEW k \in Clients, client_ends(k)
  PROVE  EnrolmentTypeOK'
<1>1. EnrolmentTypeOK /\ (proc[k] = "saving" => isRegistered(k))
  BY DEF Inv, IdentitiesKnown
<1>2. info' \in [Clients -> Identity \cup {NoThing}]
  <2>1. CASE info' = info
    BY <1>1, <2>1 DEF EnrolmentTypeOK
  <2>2. CASE proc[k] = "saving" /\ info' \in {info, Torn(k), Saved(k)}
    BY <1>1, <2>2, FileType
  <2> QED
    BY <2>1, <2>2 DEF client_ends
<1>3. /\ proc' \in [Clients -> {"off", "prompt", "waiting", "saving"}]
      /\ me' \in [Clients -> Believed]
      /\ peers' \in [Clients -> [Names -> Ids \cup {NoThing}]]
      /\ conn' \in [Clients -> Conns \cup {NoThing}]
      /\ listed' \in [Clients -> SUBSET User]
      /\ drawn' \subseteq Keys
  BY <1>1 DEF client_ends, EnrolmentTypeOK, Believed, NoPeers
<1>4. \A j \in Clients : (conn'[j] # NoThing) <=> (proc'[j] = "waiting")
  BY <1>1 DEF client_ends, EnrolmentTypeOK
<1> QED
  BY <1>2, <1>3, <1>4 DEF EnrolmentTypeOK, Believed

LEMMA SaveType ==
  ASSUME Inv, NEW k \in Clients, save_me_info(k)
  PROVE  EnrolmentTypeOK'
<1>1. EnrolmentTypeOK /\ isRegistered(k)
  BY DEF save_me_info, Inv, IdentitiesKnown
<1>2. info' \in [Clients -> Identity \cup {NoThing}]
  BY <1>1, FileType DEF save_me_info
<1>3. /\ proc' \in [Clients -> {"off", "prompt", "waiting", "saving"}]
      /\ \A j \in Clients : (conn'[j] # NoThing) <=> (proc'[j] = "waiting")
  BY <1>1 DEF save_me_info, EnrolmentTypeOK
<1> QED
  BY <1>1, <1>2, <1>3 DEF save_me_info, EnrolmentTypeOK

\* A call begins, for which the users us are remembered.
LEMMA AskType ==
  ASSUME EnrolmentTypeOK, NEW k \in Clients, NEW c \in Conns, NEW r, Ask(k, c, r),
         UNCHANGED <<me, info, peers, drawn>>, listed' \in [Clients -> SUBSET User]
  PROVE  EnrolmentTypeOK'
<1>1. /\ proc' \in [Clients -> {"off", "prompt", "waiting", "saving"}]
      /\ conn' \in [Clients -> Conns \cup {NoThing}]
      /\ \A j \in Clients : (conn'[j] # NoThing) <=> (proc'[j] = "waiting")
  BY EnrolmentAssumption DEF Ask, EnrolmentTypeOK
<1> QED
  BY <1>1 DEF EnrolmentTypeOK

\* A call ends with a response.
LEMMA AnsweredType ==
  ASSUME EnrolmentTypeOK, NEW k \in Clients, NEW code, NEW next \in {"prompt", "saving"},
         Answered(k, code, next), UNCHANGED <<info, drawn>>, me' \in [Clients -> Believed],
         peers' \in [Clients -> [Names -> Ids \cup {NoThing}]]
  PROVE  EnrolmentTypeOK'
<1>1. /\ proc' \in [Clients -> {"off", "prompt", "waiting", "saving"}]
      /\ conn' \in [Clients -> Conns \cup {NoThing}]
      /\ listed' \in [Clients -> SUBSET User]
      /\ \A j \in Clients : (conn'[j] # NoThing) <=> (proc'[j] = "waiting")
  BY DEF Answered, EnrolmentTypeOK
<1> QED
  BY <1>1 DEF EnrolmentTypeOK, Believed

\* Calls end without one.
LEMMA FailType ==
  ASSUME EnrolmentTypeOK, NEW ks \in SUBSET Clients, \A k \in ks : proc[k] = "waiting", Fail(ks)
  PROVE  EnrolmentTypeOK'
<1>1. /\ proc' \in [Clients -> {"off", "prompt", "waiting", "saving"}]
      /\ conn' \in [Clients -> Conns \cup {NoThing}]
      /\ listed' \in [Clients -> SUBSET User]
      /\ \A j \in Clients : (conn'[j] # NoThing) <=> (proc'[j] = "waiting")
  BY DEF Fail, Closed, EnrolmentTypeOK
<1> QED
  BY <1>1 DEF Fail, EnrolmentTypeOK

LEMMA AddsType ==
  ASSUME EnrolmentTypeOK, NEW k \in Clients, NEW users, NEW names, Adds(k, users, names)
  PROVE  peers' \in [Clients -> [Names -> Ids \cup {NoThing}]]
BY DEF Adds, EnrolmentTypeOK

LEMMA EnrolTypeNext == Inv /\ [EnrolmentNext]_allVars => EnrolmentTypeOK'
<1> SUFFICES ASSUME Inv, [EnrolmentNext]_allVars PROVE EnrolmentTypeOK'
  OBVIOUS
<1>1. EnrolmentTypeOK
  BY DEF Inv
<1>2. me \in [Clients -> Believed] /\ peers \in [Clients -> [Names -> Ids \cup {NoThing}]]
  BY <1>1 DEF EnrolmentTypeOK, Believed
<1>3. ASSUME NEW k \in Clients, NEW c \in Conns, registerClient(k, c) PROVE EnrolmentTypeOK'
  <2>1. UNCHANGED <<me, info, peers, drawn>> /\ listed' \in [Clients -> SUBSET User]
    BY <1>1, <1>3 DEF registerClient, EnrolmentTypeOK
  <2> QED
    BY <1>1, <1>3, <2>1, AskType DEF registerClient
<1>4. ASSUME NEW k \in Clients, NEW c \in Conns, getPeers(k, c) PROVE EnrolmentTypeOK'
  <2>1. enrolled \subseteq User
    BY DEF Inv, TypeOK, HistoryTypeOK
  <2>2. listed' \in [Clients -> SUBSET User]
    BY <1>1, <1>4, <2>1 DEF getPeers, EnrolmentTypeOK
  <2> QED
    BY <1>1, <1>4, <2>2, AskType DEF getPeers
<1>5. ASSUME NEW k \in Clients, client_registered(k) PROVE EnrolmentTypeOK'
  <2> DEFINE self == [id |-> res[conn[k]].user.id, username |-> req[conn[k]].name,
                      public_key |-> me[k].public_key]
  <2>1. Answered(k, "REGISTER", "saving") /\ UNCHANGED <<info, peers, drawn>>
        /\ me' = [me EXCEPT ![k] = self]
    BY <1>5 DEF client_registered, EnrolledAs
  <2>2. self \in Identity
    BY <2>1, EnrolledUser DEF Answered
  <2> HIDE DEF self
  <2>3. me' \in [Clients -> Believed]
    BY <1>2, <2>1, <2>2 DEF Believed
  <2> QED
    BY <1>1, <1>2, <2>1, <2>3, AnsweredType
<1>6. ASSUME NEW k \in Clients, client_lists_namesake(k) \/ client_lists(k) PROVE EnrolmentTypeOK'
  <2>1. Answered(k, "USERS", "prompt") /\ UNCHANGED <<me, info, drawn>>
        /\ \E users, names : Adds(k, users, names)
    BY <1>6 DEF client_lists_namesake, client_lists
  <2>2. peers' \in [Clients -> [Names -> Ids \cup {NoThing}]]
    BY <1>1, <2>1, AddsType
  <2> QED
    BY <1>1, <1>2, <2>1, <2>2, AnsweredType
<1>7. ASSUME NEW k \in Clients, client_refused(k) PROVE EnrolmentTypeOK'
  BY <1>1, <1>2, <1>7, AnsweredType DEF client_refused
<1>8. ASSUME NEW k \in Clients, call_fails(k) PROVE EnrolmentTypeOK'
  BY <1>1, <1>8, FailType DEF call_fails
<1>9. ASSUME NEW c \in Conns, response_lost(c) PROVE EnrolmentTypeOK'
  <2>1. \A k \in Clients : conn[k] = c => proc[k] = "waiting"
    BY <1>1, EnrolmentAssumption DEF EnrolmentTypeOK
  <2> QED
    BY <1>1, <1>9, <2>1, FailType DEF response_lost
<1>10. CASE server_crashes
  BY <1>1, <1>10, FailType DEF server_crashes
<1>11. CASE UNCHANGED clientVars
  BY <1>1, <1>11 DEF clientVars, EnrolmentTypeOK
<1> QED
  BY <1>1, <1>3, <1>4, <1>5, <1>6, <1>7, <1>8, <1>9, <1>10, <1>11, StartType, EndType, SaveType
  DEF EnrolmentNext, ClientStep, thread_runs, server_stops_accepting, server_starts, allVars

-----------------------------------------------------------------------------
(* The invariant, and what follows from it. *)

LEMMA InvInit == EnrolmentInit => Inv
<1> SUFFICES ASSUME EnrolmentInit PROVE Inv
  OBVIOUS
<1>1. TypeOK
  BY InitType DEF EnrolmentInit
<1>2. EnrolInv /\ AnswersMatch
  BY DEF EnrolmentInit, Init, DbInit, EnrolInv, Registered, Enrolling, Carries, AnswersMatch
<1>3. EnrolmentTypeOK
  BY DEF EnrolmentInit, EnrolmentTypeOK, NoPeers
<1>4. CallsMatch /\ IdentitiesKnown
  BY DEF EnrolmentInit, CallsMatch, IdentitiesKnown, isRegistered, Nobody
<1> QED
  BY <1>1, <1>2, <1>3, <1>4 DEF Inv

LEMMA InvNext == Inv /\ [EnrolmentNext]_allVars => Inv'
<1> SUFFICES ASSUME Inv, [EnrolmentNext]_allVars PROVE Inv'
  OBVIOUS
<1>1. [Next]_vars
  BY ServerSteps DEF Inv
<1>2. TypeOK' /\ EnrolInv' /\ AnswersMatch'
  BY <1>1, NextType, EnrolNext, AnswersNext DEF Inv
<1>3. EnrolmentTypeOK' /\ CallsMatch' /\ IdentitiesKnown'
  BY EnrolTypeNext, CallsNext, IdentitiesNext
<1> QED
  BY <1>2, <1>3 DEF Inv

\* Processes, files and calls always hold values of their types: what a client
\* takes from a response is a whole identity, and what it saves is one.
THEOREM EnrolmentTypeCorrect == EnrolmentSpec => []EnrolmentTypeOK
<1>1. Inv => EnrolmentTypeOK
  BY DEF Inv
<1> QED
  BY <1>1, InvInit, InvNext, PTL DEF EnrolmentSpec

\* Every installation, whatever is lost, refused or crashes, believes to be a
\* user that the server has, in its memory and on its disk, with the name that
\* was typed and the public key of the key pair that the installation made.
THEOREM IdentitiesAreKept == EnrolmentSpec => []IdentityKept
<1>1. Inv => IdentityKept
  BY DEF Inv, EnrolInv, IdentitiesKnown, IdentityKept
<1> QED
  BY <1>1, InvInit, InvNext, PTL DEF EnrolmentSpec

\* A saved identity is replaced or lost only by a process that did not start
\* with it: read_me_info and the test of command 110 suffice for that.
THEOREM IdentitiesAreForLife == EnrolmentSpec => IdentityForLife
<1> DEFINE Kept == \A k \in Clients :
                     info[k] # NoThing /\ info'[k] # info[k] =>
                       me[k].public_key # info[k].public_key
<1>1. ASSUME Inv, EnrolmentNext, NEW k \in Clients, info'[k] # info[k]
      PROVE  proc[k] = "saving"
  <2>1. ASSUME NEW j \in Clients, ClientStep(j) PROVE proc[k] = "saving"
    <3>1. CASE client_ends(j) \/ save_me_info(j)
      BY <1>1, <3>1
      DEF client_ends, save_me_info, Saved, Torn, Inv, EnrolmentTypeOK
    <3> QED
      BY <1>1, <2>1, <3>1
      DEF ClientStep, client_start, registerClient, getPeers, client_registered,
          client_lists_namesake, client_lists, client_refused, call_fails, Fail
  <2> QED
    BY <1>1, <2>1
    DEF EnrolmentNext, thread_runs, response_lost, Fail, server_crashes,
        server_stops_accepting, server_starts, clientVars
<1>2. Inv /\ [EnrolmentNext]_allVars => [Kept]_allVars
  BY <1>1 DEF Inv, IdentitiesKnown
<1> QED
  BY <1>2, InvInit, InvNext, PTL DEF EnrolmentSpec, IdentityForLife

-----------------------------------------------------------------------------
(* Names.  An identifier is drawn once, for the one user that a thread builds *)
(* with it, and is drawn whether or not the row of that user stays.  So who   *)
(* has ever seen an identifier has seen it with that user's name.             *)

\* The users a thread has built, enrols or lists.
InHand(c) ==
  (IF pc[c] \in {"checked", "added"} THEN {user[c]} ELSE {})
    \cup Enrolling(c) \cup (IF Carries(c, "USERS") THEN res[c].users ELSE {})

Known == clients \cup disk.clients \cup enrolled \cup UNION {InHand(c) : c \in Conns}

\* A step of a thread leaves the others alone.
LEMMA OtherThreads ==
  ASSUME TypeOK, NEW c \in Conns, handle_connection(c) \/ handle_request(c), NEW d \in Conns \ {c}
  PROVE  pc'[d] = pc[d] /\ req'[d] = req[d] /\ user'[d] = user[d] /\ res'[d] = res[d]
BY DEF handle_connection, handle_request, recv_request, recv_invalid, handle_error,
       handle_register, handle_register_add, handle_register_print, handle_list_clients,
       handle_public_key_request, handle_messege, handle_pending_messeges,
       database_raises, response_too_long, send_response, lose_response,
       Respond, Close, Goto, TypeOK, ThreadsTypeOK

\* Only what a thread is about to insert gets into the table, and only what it
\* inserts without an exception to the disk; only a response enrols.
LEMMA TableSteps ==
  ASSUME TypeOK, NEW c \in Conns, handle_connection(c) \/ handle_request(c)
  PROVE  /\ clients' \cup disk'.clients \subseteq
              clients \cup disk.clients \cup (IF pc[c] = "checked" THEN {user[c]} ELSE {})
         /\ enrolled' \subseteq enrolled \cup Enrolling(c)
<1>1. ASSUME \/ handle_register_add(c) \/ handle_messege(c) \/ handle_pending_messeges(c)
      PROVE  /\ clients' \cup disk'.clients \subseteq
                  clients \cup disk.clients \cup (IF pc[c] = "checked" THEN {user[c]} ELSE {})
             /\ enrolled' \subseteq enrolled \cup Enrolling(c)
  BY <1>1
  DEF handle_register_add, add_client, handle_messege, save_message, handle_pending_messeges,
      retrieve_and_delete_all_waiting_messages, Commit, history
<1>2. ASSUME database_raises(c)
      PROVE  /\ clients' \cup disk'.clients \subseteq
                  clients \cup disk.clients \cup (IF pc[c] = "checked" THEN {user[c]} ELSE {})
             /\ enrolled' \subseteq enrolled \cup Enrolling(c)
  BY <1>2
  DEF database_raises, save_message_raises, retrieve_and_delete_raises, add_client_raises,
      select_raises, Raise, Reload, dbVars
<1>3. ASSUME \/ handle_connection(c) \/ handle_error(c) \/ handle_register(c)
             \/ handle_register_print(c) \/ handle_list_clients(c)
             \/ handle_public_key_request(c) \/ response_too_long(c)
             \/ send_response(c) \/ lose_response(c)
      PROVE  UNCHANGED <<clients, disk>> /\ enrolled' \subseteq enrolled \cup Enrolling(c)
  BY <1>3
  DEF handle_connection, recv_request, recv_invalid, handle_error, handle_register,
      handle_register_print, handle_list_clients, handle_public_key_request,
      response_too_long, send_response, lose_response, dbVars, history
<1> QED
  BY <1>1, <1>2, <1>3 DEF handle_request

\* Most steps leave a thread with nobody in hand.
LEMMA EmptyHanded ==
  ASSUME TypeOK, NEW c \in Conns,
         \/ pc'[c] \in {"idle", "handling"}
         \/ \E r : Respond(c, r) /\ r.code \notin {"REGISTER", "USERS"}
  PROVE  InHand(c)' = {}
BY DEF InHand, Enrolling, Carries, Respond, Goto, TypeOK, ThreadsTypeOK

\* Whom a thread has in hand after a step it had before, has read from the table,
\* or has just built with an identifier that was never drawn.
LEMMA HandSteps ==
  ASSUME TypeOK, NEW c \in Conns, handle_connection(c) \/ handle_request(c)
  PROVE  \/ InHand(c)' \subseteq InHand(c) \cup clients /\ UNCHANGED minted
         \/ \E u \in User : /\ InHand(c)' = {u} /\ u.id \notin minted
                            /\ minted' = minted \cup {u.id} /\ pc[c] # "checked"
<1>1. error_response.code \notin {"REGISTER", "USERS"}
  BY DEF error_response
<1>2. CASE \/ handle_connection(c) \/ handle_error(c) \/ database_raises(c)
           \/ response_too_long(c) \/ send_response(c) \/ lose_response(c)
  <2>1. pc'[c] \in {"idle", "handling"} \/ Respond(c, error_response)
    BY <1>2
    DEF handle_connection, recv_request, recv_invalid, handle_error, database_raises,
        response_too_long, send_response, lose_response, Close, Goto, TypeOK, ThreadsTypeOK
  <2>2. UNCHANGED minted
    BY <1>2
    DEF handle_connection, recv_request, recv_invalid, handle_error, database_raises,
        response_too_long, send_response, lose_response
  <2> QED
    BY <1>1, <2>1, <2>2, EmptyHanded
<1>3. CASE handle_messege(c) \/ handle_pending_messeges(c) \/ handle_public_key_request(c)
  <2>1. \E r : Respond(c, r) /\ r.code \notin {"REGISTER", "USERS"}
    <3>1. CASE handle_messege(c)
      BY <3>1 DEF handle_messege
    <3>2. CASE handle_pending_messeges(c)
      BY <3>2 DEF handle_pending_messeges
    <3>3. CASE handle_public_key_request(c)
      <4>1. ASSUME NEW u, Respond(c, [code |-> "PUBLIC_KEY", user |-> u])
            PROVE  \E r : Respond(c, r) /\ r.code \notin {"REGISTER", "USERS"}
        BY <4>1
      <4>2. ASSUME Respond(c, error_response)
            PROVE  \E r : Respond(c, r) /\ r.code \notin {"REGISTER", "USERS"}
        BY <1>1, <4>2
      <4> QED
        BY <3>3, <4>1, <4>2 DEF handle_public_key_request
    <3> QED
      BY <1>3, <3>1, <3>2, <3>3
  <2>2. UNCHANGED minted
    BY <1>3 DEF handle_messege, handle_pending_messeges, handle_public_key_request
  <2> QED
    BY <2>1, <2>2, EmptyHanded
<1>4. CASE handle_register(c)
  <2>1. CASE username_exists(req[c].name)
    BY <1>1, <1>4, <2>1, EmptyHanded DEF handle_register
  <2>2. CASE ~ username_exists(req[c].name)
    <3>1. PICK id \in Ids \ minted :
            /\ minted' = minted \cup {id}
            /\ user' = [user EXCEPT ![c] =
                 [id |-> id, username |-> req[c].name, public_key |-> req[c].key]]
      BY <1>4, <2>2 DEF handle_register
    <3> DEFINE u == [id |-> id, username |-> req[c].name, public_key |-> req[c].key]
    <3>2. u \in User /\ u.id = id
      BY <1>4, RequestType DEF handle_register, User, TypeOK
    <3>3. pc[c] = "handling" /\ pc'[c] = "checked" /\ user'[c] = u
      BY <1>4, <2>2, <3>1 DEF handle_register, Handling, Goto, TypeOK, ThreadsTypeOK
    <3>4. InHand(c)' = {u}
      BY <3>3 DEF InHand, Enrolling, Carries
    <3> QED
      BY <3>1, <3>2, <3>3, <3>4
  <2> QED
    BY <2>1, <2>2
<1>5. CASE handle_register_add(c) \/ handle_register_print(c)
  <2>1. InHand(c)' = {user[c]} /\ user[c] \in InHand(c)
    BY <1>5
    DEF handle_register_add, handle_register_print, Respond, Goto, InHand, Enrolling, Carries,
        TypeOK, ThreadsTypeOK
  <2> QED
    BY <1>5, <2>1 DEF handle_register_add, handle_register_print
<1>6. CASE handle_list_clients(c)
  <2>1. InHand(c)' = {u \in clients : u.id # req[c].cid}
    BY <1>6 DEF handle_list_clients, Respond, Goto, InHand, Enrolling, Carries, TypeOK, ThreadsTypeOK
  <2> QED
    BY <1>6, <2>1 DEF handle_list_clients
<1> QED
  BY <1>2, <1>3, <1>4, <1>5, <1>6 DEF handle_request

\* At most one user becomes known by a step, with an identifier drawn in it.
LEMMA KnownSteps ==
  ASSUME TypeOK, [Next]_vars
  PROVE  /\ minted \subseteq minted'
         /\ \/ Known' \subseteq Known
            \/ \E u \in User : Known' \subseteq Known \cup {u} /\ u.id \in minted' \ minted
<1>1. ASSUME NEW c \in Conns, handle_connection(c) \/ handle_request(c)
      PROVE  /\ minted \subseteq minted'
             /\ \/ Known' \subseteq Known
                \/ \E u \in User : Known' \subseteq Known \cup {u} /\ u.id \in minted' \ minted
  <2>1. \A d \in Conns \ {c} : InHand(d)' = InHand(d)
    BY <1>1, OtherThreads DEF InHand, Enrolling, Carries
  <2>2. clients' \cup disk'.clients \cup enrolled' \subseteq Known
    <3>1. Enrolling(c) \subseteq InHand(c) /\ (IF pc[c] = "checked" THEN {user[c]} ELSE {}) \subseteq InHand(c)
      BY DEF InHand
    <3>2. InHand(c) \subseteq Known
      BY DEF Known
    <3> QED
      BY <1>1, <3>1, <3>2, TableSteps DEF Known
  <2>3. Known' \subseteq Known \cup InHand(c)'
    BY <2>1, <2>2 DEF Known
  <2>4. InHand(c) \cup clients \subseteq Known
    BY DEF Known
  <2> QED
    BY <1>1, <2>3, <2>4, HandSteps
<1>2. CASE crash
  <2>1. UNCHANGED <<clients, disk, enrolled, minted>> /\ \A c \in Conns : InHand(c)' = {}
    BY <1>2 DEF crash, dbVars, InHand, Enrolling, Carries
  <2> QED
    BY <2>1 DEF Known
<1>3. CASE UNCHANGED <<threads, minted, history, disk>> /\ clients' \in {clients, disk.clients}
  <2>1. \A c \in Conns : InHand(c)' = InHand(c)
    BY <1>3 DEF threads, InHand, Enrolling, Carries
  <2> QED
    BY <1>3, <2>1 DEF Known, history
<1> QED
  BY <1>1, <1>2, <1>3
  DEF Next, accept_raises, start, connect_and_init, Reload, vars, dbVars

\* A list of users answers a request for one, and leaves the one who asks out.
UsersMatch ==
  \A c \in Conns : Carries(c, "USERS") =>
    req[c].code = "LIST_CLIENT" /\ \A u \in res[c].users : u.id # req[c].cid

LEMMA UsersNext == TypeOK /\ UsersMatch /\ [Next]_vars => UsersMatch'
<1> SUFFICES ASSUME TypeOK, UsersMatch, [Next]_vars PROVE UsersMatch'
  OBVIOUS
<1>1. ASSUME NEW c \in Conns, handle_connection(c) \/ handle_request(c) PROVE UsersMatch'
  <2>1. \A d \in Conns \ {c} : pc'[d] = pc[d] /\ req'[d] = req[d] /\ res'[d] = res[d]
    BY <1>1, OtherThreads
  <2>2. ASSUME handle_list_clients(c)
        PROVE  /\ req'[c] = req[c] /\ req[c].code = "LIST_CLIENT"
               /\ res'[c].users = {u \in clients : u.id # req[c].cid}
    BY <2>2 DEF handle_list_clients, Handling, Respond, TypeOK, ThreadsTypeOK
  <2>3. ASSUME ~ handle_list_clients(c) PROVE ~ Carries(c, "USERS")'
    <3>1. ASSUME Respond(c, error_response) PROVE ~ Carries(c, "USERS")'
      BY <3>1 DEF Respond, error_response, Carries, TypeOK, ThreadsTypeOK
    <3>2. CASE handle_public_key_request(c)
      <4>1. ASSUME NEW u, Respond(c, [code |-> "PUBLIC_KEY", user |-> u])
            PROVE  ~ Carries(c, "USERS")'
        BY <4>1 DEF Respond, Carries, TypeOK, ThreadsTypeOK
      <4> QED
        BY <3>1, <3>2, <4>1 DEF handle_public_key_request
    <3>3. CASE handle_register(c)
      <4>1. CASE username_exists(req[c].name)
        BY <3>1, <3>3, <4>1 DEF handle_register
      <4>2. CASE ~ username_exists(req[c].name)
        BY <3>3, <4>2 DEF handle_register, Goto, Carries, TypeOK, ThreadsTypeOK
      <4> QED
        BY <4>1, <4>2
    <3>4. CASE \/ handle_register_add(c) \/ handle_register_print(c) \/ handle_messege(c)
               \/ handle_pending_messeges(c)
      BY <3>4
      DEF handle_register_add, handle_register_print, handle_messege, handle_pending_messeges,
          Respond, Goto, Carries, TypeOK, ThreadsTypeOK
    <3>5. CASE \/ handle_connection(c) \/ handle_error(c) \/ database_raises(c)
               \/ response_too_long(c) \/ send_response(c) \/ lose_response(c)
      BY <3>1, <3>5
      DEF handle_connection, recv_request, recv_invalid, handle_error, database_raises,
          response_too_long, send_response, lose_response, Close, Goto, Carries, TypeOK,
          ThreadsTypeOK
    <3> QED
      BY <1>1, <2>3, <3>2, <3>3, <3>4, <3>5 DEF handle_request
  <2> QED
    BY <2>1, <2>2, <2>3 DEF UsersMatch, Carries
<1>2. CASE crash
  BY <1>2 DEF crash, UsersMatch, Carries
<1>3. CASE UNCHANGED threads
  BY <1>3 DEF threads, UsersMatch, Carries
<1> QED
  BY <1>1, <1>2, <1>3 DEF Next, accept_raises, start, vars

\* A client that waits for a list has asked as itself, and everyone it counts on is
\* still registered, and in the list if there is one.
Counted(k) ==
  /\ isRegistered(k) /\ req[conn[k]].cid = me[k].id
  /\ listed[k] \subseteq enrolled
  /\ \A u \in listed[k] : u.id # me[k].id
  /\ Carries(conn[k], "USERS") => listed[k] \subseteq res[conn[k]].users

ListsMatch ==
  \A k \in Clients : proc[k] = "waiting" /\ req[conn[k]].code = "LIST_CLIENT" => Counted(k)

\* The identifiers a client has for names are those of users who have the names, now and
\* ever after, and its own is not among them.
NamesInv ==
  /\ \A u \in Known : u.id \in minted
  /\ \A u, v \in Known : u.id = v.id => u.username = v.username
  /\ \A k \in Clients, n \in Names : peers[k][n] # NoThing =>
       /\ isRegistered(k) /\ peers[k][n] # me[k].id
       /\ peers[k][n] \in minted
       /\ \A u \in Known : u.id = peers[k][n] => u.username = n
  /\ \A k \in Clients : proc[k] = "off" => ~ isRegistered(k)

PeersInv == Inv /\ UsersMatch /\ ListsMatch /\ NamesInv

\* Calls that go on: their request stays, and a list is only made from the table.
LEMMA ListsStay ==
  ASSUME PeersInv, enrolled \subseteq enrolled',
         \A k \in Clients : proc'[k] = "waiting" =>
           /\ proc[k] = "waiting" /\ conn'[k] = conn[k] /\ me'[k] = me[k] /\ listed'[k] = listed[k]
           /\ req'[conn[k]] = req[conn[k]]
           /\ \/ pc'[conn[k]] = pc[conn[k]] /\ res'[conn[k]] = res[conn[k]]
              \/ ~ Carries(conn[k], "USERS")'
              \/ handle_list_clients(conn[k])
  PROVE  ListsMatch'
<1> SUFFICES ASSUME NEW k \in Clients, proc'[k] = "waiting", (req[conn[k]].code)' = "LIST_CLIENT"
             PROVE  Counted(k)'
  BY DEF ListsMatch
<1> DEFINE c == conn[k]
<1>1. /\ proc[k] = "waiting" /\ conn'[k] = c /\ me'[k] = me[k] /\ listed'[k] = listed[k]
      /\ req'[c] = req[c] /\ c \in Conns
  BY DEF PeersInv, Inv, EnrolmentTypeOK
<1>2. Counted(k)
  BY <1>1 DEF PeersInv, ListsMatch
<1>3. ASSUME (Carries(conn[k], "USERS"))' PROVE listed[k] \subseteq res'[c].users
  <2>1. CASE pc'[c] = pc[c] /\ res'[c] = res[c]
    BY <1>1, <1>2, <1>3, <2>1 DEF Counted, Carries
  <2>2. CASE handle_list_clients(c)
    <3>1. res'[c].users = {u \in clients : u.id # req[c].cid}
      BY <1>1, <2>2 DEF handle_list_clients, Respond, PeersInv, Inv, TypeOK, ThreadsTypeOK
    <3>2. enrolled \subseteq clients
      BY DEF PeersInv, Inv, EnrolInv, Registered
    <3> QED
      BY <1>2, <3>1, <3>2 DEF Counted
  <2>3. (pc'[c] = pc[c] /\ res'[c] = res[c]) \/ handle_list_clients(c)
    BY <1>1, <1>3 DEF Carries
  <2> QED
    BY <2>1, <2>2, <2>3
<1> QED
  BY <1>1, <1>2, <1>3 DEF Counted, isRegistered

\* A call begins.
LEMMA AskLists ==
  ASSUME PeersInv, NEW k \in Clients, NEW c \in Conns, NEW r, Ask(k, c, r), UNCHANGED me,
         \A j \in Clients \ {k} : listed'[j] = listed[j],
         r.code = "LIST_CLIENT" =>
           /\ isRegistered(k) /\ r.cid = me[k].id
           /\ listed'[k] = {u \in enrolled : u.id # me[k].id}
  PROVE  ListsMatch'
<1>1. /\ pc[c] = "idle" /\ pc'[c] = "handling" /\ req'[c] = r /\ UNCHANGED <<res, enrolled>>
      /\ \A d \in Conns \ {c} : pc'[d] = pc[d] /\ req'[d] = req[d]
  BY DEF Ask, recv_request, Goto, history, PeersInv, Inv, TypeOK, ThreadsTypeOK
<1>2. /\ proc'[k] = "waiting" /\ conn'[k] = c
      /\ \A j \in Clients \ {k} : proc'[j] = proc[j] /\ conn'[j] = conn[j]
  BY DEF Ask, PeersInv, Inv, EnrolmentTypeOK
<1>3. \A j \in Clients : proc[j] = "waiting" => conn[j] \in Conns /\ conn[j] # c
  BY <1>1 DEF PeersInv, Inv, EnrolmentTypeOK, CallsMatch
<1>4. ASSUME NEW j \in Clients, proc'[j] = "waiting", (req[conn[j]].code)' = "LIST_CLIENT"
      PROVE  Counted(j)'
  <2>1. CASE j = k
    BY <1>1, <1>2, <1>4, <2>1 DEF Counted, isRegistered, Carries
  <2>2. CASE j # k
    <3>1. /\ proc[j] = "waiting" /\ conn'[j] = conn[j] /\ listed'[j] = listed[j]
          /\ pc'[conn[j]] = pc[conn[j]] /\ req'[conn[j]] = req[conn[j]]
      BY <1>1, <1>2, <1>3, <1>4, <2>2
    <3>2. Counted(j)
      BY <1>4, <3>1 DEF PeersInv, ListsMatch
    <3> QED
      BY <1>1, <3>1, <3>2 DEF Counted, isRegistered, Carries
  <2> QED
    BY <2>1, <2>2
<1> QED
  BY <1>4 DEF ListsMatch

LEMMA ListsNext == PeersInv /\ [EnrolmentNext]_allVars => ListsMatch'
<1> SUFFICES ASSUME PeersInv, [EnrolmentNext]_allVars PROVE ListsMatch'
  OBVIOUS
<1>0. TypeOK /\ EnrolmentTypeOK /\ \A k \in Clients : proc[k] = "waiting" => conn[k] \in Conns
  BY DEF PeersInv, Inv, EnrolmentTypeOK
<1>1. ASSUME NEW k \in Clients, NEW c \in Conns, registerClient(k, c) PROVE ListsMatch'
  <2>1. PICK name \in Names :
          Ask(k, c, [code |-> "REGISTER", sized |-> TRUE, name |-> name, key |-> me[k].public_key])
    BY <1>1 DEF registerClient
  <2>2. UNCHANGED <<me, listed>>
    BY <1>1 DEF registerClient
  <2> QED
    BY <2>1, <2>2, AskLists
<1>2. ASSUME NEW k \in Clients, NEW c \in Conns, getPeers(k, c) PROVE ListsMatch'
  <2>1. /\ isRegistered(k) /\ UNCHANGED me
        /\ Ask(k, c, [code |-> "LIST_CLIENT", sized |-> TRUE, cid |-> me[k].id])
    BY <1>2 DEF getPeers
  <2>2. /\ listed'[k] = {u \in enrolled : u.id # me[k].id}
        /\ \A j \in Clients \ {k} : listed'[j] = listed[j]
    BY <1>0, <1>2 DEF getPeers, EnrolmentTypeOK
  <2> QED
    BY <2>1, <2>2, AskLists
<1>3. ASSUME NEW k \in Clients,
             \/ client_registered(k) \/ client_lists_namesake(k)
             \/ client_lists(k) \/ client_refused(k)
      PROVE  ListsMatch'
  <2>0. \E code, next \in {"REGISTER", "USERS", "ERROR", "prompt", "saving"} :
          next # "waiting" /\ Answered(k, code, next)
    BY <1>3 DEF client_registered, client_lists_namesake, client_lists, client_refused
  <2>1. PICK code, next \in {"REGISTER", "USERS", "ERROR", "prompt", "saving"} :
          next # "waiting" /\ Answered(k, code, next)
    BY <2>0
  <2>2. \A j \in Clients \ {k} : me'[j] = me[j]
    BY <1>0, <1>3
    DEF client_registered, client_lists_namesake, client_lists, client_refused, EnrolmentTypeOK
  <2>3. conn[k] \in Conns /\ proc[k] = "waiting" /\ send_response(conn[k])
    BY <1>0, <2>1 DEF Answered
  <2>4. /\ enrolled \subseteq enrolled'
        /\ \A d \in Conns \ {conn[k]} : pc'[d] = pc[d] /\ req'[d] = req[d] /\ res'[d] = res[d]
    BY <1>0, <2>3 DEF send_response, Close, Goto, TypeOK, ThreadsTypeOK
  <2>5. /\ proc'[k] # "waiting"
        /\ \A j \in Clients \ {k} : proc'[j] = proc[j] /\ conn'[j] = conn[j] /\ listed'[j] = listed[j]
    BY <1>0, <2>1 DEF Answered, EnrolmentTypeOK
  <2>6. \A j \in Clients \ {k} : proc[j] = "waiting" => conn[j] \in Conns \ {conn[k]}
    BY <1>0, <2>3 DEF PeersInv, Inv, CallsMatch
  <2> QED
    BY <2>2, <2>4, <2>5, <2>6, ListsStay
<1>4. ASSUME NEW k \in Clients, client_start(k) \/ client_ends(k) \/ save_me_info(k)
      PROVE  ListsMatch'
  <2>1. /\ proc'[k] # "waiting" /\ UNCHANGED <<pc, req, res, enrolled>>
        /\ \A j \in Clients \ {k} :
             proc'[j] = proc[j] /\ conn'[j] = conn[j] /\ me'[j] = me[j] /\ listed'[j] = listed[j]
    BY <1>0, <1>4
    DEF client_start, client_ends, save_me_info, EnrolmentTypeOK, vars, threads, history
  <2> QED
    BY <2>1, ListsStay
<1>5. ASSUME NEW k \in Clients, call_fails(k) PROVE ListsMatch'
  <2>1. /\ UNCHANGED <<pc, req, res, enrolled, me>>
        /\ \A j \in Clients : proc'[j] = "waiting" =>
             proc[j] = "waiting" /\ conn'[j] = conn[j] /\ listed'[j] = listed[j]
    BY <1>5 DEF call_fails, Fail, Closed, vars, threads, history
  <2> QED
    BY <2>1, ListsStay
<1>6. ASSUME NEW c \in Conns, thread_runs(c) PROVE ListsMatch'
  <2>1. UNCHANGED <<req, enrolled, proc, conn, me, listed>>
    BY <1>6
    DEF thread_runs, handle_register, handle_register_add, handle_register_print,
        handle_list_clients, database_raises, clientVars, history
  <2>2. \A d \in Conns \ {c} : pc'[d] = pc[d] /\ res'[d] = res[d]
    BY <1>0, <1>6, OtherThreads DEF thread_runs, handle_request
  <2>3. handle_list_clients(c) \/ ~ Carries(c, "USERS")'
    <3>1. ASSUME Respond(c, error_response) PROVE ~ Carries(c, "USERS")'
      BY <1>0, <3>1 DEF Respond, error_response, Carries, TypeOK, ThreadsTypeOK
    <3>2. CASE handle_register(c) /\ ~ username_exists(req[c].name)
      BY <1>0, <3>2 DEF handle_register, Goto, Carries, TypeOK, ThreadsTypeOK
    <3>3. CASE handle_register_add(c) \/ handle_register_print(c)
      BY <1>0, <3>3
      DEF handle_register_add, handle_register_print, Respond, Goto, Carries, TypeOK, ThreadsTypeOK
    <3>4. CASE database_raises(c) \/ (handle_register(c) /\ username_exists(req[c].name))
      BY <3>1, <3>4 DEF database_raises, handle_register
    <3> QED
      BY <1>6, <3>2, <3>3, <3>4 DEF thread_runs
  <2>4. \A k \in Clients : proc[k] = "waiting" =>
          \/ pc'[conn[k]] = pc[conn[k]] /\ res'[conn[k]] = res[conn[k]]
          \/ ~ Carries(c, "USERS")' /\ conn[k] = c
          \/ handle_list_clients(c) /\ conn[k] = c
    BY <1>0, <2>2, <2>3
  <2>5. ASSUME NEW k \in Clients, proc[k] = "waiting"
        PROVE  \/ pc'[conn[k]] = pc[conn[k]] /\ res'[conn[k]] = res[conn[k]]
               \/ ~ Carries(conn[k], "USERS")'
               \/ handle_list_clients(conn[k])
    BY <2>1, <2>4, <2>5 DEF Carries
  <2> QED
    BY <2>1, <2>5, ListsStay
<1>7. ASSUME NEW c \in Conns, response_lost(c) PROVE ListsMatch'
  <2>1. /\ UNCHANGED enrolled
        /\ \A d \in Conns \ {c} : pc'[d] = pc[d] /\ req'[d] = req[d] /\ res'[d] = res[d]
    BY <1>0, <1>7 DEF response_lost, lose_response, Close, Goto, TypeOK, ThreadsTypeOK
  <2>2. \A k \in Clients : proc'[k] = "waiting" =>
          /\ proc[k] = "waiting" /\ conn[k] # c /\ conn'[k] = conn[k]
          /\ me'[k] = me[k] /\ listed'[k] = listed[k]
    BY <1>7 DEF response_lost, Fail, Closed
  <2> QED
    BY <1>0, <2>1, <2>2, ListsStay
<1>8. CASE server_crashes
  <2>1. UNCHANGED enrolled /\ \A k \in Clients : proc'[k] # "waiting"
    BY <1>8 DEF server_crashes, crash, Fail
  <2> QED
    BY <2>1, ListsStay
<1>9. CASE UNCHANGED <<threads, enrolled, clientVars>>
  BY <1>9, ListsStay DEF threads, clientVars
<1> QED
  BY <1>1, <1>2, <1>3, <1>4, <1>5, <1>6, <1>7, <1>8, <1>9
  DEF EnrolmentNext, ClientStep, server_stops_accepting, server_starts, accept_raises, start,
      allVars, vars, history

\* Users become known at most one at a time, and with an identifier nobody has: what
\* held of the peers still holds, of those that are kept.
LEMMA NamesStay ==
  ASSUME PeersInv, [Next]_vars,
         \A k \in Clients, n \in Names : peers'[k][n] # NoThing =>
           /\ isRegistered(k)' /\ peers'[k][n] # me'[k].id
           /\ \/ peers'[k][n] = peers[k][n]
              \/ \E u \in Known : u.id = peers'[k][n] /\ u.username = n,
         \A k \in Clients : proc'[k] = "off" => ~ isRegistered(k)'
  PROVE  NamesInv'
<1> DEFINE Old == Known
           New == Known'
<1>1. minted \subseteq minted'
      /\ (New \subseteq Old \/ \E u : New \subseteq Old \cup {u} /\ u.id \in minted' \ minted)
  BY KnownSteps DEF PeersInv, Inv
<1>2. /\ \A u \in Old : u.id \in minted
      /\ \A u, v \in Old : u.id = v.id => u.username = v.username
  BY DEF PeersInv, NamesInv
<1>3. \A k \in Clients, n \in Names : peers'[k][n] # NoThing =>
        /\ peers'[k][n] \in minted
        /\ \A u \in Old : u.id = peers'[k][n] => u.username = n
  <2>1. \A k \in Clients, n \in Names : peers[k][n] # NoThing =>
        /\ peers[k][n] \in minted
        /\ \A u \in Old : u.id = peers[k][n] => u.username = n
    BY DEF PeersInv, NamesInv
  <2> HIDE DEF Old
  <2>2. ASSUME NEW k \in Clients, NEW n \in Names, peers'[k][n] # NoThing,
               \E u \in Old : u.id = peers'[k][n] /\ u.username = n
        PROVE  /\ peers'[k][n] \in minted
               /\ \A u \in Old : u.id = peers'[k][n] => u.username = n
    BY <1>2, <2>2
  <2> QED
    BY <2>1, <2>2 DEF Old
<1> HIDE DEF Old, New
<1>4. (\A u \in New : u.id \in minted') /\ \A u, v \in New : u.id = v.id => u.username = v.username
  BY <1>1, <1>2
<1>5. \A k \in Clients, n \in Names : peers'[k][n] # NoThing =>
        /\ peers'[k][n] \in minted'
        /\ \A u \in New : u.id = peers'[k][n] => u.username = n
  BY <1>1, <1>3
<1> QED
  BY <1>4, <1>5 DEF NamesInv, New

\* What the loop of getPeers adds are users of the list, under their names.
LEMMA ListedPeers ==
  ASSUME PeersInv, NEW k \in Clients, Answered(k, "USERS", "prompt"), NEW names,
         Adds(k, res[conn[k]].users, names), UNCHANGED me
  PROVE  \A j \in Clients, n \in Names : peers'[j][n] # NoThing =>
           /\ isRegistered(j)' /\ peers'[j][n] # me'[j].id
           /\ \/ peers'[j][n] = peers[j][n]
              \/ \E u \in Known : u.id = peers'[j][n] /\ u.username = n
<1> DEFINE c == conn[k]
           users == res[c].users
<1>1. c \in Conns /\ proc[k] = "waiting" /\ Carries(c, "USERS")
  BY DEF Answered, PeersInv, Inv, EnrolmentTypeOK
<1>2. isRegistered(k) /\ req[c].cid = me[k].id /\ \A u \in users : u.id # req[c].cid
  BY <1>1 DEF PeersInv, UsersMatch, ListsMatch, Counted
<1>3. users \subseteq Known
  BY <1>1 DEF Known, InHand
<1>4. \A j \in Clients, n \in Names :
        peers'[j][n] = peers[j][n] \/ (j = k /\ \E u \in Entries(users, n) : peers'[j][n] = u.id)
  BY DEF Adds, PeersInv, Inv, EnrolmentTypeOK
<1>5. \A j \in Clients, n \in Names : peers[j][n] # NoThing =>
        isRegistered(j) /\ peers[j][n] # me[j].id
  BY DEF PeersInv, NamesInv
<1> HIDE DEF users
<1> QED
  BY <1>2, <1>3, <1>4, <1>5 DEF Entries, isRegistered

LEMMA NamesNext == PeersInv /\ [EnrolmentNext]_allVars => NamesInv'
<1> SUFFICES ASSUME PeersInv, [EnrolmentNext]_allVars PROVE NamesInv'
  OBVIOUS
<1>0. EnrolmentTypeOK /\ [Next]_vars
  BY ServerSteps DEF PeersInv, Inv
<1>1. /\ \A k \in Clients, n \in Names : peers[k][n] # NoThing =>
           isRegistered(k) /\ peers[k][n] # me[k].id
      /\ \A k \in Clients : proc[k] = "off" => ~ isRegistered(k)
  BY DEF PeersInv, NamesInv
<1>2. ASSUME UNCHANGED <<me, peers>>, \A k \in Clients : proc'[k] = "off" => proc[k] = "off"
      PROVE  NamesInv'
  BY <1>0, <1>1, <1>2, NamesStay DEF isRegistered
<1>3. ASSUME NEW k \in Clients, UNCHANGED peers, ~ isRegistered(k), proc'[k] # "off",
             \A j \in Clients \ {k} : proc'[j] = proc[j] /\ me'[j] = me[j]
      PROVE  NamesInv'
  BY <1>0, <1>1, <1>3, NamesStay DEF isRegistered
<1>4. ASSUME NEW k \in Clients, client_start(k) PROVE NamesInv'
  <2>1. /\ UNCHANGED peers /\ proc[k] = "off" /\ proc'[k] # "off"
        /\ \A j \in Clients \ {k} : proc'[j] = proc[j] /\ me'[j] = me[j]
    BY <1>0, <1>4 DEF client_start, EnrolmentTypeOK
  <2> QED
    BY <1>1, <1>3, <2>1
<1>5. ASSUME NEW k \in Clients, client_registered(k) PROVE NamesInv'
  <2>1. ~ isRegistered(k)
    BY <1>5, EnrolledUser DEF client_registered, Answered, PeersInv
  <2>2. /\ UNCHANGED peers /\ proc'[k] # "off"
        /\ \A j \in Clients \ {k} : proc'[j] = proc[j] /\ me'[j] = me[j]
    BY <1>0, <1>5 DEF client_registered, Answered, EnrolmentTypeOK
  <2> QED
    BY <1>3, <2>1, <2>2
<1>6. ASSUME NEW k \in Clients, client_ends(k) PROVE NamesInv'
  <2>1. /\ me'[k] = Nobody(NoThing) /\ \A n \in Names : peers'[k][n] = NoThing
        /\ \A j \in Clients \ {k} : proc'[j] = proc[j] /\ me'[j] = me[j] /\ peers'[j] = peers[j]
    BY <1>0, <1>6 DEF client_ends, NoPeers, EnrolmentTypeOK
  <2>2. ~ isRegistered(k)'
    BY <2>1 DEF isRegistered, Nobody
  <2> QED
    BY <1>0, <1>1, <2>1, <2>2, NamesStay DEF isRegistered
<1>7. ASSUME NEW k \in Clients, client_lists_namesake(k) \/ client_lists(k) PROVE NamesInv'
  <2>1. /\ Answered(k, "USERS", "prompt") /\ UNCHANGED me
        /\ \E names : Adds(k, res[conn[k]].users, names)
    BY <1>7 DEF client_lists_namesake, client_lists
  <2>2. \A j \in Clients : proc'[j] = "off" => proc[j] = "off"
    BY <1>0, <2>1 DEF Answered, EnrolmentTypeOK
  <2>3. \A j \in Clients : proc'[j] = "off" => ~ isRegistered(j)'
    BY <1>1, <2>1, <2>2 DEF isRegistered
  <2> QED
    BY <1>0, <2>1, <2>3, ListedPeers, NamesStay
<1>8. ASSUME NEW k \in Clients, save_me_info(k) \/ client_refused(k) PROVE NamesInv'
  <2>1. UNCHANGED <<me, peers>> /\ \A j \in Clients : proc'[j] = "off" => proc[j] = "off"
    BY <1>0, <1>8 DEF save_me_info, client_refused, Answered, EnrolmentTypeOK
  <2> QED
    BY <1>2, <2>1
<1>9. ASSUME NEW k \in Clients, NEW c \in Conns, registerClient(k, c) \/ getPeers(k, c)
      PROVE  NamesInv'
  <2>1. UNCHANGED <<me, peers>> /\ \A j \in Clients : proc'[j] = "off" => proc[j] = "off"
    BY <1>0, <1>9 DEF registerClient, getPeers, Ask, EnrolmentTypeOK
  <2> QED
    BY <1>2, <2>1
<1>10. ASSUME NEW ks, Fail(ks) PROVE NamesInv'
  <2>1. UNCHANGED <<me, peers>> /\ \A j \in Clients : proc'[j] = "off" => proc[j] = "off"
    BY <1>10 DEF Fail
  <2> QED
    BY <1>2, <2>1
<1>11. CASE UNCHANGED clientVars
  BY <1>2, <1>11 DEF clientVars
<1> QED
  BY <1>4, <1>5, <1>6, <1>7, <1>8, <1>9, <1>10, <1>11
  DEF EnrolmentNext, ClientStep, call_fails, thread_runs, response_lost, server_crashes,
      server_stops_accepting, server_starts, allVars

LEMMA PeersInit == EnrolmentInit => PeersInv
<1> SUFFICES ASSUME EnrolmentInit PROVE PeersInv
  OBVIOUS
<1>1. Inv
  BY InvInit
<1>2. UsersMatch /\ ListsMatch
  BY DEF EnrolmentInit, Init, UsersMatch, ListsMatch, Carries
<1>3. Known = {}
  BY DEF EnrolmentInit, Init, DbInit, Known, InHand, Enrolling, Carries
<1>4. NamesInv
  BY <1>3 DEF EnrolmentInit, NamesInv, NoPeers, isRegistered, Nobody
<1> QED
  BY <1>1, <1>2, <1>4 DEF PeersInv

LEMMA PeersNext == PeersInv /\ [EnrolmentNext]_allVars => PeersInv'
<1> SUFFICES ASSUME PeersInv, [EnrolmentNext]_allVars PROVE PeersInv'
  OBVIOUS
<1>1. Inv' /\ [Next]_vars
  BY InvNext, ServerSteps DEF PeersInv, Inv
<1>2. UsersMatch'
  BY <1>1, UsersNext DEF PeersInv, Inv
<1> QED
  BY <1>1, <1>2, ListsNext, NamesNext DEF PeersInv

\* Whatever rows are rolled back, however many users share a name and whoever
\* restarts: the identifier that a client has for a name is never its own, and no
\* client of another name ever gets it.
THEOREM PeersAreNamedRight == EnrolmentSpec => []PeersNamedRight
<1>1. PeersInv => PeersNamedRight
  <2> SUFFICES ASSUME PeersInv, NEW k \in Clients, NEW j \in Clients, NEW n \in Names,
                      isRegistered(j), peers[k][n] = me[j].id
               PROVE  j # k /\ me[j].username = n
    BY DEF PeersNamedRight
  <2>1. me[j] \in Known
    BY DEF PeersInv, Inv, IdentitiesKnown, Known
  <2>2. peers[k][n] # NoThing
    BY DEF isRegistered
  <2> QED
    BY <2>1, <2>2 DEF PeersInv, NamesInv
<1> QED
  BY <1>1, PeersInit, PeersNext, PTL DEF EnrolmentSpec

\* A listing adds someone for the name of every user that was registered when it was
\* asked for, whatever the server and the other clients did in between.
THEOREM EveryoneIsListed == EnrolmentSpec => EveryoneListed
<1> DEFINE Listed ==
      \A k \in Clients : client_lists(k) =>
        \A u \in listed[k] :
          LET id == peers'[k][u.username]
          IN  /\ id # NoThing
              /\ \A v \in clients : v.id = id => v.username = u.username
<1>1. PeersInv /\ NamesInv' /\ [EnrolmentNext]_allVars => [Listed]_allVars
  <2> SUFFICES ASSUME PeersInv, NamesInv', NEW k \in Clients, client_lists(k), NEW u \in listed[k]
               PROVE  /\ peers'[k][u.username] # NoThing
                      /\ \A v \in clients : v.id = peers'[k][u.username] => v.username = u.username
    OBVIOUS
  <2> DEFINE c == conn[k]
             users == res[c].users
  <2>1. /\ Answered(k, "USERS", "prompt") /\ Carries(c, "USERS") /\ proc[k] = "waiting" /\ c \in Conns
        /\ Adds(k, users, NamesOf(users))
    BY DEF client_lists, Read, Answered, PeersInv, Inv, EnrolmentTypeOK
  <2>2. u \in users
    BY <2>1 DEF PeersInv, UsersMatch, ListsMatch, Counted
  <2>3. users \subseteq User
    <3>1. res[c] \in Response /\ res[c].code = "USERS"
      BY <2>1 DEF Carries, PeersInv, Inv, TypeOK, ThreadsTypeOK
    <3> QED
      BY <3>1 DEF Response
  <2> HIDE DEF users
  <2>4. u.username \in Names /\ u.username \in NamesOf(users)
    BY <2>2, <2>3 DEF User, NamesOf
  <2>5. peers'[k][u.username] # NoThing
    <3>1. \/ \E w \in Entries(users, u.username) : peers'[k][u.username] = w.id
          \/ peers[k][u.username] # NoThing /\ peers'[k][u.username] = peers[k][u.username]
      BY <2>1, <2>4 DEF Adds, PeersInv, Inv, EnrolmentTypeOK
    <3>2. \A w \in Entries(users, u.username) : w.id \in Ids
      BY <2>3 DEF Entries, User
    <3> QED
      BY <3>1, <3>2, EnrolmentAssumption
  <2>6. UNCHANGED clients
    BY <2>1 DEF Answered, send_response, dbVars
  <2>7. \A v \in clients : v.id = peers'[k][u.username] => v.username = u.username
    <3>1. clients \subseteq Known'
      BY <2>6 DEF Known
    <3> QED
      BY <2>4, <2>5, <3>1 DEF NamesInv
  <2> QED
    BY <2>5, <2>7
<1>2. PeersInv => NamesInv
  BY DEF PeersInv
<1> QED
  BY <1>1, <1>2, PeersInit, PeersNext, PTL DEF EnrolmentSpec, EveryoneListed
=============================================================================
