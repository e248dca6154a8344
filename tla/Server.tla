------------------------------- MODULE Server -------------------------------
(***************************************************************************)
(* The message server (server/server.py): one thread per accepted          *)
(* connection, each of which reads one request, dispatches it to its       *)
(* handler, sends one response and closes.                                 *)
(*                                                                         *)
(* Conns is the set of threads that can be alive at once; a member is used *)
(* again for a later connection.  A thread holds no lock between two       *)
(* database methods, so every method call is a step of its own and the     *)
(* threads interleave between any two of them.  The bytes of the exchange  *)
(* are the subject of module Exchange; here a request arrives whole or is  *)
(* refused, and a response reaches the client or does not.                 *)
(*                                                                         *)
(* handed, dropped, acked and enrolled are history variables: they record  *)
(* what clients were told and no action reads them.                        *)
(***************************************************************************)
EXTENDS Database, FiniteSets

CONSTANTS
  Conns,        \* handler threads
  Offered,      \* request codes the clients of a model use
  MaxPosts,     \* bound: messages posted in a behaviour
  MaxBatch,     \* messages whose encoding fits the 32-bit payload_size
  MayCrash,     \* the process may be killed and started again
  MayRaise,     \* database methods may raise
  NoThing       \* "not set"

Codes == {"REGISTER", "LIST_CLIENT", "GET_PUBLIC_KEY", "SEND_MESSEGE", "GET_MESSEGES"}

ASSUME ConstantsAssumption ==
  /\ IsFiniteSet(Conns)
  /\ Offered \subseteq Codes \cup {"UNKNOWN"}
  /\ MaxPosts \in Nat
  /\ MaxBatch \in Nat
  /\ MayCrash \in BOOLEAN
  /\ MayRaise \in BOOLEAN

VARIABLES
  up,       \* the process accepts connections
  pc,       \* what each thread is about to do
  req,      \* its request
  user,     \* the User a registering thread has built
  res,      \* its response
  minted,   \* identifiers uuid4 has returned
  handed,   \* messages in responses that reached a client
  dropped,  \* messages taken off the table in a response that did not
  acked,    \* messages whose sender was told they are stored
  enrolled  \* users who were told their identifier

history == <<handed, dropped, acked, enrolled>>
threads == <<pc, req, user, res>>
vars == <<dbVars, up, threads, minted, history>>

\* A payload of the expected size; every other request only has its code.
Request ==
       [code : {"REGISTER"}, sized : {TRUE}, name : Names, key : Keys]
  \cup [code : {"LIST_CLIENT", "GET_MESSEGES"}, sized : {TRUE}, cid : Ids]
  \cup [code : {"GET_PUBLIC_KEY", "SEND_MESSEGE"}, sized : {TRUE}, cid : Ids, target : Ids]
  \cup [code : Codes \cup {"UNKNOWN"}, sized : {FALSE}]

Response ==
       [code : {"REGISTER", "PUBLIC_KEY"}, user : User]
  \cup [code : {"USERS"}, users : SUBSET User]
  \cup [code : {"SENT"}, message : Row]
  \cup [code : {"MESSEGES"}, batch : SUBSET Row]
  \cup [code : {"ERROR"}]

\* Faulty variant: error_response without its return.
no_response == NoThing

error_response == [code |-> "ERROR"]

Stages == {"idle", "handling", "checked", "added", "replying"}

ThreadsTypeOK ==
  /\ pc \in [Conns -> Stages]
  /\ req \in [Conns -> Request \cup {NoThing}]
  /\ user \in [Conns -> User \cup {NoThing}]
  /\ res \in [Conns -> Response \cup {NoThing}]
  /\ \A c \in Conns :
       /\ pc[c] = "handling" => req[c] \in Request
       /\ pc[c] \in {"checked", "added"} => user[c] \in User
       /\ pc[c] = "replying" => res[c] \in Response

HistoryTypeOK ==
  /\ handed \subseteq Row
  /\ dropped \subseteq Row
  /\ acked \subseteq Row
  /\ enrolled \subseteq User

TypeOK ==
  /\ DbTypeOK
  /\ up \in BOOLEAN
  /\ minted \subseteq Ids
  /\ ThreadsTypeOK
  /\ HistoryTypeOK

Init ==
  /\ DbInit
  /\ up = TRUE
  /\ pc = [c \in Conns |-> "idle"]
  /\ req = [c \in Conns |-> NoThing]
  /\ user = [c \in Conns |-> NoThing]
  /\ res = [c \in Conns |-> NoThing]
  /\ minted = {}
  /\ handed = {}
  /\ dropped = {}
  /\ acked = {}
  /\ enrolled = {}

-----------------------------------------------------------------------------
(* The life of a thread. *)

Goto(c, stage) == pc' = [pc EXCEPT ![c] = stage]

Respond(c, response) ==
  /\ Goto(c, "replying")
  /\ res' = [res EXCEPT ![c] = response]

\* What the response under way tells its client: the messages it carries, the
\* message it confirms, the user it enrols.
Carries(c, code) == pc[c] = "replying" /\ res[c].code = code

Batch(c)      == IF Carries(c, "MESSEGES") THEN res[c].batch ELSE {}
Confirming(c) == IF Carries(c, "SENT") THEN {res[c].message} ELSE {}
Enrolling(c)  == IF Carries(c, "REGISTER") THEN {res[c].user} ELSE {}

\* The thread function returns; `with conn` closes the socket.
Close(c) ==
  /\ Goto(c, "idle")
  /\ req' = [req EXCEPT ![c] = NoThing]
  /\ user' = [user EXCEPT ![c] = NoThing]
  /\ res' = [res EXCEPT ![c] = NoThing]

\* The bounds of a model: identifiers and row numbers left for the request.
Pending(code) == Cardinality({d \in Conns : pc[d] = "handling" /\ req[d].code = code})

WithinBounds(r) ==
  /\ r.code = "REGISTER" => Cardinality(minted) + Pending("REGISTER") < Cardinality(Ids)
  /\ r.code = "SEND_MESSEGE" => nextRow + Pending("SEND_MESSEGE") <= MaxPosts

\* A connection is accepted and Request.from_bytes finds as many bytes as the
\* header announces.
recv_request(c) ==
  /\ up
  /\ pc[c] = "idle"
  /\ \E r \in Request :
       /\ r.code \in Offered
       /\ r.sized => WithinBounds(r)
       /\ req' = [req EXCEPT ![c] = r]
  /\ Goto(c, "handling")
  /\ UNCHANGED <<dbVars, up, user, res, minted, history>>

\* Too few bytes at end of file, or too many: "Invalid request".
recv_invalid(c) ==
  /\ up
  /\ pc[c] = "idle"
  /\ Respond(c, error_response)
  /\ UNCHANGED <<dbVars, up, req, user, minted, history>>

-----------------------------------------------------------------------------
(* The handlers. *)

Handling(c, code) ==
  /\ pc[c] = "handling"
  /\ req[c].code = code
  /\ req[c].sized

\* Faulty variant: a payload of the wrong size is waited for, not refused.
handle_error_unknown_code(c) ==
  /\ pc[c] = "handling"
  /\ req[c].code \notin Codes
  /\ Respond(c, error_response)
  /\ UNCHANGED <<dbVars, up, req, user, minted, history>>

\* No handler for the code, validate_payload_size or Message() raising.
handle_error(c) ==
  /\ pc[c] = "handling"
  /\ req[c].code \notin Codes \/ ~ req[c].sized
  /\ Respond(c, error_response)
  /\ UNCHANGED <<dbVars, up, req, user, minted, history>>

\* handle_register up to the test of the name.
handle_register(c) ==
  /\ Handling(c, "REGISTER")
  /\ IF username_exists(req[c].name)
     THEN Respond(c, error_response) /\ UNCHANGED <<user, minted>>
     ELSE /\ \E id \in Ids \ minted :
               /\ minted' = minted \cup {id}
               /\ user' = [user EXCEPT ![c] =
                    [id |-> id, username |-> req[c].name, public_key |-> req[c].key]]
          /\ Goto(c, "checked")
          /\ UNCHANGED res
  /\ UNCHANGED <<dbVars, up, req, history>>

\* The rest of handle_register: add_client, then the listing it prints.
handle_register_add(c) ==
  /\ pc[c] = "checked"
  /\ add_client(user[c])
  /\ Goto(c, "added")
  /\ UNCHANGED <<up, req, user, res, minted, history>>

handle_register_print(c) ==
  /\ pc[c] = "added"
  /\ Respond(c, [code |-> "REGISTER", user |-> user[c]])
  /\ UNCHANGED <<dbVars, up, req, user, minted, history>>

handle_list_clients(c) ==
  /\ Handling(c, "LIST_CLIENT")
  /\ Respond(c, [code |-> "USERS", users |-> {u \in clients : u.id # req[c].cid}])
  /\ UNCHANGED <<dbVars, up, req, user, minted, history>>

handle_public_key_request(c) ==
  /\ Handling(c, "GET_PUBLIC_KEY")
  /\ LET found == get_public_key_of_user(req[c].target)
     IN  \/ found = {} /\ Respond(c, error_response)
         \/ \E u \in found : Respond(c, [code |-> "PUBLIC_KEY", user |-> u])
  /\ UNCHANGED <<dbVars, up, req, user, minted, history>>

Posted(c) == NewRow(req[c].cid, req[c].target)

handle_messege(c) ==
  /\ Handling(c, "SEND_MESSEGE")
  /\ save_message(Posted(c))
  /\ Respond(c, [code |-> "SENT", message |-> Posted(c)])
  /\ UNCHANGED <<up, req, user, minted, history>>

handle_pending_messeges(c) ==
  /\ Handling(c, "GET_MESSEGES")
  /\ retrieve_and_delete_all_waiting_messages(req[c].cid)
  /\ Respond(c, [code |-> "MESSEGES", batch |-> WaitingFor(req[c].cid)])
  /\ UNCHANGED <<up, req, user, minted, history>>

\* A database method raises; handle_request answers with an error.  What a
\* failed retrieval had already fetched is gone with the stack frame.
database_raises(c) ==
  /\ MayRaise
  /\ \/ /\ Handling(c, "SEND_MESSEGE")
        /\ save_message_raises(Posted(c))
        /\ UNCHANGED dropped
     \/ /\ Handling(c, "GET_MESSEGES")
        /\ retrieve_and_delete_raises(req[c].cid)
        /\ dropped' = dropped \cup (WaitingFor(req[c].cid) \ messages')
     \/ /\ pc[c] = "checked"
        /\ add_client_raises(user[c])
        /\ UNCHANGED dropped
     \/ /\ \/ pc[c] = "added"
           \/ \E code \in {"REGISTER", "LIST_CLIENT", "GET_PUBLIC_KEY"} : Handling(c, code)
        /\ select_raises
        /\ UNCHANGED dropped
  /\ Respond(c, error_response)
  /\ UNCHANGED <<up, req, user, minted, handed, acked, enrolled>>

-----------------------------------------------------------------------------
(* The response. *)

\* struct.pack refuses a length of 2^32 and more; handle_connection catches
\* that and answers with an error, after the messages were deleted.
response_too_long(c) ==
  /\ pc[c] = "replying"
  /\ Cardinality(Batch(c)) > MaxBatch
  /\ dropped' = dropped \cup Batch(c)
  /\ Respond(c, error_response)
  /\ UNCHANGED <<dbVars, up, req, user, minted, handed, acked, enrolled>>

\* sendall returns and the client receives the response.
send_response(c) ==
  /\ pc[c] = "replying"
  /\ Cardinality(Batch(c)) <= MaxBatch
  /\ handed' = handed \cup Batch(c)
  /\ acked' = acked \cup Confirming(c)
  /\ enrolled' = enrolled \cup Enrolling(c)
  /\ Close(c)
  /\ UNCHANGED <<dbVars, up, minted, dropped>>

\* The client is gone: sendall raises, and so does the second one that is to
\* carry the error; or the bytes were accepted and never read.
lose_response(c) ==
  /\ pc[c] = "replying"
  /\ dropped' = dropped \cup Batch(c)
  /\ Close(c)
  /\ UNCHANGED <<dbVars, up, minted, handed, acked, enrolled>>

-----------------------------------------------------------------------------
(* The process. *)

\* accept or Thread.start raises, at the limit of threads for instance: the
\* loop of start ends and closes its socket, and the threads there are go on.
accept_raises ==
  /\ MayRaise
  /\ up
  /\ up' = FALSE
  /\ UNCHANGED <<dbVars, threads, minted, history>>

Ended == ~ up /\ \A c \in Conns : pc[c] = "idle"

\* Every thread and the open transaction disappear.
crash ==
  /\ MayCrash
  /\ ~ Ended
  /\ up' = FALSE
  /\ pc' = [c \in Conns |-> "idle"]
  /\ req' = [c \in Conns |-> NoThing]
  /\ user' = [c \in Conns |-> NoThing]
  /\ res' = [c \in Conns |-> NoThing]
  /\ dropped' = dropped \cup UNION {Batch(c) : c \in Conns}
  /\ UNCHANGED <<dbVars, minted, handed, acked, enrolled>>

start ==
  /\ Ended
  /\ up' = TRUE
  /\ connect_and_init
  /\ UNCHANGED <<threads, minted, history>>

-----------------------------------------------------------------------------
handle_connection(c) ==
  \/ recv_request(c)
  \/ recv_invalid(c)

handle_request(c) ==
  \/ handle_error(c)
  \/ handle_register(c)
  \/ handle_register_add(c)
  \/ handle_register_print(c)
  \/ handle_list_clients(c)
  \/ handle_public_key_request(c)
  \/ handle_messege(c)
  \/ handle_pending_messeges(c)
  \/ database_raises(c)
  \/ response_too_long(c)
  \/ send_response(c)
  \/ lose_response(c)

Next ==
  \/ \E c \in Conns : handle_connection(c) \/ handle_request(c)
  \/ accept_raises
  \/ crash
  \/ start

Spec == Init /\ [][Next]_vars

\* The interpreter schedules every thread, and sendall returns or raises.
\* Nothing makes a client connect, or the process crash or start again.
FairSpec == Spec /\ \A c \in Conns : WF_vars(handle_request(c))

-----------------------------------------------------------------------------
(* Properties: messages. *)

InFlight == UNION {Batch(c) : c \in Conns}

Fetched == handed \cup InFlight

\* Messages whose sender was told, or is about to be told, that they are stored.
Acknowledged == acked \cup UNION {Confirming(c) : c \in Conns}

\* A message is in at most one response that clients get to see, and none that
\* is waiting, on disk or in the tables, was in one: whatever threads,
\* failing commits and crashes do, nothing is delivered twice.
AtMostOnce ==
  /\ Fetched \cap (messages \cup disk.messages) = {}
  /\ \A c \in Conns : Batch(c) \cap handed = {}
  /\ \A c, d \in Conns : c # d => Batch(c) \cap Batch(d) = {}

\* Collections take a recipient's messages in the order they were stored in:
\* nothing still waiting for it is older than a message it was sent.
FetchedInOrder ==
  \A f \in Fetched, m \in messages \cup disk.messages : f.to = m.to => f.rowid < m.rowid

\* A message whose sender got the SENT response is on disk until a collection
\* of its recipient fetches it; from then on it is in that collection's
\* response, delivered or lost with it.
NoSilentLoss == Acknowledged \subseteq disk.messages \cup Fetched \cup dropped

\* The abstract life of each message, over what a crash leaves and what clients see.
HasRow(S, l) == \E m \in S : m.rowid = l

Fate(l) ==
  IF HasRow(disk.messages, l) THEN "waiting"
  ELSE IF HasRow(InFlight, l) THEN "taken"
  ELSE IF HasRow(handed, l) THEN "delivered"
  ELSE IF HasRow(dropped, l) THEN "lost"
  ELSE "unsent"

Post == INSTANCE Postal WITH
  Letters   <- 1..MaxPosts,
  fate      <- [l \in 1..MaxPosts |-> Fate(l)],
  confirmed <- {m.rowid : m \in acked}

\* The server implements Postal: no step moves a message backwards.
ImplementsPostal == Post!Spec

-----------------------------------------------------------------------------
(* Properties: registrations. *)

\* Users who were told, or are about to be told, the identifier they got.
Registered == enrolled \cup UNION {Enrolling(c) : c \in Conns}

\* A client that was given an identifier finds it, with its name and its key,
\* in the table and on disk ever after.
RegistrationsDurable == Registered \subseteq clients \cap disk.clients

Named(name) == {u \in clients : u.username = name}

\* Threads between the test of a name and the insertion.
Registering(name) == {c \in Conns : pc[c] = "checked" /\ user[c].username = name}

\* The test of the name keeps duplicates down to the registrations that were
\* in progress together: however many requests there are, no name gets more
\* rows than there are threads at once, so a server that handled one
\* connection at a time would keep names unique.
DuplicatesBounded ==
  \A name \in Names :
    Cardinality(Named(name)) + Cardinality(Registering(name)) <= Cardinality(Conns)

\* The rule of server.py:83-84 and client.cpp:147: no two users share a name.
UsernamesUnique == \A u, v \in clients : u.username = v.username => u = v

-----------------------------------------------------------------------------
(* Properties: progress. *)

\* Every connection is answered or closed, whatever the request and whatever
\* raises: no thread waits for another for ever.
ConnectionsEnd == \A c \in Conns : pc[c] # "idle" ~> pc[c] = "idle"
=============================================================================
