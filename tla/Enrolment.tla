----------------------------- MODULE Enrolment -----------------------------
(***************************************************************************)
(* Client installations that register, save who they are, start again and  *)
(* list each other (client/client.cpp, commands 110 and 120 of             *)
(* client/main.cpp), composed with the server: a call is a request read by *)
(* a thread of module Server, the steps of that thread, and its response.  *)
(* Both sides go on independently when the connection between them ends.   *)
(*                                                                         *)
(* An installation has at most one running process.  What a process knows  *)
(* of itself is lost when it ends, except for what save_me_info wrote.     *)
(* me.info is whole or not, which module Startup shows to be all that      *)
(* matters: a process that did not read a whole one is not registered and  *)
(* uses none of the fields it may have read before it found out.           *)
(*                                                                         *)
(* listed is a history variable that no action reads.                      *)
(***************************************************************************)
EXTENDS Server

CONSTANT Clients      \* client installations

ASSUME EnrolmentAssumption == NoThing \notin Ids \cup Conns

VARIABLES
  proc,     \* what each process is about to do, "off" if there is none
  me,       \* name, identifier and RSA key of each process
  info,     \* me.info of each installation, if it is whole
  peers,    \* identifier each process knows for each name
  conn,     \* connection of its call
  drawn,    \* RSA keys generated
  listed    \* users that were registered when the listing was asked for that
            \* each process waits for

clientVars == <<proc, me, info, peers, conn, drawn, listed>>
allVars == <<vars, clientVars>>

Identity == [id : Ids, username : Names, public_key : Keys]

Nobody(key) == [id |-> NoThing, username |-> NoThing, public_key |-> key]

isRegistered(k) == me[k].id # NoThing

EnrolmentTypeOK ==
  /\ proc \in [Clients -> {"off", "prompt", "waiting", "saving"}]
  /\ me \in [Clients -> Identity \cup {Nobody(key) : key \in Keys \cup {NoThing}}]
  /\ info \in [Clients -> Identity \cup {NoThing}]
  /\ peers \in [Clients -> [Names -> Ids \cup {NoThing}]]
  /\ conn \in [Clients -> Conns \cup {NoThing}]
  /\ drawn \subseteq Keys
  /\ listed \in [Clients -> SUBSET User]
  /\ \A k \in Clients : (conn[k] # NoThing) <=> (proc[k] = "waiting")

NoPeers == [n \in Names |-> NoThing]

EnrolmentInit ==
  /\ Init
  /\ proc = [k \in Clients |-> "off"]
  /\ me = [k \in Clients |-> Nobody(NoThing)]
  /\ info = [k \in Clients |-> NoThing]
  /\ peers = [k \in Clients |-> NoPeers]
  /\ conn = [k \in Clients |-> NoThing]
  /\ drawn = {}
  /\ listed = [k \in Clients |-> {}]

-----------------------------------------------------------------------------
(* A process. *)

\* The constructor: read_me_info, or a new identity with a new RSA key.  A file
\* that is there may fail to open, which read_me_info takes for no file.
client_start(k) ==
  /\ proc[k] = "off"
  /\ proc' = [proc EXCEPT ![k] = "prompt"]
  /\ \/ /\ info[k] # NoThing
        /\ me' = [me EXCEPT ![k] = info[k]]
        /\ UNCHANGED drawn
     \/ /\ info[k] = NoThing \/ MayRaise
        /\ \E key \in Keys \ drawn :
             /\ me' = [me EXCEPT ![k] = Nobody(key)]
             /\ drawn' = drawn \cup {key}
  /\ UNCHANGED <<vars, info, peers, conn, listed>>

Saved(k) == [info EXCEPT ![k] = me[k]]

Torn(k) == [info EXCEPT ![k] = NoThing]

\* The process ends at any point, within save_me_info too.
client_ends(k) ==
  /\ proc[k] # "off"
  /\ proc' = [proc EXCEPT ![k] = "off"]
  /\ me' = [me EXCEPT ![k] = Nobody(NoThing)]
  /\ peers' = [peers EXCEPT ![k] = NoPeers]
  /\ conn' = [conn EXCEPT ![k] = NoThing]
  /\ listed' = [listed EXCEPT ![k] = {}]
  /\ info' \in IF proc[k] = "saving" THEN {info, Torn(k), Saved(k)} ELSE {info}
  /\ UNCHANGED <<vars, drawn>>

\* write_file may fail to open the file, and does not notice a failed write.
save_me_info(k) ==
  /\ proc[k] = "saving"
  /\ proc' = [proc EXCEPT ![k] = "prompt"]
  /\ info' \in {info, Torn(k), Saved(k)}
  /\ UNCHANGED <<vars, me, peers, conn, drawn, listed>>

-----------------------------------------------------------------------------
(* Calls. *)

Ask(k, c, r) ==
  /\ recv_request(c)
  /\ req'[c] = r
  /\ conn' = [conn EXCEPT ![k] = c]
  /\ proc' = [proc EXCEPT ![k] = "waiting"]

\* The response arrives and the process is about to do next.
Answered(k, code, next) ==
  /\ proc[k] = "waiting"
  /\ Carries(conn[k], code)
  /\ send_response(conn[k])
  /\ conn' = [conn EXCEPT ![k] = NoThing]
  /\ proc' = [proc EXCEPT ![k] = next]
  /\ listed' = [listed EXCEPT ![k] = {}]

\* Faulty variant: handle_command does not test isRegistered.
may_register_again(k) == TRUE

MayRegister(k) == ~ isRegistered(k)

\* Command 110.
registerClient(k, c) ==
  /\ proc[k] = "prompt"
  /\ MayRegister(k)
  /\ \E name \in Names :
       Ask(k, c, [code |-> "REGISTER", sized |-> TRUE, name |-> name, key |-> me[k].public_key])
  /\ UNCHANGED <<me, info, peers, drawn, listed>>

\* Faulty variant: the server answers with a row it looks up by the name.
enrolled_by_name(k) == Named(req[conn[k]].name)

EnrolledAs(k) == {res[conn[k]].user}

\* The identifier of the response, the name that was typed, the key of the process.
client_registered(k) ==
  /\ Answered(k, "REGISTER", "saving")
  /\ \E u \in EnrolledAs(k) :
       me' = [me EXCEPT ![k] =
         [id |-> u.id, username |-> req[conn[k]].name, public_key |-> me[k].public_key]]
  /\ UNCHANGED <<info, peers, drawn>>

\* Command 120.
getPeers(k, c) ==
  /\ proc[k] = "prompt"
  /\ isRegistered(k)
  /\ Ask(k, c, [code |-> "LIST_CLIENT", sized |-> TRUE, cid |-> me[k].id])
  /\ listed' = [listed EXCEPT ![k] = {u \in enrolled : u.id # me[k].id}]
  /\ UNCHANGED <<me, info, peers, drawn>>

\* Faulty variant: names and identifiers are read at offsets that do not match.
entries_misaligned(users, n) == users

Entries(users, n) == {u \in users : u.username = n}

\* The loop adds the users with these names; a name that is known keeps its
\* identifier.  The order is the table's, and SELECT promises none: any of the
\* users with one name may be the first, and only the first is added.
Adds(k, users, names) ==
  peers' \in {[peers EXCEPT ![k] = p] : p \in
    {p \in [Names -> Ids \cup {NoThing}] : \A n \in Names :
       IF n \in names /\ peers[k][n] = NoThing
       THEN \E u \in Entries(users, n) : p[n] = u.id
       ELSE p[n] = peers[k][n]}}

NamesOf(users) == {u.username : u \in users}

\* The loop meets the client's own name and throws, with the users before it added.
client_lists_namesake(k) ==
  /\ Answered(k, "USERS", "prompt")
  /\ LET users == res[conn[k]].users
     IN  /\ me[k].username \in NamesOf(users)
         /\ \E names \in SUBSET (NamesOf(users) \ {me[k].username}) : Adds(k, users, names)
  /\ UNCHANGED <<me, info, drawn>>

\* Faulty variant: i < user_count - 1.
all_but_one(users) == {users \ {u} : u \in users}

Read(users) == {users}

\* Every user is added or was known.
client_lists(k) ==
  /\ Answered(k, "USERS", "prompt")
  /\ LET users == res[conn[k]].users
     IN  /\ me[k].username \notin NamesOf(users)
         /\ \E read \in Read(users) : Adds(k, users, NamesOf(read))
  /\ UNCHANGED <<me, info, drawn>>

\* The server answers with an error, which registerClient throws as a network
\* error and getPeers prints.
client_refused(k) ==
  /\ Answered(k, "ERROR", "prompt")
  /\ UNCHANGED <<me, info, peers, drawn>>

\* Faulty variant: the connection is kept for the next call.
never_closed(ks) == conn

Closed(ks) == [k \in Clients |-> IF k \in ks THEN NoThing ELSE conn[k]]

\* The calls of these clients fail.
Fail(ks) ==
  /\ proc' = [k \in Clients |-> IF k \in ks THEN "prompt" ELSE proc[k]]
  /\ conn' = Closed(ks)
  /\ listed' = [k \in Clients |-> IF k \in ks THEN {} ELSE listed[k]]
  /\ UNCHANGED <<me, info, peers, drawn>>

\* The client finds the connection broken; the thread goes on without it.
call_fails(k) ==
  /\ proc[k] = "waiting"
  /\ Fail({k})
  /\ UNCHANGED vars

-----------------------------------------------------------------------------
(* The server. *)

thread_runs(c) ==
  /\ \/ handle_register(c)
     \/ handle_register_add(c)
     \/ handle_register_print(c)
     \/ handle_list_clients(c)
     \/ database_raises(c)
  /\ UNCHANGED clientVars

\* The response of a thread is lost, whether or not its client still waits for it.
response_lost(c) ==
  /\ lose_response(c)
  /\ Fail({k \in Clients : conn[k] = c})

server_crashes ==
  /\ crash
  /\ Fail({k \in Clients : proc[k] = "waiting"})

\* The connection that could not be given a thread is refused its call before
\* the request is sent; the other calls go on.
server_stops_accepting ==
  /\ accept_raises
  /\ UNCHANGED clientVars

server_starts ==
  /\ start
  /\ UNCHANGED clientVars

-----------------------------------------------------------------------------
ClientStep(k) ==
  \/ client_start(k)
  \/ client_ends(k)
  \/ save_me_info(k)
  \/ \E c \in Conns : registerClient(k, c) \/ getPeers(k, c)
  \/ client_registered(k)
  \/ client_lists_namesake(k)
  \/ client_lists(k)
  \/ client_refused(k)
  \/ call_fails(k)

EnrolmentNext ==
  \/ \E k \in Clients : ClientStep(k)
  \/ \E c \in Conns : thread_runs(c) \/ response_lost(c)
  \/ server_stops_accepting
  \/ server_crashes
  \/ server_starts

EnrolmentSpec == EnrolmentInit /\ [][EnrolmentNext]_allVars

-----------------------------------------------------------------------------
(* Properties. *)

\* Whoever a client believes to be, in memory or by its me.info, the server
\* knows it as that, with its name and its public key, in the table and on disk:
\* after lost responses, refused attempts under other names, failed saves and
\* restarts of either side.
IdentityKept ==
  \A k \in Clients :
    /\ isRegistered(k) => me[k] \in clients \cap disk.clients
    /\ info[k] # NoThing => info[k] \in clients \cap disk.clients

\* An installation that has saved its identity keeps it, unless a process of it
\* that could not open the file, and made a key of its own, saves another.
IdentityForLife ==
  [][\A k \in Clients :
       info[k] # NoThing /\ info'[k] # info[k] =>
         me[k].public_key # info[k].public_key]_allVars

\* A client that addresses a peer by a name reaches, if anyone, another client
\* that calls itself by that name.
PeersNamedRight ==
  \A k, j \in Clients, n \in Names :
    isRegistered(j) /\ peers[k][n] = me[j].id => j # k /\ me[j].username = n

\* A listing that goes through leaves the client with a peer under the name of
\* every user that was registered when it asked: that user, one of the same
\* name, or one whose row was rolled back since it was listed, which is never
\* corrected.
EveryoneListed ==
  [][\A k \in Clients : client_lists(k) =>
       \A u \in listed[k] :
         LET id == peers'[k][u.username]
         IN  /\ id # NoThing
             /\ \A v \in clients : v.id = id => v.username = u.username]_allVars
=============================================================================
