-------------------------------- MODULE Store --------------------------------
(***************************************************************************)
(* The methods of server/database.py statement by statement, called by     *)
(* threads that share one connection and one lock.                         *)
(*                                                                         *)
(* Module Database, on which the server is built, takes every method as    *)
(* one step.  Here a method waits for the lock, executes its statements    *)
(* one by one and leaves the `with`, and the other threads move in         *)
(* between.  Any statement may raise, COMMIT too; `with` gives the lock    *)
(* back all the same.  That the threads' steps add up to Database's is     *)
(* ImplementsDatabase.                                                     *)
(*                                                                         *)
(* before is a history variable: while a thread is on its way from INSERT  *)
(* or DELETE to COMMIT, the tables as it found them.  No action reads it.  *)
(***************************************************************************)
EXTENDS Database, FiniteSets

CONSTANTS
  Threads,
  MaxRows,    \* bound: messages posted in a behaviour
  MayRaise,   \* statements may raise
  MayCrash,   \* the process may be killed and started again
  NoOne,      \* owner of a lock that is free
  NoThing     \* "not set"

ASSUME StoreAssumption ==
  /\ NoOne \notin Threads
  /\ NoThing \notin [clients : SUBSET User, messages : SUBSET Row]
  /\ MaxRows \in Nat
  /\ MayRaise \in BOOLEAN
  /\ MayCrash \in BOOLEAN

VARIABLES
  lock,     \* owner of the lock
  pc,       \* what each thread is about to do
  call,     \* the method it is in, with its arguments
  got,      \* rows its SELECT returned
  before

tables == [clients |-> clients, messages |-> messages]
storeVars == <<dbVars, lock, pc, call, got, before>>

Call ==
       [method : {"add_client"}, user : User]
  \cup [method : {"save_message"}, from : Ids, to : Ids]
  \cup [method : {"retrieve_and_delete", "get_public_key_of_user"}, id : Ids]
  \cup [method : {"username_exists"}, name : Names]
  \cup [method : {"retrieve_all_users"}]

Inserting == {"add_client", "save_message"}
Reading == {"get_public_key_of_user", "username_exists", "retrieve_all_users"}

\* Inside the `with`: before the first statement, between SELECT and DELETE,
\* before COMMIT, behind the last statement.
Inside == {"inside", "selected", "changed", "leaving"}

StoreTypeOK ==
  /\ DbTypeOK
  /\ lock \in Threads \cup {NoOne}
  /\ pc \in [Threads -> {"out", "waiting"} \cup Inside]
  /\ call \in [Threads -> Call \cup {NoThing}]
  /\ got \in [Threads -> SUBSET (User \cup Row)]
  /\ before \in [clients : SUBSET User, messages : SUBSET Row] \cup {NoThing}
  /\ \A t \in Threads : pc[t] # "out" => call[t] \in Call
  /\ \A t \in Threads : pc[t] \in Inside <=> lock = t

StoreInit ==
  /\ DbInit
  /\ lock = NoOne
  /\ pc = [t \in Threads |-> "out"]
  /\ call = [t \in Threads |-> NoThing]
  /\ got = [t \in Threads |-> {}]
  /\ before = NoThing

-----------------------------------------------------------------------------
(* A thread in a method. *)

Goto(t, stage) == pc' = [pc EXCEPT ![t] = stage]

In(t, stage, methods) == pc[t] = stage /\ call[t].method \in methods

\* The bound: a row for every insertion under way.
RowsLeft ==
  nextRow + Cardinality({t \in Threads : call[t] # NoThing /\ call[t].method = "save_message"})
    <= MaxRows

invoke(t) ==
  /\ pc[t] = "out"
  /\ \E k \in Call :
       /\ k.method = "save_message" => RowsLeft
       /\ call' = [call EXCEPT ![t] = k]
  /\ Goto(t, "waiting")
  /\ UNCHANGED <<dbVars, lock, got, before>>

\* Faulty variants: the methods that only read, the collection, or save_message
\* do without the lock.
reads_unlocked(t) == lock = NoOne \/ call[t].method \in Reading
collects_unlocked(t) == lock = NoOne \/ call[t].method = "retrieve_and_delete"
save_unlocked(t) == lock = NoOne \/ call[t].method = "save_message"

LockFree(t) == lock = NoOne

acquire(t) ==
  /\ pc[t] = "waiting"
  /\ LockFree(t)
  /\ lock' = t
  /\ Goto(t, "inside")
  /\ UNCHANGED <<dbVars, call, got, before>>

\* The rows of these tables that a method selects.
Selects(k, cs, ms) ==
  IF k.method = "retrieve_and_delete" THEN {m \in ms : m.to = k.id}
  ELSE {u \in cs : \/ k.method = "username_exists" /\ u.username = k.name
                   \/ k.method = "get_public_key_of_user" /\ u.id = k.id
                   \/ k.method = "retrieve_all_users"}

select(t) ==
  /\ In(t, "inside", Reading \cup {"retrieve_and_delete"})
  /\ got' = [got EXCEPT ![t] = Selects(call[t], clients, messages)]
  /\ Goto(t, IF call[t].method \in Reading THEN "leaving" ELSE "selected")
  /\ UNCHANGED <<dbVars, lock, call, before>>

\* id is the PRIMARY KEY of clients, of messages it is not.
DuplicateId(k) == k.method = "add_client" /\ \E u \in clients : u.id = k.user.id

insert(t) ==
  /\ In(t, "inside", Inserting)
  /\ ~ DuplicateId(call[t])
  /\ \/ /\ call[t].method = "add_client"
        /\ clients' = clients \cup {call[t].user}
        /\ UNCHANGED messages
     \/ /\ call[t].method = "save_message"
        /\ messages' = messages \cup {NewRow(call[t].from, call[t].to)}
        /\ UNCHANGED clients
  /\ before' = tables
  /\ Goto(t, "changed")
  /\ UNCHANGED <<disk, nextRow, lock, call, got>>

\* Faulty variant: the rows that were fetched are deleted by their sender.
delete_by_sender(t) ==
  /\ In(t, "selected", {"retrieve_and_delete"})
  /\ messages' = {m \in messages : m.from # call[t].id}
  /\ before' = tables
  /\ Goto(t, "changed")
  /\ UNCHANGED <<clients, disk, nextRow, lock, call, got>>

delete(t) ==
  /\ In(t, "selected", {"retrieve_and_delete"})
  /\ messages' = messages \ WaitingFor(call[t].id)
  /\ before' = tables
  /\ Goto(t, "changed")
  /\ UNCHANGED <<clients, disk, nextRow, lock, call, got>>

\* The number of a row is spent when its insertion is over, however it ended.
SpendRow(t) ==
  nextRow' = IF call[t].method = "save_message" THEN nextRow + 1 ELSE nextRow

\* Everything open is committed, what earlier methods left open too.
commit(t) ==
  /\ pc[t] = "changed"
  /\ Commit(clients, messages)
  /\ SpendRow(t)
  /\ before' = NoThing
  /\ Goto(t, "leaving")
  /\ UNCHANGED <<lock, call, got>>

\* A statement or COMMIT raises: the transaction stays open, if one is, or
\* SQLite rolls it back.  What was fetched goes with the stack frame.
raise(t) ==
  /\ pc[t] \in {"inside", "selected", "changed"}
  /\ MayRaise \/ (pc[t] = "inside" /\ DuplicateId(call[t]))
  /\ UNCHANGED <<clients, messages, disk>> \/ Reload
  /\ SpendRow(t)
  /\ got' = [got EXCEPT ![t] = {}]
  /\ before' = NoThing
  /\ Goto(t, "leaving")
  /\ UNCHANGED <<lock, call>>

\* Faulty variant: lock.release() for the `with`, and a return before it when
\* nothing was fetched.
return_without_release(t) ==
  /\ pc[t] = "leaving"
  /\ Goto(t, "out")
  /\ lock' = IF call[t].method = "retrieve_and_delete" /\ got[t] = {} THEN lock ELSE NoOne
  /\ call' = [call EXCEPT ![t] = NoThing]
  /\ got' = [got EXCEPT ![t] = {}]
  /\ UNCHANGED <<dbVars, before>>

\* The end of the `with`; the method returns or the exception goes on.
release(t) ==
  /\ pc[t] = "leaving"
  /\ Goto(t, "out")
  /\ lock' = NoOne
  /\ call' = [call EXCEPT ![t] = NoThing]
  /\ got' = [got EXCEPT ![t] = {}]
  /\ UNCHANGED <<dbVars, before>>

\* The process is killed within any method and another one opens the file.
restart ==
  /\ MayCrash
  /\ connect_and_init
  /\ lock' = NoOne
  /\ pc' = [t \in Threads |-> "out"]
  /\ call' = [t \in Threads |-> NoThing]
  /\ got' = [t \in Threads |-> {}]
  /\ before' = NoThing

-----------------------------------------------------------------------------
statement(t) ==
  \/ select(t)
  \/ insert(t)
  \/ delete(t)
  \/ commit(t)
  \/ raise(t)
  \/ release(t)

StoreNext ==
  \/ \E t \in Threads : invoke(t) \/ acquire(t) \/ statement(t)
  \/ restart

StoreSpec == StoreInit /\ [][StoreNext]_storeVars

\* A thread that holds the lock goes on.  Which of the waiting threads gets it
\* next is left open, as threading.Lock leaves it.
StoreFairSpec == StoreSpec /\ \A t \in Threads : WF_storeVars(statement(t))

-----------------------------------------------------------------------------
(* Properties. *)

\* The tables as they were between two methods.
Seen == IF before = NoThing THEN tables ELSE before

Methods == INSTANCE Database WITH
  clients  <- Seen.clients,
  messages <- Seen.messages

\* However the statements of the threads interleave and wherever they raise,
\* the tables and the file change as if every method were one step.
ImplementsDatabase == Methods!DbSpec

\* What a SELECT returns is what the tables hold between two methods: never rows
\* that another thread has inserted and not come to commit, and never a mailbox
\* without the rows that another is deleting, least of all an empty one.
ReadsBetweenMethods ==
  [][\A t \in Threads :
       select(t) => got'[t] = Selects(call[t], Seen.clients, Seen.messages)]_storeVars

\* A collection deletes the messages it has fetched, all of them and no other.
DeletesWhatItFetched ==
  [][\A t \in Threads :
       pc[t] = "selected" /\ pc'[t] = "changed" => messages \ messages' = got[t]]_storeVars

\* No method keeps the lock, whatever it meets: it is free again and again.
LockIsFreed == lock # NoOne ~> lock = NoOne
=============================================================================
