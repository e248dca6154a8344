----------------------------- MODULE StoreProofs -----------------------------
(***************************************************************************)
(* Theorems about Store, for every number of threads and rows.             *)
(*                                                                         *)
(* The lock is what every one of them rests on: a thread between its first *)
(* change and COMMIT is the only one inside, so the tables differ from     *)
(* what they were before it by its own change and by nothing else.         *)
(***************************************************************************)
EXTENDS Store, TLAPS

\* What the holder of the lock has changed so far.
Changed(t) ==
  \/ /\ call[t].method = "add_client"
     /\ clients = before.clients \cup {call[t].user}
     /\ messages = before.messages
  \/ /\ call[t].method = "save_message"
     /\ clients = before.clients
     /\ messages = before.messages \cup {NewRow(call[t].from, call[t].to)}
  \/ /\ call[t].method = "retrieve_and_delete"
     /\ clients = before.clients
     /\ messages = before.messages \ {m \in before.messages : m.to = call[t].id}

HolderInv ==
  \A t \in Threads :
    /\ pc[t] = "selected" =>
         call[t].method = "retrieve_and_delete" /\ got[t] = WaitingFor(call[t].id)
    /\ pc[t] = "changed" => before # NoThing /\ Changed(t)

BeforeInv == before # NoThing => \E t \in Threads : pc[t] = "changed"

StoreInv == StoreTypeOK /\ HolderInv /\ BeforeInv

-----------------------------------------------------------------------------

\* What the arguments of a call are.
LEMMA CallType ==
  ASSUME NEW k \in Call
  PROVE  /\ k.method = "add_client" => k.user \in User
         /\ k.method = "save_message" => k.from \in Ids /\ k.to \in Ids
         /\ k.method = "retrieve_and_delete" => k.id \in Ids
BY DEF Call

\* Two threads inside are one.
LEMMA OneInside ==
  ASSUME StoreTypeOK, NEW t \in Threads, NEW s \in Threads, pc[t] \in Inside, pc[s] \in Inside
  PROVE  s = t
BY DEF StoreTypeOK

\* The row that is stored next is one.
LEMMA NewRowType ==
  ASSUME DbTypeOK, NEW from \in Ids, NEW to \in Ids
  PROVE  NewRow(from, to) \in Row
BY DEF DbTypeOK, NewRow, Row

LEMMA InitInv == StoreInit => StoreInv
BY StoreAssumption
DEF StoreInit, DbInit, StoreInv, StoreTypeOK, DbTypeOK, HolderInv, BeforeInv, Inside

-----------------------------------------------------------------------------
(* Every action keeps the invariant. *)

LEMMA InvokeInv ==
  ASSUME StoreInv, NEW t \in Threads, invoke(t)
  PROVE  StoreInv'
<1>1. StoreTypeOK'
  BY DEF StoreInv, StoreTypeOK, DbTypeOK, invoke, Goto, dbVars, Inside
<1>2. HolderInv' /\ BeforeInv'
  BY DEF StoreInv, StoreTypeOK, HolderInv, BeforeInv, Changed, NewRow, WaitingFor,
         invoke, Goto, dbVars
<1> QED
  BY <1>1, <1>2 DEF StoreInv

LEMMA AcquireInv ==
  ASSUME StoreInv, NEW t \in Threads, acquire(t)
  PROVE  StoreInv'
<1>1. StoreTypeOK'
  BY StoreAssumption
  DEF StoreInv, StoreTypeOK, DbTypeOK, acquire, LockFree, Goto, dbVars, Inside
<1>2. HolderInv' /\ BeforeInv'
  BY DEF StoreInv, StoreTypeOK, HolderInv, BeforeInv, Changed, NewRow, WaitingFor,
         acquire, Goto, dbVars
<1> QED
  BY <1>1, <1>2 DEF StoreInv

LEMMA SelectInv ==
  ASSUME StoreInv, NEW t \in Threads, select(t)
  PROVE  StoreInv'
<1>1. /\ t = lock
      /\ clients \subseteq User /\ messages \subseteq Row
      /\ Selects(call[t], clients, messages) \in SUBSET (User \cup Row)
  BY DEF StoreInv, StoreTypeOK, DbTypeOK, select, In, Inside, Selects
<1>2. StoreTypeOK'
  BY <1>1 DEF StoreInv, StoreTypeOK, DbTypeOK, select, In, Goto, dbVars, Inside
<1>3. HolderInv'
  <2> SUFFICES ASSUME NEW s \in Threads
               PROVE  /\ pc'[s] = "selected" =>
                           /\ call'[s].method = "retrieve_and_delete"
                           /\ got'[s] = WaitingFor(call[s].id)'
                      /\ pc'[s] = "changed" => before' # NoThing /\ Changed(s)'
    BY DEF HolderInv
  <2>1. CASE s = t
    BY <2>1, <1>1
    DEF StoreInv, StoreTypeOK, select, In, Goto, dbVars, Selects, WaitingFor, Reading
  <2>2. CASE s # t
    BY <2>2, <1>1
    DEF StoreInv, StoreTypeOK, HolderInv, select, Goto, dbVars, Changed, NewRow, WaitingFor,
        Inside
  <2> QED
    BY <2>1, <2>2
<1>4. BeforeInv'
  BY DEF StoreInv, StoreTypeOK, BeforeInv, select, In, Goto, Reading
<1> QED
  BY <1>2, <1>3, <1>4 DEF StoreInv

LEMMA InsertInv ==
  ASSUME StoreInv, NEW t \in Threads, insert(t)
  PROVE  StoreInv'
<1>1. /\ t = lock /\ before = NoThing
      /\ tables \in [clients : SUBSET User, messages : SUBSET Row]
  BY OneInside DEF StoreInv, StoreTypeOK, DbTypeOK, BeforeInv, insert, In, Inside, tables
<1>2. clients' \subseteq User /\ messages' \subseteq Row
  BY CallType, NewRowType DEF StoreInv, StoreTypeOK, DbTypeOK, insert, In
<1>3. StoreTypeOK'
  BY <1>1, <1>2 DEF StoreInv, StoreTypeOK, DbTypeOK, insert, In, Goto, Inside
<1>4. HolderInv'
  <2> SUFFICES ASSUME NEW s \in Threads
               PROVE  /\ pc'[s] = "selected" =>
                           /\ call'[s].method = "retrieve_and_delete"
                           /\ got'[s] = WaitingFor(call[s].id)'
                      /\ pc'[s] = "changed" => before' # NoThing /\ Changed(s)'
    BY DEF HolderInv
  <2>1. CASE s = t
    BY <2>1, <1>1, StoreAssumption
    DEF StoreInv, StoreTypeOK, insert, In, Goto, Changed, NewRow, tables
  <2>2. CASE s # t
    BY <2>2, <1>1 DEF StoreInv, StoreTypeOK, insert, Goto, Inside
  <2> QED
    BY <2>1, <2>2
<1>5. BeforeInv'
  BY DEF StoreInv, StoreTypeOK, BeforeInv, insert, Goto
<1> QED
  BY <1>3, <1>4, <1>5 DEF StoreInv

LEMMA DeleteInv ==
  ASSUME StoreInv, NEW t \in Threads, delete(t)
  PROVE  StoreInv'
<1>1. /\ t = lock /\ before = NoThing
      /\ tables \in [clients : SUBSET User, messages : SUBSET Row]
  BY OneInside DEF StoreInv, StoreTypeOK, DbTypeOK, BeforeInv, delete, In, Inside, tables
<1>2. StoreTypeOK'
  BY <1>1 DEF StoreInv, StoreTypeOK, DbTypeOK, delete, In, Goto, Inside
<1>3. HolderInv'
  <2> SUFFICES ASSUME NEW s \in Threads
               PROVE  /\ pc'[s] = "selected" =>
                           /\ call'[s].method = "retrieve_and_delete"
                           /\ got'[s] = WaitingFor(call[s].id)'
                      /\ pc'[s] = "changed" => before' # NoThing /\ Changed(s)'
    BY DEF HolderInv
  <2>1. CASE s = t
    BY <2>1, <1>1, StoreAssumption
    DEF StoreInv, StoreTypeOK, delete, In, Goto, Changed, WaitingFor, tables
  <2>2. CASE s # t
    BY <2>2, <1>1 DEF StoreInv, StoreTypeOK, delete, Goto, Inside
  <2> QED
    BY <2>1, <2>2
<1>4. BeforeInv'
  BY DEF StoreInv, StoreTypeOK, BeforeInv, delete, Goto
<1> QED
  BY <1>2, <1>3, <1>4 DEF StoreInv

\* The end of a method, by COMMIT or by an exception.
LEMMA EndInv ==
  ASSUME StoreInv, NEW t \in Threads, commit(t) \/ raise(t)
  PROVE  StoreInv'
<1>1. t = lock
  BY DEF StoreInv, StoreTypeOK, commit, raise, Inside
<1>2. DbTypeOK'
  BY DEF StoreInv, StoreTypeOK, DbTypeOK, commit, raise, Commit, Reload, SpendRow
<1>3. StoreTypeOK'
  BY <1>1, <1>2 DEF StoreInv, StoreTypeOK, commit, raise, Goto, Inside
<1>4. \A s \in Threads : pc'[s] \notin {"selected", "changed"}
  BY <1>1 DEF StoreInv, StoreTypeOK, commit, raise, Goto, Inside
<1>5. HolderInv' /\ BeforeInv'
  BY <1>4 DEF HolderInv, BeforeInv, commit, raise
<1> QED
  BY <1>3, <1>5 DEF StoreInv

LEMMA ReleaseInv ==
  ASSUME StoreInv, NEW t \in Threads, release(t)
  PROVE  StoreInv'
<1>1. t = lock /\ NoOne \notin Threads
  BY StoreAssumption DEF StoreInv, StoreTypeOK, release, Inside
<1>2. StoreTypeOK'
  BY <1>1 DEF StoreInv, StoreTypeOK, DbTypeOK, release, Goto, dbVars, Inside
<1>3. \A s \in Threads : pc'[s] \notin Inside
  BY <1>1, <1>2 DEF StoreTypeOK, release
<1>4. before = NoThing
  BY <1>1, OneInside DEF StoreInv, StoreTypeOK, BeforeInv, release, Inside
<1>5. HolderInv' /\ BeforeInv'
  BY <1>3, <1>4 DEF HolderInv, BeforeInv, release, Inside
<1> QED
  BY <1>2, <1>5 DEF StoreInv

LEMMA RestartInv ==
  ASSUME StoreInv, restart
  PROVE  StoreInv'
<1>1. StoreTypeOK'
  BY StoreAssumption
  DEF StoreInv, StoreTypeOK, DbTypeOK, restart, connect_and_init, Reload, Inside
<1>2. HolderInv' /\ BeforeInv'
  BY DEF HolderInv, BeforeInv, restart
<1> QED
  BY <1>1, <1>2 DEF StoreInv

LEMMA NextInv == StoreInv /\ [StoreNext]_storeVars => StoreInv'
<1> SUFFICES ASSUME StoreInv, [StoreNext]_storeVars PROVE StoreInv'
  OBVIOUS
<1>1. CASE UNCHANGED storeVars
  BY <1>1
  DEF StoreInv, StoreTypeOK, DbTypeOK, HolderInv, BeforeInv, Changed, NewRow, WaitingFor,
      storeVars, dbVars
<1>2. CASE restart
  BY <1>2, RestartInv
<1>3. ASSUME NEW t \in Threads, invoke(t) \/ acquire(t) \/ statement(t) PROVE StoreInv'
  BY <1>3, InvokeInv, AcquireInv, SelectInv, InsertInv, DeleteInv, EndInv, ReleaseInv
  DEF statement
<1> QED
  BY <1>1, <1>2, <1>3 DEF StoreNext

LEMMA Invariant == StoreSpec => []StoreInv
BY InitInv, NextInv, PTL DEF StoreSpec

\* The invariant of a run: a thread inside holds the lock, alone.
THEOREM StoreTypeCorrect == StoreSpec => []StoreTypeOK
<1>1. StoreInv => StoreTypeOK
  BY DEF StoreInv
<1> QED
  BY <1>1, Invariant, PTL

-----------------------------------------------------------------------------
(* Refinement: methods are steps. *)

\* Outside of a change the tables are what Database has.
LEMMA SeenTables ==
  /\ before = NoThing => Seen.clients = clients /\ Seen.messages = messages
  /\ before # NoThing => Seen = before
BY DEF Seen, tables

\* A step that begins and ends outside of a change shows in Database as it is.
LEMMA Plain ==
  ASSUME before = NoThing, before' = NoThing
  PROVE  /\ Seen.clients = clients /\ Seen.messages = messages
         /\ Seen'.clients = clients' /\ Seen'.messages = messages'
BY DEF Seen, tables

\* The first change of a method does not show.
LEMMA ChangeHidden ==
  ASSUME StoreInv, NEW t \in Threads, insert(t) \/ delete(t)
  PROVE  UNCHANGED Methods!dbVars
<1>1. before = NoThing /\ tables # NoThing
  BY OneInside, StoreAssumption
  DEF StoreInv, StoreTypeOK, DbTypeOK, BeforeInv, insert, delete, In, Inside, tables
<1>2. before' = tables /\ UNCHANGED <<disk, nextRow>>
  BY DEF insert, delete
<1> QED
  BY <1>1, <1>2 DEF Seen, Methods!dbVars

\* COMMIT is the method.
LEMMA CommitIsMethod ==
  ASSUME StoreInv, NEW t \in Threads, commit(t)
  PROVE  Methods!DbNext
<1>1. /\ call[t] \in Call /\ Changed(t)
      /\ Seen = before
      /\ Seen'.clients = clients /\ Seen'.messages = messages
      /\ disk' = [clients |-> clients, messages |-> messages]
  BY DEF StoreInv, StoreTypeOK, HolderInv, commit, Commit, Seen, tables
<1>2. CASE call[t].method = "add_client"
  <2>1. Methods!add_client(call[t].user)
    BY <1>1, <1>2
    DEF commit, SpendRow, Changed, Methods!add_client, Methods!Commit
  <2> QED
    BY <1>1, <1>2, <2>1, CallType DEF Methods!DbNext, Methods!User, User
<1>3. CASE call[t].method = "save_message"
  <2>1. Methods!save_message(Methods!NewRow(call[t].from, call[t].to))
    BY <1>1, <1>3
    DEF commit, SpendRow, Changed, NewRow, Methods!NewRow, Methods!save_message,
        Methods!Commit
  <2> QED
    BY <1>1, <1>3, <2>1, CallType DEF Methods!DbNext
<1>4. CASE call[t].method = "retrieve_and_delete"
  <2>1. Methods!retrieve_and_delete_all_waiting_messages(call[t].id)
    BY <1>1, <1>4
    DEF commit, SpendRow, Changed, Methods!retrieve_and_delete_all_waiting_messages,
        Methods!WaitingFor, Methods!Commit
  <2> QED
    BY <1>1, <1>4, <2>1, CallType DEF Methods!DbNext
<1> QED
  BY <1>1, <1>2, <1>3, <1>4 DEF Changed

\* A method that raises is one that raises.
LEMMA RaiseIsMethod ==
  ASSUME StoreInv, NEW t \in Threads, raise(t)
  PROVE  Methods!DbNext
<1>1. /\ call[t] \in Call
      /\ Seen'.clients = clients' /\ Seen'.messages = messages'
      /\ UNCHANGED disk
  BY DEF StoreInv, StoreTypeOK, raise, Reload, Seen, tables
<1>2. CASE pc[t] # "changed"
  <2>1. before = NoThing
    BY <1>2, OneInside DEF StoreInv, StoreTypeOK, BeforeInv, raise, Inside
  <2>2. Seen.clients = clients /\ Seen.messages = messages
    BY <2>1 DEF Seen, tables
  <2>3. CASE call[t].method = "save_message"
    <3>1. Methods!save_message_raises(Methods!NewRow(call[t].from, call[t].to))
      BY <1>1, <2>2, <2>3
      DEF raise, SpendRow, Reload, Methods!save_message_raises, Methods!Raise, Methods!Reload
    <3> QED
      BY <1>1, <2>3, <3>1, CallType DEF Methods!DbNext
  <2>4. CASE call[t].method # "save_message"
    <3>1. Methods!select_raises
      BY <1>1, <2>2, <2>4
      DEF raise, SpendRow, Reload, Methods!select_raises, Methods!Reload
    <3> QED
      BY <3>1 DEF Methods!DbNext
  <2> QED
    BY <2>3, <2>4
<1>3. CASE pc[t] = "changed"
  <2>1. Seen = before /\ Changed(t)
    BY <1>3 DEF StoreInv, HolderInv, Seen
  <2>2. CASE call[t].method = "add_client"
    <3>1. Methods!add_client_raises(call[t].user)
      BY <1>1, <2>1, <2>2
      DEF raise, SpendRow, Reload, Changed, Methods!add_client_raises, Methods!Raise,
          Methods!Reload
    <3> QED
      BY <1>1, <2>2, <3>1, CallType DEF Methods!DbNext, Methods!User, User
  <2>3. CASE call[t].method = "save_message"
    <3>1. Methods!save_message_raises(Methods!NewRow(call[t].from, call[t].to))
      BY <1>1, <2>1, <2>3
      DEF raise, SpendRow, Reload, Changed, NewRow, Methods!NewRow,
          Methods!save_message_raises, Methods!Raise, Methods!Reload
    <3> QED
      BY <1>1, <2>3, <3>1, CallType DEF Methods!DbNext
  <2>4. CASE call[t].method = "retrieve_and_delete"
    <3>1. Methods!retrieve_and_delete_raises(call[t].id)
      BY <1>1, <2>1, <2>4
      DEF raise, SpendRow, Reload, Changed, Methods!retrieve_and_delete_raises,
          Methods!WaitingFor, Methods!Raise, Methods!Reload
    <3> QED
      BY <1>1, <2>4, <3>1, CallType DEF Methods!DbNext
  <2> QED
    BY <2>1, <2>2, <2>3, <2>4 DEF Changed
<1> QED
  BY <1>2, <1>3

\* The statements and calls that change neither table.
LEMMA QuietStep ==
  ASSUME StoreInv, NEW t \in Threads,
         invoke(t) \/ acquire(t) \/ select(t) \/ release(t)
  PROVE  UNCHANGED Methods!dbVars
<1>1. UNCHANGED <<clients, messages, disk, nextRow, before>>
  BY DEF invoke, acquire, select, release, dbVars
<1> QED
  BY <1>1 DEF Seen, tables, Methods!dbVars

\* A new process finds what was committed.
LEMMA RestartIsRestart ==
  ASSUME StoreInv, restart
  PROVE  Methods!connect_and_init
<1>1. /\ Seen'.clients = disk.clients /\ Seen'.messages = disk.messages
      /\ UNCHANGED <<disk, nextRow>>
  BY DEF restart, connect_and_init, Reload, Seen, tables
<1> QED
  BY <1>1 DEF Methods!connect_and_init, Methods!Reload

\* Every method is one step of Database, whatever the threads do between its
\* statements: what the models of the server take for granted.
THEOREM StoreImplementsDatabase == StoreSpec => ImplementsDatabase
<1>1. StoreInit => Methods!DbInit
  BY DEF StoreInit, DbInit, Seen, tables, Methods!DbInit
<1>2. StoreInv /\ [StoreNext]_storeVars => [Methods!DbNext]_Methods!dbVars
  <2> SUFFICES ASSUME StoreInv, [StoreNext]_storeVars
               PROVE  Methods!DbNext \/ UNCHANGED Methods!dbVars
    OBVIOUS
  <2>1. CASE UNCHANGED storeVars
    BY <2>1 DEF storeVars, dbVars, Seen, tables, Methods!dbVars
  <2>2. CASE restart
    BY <2>2, RestartIsRestart DEF Methods!DbNext
  <2>3. ASSUME NEW t \in Threads, invoke(t) \/ acquire(t) \/ statement(t)
        PROVE  Methods!DbNext \/ UNCHANGED Methods!dbVars
    BY <2>3, QuietStep, ChangeHidden, CommitIsMethod, RaiseIsMethod DEF statement
  <2> QED
    BY <2>1, <2>2, <2>3 DEF StoreNext
<1> QED
  BY <1>1, <1>2, Invariant, PTL DEF StoreSpec, ImplementsDatabase, Methods!DbSpec

-----------------------------------------------------------------------------
(* What a method reads and deletes. *)

\* A SELECT sees no other thread's change, insertion or deletion: while a method
\* is at its SELECT no other is between its change and its COMMIT, so what it sees
\* is what the methods before it have left.
THEOREM StoreReadsBetweenMethods == StoreSpec => ReadsBetweenMethods
<1> DEFINE Reads == \A t \in Threads :
             select(t) => got'[t] = Selects(call[t], Seen.clients, Seen.messages)
<1>1. ASSUME StoreInv, NEW t \in Threads, select(t)
      PROVE  got'[t] = Selects(call[t], Seen.clients, Seen.messages)
  <2>1. before = NoThing
    BY <1>1, OneInside DEF StoreInv, StoreTypeOK, BeforeInv, select, In, Inside
  <2>2. Seen.clients = clients /\ Seen.messages = messages
    BY <2>1, SeenTables
  <2>3. got'[t] = Selects(call[t], clients, messages)
    BY <1>1 DEF StoreInv, StoreTypeOK, select
  <2> QED
    BY <2>2, <2>3
<1>2. StoreInv /\ [StoreNext]_storeVars => [Reads]_storeVars
  BY <1>1
<1> QED
  BY <1>2, Invariant, PTL DEF StoreSpec, ReadsBetweenMethods

\* Nothing was stored or taken between a SELECT and its DELETE.
THEOREM StoreDeletesWhatItFetched == StoreSpec => DeletesWhatItFetched
<1> DEFINE Deletes == \A t \in Threads :
             pc[t] = "selected" /\ pc'[t] = "changed" => messages \ messages' = got[t]
<1>1. ASSUME StoreInv, StoreNext
      PROVE  Deletes
  <2> SUFFICES ASSUME NEW t \in Threads, pc[t] = "selected", pc'[t] = "changed"
               PROVE  messages \ messages' = got[t]
    OBVIOUS
  <2>1. delete(t)
    BY <1>1, OneInside
    DEF StoreInv, StoreTypeOK, Inside, StoreNext, statement, invoke, acquire, select, insert,
        delete, commit, raise, release, restart, Goto, In
  <2> QED
    BY <1>1, <2>1 DEF StoreInv, HolderInv, delete, WaitingFor
<1>2. StoreInv /\ [StoreNext]_storeVars => [Deletes]_storeVars
  BY <1>1
<1> QED
  BY <1>2, Invariant, PTL DEF StoreSpec, DeletesWhatItFetched
=============================================================================
