---------------------------- MODULE PostalProofs ----------------------------
(***************************************************************************)
(* Server implements Postal, for every number of threads, users and        *)
(* messages.                                                               *)
(*                                                                         *)
(* The fate of a message is read off the places its row is in.  What a     *)
(* step may do to these places is RowsMove, which every action satisfies;  *)
(* that no fate moves backwards then follows from it and from three facts  *)
(* about rows (RowsInv) that hold together with MailInv: no two rows have  *)
(* one number, numbers are not used again, and a row that counts as        *)
(* dropped is on the connection's table only if it is on disk too, where a *)
(* rollback has found it.                                                  *)
(***************************************************************************)
EXTENDS ServerMailProofs

Rows == Tables \cup Fetched \cup dropped

RowsInv ==
  /\ \A m, n \in Rows : m.rowid = n.rowid => m = n
  /\ \A m \in Rows : m.rowid \in Nat /\ m.rowid < nextRow
  /\ dropped \cap messages \subseteq disk.messages

\* At most one row is new, and is only on a table; rows get into responses from
\* the table and out of them to their client or nowhere; what leaves the disk is
\* in a response or dropped.
RowsMove ==
  /\ \A m \in Rows' \ Rows :
       m.rowid = nextRow /\ nextRow' = nextRow + 1 /\ \A n \in Rows' \ Rows : m = n
  /\ nextRow <= nextRow'
  /\ disk'.messages \subseteq Tables \cup (Rows' \ Rows)
  /\ messages' \subseteq Tables \cup (Rows' \ Rows)
  /\ InFlight' \subseteq InFlight \cup messages
  /\ handed \subseteq handed' /\ handed' \subseteq Fetched
  /\ dropped \subseteq dropped' /\ dropped' \subseteq Rows
  /\ disk.messages \subseteq disk'.messages \cup InFlight' \cup dropped'
  /\ InFlight \subseteq Fetched' \cup dropped'
  /\ dropped' \cap messages' \subseteq disk'.messages
  /\ acked' \subseteq Acknowledged

\* A step that adds no row, stated without the new ones.
LEMMA NoNewRow ==
  ASSUME RowsInv, nextRow' = nextRow, Tables' \subseteq Tables,
         InFlight' \subseteq InFlight \cup messages,
         handed \subseteq handed', handed' \subseteq Fetched,
         dropped \subseteq dropped', dropped' \subseteq Rows,
         disk.messages \subseteq disk'.messages \cup InFlight' \cup dropped',
         InFlight \subseteq Fetched' \cup dropped',
         dropped' \cap messages' \subseteq disk'.messages,
         acked' \subseteq Acknowledged,
         nextRow \in Nat
  PROVE  RowsMove
<1>1. Rows' \subseteq Rows
  BY DEF Rows, Tables, Fetched
<1> QED
  BY <1>1 DEF RowsMove, Tables

\* A step that moves no mail, though it may commit what was left open or undo it.
LEMMA NoMail ==
  ASSUME TypeOK, MailInv, RowsInv,
         \A d \in Conns : Batch(d)' = Batch(d),
         UNCHANGED <<nextRow, handed, dropped, acked>>,
         messages' \in {messages, disk.messages},
         disk'.messages \in {messages', disk.messages}
  PROVE  RowsMove
<1>1. InFlight' = InFlight
  BY DEF InFlight
<1>2. disk.messages \subseteq disk'.messages \cup dropped
  BY DEF MailInv, UnsavedDeletes
<1>3. dropped' \cap messages' \subseteq disk'.messages
  BY DEF RowsInv
<1>4. Tables' \subseteq Tables /\ dropped' \subseteq Rows /\ nextRow \in Nat
  BY DEF Tables, Rows, TypeOK, DbTypeOK
<1>5. acked' \subseteq Acknowledged
  BY DEF Acknowledged
<1> QED
  BY <1>1, <1>2, <1>3, <1>4, <1>5, NoNewRow DEF Fetched

-----------------------------------------------------------------------------
(* Every step moves rows like that. *)

\* A new row is on a table at most.
LEMMA NewRowMoves ==
  ASSUME TypeOK, MailInv, RowsInv, NEW new \in Row, new.rowid = nextRow, nextRow' = nextRow + 1,
         \A d \in Conns : Batch(d)' = Batch(d), UNCHANGED <<handed, dropped, acked>>,
         \/ messages' = messages \cup {new} /\ disk'.messages = messages'
         \/ disk' = disk /\ messages' \in {messages, messages \cup {new}, disk.messages}
  PROVE  RowsMove
<1>1. InFlight' = InFlight /\ Fetched' = Fetched
  BY DEF InFlight, Fetched
<1>2. Tables' \subseteq Tables \cup {new}
  BY DEF Tables
<1>3. new \notin Rows /\ nextRow \in Nat
  BY DEF RowsInv, TypeOK, DbTypeOK
<1>4. Rows' \ Rows \subseteq {new}
  BY <1>1, <1>2 DEF Rows
<1>5. \A m \in Rows' \ Rows :
        m.rowid = nextRow /\ nextRow' = nextRow + 1 /\ \A n \in Rows' \ Rows : m = n
  BY <1>4
<1>6. \A m \in Tables' : m \in Tables \cup (Rows' \ Rows)
  BY <1>2, <1>3 DEF Rows
<1>7. disk.messages \subseteq disk'.messages \cup dropped
  BY DEF MailInv, UnsavedDeletes
<1>8. dropped' \cap messages' \subseteq disk'.messages
  BY <1>3 DEF RowsInv, Rows
<1>9. acked' \subseteq Acknowledged
  BY DEF Acknowledged
<1>10. messages' \subseteq Tables' /\ disk'.messages \subseteq Tables'
  BY DEF Tables
<1> QED
  BY <1>1, <1>3, <1>5, <1>6, <1>7, <1>8, <1>9, <1>10 DEF RowsMove, Rows, Fetched

LEMMA SaveMoves ==
  ASSUME TypeOK, MailInv, RowsInv, NEW c \in Conns, handle_messege(c)
  PROVE  RowsMove
<1>1. Posted(c) \in Row /\ Posted(c).rowid = nextRow /\ nextRow' = nextRow + 1
  BY PostedType DEF handle_messege, save_message, Posted, NewRow
<1>2. /\ messages' = messages \cup {Posted(c)} /\ disk'.messages = messages'
      /\ UNCHANGED <<handed, dropped, acked>>
  BY DEF handle_messege, save_message, Commit, history
<1>3. \A d \in Conns : Batch(d)' = Batch(d)
  <2>1. pc[c] # "replying"
    BY DEF handle_messege, Handling
  <2> QED
    BY <2>1, IdleCarries, RespondCarries DEF handle_messege, TypeOK
<1> QED
  BY <1>1, <1>2, <1>3, NewRowMoves

LEMMA CollectMoves ==
  ASSUME TypeOK, MailInv, RowsInv, NEW c \in Conns, handle_pending_messeges(c)
  PROVE  RowsMove
<1> DEFINE taken == WaitingFor(req[c].cid)
<1>1. /\ messages' = messages \ taken /\ disk'.messages = messages \ taken
      /\ UNCHANGED <<handed, dropped, acked>> /\ nextRow' = nextRow /\ nextRow \in Nat
  BY DEF handle_pending_messeges, retrieve_and_delete_all_waiting_messages, Commit, history,
         TypeOK, DbTypeOK
<1>2. taken \subseteq messages
  BY DEF WaitingFor
<1>3. pc[c] # "replying"
  BY DEF handle_pending_messeges, Handling
<1>4. Batch(c)' = taken /\ Batch(c) = {} /\ \A d \in Conns \ {c} : Batch(d)' = Batch(d)
  BY <1>3, IdleCarries, RespondCarries DEF handle_pending_messeges, TypeOK
<1> HIDE DEF taken
<1>5. InFlight' = InFlight \cup taken
  BY <1>4 DEF InFlight
<1>6. disk.messages \subseteq disk'.messages \cup taken \cup dropped
  BY <1>1 DEF MailInv, UnsavedDeletes
<1>7. Tables' \subseteq Tables /\ dropped' \subseteq Rows /\ acked' \subseteq Acknowledged
  BY <1>1 DEF Tables, Rows, Acknowledged
<1> QED
  BY <1>1, <1>2, <1>5, <1>6, <1>7, NoNewRow DEF Fetched

LEMMA HandlerMoves ==
  ASSUME TypeOK, MailInv, RowsInv, NEW c \in Conns,
         \/ handle_connection(c) \/ handle_error(c) \/ handle_register(c)
         \/ handle_register_add(c) \/ handle_register_print(c)
         \/ handle_list_clients(c) \/ handle_public_key_request(c)
  PROVE  RowsMove
<1>1. /\ UNCHANGED history /\ nextRow' = nextRow /\ messages' = messages
      /\ disk'.messages \in {messages, disk.messages}
      /\ Batch(c) = {} /\ Batch(c)' = {}
  BY HandlerCarries
<1>2. \A d \in Conns \ {c} : Batch(d)' = Batch(d)
  BY HandlerCarries, OthersCarry DEF TypeOK
<1> QED
  BY <1>1, <1>2, NoMail DEF history

LEMMA RaisesMoves ==
  ASSUME TypeOK, MailInv, RowsInv, NEW c \in Conns, database_raises(c)
  PROVE  RowsMove
<1>1. Respond(c, error_response) /\ UNCHANGED <<handed, acked>>
  BY DEF database_raises
<1>2. pc[c] # "replying"
  BY DEF database_raises, Handling
<1>3. \A d \in Conns : Batch(d)' = Batch(d)
  BY <1>1, <1>2, IdleCarries, RespondCarries DEF error_response, TypeOK
<1>4. InFlight' = InFlight
  BY <1>3 DEF InFlight
<1>5. CASE /\ Handling(c, "SEND_MESSEGE")
           /\ save_message_raises(Posted(c)) /\ UNCHANGED dropped
  <2>1. Posted(c) \in Row /\ Posted(c).rowid = nextRow /\ nextRow' = nextRow + 1
    BY <1>5, PostedType DEF save_message_raises, Posted, NewRow
  <2>2. disk' = disk /\ messages' \in {messages, messages \cup {Posted(c)}, disk.messages}
    BY <1>5 DEF save_message_raises, Raise, Reload
  <2> QED
    BY <1>1, <1>3, <1>5, <2>1, <2>2, NewRowMoves
<1>6. CASE /\ retrieve_and_delete_raises(req[c].cid)
           /\ dropped' = dropped \cup (WaitingFor(req[c].cid) \ messages')
  <2> DEFINE taken == WaitingFor(req[c].cid)
  <2>1. taken \subseteq messages
    BY DEF WaitingFor
  <2>2. /\ disk' = disk /\ nextRow' = nextRow /\ nextRow \in Nat
        /\ messages' \in {messages, messages \ taken, disk.messages}
    BY <1>6 DEF retrieve_and_delete_raises, Raise, Reload, TypeOK, DbTypeOK
  <2> HIDE DEF taken
  <2>3. dropped' \cap messages' \subseteq disk'.messages
    BY <1>6, <2>2 DEF RowsInv, taken
  <2>4. dropped \subseteq dropped' /\ dropped' \subseteq Rows
    BY <1>6, <2>1 DEF Rows, Tables, taken
  <2>5. Tables' \subseteq Tables
    BY <2>2 DEF Tables
  <2>6. acked' \subseteq Acknowledged
    BY <1>1 DEF Acknowledged
  <2> QED
    BY <1>1, <1>4, <2>2, <2>3, <2>4, <2>5, <2>6, NoNewRow DEF Fetched
<1>7. CASE (add_client_raises(user[c]) \/ select_raises) /\ UNCHANGED dropped
  <2>1. nextRow' = nextRow /\ disk' = disk /\ messages' \in {messages, disk.messages}
    BY <1>7 DEF add_client_raises, select_raises, Raise, Reload
  <2> QED
    BY <1>1, <1>3, <1>7, <2>1, NoMail
<1> QED
  BY <1>5, <1>6, <1>7 DEF database_raises

LEMMA ReplyMoves ==
  ASSUME TypeOK, MailInv, RowsInv, NEW c \in Conns,
         response_too_long(c) \/ send_response(c) \/ lose_response(c)
  PROVE  RowsMove
<1>1. messages' = messages /\ disk' = disk /\ nextRow' = nextRow /\ nextRow \in Nat
  BY DEF response_too_long, send_response, lose_response, dbVars, TypeOK, DbTypeOK
<1>2. Batch(c)' = {} /\ \A d \in Conns \ {c} : Batch(d)' = Batch(d)
  BY RespondCarries, CloseCarries
  DEF response_too_long, send_response, lose_response, error_response, TypeOK
<1>3. \/ handed' = handed \cup Batch(c) /\ dropped' = dropped
      \/ handed' = handed /\ dropped' = dropped \cup Batch(c)
  BY DEF response_too_long, send_response, lose_response
<1>4. acked' \subseteq Acknowledged
  BY DEF response_too_long, send_response, lose_response, Acknowledged
<1>5. Batch(c) \subseteq InFlight /\ InFlight \subseteq InFlight' \cup Batch(c)
      /\ InFlight' \subseteq InFlight
  BY <1>2 DEF InFlight
<1>6. Fetched \cap messages = {}
  BY DEF MailInv, AtMostOnce
<1>7. dropped' \cap messages' \subseteq disk'.messages
  BY <1>1, <1>3, <1>5, <1>6 DEF RowsInv, Fetched
<1>8. /\ handed \subseteq handed' /\ handed' \subseteq Fetched
      /\ dropped \subseteq dropped' /\ dropped' \subseteq Rows
      /\ InFlight \subseteq Fetched' \cup dropped'
  BY <1>3, <1>5 DEF Fetched, Rows
<1>9. Tables' \subseteq Tables
  BY <1>1 DEF Tables
<1> QED
  BY <1>1, <1>4, <1>5, <1>7, <1>8, <1>9, NoNewRow

LEMMA ProcessMoves ==
  ASSUME TypeOK, MailInv, RowsInv, crash \/ start \/ accept_raises \/ UNCHANGED vars
  PROVE  RowsMove
<1>1. CASE crash
  <2>1. \A d \in Conns : Batch(d)' = {}
    BY <1>1 DEF crash, Batch, Carries
  <2>2. InFlight' = {} /\ dropped' = dropped \cup InFlight
    BY <1>1, <2>1 DEF crash, InFlight
  <2>3. UNCHANGED <<messages, disk, nextRow, handed, acked>> /\ nextRow \in Nat
    BY <1>1 DEF crash, dbVars, TypeOK, DbTypeOK
  <2>4. Fetched \cap messages = {}
    BY DEF MailInv, AtMostOnce
  <2>5. dropped' \cap messages' \subseteq disk'.messages
    BY <2>2, <2>3, <2>4 DEF RowsInv, Fetched
  <2>6. Tables' \subseteq Tables /\ dropped' \subseteq Rows /\ acked' \subseteq Acknowledged
    BY <2>2, <2>3 DEF Tables, Rows, Fetched, Acknowledged
  <2> QED
    BY <2>2, <2>3, <2>5, <2>6, NoNewRow DEF Fetched
<1>2. CASE start \/ accept_raises \/ UNCHANGED vars
  <2>1. \A d \in Conns : Batch(d)' = Batch(d)
    BY <1>2 DEF start, accept_raises, vars, threads, Batch, Carries
  <2>2. /\ UNCHANGED <<handed, acked, dropped, nextRow>> /\ disk' = disk
        /\ messages' \in {messages, disk.messages}
    BY <1>2 DEF start, accept_raises, connect_and_init, Reload, vars, dbVars, history
  <2> QED
    BY <2>1, <2>2, NoMail
<1> QED
  BY <1>1, <1>2

LEMMA EveryStepMoves == TypeOK /\ MailInv /\ RowsInv /\ [Next]_vars => RowsMove
<1> SUFFICES ASSUME TypeOK, MailInv, RowsInv, [Next]_vars PROVE RowsMove
  OBVIOUS
<1>1. CASE \E c \in Conns : handle_connection(c) \/ handle_request(c)
  BY <1>1, HandlerMoves, SaveMoves, CollectMoves, RaisesMoves, ReplyMoves DEF handle_request
<1>2. CASE crash \/ start \/ accept_raises \/ UNCHANGED vars
  BY <1>2, ProcessMoves
<1> QED
  BY <1>1, <1>2 DEF Next

-----------------------------------------------------------------------------
(* The rows. *)

LEMMA RowsInit == Init => RowsInv
<1> SUFFICES ASSUME Init PROVE RowsInv
  OBVIOUS
<1>1. \A c \in Conns : Batch(c) = {}
  BY DEF Init, Batch, Carries
<1>2. Rows = {} /\ messages = {}
  BY <1>1 DEF Init, DbInit, Rows, Tables, Fetched, InFlight
<1> QED
  BY <1>2 DEF RowsInv, Rows

LEMMA RowsNext == TypeOK /\ TypeOK' /\ RowsInv /\ RowsMove => RowsInv'
<1> SUFFICES ASSUME TypeOK, TypeOK', RowsInv, RowsMove PROVE RowsInv'
  OBVIOUS
<1>1. nextRow \in Nat /\ nextRow' \in Nat
  BY DEF TypeOK, DbTypeOK
<1>2. \A m \in Rows : m.rowid \in Nat /\ m.rowid < nextRow /\ nextRow <= nextRow'
  BY DEF RowsInv, RowsMove
<1>3. \A m \in Rows' \ Rows :
        m.rowid = nextRow /\ nextRow' = nextRow + 1 /\ \A n \in Rows' \ Rows : m = n
  BY DEF RowsMove
<1>4. \A m, n \in Rows' : m.rowid = n.rowid => m = n
  BY <1>1, <1>2, <1>3 DEF RowsInv
<1>5. \A m \in Rows' : m.rowid \in Nat /\ m.rowid < nextRow'
  BY <1>1, <1>2, <1>3
<1> QED
  BY <1>4, <1>5 DEF RowsInv, RowsMove

-----------------------------------------------------------------------------
(* The fates. *)

\* A row that is anywhere is the only one of its number, also after the step.
LEMMA SameRow ==
  ASSUME RowsInv, RowsMove, nextRow \in Nat, NEW m \in Rows, NEW n \in Rows \cup Rows',
         n.rowid = m.rowid
  PROVE  n = m
BY DEF RowsInv, RowsMove

LEMMA FateMoves ==
  ASSUME TypeOK, MailInv, RowsInv, RowsMove, NEW l \in Nat
  PROVE  Fate(l)' \in Post!Moves[Fate(l)]
<1>1. nextRow \in Nat
  BY DEF TypeOK, DbTypeOK
<1>2. Fetched \cap Tables = {}
  BY DEF MailInv, AtMostOnce, Tables
<1>3. /\ disk'.messages \subseteq Rows' /\ InFlight' \subseteq Rows' /\ handed' \subseteq Rows'
      /\ disk.messages \subseteq Tables /\ messages \subseteq Tables
      /\ Tables \subseteq Rows /\ Fetched \subseteq Rows /\ dropped \subseteq Rows
      /\ Fetched = handed \cup InFlight /\ Fetched' = handed' \cup InFlight'
  BY DEF Rows, Tables, Fetched
<1>4. ASSUME NEW m \in Fetched, m.rowid = l PROVE ~ HasRow(disk.messages, l)'
  <2> SUFFICES ASSUME NEW n \in disk'.messages, n.rowid = l PROVE FALSE
    BY DEF HasRow
  <2>1. n = m
    BY <1>1, <1>3, <1>4, SameRow
  <2> QED
    BY <1>2, <1>3, <2>1 DEF RowsMove
<1>5. ASSUME NEW m \in disk.messages, m.rowid = l PROVE ~ HasRow(handed, l)'
  <2> SUFFICES ASSUME NEW n \in handed', n.rowid = l PROVE FALSE
    BY DEF HasRow
  <2>1. n = m
    BY <1>1, <1>3, <1>5, SameRow
  <2> QED
    BY <1>2, <1>3, <2>1 DEF RowsMove
<1>6. ASSUME ~ HasRow(handed, l), ~ HasRow(InFlight, l) PROVE ~ HasRow(handed, l)'
  BY <1>3, <1>6 DEF HasRow, RowsMove
<1>7. ASSUME NEW m \in handed, m.rowid = l, ~ HasRow(InFlight, l) PROVE ~ HasRow(InFlight, l)'
  <2> SUFFICES ASSUME NEW n \in InFlight', n.rowid = l PROVE FALSE
    BY DEF HasRow
  <2>1. n = m
    BY <1>1, <1>3, <1>7, SameRow
  <2> QED
    BY <1>2, <1>3, <1>7, <2>1 DEF RowsMove, HasRow
<1>8. ASSUME NEW m \in dropped, m.rowid = l, ~ HasRow(disk.messages, l), ~ HasRow(InFlight, l)
      PROVE  ~ HasRow(disk.messages, l)' /\ ~ HasRow(InFlight, l)'
  <2>1. m \notin messages /\ m \notin disk.messages
    BY <1>8 DEF HasRow, RowsInv
  <2>2. ASSUME NEW n \in disk'.messages, n.rowid = l PROVE FALSE
    <3>1. n = m
      BY <1>1, <1>3, <1>8, <2>2, SameRow
    <3> QED
      BY <1>3, <2>1, <3>1 DEF RowsMove, Tables
  <2>3. ASSUME NEW n \in InFlight', n.rowid = l PROVE FALSE
    <3>1. n = m
      BY <1>1, <1>3, <1>8, <2>3, SameRow
    <3> QED
      BY <1>8, <2>1, <2>3, <3>1 DEF RowsMove, HasRow
  <2> QED
    BY <2>2, <2>3 DEF HasRow
<1>9. /\ HasRow(disk.messages, l) =>
           HasRow(disk.messages, l)' \/ HasRow(InFlight, l)' \/ HasRow(dropped, l)'
      /\ HasRow(InFlight, l) =>
           HasRow(InFlight, l)' \/ HasRow(handed, l)' \/ HasRow(dropped, l)'
      /\ HasRow(handed, l) => HasRow(handed, l)'
      /\ HasRow(dropped, l) => HasRow(dropped, l)'
  BY <1>3 DEF HasRow, RowsMove
<1>10. /\ HasRow(InFlight, l) \/ HasRow(handed, l) => ~ HasRow(disk.messages, l)'
       /\ HasRow(disk.messages, l) => ~ HasRow(handed, l)'
       /\ HasRow(handed, l) /\ ~ HasRow(InFlight, l) => ~ HasRow(InFlight, l)'
       /\ HasRow(dropped, l) /\ ~ HasRow(disk.messages, l) /\ ~ HasRow(InFlight, l) =>
            ~ HasRow(disk.messages, l)' /\ ~ HasRow(InFlight, l)'
  BY <1>3, <1>4, <1>5, <1>7, <1>8 DEF HasRow
<1> QED
  BY <1>6, <1>9, <1>10 DEF Fate, Post!Moves, Post!Fates

\* Whoever is told of a message is told of one that is somewhere.
LEMMA ToldOfSent ==
  ASSUME TypeOK, MailInv, RowsMove, NEW m \in acked' \ acked
  PROVE  Fate(m.rowid) # "unsent"
<1>1. m \in disk.messages \cup Fetched \cup dropped
  BY DEF RowsMove, MailInv, NoSilentLoss
<1> QED
  BY <1>1 DEF Fate, HasRow, Fetched

LEMMA FatesAre == \A l : Fate(l) \in Post!Fates
BY DEF Fate, Post!Fates

LEMMA PostalInit == Init => Post!Init
<1> SUFFICES ASSUME Init PROVE Post!Init
  OBVIOUS
<1>1. \A c \in Conns : Batch(c) = {}
  BY DEF Init, Batch, Carries
<1>2. disk.messages = {} /\ InFlight = {} /\ handed = {} /\ dropped = {} /\ acked = {}
  BY <1>1 DEF Init, DbInit, InFlight
<1> QED
  BY <1>2 DEF Post!Init, Fate, HasRow

LEMMA PostalStep ==
  ASSUME TypeOK, MailInv, RowsInv, RowsMove, acked \subseteq acked'
  PROVE  Post!Next
<1> DEFINE fates == [l \in 1..MaxPosts |-> Fate(l)]
           told == {m.rowid : m \in acked}
<1>1. fates' \in [1..MaxPosts -> Post!Fates]
  BY FatesAre DEF Fate, HasRow, Post!Fates
<1>2. \A l \in 1..MaxPosts : fates'[l] \in Post!Moves[fates[l]]
  BY FateMoves
<1>3. told \subseteq told'
  OBVIOUS
<1>4. \A l \in 1..MaxPosts : l \in told' \ told => fates[l] # "unsent"
  BY ToldOfSent
<1> QED
  BY <1>1, <1>2, <1>3, <1>4 DEF Post!Next

LEMMA TellingsStay == [Next]_vars => acked \subseteq acked'
BY DEF Next, handle_connection, recv_request, recv_invalid, handle_request, handle_error,
       handle_register, handle_register_add, handle_register_print, handle_list_clients,
       handle_public_key_request, handle_messege, handle_pending_messeges, database_raises,
       response_too_long, send_response, lose_response, accept_raises, crash, start, vars, history

\* Whatever threads, raising methods and crashes do, the life of every message is
\* one that Postal allows: stored, taken once, delivered or lost, and its sender
\* told of it only if it was stored.
THEOREM ServerImplementsPostal == Spec => ImplementsPostal
<1>1. Init => Post!Init
  BY PostalInit
<1>2. TypeOK /\ TypeOK' /\ MailInv /\ RowsInv /\ [Next]_vars => RowsInv' /\ Post!Next
  BY EveryStepMoves, RowsNext, TellingsStay, PostalStep
<1>3. Spec => []TypeOK
  BY TypeCorrect
<1>4. Spec => []MailInv
  BY MailInvariant
<1> QED
  BY <1>1, <1>2, <1>3, <1>4, RowsInit, PTL DEF Spec, ImplementsPostal, Post!Spec
=============================================================================
