-------------------------- MODULE ServerMailProofs --------------------------
(***************************************************************************)
(* The mail of module Server, for every number of threads, users and       *)
(* messages: delivered at most once, in order, and never lost unnoticed.   *)
(*                                                                         *)
(* The three properties are not inductive by themselves.  Order needs to   *)
(* know that row numbers only grow (RowsSpent).  That nothing is lost      *)
(* unnoticed needs to know what a failing commit can do: the connection    *)
(* may have deleted rows that are still on disk, and the next commit of    *)
(* any thread makes that final (UnsavedDeletes).                           *)
(***************************************************************************)
EXTENDS ServerProofs

Tables == messages \cup disk.messages

RowsSpent == \A m \in Tables \cup Fetched : m.rowid < nextRow

UnsavedDeletes == disk.messages \ messages \subseteq dropped

MailInv ==
  /\ RowsSpent
  /\ AtMostOnce
  /\ FetchedInOrder
  /\ UnsavedDeletes
  /\ NoSilentLoss

-----------------------------------------------------------------------------
(* What a step of one thread does to the responses under way. *)

\* The other threads carry what they carried.
LEMMA OthersCarry ==
  ASSUME ThreadsTypeOK, NEW c \in Conns, NEW stage, Goto(c, stage),
         UNCHANGED res \/ (\E r : res' = [res EXCEPT ![c] = r])
  PROVE  \A d \in Conns \ {c} : Batch(d)' = Batch(d) /\ Confirming(d)' = Confirming(d)
BY DEF ThreadsTypeOK, Goto, Batch, Confirming, Carries

\* A thread that starts to reply carries what its response says.
LEMMA RespondCarries ==
  ASSUME ThreadsTypeOK, NEW c \in Conns, NEW r, Respond(c, r)
  PROVE  /\ Batch(c)' = IF r.code = "MESSEGES" THEN r.batch ELSE {}
         /\ Confirming(c)' = IF r.code = "SENT" THEN {r.message} ELSE {}
         /\ \A d \in Conns \ {c} : Batch(d)' = Batch(d) /\ Confirming(d)' = Confirming(d)
<1>1. pc'[c] = "replying" /\ res'[c] = r
  BY DEF ThreadsTypeOK, Respond, Goto
<1>2. \A d \in Conns \ {c} : Batch(d)' = Batch(d) /\ Confirming(d)' = Confirming(d)
  BY OthersCarry DEF Respond
<1> QED
  BY <1>1, <1>2 DEF Batch, Confirming, Carries

\* A thread that closes carries nothing any more.
LEMMA CloseCarries ==
  ASSUME ThreadsTypeOK, NEW c \in Conns, Close(c)
  PROVE  /\ Batch(c)' = {} /\ Confirming(c)' = {}
         /\ \A d \in Conns \ {c} : Batch(d)' = Batch(d) /\ Confirming(d)' = Confirming(d)
<1>1. pc'[c] = "idle"
  BY DEF ThreadsTypeOK, Close, Goto
<1>2. \A d \in Conns \ {c} : Batch(d)' = Batch(d) /\ Confirming(d)' = Confirming(d)
  BY OthersCarry DEF Close
<1> QED
  BY <1>1, <1>2 DEF Batch, Confirming, Carries

\* A thread that is not replying carries nothing.
LEMMA IdleCarries ==
  ASSUME NEW c \in Conns, pc[c] # "replying"
  PROVE  Batch(c) = {} /\ Confirming(c) = {}
BY DEF Batch, Confirming, Carries

-----------------------------------------------------------------------------
(* A step that puts nothing new on a table or into a response, and records  *)
(* as handed over or dropped whatever leaves them, preserves the invariant. *)

\* Such a step preserves MailInv.
LEMMA NothingNew ==
  ASSUME TypeOK, MailInv,
         Tables' \subseteq Tables,
         nextRow' \in Nat, nextRow <= nextRow',
         (disk.messages \ messages)' \subseteq dropped',
         \A d \in Conns : Batch(d)' \subseteq Batch(d),
         handed \subseteq handed', handed' \subseteq Fetched,
         \A d \in Conns : Batch(d)' \cap handed' = {},
         Acknowledged' \subseteq Acknowledged,
         disk.messages \subseteq disk'.messages \cup dropped',
         Fetched \subseteq Fetched' \cup dropped',
         dropped \subseteq dropped'
  PROVE  MailInv'
<1>1. Fetched' \subseteq Fetched
  BY DEF Fetched, InFlight
<1>2. RowsSpent'
  <2> SUFFICES ASSUME NEW m \in Tables \cup Fetched PROVE m.rowid < nextRow'
    BY <1>1 DEF RowsSpent
  <2>1. m.rowid < nextRow /\ m.rowid \in Nat
    <3>1. m \in Row
      BY BatchType DEF Tables, Fetched, InFlight, TypeOK, DbTypeOK, HistoryTypeOK
    <3> QED
      BY <3>1 DEF MailInv, RowsSpent, Row
  <2> QED
    BY <2>1 DEF TypeOK, DbTypeOK
<1>3. AtMostOnce'
  BY <1>1 DEF MailInv, AtMostOnce, Tables
<1>4. FetchedInOrder'
  BY <1>1 DEF MailInv, FetchedInOrder, Tables
<1>5. NoSilentLoss'
  BY DEF MailInv, NoSilentLoss
<1> QED
  BY <1>2, <1>3, <1>4, <1>5 DEF MailInv, UnsavedDeletes

\* In particular a thread that leaves the mail alone and whose response carries none.
LEMMA Unrelated ==
  ASSUME TypeOK, MailInv, NEW c \in Conns, NEW stage, Goto(c, stage),
         UNCHANGED res \/ (\E r : res' = [res EXCEPT ![c] = r]),
         Batch(c) = {}, Batch(c)' = {}, Confirming(c)' = {},
         Tables' \subseteq Tables,
         nextRow' \in Nat, nextRow <= nextRow',
         (disk.messages \ messages)' \subseteq dropped',
         disk.messages \subseteq disk'.messages \cup dropped',
         dropped \subseteq dropped',
         UNCHANGED <<handed, acked>>
  PROVE  MailInv'
<1>1. \A d \in Conns : Batch(d)' = Batch(d) /\ Confirming(d)' \subseteq Confirming(d)
  BY OthersCarry DEF TypeOK
<1>2. Fetched' = Fetched
  BY <1>1 DEF Fetched, InFlight
<1>3. Acknowledged' \subseteq Acknowledged
  BY <1>1 DEF Acknowledged
<1>4. \A d \in Conns : Batch(d)' \cap handed' = {}
  BY <1>1 DEF MailInv, AtMostOnce
<1> QED
  BY <1>1, <1>2, <1>3, <1>4, NothingNew DEF Fetched

-----------------------------------------------------------------------------
(* The steps that do put something new there. *)

\* A stored message is younger than everything fetched, and on disk when its
\* sender is about to be told.
LEMMA SaveStep ==
  ASSUME TypeOK, MailInv, NEW c \in Conns, handle_messege(c)
  PROVE  MailInv'
<1> DEFINE new == Posted(c)
<1>1. /\ new \in Row /\ new.rowid = nextRow
      /\ nextRow' = nextRow + 1 /\ nextRow \in Nat
  BY PostedType DEF handle_messege, save_message, Posted, NewRow, TypeOK, DbTypeOK
<1>2. /\ messages' = messages \cup {new} /\ disk'.messages = messages \cup {new}
      /\ UNCHANGED history
  BY DEF handle_messege, save_message, Commit
<1>3. /\ \A d \in Conns : Batch(d)' = Batch(d)
      /\ Confirming(c)' = {new}
      /\ \A d \in Conns \ {c} : Confirming(d)' = Confirming(d)
  <2>1. pc[c] # "replying"
    BY DEF handle_messege, Handling
  <2> QED
    BY <2>1, IdleCarries, RespondCarries DEF handle_messege, TypeOK
<1>4. Fetched' = Fetched
  BY <1>2, <1>3 DEF Fetched, InFlight, history
<1>5. \A m \in Tables \cup Fetched : m \in Row /\ m.rowid < nextRow
  BY BatchType DEF Tables, Fetched, InFlight, MailInv, RowsSpent, TypeOK, DbTypeOK, HistoryTypeOK
<1>6. Tables' \subseteq Tables \cup {new}
  BY <1>2 DEF Tables
<1>7. RowsSpent'
  <2>1. \A m \in Tables \cup Fetched : m.rowid < nextRow + 1
    BY <1>1, <1>5 DEF Row
  <2> QED
    BY <1>1, <1>4, <1>6, <2>1 DEF RowsSpent
<1>8. new \notin Fetched
  BY <1>1, <1>5
<1>9. AtMostOnce'
  BY <1>2, <1>3, <1>4, <1>6, <1>8 DEF MailInv, AtMostOnce, Tables, history
<1>10. FetchedInOrder'
  BY <1>1, <1>4, <1>5, <1>6 DEF MailInv, FetchedInOrder, Tables
<1>11. UnsavedDeletes'
  BY <1>2 DEF UnsavedDeletes
<1>12. NoSilentLoss'
  <2>1. Acknowledged' \subseteq Acknowledged \cup {new}
    BY <1>2, <1>3 DEF Acknowledged, history
  <2>2. disk.messages \subseteq disk'.messages \cup dropped
    BY <1>2 DEF MailInv, UnsavedDeletes
  <2> QED
    BY <1>2, <1>4, <2>1, <2>2 DEF MailInv, NoSilentLoss, history
<1> QED
  BY <1>7, <1>9, <1>10, <1>11, <1>12 DEF MailInv

\* A collection takes every waiting message of its client off both tables and
\* into one response.
LEMMA CollectStep ==
  ASSUME TypeOK, MailInv, NEW c \in Conns, handle_pending_messeges(c)
  PROVE  MailInv'
<1> DEFINE taken == WaitingFor(req[c].cid)
<1>1. /\ messages' = messages \ taken /\ disk'.messages = messages \ taken
      /\ UNCHANGED history /\ nextRow' = nextRow
  BY DEF handle_pending_messeges, retrieve_and_delete_all_waiting_messages, Commit
<1>2. taken \subseteq messages /\ \A m \in messages : m \in taken <=> m.to = req[c].cid
  BY DEF WaitingFor
<1>3. pc[c] # "replying"
  BY DEF handle_pending_messeges, Handling
<1>4. /\ Batch(c)' = taken
      /\ Batch(c) = {}
      /\ \A d \in Conns \ {c} : Batch(d)' = Batch(d)
      /\ \A d \in Conns : Confirming(d)' = Confirming(d)
  BY <1>3, IdleCarries, RespondCarries DEF handle_pending_messeges, TypeOK
<1>5. Fetched' = Fetched \cup taken
  BY <1>1, <1>4 DEF Fetched, InFlight, history
<1>6. Tables' = messages \ taken
  BY <1>1 DEF Tables
<1>7. RowsSpent'
  BY <1>1, <1>2, <1>5, <1>6 DEF MailInv, RowsSpent, Tables
<1>8. Fetched \cap messages = {}
  BY DEF MailInv, AtMostOnce
<1>9. AtMostOnce'
  <2>1. Fetched' \cap Tables' = {}
    BY <1>5, <1>6, <1>8
  <2>2. \A d \in Conns : Batch(d) \subseteq Fetched
    BY DEF Fetched, InFlight
  <2>3. \A d \in Conns : Batch(d)' \cap handed' = {}
    BY <1>1, <1>2, <1>4, <1>8 DEF MailInv, AtMostOnce, Fetched, history
  <2>4. \A d, e \in Conns : d # e => Batch(d)' \cap Batch(e)' = {}
    BY <1>2, <1>4, <1>8, <2>2 DEF MailInv, AtMostOnce
  <2> QED
    BY <2>1, <2>3, <2>4 DEF AtMostOnce, Tables
<1>10. FetchedInOrder'
  BY <1>2, <1>5, <1>6 DEF MailInv, FetchedInOrder, Tables
<1>11. UnsavedDeletes'
  BY <1>1 DEF UnsavedDeletes
<1>12. NoSilentLoss'
  <2>1. Acknowledged' = Acknowledged
    BY <1>1, <1>4 DEF Acknowledged, history
  <2>2. disk.messages \subseteq disk'.messages \cup taken \cup dropped
    BY <1>1 DEF MailInv, UnsavedDeletes
  <2> QED
    BY <1>1, <1>5, <2>1, <2>2 DEF MailInv, NoSilentLoss, history
<1> QED
  BY <1>7, <1>9, <1>10, <1>11, <1>12 DEF MailInv

\* An insertion that raises may leave its row on the table, on disk or in no
\* place; nobody is told that it is stored.
LEMMA SaveRaisesStep ==
  ASSUME TypeOK, MailInv, NEW c \in Conns, Handling(c, "SEND_MESSEGE"),
         save_message_raises(Posted(c)), Respond(c, error_response),
         UNCHANGED history
  PROVE  MailInv'
<1> DEFINE new == Posted(c)
<1>1. /\ new \in Row /\ new.rowid = nextRow
      /\ nextRow' = nextRow + 1 /\ nextRow \in Nat
  BY PostedType DEF save_message_raises, Posted, NewRow, TypeOK, DbTypeOK
<1>2. /\ disk' = disk
      /\ \/ messages' = messages
         \/ messages' = messages \cup {new}
         \/ messages' = disk.messages
  BY DEF save_message_raises, Raise, Reload
<1>3. \A d \in Conns : Batch(d)' = Batch(d) /\ Confirming(d)' = Confirming(d)
  <2>1. pc[c] # "replying"
    BY DEF Handling
  <2> QED
    BY <2>1, IdleCarries, RespondCarries DEF error_response, TypeOK
<1>4. Fetched' = Fetched /\ Acknowledged' = Acknowledged
  BY <1>3 DEF Fetched, InFlight, Acknowledged, history
<1>5. \A m \in Tables \cup Fetched : m \in Row /\ m.rowid < nextRow
  BY BatchType DEF Tables, Fetched, InFlight, MailInv, RowsSpent, TypeOK, DbTypeOK, HistoryTypeOK
<1>6. Tables' \subseteq Tables \cup {new}
  BY <1>2 DEF Tables
<1>7. RowsSpent'
  <2>1. \A m \in Tables \cup Fetched : m.rowid < nextRow + 1
    BY <1>1, <1>5 DEF Row
  <2> QED
    BY <1>1, <1>4, <1>6, <2>1 DEF RowsSpent
<1>8. new \notin Fetched
  BY <1>1, <1>5
<1>9. AtMostOnce'
  BY <1>3, <1>4, <1>6, <1>8 DEF MailInv, AtMostOnce, Tables, history
<1>10. FetchedInOrder'
  BY <1>1, <1>4, <1>5, <1>6 DEF MailInv, FetchedInOrder, Tables
<1>11. UnsavedDeletes'
  BY <1>2 DEF MailInv, UnsavedDeletes, history
<1>12. NoSilentLoss'
  BY <1>2, <1>4 DEF MailInv, NoSilentLoss, history
<1> QED
  BY <1>7, <1>9, <1>10, <1>11, <1>12 DEF MailInv

-----------------------------------------------------------------------------

\* No mail anywhere in a new process on a new file.
LEMMA MailInit == Init => MailInv
<1> SUFFICES ASSUME Init PROVE MailInv
  OBVIOUS
<1>1. \A c \in Conns : Batch(c) = {} /\ Confirming(c) = {}
  BY DEF Init, Batch, Confirming, Carries
<1>2. Fetched = {} /\ Tables = {} /\ Acknowledged = {}
  BY <1>1 DEF Init, DbInit, Fetched, InFlight, Tables, Acknowledged
<1> QED
  BY <1>1, <1>2
  DEF Init, DbInit, MailInv, RowsSpent, AtMostOnce, FetchedInOrder, UnsavedDeletes,
      NoSilentLoss, Tables

\* The steps of a thread towards its response, save the two that move mail and
\* those in which a database method raises: they may commit what was left open,
\* and their responses carry no mail.
LEMMA HandlerCarries ==
  ASSUME TypeOK, NEW c \in Conns,
         \/ handle_connection(c) \/ handle_error(c) \/ handle_register(c)
         \/ handle_register_add(c) \/ handle_register_print(c)
         \/ handle_list_clients(c) \/ handle_public_key_request(c)
  PROVE  /\ UNCHANGED history /\ nextRow' = nextRow /\ messages' = messages
         /\ disk'.messages \in {messages, disk.messages}
         /\ Batch(c) = {} /\ Batch(c)' = {} /\ Confirming(c)' = {}
         /\ \E stage : Goto(c, stage) /\ (UNCHANGED res \/ \E r : res' = [res EXCEPT ![c] = r])
<1>1. /\ UNCHANGED history /\ nextRow' = nextRow /\ messages' = messages
      /\ disk'.messages \in {messages, disk.messages}
  BY DEF handle_connection, recv_request, recv_invalid, handle_error, handle_register,
         handle_register_add, add_client, Commit, handle_register_print,
         handle_list_clients, handle_public_key_request, dbVars
<1>2. pc[c] # "replying"
  BY DEF handle_connection, recv_request, recv_invalid, handle_error, handle_register,
         handle_register_add, handle_register_print, handle_list_clients,
         handle_public_key_request, Handling
<1>3. \/ \E stage : stage # "replying" /\ Goto(c, stage) /\ UNCHANGED res
      \/ \E r : Respond(c, r) /\ r.code \notin {"MESSEGES", "SENT"}
  <2>1. CASE handle_connection(c)
    BY <2>1 DEF handle_connection, recv_request, recv_invalid, error_response
  <2>2. CASE handle_error(c) \/ handle_register(c)
    BY <2>2 DEF handle_error, handle_register, error_response
  <2>3. CASE handle_register_add(c) \/ handle_register_print(c) \/ handle_list_clients(c)
    BY <2>3 DEF handle_register_add, handle_register_print, handle_list_clients
  <2>4. CASE handle_public_key_request(c)
    <3>1. CASE Respond(c, error_response)
      BY <3>1 DEF error_response
    <3>2. ASSUME NEW u, Respond(c, [code |-> "PUBLIC_KEY", user |-> u])
          PROVE  \E r : Respond(c, r) /\ r.code \notin {"MESSEGES", "SENT"}
      BY <3>2
    <3> QED
      BY <2>4, <3>1, <3>2 DEF handle_public_key_request
  <2> QED
    BY <2>1, <2>2, <2>3, <2>4
<1>4. Batch(c)' = {} /\ Confirming(c)' = {}
  <2>1. ASSUME NEW stage, stage # "replying", Goto(c, stage), UNCHANGED res
        PROVE  Batch(c)' = {} /\ Confirming(c)' = {}
    BY <2>1 DEF Goto, Batch, Confirming, Carries, TypeOK, ThreadsTypeOK
  <2>2. ASSUME NEW r, Respond(c, r), r.code \notin {"MESSEGES", "SENT"}
        PROVE  Batch(c)' = {} /\ Confirming(c)' = {}
    BY <2>2, RespondCarries DEF TypeOK
  <2> QED
    BY <1>3, <2>1, <2>2
<1>5. \E stage : Goto(c, stage) /\ (UNCHANGED res \/ \E r : res' = [res EXCEPT ![c] = r])
  BY <1>3 DEF Respond
<1>6. Batch(c) = {}
  BY <1>2, IdleCarries
<1> QED
  BY <1>1, <1>4, <1>5, <1>6

LEMMA HandlerStep ==
  ASSUME TypeOK, MailInv, NEW c \in Conns,
         \/ handle_connection(c) \/ handle_error(c) \/ handle_register(c)
         \/ handle_register_add(c) \/ handle_register_print(c)
         \/ handle_list_clients(c) \/ handle_public_key_request(c)
  PROVE  MailInv'
<1>1. /\ UNCHANGED history /\ nextRow' = nextRow /\ messages' = messages
      /\ disk'.messages \in {messages, disk.messages}
  BY HandlerCarries
<1>2. Tables' \subseteq Tables /\ disk.messages \subseteq disk'.messages \cup dropped'
      /\ (disk.messages \ messages)' \subseteq dropped'
  BY <1>1 DEF Tables, MailInv, UnsavedDeletes, history
<1>3. UNCHANGED <<handed, acked, dropped>> /\ nextRow' \in Nat /\ nextRow <= nextRow'
  BY <1>1 DEF history, TypeOK, DbTypeOK
<1> QED
  BY <1>2, <1>3, HandlerCarries, Unrelated

\* A database method raises.  What a failed collection took off the connection's
\* table counts as dropped, though it may still be on disk.
LEMMA RaisesStep ==
  ASSUME TypeOK, MailInv, NEW c \in Conns, database_raises(c)
  PROVE  MailInv'
<1>1. Respond(c, error_response) /\ UNCHANGED <<handed, acked, enrolled>>
  BY DEF database_raises
<1>2. CASE Handling(c, "SEND_MESSEGE") /\ save_message_raises(Posted(c)) /\ UNCHANGED dropped
  BY <1>1, <1>2, SaveRaisesStep DEF history
<1>3. CASE ~ (Handling(c, "SEND_MESSEGE") /\ save_message_raises(Posted(c)))
  <2>1. nextRow' = nextRow /\ pc[c] # "replying"
    BY <1>3 DEF database_raises, retrieve_and_delete_raises, add_client_raises, select_raises, Handling
  <2>2. Batch(c) = {} /\ Batch(c)' = {} /\ Confirming(c)' = {}
    BY <1>1, <2>1, IdleCarries, RespondCarries DEF error_response, TypeOK
  <2>3. /\ Tables' \subseteq Tables /\ disk.messages \subseteq disk'.messages \cup dropped'
        /\ (disk.messages \ messages)' \subseteq dropped' /\ dropped \subseteq dropped'
    <3>1. CASE /\ retrieve_and_delete_raises(req[c].cid)
               /\ dropped' = dropped \cup (WaitingFor(req[c].cid) \ messages')
      BY <3>1 DEF retrieve_and_delete_raises, Raise, Reload, WaitingFor, Tables, MailInv,
                  UnsavedDeletes
    <3>2. CASE add_client_raises(user[c]) /\ UNCHANGED dropped
      BY <3>2 DEF add_client_raises, Raise, Reload, Tables, MailInv, UnsavedDeletes
    <3>3. CASE select_raises /\ UNCHANGED dropped
      BY <3>3 DEF select_raises, Reload, Tables, MailInv, UnsavedDeletes
    <3> QED
      BY <1>3, <3>1, <3>2, <3>3 DEF database_raises
  <2>4. nextRow' \in Nat /\ nextRow <= nextRow'
    BY <2>1 DEF TypeOK, DbTypeOK
  <2>5. Goto(c, "replying") /\ res' = [res EXCEPT ![c] = error_response]
    BY <1>1 DEF Respond
  <2> QED
    BY <1>1, <2>2, <2>3, <2>4, <2>5, Unrelated
<1>4. Handling(c, "SEND_MESSEGE") => UNCHANGED dropped
  BY DEF database_raises, Handling
<1> QED
  BY <1>2, <1>3, <1>4

\* The end of a response: a batch moves to handed or to dropped, and nowhere else.
LEMMA ReplyStep ==
  ASSUME TypeOK, MailInv, NEW c \in Conns,
         response_too_long(c) \/ send_response(c) \/ lose_response(c)
  PROVE  MailInv'
<1>1. /\ messages' = messages /\ disk' = disk
      /\ nextRow' \in Nat /\ nextRow <= nextRow'
  BY DEF response_too_long, send_response, lose_response, dbVars, TypeOK, DbTypeOK
<1>2. /\ Batch(c)' = {} /\ Confirming(c)' = {}
      /\ \A d \in Conns \ {c} : Batch(d)' = Batch(d) /\ Confirming(d)' = Confirming(d)
  BY RespondCarries, CloseCarries
  DEF response_too_long, send_response, lose_response, error_response, TypeOK
<1>3. \/ handed' = handed \cup Batch(c) /\ dropped' = dropped
      \/ handed' = handed /\ dropped' = dropped \cup Batch(c)
  BY DEF response_too_long, send_response, lose_response
<1>4. acked \subseteq acked' /\ acked' \subseteq acked \cup Confirming(c)
  BY DEF response_too_long, send_response, lose_response
<1>5. \A d \in Conns : Batch(d)' \cap handed' = {}
  BY <1>2, <1>3 DEF MailInv, AtMostOnce
<1>6. Acknowledged' \subseteq Acknowledged
  BY <1>2, <1>4 DEF Acknowledged
<1>7. handed' \subseteq Fetched /\ handed \subseteq handed' /\ dropped \subseteq dropped'
  BY <1>3 DEF Fetched, InFlight
<1>8. Fetched \subseteq Fetched' \cup dropped'
  BY <1>2, <1>3 DEF Fetched, InFlight
<1>9. \A d \in Conns : Batch(d)' \subseteq Batch(d)
  BY <1>2
<1>10. /\ Tables' \subseteq Tables
       /\ disk.messages \subseteq disk'.messages \cup dropped'
       /\ (disk.messages \ messages)' \subseteq dropped'
  BY <1>1, <1>7 DEF Tables, MailInv, UnsavedDeletes
<1> QED
  BY <1>1, <1>5, <1>6, <1>7, <1>8, <1>9, <1>10, NothingNew

\* A crash drops every response under way and rows that were never committed.
LEMMA ProcessStep ==
  ASSUME TypeOK, MailInv, crash \/ start \/ accept_raises \/ UNCHANGED vars
  PROVE  MailInv'
<1>1. \A d \in Conns : /\ Batch(d)' \subseteq Batch(d)
                       /\ Confirming(d)' \subseteq Confirming(d)
                       /\ Batch(d) \subseteq Batch(d)' \cup dropped'
  BY DEF crash, start, accept_raises, vars, threads, Batch, Confirming, Carries
<1>2. /\ UNCHANGED <<handed, acked>> /\ nextRow' = nextRow
      /\ dropped \subseteq dropped' /\ disk' = disk
      /\ messages' \in {messages, disk.messages}
  BY DEF crash, start, accept_raises, connect_and_init, Reload, vars, dbVars, history
<1>3. /\ Tables' \subseteq Tables
      /\ disk.messages \subseteq disk'.messages \cup dropped'
      /\ (disk.messages \ messages)' \subseteq dropped'
  BY <1>2 DEF Tables, MailInv, UnsavedDeletes
<1>4. \A d \in Conns : Batch(d)' \cap handed' = {}
  BY <1>1, <1>2 DEF MailInv, AtMostOnce
<1>5. Fetched \subseteq Fetched' \cup dropped' /\ handed' \subseteq Fetched
  BY <1>1, <1>2 DEF Fetched, InFlight
<1>6. Acknowledged' \subseteq Acknowledged
  BY <1>1, <1>2 DEF Acknowledged
<1>7. nextRow' \in Nat /\ nextRow <= nextRow'
  BY <1>2 DEF TypeOK, DbTypeOK
<1> QED
  BY <1>1, <1>2, <1>3, <1>4, <1>5, <1>6, <1>7, NothingNew

\* The invariant is inductive.
LEMMA MailNext == TypeOK /\ MailInv /\ [Next]_vars => MailInv'
<1> SUFFICES ASSUME TypeOK, MailInv, [Next]_vars PROVE MailInv'
  OBVIOUS
<1>1. TypeOK'
  BY NextType
<1>2. CASE \E c \in Conns : handle_connection(c) \/ handle_request(c)
  BY <1>1, <1>2, HandlerStep, SaveStep, CollectStep, RaisesStep, ReplyStep DEF handle_request
<1>3. CASE crash \/ start \/ accept_raises \/ UNCHANGED vars
  BY <1>3, ProcessStep
<1> QED
  BY <1>2, <1>3 DEF Next

\* It holds in every state.
LEMMA MailInvariant == Spec => []MailInv
<1>1. Spec => []TypeOK
  BY TypeCorrect
<1> QED
  BY <1>1, MailInit, MailNext, PTL DEF Spec

\* No message is handed to two clients' collections, or handed over and still
\* waiting: handle_pending_messeges reads and deletes under one lock and every
\* commit publishes both.
THEOREM DeliveredAtMostOnce == Spec => []AtMostOnce
<1>1. MailInv => AtMostOnce
  BY DEF MailInv
<1> QED
  BY <1>1, MailInvariant, PTL

\* A recipient's messages are collected in the order they were stored in.
THEOREM DeliveredInOrder == Spec => []FetchedInOrder
<1>1. MailInv => FetchedInOrder
  BY DEF MailInv
<1> QED
  BY <1>1, MailInvariant, PTL

\* What a sender was told is stored stays on disk until a collection fetches it.
THEOREM NothingLostSilently == Spec => []NoSilentLoss
<1>1. MailInv => NoSilentLoss
  BY DEF MailInv
<1> QED
  BY <1>1, MailInvariant, PTL
=============================================================================
