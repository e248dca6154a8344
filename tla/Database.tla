------------------------------ MODULE Database ------------------------------
(***************************************************************************)
(* The server's store (server/database.py): two SQLite tables reached      *)
(* through ONE connection that every handler thread shares.                *)
(*                                                                         *)
(* Each method of the class takes the class's lock around all its          *)
(* statements, so a method is one step here.  What a method cannot take    *)
(* for granted is COMMIT: when a statement or the commit raises, the       *)
(* exception leaves the method and nothing in the code rolls back.  The    *)
(* tables as the connection sees them (clients, messages) are therefore    *)
(* kept apart from what the file holds (disk), which is all that survives  *)
(* a crash of the process.                                                 *)
(*                                                                         *)
(* Names, keys and identifiers are opaque values.  A message keeps its     *)
(* sender, its recipient and a row number; its type and content are bytes  *)
(* the server only stores and copies.  SQLite numbers the rows of a table  *)
(* upwards and scans them in that order; it may reuse the number of a      *)
(* deleted row, which no query of the code can see, so a number that is    *)
(* never reused stands for the row and for the posting that created it.    *)
(***************************************************************************)
EXTENDS Naturals

CONSTANTS
  Ids,      \* uuid4 values (user.py:6)
  Names,    \* padded user names
  Keys      \* public keys

VARIABLES
  clients,  \* table clients, as the connection sees it
  messages, \* table messages, as the connection sees it
  disk,     \* both tables as last committed
  nextRow   \* number of the next row of table messages

dbVars == <<clients, messages, disk, nextRow>>

User == [id : Ids, username : Names, public_key : Keys]

Row == [rowid : Nat \ {0}, from : Ids, to : Ids]

DbTypeOK ==
  /\ clients \subseteq User
  /\ messages \subseteq Row
  /\ disk \in [clients : SUBSET User, messages : SUBSET Row]
  /\ nextRow \in Nat \ {0}

\* connect_and_init on a file that does not exist: two empty tables, committed.
DbInit ==
  /\ clients = {}
  /\ messages = {}
  /\ disk = [clients |-> {}, messages |-> {}]
  /\ nextRow = 1

-----------------------------------------------------------------------------
(* A writing method: its statements leave the tables as cs and ms. *)

Commit(cs, ms) ==
  /\ clients' = cs
  /\ messages' = ms
  /\ disk' = [clients |-> cs, messages |-> ms]

\* The tables go back to what the file holds.
Reload ==
  /\ clients' = disk.clients
  /\ messages' = disk.messages
  /\ UNCHANGED disk

\* A statement raised before it changed anything, or COMMIT raised and left
\* the transaction open for the next COMMIT to complete, or SQLite rolled the
\* transaction back by itself.
Raise(cs, ms) ==
  \/ UNCHANGED <<clients, messages, disk>>
  \/ clients' = cs /\ messages' = ms /\ UNCHANGED disk
  \/ Reload

\* Faulty variant: the insertion is never committed.
add_client_uncommitted(u) ==
  /\ clients' = clients \cup {u}
  /\ UNCHANGED <<messages, disk, nextRow>>

add_client(u) ==
  /\ Commit(clients \cup {u}, messages)
  /\ UNCHANGED nextRow

add_client_raises(u) ==
  /\ Raise(clients \cup {u}, messages)
  /\ UNCHANGED nextRow

\* Faulty variant: the insertion is never committed.
save_message_uncommitted(m) ==
  /\ messages' = messages \cup {m}
  /\ nextRow' = nextRow + 1
  /\ UNCHANGED <<clients, disk>>

save_message(m) ==
  /\ Commit(clients, messages \cup {m})
  /\ nextRow' = nextRow + 1

save_message_raises(m) ==
  /\ Raise(clients, messages \cup {m})
  /\ nextRow' = nextRow + 1

\* Faulty variant: ORDER BY rowid DESC LIMIT 1.
NewestFor(id) ==
  {m \in messages : m.to = id /\ \A n \in messages : n.to = id => n.rowid <= m.rowid}

WaitingFor(id) == {m \in messages : m.to = id}

\* Faulty variants: the deletion is never committed; DELETE without WHERE.
retrieve_and_delete_uncommitted(id) ==
  /\ messages' = messages \ WaitingFor(id)
  /\ UNCHANGED <<clients, disk, nextRow>>

retrieve_and_delete_everything(id) ==
  /\ Commit(clients, {})
  /\ UNCHANGED nextRow

\* SELECT, DELETE and COMMIT in one critical section.
retrieve_and_delete_all_waiting_messages(id) ==
  /\ Commit(clients, messages \ WaitingFor(id))
  /\ UNCHANGED nextRow

retrieve_and_delete_raises(id) ==
  /\ Raise(clients, messages \ WaitingFor(id))
  /\ UNCHANGED nextRow

\* Faulty variant: the test of the name is missing.
username_unchecked(name) == FALSE

username_exists(name) == \E u \in clients : u.username = name

get_public_key_of_user(id) == {u \in clients : u.id = id}

\* A reading method whose SELECT raises: SQLite may roll back what an earlier
\* method left open.
select_raises ==
  /\ UNCHANGED <<clients, messages, disk>> \/ Reload
  /\ UNCHANGED nextRow

\* A new process opens the file; CREATE TABLE IF NOT EXISTS keeps the rows.
connect_and_init ==
  /\ Reload
  /\ UNCHANGED nextRow

-----------------------------------------------------------------------------
\* The row of a message that is stored next.
NewRow(from, to) == [rowid |-> nextRow, from |-> from, to |-> to]

\* All that happens to the tables and the file.
DbNext ==
  \/ \E u \in User : add_client(u) \/ add_client_raises(u)
  \/ \E from, to \in Ids :
       save_message(NewRow(from, to)) \/ save_message_raises(NewRow(from, to))
  \/ \E id \in Ids :
       retrieve_and_delete_all_waiting_messages(id) \/ retrieve_and_delete_raises(id)
  \/ select_raises
  \/ connect_and_init

DbSpec == DbInit /\ [][DbNext]_dbVars
=============================================================================
