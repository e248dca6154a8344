----------------------------- MODULE KeyExchange -----------------------------
(***************************************************************************)
(* Registered clients that agree on symmetric keys and exchange texts and  *)
(* files (client/client.cpp, driven by client/main.cpp), around a server   *)
(* of which only the mailboxes are left.                                   *)
(*                                                                         *)
(* A client runs one command at a time and each command makes one call to  *)
(* the server, so a command is one step.  The exception is the collection  *)
(* of mail: its loop hands every message of the batch to handleMessage,    *)
(* which may throw, and is a step per message here.                        *)
(*                                                                         *)
(* The mailboxes are what module Server promises: posted messages in       *)
(* order, taken by one collection, which may lose them.  Names and         *)
(* identifiers are unique here, so a user stands for both; what is         *)
(* encrypted is its plaintext together with the secret that opens it.  A   *)
(* text of 2^32 bytes or more is cut before it is encrypted, which is the  *)
(* subject of module Collection and leaves the secret as it is.            *)
(* Registration and me.info are settled before: a client that restarts     *)
(* has its identity and its RSA key, and has forgotten its peers.          *)
(*                                                                         *)
(* asks and spoilt are history variables that no action reads.             *)
(***************************************************************************)
EXTENDS Integers, Sequences

CONSTANTS
  Users,      \* registered clients
  Secrets,    \* symmetric keys that AESWrapper may generate
  MaxPosts,   \* bound: messages posted in a behaviour
  Types,      \* message types the users of a model send
  MayFail,    \* calls may fail, clients may restart
  Acquainted, \* the clients have listed each other and have the public keys
  NoThing     \* "not set"

MessageTypes == {"KEY_REQUEST", "KEY_SEND", "TEXT", "FILE"}

\* What a client knows of another that it has listed.
Peer == [public : BOOLEAN, secret : Secrets \cup {NoThing}, asked : BOOLEAN]

ASSUME KeyExchangeAssumption ==
  /\ MaxPosts \in Nat
  /\ Types \subseteq MessageTypes
  /\ MayFail \in BOOLEAN
  /\ Acquainted \in BOOLEAN
  /\ NoThing \notin Secrets \cup Peer

VARIABLES
  peers,      \* what each client knows of every other
  mailbox,    \* messages waiting at the server for each client
  batch,      \* the rest of the collection each client is parsing
  parsed,     \* messages parsed, to be printed when the batch is through
  posted,     \* number of messages posted
  made,       \* for each secret the two users it was generated for
  asks,       \* requests for a key less keys accepted, per client and peer
  spoilt      \* pairs of users whose key exchange has gone wrong

history == <<asks, spoilt>>
vars == <<peers, mailbox, batch, parsed, posted, made, history>>

\* Faulty variant: the key buffer of a new peer is not marked as unset.
unmarked_peer == [public |-> FALSE, secret |-> 0, asked |-> FALSE]

new_peer == [public |-> FALSE, secret |-> NoThing, asked |-> FALSE]

\* The content of a key message is a secret; a text or a file carries the
\* secret it was encrypted with.
Message == [type : MessageTypes, from : Users, secret : Secrets \cup {NoThing}]

Pair(u, v) == {u, v}

TypeOK ==
  /\ peers \in [Users -> [Users -> Peer \cup {NoThing}]]
  /\ mailbox \in [Users -> Seq(Message)]
  /\ batch \in [Users -> Seq(Message)]
  /\ parsed \in [Users -> Seq(Message)]
  /\ posted \in 0..MaxPosts
  /\ made \in [Secrets -> SUBSET Users]
  /\ asks \in [Users -> [Users -> Int]]
  /\ spoilt \subseteq SUBSET Users

Init ==
  /\ peers = [u \in Users |-> [v \in Users |->
       IF Acquainted /\ u # v THEN [new_peer EXCEPT !.public = TRUE] ELSE NoThing]]
  /\ mailbox = [u \in Users |-> <<>>]
  /\ batch = [u \in Users |-> <<>>]
  /\ parsed = [u \in Users |-> <<>>]
  /\ posted = 0
  /\ made = [k \in Secrets |-> {}]
  /\ asks = [u \in Users |-> [v \in Users |-> 0]]
  /\ spoilt = {}

-----------------------------------------------------------------------------
(* Helpers. *)

is_peer_known(u, v) == peers[u][v] # NoThing

HasSecret(u, v) == is_peer_known(u, v) /\ peers[u][v].secret # NoThing

\* The client is at its prompt: the last collection is through.
AtPrompt(u) == batch[u] = <<>> /\ parsed[u] = <<>>

\* Everything on its way to u, oldest first, and the positions of what v has sent.
Waiting(u) == batch[u] \o mailbox[u]

From(u, v) == {i \in DOMAIN Waiting(u) : Waiting(u)[i].from = v}

TypesFrom(u, v) == {Waiting(u)[i].type : i \in From(u, v)}

\* The other user of each key message in s, all of them addressed to u.
KeyPairs(u, s) == {Pair(u, s[i].from) : i \in {j \in DOMAIN s : s[j].type = "KEY_SEND"}}

\* AESWrapper() draws a key, one that no two peers have.
GenerateKey == {k \in Secrets : made[k] = {}}

\* What is encrypted opens with its key: a key message with the RSA key of the
\* user it is addressed to, a text with the secret it was encrypted with.
encrypt_key(u, k) == [type |-> "KEY_SEND", from |-> u, secret |-> k]

decrypt_key(m) == m.secret

encrypt_text(u, k, type) == [type |-> type, from |-> u, secret |-> k]

Decrypts(k, m) == k = m.secret

\* sendMessage: the server stores the message, or the call fails before.
Stored(v, m) == mailbox' = [mailbox EXCEPT ![v] = Append(@, m)]

NotStored == MayFail /\ UNCHANGED mailbox

\* What a client sends before it has collected a key its peer has sent, or a
\* key it makes while its peer's texts wait, does not fit what the peer does.
Crosses(u, v, type) ==
  LET waiting == TypesFrom(u, v)
  IN  \/ type # "KEY_REQUEST" /\ "KEY_SEND" \in waiting
      \/ type = "KEY_SEND" /\ waiting \cap {"TEXT", "FILE"} # {}

CanPost(u, v, type) ==
  /\ AtPrompt(u)
  /\ u # v
  /\ is_peer_known(u, v)
  /\ type \in Types
  /\ posted < MaxPosts
  /\ posted' = posted + 1

-----------------------------------------------------------------------------
(* Commands. *)

\* Every other user is listed; a peer that is known is kept as it is.
getPeers(u) ==
  /\ AtPrompt(u)
  /\ peers' = [peers EXCEPT ![u] = [v \in Users |->
       IF v = u \/ is_peer_known(u, v) THEN peers[u][v] ELSE new_peer]]
  /\ UNCHANGED <<mailbox, batch, parsed, posted, made, history>>

requestPublicKey(u, v) ==
  /\ AtPrompt(u)
  /\ is_peer_known(u, v)
  /\ peers' = [peers EXCEPT ![u][v].public = TRUE]
  /\ UNCHANGED <<mailbox, batch, parsed, posted, made, history>>

\* The flag is set before the message is sent, and stays set if that fails.
sendSymmetricKeyReqMessage(u, v) ==
  /\ CanPost(u, v, "KEY_REQUEST")
  /\ peers' = [peers EXCEPT ![u][v].asked = TRUE]
  /\ Stored(v, [type |-> "KEY_REQUEST", from |-> u, secret |-> NoThing]) \/ NotStored
  /\ asks' = [asks EXCEPT ![u][v] = @ + 1]
  /\ UNCHANGED <<batch, parsed, made, spoilt>>

\* Faulty variant: the new secret is set in the copy of the peer only.
set_in_copy(u, v, k) == UNCHANGED peers

setSymmetricKey(u, v, k) == peers' = [peers EXCEPT ![u][v].secret = k]

\* The secret replaces the old one before it is sent, and stays if that fails.
sendSymmetricKeyMessage(u, v) ==
  /\ CanPost(u, v, "KEY_SEND")
  /\ peers[u][v].public
  /\ \E k \in GenerateKey :
       /\ made' = [made EXCEPT ![k] = Pair(u, v)]
       /\ setSymmetricKey(u, v, k)
       /\ \/ /\ Stored(v, encrypt_key(u, k))
             /\ spoilt' = spoilt \cup (IF Crosses(u, v, "KEY_SEND") THEN {Pair(u, v)} ELSE {})
          \/ /\ NotStored
             /\ spoilt' = spoilt \cup {Pair(u, v)}
  /\ UNCHANGED <<batch, parsed, asks>>

\* A text, or with type "FILE" the content of a file.
sendTextMessage(u, v, type) ==
  /\ CanPost(u, v, type)
  /\ type \in {"TEXT", "FILE"}
  /\ HasSecret(u, v)
  /\ Stored(v, encrypt_text(u, peers[u][v].secret, type))
  /\ spoilt' = spoilt \cup (IF Crosses(u, v, type) THEN {Pair(u, v)} ELSE {})
  /\ UNCHANGED <<peers, batch, parsed, made, asks>>

\* The server empties the mailbox, and the response arrives or is lost.
requestPendingMessages(u) ==
  /\ AtPrompt(u)
  /\ mailbox[u] # <<>>
  /\ mailbox' = [mailbox EXCEPT ![u] = <<>>]
  /\ \/ batch' = [batch EXCEPT ![u] = mailbox[u]] /\ UNCHANGED spoilt
     \/ /\ MayFail
        /\ spoilt' = spoilt \cup KeyPairs(u, mailbox[u])
        /\ UNCHANGED batch
  /\ UNCHANGED <<peers, parsed, posted, made, asks>>

-----------------------------------------------------------------------------
(* handleMessage, on the first message of the batch. *)

Next_in_batch(u, m) == batch[u] # <<>> /\ m = Head(batch[u])

Display(u, m) ==
  /\ batch' = [batch EXCEPT ![u] = Tail(@)]
  /\ parsed' = [parsed EXCEPT ![u] = Append(@, m)]

Drop(u) ==
  /\ batch' = [batch EXCEPT ![u] = Tail(@)]
  /\ UNCHANGED parsed

\* The exception leaves requestPendingMessages: the rest of the batch is lost,
\* and with the vector of the caller everything parsed before.
Throw(u) ==
  /\ batch' = [batch EXCEPT ![u] = <<>>]
  /\ parsed' = [parsed EXCEPT ![u] = <<>>]
  /\ spoilt' = spoilt \cup KeyPairs(u, Tail(batch[u]))

handle_unknown(u) ==
  /\ \E m \in Message :
       /\ Next_in_batch(u, m)
       /\ m.type # "KEY_REQUEST"
       /\ ~ is_peer_known(u, m.from)
       /\ Drop(u)
       /\ spoilt' = spoilt \cup KeyPairs(u, <<m>>)
  /\ UNCHANGED <<peers, mailbox, posted, made, asks>>

handle_key_request(u) ==
  /\ \E m \in Message :
       /\ Next_in_batch(u, m)
       /\ m.type = "KEY_REQUEST"
       /\ Display(u, m)
  /\ UNCHANGED <<peers, mailbox, posted, made, history>>

\* Faulty variants: a secret that is set is not replaced; the secret goes to
\* some peer, as if identifiers were compared by their first byte.
accept_first(u, v, k) ==
  peers' = [peers EXCEPT ![u][v].secret = IF @ = NoThing THEN k ELSE @]

accept_for_some(u, v, k) ==
  \E w \in Users : is_peer_known(u, w) /\ peers' = [peers EXCEPT ![u][w].secret = k]

Accept(u, v, k) == peers' = [peers EXCEPT ![u][v].secret = k]

handle_key(u) ==
  /\ \E m \in Message :
       /\ Next_in_batch(u, m)
       /\ m.type = "KEY_SEND"
       /\ is_peer_known(u, m.from)
       /\ IF peers[u][m.from].asked
          THEN /\ Accept(u, m.from, decrypt_key(m))
               /\ Display(u, m)
               /\ asks' = [asks EXCEPT ![u][m.from] = @ - 1]
               /\ UNCHANGED spoilt
          ELSE /\ Drop(u)
               /\ spoilt' = spoilt \cup {Pair(u, m.from)}
               /\ UNCHANGED <<peers, asks>>
  /\ UNCHANGED <<mailbox, posted, made>>

\* "can't decrypt message" is assigned to a string that is never printed.
handle_undecryptable(u) ==
  /\ \E m \in Message :
       /\ Next_in_batch(u, m)
       /\ m.type \in {"TEXT", "FILE"}
       /\ is_peer_known(u, m.from)
       /\ ~ HasSecret(u, m.from)
       /\ Drop(u)
  /\ UNCHANGED <<peers, mailbox, posted, made, asks, spoilt>>

\* The secret fits, and the text is shown.  A file that does not open is dropped,
\* with an error message; if there is no directory for it, temp_directory_path
\* throws what handleMessage does not catch.
handle_text(u) ==
  /\ \E m \in Message :
       /\ Next_in_batch(u, m)
       /\ m.type \in {"TEXT", "FILE"}
       /\ HasSecret(u, m.from)
       /\ Decrypts(peers[u][m.from].secret, m)
       /\ \/ Display(u, m) /\ UNCHANGED spoilt
          \/ m.type = "FILE" /\ Drop(u) /\ UNCHANGED spoilt
          \/ m.type = "FILE" /\ Throw(u)
  /\ UNCHANGED <<peers, mailbox, posted, made, asks>>

\* It does not fit: the padding is wrong and decrypt throws, or happens to be
\* right and what is shown is noise.
handle_text_of_other_key(u) ==
  /\ \E m \in Message :
       /\ Next_in_batch(u, m)
       /\ m.type \in {"TEXT", "FILE"}
       /\ HasSecret(u, m.from)
       /\ ~ Decrypts(peers[u][m.from].secret, m)
       /\ Throw(u) \/ (Display(u, m) /\ UNCHANGED spoilt)
  /\ UNCHANGED <<peers, mailbox, posted, made, asks>>

\* The loop is through and the command prints the messages.
print_messages(u) ==
  /\ batch[u] = <<>>
  /\ parsed[u] # <<>>
  /\ parsed' = [parsed EXCEPT ![u] = <<>>]
  /\ UNCHANGED <<peers, mailbox, batch, posted, made, history>>

\* The client ends, at its prompt or within a collection, and starts again.
restart(u) ==
  /\ MayFail
  /\ peers' = [peers EXCEPT ![u] = [v \in Users |-> NoThing]]
  /\ batch' = [batch EXCEPT ![u] = <<>>]
  /\ parsed' = [parsed EXCEPT ![u] = <<>>]
  /\ spoilt' = spoilt \cup KeyPairs(u, batch[u])
                      \cup {Pair(u, v) : v \in {w \in Users : HasSecret(u, w)}}
  /\ asks' = [asks EXCEPT ![u] = [v \in Users |-> 0]]
  /\ UNCHANGED <<mailbox, posted, made>>

-----------------------------------------------------------------------------
handle_command(u) ==
  \/ getPeers(u)
  \/ \E v \in Users :
       \/ requestPublicKey(u, v)
       \/ sendSymmetricKeyReqMessage(u, v)
       \/ sendSymmetricKeyMessage(u, v)
       \/ \E type \in Types : sendTextMessage(u, v, type)
  \/ requestPendingMessages(u)

handleMessage(u) ==
  \/ handle_unknown(u)
  \/ handle_key_request(u)
  \/ handle_key(u)
  \/ handle_undecryptable(u)
  \/ handle_text(u)
  \/ handle_text_of_other_key(u)
  \/ print_messages(u)

Next == \E u \in Users : handle_command(u) \/ handleMessage(u) \/ restart(u)

Spec == Init /\ [][Next]_vars

-----------------------------------------------------------------------------
(* Properties. *)

Secret(u, v) == IF is_peer_known(u, v) THEN peers[u][v].secret ELSE NoThing

\* Positions of the keys that v has sent and that u reaches before position i.
KeysBefore(u, v, i) == {j \in From(u, v) : j < i /\ Waiting(u)[j].type = "KEY_SEND"}

\* The secret u will have for v when it reaches position i of what waits for it.
SecretAt(u, v, i) ==
  LET keys == KeysBefore(u, v, i)
  IN  IF keys = {} THEN Secret(u, v)
      ELSE Waiting(u)[CHOOSE j \in keys : \A k \in keys : k <= j].secret

\* As long as two users collect their mail before they send keys or texts, and
\* no key message is lost or dropped, each opens every text of the other: when
\* it comes to the text among its mail it has the secret the text needs.
TextsReadable ==
  \A u, v \in Users : Pair(u, v) \notin spoilt =>
    \A i \in From(u, v) :
      Waiting(u)[i].type \in {"TEXT", "FILE"} => Waiting(u)[i].secret = SecretAt(u, v, i)

\* Under the same conditions they hold the same secret once each has handled
\* what the other has sent.
KeysAgree ==
  \A u, v \in Users :
    /\ u # v
    /\ Pair(u, v) \notin spoilt
    /\ "KEY_SEND" \notin TypesFrom(u, v) \cup TypesFrom(v, u)
    => Secret(u, v) = Secret(v, u)

\* Whatever is lost, crosses or goes wrong: the secret a client uses with a
\* peer was generated by one of the two for the two of them.
SecretsOfThePair ==
  \A u, v \in Users : HasSecret(u, v) => made[peers[u][v].secret] = Pair(u, v)

\* The rule of client.cpp:228: a key that was not asked for is dropped.
UnaskedKeysDropped == \A u, v \in Users : asks[u][v] >= 0
=============================================================================
