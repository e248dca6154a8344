-------------------------- MODULE KeyExchangeProofs --------------------------
(***************************************************************************)
(* Theorems about KeyExchange, for every number of users and secrets and   *)
(* every bound on the messages.                                            *)
(*                                                                         *)
(* That a secret stays with the pair it was made for is not inductive as   *)
(* it stands: between the two clients that hold it the secret is in a      *)
(* message, in a mailbox or in a batch.  KeysInv adds those.               *)
(***************************************************************************)
EXTENDS KeyExchange, SequenceTheorems, TLAPS

\* By the record mk of what secrets were made for, every key among the messages s
\* that are for u was made for u and its sender.
KeysFor(mk, u, s) ==
  \A i \in DOMAIN s : s[i].type = "KEY_SEND" =>
    s[i].secret \in Secrets /\ mk[s[i].secret] = Pair(u, s[i].from)

KeysInv ==
  /\ SecretsOfThePair
  /\ \A u \in Users : KeysFor(made, u, mailbox[u]) /\ KeysFor(made, u, batch[u])

(***************************************************************************)
(* Type correctness.                                                       *)
(***************************************************************************)

LEMMA InitType == Init => TypeOK
<1> SUFFICES ASSUME Init PROVE TypeOK
  OBVIOUS
<1>1. peers \in [Users -> [Users -> Peer \cup {NoThing}]]
  BY DEF Init, new_peer, Peer
<1>2. \A u \in Users : mailbox[u] = <<>> /\ batch[u] = <<>> /\ parsed[u] = <<>>
  BY DEF Init
<1>3. mailbox \in [Users -> Seq(Message)] /\ batch \in [Users -> Seq(Message)]
      /\ parsed \in [Users -> Seq(Message)]
  BY <1>2 DEF Init
<1>4. posted \in 0..MaxPosts
  BY KeyExchangeAssumption DEF Init
<1>5. made \in [Secrets -> SUBSET Users] /\ asks \in [Users -> [Users -> Int]]
  BY DEF Init
<1> QED
  BY <1>1, <1>3, <1>4, <1>5 DEF Init, TypeOK

\* The type of everything but peers; spoilt is a set of pairs.
LEMMA PairType ==
  ASSUME NEW u \in Users, NEW v \in Users
  PROVE  Pair(u, v) \in SUBSET Users
BY DEF Pair

LEMMA KeyPairsType ==
  ASSUME NEW u \in Users, NEW s \in Seq(Message)
  PROVE  KeyPairs(u, s) \subseteq SUBSET Users
<1> SUFFICES ASSUME NEW i \in DOMAIN s PROVE Pair(u, s[i].from) \in SUBSET Users
  BY DEF KeyPairs
<1>1. s[i] \in Message
  OBVIOUS
<1> QED
  BY <1>1, PairType DEF Message

\* A message that is stored is appended to one mailbox.
LEMMA StoredType ==
  ASSUME TypeOK, NEW v \in Users, NEW m \in Message, Stored(v, m) \/ NotStored
  PROVE  mailbox' \in [Users -> Seq(Message)]
<1>1. Append(mailbox[v], m) \in Seq(Message)
  BY DEF TypeOK
<1> QED
  BY <1>1 DEF TypeOK, Stored, NotStored

\* What is known of one peer is replaced.
LEMMA PeersType ==
  ASSUME TypeOK, NEW u \in Users, NEW v \in Users, NEW p \in Peer,
         peers' = [peers EXCEPT ![u][v] = p]
  PROVE  peers' \in [Users -> [Users -> Peer \cup {NoThing}]]
<1>1. [peers[u] EXCEPT ![v] = p] \in [Users -> Peer \cup {NoThing}]
  BY DEF TypeOK
<1> QED
  BY <1>1 DEF TypeOK

\* What is known of a peer, and stays known when a field of it changes.
LEMMA KnownType ==
  ASSUME TypeOK, NEW u \in Users, NEW v \in Users, is_peer_known(u, v)
  PROVE  /\ peers[u][v] \in Peer
         /\ [peers[u][v] EXCEPT !.public = TRUE] \in Peer
         /\ [peers[u][v] EXCEPT !.asked = TRUE] \in Peer
         /\ \A k \in Secrets \cup {NoThing} : [peers[u][v] EXCEPT !.secret = k] \in Peer
<1>1. peers[u][v] \in Peer
  BY DEF TypeOK, is_peer_known
<1> QED
  BY <1>1 DEF Peer

LEMMA PostType ==
  ASSUME TypeOK, NEW u, NEW v, NEW type, CanPost(u, v, type)
  PROVE  posted' \in 0..MaxPosts
BY KeyExchangeAssumption DEF TypeOK, CanPost

LEMMA NextType == TypeOK /\ [Next]_vars => TypeOK'
<1> SUFFICES ASSUME TypeOK, [Next]_vars PROVE TypeOK'
  OBVIOUS
<1> USE DEF TypeOK, history
<1>1. ASSUME NEW u \in Users, getPeers(u) PROVE TypeOK'
  <2>1. peers' \in [Users -> [Users -> Peer \cup {NoThing}]]
    BY <1>1 DEF getPeers, new_peer, Peer, is_peer_known
  <2> QED
    BY <1>1, <2>1 DEF getPeers
<1>2. ASSUME NEW u \in Users, NEW v \in Users, requestPublicKey(u, v) PROVE TypeOK'
  <2>1. [peers[u][v] EXCEPT !.public = TRUE] \in Peer
    BY <1>2, KnownType DEF requestPublicKey
  <2>2. peers' \in [Users -> [Users -> Peer \cup {NoThing}]]
    BY <1>2, <2>1, PeersType DEF requestPublicKey
  <2> QED
    BY <1>2, <2>2 DEF requestPublicKey
<1>3. ASSUME NEW u \in Users, NEW v \in Users, sendSymmetricKeyReqMessage(u, v) PROVE TypeOK'
  <2> DEFINE p == [peers[u][v] EXCEPT !.asked = TRUE]
  <2>5. p \in Peer
    BY <1>3, KnownType DEF sendSymmetricKeyReqMessage, CanPost
  <2>1. peers' \in [Users -> [Users -> Peer \cup {NoThing}]]
    BY <1>3, <2>5, PeersType DEF sendSymmetricKeyReqMessage
  <2>2. [type |-> "KEY_REQUEST", from |-> u, secret |-> NoThing] \in Message
    BY DEF Message, MessageTypes
  <2>3. mailbox' \in [Users -> Seq(Message)]
    BY <1>3, <2>2, StoredType DEF sendSymmetricKeyReqMessage
  <2>4. posted' \in 0..MaxPosts
    BY <1>3, PostType DEF sendSymmetricKeyReqMessage
  <2> QED
    BY <1>3, <2>1, <2>3, <2>4 DEF sendSymmetricKeyReqMessage
<1>4. ASSUME NEW u \in Users, NEW v \in Users, sendSymmetricKeyMessage(u, v) PROVE TypeOK'
  <2>1. PICK k \in Secrets :
          /\ made' = [made EXCEPT ![k] = Pair(u, v)]
          /\ setSymmetricKey(u, v, k)
          /\ Stored(v, [type |-> "KEY_SEND", from |-> u, secret |-> k]) \/ NotStored
          /\ spoilt' \subseteq spoilt \cup {Pair(u, v)}
    BY <1>4 DEF sendSymmetricKeyMessage, GenerateKey, encrypt_key
  <2> DEFINE p == [peers[u][v] EXCEPT !.secret = k]
  <2>7. p \in Peer
    BY <1>4, KnownType DEF sendSymmetricKeyMessage, CanPost
  <2>2. peers' \in [Users -> [Users -> Peer \cup {NoThing}]]
    BY <2>1, <2>7, PeersType DEF setSymmetricKey
  <2>3. [type |-> "KEY_SEND", from |-> u, secret |-> k] \in Message
    BY DEF Message, MessageTypes
  <2>4. mailbox' \in [Users -> Seq(Message)]
    BY <2>1, <2>3, StoredType
  <2>5. posted' \in 0..MaxPosts
    BY <1>4, PostType DEF sendSymmetricKeyMessage, GenerateKey, encrypt_key
  <2>6. made' \in [Secrets -> SUBSET Users] /\ spoilt' \subseteq SUBSET Users
    <3>1. Pair(u, v) \in SUBSET Users
      BY PairType
    <3> QED
      BY <2>1, <3>1
  <2> QED
    BY <1>4, <2>2, <2>4, <2>5, <2>6 DEF sendSymmetricKeyMessage, GenerateKey, encrypt_key
<1>5. ASSUME NEW u \in Users, NEW v \in Users, NEW type \in Types, sendTextMessage(u, v, type)
      PROVE TypeOK'
  <2>1. [type |-> type, from |-> u, secret |-> peers[u][v].secret] \in Message
    BY <1>5 DEF sendTextMessage, HasSecret, is_peer_known, Peer, Message, MessageTypes
  <2>2. mailbox' \in [Users -> Seq(Message)]
    BY <1>5, <2>1, StoredType DEF sendTextMessage, encrypt_text
  <2>3. posted' \in 0..MaxPosts
    BY <1>5, PostType DEF sendTextMessage, encrypt_text
  <2>4. spoilt' \subseteq SUBSET Users
    BY <1>5, PairType DEF sendTextMessage, encrypt_text
  <2> QED
    BY <1>5, <2>2, <2>3, <2>4 DEF sendTextMessage, encrypt_text
<1>6. ASSUME NEW u \in Users, requestPendingMessages(u) PROVE TypeOK'
  <2>1. mailbox' \in [Users -> Seq(Message)] /\ batch' \in [Users -> Seq(Message)]
    <3>1. <<>> \in Seq(Message) /\ mailbox[u] \in Seq(Message)
      OBVIOUS
    <3> QED
      BY <1>6, <3>1 DEF requestPendingMessages
  <2>2. spoilt' \subseteq SUBSET Users
    BY <1>6, KeyPairsType DEF requestPendingMessages
  <2> QED
    BY <1>6, <2>1, <2>2 DEF requestPendingMessages
<1>7. ASSUME NEW u \in Users, NEW m \in Message, Next_in_batch(u, m)
      PROVE  /\ Tail(batch[u]) \in Seq(Message)
             /\ Append(parsed[u], m) \in Seq(Message)
             /\ <<>> \in Seq(Message)
             /\ Pair(u, m.from) \in SUBSET Users
             /\ KeyPairs(u, Tail(batch[u])) \subseteq SUBSET Users
             /\ KeyPairs(u, <<m>>) \subseteq SUBSET Users
  <2>1. Tail(batch[u]) \in Seq(Message) /\ <<m>> \in Seq(Message) /\ <<>> \in Seq(Message)
        /\ Append(parsed[u], m) \in Seq(Message)
    BY <1>7 DEF Next_in_batch
  <2>2. Pair(u, m.from) \in SUBSET Users
    BY PairType DEF Message
  <2> QED
    BY <2>1, <2>2, KeyPairsType
<1>8. ASSUME NEW u \in Users, handle_unknown(u) PROVE TypeOK'
  BY <1>7, <1>8 DEF handle_unknown, Drop
<1>9. ASSUME NEW u \in Users, handle_key_request(u) PROVE TypeOK'
  <2>1. PICK m \in Message : Next_in_batch(u, m) /\ Display(u, m)
    BY <1>9 DEF handle_key_request
  <2>2. Tail(batch[u]) \in Seq(Message) /\ Append(parsed[u], m) \in Seq(Message)
    BY <1>7, <2>1
  <2> QED
    BY <1>9, <2>1, <2>2 DEF handle_key_request, Display
<1>10. ASSUME NEW u \in Users, handle_key(u) PROVE TypeOK'
  <2>1. PICK m \in Message :
          /\ Next_in_batch(u, m)
          /\ m.type = "KEY_SEND"
          /\ is_peer_known(u, m.from)
          /\ IF peers[u][m.from].asked
             THEN /\ Accept(u, m.from, m.secret)
                  /\ Display(u, m)
                  /\ asks' = [asks EXCEPT ![u][m.from] = @ - 1]
                  /\ UNCHANGED spoilt
             ELSE /\ Drop(u)
                  /\ spoilt' = spoilt \cup {Pair(u, m.from)}
                  /\ UNCHANGED <<peers, asks>>
    BY <1>10 DEF handle_key, decrypt_key
  <2>2. /\ Tail(batch[u]) \in Seq(Message)
        /\ Append(parsed[u], m) \in Seq(Message)
        /\ Pair(u, m.from) \in SUBSET Users
        /\ m.from \in Users
        /\ m.secret \in Secrets \cup {NoThing}
    BY <1>7, <2>1 DEF Message
  <2>3. CASE peers[u][m.from].asked
    <3> DEFINE p == [peers[u][m.from] EXCEPT !.secret = m.secret]
    <3>1. p \in Peer
      BY <2>1, <2>2, KnownType
    <3>2. peers' \in [Users -> [Users -> Peer \cup {NoThing}]]
      BY <2>1, <2>2, <2>3, <3>1, PeersType DEF Accept
    <3>3. [asks[u] EXCEPT ![m.from] = @ - 1] \in [Users -> Int]
      BY <2>2
    <3>4. asks' \in [Users -> [Users -> Int]]
      BY <2>1, <2>2, <2>3, <3>3
    <3> HIDE DEF p
    <3>5. Display(u, m) /\ UNCHANGED spoilt
      BY <2>1, <2>3
    <3>6. /\ batch' \in [Users -> Seq(Message)] /\ parsed' \in [Users -> Seq(Message)]
      BY <2>2, <3>5 DEF Display, TypeOK
    <3> QED
      BY <1>10, <3>2, <3>4, <3>5, <3>6 DEF handle_key, TypeOK
  <2>4. CASE ~ peers[u][m.from].asked
    BY <1>10, <2>1, <2>2, <2>4 DEF handle_key, Drop
  <2> QED
    BY <2>3, <2>4
<1>11. ASSUME NEW u \in Users, handle_undecryptable(u) PROVE TypeOK'
  <2>1. PICK m \in Message : Next_in_batch(u, m) /\ Drop(u)
    BY <1>11 DEF handle_undecryptable
  <2>2. Tail(batch[u]) \in Seq(Message)
    BY <1>7, <2>1
  <2> QED
    BY <1>11, <2>1, <2>2 DEF handle_undecryptable, Drop
<1>12. ASSUME NEW u \in Users, handle_text(u) \/ handle_text_of_other_key(u) PROVE TypeOK'
  <2>1. PICK m \in Message :
          /\ Next_in_batch(u, m)
          /\ \/ (Display(u, m) \/ Drop(u)) /\ UNCHANGED spoilt
             \/ Throw(u)
    BY <1>12 DEF handle_text, handle_text_of_other_key
  <2>2. /\ Tail(batch[u]) \in Seq(Message)
        /\ Append(parsed[u], m) \in Seq(Message)
        /\ <<>> \in Seq(Message)
        /\ KeyPairs(u, Tail(batch[u])) \subseteq SUBSET Users
    BY <1>7, <2>1
  <2>3. UNCHANGED <<peers, mailbox, posted, made, asks>>
    BY <1>12 DEF handle_text, handle_text_of_other_key
  <2>4. /\ batch' \in [Users -> Seq(Message)] /\ parsed' \in [Users -> Seq(Message)]
        /\ spoilt' \subseteq SUBSET Users
    <3>1. CASE Display(u, m) /\ UNCHANGED spoilt
      BY <2>2, <3>1 DEF Display
    <3>2. CASE Drop(u) /\ UNCHANGED spoilt
      BY <2>2, <3>2 DEF Drop
    <3>3. CASE Throw(u)
      BY <2>2, <3>3 DEF Throw
    <3> QED
      BY <2>1, <3>1, <3>2, <3>3
  <2> QED
    BY <2>3, <2>4
<1>13. ASSUME NEW u \in Users, print_messages(u) PROVE TypeOK'
  <2>1. <<>> \in Seq(Message)
    OBVIOUS
  <2> QED
    BY <1>13, <2>1 DEF print_messages
<1>14. ASSUME NEW u \in Users, restart(u) PROVE TypeOK'
  <2>1. <<>> \in Seq(Message) /\ KeyPairs(u, batch[u]) \subseteq SUBSET Users
        /\ \A v \in Users : Pair(u, v) \in SUBSET Users
    BY KeyPairsType, PairType
  <2>2. batch' \in [Users -> Seq(Message)] /\ parsed' \in [Users -> Seq(Message)]
    BY <1>14, <2>1 DEF restart
  <2>3. spoilt' \subseteq SUBSET Users
    BY <1>14, <2>1 DEF restart
  <2>4. peers' \in [Users -> [Users -> Peer \cup {NoThing}]] /\ asks' \in [Users -> [Users -> Int]]
    BY <1>14 DEF restart
  <2> QED
    BY <1>14, <2>2, <2>3, <2>4 DEF restart
<1>15. CASE UNCHANGED vars
  BY <1>15 DEF vars
<1> QED
  BY <1>1, <1>2, <1>3, <1>4, <1>5, <1>6, <1>8, <1>9, <1>10, <1>11, <1>12, <1>13, <1>14, <1>15
  DEF Next, handle_command, handleMessage

\* Whatever clients do, fail and restart, the state stays well formed.
THEOREM TypeCorrect == Spec => []TypeOK
BY InitType, NextType, PTL DEF Spec

(***************************************************************************)
(* Secrets.                                                                *)
(***************************************************************************)

LEMMA InitKeys == Init => KeysInv
<1> SUFFICES ASSUME Init PROVE KeysInv
  OBVIOUS
<1>1. \A u, v \in Users : ~ HasSecret(u, v)
  BY DEF Init, HasSecret, is_peer_known, new_peer
<1>2. ASSUME NEW u \in Users PROVE mailbox[u] = <<>> /\ batch[u] = <<>>
  BY DEF Init
<1>3. ASSUME NEW u \in Users PROVE KeysFor(made, u, <<>>)
  BY DEF KeysFor
<1> QED
  BY <1>1, <1>2, <1>3 DEF KeysInv, SecretsOfThePair

\* A sequence without the first message, and with one more.
LEMMA KeysTail ==
  ASSUME NEW mk, NEW u, NEW s \in Seq(Message), s # <<>>, KeysFor(mk, u, s)
  PROVE  KeysFor(mk, u, Tail(s))
BY DEF KeysFor

LEMMA KeysAppend ==
  ASSUME NEW mk, NEW u, NEW s \in Seq(Message), NEW m \in Message, KeysFor(mk, u, s),
         m.type = "KEY_SEND" => m.secret \in Secrets /\ mk[m.secret] = Pair(u, m.from)
  PROVE  KeysFor(mk, u, Append(s, m))
<1> SUFFICES ASSUME NEW i \in DOMAIN Append(s, m), Append(s, m)[i].type = "KEY_SEND"
             PROVE  /\ Append(s, m)[i].secret \in Secrets
                    /\ mk[Append(s, m)[i].secret] = Pair(u, Append(s, m)[i].from)
  BY DEF KeysFor
<1>1. CASE i \in DOMAIN s
  BY <1>1 DEF KeysFor
<1>2. CASE i = Len(s) + 1
  BY <1>2
<1> QED
  BY <1>1, <1>2

\* A message that is stored, for a record mk under which nothing was wrong before.
LEMMA KeysStored ==
  ASSUME TypeOK, NEW mk, NEW v \in Users, NEW m \in Message, Stored(v, m) \/ NotStored,
         \A u \in Users : KeysFor(mk, u, mailbox[u]),
         m.type = "KEY_SEND" => m.secret \in Secrets /\ mk[m.secret] = Pair(v, m.from)
  PROVE  \A u \in Users : KeysFor(mk, u, mailbox'[u])
<1> SUFFICES ASSUME NEW u \in Users PROVE KeysFor(mk, u, mailbox'[u])
  OBVIOUS
<1>1. CASE mailbox'[u] = mailbox[u]
  BY <1>1
<1>2. CASE u = v /\ mailbox'[u] = Append(mailbox[v], m)
  BY <1>2, KeysAppend DEF TypeOK
<1> QED
  BY <1>1, <1>2 DEF Stored, NotStored, TypeOK

\* The first message leaves the batch, or all do.
LEMMA KeysHandled ==
  ASSUME TypeOK, NEW u \in Users, NEW m, Next_in_batch(u, m),
         \A v \in Users : KeysFor(made, v, batch[v]),
         Display(u, m) \/ Drop(u) \/ Throw(u)
  PROVE  \A v \in Users : KeysFor(made, v, batch'[v])
<1>1. KeysFor(made, u, Tail(batch[u]))
  BY KeysTail DEF TypeOK, Next_in_batch
<1>2. KeysFor(made, u, <<>>)
  BY DEF KeysFor
<1>3. batch' \in {[batch EXCEPT ![u] = Tail(@)], [batch EXCEPT ![u] = <<>>]}
  BY DEF Display, Drop, Throw
<1> QED
  BY <1>1, <1>2, <1>3 DEF TypeOK

\* What is known of one peer is replaced: nothing else is.
LEMMA PeersChange ==
  ASSUME TypeOK, NEW u \in Users, NEW v \in Users, NEW p,
         peers' = [peers EXCEPT ![u][v] = p]
  PROVE  /\ peers'[u][v] = p
         /\ \A w, x \in Users : w # u \/ x # v => peers'[w][x] = peers[w][x]
<1>1. peers' = [peers EXCEPT ![u] = [peers[u] EXCEPT ![v] = p]]
  OBVIOUS
<1>2. peers'[u] = [peers[u] EXCEPT ![v] = p] /\ \A w \in Users \ {u} : peers'[w] = peers[w]
  BY <1>1 DEF TypeOK
<1> QED
  BY <1>2 DEF TypeOK

LEMMA SecretKept ==
  ASSUME TypeOK, NEW u \in Users, NEW v \in Users, is_peer_known(u, v), NEW p,
         peers' = [peers EXCEPT ![u][v] = p], p.secret = peers[u][v].secret
  PROVE  \A w, x \in Users : HasSecret(w, x)' =>
           HasSecret(w, x) /\ peers'[w][x].secret = peers[w][x].secret
BY PeersChange DEF HasSecret, is_peer_known

\* A secret that was made for nobody before is made for u and v.
LEMMA KeysMade ==
  ASSUME TypeOK, NEW k \in Secrets, made[k] = {}, NEW S, made' = [made EXCEPT ![k] = S],
         NEW u, NEW s, KeysFor(made, u, s)
  PROVE  KeysFor(made', u, s)
<1> SUFFICES ASSUME NEW i \in DOMAIN s, s[i].type = "KEY_SEND"
             PROVE  s[i].secret \in Secrets /\ made'[s[i].secret] = Pair(u, s[i].from)
  BY DEF KeysFor
<1>1. s[i].secret \in Secrets /\ made[s[i].secret] = Pair(u, s[i].from)
  BY DEF KeysFor
<1>2. Pair(u, s[i].from) # {}
  BY DEF Pair
<1> QED
  BY <1>1, <1>2 DEF TypeOK

LEMMA SecretsNext == TypeOK /\ KeysInv /\ [Next]_vars => KeysInv'
<1> SUFFICES ASSUME TypeOK, KeysInv, [Next]_vars PROVE KeysInv'
  OBVIOUS
<1> USE DEF history
<1>0. \A u \in Users : KeysFor(made, u, mailbox[u]) /\ KeysFor(made, u, batch[u])
  BY DEF KeysInv
<1>1. ASSUME UNCHANGED made,
             \A w, x \in Users : HasSecret(w, x)' =>
               HasSecret(w, x) /\ peers'[w][x].secret = peers[w][x].secret,
             \A u \in Users : KeysFor(made, u, mailbox'[u]) /\ KeysFor(made, u, batch'[u])
      PROVE  KeysInv'
  BY <1>1 DEF KeysInv, SecretsOfThePair
<1>2. ASSUME UNCHANGED peers
      PROVE  \A w, x \in Users : HasSecret(w, x)' =>
               HasSecret(w, x) /\ peers'[w][x].secret = peers[w][x].secret
  BY <1>2 DEF HasSecret, is_peer_known
<1>3. ASSUME NEW u \in Users, getPeers(u) PROVE KeysInv'
  <2>1. \A w, x \in Users : HasSecret(w, x)' =>
          HasSecret(w, x) /\ peers'[w][x].secret = peers[w][x].secret
    BY <1>3 DEF getPeers, HasSecret, is_peer_known, new_peer, TypeOK
  <2> QED
    BY <1>0, <1>1, <1>3, <2>1 DEF getPeers
<1>4. ASSUME NEW u \in Users, NEW v \in Users, requestPublicKey(u, v) PROVE KeysInv'
  <2>1. \A w, x \in Users : HasSecret(w, x)' =>
          HasSecret(w, x) /\ peers'[w][x].secret = peers[w][x].secret
    <3> DEFINE p == [peers[u][v] EXCEPT !.public = TRUE]
    <3>1. is_peer_known(u, v) /\ peers' = [peers EXCEPT ![u][v] = p]
      BY <1>4 DEF requestPublicKey
    <3>2. p.secret = peers[u][v].secret
      BY <3>1, KnownType DEF Peer
    <3> QED
      BY <3>1, <3>2, SecretKept
  <2> QED
    BY <1>0, <1>1, <1>4, <2>1 DEF requestPublicKey
<1>5. ASSUME NEW u \in Users, NEW v \in Users, sendSymmetricKeyReqMessage(u, v) PROVE KeysInv'
  <2>1. \A w, x \in Users : HasSecret(w, x)' =>
          HasSecret(w, x) /\ peers'[w][x].secret = peers[w][x].secret
    <3> DEFINE p == [peers[u][v] EXCEPT !.asked = TRUE]
    <3>1. is_peer_known(u, v) /\ peers' = [peers EXCEPT ![u][v] = p]
      BY <1>5 DEF sendSymmetricKeyReqMessage, CanPost
    <3>2. p.secret = peers[u][v].secret
      BY <3>1, KnownType DEF Peer
    <3> QED
      BY <3>1, <3>2, SecretKept
  <2>2. [type |-> "KEY_REQUEST", from |-> u, secret |-> NoThing] \in Message
    BY DEF Message, MessageTypes
  <2>3. \A w \in Users : KeysFor(made, w, mailbox'[w])
    BY <1>0, <1>5, <2>2, KeysStored DEF sendSymmetricKeyReqMessage
  <2> QED
    BY <1>0, <1>1, <1>5, <2>1, <2>3 DEF sendSymmetricKeyReqMessage
<1>6. ASSUME NEW u \in Users, NEW v \in Users, NEW type \in Types, sendTextMessage(u, v, type)
      PROVE  KeysInv'
  <2>1. /\ [type |-> type, from |-> u, secret |-> peers[u][v].secret] \in Message
        /\ type # "KEY_SEND"
    BY <1>6 DEF sendTextMessage, HasSecret, is_peer_known, Peer, Message, MessageTypes, TypeOK
  <2>2. \A w \in Users : KeysFor(made, w, mailbox'[w])
    BY <1>0, <1>6, <2>1, KeysStored DEF sendTextMessage, encrypt_text
  <2> QED
    BY <1>0, <1>1, <1>2, <1>6, <2>2 DEF sendTextMessage, encrypt_text
<1>7. ASSUME NEW u \in Users, requestPendingMessages(u) PROVE KeysInv'
  <2>1. KeysFor(made, u, <<>>)
    BY DEF KeysFor
  <2>2. \A w \in Users : KeysFor(made, w, mailbox'[w]) /\ KeysFor(made, w, batch'[w])
    BY <1>0, <1>7, <2>1 DEF requestPendingMessages, TypeOK
  <2> QED
    BY <1>1, <1>2, <1>7, <2>2 DEF requestPendingMessages
<1>8. ASSUME NEW u \in Users, NEW m, Next_in_batch(u, m),
             Display(u, m) \/ Drop(u) \/ Throw(u), UNCHANGED <<peers, mailbox, made>>
      PROVE  KeysInv'
  <2>1. \A w \in Users : KeysFor(made, w, batch'[w])
    BY <1>0, <1>8, KeysHandled
  <2> QED
    BY <1>0, <1>1, <1>2, <1>8, <2>1
<1>9. ASSUME NEW u \in Users,
             \/ handle_unknown(u) \/ handle_key_request(u) \/ handle_undecryptable(u)
             \/ handle_text(u) \/ handle_text_of_other_key(u)
      PROVE  KeysInv'
  BY <1>8, <1>9
  DEF handle_unknown, handle_key_request, handle_undecryptable, handle_text,
      handle_text_of_other_key
<1>10. ASSUME NEW u \in Users, print_messages(u) PROVE KeysInv'
  BY <1>0, <1>1, <1>2, <1>10 DEF print_messages
<1>11. ASSUME NEW u \in Users, restart(u) PROVE KeysInv'
  <2>1. KeysFor(made, u, <<>>)
    BY DEF KeysFor
  <2>2. \A w \in Users : KeysFor(made, w, mailbox'[w]) /\ KeysFor(made, w, batch'[w])
    BY <1>0, <1>11, <2>1 DEF restart, TypeOK
  <2>3. \A w, x \in Users : HasSecret(w, x)' =>
          HasSecret(w, x) /\ peers'[w][x].secret = peers[w][x].secret
    BY <1>11 DEF restart, HasSecret, is_peer_known, TypeOK
  <2> QED
    BY <1>1, <1>11, <2>2, <2>3 DEF restart
<1>12. ASSUME NEW u \in Users, handle_key(u) PROVE KeysInv'
  <2>1. PICK m \in Message :
          /\ Next_in_batch(u, m)
          /\ m.type = "KEY_SEND"
          /\ is_peer_known(u, m.from)
          /\ \/ Accept(u, m.from, m.secret) /\ Display(u, m)
             \/ Drop(u) /\ UNCHANGED peers
    BY <1>12 DEF handle_key, decrypt_key
  <2>2. UNCHANGED <<mailbox, made>>
    BY <1>12 DEF handle_key, decrypt_key
  <2>3. CASE Drop(u) /\ UNCHANGED peers
    BY <1>8, <2>1, <2>2, <2>3
  <2>4. CASE Accept(u, m.from, m.secret) /\ Display(u, m)
    <3> DEFINE p == [peers[u][m.from] EXCEPT !.secret = m.secret]
    <3>1. m.from \in Users
      BY DEF Message
    <3>2. peers' = [peers EXCEPT ![u][m.from] = p] /\ p.secret = m.secret
      BY <2>1, <2>4, <3>1, KnownType DEF Accept, Peer
    <3> HIDE DEF p
    <3>3. made[m.secret] = Pair(u, m.from)
      <4>1. m = batch[u][1] /\ 1 \in DOMAIN batch[u]
        BY <2>1 DEF Next_in_batch, TypeOK
      <4> QED
        BY <1>0, <2>1, <4>1 DEF KeysFor
    <3>4. ASSUME NEW w \in Users, NEW x \in Users, HasSecret(w, x)'
          PROVE  made'[peers'[w][x].secret] = Pair(w, x)
      <4>1. CASE w = u /\ x = m.from
        <5>1. peers'[u][m.from] = p
          BY <3>1, <3>2 DEF TypeOK
        <5> QED
          BY <2>2, <3>2, <3>3, <4>1, <5>1
      <4>2. CASE w # u \/ x # m.from
        <5>1. peers'[w][x] = peers[w][x]
          BY <3>1, <3>2, <4>2, PeersChange
        <5> QED
          BY <2>2, <3>4, <5>1 DEF KeysInv, SecretsOfThePair, HasSecret, is_peer_known
      <4> QED
        BY <4>1, <4>2
    <3>5. \A w \in Users : KeysFor(made, w, batch'[w])
      BY <1>0, <2>1, <2>4, KeysHandled
    <3> QED
      BY <1>0, <2>2, <3>4, <3>5 DEF KeysInv, SecretsOfThePair
  <2> QED
    BY <2>1, <2>3, <2>4
<1>13. ASSUME NEW u \in Users, NEW v \in Users, sendSymmetricKeyMessage(u, v) PROVE KeysInv'
  <2>1. PICK k \in Secrets :
          /\ made[k] = {}
          /\ made' = [made EXCEPT ![k] = Pair(u, v)]
          /\ setSymmetricKey(u, v, k)
          /\ Stored(v, [type |-> "KEY_SEND", from |-> u, secret |-> k]) \/ NotStored
    BY <1>13 DEF sendSymmetricKeyMessage, GenerateKey, encrypt_key
  <2> DEFINE m == [type |-> "KEY_SEND", from |-> u, secret |-> k]
             p == [peers[u][v] EXCEPT !.secret = k]
  <2>2. m \in Message /\ m.secret = k /\ m.from = u
    BY DEF Message, MessageTypes
  <2>3. made'[k] = Pair(v, u) /\ made'[k] = Pair(u, v)
    BY <2>1 DEF TypeOK, Pair
  <2>4. \A w \in Users : KeysFor(made', w, mailbox[w]) /\ KeysFor(made', w, batch[w])
    BY <1>0, <2>1, KeysMade
  <2>5. \A w \in Users : KeysFor(made', w, mailbox'[w])
    BY <2>1, <2>2, <2>3, <2>4, KeysStored
  <2>6. is_peer_known(u, v)
    BY <1>13 DEF sendSymmetricKeyMessage, CanPost
  <2>7. peers' = [peers EXCEPT ![u][v] = p] /\ p.secret = k
    BY <2>1, <2>6, KnownType DEF setSymmetricKey, Peer
  <2> HIDE DEF p
  <2>8. ASSUME NEW w \in Users, NEW x \in Users, HasSecret(w, x)'
        PROVE  made'[peers'[w][x].secret] = Pair(w, x)
    <3>1. CASE w = u /\ x = v
      <4>1. peers'[u][v] = p
        BY <2>7 DEF TypeOK
      <4> QED
        BY <2>3, <2>7, <3>1, <4>1
    <3>2. CASE w # u \/ x # v
      <4>1. peers'[w][x] = peers[w][x]
        BY <2>7, <3>2, PeersChange
      <4>2. HasSecret(w, x) /\ made[peers[w][x].secret] = Pair(w, x)
        BY <2>8, <4>1 DEF KeysInv, SecretsOfThePair, HasSecret, is_peer_known
      <4>3. peers[w][x].secret \in Secrets
        BY <4>2 DEF HasSecret, is_peer_known, TypeOK, Peer
      <4>4. Pair(w, x) # {}
        BY DEF Pair
      <4> QED
        BY <2>1, <4>1, <4>2, <4>3, <4>4 DEF TypeOK
    <3> QED
      BY <3>1, <3>2
  <2>9. UNCHANGED batch
    BY <1>13 DEF sendSymmetricKeyMessage, GenerateKey, encrypt_key
  <2> QED
    BY <2>4, <2>5, <2>8, <2>9 DEF KeysInv, SecretsOfThePair
<1>14. CASE UNCHANGED vars
  BY <1>0, <1>1, <1>2, <1>14 DEF vars
<1> QED
  BY <1>3, <1>4, <1>5, <1>6, <1>7, <1>9, <1>10, <1>11, <1>12, <1>13, <1>14
  DEF Next, handle_command, handleMessage

\* The secret a client uses with a peer was generated by one of the two for the two
\* of them: of any number of users, none gets to use a secret of two others.
THEOREM SecretsStayWithThePair == Spec => []SecretsOfThePair
<1>1. KeysInv => SecretsOfThePair
  BY DEF KeysInv
<1> QED
  BY <1>1, InitKeys, SecretsNext, TypeCorrect, PTL DEF Spec

(***************************************************************************)
(* Agreement on the secret of a pair.                                      *)
(*                                                                         *)
(* That two clients hold the same secret when no key is under way between  *)
(* them says nothing of the states in between.  StepInv does: the last key *)
(* one has sent is what the other will have when it is through its mail    *)
(* (s is what waits for u, t what waits for v, and own and other are the   *)
(* secrets they have for each other), every text in the mail opens with    *)
(* the key before it, and no two keys cross.                               *)
(***************************************************************************)

\* A key from v is at position j of s.
KeyAt(s, v, j) == j \in DOMAIN s /\ s[j].from = v /\ s[j].type = "KEY_SEND"

NoKeyBefore(s, v, i) == \A j \in 1..(i - 1) : ~ KeyAt(s, v, j)

\* Who starts with the secret own for v and handles s has k before position i.
Opens(s, own, v, i, k) ==
  \/ \E j \in 1..(i - 1) :
       /\ KeyAt(s, v, j)
       /\ s[j].secret = k
       /\ \A l \in (j + 1)..(i - 1) : ~ KeyAt(s, v, l)
  \/ NoKeyBefore(s, v, i) /\ k = own

HalfInStep(s, t, own, other, u, v) ==
  /\ (\E j \in DOMAIN t : KeyAt(t, u, j)) =>
       \A i \in DOMAIN s : s[i].from = v => s[i].type = "KEY_REQUEST"
  /\ (\A j \in DOMAIN s : ~ KeyAt(s, v, j)) => Opens(t, other, u, Len(t) + 1, own)
  /\ \A i \in DOMAIN s :
       s[i].from = v /\ s[i].type \in {"TEXT", "FILE"} => Opens(s, own, v, i, s[i].secret)

BothInStep(s, t, own, other, u, v) ==
  HalfInStep(s, t, own, other, u, v) /\ HalfInStep(t, s, other, own, v, u)

InStep(u, v) == BothInStep(Waiting(u), Waiting(v), Secret(u, v), Secret(v, u), u, v)

NotFromSelf == \A u \in Users : From(u, u) = {}

StepInv == NotFromSelf /\ \A u, v \in Users : u # v /\ Pair(u, v) \notin spoilt => InStep(u, v)

\* A message that is added changes nothing for the positions before it.
LEMMA OpensAppend ==
  ASSUME NEW s \in Seq(Message), NEW m \in Message, NEW own, NEW v, NEW k,
         NEW i \in 1..(Len(s) + 1), Opens(s, own, v, i, k)
  PROVE  Opens(Append(s, m), own, v, i, k)
<1>1. \A j \in 1..(i - 1) : j \in DOMAIN s /\ j \in DOMAIN Append(s, m) /\ Append(s, m)[j] = s[j]
  OBVIOUS
<1>2. \A j \in 1..(i - 1) : KeyAt(Append(s, m), v, j) <=> KeyAt(s, v, j)
  BY <1>1 DEF KeyAt
<1>3. CASE NoKeyBefore(s, v, i) /\ k = own
  BY <1>2, <1>3 DEF Opens, NoKeyBefore
<1>4. ASSUME NEW j \in 1..(i - 1), KeyAt(s, v, j), s[j].secret = k,
             \A l \in (j + 1)..(i - 1) : ~ KeyAt(s, v, l)
      PROVE  Opens(Append(s, m), own, v, i, k)
  <2>1. KeyAt(Append(s, m), v, j) /\ Append(s, m)[j].secret = k
    BY <1>1, <1>2, <1>4
  <2>2. \A l \in (j + 1)..(i - 1) : l \in 1..(i - 1)
    OBVIOUS
  <2>3. \A l \in (j + 1)..(i - 1) : ~ KeyAt(Append(s, m), v, l)
    BY <1>2, <1>4, <2>2
  <2> QED
    BY <2>1, <2>3 DEF Opens
<1> QED
  BY <1>3, <1>4 DEF Opens

\* One that is not a key from v changes nothing for the position after it either.
LEMMA OpensAfter ==
  ASSUME NEW s \in Seq(Message), NEW m \in Message, NEW own, NEW v, NEW k,
         Opens(s, own, v, Len(s) + 1, k), m.from # v \/ m.type # "KEY_SEND"
  PROVE  Opens(Append(s, m), own, v, Len(Append(s, m)) + 1, k)
<1>1. Opens(Append(s, m), own, v, Len(s) + 1, k)
  BY OpensAppend
<1>2. ~ KeyAt(Append(s, m), v, Len(s) + 1)
  BY DEF KeyAt
<1>3. Len(Append(s, m)) = Len(s) + 1
  OBVIOUS
<1> QED
  BY <1>1, <1>2, <1>3 DEF Opens, NoKeyBefore

\* A key from v is what counts after it.
LEMMA OpensKey ==
  ASSUME NEW s \in Seq(Message), NEW m \in Message, NEW own, NEW v,
         m.from = v, m.type = "KEY_SEND"
  PROVE  Opens(Append(s, m), own, v, Len(Append(s, m)) + 1, m.secret)
<1>1. Len(Append(s, m)) = Len(s) + 1 /\ Append(s, m)[Len(s) + 1] = m
  OBVIOUS
<1>2. KeyAt(Append(s, m), v, Len(s) + 1)
  BY DEF KeyAt
<1> QED
  BY <1>1, <1>2 DEF Opens

\* s without its first n messages, among which there is no key from v.
Without(s, n, r) ==
  /\ n \in 0..Len(s)
  /\ Len(r) = Len(s) - n
  /\ \A i \in 1..Len(r) : r[i] = s[i + n]

LEMMA OpensWithout ==
  ASSUME NEW s \in Seq(Message), NEW r \in Seq(Message), NEW n, Without(s, n, r),
         NEW own, NEW v, NEW k, NEW i \in 1..(Len(r) + 1),
         \A j \in 1..n : ~ KeyAt(s, v, j), Opens(s, own, v, i + n, k)
  PROVE  Opens(r, own, v, i, k)
<1>1. n \in Nat /\ Len(r) = Len(s) - n
  BY DEF Without
<1>2. \A j \in 1..Len(r) : KeyAt(r, v, j) <=> KeyAt(s, v, j + n)
  <2> SUFFICES ASSUME NEW j \in 1..Len(r) PROVE KeyAt(r, v, j) <=> KeyAt(s, v, j + n)
    OBVIOUS
  <2>1. j \in DOMAIN r /\ j + n \in DOMAIN s /\ r[j] = s[j + n]
    BY <1>1 DEF Without
  <2> QED
    BY <2>1 DEF KeyAt
<1>3. CASE NoKeyBefore(s, v, i + n) /\ k = own
  <2>1. NoKeyBefore(r, v, i)
    BY <1>1, <1>2, <1>3 DEF NoKeyBefore
  <2> QED
    BY <1>3, <2>1 DEF Opens
<1>4. CASE \E j \in 1..((i + n) - 1) :
             /\ KeyAt(s, v, j)
             /\ s[j].secret = k
             /\ \A l \in (j + 1)..((i + n) - 1) : ~ KeyAt(s, v, l)
  <2>1. PICK j \in 1..((i + n) - 1) :
             /\ KeyAt(s, v, j)
             /\ s[j].secret = k
             /\ \A l \in (j + 1)..((i + n) - 1) : ~ KeyAt(s, v, l)
    BY <1>4
  <2>2. j > n
    BY <1>1, <2>1
  <2> DEFINE p == j - n
  <2>3. p \in 1..(i - 1) /\ p + n = j /\ p \in 1..Len(r)
    BY <1>1, <2>2
  <2>4. KeyAt(r, v, p) /\ r[p].secret = k
    BY <1>2, <2>1, <2>3 DEF Without
  <2>5. \A l \in (p + 1)..(i - 1) : ~ KeyAt(r, v, l)
    BY <1>1, <1>2, <2>1, <2>3
  <2> QED
    BY <2>3, <2>4, <2>5 DEF Opens
<1>5. \/ \E j \in 1..((i + n) - 1) :
             /\ KeyAt(s, v, j)
             /\ s[j].secret = k
             /\ \A l \in (j + 1)..((i + n) - 1) : ~ KeyAt(s, v, l)
      \/ NoKeyBefore(s, v, i + n) /\ k = own
  BY DEF Opens
<1> QED
  BY <1>3, <1>4, <1>5

\* s without its first message, a key from v that is now the secret.
LEMMA OpensAccepted ==
  ASSUME NEW s \in Seq(Message), NEW r \in Seq(Message), Without(s, 1, r),
         NEW own, NEW v, NEW k, NEW i \in 1..(Len(r) + 1),
         KeyAt(s, v, 1), Opens(s, own, v, i + 1, k)
  PROVE  Opens(r, s[1].secret, v, i, k)
<1>1. Len(r) = Len(s) - 1
  BY DEF Without
<1>2. \A j \in 1..Len(r) : KeyAt(r, v, j) <=> KeyAt(s, v, j + 1)
  BY <1>1 DEF KeyAt, Without
<1>3. PICK j \in 1..i :
           /\ KeyAt(s, v, j)
           /\ s[j].secret = k
           /\ \A l \in (j + 1)..i : ~ KeyAt(s, v, l)
  BY DEF Opens, NoKeyBefore
<1>4. CASE j = 1
  <2>1. NoKeyBefore(r, v, i)
    BY <1>1, <1>2, <1>3, <1>4 DEF NoKeyBefore
  <2> QED
    BY <1>3, <1>4, <2>1 DEF Opens
<1>5. CASE j > 1
  <2> DEFINE p == j - 1
  <2>1. p \in 1..(i - 1) /\ p + 1 = j /\ p \in 1..Len(r)
    BY <1>1, <1>5
  <2>2. KeyAt(r, v, p) /\ r[p].secret = k
    BY <1>2, <1>3, <2>1 DEF Without
  <2>3. \A l \in (p + 1)..(i - 1) : ~ KeyAt(r, v, l)
    BY <1>1, <1>2, <1>3, <2>1
  <2> QED
    BY <2>1, <2>2, <2>3 DEF Opens
<1> QED
  BY <1>3, <1>4, <1>5

\* The keys in a sequence with one message more.
LEMMA KeyAppended ==
  ASSUME NEW s \in Seq(Message), NEW m \in Message, NEW v
  PROVE  /\ \A i \in DOMAIN s : i \in DOMAIN Append(s, m) /\ Append(s, m)[i] = s[i]
         /\ \A i \in DOMAIN Append(s, m) :
              i \in DOMAIN s \/ (i = Len(s) + 1 /\ Append(s, m)[i] = m)
         /\ Len(s) + 1 \in DOMAIN Append(s, m) /\ Append(s, m)[Len(s) + 1] = m
         /\ \A i \in DOMAIN s : KeyAt(s, v, i) <=> KeyAt(Append(s, m), v, i)
         /\ \A i \in DOMAIN s : i \in 1..(Len(s) + 1)
<1>1. \A i \in DOMAIN s : i \in DOMAIN Append(s, m) /\ Append(s, m)[i] = s[i]
  OBVIOUS
<1>2. \A i \in DOMAIN Append(s, m) :
        i \in DOMAIN s \/ (i = Len(s) + 1 /\ Append(s, m)[i] = m)
  OBVIOUS
<1>3. Len(s) + 1 \in DOMAIN Append(s, m) /\ Append(s, m)[Len(s) + 1] = m
  OBVIOUS
<1>4. \A i \in DOMAIN s : i \in 1..(Len(s) + 1)
  OBVIOUS
<1> QED
  BY <1>1, <1>2, <1>3, <1>4 DEF KeyAt

\* What a pair is told by others, and the requests for keys, change nothing.
LEMMA AddedOther ==
  ASSUME NEW s \in Seq(Message), NEW t \in Seq(Message), NEW own, NEW other, NEW u, NEW v,
         BothInStep(s, t, own, other, u, v), NEW m \in Message,
         m.from # u \/ m.type = "KEY_REQUEST"
  PROVE  BothInStep(s, Append(t, m), own, other, u, v)
<1> DEFINE a == Append(t, m)
<1>1. \A j \in DOMAIN a : KeyAt(a, u, j) => j \in DOMAIN t /\ KeyAt(t, u, j)
  BY KeyAppended DEF KeyAt
<1>2. HalfInStep(s, a, own, other, u, v)
  <2>1. m.from # u \/ m.type # "KEY_SEND"
    OBVIOUS
  <2>2. ASSUME \A j \in DOMAIN s : ~ KeyAt(s, v, j)
        PROVE  Opens(a, other, u, Len(a) + 1, own)
    BY <2>1, <2>2, OpensAfter DEF BothInStep, HalfInStep
  <2> QED
    BY <1>1, <2>2 DEF BothInStep, HalfInStep
<1>3. HalfInStep(a, s, other, own, v, u)
  <2>1. ASSUME \E j \in DOMAIN s : KeyAt(s, v, j), NEW i \in DOMAIN a, a[i].from = u
        PROVE  a[i].type = "KEY_REQUEST"
    BY <2>1, KeyAppended DEF BothInStep, HalfInStep
  <2>2. ASSUME \A j \in DOMAIN a : ~ KeyAt(a, u, j)
        PROVE  Opens(s, own, v, Len(s) + 1, other)
    <3>1. \A j \in DOMAIN t : ~ KeyAt(t, u, j)
      BY <2>2, KeyAppended
    <3> QED
      BY <3>1 DEF BothInStep, HalfInStep
  <2>3. ASSUME NEW i \in DOMAIN a, a[i].from = u, a[i].type \in {"TEXT", "FILE"}
        PROVE  Opens(a, other, u, i, a[i].secret)
    <3>1. i \in DOMAIN t /\ a[i] = t[i] /\ i \in 1..(Len(t) + 1)
      BY <2>3, KeyAppended
    <3>2. Opens(t, other, u, i, t[i].secret)
      BY <2>3, <3>1 DEF BothInStep, HalfInStep
    <3> QED
      BY <3>1, <3>2, OpensAppend
  <2> QED
    BY <2>1, <2>2, <2>3 DEF HalfInStep
<1> QED
  BY <1>2, <1>3 DEF BothInStep

\* A text that u sends opens with the secret u has, when no key waits for u.
LEMMA AddedText ==
  ASSUME NEW s \in Seq(Message), NEW t \in Seq(Message), NEW own, NEW other, NEW u, NEW v,
         BothInStep(s, t, own, other, u, v), NEW m \in Message,
         m.type \in {"TEXT", "FILE"}, m.secret = own, \A j \in DOMAIN s : ~ KeyAt(s, v, j)
  PROVE  BothInStep(s, Append(t, m), own, other, u, v)
<1> DEFINE a == Append(t, m)
<1>1. \A j \in DOMAIN a : KeyAt(a, u, j) => j \in DOMAIN t /\ KeyAt(t, u, j)
  BY KeyAppended DEF KeyAt
<1>2. Opens(t, other, u, Len(t) + 1, own)
  BY DEF BothInStep, HalfInStep
<1>3. HalfInStep(s, a, own, other, u, v)
  <2>1. Opens(a, other, u, Len(a) + 1, own)
    BY <1>2, OpensAfter
  <2> QED
    BY <1>1, <2>1 DEF BothInStep, HalfInStep
<1>4. HalfInStep(a, s, other, own, v, u)
  <2>1. ASSUME \A j \in DOMAIN a : ~ KeyAt(a, u, j)
        PROVE  Opens(s, own, v, Len(s) + 1, other)
    <3>1. \A j \in DOMAIN t : ~ KeyAt(t, u, j)
      BY <2>1, KeyAppended
    <3> QED
      BY <3>1 DEF BothInStep, HalfInStep
  <2>2. ASSUME NEW i \in DOMAIN a, a[i].from = u, a[i].type \in {"TEXT", "FILE"}
        PROVE  Opens(a, other, u, i, a[i].secret)
    <3>1. CASE i \in DOMAIN t
      <4>1. a[i] = t[i] /\ i \in 1..(Len(t) + 1)
        BY <3>1, KeyAppended
      <4>2. Opens(t, other, u, i, t[i].secret)
        BY <2>2, <3>1, <4>1 DEF BothInStep, HalfInStep
      <4> QED
        BY <4>1, <4>2, OpensAppend
    <3>2. CASE i = Len(t) + 1 /\ a[i] = m
      <4>1. Len(t) + 1 \in 1..(Len(t) + 1)
        OBVIOUS
      <4> QED
        BY <1>2, <3>2, <4>1, OpensAppend
    <3> QED
      BY <2>2, <3>1, <3>2, KeyAppended
  <2> QED
    BY <2>1, <2>2 DEF HalfInStep
<1> QED
  BY <1>3, <1>4 DEF BothInStep

\* A key that u makes and sends, when nothing but requests of v wait for u.
LEMMA AddedKey ==
  ASSUME NEW s \in Seq(Message), NEW t \in Seq(Message), NEW own, NEW other, NEW u, NEW v,
         BothInStep(s, t, own, other, u, v), NEW m \in Message,
         m.from = u, m.type = "KEY_SEND",
         \A i \in DOMAIN s : s[i].from = v => s[i].type = "KEY_REQUEST"
  PROVE  BothInStep(s, Append(t, m), m.secret, other, u, v)
<1> DEFINE a == Append(t, m)
<1>1. \A j \in DOMAIN s : ~ KeyAt(s, v, j)
  BY DEF KeyAt
<1>2. HalfInStep(s, a, m.secret, other, u, v)
  <2>1. Opens(a, other, u, Len(a) + 1, m.secret)
    BY OpensKey
  <2> QED
    BY <2>1 DEF HalfInStep
<1>3. HalfInStep(a, s, other, m.secret, v, u)
  <2>1. KeyAt(a, u, Len(t) + 1) /\ Len(t) + 1 \in DOMAIN a
    BY KeyAppended DEF KeyAt
  <2>2. ASSUME NEW i \in DOMAIN a, a[i].from = u, a[i].type \in {"TEXT", "FILE"}
        PROVE  Opens(a, other, u, i, a[i].secret)
    <3>1. i \in DOMAIN t /\ a[i] = t[i] /\ i \in 1..(Len(t) + 1)
      BY <2>2, KeyAppended
    <3>2. Opens(t, other, u, i, t[i].secret)
      BY <2>2, <3>1 DEF BothInStep, HalfInStep
    <3> QED
      BY <3>1, <3>2, OpensAppend
  <2> QED
    BY <1>1, <2>1, <2>2 DEF HalfInStep
<1> QED
  BY <1>2, <1>3 DEF BothInStep

\* The messages of s without the first n are messages of s.
LEMMA WithoutPositions ==
  ASSUME NEW s \in Seq(Message), NEW r \in Seq(Message), NEW n, Without(s, n, r)
  PROVE  /\ n \in Nat
         /\ \A i \in DOMAIN r : i + n \in DOMAIN s /\ r[i] = s[i + n]
         /\ \A i \in DOMAIN r : i \in 1..(Len(r) + 1)
         /\ Len(r) + 1 \in 1..(Len(r) + 1) /\ (Len(r) + 1) + n = Len(s) + 1
         /\ \A j \in DOMAIN s : j \in 1..n \/ (j - n \in DOMAIN r /\ (j - n) + n = j)
BY DEF Without

\* u has handled n messages of which none is a key from v, or has lost them.
LEMMA HandledOther ==
  ASSUME NEW s \in Seq(Message), NEW t \in Seq(Message), NEW own, NEW other, NEW u, NEW v,
         BothInStep(s, t, own, other, u, v), NEW r \in Seq(Message), NEW n, Without(s, n, r),
         \A j \in 1..n : ~ KeyAt(s, v, j)
  PROVE  BothInStep(r, t, own, other, u, v)
<1>1. \A j \in DOMAIN r : KeyAt(r, v, j) <=> KeyAt(s, v, j + n)
  BY WithoutPositions DEF KeyAt
<1>2. (\A j \in DOMAIN r : ~ KeyAt(r, v, j)) => \A j \in DOMAIN s : ~ KeyAt(s, v, j)
  BY <1>1, WithoutPositions
<1>3. HalfInStep(r, t, own, other, u, v)
  <2>1. ASSUME NEW i \in DOMAIN r, r[i].from = v, r[i].type \in {"TEXT", "FILE"}
        PROVE  Opens(r, own, v, i, r[i].secret)
    <3>1. i + n \in DOMAIN s /\ r[i] = s[i + n] /\ i \in 1..(Len(r) + 1)
      BY WithoutPositions
    <3>2. Opens(s, own, v, i + n, s[i + n].secret)
      BY <2>1, <3>1 DEF BothInStep, HalfInStep
    <3> QED
      BY <3>1, <3>2, OpensWithout
  <2>2. ASSUME \E j \in DOMAIN t : KeyAt(t, u, j), NEW i \in DOMAIN r, r[i].from = v
        PROVE  r[i].type = "KEY_REQUEST"
    BY <2>2, WithoutPositions DEF BothInStep, HalfInStep
  <2> QED
    BY <1>2, <2>1, <2>2 DEF BothInStep, HalfInStep
<1>4. HalfInStep(t, r, other, own, v, u)
  <2>1. ASSUME \A j \in DOMAIN t : ~ KeyAt(t, u, j)
        PROVE  Opens(r, own, v, Len(r) + 1, other)
    <3>1. Opens(s, own, v, Len(s) + 1, other)
      BY <2>1 DEF BothInStep, HalfInStep
    <3>2. Len(r) + 1 \in 1..(Len(r) + 1) /\ (Len(r) + 1) + n = Len(s) + 1
      BY WithoutPositions
    <3> QED
      BY <3>1, <3>2, OpensWithout
  <2>2. (\E j \in DOMAIN r : KeyAt(r, v, j)) => \E j \in DOMAIN s : KeyAt(s, v, j)
    BY <1>1, WithoutPositions
  <2> QED
    BY <2>1, <2>2 DEF BothInStep, HalfInStep
<1> QED
  BY <1>3, <1>4 DEF BothInStep

\* u has accepted the key from v that came first.  Nothing of u but requests waits
\* for v, so v has the last key it has sent.
LEMMA HandledKey ==
  ASSUME NEW s \in Seq(Message), NEW t \in Seq(Message), NEW own, NEW other, NEW u, NEW v,
         BothInStep(s, t, own, other, u, v), NEW r \in Seq(Message), Without(s, 1, r),
         KeyAt(s, v, 1)
  PROVE  BothInStep(r, t, s[1].secret, other, u, v)
<1>1. \A j \in DOMAIN r : KeyAt(r, v, j) <=> KeyAt(s, v, j + 1)
  BY WithoutPositions DEF KeyAt
<1>2. \A i \in DOMAIN t : t[i].from = u => t[i].type = "KEY_REQUEST"
  BY DEF KeyAt, BothInStep, HalfInStep
<1>3. \A j \in DOMAIN t : ~ KeyAt(t, u, j)
  BY <1>2 DEF KeyAt
<1>4. Opens(r, s[1].secret, v, Len(r) + 1, other)
  <2>1. Opens(s, own, v, Len(s) + 1, other)
    BY <1>3 DEF BothInStep, HalfInStep
  <2>2. Len(r) + 1 \in 1..(Len(r) + 1) /\ (Len(r) + 1) + 1 = Len(s) + 1
    BY WithoutPositions
  <2> QED
    BY <2>1, <2>2, OpensAccepted
<1>5. HalfInStep(r, t, s[1].secret, other, u, v)
  <2>1. ASSUME NEW i \in DOMAIN r, r[i].from = v, r[i].type \in {"TEXT", "FILE"}
        PROVE  Opens(r, s[1].secret, v, i, r[i].secret)
    <3>1. i + 1 \in DOMAIN s /\ r[i] = s[i + 1] /\ i \in 1..(Len(r) + 1)
      BY WithoutPositions
    <3>2. Opens(s, own, v, i + 1, s[i + 1].secret)
      BY <2>1, <3>1 DEF BothInStep, HalfInStep
    <3> QED
      BY <3>1, <3>2, OpensAccepted
  <2>2. ASSUME \A j \in DOMAIN r : ~ KeyAt(r, v, j)
        PROVE  Opens(t, other, u, Len(t) + 1, s[1].secret)
    <3>1. \A j \in 1..Len(r) : ~ KeyAt(r, v, j)
      BY <2>2
    <3>2. other = s[1].secret
      BY <1>4, <3>1 DEF Opens
    <3>3. NoKeyBefore(t, u, Len(t) + 1)
      BY <1>3 DEF NoKeyBefore, KeyAt
    <3> QED
      BY <3>2, <3>3 DEF Opens
  <2> QED
    BY <1>3, <2>1, <2>2 DEF HalfInStep
<1>6. HalfInStep(t, r, other, s[1].secret, v, u)
  BY <1>2, <1>4 DEF HalfInStep
<1> QED
  BY <1>5, <1>6 DEF BothInStep

\* What waits for a client is its batch and then its mailbox.
LEMMA Concatenation ==
  ASSUME NEW s \in Seq(Message), NEW t \in Seq(Message)
  PROVE  /\ s \o t \in Seq(Message)
         /\ Len(s \o t) = Len(s) + Len(t)
         /\ \A i \in 1..Len(s) : (s \o t)[i] = s[i]
         /\ \A i \in 1..Len(t) : (s \o t)[i + Len(s)] = t[i]
         /\ <<>> \o t = t
         /\ s \o <<>> = s
OBVIOUS

LEMMA WaitingType == TypeOK => \A u \in Users : Waiting(u) \in Seq(Message)
BY DEF TypeOK, Waiting

\* A message that is stored comes last.
LEMMA WaitingStored ==
  ASSUME TypeOK, NEW v \in Users, NEW m \in Message, Stored(v, m), UNCHANGED batch
  PROVE  /\ Waiting(v)' = Append(Waiting(v), m)
         /\ \A u \in Users : u # v => Waiting(u)' = Waiting(u)
<1>1. batch[v] \in Seq(Message) /\ mailbox[v] \in Seq(Message)
  BY DEF TypeOK
<1>2. batch[v] \o Append(mailbox[v], m) = Append(batch[v] \o mailbox[v], m)
  <2> DEFINE s == batch[v]
             t == mailbox[v]
  <2>1. s \in Seq(Message) /\ t \in Seq(Message) /\ <<m>> \in Seq(Message)
    BY <1>1
  <2> HIDE DEF s, t
  <2>2. s \o t \in Seq(Message)
    BY <2>1
  <2>3. Append(t, m) = t \o <<m>> /\ Append(s \o t, m) = (s \o t) \o <<m>>
    BY <2>1, <2>2, AppendIsConcat
  <2>4. (s \o t) \o <<m>> = s \o (t \o <<m>>)
    BY <2>1, ConcatAssociative
  <2>5. s \o Append(t, m) = Append(s \o t, m)
    BY <2>3, <2>4
  <2> QED
    BY <2>5 DEF s, t
<1>3. mailbox'[v] = Append(mailbox[v], m) /\ \A u \in Users : u # v => mailbox'[u] = mailbox[u]
  BY DEF TypeOK, Stored
<1> QED
  BY <1>2, <1>3 DEF Waiting

\* The first message, and the batch it is in, are the first of what waits.
LEMMA WaitingHandled ==
  ASSUME TypeOK, NEW u \in Users, UNCHANGED mailbox
  PROVE  /\ \A i \in 1..Len(batch[u]) :
              Waiting(u)[i] = batch[u][i] /\ i \in DOMAIN Waiting(u) /\ i \in DOMAIN batch[u]
         /\ batch' = [batch EXCEPT ![u] = Tail(@)] /\ batch[u] # <<>> =>
              /\ Without(Waiting(u), 1, Waiting(u)')
              /\ Head(batch[u]) = batch[u][1] /\ 1 \in 1..Len(batch[u])
         /\ batch' = [batch EXCEPT ![u] = <<>>] =>
              Without(Waiting(u), Len(batch[u]), Waiting(u)')
         /\ \A b : batch' = [batch EXCEPT ![u] = b] =>
              \A w \in Users : w # u => Waiting(w)' = Waiting(w)
<1> DEFINE s == batch[u]
           t == mailbox[u]
<1>1. s \in Seq(Message) /\ t \in Seq(Message) /\ <<>> \in Seq(Message)
  BY DEF TypeOK
<1>2. \A i \in 1..Len(s) : (s \o t)[i] = s[i] /\ i \in DOMAIN (s \o t) /\ i \in DOMAIN s
  <2> HIDE DEF s, t
  <2>1. \A i \in 1..Len(s) : (s \o t)[i] = s[i]
    BY <1>1, Concatenation
  <2>2. DOMAIN s = 1..Len(s) /\ DOMAIN (s \o t) = 1..(Len(s) + Len(t))
        /\ Len(s) \in Nat /\ Len(t) \in Nat
    BY <1>1, Concatenation
  <2> QED
    BY <2>1, <2>2
<1>3. ASSUME s # <<>> PROVE Without(s \o t, 1, Tail(s) \o t) /\ Head(s) = s[1] /\ 1 \in 1..Len(s)
  <2> HIDE DEF s, t
  <2>1. /\ Tail(s) \in Seq(Message) /\ Len(s) \in Nat /\ Len(s) >= 1 /\ Len(t) \in Nat
        /\ Len(Tail(s)) = Len(s) - 1 /\ \A i \in 1..Len(Tail(s)) : Tail(s)[i] = s[i + 1]
    BY <1>1, <1>3
  <2>2. Len(Tail(s) \o t) = Len(s) - 1 + Len(t) /\ Len(s \o t) = Len(s) + Len(t)
    BY <1>1, <2>1, Concatenation
  <2>3. ASSUME NEW i \in 1..Len(Tail(s) \o t) PROVE (Tail(s) \o t)[i] = (s \o t)[i + 1]
    <3>1. CASE i \in 1..Len(Tail(s))
      <4>1. (Tail(s) \o t)[i] = s[i + 1] /\ i + 1 \in 1..Len(s)
        BY <1>1, <2>1, <3>1, Concatenation
      <4> QED
        BY <1>1, <4>1, Concatenation
    <3>2. CASE i \notin 1..Len(Tail(s))
      <4> DEFINE j == i - Len(Tail(s))
      <4>1. j \in 1..Len(t) /\ i = j + Len(Tail(s)) /\ i + 1 = j + Len(s)
        BY <2>1, <2>2, <3>2
      <4>2. (Tail(s) \o t)[j + Len(Tail(s))] = t[j]
        BY <1>1, <2>1, <4>1, Concatenation
      <4>3. (s \o t)[j + Len(s)] = t[j]
        BY <1>1, <4>1, Concatenation
      <4> QED
        BY <4>1, <4>2, <4>3
    <3> QED
      BY <3>1, <3>2
  <2> QED
    BY <1>1, <1>3, <2>1, <2>2, <2>3 DEF Without
<1>4. Without(s \o t, Len(s), <<>> \o t)
  <2> HIDE DEF s, t
  <2>1. <<>> \o t = t /\ Len(s \o t) = Len(s) + Len(t) /\ Len(s) \in Nat /\ Len(t) \in Nat
    BY <1>1, Concatenation
  <2> QED
    BY <1>1, <2>1, Concatenation DEF Without
<1>5. mailbox'[u] = t
  OBVIOUS
<1>6. ASSUME batch' = [batch EXCEPT ![u] = Tail(@)], batch[u] # <<>>
      PROVE  batch'[u] = Tail(s)
  BY <1>6 DEF TypeOK
<1>7. ASSUME batch' = [batch EXCEPT ![u] = <<>>] PROVE batch'[u] = <<>>
  BY <1>7 DEF TypeOK
<1>8. ASSUME NEW b, batch' = [batch EXCEPT ![u] = b], NEW w \in Users, w # u
      PROVE  Waiting(w)' = Waiting(w)
  BY <1>8 DEF TypeOK, Waiting
<1> QED
  BY <1>2, <1>3, <1>4, <1>5, <1>6, <1>7, <1>8 DEF Waiting

\* No key of a pair that stays unspoilt is among those that spoil it.
LEMMA KeyPairsSpoil ==
  ASSUME NEW u, NEW v, NEW s, Pair(u, v) \notin KeyPairs(u, s)
  PROVE  \A j : ~ KeyAt(s, v, j)
BY DEF KeyPairs, KeyAt

\* Nothing of a pair changes: neither what waits nor the secrets.
LEMMA StepNothing ==
  ASSUME StepInv, spoilt \subseteq spoilt',
         \A u \in Users : Waiting(u)' = Waiting(u),
         \A u, v \in Users : Secret(u, v)' = Secret(u, v)
  PROVE  StepInv'
<1>1. NotFromSelf'
  BY DEF StepInv, NotFromSelf, From
<1>2. ASSUME NEW u \in Users, NEW v \in Users, u # v, Pair(u, v) \notin spoilt'
      PROVE  InStep(u, v)'
  <2>1. InStep(u, v)
    BY <1>2 DEF StepInv, Pair
  <2> QED
    BY <2>1 DEF InStep
<1> QED
  BY <1>1, <1>2 DEF StepInv, Pair

\* A message m from a has been stored for b.
LEMMA StepStored ==
  ASSUME TypeOK, StepInv, spoilt \subseteq spoilt', NEW a \in Users, NEW b \in Users, a # b,
         NEW m \in Message, m.from = a, Stored(b, m), UNCHANGED batch,
         \A u, v \in Users : u # a \/ v # b => Secret(u, v)' = Secret(u, v),
         Pair(a, b) \notin spoilt' =>
           BothInStep(Waiting(a), Append(Waiting(b), m), Secret(a, b)', Secret(b, a), a, b)
  PROVE  StepInv'
<1>1. /\ Waiting(b)' = Append(Waiting(b), m)
      /\ \A u \in Users : u # b => Waiting(u)' = Waiting(u)
  BY WaitingStored
<1>2. \A u \in Users : Waiting(u) \in Seq(Message)
  BY WaitingType
<1>3. NotFromSelf'
  <2> SUFFICES ASSUME NEW u \in Users, NEW i \in DOMAIN Waiting(u)', (Waiting(u)')[i].from = u
               PROVE  FALSE
    BY DEF NotFromSelf, From
  <2>1. i \in DOMAIN Waiting(u) /\ (Waiting(u)')[i] = Waiting(u)[i]
    <3> DEFINE t == Waiting(b)
               x == Append(t, m)
    <3>1. CASE u = b
      <4>1. i \in DOMAIN x /\ x[i].from = b /\ m.from # b /\ (Waiting(u)')[i] = x[i]
        BY <1>1, <3>1
      <4>2. t \in Seq(Message)
        BY <1>2
      <4> HIDE DEF t
      <4>3. i \in DOMAIN t /\ x[i] = t[i]
        BY <4>1, <4>2, KeyAppended
      <4> QED
        BY <3>1, <4>1, <4>3 DEF t
    <3>2. CASE u # b
      BY <1>1, <3>2
    <3> QED
      BY <3>1, <3>2
  <2> QED
    BY <2>1 DEF StepInv, NotFromSelf, From
<1>4. ASSUME NEW u \in Users, NEW v \in Users, u # v, Pair(u, v) \notin spoilt'
      PROVE  InStep(u, v)'
  <2>1. InStep(u, v)
    BY <1>4 DEF StepInv, Pair
  <2>2. CASE u = a /\ v = b
    BY <1>1, <1>4, <2>2 DEF InStep
  <2>3. CASE u = b /\ v = a
    <3>1. Pair(a, b) = Pair(u, v)
      BY <2>3 DEF Pair
    <3> QED
      BY <1>1, <1>4, <2>3, <3>1 DEF InStep, BothInStep
  <2>4. CASE v = b /\ u # a
    <3>1. BothInStep(Waiting(u), Append(Waiting(b), m), Secret(u, v), Secret(v, u), u, v)
      BY <1>2, <2>1, <2>4, AddedOther DEF InStep
    <3> QED
      BY <1>1, <1>4, <2>4, <3>1 DEF InStep
  <2>5. CASE u = b /\ v # a
    <3>1. BothInStep(Waiting(v), Waiting(u), Secret(v, u), Secret(u, v), v, u)
      BY <2>1 DEF InStep, BothInStep
    <3>2. BothInStep(Waiting(v), Append(Waiting(b), m), Secret(v, u), Secret(u, v), v, u)
      BY <1>2, <2>5, <3>1, AddedOther
    <3> QED
      BY <1>1, <1>4, <2>5, <3>2 DEF InStep, BothInStep
  <2>6. CASE u # b /\ v # b
    BY <1>1, <2>1, <2>6 DEF InStep
  <2> QED
    BY <1>4, <2>2, <2>3, <2>4, <2>5, <2>6
<1> QED
  BY <1>3, <1>4 DEF StepInv, Pair

\* The first n messages of a have left what waits for a.
LEMMA StepHandled ==
  ASSUME TypeOK, TypeOK', StepInv, spoilt \subseteq spoilt', NEW a \in Users,
         \A u \in Users : u # a => Waiting(u)' = Waiting(u),
         NEW n, Without(Waiting(a), n, Waiting(a)'),
         \A v \in Users : Pair(a, v) \notin spoilt' => \A j \in 1..n : ~ KeyAt(Waiting(a), v, j),
         \A u, v \in Users : Pair(u, v) \notin spoilt' => Secret(u, v)' = Secret(u, v)
  PROVE  StepInv'
<1>1. \A u \in Users : Waiting(u) \in Seq(Message) /\ Waiting(u)' \in Seq(Message)
  BY WaitingType, WaitingType DEF TypeOK, Waiting
<1>2. NotFromSelf'
  <2> SUFFICES ASSUME NEW u \in Users, NEW i \in DOMAIN Waiting(u)', (Waiting(u)')[i].from = u
               PROVE  FALSE
    BY DEF NotFromSelf, From
  <2>1. \E j \in DOMAIN Waiting(u) : Waiting(u)[j] = (Waiting(u)')[i]
    BY <1>1, WithoutPositions
  <2> QED
    BY <2>1 DEF StepInv, NotFromSelf, From
<1>3. ASSUME NEW u \in Users, NEW v \in Users, u # v, Pair(u, v) \notin spoilt'
      PROVE  InStep(u, v)'
  <2>1. InStep(u, v)
    BY <1>3 DEF StepInv, Pair
  <2>2. Pair(v, u) \notin spoilt' /\ Secret(u, v)' = Secret(u, v) /\ Secret(v, u)' = Secret(v, u)
    BY <1>3 DEF Pair
  <2>3. CASE u = a
    <3>1. BothInStep(Waiting(u)', Waiting(v), Secret(u, v), Secret(v, u), u, v)
      BY <1>1, <1>3, <2>1, <2>3, HandledOther DEF InStep
    <3> QED
      BY <1>3, <2>2, <2>3, <3>1 DEF InStep
  <2>4. CASE v = a
    <3>1. BothInStep(Waiting(v), Waiting(u), Secret(v, u), Secret(u, v), v, u)
      BY <2>1 DEF InStep, BothInStep
    <3>2. BothInStep(Waiting(v)', Waiting(u), Secret(v, u), Secret(u, v), v, u)
      BY <1>1, <2>2, <2>4, <3>1, HandledOther
    <3> QED
      BY <1>3, <2>2, <2>4, <3>2 DEF InStep, BothInStep
  <2>5. CASE u # a /\ v # a
    BY <2>1, <2>2, <2>5 DEF InStep
  <2> QED
    BY <2>3, <2>4, <2>5
<1> QED
  BY <1>2, <1>3 DEF StepInv, Pair

LEMMA InitStep == Init => StepInv
<1> SUFFICES ASSUME Init PROVE StepInv
  OBVIOUS
<1>1. \A u \in Users : Waiting(u) = <<>>
  <2> SUFFICES ASSUME NEW u \in Users PROVE Waiting(u) = <<>>
    OBVIOUS
  <2>1. mailbox[u] = <<>> /\ batch[u] = <<>>
    BY DEF Init
  <2> QED
    BY <2>1 DEF Waiting
<1>2. \A u, v \in Users : Secret(u, v) = NoThing
  BY DEF Init, Secret, is_peer_known, new_peer
<1>3. NotFromSelf
  <2>1. DOMAIN <<>> = {}
    OBVIOUS
  <2> QED
    BY <1>1, <2>1, Zenon DEF NotFromSelf, From
<1>4. ASSUME NEW u, NEW v PROVE HalfInStep(<<>>, <<>>, NoThing, NoThing, u, v)
  BY DEF HalfInStep, Opens, NoKeyBefore, KeyAt
<1> QED
  BY <1>1, <1>2, <1>3, <1>4 DEF StepInv, InStep, BothInStep

\* The secrets that do not change, and the one that does.
LEMMA SecretsKept ==
  ASSUME TypeOK, NEW a \in Users, NEW b \in Users, is_peer_known(a, b), NEW p \in Peer,
         peers' = [peers EXCEPT ![a][b] = p]
  PROVE  /\ Secret(a, b)' = p.secret
         /\ \A u, v \in Users : u # a \/ v # b => Secret(u, v)' = Secret(u, v)
<1>1. p # NoThing
  BY KeyExchangeAssumption
<1>2. /\ peers'[a][b] = p
      /\ \A u, v \in Users : u # a \/ v # b => peers'[u][v] = peers[u][v]
  <2>1. peers'[a][b] = p
    BY DEF TypeOK
  <2>2. \A u, v \in Users : u # a \/ v # b => peers'[u][v] = peers[u][v]
    BY PeersChange
  <2> QED
    BY <2>1, <2>2
<1> QED
  BY <1>1, <1>2 DEF Secret, is_peer_known

LEMMA SecretsSame ==
  ASSUME TypeOK, NEW a \in Users, NEW b \in Users, is_peer_known(a, b), NEW p \in Peer,
         peers' = [peers EXCEPT ![a][b] = p], p.secret = peers[a][b].secret
  PROVE  \A u, v \in Users : Secret(u, v)' = Secret(u, v)
<1>1. Secret(a, b)' = p.secret /\ \A u, v \in Users : u # a \/ v # b => Secret(u, v)' = Secret(u, v)
  BY SecretsKept, Zenon
<1>2. Secret(a, b) = p.secret
  BY DEF Secret
<1> QED
  BY <1>1, <1>2

LEMMA SecretsUnchanged ==
  UNCHANGED peers => \A u, v \in Users : Secret(u, v)' = Secret(u, v)
BY DEF Secret, is_peer_known

LEMMA WaitingUnchanged ==
  UNCHANGED <<mailbox, batch>> => \A u \in Users : Waiting(u)' = Waiting(u)
BY DEF Waiting

\* What does not cross is sent when no key waits, a key when nothing but requests do.
LEMMA NotCrossing ==
  ASSUME TypeOK, NEW u \in Users, NEW v \in Users, NEW type, ~ Crosses(u, v, type)
  PROVE  /\ type # "KEY_REQUEST" => \A j \in DOMAIN Waiting(u) : ~ KeyAt(Waiting(u), v, j)
         /\ type = "KEY_SEND" =>
              \A i \in DOMAIN Waiting(u) :
                Waiting(u)[i].from = v => Waiting(u)[i].type = "KEY_REQUEST"
<1>1. \A i \in DOMAIN Waiting(u) : Waiting(u)[i] \in Message
  BY WaitingType
<1>2. \A i \in DOMAIN Waiting(u) : Waiting(u)[i].type \in MessageTypes
  BY <1>1 DEF Message
<1>3. \A i \in DOMAIN Waiting(u) : Waiting(u)[i].from = v =>
        Waiting(u)[i].type \in TypesFrom(u, v)
  BY DEF TypesFrom, From
<1> QED
  BY <1>2, <1>3 DEF Crosses, KeyAt, MessageTypes

\* The first message of the batch leaves it, or the whole batch does, and the secrets stay.
LEMMA StepLeft ==
  ASSUME TypeOK, TypeOK', StepInv, NEW u \in Users, NEW m, Next_in_batch(u, m),
         UNCHANGED <<peers, mailbox>>, spoilt \subseteq spoilt',
         m.type = "KEY_SEND" => Pair(u, m.from) \in spoilt',
         Display(u, m) \/ Drop(u) \/ Throw(u)
  PROVE  StepInv'
<1> DEFINE n == IF Throw(u) THEN Len(batch[u]) ELSE 1
<1>1. m = batch[u][1] /\ 1 \in 1..Len(batch[u])
  BY WaitingHandled DEF Next_in_batch, TypeOK
<1>2. \A v \in Users : Pair(u, v) \notin spoilt' => ~ KeyAt(Waiting(u), v, 1)
  BY <1>1, WaitingHandled DEF KeyAt
<1>3. CASE Throw(u)
  <2>1. batch' = [batch EXCEPT ![u] = <<>>]
    BY <1>3 DEF Throw
  <2>2. Without(Waiting(u), Len(batch[u]), Waiting(u)')
    BY <2>1, WaitingHandled
  <2>3. \A w \in Users : w # u => Waiting(w)' = Waiting(w)
    BY <2>1, WaitingHandled
  <2>4. ASSUME NEW v \in Users, Pair(u, v) \notin spoilt', NEW j \in 1..Len(batch[u])
        PROVE  ~ KeyAt(Waiting(u), v, j)
    <3>1. CASE j = 1
      BY <1>2, <2>4, <3>1
    <3>2. CASE j # 1
      <4>1. \A i : ~ KeyAt(Tail(batch[u]), v, i)
        BY <1>3, <2>4, KeyPairsSpoil DEF Throw
      <4>2. j - 1 \in DOMAIN Tail(batch[u]) /\ Tail(batch[u])[j - 1] = batch[u][j]
        BY <1>1, <3>2 DEF TypeOK
      <4>3. Waiting(u)[j] = batch[u][j]
        BY WaitingHandled
      <4> QED
        BY <4>1, <4>2, <4>3 DEF KeyAt
    <3> QED
      BY <3>1, <3>2
  <2> QED
    BY <2>2, <2>3, <2>4, SecretsUnchanged, StepHandled
<1>4. CASE Display(u, m) \/ Drop(u)
  <2>1. batch' = [batch EXCEPT ![u] = Tail(@)] /\ batch[u] # <<>>
    BY <1>4 DEF Display, Drop, Next_in_batch
  <2>2. Without(Waiting(u), 1, Waiting(u)')
    BY <2>1, WaitingHandled
  <2>3. \A w \in Users : w # u => Waiting(w)' = Waiting(w)
    BY <2>1, WaitingHandled
  <2>4. \A v \in Users : Pair(u, v) \notin spoilt' => \A j \in 1..1 : ~ KeyAt(Waiting(u), v, j)
    BY <1>2
  <2> QED
    BY <2>2, <2>3, <2>4, SecretsUnchanged, StepHandled
<1> QED
  BY <1>3, <1>4

\* The first message is a key, and accepted.
LEMMA StepAccepted ==
  ASSUME TypeOK, TypeOK', StepInv, NEW u \in Users, NEW m \in Message, Next_in_batch(u, m),
         m.type = "KEY_SEND", is_peer_known(u, m.from), Accept(u, m.from, m.secret),
         Display(u, m), UNCHANGED <<mailbox, spoilt>>
  PROVE  StepInv'
<1> DEFINE p == [peers[u][m.from] EXCEPT !.secret = m.secret]
           s == Waiting(u)
<1>1. m = batch[u][1] /\ 1 \in 1..Len(batch[u])
  BY WaitingHandled DEF Next_in_batch, TypeOK
<1>2. s[1] = m /\ 1 \in DOMAIN s /\ m.from \in Users /\ m.secret \in Secrets \cup {NoThing}
  BY <1>1, WaitingHandled DEF Message
<1>3. m.from # u
  BY <1>2 DEF StepInv, NotFromSelf, From
<1>4. batch' = [batch EXCEPT ![u] = Tail(@)] /\ batch[u] # <<>>
  BY DEF Display, Next_in_batch
<1>5. Without(s, 1, Waiting(u)')
  BY <1>4, WaitingHandled
<1>6. \A w \in Users : w # u => Waiting(w)' = Waiting(w)
  BY <1>4, WaitingHandled
<1>7. p \in Peer /\ p.secret = m.secret /\ peers' = [peers EXCEPT ![u][m.from] = p]
  <2>1. p \in Peer /\ peers[u][m.from] \in Peer
    BY <1>2, KnownType
  <2>2. p.secret = m.secret
    BY <2>1 DEF Peer
  <2> QED
    BY <2>1, <2>2 DEF Accept
<1>8. Secret(u, m.from)' = m.secret
      /\ \A w, x \in Users : w # u \/ x # m.from => Secret(w, x)' = Secret(w, x)
  <2>1. m.from \in Users
    BY <1>2
  <2> HIDE DEF p
  <2>2. /\ Secret(u, m.from)' = p.secret
        /\ \A w, x \in Users : w # u \/ x # m.from => Secret(w, x)' = Secret(w, x)
    BY <1>7, <2>1, SecretsKept, Zenon
  <2> QED
    BY <1>7, <2>2
<1>9. \A w \in Users : Waiting(w) \in Seq(Message) /\ Waiting(w)' \in Seq(Message)
  BY WaitingType, WaitingType DEF TypeOK, Waiting
<1>10. NotFromSelf'
  <2> SUFFICES ASSUME NEW w \in Users, NEW i \in DOMAIN Waiting(w)', (Waiting(w)')[i].from = w
               PROVE  FALSE
    BY DEF NotFromSelf, From
  <2>1. \E j \in DOMAIN Waiting(w) : Waiting(w)[j] = (Waiting(w)')[i]
    BY <1>5, <1>6, <1>9, WithoutPositions
  <2> QED
    BY <2>1 DEF StepInv, NotFromSelf, From
<1>11. ASSUME NEW v \in Users, v # u, Pair(u, v) \notin spoilt
       PROVE  InStep(u, v)'
  <2>1. InStep(u, v)
    BY <1>11 DEF StepInv
  <2>2. CASE v = m.from
    <3>1. KeyAt(s, v, 1)
      BY <1>2, <2>2 DEF KeyAt
    <3>2. BothInStep(Waiting(u)', Waiting(v), s[1].secret, Secret(v, u), u, v)
      BY <1>5, <1>9, <2>1, <3>1, HandledKey DEF InStep
    <3> QED
      BY <1>2, <1>3, <1>6, <1>8, <1>11, <2>2, <3>2 DEF InStep
  <2>3. CASE v # m.from
    <3>1. \A j \in 1..1 : ~ KeyAt(s, v, j)
      BY <1>2, <2>3 DEF KeyAt
    <3>2. BothInStep(Waiting(u)', Waiting(v), Secret(u, v), Secret(v, u), u, v)
      BY <1>5, <1>9, <2>1, <3>1, HandledOther DEF InStep
    <3> QED
      BY <1>6, <1>8, <1>11, <2>3, <3>2 DEF InStep
  <2> QED
    BY <2>2, <2>3
<1>12. ASSUME NEW v \in Users, NEW w \in Users, v # w, Pair(v, w) \notin spoilt
       PROVE  InStep(v, w)'
  <2>1. CASE v = u
    BY <1>11, <1>12, <2>1
  <2>2. CASE w = u
    <3>1. InStep(u, v)'
      BY <1>11, <1>12, <2>2 DEF Pair
    <3> QED
      BY <2>2, <3>1 DEF InStep, BothInStep
  <2>3. CASE v # u /\ w # u
    <3>1. InStep(v, w)
      BY <1>12 DEF StepInv
    <3> QED
      BY <1>6, <1>8, <2>3, <3>1 DEF InStep
  <2> QED
    BY <2>1, <2>2, <2>3
<1> QED
  BY <1>10, <1>12 DEF StepInv, Pair

\* A key that is made and sent replaces the secret; if it is not sent the pair is spoilt.
LEMMA StepKey ==
  ASSUME TypeOK, TypeOK', StepInv, NEW u \in Users, NEW v \in Users,
         sendSymmetricKeyMessage(u, v)
  PROVE  StepInv'
<1>1. PICK k \in Secrets :
        /\ setSymmetricKey(u, v, k)
        /\ \/ /\ Stored(v, encrypt_key(u, k))
              /\ spoilt' = spoilt \cup (IF Crosses(u, v, "KEY_SEND") THEN {Pair(u, v)} ELSE {})
           \/ /\ UNCHANGED mailbox
              /\ spoilt' = spoilt \cup {Pair(u, v)}
  BY DEF sendSymmetricKeyMessage, GenerateKey, NotStored
<1>2. u # v /\ is_peer_known(u, v) /\ UNCHANGED batch
  BY DEF sendSymmetricKeyMessage, CanPost
<1> DEFINE p == [peers[u][v] EXCEPT !.secret = k]
           m == encrypt_key(u, k)
<1>3. p \in Peer /\ p.secret = k /\ peers' = [peers EXCEPT ![u][v] = p]
  <2>1. p \in Peer /\ peers[u][v] \in Peer
    BY <1>2, KnownType
  <2>2. p.secret = k
    BY <2>1 DEF Peer
  <2> QED
    BY <1>1, <2>1, <2>2 DEF setSymmetricKey
<1>4. /\ Secret(u, v)' = k
      /\ \A w, x \in Users : w # u \/ x # v => Secret(w, x)' = Secret(w, x)
  BY <1>2, <1>3, SecretsKept
<1>5. m \in Message /\ m.from = u /\ m.type = "KEY_SEND" /\ m.secret = k
  BY DEF encrypt_key, Message, MessageTypes
<1>6. CASE /\ Stored(v, m)
           /\ spoilt' = spoilt \cup (IF Crosses(u, v, "KEY_SEND") THEN {Pair(u, v)} ELSE {})
  <2>1. ASSUME Pair(u, v) \notin spoilt'
        PROVE  BothInStep(Waiting(u), Append(Waiting(v), m), Secret(u, v)', Secret(v, u), u, v)
    <3>1. InStep(u, v)
      BY <1>2, <1>6, <2>1 DEF StepInv
    <3>2. \A i \in DOMAIN Waiting(u) :
            Waiting(u)[i].from = v => Waiting(u)[i].type = "KEY_REQUEST"
      BY <1>6, <2>1, NotCrossing
    <3> HIDE DEF m
    <3>3. BothInStep(Waiting(u), Append(Waiting(v), m), m.secret, Secret(v, u), u, v)
      BY <1>5, <3>1, <3>2, WaitingType, AddedKey DEF InStep
    <3> QED
      BY <1>4, <1>5, <3>3
  <2> HIDE DEF m
  <2> QED
    BY <1>2, <1>4, <1>5, <1>6, <2>1, StepStored
<1>7. CASE UNCHANGED mailbox /\ spoilt' = spoilt \cup {Pair(u, v)}
  <2>1. \A w \in Users : Waiting(w)' = Waiting(w)
    BY <1>2, <1>7, WaitingUnchanged
  <2>2. NotFromSelf'
    BY <2>1 DEF StepInv, NotFromSelf, From
  <2>3. ASSUME NEW w \in Users, NEW x \in Users, w # x, Pair(w, x) \notin spoilt'
        PROVE  InStep(w, x)'
    <3>1. InStep(w, x)
      BY <1>7, <2>3 DEF StepInv
    <3>2. (w # u \/ x # v) /\ (x # u \/ w # v)
      BY <1>7, <2>3 DEF Pair
    <3> QED
      BY <1>4, <2>1, <2>3, <3>1, <3>2 DEF InStep
  <2> QED
    BY <2>2, <2>3 DEF StepInv, Pair
<1> QED
  BY <1>1, <1>6, <1>7

LEMMA StepText ==
  ASSUME TypeOK, StepInv, NEW u \in Users, NEW v \in Users, NEW type \in Types,
         sendTextMessage(u, v, type)
  PROVE  StepInv'
<1> DEFINE m == encrypt_text(u, peers[u][v].secret, type)
<1>1. /\ u # v /\ is_peer_known(u, v) /\ type \in {"TEXT", "FILE"} /\ HasSecret(u, v)
      /\ Stored(v, m)
      /\ spoilt' = spoilt \cup (IF Crosses(u, v, type) THEN {Pair(u, v)} ELSE {})
      /\ UNCHANGED <<peers, batch>>
  BY DEF sendTextMessage, CanPost
<1>2. m \in Message /\ m.from = u /\ m.type = type /\ m.secret = Secret(u, v)
  BY <1>1 DEF encrypt_text, Secret, HasSecret, is_peer_known, TypeOK, Peer, Message, MessageTypes
<1>3. \A w, x \in Users : Secret(w, x)' = Secret(w, x)
  BY <1>1, SecretsUnchanged
<1>4. ASSUME Pair(u, v) \notin spoilt'
      PROVE  BothInStep(Waiting(u), Append(Waiting(v), m), Secret(u, v)', Secret(v, u), u, v)
  <2>1. InStep(u, v)
    BY <1>1, <1>4 DEF StepInv
  <2>2. \A j \in DOMAIN Waiting(u) : ~ KeyAt(Waiting(u), v, j)
    BY <1>1, <1>4, NotCrossing
  <2> HIDE DEF m
  <2>3. BothInStep(Waiting(u), Append(Waiting(v), m), Secret(u, v), Secret(v, u), u, v)
    BY <1>1, <1>2, <2>1, <2>2, WaitingType, AddedText DEF InStep
  <2> QED
    BY <1>3, <2>3
<1> HIDE DEF m
<1> QED
  BY <1>1, <1>2, <1>3, <1>4, StepStored

LEMMA StepRequest ==
  ASSUME TypeOK, StepInv, NEW u \in Users, NEW v \in Users, sendSymmetricKeyReqMessage(u, v)
  PROVE  StepInv'
<1> DEFINE m == [type |-> "KEY_REQUEST", from |-> u, secret |-> NoThing]
           p == [peers[u][v] EXCEPT !.asked = TRUE]
<1>1. /\ u # v /\ is_peer_known(u, v)
      /\ peers' = [peers EXCEPT ![u][v] = p]
      /\ Stored(v, m) \/ UNCHANGED mailbox
      /\ UNCHANGED <<batch, spoilt>>
  BY DEF sendSymmetricKeyReqMessage, CanPost, NotStored
<1>2. m \in Message /\ m.from = u /\ m.type = "KEY_REQUEST"
  BY DEF Message, MessageTypes
<1>3. \A w, x \in Users : Secret(w, x)' = Secret(w, x)
  <2>1. p \in Peer /\ peers[u][v] \in Peer
    BY <1>1, KnownType
  <2>2. p.secret = peers[u][v].secret
    BY <2>1 DEF Peer
  <2>3. is_peer_known(u, v) /\ peers' = [peers EXCEPT ![u][v] = p]
    BY <1>1
  <2> HIDE DEF p, m
  <2> QED
    BY <2>1, <2>2, <2>3, SecretsSame, Zenon
<1> HIDE DEF m, p
<1>4. CASE Stored(v, m)
  <2>1. ASSUME Pair(u, v) \notin spoilt'
        PROVE  BothInStep(Waiting(u), Append(Waiting(v), m), Secret(u, v)', Secret(v, u), u, v)
    <3>1. InStep(u, v)
      BY <1>1, <2>1 DEF StepInv
    <3>2. BothInStep(Waiting(u), Append(Waiting(v), m), Secret(u, v), Secret(v, u), u, v)
      BY <1>1, <1>2, <3>1, WaitingType, AddedOther DEF InStep
    <3> QED
      BY <1>3, <3>2
  <2> QED
    BY <1>1, <1>2, <1>3, <1>4, <2>1, StepStored
<1>5. CASE UNCHANGED mailbox
  BY <1>1, <1>3, <1>5, WaitingUnchanged, StepNothing
<1> QED
  BY <1>1, <1>4, <1>5

\* The mail is collected, or lost.
LEMMA StepCollected ==
  ASSUME TypeOK, TypeOK', StepInv, NEW u \in Users, requestPendingMessages(u)
  PROVE  StepInv'
<1>1. /\ batch[u] = <<>> /\ mailbox[u] \in Seq(Message) /\ <<>> \in Seq(Message)
      /\ mailbox'[u] = <<>> /\ UNCHANGED peers
      /\ \A w \in Users : w # u => mailbox'[w] = mailbox[w] /\ batch'[w] = batch[w]
      /\ \/ batch'[u] = mailbox[u] /\ UNCHANGED spoilt
         \/ batch'[u] = <<>> /\ spoilt' = spoilt \cup KeyPairs(u, mailbox[u])
  BY DEF requestPendingMessages, AtPrompt, TypeOK
<1>2. \A w \in Users : w # u => Waiting(w)' = Waiting(w)
  BY <1>1 DEF Waiting
<1>3. Waiting(u) = mailbox[u]
  <2>1. <<>> \o mailbox[u] = mailbox[u]
    BY <1>1, Concatenation
  <2> QED
    BY <1>1, <2>1 DEF Waiting
<1>4. \A w, x \in Users : Secret(w, x)' = Secret(w, x)
  BY <1>1, SecretsUnchanged
<1>5. CASE batch'[u] = mailbox[u] /\ UNCHANGED spoilt
  <2>1. mailbox[u] \o <<>> = mailbox[u]
    BY <1>1, Concatenation
  <2>2. Waiting(u)' = Waiting(u)
    BY <1>1, <1>3, <1>5, <2>1 DEF Waiting
  <2> QED
    BY <1>2, <1>4, <1>5, <2>2, StepNothing
<1>6. CASE batch'[u] = <<>> /\ spoilt' = spoilt \cup KeyPairs(u, mailbox[u])
  <2>1. <<>> \o <<>> = <<>>
    BY <1>1, Concatenation
  <2>2. Waiting(u)' = <<>>
    BY <1>1, <1>6, <2>1 DEF Waiting
  <2>3. Without(Waiting(u), Len(mailbox[u]), Waiting(u)')
    BY <1>1, <1>3, <2>2 DEF Without
  <2>4. \A v \in Users : Pair(u, v) \notin spoilt' =>
          \A j \in 1..Len(mailbox[u]) : ~ KeyAt(Waiting(u), v, j)
    BY <1>3, <1>6, KeyPairsSpoil
  <2> QED
    BY <1>2, <1>4, <1>6, <2>3, <2>4, StepHandled
<1> QED
  BY <1>1, <1>5, <1>6

\* The batch is lost, and with it the secrets, each of which spoils its pair.
LEMMA StepRestart ==
  ASSUME TypeOK, TypeOK', StepInv, NEW u \in Users, restart(u)
  PROVE  StepInv'
<1>1. /\ batch' = [batch EXCEPT ![u] = <<>>] /\ UNCHANGED mailbox
      /\ KeyPairs(u, batch[u]) \subseteq spoilt' /\ spoilt \subseteq spoilt'
      /\ \A v \in Users : HasSecret(u, v) => Pair(u, v) \in spoilt'
  BY DEF restart
<1>2. \A v \in Users : peers'[u][v] = NoThing
  BY DEF restart, TypeOK
<1>3. \A w \in Users : w # u => peers'[w] = peers[w]
  BY DEF restart, TypeOK
<1>4. \A w, x \in Users : Pair(w, x) \notin spoilt' => Secret(w, x)' = Secret(w, x)
  BY <1>1, <1>2, <1>3 DEF Secret, HasSecret, is_peer_known
<1>5. Without(Waiting(u), Len(batch[u]), Waiting(u)')
  BY <1>1, WaitingHandled
<1>6. \A w \in Users : w # u => Waiting(w)' = Waiting(w)
  BY <1>1, WaitingHandled
<1>7. ASSUME NEW v \in Users, Pair(u, v) \notin spoilt', NEW j \in 1..Len(batch[u])
      PROVE  ~ KeyAt(Waiting(u), v, j)
  <2>1. ~ KeyAt(batch[u], v, j)
    BY <1>1, <1>7, KeyPairsSpoil
  <2> QED
    BY <1>1, <2>1, WaitingHandled DEF KeyAt
<1> QED
  BY <1>1, <1>4, <1>5, <1>6, <1>7, StepHandled

LEMMA StepNext == TypeOK /\ TypeOK' /\ StepInv /\ [Next]_vars => StepInv'
<1> SUFFICES ASSUME TypeOK, TypeOK', StepInv, [Next]_vars PROVE StepInv'
  OBVIOUS
<1> USE DEF history
<1>1. ASSUME NEW u \in Users, getPeers(u) PROVE StepInv'
  <2>1. \A w, x \in Users : Secret(w, x)' = Secret(w, x)
    BY <1>1 DEF getPeers, Secret, is_peer_known, new_peer, TypeOK
  <2>2. UNCHANGED <<mailbox, batch, spoilt>>
    BY <1>1 DEF getPeers
  <2> QED
    BY <2>1, <2>2, WaitingUnchanged, StepNothing
<1>2. ASSUME NEW u \in Users, NEW v \in Users, requestPublicKey(u, v) PROVE StepInv'
  <2> DEFINE p == [peers[u][v] EXCEPT !.public = TRUE]
  <2>1. /\ is_peer_known(u, v) /\ peers' = [peers EXCEPT ![u][v] = p]
        /\ UNCHANGED <<mailbox, batch, spoilt>>
    BY <1>2 DEF requestPublicKey
  <2>2. p \in Peer /\ peers[u][v] \in Peer
    BY <2>1, KnownType
  <2>3. p.secret = peers[u][v].secret
    BY <2>2 DEF Peer
  <2> HIDE DEF p
  <2>4. \A w, x \in Users : Secret(w, x)' = Secret(w, x)
    BY <2>1, <2>2, <2>3, SecretsSame, Zenon
  <2> QED
    BY <2>1, <2>4, WaitingUnchanged, StepNothing
<1>3. ASSUME NEW u \in Users, handle_unknown(u) PROVE StepInv'
  <2>1. PICK m \in Message :
          Next_in_batch(u, m) /\ Drop(u) /\ spoilt' = spoilt \cup KeyPairs(u, <<m>>)
    BY <1>3 DEF handle_unknown
  <2>2. m.type = "KEY_SEND" => Pair(u, m.from) \in spoilt'
    BY <2>1 DEF KeyPairs
  <2>3. UNCHANGED <<peers, mailbox>>
    BY <1>3 DEF handle_unknown
  <2> QED
    BY <2>1, <2>2, <2>3, StepLeft
<1>4. ASSUME NEW u \in Users, handle_key_request(u) PROVE StepInv'
  <2>1. PICK m \in Message : Next_in_batch(u, m) /\ m.type = "KEY_REQUEST" /\ Display(u, m)
    BY <1>4 DEF handle_key_request
  <2>2. UNCHANGED <<peers, mailbox, spoilt>>
    BY <1>4 DEF handle_key_request
  <2> QED
    BY <2>1, <2>2, StepLeft
<1>5. ASSUME NEW u \in Users, handle_key(u) PROVE StepInv'
  <2>1. PICK m \in Message :
          /\ Next_in_batch(u, m)
          /\ m.type = "KEY_SEND"
          /\ is_peer_known(u, m.from)
          /\ \/ Accept(u, m.from, m.secret) /\ Display(u, m) /\ UNCHANGED spoilt
             \/ Drop(u) /\ spoilt' = spoilt \cup {Pair(u, m.from)} /\ UNCHANGED peers
    BY <1>5 DEF handle_key, decrypt_key
  <2>2. UNCHANGED mailbox
    BY <1>5 DEF handle_key
  <2>3. CASE Accept(u, m.from, m.secret) /\ Display(u, m) /\ UNCHANGED spoilt
    BY <2>1, <2>2, <2>3, StepAccepted
  <2>4. CASE Drop(u) /\ spoilt' = spoilt \cup {Pair(u, m.from)} /\ UNCHANGED peers
    BY <2>1, <2>2, <2>4, StepLeft
  <2> QED
    BY <2>1, <2>3, <2>4
<1>6. ASSUME NEW u \in Users, handle_undecryptable(u) PROVE StepInv'
  <2>1. PICK m \in Message : Next_in_batch(u, m) /\ m.type # "KEY_SEND" /\ Drop(u)
    BY <1>6 DEF handle_undecryptable
  <2>2. UNCHANGED <<peers, mailbox, spoilt>>
    BY <1>6 DEF handle_undecryptable
  <2> QED
    BY <2>1, <2>2, StepLeft
<1>7. ASSUME NEW u \in Users, handle_text(u) \/ handle_text_of_other_key(u) PROVE StepInv'
  <2>1. PICK m \in Message :
          /\ Next_in_batch(u, m) /\ m.type # "KEY_SEND"
          /\ \/ (Display(u, m) \/ Drop(u)) /\ UNCHANGED spoilt
             \/ Throw(u)
    BY <1>7 DEF handle_text, handle_text_of_other_key
  <2>2. UNCHANGED <<peers, mailbox>> /\ spoilt \subseteq spoilt'
    BY <1>7, <2>1 DEF handle_text, handle_text_of_other_key, Throw
  <2> QED
    BY <2>1, <2>2, StepLeft
<1>8. ASSUME NEW u \in Users, print_messages(u) PROVE StepInv'
  <2>1. UNCHANGED <<peers, mailbox, batch, spoilt>>
    BY <1>8 DEF print_messages
  <2> QED
    BY <2>1, WaitingUnchanged, SecretsUnchanged, StepNothing
<1>9. CASE UNCHANGED vars
  <2>1. UNCHANGED <<peers, mailbox, batch, spoilt>>
    BY <1>9 DEF vars
  <2> QED
    BY <2>1, WaitingUnchanged, SecretsUnchanged, StepNothing
<1> QED
  BY <1>1, <1>2, <1>3, <1>4, <1>5, <1>6, <1>7, <1>8, <1>9,
     StepRequest, StepKey, StepText, StepCollected, StepRestart
  DEF Next, handle_command, handleMessage

\* The secret at a position is the one that Opens speaks of.
LEMMA OpensSecretAt ==
  ASSUME TypeOK, NEW u \in Users, NEW v \in Users, NEW i \in 1..(Len(Waiting(u)) + 1), NEW k,
         Opens(Waiting(u), Secret(u, v), v, i, k)
  PROVE  SecretAt(u, v, i) = k
<1> DEFINE keys == KeysBefore(u, v, i)
           s == Waiting(u)
<1>1. s \in Seq(Message)
  BY WaitingType
<1>2. keys = {j \in 1..(i - 1) : KeyAt(s, v, j)}
  BY <1>1 DEF KeysBefore, From, KeyAt
<1>3. CASE NoKeyBefore(s, v, i) /\ k = Secret(u, v)
  <2>1. keys = {}
    BY <1>2, <1>3 DEF NoKeyBefore
  <2> QED
    BY <1>3, <2>1 DEF SecretAt
<1>4. ASSUME NEW j \in 1..(i - 1), KeyAt(s, v, j), s[j].secret = k,
             \A l \in (j + 1)..(i - 1) : ~ KeyAt(s, v, l)
      PROVE  SecretAt(u, v, i) = k
  <2>1. j \in keys /\ \A l \in keys : l <= j
    BY <1>2, <1>4
  <2>2. \A n \in keys : (\A l \in keys : l <= n) => n = j
    BY <1>2, <2>1
  <2>3. (CHOOSE n \in keys : \A l \in keys : l <= n) = j
    BY <2>1, <2>2
  <2> QED
    BY <1>4, <2>1, <2>3 DEF SecretAt
<1> QED
  BY <1>3, <1>4 DEF Opens

\* However the clients interleave, whoever else takes part and whatever fails: as long
\* as the exchange of two clients is not spoilt, each text that waits for one of them
\* is reached with the secret that opens it.
THEOREM TextsStayReadable == Spec => []TextsReadable
<1>1. TypeOK /\ StepInv => TextsReadable
  <2> SUFFICES ASSUME TypeOK, StepInv, NEW u \in Users, NEW v \in Users,
                      Pair(u, v) \notin spoilt, NEW i \in From(u, v),
                      Waiting(u)[i].type \in {"TEXT", "FILE"}
               PROVE  Waiting(u)[i].secret = SecretAt(u, v, i)
    BY DEF TextsReadable
  <2>1. u # v
    BY DEF StepInv, NotFromSelf
  <2>2. Opens(Waiting(u), Secret(u, v), v, i, Waiting(u)[i].secret)
    BY <2>1 DEF StepInv, InStep, BothInStep, HalfInStep, From
  <2>3. i \in 1..(Len(Waiting(u)) + 1)
    BY WaitingType DEF From
  <2> QED
    BY <2>2, <2>3, OpensSecretAt
<1> QED
  BY <1>1, InitType, NextType, InitStep, StepNext, PTL DEF Spec

\* Under the same conditions two clients between which no key is under way hold the
\* same secret, or neither holds one.
THEOREM KeysStayAgreed == Spec => []KeysAgree
<1>1. TypeOK /\ StepInv => KeysAgree
  <2> SUFFICES ASSUME TypeOK, StepInv, NEW u \in Users, NEW v \in Users, u # v,
                      Pair(u, v) \notin spoilt,
                      "KEY_SEND" \notin TypesFrom(u, v) \cup TypesFrom(v, u)
               PROVE  Secret(u, v) = Secret(v, u)
    BY DEF KeysAgree
  <2>1. \A j : ~ KeyAt(Waiting(u), v, j) /\ ~ KeyAt(Waiting(v), u, j)
    BY DEF TypesFrom, From, KeyAt
  <2>2. Opens(Waiting(v), Secret(v, u), u, Len(Waiting(v)) + 1, Secret(u, v))
    BY <2>1 DEF StepInv, InStep, BothInStep, HalfInStep
  <2> QED
    BY <2>1, <2>2 DEF Opens
<1> QED
  BY <1>1, InitType, NextType, InitStep, StepNext, PTL DEF Spec
=============================================================================
