----------------------------- MODULE Collection -----------------------------
(***************************************************************************)
(* What becomes of the length of a message, from the client that sends it  *)
(* (client/AESWrapper.cpp, encrypt; client/objects.cpp, Message;           *)
(* client/client.cpp, sendMessage) through the server                      *)
(* (server/protocol/objects.py, Message; handle_pending_messeges of        *)
(* server/server.py) to the loop in which a registered process of module   *)
(* Startup takes a collection apart (client/client.cpp,                    *)
(* requestPendingMessages).                                                *)
(*                                                                         *)
(* A message is two lengths: of what its sender meant, and of the content  *)
(* that is stored.  The payload of a collection is the sequence of         *)
(* its messages, each a header and a content; the loop knows no messages,  *)
(* only an offset in bytes.  Requests and responses arrive whole, which is *)
(* the subject of module Exchange, or a collection is lost.                *)
(***************************************************************************)
EXTENDS Startup

CONSTANTS
  Width,                  \* values of uint32_t, and of "<I"
  MessageHeader,          \* sizeof(MessageHeader)
  RecievedMessageHeader,  \* sizeof(RecievedMessageHeader)
  MaxBlob,                \* longest blob of an SQLite database
  Block,                  \* CryptoPP::AES::BLOCKSIZE
  PlainLengths,           \* lengths of the texts and files that are sent
  KeyContents,            \* lengths of the contents of key messages
  MaxPosts                \* bound: messages that are stored

ASSUME CollectionAssumption ==
  /\ Width \in Nat /\ MaxBlob \in Nat /\ MaxPosts \in Nat
  /\ Block \in Nat \ {0} /\ PlainLengths \subseteq Nat /\ KeyContents \subseteq Nat
  /\ MessageHeader \in Nat \ {0} /\ RecievedMessageHeader \in Nat \ {0}
  /\ MaxBlob + RecievedMessageHeader < Width

VARIABLES
  mailbox,    \* messages waiting for each identifier
  posted,     \* number of messages stored
  payload,    \* messages of the collection in hand, if there is one
  offset,     \* res_payload of the loop
  parsed      \* lengths of the messages handed to handleMessage

collectionVars == <<mailbox, posted, payload, offset, parsed>>
vars == <<startupVars, collectionVars>>

CollectionInit ==
  /\ mailbox = [k \in 1..MaxKeys |-> <<>>]
  /\ posted = 0
  /\ payload = <<>> /\ offset = 0 /\ parsed = <<>>

-----------------------------------------------------------------------------
(* A message is sent. *)

\* CBC mode with padding completes the last block, or adds one.
sealed(n) == Block * ((n \div Block) + 1)

\* encrypt takes the length of its string as an unsigned int: of a longer string it
\* encrypts the beginning, and nothing tells.
encrypt(n) == sealed(n % Width)

\* Faulty variant: the cast is not checked.
content_size_unchecked(n) == {n % Width}

\* The constructor of Message casts the length of a content, and throws if that
\* changed it.
content_size(n) == {n % Width} \cap {n}

\* In the 64 bits of size_t.
size_in_bytes(size) == MessageHeader + size

Sendable(size) == size_in_bytes(size) <= Width - 1

\* The 32 bits of payload_size are what is sent; Message.__init__ compares the
\* content that came with the length in its header.
Accepted(size) == (size_in_bytes(size) % Width) - MessageHeader = size

\* A peer that meant n bytes sends a content of this length to an identifier of this
\* installation, and the server stores it.
sendMessage(text_or_file, n, length) ==
  /\ posted < MaxPosts
  /\ \E e \in enrolled, size \in content_size(length) :
       /\ Sendable(size)
       /\ Accepted(size)
       /\ size <= MaxBlob
       /\ mailbox' = [mailbox EXCEPT ![e.key] = Append(@, [text |-> text_or_file, meant |-> n, size |-> size])]
  /\ posted' = posted + 1
  /\ UNCHANGED <<startupVars, payload, offset, parsed>>

\* Commands 150 and 153.
sendTextMessage(n) == sendMessage(TRUE, n, encrypt(n))

\* Commands 151 and 152: no content, or one RSA block.
sendKeyMessage(n) == sendMessage(FALSE, n, n)

-----------------------------------------------------------------------------
(* A collection. *)

\* Where each of the messages s ends, one after the other, and where the last does.
Ends(s) ==
  LET end[i \in 0..Len(s)] == IF i = 0 THEN 0 ELSE end[i - 1] + RecievedMessageHeader + s[i].size
  IN  end

Total(s) == Ends(s)[Len(s)]

\* Faulty variant: the length that is announced counts the header.
announced_with_header(m) == RecievedMessageHeader + m.size

\* convert_message_from_db_to_bytes is given the length of the content.
Announced(m) == m.size

\* Faulty variant: the length of the response is not bounded.
packs_anything(size) == TRUE

\* Response.to_bytes: struct.pack takes 32 bits.
Packs(size) == size < Width

Mine == me.key

\* Command 140, and the server's answer; the mailbox is empty whatever becomes of it.
requestPendingMessages ==
  /\ phase = "prompt" /\ me.registered
  /\ payload = <<>>
  /\ mailbox' = [mailbox EXCEPT ![Mine] = <<>>]
  /\ \/ /\ Packs(Total(mailbox[Mine]))
        /\ mailbox[Mine] # <<>>
        /\ payload' = mailbox[Mine]
     \/ UNCHANGED payload
  /\ UNCHANGED <<startupVars, posted, offset, parsed>>

Through == payload' = <<>> /\ offset' = 0 /\ parsed' = <<>>

\* The content_size a header at this offset has: what a message announces, or,
\* anywhere else, whatever bytes are there.
HeaderAt(o) ==
  LET here == {i \in DOMAIN payload : Ends(payload)[i - 1] = o}
  IN  IF here = {} THEN 0..(Width - 1) ELSE {Announced(payload[i]) : i \in here}

\* Faulty variant: the loop goes on after the content.
without_header(o, size) == o + size

NextMessage(o, size) == o + RecievedMessageHeader + size

\* One turn of the loop.  handleMessage may throw.
handleMessage ==
  /\ payload # <<>>
  /\ offset < Total(payload)
  /\ \E size \in HeaderAt(offset) :
       \/ /\ NextMessage(offset, size) <= Total(payload)
          /\ offset' = NextMessage(offset, size)
          /\ parsed' = Append(parsed, size)
          /\ UNCHANGED payload
       \/ Through
  /\ UNCHANGED <<startupVars, mailbox, posted>>

printMessages ==
  /\ payload # <<>>
  /\ offset >= Total(payload)
  /\ Through
  /\ UNCHANGED <<startupVars, mailbox, posted>>

-----------------------------------------------------------------------------
(* A step of the process; the collection in hand goes with it. *)

process_ends ==
  /\ ends
  /\ Through
  /\ UNCHANGED <<mailbox, posted>>

process_runs ==
  /\ \/ read_server_info
     \/ construct
     \/ registerClient
     \/ write_file \/ write \/ close
  /\ UNCHANGED collectionVars

Init == StartupInit /\ CollectionInit

Next ==
  \/ process_runs
  \/ process_ends
  \/ \E n \in PlainLengths : sendTextMessage(n)
  \/ \E n \in KeyContents : sendKeyMessage(n)
  \/ requestPendingMessages
  \/ handleMessage
  \/ printMessages

Spec == Init /\ [][Next]_vars

-----------------------------------------------------------------------------
(* Properties. *)

Message == [text : BOOLEAN, meant : PlainLengths \cup KeyContents, size : 0..MaxBlob]

CollectionTypeOK ==
  /\ mailbox \in [1..MaxKeys -> Seq(Message)]
  /\ posted \in 0..MaxPosts
  /\ payload \in Seq(Message)
  /\ offset \in 0..(Width - 1)
  /\ parsed \in Seq(0..(Width - 1))
  /\ payload # <<>> => phase = "prompt" /\ me.registered

\* The length of the content that holds all its sender meant.
whole(m) == IF m.text THEN sealed(m.meant) ELSE m.meant

\* What the recipient is handed, and decrypts, is the content of all its sender meant
\* if that was shorter than 2^32 bytes: neither the padding, which makes the longest
\* of them one byte too long for the header, nor any length on the way changes it.
ReadAsMeant ==
  \A i \in DOMAIN parsed :
    payload[i].meant < Width => parsed[i] = whole(payload[i])

\* The loop reads a header before it tests any length: the header lies within
\* the payload all the same, because the server sends whole messages.
ReadsInside ==
  payload # <<>> /\ offset < Total(payload) =>
    offset + RecievedMessageHeader <= Total(payload)

\* The loop finds the messages the server has put one after the other: each once,
\* in order, with its length, and all of them if it comes to the end.
ParsedInOrder ==
  /\ \A i \in DOMAIN parsed : i \in DOMAIN payload /\ parsed[i] = payload[i].size
  /\ offset = Total(payload) => Len(parsed) = Len(payload)
=============================================================================
