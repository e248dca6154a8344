------------------------------ MODULE Exchange ------------------------------
(***************************************************************************)
(* One connection, byte by byte: the client sends a request and waits for  *)
(* the response (client/client_net.cpp), a server thread reads the request *)
(* and answers it (handle_connection and handle_request of                 *)
(* server/server.py, Request of server/protocol/objects.py).               *)
(*                                                                         *)
(* The contents are abstracted to the number of bytes: TCP delivers them   *)
(* in order, in pieces that neither side chooses.  What is kept is every   *)
(* place where the two programs count bytes.  What the request does to     *)
(* the server's state is the subject of module Server; here the handler    *)
(* of the request either did its work or did not.                          *)
(***************************************************************************)
EXTENDS Integers

CONSTANTS
  RequestHeader,    \* bytes of a request header
  ResponseHeader,   \* bytes of a response header
  MaxPayload,       \* bound: bytes of a payload
  BufferSize,       \* most bytes that one read returns
  MayBreak          \* a process may die, or the connection be reset

ASSUME SizesAssumption ==
  /\ RequestHeader \in Nat \ {0}
  /\ ResponseHeader \in Nat \ {0}
  /\ MaxPayload \in Nat
  /\ BufferSize \in Nat \ {0}
  /\ RequestHeader <= BufferSize
  /\ ResponseHeader <= BufferSize
  /\ MayBreak \in BOOLEAN

VARIABLES
  expects,    \* the client expects a response of "fixed" or "variable" length
  asked,      \* bytes of the request, as its header announces
  written,    \* bytes of it the client has written
  received,   \* bytes of it the server has read
  link,       \* "up", "finished" (the server closed it) or "broken"
  server,     \* what the server thread is about to do
  handler,    \* the handler of the request is "waiting" for it or has "done" its work
  code,       \* response code: "none" yet, the "expected" one or "error"
  answer,     \* bytes of the response, as its header announces
  sent,       \* bytes of it the server has sent
  client,     \* what the client is about to do
  got,        \* bytes of it the client has read
  outcome     \* what send_request_and_get_response returned or threw

request == <<expects, asked>>
reply == <<handler, code, answer>>
vars == <<expects, asked, written, received, link, server, handler, code,
          answer, sent, client, got, outcome>>

\* The exceptions of client_net.cpp by their texts.
Outcomes == {"none", "ok", "send_failed", "receive_failed",
             "too_small", "wrong_size", "server_error", "corrupted"}

TypeOK ==
  /\ expects \in {"fixed", "variable"}
  /\ asked \in Nat
  /\ written \in 0..asked
  /\ received \in 0..written
  /\ link \in {"up", "finished", "broken"}
  /\ server \in {"recv_header", "recv_payload", "process", "sendall", "closed"}
  /\ handler \in {"waiting", "done"}
  /\ code \in {"none", "expected", "error"}
  /\ answer \in Nat
  /\ sent \in 0..answer
  /\ client \in {"write", "read_first", "read_rest", "done"}
  /\ got \in 0..sent
  /\ outcome \in Outcomes

Init ==
  /\ expects \in {"fixed", "variable"}
  /\ asked \in RequestHeader..(RequestHeader + MaxPayload)
  /\ written = 0
  /\ received = 0
  /\ link = "up"
  /\ server = "recv_header"
  /\ handler = "waiting"
  /\ code = "none"
  /\ answer = 0
  /\ sent = 0
  /\ client = "write"
  /\ got = 0
  /\ outcome = "none"

-----------------------------------------------------------------------------
(* The client. *)

\* Faulty variant: the whole buffer counts, not what was read into it.
WholeBuffer(n) == 1..BufferSize

\* The sizes one read may return when n bytes wait for it.
Chunk(n) == 1..(IF n < BufferSize THEN n ELSE BufferSize)

Return(result) == client' = "done" /\ outcome' = result

\* boost::asio::write puts the request on the wire piece by piece.  A piece
\* written after the server closed is accepted, and answered with a reset.
send_request ==
  /\ client = "write"
  /\ link # "broken"
  /\ \E n \in 1..(asked - written) : written' = written + n
  /\ link' = IF link = "finished" THEN "broken" ELSE link
  /\ client' = IF written' = asked THEN "read_first" ELSE "write"
  /\ UNCHANGED <<request, received, server, reply, sent, got, outcome>>

\* Faulty variant: an error while waiting for the response is reported as one
\* of sending, as if both calls were in one try block.
send_or_receive_fails ==
  /\ client \in {"write", "read_first"}
  /\ link = "broken"
  /\ Return("send_failed")
  /\ UNCHANGED <<request, written, received, link, server, reply, sent, got>>

\* The connection was reset before the last byte was written.
send_request_fails ==
  /\ client = "write"
  /\ link = "broken"
  /\ Return("send_failed")
  /\ UNCHANGED <<request, written, received, link, server, reply, sent, got>>

\* read_some reports an error that is not end of file; a reset discards what
\* has not been read.
receive_fails ==
  /\ client = "read_first"
  /\ link = "broken"
  /\ Return("receive_failed")
  /\ UNCHANGED <<request, written, received, link, server, reply, sent, got>>

\* Faulty variant: responses of fixed length are read in the loop too.
SizeOfAnyLength(n) == n <= answer

\* validate_size, on the first n bytes and the length their header announces.
SizeAccepted(n) == n = answer \/ (expects = "variable" /\ n < answer)

\* The first read of n bytes; n = 0 at end of file.
read_first(n) ==
  /\ client = "read_first"
  /\ \/ n \in Chunk(sent - got)
     \/ n = 0 /\ sent = got /\ link = "finished"
  /\ got' = got + n
  /\ \/ n < ResponseHeader /\ Return("too_small")
     \/ n >= ResponseHeader /\ ~ SizeAccepted(n) /\ Return("wrong_size")
     \/ n >= ResponseHeader /\ SizeAccepted(n) /\ code = "error" /\ Return("server_error")
     \/ /\ n >= ResponseHeader /\ SizeAccepted(n) /\ code = "expected"
        /\ IF n < answer THEN client' = "read_rest" /\ UNCHANGED outcome ELSE Return("ok")
  /\ UNCHANGED <<request, written, received, link, server, reply, sent>>

\* The loop of recieve_response while the response is short.  It does not look
\* at the error: at the end of the stream read_some returns 0 again and again.
read_rest(n) ==
  /\ client = "read_rest"
  /\ got < answer
  /\ \/ n \in Chunk(sent - got)
     \/ n = 0 /\ (link = "broken" \/ (link = "finished" /\ sent = got))
  /\ got' = got + n
  /\ UNCHANGED <<request, written, received, link, server, reply, sent, client, outcome>>

\* Faulty variant: the loop ends at the end of the stream, with no test behind it.
read_unchecked ==
  /\ client = "read_rest"
  /\ got >= answer \/ link # "up"
  /\ Return("ok")
  /\ UNCHANGED <<request, written, received, link, server, reply, sent, got>>

\* The test behind the loop, and the return.
read_complete ==
  /\ client = "read_rest"
  /\ got >= answer
  /\ Return(IF got # answer THEN "corrupted" ELSE "ok")
  /\ UNCHANGED <<request, written, received, link, server, reply, sent, got>>

-----------------------------------------------------------------------------
(* The server thread. *)

\* `with conn` closes the socket.  Unread bytes of the request turn the end of
\* the stream into a reset.
Close ==
  /\ server' = "closed"
  /\ link' \in IF link # "up" THEN {link}
               ELSE IF received' < written THEN {"finished", "broken"}
               ELSE {"finished"}

\* The one recv before read_header, which raises outside the try when it got
\* too little: the thread ends without an answer.
recv_header ==
  /\ server = "recv_header"
  /\ \E n \in Chunk(written - received) :
       /\ received' = received + n
       /\ IF n < RequestHeader THEN Close
          ELSE server' = "recv_payload" /\ UNCHANGED link
  /\ UNCHANGED <<request, written, reply, sent, client, got, outcome>>

\* Faulty variant: the loop waits for one byte more than was announced.
recv_one_too_many ==
  /\ server = "recv_payload"
  /\ IF received <= asked
     THEN /\ \E n \in Chunk(written - received) : received' = received + n
          /\ UNCHANGED server
     ELSE server' = "process" /\ UNCHANGED received
  /\ UNCHANGED <<request, written, link, reply, sent, client, got, outcome>>

\* The loop: while data and len(request_bytes) < header_size + payload_size.
recv_payload ==
  /\ server = "recv_payload"
  /\ IF received < asked
     THEN /\ \E n \in Chunk(written - received) : received' = received + n
          /\ UNCHANGED server
     ELSE server' = "process" /\ UNCHANGED received
  /\ UNCHANGED <<request, written, link, reply, sent, client, got, outcome>>

\* The client has closed the connection, or it broke: recv returns nothing or
\* raises, with what arrived before perhaps still unread.
ClientEnded == link = "broken" \/ (client = "done" /\ received = written)

\* Faulty variant: `while len(request_bytes) < ...`, without `data and`.
recv_never_ends ==
  /\ ClientEnded
  /\ UNCHANGED received
  /\ server = "recv_header"
  /\ Close
  /\ UNCHANGED <<request, written, reply, sent, client, got, outcome>>

recv_ends ==
  /\ ClientEnded
  /\ UNCHANGED received
  /\ \/ /\ server = "recv_header" /\ Close
     \/ /\ server = "recv_payload" /\ received < asked
        /\ \/ Close
           \/ server' = "process" /\ UNCHANGED link
  /\ UNCHANGED <<request, written, reply, sent, client, got, outcome>>

\* Faulty variant: a payload that stopped early is accepted.
from_bytes_trusts == received <= asked

\* Request.from_bytes compares the size with the header's.
from_bytes_accepts == received = asked

Answer(response_code, length) == code' = response_code /\ answer' = length

\* from_bytes and the handler.  An error response has no payload; a handler
\* that raises may have done its work before.
handle_request ==
  /\ server = "process"
  /\ server' = "sendall"
  /\ \/ /\ from_bytes_accepts
        /\ handler' = "done"
        /\ \E length \in ResponseHeader..(ResponseHeader + MaxPayload) : Answer("expected", length)
     \/ /\ from_bytes_accepts
        /\ handler' \in {"waiting", "done"}
        /\ Answer("error", ResponseHeader)
     \/ /\ ~ from_bytes_accepts
        /\ UNCHANGED handler
        /\ Answer("error", ResponseHeader)
  /\ UNCHANGED <<request, written, received, link, sent, client, got, outcome>>

\* sendall sends the response piece by piece; then the thread ends.
sendall ==
  /\ server = "sendall"
  /\ link = "up"
  /\ client # "done"
  /\ IF sent < answer
     THEN /\ \E n \in 1..(answer - sent) : sent' = sent + n
          /\ UNCHANGED <<received, link, server>>
     ELSE UNCHANGED <<received, sent>> /\ Close
  /\ UNCHANGED <<request, written, reply, client, got, outcome>>

\* sendall raises, and so does the one that is to carry the error response.
sendall_raises ==
  /\ server = "sendall"
  /\ link # "up" \/ client = "done"
  /\ UNCHANGED received
  /\ Close
  /\ UNCHANGED <<request, written, reply, sent, client, got, outcome>>

\* Either process dies or the connection is reset, before the server has closed it
\* or after.  The other side finds the end of the stream or a reset behind the bytes
\* that arrived before.
connection_breaks ==
  /\ MayBreak
  /\ link # "broken"
  /\ \/ link' = "broken" /\ UNCHANGED server
     \/ link' \in {"broken", "finished"} /\ server' = "closed"
  /\ UNCHANGED <<request, written, received, reply, sent, client, got, outcome>>

-----------------------------------------------------------------------------
client_thread ==
  \/ send_request
  \/ send_request_fails
  \/ receive_fails
  \/ \E n \in 0..BufferSize : read_first(n)
  \/ \E n \in 0..BufferSize : read_rest(n)
  \/ read_complete

handle_connection ==
  \/ recv_header
  \/ recv_payload
  \/ recv_ends
  \/ handle_request
  \/ sendall
  \/ sendall_raises

Next ==
  \/ client_thread
  \/ handle_connection
  \/ connection_breaks

Spec == Init /\ [][Next]_vars

\* Both threads are scheduled, and bytes on the wire arrive.  Nothing makes a
\* connection break.
FairSpec == Spec /\ WF_vars(client_thread) /\ WF_vars(handle_connection)

-----------------------------------------------------------------------------
(* Properties. *)

\* A response the client accepts is the whole response of an executed request:
\* Response's constructor copies as many bytes as the header announces, and
\* they were all received.
AcceptedMeansDone ==
  outcome = "ok" => handler = "done" /\ code = "expected" /\ got = answer /\ sent = answer

\* Of the errors after a connection was made, "sending request failed"
\* (client_net.cpp:43) is the one after which a user may repeat a command
\* without the risk that it is executed twice: the server has not executed the
\* request, nor the part of it that arrived, then or later.
RetryIsSafe == outcome = "send_failed" => handler = "waiting"

\* client_net.cpp:30 says "Wrong size of response": the server has then not sent
\* the response its header announces.
WrongSizeIsWrong == outcome = "wrong_size" => sent < answer

\* The server thread ends once the client stops writing or the connection ends.
ThreadEnds == <>(server = "closed")

\* A call that expects a fixed-length response returns.
FixedCallReturns == expects = "fixed" ~> client = "done"

\* Every call returns, unless the response is cut short: the connection breaks
\* or the server thread dies before it sent the last byte ...
CutShort == link = "broken" \/ (server = "closed" /\ sent < answer)

CallReturns == <>(client = "done" \/ CutShort)

\* ... and, as client_net.cpp:65-66 has it, a response that stays shorter than
\* its header announces is reported to the caller.
ShortResponseReported ==
  (client = "read_rest" /\ server = "closed" /\ sent < answer) ~> client = "done"
=============================================================================
