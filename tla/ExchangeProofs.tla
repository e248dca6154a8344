--------------------------- MODULE ExchangeProofs ---------------------------
(***************************************************************************)
(* Theorems about Exchange, for every size of requests, responses and      *)
(* buffers.                                                                *)
(*                                                                         *)
(* Each safety property speaks of one end of the connection and must be    *)
(* carried through the steps of the other.  The invariant says what each   *)
(* end may rely on: nothing is answered before the handler has run, a      *)
(* response that is no error comes from a handler that has run, and a      *)
(* client that still writes, or gave up writing, has not written it all.   *)
(***************************************************************************)
EXTENDS Exchange, TLAPS

\* The thread has not got to the handler yet.
Unanswered == server \in {"recv_header", "recv_payload", "process"}

ServerInv ==
  /\ Unanswered => handler = "waiting" /\ answer = 0
  /\ answer > 0 /\ code = "expected" => handler = "done"
  /\ handler = "done" => received = asked

ClientInv ==
  /\ client = "write" => written < asked
  /\ outcome = "send_failed" => written < asked
  /\ outcome # "none" => client = "done"
  /\ client \in {"write", "read_first"} => got = 0
  /\ client = "read_rest" => answer > 0 /\ code = "expected"
  /\ outcome = "ok" => answer > 0 /\ code = "expected" /\ got = answer

ExchangeInv == TypeOK /\ ServerInv /\ ClientInv

-----------------------------------------------------------------------------

\* Before the first step nothing was written, executed or answered.
LEMMA ExchangeInit == Init => ExchangeInv
BY SizesAssumption
DEF Init, ExchangeInv, TypeOK, ServerInv, ClientInv, Unanswered, Outcomes

\* A read returns no more than there is.
LEMMA ChunkBound ==
  ASSUME NEW n \in Nat, NEW k \in Chunk(n)
  PROVE  k \in Nat /\ 0 < k /\ k <= n
BY SizesAssumption DEF Chunk

\* The client's steps.
LEMMA ClientStep ==
  ASSUME ExchangeInv, client_thread
  PROVE  ExchangeInv'
<1> USE DEF ExchangeInv
<1>1. CASE send_request
  <2>1. written' \in 0..asked /\ written <= written'
    BY <1>1 DEF send_request, TypeOK
  <2>2. client' = "write" => written' < asked
    BY <1>1, <2>1 DEF send_request, TypeOK
  <2> QED
    BY <1>1, <2>1, <2>2
    DEF send_request, TypeOK, ServerInv, ClientInv, Unanswered, request, reply
<1>2. CASE send_request_fails
  BY <1>2
  DEF send_request_fails, Return, TypeOK, Outcomes, ServerInv, ClientInv, Unanswered,
      request, reply
<1>3. CASE receive_fails
  BY <1>3
  DEF receive_fails, Return, TypeOK, Outcomes, ServerInv, ClientInv, Unanswered,
      request, reply
<1>4. ASSUME NEW n \in 0..BufferSize, read_first(n) PROVE ExchangeInv'
  <2>1. got = 0 /\ sent - got \in Nat
    BY <1>4 DEF read_first, ClientInv, TypeOK
  <2>2. n \in Nat /\ n <= sent
    BY <1>4, <2>1, ChunkBound DEF read_first, TypeOK
  <2>3. got' = n
    BY <1>4, <2>1, <2>2 DEF read_first
  <2>4. n >= ResponseHeader => answer > 0
    BY <2>2, SizesAssumption DEF TypeOK
  <2>5. outcome = "none"
    BY <1>4 DEF read_first, ClientInv
  <2>6. \/ client' = "done" /\ outcome' \in Outcomes \ {"ok", "none", "send_failed"}
        \/ client' = "read_rest" /\ outcome' = "none" /\ n >= ResponseHeader /\ code = "expected"
        \/ client' = "done" /\ outcome' = "ok" /\ n >= ResponseHeader /\ code = "expected" /\ ~ (n < answer)
    BY <1>4, <2>5 DEF read_first, Return, Outcomes
  <2>7. /\ UNCHANGED <<expects, asked, written, received, link, server, sent>>
        /\ UNCHANGED <<handler, code, answer>>
    BY <1>4 DEF read_first, request, reply
  <2>8. ~ (n < answer) => n = answer
    BY <2>2 DEF TypeOK
  <2>9. TypeOK'
    BY <2>2, <2>3, <2>6, <2>7 DEF TypeOK, Outcomes
  <2>10. ServerInv'
    BY <2>7 DEF ServerInv, Unanswered
  <2>11. ClientInv'
    BY <2>3, <2>4, <2>6, <2>7, <2>8 DEF ClientInv
  <2> QED
    BY <2>9, <2>10, <2>11
<1>5. ASSUME NEW n \in 0..BufferSize, read_rest(n) PROVE ExchangeInv'
  <2>1. n \in Nat /\ n <= sent - got
    BY <1>5, ChunkBound DEF read_rest, TypeOK
  <2>2. got' \in 0..sent
    BY <1>5, <2>1 DEF read_rest, TypeOK
  <2> QED
    BY <1>5, <2>2
    DEF read_rest, TypeOK, ServerInv, ClientInv, Unanswered, request, reply
<1>6. CASE read_complete
  <2>1. got = answer
    BY <1>6 DEF read_complete, TypeOK
  <2> QED
    BY <1>6, <2>1
    DEF read_complete, Return, TypeOK, Outcomes, ServerInv, ClientInv, Unanswered,
        request, reply
<1> QED
  BY <1>1, <1>2, <1>3, <1>4, <1>5, <1>6 DEF client_thread

\* The server's steps, and the connection's.
LEMMA ServerStep ==
  ASSUME ExchangeInv, handle_connection \/ connection_breaks
  PROVE  ExchangeInv'
<1> USE DEF ExchangeInv
<1>1. CASE recv_header
  <2>1. PICK n \in Chunk(written - received) :
          /\ received' = received + n
          /\ IF n < RequestHeader THEN Close ELSE server' = "recv_payload" /\ UNCHANGED link
    BY <1>1 DEF recv_header
  <2>2. received' \in 0..written
    BY <2>1, ChunkBound DEF TypeOK
  <2>3. server' \in {"closed", "recv_payload"} /\ link' \in {"up", "finished", "broken"}
    BY <2>1 DEF Close, TypeOK
  <2> QED
    BY <1>1, <2>2, <2>3
    DEF recv_header, TypeOK, ServerInv, ClientInv, Unanswered, request, reply
<1>2. CASE recv_payload
  <2>1. received' \in 0..written
    <3>1. ASSUME NEW n \in Chunk(written - received), received' = received + n
          PROVE  received' \in 0..written
      BY <3>1, ChunkBound DEF TypeOK
    <3> QED
      BY <1>2, <3>1 DEF recv_payload, TypeOK
  <2> QED
    BY <1>2, <2>1
    DEF recv_payload, TypeOK, ServerInv, ClientInv, Unanswered, request, reply
<1>3. CASE recv_ends
  BY <1>3
  DEF recv_ends, Close, TypeOK, ServerInv, ClientInv, Unanswered, request, reply
<1>4. CASE handle_request
  <2>1. /\ answer' \in Nat /\ code' \in {"expected", "error"}
        /\ handler' \in {"waiting", "done"}
        /\ handler' = "done" => received = asked
        /\ code' = "expected" => handler' = "done"
    BY <1>4, SizesAssumption
    DEF handle_request, Answer, from_bytes_accepts, TypeOK, ServerInv, Unanswered
  <2>2. answer = 0 /\ sent = 0 /\ got = 0
    BY <1>4 DEF handle_request, ServerInv, Unanswered, TypeOK
  <2> QED
    BY <1>4, <2>1, <2>2
    DEF handle_request, TypeOK, ServerInv, ClientInv, Unanswered, request
<1>5. CASE sendall
  <2>1. sent' \in 0..answer /\ sent <= sent'
    BY <1>5 DEF sendall, TypeOK
  <2>2. /\ server' \in {"sendall", "closed"} /\ link' \in {"up", "finished", "broken"}
        /\ UNCHANGED received
    BY <1>5 DEF sendall, Close
  <2> QED
    BY <1>5, <2>1, <2>2
    DEF sendall, TypeOK, ServerInv, ClientInv, Unanswered, request, reply
<1>6. CASE sendall_raises
  BY <1>6
  DEF sendall_raises, Close, TypeOK, ServerInv, ClientInv, Unanswered, request, reply
<1>7. CASE connection_breaks
  BY <1>7
  DEF connection_breaks, TypeOK, ServerInv, ClientInv, Unanswered, request, reply
<1> QED
  BY <1>1, <1>2, <1>3, <1>4, <1>5, <1>6, <1>7 DEF handle_connection

\* The invariant holds in every state.
LEMMA ExchangeInvariant == Spec => []ExchangeInv
<1>1. ExchangeInv /\ [Next]_vars => ExchangeInv'
  <2> SUFFICES ASSUME ExchangeInv, [Next]_vars PROVE ExchangeInv'
    OBVIOUS
  <2>1. CASE Next
    BY <2>1, ClientStep, ServerStep DEF Next
  <2>2. CASE UNCHANGED vars
    BY <2>2 DEF vars, ExchangeInv, TypeOK, ServerInv, ClientInv, Unanswered
  <2> QED
    BY <2>1, <2>2
<1> QED
  BY <1>1, ExchangeInit, PTL DEF Spec

\* No counter passes the one it follows: the server has read no more than was
\* written, the client no more than was sent, whatever the sizes.
THEOREM ExchangeTypeCorrect == Spec => []TypeOK
<1>1. ExchangeInv => TypeOK
  BY DEF ExchangeInv
<1> QED
  BY <1>1, ExchangeInvariant, PTL

\* recieve_response accepts complete responses of executed requests only.
THEOREM AcceptedIsDone == Spec => []AcceptedMeansDone
<1>1. ExchangeInv => AcceptedMeansDone
  BY DEF ExchangeInv, TypeOK, ServerInv, ClientInv, AcceptedMeansDone
<1> QED
  BY <1>1, ExchangeInvariant, PTL

\* A request whose sending failed was not executed and never will be: what arrived
\* of it is not the whole, and Request.from_bytes lets no part through to a handler.
THEOREM RetryOfUnsentIsSafe == Spec => []RetryIsSafe
<1>1. ExchangeInv => RetryIsSafe
  BY DEF ExchangeInv, TypeOK, ServerInv, ClientInv, RetryIsSafe
<1> QED
  BY <1>1, ExchangeInvariant, PTL
=============================================================================
