------------------------------- MODULE OcspFetch -------------------------------
(***************************************************************************)
(* One exchange with an OCSP responder (sslutils.c): get_ocsp_response     *)
(* with make_socket, ocsp_send_req and ocsp_get_resp.  The peer decides    *)
(* how many bytes a send takes and a receive returns, when it closes and   *)
(* when a call fails or times out.  Lengths are real, contents are not     *)
(* modelled: parse_ocsp_resp finds a response in the bytes or does not.    *)
(***************************************************************************)
EXTENDS Integers

CONSTANTS
  SendBuffer,    \* TCN_BUFFER_SZ, the chunk in which the request is sent
  BufferSize,    \* BUFFER_SIZE, the size of tmpbuf and the first size of buf
  MaxResponse,   \* OCSP_MAX_RESPONSE_SIZE
  ReqLen         \* length of the serialised request

ASSUME SizesAssumption ==
  /\ SendBuffer \in Nat \ {0}
  /\ BufferSize \in Nat \ {0}
  /\ MaxResponse \in Nat
  /\ ReqLen \in Nat

VARIABLES
  pc,         \* where get_ocsp_response is
  bioReq,     \* the request BIO is allocated
  mp,         \* the pool of the exchange exists
  sock,       \* the socket is open
  left,       \* bytes still in the request BIO
  remain,     \* bytes of the current chunk that are not yet sent
  sent,       \* history: bytes handed to the responder
  buflen,     \* size of the response buffer
  totalread,  \* bytes in the response buffer
  result      \* what get_ocsp_response returns: "none" is NULL

sendVars == <<left, remain, sent>>
recvVars == <<buflen, totalread>>
resVars  == <<bioReq, mp, sock>>
vars     == <<pc, resVars, sendVars, recvVars, result>>

TypeOK ==
  /\ pc \in {"start", "connect", "send", "receive", "close", "done"}
  /\ bioReq \in BOOLEAN /\ mp \in BOOLEAN /\ sock \in BOOLEAN
  /\ left \in Nat /\ remain \in Nat /\ sent \in Nat
  /\ buflen \in Nat /\ totalread \in Nat
  /\ result \in {"none", "response"}

Init ==
  /\ pc = "start"
  /\ bioReq = FALSE /\ mp = FALSE /\ sock = FALSE
  /\ left = ReqLen /\ remain = 0 /\ sent = 0
  /\ buflen = 0 /\ totalread = 0
  /\ result = "none"

(* The URL cannot be parsed, the port is no number or the request cannot *)
(* be serialised: nothing but the parts of the URL has been allocated.   *)
BadRequest ==
  /\ pc = "start"
  /\ pc' = "done"
  /\ UNCHANGED <<resVars, sendVars, recvVars, result>>

SerializeRequest ==
  /\ pc = "start"
  /\ pc' = "connect"
  /\ bioReq' = TRUE /\ mp' = TRUE
  /\ UNCHANGED <<sock, sendVars, recvVars, result>>

(* free_bio: the request BIO and the pool, with everything allocated in it. *)
FreeBio == bioReq' = FALSE /\ mp' = FALSE

(* make_socket fails: free_bio without a socket to close. *)
ConnectFails ==
  /\ pc = "connect"
  /\ pc' = "done"
  /\ FreeBio
  /\ UNCHANGED <<sock, sendVars, recvVars, result>>

Connect ==
  /\ pc = "connect"
  /\ pc' = "send"
  /\ sock' = TRUE
  /\ UNCHANGED <<bioReq, mp, sendVars, recvVars, result>>

(* BIO_read gives the next chunk of at most SendBuffer bytes. *)
NextChunk_DropsTail ==
  /\ pc = "send" /\ remain = 0 /\ left >= SendBuffer
  /\ remain' = SendBuffer
  /\ left' = left - SendBuffer
  /\ UNCHANGED <<pc, resVars, sent, recvVars, result>>
NextChunk_Overreads ==
  /\ pc = "send" /\ remain = 0 /\ left > 0
  /\ remain' = SendBuffer
  /\ left' = left - SendBuffer
  /\ UNCHANGED <<pc, resVars, sent, recvVars, result>>
NextChunk ==
  /\ pc = "send" /\ remain = 0 /\ left > 0
  /\ remain' = IF left < SendBuffer THEN left ELSE SendBuffer
  /\ left' = left - remain'
  /\ UNCHANGED <<pc, resVars, sent, recvVars, result>>

(* apr_socket_send takes wlen of the remaining bytes; the inner loop goes *)
(* on while bytes remain, the outer one with the next chunk.              *)
Send_WholeChunk(wlen) ==
  /\ pc = "send" /\ remain > 0
  /\ wlen \in 1..remain
  /\ remain' = 0
  /\ sent' = sent + wlen
  /\ UNCHANGED <<pc, resVars, left, recvVars, result>>
Send(wlen) ==
  /\ pc = "send" /\ remain > 0
  /\ wlen \in 1..remain
  /\ remain' = remain - wlen
  /\ sent' = sent + wlen
  /\ UNCHANGED <<pc, resVars, left, recvVars, result>>

SendFails ==
  /\ pc = "send" /\ remain > 0
  /\ pc' = "close"
  /\ UNCHANGED <<resVars, sendVars, recvVars, result>>

(* The request BIO is empty: ocsp_get_resp starts with a small buffer. *)
StartReceive ==
  /\ pc = "send" /\ remain = 0 /\ left = 0
  /\ pc' = "receive"
  /\ buflen' = BufferSize
  /\ totalread' = 0
  /\ UNCHANGED <<resVars, sendVars, result>>

(* The size of the buffer after making room for readlen more bytes: it is *)
(* doubled once when they would fill it.                                  *)
Grown_Never(readlen) == buflen
Grown(readlen) == IF totalread + readlen >= buflen THEN 2 * buflen ELSE buflen

(* apr_socket_recv returns readlen bytes: refuse, or grow and copy. *)
Receive(readlen) ==
  /\ pc = "receive"
  /\ readlen \in 1..BufferSize
  /\ IF totalread + readlen > MaxResponse
       THEN pc' = "close" /\ UNCHANGED recvVars
       ELSE /\ buflen' = Grown(readlen)
            /\ totalread' = totalread + readlen
            /\ UNCHANGED pc
  /\ UNCHANGED <<resVars, sendVars, result>>

(* The responder closed the connection: parse what arrived. *)
EndOfResponse ==
  /\ pc = "receive"
  /\ pc' = "close"
  /\ result' \in {"none", "response"}
  /\ UNCHANGED <<resVars, sendVars, recvVars>>

(* An error or timeout without data, or no memory for a larger buffer. *)
ReceiveFails ==
  /\ pc = "receive"
  /\ pc' = "close"
  /\ UNCHANGED <<resVars, sendVars, recvVars, result>>

(* apr_socket_close and free_bio, with or without a response. *)
Close_KeepsSocket ==
  /\ pc = "close"
  /\ pc' = "done"
  /\ FreeBio
  /\ UNCHANGED <<sock, sendVars, recvVars, result>>
Close ==
  /\ pc = "close"
  /\ pc' = "done"
  /\ sock' = FALSE
  /\ FreeBio
  /\ UNCHANGED <<sendVars, recvVars, result>>

Next ==
  \/ BadRequest \/ SerializeRequest
  \/ ConnectFails \/ Connect
  \/ NextChunk \/ \E wlen \in 1..SendBuffer : Send(wlen)
  \/ SendFails \/ StartReceive
  \/ \E readlen \in 1..BufferSize : Receive(readlen)
  \/ EndOfResponse \/ ReceiveFails
  \/ Close

Spec == Init /\ [][Next]_vars

(* The handshake thread runs the exchange to its end; every socket call    *)
(* returns, at the latest when the timeout set on the socket expires.      *)
FairSpec == Spec /\ WF_vars(Next)

-----------------------------------------------------------------------------
(* The copy of a chunk into the response buffer stays inside the buffer,  *)
(* although the buffer is doubled at most once per chunk.                 *)
CopyInBounds ==
  pc = "receive" =>
    \A readlen \in 1..BufferSize :
      totalread + readlen <= MaxResponse => totalread + readlen <= Grown(readlen)

(* The response buffer never holds more than OCSP_MAX_RESPONSE_SIZE bytes,  *)
(* and its size never exceeds twice the larger of that and BUFFER_SIZE,     *)
(* however the responder splits its answer: buflen cannot overflow an int.  *)
MemoryBounded ==
  /\ totalread <= MaxResponse
  /\ buflen <= 2 * (IF MaxResponse < BufferSize THEN BufferSize ELSE MaxResponse)

(* The response buffer is never overrun and never grows without bound.     *)
BufferSafe == CopyInBounds /\ MemoryBounded

(* A response is only awaited after every byte of the request has been     *)
(* sent once, however the sends were split.                                *)
RequestSent == pc = "receive" => sent = ReqLen

(* When the exchange is over its socket is closed and its pool and request *)
(* BIO are freed, whichever step failed.                                   *)
NothingHeld == pc = "done" => ~sock /\ ~mp /\ ~bioReq

(* The exchange ends even when the responder sends its answer byte by byte *)
(* for as long as it likes: the cap on the response stops it.              *)
Terminates == <>(pc = "done")
=============================================================================
