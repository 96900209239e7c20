---------------------------- MODULE RequestLimits ----------------------------
(***************************************************************************)
(* app/request_limits.py: RequestSizeLimitMiddleware around one request.   *)
(*                                                                         *)
(* The client sends its body in pieces, may stop half-way, and may lie     *)
(* about the length.  The ASGI server (external) hands over what has       *)
(* arrived in messages of its own cutting, or reports the disconnect.  The *)
(* middleware checks the framing headers, buffers the body, and calls the  *)
(* application (external) with a receive function that replays it.         *)
(* Everything the middleware does between two awaits is one step.          *)
(***************************************************************************)
EXTENDS Integers, Sequences

CONSTANTS
  Byte,         \* the bytes a body is made of
  MaxBytes,     \* the configured limit
  NotANumber,   \* a Content-Length int() refuses
  Requests,     \* request lines and headers considered
  Chunks,       \* what a client may send at once
  MaxSent       \* bound on the bytes a client sends

VARIABLES
  request, sent, whole, gone,   \* the client, as in BodyGate
  taken,      \* how many of the bytes sent the server has handed over
  ended,      \* the server has handed over a message without more_body
  pc,         \* where the middleware stands
  chunks,     \* the body received so far, joined
  delivered,  \* replay_receive has replayed the body
  seen        \* what the application has read

client == <<request, sent, whole, gone>>
server == <<taken, ended>>
vars == <<client, server, pc, chunks, delivered, seen>>

(* The middleware's answers, by status and detail. *)
Rejections == {"ambiguous_body_framing", "invalid_content_length",
               "request_too_large", "content_length_mismatch"}

ASSUME LimitAssumption == MaxBytes \in Nat \ {0} /\ NotANumber \notin Int
(* What is known of a request before its body: whether the limit applies   *)
(* to its method, its Content-Length headers, whether it has a              *)
(* Transfer-Encoding.                                                       *)
ASSUME RequestsAssumption ==
  Requests \subseteq [gated: BOOLEAN, lengths: Seq(Int \cup {NotANumber}),
                      encoded: BOOLEAN]
ASSUME ChunksAssumption == Chunks \subseteq Seq(Byte)

Init ==
  /\ request \in Requests
  /\ sent = <<>>
  /\ whole = FALSE
  /\ gone = FALSE
  /\ taken = 0
  /\ ended = FALSE
  /\ pc = "called"
  /\ chunks = <<>>
  /\ delivered = FALSE
  /\ seen = <<>>

-----------------------------------------------------------------------------
(* The client and the ASGI server. *)

Send ==
  /\ ~whole /\ ~gone
  /\ \E chunk \in Chunks :
       /\ Len(sent) + Len(chunk) <= MaxSent
       /\ sent' = sent \o chunk
  /\ whole' \in BOOLEAN
  /\ UNCHANGED <<request, gone, server, pc, chunks, delivered, seen>>

Leave ==
  /\ ~gone
  /\ gone' = TRUE
  /\ UNCHANGED <<request, sent, whole, server, pc, chunks, delivered, seen>>

(* receive() answers with the next n bytes.  It waits for something to      *)
(* arrive, so an empty message only ever ends a body.                       *)
Body(n) == SubSeq(sent, taken + 1, taken + n)
MoreBody(n) == ~(whole /\ taken + n = Len(sent))

Receive(n) ==
  /\ ~ended
  /\ n \in 0..(Len(sent) - taken)
  /\ n > 0 \/ whole
  /\ taken' = taken + n
  /\ ended' = ~MoreBody(n)
  /\ UNCHANGED client

(* receive() answers http.disconnect. *)
ReceiveDisconnect == gone /\ UNCHANGED <<client, server>>

-----------------------------------------------------------------------------
(* __call__ *)

Goto(from, to) == pc = from /\ pc' = to

(* The framing headers, checked before anything is received.  A request     *)
(* that carries no body by its method goes straight to the application.     *)
CheckHeaders ==
  LET lengths == request.lengths
  IN  /\ Goto("called",
           IF ~request.gated THEN "application"
           ELSE IF Len(lengths) > 1 \/ (lengths # <<>> /\ request.encoded)
           THEN "ambiguous_body_framing"
           ELSE IF lengths = <<>> THEN "receiving"
           ELSE IF lengths[1] = NotANumber THEN "invalid_content_length"
           ELSE IF lengths[1] < 0 THEN "invalid_content_length"
           ELSE IF lengths[1] > MaxBytes THEN "request_too_large"
           ELSE "receiving")
      /\ UNCHANGED <<client, server, chunks, delivered, seen>>

(* Where the middleware goes with the whole body in hand. *)
AtEnd(body) ==
  IF request.lengths # <<>> /\ request.lengths[1] # Len(body)
  THEN "content_length_mismatch" ELSE "application"

(* A faulty variant: the limit is compared before the chunk is counted. *)
Exceeds_Before(body) == Len(chunks) > MaxBytes

Exceeds(body) == Len(chunks) + Len(body) > MaxBytes

(* One turn of the loop.  A message of another type leaves everything as    *)
(* it is, which is a stuttering step.                                       *)
ReceiveChunk ==
  /\ \E n \in 0..Len(sent) :
       /\ Receive(n)
       /\ IF Exceeds(Body(n))
          THEN Goto("receiving", "request_too_large") /\ UNCHANGED chunks
          ELSE /\ Goto("receiving", IF MoreBody(n) THEN "receiving"
                                    ELSE AtEnd(chunks \o Body(n)))
               /\ chunks' = chunks \o Body(n)
  /\ UNCHANGED <<delivered, seen>>

(* A faulty variant: a disconnect is taken for the end of the body. *)
ClientGone_Dispatch ==
  /\ ReceiveDisconnect
  /\ Goto("receiving", "application")
  /\ UNCHANGED <<chunks, delivered, seen>>

(* A faulty variant: a disconnect is skipped like a message of another type.*)
ClientGone_Skipped ==
  /\ ReceiveDisconnect
  /\ Goto("receiving", "receiving")
  /\ UNCHANGED <<chunks, delivered, seen>>

ClientGone ==
  /\ ReceiveDisconnect
  /\ Goto("receiving", "dropped")
  /\ UNCHANGED <<chunks, delivered, seen>>

Middleware == CheckHeaders \/ ReceiveChunk \/ ClientGone

-----------------------------------------------------------------------------
(* The application, called with replay_receive (or, ungated, with receive).*)

Replaying == request.gated /\ ~delivered

Replay ==
  /\ pc = "application" /\ Replaying
  /\ delivered' = TRUE
  /\ seen' = seen \o chunks
  /\ UNCHANGED <<client, server, pc, chunks>>

PassThrough ==
  /\ pc = "application" /\ ~Replaying
  /\ \E n \in 0..Len(sent) : Receive(n) /\ seen' = seen \o Body(n)
  /\ UNCHANGED <<pc, chunks, delivered>>

(* The application answers, having read its body or not. *)
Respond ==
  /\ Goto("application", "answered")
  /\ UNCHANGED <<client, server, chunks, delivered, seen>>

Application == Replay \/ PassThrough \/ Respond

Next == Send \/ Leave \/ Middleware \/ Application

Spec == Init /\ [][Next]_vars

(* The event loop resumes a coroutine whose message has come.  Nothing is  *)
(* assumed of the client or of the application.                             *)
FairSpec == Spec /\ WF_vars(Middleware)

-----------------------------------------------------------------------------
TypeOK ==
  /\ request \in Requests
  /\ sent \in Seq(Byte)
  /\ whole \in BOOLEAN
  /\ gone \in BOOLEAN
  /\ taken \in 0..Len(sent)
  /\ ended \in BOOLEAN
  /\ pc \in {"called", "receiving", "application", "answered", "dropped"}
            \cup Rejections
  /\ chunks \in Seq(Byte)
  /\ delivered \in BOOLEAN
  /\ seen \in Seq(Byte)

(* The docstring's "the buffer is bounded by the configured cap": however   *)
(* the client cuts its body and whatever length it declared, no more than   *)
(* MaxBytes are ever held, in the middleware or replayed to a gated         *)
(* application.                                                             *)
BufferBounded ==
  /\ Len(chunks) <= MaxBytes
  /\ request.gated => Len(seen) <= MaxBytes

(* The middleware implements BodyGate: only a whole, truthful body within   *)
(* the limit is dispatched, the application reads it once and in order, and *)
(* a request is turned away only when its own headers or body deserve it.   *)
Verdict ==
  CASE pc \in {"called", "receiving"} -> "pending"
    [] pc \in Rejections -> "refused"
    [] pc = "dropped" -> "dropped"
    [] OTHER -> IF request.gated THEN "dispatched" ELSE "passed"

Gate == INSTANCE BodyGate WITH verdict <- Verdict
ImplementsGate == Gate!Spec

(* A request whose client has finished or gone is always decided: no cut of *)
(* the body leaves the middleware waiting for a message that never comes.   *)
(* (A client that keeps the connection open and sends nothing is waited for *)
(* without end.)                                                            *)
Resolves == (whole \/ gone) ~> Verdict # "pending"
=============================================================================
