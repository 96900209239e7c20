------------------------------- MODULE BodyGate -------------------------------
(***************************************************************************)
(* What the request size limit promises, with no buffer, no chunk and no   *)
(* header check in sight: a request that may carry a body reaches the      *)
(* application only once its client has sent all of it, the application    *)
(* reads exactly those bytes, once, and a request is refused only for a    *)
(* fault of its own.                                                       *)
(***************************************************************************)
EXTENDS Integers, Sequences

CONSTANTS
  MaxBytes,     \* the configured limit
  Requests,     \* request lines and headers considered (RequestLimits)
  Chunks        \* what a client may send at once

VARIABLES
  request,    \* the request line and headers
  sent,       \* what the client has sent of the body
  whole,      \* the client has sent its last byte
  gone,       \* the client has closed the connection
  verdict,    \* what became of the request
  seen        \* what the application has read

client == <<request, sent, whole, gone>>
vars == <<client, verdict, seen>>

Init ==
  /\ request \in Requests
  /\ sent = <<>>
  /\ whole = FALSE
  /\ gone = FALSE
  /\ verdict = "pending"
  /\ seen = <<>>

Send ==
  /\ ~whole /\ ~gone
  /\ \E chunk \in Chunks : sent' = sent \o chunk
  /\ whole' \in BOOLEAN
  /\ UNCHANGED <<request, gone, verdict, seen>>

Leave ==
  /\ ~gone
  /\ gone' = TRUE
  /\ UNCHANGED <<request, sent, whole, verdict, seen>>

(* One length at most, none beside a transfer encoding, in 0 .. MaxBytes. *)
WellFramed ==
  /\ Len(request.lengths) <= 1
  /\ request.encoded => request.lengths = <<>>
  /\ \A i \in DOMAIN request.lengths : request.lengths[i] \in 0..MaxBytes

TellsTheTruth ==
  \A i \in DOMAIN request.lengths : request.lengths[i] = Len(sent)

Acceptable == WellFramed /\ Len(sent) <= MaxBytes /\ TellsTheTruth

Judge(outcome) ==
  /\ verdict = "pending"
  /\ verdict' = outcome
  /\ UNCHANGED <<client, seen>>

Dispatch == request.gated /\ whole /\ Acceptable /\ Judge("dispatched")

(* Before the last byte a request can be too long, but not yet too short. *)
Refuse ==
  /\ request.gated
  /\ \/ ~WellFramed
     \/ Len(sent) > MaxBytes
     \/ whole /\ ~TellsTheTruth
  /\ Judge("refused")

Drop == request.gated /\ gone /\ Judge("dropped")

Bypass == ~request.gated /\ Judge("passed")

Read ==
  /\ verdict = "dispatched"
  /\ seen = <<>>
  /\ seen' = sent
  /\ UNCHANGED <<client, verdict>>

(* A request that bypasses the limit is read as it comes. *)
ReadThrough ==
  /\ verdict = "passed"
  /\ \E n \in Len(seen)..Len(sent) : seen' = SubSeq(sent, 1, n)
  /\ UNCHANGED <<client, verdict>>

Next ==
  \/ Send \/ Leave
  \/ Dispatch \/ Refuse \/ Drop \/ Bypass
  \/ Read \/ ReadThrough

Spec == Init /\ [][Next]_vars
=============================================================================
