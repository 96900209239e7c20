-------------------------- MODULE SubmissionsProofs --------------------------
(***************************************************************************)
(* Proofs about modules RequestLimits and Submissions, for every limit,    *)
(* every set of requests, every way a client cuts its body and every       *)
(* retention period: the buffer stays within the limit, the middleware     *)
(* implements BodyGate, also with the forms behind it, what is stored is   *)
(* what was sent, and the operator's list tells the truth.                 *)
(***************************************************************************)
EXTENDS Submissions, TLAPS

-----------------------------------------------------------------------------
(* The size limit, with any application. *)

(* What has been received is what the server has handed over.               *)
Received ==
  IF request.gated THEN pc = "receiving" => chunks = SubSeq(sent, 1, taken)
  ELSE chunks = <<>> /\ seen = SubSeq(sent, 1, taken)

Ended == ended => whole /\ taken = Len(sent)

(* A gated request is not read by the application before it is dispatched,  *)
(* and the body is received under well-formed headers.                      *)
Reading ==
  /\ pc = "called" => ~ended /\ taken = 0 /\ chunks = <<>>
  /\ pc = "receiving" => ~ended /\ Gate!WellFramed
  /\ ~request.gated => pc \in {"called", "application", "answered"}
  /\ request.gated /\ pc \notin {"application", "answered"} =>
       ~delivered /\ seen = <<>>

(* The application stands on a body that was whole, within the limit and as *)
(* long as declared.                                                        *)
Dispatched ==
  request.gated /\ pc \in {"application", "answered"} =>
    /\ ended
    /\ chunks = sent
    /\ Gate!WellFramed /\ Gate!TellsTheTruth
    /\ seen = IF delivered THEN sent ELSE <<>>

Inv ==
  /\ TypeOK /\ Len(chunks) <= MaxBytes
  /\ Received /\ Ended /\ Reading /\ Dispatched

-----------------------------------------------------------------------------
LEMMA PrefixGrows ==
  ASSUME NEW s \in Seq(Byte), NEW c \in Seq(Byte), NEW t \in 0..Len(s)
  PROVE  SubSeq(s \o c, 1, t) = SubSeq(s, 1, t)
  OBVIOUS

LEMMA PrefixJoins ==
  ASSUME NEW s \in Seq(Byte), NEW t \in 0..Len(s), NEW n \in 0..(Len(s) - t)
  PROVE  /\ SubSeq(s, t + 1, t + n) \in Seq(Byte)
         /\ Len(SubSeq(s, t + 1, t + n)) = n
         /\ SubSeq(s, 1, t) \o SubSeq(s, t + 1, t + n) = SubSeq(s, 1, t + n)
  OBVIOUS

LEMMA WholePrefix ==
  ASSUME NEW s \in Seq(Byte)
  PROVE  SubSeq(s, 1, Len(s)) = s /\ SubSeq(s, 1, 0) = <<>>
  OBVIOUS
-----------------------------------------------------------------------------
LEMMA InitInv == Init => Inv
<1> SUFFICES ASSUME Init PROVE Inv
  OBVIOUS
<1>1. TypeOK /\ Len(chunks) <= MaxBytes
  <2>1. <<>> \in Seq(Byte) /\ Len(<<>>) = 0
    OBVIOUS
  <2>2. taken \in 0..Len(sent) /\ Len(chunks) <= MaxBytes
    BY <2>1, LimitAssumption DEF Init
  <2>3. sent \in Seq(Byte) /\ chunks \in Seq(Byte) /\ seen \in Seq(Byte)
    BY <2>1 DEF Init
  <2>4. /\ request \in Requests /\ pc = "called"
        /\ {whole, gone, ended, delivered} \subseteq BOOLEAN
    BY DEF Init
  <2> QED
    BY <2>2, <2>3, <2>4 DEF TypeOK
<1>2. Received /\ Ended /\ Reading /\ Dispatched
  BY WholePrefix DEF Init, Received, Ended, Reading, Dispatched
<1> QED
  BY <1>1, <1>2 DEF Inv

LEMMA SendKeepsInv == Inv /\ Send => Inv'
<1> SUFFICES ASSUME Inv, Send PROVE Inv'
  OBVIOUS
<1> USE DEF Send, server
<1>1. PICK c \in Chunks : sent' = sent \o c
  OBVIOUS
<1>2. c \in Seq(Byte) /\ sent' \in Seq(Byte) /\ Len(sent') = Len(sent) + Len(c)
  BY <1>1, ChunksAssumption DEF Inv, TypeOK
<1>3. TypeOK' /\ Len(chunks') <= MaxBytes
  BY <1>2 DEF Inv, TypeOK
<1>4. SubSeq(sent', 1, taken) = SubSeq(sent, 1, taken)
  BY <1>1, <1>2, PrefixGrows DEF Inv, TypeOK
<1>5. Received' /\ Ended' /\ Reading' /\ Dispatched'
  BY <1>4 DEF Inv, Received, Ended, Reading, Dispatched, Gate!WellFramed
<1> QED
  BY <1>3, <1>5 DEF Inv

LEMMA LeaveKeepsInv == Inv /\ Leave => Inv'
  BY DEF Inv, TypeOK, Received, Ended, Reading, Dispatched, Leave, server,
     Gate!WellFramed, Gate!TellsTheTruth

LEMMA CheckHeadersKeepsInv == Inv /\ CheckHeaders => Inv'
<1> SUFFICES ASSUME Inv, CheckHeaders PROVE Inv'
  OBVIOUS
<1> USE DEF CheckHeaders, Goto, client, server
<1>1. request.lengths \in Seq(Int \cup {NotANumber}) /\ request.encoded \in BOOLEAN
  BY RequestsAssumption DEF Inv, TypeOK
<1>2. TypeOK' /\ Len(chunks') <= MaxBytes
  BY DEF Inv, TypeOK, Rejections
<1>3. pc' = "receiving" => Gate!WellFramed'
  BY <1>1, LimitAssumption DEF Gate!WellFramed
<1>4. Reading'
  BY <1>3 DEF Inv, Reading
<1>5. pc' = "application" => ~request.gated
  OBVIOUS
<1>6. Received'
  BY WholePrefix DEF Inv, TypeOK, Reading, Received
<1>7. Ended' /\ Dispatched'
  BY <1>5 DEF Inv, Ended, Dispatched
<1> QED
  BY <1>2, <1>4, <1>6, <1>7 DEF Inv

(* What receive() hands over extends the part already handed over. *)
LEMMA ReceiveExtends ==
  ASSUME TypeOK, NEW n \in 0..Len(sent), Receive(n)
  PROVE  /\ Body(n) \in Seq(Byte) /\ Len(Body(n)) = n
         /\ SubSeq(sent, 1, taken) \o Body(n) = SubSeq(sent, 1, taken')
         /\ taken' \in 0..Len(sent) /\ taken' = taken + n
         /\ ended' = ~MoreBody(n)
         /\ ended' => whole /\ taken' = Len(sent)
         /\ UNCHANGED client
<1>1. sent \in Seq(Byte) /\ taken \in 0..Len(sent) /\ n \in 0..(Len(sent) - taken)
  BY DEF TypeOK, Receive
<1>2. Body(n) \in Seq(Byte) /\ Len(Body(n)) = n
      /\ SubSeq(sent, 1, taken) \o Body(n) = SubSeq(sent, 1, taken + n)
  BY <1>1, PrefixJoins DEF Body
<1> QED
  <2>1. taken' = taken + n /\ ended' = ~MoreBody(n) /\ UNCHANGED client
    BY DEF Receive
  <2>2. ended' => whole /\ taken' = Len(sent)
    BY <2>1 DEF MoreBody
  <2>3. taken' \in 0..Len(sent)
    BY <1>1, <2>1
  <2>4. SubSeq(sent, 1, taken) \o Body(n) = SubSeq(sent, 1, taken')
    BY <1>2, <2>1
  <2> QED
    BY <1>2, <2>1, <2>2, <2>3, <2>4

LEMMA ReceiveChunkKeepsInv == Inv /\ ReceiveChunk => Inv'
<1> SUFFICES ASSUME Inv, ReceiveChunk PROVE Inv'
  OBVIOUS
<1> USE DEF Goto
<1>1. PICK n \in 0..Len(sent) :
        /\ Receive(n)
        /\ IF Exceeds(Body(n))
           THEN Goto("receiving", "request_too_large") /\ UNCHANGED chunks
           ELSE /\ Goto("receiving", IF MoreBody(n) THEN "receiving"
                                     ELSE AtEnd(chunks \o Body(n)))
                /\ chunks' = chunks \o Body(n)
        /\ UNCHANGED <<delivered, seen>>
  BY DEF ReceiveChunk
<1>2. TypeOK
  BY DEF Inv
<1>3. /\ Body(n) \in Seq(Byte) /\ Len(Body(n)) = n
      /\ SubSeq(sent, 1, taken) \o Body(n) = SubSeq(sent, 1, taken')
      /\ taken' \in 0..Len(sent)
      /\ ended' = ~MoreBody(n)
      /\ ended' => whole /\ taken' = Len(sent)
      /\ UNCHANGED client
  BY <1>1, <1>2, ReceiveExtends
<1>4. pc = "receiving" /\ ~delivered /\ seen = <<>> /\ request.gated
      /\ chunks = SubSeq(sent, 1, taken) /\ Gate!WellFramed
  BY <1>1 DEF Inv, Reading, Received
<1>5. Ended'
  BY <1>3 DEF Ended, client
<1>6. CASE Exceeds(Body(n))
  <2>1. pc' = "request_too_large" /\ chunks' = chunks
    BY <1>1, <1>6
  <2>2. TypeOK' /\ Len(chunks') <= MaxBytes
    BY <1>1, <1>3, <2>1 DEF Inv, TypeOK, client, Rejections
  <2>3. Received' /\ Reading' /\ Dispatched'
    BY <1>1, <1>3, <1>4, <2>1 DEF Received, Reading, Dispatched, client
  <2> QED
    BY <1>5, <2>2, <2>3 DEF Inv
<1>7. CASE ~Exceeds(Body(n))
  <2>1. chunks' = chunks \o Body(n) /\ chunks' = SubSeq(sent, 1, taken')
    BY <1>1, <1>3, <1>4, <1>7
  <2>2. chunks' \in Seq(Byte) /\ Len(chunks') <= MaxBytes
    <3>1. chunks \in Seq(Byte) /\ Body(n) \in Seq(Byte)
      BY <1>2, <1>3 DEF TypeOK
    <3>2. Len(chunks) + Len(Body(n)) <= MaxBytes
      BY <1>7, <3>1, LimitAssumption DEF Exceeds
    <3>3. chunks \o Body(n) \in Seq(Byte)
          /\ Len(chunks \o Body(n)) = Len(chunks) + Len(Body(n))
      BY <3>1
    <3> QED
      BY <2>1, <3>2, <3>3
  <2>3. pc' = IF MoreBody(n) THEN "receiving" ELSE AtEnd(chunks')
    BY <1>1, <1>7, <2>1
  <2>4. TypeOK'
    BY <1>1, <1>2, <1>3, <2>2, <2>3 DEF TypeOK, client, AtEnd, Rejections
  <2>5. CASE MoreBody(n)
    <3>1. pc' = "receiving" /\ ~ended'
      BY <1>3, <2>3, <2>5
    <3>2. Received' /\ Reading' /\ Dispatched'
      BY <1>1, <1>3, <1>4, <2>1, <3>1
      DEF Received, Reading, Dispatched, client, Gate!WellFramed
    <3> QED
      BY <1>5, <2>2, <2>4, <3>2 DEF Inv
  <2>6. CASE ~MoreBody(n)
    <3>1. ended' /\ taken' = Len(sent) /\ chunks' = sent
      BY <1>2, <1>3, <2>1, <2>6, WholePrefix DEF TypeOK
    <3>2. request.lengths \in Seq(Int \cup {NotANumber}) /\ Len(request.lengths) <= 1
      BY <1>2, <1>4, RequestsAssumption DEF TypeOK, Gate!WellFramed
    <3>3. pc' = "application" => Gate!TellsTheTruth
      BY <2>3, <2>6, <3>1, <3>2 DEF AtEnd, Gate!TellsTheTruth
    <3>4. pc' \in {"application", "content_length_mismatch"}
      BY <2>3, <2>6 DEF AtEnd
    <3>5. Gate!WellFramed' /\ (pc' = "application" => Gate!TellsTheTruth')
      BY <1>3, <1>4, <3>3 DEF Gate!WellFramed, Gate!TellsTheTruth, client
    <3>6. Received' /\ Reading' /\ Dispatched'
      BY <1>1, <1>3, <1>4, <3>1, <3>4, <3>5
      DEF Received, Reading, Dispatched, client
    <3> QED
      BY <1>5, <2>2, <2>4, <3>6 DEF Inv
  <2> QED
    BY <2>5, <2>6
<1> QED
  BY <1>6, <1>7

LEMMA ClientGoneKeepsInv == Inv /\ ClientGone => Inv'
  BY DEF Inv, TypeOK, Received, Ended, Reading, Dispatched, ClientGone,
     ReceiveDisconnect, Goto, client, server, Rejections,
     Gate!WellFramed, Gate!TellsTheTruth

LEMMA ReplayKeepsInv == Inv /\ Replay => Inv'
<1> SUFFICES ASSUME Inv, Replay PROVE Inv'
  OBVIOUS
<1> USE DEF Replay, Replaying, client, server
<1>1. seen' = sent
  BY DEF Inv, TypeOK, Dispatched
<1>2. TypeOK' /\ Len(chunks') <= MaxBytes
  BY <1>1 DEF Inv, TypeOK
<1>3. Received' /\ Ended' /\ Reading' /\ Dispatched'
  BY <1>1 DEF Inv, Received, Ended, Reading, Dispatched,
     Gate!WellFramed, Gate!TellsTheTruth
<1> QED
  BY <1>2, <1>3 DEF Inv

LEMMA PassThroughKeepsInv == Inv /\ PassThrough => Inv'
<1> SUFFICES ASSUME Inv, PassThrough PROVE Inv'
  OBVIOUS
<1> USE DEF PassThrough, Replaying
<1>1. PICK n \in 0..Len(sent) : Receive(n) /\ seen' = seen \o Body(n)
  OBVIOUS
<1>2. ~request.gated
  BY <1>1 DEF Inv, Dispatched, Receive
<1>3. TypeOK
  BY DEF Inv
<1>4. /\ Body(n) \in Seq(Byte)
      /\ SubSeq(sent, 1, taken) \o Body(n) = SubSeq(sent, 1, taken')
      /\ taken' \in 0..Len(sent)
      /\ ended' = ~MoreBody(n)
      /\ ended' => whole /\ taken' = Len(sent)
      /\ UNCHANGED client
  BY <1>1, <1>3, ReceiveExtends
<1>5. TypeOK' /\ Len(chunks') <= MaxBytes
  BY <1>1, <1>4 DEF Inv, TypeOK, client
<1>6. Received'
  BY <1>1, <1>2, <1>4 DEF Inv, Received, client
<1>7. Ended' /\ Reading' /\ Dispatched'
  BY <1>2, <1>4 DEF Inv, Ended, Reading, Dispatched, client
<1> QED
  BY <1>5, <1>6, <1>7 DEF Inv

LEMMA RespondKeepsInv == Inv /\ Respond => Inv'
  BY DEF Inv, TypeOK, Received, Ended, Reading, Dispatched, Respond, Goto,
     client, server, Gate!WellFramed, Gate!TellsTheTruth

LEMMA NextInv == Inv /\ [Next]_vars => Inv'
<1> SUFFICES ASSUME Inv, [Next]_vars PROVE Inv'
  OBVIOUS
<1>1. CASE UNCHANGED vars
  BY <1>1 DEF Inv, TypeOK, Received, Ended, Reading, Dispatched, vars,
     client, server, Gate!WellFramed, Gate!TellsTheTruth
<1>2. CASE Next
  BY <1>2, SendKeepsInv, LeaveKeepsInv, CheckHeadersKeepsInv,
     ReceiveChunkKeepsInv, ClientGoneKeepsInv, ReplayKeepsInv,
     PassThroughKeepsInv, RespondKeepsInv
  DEF Next, Middleware, Application
<1> QED
  BY <1>1, <1>2

LEMMA Invariance == Spec => []Inv
  BY InitInv, NextInv, PTL DEF Spec

(* app/request_limits.py holds no more than max_bytes of any request, and a *)
(* gated application never reads more than that.                            *)
THEOREM Bounded == Spec => []BufferBounded
<1>1. Inv => BufferBounded
  BY LimitAssumption DEF Inv, TypeOK, Reading, Dispatched, BufferBounded
<1> QED
  BY <1>1, Invariance, PTL

-----------------------------------------------------------------------------
(* Every step of the middleware, the client, the server and the application *)
(* is a step of BodyGate or leaves it where it is.                          *)
LEMMA HeadersStep == Inv /\ CheckHeaders => [Gate!Next]_Gate!vars
<1> SUFFICES ASSUME Inv, CheckHeaders PROVE [Gate!Next]_Gate!vars
  OBVIOUS
<1> USE DEF CheckHeaders, Goto, client, Verdict, Rejections
<1>1. Verdict = "pending" /\ UNCHANGED <<Gate!client, seen>>
  BY DEF Gate!client
<1>2. CASE ~request.gated
  <2>1. Verdict' = "passed"
    BY <1>2
  <2> QED
    BY <1>1, <1>2, <2>1 DEF Gate!Next, Gate!Bypass, Gate!Judge
<1>3. CASE request.gated /\ pc' = "receiving"
  <2>1. Verdict' = "pending"
    BY <1>3
  <2> QED
    BY <1>1, <2>1 DEF Gate!vars
<1>4. CASE request.gated /\ pc' # "receiving"
  <2>1. Verdict' = "refused"
    BY <1>4
  <2>2. request.lengths \in Seq(Int \cup {NotANumber})
    BY RequestsAssumption DEF Inv, TypeOK
  <2>3. ~Gate!WellFramed
    BY <1>4, <2>2, LimitAssumption DEF Gate!WellFramed
  <2> QED
    BY <1>1, <1>4, <2>1, <2>3 DEF Gate!Next, Gate!Refuse, Gate!Judge
<1> QED
  BY <1>2, <1>3, <1>4

LEMMA ReceiveStep == Inv /\ ReceiveChunk => [Gate!Next]_Gate!vars
<1> SUFFICES ASSUME Inv, ReceiveChunk PROVE [Gate!Next]_Gate!vars
  OBVIOUS
<1>1. Inv'
  BY ReceiveChunkKeepsInv
<1>2. PICK n \in 0..Len(sent) :
        /\ Receive(n)
        /\ IF Exceeds(Body(n))
           THEN Goto("receiving", "request_too_large") /\ UNCHANGED chunks
           ELSE /\ Goto("receiving", IF MoreBody(n) THEN "receiving"
                                     ELSE AtEnd(chunks \o Body(n)))
                /\ chunks' = chunks \o Body(n)
        /\ UNCHANGED <<delivered, seen>>
  BY DEF ReceiveChunk
<1>3. pc = "receiving" /\ Verdict = "pending" /\ UNCHANGED <<client, seen>>
  BY <1>2 DEF Receive, Goto, Verdict, Rejections
<1>4. UNCHANGED <<Gate!client, seen>>
  BY <1>3 DEF client, Gate!client
<1>5. request.gated /\ chunks = SubSeq(sent, 1, taken) /\ Gate!WellFramed
  BY <1>3 DEF Inv, Reading, Received
<1>6. TypeOK
  BY DEF Inv
<1>7. CASE Exceeds(Body(n))
  <2>1. Verdict' = "refused"
    BY <1>2, <1>7 DEF Goto, Verdict, Rejections
  <2>2. Len(Body(n)) = n /\ Len(chunks) = taken
    BY <1>2, <1>5, <1>6, ReceiveExtends DEF TypeOK
  <2>3. Len(sent) > MaxBytes
    BY <1>2, <1>6, <1>7, <2>2, LimitAssumption DEF Exceeds, Receive, TypeOK
  <2> QED
    BY <1>3, <1>4, <1>5, <2>1, <2>3 DEF Gate!Next, Gate!Refuse, Gate!Judge
<1>8. CASE ~Exceeds(Body(n)) /\ MoreBody(n)
  <2>1. Verdict' = "pending"
    BY <1>2, <1>8 DEF Goto, Verdict, Rejections
  <2> QED
    BY <1>3, <1>4, <2>1 DEF Gate!vars
<1>9. CASE ~Exceeds(Body(n)) /\ ~MoreBody(n)
  <2>1. chunks' = sent /\ whole
    <3>1. /\ SubSeq(sent, 1, taken) \o Body(n) = SubSeq(sent, 1, taken')
          /\ taken' = taken + n
      BY <1>2, <1>6, ReceiveExtends
    <3>2. whole /\ taken + n = Len(sent)
      BY <1>9 DEF MoreBody
    <3>3. chunks' = SubSeq(sent, 1, Len(sent))
      BY <1>2, <1>5, <1>9, <3>1, <3>2
    <3> QED
      BY <1>6, <3>2, <3>3, WholePrefix DEF TypeOK
  <2>2. pc' = AtEnd(sent)
    BY <1>2, <1>9, <2>1 DEF Goto
  <2>3. request.lengths \in Seq(Int \cup {NotANumber}) /\ Len(request.lengths) <= 1
    BY <1>5, <1>6, RequestsAssumption DEF TypeOK, Gate!WellFramed
  <2>4. CASE pc' = "application"
    <3>1. Verdict' = "dispatched"
      BY <1>3, <1>5, <2>4 DEF Verdict, Rejections, client
    <3>2. Gate!TellsTheTruth
      BY <2>2, <2>3, <2>4 DEF AtEnd, Gate!TellsTheTruth
    <3>3. Len(sent) <= MaxBytes
      BY <1>1, <1>3, <2>1 DEF Inv, client
    <3> QED
      BY <1>3, <1>4, <1>5, <2>1, <3>1, <3>2, <3>3
      DEF Gate!Next, Gate!Dispatch, Gate!Acceptable, Gate!Judge
  <2>5. CASE pc' = "content_length_mismatch"
    <3>1. Verdict' = "refused"
      BY <2>5 DEF Verdict, Rejections
    <3>2. request.lengths # <<>> /\ request.lengths[1] # Len(sent)
      BY <2>2, <2>5 DEF AtEnd
    <3>3. ~Gate!TellsTheTruth
      BY <2>3, <3>2 DEF Gate!TellsTheTruth
    <3> QED
      BY <1>3, <1>4, <1>5, <2>1, <3>1, <3>3
      DEF Gate!Next, Gate!Refuse, Gate!Judge
  <2> QED
    BY <2>2, <2>4, <2>5 DEF AtEnd
<1> QED
  BY <1>7, <1>8, <1>9

LEMMA ApplicationStep == Inv /\ Application => [Gate!Next]_Gate!vars
<1> SUFFICES ASSUME Inv, Application PROVE [Gate!Next]_Gate!vars
  OBVIOUS
<1> USE DEF Verdict, Rejections, client, server
<1>1. CASE Replay
  <2>1. Verdict = "dispatched" /\ Verdict' = "dispatched"
        /\ UNCHANGED Gate!client
    BY <1>1 DEF Replay, Replaying, Gate!client
  <2>2. seen = <<>> /\ seen' = sent
    BY <1>1 DEF Inv, TypeOK, Dispatched, Replay, Replaying
  <2> QED
    BY <2>1, <2>2 DEF Gate!Next, Gate!Read
<1>2. CASE PassThrough
  <2>1. PICK n \in 0..Len(sent) : Receive(n) /\ seen' = seen \o Body(n)
    BY <1>2 DEF PassThrough
  <2>2. ~request.gated
    BY <1>2, <2>1 DEF Inv, Dispatched, PassThrough, Replaying, Receive
  <2>3. Verdict = "passed" /\ Verdict' = "passed" /\ UNCHANGED Gate!client
    BY <1>2, <2>1, <2>2 DEF PassThrough, Receive, Gate!client
  <2>4. /\ SubSeq(sent, 1, taken) \o Body(n) = SubSeq(sent, 1, taken')
        /\ taken' \in 0..Len(sent) /\ taken' = taken + n
    BY <2>1, ReceiveExtends DEF Inv
  <2>5. seen = SubSeq(sent, 1, taken) /\ seen' = SubSeq(sent, 1, taken')
    BY <2>1, <2>2, <2>4 DEF Inv, Received
  <2>6. taken' \in Len(seen)..Len(sent)
    BY <2>4, <2>5 DEF Inv, TypeOK
  <2> QED
    BY <2>3, <2>5, <2>6 DEF Gate!Next, Gate!ReadThrough
<1>3. CASE Respond
  BY <1>3 DEF Respond, Goto, Gate!vars, Gate!client
<1> QED
  BY <1>1, <1>2, <1>3 DEF Application

LEMMA ClientStep == Send \/ Leave => [Gate!Next]_Gate!vars
<1> USE DEF Verdict, Rejections, client, server
<1>1. ASSUME Send PROVE Gate!Send
  BY <1>1 DEF Send, Gate!Send
<1>2. ASSUME Leave PROVE Gate!Leave
  BY <1>2 DEF Leave, Gate!Leave
<1> QED
  BY <1>1, <1>2 DEF Gate!Next

LEMMA GoneStep == Inv /\ ClientGone => [Gate!Next]_Gate!vars
<1> SUFFICES ASSUME Inv, ClientGone PROVE [Gate!Next]_Gate!vars
  OBVIOUS
<1> QED
  BY DEF Inv, Reading, ClientGone, ReceiveDisconnect, Goto, Verdict,
     Rejections, client, server, Gate!Next, Gate!Drop, Gate!Judge, Gate!client

(* The middleware promises what BodyGate says: the application only ever    *)
(* runs on a whole, truthful body within the limit, reads it once and in    *)
(* order, and no request is refused that BodyGate would have let in.        *)
THEOREM Implements == Spec => ImplementsGate
<1>1. Init => Gate!Init
  BY DEF Init, Gate!Init, Verdict, Rejections
<1>2. Inv /\ [Next]_vars => [Gate!Next]_Gate!vars
  <2>1. UNCHANGED vars => UNCHANGED Gate!vars
    BY DEF vars, client, server, Gate!vars, Gate!client, Verdict, Rejections
  <2> QED
    BY <2>1, HeadersStep, ReceiveStep, ApplicationStep, ClientStep, GoneStep
    DEF Next, Middleware
<1> QED
  BY <1>1, <1>2, Invariance, PTL DEF Spec, ImplementsGate, Gate!Spec

-----------------------------------------------------------------------------
(* The forms behind it. *)

Mails == {"none", "asked", "accepted", "refused", "lost"}

FormTypes ==
  /\ today \in Nat
  /\ mail \in Mails
  /\ outcome \in Errors \cup {None}
  /\ made \in Nat \cup {None}
  /\ row \in Row \cup {None}

(* A row is the form of the request that made it, from the day it was made, *)
(* and once gone it was past its retention.                                 *)
RowOfForm ==
  /\ handler \in {"partner", "event"} => request.gated /\ delivered
  /\ \/ handler \in {"notifying", "waiting", "hearing", "updating"}
     \/ mail # "none"
     \/ answer \in {"success", "accepted"}
     => made # None
  /\ made # None /\ row = None => today - made > Retention
  /\ row # None => /\ made = row.created
                   /\ whole /\ row.body = sent
                   /\ Len(row.body) <= MaxBytes

(* What the handler makes of the provider's answer.                         *)
Reported ==
  /\ answer = "success" => handler = "over"
  /\ handler \in {"reading", "partner", "event", "notifying"} => mail = "none"
  /\ handler = "updating" /\ outcome = None => mail = "accepted"
  /\ row # None /\ row.status = "sent" => mail = "accepted"
  /\ row # None /\ answer = "success" /\ mail # "accepted" => row.error # None

FormInv == FormTypes /\ RowOfForm /\ Reported

(* The composed system does to the request what the middleware and its      *)
(* application do, and nothing else.                                        *)
LEMMA StepBelow == [SubmissionsNext]_allVars => [Next]_vars
<1> USE DEF allVars, Next
<1>1. CASE HandlerStep
  BY <1>1 DEF HandlerStep, RefuseForm, AcceptForm, SaveEvent, SavePartner, Notify,
              Hear, Update, Step, Finish, Application
<1>2. CASE Fail \/ Die \/ OtherHandler \/ Provider \/ Trickle \/ Day \/ Purge
  BY <1>2 DEF Fail, Die, Finish, OtherHandler, Provider, Trickle, Step, Day, Purge,
              Application
<1> QED
  BY <1>1, <1>2 DEF SubmissionsNext

(* So all that is proved of module RequestLimits holds of the forms.        *)
THEOREM BehindTheLimit == SubmissionsSpec => Spec
<1>1. SubmissionsInit => Init
  BY DEF SubmissionsInit
<1> QED
  BY <1>1, StepBelow, PTL DEF SubmissionsSpec, Spec

(* A request to a form never has more than the limit buffered.              *)
THEOREM FormsBounded == SubmissionsSpec => []BufferBounded
<1> QED
  BY BehindTheLimit, Bounded, PTL

(* A form's handler reads a whole body within the limit, or none at all.    *)
THEOREM FormsGated == SubmissionsSpec => ImplementsGate
<1> QED
  BY BehindTheLimit, Implements, PTL

(* The body a handler was given is the one the client sent, all of it.      *)
LEMMA FormRead ==
  ASSUME Inv, request.gated, delivered, pc = "application"
  PROVE  /\ whole /\ seen = sent /\ Len(seen) <= MaxBytes
         /\ seen \in Seq(Byte)
  BY DEF Inv, TypeOK, Ended, Dispatched

(* Steps of the client and of the middleware leave a stored form alone: it  *)
(* was whole.                                                               *)
LEMMA MiddlewareKeeps ==
  ASSUME Inv, FormInv,
         Send \/ Leave \/ Middleware \/ Replay \/ PassThrough
           \/ (~request.gated /\ Respond),
         UNCHANGED <<formVars, today>>
  PROVE  FormInv'
<1>1. request' = request /\ (delivered => delivered') /\ (whole => whole' /\ sent' = sent)
  BY DEF Send, Leave, Middleware, CheckHeaders, ReceiveChunk, Receive, ClientGone,
         ReceiveDisconnect, Replay, PassThrough, Respond, client, server
<1>2. UNCHANGED <<handler, row, mail, outcome, answer, made, today>>
  BY DEF formVars
<1> QED
  BY <1>1, <1>2 DEF FormInv, FormTypes, RowOfForm, Reported

(* An INSERT makes a row of the form that was read.                         *)
LEMMA InsertKeeps ==
  ASSUME Inv, FormInv, NEW table \in {"partners", "analytics_events"},
         handler \in {"partner", "event"}, pc = "application",
         Insert(table), UNCHANGED <<request, sent, whole, delivered, mail, outcome, today>>,
         handler' \in {"notifying", "over"}, answer' # "success"
  PROVE  FormInv'
<1>1. /\ whole /\ seen = sent /\ Len(seen) <= MaxBytes /\ seen \in Seq(Byte)
      /\ today \in Nat
  BY FormRead DEF FormInv, FormTypes, RowOfForm
<1>2. /\ row' \in Row /\ row'.body = seen /\ row'.created = today
      /\ row'.status = "pending"
      /\ made' = today
  BY <1>1 DEF Insert, Row
<1>3. row' # None /\ made' # None
  BY <1>1, <1>2, NoneAssumption
<1> QED
  BY <1>1, <1>2, <1>3 DEF FormInv, FormTypes, RowOfForm, Reported

(* The UPDATE notes the outcome in the row, if it is still there.           *)
LEMMA UpdateKeeps == Inv /\ FormInv /\ Update => FormInv'
<1> SUFFICES ASSUME Inv, FormInv, Update PROVE FormInv'
  OBVIOUS
<1>1. /\ handler = "updating" /\ handler' = "over" /\ answer' = "success"
      /\ UNCHANGED <<request, sent, whole, delivered, mail, outcome, made, today>>
  BY DEF Update, Finish, Respond, client
<1>2. CASE row = None
  BY <1>1, <1>2 DEF Update, FormInv, FormTypes, RowOfForm, Reported
<1>3. CASE row # None
  <2>1. /\ row' \in Row /\ row'.body = row.body /\ row'.created = row.created
        /\ row'.status = "sent" <=> outcome = None
        /\ row'.error = outcome
    BY <1>3 DEF Update, Noted, FormInv, FormTypes, Row
  <2>2. row' # None
    BY <2>1, NoneAssumption
  <2> QED
    BY <1>1, <1>3, <2>1, <2>2 DEF FormInv, FormTypes, RowOfForm, Reported
<1> QED
  BY <1>2, <1>3

LEMMA FormNext == Inv /\ FormInv /\ [SubmissionsNext]_allVars => FormInv'
<1> SUFFICES ASSUME Inv, FormInv, [SubmissionsNext]_allVars PROVE FormInv'
  OBVIOUS
<1> USE DEF Step, Finish, Respond, client, server, vars
<1>1. CASE \/ (Send \/ Leave \/ Middleware) /\ UNCHANGED <<formVars, today>>
           \/ Replay /\ UNCHANGED <<formVars, today>>
           \/ OtherHandler
  BY <1>1, MiddlewareKeeps DEF OtherHandler
<1>2. CASE RefuseForm \/ AcceptForm \/ Fail \/ Die
  BY <1>2 DEF RefuseForm, AcceptForm, Fail, Die, Read, FormInv, FormTypes, RowOfForm,
              Reported
<1>3. CASE SaveEvent
  BY <1>3, InsertKeeps DEF SaveEvent, Goto
<1>4. CASE SavePartner
  <2>1. handler # "over"
    BY <1>4 DEF SavePartner
  <2> QED
    BY <1>4, <2>1, InsertKeeps DEF SavePartner, FormInv, Reported
<1>5. CASE Notify
  <2>1. /\ handler = "notifying" /\ UNCHANGED <<request, sent, whole, delivered>>
        /\ UNCHANGED <<row, made, answer, today>>
    BY <1>5 DEF Notify
  <2>2. CASE configured
    <3>1. handler' = "waiting" /\ mail' = "asked" /\ outcome' = outcome
      BY <1>5, <2>2 DEF Notify
    <3>2. mail = "none" /\ answer # "success" /\ (row # None => row.status # "sent")
      BY <2>1 DEF FormInv, Reported
    <3> QED
      BY <2>1, <3>1, <3>2 DEF Mails, FormInv, FormTypes, RowOfForm, Reported
  <2>3. CASE ~configured
    <3>1. /\ handler' = "updating" /\ mail' = mail /\ outcome' \in Errors
          /\ outcome' # None
      BY <1>5, <2>3, NoneAssumption DEF Notify, Errors
    <3> QED
      BY <2>1, <3>1 DEF FormInv, FormTypes, RowOfForm, Reported
  <2> QED
    BY <2>2, <2>3
<1>6. CASE Hear \/ Trickle
  BY <1>6 DEF Hear, Trickle, Outcomes, Errors, FormInv, FormTypes, RowOfForm, Reported
<1>7. CASE Update
  BY <1>7, UpdateKeeps
<1>8. CASE Provider
  BY <1>8 DEF Provider, Mails, FormInv, FormTypes, RowOfForm, Reported
<1>9. CASE Day
  BY <1>9, RetentionAssumption
  DEF Day, formVars, FormInv, FormTypes, RowOfForm, Reported
<1>10. CASE Purge
  <2>1. row \in Row /\ made = row.created /\ row.created < today - Retention
        /\ row.created \in Nat
    BY <1>10 DEF Purge, Expired, FormInv, FormTypes, RowOfForm, Row
  <2>2. today - made > Retention
    BY <2>1, RetentionAssumption DEF FormInv, FormTypes
  <2> QED
    BY <1>10, <2>2 DEF Purge, FormInv, FormTypes, RowOfForm, Reported
<1>11. CASE UNCHANGED allVars
  BY <1>11 DEF allVars, formVars, FormInv, FormTypes, RowOfForm, Reported
<1> QED
  BY <1>1, <1>2, <1>3, <1>4, <1>5, <1>6, <1>7, <1>8, <1>9, <1>10, <1>11
  DEF SubmissionsNext, HandlerStep

LEMMA FormInvariance == SubmissionsSpec => [](Inv /\ FormInv)
<1>1. SubmissionsInit => FormInv
  BY NoneAssumption
  DEF SubmissionsInit, Answers, Mails, FormInv, FormTypes, RowOfForm, Reported
<1>2. SubmissionsSpec => []Inv
  BY BehindTheLimit, Invariance, PTL
<1> QED
  BY <1>1, <1>2, FormNext, PTL DEF SubmissionsSpec

(* A form is stored before anyone is told of it, as the client sent it, and *)
(* stays for the retention period whatever fails.                           *)
THEOREM Stored == SubmissionsSpec => []StoredAsSent
<1>1. FormInv => StoredAsSent
  <2> SUFFICES ASSUME FormInv PROVE StoredAsSent
    OBVIOUS
  <2>1. made # None /\ row = None => ~(today - made <= Retention)
    BY RetentionAssumption DEF FormInv, FormTypes, RowOfForm
  <2> QED
    BY <2>1 DEF FormInv, RowOfForm, StoredAsSent
<1> QED
  BY <1>1, FormInvariance, PTL

(* What the operator's list says of a request is true.                      *)
THEOREM Truthful == SubmissionsSpec => []StatusTruthful
<1>1. FormInv => StatusTruthful
  BY DEF FormInv, Reported, StatusTruthful
<1> QED
  BY <1>1, FormInvariance, PTL
=============================================================================
