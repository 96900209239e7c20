----------------------------- MODULE Submissions -----------------------------
(***************************************************************************)
(* The public forms behind the size limit of module RequestLimits:         *)
(* routers/partners.py create_partner_submission with                      *)
(* partner_notification.py, routers/analytics.py record_event, and the     *)
(* operator's scripts/retention_cleanup.py.                                *)
(*                                                                         *)
(* The application of RequestLimits is one of these handlers.  Each is a   *)
(* sync function in a thread of its own: it parses the body it was given,  *)
(* stores a row, mails the team through a provider (external), and notes   *)
(* in the row what came of it.  An exception or the death of the process   *)
(* may end it between any two storage calls.                               *)
(***************************************************************************)
EXTENDS RequestLimits

CONSTANTS
  None,
  Valid,        \* bodies the models PartnerSubmission or AnalyticsEvent take
  Retention,    \* --days of retention_cleanup.py
  MaxDays       \* bound on the clock, in days

Errors == {"notification_provider_not_configured", "notification_provider_error"}
Answers == {"invalid", "limited", "accepted", "success", "failed"}
Row == [table: {"partners", "analytics_events"}, body: Seq(Byte), created: Nat,
        status: {"pending", "sent"}, error: Errors \cup {None}]

ASSUME NoneAssumption == None \notin Row \cup Errors \cup Answers \cup Nat
ASSUME RetentionAssumption == Retention \in 1..3650 /\ MaxDays \in Nat

VARIABLES
  configured, \* the provider's key and sender are set in the environment
  handler,    \* where the handler stands
  row,        \* the row of the partners or analytics_events table, or None
  mail,       \* what became of the request to the provider
  outcome,    \* what notify_partner_submission returned: None is success
  answer,     \* what the client was told
  today,      \* the clock
  made        \* history: the day the row was stored, or None

formVars == <<configured, handler, row, mail, outcome, answer, made>>
allVars == <<vars, formVars, today>>

SubmissionsInit ==
  /\ Init
  /\ configured \in BOOLEAN
  /\ handler = "reading"
  /\ row = None
  /\ mail = "none"
  /\ outcome = None
  /\ answer = None
  /\ today = 0
  /\ made = None

(* The handler goes on while the request stays with the application. *)
Step(from, to) ==
  /\ pc = "application"
  /\ handler = from /\ handler' = to
  /\ UNCHANGED <<vars, configured, answer, today>>

(* The handler is over and the client gets its answer. *)
Finish(from, reply) ==
  /\ handler = from /\ handler' = "over"
  /\ Respond
  /\ answer' = reply
  /\ UNCHANGED <<configured, today>>

-----------------------------------------------------------------------------
(* FastAPI and slowapi: the body is read and validated (422), then the rate *)
(* limit, an external count, is consulted (429).                            *)
Read == request.gated /\ delivered

RefuseForm ==
  /\ Read
  /\ \/ seen \notin Valid /\ Finish("reading", "invalid")
     \/ seen \in Valid /\ Finish("reading", "limited")
  /\ UNCHANGED <<row, mail, outcome, made>>

AcceptForm ==
  /\ Read
  /\ seen \in Valid
  /\ \E form \in {"partner", "event"} : Step("reading", form)
  /\ UNCHANGED <<row, mail, outcome, made>>

(* One INSERT, in a transaction of its own. *)
Insert(table) ==
  /\ row' = [table |-> table, body |-> seen, created |-> today,
             status |-> "pending", error |-> None]
  /\ made' = today

(* save_analytics_event, and the answer. *)
SaveEvent ==
  /\ Finish("event", "accepted")
  /\ Insert("analytics_events")
  /\ UNCHANGED <<mail, outcome>>

(* save_partner_submission *)
SavePartner ==
  /\ Step("partner", "notifying")
  /\ Insert("partners")
  /\ UNCHANGED <<mail, outcome>>

(* notify_partner_submission: without credentials it returns at once. *)
Notify ==
  /\ IF configured
     THEN Step("notifying", "waiting") /\ mail' = "asked" /\ UNCHANGED outcome
     ELSE /\ Step("notifying", "updating")
          /\ outcome' = "notification_provider_not_configured"
          /\ UNCHANGED mail
  /\ UNCHANGED <<row, made>>

(* The provider takes the request, refuses it, or never gets it, be anyone  *)
(* still waiting or not.                                                    *)
Provider ==
  /\ mail = "asked"
  /\ \E fate \in {"accepted", "refused", "lost"} : mail' = fate
  /\ UNCHANGED <<vars, configured, handler, row, outcome, answer, today, made>>

(* The provider begins its answer, or falls silent in the middle of it.     *)
(* timeout=10.0 bounds each connect, read and write and not the call: every *)
(* piece that comes in puts the timeout off once more.                      *)
Trickle ==
  /\ mail \in {"accepted", "refused"}
  /\ Step("waiting", "hearing") \/ Step("hearing", "waiting")
  /\ UNCHANGED <<row, mail, outcome, made>>

(* A faulty variant: an answer is taken for success whatever its status. *)
Outcomes_AnyAnswer ==
  {o \in {None, "notification_provider_error"} :
     o = None => mail \in {"accepted", "refused"}}

(* A faulty variant: the client waits without a timeout. *)
Outcomes_NoTimeout ==
  CASE mail = "accepted" -> {None}
    [] mail = "refused" -> {"notification_provider_error"}
    [] OTHER -> {}

(* How the wait may end: a 2xx from the provider that took the request, or  *)
(* an httpx.HTTPError (a status of 400 and up, a lost connection, ten       *)
(* seconds of silence), the latter at any time.                             *)
Outcomes ==
  {o \in {None, "notification_provider_error"} : o = None => mail = "accepted"}

Hear ==
  /\ Step("waiting", "updating") \/ Step("hearing", "updating")
  /\ \E o \in Outcomes : outcome' = o
  /\ UNCHANGED <<row, mail, made>>

(* A faulty variant: the error is not written. *)
Noted_NoError(r) ==
  [r EXCEPT !.status = IF outcome = None THEN "sent" ELSE "pending"]

(* update_partner_notification: an UPDATE of the row, if it is still there.*)
Noted(r) ==
  [r EXCEPT !.status = IF outcome = None THEN "sent" ELSE "pending",
            !.error = outcome]

Update ==
  /\ Finish("updating", "success")
  /\ row' = IF row = None THEN None ELSE Noted(row)
  /\ UNCHANGED <<mail, outcome, made>>

HandlerStep ==
  \/ handler # "dead" /\ Replay /\ UNCHANGED <<formVars, today>>
  \/ RefuseForm \/ AcceptForm
  \/ SaveEvent
  \/ SavePartner \/ Notify \/ Hear \/ Update

(* An exception leaves the handler: the client gets a 500. *)
Fail ==
  /\ request.gated /\ handler # "dead"
  /\ Finish(handler, "failed")
  /\ UNCHANGED <<row, mail, outcome, made>>

(* The process dies with the handler in it: nobody answers the client.  (If *)
(* it dies earlier, in the middleware, the body is lost and no more.)       *)
Die ==
  /\ request.gated
  /\ handler \notin {"over", "dead"} /\ Step(handler, "dead")
  /\ UNCHANGED <<row, mail, outcome, made>>

-----------------------------------------------------------------------------
Day ==
  /\ today < MaxDays
  /\ today' = today + 1
  /\ UNCHANGED <<vars, formVars>>

(* A faulty variant: the last day of the retention is cut off. *)
Expired_Inclusive(r) == r.created <= today - Retention

Expired(r) == r.created < today - Retention

(* purge_expired_partner_data, run by an operator with --confirm: one       *)
(* transaction over both tables.                                            *)
Purge ==
  /\ row # None /\ Expired(row)
  /\ row' = None
  /\ UNCHANGED <<vars, configured, handler, mail, outcome, answer, today, made>>

(* A request that carries no body is for another handler. *)
OtherHandler ==
  /\ \/ PassThrough
     \/ ~request.gated /\ Respond
  /\ UNCHANGED <<formVars, today>>

SubmissionsNext ==
  \/ (Send \/ Leave \/ Middleware) /\ UNCHANGED <<formVars, today>>
  \/ HandlerStep \/ Fail \/ Die \/ OtherHandler
  \/ Provider \/ Trickle
  \/ Day \/ Purge

SubmissionsSpec == SubmissionsInit /\ [][SubmissionsNext]_allVars

(* As in RequestLimits, and the handler's thread runs on; ten seconds of    *)
(* silence end its wait.  A provider in the middle of its answer may go on  *)
(* with it for ever: that it ends is not assumed, nor anything else of it.  *)
SubmissionsFair ==
  /\ SubmissionsSpec
  /\ WF_allVars(Middleware /\ UNCHANGED <<formVars, today>>)
  /\ WF_allVars(handler # "hearing" /\ HandlerStep)

-----------------------------------------------------------------------------
(* "Submissions are persisted before notification is attempted"             *)
(* (partner_notification.py:3), as the whole body the client sent, within   *)
(* the limit, and stay for the retention period whatever fails: the         *)
(* provider, the handler or the process.                                    *)
StoredAsSent ==
  /\ mail # "none" \/ answer \in {"success", "accepted"} => made # None
  /\ made # None /\ today - made <= Retention => row # None
  /\ row # None => /\ whole /\ row.body = sent
                   /\ Len(row.body) <= MaxBytes

(* The operator's list tells the truth about each request: "sent" means the *)
(* provider took the mail, and a request that was answered and whose mail   *)
(* never got there says why.  Only a handler that failed or died leaves     *)
(* "pending" without a reason.  That "pending" means not sent is not        *)
(* promised: see PendingMeansUnsent.                                        *)
StatusTruthful ==
  row # None =>
    /\ row.status = "sent" => mail = "accepted"
    /\ answer = "success" /\ mail \in {"none", "refused", "lost"} => row.error # None

(* A form whose request was answered and whose mail the provider took is    *)
(* not listed as pending.                                                   *)
PendingMeansUnsent ==
  row # None /\ answer = "success" /\ mail = "accepted" => row.status = "sent"

(* A form that got through the size limit is answered, if only by a 500,    *)
(* whether the provider takes the mail, refuses it, or keeps silent; unless *)
(* the process dies, or the provider is time and again found in the middle  *)
(* of an answer that does not end.                                          *)
FormAnswered ==
  (pc = "application" /\ request.gated)
    ~> (pc = "answered" \/ handler \in {"dead", "hearing"})
=============================================================================
