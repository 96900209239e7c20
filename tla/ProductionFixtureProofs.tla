----------------------- MODULE ProductionFixtureProofs -----------------------
(***************************************************************************)
(* Proofs about module ProductionFixture, for every set of faults, every   *)
(* deployment and any number of settings of the switch by others: what the *)
(* exit code of the script is worth, and how it leaves the kill switch.    *)
(***************************************************************************)
EXTENDS ProductionFixture, TLAPS

Answers == {"none", "refused", "blocked", "wrong", "right", "error", "unavailable"}
Failures == {"error", "unavailable"}
Answered == net \in {"served", "read"}

TypeInv ==
  /\ faults \subseteq Faults /\ deployment \in Deployment
  /\ switch \in BOOLEAN /\ setter \in {"others", "fixture"}
  /\ orders \in Nat
  /\ step \in 1..18
  /\ net \in {"idle", "sent", "served", "read"}
  /\ answer \in Answers
  /\ failed \in BOOLEAN
  /\ status \in {"running", "passed", "failed", "raised"}
  /\ saw \subseteq {"meddled", "error", "unswitched", "screened"}

(* What an answer tells: a right one that its fault is not there, a blocked *)
(* one that the switch is heeded; an error has been noted.                  *)
AnswerTells ==
  /\ net # "idle" => step <= 17
  /\ Answered =>
       /\ answer = "right" => Script[step].fault \notin faults
       /\ answer = "blocked" => "switch" \notin faults
       /\ answer \in Failures => Trouble(answer) \subseteq saw

(* A request that has passed clears the service of its fault.               *)
Clears(i) ==
  IF i = 15 THEN "switch" \notin faults \/ "screened" \in saw
  ELSE Script[i].fault \notin faults

(* Nothing has failed only if every request before this one has passed.     *)
PassedSoFar == ~failed => \A i \in 1..(step - 1) : Clears(i)

(* A script that ended in order went to the end, and says what it recorded. *)
Outcome ==
  /\ status \in {"passed", "failed"} => step = 18 /\ net = "idle"
  /\ status = "passed" => ~failed
  /\ status = "failed" => failed

Sound == faults = {} /\ deployment = [admin |-> TRUE, broker |-> "open"]

(* A sound service that nothing has come between gave the right answers.    *)
NothingToReport ==
  Sound /\ saw = {} =>
    ~failed /\ (Answered => answer \in Script[step].passes)

(* The switch is asked for with an admin key only.                          *)
AsksWithKey ==
  step \in 15..16 \/ (step = 14 /\ net # "idle") => deployment.admin

(* Where the script is while the switch is on by its own doing: on the way  *)
(* to the request that restores it, or past it after a request that sets it *)
(* was answered with an error, which is recorded as a failure.              *)
OnByScript ==
  /\ step < 14 \/ (step = 14 /\ ~Answered) => setter = "others"
  /\ switch /\ setter = "fixture" =>
       \/ step = 14 /\ answer \in {"right"} \cup Failures
       \/ step = 15
       \/ step = 16 /\ (Answered => answer \in Failures)
       \/ step \in 17..18 /\ failed /\ "unswitched" \in saw

FixtureInv ==
  /\ TypeInv /\ AnswerTells /\ PassedSoFar /\ Outcome
  /\ NothingToReport /\ AsksWithKey /\ OnByScript

(* The script's requests: where a failed check sends it, what passes, and   *)
(* which of them are about the kill switch and the audit log.               *)
LEMMA ScriptShape ==
  /\ Len(Script) = 17
  /\ \A i \in 1..17 :
       /\ Script[i].failing \in (i + 1)..18
       /\ i # 15 => Script[i].passes = {"right"}
       /\ Script[i].call = "switch_on" <=> i = 14
       /\ Script[i].call = "switch_off" <=> i = 16
       /\ Script[i].call = "audit_log" <=> i = 17
       /\ i < 14 => Script[i].failing <= 14
       /\ Script[i].parses => i < 14
  /\ Script[15].passes = {"blocked", "unavailable"}
  /\ Script[15].call = "issue"
  /\ Script[14].failing = 17 /\ Script[15].failing = 16 /\ Script[16].failing = 17
  /\ Script[17].failing = 18
  /\ Script[14].fault = "none" /\ Script[16].fault = "none"
  /\ \A f \in Faults \ {"switch"} : \E i \in (1..17) \ {15} : Script[i].fault = f
  /\ \A i \in 1..17 : Script[i].fault # "switch"
<1>1. Len(Script) = 17
  BY DEF Script
<1>2. ASSUME NEW i \in 1..17
      PROVE  /\ Script[i].failing \in (i + 1)..18
             /\ i # 15 => Script[i].passes = {"right"}
             /\ Script[i].call = "switch_on" <=> i = 14
             /\ Script[i].call = "switch_off" <=> i = 16
             /\ Script[i].call = "audit_log" <=> i = 17
             /\ i < 14 => Script[i].failing <= 14
             /\ Script[i].parses => i < 14
             /\ Script[i].fault # "switch"
  BY SMTT(60) DEF Script, Request, Issue
<1>3. \A f \in Faults \ {"switch"} : \E i \in (1..17) \ {15} : Script[i].fault = f
  BY SMTT(60) DEF Script, Request, Issue, Faults
<1>4. /\ Script[15].passes = {"blocked", "unavailable"}
      /\ Script[15].call = "issue"
      /\ Script[14].failing = 17 /\ Script[15].failing = 16 /\ Script[16].failing = 17
      /\ Script[17].failing = 18
      /\ Script[14].fault = "none" /\ Script[16].fault = "none"
  BY SMTT(60) DEF Script, Request, Issue
<1> QED
  BY <1>1, <1>2, <1>3, <1>4

(* The handlers' answers: a sound service that nobody disturbs answers what *)
(* the script expects, and an answer never flatters a faulty one.           *)
LEMMA ReplyTells ==
  ASSUME TypeInv, step <= 17
  PROVE  /\ Reply \in {"refused", "blocked", "wrong", "right"}
         /\ Reply = "right" => Script[step].fault \notin faults
         /\ Reply = "blocked" => "switch" \notin faults
         /\ Sound /\ Meddled = {} => Reply \in Script[step].passes
<1> DEFINE asked == Script[step]
<1>1. step \in 1..17
  BY DEF TypeInv
<1>2. /\ Reply \in {"refused", "blocked", "wrong", "right"}
      /\ Reply = "right" => asked.fault \notin faults
      /\ Reply = "blocked" => "switch" \notin faults
  BY DEF Reply, Blocks
<1>3. ASSUME Sound, Meddled = {}
      PROVE  Reply \in asked.passes
  <2>1. ~Barred(asked.call) /\ faults = {}
    BY <1>3 DEF Barred, Sound
  <2>2. switch <=> step \in 15..16
    <3>1. switch = (step \in SwitchedOn)
      BY <1>3, Zenon DEF Meddled
    <3> QED
      BY <3>1 DEF SwitchedOn
  <2>3. CASE step = 15
    <3>1. Blocks(asked.call)
      BY <2>1, <2>2, <2>3, ScriptShape DEF Blocks
    <3> QED
      BY <2>1, <2>3, <3>1, ScriptShape DEF Reply
  <2>4. CASE step = 16
    BY <2>1, <2>4, ScriptShape DEF Reply, Blocks
  <2>5. CASE step \notin {15, 16}
    <3>1. ~switch /\ asked.passes = {"right"}
      BY <1>1, <2>2, <2>5, ScriptShape
    <3> QED
      BY <2>1, <3>1 DEF Reply, Blocks
  <2> QED
    BY <2>3, <2>4, <2>5
<1> QED
  BY <1>2, <1>3

(* What a handler does to the switch, by the request it serves.             *)
LEMMA ActSets ==
  ASSUME TypeInv, step <= 17, Act
  PROVE  /\ step = 14 => switch' = TRUE /\ setter' = "fixture"
         /\ step = 16 => switch' = FALSE /\ setter' = "fixture"
         /\ step \notin {14, 16} => UNCHANGED <<switch, setter>>
<1>1. step \in 1..17
  BY DEF TypeInv
<1> QED
  BY <1>1, ScriptShape DEF Act

(* A request served, by its handler or by an error, is the script's present *)
(* one, or the last one of a script that has ended in an exception.         *)
LEMMA ServedKeeps ==
  ASSUME FixtureInv, Serve \/ Break
  PROVE  FixtureInv'
<1> USE DEF FixtureInv
<1>1. /\ net = "sent" /\ net' = "served"
      /\ UNCHANGED <<faults, deployment, orders, step, failed, status>>
      /\ saw \subseteq saw'
  BY DEF Serve, Break, service
<1>2. step \in 1..17 /\ status \notin {"passed", "failed"}
  BY <1>1 DEF AnswerTells, Outcome, TypeInv
<1>3. /\ switch' \in BOOLEAN /\ setter' \in {"others", "fixture"}
      /\ step \notin {14, 16} => UNCHANGED <<switch, setter>>
  <2>1. Act \/ UNCHANGED <<switch, setter>>
    BY DEF Serve, Break
  <2>2. CASE Act
    <3>1. /\ step = 14 => switch' = TRUE /\ setter' = "fixture"
          /\ step = 16 => switch' = FALSE /\ setter' = "fixture"
          /\ step \notin {14, 16} => UNCHANGED <<switch, setter>>
      <4>1. TypeInv /\ step <= 17
        BY <1>2
      <4> QED
        BY <2>2, <4>1, ActSets, Zenon
    <3>2. switch \in BOOLEAN /\ setter \in {"others", "fixture"}
      BY DEF TypeInv
    <3> QED
      BY <3>1, <3>2
  <2>3. CASE UNCHANGED <<switch, setter>>
    BY <2>3 DEF TypeInv
  <2> QED
    BY <2>1, <2>2, <2>3
<1>4. /\ answer' \in {"refused", "blocked", "wrong", "right", "error", "unavailable"}
      /\ saw' \subseteq {"meddled", "error", "unswitched", "screened"}
      /\ answer' = "right" => Script[step].fault \notin faults
      /\ answer' = "blocked" => "switch" \notin faults
      /\ answer' \in Failures => Trouble(answer') \subseteq saw'
      /\ Sound /\ saw' = {} => answer' \in Script[step].passes
  <2>1. CASE Serve
    <3>1. answer' = Reply /\ saw' = saw \cup Meddled /\ Meddled \subseteq {"meddled"}
      BY <2>1 DEF Serve, Meddled
    <3> QED
      BY <1>2, <3>1, ReplyTells DEF TypeInv, Failures
  <2>2. CASE Break
    <3>1. /\ answer' \in Failures /\ saw' = saw \cup Meddled \cup Trouble(answer')
          /\ Meddled \subseteq {"meddled"}
          /\ "error" \in Trouble(answer')
          /\ Trouble(answer') \subseteq {"error", "unswitched", "screened"}
      BY <2>2 DEF Break, Meddled, Failures, Trouble
    <3> QED
      BY <3>1 DEF TypeInv, Failures
  <2> QED
    BY <2>1, <2>2
<1>5. TypeInv'
  BY <1>1, <1>3, <1>4 DEF TypeInv, Answers
<1>6. AnswerTells'
  <2>1. Trouble(answer') = Trouble(answer)'
    BY <1>1 DEF Trouble
  <2> QED
    BY <1>1, <1>2, <1>4, <2>1 DEF AnswerTells, TypeInv
<1>7. PassedSoFar'
  BY <1>1 DEF PassedSoFar, Clears
<1>8. Outcome'
  BY <1>1, <1>2 DEF Outcome
<1>9. NothingToReport'
  BY <1>1, <1>4 DEF NothingToReport, Sound
<1>10. AsksWithKey'
  BY <1>1 DEF AsksWithKey
<1>11. OnByScript'
  <2>1. CASE step \notin {14, 16}
    <3>1. UNCHANGED <<switch, setter>>
      BY <1>3, <2>1
    <3>2. step = 17 => net = "sent"
      BY <1>1
    <3> QED
      BY <1>1, <1>2, <2>1, <3>1 DEF OnByScript
  <2>2. CASE step = 14
    <3>1. setter = "others"
      BY <1>1, <2>2 DEF Answered, OnByScript
    <3>2. CASE UNCHANGED <<switch, setter>>
      BY <1>1, <2>2, <3>1, <3>2 DEF OnByScript
    <3>3. CASE ~UNCHANGED <<switch, setter>>
      <4>1. answer' \in {"right"} \cup Failures
        <5>1. CASE Serve
          <6>1. deployment.admin
            BY <1>1, <2>2 DEF AsksWithKey
          <6>2. ~Barred(Script[14].call) /\ ~Blocks(Script[14].call)
            BY <6>1, ScriptShape DEF Barred, Blocks
          <6> QED
            BY <2>2, <5>1, <6>2, ScriptShape DEF Serve, Reply, TypeInv, Faults
        <5>2. CASE Break
          BY <5>2 DEF Break, Failures
        <5> QED
          BY <5>1, <5>2
      <4> QED
        BY <1>1, <2>2, <4>1 DEF Answered, OnByScript
    <3> QED
      BY <3>2, <3>3
  <2>3. CASE step = 16
    <3>1. CASE switch' = FALSE
      BY <1>1, <2>3, <3>1 DEF OnByScript
    <3>2. CASE Break
      <4>1. answer' \in Failures
        BY <3>2 DEF Break, Failures
      <4> QED
        BY <1>1, <2>3, <4>1 DEF OnByScript
    <3>3. CASE Serve
      BY <2>3, <3>1, <3>3, ActSets DEF Serve
    <3> QED
      BY <3>2, <3>3
  <2> QED
    BY <2>1, <2>2, <2>3
<1> QED
  BY <1>5, <1>6, <1>7, <1>8, <1>9, <1>10, <1>11

(* An answer that comes in by pieces tells what it told.                    *)
LEMMA TrickleKeeps ==
  ASSUME FixtureInv, Trickle
  PROVE  FixtureInv'
<1> USE DEF FixtureInv
<1>1. /\ Answered /\ Answered' /\ net' \in {"served", "read"}
      /\ status = "running"
      /\ UNCHANGED <<faults, deployment, switch, setter, orders, step, answer,
                     failed, status, saw>>
  BY DEF Trickle, Answered, service
<1>2. net # "idle" /\ (step = 14 => deployment.admin)
  BY <1>1 DEF Answered, AsksWithKey
<1>3. TypeInv' /\ Outcome' /\ AsksWithKey'
  BY <1>1, <1>2 DEF TypeInv, Outcome, AsksWithKey
<1>4. AnswerTells' /\ NothingToReport' /\ OnByScript'
  BY <1>1, <1>2 DEF AnswerTells, NothingToReport, Sound, OnByScript, Trouble
<1>5. PassedSoFar'
  BY <1>1 DEF PassedSoFar, Clears
<1> QED
  BY <1>3, <1>4, <1>5

(* Others set the switch: it is no longer on by the script's doing.         *)
LEMMA OrderKeeps ==
  ASSUME FixtureInv, Order
  PROVE  FixtureInv'
<1> USE DEF FixtureInv
<1>1. /\ setter' = "others" /\ switch' \in BOOLEAN /\ orders' = orders + 1
      /\ UNCHANGED <<faults, deployment, step, net, answer, failed, status, saw>>
  BY DEF Order, service, script
<1>2. TypeInv'
  BY <1>1 DEF TypeInv
<1>3. AnswerTells' /\ PassedSoFar' /\ Outcome' /\ NothingToReport' /\ AsksWithKey'
  BY <1>1 DEF Answered, Trouble, AnswerTells, PassedSoFar, Clears, Outcome,
              NothingToReport, Sound,
              AsksWithKey
<1>4. OnByScript'
  BY <1>1 DEF OnByScript
<1> QED
  BY <1>2, <1>3, <1>4

(* Without a key the script goes from the kill switch to the audit log, and *)
(* from there to its end, with its failure recorded.                        *)
LEMMA SkipKeeps ==
  ASSUME FixtureInv, Skip
  PROVE  FixtureInv'
<1> USE DEF FixtureInv
<1>1. /\ status = "running" /\ net = "idle" /\ ~deployment.admin
      /\ step' = Script[step].failing /\ failed' = TRUE
      /\ UNCHANGED <<faults, deployment, switch, setter, orders, net, answer,
                     status, saw>>
  BY DEF Skip, service
<1>2. (step = 14 /\ step' = 17) \/ (step = 17 /\ step' = 18)
  <2>1. step \in 1..17 /\ Script[step].call \in {"switch_on", "audit_log"}
    BY ScriptShape DEF Skip, TypeInv
  <2> QED
    BY <1>1, <2>1, ScriptShape
<1>3. TypeInv'
  BY <1>1, <1>2 DEF TypeInv
<1>4. AnswerTells' /\ PassedSoFar' /\ Outcome' /\ AsksWithKey'
  BY <1>1, <1>2 DEF Answered, Trouble, AnswerTells, PassedSoFar, Outcome, AsksWithKey
<1>5. NothingToReport'
  BY <1>1 DEF NothingToReport, Sound
<1>6. OnByScript'
  BY <1>1, <1>2 DEF Answered, OnByScript
<1> QED
  BY <1>3, <1>4, <1>5, <1>6

LEMMA SendKeeps ==
  ASSUME FixtureInv, Send
  PROVE  FixtureInv'
<1> USE DEF FixtureInv
<1>1. /\ status = "running" /\ net = "idle" /\ net' = "sent"
      /\ step <= 17
      /\ UNCHANGED <<faults, deployment, switch, setter, orders, step, answer,
                     failed, status, saw>>
  BY ScriptShape DEF Send, service
<1>2. step = 14 => deployment.admin
  BY ScriptShape DEF Send
<1>3. TypeInv'
  BY <1>1 DEF TypeInv
<1>4. AnswerTells' /\ Outcome' /\ NothingToReport'
  BY <1>1 DEF Answered, Trouble, AnswerTells, Outcome, NothingToReport, Sound
<1>5. PassedSoFar'
  BY <1>1 DEF PassedSoFar, Clears
<1>6. AsksWithKey'
  BY <1>1, <1>2 DEF AsksWithKey
<1>7. OnByScript'
  BY <1>1 DEF Answered, OnByScript
<1> QED
  BY <1>3, <1>4, <1>5, <1>6, <1>7

(* The script looks at an answer: what passes clears the service of one     *)
(* more fault, and what does not pass leads on with its failure recorded.   *)
LEMMA CheckKeeps ==
  ASSUME FixtureInv, Check
  PROVE  FixtureInv'
<1> USE DEF FixtureInv
<1> DEFINE passed == answer \in Script[step].passes
<1>1. /\ status = "running" /\ net = "served" /\ net' = "idle"
      /\ UNCHANGED <<faults, deployment, switch, setter, orders, answer, saw>>
  BY DEF Check, service
<1>2. step \in 1..17
  BY <1>1 DEF AnswerTells, TypeInv
<1>3. CASE /\ Script[step].parses
           /\ status' = "raised" /\ UNCHANGED <<step, failed>>
  <2>1. TypeInv'
    BY <1>1, <1>3 DEF TypeInv
  <2>2. AnswerTells' /\ Outcome' /\ NothingToReport'
    BY <1>1, <1>3 DEF Answered, Trouble, AnswerTells, Outcome, NothingToReport, Sound
  <2>3. PassedSoFar'
    BY <1>1, <1>3 DEF PassedSoFar, Clears
  <2>4. AsksWithKey'
    BY <1>1, <1>3 DEF AsksWithKey
  <2>5. OnByScript'
    <3>1. step < 14
      BY <1>2, <1>3, ScriptShape
    <3> QED
      BY <1>1, <1>3, <3>1 DEF OnByScript
  <2> QED
    BY <2>1, <2>2, <2>3, <2>4, <2>5
<1>4. CASE /\ step' = IF passed THEN step + 1 ELSE Failing(step)
           /\ failed' = Recorded(passed)
           /\ UNCHANGED status
  <2>1. /\ step' \in (step + 1)..18
        /\ passed => step' = step + 1
        /\ ~passed => step' = Script[step].failing
        /\ failed' \in BOOLEAN
        /\ failed' <=> failed \/ ~passed
    <3>1. failed' = (failed \/ ~passed)
      BY <1>4, Zenon DEF Recorded
    <3>2. failed' \in BOOLEAN /\ (failed' <=> failed \/ ~passed)
      BY <3>1, Zenon
    <3> QED
      BY <1>2, <1>4, <3>2, ScriptShape DEF Failing
  <2>2. TypeInv'
    BY <1>1, <1>2, <1>4, <2>1 DEF TypeInv
  <2>3. AnswerTells' /\ Outcome'
    BY <1>1, <1>4 DEF Answered, Trouble, AnswerTells, Outcome
  <2>4. PassedSoFar'
    <3> SUFFICES ASSUME ~failed', NEW i \in 1..(step' - 1)
                 PROVE  Clears(i)'
      BY DEF PassedSoFar
    <3>0. ~failed /\ passed
      BY <2>1, Zenon
    <3>1. step' = step + 1 /\ i \in 1..step
      <4>1. step' = step + 1
        BY <2>1, <3>0, Zenon
      <4> QED
        BY <1>2, <4>1
    <3>2. CASE i \in 1..(step - 1)
      BY <1>1, <3>0, <3>2 DEF PassedSoFar, Clears
    <3>3. CASE i = step /\ step # 15
      <4>1. Script[step].passes = {"right"}
        BY <1>2, <3>3, ScriptShape
      <4> QED
        BY <1>1, <3>0, <3>3, <4>1 DEF Answered, Trouble, AnswerTells, Clears
    <3>4. CASE i = step /\ step = 15
      <4>1. answer \in {"blocked", "unavailable"}
        BY <3>0, <3>4, ScriptShape
      <4> QED
        BY <1>1, <3>4, <4>1 DEF Answered, Trouble, AnswerTells, Clears, Failures
    <3> QED
      BY <1>2, <3>1, <3>2, <3>3, <3>4
  <2>5. NothingToReport'
    BY <1>1, <2>1 DEF Answered, NothingToReport, Sound
  <2>6. AsksWithKey'
    <3> SUFFICES ASSUME step' \in 15..16 PROVE deployment.admin
      BY <1>1 DEF AsksWithKey
    <3>1. step \in 14..15
      BY <1>2, <2>1, ScriptShape
    <3> QED
      BY <1>1, <3>1 DEF AsksWithKey
  <2>7. OnByScript'
    <3>1. step' <= 14 => setter' = "others"
      BY <1>1, <1>2, <2>1 DEF OnByScript
    <3>2. ASSUME switch', setter' = "fixture"
          PROVE  \/ step' = 15
                 \/ step' = 16
                 \/ step' \in 17..18 /\ failed' /\ "unswitched" \in saw
      <4>1. CASE step = 14
        <5>1. answer = "right" => step' = 15
          BY <2>1, <4>1, ScriptShape
        <5>2. answer \in Failures => step' = 17 /\ failed' /\ "unswitched" \in saw
          BY <1>1, <2>1, <4>1, ScriptShape DEF AnswerTells, Answered, Failures, Trouble
        <5> QED
          BY <1>1, <3>2, <4>1, <5>1, <5>2 DEF OnByScript
      <4>2. CASE step = 15
        BY <2>1, <4>2, ScriptShape
      <4>3. CASE step = 16
        <5>1. answer \in Failures /\ "unswitched" \in saw
          BY <1>1, <3>2, <4>3 DEF OnByScript, AnswerTells, Answered, Trouble
        <5>2. ~passed /\ step' = 17
          BY <2>1, <4>3, <5>1, ScriptShape DEF Failures
        <5> QED
          BY <2>1, <5>1, <5>2
      <4>4. CASE step = 17
        BY <1>1, <1>2, <2>1, <3>2, <4>4 DEF OnByScript
      <4>5. step \in 14..17
        BY <1>1, <1>2, <3>2 DEF OnByScript
      <4> QED
        BY <4>1, <4>2, <4>3, <4>4, <4>5
    <3>3. (step < 14 \/ (step = 14 /\ ~Answered) => setter = "others")'
      <4>1. step' < 14 \/ step' = 14 => step' <= 14
        BY <2>2 DEF TypeInv
      <4> QED
        BY <3>1, <4>1
    <3>4. ~Answered' /\ saw' = saw
      BY <1>1 DEF Answered
    <3> QED
      BY <3>2, <3>3, <3>4, Zenon DEF OnByScript
  <2> QED
    BY <2>2, <2>3, <2>4, <2>5, <2>6, <2>7
<1> QED
  BY <1>3, <1>4 DEF Check

LEMMA EndKeeps ==
  ASSUME FixtureInv, Raise \/ Exit
  PROVE  FixtureInv'
<1> USE DEF FixtureInv
<1>1. /\ status = "running"
      /\ UNCHANGED <<faults, deployment, switch, setter, orders, step, net,
                     answer, failed, saw>>
  BY DEF Raise, Exit, service
<1>2. AnswerTells' /\ NothingToReport' /\ AsksWithKey' /\ OnByScript'
  BY <1>1 DEF Answered, Trouble, AnswerTells, NothingToReport, Sound, AsksWithKey,
              OnByScript
<1>3. PassedSoFar'
  BY <1>1 DEF PassedSoFar, Clears
<1>4. TypeInv' /\ Outcome'
  <2>1. CASE Raise
    BY <1>1, <2>1 DEF Raise, TypeInv, Outcome
  <2>2. CASE Exit
    <3>1. step = 18 /\ net = "idle"
      BY <2>2, ScriptShape DEF Exit, TypeInv, AnswerTells
    <3> QED
      BY <1>1, <2>2, <3>1 DEF Exit, TypeInv, Outcome
  <2> QED
    BY <2>1, <2>2
<1> QED
  BY <1>2, <1>3, <1>4

LEMMA FixtureInvInductive == Spec => []FixtureInv
<1>1. Init => FixtureInv
  <2> SUFFICES ASSUME Init PROVE FixtureInv
    OBVIOUS
  <2>1. TypeInv
    <3>1. faults \subseteq Faults /\ deployment \in Deployment
      BY ServiceAssumption DEF Init
    <3> QED
      <4>1. switch \in BOOLEAN /\ failed \in BOOLEAN
        BY Zenon DEF Init
      <4>2. /\ setter \in {"others", "fixture"} /\ orders \in Nat /\ step \in 1..18
            /\ net \in {"idle", "sent", "served", "read"} /\ answer \in Answers
            /\ status \in {"running", "passed", "failed", "raised"}
            /\ saw \subseteq {"meddled", "error", "unswitched", "screened"}
        BY DEF Init, Answers
      <4> QED
        BY <3>1, <4>1, <4>2 DEF TypeInv
  <2>2. AnswerTells /\ Outcome /\ NothingToReport /\ AsksWithKey /\ OnByScript
    BY DEF Answered, Trouble, Init, AnswerTells, Outcome, NothingToReport,
           AsksWithKey, OnByScript
  <2>3. PassedSoFar
    BY DEF Init, PassedSoFar
  <2> QED
    BY <2>1, <2>2, <2>3 DEF FixtureInv
<1>2. FixtureInv /\ [Next]_vars => FixtureInv'
  <2> SUFFICES ASSUME FixtureInv, [Next]_vars PROVE FixtureInv'
    OBVIOUS
  <2>1. CASE Serve \/ Break
    BY <2>1, ServedKeeps
  <2>2. CASE Order
    BY <2>2, OrderKeeps
  <2>8. CASE Trickle
    BY <2>8, TrickleKeeps
  <2>3. CASE Skip
    BY <2>3, SkipKeeps
  <2>4. CASE Send
    BY <2>4, SendKeeps
  <2>5. CASE Check
    BY <2>5, CheckKeeps
  <2>6. CASE Raise \/ Exit
    BY <2>6, EndKeeps
  <2>7. CASE UNCHANGED vars
    <3>1. TypeInv' /\ AnswerTells' /\ Outcome' /\ AsksWithKey' /\ OnByScript'
      BY <2>7 DEF Answered, Trouble, FixtureInv, vars, service, script, TypeInv,
                  AnswerTells,
                  Outcome, AsksWithKey, OnByScript
    <3>2. PassedSoFar' /\ NothingToReport'
      BY <2>7 DEF Answered, FixtureInv, vars, service, script, PassedSoFar, Clears,
                  NothingToReport, Sound
    <3> QED
      BY <3>1, <3>2 DEF FixtureInv
  <2> QED
    BY <2>1, <2>2, <2>3, <2>4, <2>5, <2>6, <2>7, <2>8 DEF Next, Run
<1> QED
  BY <1>1, <1>2, PTL DEF Spec

(* Exit code 0 shows a service without any of the faults, whatever went     *)
(* wrong on the way, except an ignored kill switch behind a proxy's 503.    *)
THEOREM PassShowsConformant == Spec => []PassMeansConformant
<1>1. FixtureInv => PassMeansConformant
  <2> SUFFICES ASSUME FixtureInv, status = "passed"
               PROVE  faults = {} \/ (faults = {"switch"} /\ "screened" \in saw)
    BY DEF PassMeansConformant
  <2>1. \A i \in 1..17 : Clears(i)
    BY DEF FixtureInv, Outcome, PassedSoFar
  <2>2. faults \subseteq {"switch"}
    <3> SUFFICES ASSUME NEW f \in faults, f # "switch" PROVE FALSE
      OBVIOUS
    <3>1. f \in Faults \ {"switch"}
      BY DEF FixtureInv, TypeInv
    <3>2. PICK i \in (1..17) \ {15} : Script[i].fault = f
      BY <3>1, ScriptShape
    <3> QED
      BY <2>1, <3>2 DEF Clears
  <2>3. "switch" \notin faults \/ "screened" \in saw
    BY <2>1 DEF Clears
  <2> QED
    BY <2>2, <2>3
<1> QED
  BY <1>1, FixtureInvInductive, PTL

(* Exit code 1 never accuses a sound service that nothing came between.     *)
THEOREM FailureIsNoFalseAlarm == Spec => []NoFalseAlarm
<1>1. FixtureInv => NoFalseAlarm
  BY DEF FixtureInv, Outcome, NothingToReport, Sound, NoFalseAlarm, Undisturbed
<1> QED
  BY <1>1, FixtureInvInductive, PTL

(* A script that has ended has left the kill switch on only after an error  *)
(* in answer to a request that sets it, or by an exception while it had it  *)
(* on; never with exit code 0.                                              *)
THEOREM SwitchedOffAtExit == Spec => []LeftOnOnlyByFailure
<1>1. FixtureInv => LeftOnOnlyByFailure
  BY DEF FixtureInv, TypeInv, Outcome, OnByScript, LeftOnOnlyByFailure, SwitchedOn
<1> QED
  BY <1>1, FixtureInvInductive, PTL
=============================================================================
