--------------------------- MODULE WebhooksProofs ---------------------------
(***************************************************************************)
(* Proofs about Webhooks, for every set of people, tables, hooks, events   *)
(* and deliveries and every value of the limits.                           *)
(*                                                                         *)
(* The inductive invariant IInv is the type invariant, the safety          *)
(* properties of the component and three facts they rest on: Blank,        *)
(* StagedBelow and Unheld.  BatchIntact carries the weight: it says what   *)
(* the worker's transaction may rely on while every other actor moves.     *)
(* The action properties and the refinement of DeliveryLedger follow from  *)
(* IInv and the few actions that write a delivery (Writers).               *)
(***************************************************************************)
EXTENDS Webhooks, FiniteSetTheorems, TLAPS

\* A row nobody has inserted yet carries no line and counts no attempt.
Blank == \A d \in Deliveries : delivery[d].st = "absent" =>
             delivery[d].carries = {} /\ delivery[d].attempts = 0

\* What the worker has written of a hook and not committed obeys the threshold
\* too: the commit is where a count reaches the row.
StagedBelow == \A h \in touched : stagedHook[h].st = "live" => stagedHook[h].failures < DisableAfter

\* A line is held once: before its fan-out reaches the hook there is none.
Unheld == \A e \in Events, h \in Hooks :
              fan[e].st \in {"quiet", "told"} \/ h \in fan[e].daily => line[<<e, h>>] = "none"

\* The inductive invariant.
IInv == /\ TypeOK /\ BatchIntact /\ EndsForItsReason
        /\ LiveBelowThreshold /\ StagedBelow
        /\ Blank /\ Unheld /\ LineOnce

USE ConstantsOK DEF ConstantsOK

\* A row of the fan-out has its type.
LEMMA FanTyped ==
    ASSUME NEW st \in {"quiet", "told", "inserting", "over"}, NEW audience \in SUBSET Users,
           NEW public \in BOOLEAN, NEW now \in SUBSET Hooks, NEW daily \in SUBSET Hooks
    PROVE  Fan(st, audience, public, now, daily) \in FanRow
  BY DEF Fan, FanRow

\* So have the two rows the fan-out begins and ends with.
LEMMA FanConstants == Over \in FanRow /\ Quiet \in FanRow
  BY DEF Over, Quiet, Fan, FanRow

\* A delivery as it is inserted has its type.
LEMMA QueuedTyped ==
    ASSUME NEW h \in Hooks, NEW event \in Events \cup {None}, NEW carried \in SUBSET Lines
    PROVE  Queued(h, event, carried) \in DeliveryRow
  BY DEF Queued, DeliveryRow

\* The rows that stand for nothing, and a new hook, have their types.
LEMMA RowTypes ==
    /\ NoHook \in HookRow
    /\ NoDelivery \in DeliveryRow
    /\ NoDelivery.st = "absent" /\ NoDelivery.carries = {} /\ NoDelivery.attempts = 0
    /\ \A daily \in BOOLEAN : NewHook(daily) \in HookRow
  <1>1. (CHOOSE h \in Hooks : TRUE) \in Hooks
      OBVIOUS
  <1>2. NoHook \in HookRow /\ \A daily \in BOOLEAN : NewHook(daily) \in HookRow
      BY DEF NoHook, HookRow, NewHook
  <1>3. NoDelivery \in DeliveryRow
      BY <1>1 DEF NoDelivery, DeliveryRow
  <1>4. NoDelivery.st = "absent" /\ NoDelivery.carries = {} /\ NoDelivery.attempts = 0
      BY DEF NoDelivery
  <1> QED
      BY <1>2, <1>3, <1>4

\* The invariant holds of the empty database.
LEMMA InitInv == Init => IInv
  <1> SUFFICES ASSUME Init PROVE IInv
      OBVIOUS
  <1> USE RowTypes DEF Init
  <1>1. TypeOK
    <2>1. fan \in [Events -> FanRow]
        BY FanConstants
    <2>2. current \in Deliveries /\ digHook \in Hooks
        OBVIOUS
    <2>3. hook \in [Hooks -> HookRow] /\ stagedHook \in [Hooks -> HookRow]
        BY DEF Nobody
    <2>4. delivery \in [Deliveries -> DeliveryRow] /\ stagedDelivery \in [Deliveries -> DeliveryRow]
        BY DEF Nothing
    <2>5. line \in [Lines -> {"none", "held", "due", "queued", "forgotten"}]
        OBVIOUS
    <2>6. faults \in 0..MaxFaults /\ doors \in 0..MaxDoors
        OBVIOUS
    <2> QED
        BY <2>1, <2>2, <2>3, <2>4, <2>5, <2>6 DEF TypeOK
  <1>2. BatchIntact
      BY DEF BatchIntact
  <1>3. EndsForItsReason /\ LiveBelowThreshold /\ StagedBelow /\ Blank
      BY DEF EndsForItsReason, LiveBelowThreshold, StagedBelow, Blank, Nothing, Nobody, NoHook
  <1>4. LineOnce /\ Unheld
      BY DEF LineOnce, Nothing, Unheld, Lines, Quiet, Fan
  <1> QED
      BY <1>1, <1>2, <1>3, <1>4 DEF IInv

\* Recording an attempt keeps a row what it is, one attempt further.
LEMMA Attempted ==
    ASSUME NEW row \in DeliveryRow, row.attempts < MaxAttempts,
           NEW st \in {"pending", "delivered", "dead"}, NEW due \in BOOLEAN
    PROVE  LET new == [row EXCEPT !.st = st, !.due = due, !.attempts = @ + 1]
           IN  /\ new \in DeliveryRow
               /\ new.hook = row.hook /\ new.event = row.event /\ new.carries = row.carries
               /\ new.attempts = row.attempts + 1 /\ new.st = st
  <1>1. row.attempts \in 0..MaxAttempts
      BY DEF DeliveryRow
  <1>2. row.attempts + 1 \in 0..MaxAttempts
      BY <1>1
  <1> QED
      BY <1>2 DEF DeliveryRow

\* Re-enabling a hook leaves it live with no failures (EnableWebhook).
LEMMA Reset ==
    ASSUME NEW row \in HookRow
    PROVE  LET new == [row EXCEPT !.st = "live", !.failures = 0]
           IN  new \in HookRow /\ new.st = "live" /\ new.failures = 0
  BY DEF HookRow

\* What the worker writes of a hook -- cleared by a success, counted by a death,
\* disabled at the threshold -- is a row below the threshold or out of service.
LEMMA Counted ==
    ASSUME NEW row \in HookRow, row.st \in {"live", "disabled"},
           row.st = "live" => row.failures < DisableAfter
    PROVE  /\ LET cleared == [row EXCEPT !.failures = 0]
              IN  /\ cleared \in HookRow /\ cleared.st \in {"live", "disabled"}
                  /\ cleared.st = "live" => cleared.failures < DisableAfter
           /\ LET counted == [row EXCEPT
                          !.failures = row.failures + 1,
                          !.st = IF row.failures + 1 >= DisableAfter THEN "disabled" ELSE @]
              IN  /\ counted \in HookRow /\ counted.st \in {"live", "disabled"}
                  /\ counted.st = "live" => counted.failures < DisableAfter
  <1>1. row.failures \in Nat /\ row.failures + 1 \in Nat
      BY DEF HookRow
  <1> DEFINE st == IF row.failures + 1 >= DisableAfter THEN "disabled" ELSE row.st
  <1>2. st \in {"live", "disabled"} /\ (st = "live" => row.failures + 1 < DisableAfter)
      BY <1>1
  <1> HIDE DEF st
  <1>3. LET counted == [row EXCEPT !.failures = row.failures + 1, !.st = st]
        IN  /\ counted \in HookRow /\ counted.st \in {"live", "disabled"}
            /\ counted.st = "live" => counted.failures < DisableAfter
      BY <1>1, <1>2 DEF HookRow
  <1>4. LET cleared == [row EXCEPT !.failures = 0]
        IN  /\ cleared \in HookRow /\ cleared.st \in {"live", "disabled"}
            /\ cleared.st = "live" => cleared.failures < DisableAfter
      BY <1>1 DEF HookRow
  <1> QED
      BY <1>3, <1>4 DEF st

\* A step that moves no line and changes no message keeps LineOnce.
LEMMA SameLines ==
    ASSUME LineOnce, UNCHANGED line,
           \A d \in Deliveries : delivery'[d].carries = delivery[d].carries
    PROVE  LineOnce'
  <1> SUFFICES ASSUME NEW l \in Lines
               PROVE  /\ line'[l] = "queued" <=> \E d \in Deliveries : l \in delivery'[d].carries
                      /\ \A d, c \in Deliveries :
                            l \in delivery'[d].carries /\ l \in delivery'[c].carries => d = c
      BY DEF LineOnce
  <1> QED
      BY DEF LineOnce

\* Inserting one delivery that carries nothing (fan-out, ping) disturbs neither
\* the open batch nor any outcome.
LEMMA Queues ==
    ASSUME IInv, NEW h \in Hooks, NEW event \in Events \cup {None}, NEW d \in Fresh,
           delivery' = [delivery EXCEPT ![d] = Queued(h, event, {})],
           UNCHANGED <<hook, line, workVars, history>>
    PROVE  /\ delivery' \in [Deliveries -> DeliveryRow]
           /\ BatchIntact' /\ EndsForItsReason' /\ Blank' /\ LineOnce'
  <1>1. Queued(h, event, {}) \in DeliveryRow
      BY QueuedTyped
  <1>2. d \in Deliveries /\ delivery[d].st = "absent" /\ delivery[d].carries = {}
      BY DEF Fresh, IInv, Blank
  <1>3. delivery' \in [Deliveries -> DeliveryRow]
      BY <1>1, <1>2 DEF IInv, TypeOK
  <1>4. d \notin claimed
      BY <1>2 DEF IInv, BatchIntact
  <1>5. \A c \in Deliveries : c # d => delivery'[c] = delivery[c]
      BY <1>2 DEF IInv, TypeOK
  <1>6. delivery'[d] = Queued(h, event, {})
      BY <1>2 DEF IInv, TypeOK
  <1>7. delivery'[d].st = "pending" /\ delivery'[d].attempts = 0 /\ delivery'[d].carries = {}
      BY <1>6 DEF Queued
  <1>8. BatchIntact'
      BY <1>4, <1>5 DEF IInv, TypeOK, BatchIntact, workVars, history
  <1>9. EndsForItsReason' /\ Blank'
      BY <1>5, <1>7 DEF IInv, EndsForItsReason, Blank, history
  <1>10. LineOnce'
      BY <1>2, <1>5, <1>7 DEF IInv, LineOnce
  <1> QED
      BY <1>3, <1>8, <1>9, <1>10

\* Deleting a hook or a table of which the worker holds no row (the row locks see to
\* that) leaves its open batch intact, and gives no row a type it may not have.
LEMMA Removes ==
    ASSUME IInv, NEW x \in Hooks \cup Tables, Removed(x), ~HeldByWorker(x),
           UNCHANGED <<workVars, history>>
    PROVE  /\ hook' \in [Hooks -> HookRow]
           /\ delivery' \in [Deliveries -> DeliveryRow]
           /\ line' \in [Lines -> {"none", "held", "due", "queued", "forgotten"}]
           /\ struck' \subseteq Tables
           /\ BatchIntact'
  <1>0. TypeOK /\ BatchIntact
      BY DEF IInv
  <1>1. [NoHook EXCEPT !.st = "gone"] \in HookRow
      BY DEF NoHook, HookRow
  <1>2. hook' \in [Hooks -> HookRow] /\ struck' \subseteq Tables
      BY <1>0, <1>1 DEF Removed, TypeOK
  <1>3. \A row \in DeliveryRow : [row EXCEPT !.st = "gone"] \in DeliveryRow
      BY DEF DeliveryRow
  <1>4. delivery' \in [Deliveries -> DeliveryRow]
      BY <1>0, <1>3 DEF Removed, TypeOK
  <1>5. line' \in [Lines -> {"none", "held", "due", "queued", "forgotten"}]
      BY <1>0 DEF Removed, TypeOK
  <1>6. \A d \in claimed : delivery'[d] = delivery[d] /\ hook'[delivery[d].hook] = hook[delivery[d].hook]
    <2> SUFFICES ASSUME NEW d \in claimed
                 PROVE  delivery'[d] = delivery[d] /\ hook'[delivery[d].hook] = hook[delivery[d].hook]
        OBVIOUS
    <2>1. d \in Deliveries /\ d \notin LostWith(x) /\ delivery[d].hook \in Hooks
        BY <1>0 DEF HeldByWorker, TypeOK, DeliveryRow
    <2>2. delivery[d].st # "absent"
        BY <1>0 DEF BatchIntact
    <2>3. delivery[d].hook \notin Falls(x)
        BY <2>1, <2>2 DEF LostWith
    <2> QED
        BY <2>1, <2>3 DEF Removed
  <1>7. \A l \in digLines : l \in Lines /\ line'[l] = line[l] /\ l[2] \notin Falls(x)
      BY <1>0 DEF Removed, TypeOK, HeldByWorker, LinesWith
  <1>8. phase = "digest" => hook'[digHook] = hook[digHook]
    <2> SUFFICES ASSUME phase = "digest" PROVE digHook \in Hooks /\ digHook \notin Falls(x)
        BY DEF Removed
    <2>1. PICK l \in digLines : TRUE
        BY <1>0 DEF BatchIntact
    <2> QED
        BY <1>0, <1>7, <2>1 DEF BatchIntact, TypeOK
  <1>9. BatchIntact'
      BY <1>0, <1>6, <1>7, <1>8 DEF TypeOK, BatchIntact, workVars, history
  <1> QED
      BY <1>2, <1>4, <1>5, <1>9

\* However a transaction ends, the worker holds nothing afterwards.
LEMMA Ends ==
    ASSUME TypeOK, EndTx
    PROVE  /\ phase' = "idle" /\ claimed' = {} /\ todo' = {} /\ touched' = {} /\ digLines' = {}
           /\ stagedDelivery' \in [Deliveries -> DeliveryRow]
           /\ stagedHook' \in [Hooks -> HookRow]
           /\ current' \in Deliveries /\ answer' \in BOOLEAN /\ digHook' \in Hooks
  BY RowTypes DEF EndTx, TypeOK, Nothing, Nobody

\* Every step of every actor keeps the invariant: the fan-out, time, the worker,
\* its faults and deadlocks, and the doors, one case for each action.
THEOREM Inductive == IInv /\ [Next]_vars => IInv'
  <1> SUFFICES ASSUME IInv, [Next]_vars PROVE IInv'
      OBVIOUS
  <1> USE DEF IInv, workVars, doorVars, history
  <1>0. CASE UNCHANGED vars
    <2>1. TypeOK'
        BY <1>0 DEF vars, TypeOK
    <2>2. BatchIntact'
        BY <1>0 DEF vars, BatchIntact
    <2>3. EndsForItsReason' /\ Blank'
        BY <1>0 DEF vars, EndsForItsReason, Blank
    <2>4. LiveBelowThreshold' /\ StagedBelow'
        BY <1>0 DEF vars, LiveBelowThreshold, StagedBelow
    <2>5. LineOnce' /\ Unheld'
        BY <1>0 DEF vars, LineOnce, Unheld
    <2> QED
        BY <2>1, <2>2, <2>3, <2>4, <2>5
  <1>1. ASSUME NEW e \in Events, NEW audience \in SUBSET Users, NEW public \in BOOLEAN, Emit(e, audience, public)
        PROVE  IInv'
    <2>1. fan' \in [Events -> FanRow] /\ Unheld'
        BY <1>1, FanConstants DEF TypeOK, Emit, Passed, Over, Fan, FanRow, Unheld
    <2>2. TypeOK'
        BY <1>1, <2>1 DEF TypeOK, Emit
    <2>3. BatchIntact' /\ EndsForItsReason' /\ Blank'
        BY <1>1 DEF Emit, BatchIntact, EndsForItsReason, Blank
    <2>4. LiveBelowThreshold' /\ StagedBelow' /\ LineOnce'
        BY <1>1 DEF Emit, LiveBelowThreshold, StagedBelow, LineOnce
    <2> QED
        BY <2>1, <2>2, <2>3, <2>4
  <1>2. ASSUME NEW e \in Events, EmitUnstored(e)
        PROVE  IInv'
    <2>1. fan' \in [Events -> FanRow] /\ Unheld'
        BY <1>2, FanConstants DEF TypeOK, EmitUnstored, Fault, Passed, Over, Fan, FanRow, Unheld
    <2>2. TypeOK'
        BY <1>2, <2>1 DEF TypeOK, EmitUnstored, Fault
    <2>3. BatchIntact' /\ EndsForItsReason' /\ Blank'
        BY <1>2 DEF EmitUnstored, Fault, BatchIntact, EndsForItsReason, Blank
    <2>4. LiveBelowThreshold' /\ StagedBelow' /\ LineOnce'
        BY <1>2 DEF EmitUnstored, Fault, LiveBelowThreshold, StagedBelow, LineOnce
    <2> QED
        BY <2>1, <2>2, <2>3, <2>4
  <1>3. ASSUME NEW e \in Events, FanoutRead(e)
        PROVE  IInv'
    <2>1. fan' \in [Events -> FanRow] /\ Unheld'
        BY <1>3, FanConstants DEF TypeOK, FanoutRead, Hearing, Passed, Over, Fan, FanRow, Unheld
    <2>2. TypeOK'
        BY <1>3, <2>1 DEF TypeOK, FanoutRead, Hearing
    <2>3. BatchIntact' /\ EndsForItsReason' /\ Blank'
        BY <1>3 DEF FanoutRead, Hearing, BatchIntact, EndsForItsReason, Blank
    <2>4. LiveBelowThreshold' /\ StagedBelow' /\ LineOnce'
        BY <1>3 DEF FanoutRead, Hearing, LiveBelowThreshold, StagedBelow, LineOnce
    <2> QED
        BY <2>1, <2>2, <2>3, <2>4
  <1>4. ASSUME NEW e \in Events, NEW h \in Hooks, FanoutQueue(e, h)
        PROVE  IInv'
    <2>1. PICK d \in Fresh : delivery' = [delivery EXCEPT ![d] = Queued(h, e, {})]
        BY <1>4 DEF FanoutQueue
    <2>2. /\ delivery' \in [Deliveries -> DeliveryRow]
          /\ BatchIntact' /\ EndsForItsReason' /\ Blank' /\ LineOnce'
        BY <1>4, <2>1, Queues DEF FanoutQueue
    <2>3. fan' \in [Events -> FanRow] /\ Unheld'
        BY <1>4 DEF TypeOK, FanoutQueue, Passed, Over, Fan, FanRow, Unheld
    <2>4. TypeOK'
        BY <1>4, <2>2, <2>3 DEF TypeOK, FanoutQueue
    <2>5. LiveBelowThreshold' /\ StagedBelow'
        BY <1>4 DEF FanoutQueue, LiveBelowThreshold, StagedBelow
    <2> QED
        BY <2>2, <2>3, <2>4, <2>5
  <1>5. ASSUME NEW e \in Events, NEW h \in Hooks, FanoutHold(e, h)
        PROVE  IInv'
    <2>1. /\ fan' \in [Events -> FanRow] /\ line[<<e, h>>] = "none" /\ <<e, h>> \in Lines
          /\ line' \in [Lines -> {"none", "held", "due", "queued", "forgotten"}]
        BY <1>5 DEF TypeOK, FanoutHold, Passed, Over, Fan, FanRow, Unheld, Lines
    <2>2. TypeOK'
        BY <1>5, <2>1 DEF TypeOK, FanoutHold
    <2>3. BatchIntact' /\ EndsForItsReason' /\ Blank'
      <3>1. \A l \in digLines : line'[l] = line[l]
          BY <1>5, <2>1 DEF TypeOK, FanoutHold, BatchIntact
      <3>2. UNCHANGED <<hook, delivery, workVars, history>>
          BY <1>5 DEF FanoutHold
      <3>3. BatchIntact'
          BY <3>1, <3>2 DEF BatchIntact
      <3>4. EndsForItsReason' /\ Blank'
          BY <3>2 DEF EndsForItsReason, Blank
      <3> QED
          BY <3>3, <3>4
    <2>4. LiveBelowThreshold' /\ StagedBelow'
        BY <1>5 DEF FanoutHold, LiveBelowThreshold, StagedBelow
    <2>5. LineOnce'
        BY <1>5, <2>1, SMTT(30) DEF TypeOK, FanoutHold, LineOnce
    <2>6. Unheld'
        <3> SUFFICES ASSUME NEW f \in Events, NEW g \in Hooks,
                            fan'[f].st \in {"quiet", "told"} \/ g \in fan'[f].daily
                     PROVE  line'[<<f, g>>] = "none"
            BY DEF Unheld
        <3>1. <<f, g>> # <<e, h>> /\ (fan[f].st \in {"quiet", "told"} \/ g \in fan[f].daily)
            BY <1>5 DEF TypeOK, FanoutHold, Passed, Over, Fan, FanRow
        <3> QED
            BY <1>5, <3>1 DEF TypeOK, FanoutHold, Unheld, Lines
    <2> QED
        BY <2>2, <2>3, <2>4, <2>5, <2>6
  <1>6. ASSUME NEW e \in Events, NEW h \in Hooks, FanoutSkip(e, h)
        PROVE  IInv'
    <2>1. fan' \in [Events -> FanRow] /\ Unheld'
        BY <1>6, FanConstants DEF TypeOK, FanoutSkip, Fault, Passed, Over, Fan, FanRow, Unheld
    <2>2. TypeOK'
        BY <1>6, <2>1 DEF TypeOK, FanoutSkip, Fault
    <2>3. BatchIntact' /\ EndsForItsReason' /\ Blank'
        BY <1>6 DEF FanoutSkip, Fault, BatchIntact, EndsForItsReason, Blank
    <2>4. LiveBelowThreshold' /\ StagedBelow' /\ LineOnce'
        BY <1>6 DEF FanoutSkip, Fault, LiveBelowThreshold, StagedBelow, LineOnce
    <2> QED
        BY <2>1, <2>2, <2>3, <2>4
  <1>7. ASSUME NEW d \in Deliveries, BackoffOver(d)
        PROVE  IInv'
    <2>1. \A row \in DeliveryRow : [row EXCEPT !.due = TRUE] \in DeliveryRow
        BY DEF DeliveryRow
    <2>2. TypeOK'
        BY <1>7, <2>1 DEF TypeOK, BackoffOver
    <2>3. BatchIntact'
        BY <1>7 DEF TypeOK, BatchIntact, BackoffOver
    <2>4. EndsForItsReason' /\ Blank' /\ LineOnce'
        BY <1>7 DEF TypeOK, DeliveryRow, EndsForItsReason, Blank, LineOnce, BackoffOver
    <2>5. LiveBelowThreshold' /\ StagedBelow' /\ Unheld'
        BY <1>7 DEF LiveBelowThreshold, StagedBelow, Unheld, BackoffOver
    <2> QED
        BY <2>2, <2>3, <2>4, <2>5
  <1>8. ASSUME NEW l \in Lines, DigestHour(l)
        PROVE  IInv'
    <2>1. TypeOK'
        BY <1>8 DEF TypeOK, DigestHour
    <2>2. BatchIntact'
        BY <1>8 DEF TypeOK, BatchIntact, DigestHour
    <2>3. EndsForItsReason' /\ Blank'
        BY <1>8 DEF EndsForItsReason, Blank, DigestHour
    <2>4. LiveBelowThreshold' /\ StagedBelow'
        BY <1>8 DEF LiveBelowThreshold, StagedBelow, DigestHour
    <2>5. LineOnce' /\ Unheld'
        BY <1>8 DEF TypeOK, LineOnce, Unheld, Lines, DigestHour
    <2> QED
        BY <2>1, <2>2, <2>3, <2>4, <2>5
  <1>9. CASE Claim
    <2>1. TypeOK'
        BY <1>9 DEF TypeOK, Claim, Due
    <2>2. BatchIntact'
        BY <1>9 DEF TypeOK, BatchIntact, Claim, Due
    <2>3. EndsForItsReason' /\ Blank'
        BY <1>9 DEF EndsForItsReason, Blank, Claim, Due
    <2>4. LiveBelowThreshold' /\ StagedBelow'
        BY <1>9 DEF LiveBelowThreshold, StagedBelow, Claim, Due
    <2>5. LineOnce' /\ Unheld'
        BY <1>9 DEF TypeOK, LineOnce, Unheld, Lines, Claim, Due
    <2> QED
        BY <2>1, <2>2, <2>3, <2>4, <2>5
  <1>10. ASSUME NEW d \in Deliveries, NEW ok \in BOOLEAN, Post(d, ok)
        PROVE  IInv'
    <2>1. TypeOK'
        BY <1>10 DEF TypeOK, Post
    <2>2. BatchIntact'
        BY <1>10 DEF TypeOK, BatchIntact, Post
    <2>3. EndsForItsReason' /\ Blank'
        BY <1>10 DEF EndsForItsReason, Blank, Post
    <2>4. LiveBelowThreshold' /\ StagedBelow'
        BY <1>10 DEF LiveBelowThreshold, StagedBelow, Post
    <2>5. LineOnce' /\ Unheld'
        BY <1>10 DEF TypeOK, LineOnce, Unheld, Lines, Post
    <2> QED
        BY <2>1, <2>2, <2>3, <2>4, <2>5
  <1>11. CASE RecordDelivered
    <2> DEFINE row == stagedDelivery[current]
               new == [row EXCEPT !.st = "delivered", !.due = TRUE, !.attempts = @ + 1]
               h == delivery[current].hook
               seen == [AsSeen(h) EXCEPT !.failures = 0]
    <2>1. /\ current \in claimed /\ current \notin todo /\ row = delivery[current]
          /\ row \in DeliveryRow /\ row.attempts < MaxAttempts /\ h \in Hooks
          /\ phase = "recording" /\ hook[h].st = "live"
        BY <1>11 DEF RecordDelivered, TypeOK, DeliveryRow, BatchIntact, EndsForItsReason
    <2>2. new \in DeliveryRow
        BY <2>1, Attempted
    <2>3. /\ new.hook = row.hook /\ new.event = row.event /\ new.carries = row.carries
          /\ new.attempts = row.attempts + 1 /\ new.st = "delivered"
        BY <2>1, Attempted
    <2>4. /\ stagedDelivery' \in [Deliveries -> DeliveryRow]
          /\ stagedDelivery'[current] = new
          /\ \A d \in claimed : d # current => stagedDelivery'[d] = stagedDelivery[d]
        BY <1>11, <2>1, <2>2 DEF RecordDelivered, Stage, TypeOK
    <2>5. /\ AsSeen(h) \in HookRow /\ AsSeen(h).st \in {"live", "disabled"}
          /\ AsSeen(h).st = "live" => AsSeen(h).failures < DisableAfter
        BY <2>1 DEF AsSeen, TypeOK, BatchIntact, StagedBelow, LiveBelowThreshold
    <2>6. /\ seen \in HookRow /\ seen.st \in {"live", "disabled"}
          /\ seen.st = "live" => seen.failures < DisableAfter
        BY <2>5, Counted
    <2>7. touched' = touched \cup {h} /\ stagedHook' = [stagedHook EXCEPT ![h] = seen]
        BY <1>11 DEF RecordDelivered, Touch
    <2>8. /\ touched' \subseteq Hooks /\ stagedHook' \in [Hooks -> HookRow]
          /\ \A g \in touched' : /\ g = h \/ g \in touched
                                /\ stagedHook'[g] = IF g = h THEN seen ELSE stagedHook[g]
        BY <2>1, <2>6, <2>7 DEF TypeOK
    <2>10. current \in answered
        BY <1>11, <2>1, <2>3 DEF RecordDelivered, LastAttempt, BatchIntact, DeliveryRow
    <2> HIDE DEF row, new, seen
    <2>9. TypeOK'
        BY <1>11, <2>4, <2>8 DEF TypeOK, RecordDelivered
    <2>11. BatchIntact'
        <3>1. \A g \in touched' : /\ \E d \in claimed' : delivery'[d].hook = g
                                 /\ stagedHook'[g].st \in {"live", "disabled"}
            BY <1>11, <2>1, <2>6, <2>8 DEF RecordDelivered, BatchIntact
        <3> SUFFICES ASSUME NEW d \in claimed
                     PROVE  LET was == delivery[d] staged == stagedDelivery'[d] IN
                       /\ was.st = "pending" /\ was.due /\ hook[was.hook].st = "live"
                       /\ staged.hook = was.hook /\ staged.event = was.event /\ staged.carries = was.carries
                       /\ IF d \in todo
                          THEN staged = was
                          ELSE /\ staged.attempts = was.attempts + 1
                               /\ \/ staged.st = "delivered" /\ d \in answered
                                  \/ staged.st = IF staged.attempts = MaxAttempts THEN "dead" ELSE "pending"
            BY <1>11, <3>1 DEF RecordDelivered, BatchIntact
        <3>2. CASE d = current
            BY <2>1, <2>3, <2>4, <2>10, <3>2 DEF BatchIntact
        <3>3. CASE d # current
            BY <2>4, <3>3 DEF BatchIntact
        <3> QED
            BY <3>2, <3>3
    <2>12. StagedBelow'
        BY <2>6, <2>8 DEF StagedBelow
    <2>13. EndsForItsReason' /\ Blank' /\ LiveBelowThreshold' /\ LineOnce' /\ Unheld'
        BY <1>11 DEF RecordDelivered, EndsForItsReason, Blank, LiveBelowThreshold, LineOnce, Unheld
    <2> QED
        BY <2>9, <2>11, <2>12, <2>13
  <1>12. CASE RecordDead
    <2> DEFINE row == stagedDelivery[current]
               new == [row EXCEPT !.st = "dead", !.due = TRUE, !.attempts = @ + 1]
               h == delivery[current].hook
               seen == [AsSeen(h) EXCEPT
                          !.failures = AsSeen(h).failures + 1,
                          !.st = IF AsSeen(h).failures + 1 >= DisableAfter THEN "disabled" ELSE @]
    <2>1. /\ current \in claimed /\ current \notin todo /\ row = delivery[current]
          /\ row \in DeliveryRow /\ row.attempts < MaxAttempts /\ h \in Hooks
          /\ phase = "recording" /\ hook[h].st = "live"
        BY <1>12 DEF RecordDead, TypeOK, DeliveryRow, BatchIntact, EndsForItsReason
    <2>2. new \in DeliveryRow
        BY <2>1, Attempted
    <2>3. /\ new.hook = row.hook /\ new.event = row.event /\ new.carries = row.carries
          /\ new.attempts = row.attempts + 1 /\ new.st = "dead"
        BY <2>1, Attempted
    <2>4. /\ stagedDelivery' \in [Deliveries -> DeliveryRow]
          /\ stagedDelivery'[current] = new
          /\ \A d \in claimed : d # current => stagedDelivery'[d] = stagedDelivery[d]
        BY <1>12, <2>1, <2>2 DEF RecordDead, Stage, TypeOK
    <2>5. /\ AsSeen(h) \in HookRow /\ AsSeen(h).st \in {"live", "disabled"}
          /\ AsSeen(h).st = "live" => AsSeen(h).failures < DisableAfter
        BY <2>1 DEF AsSeen, TypeOK, BatchIntact, StagedBelow, LiveBelowThreshold
    <2>6. /\ seen \in HookRow /\ seen.st \in {"live", "disabled"}
          /\ seen.st = "live" => seen.failures < DisableAfter
        BY <2>5, Counted
    <2>7. touched' = touched \cup {h} /\ stagedHook' = [stagedHook EXCEPT ![h] = seen]
        BY <1>12 DEF RecordDead, Touch
    <2>8. /\ touched' \subseteq Hooks /\ stagedHook' \in [Hooks -> HookRow]
          /\ \A g \in touched' : /\ g = h \/ g \in touched
                                /\ stagedHook'[g] = IF g = h THEN seen ELSE stagedHook[g]
        BY <2>1, <2>6, <2>7 DEF TypeOK
    <2>10. new.attempts = MaxAttempts
        BY <1>12, <2>1, <2>3 DEF RecordDead, LastAttempt, BatchIntact, DeliveryRow
    <2> HIDE DEF row, new, seen
    <2>9. TypeOK'
        BY <1>12, <2>4, <2>8 DEF TypeOK, RecordDead
    <2>11. BatchIntact'
        <3>1. \A g \in touched' : /\ \E d \in claimed' : delivery'[d].hook = g
                                 /\ stagedHook'[g].st \in {"live", "disabled"}
            BY <1>12, <2>1, <2>6, <2>8 DEF RecordDead, BatchIntact
        <3> SUFFICES ASSUME NEW d \in claimed
                     PROVE  LET was == delivery[d] staged == stagedDelivery'[d] IN
                       /\ was.st = "pending" /\ was.due /\ hook[was.hook].st = "live"
                       /\ staged.hook = was.hook /\ staged.event = was.event /\ staged.carries = was.carries
                       /\ IF d \in todo
                          THEN staged = was
                          ELSE /\ staged.attempts = was.attempts + 1
                               /\ \/ staged.st = "delivered" /\ d \in answered
                                  \/ staged.st = IF staged.attempts = MaxAttempts THEN "dead" ELSE "pending"
            BY <1>12, <3>1 DEF RecordDead, BatchIntact
        <3>2. CASE d = current
            BY <2>1, <2>3, <2>4, <2>10, <3>2 DEF BatchIntact
        <3>3. CASE d # current
            BY <2>4, <3>3 DEF BatchIntact
        <3> QED
            BY <3>2, <3>3
    <2>12. StagedBelow'
        BY <2>6, <2>8 DEF StagedBelow
    <2>13. EndsForItsReason' /\ Blank' /\ LiveBelowThreshold' /\ LineOnce' /\ Unheld'
        BY <1>12 DEF RecordDead, EndsForItsReason, Blank, LiveBelowThreshold, LineOnce, Unheld
    <2> QED
        BY <2>9, <2>11, <2>12, <2>13
  <1>13. CASE RecordRetry
    <2> DEFINE row == stagedDelivery[current]
               new == [row EXCEPT !.st = "pending", !.due = FALSE, !.attempts = @ + 1]
               h == delivery[current].hook
               seen == AsSeen(h)
    <2>1. /\ current \in claimed /\ current \notin todo /\ row = delivery[current]
          /\ row \in DeliveryRow /\ row.attempts < MaxAttempts /\ h \in Hooks
          /\ phase = "recording" /\ hook[h].st = "live"
        BY <1>13 DEF RecordRetry, TypeOK, DeliveryRow, BatchIntact, EndsForItsReason
    <2>2. new \in DeliveryRow
        BY <2>1, Attempted
    <2>3. /\ new.hook = row.hook /\ new.event = row.event /\ new.carries = row.carries
          /\ new.attempts = row.attempts + 1 /\ new.st = "pending"
        BY <2>1, Attempted
    <2>4. /\ stagedDelivery' \in [Deliveries -> DeliveryRow]
          /\ stagedDelivery'[current] = new
          /\ \A d \in claimed : d # current => stagedDelivery'[d] = stagedDelivery[d]
        BY <1>13, <2>1, <2>2 DEF RecordRetry, Stage, TypeOK
    <2>8. /\ touched' = touched /\ stagedHook' = stagedHook
        BY <1>13 DEF RecordRetry
    <2>10. new.attempts # MaxAttempts
        BY <1>13, <2>1, <2>3 DEF RecordRetry, LastAttempt, BatchIntact, DeliveryRow
    <2> HIDE DEF row, new, seen
    <2>9. TypeOK'
        BY <1>13, <2>4, <2>8 DEF TypeOK, RecordRetry
    <2>11. BatchIntact'
        <3>1. \A g \in touched' : /\ \E d \in claimed' : delivery'[d].hook = g
                                 /\ stagedHook'[g].st \in {"live", "disabled"}
            BY <1>13, <2>1, <2>8 DEF RecordRetry, BatchIntact
        <3> SUFFICES ASSUME NEW d \in claimed
                     PROVE  LET was == delivery[d] staged == stagedDelivery'[d] IN
                       /\ was.st = "pending" /\ was.due /\ hook[was.hook].st = "live"
                       /\ staged.hook = was.hook /\ staged.event = was.event /\ staged.carries = was.carries
                       /\ IF d \in todo
                          THEN staged = was
                          ELSE /\ staged.attempts = was.attempts + 1
                               /\ \/ staged.st = "delivered" /\ d \in answered
                                  \/ staged.st = IF staged.attempts = MaxAttempts THEN "dead" ELSE "pending"
            BY <1>13, <3>1 DEF RecordRetry, BatchIntact
        <3>2. CASE d = current
            BY <2>1, <2>3, <2>4, <2>10, <3>2 DEF BatchIntact
        <3>3. CASE d # current
            BY <2>4, <3>3 DEF BatchIntact
        <3> QED
            BY <3>2, <3>3
    <2>12. StagedBelow'
        BY <2>8 DEF StagedBelow
    <2>13. EndsForItsReason' /\ Blank' /\ LiveBelowThreshold' /\ LineOnce' /\ Unheld'
        BY <1>13 DEF RecordRetry, EndsForItsReason, Blank, LiveBelowThreshold, LineOnce, Unheld
    <2> QED
        BY <2>9, <2>11, <2>12, <2>13
  <1>14. CASE CommitBatch
    <2>1. /\ phase' = "idle" /\ claimed' = {} /\ todo' = {} /\ touched' = {} /\ digLines' = {}
          /\ stagedDelivery' \in [Deliveries -> DeliveryRow]
          /\ stagedHook' \in [Hooks -> HookRow]
          /\ current' \in Deliveries /\ answer' \in BOOLEAN /\ digHook' \in Hooks
        BY <1>14, Ends DEF CommitBatch
    <2>2. /\ hook' \in [Hooks -> HookRow] /\ delivery' \in [Deliveries -> DeliveryRow]
          /\ \A h \in Hooks : hook'[h] = AsSeen(h)
          /\ \A d \in Deliveries : delivery'[d] = IF d \in claimed THEN stagedDelivery[d] ELSE delivery[d]
        BY <1>14 DEF CommitBatch, AsSeen, TypeOK
    <2>3. TypeOK'
        BY <1>14, <2>1, <2>2 DEF TypeOK, CommitBatch
    <2>4. BatchIntact' /\ StagedBelow'
        BY <2>1 DEF BatchIntact, StagedBelow
    <2>5. \A d \in claimed :
             /\ delivery[d].st = "pending" /\ delivery'[d].carries = delivery[d].carries
             /\ delivery'[d].attempts = delivery[d].attempts + 1
             /\ \/ delivery'[d].st = "delivered" /\ d \in answered
                \/ delivery'[d].st = IF delivery'[d].attempts = MaxAttempts THEN "dead" ELSE "pending"
        BY <1>14, <2>2 DEF CommitBatch, BatchIntact, TypeOK
    <2>6. \A d \in Deliveries : delivery'[d].attempts \in 0..MaxAttempts
        BY <2>2 DEF DeliveryRow
    <2>7. EndsForItsReason'
        <3> SUFFICES ASSUME NEW d \in Deliveries
                     PROVE  /\ delivery'[d].st = "delivered" => d \in answered
                            /\ delivery'[d].st = "dead" => delivery'[d].attempts = MaxAttempts
                            /\ delivery'[d].st = "pending" => delivery'[d].attempts < MaxAttempts
            BY <1>14 DEF CommitBatch, EndsForItsReason
        <3>1. CASE d \in claimed
            BY <2>5, <2>6, <3>1
        <3>2. CASE d \notin claimed
            BY <2>2, <3>2 DEF EndsForItsReason
        <3> QED
            BY <3>1, <3>2
    <2>8. Blank'
        BY <2>2, <2>5 DEF Blank
    <2>9. LineOnce'
        <3>1. \A d \in Deliveries : delivery'[d].carries = delivery[d].carries
            BY <2>2, <2>5
        <3> QED
            BY <1>14, <3>1, SameLines DEF CommitBatch
    <2>10. LiveBelowThreshold' /\ Unheld'
        BY <1>14, <2>2 DEF CommitBatch, AsSeen, LiveBelowThreshold, StagedBelow, Unheld
    <2> QED
        BY <2>3, <2>4, <2>7, <2>8, <2>9, <2>10
  <1>15. CASE DropDisabledHookDigest
    <2>1. TypeOK'
        BY <1>15 DEF TypeOK, DropDisabledHookDigest
    <2>2. BatchIntact'
        BY <1>15 DEF TypeOK, BatchIntact, DropDisabledHookDigest
    <2>3. EndsForItsReason' /\ Blank'
        BY <1>15 DEF EndsForItsReason, Blank, DropDisabledHookDigest
    <2>4. LiveBelowThreshold' /\ StagedBelow'
        BY <1>15 DEF LiveBelowThreshold, StagedBelow, DropDisabledHookDigest
    <2>5. LineOnce' /\ Unheld'
        BY <1>15 DEF TypeOK, LineOnce, Unheld, Lines, DropDisabledHookDigest
    <2> QED
        BY <2>1, <2>2, <2>3, <2>4, <2>5
  <1>16. ASSUME NEW h \in Hooks, ClaimHookDigest(h)
        PROVE  IInv'
    <2>1. TypeOK'
        BY <1>16 DEF TypeOK, ClaimHookDigest, DueOf, LinesOf
    <2>2. BatchIntact'
        BY <1>16 DEF TypeOK, BatchIntact, ClaimHookDigest, DueOf, LinesOf
    <2>3. EndsForItsReason' /\ Blank'
        BY <1>16 DEF EndsForItsReason, Blank, ClaimHookDigest, DueOf, LinesOf
    <2>4. LiveBelowThreshold' /\ StagedBelow'
        BY <1>16 DEF LiveBelowThreshold, StagedBelow, ClaimHookDigest, DueOf, LinesOf
    <2>5. LineOnce' /\ Unheld'
        BY <1>16 DEF TypeOK, LineOnce, Unheld, Lines, ClaimHookDigest, DueOf, LinesOf
    <2> QED
        BY <2>1, <2>2, <2>3, <2>4, <2>5
  <1>17. CASE QueueDigest
    <2> DEFINE ts == TablesOf(digLines)
    <2>1. /\ phase' = "idle" /\ claimed' = {} /\ todo' = {} /\ touched' = {} /\ digLines' = {}
          /\ stagedDelivery' \in [Deliveries -> DeliveryRow]
          /\ stagedHook' \in [Hooks -> HookRow]
          /\ current' \in Deliveries /\ answer' \in BOOLEAN /\ digHook' \in Hooks
        BY <1>17, Ends DEF QueueDigest
    <2>2. PICK into \in [ts -> Fresh] :
             delivery' = [d \in Deliveries |->
                 IF d \in {into[t] : t \in ts}
                 THEN Queued(digHook, None, {l \in digLines : into[TableOf[l[1]]] = d})
                 ELSE delivery[d]]
        BY <1>17 DEF QueueDigest
    <2> DEFINE used == {into[t] : t \in ts}
               part(d) == {l \in digLines : into[TableOf[l[1]]] = d}
    <2>3. \A d \in used : d \in Deliveries /\ delivery[d].st = "absent" /\ delivery[d].carries = {}
        BY DEF Fresh, Blank
    <2>4. \A d \in used : Queued(digHook, None, part(d)) \in DeliveryRow
        <3> SUFFICES ASSUME NEW d \in used PROVE Queued(digHook, None, part(d)) \in DeliveryRow
            OBVIOUS
        <3>1. part(d) \in SUBSET Lines /\ digHook \in Hooks
            BY DEF TypeOK
        <3> QED
            BY <3>1, QueuedTyped
    <2>5. delivery' \in [Deliveries -> DeliveryRow]
        <3>1. delivery \in [Deliveries -> DeliveryRow]
            BY DEF TypeOK
        <3> HIDE DEF part
        <3>2. delivery' = [d \in Deliveries |-> IF d \in used THEN Queued(digHook, None, part(d)) ELSE delivery[d]]
            BY <2>2 DEF part
        <3> QED
            BY <2>4, <3>1, <3>2
    <2>6. \A d \in used : /\ delivery'[d].st = "pending" /\ delivery'[d].attempts = 0
                          /\ delivery'[d].carries = part(d)
        BY <2>2, <2>3 DEF Queued
    <2>7. \A d \in Deliveries \ used : delivery'[d] = delivery[d]
        BY <2>2
    <2>8. line' \in [Lines -> {"none", "held", "due", "queued", "forgotten"}]
        BY <1>17 DEF QueueDigest, TypeOK
    <2>9. TypeOK'
        BY <1>17, <2>1, <2>5, <2>8 DEF TypeOK, QueueDigest
    <2>10. BatchIntact' /\ StagedBelow'
        BY <2>1 DEF BatchIntact, StagedBelow
    <2>11. EndsForItsReason' /\ Blank'
        <3> SUFFICES ASSUME NEW d \in Deliveries
                     PROVE  /\ delivery'[d].st = "delivered" => d \in answered
                            /\ delivery'[d].st = "dead" => delivery'[d].attempts = MaxAttempts
                            /\ delivery'[d].st = "pending" => delivery'[d].attempts < MaxAttempts
                            /\ delivery'[d].st = "absent" =>
                                   delivery'[d].carries = {} /\ delivery'[d].attempts = 0
            BY <1>17 DEF QueueDigest, EndsForItsReason, Blank
        <3>1. CASE d \in used
            BY <2>6, <3>1
        <3>2. CASE d \notin used
            BY <2>7, <3>2 DEF EndsForItsReason, Blank
        <3> QED
            BY <3>1, <3>2
    <2>12. \A l \in digLines : /\ line[l] = "due" /\ l \in Lines
                              /\ into[TableOf[l[1]]] \in used /\ l \in part(into[TableOf[l[1]]])
        BY SMTT(30) DEF BatchIntact, TypeOK, TablesOf
    <2>13. \A l \in Lines : line'[l] = IF l \in digLines THEN "queued" ELSE line[l]
        BY <1>17 DEF QueueDigest
    <2>14. LineOnce'
        <3> SUFFICES ASSUME NEW l \in Lines
                     PROVE  /\ line'[l] = "queued" <=> \E d \in Deliveries : l \in delivery'[d].carries
                            /\ \A d, c \in Deliveries :
                                  l \in delivery'[d].carries /\ l \in delivery'[c].carries => d = c
            BY DEF LineOnce
        <3>1. CASE l \in digLines
            <4>1. \A d \in Deliveries : l \notin delivery[d].carries
                BY <2>12, <3>1 DEF LineOnce
            <4>2. \A d \in Deliveries : l \in delivery'[d].carries <=> d = into[TableOf[l[1]]]
                BY <2>3, <2>6, <2>7, <2>12, <3>1, <4>1
            <4> QED
                <5>1. line'[l] = "queued" /\ into[TableOf[l[1]]] \in Deliveries
                    BY <2>3, <2>12, <2>13, <3>1
                <5> QED
                    BY <4>2, <5>1
        <3>2. CASE l \notin digLines
            <4>1. \A d \in Deliveries : l \in delivery'[d].carries <=> l \in delivery[d].carries
                BY <2>3, <2>6, <2>7, <3>2
            <4> QED
                BY <2>13, <3>2, <4>1 DEF LineOnce
        <3> QED
            BY <3>1, <3>2
    <2>15. LiveBelowThreshold'
        BY <1>17 DEF QueueDigest, LiveBelowThreshold
    <2>16. Unheld'
        <3>1. \A l \in Lines : line[l] = "none" => line'[l] = "none"
            BY <2>12, <2>13
        <3> QED
            BY <1>17, <3>1 DEF QueueDigest, Unheld, Lines
    <2> QED
        BY <2>9, <2>10, <2>11, <2>14, <2>15, <2>16
  <1>18. CASE Rollback
    <2>1. /\ phase' = "idle" /\ claimed' = {} /\ todo' = {} /\ touched' = {} /\ digLines' = {}
          /\ stagedDelivery' \in [Deliveries -> DeliveryRow]
          /\ stagedHook' \in [Hooks -> HookRow]
          /\ current' \in Deliveries /\ answer' \in BOOLEAN /\ digHook' \in Hooks
        BY <1>18, Ends DEF Rollback
    <2>2. TypeOK'
        BY <1>18, <2>1 DEF TypeOK, Rollback, Fault
    <2>3. BatchIntact' /\ StagedBelow'
        BY <2>1 DEF BatchIntact, StagedBelow
    <2>4. EndsForItsReason' /\ Blank' /\ LiveBelowThreshold' /\ LineOnce'
        BY <1>18 DEF EndsForItsReason, Blank, LiveBelowThreshold, LineOnce, Rollback, Fault
    <2>5. Unheld'
        BY <1>18 DEF Unheld, Rollback, Fault
    <2> QED
        BY <2>2, <2>3, <2>4, <2>5
  <1>19. CASE Crash
    <2>0. fan' \in [Events -> FanRow] /\ Unheld'
        BY <1>19, FanConstants DEF Crash, TypeOK, Unheld, Over, Fan
    <2>1. /\ phase' = "idle" /\ claimed' = {} /\ todo' = {} /\ touched' = {} /\ digLines' = {}
          /\ stagedDelivery' \in [Deliveries -> DeliveryRow]
          /\ stagedHook' \in [Hooks -> HookRow]
          /\ current' \in Deliveries /\ answer' \in BOOLEAN /\ digHook' \in Hooks
        BY <1>19, Ends DEF Crash
    <2>2. TypeOK'
        BY <1>19, <2>1, <2>0 DEF TypeOK, Crash, Fault
    <2>3. BatchIntact' /\ StagedBelow'
        BY <2>1 DEF BatchIntact, StagedBelow
    <2>4. EndsForItsReason' /\ Blank' /\ LiveBelowThreshold' /\ LineOnce'
        BY <1>19 DEF EndsForItsReason, Blank, LiveBelowThreshold, LineOnce, Crash, Fault
    <2>5. Unheld'
        BY <1>19, <2>0 DEF Unheld, Crash, Fault
    <2> QED
        BY <2>2, <2>3, <2>4, <2>5
  <1>20. CASE DeadlockKillsWorker
    <2>1. /\ phase' = "idle" /\ claimed' = {} /\ todo' = {} /\ touched' = {} /\ digLines' = {}
          /\ stagedDelivery' \in [Deliveries -> DeliveryRow]
          /\ stagedHook' \in [Hooks -> HookRow]
          /\ current' \in Deliveries /\ answer' \in BOOLEAN /\ digHook' \in Hooks
        BY <1>20, Ends DEF DeadlockKillsWorker
    <2>2. TypeOK'
        BY <1>20, <2>1 DEF TypeOK, DeadlockKillsWorker
    <2>3. BatchIntact' /\ StagedBelow'
        BY <2>1 DEF BatchIntact, StagedBelow
    <2>4. EndsForItsReason' /\ Blank' /\ LiveBelowThreshold' /\ LineOnce'
        BY <1>20 DEF EndsForItsReason, Blank, LiveBelowThreshold, LineOnce, DeadlockKillsWorker
    <2>5. Unheld'
        BY <1>20 DEF Unheld, DeadlockKillsWorker
    <2> QED
        BY <2>2, <2>3, <2>4, <2>5
  <1>21. ASSUME NEW x \in Hooks \cup Tables, DeadlockKillsDelete(x)
        PROVE  IInv'
    <2>1. TypeOK'
        BY <1>21 DEF TypeOK, DeadlockKillsDelete
    <2>2. BatchIntact'
        BY <1>21 DEF TypeOK, BatchIntact, DeadlockKillsDelete
    <2>3. EndsForItsReason' /\ Blank'
        BY <1>21 DEF EndsForItsReason, Blank, DeadlockKillsDelete
    <2>4. LiveBelowThreshold' /\ StagedBelow'
        BY <1>21 DEF LiveBelowThreshold, StagedBelow, DeadlockKillsDelete
    <2>5. LineOnce' /\ Unheld'
        BY <1>21 DEF TypeOK, LineOnce, Unheld, Lines, DeadlockKillsDelete
    <2> QED
        BY <2>1, <2>2, <2>3, <2>4, <2>5
  <1>22. ASSUME NEW h \in Hooks, NEW daily \in BOOLEAN, CreateWebhook(h, daily)
        PROVE  IInv'
    <2>1. NewHook(daily) \in HookRow /\ (NewHook(daily)).st = "live" /\ (NewHook(daily)).failures = 0
        BY RowTypes DEF NewHook
    <2>2. hook' = [hook EXCEPT ![h] = NewHook(daily)]
        BY <1>22 DEF TypeOK, HookRow, CreateWebhook
    <2>3. TypeOK'
        BY <1>22, <2>1, <2>2 DEF TypeOK, CreateWebhook
    <2>4. \A g \in Hooks : hook[g].st = "live" => hook'[g].st = "live"
        BY <2>1, <2>2 DEF TypeOK
    <2>5. BatchIntact'
        BY <1>22, <2>4 DEF TypeOK, DeliveryRow, BatchIntact, CreateWebhook
    <2>6. LiveBelowThreshold'
        BY <2>1, <2>2 DEF TypeOK, LiveBelowThreshold
    <2>7. EndsForItsReason' /\ Blank' /\ StagedBelow' /\ LineOnce' /\ Unheld'
        BY <1>22 DEF EndsForItsReason, Blank, StagedBelow, LineOnce, Unheld, CreateWebhook
    <2> QED
        BY <2>3, <2>5, <2>6, <2>7
  <1>23. ASSUME NEW h \in Hooks, NEW daily \in BOOLEAN, SetTableChannel(h, daily)
        PROVE  IInv'
    <2>1. NewHook(daily) \in HookRow /\ (NewHook(daily)).st = "live" /\ (NewHook(daily)).failures = 0
        BY RowTypes DEF NewHook
    <2>2. hook' = [hook EXCEPT ![h] = NewHook(daily)]
        BY <1>23 DEF TypeOK, HookRow, SetTableChannel
    <2>3. TypeOK'
        BY <1>23, <2>1, <2>2 DEF TypeOK, SetTableChannel, Door
    <2>4. \A g \in Hooks : hook[g].st = "live" => hook'[g].st = "live"
        BY <2>1, <2>2 DEF TypeOK
    <2>5. BatchIntact'
        BY <1>23, <2>4 DEF TypeOK, DeliveryRow, BatchIntact, SetTableChannel
    <2>6. LiveBelowThreshold'
        BY <2>1, <2>2 DEF TypeOK, LiveBelowThreshold
    <2>7. EndsForItsReason' /\ Blank' /\ StagedBelow' /\ LineOnce' /\ Unheld'
        BY <1>23 DEF EndsForItsReason, Blank, StagedBelow, LineOnce, Unheld, SetTableChannel
    <2> QED
        BY <2>3, <2>5, <2>6, <2>7
  <1>24. ASSUME NEW h \in Hooks, NEW daily \in BOOLEAN, RescheduleHook(h, daily)
        PROVE  IInv'
    <2>1. TypeOK'
        BY <1>24 DEF TypeOK, RescheduleHook, LinesOf, Fault
    <2>2. BatchIntact'
        BY <1>24 DEF TypeOK, BatchIntact, RescheduleHook, LinesOf, Fault
    <2>3. EndsForItsReason' /\ Blank'
        BY <1>24 DEF EndsForItsReason, Blank, RescheduleHook, LinesOf, Fault
    <2>4. LiveBelowThreshold' /\ StagedBelow'
        BY <1>24 DEF LiveBelowThreshold, StagedBelow, RescheduleHook, LinesOf, Fault
    <2>5. LineOnce' /\ Unheld'
        BY <1>24 DEF TypeOK, LineOnce, Unheld, Lines, RescheduleHook, LinesOf, Fault
    <2> QED
        BY <2>1, <2>2, <2>3, <2>4, <2>5
  <1>25. ASSUME NEW h \in Hooks, EnableWebhook(h)
        PROVE  IInv'
    <2>1. [hook[h] EXCEPT !.st = "live", !.failures = 0] \in HookRow /\ ([hook[h] EXCEPT !.st = "live", !.failures = 0]).st = "live" /\ ([hook[h] EXCEPT !.st = "live", !.failures = 0]).failures = 0
        BY Reset DEF TypeOK
    <2>2. hook' = [hook EXCEPT ![h] = [hook[h] EXCEPT !.st = "live", !.failures = 0]]
        BY <1>25 DEF TypeOK, HookRow, EnableWebhook
    <2>3. TypeOK'
        BY <1>25, <2>1, <2>2 DEF TypeOK, EnableWebhook, Door
    <2>4. \A g \in Hooks : hook[g].st = "live" => hook'[g].st = "live"
        BY <2>1, <2>2 DEF TypeOK
    <2>5. BatchIntact'
        BY <1>25, <2>4 DEF TypeOK, DeliveryRow, BatchIntact, EnableWebhook
    <2>6. LiveBelowThreshold'
        BY <2>1, <2>2 DEF TypeOK, LiveBelowThreshold
    <2>7. EndsForItsReason' /\ Blank' /\ StagedBelow' /\ LineOnce' /\ Unheld'
        BY <1>25 DEF EndsForItsReason, Blank, StagedBelow, LineOnce, Unheld, EnableWebhook
    <2> QED
        BY <2>3, <2>5, <2>6, <2>7
  <1>26. ASSUME NEW h \in Hooks, PingWebhook(h)
        PROVE  IInv'
    <2>1. PICK d \in Fresh : delivery' = [delivery EXCEPT ![d] = Queued(h, None, {})]
        BY <1>26 DEF PingWebhook
    <2>2. /\ delivery' \in [Deliveries -> DeliveryRow]
          /\ BatchIntact' /\ EndsForItsReason' /\ Blank' /\ LineOnce'
        BY <1>26, <2>1, Queues DEF PingWebhook
    <2>3. fan' \in [Events -> FanRow] /\ Unheld'
        BY <1>26 DEF TypeOK, PingWebhook, Passed, Over, Fan, FanRow, Unheld
    <2>4. TypeOK'
        BY <1>26, <2>2, <2>3 DEF TypeOK, PingWebhook
    <2>5. LiveBelowThreshold' /\ StagedBelow'
        BY <1>26 DEF PingWebhook, LiveBelowThreshold, StagedBelow
    <2> QED
        BY <2>2, <2>3, <2>4, <2>5
  <1>27. ASSUME NEW x \in Hooks \cup Tables, Delete(x)
        PROVE  IInv'
    <2>1. /\ hook' \in [Hooks -> HookRow]
          /\ delivery' \in [Deliveries -> DeliveryRow]
          /\ line' \in [Lines -> {"none", "held", "due", "queued", "forgotten"}]
          /\ struck' \subseteq Tables /\ BatchIntact'
        BY <1>27, Removes DEF Delete
    <2>2. TypeOK'
        BY <1>27, <2>1 DEF TypeOK, Delete
    <2>3. \A d \in Deliveries : /\ delivery'[d].st \in {delivery[d].st, "gone"}
                               /\ delivery'[d].attempts = delivery[d].attempts
                               /\ delivery'[d].carries = delivery[d].carries
        BY <1>27 DEF Delete, Removed, LostWith, TypeOK, DeliveryRow
    <2>4. \A l \in Lines : line'[l] = line[l] \/ (line[l] \in {"held", "due"} /\ line'[l] = "forgotten")
        BY <1>27 DEF Delete, Removed, TypeOK
    <2>5. EndsForItsReason' /\ Blank'
        BY <1>27, <2>3 DEF EndsForItsReason, Blank, Delete
    <2>6. LineOnce'
        BY <2>3, <2>4 DEF LineOnce
    <2>7. Unheld'
        BY <1>27, <2>4 DEF Unheld, Lines, Delete
    <2>8. LiveBelowThreshold' /\ StagedBelow'
        BY <1>27 DEF Delete, Removed, TypeOK, NoHook, LiveBelowThreshold, StagedBelow
    <2> QED
        BY <2>1, <2>2, <2>5, <2>6, <2>7, <2>8
  <1>28. ASSUME NEW x \in Hooks \cup Tables, DeleteBegins(x)
        PROVE  IInv'
    <2>1. TypeOK'
        BY <1>28 DEF TypeOK, DeleteBegins, Door
    <2>2. BatchIntact'
        BY <1>28 DEF TypeOK, BatchIntact, DeleteBegins, Door
    <2>3. EndsForItsReason' /\ Blank'
        BY <1>28 DEF EndsForItsReason, Blank, DeleteBegins, Door
    <2>4. LiveBelowThreshold' /\ StagedBelow'
        BY <1>28 DEF LiveBelowThreshold, StagedBelow, DeleteBegins, Door
    <2>5. LineOnce' /\ Unheld'
        BY <1>28 DEF TypeOK, LineOnce, Unheld, Lines, DeleteBegins, Door
    <2> QED
        BY <2>1, <2>2, <2>3, <2>4, <2>5
  <1>29. ASSUME NEW x \in Hooks \cup Tables, DeleteEnds(x)
        PROVE  IInv'
    <2>1. /\ hook' \in [Hooks -> HookRow]
          /\ delivery' \in [Deliveries -> DeliveryRow]
          /\ line' \in [Lines -> {"none", "held", "due", "queued", "forgotten"}]
          /\ struck' \subseteq Tables /\ BatchIntact'
        BY <1>29, Removes DEF DeleteEnds
    <2>2. TypeOK'
        BY <1>29, <2>1 DEF TypeOK, DeleteEnds
    <2>3. \A d \in Deliveries : /\ delivery'[d].st \in {delivery[d].st, "gone"}
                               /\ delivery'[d].attempts = delivery[d].attempts
                               /\ delivery'[d].carries = delivery[d].carries
        BY <1>29 DEF DeleteEnds, Removed, LostWith, TypeOK, DeliveryRow
    <2>4. \A l \in Lines : line'[l] = line[l] \/ (line[l] \in {"held", "due"} /\ line'[l] = "forgotten")
        BY <1>29 DEF DeleteEnds, Removed, TypeOK
    <2>5. EndsForItsReason' /\ Blank'
        BY <1>29, <2>3 DEF EndsForItsReason, Blank, DeleteEnds
    <2>6. LineOnce'
        BY <2>3, <2>4 DEF LineOnce
    <2>7. Unheld'
        BY <1>29, <2>4 DEF Unheld, Lines, DeleteEnds
    <2>8. LiveBelowThreshold' /\ StagedBelow'
        BY <1>29 DEF DeleteEnds, Removed, TypeOK, NoHook, LiveBelowThreshold, StagedBelow
    <2> QED
        BY <2>1, <2>2, <2>5, <2>6, <2>7, <2>8
  <1>30. ASSUME NEW u \in Users, AskToLeave(u)
        PROVE  IInv'
    <2>1. TypeOK'
        BY <1>30 DEF TypeOK, AskToLeave, Door
    <2>2. BatchIntact'
        BY <1>30 DEF TypeOK, BatchIntact, AskToLeave, Door
    <2>3. EndsForItsReason' /\ Blank'
        BY <1>30 DEF EndsForItsReason, Blank, AskToLeave, Door
    <2>4. LiveBelowThreshold' /\ StagedBelow'
        BY <1>30 DEF LiveBelowThreshold, StagedBelow, AskToLeave, Door
    <2>5. LineOnce' /\ Unheld'
        BY <1>30 DEF TypeOK, LineOnce, Unheld, Lines, AskToLeave, Door
    <2> QED
        BY <2>1, <2>2, <2>3, <2>4, <2>5
  <1>31. ASSUME NEW u \in Users, ComeBack(u)
        PROVE  IInv'
    <2>1. TypeOK'
        BY <1>31 DEF TypeOK, ComeBack, Door
    <2>2. BatchIntact'
        BY <1>31 DEF TypeOK, BatchIntact, ComeBack, Door
    <2>3. EndsForItsReason' /\ Blank'
        BY <1>31 DEF EndsForItsReason, Blank, ComeBack, Door
    <2>4. LiveBelowThreshold' /\ StagedBelow'
        BY <1>31 DEF LiveBelowThreshold, StagedBelow, ComeBack, Door
    <2>5. LineOnce' /\ Unheld'
        BY <1>31 DEF TypeOK, LineOnce, Unheld, Lines, ComeBack, Door
    <2> QED
        BY <2>1, <2>2, <2>3, <2>4, <2>5
  <1> QED
      BY <1>0, <1>1, <1>2, <1>3, <1>4, <1>5, <1>6, <1>7, <1>8, <1>9, <1>10, <1>11, <1>12, <1>13, <1>14, <1>15, <1>16, <1>17, <1>18, <1>19, <1>20, <1>21, <1>22, <1>23, <1>24, <1>25, <1>26, <1>27, <1>28, <1>29, <1>30, <1>31
      DEF Next, FanoutNext, TimeNext, WorkerNext, DoorNext

-----------------------------------------------------------------------------
\* The invariant holds in every reachable state.
THEOREM Invariance == Spec => []IInv
  BY InitInv, Inductive, PTL DEF Spec

\* Every variable keeps its type.
THEOREM TypeCorrect == Spec => []TypeOK
  <1>1. IInv => TypeOK
      BY DEF IInv
  <1> QED
      BY <1>1, Invariance, PTL

\* A delivery is delivered only after a 2xx, dead only after MaxAttempts attempts
\* (deliverDue), whatever was rolled back in between.
THEOREM EndsForItsReasonHolds == Spec => []EndsForItsReason
  <1>1. IInv => EndsForItsReason
      BY DEF IInv
  <1> QED
      BY <1>1, Invariance, PTL

\* A line of a digest is carried by exactly one message once it is queued
\* (queueDigest): none is lost between the two, none is queued twice.
THEOREM LineOnceHolds == Spec => []LineOnce
  <1>1. IInv => LineOnce
      BY DEF IInv
  <1> QED
      BY <1>1, Invariance, PTL

\* No hook is in service at or past the threshold of dead deliveries.
THEOREM LiveBelowThresholdHolds == Spec => []LiveBelowThreshold
  <1>1. IInv => LiveBelowThreshold
      BY DEF IInv
  <1> QED
      BY <1>1, Invariance, PTL

\* What the worker read when it claimed its batch stays true until it commits.
THEOREM BatchIntactHolds == Spec => []BatchIntact
  <1>1. IInv => BatchIntact
      BY DEF IInv
  <1> QED
      BY <1>1, Invariance, PTL

-----------------------------------------------------------------------------
\* Only these actions write a delivery.
LEMMA Writers ==
    ASSUME [Next]_vars
    PROVE  \/ UNCHANGED delivery
           \/ \E e \in Events, h \in Hooks : FanoutQueue(e, h)
           \/ \E h \in Hooks : PingWebhook(h)
           \/ \E d \in Deliveries : BackoffOver(d)
           \/ CommitBatch
           \/ QueueDigest
           \/ \E x \in Hooks \cup Tables : Delete(x) \/ DeleteEnds(x)
  <1>1. CASE UNCHANGED vars
      BY <1>1 DEF vars
  <1>2. CASE FanoutNext
      BY <1>2 DEF FanoutNext, Emit, EmitUnstored, FanoutRead, FanoutHold, FanoutSkip
  <1>3. CASE TimeNext
      BY <1>3 DEF TimeNext, DigestHour
  <1>4. CASE WorkerNext
      BY <1>4 DEF WorkerNext, Claim, Post, RecordDelivered, RecordDead, RecordRetry,
                  DropDisabledHookDigest, ClaimHookDigest, Rollback, Crash,
                  DeadlockKillsWorker, DeadlockKillsDelete
  <1>5. CASE DoorNext
      BY <1>5 DEF DoorNext, CreateWebhook, SetTableChannel, RescheduleHook, EnableWebhook,
                  DeleteBegins, AskToLeave, ComeBack
  <1> QED
      BY <1>1, <1>2, <1>3, <1>4, <1>5 DEF Next

\* A commit moves the claimed deliveries by one attempt each, and no other.
LEMMA Committed ==
    ASSUME IInv, CommitBatch
    PROVE  /\ \A d \in Deliveries \ claimed : delivery'[d] = delivery[d]
           /\ \A d \in claimed :
                 /\ delivery[d].st = "pending" /\ delivery[d].attempts < MaxAttempts
                 /\ delivery'[d].carries = delivery[d].carries
                 /\ delivery'[d].attempts = delivery[d].attempts + 1
                 /\ \/ delivery'[d].st = "delivered"
                    \/ delivery'[d].st = IF delivery'[d].attempts = MaxAttempts THEN "dead" ELSE "pending"
  <1>1. \A d \in Deliveries : delivery'[d] = IF d \in claimed THEN stagedDelivery[d] ELSE delivery[d]
      BY DEF CommitBatch
  <1>2. phase = "posting" /\ todo = {} /\ claimed \subseteq Deliveries
      BY DEF CommitBatch, IInv, TypeOK
  <1>3. BatchIntact /\ EndsForItsReason
      BY DEF IInv
  <1> QED
      BY <1>1, <1>2, <1>3 DEF BatchIntact, EndsForItsReason

\* Deleting a hook or a table marks the deliveries that go with it, and changes nothing
\* else of them.
LEMMA RemovalMarksGone ==
    ASSUME IInv, NEW x \in Hooks \cup Tables, Removed(x)
    PROVE  \A d \in Deliveries :
              \/ delivery'[d] = delivery[d]
              \/ /\ delivery[d].st # "absent" /\ delivery'[d].st = "gone"
                 /\ delivery'[d].attempts = delivery[d].attempts
                 /\ delivery'[d].carries = delivery[d].carries
  <1> TAKE d \in Deliveries
  <1>1. delivery[d] \in DeliveryRow
      BY DEF IInv, TypeOK
  <1>2. delivery'[d] = IF d \in LostWith(x) THEN [delivery[d] EXCEPT !.st = "gone"] ELSE delivery[d]
      BY DEF Removed
  <1>3. CASE d \in LostWith(x)
    <2>1. delivery[d].st # "absent"
        BY <1>3 DEF LostWith
    <2>2. LET gone == [delivery[d] EXCEPT !.st = "gone"]
          IN  gone.st = "gone" /\ gone.attempts = delivery[d].attempts /\ gone.carries = delivery[d].carries
        BY <1>1 DEF DeliveryRow
    <2> QED
        BY <1>2, <1>3, <2>1, <2>2
  <1>4. CASE d \notin LostWith(x)
      BY <1>2, <1>4
  <1> QED
      BY <1>3, <1>4

\* The step inserted the deliveries of new, which share out the lines of the
\* open digest among themselves, and wrote no other.
Added(new) ==
    /\ \A d \in Deliveries \ new : delivery'[d] = delivery[d]
    /\ \A d \in new : /\ delivery'[d].st = "pending" /\ delivery'[d].attempts = 0
                      /\ delivery'[d].carries \subseteq digLines
    /\ \A d, c \in new : d # c => delivery'[d].carries \cap delivery'[c].carries = {}

\* One insert, by the fan-out or a ping, is such a step.
LEMMA Adds ==
    ASSUME IInv, NEW h \in Hooks, NEW event \in Events \cup {None}, NEW d \in Fresh,
           delivery' = [delivery EXCEPT ![d] = Queued(h, event, {})]
    PROVE  Added({d})
  <1>1. d \in Deliveries /\ delivery'[d] = Queued(h, event, {})
      BY DEF IInv, TypeOK, Fresh
  <1>2. \A c \in Deliveries \ {d} : delivery'[c] = delivery[c]
      BY DEF IInv, TypeOK
  <1> QED
      BY <1>1, <1>2 DEF Added, Queued

\* The fan-out and the ping insert one.
LEMMA AddsOne ==
    ASSUME IInv, \/ \E e \in Events, h \in Hooks : FanoutQueue(e, h)
                 \/ \E h \in Hooks : PingWebhook(h)
    PROVE  \E new \in SUBSET Fresh : Added(new)
  <1>1. ASSUME NEW e \in Events, NEW h \in Hooks, FanoutQueue(e, h)
        PROVE  \E new \in SUBSET Fresh : Added(new)
    <2>1. PICK d \in Fresh : delivery' = [delivery EXCEPT ![d] = Queued(h, e, {})]
        BY <1>1 DEF FanoutQueue
    <2>2. e \in Events \cup {None}
        OBVIOUS
    <2>3. Added({d})
        BY <2>1, <2>2, Adds
    <2> QED
        BY <2>3
  <1>2. ASSUME NEW h \in Hooks, PingWebhook(h)
        PROVE  \E new \in SUBSET Fresh : Added(new)
    <2>1. PICK d \in Fresh : delivery' = [delivery EXCEPT ![d] = Queued(h, None, {})]
        BY <1>2 DEF PingWebhook
    <2>2. None \in Events \cup {None}
        OBVIOUS
    <2>3. Added({d})
        BY <2>1, <2>2, Adds
    <2> QED
        BY <2>3
  <1> QED
      BY <1>1, <1>2

\* The messages of a digest are another.
LEMMA AddsDigest ==
    ASSUME IInv, QueueDigest
    PROVE  \E new \in SUBSET Fresh : Added(new)
  <1> DEFINE ts == TablesOf(digLines)
  <1>1. PICK into \in [ts -> Fresh] :
           delivery' = [d \in Deliveries |->
               IF d \in {into[t] : t \in ts}
               THEN Queued(digHook, None, {l \in digLines : into[TableOf[l[1]]] = d})
               ELSE delivery[d]]
      BY DEF QueueDigest
  <1> DEFINE used == {into[t] : t \in ts}
             part(d) == {l \in digLines : into[TableOf[l[1]]] = d}
  <1>2. used \in SUBSET Fresh /\ used \subseteq Deliveries
      BY DEF Fresh
  <1>3. \A d \in Deliveries \ used : delivery'[d] = delivery[d]
      BY <1>1
  <1>4. \A d \in used : delivery'[d] = Queued(digHook, None, part(d))
      BY <1>1, <1>2
  <1>5. ASSUME NEW d \in used
        PROVE  /\ delivery'[d].st = "pending" /\ delivery'[d].attempts = 0
               /\ delivery'[d].carries = part(d)
    <2>1. delivery'[d] = Queued(digHook, None, part(d))
        BY <1>4
    <2> HIDE DEF part, used
    <2> QED
        BY <2>1 DEF Queued
  <1>6. \A d, c \in used : d # c => part(d) \cap part(c) = {}
      OBVIOUS
  <1>7. Added(used)
      BY <1>3, <1>5, <1>6 DEF Added
  <1> QED
      BY <1>2, <1>7

\* A delivery that ended stays as it ended until its hook or the table of its event is
\* deleted, and no step takes an attempt back.
THEOREM OutcomeFinalHolds == Spec => OutcomeFinal
  <1> DEFINE Kept(d) == /\ delivery[d].st \in {"delivered", "dead"} =>
                              delivery'[d] = delivery[d] \/ delivery'[d].st = "gone"
                        /\ delivery[d].st # "absent" => delivery'[d].attempts >= delivery[d].attempts
  <1>1. ASSUME IInv, [Next]_vars, NEW d \in Deliveries PROVE Kept(d)
    <2>0. delivery[d] \in DeliveryRow /\ delivery[d].attempts \in Nat
        BY <1>1 DEF IInv, TypeOK, DeliveryRow
    <2>1. CASE UNCHANGED delivery
        BY <2>0, <2>1
    <2>a. ASSUME NEW new \in SUBSET Fresh, Added(new) PROVE Kept(d)
      <3>1. d \in Fresh => delivery[d].st = "absent"
          BY DEF Fresh
      <3>2. d \notin new => delivery'[d] = delivery[d]
          BY <2>a DEF Added
      <3> QED
          BY <2>0, <2>a, <3>1, <3>2
    <2>2. ASSUME NEW e \in Events, NEW h \in Hooks, FanoutQueue(e, h) PROVE Kept(d)
        BY <1>1, <2>a, <2>2, AddsOne
    <2>3. ASSUME NEW h \in Hooks, PingWebhook(h) PROVE Kept(d)
        BY <1>1, <2>a, <2>3, AddsOne
    <2>4. ASSUME NEW c \in Deliveries, BackoffOver(c) PROVE Kept(d)
        BY <1>1, <2>0, <2>4 DEF BackoffOver, IInv, TypeOK, DeliveryRow
    <2>5. CASE CommitBatch
        BY <1>1, <2>0, <2>5, Committed
    <2>6. CASE QueueDigest
        BY <1>1, <2>a, <2>6, AddsDigest
    <2>7. ASSUME NEW x \in Hooks \cup Tables, Delete(x) \/ DeleteEnds(x) PROVE Kept(d)
        BY <1>1, <2>0, <2>7, RemovalMarksGone DEF Delete, DeleteEnds
    <2> QED
        BY <1>1, <2>1, <2>2, <2>3, <2>4, <2>5, <2>6, <2>7, Writers
  <1>2. IInv /\ [Next]_vars => [\A d \in Deliveries : Kept(d)]_vars
      BY <1>1
  <1> QED
      BY <1>2, Invariance, PTL DEF Spec, OutcomeFinal

\* The worker posts only what is due, to a hook that is in service in the committed
\* rows at the moment of the post.
THEOREM PostsOnlyDueHolds == Spec => PostsOnlyDue
  <1> DEFINE Served == /\ hook[delivery[current'].hook].st = "live"
                       /\ delivery[current'].st = "pending" /\ delivery[current'].due
  <1>1. ASSUME IInv, [Next]_vars, Posting PROVE Served
    <2>1. PICK d \in Deliveries, ok \in BOOLEAN : Post(d, ok)
      <3>1. CASE UNCHANGED vars
          BY <1>1, <3>1 DEF vars, workVars, Posting
      <3>2. CASE FanoutNext
          BY <1>1, <3>2 DEF FanoutNext, Emit, EmitUnstored, FanoutRead, FanoutQueue, FanoutHold,
                            FanoutSkip, workVars, Posting
      <3>3. CASE TimeNext
          BY <1>1, <3>3 DEF TimeNext, BackoffOver, DigestHour, workVars, Posting
      <3>4. CASE WorkerNext
          BY <1>1, <3>4 DEF WorkerNext, Claim, RecordDelivered, RecordDead, RecordRetry, CommitBatch,
                            DropDisabledHookDigest, ClaimHookDigest, QueueDigest, Rollback, Crash,
                            DeadlockKillsWorker, DeadlockKillsDelete, EndTx, workVars, Posting
      <3>5. CASE DoorNext
          BY <1>1, <3>5 DEF DoorNext, CreateWebhook, SetTableChannel, RescheduleHook, EnableWebhook,
                            PingWebhook, Delete, DeleteBegins, DeleteEnds, AskToLeave, ComeBack,
                            workVars, Posting
      <3> QED
          BY <1>1, <3>1, <3>2, <3>3, <3>4, <3>5 DEF Next
    <2>2. current' = d /\ d \in todo
        BY <2>1 DEF Post
    <2> QED
        BY <1>1, <2>2 DEF IInv, TypeOK, BatchIntact
  <1>2. IInv /\ [Next]_vars => [Posting => Served]_vars
      BY <1>1
  <1> QED
      BY <1>2, Invariance, PTL DEF Spec, PostsOnlyDue

-----------------------------------------------------------------------------
\* The empty database is an empty ledger.
LEMMA LedgerInit == Init => Ledger!Init
  BY RowTypes DEF Init, Nothing, Ledger!Init

\* Inserts, of any actor, are a Queue step of the ledger: LineOnce is what keeps a
\* new message from carrying a line some older one carries.
LEMMA AddedQueues ==
    ASSUME IInv, NEW new \in SUBSET Fresh, Added(new), delivery' \in [Deliveries -> DeliveryRow]
    PROVE  Ledger!Next
  <1> DEFINE st == [d \in Deliveries |-> delivery[d].st]
             tries == [d \in Deliveries |-> delivery[d].attempts]
             carries == [d \in Deliveries |-> delivery[d].carries]
  <1>1. \A d \in new : /\ d \in Deliveries /\ delivery[d].st = "absent"
                       /\ delivery[d].attempts = 0
      BY DEF Fresh, IInv, Blank
  <1>2. st' = [d \in Deliveries |-> IF d \in new THEN "pending" ELSE st[d]]
      BY DEF Added
  <1>3. tries' = tries
      BY <1>1 DEF Added
  <1>4. carries' \in [Deliveries -> SUBSET Lines]
      BY DEF DeliveryRow
  <1>5. \A d \in Deliveries \ new : carries'[d] = carries[d]
      BY DEF Added
  <1>6. ASSUME NEW d \in new, NEW c \in Deliveries, c # d
        PROVE  carries'[d] \cap carries'[c] = {}
    <2>1. carries'[d] = delivery'[d].carries /\ carries'[c] = delivery'[c].carries
        BY <1>1
    <2>2. CASE c \in new
        BY <1>6, <2>1, <2>2 DEF Added
    <2>3. CASE c \notin new
      <3>1. delivery'[c].carries = delivery[c].carries /\ delivery'[d].carries \subseteq digLines
          BY <2>3 DEF Added
      <3>2. \A l \in digLines : l \in Lines /\ line[l] = "due"
          BY DEF IInv, TypeOK, BatchIntact
      <3>3. \A l \in Lines : l \in delivery[c].carries => line[l] = "queued"
          BY DEF IInv, LineOnce
      <3> QED
          BY <2>1, <3>1, <3>2, <3>3
    <2> QED
        BY <2>2, <2>3
  <1>7. Ledger!Queue(new)
      BY <1>1, <1>2, <1>3, <1>4, <1>5, <1>6 DEF Ledger!Queue
  <1>8. new \in SUBSET Deliveries
      BY <1>1
  <1> QED
      BY <1>7, <1>8 DEF Ledger!Next

\* A commit is an Attempt step of the ledger.
LEMMA CommitAttempts ==
    ASSUME IInv, CommitBatch, delivery' \in [Deliveries -> DeliveryRow]
    PROVE  Ledger!Next
  <1> DEFINE st == [d \in Deliveries |-> delivery[d].st]
             tries == [d \in Deliveries |-> delivery[d].attempts]
             carries == [d \in Deliveries |-> delivery[d].carries]
  <1>0. PICK batch \in SUBSET Deliveries : batch = claimed
      BY DEF IInv, TypeOK
  <1>1. \A d \in batch : st[d] = "pending" /\ tries[d] < MaxAttempts
      BY <1>0, Committed
  <1>2. tries' = [d \in Deliveries |-> IF d \in batch THEN tries[d] + 1 ELSE tries[d]]
      BY <1>0, Committed
  <1>3. st' \in [Deliveries -> {"absent", "pending", "delivered", "dead", "gone"}]
      BY DEF DeliveryRow
  <1>4. \A d \in Deliveries \ batch : st'[d] = st[d]
      BY <1>0, Committed
  <1>5. \A d \in batch : \/ st'[d] = "delivered"
                           \/ st'[d] = IF tries'[d] = MaxAttempts THEN "dead" ELSE "pending"
      BY <1>0, Committed
  <1>6. carries' = carries
      BY <1>0, Committed
  <1>7. Ledger!Attempt(batch)
      BY <1>1, <1>2, <1>3, <1>4, <1>5, <1>6 DEF Ledger!Attempt
  <1> QED
      BY <1>0, <1>7 DEF Ledger!Next

\* Deleting a hook or a table is a Forget step of the ledger.
LEMMA RemovalForgets ==
    ASSUME IInv, NEW x \in Hooks \cup Tables, Removed(x)
    PROVE  Ledger!Next
  <1> DEFINE st == [d \in Deliveries |-> delivery[d].st]
             tries == [d \in Deliveries |-> delivery[d].attempts]
             carries == [d \in Deliveries |-> delivery[d].carries]
  <1>0. PICK lost \in SUBSET Deliveries : lost = {d \in Deliveries : delivery'[d] # delivery[d]}
      OBVIOUS
  <1>1. \A d \in lost : st[d] # "absent"
      BY <1>0, RemovalMarksGone
  <1>2. st' = [d \in Deliveries |-> IF d \in lost THEN "gone" ELSE st[d]]
      BY <1>0, RemovalMarksGone
  <1>3. tries' = tries /\ carries' = carries
      BY <1>0, RemovalMarksGone
  <1>4. Ledger!Forget(lost)
      BY <1>1, <1>2, <1>3 DEF Ledger!Forget
  <1> QED
      BY <1>4 DEF Ledger!Next

\* Every step of the service is a step of the ledger or leaves it as it is.
THEOREM LedgerStep == IInv /\ [Next]_vars => [Ledger!Next]_Ledger!vars
  <1> SUFFICES ASSUME IInv, [Next]_vars PROVE [Ledger!Next]_Ledger!vars
      OBVIOUS
  <1>0. delivery \in [Deliveries -> DeliveryRow] /\ delivery' \in [Deliveries -> DeliveryRow]
      BY Inductive DEF IInv, TypeOK
  <1>1. CASE UNCHANGED delivery
      BY <1>1 DEF Ledger!vars
  <1>2. ASSUME NEW c \in Deliveries, BackoffOver(c) PROVE UNCHANGED Ledger!vars
    <2>1. \A d \in Deliveries : /\ delivery'[d].st = delivery[d].st
                                /\ delivery'[d].attempts = delivery[d].attempts
                                /\ delivery'[d].carries = delivery[d].carries
        BY <1>0, <1>2 DEF BackoffOver, DeliveryRow
    <2> QED
        BY <2>1 DEF Ledger!vars
  <1>3. ASSUME NEW e \in Events, NEW h \in Hooks, FanoutQueue(e, h) PROVE Ledger!Next
      BY <1>0, <1>3, AddsOne, AddedQueues
  <1>4. ASSUME NEW h \in Hooks, PingWebhook(h) PROVE Ledger!Next
      BY <1>0, <1>4, AddsOne, AddedQueues
  <1>5. CASE QueueDigest
      BY <1>0, <1>5, AddsDigest, AddedQueues
  <1>6. CASE CommitBatch
      BY <1>0, <1>6, CommitAttempts
  <1>7. ASSUME NEW x \in Hooks \cup Tables, Delete(x) \/ DeleteEnds(x) PROVE Ledger!Next
      BY <1>7, RemovalForgets DEF Delete, DeleteEnds
  <1> QED
      BY <1>1, <1>2, <1>3, <1>4, <1>5, <1>6, <1>7, Writers

\* The fan-out, the worker and the doors implement DeliveryLedger.
THEOREM KeepsLedgerHolds == Spec => KeepsLedger
  BY LedgerInit, LedgerStep, Invariance, PTL DEF Spec, KeepsLedger, Ledger!Spec

-----------------------------------------------------------------------------
(* A hook's failures are deaths. A count in the worker's transaction is    *)
(* set against the deaths in that transaction; the commit makes both real, *)
(* a rollback neither. What died is remembered (died), since the row of a  *)
(* dead delivery may go with its table while its hook keeps its count.     *)

\* A hook's row owes its count, and being out of service, to n deaths.
Backed(row, n) == row.failures <= n /\ (row.st = "disabled" => DisableAfter <= n)

\* The deliveries that have died, and those that will have when the transaction commits.
Died(h) == {d \in died : delivery[d].hook = h}
Dying(h) == {d \in Deliveries : /\ delivery[d].hook = h
                                /\ d \in died \/ (d \in claimed /\ stagedDelivery[d].st = "dead")}

DeadAreOver == \A d \in died : delivery[d].st \in {"dead", "gone"}
StagedAreDeaths == \A h \in touched : Backed(stagedHook[h], Cardinality(Dying(h)))

\* The inductive invariant of the count, beside IInv.
CountInv == FailuresAreDeaths /\ DeadAreOver /\ StagedAreDeaths

\* FailuresAreDeaths in these terms.
LEMMA DeathsBack ==
    /\ FailuresAreDeaths <=> \A h \in Hooks : Backed(hook[h], Cardinality(Died(h)))
    /\ FailuresAreDeaths' <=> \A h \in Hooks : Backed(hook'[h], Cardinality(Died(h)'))
  BY DEF FailuresAreDeaths, Backed, Died

\* More deaths back a row as well.
LEMMA CountGrows ==
    ASSUME NEW T, IsFiniteSet(T), NEW S \in SUBSET T, NEW row \in HookRow,
           Backed(row, Cardinality(S))
    PROVE  Backed(row, Cardinality(T))
<1>1. IsFiniteSet(S) /\ Cardinality(S) <= Cardinality(T)
  BY FS_Subset
<1>2. Cardinality(S) \in Nat /\ Cardinality(T) \in Nat /\ row.failures \in Nat
  BY <1>1, FS_CardinalityType DEF HookRow
<1> QED
  BY <1>1, <1>2 DEF Backed

\* No deaths are needed for a row that counts none and is not out of service.
LEMMA ClearBacked ==
    ASSUME NEW T, IsFiniteSet(T), NEW row, row.failures = 0, row.st # "disabled"
    PROVE  Backed(row, Cardinality(T))
<1>1. Cardinality(T) \in Nat
  BY FS_CardinalityType
<1> QED
  BY <1>1 DEF Backed

LEMMA DeathsFinite ==
    ASSUME IsFiniteSet(Deliveries), TypeOK, died' \in SUBSET Deliveries
    PROVE  \A h : IsFiniteSet(Died(h)) /\ IsFiniteSet(Dying(h)) /\ IsFiniteSet(Died(h)') /\ IsFiniteSet(Dying(h)')
<1> SUFFICES ASSUME NEW h
             PROVE  IsFiniteSet(Died(h)) /\ IsFiniteSet(Dying(h)) /\ IsFiniteSet(Died(h)') /\ IsFiniteSet(Dying(h)')
  OBVIOUS
<1>1. Died(h) \in SUBSET Deliveries /\ Dying(h) \in SUBSET Deliveries
  BY DEF Died, Dying, TypeOK
<1>2. Died(h)' \in SUBSET Deliveries /\ Dying(h)' \in SUBSET Deliveries
  BY DEF Died, Dying
<1> QED
  BY <1>1, <1>2, FS_Subset

\* A row once inserted stays its hook's, and what has died, or gone, is not brought back.
LEMMA DeadKept ==
    ASSUME IInv, [Next]_vars
    PROVE  \A d \in Deliveries :
              /\ delivery[d].st # "absent" => delivery'[d].hook = delivery[d].hook
              /\ delivery[d].st \in {"dead", "gone"} => delivery'[d].st \in {"dead", "gone"}
<1> SUFFICES ASSUME NEW d \in Deliveries
             PROVE  /\ delivery[d].st # "absent" => delivery'[d].hook = delivery[d].hook
                    /\ delivery[d].st \in {"dead", "gone"} => delivery'[d].st \in {"dead", "gone"}
  OBVIOUS
<1>1. delivery \in [Deliveries -> DeliveryRow] /\ delivery[d] \in DeliveryRow
  BY DEF IInv, TypeOK
<1>2. CASE UNCHANGED delivery
  BY <1>2
<1>3. ASSUME NEW new \in SUBSET Fresh, Added(new)
      PROVE  delivery[d].st # "absent" => delivery'[d] = delivery[d]
  BY <1>3 DEF Added, Fresh
<1>4. CASE \E e \in Events, h \in Hooks : FanoutQueue(e, h)
  BY <1>3, <1>4, AddsOne
<1>5. CASE \E h \in Hooks : PingWebhook(h)
  BY <1>3, <1>5, AddsOne
<1>6. CASE QueueDigest
  BY <1>3, <1>6, AddsDigest
<1>7. CASE \E c \in Deliveries : BackoffOver(c)
  BY <1>1, <1>7 DEF BackoffOver, DeliveryRow
<1>8. CASE CommitBatch
  <2>1. delivery'[d] = IF d \in claimed THEN stagedDelivery[d] ELSE delivery[d]
    BY <1>8 DEF CommitBatch
  <2>2. d \in claimed => stagedDelivery[d].hook = delivery[d].hook /\ delivery[d].st = "pending"
    BY DEF IInv, BatchIntact
  <2> QED
    BY <2>1, <2>2
<1>9. CASE \E x \in Hooks \cup Tables : Delete(x) \/ DeleteEnds(x)
  BY <1>1, <1>9 DEF Delete, DeleteEnds, Removed, DeliveryRow
<1> QED
  BY <1>2, <1>4, <1>5, <1>6, <1>7, <1>8, <1>9, Writers

\* A step keeps the count if it remembers no new death, writes a hook's row only to clear it,
\* and leaves the worker's transaction alone or without a hook of its own.
LEMMA CountKept ==
    ASSUME IsFiniteSet(Deliveries), IInv, CountInv, [Next]_vars, UNCHANGED died,
           \A h \in Hooks : \/ hook'[h] = hook[h]
                            \/ hook'[h].failures = 0 /\ hook'[h].st # "disabled",
           \/ touched' = {}
           \/ UNCHANGED <<claimed, stagedDelivery, touched, stagedHook>>
    PROVE  CountInv'
<1>1. TypeOK /\ died \subseteq Deliveries /\ \A h : IsFiniteSet(Died(h)') /\ IsFiniteSet(Dying(h)')
  BY DeathsFinite DEF IInv, TypeOK
<1>2. DeadAreOver'
  BY <1>1, DeadKept DEF CountInv, DeadAreOver
<1>3. FailuresAreDeaths'
  <2> SUFFICES ASSUME NEW h \in Hooks PROVE Backed(hook'[h], Cardinality(Died(h)'))
    BY DeathsBack
  <2>1. CASE hook'[h].failures = 0 /\ hook'[h].st # "disabled"
    BY <1>1, <2>1, ClearBacked
  <2>2. CASE hook'[h] = hook[h]
    <3>1. Died(h) \in SUBSET Died(h)'
      BY <1>1, DeadKept DEF Died, CountInv, DeadAreOver
    <3>2. hook[h] \in HookRow /\ Backed(hook[h], Cardinality(Died(h)))
      BY <1>1, DeathsBack DEF TypeOK, CountInv
    <3>3. Backed(hook[h], Cardinality(Died(h)'))
      BY <1>1, <3>1, <3>2, CountGrows
    <3> QED
      BY <2>2, <3>3
  <2> QED
    BY <2>1, <2>2
<1>4. StagedAreDeaths'
  <2>1. CASE touched' = {}
    BY <2>1 DEF StagedAreDeaths
  <2>2. CASE UNCHANGED <<claimed, stagedDelivery, touched, stagedHook>>
    <3> SUFFICES ASSUME NEW h \in touched PROVE Backed(stagedHook[h], Cardinality(Dying(h)'))
      BY <2>2 DEF StagedAreDeaths
    <3>1. \A d \in claimed : delivery[d].st = "pending"
      BY DEF IInv, BatchIntact
    <3>2. Dying(h) \in SUBSET Dying(h)'
      BY <2>2, <3>1, DeadKept DEF Dying, CountInv, DeadAreOver
    <3>3. stagedHook[h] \in HookRow /\ Backed(stagedHook[h], Cardinality(Dying(h)))
      BY <1>1 DEF TypeOK, CountInv, StagedAreDeaths
    <3> QED
      BY <1>1, <3>2, <3>3, CountGrows
  <2> QED
    BY <2>1, <2>2
<1> QED
  BY <1>2, <1>3, <1>4 DEF CountInv

\* What the transaction sees of a hook is backed by the deaths it sees.
LEMMA SeenCount ==
    ASSUME IsFiniteSet(Deliveries), IInv, CountInv, died' \in SUBSET Deliveries, NEW h \in Hooks
    PROVE  AsSeen(h) \in HookRow /\ Backed(AsSeen(h), Cardinality(Dying(h)))
<1>1. TypeOK /\ hook[h] \in HookRow /\ stagedHook[h] \in HookRow
  BY DEF IInv, TypeOK
<1>2. CASE h \in touched
  BY <1>1, <1>2 DEF CountInv, StagedAreDeaths, AsSeen
<1>3. CASE h \notin touched
  <2>0. IsFiniteSet(Dying(h))
    BY <1>1, DeathsFinite
  <2>1. Died(h) \in SUBSET Dying(h) /\ IsFiniteSet(Dying(h))
    BY <1>1, <2>0 DEF Died, Dying, TypeOK
  <2>2. Backed(hook[h], Cardinality(Died(h)))
    BY DeathsBack DEF CountInv
  <2>3. Backed(hook[h], Cardinality(Dying(h)))
    BY <1>1, <2>1, <2>2, CountGrows
  <2> QED
    BY <1>1, <1>3, <2>3 DEF AsSeen
<1> QED
  BY <1>2, <1>3

\* The commit puts the counts of the transaction beside its deaths.
LEMMA CountCommits ==
    ASSUME IsFiniteSet(Deliveries), IInv, CountInv, [Next]_vars, CommitBatch
    PROVE  CountInv'
<1>1. /\ \A d \in Deliveries : delivery'[d] = IF d \in claimed THEN stagedDelivery[d] ELSE delivery[d]
      /\ \A h \in Hooks : hook'[h] = AsSeen(h)
      /\ died' = died \cup {d \in claimed : stagedDelivery[d].st = "dead"}
      /\ touched' = {}
  BY DEF CommitBatch, EndTx
<1>2. /\ died \subseteq Deliveries /\ claimed \subseteq Deliveries
      /\ \A d \in claimed : delivery[d].st = "pending" /\ stagedDelivery[d].hook = delivery[d].hook
  BY DEF IInv, TypeOK, BatchIntact
<1>3. \A h : Died(h)' = Dying(h)
  BY <1>1, <1>2 DEF Died, Dying
<1>4. died' \in SUBSET Deliveries
  BY <1>1, <1>2
<1>5. FailuresAreDeaths'
  BY <1>1, <1>3, <1>4, SeenCount, DeathsBack
<1>6. DeadAreOver'
  BY <1>1, <1>2 DEF CountInv, DeadAreOver
<1> QED
  BY <1>1, <1>5, <1>6 DEF CountInv, StagedAreDeaths

\* Recording: a success clears the count, a death adds one to it and to the deaths, a retry
\* does neither.
LEMMA CountRecords ==
    ASSUME IsFiniteSet(Deliveries), IInv, CountInv, RecordDelivered \/ RecordDead \/ RecordRetry
    PROVE  StagedAreDeaths'
<1>0. PICK c \in Deliveries, h \in Hooks : c = current /\ h = delivery[c].hook
  BY DEF IInv, TypeOK, DeliveryRow
<1>1. /\ phase = "recording" /\ UNCHANGED <<delivery, claimed, died>>
      /\ \E st \in {"delivered", "dead", "pending"}, due \in BOOLEAN : Stage(st, due)
  BY DEF RecordDelivered, RecordDead, RecordRetry, history
<1>2. TypeOK /\ touched \subseteq Hooks /\ stagedHook \in [Hooks -> HookRow] /\ died' \in SUBSET Deliveries
  BY <1>1 DEF IInv, TypeOK
<1>3. /\ c \in claimed /\ stagedDelivery[c] \in DeliveryRow
      /\ stagedDelivery[c].st = "pending" /\ delivery[c].st = "pending"
      /\ stagedDelivery \in [Deliveries -> DeliveryRow] /\ claimed \subseteq Deliveries
  BY <1>0, <1>1, <1>2 DEF IInv, TypeOK, BatchIntact
<1>4. AsSeen(h) \in HookRow /\ Backed(AsSeen(h), Cardinality(Dying(h)))
  BY <1>2, SeenCount
<1>5. \A d \in Deliveries : d # c => stagedDelivery'[d] = stagedDelivery[d]
  BY <1>0, <1>1, <1>3 DEF Stage
<1>6. \A g \in Hooks : Dying(g) \in SUBSET Dying(g)'
  BY <1>1, <1>3, <1>5 DEF Dying
<1>7. \A g : IsFiniteSet(Dying(g)) /\ IsFiniteSet(Dying(g)')
  BY <1>2, DeathsFinite
<1>8. ASSUME NEW g \in touched, stagedHook'[g] = stagedHook[g]
      PROVE  Backed(stagedHook'[g], Cardinality(Dying(g)'))
  <2>1. g \in Hooks /\ stagedHook[g] \in HookRow /\ Backed(stagedHook[g], Cardinality(Dying(g)))
    BY <1>2 DEF CountInv, StagedAreDeaths
  <2>2. Dying(g) \in SUBSET Dying(g)' /\ IsFiniteSet(Dying(g)')
    BY <1>6, <1>7, <2>1
  <2>3. Backed(stagedHook[g], Cardinality(Dying(g)'))
    BY <2>1, <2>2, CountGrows
  <2> QED
    BY <1>8, <2>3
<1> SUFFICES ASSUME NEW g \in touched' PROVE Backed(stagedHook'[g], Cardinality(Dying(g)'))
  BY DEF StagedAreDeaths
<1>9. CASE RecordDelivered
  <2>1. touched' = touched \cup {h} /\ stagedHook' = [stagedHook EXCEPT ![h] = [AsSeen(h) EXCEPT !.failures = 0]]
    BY <1>0, <1>9 DEF RecordDelivered, Touch
  <2>2. /\ stagedHook'[h] = [AsSeen(h) EXCEPT !.failures = 0]
        /\ \A k \in Hooks : k # h => stagedHook'[k] = stagedHook[k]
    BY <1>2, <2>1
  <2>3. AsSeen(h).failures \in Nat /\ stagedHook'[h].failures = 0 /\ stagedHook'[h].st = AsSeen(h).st
    BY <1>4, <2>2 DEF HookRow
  <2>4. Backed(AsSeen(h), Cardinality(Dying(h)'))
    BY <1>4, <1>6, <1>7, CountGrows
  <2>5. Cardinality(Dying(h)') \in Nat
    BY <1>7, FS_CardinalityType
  <2>6. Backed(stagedHook'[h], Cardinality(Dying(h)'))
    BY <2>3, <2>4, <2>5 DEF Backed
  <2> QED
    BY <1>2, <1>8, <2>1, <2>2, <2>6
<1>10. CASE RecordRetry
  BY <1>8, <1>10 DEF RecordRetry
<1>11. CASE RecordDead
  <2> DEFINE st == IF AsSeen(h).failures + 1 >= DisableAfter THEN "disabled" ELSE AsSeen(h).st
             row == [AsSeen(h) EXCEPT !.failures = AsSeen(h).failures + 1, !.st = st]
  <2>1. touched' = touched \cup {h} /\ Stage("dead", TRUE) /\ stagedHook' = [stagedHook EXCEPT ![h] = row]
    BY <1>0, <1>11 DEF RecordDead, Touch
  <2>2. stagedHook'[h] = row /\ \A k \in Hooks : k # h => stagedHook'[k] = stagedHook[k]
    BY <1>2, <2>1
  <2>3. row.failures = AsSeen(h).failures + 1 /\ row.st = st /\ AsSeen(h).failures \in Nat
    BY <1>4 DEF HookRow
  <2>4. stagedDelivery'[c].st = "dead"
    BY <1>0, <1>3, <2>1 DEF Stage, DeliveryRow
  <2>5. c \notin died
    BY <1>3 DEF CountInv, DeadAreOver
  <2>6. Dying(h)' = Dying(h) \cup {c} /\ c \notin Dying(h)
    BY <1>0, <1>1, <1>3, <1>5, <2>4, <2>5 DEF Dying
  <2>7. Cardinality(Dying(h)') = Cardinality(Dying(h)) + 1 /\ Cardinality(Dying(h)) \in Nat
    BY <1>7, <2>6, FS_AddElement, FS_CardinalityType
  <2>8. Backed(row, Cardinality(Dying(h)'))
    <3> HIDE DEF row
    <3> QED
      BY <1>4, <2>3, <2>7 DEF Backed
  <2> QED
    BY <1>2, <1>8, <2>1, <2>2, <2>8
<1> QED
  BY <1>9, <1>10, <1>11

\* Making a hook, making it over, enabling it and deleting it clear its count; no other door
\* writes a hook's row.
LEMMA DoorsClear ==
    ASSUME IInv, DoorNext
    PROVE  /\ UNCHANGED <<workVars, died>>
           /\ \A h \in Hooks : \/ hook'[h] = hook[h]
                               \/ hook'[h].failures = 0 /\ hook'[h].st # "disabled"
<1>1. UNCHANGED <<workVars, died>>
  BY DEF DoorNext, CreateWebhook, SetTableChannel, RescheduleHook, EnableWebhook, PingWebhook,
         Delete, DeleteBegins, DeleteEnds, AskToLeave, ComeBack, history
<1>2. hook \in [Hooks -> HookRow]
  BY DEF IInv, TypeOK
<1>3. ASSUME NEW h \in Hooks, NEW daily \in BOOLEAN, CreateWebhook(h, daily) \/ SetTableChannel(h, daily)
      PROVE  \A g \in Hooks : hook'[g] = hook[g] \/ (hook'[g].failures = 0 /\ hook'[g].st # "disabled")
  BY <1>2, <1>3 DEF CreateWebhook, SetTableChannel, NewHook
<1>4. ASSUME NEW h \in Hooks, EnableWebhook(h)
      PROVE  \A g \in Hooks : hook'[g] = hook[g] \/ (hook'[g].failures = 0 /\ hook'[g].st # "disabled")
  <2>1. hook[h] \in HookRow /\ hook' = [hook EXCEPT ![h] = [hook[h] EXCEPT !.st = "live", !.failures = 0]]
    BY <1>2, <1>4 DEF EnableWebhook
  <2>2. [hook[h] EXCEPT !.st = "live", !.failures = 0].failures = 0 /\ [hook[h] EXCEPT !.st = "live", !.failures = 0].st = "live"
    BY <2>1, Reset
  <2> QED
    BY <1>2, <2>1, <2>2
<1>5. ASSUME NEW x \in Hooks \cup Tables, Delete(x) \/ DeleteEnds(x)
      PROVE  \A g \in Hooks : hook'[g] = hook[g] \/ (hook'[g].failures = 0 /\ hook'[g].st # "disabled")
  BY <1>2, <1>5 DEF Delete, DeleteEnds, Removed, NoHook
<1>6. ASSUME \/ \E h \in Hooks, daily \in BOOLEAN : RescheduleHook(h, daily)
             \/ \E h \in Hooks : PingWebhook(h)
             \/ \E x \in Hooks \cup Tables : DeleteBegins(x)
             \/ \E u \in Users : AskToLeave(u) \/ ComeBack(u)
      PROVE  UNCHANGED hook
  BY <1>6 DEF RescheduleHook, PingWebhook, DeleteBegins, AskToLeave, ComeBack
<1>7. UNCHANGED hook => \A g \in Hooks : hook'[g] = hook[g]
  OBVIOUS
<1> QED
  BY <1>1, <1>3, <1>4, <1>5, <1>6, <1>7 DEF DoorNext

LEMMA CountStep ==
    ASSUME IsFiniteSet(Deliveries), IInv, CountInv, [Next]_vars
    PROVE  CountInv'
\* Steps that leave the hooks' rows, and end the transaction or leave it.
<1>1. ASSUME UNCHANGED <<hook, died>>,
             \/ touched' = {}
             \/ UNCHANGED <<claimed, stagedDelivery, touched, stagedHook>>
      PROVE  CountInv'
  BY <1>1, CountKept
<1>2. CASE UNCHANGED vars
  BY <1>1, <1>2 DEF vars, workVars, history
<1>3. CASE FanoutNext
  BY <1>1, <1>3 DEF FanoutNext, Emit, EmitUnstored, FanoutRead, FanoutQueue, FanoutHold, FanoutSkip,
                    workVars, history
<1>4. CASE TimeNext
  BY <1>1, <1>4 DEF TimeNext, BackoffOver, DigestHour, workVars, history
<1>5. CASE WorkerNext
  <2>1. CASE CommitBatch
    BY <2>1, CountCommits
  <2>2. CASE RecordDelivered \/ RecordDead \/ RecordRetry
    <3>1. UNCHANGED <<hook, delivery, died>>
      BY <2>2 DEF RecordDelivered, RecordDead, RecordRetry, history
    <3>2. FailuresAreDeaths' /\ DeadAreOver'
      BY <3>1 DEF CountInv, FailuresAreDeaths, DeadAreOver
    <3> QED
      BY <2>2, <3>2, CountRecords DEF CountInv
  <2>3. CASE Claim
    BY <1>1, <2>3 DEF Claim, IInv, BatchIntact, history
  <2>4. CASE QueueDigest \/ Rollback \/ Crash \/ DeadlockKillsWorker
    BY <1>1, <2>4 DEF QueueDigest, Rollback, Crash, DeadlockKillsWorker, EndTx, history
  <2>5. CASE \/ \E d \in Deliveries, ok \in BOOLEAN : Post(d, ok)
             \/ DropDisabledHookDigest
             \/ \E h \in Hooks : ClaimHookDigest(h)
             \/ \E x \in Hooks \cup Tables : DeadlockKillsDelete(x)
    BY <1>1, <2>5 DEF Post, DropDisabledHookDigest, ClaimHookDigest, DeadlockKillsDelete, workVars, history
  <2> QED
    BY <1>5, <2>1, <2>2, <2>3, <2>4, <2>5 DEF WorkerNext
<1>6. CASE DoorNext
  BY <1>6, CountKept, DoorsClear DEF workVars
<1> QED
  BY <1>2, <1>3, <1>4, <1>5, <1>6 DEF Next

LEMMA CountStart == IsFiniteSet(Deliveries) /\ Init => CountInv
<1> SUFFICES ASSUME IsFiniteSet(Deliveries), Init PROVE CountInv
  OBVIOUS
<1>1. touched = {} /\ died = {} /\ \A h \in Hooks : hook[h].failures = 0 /\ hook[h].st = "absent"
  BY DEF Init, Nobody, NoHook
<1>2. \A h : IsFiniteSet(Died(h))
  BY <1>1, FS_EmptySet DEF Died
<1>3. FailuresAreDeaths
  BY <1>1, <1>2, ClearBacked, DeathsBack
<1> QED
  BY <1>1, <1>3 DEF CountInv, StagedAreDeaths, DeadAreOver

\* Every failure counted against a hook is a delivery to it that used up its attempts, and it
\* takes DisableAfter of them to put it out of service: what the worker counts in a transaction
\* that is rolled back, crashes or is a deadlock's victim disables nobody. Row ids are UUIDs:
\* there are finitely many.
THEOREM FailuresAreDeathsHolds ==
    ASSUME IsFiniteSet(Deliveries)
    PROVE  Spec => []FailuresAreDeaths
<1>1. IInv /\ CountInv /\ [Next]_vars => CountInv'
  BY CountStep
<1>2. Init => CountInv
  BY CountStart
<1>3. CountInv => FailuresAreDeaths
  BY DEF CountInv
<1> QED
  BY <1>1, <1>2, <1>3, Invariance, PTL DEF Spec
=============================================================================
