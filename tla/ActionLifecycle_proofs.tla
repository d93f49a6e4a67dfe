----------------------- MODULE ActionLifecycle_proofs -----------------------
(* Theorems about ActionLifecycle, for every value of its constants.       *)
EXTENDS ActionLifecycle, FiniteSetTheorems, TLAPS


----------------------------------------------------------------------------
(* Types.                                                                  *)

\* The consumer's locals are set where it reads them.
LocalsOK == cpc = "decide" => detected \in Finding /\ logged \in Anomaly

\* Every detection of a scan is a finding beside a business row.
LEMMA ScansAreDetections ==
  ASSUME TypeOK PROVE \A found \in Scans : found \subseteq Entity \X Finding
<1>1. DuplicateScan \subseteq Entity \X Finding
  BY ParametersOK DEF DuplicateScan, Entity, Finding
<1>2. ASSUME NEW type, NEW S \in SUBSET Entity, NEW open, {type} \X S \subseteq Finding
      PROVE  RowScan(type, S, open) \subseteq Entity \X Finding
  <2> SUFFICES ASSUME NEW e \in S PROVE <<e, <<type, e>>>> \in Entity \X Finding
    BY DEF RowScan
  <2>1. <<type, e>> \in Finding
    BY <1>2
  <2> QED
    BY <2>1
<1>3. /\ RowScan("unused_subscription", License, {"active"}) \subseteq Entity \X Finding
      /\ RowScan("sla_risk", Ticket, {"open"}) \subseteq Entity \X Finding
      /\ RowScan("pricing_anomaly", Quote, {"approved", "pending"}) \subseteq Entity \X Finding
  BY <1>2, ParametersOK DEF Entity, Finding
<1> QED
  BY <1>1, <1>3 DEF Scans

\* A finding is about a row, and its default action takes rows of that class.
LEMMA FindingsNameRows ==
  ASSUME NEW f \in Finding
  PROVE  f[2] \in Entity /\ DefaultAction(f) \in Kind
  BY ParametersOK DEF Finding, Duplicate, Entity, DefaultAction, Kind, Effectful

\* Whatever is decided fits the columns of actions_taken.
LEMMA DecisionsFitRow ==
  ASSUME NEW f \in Finding, NEW d \in Decisions(f)
  PROVE d.kind \in Kind /\ d.target \in Entity /\ d.cost \in Int /\ d.ref \in Ref
<1>1. CASE d = DefaultDecision(f)
  BY <1>1, FindingsNameRows, ParametersOK DEF DefaultDecision, Ref
<1>2. CASE d \in Answers(f)
  BY <1>2, ParametersOK DEF Answers
<1> QED
  BY <1>1, <1>2 DEF Decisions

\* Counting a write keeps a history variable's type; an effect is a status.
LEMMA CountFits ==
  ASSUME NEW f \in [Action -> Nat], NEW x
  PROVE [f EXCEPT ![x] = @ + 1] \in [Action -> Nat]
<1>1. ASSUME x \in Action PROVE f[x] + 1 \in Nat
  BY <1>1
<1>2. CASE x \in Action
  BY <1>1, <1>2
<1>3. CASE x \notin Action
  BY <1>3
<1> QED
  BY <1>2, <1>3

LEMMA WriteFits ==
  ASSUME NEW f \in [Entity -> EntityStatus], NEW x, NEW k
  PROVE /\ [f EXCEPT ![x] = Effect(k)] \in [Entity -> EntityStatus]
        /\ [f EXCEPT ![x] = Restored(k)] \in [Entity -> EntityStatus]
  BY DEF Effect, Restored, EntityStatus

LEMMA TypeInit == Init => TypeOK /\ LocalsOK
  BY ParametersOK DEF Init, TypeOK, LocalsOK, Status, EntityStatus,
     AnomalyStatus, ConsumerPC, RequestPC

\* Every step keeps the types; one case per action of Next.
LEMMA TypeStep == TypeOK /\ LocalsOK /\ [Next]_vars => TypeOK' /\ LocalsOK'
<1> SUFFICES ASSUME TypeOK, LocalsOK, [Next]_vars PROVE TypeOK' /\ LocalsOK'
  OBVIOUS
<1> USE DEF TypeOK, LocalsOK, table, logs, consumer, requests, history
<1>1. CASE Scan
  <2>1. PICK found \in Scans : batch' = found
    BY <1>1 DEF Scan
  <2>2. batch' \subseteq Entity \X Finding
    BY <2>1, ScansAreDetections
  <2> QED
    BY <1>1, <2>2 DEF Scan, ConsumerPC
<1>2. CASE PersistAnomaly
  <2>1. PICK d \in batch, n \in Anomaly :
          /\ batch' = batch \ {d} /\ detected' = d[2] /\ logged' = n
          /\ \/ UNCHANGED logs
             \/ /\ anomaly' = [anomaly EXCEPT ![n] = "detected"]
                /\ subject' = [subject EXCEPT ![n] = d[2]]
    BY <1>2 DEF PersistAnomaly
  <2>2. d[2] \in Finding
    OBVIOUS
  <2> QED
    BY <1>2, <2>1, <2>2 DEF PersistAnomaly, ConsumerPC, AnomalyStatus
<1>3. CASE PersistAction
  <2>1. PICK a \in FreeActions, d \in Decisions(detected) :
          /\ row' = [row EXCEPT ![a] =
               [kind |-> d.kind, target |-> d.target, anomaly |-> logged,
                cost |-> d.cost, ref |-> d.ref]]
          /\ status' = [status EXCEPT ![a] =
               IF RequiresApproval(d.cost) THEN "pending_approval" ELSE "pending"]
          /\ acting' = a
    BY <1>3 DEF PersistAction
  <2>2. d.kind \in Kind /\ d.target \in Entity /\ d.cost \in Int /\ d.ref \in Ref
    BY <1>3, DecisionsFitRow DEF PersistAction
  <2>3. [kind |-> d.kind, target |-> d.target, anomaly |-> logged,
         cost |-> d.cost, ref |-> d.ref] \in Row
    BY <1>3, <2>2 DEF PersistAction, Row
  <2>4. row' \in [Action -> Row \cup {NoRow}]
    BY <2>1, <2>3
  <2>5. status' \in [Action -> Status]
    BY <2>1 DEF Status
  <2>6. cpc' \in {"requeue", "dispatch"}
    BY <1>3 DEF PersistAction
  <2>7. acting' \in Action
    BY <2>1 DEF FreeActions
  <2> QED
    BY <1>3, <2>4, <2>5, <2>6, <2>7 DEF PersistAction, ConsumerPC
<1>4. CASE FinishTask
  BY <1>4 DEF FinishTask, ConsumerPC
<1>5. CASE Decline \/ QueueingFails \/ MarkAnomaly
  BY <1>5 DEF Decline, QueueingFails, MarkAnomaly, NextDetection, ConsumerPC, AnomalyStatus
<1>6. CASE Requeue \/ Enqueue
  BY <1>6 DEF Requeue, Enqueue, ConsumerPC, Status
<1>7. CASE DispatchEffect
  BY <1>7, CountFits, WriteFits DEF DispatchEffect, Apply, ConsumerPC
<1>8. CASE DispatchFails \/ DispatchFlag \/ DispatchNotice
  BY <1>8 DEF DispatchFails, DispatchFlag, DispatchNotice, ConsumerPC, AnomalyStatus
<1>9. CASE ConfirmEffect
  BY <1>9 DEF ConfirmEffect, ConsumerPC, Status
<1>10. CASE CloseAction
  BY <1>10 DEF CloseAction, ConsumerPC, Status
<1>11. ASSUME NEW r \in Request, NEW a \in Action, Approve(r, a) \/ Reject(r, a) \/ Override(r, a)
       PROVE TypeOK' /\ LocalsOK'
  BY <1>11 DEF Approve, Reject, Override, Goto, RequestPC, Status
<1>12. ASSUME NEW r \in Request, RequestStep(r)
       PROVE TypeOK' /\ LocalsOK'
  <2> USE DEF RequestPC, Goto, Return
  <2>1. CASE RecordApproval(r) \/ Dequeue(r)
    BY <2>1 DEF RecordApproval, Dequeue
  <2>2. CASE ExecuteApproved(r)
    BY <2>2, CountFits, WriteFits DEF ExecuteApproved, Apply
  <2>3. CASE ExecuteFails(r) \/ ExecuteNothing(r)
    BY <2>3 DEF ExecuteFails, ExecuteNothing
  <2>4. CASE ConfirmApproved(r) \/ CompleteApproved(r) \/ FailApproved(r) \/ MarkOverridden(r)
    BY <2>4 DEF ConfirmApproved, CompleteApproved, FailApproved, MarkOverridden, SetStatus, Status
  <2>5. CASE Undo(r)
    BY <2>5, CountFits, WriteFits DEF Undo
  <2>6. CASE UndoFails(r) \/ UndoNothing(r)
    BY <2>6 DEF UndoFails, UndoNothing
  <2>7. CASE RelabelAnomaly(r)
    BY <2>7 DEF RelabelAnomaly, AnomalyStatus
  <2> QED
    BY <1>12, <2>1, <2>2, <2>3, <2>4, <2>5, <2>6, <2>7 DEF RequestStep
<1>13. ASSUME NEW e \in Entity, HoldByHand(e) \/ ReleaseByHand(e)
       PROVE TypeOK' /\ LocalsOK'
  BY <1>13 DEF HoldByHand, ReleaseByHand, SetEntity, EntityStatus
<1>14. CASE AutoRelease
  BY <1>14 DEF AutoRelease, EntityStatus
<1>15. ASSUME NEW n \in Anomaly, PatchAnomaly(n)
       PROVE TypeOK' /\ LocalsOK'
  BY <1>15 DEF PatchAnomaly, AnomalyStatus
<1>16. CASE Crash
  BY <1>16, ParametersOK DEF Crash, Fault, ConsumerPC, RequestPC
<1>17. CASE UNCHANGED vars
  BY <1>17 DEF vars
<1>18. CASE StatementFails \/ HandlerFails
  BY <1>18, ParametersOK DEF StatementFails, HandlerFails, NextDetection, Fault, ConsumerPC, RequestPC
<1>19. ASSUME NEW r \in Request, RequestFails(r)
       PROVE  TypeOK' /\ LocalsOK'
  BY <1>19, ParametersOK DEF RequestFails, Goto, Return, Fault, ConsumerPC, RequestPC
<1> QED
  BY <1>1, <1>2, <1>3, <1>4, <1>5, <1>6, <1>7, <1>8, <1>9, <1>10, <1>11, <1>12,
     <1>13, <1>14, <1>15, <1>16, <1>17, <1>18, <1>19 DEF Next, ConsumerStep, FaultStep

LEMMA TypesHold == Spec => [](TypeOK /\ LocalsOK)
  BY TypeInit, TypeStep, PTL DEF Spec

\* Every reachable state is well typed.
THEOREM TypeCorrect == Spec => []TypeOK
  BY TypesHold, PTL
----------------------------------------------------------------------------
(* Whoever works on an action works on one that exists.                    *)

\* The consumer's pcs with an action in hand.
HasAction == {"requeue", "enqueue", "dispatch", "confirm", "close", "mark"}

\* Nothing has happened to a row that is not there yet, and nobody holds its id.
Fresh ==
  /\ cpc \in HasAction => acting \in Action /\ status[acting] # "absent"
  /\ \A r \in Request :
       rpc[r] # "idle" => about[r] \in Action /\ status[about[r]] # "absent"
  /\ \A a \in Action : status[a] = "absent" =>
       /\ queue[a] = "none" /\ approvals[a] = 0 /\ rejections[a] = 0
       /\ applied[a] = 0

LEMMA FreshStep == TypeOK /\ Fresh /\ [Next]_vars => Fresh'
<1> SUFFICES ASSUME TypeOK, Fresh, [Next]_vars PROVE Fresh'
  OBVIOUS
<1> USE DEF TypeOK, Fresh, HasAction, table, logs, consumer, requests, history
<1>1. CASE Scan
  BY <1>1 DEF Scan
<1>2. CASE PersistAnomaly
  BY <1>2 DEF PersistAnomaly
<1>3. CASE PersistAction
  BY <1>3 DEF PersistAction, FreeActions
<1>4. CASE FinishTask
  BY <1>4 DEF FinishTask
<1>5. CASE Decline \/ QueueingFails \/ MarkAnomaly
  BY <1>5 DEF Decline, QueueingFails, MarkAnomaly, NextDetection
<1>6. CASE Requeue \/ Enqueue
  BY <1>6 DEF Requeue, Enqueue
<1>7. CASE DispatchEffect
  BY <1>7 DEF DispatchEffect, Apply
<1>8. CASE DispatchFails \/ DispatchFlag \/ DispatchNotice
  BY <1>8 DEF DispatchFails, DispatchFlag, DispatchNotice
<1>9. CASE ConfirmEffect
  BY <1>9 DEF ConfirmEffect
<1>10. CASE CloseAction
  BY <1>10 DEF CloseAction
<1>11. ASSUME NEW r \in Request, NEW a \in Action, Approve(r, a) \/ Reject(r, a) \/ Override(r, a)
       PROVE Fresh'
  BY <1>11 DEF Approve, Reject, Override, Goto
<1>12. ASSUME NEW r \in Request, RequestStep(r)
       PROVE Fresh'
  <2> USE DEF Goto, Return
  <2>1. CASE RecordApproval(r) \/ Dequeue(r)
    BY <2>1 DEF RecordApproval, Dequeue
  <2>2. CASE ExecuteApproved(r)
    BY <2>2 DEF ExecuteApproved, Apply
  <2>3. CASE ExecuteFails(r) \/ ExecuteNothing(r)
    BY <2>3 DEF ExecuteFails, ExecuteNothing
  <2>4. CASE ConfirmApproved(r) \/ CompleteApproved(r) \/ FailApproved(r) \/ MarkOverridden(r)
    BY <2>4 DEF ConfirmApproved, CompleteApproved, FailApproved, MarkOverridden, SetStatus
  <2>5. CASE Undo(r)
    BY <2>5 DEF Undo
  <2>6. CASE UndoFails(r) \/ UndoNothing(r)
    BY <2>6 DEF UndoFails, UndoNothing
  <2>7. CASE RelabelAnomaly(r)
    BY <2>7 DEF RelabelAnomaly
  <2> QED
    BY <1>12, <2>1, <2>2, <2>3, <2>4, <2>5, <2>6, <2>7 DEF RequestStep
<1>13. ASSUME NEW e \in Entity, HoldByHand(e) \/ ReleaseByHand(e)
       PROVE Fresh'
  BY <1>13 DEF HoldByHand, ReleaseByHand, SetEntity
<1>14. CASE AutoRelease
  BY <1>14 DEF AutoRelease
<1>15. ASSUME NEW n \in Anomaly, PatchAnomaly(n)
       PROVE Fresh'
  BY <1>15 DEF PatchAnomaly
<1>16. CASE Crash
  BY <1>16 DEF Crash, Fault
<1>17. CASE UNCHANGED vars
  BY <1>17 DEF vars
<1>18. CASE StatementFails \/ HandlerFails
  BY <1>18 DEF StatementFails, HandlerFails, NextDetection, Fault
<1>19. ASSUME NEW r \in Request, RequestFails(r)
       PROVE  Fresh'
  BY <1>19 DEF RequestFails, Goto, Return, Fault
<1> QED
  BY <1>1, <1>2, <1>3, <1>4, <1>5, <1>6, <1>7, <1>8, <1>9, <1>10, <1>11, <1>12,
     <1>13, <1>14, <1>15, <1>16, <1>17, <1>18, <1>19 DEF Next, ConsumerStep, FaultStep

LEMMA FreshHolds == Spec => []Fresh
<1>1. Init => Fresh
  BY DEF Init, Fresh, HasAction
<1> QED
  BY <1>1, FreshStep, TypesHold, PTL DEF Spec
----------------------------------------------------------------------------
(* What SUCCESS rests on.                                                  *)

\* SUCCESS is written from a verdict that was computed some steps earlier: the
\* effect and the approval behind it are there from then on.
Backed ==
  /\ SuccessMeansApplied /\ SuccessMeansApproved
  /\ cpc \in {"dispatch", "confirm", "close"} => ~AboveLimit(acting)
  /\ cpc = "confirm" => applied[acting] > 0
  /\ cpc = "close" /\ outcome = "success" /\ row[acting].kind \in Effectful
       => applied[acting] > 0
  /\ \A r \in Request :
       /\ rpc[r] \in {"record", "execute", "confirm", "complete"} => approvals[about[r]] > 0
       /\ rpc[r] = "confirm" => applied[about[r]] > 0
       /\ rpc[r] = "complete" /\ row[about[r]].kind \in Effectful => applied[about[r]] > 0

LEMMA BackedStep == TypeOK /\ Fresh /\ Backed /\ [Next]_vars => Backed'
<1> SUFFICES ASSUME TypeOK, Fresh, Backed, [Next]_vars PROVE Backed'
  OBVIOUS
<1> USE DEF TypeOK, Fresh, Backed, SuccessMeansApplied, SuccessMeansApproved,
          HasAction, RequiresApproval, AboveLimit,
          table, logs, consumer, requests, history
<1>1. CASE Scan
  BY <1>1 DEF Scan
<1>2. CASE PersistAnomaly
  BY <1>2 DEF PersistAnomaly
<1>3. CASE PersistAction
  BY <1>3 DEF PersistAction, FreeActions
<1>4. CASE FinishTask
  BY <1>4 DEF FinishTask
<1>5. CASE Decline \/ QueueingFails \/ MarkAnomaly
  BY <1>5 DEF Decline, QueueingFails, MarkAnomaly, NextDetection
<1>6. CASE Requeue \/ Enqueue
  BY <1>6 DEF Requeue, Enqueue
<1>7. CASE DispatchEffect
  BY <1>7 DEF DispatchEffect, Apply
<1>8. CASE DispatchFails \/ DispatchFlag \/ DispatchNotice
  BY <1>8 DEF DispatchFails, DispatchFlag, DispatchNotice, Effectful
<1>9. CASE ConfirmEffect
  BY <1>9 DEF ConfirmEffect
<1>10. CASE CloseAction
  BY <1>10 DEF CloseAction
<1>11. ASSUME NEW r \in Request, NEW a \in Action, Approve(r, a) \/ Reject(r, a) \/ Override(r, a)
       PROVE Backed'
  BY <1>11 DEF Approve, Reject, Override, Goto
<1>12. ASSUME NEW r \in Request, RequestStep(r)
       PROVE Backed'
  <2> USE DEF Goto, Return
  <2>1. CASE RecordApproval(r) \/ Dequeue(r)
    BY <2>1 DEF RecordApproval, Dequeue
  <2>2. CASE ExecuteApproved(r)
    BY <2>2 DEF ExecuteApproved, Apply
  <2>3. CASE ExecuteFails(r) \/ ExecuteNothing(r)
    BY <2>3 DEF ExecuteFails, ExecuteNothing
  <2>4. CASE ConfirmApproved(r) \/ CompleteApproved(r) \/ FailApproved(r) \/ MarkOverridden(r)
    BY <2>4 DEF ConfirmApproved, CompleteApproved, FailApproved, MarkOverridden, SetStatus
  <2>5. CASE Undo(r)
    BY <2>5 DEF Undo
  <2>6. CASE UndoFails(r) \/ UndoNothing(r)
    BY <2>6 DEF UndoFails, UndoNothing
  <2>7. CASE RelabelAnomaly(r)
    BY <2>7 DEF RelabelAnomaly
  <2> QED
    BY <1>12, <2>1, <2>2, <2>3, <2>4, <2>5, <2>6, <2>7 DEF RequestStep
<1>13. ASSUME NEW e \in Entity, HoldByHand(e) \/ ReleaseByHand(e)
       PROVE Backed'
  BY <1>13 DEF HoldByHand, ReleaseByHand, SetEntity
<1>14. CASE AutoRelease
  BY <1>14 DEF AutoRelease
<1>15. ASSUME NEW n \in Anomaly, PatchAnomaly(n)
       PROVE Backed'
  BY <1>15 DEF PatchAnomaly
<1>16. CASE Crash
  BY <1>16 DEF Crash, Fault
<1>17. CASE UNCHANGED vars
  BY <1>17 DEF vars
<1>18. CASE StatementFails \/ HandlerFails
  BY <1>18 DEF StatementFails, HandlerFails, NextDetection, Fault
<1>19. ASSUME NEW r \in Request, RequestFails(r)
       PROVE  Backed'
  BY <1>19 DEF RequestFails, Goto, Return, Fault
<1> QED
  BY <1>1, <1>2, <1>3, <1>4, <1>5, <1>6, <1>7, <1>8, <1>9, <1>10, <1>11, <1>12,
     <1>13, <1>14, <1>15, <1>16, <1>17, <1>18, <1>19 DEF Next, ConsumerStep, FaultStep

LEMMA BackedHolds == Spec => []Backed
<1>1. Init => Backed
  BY DEF Init, Backed, SuccessMeansApplied, SuccessMeansApproved
<1> QED
  BY <1>1, BackedStep, TypesHold, FreshHolds, PTL DEF Spec

\* A hold, deactivation or escalation reported as done was written to its row.
THEOREM SuccessIsApplied == Spec => []SuccessMeansApplied
<1>1. Backed => SuccessMeansApplied
  BY DEF Backed
<1> QED
  BY <1>1, BackedHolds, PTL

\* Nothing above the limit is reported as done without an approval.
THEOREM SuccessIsApproved == Spec => []SuccessMeansApproved
<1>1. Backed => SuccessMeansApproved
  BY DEF Backed
<1> QED
  BY <1>1, BackedHolds, PTL
----------------------------------------------------------------------------
(* The gate.                                                               *)

\* The requests that were granted an approval of a and have yet to use it.
InFlight(a) == {r \in Request : rpc[r] \in {"record", "execute"} /\ about[r] = a}

\* Each approval pays for one effect, and those in flight have not used theirs:
\* GateRespected alone is not inductive, as nothing in it bounds them.
Gated ==
  \A a \in Action : AboveLimit(a) =>
    applied[a] + Cardinality(InFlight(a)) <= approvals[a]

LEMMA InFlightIsFinite ==
  ASSUME NEW a
  PROVE IsFiniteSet(InFlight(a)) /\ Cardinality(InFlight(a)) \in Nat
<1>1. IsFiniteSet(InFlight(a))
  BY RequestsAreFinite, FS_Subset DEF InFlight
<1> QED
  BY <1>1, FS_CardinalityType

\* A step that neither creates an action nor grants or uses an approval.
Quiet ==
  /\ UNCHANGED <<row, applied, approvals>>
  /\ \A a \in Action : InFlight(a)' \subseteq InFlight(a)

LEMMA QuietGate == TypeOK /\ Gated /\ Quiet => Gated'
<1> SUFFICES ASSUME TypeOK, Gated, Quiet,
                    NEW a \in Action, AboveLimit(a)
             PROVE applied[a] + Cardinality(InFlight(a)') <= approvals[a]
  BY DEF Gated, Quiet, AboveLimit
<1>1. InFlight(a)' \in SUBSET InFlight(a)
  BY DEF Quiet
<1>2. /\ Cardinality(InFlight(a)') <= Cardinality(InFlight(a))
      /\ Cardinality(InFlight(a)') \in Nat
  BY <1>1, InFlightIsFinite, FS_Subset, FS_CardinalityType
<1> QED
  BY <1>2, InFlightIsFinite DEF Gated, TypeOK

\* A new row: nothing of it is in flight.
LEMMA PersistGate == TypeOK /\ Fresh /\ Gated /\ PersistAction => Gated'
<1> SUFFICES ASSUME TypeOK, Fresh, Gated, PersistAction PROVE Gated'
  OBVIOUS
<1>1. PICK b \in FreeActions : \A a \in Action \ {b} : row'[a] = row[a]
  BY DEF PersistAction, FreeActions, TypeOK
<1>2. UNCHANGED <<rpc, about, applied, approvals>>
  BY DEF PersistAction, requests, history
<1>3. \A a \in Action : InFlight(a)' = InFlight(a)
  BY <1>2 DEF InFlight
<1>4. InFlight(b) = {} /\ applied[b] = 0 /\ approvals[b] = 0
  BY <1>1 DEF InFlight, Fresh, FreeActions
<1>5. Cardinality(InFlight(b)) = 0
  BY <1>4, FS_EmptySet
<1>6. SUFFICES ASSUME NEW a \in Action, row'[a].cost > AutoApproveLimit
               PROVE applied[a] + Cardinality(InFlight(a)) <= approvals[a]
  BY <1>2, <1>3 DEF Gated, AboveLimit
<1>7. CASE a = b
  BY <1>4, <1>5, <1>7
<1>8. CASE a # b
  BY <1>1, <1>6, <1>8 DEF Gated, AboveLimit
<1> QED
  BY <1>7, <1>8

\* An approval: one more request in flight, one more approval to use.
LEMMA ApproveGate ==
  ASSUME TypeOK, Gated, NEW r \in Request, NEW b \in Action, Approve(r, b)
  PROVE Gated'
<1> USE DEF TypeOK
<1>1. /\ InFlight(b)' = InFlight(b) \cup {r} /\ r \notin InFlight(b)
      /\ \A a \in Action \ {b} : InFlight(a)' = InFlight(a)
  BY DEF Approve, Goto, InFlight
<1>2. Cardinality(InFlight(b)') = Cardinality(InFlight(b)) + 1
  BY <1>1, InFlightIsFinite, FS_AddElement
<1>3. /\ UNCHANGED <<row, applied>> /\ approvals'[b] = approvals[b] + 1
      /\ \A a \in Action \ {b} : approvals'[a] = approvals[a]
  BY DEF Approve
<1>4. SUFFICES ASSUME NEW a \in Action, AboveLimit(a)
               PROVE applied[a] + Cardinality(InFlight(a)') <= approvals'[a]
  BY <1>3 DEF Gated, AboveLimit
<1>5. applied[a] + Cardinality(InFlight(a)) <= approvals[a] /\ Cardinality(InFlight(a)) \in Nat
  BY <1>4, InFlightIsFinite DEF Gated
<1>6. CASE a = b
  BY <1>2, <1>3, <1>5, <1>6
<1>7. CASE a # b
  BY <1>1, <1>3, <1>5, <1>7
<1> QED
  BY <1>6, <1>7

\* Using an approval: one effect more, one request in flight less.
LEMMA ExecuteGate ==
  ASSUME TypeOK, Fresh, Gated, NEW r \in Request, ExecuteApproved(r)
  PROVE Gated'
<1> USE DEF TypeOK
<1>1. PICK b \in Action : b = about[r] /\ r \in InFlight(b)
  BY DEF ExecuteApproved, Goto, InFlight, Fresh
<1>2. /\ InFlight(b)' = InFlight(b) \ {r}
      /\ \A a \in Action \ {b} : InFlight(a)' = InFlight(a)
  BY <1>1 DEF ExecuteApproved, Goto, InFlight
<1>3. Cardinality(InFlight(b)') = Cardinality(InFlight(b)) - 1
  <2>1. IsFiniteSet(InFlight(b))
    BY InFlightIsFinite
  <2>2. Cardinality(InFlight(b) \ {r}) = Cardinality(InFlight(b)) - 1
    BY <1>1, <2>1, FS_RemoveElement
  <2> QED
    BY <1>2, <2>2
<1>4. /\ UNCHANGED <<row, approvals>> /\ applied'[b] = applied[b] + 1
      /\ \A a \in Action \ {b} : applied'[a] = applied[a]
  BY <1>1 DEF ExecuteApproved, Apply, table
<1>5. SUFFICES ASSUME NEW a \in Action, AboveLimit(a)
               PROVE applied'[a] + Cardinality(InFlight(a)') <= approvals[a]
  BY <1>4 DEF Gated, AboveLimit
<1>6. applied[a] + Cardinality(InFlight(a)) <= approvals[a] /\ Cardinality(InFlight(a)) \in Nat
  BY <1>5, InFlightIsFinite DEF Gated
<1>7. CASE a = b
  BY <1>3, <1>4, <1>6, <1>7
<1>8. CASE a # b
  BY <1>2, <1>4, <1>6, <1>8
<1> QED
  BY <1>7, <1>8

\* An automatic effect: the action is not above the limit.
LEMMA DispatchGate == TypeOK /\ Backed /\ Gated /\ DispatchEffect => Gated'
<1> SUFFICES ASSUME TypeOK, Backed, Gated, DispatchEffect PROVE Gated'
  OBVIOUS
<1>1. UNCHANGED <<row, rpc, about, approvals>>
  BY DEF DispatchEffect, Apply, table, requests
<1>2. \A a \in Action : InFlight(a)' = InFlight(a)
  BY <1>1 DEF InFlight
<1>3. ~AboveLimit(acting)
  BY DEF DispatchEffect, Backed
<1>4. \A a \in Action \ {acting} : applied'[a] = applied[a]
  BY DEF DispatchEffect, Apply, TypeOK
<1> QED
  BY <1>1, <1>2, <1>3, <1>4 DEF Gated, AboveLimit

LEMMA GateStep == TypeOK /\ Fresh /\ Backed /\ Gated /\ [Next]_vars => Gated'
<1> SUFFICES ASSUME TypeOK, Fresh, Backed, Gated, [Next]_vars PROVE Gated'
  OBVIOUS
<1> USE DEF Quiet, InFlight, table, logs, consumer, requests, history
<1>1. CASE Scan
  <2>1. Quiet
    BY <1>1 DEF Scan
  <2> QED
    BY <2>1, QuietGate
<1>2. CASE PersistAnomaly
  <2>1. Quiet
    BY <1>2 DEF PersistAnomaly
  <2> QED
    BY <2>1, QuietGate
<1>3. CASE PersistAction
  BY <1>3, PersistGate
<1>4. CASE FinishTask
  <2>1. Quiet
    BY <1>4 DEF FinishTask
  <2> QED
    BY <2>1, QuietGate
<1>5. CASE Decline \/ QueueingFails \/ MarkAnomaly
  <2>1. Quiet
    BY <1>5 DEF Decline, QueueingFails, MarkAnomaly, NextDetection
  <2> QED
    BY <2>1, QuietGate
<1>6. CASE Requeue \/ Enqueue
  <2>1. Quiet
    BY <1>6 DEF Requeue, Enqueue
  <2> QED
    BY <2>1, QuietGate
<1>7. CASE DispatchEffect
  BY <1>7, DispatchGate
<1>8. CASE DispatchFails \/ DispatchFlag \/ DispatchNotice
  <2>1. Quiet
    BY <1>8 DEF DispatchFails, DispatchFlag, DispatchNotice
  <2> QED
    BY <2>1, QuietGate
<1>9. CASE ConfirmEffect
  <2>1. Quiet
    BY <1>9 DEF ConfirmEffect
  <2> QED
    BY <2>1, QuietGate
<1>10. CASE CloseAction
  <2>1. Quiet
    BY <1>10 DEF CloseAction
  <2> QED
    BY <2>1, QuietGate
<1>11. ASSUME NEW r \in Request, NEW a \in Action, Approve(r, a) \/ Reject(r, a) \/ Override(r, a)
       PROVE Gated'
  <2>1. CASE Approve(r, a)
    BY <2>1, ApproveGate
  <2>2. CASE Reject(r, a) \/ Override(r, a)
    <3>1. Quiet
      BY <2>2 DEF Reject, Override, Goto, TypeOK
    <3> QED
      BY <3>1, QuietGate
  <2> QED
    BY <1>11, <2>1, <2>2
<1>12. ASSUME NEW r \in Request, RequestStep(r)
       PROVE Gated'
  <2> USE DEF Goto, Return
  <2>1. CASE RecordApproval(r) \/ Dequeue(r)
    <3>1. Quiet
      BY <2>1 DEF RecordApproval, Dequeue, TypeOK
    <3> QED
      BY <3>1, QuietGate
  <2>2. CASE ExecuteApproved(r)
    BY <2>2, ExecuteGate
  <2>3. CASE ExecuteFails(r) \/ ExecuteNothing(r)
    <3>1. Quiet
      BY <2>3 DEF ExecuteFails, ExecuteNothing, TypeOK
    <3> QED
      BY <3>1, QuietGate
  <2>4. CASE ConfirmApproved(r) \/ CompleteApproved(r) \/ FailApproved(r) \/ MarkOverridden(r)
    <3>1. Quiet
      BY <2>4 DEF ConfirmApproved, CompleteApproved, FailApproved, MarkOverridden, SetStatus, TypeOK
    <3> QED
      BY <3>1, QuietGate
  <2>5. CASE Undo(r)
    <3>1. Quiet
      BY <2>5 DEF Undo, TypeOK
    <3> QED
      BY <3>1, QuietGate
  <2>6. CASE UndoFails(r) \/ UndoNothing(r)
    <3>1. Quiet
      BY <2>6 DEF UndoFails, UndoNothing, TypeOK
    <3> QED
      BY <3>1, QuietGate
  <2>7. CASE RelabelAnomaly(r)
    <3>1. Quiet
      BY <2>7 DEF RelabelAnomaly, TypeOK
    <3> QED
      BY <3>1, QuietGate
  <2> QED
    BY <1>12, <2>1, <2>2, <2>3, <2>4, <2>5, <2>6, <2>7 DEF RequestStep
<1>13. ASSUME NEW e \in Entity, HoldByHand(e) \/ ReleaseByHand(e)
       PROVE Gated'
  <2>1. Quiet
    BY <1>13 DEF HoldByHand, ReleaseByHand, SetEntity
  <2> QED
    BY <2>1, QuietGate
<1>14. CASE AutoRelease
  <2>1. Quiet
    BY <1>14 DEF AutoRelease
  <2> QED
    BY <2>1, QuietGate
<1>15. ASSUME NEW n \in Anomaly, PatchAnomaly(n)
       PROVE Gated'
  <2>1. Quiet
    BY <1>15 DEF PatchAnomaly
  <2> QED
    BY <2>1, QuietGate
<1>16. CASE Crash
  <2>1. Quiet
    BY <1>16 DEF Crash, Fault
  <2> QED
    BY <2>1, QuietGate
<1>17. CASE UNCHANGED vars
  <2>1. Quiet
    BY <1>17 DEF vars
  <2> QED
    BY <2>1, QuietGate
<1>18. CASE StatementFails \/ HandlerFails
  <2>1. Quiet
    BY <1>18 DEF StatementFails, HandlerFails, NextDetection, Fault
  <2> QED
    BY <2>1, QuietGate
<1>19. ASSUME NEW r \in Request, RequestFails(r)
       PROVE  Gated'
  <2>1. Quiet
    BY <1>19 DEF RequestFails, Goto, Return, Fault, TypeOK
  <2> QED
    BY <2>1, QuietGate
<1> QED
  BY <1>1, <1>2, <1>3, <1>4, <1>5, <1>6, <1>7, <1>8, <1>9, <1>10, <1>11, <1>12,
     <1>13, <1>14, <1>15, <1>16, <1>17, <1>18, <1>19 DEF Next, ConsumerStep, FaultStep

LEMMA GatedHolds == Spec => []Gated
<1>1. Init => Gated
  <2> SUFFICES ASSUME Init, NEW a \in Action
               PROVE applied[a] + Cardinality(InFlight(a)) <= approvals[a]
    BY DEF Gated
  <2>1. InFlight(a) = {}
    BY DEF Init, InFlight
  <2>2. Cardinality(InFlight(a)) = 0
    BY <2>1, FS_EmptySet
  <2> QED
    BY <2>2 DEF Init
<1> QED
  BY <1>1, GateStep, TypesHold, FreshHolds, BackedHolds, PTL DEF Spec

\* The effect of an action above the limit is written at most once per approval:
\* for any number of requests, faults and rows, whether reviewers act on the
\* queue or on ids they know from elsewhere.
THEOREM GateIsRespected == Spec => []GateRespected
<1>1. TypeOK /\ Gated => GateRespected
  BY InFlightIsFinite DEF Gated, GateRespected, TypeOK
<1> QED
  BY <1>1, GatedHolds, TypeCorrect, PTL
----------------------------------------------------------------------------
(* One verdict per action.                                                 *)

\* Only what is above the limit meets a human, and the consumer runs the rest
\* once.
Sorted ==
  /\ \A a \in Action : status[a] = "pending_approval" => AboveLimit(a)
  /\ cpc \in {"requeue", "enqueue"} => AboveLimit(acting)
  /\ \A r \in Request : rpc[r] \in {"record", "execute"} => AboveLimit(about[r])
  /\ cpc = "dispatch" => applied[acting] = 0
  /\ cpc = "close" => outcome \in {"success", "failed"}
  /\ \A a \in Action : ~AboveLimit(a) => applied[a] <= 1

LEMMA SortedStep == TypeOK /\ Fresh /\ Backed /\ Sorted /\ [Next]_vars => Sorted'
<1> SUFFICES ASSUME TypeOK, Fresh, Backed, Sorted, [Next]_vars PROVE Sorted'
  OBVIOUS
<1> USE DEF TypeOK, Fresh, Sorted, HasAction, RequiresApproval, AboveLimit,
          table, logs, consumer, requests, history
<1>1. CASE Scan
  BY <1>1 DEF Scan
<1>2. CASE PersistAnomaly
  BY <1>2 DEF PersistAnomaly
<1>3. CASE PersistAction
  BY <1>3 DEF PersistAction, FreeActions
<1>4. CASE FinishTask
  BY <1>4 DEF FinishTask
<1>5. CASE Decline \/ QueueingFails \/ MarkAnomaly
  BY <1>5 DEF Decline, QueueingFails, MarkAnomaly, NextDetection
<1>6. CASE Requeue \/ Enqueue
  BY <1>6 DEF Requeue, Enqueue
<1>7. CASE DispatchEffect
  BY <1>7 DEF DispatchEffect, Apply, Backed
<1>8. CASE DispatchFails \/ DispatchFlag \/ DispatchNotice
  BY <1>8 DEF DispatchFails, DispatchFlag, DispatchNotice
<1>9. CASE ConfirmEffect
  BY <1>9 DEF ConfirmEffect
<1>10. CASE CloseAction
  BY <1>10 DEF CloseAction
<1>11. ASSUME NEW r \in Request, NEW a \in Action, Approve(r, a) \/ Reject(r, a) \/ Override(r, a)
       PROVE Sorted'
  BY <1>11 DEF Approve, Reject, Override, Goto
<1>12. ASSUME NEW r \in Request, RequestStep(r)
       PROVE Sorted'
  <2> USE DEF Goto, Return
  <2>1. CASE RecordApproval(r) \/ Dequeue(r)
    BY <2>1 DEF RecordApproval, Dequeue
  <2>2. CASE ExecuteApproved(r)
    BY <2>2 DEF ExecuteApproved, Apply, Backed
  <2>3. CASE ExecuteFails(r) \/ ExecuteNothing(r)
    BY <2>3 DEF ExecuteFails, ExecuteNothing
  <2>4. CASE ConfirmApproved(r) \/ CompleteApproved(r) \/ FailApproved(r) \/ MarkOverridden(r)
    BY <2>4 DEF ConfirmApproved, CompleteApproved, FailApproved, MarkOverridden, SetStatus
  <2>5. CASE Undo(r)
    BY <2>5 DEF Undo
  <2>6. CASE UndoFails(r) \/ UndoNothing(r)
    BY <2>6 DEF UndoFails, UndoNothing
  <2>7. CASE RelabelAnomaly(r)
    BY <2>7 DEF RelabelAnomaly
  <2> QED
    BY <1>12, <2>1, <2>2, <2>3, <2>4, <2>5, <2>6, <2>7 DEF RequestStep
<1>13. ASSUME NEW e \in Entity, HoldByHand(e) \/ ReleaseByHand(e)
       PROVE Sorted'
  BY <1>13 DEF HoldByHand, ReleaseByHand, SetEntity
<1>14. CASE AutoRelease
  BY <1>14 DEF AutoRelease
<1>15. ASSUME NEW n \in Anomaly, PatchAnomaly(n)
       PROVE Sorted'
  BY <1>15 DEF PatchAnomaly
<1>16. CASE Crash
  BY <1>16 DEF Crash, Fault
<1>17. CASE UNCHANGED vars
  BY <1>17 DEF vars
<1>18. CASE StatementFails \/ HandlerFails
  BY <1>18 DEF StatementFails, HandlerFails, NextDetection, Fault
<1>19. ASSUME NEW r \in Request, RequestFails(r)
       PROVE  Sorted'
  BY <1>19 DEF RequestFails, Goto, Return, Fault
<1> QED
  BY <1>1, <1>2, <1>3, <1>4, <1>5, <1>6, <1>7, <1>8, <1>9, <1>10, <1>11, <1>12,
     <1>13, <1>14, <1>15, <1>16, <1>17, <1>18, <1>19 DEF Next, ConsumerStep, FaultStep

LEMMA SortedHolds == Spec => []Sorted
<1>1. Init => Sorted
  BY DEF Init, Sorted
<1> QED
  BY <1>1, SortedStep, TypesHold, FreshHolds, BackedHolds, PTL DEF Spec

\* The statuses of an action that has passed the gate.
Passed == {"pending", "approved", "success", "failed", "overridden"}

\* As long as reviewers act on the approval queue, enqueue_for_approval is alone
\* with its action until the queue row is there, and the later unconditional
\* writes only meet actions that have passed the gate.
Disciplined ==
  /\ cpc \in {"requeue", "enqueue"} => status[acting] = "pending_approval" /\ queue[acting] = "none"
  /\ cpc \in {"dispatch", "confirm", "close"} => status[acting] \in Passed
  /\ \A r \in Request : rpc[r] \notin {"idle", "dequeue"} => status[about[r]] \in Passed
  /\ \A a \in Action :
       /\ status[a] = "pending_approval" => approvals[a] = 0 /\ rejections[a] = 0 /\ applied[a] = 0
       /\ rejections[a] > 0 => status[a] = "rejected" /\ applied[a] = 0
  /\ DecidedOnce

LEMMA DisciplinedStep == ReviewFromQueue /\ TypeOK /\ Fresh /\ Sorted /\ Disciplined /\ [Next]_vars => Disciplined'
<1> SUFFICES ASSUME ReviewFromQueue, TypeOK, Fresh, Sorted, Disciplined, [Next]_vars PROVE Disciplined'
  OBVIOUS
<1> USE DEF TypeOK, Fresh, Disciplined, DecidedOnce, HasAction, Passed,
          table, logs, consumer, requests, history
<1>1. CASE Scan
  BY <1>1 DEF Scan
<1>2. CASE PersistAnomaly
  BY <1>2 DEF PersistAnomaly
<1>3. CASE PersistAction
  BY <1>3 DEF PersistAction, FreeActions
<1>4. CASE FinishTask
  BY <1>4 DEF FinishTask
<1>5. CASE Decline \/ QueueingFails \/ MarkAnomaly
  BY <1>5 DEF Decline, QueueingFails, MarkAnomaly, NextDetection
<1>6. CASE Requeue \/ Enqueue
  BY <1>6 DEF Requeue, Enqueue
<1>7. CASE DispatchEffect
  BY <1>7 DEF DispatchEffect, Apply
<1>8. CASE DispatchFails \/ DispatchFlag \/ DispatchNotice
  BY <1>8 DEF DispatchFails, DispatchFlag, DispatchNotice
<1>9. CASE ConfirmEffect
  BY <1>9 DEF ConfirmEffect
<1>10. CASE CloseAction
  BY <1>10 DEF CloseAction, Sorted
<1>11. ASSUME NEW r \in Request, NEW a \in Action, Approve(r, a) \/ Reject(r, a) \/ Override(r, a)
       PROVE Disciplined'
  <2>1. CASE Approve(r, a)
    BY <2>1 DEF Approve, Goto, Known
  <2>2. CASE Reject(r, a)
    BY <2>2 DEF Reject, Goto, Known
  <2>3. CASE Override(r, a)
    BY <2>3 DEF Override, Goto
  <2> QED
    BY <1>11, <2>1, <2>2, <2>3
<1>12. ASSUME NEW r \in Request, RequestStep(r)
       PROVE Disciplined'
  <2> USE DEF Goto, Return
  <2>1. CASE RecordApproval(r) \/ Dequeue(r)
    <3>1. CASE RecordApproval(r)
      BY <3>1 DEF RecordApproval
    <3>2. CASE Dequeue(r)
      BY <3>2 DEF Dequeue
    <3> QED
      BY <2>1, <3>1, <3>2
  <2>2. CASE ExecuteApproved(r)
    BY <2>2 DEF ExecuteApproved, Apply
  <2>3. CASE ExecuteFails(r) \/ ExecuteNothing(r)
    <3>1. CASE ExecuteFails(r)
      BY <3>1 DEF ExecuteFails
    <3>2. CASE ExecuteNothing(r)
      BY <3>2 DEF ExecuteNothing
    <3> QED
      BY <2>3, <3>1, <3>2
  <2>4. CASE ConfirmApproved(r) \/ CompleteApproved(r) \/ FailApproved(r) \/ MarkOverridden(r)
    <3>1. PICK s \in Passed : status' = [status EXCEPT ![about[r]] = s]
      BY <2>4 DEF ConfirmApproved, CompleteApproved, FailApproved, MarkOverridden, SetStatus
    <3>2. rpc[r] \notin {"idle", "dequeue"} /\ \A x \in Request \ {r} : rpc'[x] = rpc[x] /\ about'[x] = about[x]
      BY <2>4 DEF ConfirmApproved, CompleteApproved, FailApproved, MarkOverridden
    <3>3. rpc'[r] = "idle" \/ about'[r] = about[r]
      BY <2>4 DEF ConfirmApproved, CompleteApproved, FailApproved, MarkOverridden
    <3>4. UNCHANGED <<row, queue, consumer, history>>
      BY <2>4 DEF ConfirmApproved, CompleteApproved, FailApproved, MarkOverridden
    <3>5. about[r] \in Action /\ status[about[r]] \in Passed
      BY <3>2
    <3>6. \A x \in Action : status'[x] = IF x = about[r] THEN s ELSE status[x]
      BY <3>1, <3>5
    <3>7. \A x \in Action : status[x] \in Passed => status'[x] \in Passed
      BY <3>6
    <3>8. \A x \in Action : status[x] \notin Passed => status'[x] = status[x]
      BY <3>5, <3>6
    <3>9. \A x \in Request : rpc'[x] \notin {"idle", "dequeue"} => status'[about'[x]] \in Passed
      BY <3>2, <3>3, <3>5, <3>7
    <3>10. \A x \in Action : status'[x] = "pending_approval" => status[x] = "pending_approval"
      BY <3>1, <3>6
    <3>11. \A x \in Action : rejections[x] > 0 => status'[x] = "rejected"
      BY <3>8
    <3> QED
      BY <3>4, <3>7, <3>8, <3>9, <3>10, <3>11
  <2>5. CASE Undo(r)
    BY <2>5 DEF Undo
  <2>6. CASE UndoFails(r) \/ UndoNothing(r)
    BY <2>6 DEF UndoFails, UndoNothing
  <2>7. CASE RelabelAnomaly(r)
    BY <2>7 DEF RelabelAnomaly
  <2> QED
    BY <1>12, <2>1, <2>2, <2>3, <2>4, <2>5, <2>6, <2>7 DEF RequestStep
<1>13. ASSUME NEW e \in Entity, HoldByHand(e) \/ ReleaseByHand(e)
       PROVE Disciplined'
  BY <1>13 DEF HoldByHand, ReleaseByHand, SetEntity
<1>14. CASE AutoRelease
  BY <1>14 DEF AutoRelease
<1>15. ASSUME NEW n \in Anomaly, PatchAnomaly(n)
       PROVE Disciplined'
  BY <1>15 DEF PatchAnomaly
<1>16. CASE Crash
  BY <1>16 DEF Crash, Fault
<1>17. CASE UNCHANGED vars
  BY <1>17 DEF vars
<1>18. CASE StatementFails \/ HandlerFails
  BY <1>18 DEF StatementFails, HandlerFails, NextDetection, Fault
<1>19. ASSUME NEW r \in Request, RequestFails(r)
       PROVE  Disciplined'
  BY <1>19 DEF RequestFails, Goto, Return, Fault
<1> QED
  BY <1>1, <1>2, <1>3, <1>4, <1>5, <1>6, <1>7, <1>8, <1>9, <1>10, <1>11, <1>12,
     <1>13, <1>14, <1>15, <1>16, <1>17, <1>18, <1>19 DEF Next, ConsumerStep, FaultStep

LEMMA DisciplinedHolds == Spec => [](ReviewFromQueue => Disciplined)
<1>1. Init => Disciplined
  BY DEF Init, Disciplined, DecidedOnce
<1>2. TypeOK /\ Fresh /\ Sorted /\ (ReviewFromQueue => Disciplined) /\ [Next]_vars
        => (ReviewFromQueue => Disciplined)'
  BY DisciplinedStep
<1> QED
  BY <1>1, <1>2, TypesHold, FreshHolds, SortedHolds, PTL DEF Spec

\* Two reviewers never both decide on one action.
THEOREM ReviewIsDecidedOnce == Spec => [](ReviewFromQueue => DecidedOnce)
<1>1. (ReviewFromQueue => Disciplined) => (ReviewFromQueue => DecidedOnce)
  BY DEF Disciplined
<1> QED
  BY <1>1, DisciplinedHolds, PTL

\* "Action is never executed": what was rejected was not and will not be applied.
THEOREM RejectionPreventsExecution == Spec => [](ReviewFromQueue => RejectedNeverExecuted)
<1>1. (ReviewFromQueue => Disciplined) => (ReviewFromQueue => RejectedNeverExecuted)
  BY DEF Disciplined, RejectedNeverExecuted
<1> QED
  BY <1>1, DisciplinedHolds, PTL

\* No action is carried out twice, by one coroutine or by two.
THEOREM EffectHappensOnce == Spec => [](ReviewFromQueue => AppliedOnce)
<1>1. TypeOK /\ GateRespected /\ Sorted /\ (ReviewFromQueue => DecidedOnce)
        => (ReviewFromQueue => AppliedOnce)
  BY DEF TypeOK, GateRespected, Sorted, DecidedOnce, AppliedOnce
<1> QED
  BY <1>1, TypeCorrect, GateIsRespected, SortedHolds, ReviewIsDecidedOnce, PTL
\* No step takes a rejected action out of REJECTED.
RejectedStays ==
  \A a \in Action : status[a] = "rejected" => status'[a] = "rejected"

LEMMA RejectedStep == ReviewFromQueue /\ TypeOK /\ Fresh /\ Disciplined /\ [Next]_vars => RejectedStays
<1> SUFFICES ASSUME ReviewFromQueue, TypeOK, Fresh, Disciplined, [Next]_vars PROVE RejectedStays
  OBVIOUS
<1> USE DEF TypeOK, Fresh, Disciplined, HasAction, Passed, RejectedStays,
          table, logs, consumer, requests, history
<1>1. CASE Scan
  BY <1>1 DEF Scan
<1>2. CASE PersistAnomaly
  BY <1>2 DEF PersistAnomaly
<1>3. CASE PersistAction
  BY <1>3 DEF PersistAction, FreeActions
<1>4. CASE FinishTask
  BY <1>4 DEF FinishTask
<1>5. CASE Decline \/ QueueingFails \/ MarkAnomaly
  BY <1>5 DEF Decline, QueueingFails, MarkAnomaly, NextDetection
<1>6. CASE Requeue \/ Enqueue
  BY <1>6 DEF Requeue, Enqueue
<1>7. CASE DispatchEffect
  BY <1>7 DEF DispatchEffect, Apply
<1>8. CASE DispatchFails \/ DispatchFlag \/ DispatchNotice
  BY <1>8 DEF DispatchFails, DispatchFlag, DispatchNotice
<1>9. CASE ConfirmEffect
  BY <1>9 DEF ConfirmEffect
<1>10. CASE CloseAction
  BY <1>10 DEF CloseAction
<1>11. ASSUME NEW r \in Request, NEW a \in Action, Approve(r, a) \/ Reject(r, a) \/ Override(r, a)
       PROVE RejectedStays
  BY <1>11 DEF Approve, Reject, Override, Goto
<1>12. ASSUME NEW r \in Request, RequestStep(r)
       PROVE RejectedStays
  <2> USE DEF Goto, Return
  <2>1. CASE RecordApproval(r) \/ Dequeue(r)
    BY <2>1 DEF RecordApproval, Dequeue
  <2>2. CASE ExecuteApproved(r)
    BY <2>2 DEF ExecuteApproved, Apply
  <2>3. CASE ExecuteFails(r) \/ ExecuteNothing(r)
    BY <2>3 DEF ExecuteFails, ExecuteNothing
  <2>4. CASE ConfirmApproved(r) \/ CompleteApproved(r) \/ FailApproved(r) \/ MarkOverridden(r)
    BY <2>4 DEF ConfirmApproved, CompleteApproved, FailApproved, MarkOverridden, SetStatus
  <2>5. CASE Undo(r)
    BY <2>5 DEF Undo
  <2>6. CASE UndoFails(r) \/ UndoNothing(r)
    BY <2>6 DEF UndoFails, UndoNothing
  <2>7. CASE RelabelAnomaly(r)
    BY <2>7 DEF RelabelAnomaly
  <2> QED
    BY <1>12, <2>1, <2>2, <2>3, <2>4, <2>5, <2>6, <2>7 DEF RequestStep
<1>13. ASSUME NEW e \in Entity, HoldByHand(e) \/ ReleaseByHand(e)
       PROVE RejectedStays
  BY <1>13 DEF HoldByHand, ReleaseByHand, SetEntity
<1>14. CASE AutoRelease
  BY <1>14 DEF AutoRelease
<1>15. ASSUME NEW n \in Anomaly, PatchAnomaly(n)
       PROVE RejectedStays
  BY <1>15 DEF PatchAnomaly
<1>16. CASE Crash
  BY <1>16 DEF Crash, Fault
<1>17. CASE UNCHANGED vars
  BY <1>17 DEF vars
<1>18. CASE StatementFails \/ HandlerFails
  BY <1>18 DEF StatementFails, HandlerFails, NextDetection, Fault
<1>19. ASSUME NEW r \in Request, RequestFails(r)
       PROVE  RejectedStays
  BY <1>19 DEF RequestFails, Goto, Return, Fault
<1> QED
  BY <1>1, <1>2, <1>3, <1>4, <1>5, <1>6, <1>7, <1>8, <1>9, <1>10, <1>11, <1>12,
     <1>13, <1>14, <1>15, <1>16, <1>17, <1>18, <1>19 DEF Next, ConsumerStep, FaultStep

\* A human's rejection is never overwritten, given the queue discipline.
THEOREM RejectionIsFinal == ASSUME ReviewFromQueue PROVE Spec => RejectedIsFinal
<1>1. TypeOK /\ Fresh /\ (ReviewFromQueue => Disciplined) /\ [Next]_vars
        => [RejectedStays]_vars
  BY RejectedStep
<1>2. [][RejectedStays]_vars => RejectedIsFinal
  BY PTL DEF RejectedIsFinal, RejectedStays
<1> QED
  BY <1>1, <1>2, TypesHold, FreshHolds, DisciplinedHolds, PTL DEF Spec

----------------------------------------------------------------------------
(* The contract.                                                           *)

Verdicts == [a \in Action |-> VerdictOf(a)]
ContractStep == [Abstract!ContractNext]_<<Verdicts, applied>>

\* Nothing the contract speaks of changes.
Silent ==
  /\ UNCHANGED applied
  /\ \A a \in Action : VerdictOf(a)' = VerdictOf(a)

LEMMA SilentStutters == Silent => ContractStep
  BY DEF Silent, ContractStep, Verdicts

\* One action's verdict changes, or one action's effect is written.
LEMMA VerdictStep ==
  ASSUME NEW a \in Action, NEW v, VerdictOf(a)' = v, UNCHANGED applied,
         \A b \in Action \ {a} : VerdictOf(b)' = VerdictOf(b),
         \/ VerdictOf(a) = "absent" /\ v \in {"automatic", "awaiting"}
         \/ VerdictOf(a) = "awaiting" /\ v \in {"authorised", "refused"}
  PROVE ContractStep
<1>1. Verdicts' = [Verdicts EXCEPT ![a] = v]
  BY DEF Verdicts
<1>2. Verdicts[a] = VerdictOf(a)
  BY DEF Verdicts
<1> QED
  BY <1>1, <1>2 DEF ContractStep, Verdicts, Abstract!ContractNext, Abstract!Propose,
     Abstract!Authorise, Abstract!Refuse, Abstract!Decide

LEMMA EffectStep ==
  ASSUME NEW a \in Action, VerdictOf(a) \in {"automatic", "authorised"}, applied[a] = 0,
         applied' = [applied EXCEPT ![a] = 1],
         \A b \in Action : VerdictOf(b)' = VerdictOf(b)
  PROVE ContractStep
<1>1. Verdicts' = Verdicts /\ Verdicts[a] = VerdictOf(a)
  BY DEF Verdicts
<1> QED
  BY <1>1 DEF ContractStep, Verdicts, Abstract!ContractNext, Abstract!Perform

LEMMA Simulation == ReviewFromQueue /\ TypeOK /\ Fresh /\ Sorted /\ Gated /\ Disciplined /\ [Next]_vars => ContractStep
<1> SUFFICES ASSUME ReviewFromQueue, TypeOK, Fresh, Sorted, Gated, Disciplined, [Next]_vars PROVE ContractStep
  OBVIOUS
<1> USE DEF TypeOK, VerdictOf, RequiresApproval, AboveLimit, Silent,
          table, logs, consumer, requests, history
<1>1. CASE Scan
  BY <1>1, SilentStutters DEF Scan
<1>2. CASE PersistAnomaly
  BY <1>2, SilentStutters DEF PersistAnomaly
<1>3. CASE PersistAction
  <2>1. PICK a \in FreeActions, d \in Decisions(detected) :
          /\ \A b \in Action \ {a} : row'[b] = row[b] /\ status'[b] = status[b]
          /\ row'[a].cost = d.cost
          /\ status'[a] = IF RequiresApproval(d.cost) THEN "pending_approval" ELSE "pending"
    BY <1>3 DEF PersistAction, FreeActions
  <2>2. a \in Action /\ VerdictOf(a) = "absent"
    BY DEF FreeActions
  <2>3. VerdictOf(a)' \in {"automatic", "awaiting"}
    BY <2>1
  <2>4. UNCHANGED applied /\ \A b \in Action \ {a} : VerdictOf(b)' = VerdictOf(b)
    BY <1>3, <2>1 DEF PersistAction
  <2> QED
    BY <2>2, <2>3, <2>4, VerdictStep
<1>4. CASE FinishTask
  BY <1>4, SilentStutters DEF FinishTask
<1>5. CASE Decline \/ QueueingFails \/ MarkAnomaly
  BY <1>5, SilentStutters DEF Decline, QueueingFails, MarkAnomaly, NextDetection
<1>6. CASE Requeue \/ Enqueue
  <2>1. Silent
    BY <1>6 DEF Requeue, Enqueue, Fresh, Disciplined, HasAction
  <2> QED
    BY <2>1, SilentStutters
<1>7. CASE DispatchEffect
  <2>1. acting \in Action /\ applied[acting] = 0 /\ status[acting] \in Passed
    BY <1>7 DEF DispatchEffect, Fresh, Sorted, Disciplined, HasAction
  <2>2. VerdictOf(acting) \in {"automatic", "authorised"}
    BY <2>1 DEF Passed
  <2>3. applied' = [applied EXCEPT ![acting] = 1] /\ UNCHANGED <<status, row>>
    BY <1>7, <2>1 DEF DispatchEffect, Apply
  <2> QED
    BY <2>1, <2>2, <2>3, EffectStep
<1>8. CASE DispatchFails \/ DispatchFlag \/ DispatchNotice
  BY <1>8, SilentStutters DEF DispatchFails, DispatchFlag, DispatchNotice
<1>9. CASE ConfirmEffect
  <2>1. Silent
    BY <1>9 DEF ConfirmEffect, Fresh, Disciplined, HasAction, Passed
  <2> QED
    BY <2>1, SilentStutters
<1>10. CASE CloseAction
  <2>1. Silent
    BY <1>10 DEF CloseAction, Fresh, Sorted, Disciplined, HasAction, Passed
  <2> QED
    BY <2>1, SilentStutters
<1>11. ASSUME NEW r \in Request, NEW a \in Action, Approve(r, a) \/ Reject(r, a) \/ Override(r, a)
       PROVE ContractStep
  <2>1. CASE Approve(r, a)
    <3>1. /\ VerdictOf(a) = "awaiting" /\ VerdictOf(a)' = "authorised"
          /\ UNCHANGED applied /\ \A b \in Action \ {a} : VerdictOf(b)' = VerdictOf(b)
      BY <2>1 DEF Approve, Sorted
    <3> QED
      BY <3>1, VerdictStep
  <2>2. CASE Reject(r, a)
    <3>1. /\ VerdictOf(a) = "awaiting" /\ VerdictOf(a)' = "refused"
          /\ UNCHANGED applied /\ \A b \in Action \ {a} : VerdictOf(b)' = VerdictOf(b)
      BY <2>2 DEF Reject
    <3> QED
      BY <3>1, VerdictStep
  <2>3. CASE Override(r, a)
    BY <2>3, SilentStutters DEF Override
  <2> QED
    BY <1>11, <2>1, <2>2, <2>3
<1>12. ASSUME NEW r \in Request, RequestStep(r)
       PROVE ContractStep
  <2> USE DEF Goto, Return
  <2>1. CASE RecordApproval(r) \/ Dequeue(r)
    BY <2>1, SilentStutters DEF RecordApproval, Dequeue
  <2>2. CASE ExecuteApproved(r)
    <3>1. PICK a \in Action : a = about[r] /\ r \in InFlight(a)
      BY <2>2 DEF ExecuteApproved, Goto, Fresh, InFlight
    <3>2. AboveLimit(a) /\ status[a] \in Passed
      BY <2>2, <3>1 DEF ExecuteApproved, Goto, Sorted, Disciplined
    <3>3. Cardinality(InFlight(a)) # 0
      BY <3>1, InFlightIsFinite, FS_EmptySet
    <3>4. applied[a] + Cardinality(InFlight(a)) <= approvals[a]
      BY <3>2 DEF Gated
    <3>5. approvals[a] <= 1
      BY DEF Disciplined, DecidedOnce
    <3>6. applied[a] = 0
      BY <3>3, <3>4, <3>5, InFlightIsFinite
    <3>7. VerdictOf(a) \in {"automatic", "authorised"}
      BY <3>2 DEF Passed
    <3>8. applied' = [applied EXCEPT ![a] = 1] /\ UNCHANGED <<status, row>>
      BY <2>2, <3>1, <3>6 DEF ExecuteApproved, Apply
    <3> QED
      BY <3>6, <3>7, <3>8, EffectStep
  <2>3. CASE ExecuteFails(r) \/ ExecuteNothing(r)
    BY <2>3, SilentStutters DEF ExecuteFails, ExecuteNothing
  <2>4. CASE ConfirmApproved(r) \/ CompleteApproved(r) \/ FailApproved(r) \/ MarkOverridden(r)
    <3>1. PICK s \in Passed : status' = [status EXCEPT ![about[r]] = s]
      BY <2>4 DEF ConfirmApproved, CompleteApproved, FailApproved, MarkOverridden, SetStatus, Passed
    <3>2. status[about[r]] \in Passed
      BY <2>4 DEF ConfirmApproved, CompleteApproved, FailApproved, MarkOverridden, Disciplined
    <3>3. UNCHANGED <<row, applied>>
      BY <2>4 DEF ConfirmApproved, CompleteApproved, FailApproved, MarkOverridden
    <3>4. Silent
      BY <3>1, <3>2, <3>3 DEF Passed
    <3> QED
      BY <3>4, SilentStutters
  <2>5. CASE Undo(r)
    BY <2>5, SilentStutters DEF Undo
  <2>6. CASE UndoFails(r) \/ UndoNothing(r)
    BY <2>6, SilentStutters DEF UndoFails, UndoNothing
  <2>7. CASE RelabelAnomaly(r)
    BY <2>7, SilentStutters DEF RelabelAnomaly
  <2> QED
    BY <1>12, <2>1, <2>2, <2>3, <2>4, <2>5, <2>6, <2>7 DEF RequestStep
<1>13. ASSUME NEW e \in Entity, HoldByHand(e) \/ ReleaseByHand(e)
       PROVE ContractStep
  BY <1>13, SilentStutters DEF HoldByHand, ReleaseByHand, SetEntity
<1>14. CASE AutoRelease
  BY <1>14, SilentStutters DEF AutoRelease
<1>15. ASSUME NEW n \in Anomaly, PatchAnomaly(n)
       PROVE ContractStep
  BY <1>15, SilentStutters DEF PatchAnomaly
<1>16. CASE Crash
  BY <1>16, SilentStutters DEF Crash, Fault
<1>17. CASE UNCHANGED vars
  BY <1>17, SilentStutters DEF vars
<1>18. CASE StatementFails \/ HandlerFails
  BY <1>18, SilentStutters DEF StatementFails, HandlerFails, NextDetection, Fault
<1>19. ASSUME NEW r \in Request, RequestFails(r)
       PROVE  ContractStep
  BY <1>19, SilentStutters DEF RequestFails, Goto, Return, Fault
<1> QED
  BY <1>1, <1>2, <1>3, <1>4, <1>5, <1>6, <1>7, <1>8, <1>9, <1>10, <1>11, <1>12,
     <1>13, <1>14, <1>15, <1>16, <1>17, <1>18, <1>19 DEF Next, ConsumerStep, FaultStep

\* Consumer, handlers, faults and manual edits together implement the contract.
THEOREM LifecycleImplementsContract == ASSUME ReviewFromQueue PROVE Spec => ImplementsContract
<1>1. Init => Abstract!ContractInit
  BY DEF Init, Abstract!ContractInit, VerdictOf
<1>2. TypeOK /\ Fresh /\ Sorted /\ Gated /\ (ReviewFromQueue => Disciplined) /\ [Next]_vars
        => [Abstract!ContractNext]_<<[a \in Action |-> VerdictOf(a)], applied>>
  BY Simulation DEF ContractStep, Verdicts
<1> QED
  BY <1>1, <1>2, TypesHold, FreshHolds, SortedHolds, GatedHolds, DisciplinedHolds, PTL
     DEF Spec, ImplementsContract, Abstract!Contract
----------------------------------------------------------------------------
(* What the contract is worth.                                             *)

\* An action has no effect before its verdict, and a refused one never has any.
NoEffectUnauthorised ==
  \A a \in Action : VerdictOf(a) \in {"absent", "awaiting", "refused"} => applied[a] = 0

\* The contract's own invariant.
Kept == AppliedOnce /\ NoEffectUnauthorised /\ applied \in [Action -> Nat]

LEMMA ContractKeeps == Kept /\ ContractStep => Kept' /\ RejectedStays
<1> SUFFICES ASSUME Kept, ContractStep PROVE Kept' /\ RejectedStays
  OBVIOUS
<1> USE DEF Kept, AppliedOnce, NoEffectUnauthorised, RejectedStays
<1>1. \A a \in Action : Verdicts[a] = VerdictOf(a) /\ (VerdictOf(a) = "refused" <=> status[a] = "rejected")
  BY DEF Verdicts, VerdictOf
<1>2. \A a \in Action : Verdicts'[a] = VerdictOf(a)' /\ (VerdictOf(a)' = "refused" <=> status'[a] = "rejected")
  BY DEF Verdicts, VerdictOf
<1> HIDE DEF VerdictOf
<1>3. CASE UNCHANGED <<Verdicts, applied>>
  BY <1>1, <1>2, <1>3
<1>4. ASSUME NEW a \in Action, NEW to \in {"automatic", "awaiting", "authorised", "refused"},
             Verdicts[a] \in {"absent", "awaiting"},
             Verdicts' = [Verdicts EXCEPT ![a] = to], UNCHANGED applied
      PROVE  Kept' /\ RejectedStays
  <2>1. \A b \in Action : Verdicts'[b] = IF b = a THEN to ELSE Verdicts[b]
    BY <1>4 DEF Verdicts
  <2>2. applied'[a] = 0
    BY <1>1, <1>4
  <2> QED
    BY <1>1, <1>2, <1>4, <2>1, <2>2
<1>5. ASSUME NEW a \in Action, Abstract!Perform(a)
      PROVE  Kept' /\ RejectedStays
  <2>1. /\ Verdicts[a] \in {"automatic", "authorised"}
        /\ applied' = [applied EXCEPT ![a] = 1]
        /\ Verdicts' = Verdicts
    BY <1>5 DEF Abstract!Perform, Verdicts
  <2> QED
    BY <1>1, <1>2, <2>1
<1>6. CASE Abstract!ContractNext
  <2>1. PICK a \in Action : Abstract!Propose(a) \/ Abstract!Authorise(a) \/ Abstract!Refuse(a) \/ Abstract!Perform(a)
    BY <1>6 DEF Abstract!ContractNext
  <2>2. CASE Abstract!Propose(a) \/ Abstract!Authorise(a) \/ Abstract!Refuse(a)
    <3>1. PICK from \in {"absent", "awaiting"}, to \in {"automatic", "awaiting", "authorised", "refused"} :
             Abstract!Decide(a, from, to)
      BY <2>2 DEF Abstract!Propose, Abstract!Authorise, Abstract!Refuse
    <3>2. Verdicts[a] = from /\ Verdicts' = [Verdicts EXCEPT ![a] = to] /\ UNCHANGED applied
      BY <3>1 DEF Abstract!Decide, Verdicts
    <3> QED
      BY <1>4, <3>2
  <2> QED
    BY <1>5, <2>1, <2>2
<1> QED
  BY <1>3, <1>6 DEF ContractStep

\* Whatever implements the contract applies no action twice, nor one that waits
\* for its verdict or was refused it, and lets no rejection be taken back.
THEOREM ContractMeans ==
  ImplementsContract => [](AppliedOnce /\ NoEffectUnauthorised) /\ RejectedIsFinal
<1>1. Abstract!ContractInit => Kept
  BY DEF Abstract!ContractInit, Kept, AppliedOnce, NoEffectUnauthorised
<1>2. Kept /\ [Abstract!ContractNext]_<<[a \in Action |-> VerdictOf(a)], applied>>
        => Kept' /\ [RejectedStays]_vars
  BY ContractKeeps DEF ContractStep, Verdicts
<1>3. Kept => AppliedOnce /\ NoEffectUnauthorised
  BY DEF Kept
<1>4. [][RejectedStays]_vars => RejectedIsFinal
  BY PTL DEF RejectedIsFinal, RejectedStays
<1> QED
  BY <1>1, <1>2, <1>3, <1>4, PTL DEF ImplementsContract, Abstract!Contract

----------------------------------------------------------------------------
(* What a fault can leave half done.                                       *)

\* What the coroutines have in hand, and lose when the process dies or their
\* statement fails.
Hands == {acting} \cup {about[r] : r \in Request}

LEMMA HandsAreFew ==
  ASSUME TypeOK
  PROVE  IsFiniteSet(Hands) /\ Cardinality(Hands) <= InOneFault
<1> DEFINE T == {about[r] : r \in Request}
<1>1. about \in Surjection(Request, T)
  BY DEF TypeOK, Surjection
<1>2. IsFiniteSet(T) /\ Cardinality(T) <= Cardinality(Request)
  BY <1>1, RequestsAreFinite, FS_Surjection
<1>3. T \cup {acting} = Hands
  BY DEF Hands
<1> HIDE DEF T
<1>4. /\ IsFiniteSet(T \cup {acting})
      /\ Cardinality(T \cup {acting}) = IF acting \in T THEN Cardinality(T) ELSE Cardinality(T) + 1
  BY <1>2, FS_AddElement
<1>5. Cardinality(T) \in Nat /\ Cardinality(Request) \in Nat
  BY <1>2, RequestsAreFinite, FS_CardinalityType
<1>6. Cardinality(T \cup {acting}) <= Cardinality(Request) + 1
  BY <1>2, <1>4, <1>5
<1> QED
  BY <1>3, <1>4, <1>6 DEF InOneFault

\* Faults are counted one by one, and nothing else is counted.
LEMMA FaultsCount == [Next]_vars => faults' = faults \/ (FaultStep /\ faults' = faults + 1)
<1> SUFFICES ASSUME [Next]_vars PROVE faults' = faults \/ (FaultStep /\ faults' = faults + 1)
  OBVIOUS
<1>1. CASE Scan \/ AutoRelease \/ UNCHANGED vars
  BY <1>1 DEF Scan, AutoRelease, vars
<1>2. CASE ConsumerStep
  BY <1>2 DEF ConsumerStep, PersistAnomaly, FinishTask, Decline, PersistAction, QueueingFails,
              Requeue, Enqueue, DispatchEffect, DispatchFails, DispatchFlag, DispatchNotice,
              ConfirmEffect, CloseAction, MarkAnomaly
<1>3. ASSUME NEW r \in Request, NEW a \in Action, Approve(r, a) \/ Reject(r, a) \/ Override(r, a)
      PROVE faults' = faults
  BY <1>3 DEF Approve, Reject, Override
<1>4. ASSUME NEW r \in Request, RequestStep(r) PROVE faults' = faults
  BY <1>4 DEF RequestStep, RecordApproval, ExecuteApproved, ExecuteFails, ExecuteNothing,
              ConfirmApproved, CompleteApproved, FailApproved, Dequeue, Undo, UndoFails,
              UndoNothing, MarkOverridden, RelabelAnomaly
<1>5. CASE \/ \E n \in Anomaly : PatchAnomaly(n)
           \/ \E e \in Entity : HoldByHand(e) \/ ReleaseByHand(e)
  BY <1>5 DEF PatchAnomaly, HoldByHand, ReleaseByHand, SetEntity
<1>6. CASE FaultStep
  <2>1. faults' = faults + 1
    BY <1>6 DEF FaultStep, StatementFails, HandlerFails, RequestFails, Crash, Fault
  <2> QED
    BY <1>6, <2>1
<1> QED
  BY <1>1, <1>2, <1>3, <1>4, <1>5, <1>6 DEF Next

\* A fault writes no row.
LEMMA FaultsWriteNothing == FaultStep => UNCHANGED <<table, logs, entity, history>>
BY DEF FaultStep, StatementFails, HandlerFails, RequestFails, Crash

\* Damage that only faults do, and only to what is in hand, is bounded by the
\* faults: S is the damage before a step and T the damage after it.
LEMMA DamageIsCounted ==
  ASSUME TypeOK, [Next]_vars, NEW S, NEW T,
         IsFiniteSet(S), Cardinality(S) <= faults * InOneFault,
         faults' = faults => T \subseteq S,
         FaultStep => T \subseteq S \cup Hands
  PROVE  IsFiniteSet(T) /\ Cardinality(T) <= faults' * InOneFault
<1>1. faults \in Nat /\ InOneFault \in Nat /\ Cardinality(S) \in Nat
  BY RequestsAreFinite, FS_CardinalityType, ParametersOK DEF TypeOK, InOneFault
<1>2. CASE faults' = faults
  <2>1. IsFiniteSet(T) /\ Cardinality(T) <= Cardinality(S)
    BY <1>2, FS_Subset
  <2>2. Cardinality(T) \in Nat
    BY <2>1, FS_CardinalityType
  <2> QED
    BY <1>1, <1>2, <2>1, <2>2
<1>3. CASE FaultStep /\ faults' = faults + 1
  <2>1. IsFiniteSet(Hands) /\ Cardinality(Hands) <= InOneFault
    BY HandsAreFew
  <2>2. /\ IsFiniteSet(S \cup Hands)
        /\ Cardinality(S \cup Hands)
             = Cardinality(S) + Cardinality(Hands) - Cardinality(S \cap Hands)
    BY <2>1, FS_Union
  <2>3. IsFiniteSet(T) /\ Cardinality(T) <= Cardinality(S \cup Hands)
    BY <1>3, <2>2, FS_Subset
  <2>4. IsFiniteSet(S \cap Hands)
    BY FS_Intersection
  <2>5. Cardinality(Hands) \in Nat /\ Cardinality(S \cap Hands) \in Nat /\ Cardinality(T) \in Nat
    BY <2>1, <2>3, <2>4, FS_CardinalityType
  <2> HIDE DEF Hands, InOneFault
  <2>6. Cardinality(T) <= faults * InOneFault + InOneFault
    <3> DEFINE d == faults * InOneFault
    <3>1. d \in Nat
      BY <1>1
    <3> HIDE DEF d
    <3> QED
      BY <1>1, <2>1, <2>2, <2>3, <2>5, <3>1 DEF d
  <2>7. \A c, q \in Nat : c * q + q = (c + 1) * q
    OBVIOUS
  <2>8. faults' = faults + 1
    BY <1>3
  <2> QED
    BY <1>1, <2>3, <2>6, <2>7, <2>8
<1> QED
  BY <1>2, <1>3, FaultsCount
=============================================================================
