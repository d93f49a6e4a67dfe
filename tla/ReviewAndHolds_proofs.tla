----------------------- MODULE ReviewAndHolds_proofs -----------------------
(***************************************************************************)
(* More theorems about ActionLifecycle: what an override leaves behind,    *)
(* the approval queue beside the table of actions, and the holds on one    *)
(* invoice.                                                                *)
(***************************************************************************)
EXTENDS ActionLifecycle_proofs

----------------------------------------------------------------------------
(* Overrides.                                                              *)

\* A request that is about to mark an action overridden has undone it, if it
\* can be undone.
RolledBack ==
  /\ OverriddenIsUndone
  /\ \A r \in Request :
       rpc[r] = "override" /\ row[about[r]].kind \in Restorable => undone[about[r]] > 0

\* Every step keeps that, one case per action.
LEMMA RolledBackStep == TypeOK /\ Fresh /\ RolledBack /\ [Next]_vars => RolledBack'
<1> SUFFICES ASSUME TypeOK, Fresh, RolledBack, [Next]_vars
             PROVE  RolledBack'
  OBVIOUS
<1> USE DEF TypeOK, Fresh, RolledBack, OverriddenIsUndone, HasAction,
          table, logs, consumer, requests, history
<1>1. CASE Scan
  BY <1>1 DEF Scan
<1>2. CASE PersistAnomaly
  BY <1>2 DEF PersistAnomaly
<1>3. CASE PersistAction
  BY <1>3 DEF PersistAction, FreeActions
<1>4. CASE FinishTask
  BY <1>4 DEF FinishTask
<1>5. CASE Decline \/ QueueingFails \/ MarkAnomaly
  BY <1>5 DEF Decline, QueueingFails, MarkAnomaly, NextDetection
<1>6. CASE Requeue \/ Enqueue
  BY <1>6 DEF Requeue, Enqueue
<1>7. CASE DispatchEffect
  BY <1>7 DEF DispatchEffect, Apply
<1>8. CASE DispatchFails \/ DispatchFlag \/ DispatchNotice
  BY <1>8 DEF DispatchFails, DispatchFlag, DispatchNotice
<1>9. CASE ConfirmEffect
  BY <1>9 DEF ConfirmEffect
<1>10. CASE CloseAction
  BY <1>10 DEF CloseAction
<1>11. ASSUME NEW r \in Request, NEW a \in Action, Approve(r, a) \/ Reject(r, a) \/ Override(r, a)
       PROVE  RolledBack'
  BY <1>11 DEF Approve, Reject, Override, Goto
<1>12. ASSUME NEW r \in Request, RequestStep(r)
       PROVE  RolledBack'
  <2> USE DEF Goto, Return
  <2>1. CASE RecordApproval(r) \/ Dequeue(r)
    BY <2>1 DEF RecordApproval, Dequeue
  <2>2. CASE ExecuteApproved(r)
    BY <2>2 DEF ExecuteApproved, Apply
  <2>3. CASE ExecuteFails(r) \/ ExecuteNothing(r)
    BY <2>3 DEF ExecuteFails, ExecuteNothing
  <2>4. CASE ConfirmApproved(r) \/ CompleteApproved(r) \/ FailApproved(r) \/ MarkOverridden(r)
    BY <2>4 DEF ConfirmApproved, CompleteApproved, FailApproved, MarkOverridden, SetStatus
  <2>5. CASE Undo(r)
    BY <2>5 DEF Undo
  <2>6. CASE UndoFails(r) \/ UndoNothing(r)
    BY <2>6 DEF UndoFails, UndoNothing
  <2>7. CASE RelabelAnomaly(r)
    BY <2>7 DEF RelabelAnomaly
  <2> QED
    BY <1>12, <2>1, <2>2, <2>3, <2>4, <2>5, <2>6, <2>7 DEF RequestStep
<1>13. ASSUME NEW e \in Entity, HoldByHand(e) \/ ReleaseByHand(e)
       PROVE  RolledBack'
  BY <1>13 DEF HoldByHand, ReleaseByHand, SetEntity
<1>14. CASE AutoRelease
  BY <1>14 DEF AutoRelease
<1>15. ASSUME NEW n \in Anomaly, PatchAnomaly(n)
       PROVE  RolledBack'
  BY <1>15 DEF PatchAnomaly
<1>16. CASE Crash
  BY <1>16 DEF Crash, Fault
<1>17. CASE UNCHANGED vars
  BY <1>17 DEF vars
<1>18. CASE StatementFails \/ HandlerFails
  BY <1>18 DEF StatementFails, HandlerFails, NextDetection, Fault
<1>19. ASSUME NEW r \in Request, RequestFails(r)
       PROVE  RolledBack'
  BY <1>19 DEF RequestFails, Goto, Return, Fault
<1> QED
  BY <1>1, <1>2, <1>3, <1>4, <1>5, <1>6, <1>7, <1>8, <1>9, <1>10, <1>11, <1>12,
     <1>13, <1>14, <1>15, <1>16, <1>17, <1>18, <1>19 DEF Next, ConsumerStep, FaultStep

\* "overridden" means undone, for every kind of action that can be undone,
\* although any number of requests, releases and faults come in between.
THEOREM OverrideUndoes == Spec => []OverriddenIsUndone
<1>1. Init => RolledBack
  BY DEF Init, RolledBack, OverriddenIsUndone
<1>2. RolledBack => OverriddenIsUndone
  BY DEF RolledBack
<1> QED
  BY <1>1, <1>2, RolledBackStep, TypesHold, FreshHolds, PTL DEF Spec
----------------------------------------------------------------------------
(* The approval queue.                                                     *)

\* A request that still owes the DELETE has rejected its action.
Owing == \A r \in Request : rpc[r] = "dequeue" => rejections[about[r]] > 0

LEMMA OwingStep == TypeOK /\ Fresh /\ Owing /\ [Next]_vars => Owing'
<1> SUFFICES ASSUME TypeOK, Fresh, Owing, [Next]_vars PROVE Owing'
  OBVIOUS
<1> USE DEF TypeOK, Fresh, Owing, table, logs, consumer, requests, history
<1>1. CASE Scan \/ ConsumerStep
  BY <1>1 DEF Scan, ConsumerStep, PersistAnomaly, FinishTask, Decline, PersistAction,
              QueueingFails, Requeue, Enqueue, DispatchEffect, DispatchFails, DispatchFlag,
              DispatchNotice, ConfirmEffect, CloseAction, MarkAnomaly, Apply
<1>2. ASSUME NEW r \in Request, NEW a \in Action, Approve(r, a) \/ Reject(r, a) \/ Override(r, a)
      PROVE Owing'
  BY <1>2 DEF Approve, Reject, Override, Goto
<1>3. ASSUME NEW r \in Request, RequestStep(r)
      PROVE Owing'
  <2> USE DEF Goto, Return
  <2>1. CASE RecordApproval(r) \/ ExecuteApproved(r) \/ ExecuteFails(r) \/ ExecuteNothing(r)
    BY <2>1 DEF RecordApproval, ExecuteApproved, Apply, ExecuteFails, ExecuteNothing
  <2>2. CASE ConfirmApproved(r) \/ CompleteApproved(r) \/ FailApproved(r) \/ Dequeue(r)
    BY <2>2 DEF ConfirmApproved, CompleteApproved, FailApproved, Dequeue
  <2>3. CASE Undo(r) \/ UndoFails(r) \/ UndoNothing(r) \/ MarkOverridden(r) \/ RelabelAnomaly(r)
    BY <2>3 DEF Undo, UndoFails, UndoNothing, MarkOverridden, RelabelAnomaly
  <2> QED
    BY <1>3, <2>1, <2>2, <2>3 DEF RequestStep
<1>4. CASE \/ AutoRelease \/ UNCHANGED vars \/ \E n \in Anomaly : PatchAnomaly(n)
           \/ \E e \in Entity : HoldByHand(e) \/ ReleaseByHand(e)
  BY <1>4 DEF AutoRelease, vars, PatchAnomaly, HoldByHand, ReleaseByHand, SetEntity
<1>5. CASE FaultStep
  BY <1>5 DEF FaultStep, StatementFails, HandlerFails, RequestFails, Crash, Goto, Return
<1> QED
  BY <1>1, <1>2, <1>3, <1>4, <1>5 DEF Next

\* Without a fault, and with details that are an object, no step parts the row of an action from its row in
\* the queue, one case per action.
LEMMA MirrorStep ==
  ASSUME ReviewFromQueue, TypeOK, Fresh, Sorted, Disciplined, Owing, [Next]_vars,
         faults' = faults, NEW b \in Action, Mirrors(b) \/ row[b].ref = "malformed"
  PROVE  Mirrors(b)' \/ row'[b].ref = "malformed"
<1> USE DEF TypeOK, Fresh, Sorted, Disciplined, Owing, Mirrors, MidReview,
          HasAction, Passed, table, logs, consumer, requests, history
<1>1. CASE Scan
  BY <1>1 DEF Scan
<1>2. CASE PersistAnomaly
  BY <1>2 DEF PersistAnomaly
<1>3. CASE PersistAction
  BY <1>3 DEF PersistAction, FreeActions
<1>4. CASE FinishTask
  BY <1>4 DEF FinishTask
<1>5. CASE Decline \/ QueueingFails \/ MarkAnomaly
  BY <1>5 DEF Decline, QueueingFails, MarkAnomaly, NextDetection
<1>6. CASE Requeue \/ Enqueue
  BY <1>6 DEF Requeue, Enqueue
<1>7. CASE DispatchEffect
  BY <1>7 DEF DispatchEffect, Apply
<1>8. CASE DispatchFails \/ DispatchFlag \/ DispatchNotice
  BY <1>8 DEF DispatchFails, DispatchFlag, DispatchNotice
<1>9. CASE ConfirmEffect
  BY <1>9 DEF ConfirmEffect
<1>10. CASE CloseAction
  BY <1>10 DEF CloseAction
<1>11. ASSUME NEW r \in Request, NEW a \in Action, Approve(r, a) \/ Reject(r, a) \/ Override(r, a)
       PROVE  Mirrors(b)' \/ row'[b].ref = "malformed"
  BY <1>11 DEF Approve, Reject, Override, Goto
<1>12. ASSUME NEW r \in Request, RequestStep(r)
       PROVE  Mirrors(b)' \/ row'[b].ref = "malformed"
  <2> USE DEF Goto, Return
  <2>1. CASE RecordApproval(r) \/ Dequeue(r)
    BY <2>1 DEF RecordApproval, Dequeue
  <2>2. CASE ExecuteApproved(r)
    BY <2>2 DEF ExecuteApproved, Apply
  <2>3. CASE ExecuteFails(r) \/ ExecuteNothing(r)
    BY <2>3 DEF ExecuteFails, ExecuteNothing
  <2>4. CASE ConfirmApproved(r) \/ CompleteApproved(r) \/ FailApproved(r) \/ MarkOverridden(r)
    BY <2>4 DEF ConfirmApproved, CompleteApproved, FailApproved, MarkOverridden, SetStatus
  <2>5. CASE Undo(r)
    BY <2>5 DEF Undo
  <2>6. CASE UndoFails(r) \/ UndoNothing(r)
    BY <2>6 DEF UndoFails, UndoNothing
  <2>7. CASE RelabelAnomaly(r)
    BY <2>7 DEF RelabelAnomaly
  <2> QED
    BY <1>12, <2>1, <2>2, <2>3, <2>4, <2>5, <2>6, <2>7 DEF RequestStep
<1>13. ASSUME NEW e \in Entity, HoldByHand(e) \/ ReleaseByHand(e)
       PROVE  Mirrors(b)' \/ row'[b].ref = "malformed"
  BY <1>13 DEF HoldByHand, ReleaseByHand, SetEntity
<1>14. CASE AutoRelease
  BY <1>14 DEF AutoRelease
<1>15. ASSUME NEW n \in Anomaly, PatchAnomaly(n)
       PROVE  Mirrors(b)' \/ row'[b].ref = "malformed"
  BY <1>15 DEF PatchAnomaly
<1>16. CASE Crash
  BY <1>16, ParametersOK DEF Crash, Fault
<1>17. CASE UNCHANGED vars
  BY <1>17 DEF vars
<1>18. CASE StatementFails \/ HandlerFails
  BY <1>18, ParametersOK DEF StatementFails, HandlerFails, NextDetection, Fault
<1>19. ASSUME NEW r \in Request, RequestFails(r)
       PROVE  Mirrors(b)' \/ row'[b].ref = "malformed"
  BY <1>19, ParametersOK DEF RequestFails, Goto, Return, Fault
<1> QED
  BY <1>1, <1>2, <1>3, <1>4, <1>5, <1>6, <1>7, <1>8, <1>9, <1>10, <1>11, <1>12,
     <1>13, <1>14, <1>15, <1>16, <1>17, <1>18, <1>19 DEF Next, ConsumerStep, FaultStep


\* The rows that are not of one mind with the queue, though it could have them.
Torn == {a \in Action : ~Mirrors(a) /\ row[a].ref # "malformed"}

\* A fault tears only what is in hand: the rest was of one mind already.
LEMMA FaultTears == ASSUME TypeOK, FaultStep PROVE Torn' \subseteq Torn \cup Hands
<1> SUFFICES ASSUME NEW a \in Action, ~Mirrors(a)', Mirrors(a)
             PROVE  a = acting \/ \E r \in Request : about[r] = a
  BY FaultsWriteNothing DEF Torn, Hands, table
<1>1. status' = status /\ queue' = queue
  BY FaultsWriteNothing DEF table
<1> QED
  BY <1>1 DEF Mirrors, MidReview

\* QueueMirrorsActions, inductively.
Mirrored == Owing /\ IsFiniteSet(Torn) /\ QueueMirrorsActions

LEMMA MirroredStep ==
  ReviewFromQueue /\ TypeOK /\ Fresh /\ Sorted /\ Disciplined /\ Mirrored /\ [Next]_vars => Mirrored'
<1> SUFFICES ASSUME ReviewFromQueue, TypeOK, Fresh, Sorted, Disciplined, Mirrored, [Next]_vars
             PROVE  Mirrored'
  OBVIOUS
<1>1. faults' = faults => Torn' \subseteq Torn
  BY MirrorStep DEF Mirrored, Torn
<1>2. FaultStep => Torn' \subseteq Torn \cup Hands
  BY FaultTears
<1>3. IsFiniteSet(Torn') /\ Cardinality(Torn') <= faults' * InOneFault
  BY <1>1, <1>2, DamageIsCounted DEF Mirrored, QueueMirrorsActions, Torn
<1> QED
  BY <1>3, OwingStep DEF Mirrored, QueueMirrorsActions, Torn, InOneFault

\* While reviewers act on the queue, it shows them what waits for them and
\* nothing else, but for the moment between two writes, for what a fault caught
\* in that moment, and for actions whose details enqueue_for_approval cannot
\* unpack: for any number of actions, reviewers and faults.
THEOREM QueueIsMirror == Spec => [](ReviewFromQueue => QueueMirrorsActions)
<1>1. Init => Mirrored
  <2> SUFFICES ASSUME Init PROVE Mirrored
    OBVIOUS
  <2>1. Torn = {}
    BY DEF Init, Torn, Mirrors
  <2>2. InOneFault \in Nat
    BY RequestsAreFinite, FS_CardinalityType DEF InOneFault
  <2>3. Owing
    BY DEF Init, Owing
  <2>4. faults = 0
    BY DEF Init
  <2> QED
    BY <2>1, <2>2, <2>3, <2>4, FS_EmptySet DEF Mirrored, QueueMirrorsActions, Torn
<1> DEFINE Guarded == ReviewFromQueue => Mirrored
<1>2. /\ TypeOK /\ Fresh /\ Sorted /\ (ReviewFromQueue => Disciplined) /\ Guarded /\ [Next]_vars
        => Guarded'
  <2> SUFFICES ASSUME TypeOK, Fresh, Sorted, Disciplined, Mirrored, [Next]_vars, ReviewFromQueue
               PROVE  Mirrored'
    OBVIOUS
  <2> QED
    BY MirroredStep
<1>3. Guarded => (ReviewFromQueue => QueueMirrorsActions)
  BY DEF Mirrored
<1> QED
  BY <1>1, <1>2, <1>3, TypesHold, FreshHolds, SortedHolds, DisciplinedHolds, PTL DEF Spec

----------------------------------------------------------------------------
(* The holds on one invoice.                                               *)

Open(a) == status[a] \in {"success", "pending_approval", "approved"} /\ row[a].kind = "payment_hold"
Subject(a) == subject[row[a].anomaly]

\* The anomaly of an action, and the one being handled, are rows.
Logged ==
  /\ \A a \in Action : status[a] # "absent" =>
       row[a].anomaly \in Anomaly /\ anomaly[row[a].anomaly] # "absent"
  /\ cpc = "decide" => anomaly[logged] # "absent" /\ subject[logged] = detected

\* No approved hold gets as far as its success.
NeverRuns ==
  \A r \in Request :
    rpc[r] \in {"confirm", "complete"} => row[about[r]].kind # "payment_hold"

\* What may be or become an open hold for the duplicate i: an open one, or the
\* action in hand; a detection still to be handled; and the one being handled.
Held(i) == {a \in Action : Subject(a) = Duplicate(i) /\ (Open(a) \/ (cpc \in HasAction /\ a = acting))}
Claims(i) ==
  {<<"hold", a>> : a \in Held(i)}
    \cup {<<"found", d>> : d \in {x \in batch : x[2] = Duplicate(i)}}
    \cup {<<"now", f>> : f \in {x \in {detected} : cpc = "decide" /\ x = Duplicate(i)}}

\* The pairs whose later invoice is i, as the duplicate scan reports them.
Originals(i) == {p \in Pair : p[2] = i}
Reports(i) == {<<"found", <<p[1], Duplicate(i)>>>> : p \in Originals(i)}

\* There are no more claims than originals.
Claimed ==
  \A i \in Invoice : IsFiniteSet(Claims(i)) /\ Cardinality(Claims(i)) <= Cardinality(Originals(i))

\* Every step keeps that.
LEMMA LoggedStep == TypeOK /\ LocalsOK /\ Fresh /\ Logged /\ [Next]_vars => Logged'
<1> SUFFICES ASSUME TypeOK, LocalsOK, Fresh, Logged, [Next]_vars
             PROVE  Logged'
  OBVIOUS
<1> USE DEF TypeOK, LocalsOK, Fresh, Logged, HasAction, table, logs, consumer, requests, history
<1>1. CASE Scan
  BY <1>1 DEF Scan
<1>2. CASE PersistAnomaly
  BY <1>2 DEF PersistAnomaly, Reusable, FreeAnomalies
<1>3. CASE PersistAction
  BY <1>3 DEF PersistAction, FreeActions
<1>4. CASE FinishTask
  BY <1>4 DEF FinishTask
<1>5. CASE Decline \/ QueueingFails \/ MarkAnomaly
  BY <1>5 DEF Decline, QueueingFails, MarkAnomaly, NextDetection
<1>6. CASE Requeue \/ Enqueue
  BY <1>6 DEF Requeue, Enqueue
<1>7. CASE DispatchEffect
  BY <1>7 DEF DispatchEffect, Apply
<1>8. CASE DispatchFails \/ DispatchFlag \/ DispatchNotice
  BY <1>8 DEF DispatchFails, DispatchFlag, DispatchNotice, FreeAnomalies
<1>9. CASE ConfirmEffect
  BY <1>9 DEF ConfirmEffect
<1>10. CASE CloseAction
  BY <1>10 DEF CloseAction
<1>11. ASSUME NEW r \in Request, NEW a \in Action, Approve(r, a) \/ Reject(r, a) \/ Override(r, a)
       PROVE  Logged'
  BY <1>11 DEF Approve, Reject, Override, Goto
<1>12. ASSUME NEW r \in Request, RequestStep(r)
       PROVE  Logged'
  <2> USE DEF Goto, Return
  <2>1. CASE RecordApproval(r) \/ Dequeue(r)
    BY <2>1 DEF RecordApproval, Dequeue
  <2>2. CASE ExecuteApproved(r)
    BY <2>2 DEF ExecuteApproved, Apply
  <2>3. CASE ExecuteFails(r) \/ ExecuteNothing(r)
    BY <2>3 DEF ExecuteFails, ExecuteNothing
  <2>4. CASE ConfirmApproved(r) \/ CompleteApproved(r) \/ FailApproved(r) \/ MarkOverridden(r)
    BY <2>4 DEF ConfirmApproved, CompleteApproved, FailApproved, MarkOverridden, SetStatus
  <2>5. CASE Undo(r)
    BY <2>5 DEF Undo
  <2>6. CASE UndoFails(r) \/ UndoNothing(r)
    BY <2>6 DEF UndoFails, UndoNothing
  <2>7. CASE RelabelAnomaly(r)
    BY <2>7 DEF RelabelAnomaly
  <2> QED
    BY <1>12, <2>1, <2>2, <2>3, <2>4, <2>5, <2>6, <2>7 DEF RequestStep
<1>13. ASSUME NEW e \in Entity, HoldByHand(e) \/ ReleaseByHand(e)
       PROVE  Logged'
  BY <1>13 DEF HoldByHand, ReleaseByHand, SetEntity
<1>14. CASE AutoRelease
  BY <1>14 DEF AutoRelease
<1>15. ASSUME NEW n \in Anomaly, PatchAnomaly(n)
       PROVE  Logged'
  BY <1>15, ParametersOK DEF PatchAnomaly
<1>16. CASE Crash
  BY <1>16 DEF Crash, Fault
<1>17. CASE UNCHANGED vars
  BY <1>17 DEF vars
<1>18. CASE StatementFails \/ HandlerFails
  BY <1>18 DEF StatementFails, HandlerFails, NextDetection, Fault
<1>19. ASSUME NEW r \in Request, RequestFails(r)
       PROVE  Logged'
  BY <1>19 DEF RequestFails, Goto, Return, Fault
<1> QED
  BY <1>1, <1>2, <1>3, <1>4, <1>5, <1>6, <1>7, <1>8, <1>9, <1>10, <1>11, <1>12,
     <1>13, <1>14, <1>15, <1>16, <1>17, <1>18, <1>19 DEF Next, ConsumerStep, FaultStep

LEMMA NeverRunsStep == ~JsonDecoded /\ TypeOK /\ Fresh /\ NeverRuns /\ [Next]_vars => NeverRuns'
<1> SUFFICES ASSUME ~JsonDecoded, TypeOK, Fresh, NeverRuns, [Next]_vars
             PROVE  NeverRuns'
  OBVIOUS
<1> USE DEF TypeOK, Fresh, NeverRuns, HasAction, Effectful, table, logs, consumer, requests, history
<1>1. CASE Scan
  BY <1>1 DEF Scan
<1>2. CASE PersistAnomaly
  BY <1>2 DEF PersistAnomaly
<1>3. CASE PersistAction
  BY <1>3 DEF PersistAction, FreeActions
<1>4. CASE FinishTask
  BY <1>4 DEF FinishTask
<1>5. CASE Decline \/ QueueingFails \/ MarkAnomaly
  BY <1>5 DEF Decline, QueueingFails, MarkAnomaly, NextDetection
<1>6. CASE Requeue \/ Enqueue
  BY <1>6 DEF Requeue, Enqueue
<1>7. CASE DispatchEffect
  BY <1>7 DEF DispatchEffect, Apply
<1>8. CASE DispatchFails \/ DispatchFlag \/ DispatchNotice
  BY <1>8 DEF DispatchFails, DispatchFlag, DispatchNotice
<1>9. CASE ConfirmEffect
  BY <1>9 DEF ConfirmEffect
<1>10. CASE CloseAction
  BY <1>10 DEF CloseAction
<1>11. ASSUME NEW r \in Request, NEW a \in Action, Approve(r, a) \/ Reject(r, a) \/ Override(r, a)
       PROVE  NeverRuns'
  BY <1>11 DEF Approve, Reject, Override, Goto
<1>12. ASSUME NEW r \in Request, RequestStep(r)
       PROVE  NeverRuns'
  <2> USE DEF Goto, Return
  <2>1. CASE RecordApproval(r) \/ Dequeue(r)
    BY <2>1 DEF RecordApproval, Dequeue
  <2>2. CASE ExecuteApproved(r)
    BY <2>2 DEF ExecuteApproved, Apply, Readable
  <2>3. CASE ExecuteFails(r) \/ ExecuteNothing(r)
    BY <2>3 DEF ExecuteFails, ExecuteNothing
  <2>4. CASE ConfirmApproved(r) \/ CompleteApproved(r) \/ FailApproved(r) \/ MarkOverridden(r)
    BY <2>4 DEF ConfirmApproved, CompleteApproved, FailApproved, MarkOverridden, SetStatus
  <2>5. CASE Undo(r)
    BY <2>5 DEF Undo
  <2>6. CASE UndoFails(r) \/ UndoNothing(r)
    BY <2>6 DEF UndoFails, UndoNothing
  <2>7. CASE RelabelAnomaly(r)
    BY <2>7 DEF RelabelAnomaly
  <2> QED
    BY <1>12, <2>1, <2>2, <2>3, <2>4, <2>5, <2>6, <2>7 DEF RequestStep
<1>13. ASSUME NEW e \in Entity, HoldByHand(e) \/ ReleaseByHand(e)
       PROVE  NeverRuns'
  BY <1>13 DEF HoldByHand, ReleaseByHand, SetEntity
<1>14. CASE AutoRelease
  BY <1>14 DEF AutoRelease
<1>15. ASSUME NEW n \in Anomaly, PatchAnomaly(n)
       PROVE  NeverRuns'
  BY <1>15 DEF PatchAnomaly
<1>16. CASE Crash
  BY <1>16 DEF Crash, Fault
<1>17. CASE UNCHANGED vars
  BY <1>17 DEF vars
<1>18. CASE StatementFails \/ HandlerFails
  BY <1>18 DEF StatementFails, HandlerFails, NextDetection, Fault
<1>19. ASSUME NEW r \in Request, RequestFails(r)
       PROVE  NeverRuns'
  BY <1>19 DEF RequestFails, Goto, Return, Fault
<1> QED
  BY <1>1, <1>2, <1>3, <1>4, <1>5, <1>6, <1>7, <1>8, <1>9, <1>10, <1>11, <1>12,
     <1>13, <1>14, <1>15, <1>16, <1>17, <1>18, <1>19 DEF Next, ConsumerStep, FaultStep

\* One invoice's claims stay within their number when none is added, when one
\* takes the place of another, and when a scan reports it afresh.
LEMMA FewerClaims ==
  ASSUME NEW S, NEW T, NEW x, NEW y, IsFiniteSet(S), x \in S, T \subseteq (S \ {x}) \cup {y}
  PROVE  IsFiniteSet(T) /\ Cardinality(T) <= Cardinality(S)
<1>1. IsFiniteSet(S \ {x}) /\ Cardinality(S \ {x}) = Cardinality(S) - 1
  BY FS_RemoveElement
<1>2. /\ IsFiniteSet((S \ {x}) \cup {y})
      /\ Cardinality((S \ {x}) \cup {y}) = IF y \in S \ {x} THEN Cardinality(S \ {x})
                                                            ELSE Cardinality(S \ {x}) + 1
  BY <1>1, FS_AddElement
<1>3. IsFiniteSet(T) /\ Cardinality(T) <= Cardinality((S \ {x}) \cup {y})
  BY <1>2, FS_Subset
<1>4. Cardinality(S) \in Nat /\ Cardinality(T) \in Nat
  BY <1>3, FS_CardinalityType
<1> QED
  BY <1>1, <1>2, <1>3, <1>4

LEMMA OriginalsAreFinite == \A i : IsFiniteSet(Originals(i)) /\ Cardinality(Originals(i)) \in Nat
  BY PairsAreFinite, FS_Subset, FS_CardinalityType DEF Originals

LEMMA AtMost ==
  ASSUME NEW S, NEW T, NEW i, IsFiniteSet(S), IsFiniteSet(T),
         Cardinality(S) <= Cardinality(T), Cardinality(T) <= Cardinality(Originals(i))
  PROVE  Cardinality(S) <= Cardinality(Originals(i))
<1>1. Cardinality(S) \in Nat /\ Cardinality(T) \in Nat
  BY FS_CardinalityType
<1> QED
  BY <1>1, OriginalsAreFinite

LEMMA ReportsAreFew ==
  ASSUME NEW i
  PROVE  IsFiniteSet(Reports(i)) /\ Cardinality(Reports(i)) <= Cardinality(Originals(i))
<1> DEFINE g == [p \in Originals(i) |-> <<"found", <<p[1], Duplicate(i)>>>>]
<1>1. g \in Surjection(Originals(i), Reports(i))
  BY DEF Surjection, Reports
<1>2. IsFiniteSet(Originals(i))
  BY PairsAreFinite, FS_Subset DEF Originals
<1> QED
  BY <1>1, <1>2, FS_Surjection

LEMMA ClaimedStep ==
  ASSUME Claimed,
         \A i \in Invoice :
           \/ Claims(i)' \subseteq Claims(i)
           \/ \E x \in Claims(i) : \E y : Claims(i)' \subseteq (Claims(i) \ {x}) \cup {y}
           \/ Claims(i)' \subseteq Reports(i)
  PROVE  Claimed'
<1> SUFFICES ASSUME NEW i \in Invoice
             PROVE  IsFiniteSet(Claims(i)') /\ Cardinality(Claims(i)') <= Cardinality(Originals(i))
  BY DEF Claimed, Originals
<1>1. IsFiniteSet(Claims(i)) /\ Cardinality(Claims(i)) <= Cardinality(Originals(i))
  BY DEF Claimed
<1>2. CASE Claims(i)' \subseteq Claims(i)
  <2>1. IsFiniteSet(Claims(i)') /\ Cardinality(Claims(i)') <= Cardinality(Claims(i))
    BY <1>1, <1>2, FS_Subset
  <2> QED
    BY <1>1, <2>1, AtMost
<1>3. ASSUME NEW x \in Claims(i), NEW y, Claims(i)' \subseteq (Claims(i) \ {x}) \cup {y}
      PROVE  IsFiniteSet(Claims(i)') /\ Cardinality(Claims(i)') <= Cardinality(Originals(i))
  <2>1. IsFiniteSet(Claims(i)') /\ Cardinality(Claims(i)') <= Cardinality(Claims(i))
    BY <1>1, <1>3, FewerClaims
  <2> QED
    BY <1>1, <2>1, AtMost
<1>4. CASE Claims(i)' \subseteq Reports(i)
  <2>1. IsFiniteSet(Reports(i)) /\ Cardinality(Reports(i)) <= Cardinality(Originals(i))
    BY ReportsAreFew
  <2>2. IsFiniteSet(Claims(i)') /\ Cardinality(Claims(i)') <= Cardinality(Reports(i))
    BY <1>4, <2>1, FS_Subset
  <2> QED
    BY <2>1, <2>2, AtMost
<1> QED
  BY <1>2, <1>3, <1>4

\* A step that opens no hold and brings the consumer nothing new.
Settles ==
  /\ \A a \in Action : Open(a)' => Open(a) \/ (cpc \in HasAction /\ a = acting)
  /\ \A a \in Action : Open(a)' => Subject(a)' = Subject(a)
  /\ batch' \subseteq batch
  /\ cpc' \in HasAction => cpc \in HasAction /\ acting' = acting /\ Subject(acting)' = Subject(acting)
  /\ cpc' = "decide" => cpc = "decide" /\ detected' = detected

LEMMA SettlingClaims == ASSUME Settles, NEW i \in Invoice PROVE Claims(i)' \subseteq Claims(i)
<1>1. Held(i)' \subseteq Held(i)
  <2> SUFFICES ASSUME NEW a \in Held(i)' PROVE a \in Held(i)
    OBVIOUS
  <2>1. a \in Action /\ Subject(a)' = Duplicate(i)
    BY DEF Held, Duplicate
  <2>2. CASE Open(a)'
    BY <2>1, <2>2 DEF Held, Settles
  <2>3. CASE cpc' \in HasAction /\ a = acting'
    BY <2>1, <2>3 DEF Held, Settles
  <2> QED
    BY <2>2, <2>3 DEF Held
<1>2. {x \in batch : x[2] = Duplicate(i)}' \subseteq {x \in batch : x[2] = Duplicate(i)}
  BY DEF Settles, Duplicate
<1>3. {x \in {detected} : cpc = "decide" /\ x = Duplicate(i)}'
        \subseteq {x \in {detected} : cpc = "decide" /\ x = Duplicate(i)}
  BY DEF Settles, Duplicate
<1> QED
  BY <1>1, <1>2, <1>3 DEF Claims

LEMMA SettlingStep == Claimed /\ Settles => Claimed'
  BY SettlingClaims, ClaimedStep

\* A scan reports only invoices without an open hold.
LEMMA ScanClaims == ASSUME TypeOK, Scan, NEW i \in Invoice
                    PROVE  Claims(i)' \subseteq Claims(i) \/ Claims(i)' \subseteq Reports(i)
<1>1. PICK found \in Scans : batch' = found
  BY DEF Scan
<1>2. cpc = "idle" /\ cpc' = "loop" /\ UNCHANGED <<status, row, subject>>
  BY DEF Scan, table, logs
<1>3. Held(i)' = Held(i)
  BY <1>2 DEF Held, Open, Subject, HasAction, Duplicate
<1>4. {x \in {detected} : cpc = "decide" /\ x = Duplicate(i)}' = {}
  BY <1>2
<1>5. CASE {x \in found : x[2] = Duplicate(i)} = {}
  <2>1. Claims(i)' = {<<"hold", a>> : a \in Held(i)}
    BY <1>1, <1>3, <1>4, <1>5 DEF Claims, Duplicate
  <2> QED
    BY <2>1 DEF Claims
<1>6. CASE {x \in found : x[2] = Duplicate(i)} # {}
  <2>1. PICK x \in found : x[2] = Duplicate(i)
    BY <1>6
  <2>2. found = DuplicateScan
    BY <1>1, <2>1 DEF Scans, RowScan, Duplicate
  <2>3. \A d \in found : d[2] = Duplicate(i) =>
          ~AlreadyHeld(i) /\ \E p \in Originals(i) : d = <<p[1], Duplicate(i)>>
    BY <2>2 DEF DuplicateScan, Duplicate, Originals
  <2>4. Held(i) = {}
    BY <1>2, <2>1, <2>3 DEF Held, Open, Subject, AlreadyHeld, HasAction
  <2>5. Claims(i)' = {<<"found", d>> : d \in {y \in found : y[2] = Duplicate(i)}}
    BY <1>1, <1>3, <1>4, <2>4 DEF Claims, Duplicate
  <2> QED
    BY <2>3, <2>5 DEF Reports
<1> QED
  BY <1>5, <1>6

\* The detection taken up takes the place of itself.
LEMMA PersistAnomalyClaims ==
  ASSUME TypeOK, Logged, PersistAnomaly, NEW i \in Invoice
  PROVE  \/ Claims(i)' \subseteq Claims(i)
         \/ \E x \in Claims(i) : \E y : Claims(i)' \subseteq (Claims(i) \ {x}) \cup {y}
<1>1. PICK d \in batch, n \in Anomaly :
        /\ batch' = batch \ {d} /\ detected' = d[2]
        /\ \/ UNCHANGED logs
           \/ n \in FreeAnomalies /\ subject' = [subject EXCEPT ![n] = d[2]]
  BY DEF PersistAnomaly
<1>2. cpc = "loop" /\ cpc' = "decide" /\ UNCHANGED <<status, row>>
  BY DEF PersistAnomaly, table
<1>3. \A a \in Action : Open(a)' = Open(a)
  BY <1>2 DEF Open
<1>4. \A a \in Action : Open(a) => Subject(a)' = Subject(a)
  BY <1>1, <1>2 DEF Open, Subject, Logged, FreeAnomalies, TypeOK, logs
<1>5. Held(i)' = Held(i)
  BY <1>2, <1>3, <1>4 DEF Held, HasAction, Duplicate
<1>6. CASE d[2] # Duplicate(i)
  <2>1. {x \in {detected} : cpc = "decide" /\ x = Duplicate(i)}' = {}
    BY <1>1, <1>6 DEF Duplicate
  <2> QED
    BY <1>1, <1>5, <2>1 DEF Claims, Duplicate
<1>7. CASE d[2] = Duplicate(i)
  <2>1. <<"found", d>> \in Claims(i)
    BY <1>7 DEF Claims
  <2>2. Claims(i)' \subseteq (Claims(i) \ {<<"found", d>>}) \cup {<<"now", Duplicate(i)>>}
    BY <1>1, <1>5 DEF Claims, Duplicate
  <2> QED
    BY <2>1, <2>2
<1> QED
  BY <1>6, <1>7

\* The action that is persisted takes the place of its detection.
LEMMA PersistActionClaims ==
  ASSUME TypeOK, LocalsOK, Logged, PersistAction, NEW i \in Invoice
  PROVE  \/ Claims(i)' \subseteq Claims(i)
         \/ \E x \in Claims(i) : \E y : Claims(i)' \subseteq (Claims(i) \ {x}) \cup {y}
<1>1. PICK a \in FreeActions, d \in Decisions(detected) :
        /\ row' = [row EXCEPT ![a] =
             [kind |-> d.kind, target |-> d.target, anomaly |-> logged,
              cost |-> d.cost, ref |-> d.ref]]
        /\ status' = [status EXCEPT ![a] =
             IF RequiresApproval(d.cost) THEN "pending_approval" ELSE "pending"]
        /\ acting' = a
  BY DEF PersistAction
<1>2. cpc = "decide" /\ cpc' \in HasAction /\ cpc' # "decide" /\ UNCHANGED <<subject, batch>>
  BY DEF PersistAction, HasAction, logs
<1>3. a \in Action /\ ~Open(a)
  BY <1>1 DEF FreeActions, Open
<1>4. \A x \in Action \ {a} : Open(x)' = Open(x) /\ Subject(x)' = Subject(x)
  BY <1>1, <1>2 DEF Open, Subject, TypeOK
<1>5. Subject(a)' = detected
  BY <1>1, <1>2, <1>3 DEF Subject, Logged, TypeOK
<1>6. {x \in {detected} : cpc = "decide" /\ x = Duplicate(i)}' = {}
  BY <1>2
<1>7. \A x \in Held(i)' : x # a => x \in Held(i)
  BY <1>1, <1>4 DEF Held, Duplicate
<1>8. CASE detected # Duplicate(i)
  <2>1. Held(i)' \subseteq Held(i)
    BY <1>5, <1>7, <1>8 DEF Held, Duplicate
  <2> QED
    BY <1>2, <1>6, <2>1 DEF Claims, Duplicate
<1>9. CASE detected = Duplicate(i)
  <2>1. <<"now", detected>> \in Claims(i)
    BY <1>2, <1>9 DEF Claims
  <2>2. Claims(i)' \subseteq (Claims(i) \ {<<"now", detected>>}) \cup {<<"hold", a>>}
    BY <1>2, <1>6, <1>7 DEF Claims, Duplicate
  <2> QED
    BY <2>1, <2>2
<1> QED
  BY <1>8, <1>9

\* Every step keeps the claims within their number, one case per action.
LEMMA ClaimsStep ==
  TypeOK /\ LocalsOK /\ Fresh /\ Logged /\ NeverRuns /\ Claimed /\ [Next]_vars => Claimed'
<1> SUFFICES ASSUME TypeOK, LocalsOK, Fresh, Logged, NeverRuns, Claimed, [Next]_vars
             PROVE  Claimed'
  OBVIOUS
<1>1. CASE Scan
  BY <1>1, ScanClaims, ClaimedStep
<1>2. CASE PersistAnomaly
  BY <1>2, PersistAnomalyClaims, ClaimedStep
<1>3. CASE PersistAction
  BY <1>3, PersistActionClaims, ClaimedStep
<1> USE DEF TypeOK, Fresh, Settles, Open, Subject, HasAction, table, logs, consumer, requests, history
<1>4. CASE FinishTask
  BY <1>4, SettlingStep DEF FinishTask
<1>5. CASE Decline \/ QueueingFails \/ MarkAnomaly
  BY <1>5, SettlingStep DEF Decline, QueueingFails, MarkAnomaly, NextDetection
<1>6. CASE Requeue \/ Enqueue
  BY <1>6, SettlingStep DEF Requeue, Enqueue
<1>7. CASE DispatchEffect
  BY <1>7, SettlingStep DEF DispatchEffect, Apply
<1>8. CASE DispatchFails \/ DispatchNotice
  BY <1>8, SettlingStep DEF DispatchFails, DispatchNotice
<1>9. CASE DispatchFlag
  <2>1. PICK n \in FreeAnomalies : subject' = [subject EXCEPT ![n] = None]
    BY <1>9 DEF DispatchFlag
  <2>2. /\ cpc \in HasAction /\ cpc' \in HasAction /\ cpc' # "decide"
        /\ UNCHANGED <<status, row, batch, acting>>
    BY <1>9 DEF DispatchFlag
  <2>3. \A a \in Action : status[a] # "absent" => subject'[row[a].anomaly] = subject[row[a].anomaly]
    BY <2>1 DEF Logged, FreeAnomalies
  <2>4. Settles
    BY <2>2, <2>3
  <2> QED
    BY <2>4, SettlingStep
<1>10. CASE ConfirmEffect \/ CloseAction
  BY <1>10, SettlingStep DEF ConfirmEffect, CloseAction
<1>11. ASSUME NEW r \in Request, NEW a \in Action, Approve(r, a) \/ Reject(r, a) \/ Override(r, a)
       PROVE  Claimed'
  BY <1>11, SettlingStep DEF Approve, Reject, Override, Goto
<1>12. ASSUME NEW r \in Request, RequestStep(r)
       PROVE  Claimed'
  <2> USE DEF Goto, Return
  <2>1. CASE RecordApproval(r) \/ Dequeue(r)
    BY <2>1, SettlingStep DEF RecordApproval, Dequeue
  <2>2. CASE ExecuteApproved(r)
    BY <2>2, SettlingStep DEF ExecuteApproved, Apply
  <2>3. CASE ExecuteFails(r) \/ ExecuteNothing(r)
    BY <2>3, SettlingStep DEF ExecuteFails, ExecuteNothing
  <2>4. CASE ConfirmApproved(r) \/ CompleteApproved(r) \/ FailApproved(r) \/ MarkOverridden(r)
    BY <2>4, SettlingStep DEF ConfirmApproved, CompleteApproved, FailApproved, MarkOverridden,
                  SetStatus, NeverRuns
  <2>5. CASE Undo(r)
    BY <2>5, SettlingStep DEF Undo
  <2>6. CASE UndoFails(r) \/ UndoNothing(r)
    BY <2>6, SettlingStep DEF UndoFails, UndoNothing
  <2>7. CASE RelabelAnomaly(r)
    BY <2>7, SettlingStep DEF RelabelAnomaly
  <2> QED
    BY <1>12, <2>1, <2>2, <2>3, <2>4, <2>5, <2>6, <2>7 DEF RequestStep
<1>13. ASSUME NEW e \in Entity, HoldByHand(e) \/ ReleaseByHand(e)
       PROVE  Claimed'
  BY <1>13, SettlingStep DEF HoldByHand, ReleaseByHand, SetEntity
<1>14. CASE AutoRelease
  BY <1>14, SettlingStep DEF AutoRelease
<1>15. ASSUME NEW n \in Anomaly, PatchAnomaly(n)
       PROVE  Claimed'
  BY <1>15, SettlingStep DEF PatchAnomaly
<1>16. CASE Crash
  BY <1>16, SettlingStep DEF Crash
<1>17. CASE UNCHANGED vars
  BY <1>17, SettlingStep DEF vars
<1>18. CASE StatementFails \/ HandlerFails
  BY <1>18, SettlingStep DEF StatementFails, HandlerFails, NextDetection
<1>19. ASSUME NEW r \in Request, RequestFails(r)
       PROVE  Claimed'
  BY <1>19, SettlingStep DEF RequestFails
<1> QED
  BY <1>1, <1>2, <1>3, <1>4, <1>5, <1>6, <1>7, <1>8, <1>9, <1>10, <1>11, <1>12,
     <1>13, <1>14, <1>15, <1>16, <1>17, <1>18, <1>19 DEF Next, ConsumerStep, FaultStep

LEMMA HeldAreFew ==
  ASSUME Claimed, NEW i \in Invoice
  PROVE  Cardinality(OpenHolds(i)) <= Cardinality(Originals(i))
<1> DEFINE H == {<<"hold", a>> : a \in OpenHolds(i)}
           h == [a \in OpenHolds(i) |-> <<"hold", a>>]
<1>1. OpenHolds(i) \subseteq Held(i)
  BY DEF OpenHolds, Held, Open, Subject
<1>2. H \subseteq Claims(i)
  BY <1>1 DEF Claims
<1>3. /\ IsFiniteSet(Claims(i)) /\ Cardinality(Claims(i)) <= Cardinality(Originals(i))
  BY DEF Claimed
<1>4. IsFiniteSet(H) /\ Cardinality(H) <= Cardinality(Claims(i))
  BY <1>2, <1>3, FS_Subset
<1>5. h \in Injection(OpenHolds(i), H)
  BY DEF Injection, IsInjective
<1>6. IsFiniteSet(OpenHolds(i)) /\ Cardinality(OpenHolds(i)) <= Cardinality(H)
  BY <1>4, <1>5, FS_Injection
<1> QED
  BY <1>3, <1>4, <1>6, AtMost

\* With the driver as deployed (jsonb columns arrive as text), the open holds for
\* one duplicate come from a single scan: at most one per original, for any
\* number of scans, reviewers and faults.
THEOREM HoldsComeFromOneScan ==
  ASSUME ~JsonDecoded
  PROVE  Spec => []HoldsWithinOneScan
<1>1. Init => Logged /\ NeverRuns /\ Claimed
  <2> SUFFICES ASSUME Init PROVE Logged /\ NeverRuns /\ Claimed
    OBVIOUS
  <2>1. Logged /\ NeverRuns
    BY DEF Init, Logged, NeverRuns
  <2>2. ASSUME NEW i \in Invoice
        PROVE  IsFiniteSet(Claims(i)) /\ Cardinality(Claims(i)) <= Cardinality(Originals(i))
    <3>1. Held(i) = {}
      BY DEF Init, Held, Open, HasAction
    <3>2. Claims(i) = {}
      BY <3>1 DEF Init, Claims
    <3>3. Claims(i) \subseteq Reports(i)
      BY <3>2
    <3>4. IsFiniteSet(Reports(i)) /\ Cardinality(Reports(i)) <= Cardinality(Originals(i))
      BY ReportsAreFew
    <3>5. IsFiniteSet(Claims(i)) /\ Cardinality(Claims(i)) <= Cardinality(Reports(i))
      BY <3>3, <3>4, FS_Subset
    <3> QED
      BY <3>4, <3>5, AtMost
  <2> QED
    BY <2>1, <2>2 DEF Claimed
<1>2. Claimed => HoldsWithinOneScan
  BY HeldAreFew DEF HoldsWithinOneScan, Originals
<1>3. TypeOK /\ Fresh /\ NeverRuns /\ [Next]_vars => NeverRuns'
  BY NeverRunsStep
<1> QED
  BY <1>1, <1>2, <1>3, ClaimsStep, LoggedStep, TypesHold, FreshHolds, PTL DEF Spec
=============================================================================
