---------------------- MODULE LifecycleProgress_proofs ----------------------
(***************************************************************************)
(* That actions come to an end: who is at work on an open action, how far  *)
(* that work has come, and that it is finished under the event loop's      *)
(* fairness.  For every value of the constants.                            *)
(***************************************************************************)
EXTENDS ActionLifecycle_proofs

----------------------------------------------------------------------------
(* Only faults leave actions APPROVED or PENDING behind, and each a few.  *)

\* An action is APPROVED from the UPDATE of approve_action until the end of the
\* execution that follows it in the same coroutine; every way out of that, and
\* whatever others write, gives it another status.
LEMMA AttendedStep ==
  ASSUME TypeOK, Fresh, [Next]_vars, faults' = faults, NEW b \in Action, Attended(b)
  PROVE  Attended(b)'
<1> USE DEF TypeOK, Fresh, HasAction, Attended, Executing, Running,
          table, logs, consumer, requests, history
<1>1. CASE Scan
  BY <1>1 DEF Scan
<1>2. CASE PersistAnomaly
  BY <1>2 DEF PersistAnomaly
<1>3. CASE PersistAction
  BY <1>3 DEF PersistAction, FreeActions
<1>4. CASE FinishTask
  BY <1>4 DEF FinishTask
<1>5. CASE Decline \/ QueueingFails \/ MarkAnomaly
  BY <1>5 DEF Decline, QueueingFails, MarkAnomaly, NextDetection
<1>6. CASE Requeue \/ Enqueue
  BY <1>6 DEF Requeue, Enqueue
<1>7. CASE DispatchEffect
  BY <1>7 DEF DispatchEffect, Apply
<1>8. CASE DispatchFails \/ DispatchFlag \/ DispatchNotice
  BY <1>8 DEF DispatchFails, DispatchFlag, DispatchNotice
<1>9. CASE ConfirmEffect
  BY <1>9 DEF ConfirmEffect
<1>10. CASE CloseAction
  BY <1>10 DEF CloseAction
<1>11. ASSUME NEW r \in Request, NEW a \in Action, Approve(r, a) \/ Reject(r, a) \/ Override(r, a)
       PROVE Attended(b)'
  BY <1>11 DEF Approve, Reject, Override, Goto
<1>12. ASSUME NEW r \in Request, RequestStep(r)
       PROVE Attended(b)'
  <2> USE DEF Goto, Return
  <2>1. CASE RecordApproval(r) \/ Dequeue(r)
    BY <2>1 DEF RecordApproval, Dequeue
  <2>2. CASE ExecuteApproved(r)
    BY <2>2 DEF ExecuteApproved, Apply
  <2>3. CASE ExecuteFails(r) \/ ExecuteNothing(r)
    BY <2>3 DEF ExecuteFails, ExecuteNothing
  <2>4. CASE ConfirmApproved(r) \/ CompleteApproved(r) \/ FailApproved(r) \/ MarkOverridden(r)
    BY <2>4 DEF ConfirmApproved, CompleteApproved, FailApproved, MarkOverridden, SetStatus
  <2>5. CASE Undo(r)
    BY <2>5 DEF Undo
  <2>6. CASE UndoFails(r) \/ UndoNothing(r)
    BY <2>6 DEF UndoFails, UndoNothing
  <2>7. CASE RelabelAnomaly(r)
    BY <2>7 DEF RelabelAnomaly
  <2> QED
    BY <1>12, <2>1, <2>2, <2>3, <2>4, <2>5, <2>6, <2>7 DEF RequestStep
<1>13. ASSUME NEW e \in Entity, HoldByHand(e) \/ ReleaseByHand(e)
       PROVE Attended(b)'
  BY <1>13 DEF HoldByHand, ReleaseByHand, SetEntity
<1>14. CASE AutoRelease
  BY <1>14 DEF AutoRelease
<1>15. ASSUME NEW n \in Anomaly, PatchAnomaly(n)
       PROVE Attended(b)'
  BY <1>15 DEF PatchAnomaly
<1>16. CASE Crash
  BY <1>16, ParametersOK DEF Crash, Fault
<1>17. CASE UNCHANGED vars
  BY <1>17 DEF vars
<1>18. CASE StatementFails \/ HandlerFails
  BY <1>18, ParametersOK DEF StatementFails, HandlerFails, NextDetection, Fault
<1>19. ASSUME NEW r \in Request, RequestFails(r)
       PROVE  Attended(b)'
  BY <1>19, ParametersOK DEF RequestFails, Goto, Return, Fault
<1> QED
  BY <1>1, <1>2, <1>3, <1>4, <1>5, <1>6, <1>7, <1>8, <1>9, <1>10, <1>11, <1>12,
     <1>13, <1>14, <1>15, <1>16, <1>17, <1>18, <1>19 DEF Next, ConsumerStep, FaultStep

LEMMA FaultsAdd == FaultStep => faults' = faults + 1
BY DEF FaultStep, StatementFails, HandlerFails, RequestFails, Crash, Fault

LEMMA FaultStrands == ASSUME TypeOK, FaultStep PROVE Stranded' \subseteq Stranded \cup Hands
<1> SUFFICES ASSUME NEW a \in Action, ~Attended(a)', Attended(a)
             PROVE  a = acting \/ \E r \in Request : about[r] = a
  BY DEF Stranded, Hands
<1>1. status' = status
  BY FaultsWriteNothing DEF table
<1> QED
  BY <1>1 DEF Attended, Executing, Running

\* FaultsStrandFew, inductively: the stranded actions are finitely many.
Counted == IsFiniteSet(Stranded) /\ FaultsStrandFew

LEMMA CountedStep == TypeOK /\ Fresh /\ Counted /\ [Next]_vars => Counted'
<1> SUFFICES ASSUME TypeOK, Fresh, Counted, [Next]_vars PROVE Counted'
  OBVIOUS
<1>1. faults' = faults => Stranded' \subseteq Stranded
  BY AttendedStep DEF Stranded
<1>2. FaultStep => Stranded' \subseteq Stranded \cup Hands
  BY FaultStrands
<1>3. IsFiniteSet(Stranded') /\ Cardinality(Stranded') <= faults' * InOneFault
  BY <1>1, <1>2, DamageIsCounted DEF Counted, FaultsStrandFew
<1> QED
  BY <1>3 DEF Counted, FaultsStrandFew, InOneFault

LEMMA CountedHolds == Spec => []Counted
<1>1. Init => Counted
  <2> SUFFICES ASSUME Init PROVE Counted
    OBVIOUS
  <2>1. Stranded = {}
    BY DEF Init, Stranded, Attended
  <2>2. InOneFault \in Nat
    BY RequestsAreFinite, FS_CardinalityType DEF InOneFault
  <2> QED
    BY <2>1, <2>2, FS_EmptySet DEF Init, Counted, FaultsStrandFew
<1> QED
  BY <1>1, CountedStep, TypesHold, FreshHolds, PTL DEF Spec

\* A fault strands at most what is in the coroutines' hands, nothing else strands
\* anything: for any number of actions, requests, entities and faults.
THEOREM StrandedAreCounted == Spec => []FaultsStrandFew
<1>1. Counted => FaultsStrandFew
  BY DEF Counted
<1> QED
  BY <1>1, CountedHolds, PTL

\* Until a fault strikes, some coroutine is at work on every action that is
\* APPROVED or PENDING.
THEOREM NothingIsStranded == Spec => [](faults = 0 => Stranded = {})
<1>1. Counted /\ faults = 0 => Stranded = {}
  <2> SUFFICES ASSUME Counted, faults = 0 PROVE Stranded = {}
    OBVIOUS
  <2>1. InOneFault \in Nat /\ Cardinality(Stranded) \in Nat
    BY RequestsAreFinite, FS_CardinalityType DEF Counted, InOneFault
  <2>2. Cardinality(Stranded) = 0
    BY <2>1 DEF Counted, FaultsStrandFew
  <2> QED
    BY <2>2, FS_EmptySet DEF Counted
<1> QED
  BY <1>1, CountedHolds, PTL

----------------------------------------------------------------------------
(* What a fault has stranded is never taken up again.                      *)

\* Has request r anything to do with action a?
Holds(r, a) == rpc[r] # "idle" /\ about[r] = a

\* While reviewers act on the queue, one coroutine at a time works on an action
\* that is not decided or not closed: the consumer on one that waits or is
\* automatic, one request on one that was approved.
Solo ==
  \A a \in Action :
    /\ \A r, s \in Request : Executing(r, a) /\ Executing(s, a) => r = s
    /\ status[a] = "pending_approval" =>
         /\ \A r \in Request : ~Holds(r, a)
         /\ acting = a => cpc \notin {"dispatch", "confirm", "close"}
    /\ status[a] = "pending" =>
         /\ \A r \in Request : ~Holds(r, a)
         /\ acting = a /\ cpc \in HasAction => Running(a)
    /\ status[a] = "approved" =>
         /\ \A r \in Request : Holds(r, a) => Executing(r, a)
         /\ acting = a /\ cpc \in HasAction => cpc = "mark"

\* The program counters of a request that executes an approved action.
ExecutionPC == {"record", "execute", "confirm", "complete", "fail"}

\* A request that goes on with what it does, or ends, leaves the others alone.
LEMMA GoingOnIsSolo ==
  ASSUME TypeOK, Fresh, Solo, NEW r \in Request, rpc[r] # "idle", NEW t \in RequestPC,
         rpc' = [rpc EXCEPT ![r] = t],
         about' = about \/ (t = "idle" /\ about' = [about EXCEPT ![r] = None]),
         t \in ExecutionPC => rpc[r] \in ExecutionPC,
         rpc[r] \in ExecutionPC => t \in ExecutionPC \cup {"idle"},
         \/ status' = status
         \/ \E v \in {"success", "failed", "overridden"} : status' = [status EXCEPT ![about[r]] = v],
         UNCHANGED <<cpc, acting>>
  PROVE  Solo'
<1> USE DEF TypeOK, Fresh, Holds, Executing, Running, ExecutionPC, HasAction
<1>1. ASSUME NEW a \in Action, NEW s \in Request, Holds(s, a)'
      PROVE  Holds(s, a)
  BY <1>1, NoneIsNoRow
<1>2. ASSUME NEW a \in Action, NEW s \in Request, Executing(s, a)'
      PROVE  Executing(s, a)
  BY <1>2, NoneIsNoRow
<1>3. ASSUME NEW a \in Action, NEW s \in Request, Holds(s, a)', Executing(s, a)
      PROVE  Executing(s, a)'
  BY <1>3, NoneIsNoRow
<1>4. \A a \in Action : status'[a] \in {"pending_approval", "pending", "approved"} => status'[a] = status[a]
  OBVIOUS
<1> QED
  BY <1>1, <1>2, <1>3, <1>4 DEF Solo

LEMMA SoloStep ==
  ReviewFromQueue /\ TypeOK /\ Fresh /\ Sorted /\ Disciplined /\ Solo /\ [Next]_vars => Solo'
<1> SUFFICES ASSUME ReviewFromQueue, TypeOK, Fresh, Sorted, Disciplined, Solo, [Next]_vars
             PROVE  Solo'
  OBVIOUS
<1> USE DEF TypeOK, Fresh, Disciplined, Solo, Holds, Executing, Running, HasAction, Passed,
          table, logs, consumer, requests, history
<1>1. CASE Scan
  BY <1>1 DEF Scan
<1>2. CASE PersistAnomaly
  BY <1>2 DEF PersistAnomaly
<1>3. CASE PersistAction
  BY <1>3 DEF PersistAction, FreeActions
<1>4. CASE FinishTask
  BY <1>4 DEF FinishTask
<1>5. CASE Decline \/ QueueingFails \/ MarkAnomaly
  BY <1>5 DEF Decline, QueueingFails, MarkAnomaly, NextDetection
<1>6. CASE Requeue \/ Enqueue
  BY <1>6 DEF Requeue, Enqueue
<1>7. CASE DispatchEffect
  BY <1>7 DEF DispatchEffect, Apply
<1>8. CASE DispatchFails \/ DispatchFlag \/ DispatchNotice
  BY <1>8 DEF DispatchFails, DispatchFlag, DispatchNotice
<1>9. CASE ConfirmEffect
  BY <1>9 DEF ConfirmEffect
<1>10. CASE CloseAction
  BY <1>10, ParametersOK DEF CloseAction, Sorted
<1>11. ASSUME NEW r \in Request, NEW a \in Action, Approve(r, a) \/ Reject(r, a) \/ Override(r, a)
       PROVE  Solo'
  <2>1. CASE Approve(r, a)
    BY <2>1 DEF Approve, Goto, Known
  <2>2. CASE Reject(r, a)
    BY <2>2 DEF Reject, Goto, Known
  <2>3. CASE Override(r, a)
    BY <2>3 DEF Override, Goto
  <2> QED
    BY <1>11, <2>1, <2>2, <2>3
<1>12. ASSUME NEW r \in Request, RequestStep(r)
       PROVE  Solo'
  <2> USE GoingOnIsSolo DEF Goto, Return, ExecutionPC, RequestPC
  <2>1. CASE RecordApproval(r)
    BY <2>1 DEF RecordApproval
  <2>2. CASE ExecuteApproved(r)
    BY <2>2 DEF ExecuteApproved
  <2>3. CASE ExecuteFails(r)
    BY <2>3 DEF ExecuteFails
  <2>4. CASE ExecuteNothing(r)
    BY <2>4 DEF ExecuteNothing
  <2>5. CASE ConfirmApproved(r)
    BY <2>5 DEF ConfirmApproved, SetStatus
  <2>6. CASE CompleteApproved(r)
    BY <2>6 DEF CompleteApproved, SetStatus
  <2>7. CASE FailApproved(r)
    BY <2>7 DEF FailApproved, SetStatus
  <2>8. CASE Undo(r)
    BY <2>8 DEF Undo
  <2>9. CASE Dequeue(r)
    BY <2>9 DEF Dequeue
  <2>10. CASE UndoFails(r)
    BY <2>10 DEF UndoFails
  <2>11. CASE UndoNothing(r)
    BY <2>11 DEF UndoNothing
  <2>12. CASE RelabelAnomaly(r)
    BY <2>12 DEF RelabelAnomaly
  <2>13. CASE MarkOverridden(r)
    BY <2>13 DEF MarkOverridden, SetStatus
  <2> HIDE GoingOnIsSolo DEF Goto, Return, ExecutionPC, RequestPC
  <2> QED
    BY <1>12, <2>1, <2>2, <2>3, <2>4, <2>5, <2>6, <2>7, <2>8, <2>9, <2>10, <2>11, <2>12, <2>13
       DEF RequestStep
<1>13. CASE \/ AutoRelease \/ UNCHANGED vars \/ \E n \in Anomaly : PatchAnomaly(n)
            \/ \E e \in Entity : HoldByHand(e) \/ ReleaseByHand(e)
  BY <1>13 DEF AutoRelease, vars, PatchAnomaly, HoldByHand, ReleaseByHand, SetEntity
<1>14. CASE Crash
  BY <1>14 DEF Crash
<1>15. CASE StatementFails \/ HandlerFails
  BY <1>15 DEF StatementFails, HandlerFails, NextDetection
<1>16. ASSUME NEW r \in Request, RequestFails(r)
       PROVE  Solo'
  <2>1. CASE rpc[r] \in {"execute", "confirm", "complete"} /\ rpc' = [rpc EXCEPT ![r] = "fail"] /\ UNCHANGED about
    BY <1>16, <2>1, GoingOnIsSolo DEF RequestFails, ExecutionPC, RequestPC
  <2>2. ASSUME NEW from \in {"record", "fail", "dequeue", "undo", "override", "relabel"}, Return(r, from)
        PROVE  Solo'
    BY <1>16, <2>2, GoingOnIsSolo DEF RequestFails, Goto, Return, ExecutionPC, RequestPC
  <2> QED
    BY <1>16, <2>1, <2>2 DEF RequestFails
<1> QED
  BY <1>1, <1>2, <1>3, <1>4, <1>5, <1>6, <1>7, <1>8, <1>9, <1>10, <1>11, <1>12, <1>13,
     <1>14, <1>15, <1>16 DEF Next, ConsumerStep, FaultStep

LEMMA SoloHolds == Spec => [](ReviewFromQueue => Solo)
<1>1. Init => Solo
  BY DEF Init, Solo, Holds, Executing, HasAction
<1>2. TypeOK /\ Fresh /\ Sorted /\ (ReviewFromQueue => Disciplined) /\ (ReviewFromQueue => Solo)
        /\ [Next]_vars => (ReviewFromQueue => Solo)'
  BY SoloStep
<1> QED
  BY <1>1, <1>2, TypesHold, FreshHolds, SortedHolds, DisciplinedHolds, PTL DEF Spec

\* No step takes a stranded action out of its status, or brings it a coroutine.
StrandedForGood == [][ReviewFromQueue => Stranded \subseteq Stranded']_vars

LEMMA StrandedStep ==
  ASSUME ReviewFromQueue, TypeOK, Fresh, Sorted, Disciplined, Solo, [Next]_vars,
         NEW b \in Action, ~Attended(b)
  PROVE  ~Attended(b)'
<1>1. /\ status[b] \in {"approved", "pending"}
      /\ \A r \in Request : ~Holds(r, b)
      /\ acting = b /\ cpc \in HasAction => cpc = "mark"
  BY DEF Attended, Solo, Running, TypeOK
<1>2. ASSUME status'[b] = status[b], \A r \in Request : ~Holds(r, b)',
             acting' = b /\ cpc' \in HasAction => cpc' = "mark"
      PROVE  ~Attended(b)'
  BY <1>1, <1>2 DEF Attended, Holds, Executing, Running, HasAction
<1> SUFFICES /\ status'[b] = status[b]
             /\ \A r \in Request : ~Holds(r, b)'
             /\ acting' = b /\ cpc' \in HasAction => cpc' = "mark"
  BY <1>2
<1> DEFINE Left == /\ status'[b] = status[b]
                   /\ \A r \in Request : ~Holds(r, b)'
                   /\ acting' = b /\ cpc' \in HasAction => cpc' = "mark"
<1> USE <1>1 DEF TypeOK, Fresh, Holds, HasAction, table, logs, consumer, requests, history
<1>3. CASE Scan
  BY <1>3 DEF Scan
<1>4. CASE PersistAnomaly
  BY <1>4 DEF PersistAnomaly
<1>5. CASE PersistAction
  BY <1>5 DEF PersistAction, FreeActions
<1>6. CASE FinishTask
  BY <1>6 DEF FinishTask
<1>7. CASE Decline \/ QueueingFails \/ MarkAnomaly
  BY <1>7 DEF Decline, QueueingFails, MarkAnomaly, NextDetection
<1>8. CASE Requeue \/ Enqueue
  BY <1>8 DEF Requeue, Enqueue
<1>9. CASE DispatchEffect
  BY <1>9 DEF DispatchEffect, Apply
<1>10. CASE DispatchFails \/ DispatchFlag \/ DispatchNotice
  BY <1>10 DEF DispatchFails, DispatchFlag, DispatchNotice
<1>11. CASE ConfirmEffect
  BY <1>11 DEF ConfirmEffect
<1>12. CASE CloseAction
  BY <1>12, ParametersOK DEF CloseAction, Sorted
<1>13. ASSUME NEW r \in Request, NEW a \in Action, Approve(r, a) \/ Reject(r, a) \/ Override(r, a)
       PROVE  Left
  <2>1. CASE Approve(r, a)
    BY <2>1 DEF Approve, Goto, Known
  <2>2. CASE Reject(r, a)
    BY <2>2 DEF Reject, Goto, Known
  <2>3. CASE Override(r, a)
    BY <2>3 DEF Override, Goto
  <2> QED
    BY <1>13, <2>1, <2>2, <2>3
<1>14. ASSUME NEW r \in Request, RequestStep(r)
       PROVE  Left
  <2> USE DEF Goto, Return
  <2>1. CASE RecordApproval(r)
    BY <2>1 DEF RecordApproval
  <2>2. CASE ExecuteApproved(r)
    BY <2>2 DEF ExecuteApproved, Apply
  <2>3. CASE ExecuteFails(r) \/ ExecuteNothing(r)
    BY <2>3 DEF ExecuteFails, ExecuteNothing
  <2>4. CASE ConfirmApproved(r) \/ CompleteApproved(r) \/ FailApproved(r)
    BY <2>4 DEF ConfirmApproved, CompleteApproved, FailApproved, SetStatus
  <2>5. CASE Undo(r) \/ Dequeue(r)
    BY <2>5 DEF Undo, Dequeue
  <2>6. CASE UndoFails(r) \/ UndoNothing(r)
    BY <2>6 DEF UndoFails, UndoNothing
  <2>7. CASE RelabelAnomaly(r)
    BY <2>7 DEF RelabelAnomaly
  <2>8. CASE MarkOverridden(r)
    BY <2>8 DEF MarkOverridden, SetStatus
  <2> QED
    BY <1>14, <2>1, <2>2, <2>3, <2>4, <2>5, <2>6, <2>7, <2>8 DEF RequestStep
<1>15. CASE \/ AutoRelease \/ UNCHANGED vars \/ \E n \in Anomaly : PatchAnomaly(n)
            \/ \E e \in Entity : HoldByHand(e) \/ ReleaseByHand(e)
  BY <1>15 DEF AutoRelease, vars, PatchAnomaly, HoldByHand, ReleaseByHand, SetEntity
<1>16. CASE Crash
  BY <1>16 DEF Crash
<1>17. CASE StatementFails \/ HandlerFails
  BY <1>17 DEF StatementFails, HandlerFails, NextDetection
<1>18. ASSUME NEW r \in Request, RequestFails(r)
       PROVE  Left
  BY <1>18 DEF RequestFails, Goto, Return
<1> QED
  BY <1>3, <1>4, <1>5, <1>6, <1>7, <1>8, <1>9, <1>10, <1>11, <1>12, <1>13, <1>14, <1>15,
     <1>16, <1>17, <1>18 DEF Next, ConsumerStep, FaultStep

\* A restart does not help, nor does any later request: lifespan() recovers
\* nothing, and no handler takes an action that is APPROVED or PENDING.  What is
\* stranded stays so, through any number of further steps, requests and faults,
\* while reviewers act on the queue.
THEOREM StrandedStays == Spec => StrandedForGood
<1> DEFINE I == TypeOK /\ Fresh /\ Sorted /\ (ReviewFromQueue => Disciplined) /\ (ReviewFromQueue => Solo)
           N == ReviewFromQueue => Stranded \subseteq Stranded'
<1>1. ASSUME I, [Next]_vars PROVE N
  BY <1>1, StrandedStep DEF Stranded
<1>2. I /\ [Next]_vars => [N]_vars
  BY <1>1
<1>3. Spec => []I
  BY TypesHold, FreshHolds, SortedHolds, DisciplinedHolds, SoloHolds, PTL
<1> HIDE DEF I
<1> QED
  BY <1>2, <1>3, PTL DEF Spec, StrandedForGood
----------------------------------------------------------------------------
(* An approved action is closed.                                           *)

\* The premise of the two theorems below is in ENABLED, which no backend reasons
\* about: every coroutine has a next step.  Where it failed for good an open
\* action would stay open, and ApprovedIsClosed or PendingIsClosed, which a run
\* checks, would be false.
RequestCanGoOn(r) == rpc[r] # "idle" => ENABLED <<RequestStep(r)>>_vars
ConsumerCanGoOn == cpc \in {"dispatch", "confirm", "close"} => ENABLED <<ConsumerStep>>_vars
NobodyIsStuck == ConsumerCanGoOn /\ \A r \in Request : RequestCanGoOn(r)

\* The statuses that approve_action's execution, or an override of it, ends in.
Closed(a) == status[a] \in {"success", "failed", "overridden"}

\* How an approved action ends.
Settled(a) == Closed(a) \/ LeftByFault(a)

\* A fault after which no coroutine has an open action leaves it behind.
LEMMA FaultSettles ==
  ASSUME TypeOK, FaultStep, faults' = faults + 1, NEW a \in Action, status[a] \in Passed,
         \A r \in Request : ~Executing(r, a)', status[a] = "pending" => ~Running(a)'
  PROVE  Settled(a)'
<1>1. faults' > 0
  BY ParametersOK DEF TypeOK
<1>2. status' = status
  BY FaultsWriteNothing DEF table
<1> QED
  BY <1>1, <1>2 DEF Settled, Closed, LeftByFault, Stranded, Attended, Passed

\* Without a fault, only a request itself moves on.
LEMMA OthersKeepRequest ==
  ASSUME TypeOK, NEW r \in Request, rpc[r] # "idle",
         [Next]_vars, ~RequestStep(r), ~FaultStep
  PROVE  rpc'[r] = rpc[r] /\ about'[r] = about[r]
<1> USE DEF TypeOK, table, logs, consumer, requests, history
<1>1. CASE Scan
  BY <1>1 DEF Scan
<1>2. CASE PersistAnomaly \/ FinishTask \/ Decline \/ PersistAction \/ QueueingFails
  BY <1>2 DEF PersistAnomaly, FinishTask, Decline, PersistAction, QueueingFails
<1>3. CASE \/ Requeue \/ Enqueue \/ DispatchEffect \/ DispatchFails \/ DispatchFlag
           \/ DispatchNotice \/ ConfirmEffect \/ CloseAction \/ MarkAnomaly
  BY <1>3 DEF Requeue, Enqueue, DispatchEffect, DispatchFails, DispatchFlag,
              DispatchNotice, ConfirmEffect, CloseAction, MarkAnomaly
<1>4. ASSUME NEW s \in Request, NEW a \in Action, Approve(s, a) \/ Reject(s, a) \/ Override(s, a)
      PROVE rpc'[r] = rpc[r] /\ about'[r] = about[r]
  BY <1>4 DEF Approve, Reject, Override, Goto
<1>5. ASSUME NEW s \in Request, RequestStep(s)
      PROVE rpc'[r] = rpc[r] /\ about'[r] = about[r]
  <2>1. s # r
    BY <1>5
  <2>2. /\ \E t : rpc' = [rpc EXCEPT ![s] = t]
        /\ about' = about \/ \E t : about' = [about EXCEPT ![s] = t]
    <3> USE DEF Goto, Return
    <3>1. CASE RecordApproval(s) \/ ExecuteApproved(s) \/ ExecuteFails(s) \/ ExecuteNothing(s)
      BY <3>1 DEF RecordApproval, ExecuteApproved, ExecuteFails, ExecuteNothing
    <3>2. CASE ConfirmApproved(s) \/ CompleteApproved(s) \/ FailApproved(s) \/ Dequeue(s)
      BY <3>2 DEF ConfirmApproved, CompleteApproved, FailApproved, Dequeue
    <3>3. CASE Undo(s) \/ UndoFails(s) \/ UndoNothing(s) \/ MarkOverridden(s) \/ RelabelAnomaly(s)
      BY <3>3 DEF Undo, UndoFails, UndoNothing, MarkOverridden, RelabelAnomaly
    <3> QED
      BY <1>5, <3>1, <3>2, <3>3 DEF RequestStep
  <2> QED
    BY <2>1, <2>2
<1>6. CASE \/ AutoRelease \/ UNCHANGED vars \/ \E n \in Anomaly : PatchAnomaly(n)
           \/ \E e \in Entity : HoldByHand(e) \/ ReleaseByHand(e)
  BY <1>6 DEF AutoRelease, vars, PatchAnomaly, HoldByHand, ReleaseByHand, SetEntity
<1> QED
  BY <1>1, <1>2, <1>3, <1>4, <1>5, <1>6 DEF Next, ConsumerStep

\* What each step of an execution comes to.
LEMMA ExecutionAdvances ==
  ASSUME TypeOK, NEW r \in Request, RequestStep(r)
  PROVE  /\ rpc[r] = "record" => rpc'[r] = "execute" /\ about'[r] = about[r]
         /\ rpc[r] = "execute" => rpc'[r] \in {"confirm", "complete", "fail"} /\ about'[r] = about[r]
         /\ rpc[r] = "confirm" => rpc'[r] = "complete" /\ about'[r] = about[r]
         /\ rpc[r] = "complete" /\ about[r] \in Action => status'[about[r]] = "success"
         /\ rpc[r] = "fail" /\ about[r] \in Action => status'[about[r]] = "failed"
<1> USE DEF TypeOK, Goto, Return, table, requests
<1>1. CASE RecordApproval(r) \/ ExecuteApproved(r) \/ ExecuteFails(r) \/ ExecuteNothing(r)
  BY <1>1 DEF RecordApproval, ExecuteApproved, ExecuteFails, ExecuteNothing
<1>2. CASE ConfirmApproved(r) \/ CompleteApproved(r) \/ FailApproved(r)
  BY <1>2 DEF ConfirmApproved, CompleteApproved, FailApproved, SetStatus
<1>3. CASE Dequeue(r) \/ Undo(r) \/ UndoFails(r) \/ UndoNothing(r) \/ MarkOverridden(r) \/ RelabelAnomaly(r)
  BY <1>3 DEF Dequeue, Undo, UndoFails, UndoNothing, MarkOverridden, RelabelAnomaly
<1> QED
  BY <1>1, <1>2, <1>3 DEF RequestStep

\* What a fault makes of an execution, its own or another's.
LEMMA ExecutionFails ==
  ASSUME ReviewFromQueue, TypeOK, Disciplined, Solo, FaultStep, faults' = faults + 1,
         NEW r \in Request, NEW a \in Action, Executing(r, a)
  PROVE  \/ rpc'[r] = rpc[r] /\ about'[r] = a
         \/ rpc[r] \in {"execute", "confirm", "complete"} /\ rpc'[r] = "fail" /\ about'[r] = a
         \/ Settled(a)'
<1>1. status[a] \in Passed /\ status[a] # "pending"
  BY DEF Disciplined, Executing, Solo, Holds
<1>2. CASE StatementFails \/ HandlerFails
  BY <1>2 DEF StatementFails, HandlerFails, requests, Executing
<1>3. CASE Crash
  <2>1. \A s \in Request : ~Executing(s, a)'
    BY <1>3 DEF Crash, Executing
  <2> QED
    BY <1>1, <2>1, FaultSettles
<1>4. ASSUME NEW s \in Request, RequestFails(s), s # r
      PROVE  rpc'[r] = rpc[r] /\ about'[r] = a
  BY <1>4 DEF RequestFails, Goto, Return, Executing, TypeOK
<1>5. CASE RequestFails(r)
  <2>1. CASE rpc[r] \in {"execute", "confirm", "complete"}
    BY <1>5, <2>1 DEF RequestFails, Goto, Return, Executing, TypeOK
  <2>2. CASE rpc[r] \in {"record", "fail"}
    <3>1. rpc'[r] = "idle" /\ \A s \in Request \ {r} : rpc'[s] = rpc[s] /\ about'[s] = about[s]
      BY <1>5, <2>2 DEF RequestFails, Goto, Return, TypeOK
    <3>2. \A s \in Request : ~Executing(s, a)'
      BY <3>1 DEF Executing, Solo
    <3> QED
      BY <1>1, <3>2, FaultSettles
  <2> QED
    BY <2>1, <2>2 DEF Executing
<1> QED
  BY <1>2, <1>3, <1>4, <1>5 DEF FaultStep

Supported(r) == Spec /\ RequestGoesOn(r) /\ []RequestCanGoOn(r)
Finishes(r, a) == Executing(r, a) ~> Settled(a)

\* Where no fault meets a re-opened action: reviewers act on the queue, or there
\* is no fault.
Orderly == ReviewFromQueue \/ MaxFaults = 0

\* One request brings the action it has approved to an end, in at most four
\* steps, or a fault leaves the action behind.
LEMMA RequestFinishes ==
  ASSUME Orderly, NEW r \in Request, NEW a \in Action
  PROVE  Supported(r) => Finishes(r, a)
<1> DEFINE P1 == about[r] = a /\ rpc[r] = "record"
           P2 == about[r] = a /\ rpc[r] = "execute"
           P3 == about[r] = a /\ rpc[r] = "confirm"
           P4 == about[r] = a /\ rpc[r] = "complete"
           P5 == about[r] = a /\ rpc[r] = "fail"
           G  == Settled(a)
           E  == ENABLED <<RequestStep(r)>>_vars
           I  == TypeOK /\ (ReviewFromQueue => Disciplined /\ Solo)
<1>1. I /\ P1 /\ RequestStep(r) => P2'
  BY ExecutionAdvances
<1>2. I /\ P2 /\ RequestStep(r) => P3' \/ P4' \/ P5'
  BY ExecutionAdvances
<1>3. I /\ P3 /\ RequestStep(r) => P4'
  BY ExecutionAdvances
<1>4. I /\ P4 /\ RequestStep(r) => G'
  BY ExecutionAdvances DEF Settled, Closed
<1>5. I /\ P5 /\ RequestStep(r) => G'
  BY ExecutionAdvances DEF Settled, Closed
<1>6. ASSUME I, P1 \/ P2 \/ P3 \/ P4 \/ P5, [Next]_vars, ~RequestStep(r)
      PROVE  \/ G'
             \/ rpc'[r] = rpc[r] /\ about'[r] = about[r]
             \/ (P2 \/ P3 \/ P4) /\ P5'
  <2>1. CASE FaultStep /\ faults' = faults + 1
    <3>1. ReviewFromQueue
      BY <1>6, <2>1, ParametersOK DEF Orderly, TypeOK, FaultStep, StatementFails, HandlerFails,
              Crash, RequestFails, Fault
    <3> QED
      BY <1>6, <2>1, <3>1, ExecutionFails DEF Executing
  <2>2. CASE ~FaultStep
    BY <1>6, <2>2, OthersKeepRequest
  <2>3. CASE FaultStep /\ faults' = faults
    BY <1>6, <2>3, FaultsAdd, ParametersOK DEF TypeOK
  <2> QED
    BY <1>6, <2>1, <2>2, <2>3, FaultsCount
<1>7. /\ I /\ P1 /\ [Next]_vars /\ ~RequestStep(r) => P1' \/ G'
      /\ I /\ P2 /\ [Next]_vars /\ ~RequestStep(r) => P2' \/ P5' \/ G'
      /\ I /\ P3 /\ [Next]_vars /\ ~RequestStep(r) => P3' \/ P5' \/ G'
      /\ I /\ P4 /\ [Next]_vars /\ ~RequestStep(r) => P4' \/ P5' \/ G'
      /\ I /\ P5 /\ [Next]_vars /\ ~RequestStep(r) => P5' \/ G'
  BY <1>6
<1>8. RequestCanGoOn(r) /\ (P1 \/ P2 \/ P3 \/ P4 \/ P5) => E
  BY DEF RequestCanGoOn
<1>9. Executing(r, a) <=> P1 \/ P2 \/ P3 \/ P4 \/ P5
  BY DEF Executing
<1>10. Spec => []I
  BY TypeCorrect, DisciplinedHolds, SoloHolds, PTL
<1> HIDE DEF P1, P2, P3, P4, P5, G, I
<1>11. Spec /\ WF_vars(RequestStep(r)) /\ []RequestCanGoOn(r)
        => ((P1 \/ P2 \/ P3 \/ P4 \/ P5) ~> G)
  BY <1>1, <1>2, <1>3, <1>4, <1>5, <1>7, <1>8, <1>10, PTL DEF Spec
<1> QED
  BY <1>9, <1>11, PTL DEF Supported, Finishes, RequestGoesOn, G

\* Every approved action is closed, or left behind by a fault that struck while
\* it was being executed, whoever interferes: for any number of actions,
\* reviewers, entities and faults if reviewers act on the queue, and without
\* faults also for those who act on rows that are not in the queue yet.
THEOREM ApprovedActionsClose ==
  ASSUME Orderly
  PROVE  FairSpec /\ []NobodyIsStuck => ApprovedIsClosed
<1> SUFFICES ASSUME NEW a \in Action
             PROVE  FairSpec /\ []NobodyIsStuck => (status[a] = "approved" ~> Settled(a))
  BY DEF ApprovedIsClosed, Settled, Closed
<1> DEFINE Premise == FairSpec /\ []NobodyIsStuck
<1>1. ASSUME NEW r \in Request
      PROVE  Premise => [](Executing(r, a) => <>Settled(a))
  <2>1. Fairness => RequestGoesOn(r)
    BY DEF Fairness
  <2>2. NobodyIsStuck => RequestCanGoOn(r)
    BY DEF NobodyIsStuck
  <2>3. Supported(r) => Finishes(r, a)
    BY RequestFinishes
  <2> QED
    BY <2>1, <2>2, <2>3, PTL DEF FairSpec, Supported, Finishes
<1>2. Premise => \A r \in Request : [](Executing(r, a) => <>Settled(a))
  BY <1>1
<1>3. (\A r \in Request : [](Executing(r, a) => <>Settled(a)))
        => [](\A r \in Request : (Executing(r, a) => <>Settled(a)))
  OBVIOUS
<1>4. (\A r \in Request : (Executing(r, a) => <>Settled(a)))
        => ((\E r \in Request : Executing(r, a)) => <>Settled(a))
  OBVIOUS
<1>5. TypeOK /\ (faults = 0 => Stranded = {}) /\ status[a] = "approved"
        => Settled(a) \/ \E r \in Request : Executing(r, a)
  BY ParametersOK DEF TypeOK, Stranded, Attended, Settled, LeftByFault
<1>6. Premise => [](status[a] = "approved" => <>Settled(a))
  BY <1>2, <1>3, <1>4, <1>5, TypeCorrect, NothingIsStranded, PTL DEF FairSpec
<1> QED
  BY <1>6, PTL

----------------------------------------------------------------------------
(* An automatic action leaves PENDING.                                     *)

\* Without a fault, only the consumer moves on.
LEMMA OthersKeepConsumer ==
  ASSUME TypeOK, cpc # "idle", [Next]_vars, ~ConsumerStep, ~FaultStep
  PROVE  cpc' = cpc /\ acting' = acting
<1> USE DEF TypeOK, table, logs, consumer, requests, history
<1>1. CASE Scan
  BY <1>1 DEF Scan
<1>2. ASSUME NEW r \in Request, NEW a \in Action, Approve(r, a) \/ Reject(r, a) \/ Override(r, a)
      PROVE cpc' = cpc /\ acting' = acting
  BY <1>2 DEF Approve, Reject, Override
<1>3. ASSUME NEW r \in Request, RequestStep(r)
      PROVE cpc' = cpc /\ acting' = acting
  BY <1>3 DEF RequestStep, RecordApproval, ExecuteApproved, ExecuteFails, ExecuteNothing,
              ConfirmApproved, CompleteApproved, FailApproved, Dequeue, Undo, UndoFails,
              UndoNothing, MarkOverridden, RelabelAnomaly
<1>4. CASE \/ AutoRelease \/ UNCHANGED vars \/ \E n \in Anomaly : PatchAnomaly(n)
           \/ \E e \in Entity : HoldByHand(e) \/ ReleaseByHand(e)
  BY <1>4 DEF AutoRelease, vars, PatchAnomaly, HoldByHand, ReleaseByHand, SetEntity
<1> QED
  BY <1>1, <1>2, <1>3, <1>4 DEF Next

\* What each step of an automatic execution comes to.
LEMMA DispatchAdvances ==
  ASSUME TypeOK, ConsumerStep, acting \in Action
  PROVE  /\ cpc = "dispatch" => cpc' \in {"confirm", "close"} /\ acting' = acting
         /\ cpc = "confirm" => cpc' = "close" /\ acting' = acting
         /\ cpc = "close" => status'[acting] # "pending"
<1> USE DEF TypeOK, table, consumer
<1>1. CASE \/ PersistAnomaly \/ FinishTask \/ Decline \/ PersistAction
           \/ QueueingFails \/ Requeue \/ Enqueue \/ MarkAnomaly
  BY <1>1 DEF PersistAnomaly, FinishTask, Decline, PersistAction, QueueingFails, Requeue,
              Enqueue, MarkAnomaly
<1>2. CASE DispatchEffect \/ DispatchFails \/ DispatchFlag \/ DispatchNotice
  BY <1>2 DEF DispatchEffect, DispatchFails, DispatchFlag, DispatchNotice
<1>3. CASE ConfirmEffect \/ CloseAction
  BY <1>3 DEF ConfirmEffect, CloseAction
<1> QED
  BY <1>1, <1>2, <1>3 DEF ConsumerStep

\* The consumer brings every automatic action out of PENDING, whatever its
\* handler does and whoever writes the same rows, unless a fault meets it there:
\* for any number of faults.
THEOREM PendingActionsClose == FairSpec /\ []NobodyIsStuck => PendingIsClosed
<1> SUFFICES ASSUME NEW a \in Action
             PROVE  FairSpec /\ []NobodyIsStuck
                      => (status[a] = "pending" ~> status[a] # "pending" \/ LeftByFault(a))
  BY DEF PendingIsClosed
<1> DEFINE P1 == acting = a /\ cpc = "dispatch"
           P2 == acting = a /\ cpc = "confirm"
           P3 == acting = a /\ cpc = "close"
           Open == status[a] = "pending"
           G == status[a] # "pending" \/ LeftByFault(a)
           E == ENABLED <<ConsumerStep>>_vars
<1>1. TypeOK /\ P1 /\ ConsumerStep => P2' \/ P3'
  BY DispatchAdvances
<1>2. TypeOK /\ P2 /\ ConsumerStep => P3'
  BY DispatchAdvances
<1>3. TypeOK /\ P3 /\ ConsumerStep => G'
  BY DispatchAdvances
<1>4. ASSUME TypeOK, P1 \/ P2 \/ P3, [Next]_vars, ~ConsumerStep
      PROVE  \/ G'
             \/ cpc' = cpc /\ acting' = acting
             \/ (P1 \/ P2) /\ P3'
  <2>1. CASE FaultStep /\ status[a] = "pending" /\ faults' = faults + 1
    <3>1. status' = status /\ faults' > 0
      BY <1>4, <2>1, FaultsWriteNothing, ParametersOK DEF table, TypeOK
    <3>2. CASE StatementFails \/ Crash
      <4>1. cpc' \notin {"dispatch", "confirm", "close"}
        BY <3>2 DEF StatementFails, Crash, NextDetection
      <4> QED
        BY <2>1, <3>1, <4>1 DEF LeftByFault, Stranded, Attended, Running
    <3>3. CASE HandlerFails
      <4>1. cpc \in {"dispatch", "confirm"} /\ cpc' = "close" /\ acting' = acting
        BY <3>3 DEF HandlerFails
      <4> QED
        BY <1>4, <4>1
    <3>4. ASSUME NEW r \in Request, RequestFails(r)
          PROVE  cpc' = cpc /\ acting' = acting
      BY <3>4 DEF RequestFails, consumer
    <3> QED
      BY <2>1, <3>2, <3>3, <3>4 DEF FaultStep
  <2>2. CASE ~FaultStep
    BY <1>4, <2>2, OthersKeepConsumer
  <2>3. CASE FaultStep /\ status[a] # "pending"
    BY <2>3, FaultsWriteNothing DEF table
  <2>4. CASE FaultStep /\ faults' = faults
    BY <1>4, <2>4, FaultsAdd, ParametersOK DEF TypeOK
  <2> QED
    BY <1>4, <2>1, <2>2, <2>3, <2>4, FaultsCount
<1>5. /\ TypeOK /\ P1 /\ [Next]_vars /\ ~ConsumerStep => P1' \/ P3' \/ G'
      /\ TypeOK /\ P2 /\ [Next]_vars /\ ~ConsumerStep => P2' \/ P3' \/ G'
      /\ TypeOK /\ P3 /\ [Next]_vars /\ ~ConsumerStep => P3' \/ G'
  BY <1>4
<1>6. NobodyIsStuck /\ (P1 \/ P2 \/ P3) => E
  BY DEF NobodyIsStuck, ConsumerCanGoOn
<1>7. TypeOK /\ (faults = 0 => Stranded = {}) /\ Open => P1 \/ P2 \/ P3 \/ G
  BY ParametersOK DEF TypeOK, Stranded, Attended, Running, LeftByFault
<1> HIDE DEF P1, P2, P3, Open, G
<1>8. Spec /\ WF_vars(ConsumerStep) /\ []NobodyIsStuck => [](Open => <>G)
  BY <1>1, <1>2, <1>3, <1>5, <1>6, <1>7, TypeCorrect, NothingIsStranded, PTL DEF Spec
<1>9. Fairness => ConsumerGoesOn
  BY DEF Fairness
<1> QED
  BY <1>8, <1>9, PTL DEF FairSpec, ConsumerGoesOn, Open, G
----------------------------------------------------------------------------
(* Reviewers who do not wait for the queue.                                *)

\* Decisions taken on an action.
Given(a) == approvals[a] + rejections[a]

\* An action has at most one verdict more than the consumer has re-opened it,
\* and that happens once: between the INSERT and the first statement of
\* enqueue_for_approval there is room for one decision, after it for another.
Reopened ==
  \A a \in Action :
    /\ Given(a) <= 2
    /\ status[a] = "pending_approval" => Given(a) <= 1
    /\ cpc = "requeue" /\ acting = a =>
         Given(a) <= 1 /\ (status[a] = "pending_approval" => Given(a) = 0)

LEMMA ReopenedStep == TypeOK /\ Fresh /\ Sorted /\ Reopened /\ [Next]_vars => Reopened'
<1> SUFFICES ASSUME TypeOK, Fresh, Sorted, Reopened, [Next]_vars PROVE Reopened'
  OBVIOUS
<1> USE DEF TypeOK, Fresh, Reopened, Given, HasAction, table, logs, consumer, requests, history
<1>1. CASE Scan \/ FinishTask
  BY <1>1 DEF Scan, FinishTask
<1>2. CASE PersistAnomaly
  BY <1>2 DEF PersistAnomaly
<1>3. CASE PersistAction
  BY <1>3 DEF PersistAction, FreeActions
<1>4. CASE Decline \/ QueueingFails \/ MarkAnomaly
  BY <1>4 DEF Decline, QueueingFails, MarkAnomaly, NextDetection
<1>5. CASE Requeue \/ Enqueue
  BY <1>5 DEF Requeue, Enqueue
<1>6. CASE DispatchEffect \/ DispatchFails \/ DispatchFlag \/ DispatchNotice
  BY <1>6 DEF DispatchEffect, Apply, DispatchFails, DispatchFlag, DispatchNotice
<1>7. CASE ConfirmEffect
  BY <1>7 DEF ConfirmEffect
<1>8. CASE CloseAction
  BY <1>8 DEF CloseAction, Sorted
<1>9. ASSUME NEW r \in Request, NEW a \in Action, Approve(r, a) \/ Reject(r, a) \/ Override(r, a)
      PROVE Reopened'
  BY <1>9 DEF Approve, Reject, Override, Goto
<1>10. ASSUME NEW r \in Request, RequestStep(r)
       PROVE Reopened'
  <2> USE DEF Goto, Return
  <2>1. CASE \/ RecordApproval(r) \/ Dequeue(r) \/ ExecuteApproved(r) \/ ExecuteFails(r)
             \/ ExecuteNothing(r) \/ Undo(r) \/ UndoFails(r) \/ UndoNothing(r) \/ RelabelAnomaly(r)
    BY <2>1 DEF RecordApproval, Dequeue, ExecuteApproved, Apply, ExecuteFails,
                ExecuteNothing, Undo, UndoFails, UndoNothing, RelabelAnomaly
  <2>2. CASE ConfirmApproved(r) \/ CompleteApproved(r) \/ FailApproved(r) \/ MarkOverridden(r)
    BY <2>2 DEF ConfirmApproved, CompleteApproved, FailApproved, MarkOverridden, SetStatus
  <2> QED
    BY <1>10, <2>1, <2>2 DEF RequestStep
<1>11. CASE \/ AutoRelease \/ UNCHANGED vars \/ \E n \in Anomaly : PatchAnomaly(n)
            \/ \E e \in Entity : HoldByHand(e) \/ ReleaseByHand(e)
  BY <1>11 DEF AutoRelease, vars, PatchAnomaly, HoldByHand, ReleaseByHand, SetEntity
<1>12. CASE FaultStep
  BY <1>12 DEF FaultStep, StatementFails, HandlerFails, RequestFails, Crash, NextDetection
<1> QED
  BY <1>1, <1>2, <1>3, <1>4, <1>5, <1>6, <1>7, <1>8, <1>9, <1>10, <1>11, <1>12 DEF Next, ConsumerStep

\* What is left of DecidedOnce and AppliedOnce when reviewers act on ids they
\* know from GET /api/actions/ before the queue row is there: whoever decides
\* and whatever faults, two verdicts and two effects, and the second effect
\* only where a human decided.
AtMostTwice ==
  \A a \in Action :
    /\ Given(a) <= 2
    /\ applied[a] <= IF AboveLimit(a) THEN approvals[a] ELSE 1

THEOREM DecidedAtMostTwice == Spec => []AtMostTwice
<1>1. Init => Reopened
  BY DEF Init, Reopened, Given
<1>2. Reopened /\ Sorted /\ GateRespected => AtMostTwice
  BY DEF Reopened, Sorted, GateRespected, AtMostTwice
<1> QED
  BY <1>1, <1>2, ReopenedStep, TypesHold, FreshHolds, SortedHolds, GateIsRespected, PTL DEF Spec
=============================================================================
