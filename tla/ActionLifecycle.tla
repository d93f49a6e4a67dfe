-------------------------- MODULE ActionLifecycle --------------------------
(***************************************************************************)
(* The life of one cost-saving action: the consumer task detects an       *)
(* anomaly, decides, persists the action and either applies it or queues   *)
(* it for a human; HTTP handlers approve, reject or override it; operators *)
(* and the scheduler touch the same business rows.                         *)
(*                                                                         *)
(* Every coroutine runs on one event loop over autocommitting SQL          *)
(* statements, so a step of the model is what runs between two awaits:     *)
(* at most one write.  The consumer is one process, each HTTP request is   *)
(* another, and the steps of all of them interleave.  A statement may fail  *)
(* (the pool times it out after 30 s, the connection breaks): it has then   *)
(* changed nothing, and the exception goes where the code catches it.       *)
(***************************************************************************)
EXTENDS Integers, FiniteSets

CONSTANTS
  Action,           \* ids of rows of actions_taken (bounds the rows)
  Anomaly,          \* ids of rows of anomaly_logs (bounds the rows)
  Request,          \* HTTP requests that can be in flight at once
  Invoice,          \* rows of transactions the duplicate scan sees
  License,          \* rows of licenses
  Ticket,           \* rows of sla_metrics
  Quote,            \* those of them the pricing scan reports
  Pair,             \* <<original, duplicate>>: same vendor, amount, window
  Amount,           \* what a detection says is at stake, per finding
  AutoApproveLimit, \* settings.AUTO_APPROVE_LIMIT
  Estimate,         \* cost_impact_inr values the LLM may answer
  Reasoned,         \* findings of HIGH or CRITICAL severity
  JsonDecoded,      \* does the driver hand jsonb columns over as dicts?
  ReviewFromQueue,  \* do reviewers act only on rows of the approval queue?
  PatchStatus,      \* statuses PATCH /anomalies/{id}/status and dismiss write
  MaxFaults,        \* bound on crashes and failing statements
  None              \* SQL NULL / Python None

Entity == Invoice \cup License \cup Ticket

\* A finding is an anomaly type and the row it is about.  One transaction can
\* be both a duplicate and too dear.
Duplicate(i) == <<"duplicate_payment", i>>
Finding ==
  {Duplicate(i) : i \in Invoice} \cup ({"unused_subscription"} \X License)
    \cup ({"sla_risk"} \X Ticket) \cup ({"pricing_anomaly"} \X Quote)

\* The classes of business rows are different tables; the amounts are rupees.
ASSUME EntitiesAreDistinct ==
  Invoice \cap License = {} /\ Invoice \cap Ticket = {} /\ License \cap Ticket = {}
ASSUME NoneIsNoRow == None \notin Entity \cup Finding \cup Anomaly \cup Action
ASSUME ParametersOK ==
  /\ Quote \subseteq Invoice /\ Pair \subseteq Invoice \X Invoice
  /\ Amount \in [Finding -> Int] /\ AutoApproveLimit \in Int
  /\ Estimate \subseteq Int /\ Reasoned \subseteq Finding
  /\ JsonDecoded \in BOOLEAN /\ ReviewFromQueue \in BOOLEAN
  /\ PatchStatus \subseteq {"active", "investigating", "dismissed", "resolved"}
  /\ MaxFaults \in Nat
ASSUME RequestsAreFinite == IsFiniteSet(Request)
ASSUME PairsAreFinite == IsFiniteSet(Pair)

----------------------------------------------------------------------------
VARIABLES
  status,     \* actions_taken.status, "absent" before the INSERT
  row,        \* the columns of actions_taken that are never updated
  queue,      \* the action's row of approval_queue
  entity,     \* status of the business rows
  anomaly,    \* anomaly_logs.status, "absent" before the INSERT
  subject,    \* anomaly_logs.anomaly_type and .entity_id
  cpc,        \* where the consumer task is
  batch,      \* detections of the current scan still to be handled, each with
              \* the row it was found beside (the original of a duplicate)
  detected,   \* finding of the detection being handled
  logged,     \* its anomaly id
  acting,     \* its action id
  outcome,    \* ActionResult.action_state of the action being executed
  rpc,        \* where each HTTP request is
  about,      \* the action each HTTP request is about
  approvals,  \* history: times each action was approved
  rejections, \* history: times each action was rejected
  applied,    \* history: times each action's effect was written
  undone,     \* history: times each action's effect was rolled back
  faults      \* crashes and failed statements so far

table    == <<status, row, queue>>
logs     == <<anomaly, subject>>
consumer == <<cpc, batch, detected, logged, acting, outcome>>
requests == <<rpc, about>>
history  == <<approvals, rejections, applied, undone>>
vars     == <<table, entity, logs, consumer, requests, history, faults>>

Effectful == {"payment_hold", "license_deactivated", "sla_escalation"}
Kind == Effectful \cup {"vendor_renegotiation_flag", "email_sent"}

\* Under which key the details name the entity: "direct" for invoice_id,
\* license_id or ticket_id, "evidence" for what the detection itself carries
\* (duplicate_id for an invoice), "none" when no key the handler reads is there,
\* "malformed" when a model's details are null or otherwise no JSON object.
Ref == {"none", "evidence", "direct", "malformed"}

Row == [kind : Kind, target : Entity, anomaly : Anomaly, cost : Int, ref : Ref]
NoRow == [kind |-> "email_sent", target |-> None, anomaly |-> None,
          cost |-> 0, ref |-> "none"]

Status == {"absent", "pending", "pending_approval", "approved", "rejected",
           "success", "failed", "overridden"}
EntityStatus == {"pending", "approved", "held", "active", "inactive",
                 "open", "escalated"}
AnomalyStatus == {"absent", "detected", "actioned", "pending_approval",
                  "overridden"} \cup PatchStatus

ConsumerPC == {"idle", "loop", "decide", "requeue", "enqueue", "dispatch",
               "confirm", "close", "mark"}
RequestPC == {"idle", "record", "execute", "confirm", "complete", "fail",
              "dequeue", "undo", "override", "relabel"}

TypeOK ==
  /\ status \in [Action -> Status]
  /\ row \in [Action -> Row \cup {NoRow}]
  /\ queue \in [Action -> {"none", "pending", "approved", "deleted"}]
  /\ entity \in [Entity -> EntityStatus]
  /\ anomaly \in [Anomaly -> AnomalyStatus]
  /\ subject \in [Anomaly -> Finding \cup {None}]
  /\ cpc \in ConsumerPC
  /\ batch \subseteq Entity \X Finding
  /\ detected \in Finding \cup {None}
  /\ logged \in Anomaly \cup {None}
  /\ acting \in Action \cup {None}
  /\ outcome \in {"pending_approval", "success", "failed"}
  /\ rpc \in [Request -> RequestPC]
  /\ about \in [Request -> Action \cup {None}]
  /\ approvals \in [Action -> Nat]
  /\ rejections \in [Action -> Nat]
  /\ applied \in [Action -> Nat]
  /\ undone \in [Action -> Nat]
  /\ faults \in 0..MaxFaults

----------------------------------------------------------------------------
(* Pure parts of the code.                                                 *)

\* The operators named X_... are slips of X: what a plausible bug would make of
\* it, kept to show that the properties notice.
RequiresApproval_OffByOne(cost) == cost > AutoApproveLimit + 1

\* requires_approval: strictly above the limit.
RequiresApproval(cost) == cost > AutoApproveLimit

\* The action a detection maps to when no model answers.
DefaultAction(f) ==
  CASE f[1] = "duplicate_payment"   -> "payment_hold"
    [] f[1] = "unused_subscription" -> "license_deactivated"
    [] f[1] = "sla_risk"            -> "sla_escalation"
    [] OTHER                        -> "vendor_renegotiation_flag"

\* _auto_decision, and DecisionAgent's fallback when the model fails.
DefaultDecision(f) ==
  [kind |-> DefaultAction(f), target |-> f[2], cost |-> Amount[f],
   ref |-> "evidence"]

\* The rows a handler's UPDATE can name.
TargetsOf(kind) ==
  CASE kind = "payment_hold"        -> Invoice
    [] kind = "license_deactivated" -> License
    [] OTHER                        -> Ticket

\* What DecisionAgent._parse_response may return for a model's answer and
\* _persist_action can insert: any action type, details naming any row of its
\* table, any estimate.  Details name a row only where a handler reads one, and
\* need be an object only there.
Answers(f) ==
  {d \in [kind : Kind, target : Entity, cost : Estimate, ref : Ref] :
     IF d.kind \in Effectful THEN d.target \in TargetsOf(d.kind) /\ d.ref # "malformed"
                             ELSE d.target = f[2] /\ d.ref \in {"none", "malformed"}}

Decisions(f) ==
  {DefaultDecision(f)} \cup (IF f \in Reasoned THEN Answers(f) ELSE {})

\* The WHERE clause and the SET of the handlers' UPDATE: hold_payment takes a
\* row in any status, the other two insist on theirs.
Applicable(kind, s) ==
  \/ kind = "payment_hold"
  \/ kind = "license_deactivated" /\ s = "active"
  \/ kind = "sla_escalation" /\ s = "open"

Effect(kind) ==
  CASE kind = "payment_hold"        -> "held"
    [] kind = "license_deactivated" -> "inactive"
    [] OTHER                        -> "escalated"

\* The handlers that have a rollback, what it expects and what it writes.
Restorable == {"payment_hold", "license_deactivated"}
Restored(kind) == IF kind = "payment_hold" THEN "approved" ELSE "active"

\* Can _execute_approved_action find the entity in the stored payload?  It
\* indexes the jsonb value, and only under invoice_id for a payment.
Readable(a) ==
  /\ JsonDecoded
  /\ \/ row[a].ref = "direct"
     \/ row[a].ref = "evidence" /\ row[a].kind # "payment_hold"

\* May a reviewer know the id?  GET /api/approvals/ lists queue rows only,
\* GET /api/actions/ lists every action.
Known(a) == ReviewFromQueue => queue[a] # "none"

----------------------------------------------------------------------------
(* Detection.                                                              *)

\* Slip: only what is done already is left out, not what waits for a human.
AlreadyHeld_DoneOnly(i) ==
  \E a \in Action : /\ status[a] = "success" /\ row[a].kind = "payment_hold"
                    /\ subject[row[a].anomaly] = Duplicate(i)

\* Invoices the duplicate scan leaves out: a duplicate_payment anomaly of theirs
\* already has a payment_hold that is open or done.
AlreadyHeld(i) ==
  \E a \in Action : /\ status[a] \in {"success", "pending_approval", "approved"}
                    /\ row[a].kind = "payment_hold"
                    /\ subject[row[a].anomaly] = Duplicate(i)

DuplicateScan ==
  {<<p[1], Duplicate(p[2])>> : p \in
     {q \in Pair : /\ entity[q[1]] \in {"approved", "pending"}
                   /\ entity[q[2]] \in {"approved", "pending"}
                   /\ ~AlreadyHeld(q[2])}}

\* Detections of a class of single rows in a given state.
RowScan(type, S, open) == {<<e, <<type, e>>>> : e \in {x \in S : entity[x] \in open}}

\* What one task can find.  The duplicate scan reports every pair; how full
\* the other reports are depends on clocks and thresholds.
Scans ==
  {DuplicateScan}
    \cup (SUBSET RowScan("unused_subscription", License, {"active"}))
    \cup (SUBSET RowScan("sla_risk", Ticket, {"open"}))
    \cup (SUBSET RowScan("pricing_anomaly", Quote, {"approved", "pending"}))

FreeActions == {a \in Action : status[a] = "absent"}
FreeAnomalies == {n \in Anomaly : anomaly[n] = "absent"}

\* Can the decision on a finding be a vendor flag?
MayFlag(f) == f \in Reasoned \/ f[1] = "pricing_anomaly"

\* Bound: a scan is taken only if the row ids suffice for what it finds (an
\* action and an anomaly each, and the one more that a vendor flag inserts).
Fits(found) ==
  /\ Cardinality(found) <= Cardinality(FreeActions)
  /\ Cardinality(found) + Cardinality({d \in found : MayFlag(d[2])})
       <= Cardinality(FreeAnomalies)

\* A task is dequeued and AnomalyDetectionAgent.run returns its findings.
Scan ==
  /\ cpc = "idle"
  /\ \E found \in Scans :
       /\ found # {} /\ Fits(found)
       /\ batch' = found
  /\ cpc' = "loop"
  /\ UNCHANGED <<table, entity, logs, detected, logged, acting, outcome,
                 requests, history, faults>>

\* The anomaly of a recent action on the same finding is taken again, unless it
\* is older than 24 hours.
Reusable(f) ==
  {n \in Anomaly : subject[n] = f /\ anomaly[n] \in {"actioned", "pending_approval"}}

PersistAnomaly ==
  /\ cpc = "loop"
  /\ \E d \in batch, n \in Anomaly :
       /\ batch' = batch \ {d}
       /\ detected' = d[2]
       /\ logged' = n
       /\ \/ n \in Reusable(d[2]) /\ UNCHANGED logs
          \/ /\ n \in FreeAnomalies
             /\ anomaly' = [anomaly EXCEPT ![n] = "detected"]
             /\ subject' = [subject EXCEPT ![n] = d[2]]
  /\ cpc' = "decide"
  /\ UNCHANGED <<table, entity, acting, outcome, requests, history, faults>>

\* The pipeline has handled its last detection; the consumer waits again.
FinishTask ==
  /\ cpc = "loop" /\ batch = {}
  /\ cpc' = "idle"
  /\ UNCHANGED <<table, entity, logs, batch, detected, logged, acting, outcome,
                 requests, history, faults>>

----------------------------------------------------------------------------
(* Decision and execution by the consumer.                                 *)

\* On to the next detection: the locals of the loop body are dead.
NextDetection ==
  /\ cpc' = "loop" /\ detected' = None /\ logged' = None
  /\ acting' = None /\ outcome' = "success"

\* The model answered no action, one that is not an ActionType, or one with an
\* effect whose details are no object: _persist_action raises before its INSERT.
Decline ==
  /\ cpc = "decide" /\ detected \in Reasoned
  /\ NextDetection
  /\ UNCHANGED <<table, entity, logs, batch, requests, history, faults>>

\* The decision is taken and _persist_action inserts the row.
PersistAction ==
  /\ cpc = "decide"
  /\ \E a \in FreeActions, d \in Decisions(detected) :
       LET gated == RequiresApproval(d.cost) IN
       /\ row' = [row EXCEPT ![a] =
            [kind |-> d.kind, target |-> d.target, anomaly |-> logged,
             cost |-> d.cost, ref |-> d.ref]]
       /\ status' = [status EXCEPT ![a] =
            IF gated THEN "pending_approval" ELSE "pending"]
       /\ acting' = a
       /\ cpc' = IF gated THEN "requeue" ELSE "dispatch"
  /\ UNCHANGED <<queue, entity, logs, batch, detected, logged, outcome,
                 requests, history, faults>>

\* Details that are no object cannot be unpacked into a rollback payload: the
\* argument of enqueue_for_approval raises, and run() logs it.
QueueingFails ==
  /\ cpc = "requeue" /\ row[acting].ref = "malformed"
  /\ NextDetection
  /\ UNCHANGED <<table, entity, logs, batch, requests, history, faults>>

\* enqueue_for_approval, first statement: the status is set again, whatever it
\* is by now.
Requeue ==
  /\ cpc = "requeue" /\ row[acting].ref # "malformed"
  /\ status' = [status EXCEPT ![acting] = "pending_approval"]
  /\ cpc' = "enqueue"
  /\ UNCHANGED <<row, queue, entity, logs, batch, detected, logged, acting,
                 outcome, requests, history, faults>>

\* enqueue_for_approval, second statement: the row reviewers see.
Enqueue ==
  /\ cpc = "enqueue"
  /\ queue' = [queue EXCEPT ![acting] = "pending"]
  /\ outcome' = "pending_approval"
  /\ cpc' = "mark"
  /\ UNCHANGED <<status, row, entity, logs, batch, detected, logged, acting,
                 requests, history, faults>>

\* Write an action's effect on the row it names.
Apply(a) ==
  /\ entity' = [entity EXCEPT ![row[a].target] = Effect(row[a].kind)]
  /\ applied' = [applied EXCEPT ![a] = @ + 1]
  /\ UNCHANGED <<approvals, rejections, undone>>

\* _dispatch of an action with an effect: the handler's UPDATE matches a row.
DispatchEffect ==
  /\ cpc = "dispatch"
  /\ row[acting].kind \in Effectful /\ row[acting].ref # "none"
  /\ Applicable(row[acting].kind, entity[row[acting].target])
  /\ Apply(acting)
  /\ cpc' = "confirm"
  /\ UNCHANGED <<table, logs, batch, detected, logged, acting, outcome,
                 requests, faults>>

\* May the handler raise?  The details name no row, or its UPDATE matches none;
\* the vendor_id of a model's flag is no uuid; the details are no object.
MayRaise(a) ==
  \/ /\ row[a].kind \in Effectful
     /\ row[a].ref = "none" \/ ~Applicable(row[a].kind, entity[row[a].target])
  \/ row[a].kind = "vendor_renegotiation_flag" /\ row[a].ref # "evidence"
  \/ row[a].ref = "malformed"

\* Slip: the handler's exception is logged and the action still succeeds.
DispatchFails_Swallowed ==
  /\ cpc = "dispatch" /\ MayRaise(acting)
  /\ outcome' = "success"
  /\ cpc' = "close"
  /\ UNCHANGED <<table, entity, logs, batch, detected, logged, acting,
                 requests, history, faults>>

\* _dispatch reports FAILED for what the handler raises.
DispatchFails ==
  /\ cpc = "dispatch" /\ MayRaise(acting)
  /\ outcome' = "failed"
  /\ cpc' = "close"
  /\ UNCHANGED <<table, entity, logs, batch, detected, logged, acting,
                 requests, history, faults>>

\* _flag_vendor: one more anomaly, already actioned; it is about the vendor a
\* model's details name (no row of this model) or, by default, about none.
DispatchFlag ==
  /\ cpc = "dispatch"
  /\ row[acting].kind = "vendor_renegotiation_flag" /\ row[acting].ref # "malformed"
  /\ \E n \in FreeAnomalies :
       /\ anomaly' = [anomaly EXCEPT ![n] = "actioned"]
       /\ subject' = [subject EXCEPT ![n] = None]
  /\ outcome' = "success"
  /\ cpc' = "close"
  /\ UNCHANGED <<table, entity, batch, detected, logged, acting,
                 requests, history, faults>>

\* An e-mail (best effort, its failure is swallowed), or a type no handler takes.
DispatchNotice ==
  /\ cpc = "dispatch"
  /\ row[acting].kind = "email_sent" /\ row[acting].ref # "malformed"
  /\ outcome' = "success"
  /\ cpc' = "close"
  /\ UNCHANGED <<table, entity, logs, batch, detected, logged, acting,
                 requests, history, faults>>

\* The handler marks the action SUCCESS itself; then the e-mail of a payment or
\* a ticket is awaited.  Formatting a ticket's mail fails on a model's details
\* whose numbers are words, and the dispatch then reports FAILED.
ConfirmEffect ==
  /\ cpc = "confirm"
  /\ status' = [status EXCEPT ![acting] = "success"]
  /\ outcome' \in IF row[acting].kind = "sla_escalation" /\ row[acting].ref = "direct"
                  THEN {"success", "failed"} ELSE {"success"}
  /\ cpc' = "close"
  /\ UNCHANGED <<row, queue, entity, logs, batch, detected, logged, acting,
                 requests, history, faults>>

\* Slip: only a success is written back.
CloseAction_SuccessOnly ==
  /\ cpc = "close"
  /\ status' = [status EXCEPT ![acting] = IF outcome = "success" THEN outcome ELSE @]
  /\ cpc' = "mark"
  /\ UNCHANGED <<row, queue, entity, logs, batch, detected, logged, acting,
                 outcome, requests, history, faults>>

\* execute(): the dispatch's verdict is written over whatever the status is.
CloseAction ==
  /\ cpc = "close"
  /\ status' = [status EXCEPT ![acting] = outcome]
  /\ cpc' = "mark"
  /\ UNCHANGED <<row, queue, entity, logs, batch, detected, logged, acting,
                 outcome, requests, history, faults>>

\* Slip: the action's state is stored as the anomaly's status.
MarkAnomaly_Raw ==
  /\ cpc = "mark"
  /\ anomaly' = [anomaly EXCEPT ![logged] = outcome]
  /\ NextDetection
  /\ UNCHANGED <<table, entity, subject, batch, requests, history, faults>>

\* _update_anomaly_status, unconditional.
MarkAnomaly ==
  /\ cpc = "mark"
  /\ anomaly' = [anomaly EXCEPT ![logged] =
       CASE outcome = "success"          -> "actioned"
         [] outcome = "pending_approval" -> "pending_approval"
         [] OTHER                        -> "detected"]
  /\ NextDetection
  /\ UNCHANGED <<table, entity, subject, batch, requests, history, faults>>

ConsumerStep ==
  \/ PersistAnomaly \/ FinishTask \/ Decline \/ PersistAction
  \/ QueueingFails \/ Requeue \/ Enqueue \/ DispatchEffect \/ DispatchFails \/ DispatchFlag
  \/ DispatchNotice \/ ConfirmEffect \/ CloseAction \/ MarkAnomaly

----------------------------------------------------------------------------
(* HTTP handlers.  A request whose first statement matches no row answers  *)
(* 404 and changes nothing, so a request is modelled from the first        *)
(* statement that does match.                                              *)

Goto(r, from, to) ==
  /\ rpc[r] = from
  /\ rpc' = [rpc EXCEPT ![r] = to]

\* The handler returns or raises.
Return(r, from) == Goto(r, from, "idle") /\ about' = [about EXCEPT ![r] = None]

\* Slip: the UPDATE has lost its condition on the status.
Approve_AnyStatus(r, a) ==
  /\ Goto(r, "idle", "record") /\ about' = [about EXCEPT ![r] = a]
  /\ Known(a) /\ status[a] # "absent"
  /\ status' = [status EXCEPT ![a] = "approved"]
  /\ approvals' = [approvals EXCEPT ![a] = @ + 1]
  /\ UNCHANGED <<row, queue, entity, logs, consumer, rejections, applied,
                 undone, faults>>

\* approve_action: the conditional UPDATE.
Approve(r, a) ==
  /\ Goto(r, "idle", "record") /\ about' = [about EXCEPT ![r] = a]
  /\ Known(a) /\ status[a] = "pending_approval"
  /\ status' = [status EXCEPT ![a] = "approved"]
  /\ approvals' = [approvals EXCEPT ![a] = @ + 1]
  /\ UNCHANGED <<row, queue, entity, logs, consumer, rejections, applied,
                 undone, faults>>

\* Slip: the queue row is left as it was.
RecordApproval_Skipped(r) ==
  /\ Goto(r, "record", "execute")
  /\ UNCHANGED <<table, entity, logs, consumer, about, history, faults>>

\* approve_action: the queue row follows, if there is one.
RecordApproval(r) ==
  /\ Goto(r, "record", "execute")
  /\ queue' = [queue EXCEPT ![about[r]] = IF @ = "pending" THEN "approved" ELSE @]
  /\ UNCHANGED <<status, row, entity, logs, consumer, about, history, faults>>

\* _execute_approved_action: the handler's UPDATE matches a row.
ExecuteApproved(r) ==
  LET a == about[r] IN
  /\ Goto(r, "execute", "confirm")
  /\ row[a].kind \in Effectful /\ Readable(a)
  /\ Applicable(row[a].kind, entity[row[a].target])
  /\ Apply(a)
  /\ UNCHANGED <<table, logs, consumer, about, faults>>

\* Can nothing but the handler's UPDATE fail?  A hold's amount may be a word.
Executable(a) == Readable(a) /\ row[a].kind # "payment_hold"

\* Slip: the exception escapes, and nobody writes FAILED.
ExecuteFails_Escapes(r) ==
  LET a == about[r] IN
  /\ Return(r, "execute")
  /\ row[a].kind \in Effectful
  /\ Executable(a) => ~Applicable(row[a].kind, entity[row[a].target])
  /\ UNCHANGED <<table, entity, logs, consumer, history, faults>>

\* The payload cannot be read, or the handler's UPDATE matches no row.
ExecuteFails(r) ==
  LET a == about[r] IN
  /\ Goto(r, "execute", "fail")
  /\ row[a].kind \in Effectful
  /\ Executable(a) => ~Applicable(row[a].kind, entity[row[a].target])
  /\ UNCHANGED <<table, entity, logs, consumer, about, history, faults>>

\* The other types have no branch: nothing runs and the action succeeds.
ExecuteNothing(r) ==
  /\ Goto(r, "execute", "complete")
  /\ row[about[r]].kind \notin Effectful
  /\ UNCHANGED <<table, entity, logs, consumer, about, history, faults>>

SetStatus(r, s) == status' = [status EXCEPT ![about[r]] = s]

\* The handler's own UPDATE to SUCCESS, then that of _execute_approved_action.
ConfirmApproved(r) ==
  /\ Goto(r, "confirm", "complete") /\ SetStatus(r, "success")
  /\ UNCHANGED <<row, queue, entity, logs, consumer, about, history, faults>>

CompleteApproved(r) ==
  /\ Return(r, "complete") /\ SetStatus(r, "success")
  /\ UNCHANGED <<row, queue, entity, logs, consumer, history, faults>>

FailApproved(r) ==
  /\ Return(r, "fail") /\ SetStatus(r, "failed")
  /\ UNCHANGED <<row, queue, entity, logs, consumer, history, faults>>

\* Slip: the UPDATE has lost its condition on the status.
Reject_AnyStatus(r, a) ==
  /\ Goto(r, "idle", "dequeue") /\ about' = [about EXCEPT ![r] = a]
  /\ Known(a) /\ status[a] # "absent"
  /\ status' = [status EXCEPT ![a] = "rejected"]
  /\ rejections' = [rejections EXCEPT ![a] = @ + 1]
  /\ UNCHANGED <<row, queue, entity, logs, consumer, approvals, applied,
                 undone, faults>>

\* reject_action: the conditional UPDATE, then the DELETE.
Reject(r, a) ==
  /\ Goto(r, "idle", "dequeue") /\ about' = [about EXCEPT ![r] = a]
  /\ Known(a) /\ status[a] = "pending_approval"
  /\ status' = [status EXCEPT ![a] = "rejected"]
  /\ rejections' = [rejections EXCEPT ![a] = @ + 1]
  /\ UNCHANGED <<row, queue, entity, logs, consumer, approvals, applied,
                 undone, faults>>

Dequeue(r) ==
  /\ Return(r, "dequeue")
  /\ queue' = [queue EXCEPT ![about[r]] = IF @ = "none" THEN @ ELSE "deleted"]
  /\ UNCHANGED <<status, row, entity, logs, consumer, history, faults>>

\* override_action: the SELECT of an action in SUCCESS.
Override(r, a) ==
  /\ Goto(r, "idle", "undo") /\ about' = [about EXCEPT ![r] = a]
  /\ status[a] = "success"
  /\ UNCHANGED <<table, entity, logs, consumer, history, faults>>

\* _execute_rollback, for the types that have one: the payload must be a dict
\* and the row still as the action left it.
Undo(r) ==
  LET a == about[r] IN
  /\ Goto(r, "undo", "override")
  /\ row[a].kind \in Restorable /\ JsonDecoded
  /\ entity[row[a].target] = Effect(row[a].kind)
  /\ entity' = [entity EXCEPT ![row[a].target] = Restored(row[a].kind)]
  /\ undone' = [undone EXCEPT ![a] = @ + 1]
  /\ UNCHANGED <<table, logs, consumer, about, approvals, rejections, applied,
                 faults>>

\* Slip: the rollback's failure is swallowed and the override goes on.
UndoFails_Swallowed(r) ==
  LET a == about[r] IN
  /\ Goto(r, "undo", "override")
  /\ row[a].kind \in Restorable
  /\ JsonDecoded => entity[row[a].target] # Effect(row[a].kind)
  /\ UNCHANGED <<table, entity, logs, consumer, about, history, faults>>

\* Otherwise the handler raises and the request ends with an error.
UndoFails(r) ==
  LET a == about[r] IN
  /\ Return(r, "undo")
  /\ row[a].kind \in Restorable
  /\ JsonDecoded => entity[row[a].target] # Effect(row[a].kind)
  /\ UNCHANGED <<table, entity, logs, consumer, history, faults>>

\* Tickets, flags and e-mails have no rollback handler; a warning is logged.
UndoNothing(r) ==
  /\ Goto(r, "undo", "override")
  /\ row[about[r]].kind \notin Restorable
  /\ UNCHANGED <<table, entity, logs, consumer, about, history, faults>>

\* override_action: the action, unconditionally, and then its anomaly.
MarkOverridden(r) ==
  /\ Goto(r, "override", "relabel") /\ SetStatus(r, "overridden")
  /\ UNCHANGED <<row, queue, entity, logs, consumer, about, history, faults>>

RelabelAnomaly(r) ==
  /\ Return(r, "relabel")
  /\ anomaly' = [anomaly EXCEPT ![row[about[r]].anomaly] = "overridden"]
  /\ UNCHANGED <<table, entity, subject, consumer, history, faults>>

RequestStep(r) ==
  \/ RecordApproval(r) \/ ExecuteApproved(r) \/ ExecuteFails(r)
  \/ ExecuteNothing(r) \/ ConfirmApproved(r) \/ CompleteApproved(r)
  \/ FailApproved(r) \/ Dequeue(r) \/ Undo(r) \/ UndoFails(r) \/ UndoNothing(r)
  \/ MarkOverridden(r) \/ RelabelAnomaly(r)

----------------------------------------------------------------------------
(* Everything else that writes these rows.                                 *)

SetEntity(e, s) ==
  /\ entity' = [entity EXCEPT ![e] = s]
  /\ UNCHANGED <<table, logs, consumer, requests, history, faults>>

\* PATCH /api/transactions/{id}/hold takes any status, .../release only 'held'.
HoldByHand(e) == e \in Invoice /\ SetEntity(e, "held")
ReleaseByHand(e) == e \in Invoice /\ entity[e] = "held" /\ SetEntity(e, "approved")

\* auto_release_stale_holds: whatever has been held for 48 hours.
AutoRelease ==
  /\ \E S \in SUBSET {e \in Invoice : entity[e] = "held"} :
       /\ S # {}
       /\ entity' = [e \in Entity |-> IF e \in S THEN "pending" ELSE entity[e]]
  /\ UNCHANGED <<table, logs, consumer, requests, history, faults>>

\* An operator dismisses an anomaly or sets its status by hand.
PatchAnomaly(n) ==
  /\ anomaly[n] # "absent"
  /\ \E s \in PatchStatus : anomaly' = [anomaly EXCEPT ![n] = s]
  /\ UNCHANGED <<table, entity, subject, consumer, requests, history, faults>>

----------------------------------------------------------------------------
(* Faults.  A statement that fails has changed nothing.                    *)

Fault == faults < MaxFaults /\ faults' = faults + 1

\* A statement of the loop body fails outside the handler: run() logs the
\* exception and goes on to the next detection.
StatementFails ==
  /\ Fault
  /\ \/ cpc = "loop" /\ \E d \in batch : batch' = batch \ {d}
     \/ cpc \in {"decide", "requeue", "enqueue", "close", "mark"} /\ UNCHANGED batch
  /\ NextDetection
  /\ UNCHANGED <<table, entity, logs, requests, history>>

\* A statement of the handler fails, its effect or its own UPDATE to SUCCESS:
\* _dispatch reports FAILED.
HandlerFails ==
  /\ Fault
  /\ cpc \in {"dispatch", "confirm"} /\ row[acting].kind # "email_sent"
  /\ outcome' = "failed"
  /\ cpc' = "close"
  /\ UNCHANGED <<table, entity, logs, batch, detected, logged, acting, requests, history>>

\* A statement of a request fails.  Only the execution of an approved action
\* catches that, and writes FAILED; elsewhere the request ends with an error.
RequestFails(r) ==
  /\ Fault
  /\ \/ /\ rpc[r] \in {"execute", "confirm", "complete"}
        /\ rpc' = [rpc EXCEPT ![r] = "fail"] /\ UNCHANGED about
     \/ \E from \in {"record", "fail", "dequeue", "undo", "override", "relabel"} :
          Return(r, from)
  /\ UNCHANGED <<table, entity, logs, consumer, history>>

\* The process dies: the coroutines are gone, the committed rows stay, and the
\* next start recovers nothing.
Crash ==
  /\ Fault
  /\ cpc' = "idle" /\ batch' = {} /\ detected' = None /\ logged' = None
  /\ acting' = None /\ outcome' = "success"
  /\ rpc' = [r \in Request |-> "idle"]
  /\ about' = [r \in Request |-> None]
  /\ UNCHANGED <<table, entity, logs, history>>

FaultStep ==
  StatementFails \/ HandlerFails \/ Crash \/ \E r \in Request : RequestFails(r)

----------------------------------------------------------------------------
Init ==
  /\ status = [a \in Action |-> "absent"]
  /\ row = [a \in Action |-> NoRow]
  /\ queue = [a \in Action |-> "none"]
  /\ entity = [e \in Entity |-> CASE e \in License -> "active"
                                  [] e \in Ticket  -> "open"
                                  [] OTHER         -> "pending"]
  /\ anomaly = [n \in Anomaly |-> "absent"]
  /\ subject = [n \in Anomaly |-> None]
  /\ cpc = "idle" /\ batch = {} /\ detected = None /\ logged = None
  /\ acting = None /\ outcome = "success"
  /\ rpc = [r \in Request |-> "idle"]
  /\ about = [r \in Request |-> None]
  /\ approvals = [a \in Action |-> 0]
  /\ rejections = [a \in Action |-> 0]
  /\ applied = [a \in Action |-> 0]
  /\ undone = [a \in Action |-> 0]
  /\ faults = 0

Next ==
  \/ Scan \/ ConsumerStep
  \/ \E r \in Request, a \in Action : Approve(r, a) \/ Reject(r, a) \/ Override(r, a)
  \/ \E r \in Request : RequestStep(r)
  \/ \E e \in Entity : HoldByHand(e) \/ ReleaseByHand(e)
  \/ AutoRelease
  \/ \E n \in Anomaly : PatchAnomaly(n)
  \/ FaultStep

Spec == Init /\ [][Next]_vars

\* The event loop runs every ready coroutine; nobody has to send a request,
\* and no task has to arrive.
ConsumerGoesOn == WF_vars(ConsumerStep)
RequestGoesOn(r) == WF_vars(RequestStep(r))
Fairness == ConsumerGoesOn /\ \A r \in Request : RequestGoesOn(r)

FairSpec == Spec /\ Fairness

----------------------------------------------------------------------------
(* What makes the lifecycle correct.                                       *)

AboveLimit(a) == row[a].cost > AutoApproveLimit

\* The gate (blueprint 8A, requires_approval): the effect of an action above
\* the limit is written at most once per approval of that very action, by
\* whichever coroutine, and whatever fails in between.
GateRespected ==
  \A a \in Action : AboveLimit(a) => applied[a] <= approvals[a]

\* An action reported SUCCESS that claims to hold a payment, deactivate a
\* licence or escalate a ticket has really written that: no path closes it
\* as a success on the strength of a stale or failed execution.
SuccessMeansApplied ==
  \A a \in Action : status[a] = "success" /\ row[a].kind \in Effectful => applied[a] > 0

\* An action above the limit counts as done (and its cost_saved as saved) only
\* after an approval, whatever its type: also those nothing executes.
SuccessMeansApproved ==
  \A a \in Action :
    status[a] = "success" /\ AboveLimit(a) => approvals[a] > 0

\* One human decision per action (the conditional UPDATEs of approve_action and
\* reject_action), also with two reviewers at once and with the consumer still
\* inside enqueue_for_approval.
DecidedOnce == \A a \in Action : approvals[a] + rejections[a] <= 1

\* An action's effect is written at most once.
AppliedOnce == \A a \in Action : applied[a] <= 1

\* What was rejected has no effect.
RejectedNeverExecuted == \A a \in Action : rejections[a] > 0 => applied[a] = 0

\* reject_action: "Action is never executed."  A rejected action stays rejected;
\* enqueue_for_approval sets PENDING_APPROVAL unconditionally, so this hangs on
\* nobody reviewing before it is done.
RejectedIsFinal ==
  [][\A a \in Action : status[a] = "rejected" => status'[a] = "rejected"]_vars

\* The same for an overridden action; _dispatch and _execute_approved_action
\* write their verdict unconditionally after the handler has written SUCCESS.
OverriddenIsFinal ==
  [][\A a \in Action : status[a] = "overridden" => status'[a] = "overridden"]_vars

\* The holds that are open or done for one detected duplicate.
OpenHolds(i) ==
  {a \in Action : /\ status[a] \in {"success", "pending_approval", "approved"}
                  /\ row[a].kind = "payment_hold"
                  /\ subject[row[a].anomaly] = Duplicate(i)}

\* _persist_anomaly: "Skipping duplicate detection for entity %s (already
\* actioned)".  Nothing is skipped but the INSERT of the anomaly.
OneOpenHold == \A i \in Invoice : Cardinality(OpenHolds(i)) <= 1

\* scan_duplicates leaves out what is already held or waiting for approval, so
\* holds on an invoice come from a single scan: no more of them are ever open or
\* done than there are invoices it duplicates, whatever later scans find while
\* earlier holds wait, fail, or are rejected, overridden or released.
HoldsWithinOneScan ==
  \A i \in Invoice : Cardinality(OpenHolds(i)) <= Cardinality({p \in Pair : p[2] = i})

\* Is some coroutine between its UPDATE of actions_taken and its write to
\* approval_queue?
MidReview(a) ==
  \/ cpc \in {"requeue", "enqueue"} /\ acting = a
  \/ \E r \in Request : rpc[r] \in {"record", "dequeue"} /\ about[r] = a

\* Does the queue show action a exactly while it waits (schema.sql), except while
\* a coroutine is between the two writes?
Mirrors(a) == MidReview(a) \/ (queue[a] = "pending" <=> status[a] = "pending_approval")

\* What one fault can catch half done: the consumer's action and one per request.
InOneFault == Cardinality(Request) + 1

\* approval_queue "mirrors actions_taken for high-cost items awaiting sign-off"
\* (schema.sql), but for a gated action whose details are no object, which never
\* gets there.  Faults alone tear the two tables apart, each for what it catches
\* between the two writes; later reviews of other actions spread no damage.
QueueMirrorsActions ==
  Cardinality({a \in Action : ~Mirrors(a) /\ row[a].ref # "malformed"})
    <= faults * InOneFault

\* An overridden hold or deactivation was rolled back, not merely relabelled.
OverriddenIsUndone ==
  \A a \in Action : status[a] = "overridden" /\ row[a].kind \in Restorable => undone[a] > 0

\* approvals.py: "Approve a pending action and trigger its execution."  A hold
\* can always be placed (its UPDATE takes any status), so an approved one must
\* not end FAILED.
ApprovedHoldRuns ==
  \A a \in Action :
    row[a].kind = "payment_hold" /\ approvals[a] > 0 => status[a] # "failed"

\* Is request r bringing the approved action a to its end?
Executing(r, a) ==
  about[r] = a /\ rpc[r] \in {"record", "execute", "confirm", "complete", "fail"}

\* Is the consumer running the automatic action a?
Running(a) == acting = a /\ cpc \in {"dispatch", "confirm", "close"}

\* An action that is APPROVED or PENDING should have a coroutine at work on it.
Attended(a) ==
  /\ status[a] = "approved" => \E r \in Request : Executing(r, a)
  /\ status[a] = "pending" => Running(a)
Stranded == {a \in Action : ~Attended(a)}

\* An action stays APPROVED or PENDING only while a coroutine is at work on it,
\* whoever else decides, overrides or re-queues it.  Faults alone strand any:
\* each at most the one the consumer runs and one per request in flight, and
\* without a crash or a failing statement there is none.
FaultsStrandFew ==
  Cardinality(Stranded) <= faults * InOneFault

LeftByFault(a) == faults > 0 /\ a \in Stranded

\* An approved action is executed one way or the other, unless a fault
\* strikes it.
ApprovedIsClosed ==
  \A a \in Action :
    status[a] = "approved"
      ~> status[a] \in {"success", "failed", "overridden"} \/ LeftByFault(a)

\* An automatic action leaves PENDING, unless a fault strikes it.
PendingIsClosed ==
  \A a \in Action : status[a] = "pending" ~> status[a] # "pending" \/ LeftByFault(a)

\* The contract, read off the stored status: what a reader of actions_taken
\* concludes about the gate from the row alone.
VerdictOf(a) ==
  CASE status[a] = "absent"           -> "absent"
    [] status[a] = "pending_approval" -> "awaiting"
    [] status[a] = "rejected"         -> "refused"
    [] OTHER -> IF AboveLimit(a) THEN "authorised" ELSE "automatic"

Abstract == INSTANCE ActionContract
              WITH verdict <- [a \in Action |-> VerdictOf(a)], effects <- applied

\* The pipeline and the HTTP handlers implement the contract.
ImplementsContract == Abstract!Contract

=============================================================================
