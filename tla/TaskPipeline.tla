---------------------------- MODULE TaskPipeline ----------------------------
(***************************************************************************)
(* From a published task to its audit record: scheduler jobs and the demo  *)
(* endpoints push tasks onto the Redis list ci:tasks, the one consumer task *)
(* pops them and runs the pipeline, and every run, failing detection and   *)
(* override writes a row of audit_trail under an id that the process       *)
(* counts in memory.                                                       *)
(*                                                                         *)
(* The Redis client sends a command once more when its reply does not come *)
(* in time, so that a task may enter the list twice.  What waits, runs and *)
(* is recorded is therefore an entry of the list, and an entry carries a   *)
(* task.                                                                   *)
(*                                                                         *)
(* What the pipeline does to an action is ActionLifecycle; here a detection *)
(* is only handled or failed.                                              *)
(***************************************************************************)
EXTENDS Integers, Sequences, FiniteSets

CONSTANTS
  MaxTasks,      \* bound on the tasks ever published
  MaxEntries,    \* bound on the entries ever pushed onto the list
  MaxQueueSize,  \* redis_client.MAX_QUEUE_SIZE
  MaxDetections, \* bound on the detections of one scan
  MaxOverrides,  \* bound on the override requests
  MaxDays,       \* bound on the days that pass
  MaxRestarts,   \* bound on restarts of the process
  MaxInsertFailures  \* bound on INSERTs into audit_trail that Postgres refuses or never answers

ASSUME BoundsOK ==
  /\ MaxTasks \in Nat \ {0} /\ MaxEntries \in Nat \ {0} /\ MaxQueueSize \in Nat \ {0}
  /\ MaxDetections \in Nat \ {0} /\ MaxOverrides \in Nat
  /\ MaxDays \in Nat \ {0} /\ MaxRestarts \in Nat /\ MaxInsertFailures \in Nat

\* Tasks are named by the order of their publication, entries by the order in
\* which they are pushed.
Task == 1..MaxTasks
Entry == 1..MaxEntries

----------------------------------------------------------------------------
VARIABLES
  published, \* tasks published so far
  unanswered, \* those whose push may yet be sent again
  pushed,    \* entries pushed so far
  carries,   \* the task of each entry, 0 before it is pushed
  tasks,     \* the list ci:tasks, its head (the newest) first
  fate,      \* what has become of each entry
  runs,      \* history: pipelines started for each entry
  cpc,       \* where the consumer task is
  current,   \* the entry it holds, 0 if none
  left,      \* detections of the scan still to be handled
  day,       \* today, UTC
  counter,   \* _audit_counter[today]
  trail,     \* rows of audit_trail
  failures,  \* INSERTs that failed, a number already taken apart
  overrides, \* override requests that have reached their audit record
  restarts   \* restarts so far

publishers == <<published, unanswered, pushed, carries>>
queue    == <<publishers, tasks>>
consumer == <<cpc, current, left>>
audit    == <<day, counter, trail, failures>>
vars     == <<queue, fate, runs, consumer, audit, overrides, restarts>>

Agent == {"audit", "fallback", "override"}

\* A row: its unique id (a day and a number), its author, and the entry whose
\* run it is about (0 for an override); what is stored of the run is its task.
Record == [id : (1..MaxDays) \X Nat, by : Agent, run : 0..MaxEntries]

TypeOK ==
  /\ published \in 0..MaxTasks
  /\ unanswered \subseteq Task
  /\ pushed \in 0..MaxEntries
  /\ carries \in [Entry -> 0..MaxTasks]
  /\ tasks \in Seq(Entry)
  /\ fate \in [Entry -> {"new", "queued", "running", "ended", "dropped"}]
  /\ runs \in [Entry -> Nat]
  /\ cpc \in {"waiting", "acquire", "detect", "handle", "recover", "log", "abort"}
  /\ current \in 0..MaxEntries
  /\ left \in 0..MaxDetections
  /\ day \in 1..MaxDays
  /\ counter \in Nat
  /\ trail \subseteq Record
  /\ failures \in 0..MaxInsertFailures
  /\ overrides \in 0..MaxOverrides
  /\ restarts \in 0..MaxRestarts

----------------------------------------------------------------------------
(* The queue.  The operators named X_... are slips of X: what a plausible  *)
(* bug would make of it, kept to show that the properties notice.          *)

\* LTRIM 0 MAX_QUEUE_SIZE-1: the newest stay, the oldest goes.
Trimmed(s) == IF Len(s) <= MaxQueueSize THEN s ELSE SubSeq(s, 1, MaxQueueSize)

\* Slip: the entry goes to the end that is popped.
Pushed_Tail(e) == Append(tasks, e)

Pushed(e) == <<e>> \o tasks

InList(s, e) == \E i \in 1..Len(s) : s[i] = e

\* publish_task's transaction on the list: push, expire and trim.
Push ==
  /\ pushed < MaxEntries
  /\ pushed' = pushed + 1
  /\ tasks' = Trimmed(Pushed(pushed'))
  /\ fate' = [e \in Entry |->
       CASE InList(tasks', e) -> "queued"
         [] fate[e] = "queued" /\ ~InList(tasks', e) -> "dropped"
         [] OTHER -> fate[e]]
  /\ UNCHANGED <<runs, consumer, audit, overrides, restarts>>

Publish ==
  /\ published < MaxTasks
  /\ published' = published + 1
  /\ unanswered' = unanswered \cup {published'}
  /\ carries' = [carries EXCEPT ![pushed + 1] = published']
  /\ Push

\* Slip: the transaction is sent until a reply comes in time.
Resend_Again(t) ==
  /\ t \in unanswered
  /\ carries' = [carries EXCEPT ![pushed + 1] = t]
  /\ UNCHANGED <<published, unanswered>>
  /\ Push

\* retry_on_timeout: the transaction whose reply does not come in time is
\* executed once more, behind whatever was pushed in the meantime.
Resend(t) ==
  /\ t \in unanswered
  /\ unanswered' = unanswered \ {t}
  /\ carries' = [carries EXCEPT ![pushed + 1] = t]
  /\ UNCHANGED published
  /\ Push

Posts == Publish \/ \E t \in Task : Resend(t)

\* The whole list goes when nobody has published for its TTL, or when Redis,
\* which keeps at most 256 MB, evicts it or loses it.
Expire ==
  /\ tasks # <<>>
  /\ tasks' = <<>>
  /\ fate' = [e \in Entry |-> IF fate[e] = "queued" THEN "dropped" ELSE fate[e]]
  /\ UNCHANGED <<publishers, runs, consumer, audit, overrides, restarts>>

Oldest == tasks[Len(tasks)]

\* consume_tasks: BRPOP hands the oldest task over.
Take ==
  /\ cpc = "waiting" /\ tasks # <<>>
  /\ tasks' = SubSeq(tasks, 1, Len(tasks) - 1)
  /\ current' = Oldest
  /\ cpc' = "acquire"
  /\ fate' = [fate EXCEPT ![Oldest] = "running"]
  /\ UNCHANGED <<publishers, runs, left, audit, overrides, restarts>>

\* The connection breaks, or no reply comes in time, after the server has popped
\* the entry.
LoseReply ==
  /\ cpc = "waiting" /\ tasks # <<>>
  /\ tasks' = SubSeq(tasks, 1, Len(tasks) - 1)
  /\ fate' = [fate EXCEPT ![Oldest] = "dropped"]
  /\ UNCHANGED <<publishers, runs, consumer, audit, overrides, restarts>>

----------------------------------------------------------------------------
(* The pipeline.                                                           *)

\* The consumer is back in consume_tasks, its entry ended or dropped.
Finish(how) ==
  /\ cpc' = "waiting" /\ current' = 0 /\ left' = 0
  /\ fate' = [fate EXCEPT ![current] = how]

\* _run_consumer_loop: no connection, so the task is logged and forgotten.
AcquireFails ==
  /\ cpc = "acquire"
  /\ Finish("dropped")
  /\ UNCHANGED <<queue, runs, audit, overrides, restarts>>

Acquire ==
  /\ cpc = "acquire"
  /\ cpc' = "detect"
  /\ runs' = [runs EXCEPT ![current] = @ + 1]
  /\ UNCHANGED <<queue, fate, current, left, audit, overrides, restarts>>

\* run: the scan finds n anomalies; with none the run goes straight to its audit.
Detect ==
  /\ cpc = "detect"
  /\ left' \in 0..MaxDetections
  /\ cpc' = IF left' = 0 THEN "log" ELSE "handle"
  /\ UNCHANGED <<queue, fate, runs, current, audit, overrides, restarts>>

\* Slip: the exception escapes run and ends the consumer task.
DetectFails_Escapes ==
  /\ cpc = "detect"
  /\ cpc' = "dead"
  /\ UNCHANGED <<queue, fate, runs, current, left, audit, overrides, restarts>>

DetectFails ==
  /\ cpc = "detect"
  /\ cpc' = "abort"
  /\ UNCHANGED <<queue, fate, runs, current, left, audit, overrides, restarts>>

Handle ==
  /\ cpc = "handle"
  /\ left' = left - 1
  /\ cpc' = IF left = 1 THEN "log" ELSE "handle"
  /\ UNCHANGED <<queue, fate, runs, current, audit, overrides, restarts>>

\* Slip: the failed detection is counted here and again when it is recorded.
HandleFails_CountsTwice ==
  /\ cpc = "handle"
  /\ left' = left - 1
  /\ cpc' = "recover"
  /\ UNCHANGED <<queue, fate, runs, current, audit, overrides, restarts>>

\* One detection fails; the others are still handled.
HandleFails ==
  /\ cpc = "handle"
  /\ cpc' = "recover"
  /\ UNCHANGED <<queue, fate, runs, current, left, audit, overrides, restarts>>

----------------------------------------------------------------------------
(* The audit trail.                                                        *)

\* Slip: the number is read but not advanced.
Write_SameNumber(agent, e) ==
  LET id == <<day, counter + 1>> IN
  /\ trail' = IF \E r \in trail : r.id = id THEN trail
              ELSE trail \cup {[id |-> id, by |-> agent, run |-> e]}
  /\ UNCHANGED <<day, counter, failures>>

\* generate_audit_id and the INSERT: a row whose id is there already violates
\* UNIQUE, and the statement may fail for any other reason too, such as a lost
\* connection.  The exception is swallowed (or, for an override, raised).
Write(agent, e) ==
  LET id == <<day, counter + 1>> IN
  /\ counter' = counter + 1
  /\ \/ /\ trail' = IF \E r \in trail : r.id = id THEN trail
                    ELSE trail \cup {[id |-> id, by |-> agent, run |-> e]}
        /\ UNCHANGED failures
     \/ /\ failures < MaxInsertFailures
        /\ failures' = failures + 1
        /\ UNCHANGED trail
  /\ UNCHANGED day

\* FallbackAgent.handle_error on one detection, then on with the next.
Recover ==
  /\ cpc = "recover"
  /\ Write("fallback", current)
  /\ left' = left - 1
  /\ cpc' = IF left = 1 THEN "log" ELSE "handle"
  /\ UNCHANGED <<queue, fate, runs, current, overrides, restarts>>

\* Slip: a write whose answer is lost is tried again.
Log_Retried ==
  /\ cpc = "log"
  /\ Write("audit", current)
  /\ Finish("ended") \/ UNCHANGED <<consumer, fate>>
  /\ UNCHANGED <<queue, runs, overrides, restarts>>

\* AuditAgent.log at the end of a run.
Log ==
  /\ cpc = "log"
  /\ Write("audit", current)
  /\ Finish("ended")
  /\ UNCHANGED <<queue, runs, overrides, restarts>>

\* FallbackAgent.handle_error on the whole run, which has no other record.
Abort ==
  /\ cpc = "abort"
  /\ Write("fallback", current)
  /\ Finish("ended")
  /\ UNCHANGED <<queue, runs, overrides, restarts>>

\* _write_override_audit by an HTTP request, at any await of the consumer.
Override ==
  /\ overrides < MaxOverrides
  /\ overrides' = overrides + 1
  /\ Write("override", 0)
  /\ UNCHANGED <<queue, fate, runs, consumer, restarts>>

\* Midnight UTC: the ids carry another date, whose count starts at nothing.
NewDay ==
  /\ day < MaxDays
  /\ day' = day + 1
  /\ counter' = 0
  /\ UNCHANGED <<queue, fate, runs, consumer, trail, failures, overrides, restarts>>

\* The process stops, by a crash, a shutdown or a reload, and starts again: the
\* entry in hand and what the publishers still wait for are gone, Redis and
\* Postgres keep theirs, the count is lost.
Restart ==
  /\ restarts < MaxRestarts
  /\ restarts' = restarts + 1
  /\ cpc' = "waiting" /\ current' = 0 /\ left' = 0
  /\ fate' = [e \in Entry |-> IF e = current THEN "dropped" ELSE fate[e]]
  /\ counter' = 0
  /\ unanswered' = {}
  /\ UNCHANGED <<published, pushed, carries, tasks, runs, day, trail, failures, overrides>>

Init ==
  /\ published = 0 /\ unanswered = {} /\ pushed = 0
  /\ carries = [e \in Entry |-> 0]
  /\ tasks = <<>>
  /\ fate = [e \in Entry |-> "new"]
  /\ runs = [e \in Entry |-> 0]
  /\ cpc = "waiting" /\ current = 0 /\ left = 0
  /\ day = 1 /\ counter = 0 /\ trail = {} /\ failures = 0
  /\ overrides = 0 /\ restarts = 0

ConsumerStep ==
  \/ Take \/ LoseReply \/ Acquire \/ AcquireFails \/ Detect \/ DetectFails
  \/ Handle \/ HandleFails \/ Recover \/ Log \/ Abort

Next == Posts \/ Expire \/ ConsumerStep \/ Override \/ NewDay \/ Restart

Spec == Init /\ [][Next]_vars

\* The event loop runs the consumer whenever it is ready, every model call has
\* a timeout and every statement is answered; nothing else has to happen.
FairSpec == Spec /\ WF_vars(ConsumerStep)

----------------------------------------------------------------------------
(* What makes the pipeline correct.                                        *)

\* An entry is run at most once: nothing it started is repeated by a restart, a
\* lost reply or a failure (what was popped is never put back).
RunAtMostOnce == \A e \in Entry : runs[e] <= 1

\* Entries leave the list in the order they came, whether they are taken, trimmed
\* or expired: nothing newer overtakes one that is still waiting.
OldestLeavesFirst ==
  \A e, f \in Entry : e < f /\ fate[e] = "queued" => fate[f] \in {"new", "queued"}

\* The circuit breaker: the list never outgrows MAX_QUEUE_SIZE, whatever the
\* consumer is busy with.
QueueIsBounded == Len(tasks) <= MaxQueueSize

\* The entries that wait, in the order of their numbers, and the one taken but
\* not yet run.
Waiting == {e \in Entry : fate[e] = "queued"}
Held == IF cpc = "acquire" THEN current ELSE 0

Box == INSTANCE Mailbox WITH
  Letters <- MaxTasks, Copies <- MaxEntries, Capacity <- MaxQueueSize,
  put <- pushed, waiting <- Waiting, held <- Held, used <- runs

\* List, circuit breaker, expiry, blocking pop and consumer are a bounded box in
\* which a letter is put once or twice, and which gives out what was put in oldest
\* first and uses it at most once; it loses only the oldest, the one in hand, or
\* all it holds (redis_client.py:105, "CIRCUIT BREAKER").
ImplementsMailbox == Box!Spec

Recorded(e) == \E r \in trail : r.run = e
Unrecorded == {e \in Entry : fate[e] = "ended" /\ ~Recorded(e)}

\* In one life of the process a run that ends leaves a record, also across
\* midnight and with overrides drawing on the same numbers, unless its own INSERT
\* failed: at most as many runs go without as INSERTs failed.
RecordedInOneLife == restarts = 0 => Cardinality(Unrecorded) <= failures

\* What may be read off the trail in every life of the process, across midnight
\* and with overrides and failing INSERTs in between: a record of an agent tells of
\* a run that was, and the one AuditAgent writes comes once for each, after it has
\* ended (a fall-back record does not say so).
TrailIsTruthful ==
  /\ \A r, s \in trail : r.id = s.id => r = s
  /\ \A r \in trail : r.by \in {"audit", "fallback"} => r.run \in Entry /\ runs[r.run] = 1
  /\ \A r \in trail : r.by = "audit" => fate[r.run] = "ended"
  /\ \A r, s \in trail : r.by = "audit" /\ s.by = "audit" /\ r.run = s.run => r = s

\* audit_agent.py: "Write one audit_trail record per pipeline run."
EveryRunRecorded == Unrecorded = {}

\* No failure of one task, and no restart, keeps the entries behind it waiting.
QueueDrains == \A e \in Entry : fate[e] = "queued" ~> fate[e] # "queued"
=============================================================================
