------------------------ MODULE TaskPipeline_proofs ------------------------
(***************************************************************************)
(* The safety properties of TaskPipeline for every length of the queue and *)
(* every number of tasks, entries, detections, overrides, days and restarts. *)
(***************************************************************************)
EXTENDS TaskPipeline, SequenceTheorems, FiniteSetTheorems, FunctionTheorems, TLAPS

----------------------------------------------------------------------------
(* The list.                                                               *)

\* The front of a list of entries is one.
LEMMA PrefixOfEntries ==
  ASSUME NEW s \in Seq(Entry), NEW k \in 0..Len(s)
  PROVE  /\ SubSeq(s, 1, k) \in Seq(Entry)
         /\ Len(SubSeq(s, 1, k)) = k
         /\ \A i \in 1..k : SubSeq(s, 1, k)[i] = s[i]
<1>1. Len(s) \in Nat
  BY LenProperties
<1>2. \A i \in 1..k : s[i] \in Entry
  BY <1>1, ElementOfSeq
<1> QED
  BY <1>1, <1>2, SubSeqProperties

\* What publishing leaves: the new entry, then the newest of the old ones, no
\* more than the list may hold.
LEMMA Pushing ==
  ASSUME NEW t \in Entry, tasks \in Seq(Entry)
  PROVE  /\ Trimmed(Pushed(t)) \in Seq(Entry)
         /\ Len(Trimmed(Pushed(t))) \in 1..MaxQueueSize
         /\ Len(Trimmed(Pushed(t))) <= Len(tasks) + 1
         /\ Len(tasks) < MaxQueueSize => Len(Trimmed(Pushed(t))) = Len(tasks) + 1
         /\ Len(tasks) = MaxQueueSize => Len(Trimmed(Pushed(t))) = MaxQueueSize
         /\ Trimmed(Pushed(t))[1] = t
         /\ \A i \in 2..Len(Trimmed(Pushed(t))) : Trimmed(Pushed(t))[i] = tasks[i - 1]
<1> DEFINE p == Pushed(t)
<1>1. /\ p \in Seq(Entry) /\ Len(tasks) \in Nat /\ Len(p) = Len(tasks) + 1
      /\ p[1] = t /\ \A i \in 2..Len(p) : p[i] = tasks[i - 1]
  <2>1. Len(tasks) \in Nat /\ <<t>> \in Seq(Entry) /\ Len(<<t>>) = 1 /\ <<t>>[1] = t
    BY LenProperties
  <2>2. /\ <<t>> \o tasks \in Seq(Entry)
        /\ Len(<<t>> \o tasks) = 1 + Len(tasks)
        /\ \A i \in 1..(1 + Len(tasks)) : (<<t>> \o tasks)[i] =
             IF i <= 1 THEN <<t>>[i] ELSE tasks[i - 1]
    BY <2>1, ConcatProperties
  <2> QED
    BY <2>1, <2>2 DEF Pushed
<1>2. CASE Len(p) <= MaxQueueSize
  BY <1>1, <1>2, BoundsOK DEF Trimmed
<1>3. CASE ~(Len(p) <= MaxQueueSize)
  <2>1. Trimmed(p) = SubSeq(p, 1, MaxQueueSize) /\ MaxQueueSize \in 0..Len(p) /\ MaxQueueSize >= 1
    BY <1>1, <1>3, BoundsOK DEF Trimmed
  <2>2. /\ Trimmed(p) \in Seq(Entry) /\ Len(Trimmed(p)) = MaxQueueSize
        /\ \A i \in 1..MaxQueueSize : Trimmed(p)[i] = p[i]
    BY <1>1, <2>1, PrefixOfEntries
  <2> QED
    BY <1>1, <2>1, <2>2, BoundsOK
<1> QED
  BY <1>2, <1>3

\* What popping leaves.
LEMMA Popping ==
  ASSUME tasks \in Seq(Entry), tasks # <<>>
  PROVE  /\ Len(tasks) \in Nat \ {0} /\ Oldest \in Entry
         /\ SubSeq(tasks, 1, Len(tasks) - 1) \in Seq(Entry)
         /\ Len(SubSeq(tasks, 1, Len(tasks) - 1)) = Len(tasks) - 1
         /\ \A i \in 1..(Len(tasks) - 1) : SubSeq(tasks, 1, Len(tasks) - 1)[i] = tasks[i]
<1>1. Len(tasks) \in Nat \ {0}
  BY EmptySeq, LenProperties
<1> QED
  BY <1>1, PrefixOfEntries, ElementOfSeq DEF Oldest

----------------------------------------------------------------------------
(* Types, and the consumer's hand.                                         *)

\* The consumer holds an entry exactly while it is busy, that entry is the only
\* running one, and it has detections to handle while it handles them.
InHand ==
  /\ cpc = "waiting" => current = 0
  /\ cpc # "waiting" => current \in Entry /\ fate[current] = "running"
  /\ \A t \in Entry : fate[t] = "running" => t = current
  /\ cpc \in {"handle", "recover"} => left >= 1

\* The list holds the queued entries, the newest first, and the entries not yet
\* pushed are the new ones.
Listed ==
  /\ \A i, j \in 1..Len(tasks) : i < j => tasks[i] > tasks[j]
  /\ \A t \in Entry : fate[t] = "queued" <=> InList(tasks, t)
  /\ \A t \in Entry : fate[t] = "new" <=> t > pushed

\* Whoever publishes, for the first or the second time, pushes one entry.
LEMMA PostsPush ==
  ASSUME TypeOK, Posts
  PROVE  /\ Push
         /\ published' \in 0..MaxTasks /\ unanswered' \subseteq Task
         /\ carries' \in [Entry -> 0..MaxTasks]
<1>1. /\ published \in 0..MaxTasks /\ unanswered \subseteq Task /\ Task \subseteq 0..MaxTasks
      /\ carries \in [Entry -> 0..MaxTasks]
  BY BoundsOK DEF TypeOK, Task
<1>2. CASE Publish
  <2>1. published' \in Task
    BY <1>1, <1>2, BoundsOK DEF Publish, Task
  <2> QED
    BY <1>1, <1>2, <2>1 DEF Publish
<1>3. CASE \E t \in Task : Resend(t)
  BY <1>1, <1>3 DEF Resend
<1> QED
  BY <1>2, <1>3 DEF Posts

\* What a push does to the number of entries pushed.
LEMMA PushNumbers ==
  ASSUME TypeOK, Push
  PROVE  /\ pushed + 1 \in Entry /\ pushed < MaxEntries /\ pushed' = pushed + 1
         /\ pushed \in Int /\ pushed' \in 0..MaxEntries /\ pushed' \in Entry
         /\ \A t \in Entry : t \in Int
<1>1. pushed \in 0..MaxEntries
  BY DEF TypeOK
<1>2. pushed < MaxEntries /\ pushed' = pushed + 1
  BY DEF Push
<1>3. MaxEntries \in Nat
  BY BoundsOK
<1> QED
  BY <1>1, <1>2, <1>3 DEF Entry

\* Publishing touches no entry that has left the list.
LEMMA PublishKeeps ==
  ASSUME TypeOK, Listed, Push, NEW t \in Entry, fate[t] \notin {"new", "queued"}
  PROVE  fate'[t] = fate[t]
<1>0. tasks \in Seq(Entry) /\ tasks' = Trimmed(Pushed(pushed'))
  BY DEF Push, TypeOK
<1>1. /\ tasks \in Seq(Entry) /\ pushed + 1 \in Entry /\ pushed \in Int /\ t \in Int
      /\ tasks' = Trimmed(Pushed(pushed + 1))
  BY <1>0, PushNumbers
<1>2. /\ Len(tasks) \in Nat /\ Len(tasks') \in 1..MaxQueueSize
      /\ Len(tasks') <= Len(tasks) + 1 /\ tasks'[1] = pushed + 1
      /\ \A i \in 2..Len(tasks') : tasks'[i] = tasks[i - 1]
  BY <1>1, Pushing, LenProperties
<1>3. ~InList(tasks', t)
  <2> SUFFICES ASSUME NEW i \in 1..Len(tasks'), tasks'[i] = t
               PROVE  FALSE
    BY DEF InList
  <2>1. CASE i = 1
    <3>1. t > pushed
      BY <1>1, <1>2, <2>1
    <3> QED
      BY <3>1 DEF Listed
  <2>2. CASE i # 1
    <3>1. i - 1 \in 1..Len(tasks) /\ tasks[i - 1] = t
      BY <1>2, <2>2, BoundsOK
    <3> QED
      BY <3>1 DEF Listed, InList
  <2> QED
    BY <2>1, <2>2
<1> QED
  BY <1>3 DEF Push

\* Everything starts in its type, the consumer with empty hands.
LEMMA TypesInit == Init => TypeOK /\ InHand
<1> SUFFICES ASSUME Init
             PROVE  TypeOK /\ InHand
  OBVIOUS
<1>1. /\ tasks \in Seq(Entry) /\ trail \subseteq Record
      /\ fate \in [Entry -> {"new", "queued", "running", "ended", "dropped"}]
      /\ runs \in [Entry -> Nat]
  BY EmptySeq DEF Init
<1>3. /\ published \in 0..MaxTasks /\ unanswered \subseteq Task
      /\ carries \in [Entry -> 0..MaxTasks] /\ failures \in 0..MaxInsertFailures
  BY BoundsOK DEF Init
<1>2. /\ pushed \in 0..MaxEntries /\ current \in 0..MaxEntries /\ left \in 0..MaxDetections
      /\ day \in 1..MaxDays /\ counter \in Nat
      /\ overrides \in 0..MaxOverrides /\ restarts \in 0..MaxRestarts
  BY BoundsOK DEF Init
<1> QED
  BY <1>1, <1>2, <1>3 DEF Init, TypeOK, InHand

\* A row is written with the next number of the day.
LEMMA WriteTypes ==
  ASSUME TypeOK, NEW agent \in Agent, NEW t \in 0..MaxEntries, Write(agent, t)
  PROVE  /\ day' \in 1..MaxDays /\ counter' \in Nat
         /\ trail' \subseteq Record /\ failures' \in 0..MaxInsertFailures
<1>1. /\ counter + 1 \in Nat /\ day \in 1..MaxDays /\ trail \subseteq Record /\ counter \in Nat
      /\ failures \in 0..MaxInsertFailures /\ MaxInsertFailures \in Nat
  BY BoundsOK DEF TypeOK
<1>2. [id |-> <<day, counter + 1>>, by |-> agent, run |-> t] \in Record
  BY <1>1 DEF Record
<1> QED
  BY <1>1, <1>2 DEF Write

\* Every step keeps the types and the consumer's hand.
LEMMA TypesStep == TypeOK /\ InHand /\ Listed /\ [Next]_vars => TypeOK' /\ InHand'
<1> SUFFICES ASSUME TypeOK, InHand, Listed, [Next]_vars
             PROVE  TypeOK' /\ InHand'
  OBVIOUS
<1>a. /\ fate \in [Entry -> {"new", "queued", "running", "ended", "dropped"}]
      /\ tasks \in Seq(Entry) /\ 0 \notin Entry /\ Entry \subseteq 0..MaxEntries
      /\ left \in 0..MaxDetections /\ current \in 0..MaxEntries
      /\ runs \in [Entry -> Nat]
  BY BoundsOK DEF TypeOK, Entry
<1>1. CASE Posts
  <2>0. /\ Push /\ published' \in 0..MaxTasks /\ unanswered' \subseteq Task
        /\ carries' \in [Entry -> 0..MaxTasks]
    BY <1>1, PostsPush
  <2>1. pushed' \in 0..MaxEntries /\ pushed' \in Entry
    BY <2>0, PushNumbers
  <2>2. tasks' \in Seq(Entry)
    BY <2>0, <1>a, <2>1, Pushing DEF Push
  <2>3. /\ fate' \in [Entry -> {"new", "queued", "running", "ended", "dropped"}]
        /\ \A t \in Entry : fate'[t] = "running" => fate[t] = "running"
    BY <2>0, <1>a DEF Push
  <2>4. UNCHANGED <<runs, cpc, current, left, day, counter, trail, failures, overrides, restarts>>
    BY <2>0 DEF Push, consumer, audit
  <2>5. TypeOK'
    BY <2>0, <2>1, <2>2, <2>3, <2>4 DEF TypeOK
  <2>6. cpc # "waiting" => fate'[current] = "running"
    BY <2>0, PublishKeeps DEF InHand
  <2> QED
    BY <2>3, <2>4, <2>5, <2>6 DEF InHand
<1>2. CASE Expire
  <2>1. /\ fate' \in [Entry -> {"new", "queued", "running", "ended", "dropped"}]
        /\ \A t \in Entry : fate'[t] = "running" <=> fate[t] = "running"
    BY <1>2, <1>a DEF Expire
  <2>2. tasks' \in Seq(Entry)
    BY <1>2, EmptySeq DEF Expire
  <2>3. UNCHANGED <<publishers, runs, cpc, current, left, day, counter, trail, failures, overrides, restarts>>
    BY <1>2 DEF Expire, consumer, audit
  <2> QED
    BY <2>1, <2>2, <2>3 DEF TypeOK, InHand, publishers
<1>3. CASE Take \/ LoseReply
  <2>1. cpc = "waiting" /\ tasks' \in Seq(Entry) /\ Oldest \in Entry /\ current = 0
    BY <1>3, <1>a, Popping DEF Take, LoseReply, InHand
  <2>2. \A t \in Entry : fate[t] # "running"
    BY <1>a, <2>1 DEF InHand
  <2>3. UNCHANGED <<publishers, runs, left, day, counter, trail, failures, overrides, restarts>>
    BY <1>3 DEF Take, LoseReply, consumer, audit
  <2>4. CASE Take
    <3>1. /\ current' = Oldest /\ cpc' = "acquire"
          /\ fate' = [fate EXCEPT ![Oldest] = "running"]
      BY <2>4 DEF Take
    <3> QED
      BY <1>a, <2>1, <2>2, <2>3, <3>1 DEF TypeOK, InHand, publishers
  <2>5. CASE LoseReply
    <3>1. /\ fate' = [fate EXCEPT ![Oldest] = "dropped"] /\ UNCHANGED <<cpc, current>>
      BY <2>5 DEF LoseReply, consumer
    <3> QED
      BY <1>a, <2>1, <2>2, <2>3, <3>1 DEF TypeOK, InHand, publishers
  <2> QED
    BY <1>3, <2>4, <2>5
<1>4. CASE Acquire \/ Detect \/ DetectFails \/ Handle \/ HandleFails
  <2>1. UNCHANGED <<publishers, tasks, fate, current, day, counter, trail, failures, overrides, restarts>>
    BY <1>4 DEF Acquire, Detect, DetectFails, Handle, HandleFails, queue, audit
  <2>2. current \in Entry /\ fate[current] = "running"
    BY <1>4 DEF Acquire, Detect, DetectFails, Handle, HandleFails, InHand
  <2>3. runs' \in [Entry -> Nat]
    BY <1>4, <1>a, <2>2 DEF Acquire, Detect, DetectFails, Handle, HandleFails
  <2>4. /\ left' \in 0..MaxDetections
        /\ cpc' \in {"detect", "handle", "log", "abort", "recover"}
        /\ cpc' \in {"handle", "recover"} => left' >= 1
    <3>1. CASE Detect
      BY <3>1, BoundsOK DEF Detect
    <3>2. CASE Handle
      BY <1>a, <3>2, BoundsOK DEF Handle, InHand
    <3>3. CASE Acquire \/ DetectFails \/ HandleFails
      BY <1>a, <3>3 DEF Acquire, DetectFails, HandleFails, InHand
    <3> QED
      BY <1>4, <3>1, <3>2, <3>3
  <2> QED
    BY <2>1, <2>2, <2>3, <2>4 DEF TypeOK, InHand, publishers
<1>5. CASE Recover
  <2>1. /\ day' \in 1..MaxDays /\ counter' \in Nat
        /\ trail' \subseteq Record /\ failures' \in 0..MaxInsertFailures
    BY <1>5, <1>a, WriteTypes DEF Recover, Agent
  <2>2. left >= 1 /\ left' = left - 1 /\ cpc' = IF left = 1 THEN "log" ELSE "handle"
    BY <1>5 DEF Recover, InHand
  <2>3. left' \in 0..MaxDetections /\ (cpc' = "handle" => left' >= 1)
    BY <1>a, <2>2, BoundsOK
  <2>4. UNCHANGED <<publishers, tasks, fate, runs, current, overrides, restarts>>
    BY <1>5 DEF Recover, queue
  <2>5. current \in Entry /\ fate[current] = "running"
    BY <1>5 DEF Recover, InHand
  <2> QED
    BY <2>1, <2>2, <2>3, <2>4, <2>5 DEF TypeOK, InHand, publishers
<1>6. CASE Log \/ Abort \/ AcquireFails
  <2>1. current \in Entry
    BY <1>6 DEF Log, Abort, AcquireFails, InHand
  <2>2. /\ day' \in 1..MaxDays /\ counter' \in Nat
        /\ trail' \subseteq Record /\ failures' \in 0..MaxInsertFailures
    BY <1>6, <1>a, WriteTypes DEF Log, Abort, AcquireFails, Agent, audit, TypeOK
  <2>3. PICK how \in {"ended", "dropped"} : Finish(how)
    BY <1>6 DEF Log, Abort, AcquireFails
  <2>4. /\ fate' = [fate EXCEPT ![current] = how]
        /\ cpc' = "waiting" /\ current' = 0 /\ left' = 0
    BY <2>3 DEF Finish
  <2>5. UNCHANGED <<publishers, tasks, runs, overrides, restarts>>
    BY <1>6 DEF Log, Abort, AcquireFails, queue
  <2>6. 0 \in 0..MaxEntries /\ 0 \in 0..MaxDetections
    BY BoundsOK
  <2> QED
    BY <1>a, <2>1, <2>2, <2>4, <2>5, <2>6 DEF TypeOK, InHand, publishers
<1>7. CASE Override
  <2>1. /\ day' \in 1..MaxDays /\ counter' \in Nat
        /\ trail' \subseteq Record /\ failures' \in 0..MaxInsertFailures
    BY <1>7, WriteTypes, BoundsOK DEF Override, Agent
  <2>2. overrides' \in 0..MaxOverrides
    BY <1>7, BoundsOK DEF Override, TypeOK
  <2>3. UNCHANGED <<publishers, tasks, fate, runs, cpc, current, left, restarts>>
    BY <1>7 DEF Override, queue, consumer
  <2> QED
    BY <2>1, <2>2, <2>3 DEF TypeOK, InHand, publishers
<1>8. CASE NewDay
  <2>1. day' \in 1..MaxDays /\ counter' \in Nat
    BY <1>8, BoundsOK DEF NewDay, TypeOK
  <2>2. UNCHANGED <<publishers, tasks, fate, runs, cpc, current, left, trail, failures, overrides, restarts>>
    BY <1>8 DEF NewDay, queue, consumer
  <2> QED
    BY <2>1, <2>2 DEF TypeOK, InHand, publishers
<1>9. CASE Restart
  <2>1. restarts' \in 0..MaxRestarts /\ counter' \in Nat /\ 0 \in 0..MaxEntries /\ 0 \in 0..MaxDetections
    BY <1>9, BoundsOK DEF Restart, TypeOK
  <2>2. /\ cpc' = "waiting" /\ current' = 0 /\ left' = 0
        /\ UNCHANGED <<published, pushed, carries, tasks, runs, day, trail, failures, overrides>>
        /\ unanswered' \subseteq Task
    BY <1>9 DEF Restart
  <2>3. /\ fate' \in [Entry -> {"new", "queued", "running", "ended", "dropped"}]
        /\ \A t \in Entry : fate'[t] # "running"
    BY <1>9, <1>a DEF Restart, InHand
  <2> QED
    BY <2>1, <2>2, <2>3 DEF TypeOK, InHand, publishers
<1>10. CASE UNCHANGED vars
  BY <1>10 DEF vars, queue, publishers, consumer, audit, TypeOK, InHand
<1> QED
  BY <1>1, <1>2, <1>3, <1>4, <1>5, <1>6, <1>7, <1>8, <1>9, <1>10 DEF Next, ConsumerStep

----------------------------------------------------------------------------
(* The order of the list.                                                  *)

\* Nothing is pushed at the start.
LEMMA ListedInit == Init => Listed /\ OldestLeavesFirst /\ QueueIsBounded
<1> SUFFICES ASSUME Init
             PROVE  Listed /\ OldestLeavesFirst /\ QueueIsBounded
  OBVIOUS
<1>1. Len(tasks) = 0 /\ pushed = 0 /\ fate = [t \in Entry |-> "new"]
  BY EmptySeq DEF Init
<1>2. \A t \in Entry : t > 0
  BY BoundsOK DEF Entry
<1> QED
  BY <1>1, <1>2, BoundsOK DEF Listed, OldestLeavesFirst, QueueIsBounded, InList

\* A new entry comes in at the head, and only the oldest fall out.
LEMMA PublishListed ==
  ASSUME TypeOK, Listed, OldestLeavesFirst, Push
  PROVE  Listed' /\ OldestLeavesFirst' /\ QueueIsBounded'
<1> DEFINE p == pushed + 1
<1>1. /\ p \in Entry /\ pushed' = p /\ pushed \in Int
      /\ \A t \in Entry : t \in Int
      /\ tasks \in Seq(Entry) /\ Len(tasks) \in Nat
      /\ fate \in [Entry -> {"new", "queued", "running", "ended", "dropped"}]
      /\ \A i \in 1..Len(tasks) : tasks[i] \in Entry
  <2>1. tasks \in Seq(Entry)
    BY DEF TypeOK
  <2>2. p \in Entry /\ pushed' = p /\ pushed \in Int /\ \A t \in Entry : t \in Int
    BY PushNumbers
  <2> QED
    BY <2>1, <2>2, LenProperties, ElementOfSeq DEF TypeOK
<1>2. /\ Len(tasks') \in 1..MaxQueueSize /\ Len(tasks') <= Len(tasks) + 1
      /\ tasks'[1] = p
      /\ \A i \in 2..Len(tasks') : tasks'[i] = tasks[i - 1]
  BY <1>1, Pushing DEF Push
<1>3. \A t \in Entry : fate'[t] = IF InList(tasks', t) THEN "queued"
                                 ELSE IF fate[t] = "queued" THEN "dropped" ELSE fate[t]
  BY DEF Push
<1>4. \A i \in 2..Len(tasks') : i - 1 \in 1..Len(tasks) /\ tasks[i - 1] <= pushed
  <2> SUFFICES ASSUME NEW i \in 2..Len(tasks')
               PROVE  i - 1 \in 1..Len(tasks) /\ tasks[i - 1] <= pushed
    OBVIOUS
  <2>1. i - 1 \in 1..Len(tasks)
    BY <1>1, <1>2, BoundsOK
  <2>2. fate[tasks[i - 1]] = "queued"
    BY <1>1, <2>1 DEF Listed, InList
  <2> QED
    BY <1>1, <2>1, <2>2 DEF Listed
<1>5. \A i, j \in 1..Len(tasks') : i < j => tasks'[i] > tasks'[j]
  <2> SUFFICES ASSUME NEW i \in 1..Len(tasks'), NEW j \in 1..Len(tasks'), i < j
               PROVE  tasks'[i] > tasks'[j]
    OBVIOUS
  <2>1. j \in 2..Len(tasks') /\ tasks'[j] = tasks[j - 1]
    BY <1>2, BoundsOK
  <2>2. CASE i = 1
    BY <1>1, <1>2, <1>4, <2>1, <2>2
  <2>3. CASE i # 1
    <3>1. i \in 2..Len(tasks') /\ tasks'[i] = tasks[i - 1]
      BY <1>2, <2>3, BoundsOK
    <3> QED
      BY <1>4, <2>1, <3>1, BoundsOK, <1>2 DEF Listed
  <2> QED
    BY <2>2, <2>3
<1>6. \A t \in Entry : InList(tasks', t) => t = p \/ InList(tasks, t)
  <2> SUFFICES ASSUME NEW t \in Entry, NEW i \in 1..Len(tasks'), tasks'[i] = t
               PROVE  t = p \/ InList(tasks, t)
    BY DEF InList
  <2>1. CASE i = 1
    BY <1>2, <2>1
  <2>2. CASE i # 1
    BY <1>2, <1>4, <2>2, BoundsOK DEF InList
  <2> QED
    BY <2>1, <2>2
<1>7. InList(tasks', p)
  BY <1>2, BoundsOK DEF InList
<1>8. \A t \in Entry : fate'[t] = "new" <=> t > pushed'
  <2> SUFFICES ASSUME NEW t \in Entry
               PROVE  fate'[t] = "new" <=> t > pushed'
    OBVIOUS
  <2>1. CASE t = p
    BY <1>1, <1>3, <1>7, <2>1
  <2>2. CASE t # p
    <3>1. t > pushed' <=> t > pushed
      BY <1>1, <2>2
    <3>2. InList(tasks', t) => fate[t] = "queued"
      BY <1>6, <2>2 DEF Listed
    <3> QED
      BY <1>3, <3>1, <3>2 DEF Listed
  <2> QED
    BY <2>1, <2>2
<1>9. \A t \in Entry : fate'[t] = "queued" <=> InList(tasks', t)
  BY <1>3
<1>10. OldestLeavesFirst'
  <2> SUFFICES ASSUME NEW t \in Entry, NEW u \in Entry, t < u, fate'[t] = "queued"
               PROVE  fate'[u] \in {"new", "queued"}
    BY DEF OldestLeavesFirst
  <2>1. PICK i \in 1..Len(tasks') : tasks'[i] = t
    BY <1>9 DEF InList
  <2>2. CASE u >= p
    BY <1>1, <1>7, <1>8, <1>9, <2>2
  <2>3. CASE u < p
    <3>1. i # 1 /\ u <= pushed /\ t <= pushed
      BY <1>1, <1>2, <2>1, <2>3
    <3>2. i \in 2..Len(tasks') /\ i - 1 \in 1..Len(tasks) /\ tasks[i - 1] = t
      BY <1>2, <1>4, <2>1, <3>1, BoundsOK
    <3>3. fate[t] = "queued"
      BY <3>2 DEF Listed, InList
    <3>4. fate[u] = "queued"
      BY <1>1, <3>1, <3>3 DEF OldestLeavesFirst, Listed
    <3>5. PICK j \in 1..Len(tasks) : tasks[j] = u
      BY <3>4 DEF Listed, InList
    <3>6. j < i - 1
      <4>1. i - 1 # j
        BY <1>1, <3>2, <3>5
      <4>2. i - 1 < j => t > u
        BY <3>2, <3>5 DEF Listed
      <4> QED
        BY <1>1, <3>2, <3>5, <4>1, <4>2
    <3>7. j + 1 \in 2..Len(tasks') /\ tasks'[j + 1] = u
      BY <1>1, <1>2, <3>2, <3>5, <3>6, BoundsOK
    <3> QED
      BY <1>2, <1>9, <3>7, BoundsOK DEF InList
  <2> QED
    BY <1>1, <2>2, <2>3
<1>11. QueueIsBounded'
  BY <1>2, BoundsOK DEF QueueIsBounded
<1> QED
  BY <1>5, <1>8, <1>9, <1>10, <1>11 DEF Listed

\* Popping takes the oldest entry, whatever then becomes of it.
LEMMA PopListed ==
  ASSUME TypeOK, Listed, OldestLeavesFirst, QueueIsBounded, tasks # <<>>,
         tasks' = SubSeq(tasks, 1, Len(tasks) - 1), pushed' = pushed,
         NEW how \in {"running", "dropped"}, fate' = [fate EXCEPT ![Oldest] = how]
  PROVE  Listed' /\ OldestLeavesFirst' /\ QueueIsBounded'
<1>1. /\ Len(tasks) \in Nat \ {0} /\ Oldest \in Entry /\ Oldest = tasks[Len(tasks)]
      /\ Len(tasks') = Len(tasks) - 1
      /\ \A i \in 1..(Len(tasks) - 1) : tasks'[i] = tasks[i]
      /\ \A t \in Entry : t \in Int
      /\ fate \in [Entry -> {"new", "queued", "running", "ended", "dropped"}]
  <2>1. tasks \in Seq(Entry) /\ \A t \in Entry : t \in Int
    BY DEF TypeOK, Entry
  <2> QED
    BY <2>1, Popping DEF TypeOK, Oldest
<1>2. \A t \in Entry : InList(tasks', t) <=> InList(tasks, t) /\ t # Oldest
  <2> SUFFICES ASSUME NEW t \in Entry
               PROVE  InList(tasks', t) <=> InList(tasks, t) /\ t # Oldest
    OBVIOUS
  <2>1. InList(tasks, t) /\ t # Oldest => InList(tasks', t)
    BY <1>1 DEF InList
  <2>2. ASSUME NEW i \in 1..Len(tasks'), tasks'[i] = t
        PROVE  InList(tasks, t) /\ t # Oldest
    <3>1. i \in 1..Len(tasks) /\ Len(tasks) \in 1..Len(tasks) /\ i < Len(tasks) /\ tasks[i] = t
      BY <1>1, <2>2
    <3>2. t > Oldest
      BY <1>1, <3>1 DEF Listed
    <3> QED
      BY <1>1, <3>1, <3>2 DEF InList
  <2> QED
    BY <2>1, <2>2 DEF InList
<1>3. \A t \in Entry : InList(tasks, t) => Oldest <= t
  BY <1>1 DEF InList, Listed
<1>4. fate[Oldest] = "queued"
  BY <1>1 DEF InList, Listed
<1>5. Listed'
  <2>1. \A i, j \in 1..Len(tasks') : i < j => tasks'[i] > tasks'[j]
    BY <1>1 DEF Listed
  <2>2. \A t \in Entry : fate'[t] = IF t = Oldest THEN how ELSE fate[t]
    BY <1>1
  <2>3. \A t \in Entry : fate'[t] = "queued" <=> InList(tasks', t)
    BY <1>2, <2>2 DEF Listed
  <2>4. \A t \in Entry : fate'[t] = "new" <=> t > pushed'
    BY <1>4, <2>2 DEF Listed
  <2> QED
    BY <2>1, <2>3, <2>4 DEF Listed
<1>6. OldestLeavesFirst'
  <2> SUFFICES ASSUME NEW t \in Entry, NEW u \in Entry, t < u, fate'[t] = "queued"
               PROVE  fate'[u] \in {"new", "queued"}
    BY DEF OldestLeavesFirst
  <2>1. fate[t] = "queued"
    BY <1>1
  <2>2. Oldest <= t
    BY <1>3, <2>1 DEF Listed
  <2>3. u # Oldest
    BY <1>1, <2>2
  <2> QED
    BY <1>1, <2>1, <2>3 DEF OldestLeavesFirst
<1>7. QueueIsBounded'
  BY <1>1, BoundsOK DEF QueueIsBounded
<1> QED
  BY <1>5, <1>6, <1>7

\* Every step keeps the list in order.
LEMMA ListedStep ==
  TypeOK /\ InHand /\ Listed /\ OldestLeavesFirst /\ QueueIsBounded /\ [Next]_vars
    => Listed' /\ OldestLeavesFirst' /\ QueueIsBounded'
<1> SUFFICES ASSUME TypeOK, InHand, Listed, OldestLeavesFirst, QueueIsBounded, [Next]_vars
             PROVE  Listed' /\ OldestLeavesFirst' /\ QueueIsBounded'
  OBVIOUS
<1>a. fate \in [Entry -> {"new", "queued", "running", "ended", "dropped"}]
  BY DEF TypeOK
<1>1. CASE Push
  BY <1>1, PublishListed
<1>2. CASE Take \/ LoseReply
  BY <1>2, PopListed DEF Take, LoseReply, publishers
<1>3. CASE Expire
  <2>1. tasks' = <<>> /\ Len(tasks') = 0 /\ pushed' = pushed
    BY <1>3, EmptySeq DEF Expire, publishers
  <2>2. \A t \in Entry : fate'[t] = IF fate[t] = "queued" THEN "dropped" ELSE fate[t]
    BY <1>3 DEF Expire
  <2> QED
    BY <2>1, <2>2, BoundsOK DEF Listed, OldestLeavesFirst, QueueIsBounded, InList
<1>4. CASE \/ Acquire \/ Detect \/ DetectFails \/ Handle \/ HandleFails \/ Recover
           \/ Override \/ NewDay \/ UNCHANGED vars
  <2>1. UNCHANGED <<pushed, tasks, fate>>
    BY <1>4 DEF Acquire, Detect, DetectFails, Handle, HandleFails, Recover, Override, NewDay, vars, queue, publishers
  <2> QED
    BY <2>1 DEF Listed, OldestLeavesFirst, QueueIsBounded
<1>5. CASE Log \/ Abort \/ AcquireFails \/ Restart
  <2>1. UNCHANGED <<pushed, tasks>>
    BY <1>5 DEF Log, Abort, AcquireFails, Restart, queue, publishers
  <2>2. \A t \in Entry : \/ fate'[t] = fate[t]
                         \/ t = current /\ fate[t] = "running" /\ fate'[t] \in {"ended", "dropped"}
    <3>1. CASE Restart
      <4>1. \A t \in Entry : t # 0
        BY DEF Entry
      <4>2. \A t \in Entry : fate'[t] = IF t = current THEN "dropped" ELSE fate[t]
        BY <3>1 DEF Restart
      <4>3. \A t \in Entry : t = current => fate[t] = "running"
        BY <4>1 DEF InHand
      <4> QED
        BY <4>2, <4>3
    <3>2. CASE Log \/ Abort \/ AcquireFails
      <4>1. current \in Entry /\ fate[current] = "running"
        BY <3>2 DEF Log, Abort, AcquireFails, InHand
      <4>2. PICK how \in {"ended", "dropped"} : fate' = [fate EXCEPT ![current] = how]
        BY <3>2 DEF Log, Abort, AcquireFails, Finish
      <4> QED
        BY <1>a, <4>1, <4>2
    <3> QED
      BY <1>5, <3>1, <3>2
  <2>3. \A t \in Entry : /\ fate'[t] = "queued" <=> fate[t] = "queued"
                         /\ fate'[t] = "new" <=> fate[t] = "new"
    BY <2>2
  <2> QED
    BY <2>1, <2>3 DEF Listed, OldestLeavesFirst, QueueIsBounded
<1> QED
  BY <1>1, <1>2, <1>3, <1>4, <1>5, PostsPush DEF Next, ConsumerStep

\* Types, the consumer's hand and the list hold together.
Ordered == TypeOK /\ InHand /\ Listed /\ OldestLeavesFirst /\ QueueIsBounded

LEMMA OrderedHolds == Spec => []Ordered
<1>1. Init => Ordered
  BY TypesInit, ListedInit DEF Ordered
<1>2. Ordered /\ [Next]_vars => Ordered'
  BY TypesStep, ListedStep DEF Ordered
<1> QED
  BY <1>1, <1>2, PTL DEF Spec

\* The variables keep their types, and no bound is exceeded.
THEOREM PipelineTypeCorrect == Spec => []TypeOK
<1>1. Ordered => TypeOK
  BY DEF Ordered
<1> QED
  BY <1>1, OrderedHolds, PTL

\* No entry overtakes one that still waits, whatever is trimmed or lost.
THEOREM NoOvertaking == Spec => []OldestLeavesFirst
<1>1. Ordered => OldestLeavesFirst
  BY DEF Ordered
<1> QED
  BY <1>1, OrderedHolds, PTL

\* The list never outgrows its bound.
THEOREM QueueStaysBounded == Spec => []QueueIsBounded
<1>1. Ordered => QueueIsBounded
  BY DEF Ordered
<1> QED
  BY <1>1, OrderedHolds, PTL

----------------------------------------------------------------------------
(* Runs.                                                                   *)

\* An entry that waits, or that the consumer has only just taken, has not run.
Unrun ==
  /\ \A t \in Entry : fate[t] \in {"new", "queued"} => runs[t] = 0
  /\ cpc = "acquire" => runs[current] = 0

\* Every step keeps what has not run apart, and runs nothing twice.
LEMMA UnrunStep ==
  Ordered /\ Unrun /\ RunAtMostOnce /\ [Next]_vars
    => Unrun' /\ RunAtMostOnce'
<1> SUFFICES ASSUME TypeOK, InHand, Listed, Unrun, RunAtMostOnce, [Next]_vars
             PROVE  Unrun' /\ RunAtMostOnce'
  BY DEF Ordered
<1>a. /\ fate \in [Entry -> {"new", "queued", "running", "ended", "dropped"}]
      /\ runs \in [Entry -> Nat]
  BY DEF TypeOK
<1>1. CASE Acquire
  <2>1. current \in Entry /\ fate[current] = "running" /\ runs[current] = 0
    BY <1>1 DEF Acquire, InHand, Unrun
  <2>2. runs' = [runs EXCEPT ![current] = @ + 1] /\ fate' = fate /\ cpc' = "detect"
    BY <1>1 DEF Acquire
  <2> QED
    BY <1>a, <2>1, <2>2 DEF Unrun, RunAtMostOnce
<1>2. CASE Take
  <2>1. Oldest \in Entry /\ fate[Oldest] = "queued"
    <3>1. tasks \in Seq(Entry) /\ tasks # <<>>
      BY <1>2 DEF Take, TypeOK
    <3>2. Oldest \in Entry /\ Len(tasks) \in 1..Len(tasks)
      BY <3>1, Popping
    <3> QED
      BY <3>2 DEF Listed, InList, Oldest
  <2>2. runs' = runs /\ current' = Oldest /\ fate' = [fate EXCEPT ![Oldest] = "running"]
    BY <1>2 DEF Take
  <2> QED
    BY <1>a, <2>1, <2>2 DEF Unrun, RunAtMostOnce
<1>3. CASE Push
  <2>1. \A t \in Entry : fate'[t] \in {"new", "queued"} => fate[t] \in {"new", "queued"}
    BY <1>3, PublishKeeps
  <2>2. UNCHANGED <<runs, cpc, current>>
    BY <1>3 DEF Push, consumer
  <2> QED
    BY <2>1, <2>2 DEF Unrun, RunAtMostOnce
<1>4. CASE \/ Expire \/ LoseReply \/ AcquireFails \/ Detect \/ DetectFails \/ Handle \/ HandleFails
           \/ Recover \/ Log \/ Abort \/ Override \/ NewDay \/ Restart \/ UNCHANGED vars
  <2>1. runs' = runs
    BY <1>4 DEF Expire, LoseReply, AcquireFails, Detect, DetectFails, Handle, HandleFails,
                Recover, Log, Abort, Override, NewDay, Restart, vars
  <2>2. cpc' = "acquire" => UNCHANGED <<cpc, current>>
    BY <1>4 DEF Expire, LoseReply, AcquireFails, Detect, DetectFails, Handle, HandleFails,
                Recover, Log, Abort, Override, NewDay, Restart, Finish, vars, consumer
  <2>3. \A t \in Entry : fate'[t] \in {"new", "queued"} => fate[t] \in {"new", "queued"}
    <3>1. CASE \/ Detect \/ DetectFails \/ Handle \/ HandleFails \/ Recover \/ Override \/ NewDay
               \/ UNCHANGED vars
      BY <3>1 DEF Detect, DetectFails, Handle, HandleFails, Recover, Override, NewDay, vars
    <3>2. CASE Expire \/ Restart
      BY <3>2 DEF Expire, Restart
    <3>3. CASE LoseReply
      BY <1>a, <3>3 DEF LoseReply
    <3>4. CASE AcquireFails \/ Log \/ Abort
      BY <1>a, <3>4 DEF AcquireFails, Log, Abort, Finish
    <3> QED
      BY <1>4, <3>1, <3>2, <3>3, <3>4
  <2> QED
    BY <2>1, <2>2, <2>3 DEF Unrun, RunAtMostOnce
<1> QED
  BY <1>1, <1>2, <1>3, <1>4, PostsPush DEF Next, ConsumerStep

\* No entry is run twice, whatever is lost, restarted or fails.
THEOREM NoEntryRunsTwice == Spec => []RunAtMostOnce
<1>1. Init => Unrun /\ RunAtMostOnce
  BY DEF Init, Unrun, RunAtMostOnce
<1> QED
  BY <1>1, UnrunStep, OrderedHolds, PTL DEF Spec

----------------------------------------------------------------------------
(* Records.                                                                *)

\* In one life of the process the next number of the day is free.
NumbersAreFree ==
  restarts = 0 =>
    \A r \in trail : r.id[1] <= day /\ (r.id[1] = day => r.id[2] <= counter)

\* A free number makes a row, unless the INSERT fails; no row ever goes.
LEMMA WriteRecords ==
  ASSUME TypeOK, NumbersAreFree, restarts = 0, NEW agent \in Agent, NEW t \in 0..MaxEntries,
         Write(agent, t)
  PROVE  /\ \/ /\ trail' = trail \cup {[id |-> <<day, counter + 1>>, by |-> agent, run |-> t]}
               /\ failures' = failures
            \/ trail' = trail /\ failures' = failures + 1
         /\ \A r \in trail' : r.id[1] <= day' /\ (r.id[1] = day' => r.id[2] <= counter')
<1>1. day \in Int /\ counter \in Int
  BY DEF TypeOK
<1>2. \A r \in trail : r.id[1] <= day /\ (r.id[1] = day => r.id[2] <= counter)
                       /\ r.id[1] \in Int /\ r.id[2] \in Int
  BY DEF NumbersAreFree, TypeOK, Record
<1>3. ~ \E r \in trail : r.id = <<day, counter + 1>>
  BY <1>1, <1>2
<1>4. /\ \/ /\ trail' = trail \cup {[id |-> <<day, counter + 1>>, by |-> agent, run |-> t]}
            /\ failures' = failures
         \/ trail' = trail /\ failures' = failures + 1
      /\ counter' = counter + 1 /\ day' = day
  BY <1>3 DEF Write
<1> QED
  BY <1>1, <1>2, <1>4

\* There are no more unrecorded runs than failures if each new one has its own.
LEMMA FewUnrecorded ==
  ASSUME TypeOK, TypeOK', Cardinality(Unrecorded) <= failures, NEW e,
         \/ Unrecorded' \subseteq Unrecorded /\ failures' >= failures
         \/ Unrecorded' \subseteq Unrecorded \cup {e} /\ failures' = failures + 1
  PROVE  Cardinality(Unrecorded') <= failures'
<1>1. IsFiniteSet(Entry) /\ Unrecorded \subseteq Entry
  <2>1. 1 \in Int /\ MaxEntries \in Int
    BY BoundsOK
  <2>2. IsFiniteSet(1..MaxEntries)
    BY <2>1, FS_Interval, Zenon
  <2> QED
    BY <2>2 DEF Entry, Unrecorded
<1>2. IsFiniteSet(Unrecorded) /\ Cardinality(Unrecorded) \in Nat
  BY <1>1, FS_Subset, FS_CardinalityType
<1>3. failures \in Nat /\ failures' \in Nat
  BY BoundsOK DEF TypeOK
<1>4. CASE Unrecorded' \subseteq Unrecorded /\ failures' >= failures
  <2>1. Cardinality(Unrecorded') \in Nat /\ Cardinality(Unrecorded') <= Cardinality(Unrecorded)
    BY <1>2, <1>4, FS_Subset, FS_CardinalityType
  <2> QED
    BY <1>2, <1>3, <1>4, <2>1
<1>5. CASE Unrecorded' \subseteq Unrecorded \cup {e} /\ failures' = failures + 1
  <2>1. /\ IsFiniteSet(Unrecorded \cup {e})
        /\ Cardinality(Unrecorded \cup {e}) = Cardinality(Unrecorded)
             \/ Cardinality(Unrecorded \cup {e}) = Cardinality(Unrecorded) + 1
    BY <1>2, FS_AddElement
  <2>2. /\ Cardinality(Unrecorded') \in Nat
        /\ Cardinality(Unrecorded') <= Cardinality(Unrecorded \cup {e})
    BY <1>5, <2>1, FS_Subset, FS_CardinalityType
  <2> QED
    BY <1>2, <1>3, <1>5, <2>1, <2>2
<1> QED
  BY <1>4, <1>5

\* Every step of the first life keeps the numbers free, and leaves no ended run
\* without a record unless its INSERT fails.
LEMMA RecordsStep ==
  Ordered /\ TypeOK' /\ NumbersAreFree /\ RecordedInOneLife /\ [Next]_vars
    => NumbersAreFree' /\ RecordedInOneLife'
<1> SUFFICES ASSUME TypeOK, TypeOK', InHand, NumbersAreFree, RecordedInOneLife, [Next]_vars,
                    restarts' = 0
             PROVE  NumbersAreFree' /\ RecordedInOneLife'
  BY DEF Ordered, NumbersAreFree, RecordedInOneLife
<1>a. fate \in [Entry -> {"new", "queued", "running", "ended", "dropped"}]
  BY DEF TypeOK
<1>b. failures \in Int
  BY DEF TypeOK
<1>1. CASE Restart
  BY <1>1 DEF Restart, TypeOK
<1>c. ASSUME ~Restart
      PROVE  restarts = 0 /\ Cardinality(Unrecorded) <= failures
  <2>1. restarts' = restarts
    BY <1>c DEF Next, Posts, Publish, Resend, Push, Expire, ConsumerStep, Take, LoseReply, Acquire,
                AcquireFails, Detect, DetectFails, Handle, HandleFails, Recover, Log, Abort,
                Override, NewDay, vars
  <2> QED
    BY <2>1 DEF RecordedInOneLife
<1>d. ASSUME NEW e, ~Restart,
             \/ Unrecorded' \subseteq Unrecorded /\ failures' >= failures
             \/ Unrecorded' \subseteq Unrecorded \cup {e} /\ failures' = failures + 1
      PROVE  RecordedInOneLife'
  BY <1>c, <1>d, FewUnrecorded DEF RecordedInOneLife
<1>2. CASE NewDay /\ ~Restart
  <2>1. UNCHANGED <<trail, failures, fate, restarts>> /\ day' = day + 1 /\ day \in Int
    BY <1>2 DEF NewDay, TypeOK
  <2>2. \A r \in trail : r.id[1] \in Int
    <3>1. \A r \in Record : r.id[1] \in Int
      BY DEF Record
    <3> QED
      BY <3>1 DEF TypeOK
  <2>3. Unrecorded' \subseteq Unrecorded /\ failures' >= failures
    BY <1>b, <2>1 DEF Unrecorded, Recorded
  <2> QED
    BY <1>2, <1>d, <2>1, <2>2, <2>3 DEF NumbersAreFree
<1>3. CASE (Recover \/ Override) /\ ~Restart
  <2>1. fate' = fate /\ restarts' = restarts
    BY <1>3 DEF Recover, Override
  <2>2. PICK agent \in Agent, t \in 0..MaxEntries : Write(agent, t)
    BY <1>3, BoundsOK DEF Recover, Override, Agent, TypeOK
  <2>3. trail \subseteq trail' /\ failures' >= failures /\ NumbersAreFree'
    BY <1>3, <1>b, <1>c, <2>2, WriteRecords DEF NumbersAreFree
  <2>4. Unrecorded' \subseteq Unrecorded
    BY <2>1, <2>3 DEF Unrecorded, Recorded
  <2> QED
    BY <1>3, <1>d, <2>3, <2>4
<1>4. CASE (Log \/ Abort) /\ ~Restart
  <2>1. /\ current \in Entry /\ current \in 0..MaxEntries
        /\ fate' = [fate EXCEPT ![current] = "ended"]
    BY <1>4 DEF Log, Abort, Finish, InHand, TypeOK
  <2>2. PICK agent \in Agent : Write(agent, current)
    BY <1>4 DEF Log, Abort, Agent
  <2>3. /\ \/ /\ trail' = trail \cup {[id |-> <<day, counter + 1>>, by |-> agent, run |-> current]}
              /\ failures' = failures
           \/ trail' = trail /\ failures' = failures + 1
        /\ NumbersAreFree'
    BY <1>4, <1>c, <2>1, <2>2, WriteRecords DEF NumbersAreFree
  <2>4. \A t \in Entry \ {current} : fate'[t] = fate[t]
    BY <1>a, <2>1
  <2>5. Unrecorded' \subseteq Unrecorded \cup {current}
    BY <2>3, <2>4 DEF Unrecorded, Recorded
  <2>6. CASE trail' = trail /\ failures' = failures + 1
    BY <1>4, <1>d, <2>3, <2>5, <2>6
  <2>7. CASE /\ trail' = trail \cup {[id |-> <<day, counter + 1>>, by |-> agent, run |-> current]}
             /\ failures' = failures
    <3>1. [id |-> <<day, counter + 1>>, by |-> agent, run |-> current].run = current
      OBVIOUS
    <3>2. \E r \in trail' : r.run = current
      BY <2>7, <3>1
    <3>3. Unrecorded' \subseteq Unrecorded
      BY <2>5, <3>2 DEF Unrecorded, Recorded
    <3> QED
      BY <1>4, <1>b, <1>d, <2>3, <2>7, <3>3
  <2> QED
    BY <2>3, <2>6, <2>7
<1>5. CASE /\ \/ Push \/ Expire \/ Take \/ LoseReply \/ Acquire \/ AcquireFails
              \/ Detect \/ DetectFails \/ Handle \/ HandleFails \/ UNCHANGED vars
           /\ ~Restart
  <2>1. UNCHANGED <<trail, day, counter, failures, restarts>>
    BY <1>5 DEF Push, Expire, Take, LoseReply, Acquire, AcquireFails, Detect, DetectFails,
                Handle, HandleFails, vars, audit
  <2>2. \A t \in Entry : fate'[t] = "ended" => fate[t] = "ended"
    <3>1. CASE Push
      BY <3>1 DEF Push
    <3>2. CASE Expire
      BY <3>2 DEF Expire
    <3>3. CASE Take \/ LoseReply \/ AcquireFails
      BY <1>a, <3>3 DEF Take, LoseReply, AcquireFails, Finish
    <3>4. CASE Acquire \/ Detect \/ DetectFails \/ Handle \/ HandleFails \/ UNCHANGED vars
      BY <3>4 DEF Acquire, Detect, DetectFails, Handle, HandleFails, vars
    <3> QED
      BY <1>5, <3>1, <3>2, <3>3, <3>4
  <2>3. Unrecorded' \subseteq Unrecorded /\ failures' >= failures
    BY <1>b, <2>1, <2>2 DEF Unrecorded, Recorded
  <2> QED
    BY <1>5, <1>d, <2>1, <2>3 DEF NumbersAreFree
<1> QED
  BY <1>1, <1>2, <1>3, <1>4, <1>5, PostsPush DEF Next, ConsumerStep

\* In one life of the process no more runs end without a record than INSERTs fail.
THEOREM RunsAreRecorded == Spec => []RecordedInOneLife
<1>1. Init => NumbersAreFree /\ RecordedInOneLife
  <2>1. Init => Unrecorded = {}
    BY DEF Init, Unrecorded
  <2>2. Init => failures = 0 /\ trail = {}
    BY DEF Init
  <2> QED
    BY <2>1, <2>2, FS_EmptySet DEF NumbersAreFree, RecordedInOneLife
<1> QED
  BY <1>1, RecordsStep, OrderedHolds, PipelineTypeCorrect, PTL DEF Spec

\* The entry in hand has been run once the scan has begun.
Begun == cpc \in {"detect", "handle", "recover", "log", "abort"} => runs[current] > 0

LEMMA BegunStep == Ordered /\ Begun /\ [Next]_vars => Begun'
<1> SUFFICES ASSUME TypeOK, InHand, Begun, [Next]_vars
             PROVE  Begun'
  BY DEF Ordered
<1>1. CASE Acquire
  <2>1. current \in Entry /\ runs \in [Entry -> Nat]
    BY <1>1 DEF Acquire, InHand, TypeOK
  <2>2. runs' = [runs EXCEPT ![current] = @ + 1] /\ current' = current
    BY <1>1 DEF Acquire
  <2> QED
    BY <2>1, <2>2 DEF Begun
<1>2. CASE Take \/ LoseReply \/ AcquireFails \/ Log \/ Abort \/ Restart
  BY <1>2 DEF Take, LoseReply, AcquireFails, Log, Abort, Restart, Finish, consumer, Begun
<1>3. CASE Detect \/ DetectFails \/ Handle \/ HandleFails \/ Recover
  BY <1>3 DEF Detect, DetectFails, Handle, HandleFails, Recover, Begun
<1>4. CASE Push \/ Expire \/ Override \/ NewDay \/ UNCHANGED vars
  BY <1>4 DEF Push, Expire, Override, NewDay, vars, consumer, Begun
<1> QED
  BY <1>1, <1>2, <1>3, <1>4, PostsPush DEF Next, ConsumerStep

\* A run that has ended stays so, and what was run was run.
LEMMA EndedStays ==
  ASSUME Ordered, [Next]_vars, NEW t \in Entry
  PROVE  /\ fate[t] = "ended" => fate'[t] = "ended"
         /\ runs[t] <= runs'[t]
<1>a. /\ fate \in [Entry -> {"new", "queued", "running", "ended", "dropped"}]
      /\ runs \in [Entry -> Nat] /\ TypeOK /\ InHand /\ Listed
  BY DEF Ordered, TypeOK
<1>1. CASE Push
  BY <1>1, <1>a, PublishKeeps DEF Push
<1>2. CASE Take \/ LoseReply
  <2>1. fate[Oldest] = "queued"
    <3>1. tasks \in Seq(Entry) /\ tasks # <<>>
      BY <1>2, <1>a DEF Take, LoseReply, TypeOK
    <3>2. Oldest \in Entry /\ Len(tasks) \in 1..Len(tasks)
      BY <3>1, Popping
    <3> QED
      BY <3>2, <1>a DEF Listed, InList, Oldest
  <2> QED
    BY <1>2, <1>a, <2>1 DEF Take, LoseReply
<1>3. CASE AcquireFails \/ Log \/ Abort
  <2>1. current \in Entry /\ fate[current] = "running" /\ runs' = runs
    BY <1>3, <1>a DEF AcquireFails, Log, Abort, InHand
  <2>2. \E how \in {"dropped", "ended"} : fate' = [fate EXCEPT ![current] = how]
    BY <1>3 DEF AcquireFails, Log, Abort, Finish
  <2> QED
    BY <1>a, <2>1, <2>2
<1>4. CASE Acquire
  BY <1>4, <1>a DEF Acquire
<1>5. CASE Restart
  <2>1. fate[t] = "ended" => t # current
    BY <1>a DEF InHand, TypeOK, Entry
  <2> QED
    BY <1>5, <1>a, <2>1 DEF Restart
<1>6. CASE Expire
  BY <1>6, <1>a DEF Expire
<1>7. CASE \/ Detect \/ DetectFails \/ Handle \/ HandleFails \/ Recover
           \/ Override \/ NewDay \/ UNCHANGED vars
  BY <1>7, <1>a DEF Detect, DetectFails, Handle, HandleFails, Recover, Override, NewDay, vars
<1> QED
  BY <1>a, <1>1, <1>2, <1>3, <1>4, <1>5, <1>6, <1>7, PostsPush DEF Next, ConsumerStep

LEMMA TruthfulStep ==
  Ordered /\ Begun /\ RunAtMostOnce /\ RunAtMostOnce' /\ TypeOK' /\ TrailIsTruthful /\ [Next]_vars
    => TrailIsTruthful'
<1> SUFFICES ASSUME Ordered, Begun, RunAtMostOnce, RunAtMostOnce', TypeOK', TrailIsTruthful, [Next]_vars
             PROVE  TrailIsTruthful'
  OBVIOUS
<1>a. /\ TypeOK /\ InHand /\ current \in 0..MaxEntries
      /\ \A t \in Entry : runs[t] \in Nat /\ runs'[t] \in Nat
  BY DEF Ordered, TypeOK
<1>b. \A r \in trail : /\ r.by \in {"audit", "fallback"} => runs'[r.run] = 1
                       /\ r.by = "audit" => fate'[r.run] = "ended"
  BY <1>a, EndedStays DEF TrailIsTruthful, RunAtMostOnce
<1>1. CASE trail' = trail
  BY <1>1, <1>b DEF TrailIsTruthful
<1>2. ASSUME NEW agent \in Agent, NEW t \in 0..MaxEntries, Write(agent, t),
             agent # "override" => t \in Entry /\ runs'[t] = 1,
             agent = "audit" => fate[t] = "running" /\ fate'[t] = "ended"
      PROVE  TrailIsTruthful'
  <2> DEFINE new == [id |-> <<day, counter + 1>>, by |-> agent, run |-> t]
  <2>1. CASE trail' = trail \cup {new} /\ \A r \in trail : r.id # <<day, counter + 1>>
    <3>1. new.id = <<day, counter + 1>> /\ new.by = agent /\ new.run = t
      OBVIOUS
    <3>2. agent = "audit" => \A r \in trail : r.by = "audit" => r.run # t
      BY <1>2 DEF TrailIsTruthful
    <3> HIDE DEF new
    <3>3. \A r \in trail' : r \in trail \/ r = new
      BY <2>1
    <3>4. \A r, s \in trail' : r.id = s.id => r = s
      BY <2>1, <3>1, <3>3 DEF TrailIsTruthful
    <3>5. \A r \in trail' : r.by \in {"audit", "fallback"} => r.run \in Entry /\ runs'[r.run] = 1
      BY <1>2, <1>b, <3>1, <3>3 DEF TrailIsTruthful
    <3>6. \A r \in trail' : r.by = "audit" => fate'[r.run] = "ended"
      BY <1>2, <1>b, <3>1, <3>3 DEF TrailIsTruthful
    <3>7. \A r, s \in trail' : r.by = "audit" /\ s.by = "audit" /\ r.run = s.run => r = s
      BY <3>1, <3>2, <3>3 DEF TrailIsTruthful
    <3> QED
      BY <3>4, <3>5, <3>6, <3>7 DEF TrailIsTruthful
  <2>2. \/ trail' = trail
        \/ trail' = trail \cup {new} /\ \A r \in trail : r.id # <<day, counter + 1>>
    BY <1>2 DEF Write
  <2> QED
    BY <1>1, <2>1, <2>2
<1>3. CASE Override
  <2>1. Write("override", 0) /\ "override" \in Agent /\ 0 \in 0..MaxEntries
    BY <1>3, BoundsOK DEF Override, Agent
  <2> QED
    BY <1>2, <2>1
<1>4. CASE Recover
  <2>1. current \in Entry /\ runs[current] > 0 /\ runs' = runs
    BY <1>4, <1>a DEF Recover, InHand, Begun
  <2>2. runs'[current] = 1 /\ Write("fallback", current)
    BY <1>4, <1>a, <2>1 DEF Recover, RunAtMostOnce
  <2> QED
    BY <1>2, <1>a, <2>1, <2>2 DEF Agent
<1>5. CASE Log \/ Abort
  <2>1. current \in Entry /\ runs[current] > 0 /\ runs' = runs /\ fate[current] = "running"
    BY <1>5, <1>a DEF Log, Abort, InHand, Begun
  <2>2. runs'[current] = 1 /\ fate'[current] = "ended"
    <3>1. runs[current] = 1
      BY <1>a, <2>1 DEF RunAtMostOnce
    <3>2. fate \in [Entry -> {"new", "queued", "running", "ended", "dropped"}]
      BY <1>a DEF TypeOK
    <3>3. fate' = [fate EXCEPT ![current] = "ended"]
      BY <1>5 DEF Log, Abort, Finish
    <3> QED
      BY <2>1, <3>1, <3>2, <3>3
  <2>3. PICK agent \in {"audit", "fallback"} : Write(agent, current)
    BY <1>5 DEF Log, Abort
  <2> QED
    BY <1>2, <1>a, <2>1, <2>2, <2>3 DEF Agent
<1>6. CASE \/ Push \/ Expire \/ Take \/ LoseReply \/ Acquire \/ AcquireFails \/ Detect \/ DetectFails
           \/ Handle \/ HandleFails \/ NewDay \/ Restart \/ UNCHANGED vars
  <2>1. trail' = trail
    BY <1>6 DEF Push, Expire, Take, LoseReply, Acquire, AcquireFails, Detect, DetectFails,
                Handle, HandleFails, NewDay, Restart, vars, audit
  <2> QED
    BY <1>1, <2>1
<1> QED
  BY <1>a, <1>3, <1>4, <1>5, <1>6, PostsPush DEF Next, ConsumerStep

\* Across restarts, midnight and overrides the trail tells no run that was not
\* there, and none twice; what it may lack is the record of a run.
THEOREM TrailTellsTheTruth == Spec => []TrailIsTruthful
<1>1. Init => Begun /\ TrailIsTruthful
  BY DEF Init, Begun, TrailIsTruthful
<1> QED
  BY <1>1, BegunStep, TruthfulStep, OrderedHolds, PipelineTypeCorrect, NoEntryRunsTwice, PTL DEF Spec

----------------------------------------------------------------------------
(* The queue is a mailbox.                                                 *)

\* The box counts as FiniteSets does.
LEMMA SameCardinality == \A S : Box!Cardinality(S) = Cardinality(S)
  BY DEF Box!Cardinality, Cardinality

\* There are as many waiting entries as the list is long.
LEMMA WaitingIsListed ==
  ASSUME Ordered
  PROVE  IsFiniteSet(Waiting) /\ Cardinality(Waiting) = Len(tasks)
<1>1. /\ tasks \in Seq(Entry) /\ Len(tasks) \in Nat
      /\ \A i \in 1..Len(tasks) : tasks[i] \in Entry /\ tasks[i] \in Int
  <2>1. tasks \in Seq(Entry) /\ \A t \in Entry : t \in Int
    BY DEF Ordered, TypeOK, Entry
  <2>2. Len(tasks) \in Nat /\ \A i \in 1..Len(tasks) : tasks[i] \in Entry
    BY <2>1, LenProperties, ElementOfSeq
  <2> QED
    BY <2>1, <2>2
<1>2. \A i, j \in 1..Len(tasks) : tasks[i] = tasks[j] => i = j
  <2> SUFFICES ASSUME NEW i \in 1..Len(tasks), NEW j \in 1..Len(tasks), tasks[i] = tasks[j]
               PROVE  i = j
    OBVIOUS
  <2>1. ~(tasks[i] > tasks[j]) /\ ~(tasks[j] > tasks[i])
    BY <1>1
  <2> QED
    BY <1>1, <2>1 DEF Ordered, Listed
<1> DEFINE f == [i \in 1..Len(tasks) |-> tasks[i]]
<1>3. f \in [1..Len(tasks) -> Waiting]
  BY <1>1 DEF Waiting, Ordered, Listed, InList
<1>4. \A i, j \in 1..Len(tasks) : f[i] = f[j] => i = j
  BY <1>2
<1>5. \A t \in Waiting : \E i \in 1..Len(tasks) : f[i] = t
  BY DEF Waiting, Ordered, Listed, InList
<1>6. f \in Bijection(1..Len(tasks), Waiting)
  BY <1>3, <1>4, <1>5, Fun_IsBij
<1>7. IsFiniteSet(1..Len(tasks)) /\ Cardinality(1..Len(tasks)) = Len(tasks)
  <2>1. 1 \in Int /\ Len(tasks) \in Int
    BY <1>1
  <2>2. /\ IsFiniteSet(1..Len(tasks))
        /\ Cardinality(1..Len(tasks)) = IF 1 > Len(tasks) THEN 0 ELSE Len(tasks) - 1 + 1
    BY <2>1, FS_Interval, Zenon
  <2> QED
    BY <1>1, <2>2
<1> QED
  BY <1>6, <1>7, FS_Bijection DEF ExistsBijection

\* The end of the list is the oldest of the waiting entries.
LEMMA OldestWaits ==
  ASSUME Ordered, tasks # <<>>
  PROVE  /\ Oldest \in Waiting
         /\ \A t \in Waiting : Oldest <= t
         /\ Box!Oldest(Waiting) = Oldest
<1>1. /\ tasks \in Seq(Entry) /\ Len(tasks) \in 1..Len(tasks) /\ Oldest \in Entry
      /\ \A t \in Entry : t \in Int
  <2>1. tasks \in Seq(Entry)
    BY DEF Ordered, TypeOK
  <2> QED
    BY <2>1, Popping DEF Entry
<1>2. Oldest \in Waiting
  BY <1>1 DEF Waiting, Ordered, Listed, InList, Oldest
<1>3. \A t \in Waiting : Oldest <= t
  <2> SUFFICES ASSUME NEW t \in Entry, NEW i \in 1..Len(tasks), tasks[i] = t
               PROVE  Oldest <= t
    BY DEF Waiting, Ordered, Listed, InList
  <2>1. i < Len(tasks) => tasks[i] > tasks[Len(tasks)]
    BY <1>1 DEF Ordered, Listed
  <2> QED
    BY <1>1, <2>1 DEF Oldest
<1>4. \A m \in Waiting : (\A n \in Waiting : m <= n) => m = Oldest
  BY <1>1, <1>2, <1>3 DEF Waiting
<1> QED
  BY <1>2, <1>3, <1>4 DEF Box!Oldest

\* Pushing puts a copy into the box, and the oldest makes way.
LEMMA PushPuts ==
  ASSUME Ordered, Push, NEW l, carries' = [carries EXCEPT ![pushed + 1] = l]
  PROVE  Box!Put(l)
<1> DEFINE p == pushed + 1
           box == Waiting \cup {p}
<1>1. /\ p \in Entry /\ pushed < MaxEntries /\ pushed' = p /\ pushed \in Int
      /\ \A t \in Entry : t \in Int
      /\ tasks \in Seq(Entry) /\ Len(tasks) \in Nat /\ Len(tasks) <= MaxQueueSize
  <2>1. tasks \in Seq(Entry) /\ Len(tasks) <= MaxQueueSize
    BY DEF Ordered, TypeOK, QueueIsBounded
  <2>2. /\ p \in Entry /\ pushed < MaxEntries /\ pushed' = p /\ pushed \in Int
        /\ \A t \in Entry : t \in Int
    BY PushNumbers DEF Ordered
  <2> QED
    BY <2>1, <2>2, LenProperties
<1>2. /\ Len(tasks') \in 1..MaxQueueSize /\ Len(tasks') <= Len(tasks) + 1
      /\ Len(tasks) < MaxQueueSize => Len(tasks') = Len(tasks) + 1
      /\ Len(tasks) = MaxQueueSize => Len(tasks') = MaxQueueSize
      /\ tasks'[1] = p
      /\ \A i \in 2..Len(tasks') : tasks'[i] = tasks[i - 1]
  BY <1>1, Pushing DEF Push
<1>3. \A t \in Waiting : t \in Entry /\ t < p
  BY <1>1 DEF Waiting, Ordered, Listed
<1>4. /\ \A t : t \in Waiting' <=> t \in Entry /\ InList(tasks', t)
      /\ \A t : t \in Waiting <=> t \in Entry /\ InList(tasks, t)
  BY DEF Waiting, Push, Ordered, Listed
<1>10. UNCHANGED <<Held, runs>>
  BY DEF Push, Held, consumer
<1>5. \A t \in Entry : InList(tasks', t) =>
        t = p \/ \E i \in 1..(Len(tasks') - 1) : tasks[i] = t
  <2> SUFFICES ASSUME NEW t \in Entry, NEW i \in 1..Len(tasks'), tasks'[i] = t, t # p
               PROVE  \E j \in 1..(Len(tasks') - 1) : tasks[j] = t
    BY DEF InList
  <2>1. i \in 2..Len(tasks') /\ tasks[i - 1] = t /\ i - 1 \in 1..(Len(tasks') - 1)
    BY <1>2, BoundsOK
  <2> QED
    BY <2>1
<1>6. \A i \in 1..(Len(tasks') - 1) : InList(tasks', tasks[i])
  <2> SUFFICES ASSUME NEW i \in 1..(Len(tasks') - 1)
               PROVE  InList(tasks', tasks[i])
    OBVIOUS
  <2>1. i + 1 \in 2..Len(tasks') /\ i + 1 \in 1..Len(tasks') /\ (i + 1) - 1 = i
    BY <1>2, BoundsOK
  <2> QED
    BY <1>2, <2>1 DEF InList
<1>7. InList(tasks', p)
  BY <1>2, BoundsOK DEF InList
<1>8. CASE Len(tasks) < MaxQueueSize
  <2>1. Len(tasks') - 1 = Len(tasks)
    BY <1>1, <1>2, <1>8
  <2>2. \A t \in Entry : InList(tasks', t) <=> t = p \/ InList(tasks, t)
    BY <1>5, <1>6, <1>7, <2>1 DEF InList
  <2>3. Waiting' = box
    BY <1>1, <1>4, <2>2
  <2>4. Box!Cardinality(Waiting) < MaxQueueSize
    BY <1>8, WaitingIsListed, SameCardinality
  <2> QED
    BY <1>1, <1>10, <2>3, <2>4 DEF Box!Put
<1>9. CASE Len(tasks) = MaxQueueSize
  <2>1. Len(tasks') - 1 = Len(tasks) - 1 /\ Len(tasks) \in 1..Len(tasks) /\ tasks # <<>>
    BY <1>1, <1>2, <1>9, BoundsOK, EmptySeq
  <2>2. /\ Oldest \in Waiting /\ \A t \in Waiting : Oldest <= t
        /\ Oldest = tasks[Len(tasks)] /\ Oldest \in Int /\ Oldest < p
    BY <1>1, <1>3, <2>1, OldestWaits DEF Oldest
  <2>3. \A i \in 1..Len(tasks) : i < Len(tasks) => tasks[i] > Oldest
    BY <2>1, <2>2 DEF Ordered, Listed
  <2>4. \A t \in Entry : InList(tasks', t) <=> t = p \/ (InList(tasks, t) /\ t # Oldest)
    <3> SUFFICES ASSUME NEW t \in Entry
                 PROVE  InList(tasks', t) <=> t = p \/ (InList(tasks, t) /\ t # Oldest)
      OBVIOUS
    <3>1. ASSUME NEW i \in 1..(Len(tasks') - 1), tasks[i] = t
          PROVE  InList(tasks, t) /\ t # Oldest
      <4>1. i \in 1..Len(tasks) /\ i < Len(tasks)
        BY <1>1, <2>1
      <4> QED
        BY <1>1, <2>2, <2>3, <3>1, <4>1 DEF InList
    <3>2. ASSUME NEW i \in 1..Len(tasks), tasks[i] = t, t # Oldest
          PROVE  InList(tasks', t)
      <4>1. i \in 1..(Len(tasks') - 1)
        BY <1>1, <2>1, <2>2, <3>2
      <4> QED
        BY <1>6, <3>2, <4>1
    <3> QED
      BY <1>5, <1>7, <3>1, <3>2 DEF InList
  <2>5. Waiting' = box \ {Oldest}
    <3>1. p # Oldest
      BY <1>1, <2>2
    <3> QED
      BY <1>1, <1>4, <2>4, <3>1
  <2>6. Box!Oldest(box) = Oldest
    <3>1. Oldest \in box /\ \A m \in box : Oldest <= m
      BY <1>1, <2>2
    <3>2. \A m \in box : (\A n \in box : m <= n) => m = Oldest
      BY <1>1, <1>3, <2>2, <3>1
    <3> QED
      BY <3>1, <3>2 DEF Box!Oldest
  <2>7. ~(Box!Cardinality(Waiting) < MaxQueueSize)
    BY <1>1, <1>9, WaitingIsListed, SameCardinality
  <2> QED
    BY <1>1, <1>10, <2>5, <2>6, <2>7 DEF Box!Put
<1> QED
  BY <1>1, <1>8, <1>9, BoundsOK

\* The tasks whose push may be sent again have one entry each, and no entry
\* carries a task that is still to be published.
Answering ==
  /\ \A e \in 1..pushed : carries[e] <= published
  /\ \A t \in unanswered :
       /\ t <= published
       /\ \E e \in 1..pushed : \A f \in 1..pushed : carries[f] = t <=> f = e

LEMMA AnsweringStep == TypeOK /\ Answering /\ [Next]_vars => Answering'
<1> SUFFICES ASSUME TypeOK, Answering, [Next]_vars
             PROVE  Answering'
  OBVIOUS
<1>a. /\ published \in Nat /\ unanswered \subseteq Task /\ pushed \in Nat /\ pushed <= MaxEntries
      /\ carries \in [Entry -> 0..MaxTasks] /\ \A t \in Task : t \in Nat
      /\ \A e \in 1..pushed : e \in Entry /\ carries[e] \in Nat
  BY BoundsOK DEF TypeOK, Task, Entry
<1>b. ASSUME Push, NEW t \in Nat, carries' = [carries EXCEPT ![pushed + 1] = t]
      PROVE  /\ pushed' = pushed + 1
             /\ \A e \in 1..pushed' : carries'[e] = IF e = pushed + 1 THEN t ELSE carries[e]
             /\ \A e \in 1..pushed' : e # pushed + 1 => e \in 1..pushed
             /\ 1..pushed \subseteq 1..pushed' /\ pushed + 1 \in 1..pushed' \ 1..pushed
  <2>1. pushed' = pushed + 1 /\ pushed < MaxEntries
    BY <1>b DEF Push
  <2>2. \A e \in 1..(pushed + 1) : e \in Entry
    BY <1>a, <2>1, BoundsOK DEF Entry
  <2> QED
    BY <1>a, <1>b, <2>1, <2>2
<1>1. CASE Publish
  <2>1. /\ published' = published + 1 /\ unanswered' = unanswered \cup {published + 1}
        /\ Push /\ carries' = [carries EXCEPT ![pushed + 1] = published + 1]
    BY <1>1 DEF Publish
  <2>0. published + 1 \in Nat
    BY <1>a
  <2>2. /\ pushed' = pushed + 1
        /\ \A e \in 1..pushed' : carries'[e] = IF e = pushed + 1 THEN published + 1 ELSE carries[e]
        /\ \A e \in 1..pushed' : e # pushed + 1 => e \in 1..pushed
        /\ 1..pushed \subseteq 1..pushed' /\ pushed + 1 \in 1..pushed' \ 1..pushed
    BY <1>b, <2>0, <2>1
  <2>3. \A e \in 1..pushed' : carries'[e] <= published'
    BY <1>a, <2>1, <2>2 DEF Answering
  <2>4. ASSUME NEW t \in unanswered'
        PROVE  /\ t <= published'
               /\ \E e \in 1..pushed' : \A f \in 1..pushed' : carries'[f] = t <=> f = e
    <3>1. CASE t = published + 1
      <4>1. \A f \in 1..pushed' : carries'[f] = t <=> f = pushed + 1
        BY <1>a, <2>2, <3>1 DEF Answering
      <4> QED
        BY <1>a, <2>1, <2>2, <3>1, <4>1
    <3>2. CASE t # published + 1
      <4>1. t \in unanswered /\ t <= published
        BY <2>1, <2>4, <3>2 DEF Answering
      <4>2. PICK e \in 1..pushed : \A f \in 1..pushed : carries[f] = t <=> f = e
        BY <4>1 DEF Answering
      <4>3. \A f \in 1..pushed' : carries'[f] = t <=> f = e
        BY <1>a, <2>2, <3>2, <4>2
      <4> QED
        BY <1>a, <2>1, <2>2, <4>1, <4>3
    <3> QED
      BY <3>1, <3>2
  <2> QED
    BY <2>3, <2>4 DEF Answering
<1>2. ASSUME NEW u \in Task, Resend(u)
      PROVE  Answering'
  <2>1. /\ published' = published /\ unanswered' = unanswered \ {u} /\ u \in unanswered
        /\ Push /\ carries' = [carries EXCEPT ![pushed + 1] = u]
    BY <1>2 DEF Resend
  <2>2. /\ pushed' = pushed + 1
        /\ \A e \in 1..pushed' : carries'[e] = IF e = pushed + 1 THEN u ELSE carries[e]
        /\ \A e \in 1..pushed' : e # pushed + 1 => e \in 1..pushed
        /\ 1..pushed \subseteq 1..pushed' /\ pushed + 1 \in 1..pushed' \ 1..pushed
    BY <1>a, <1>b, <2>1
  <2>3. \A e \in 1..pushed' : carries'[e] <= published'
    BY <2>1, <2>2 DEF Answering
  <2>4. ASSUME NEW t \in unanswered'
        PROVE  /\ t <= published'
               /\ \E e \in 1..pushed' : \A f \in 1..pushed' : carries'[f] = t <=> f = e
    <3>1. t \in unanswered /\ t # u /\ t <= published
      BY <2>1 DEF Answering
    <3>2. PICK e \in 1..pushed : \A f \in 1..pushed : carries[f] = t <=> f = e
      BY <3>1 DEF Answering
    <3>3. \A f \in 1..pushed' : carries'[f] = t <=> f = e
      BY <1>a, <2>2, <3>1, <3>2
    <3> QED
      BY <2>1, <2>2, <3>1, <3>3
  <2> QED
    BY <2>3, <2>4 DEF Answering
<1>3. CASE Restart
  <2>1. UNCHANGED <<pushed, carries, published>> /\ unanswered' = {}
    BY <1>3 DEF Restart
  <2> QED
    BY <2>1 DEF Answering
<1>4. CASE Expire \/ ConsumerStep \/ Override \/ NewDay \/ UNCHANGED vars
  <2>1. UNCHANGED publishers
    BY <1>4 DEF Expire, ConsumerStep, Take, LoseReply, Acquire, AcquireFails, Detect, DetectFails,
                Handle, HandleFails, Recover, Log, Abort, Override, NewDay, vars, queue
  <2> QED
    BY <2>1 DEF Answering, publishers
<1> QED
  BY <1>1, <1>2, <1>3, <1>4 DEF Next, Posts

LEMMA AnsweringHolds == Spec => []Answering
<1>1. Init => Answering
  BY DEF Init, Answering
<1> QED
  BY <1>1, AnsweringStep, PipelineTypeCorrect, PTL DEF Spec

\* Publishing sends a new letter, a repeated transaction the second copy of one.
LEMMA PostsAreSends ==
  ASSUME Ordered, Answering, Posts
  PROVE  \E l \in 1..MaxTasks : Box!Send(l) \/ Box!SendAgain(l)
<1>a. TypeOK
  BY DEF Ordered
<1>1. CASE Publish
  <2>1. /\ published + 1 \in 1..MaxTasks /\ published \in Int /\ pushed \in Nat
        /\ \A e \in 1..pushed : carries[e] \in Int
    BY <1>a, <1>1, BoundsOK DEF Publish, TypeOK, Entry
  <2>2. Box!Put(published + 1)
    BY <1>1, PushPuts DEF Publish
  <2>3. \A e \in 1..pushed : carries[e] < published + 1
    BY <2>1 DEF Answering
  <2> QED
    BY <2>1, <2>2, <2>3 DEF Box!Send
<1>2. ASSUME NEW t \in Task, Resend(t)
      PROVE  Box!SendAgain(t)
  <2>1. Box!Put(t) /\ t \in unanswered
    BY <1>2, PushPuts DEF Resend
  <2>2. PICK e \in 1..pushed : \A f \in 1..pushed : carries[f] = t <=> f = e
    BY <2>1 DEF Answering
  <2>3. Box!CopiesOf(t) = {e}
    BY <2>2 DEF Box!CopiesOf
  <2> QED
    BY <2>1, <2>3 DEF Box!SendAgain
<1> QED
  BY <1>1, <1>2 DEF Posts, Task

\* A pop takes the oldest letter out of the box.
LEMMA PopTakes ==
  ASSUME Ordered, tasks # <<>>, NEW how \in {"running", "dropped"},
         fate' = [fate EXCEPT ![Oldest] = how]
  PROVE  /\ Waiting # {} /\ Oldest \in Entry /\ Box!Oldest(Waiting) = Oldest
         /\ Waiting' = Waiting \ {Oldest}
<1>1. Oldest \in Waiting /\ Box!Oldest(Waiting) = Oldest
  BY OldestWaits
<1>2. fate \in [Entry -> {"new", "queued", "running", "ended", "dropped"}]
  BY DEF Ordered, TypeOK
<1> QED
  BY <1>1, <1>2 DEF Waiting

\* Every step of the pipeline is one of the mailbox, or none.
LEMMA PipelineSimulation ==
  Ordered /\ Answering /\ [Next]_vars => [Box!Next]_<<pushed, carries, Waiting, Held, runs>>
<1> SUFFICES ASSUME Ordered, Answering, [Next]_vars
             PROVE  [Box!Next]_<<pushed, carries, Waiting, Held, runs>>
  OBVIOUS
<1>a. /\ fate \in [Entry -> {"new", "queued", "running", "ended", "dropped"}]
      /\ 0 \notin Entry /\ InHand
  BY DEF Ordered, TypeOK, Entry
<1>1. CASE Posts
  BY <1>1, PostsAreSends DEF Box!Next
<1>2. CASE Take
  <2>1. cpc = "waiting" /\ tasks # <<>> /\ fate' = [fate EXCEPT ![Oldest] = "running"]
    BY <1>2 DEF Take
  <2>2. Waiting # {} /\ Oldest = Box!Oldest(Waiting) /\ Waiting' = Waiting \ {Oldest}
    BY <2>1, PopTakes
  <2>3. Held = 0 /\ Held' = Oldest /\ UNCHANGED <<pushed, carries, runs>>
    BY <1>2, <2>1 DEF Held, Take, publishers
  <2> QED
    BY <2>2, <2>3 DEF Box!Next, Box!Take
<1>3. CASE LoseReply
  <2>1. tasks # <<>> /\ fate' = [fate EXCEPT ![Oldest] = "dropped"]
    BY <1>3 DEF LoseReply
  <2>2. Waiting # {} /\ Oldest = Box!Oldest(Waiting) /\ Waiting' = Waiting \ {Oldest}
    BY <2>1, PopTakes
  <2>3. UNCHANGED <<pushed, carries, Held, runs>>
    BY <1>3 DEF LoseReply, Held, consumer, publishers
  <2> QED
    BY <2>2, <2>3 DEF Box!Next, Box!Lose
<1>4. CASE Expire
  <2>1. Waiting # {}
    BY <1>4, OldestWaits DEF Expire
  <2>2. Waiting' = {}
    BY <1>4 DEF Expire, Waiting
  <2>3. UNCHANGED <<pushed, carries, Held, runs>>
    BY <1>4 DEF Expire, Held, consumer, publishers
  <2> QED
    BY <2>1, <2>2, <2>3 DEF Box!Next, Box!Lose
<1>5. CASE Acquire
  <2>1. Held = current /\ current # 0 /\ Held' = 0
    BY <1>a, <1>5 DEF Acquire, Held, InHand
  <2>2. Waiting' = Waiting /\ UNCHANGED <<pushed, carries>>
    BY <1>5 DEF Acquire, Waiting, queue, publishers
  <2>3. runs' = [runs EXCEPT ![Held] = @ + 1]
    BY <1>5, <2>1 DEF Acquire
  <2> QED
    BY <2>1, <2>2, <2>3 DEF Box!Next, Box!Use
<1>6. CASE AcquireFails \/ Log \/ Abort \/ Restart
  <2>1. UNCHANGED <<pushed, carries, runs>> /\ Held' = 0
    BY <1>6 DEF AcquireFails, Log, Abort, Restart, Finish, Held, queue, publishers
  <2>2. \A t \in Entry : fate'[t] = "queued" <=> fate[t] = "queued"
    <3>1. CASE Restart
      BY <1>a, <3>1 DEF Restart, InHand
    <3>2. CASE AcquireFails \/ Log \/ Abort
      <4>1. fate[current] = "running"
        BY <1>a, <3>2 DEF AcquireFails, Log, Abort, InHand
      <4>2. PICK how \in {"ended", "dropped"} : fate' = [fate EXCEPT ![current] = how]
        BY <3>2 DEF AcquireFails, Log, Abort, Finish
      <4> QED
        BY <1>a, <4>1, <4>2
    <3> QED
      BY <1>6, <3>1, <3>2
  <2>3. Waiting' = Waiting
    BY <2>2 DEF Waiting
  <2>4. CASE Held = 0
    BY <2>1, <2>3, <2>4
  <2>5. CASE Held # 0
    BY <2>1, <2>3, <2>5 DEF Box!Next, Box!Drop
  <2> QED
    BY <2>4, <2>5
<1>7. CASE \/ Detect \/ DetectFails \/ Handle \/ HandleFails \/ Recover
           \/ Override \/ NewDay \/ UNCHANGED vars
  <2>1. UNCHANGED <<pushed, carries, fate, runs>>
    BY <1>7 DEF Detect, DetectFails, Handle, HandleFails, Recover, Override, NewDay, vars, queue, publishers
  <2>2. Held' = Held
    BY <1>7 DEF Detect, DetectFails, Handle, HandleFails, Recover, Override, NewDay, vars,
                consumer, Held
  <2> QED
    BY <2>1, <2>2 DEF Waiting
<1> QED
  BY <1>1, <1>2, <1>3, <1>4, <1>5, <1>6, <1>7 DEF Next, ConsumerStep

\* List, circuit breaker, blocking pop and consumer implement the mailbox: a task
\* is pushed once or twice, what is pushed is given out oldest first and run at most
\* once, and only the oldest entry, the one in hand or the whole list is ever lost.
THEOREM PipelineImplementsMailbox == Spec => ImplementsMailbox
<1>1. Init => Box!Init
  <2>1. ASSUME Init
        PROVE  Waiting = {} /\ Held = 0
    BY <2>1 DEF Init, Waiting, Held
  <2> QED
    BY <2>1 DEF Init, Box!Init, Entry
<1> QED
  BY <1>1, PipelineSimulation, OrderedHolds, AnsweringHolds, PTL DEF Spec, ImplementsMailbox, Box!Spec
----------------------------------------------------------------------------
(* What the mailbox is worth.                                              *)

\* The entries that wait are the youngest: none is left behind a later one.
YoungestWait ==
  \A t, u \in Entry : t < u /\ u <= pushed /\ t \in Waiting => u \in Waiting

\* The box holds all letters after the one numbered lo, and nothing it still
\* holds or has in hand has been used.
HoldsAfter(lo) ==
  /\ Waiting = (lo + 1)..pushed /\ pushed - lo <= MaxQueueSize
  /\ Held <= lo
  /\ runs \in [Entry -> Nat]
  /\ \A t \in Entry : /\ runs[t] <= 1
                      /\ t > lo \/ t = Held => runs[t] = 0

BoxKept ==
  /\ pushed \in 0..MaxEntries /\ Held \in Nat
  /\ \E lo \in 0..pushed : HoldsAfter(lo)

\* The oldest of a run of letters is its first.
LEMMA FirstIsOldest ==
  ASSUME NEW m \in Nat, NEW n \in Nat, m <= n
  PROVE  Box!Oldest(m..n) = m
<1>1. m \in m..n /\ \A k \in m..n : m <= k
  OBVIOUS
<1>2. \A l \in m..n : (\A k \in m..n : l <= k) => l = m
  OBVIOUS
<1> QED
  BY <1>1, <1>2 DEF Box!Oldest

LEMMA RunOfLetters ==
  ASSUME NEW m \in Nat, NEW n \in Nat, m <= n
  PROVE  Box!Cardinality((m + 1)..n) = n - m
<1>1. m + 1 \in Int /\ n \in Int
  OBVIOUS
<1>2. Cardinality((m + 1)..n) = IF m + 1 > n THEN 0 ELSE n - (m + 1) + 1
  BY <1>1, FS_Interval, Zenon
<1> QED
  BY <1>2, SameCardinality

LEMMA BoxKeeps == BoxKept /\ [Box!Next]_<<pushed, carries, Waiting, Held, runs>> => BoxKept'
<1> SUFFICES ASSUME BoxKept, [Box!Next]_<<pushed, carries, Waiting, Held, runs>>
             PROVE  BoxKept'
  OBVIOUS
<1>a. PICK lo \in 0..pushed : HoldsAfter(lo)
  BY DEF BoxKept
<1>b. /\ pushed \in Nat /\ pushed <= MaxEntries /\ lo \in Nat /\ lo <= pushed
      /\ Held \in Nat /\ MaxEntries \in Nat /\ MaxQueueSize \in Nat /\ MaxQueueSize > 0
  BY BoundsOK DEF BoxKept
<1>c. lo < pushed => Waiting # {} /\ Box!Oldest(Waiting) = lo + 1
                        /\ Waiting \ {lo + 1} = (lo + 2)..pushed
  BY <1>a, <1>b, FirstIsOldest DEF HoldsAfter
<1>d. Waiting # {} => lo < pushed
  BY <1>a, <1>b DEF HoldsAfter
<1>e. ASSUME NEW n \in 0..pushed', pushed' \in 0..MaxEntries, Held' \in Nat,
             HoldsAfter(n)'
      PROVE  BoxKept'
  BY <1>e DEF BoxKept
<1> USE DEF HoldsAfter, Entry
<1>1. ASSUME NEW l \in 1..MaxTasks, Box!Put(l)
      PROVE  BoxKept'
  <2> DEFINE box == Waiting \cup {pushed'}
  <2>1. /\ pushed' = pushed + 1 /\ pushed' <= MaxEntries
        /\ Held' = Held /\ runs' = runs
    BY <1>1, <1>b DEF Box!Put
  <2>2. box = (lo + 1)..pushed' /\ Box!Oldest(box) = lo + 1
        /\ box \ {lo + 1} = (lo + 2)..pushed'
    <3>1. lo + 1 \in Nat /\ pushed' \in Nat /\ lo + 1 <= pushed'
      BY <1>b, <2>1
    <3>2. Waiting = (lo + 1)..pushed
      BY <1>a
    <3>3. box = (lo + 1)..pushed'
      BY <1>b, <2>1, <3>2
    <3>4. Box!Oldest((lo + 1)..pushed') = lo + 1
      BY <3>1, FirstIsOldest
    <3>5. ((lo + 1)..pushed') \ {lo + 1} = (lo + 2)..pushed'
      BY <1>b, <3>1
    <3> QED
      BY <3>3, <3>4, <3>5, Zenon
  <2>3. Box!Cardinality(Waiting) = pushed - lo
    BY <1>a, <1>b, RunOfLetters
  <2>4. CASE pushed - lo < MaxQueueSize
    <3>1. Waiting' = (lo + 1)..pushed'
      BY <1>1, <2>2, <2>3, <2>4 DEF Box!Put
    <3>2. HoldsAfter(lo)'
      BY <1>a, <1>b, <2>1, <2>4, <3>1
    <3>3. lo \in 0..pushed' /\ pushed' \in 0..MaxEntries /\ Held' \in Nat
      BY <1>b, <2>1
    <3> QED
      BY <1>e, <3>2, <3>3, Zenon
  <2>5. CASE ~(pushed - lo < MaxQueueSize)
    <3>1. Waiting' = (lo + 2)..pushed'
      BY <1>1, <2>2, <2>3, <2>5 DEF Box!Put
    <3>2. /\ (lo + 1) + 1 = lo + 2 /\ lo + 1 \in 0..pushed'
          /\ pushed' \in 0..MaxEntries /\ Held' \in Nat
      BY <1>b, <2>1
    <3>3. HoldsAfter(lo + 1)'
      BY <1>a, <1>b, <2>1, <2>5, <3>1, <3>2
    <3> QED
      BY <1>e, <3>2, <3>3, Zenon
  <2> QED
    BY <2>4, <2>5
<1>2. CASE Box!Take
  <2>1. /\ Held = 0 /\ Held' = lo + 1 /\ Waiting' = (lo + 2)..pushed
        /\ pushed' = pushed /\ runs' = runs /\ lo < pushed
    BY <1>2, <1>c, <1>d DEF Box!Take
  <2>2. /\ (lo + 1) + 1 = lo + 2 /\ lo + 1 \in 0..pushed'
        /\ pushed' \in 0..MaxEntries /\ Held' \in Nat
    BY <1>b, <2>1
  <2>3. HoldsAfter(lo + 1)'
    BY <1>a, <1>b, <2>1, <2>2
  <2> QED
    BY <1>e, <2>2, <2>3, Zenon
<1>3. CASE Box!Use
  <2>1. /\ Held # 0 /\ Held' = 0 /\ Waiting' = Waiting /\ pushed' = pushed
        /\ runs' = [runs EXCEPT ![Held] = @ + 1]
    BY <1>3 DEF Box!Use
  <2>2. Held \in Entry /\ runs[Held] = 0
    BY <1>a, <1>b, <2>1
  <2>3. HoldsAfter(lo)'
    BY <1>a, <1>b, <2>1, <2>2
  <2>4. lo \in 0..pushed' /\ pushed' \in 0..MaxEntries /\ Held' \in Nat
    BY <1>b, <2>1
  <2> QED
    BY <1>e, <2>3, <2>4, Zenon
<1>4. CASE Box!Drop
  <2>1. Held' = 0 /\ Waiting' = Waiting /\ pushed' = pushed /\ runs' = runs
    BY <1>4 DEF Box!Drop
  <2>2. HoldsAfter(lo)'
    BY <1>a, <1>b, <2>1
  <2>3. lo \in 0..pushed' /\ pushed' \in 0..MaxEntries /\ Held' \in Nat
    BY <1>b, <2>1
  <2> QED
    BY <1>e, <2>2, <2>3, Zenon
<1>5. CASE Box!Lose
  <2>1. /\ Held' = Held /\ pushed' = pushed /\ runs' = runs /\ lo < pushed
        /\ Waiting' = {} \/ Waiting' = (lo + 2)..pushed
    BY <1>5, <1>c, <1>d DEF Box!Lose
  <2>2. CASE Waiting' = {}
    <3>1. HoldsAfter(pushed)'
      BY <1>a, <1>b, <2>1, <2>2
    <3>2. pushed' \in 0..pushed' /\ pushed' \in 0..MaxEntries /\ Held' \in Nat
      BY <1>b, <2>1
    <3> QED
      BY <1>e, <3>1, <3>2, Zenon
  <2>3. CASE Waiting' = (lo + 2)..pushed
    <3>1. /\ (lo + 1) + 1 = lo + 2 /\ lo + 1 \in 0..pushed'
          /\ pushed' \in 0..MaxEntries /\ Held' \in Nat
      BY <1>b, <2>1
    <3>2. HoldsAfter(lo + 1)'
      BY <1>a, <1>b, <2>1, <2>3, <3>1
    <3> QED
      BY <1>e, <3>1, <3>2, Zenon
  <2> QED
    BY <2>1, <2>2, <2>3
<1>6. CASE UNCHANGED <<pushed, carries, Waiting, Held, runs>>
  <2>1. HoldsAfter(lo)'
    BY <1>a, <1>6
  <2>2. lo \in 0..pushed' /\ pushed' \in 0..MaxEntries /\ Held' \in Nat
    BY <1>b, <1>6
  <2> QED
    BY <1>e, <2>1, <2>2, Zenon
<1> QED
  BY <1>1, <1>2, <1>3, <1>4, <1>5, <1>6 DEF Box!Next, Box!Send, Box!SendAgain

\* No three entries carry one task.
PutTwiceAtMost ==
  \A e, f, g \in 1..pushed :
    carries[e] = carries[f] /\ carries[f] = carries[g] => e = f \/ f = g \/ e = g

Copied ==
  /\ pushed \in 0..MaxEntries /\ carries \in [Entry -> 0..MaxTasks]
  /\ PutTwiceAtMost

LEMMA CopiedStep == Copied /\ [Box!Next]_<<pushed, carries, Waiting, Held, runs>> => Copied'
<1> SUFFICES ASSUME Copied, [Box!Next]_<<pushed, carries, Waiting, Held, runs>>
             PROVE  Copied'
  OBVIOUS
<1>a. /\ pushed \in Nat /\ pushed <= MaxEntries /\ carries \in [Entry -> 0..MaxTasks]
      /\ \A e \in 1..pushed : e \in Entry /\ carries[e] \in Nat
  BY BoundsOK DEF Copied, Entry
<1>1. ASSUME NEW l \in 1..MaxTasks, Box!Put(l),
             \E c \in 1..pushed : \A e \in 1..pushed : carries[e] = l => e = c
      PROVE  Copied'
  <2>1. /\ pushed < MaxEntries /\ pushed' = pushed + 1
        /\ carries' = [carries EXCEPT ![pushed + 1] = l]
    BY <1>1 DEF Box!Put
  <2>2. /\ \A e \in 1..(pushed + 1) : e \in Entry /\ (e # pushed + 1 => e \in 1..pushed)
        /\ l \in 0..MaxTasks
    BY <1>a, <2>1, BoundsOK DEF Entry
  <2>3. \A e \in 1..(pushed + 1) : carries'[e] = IF e = pushed + 1 THEN l ELSE carries[e]
    BY <1>a, <2>1, <2>2
  <2>4. PutTwiceAtMost'
    <3>1. PICK c \in 1..pushed : \A e \in 1..pushed : carries[e] = l => e = c
      BY <1>1
    <3> SUFFICES ASSUME NEW e \in 1..(pushed + 1), NEW f \in 1..(pushed + 1), NEW g \in 1..(pushed + 1),
                        carries'[e] = carries'[f], carries'[f] = carries'[g], e # f, f # g, e # g
                 PROVE  FALSE
      BY <2>1 DEF PutTwiceAtMost
    <3>2. CASE e = pushed + 1
      <4>1. f \in 1..pushed /\ g \in 1..pushed /\ carries[f] = l /\ carries[g] = l
        BY <2>2, <2>3, <3>2
      <4> QED
        BY <3>1, <4>1
    <3>3. CASE f = pushed + 1
      <4>1. e \in 1..pushed /\ g \in 1..pushed /\ carries[e] = l /\ carries[g] = l
        BY <2>2, <2>3, <3>3
      <4> QED
        BY <3>1, <4>1
    <3>4. CASE g = pushed + 1
      <4>1. e \in 1..pushed /\ f \in 1..pushed /\ carries[e] = l /\ carries[f] = l
        BY <2>2, <2>3, <3>4
      <4> QED
        BY <3>1, <4>1
    <3>5. CASE e # pushed + 1 /\ f # pushed + 1 /\ g # pushed + 1
      <4>1. /\ e \in 1..pushed /\ f \in 1..pushed /\ g \in 1..pushed
            /\ carries[e] = carries[f] /\ carries[f] = carries[g]
        BY <2>2, <2>3, <3>5
      <4> QED
        BY <4>1 DEF Copied, PutTwiceAtMost
    <3> QED
      BY <3>2, <3>3, <3>4, <3>5
  <2>5. pushed' \in 0..MaxEntries /\ carries' \in [Entry -> 0..MaxTasks]
    BY <1>a, <2>1, <2>2, BoundsOK
  <2> QED
    BY <2>4, <2>5 DEF Copied
<1>2. ASSUME NEW l \in 1..MaxTasks, Box!SendAgain(l)
      PROVE  Copied'
  <2>1. PICK c \in 1..pushed : Box!CopiesOf(l) = {c}
    BY <1>2 DEF Box!SendAgain
  <2>2. \A e \in 1..pushed : carries[e] = l => e = c
    BY <2>1 DEF Box!CopiesOf
  <2> QED
    BY <1>1, <1>2, <2>2 DEF Box!SendAgain
<1>3. ASSUME NEW l \in 1..MaxTasks, Box!Send(l)
      PROVE  Copied'
  <2>1. Box!Put(l) /\ \A e \in 1..pushed : carries[e] # l
    BY <1>a, <1>3 DEF Box!Send
  <2>2. CASE pushed = 0
    <3>1. /\ pushed' = 1 /\ 0 < MaxEntries /\ 1..pushed' = {1} /\ l \in 0..MaxTasks
          /\ carries' = [carries EXCEPT ![1] = l]
      BY <2>1, <2>2 DEF Box!Put
    <3>2. carries' \in [Entry -> 0..MaxTasks]
      BY <1>a, <3>1
    <3>3. pushed' \in 0..MaxEntries
      BY <3>1, BoundsOK
    <3> QED
      BY <3>1, <3>2, <3>3 DEF Copied, PutTwiceAtMost
  <2>3. CASE pushed # 0
    <3>1. 1 \in 1..pushed
      BY <1>a, <2>3
    <3> QED
      BY <1>1, <2>1, <3>1
  <2> QED
    BY <2>2, <2>3
<1>4. CASE \/ Box!Take \/ Box!Use \/ Box!Drop \/ Box!Lose
           \/ UNCHANGED <<pushed, carries, Waiting, Held, runs>>
  <2>1. UNCHANGED <<pushed, carries>>
    BY <1>4 DEF Box!Take, Box!Use, Box!Drop, Box!Lose
  <2> QED
    BY <2>1 DEF Copied, PutTwiceAtMost
<1> QED
  BY <1>2, <1>3, <1>4 DEF Box!Next

\* Whatever implements the mailbox uses no copy twice and makes no more than two of
\* a letter, holds no more of them than there is room for, and lets none wait behind
\* a later one.
THEOREM MailboxMeans ==
  ImplementsMailbox =>
    [](RunAtMostOnce /\ PutTwiceAtMost /\ YoungestWait /\ Cardinality(Waiting) <= MaxQueueSize)
<1>1. Box!Init => BoxKept /\ Copied
  <2> SUFFICES ASSUME Box!Init PROVE BoxKept /\ Copied
    OBVIOUS
  <2>1. /\ pushed = 0 /\ Waiting = {} /\ Held = 0 /\ runs = [t \in Entry |-> 0]
        /\ carries = [t \in Entry |-> 0]
    BY DEF Box!Init, Entry
  <2>2. HoldsAfter(0)
    BY <2>1, BoundsOK DEF HoldsAfter
  <2>3. Copied
    BY <2>1, BoundsOK DEF Copied, PutTwiceAtMost
  <2> QED
    BY <2>1, <2>2, <2>3, BoundsOK DEF BoxKept
<1>2. BoxKept => RunAtMostOnce /\ YoungestWait /\ Cardinality(Waiting) <= MaxQueueSize
  <2> SUFFICES ASSUME BoxKept
               PROVE  RunAtMostOnce /\ YoungestWait /\ Cardinality(Waiting) <= MaxQueueSize
    OBVIOUS
  <2>1. PICK lo \in 0..pushed : HoldsAfter(lo)
    BY DEF BoxKept
  <2>2. pushed \in Nat /\ lo \in Nat /\ lo <= pushed
    BY <2>1 DEF BoxKept
  <2>3. Cardinality(Waiting) = pushed - lo
    BY <2>1, <2>2, RunOfLetters, SameCardinality DEF HoldsAfter
  <2> QED
    BY <2>1, <2>2, <2>3 DEF HoldsAfter, RunAtMostOnce, YoungestWait, Entry
<1>3. Copied => PutTwiceAtMost
  BY DEF Copied
<1> QED
  BY <1>1, <1>2, <1>3, BoxKeeps, CopiedStep, PTL DEF ImplementsMailbox, Box!Spec

\* A task is run no more than twice: it is pushed so often, and no push is run
\* again, whatever is lost, restarted or fails.
THEOREM NoTaskRunsThrice == Spec => [](RunAtMostOnce /\ PutTwiceAtMost)
  BY PipelineImplementsMailbox, MailboxMeans, PTL

----------------------------------------------------------------------------
(* Why the queue drains.                                                   *)
(*                                                                         *)
(* QueueDrains needs an induction over the entries ahead and the           *)
(* detections of a scan.  What is proved here is the measure that the      *)
(* induction runs on: the consumer lowers it with each step, and nobody    *)
(* raises it.                                                              *)

\* Where the consumer is in a run: at most so many steps from the next entry.
Stage ==
  CASE cpc = "waiting" -> 0
    [] cpc \in {"log", "abort"} -> 1
    [] cpc = "recover" -> 2 * left
    [] cpc = "handle" -> 2 * left + 1
    [] cpc = "detect" -> 2 * MaxDetections + 2
    [] cpc = "acquire" -> 2 * MaxDetections + 3

\* The entries that leave before t, and t itself.
Ahead(t) == {u \in Waiting : u <= t}

\* As long as an entry waits nothing comes in ahead of it; each step of the consumer
\* takes away one that is ahead, or brings the run under way nearer to its end; and
\* nobody else, no restart, override or midnight, takes the consumer back.
Nearer(t) ==
  /\ Ahead(t)' \subseteq Ahead(t)
  /\ Stage \in Nat
  /\ IF ConsumerStep THEN Ahead(t)' # Ahead(t) \/ Stage' < Stage ELSE Stage' <= Stage

QueueAdvances == [][\A t \in Waiting : t \in Waiting' => Nearer(t)]_vars

\* Nothing comes in ahead of a waiting entry.
LEMMA NothingCutsIn ==
  ASSUME Ordered, [Next]_vars, NEW t \in Waiting
  PROVE  Ahead(t)' \subseteq Ahead(t)
<1> USE DEF Ordered
<1>1. fate \in [Entry -> {"new", "queued", "running", "ended", "dropped"}] /\ t \in Entry
  BY DEF TypeOK, Waiting
<1> SUFFICES ASSUME NEW u \in Entry, u <= t, fate'[u] = "queued"
             PROVE  fate[u] = "queued"
  BY DEF Ahead, Waiting
<1>2. CASE Push
  <2>1. ~(t > pushed) /\ u \in Int /\ t \in Int /\ pushed \in Int
    BY <1>1 DEF Waiting, Listed, TypeOK, Entry
  <2>2. fate[u] # "new"
    BY <2>1 DEF Listed
  <2> QED
    BY <1>1, <1>2, <2>2, PublishKeeps
<1>3. CASE Expire
  BY <1>3 DEF Expire
<1>4. CASE Take \/ LoseReply
  <2>1. Oldest \in Entry
    BY <1>4, Popping DEF Take, LoseReply, TypeOK
  <2> QED
    BY <1>1, <1>4, <2>1 DEF Take, LoseReply
<1>5. CASE \/ Acquire \/ Detect \/ DetectFails \/ Handle \/ HandleFails \/ Recover
           \/ Override \/ NewDay \/ UNCHANGED vars
  BY <1>5 DEF Acquire, Detect, DetectFails, Handle, HandleFails, Recover, Override, NewDay, vars
<1>6. CASE Log \/ Abort \/ AcquireFails
  <2>1. PICK how \in {"ended", "dropped"} : fate' = [fate EXCEPT ![current] = how]
    BY <1>6 DEF Log, Abort, AcquireFails, Finish
  <2> QED
    BY <1>1, <2>1
<1>7. CASE Restart
  BY <1>7 DEF Restart
<1> QED
  BY <1>2, <1>3, <1>4, <1>5, <1>6, <1>7, PostsPush DEF Next, ConsumerStep

\* A step of the consumer in a run leads to an earlier stage.
LEMMA RunAdvances ==
  ASSUME Ordered, ConsumerStep, cpc # "waiting"
  PROVE  Stage' < Stage
<1>1. /\ left \in Nat /\ left <= MaxDetections /\ MaxDetections \in Nat
      /\ cpc \in {"handle", "recover"} => left >= 1
  BY BoundsOK DEF Ordered, TypeOK, InHand
<1> USE DEF Stage
<1>2. CASE Log \/ Abort \/ AcquireFails
  <2>1. Stage' = 0
    BY <1>2 DEF Log, Abort, AcquireFails, Finish
  <2>2. Stage > 0
    BY <1>1, <1>2 DEF Log, Abort, AcquireFails
  <2> QED
    BY <1>1, <1>2, <2>1, <2>2 DEF Log, Abort, AcquireFails
<1>3. CASE Acquire
  BY <1>1, <1>3 DEF Acquire
<1>4. CASE Detect
  <2>1. left' \in Nat /\ left' <= MaxDetections /\ cpc' \in {"log", "handle"}
    BY <1>4, BoundsOK DEF Detect
  <2> QED
    BY <1>1, <1>4, <2>1 DEF Detect
<1>5. CASE DetectFails
  BY <1>1, <1>5 DEF DetectFails
<1>6. CASE Handle
  BY <1>1, <1>6 DEF Handle
<1>7. CASE HandleFails
  BY <1>1, <1>7 DEF HandleFails
<1>8. CASE Recover
  BY <1>1, <1>8 DEF Recover
<1> QED
  BY <1>2, <1>3, <1>4, <1>5, <1>6, <1>7, <1>8 DEF ConsumerStep, Take, LoseReply

\* The measure of a waiting entry goes down with each step of the consumer, and
\* up with none, for any number of entries, detections and restarts.
THEOREM ConsumerNearsEveryTask == Spec => QueueAdvances
<1> DEFINE A == \A t \in Waiting : t \in Waiting' => Nearer(t)
<1>1. ASSUME Ordered, [Next]_vars
      PROVE  A
  <2> SUFFICES ASSUME NEW t \in Waiting PROVE Nearer(t)
    OBVIOUS
  <2>1. Ahead(t)' \subseteq Ahead(t)
    BY <1>1, NothingCutsIn
  <2>2. Stage \in Nat
    <3>1. /\ left \in Nat /\ MaxDetections \in Nat
          /\ cpc \in {"waiting", "acquire", "detect", "handle", "recover", "log", "abort"}
      BY <1>1, BoundsOK DEF Ordered, TypeOK
    <3> QED
      BY <3>1 DEF Stage
  <2>3. CASE ConsumerStep /\ cpc # "waiting"
    BY <1>1, <2>1, <2>2, <2>3, RunAdvances DEF Nearer
  <2>4. CASE ConsumerStep /\ cpc = "waiting"
    <3>1. tasks # <<>> /\ (fate' = [fate EXCEPT ![Oldest] = "running"]
                           \/ fate' = [fate EXCEPT ![Oldest] = "dropped"])
      BY <2>4 DEF ConsumerStep, Take, LoseReply, Acquire, AcquireFails, Detect, DetectFails,
                  Handle, HandleFails, Recover, Log, Abort
    <3>2. Oldest \in Waiting /\ Oldest <= t
      BY <1>1, <3>1, OldestWaits
    <3>3. Oldest \notin Waiting'
      BY <1>1, <3>1, <3>2 DEF Waiting, Ordered, TypeOK
    <3> QED
      BY <2>1, <2>2, <2>4, <3>2, <3>3 DEF Nearer, Ahead
  <2>5. CASE ~ConsumerStep
    <3>1. CASE Push \/ Expire \/ Override \/ NewDay \/ UNCHANGED vars
      <4>1. UNCHANGED <<cpc, left>>
        BY <3>1 DEF Push, Expire, Override, NewDay, vars, consumer
      <4>2. Stage' = Stage
        BY <4>1 DEF Stage
      <4> QED
        BY <2>1, <2>2, <2>5, <4>2 DEF Nearer
    <3>2. CASE Restart
      <4>1. Stage' = 0
        BY <3>2 DEF Restart, Stage
      <4> QED
        BY <2>1, <2>2, <2>5, <4>1 DEF Nearer
    <3> QED
      BY <1>1, <2>5, <3>1, <3>2, PostsPush DEF Next, Ordered
  <2> QED
    BY <2>3, <2>4, <2>5
<1>2. Ordered /\ [Next]_vars => [A]_vars
  BY <1>1
<1> QED
  BY <1>2, OrderedHolds, PTL DEF Spec, QueueAdvances
=============================================================================
