-------------------------- MODULE LivePanel_proofs --------------------------
(***************************************************************************)
(* The safety properties of LivePanel, for any number of anomalies, lost   *)
(* connections, changes of visibility and retries.                         *)
(***************************************************************************)
EXTENDS LivePanel, TLAPS

----------------------------------------------------------------------------
(* Jobs.                                                                   *)

\* The jobs the poller makes, and the kinds there are.
LEMMA JobShapes ==
  /\ Tracked \in Job /\ Tracked.own /\ Tracked.kind = "tracked"
  /\ \A own \in BOOLEAN : J("timer", own) \in Job /\ J("poll", own) \in Job
  /\ J("first", FALSE) \in Job
  /\ \A kind \in {"tracked", "timer", "poll", "first"}, own \in BOOLEAN :
       J(kind, own).kind = kind /\ J(kind, own).own = own
  /\ \A j \in Job : j.kind \in {"tracked", "timer", "poll", "first"} /\ j.own \in BOOLEAN
  /\ \A j \in Job : j.kind = "tracked" => j = Tracked
  /\ \A j \in Job : j.kind = "timer" => j = J("timer", j.own)
  /\ \A j \in Job : j.kind = "first" => ~j.own
  /\ \A j \in Job : j.kind \in {"poll", "first"} => \A v \in Version : [j EXCEPT !.answer = v] \in Job
  /\ \A j \in Job : j.kind \in {"timer", "poll"} => [j EXCEPT !.own = TRUE] \in Job
<1>1. \A j \in Job : j.kind \in {"poll", "first"} => \A v \in Version : [j EXCEPT !.answer = v] \in Job
  BY DEF Job
<1>2. \A j \in Job : j.kind \in {"timer", "poll"} => [j EXCEPT !.own = TRUE] \in Job
  BY DEF Job
<1>3. /\ Tracked \in Job /\ Tracked.own /\ Tracked.kind = "tracked"
      /\ \A own \in BOOLEAN : J("timer", own) \in Job /\ J("poll", own) \in Job
      /\ J("first", FALSE) \in Job
  BY DEF Job, J, Tracked
<1>4. \A kind \in {"tracked", "timer", "poll", "first"}, own \in BOOLEAN :
       J(kind, own).kind = kind /\ J(kind, own).own = own
  BY DEF J
<1>5. /\ \A j \in Job : j.kind \in {"tracked", "timer", "poll", "first"} /\ j.own \in BOOLEAN
      /\ \A j \in Job : j.kind = "first" => ~j.own
  BY DEF Job
<1>6. \A j \in Job : j.kind = "tracked" => j = Tracked
  <2> SUFFICES ASSUME NEW j \in Job, j.kind = "tracked"
               PROVE  j = Tracked
    OBVIOUS
  <2>1. j \in [kind : {"tracked"}, own : {TRUE}, answer : {NoData}]
    BY DEF Job
  <2>2. j = [kind |-> j.kind, own |-> j.own, answer |-> j.answer]
    BY <2>1
  <2> QED
    BY <2>1, <2>2 DEF J, Tracked
<1>7. \A j \in Job : j.kind = "timer" => j = J("timer", j.own)
  <2> SUFFICES ASSUME NEW j \in Job, j.kind = "timer"
               PROVE  j = J("timer", j.own)
    OBVIOUS
  <2>1. j \in [kind : {"timer"}, own : BOOLEAN, answer : {NoData}]
    BY DEF Job
  <2>2. j = [kind |-> j.kind, own |-> j.own, answer |-> j.answer]
    BY <2>1
  <2> QED
    BY <2>1, <2>2 DEF J
<1> QED
  BY <1>1, <1>2, <1>3, <1>4, <1>5, <1>6, <1>7

\* What the operations on the bag of jobs do, job by job.
LEMMA PlusOne ==
  ASSUME NEW bag \in [Job -> Nat], NEW j \in Job
  PROVE  /\ Plus(bag, j) \in [Job -> Nat]
         /\ \A x \in Job : Plus(bag, j)[x] = IF x = j THEN bag[x] + 1 ELSE bag[x]
  BY DEF Plus

LEMMA MinusOne ==
  ASSUME jobs \in [Job -> Nat], NEW j \in Job, Present(j)
  PROVE  /\ Without(j) \in [Job -> Nat]
         /\ \A x \in Job : Without(j)[x] = IF x = j THEN jobs[x] - 1 ELSE jobs[x]
  BY DEF Without, Present

LEMMA TrackedBecomesTimer ==
  ASSUME NEW bag \in [Job -> Nat]
  PROVE  /\ Untracked(bag) \in [Job -> Nat]
         /\ \A x \in Job : Untracked(bag)[x] =
              IF x = Tracked THEN 0
              ELSE IF x = J("timer", TRUE) THEN bag[x] + bag[Tracked] ELSE bag[x]
<1>1. PICK t \in Job : t = J("timer", TRUE) /\ t # Tracked
  BY JobShapes
<1>2. Tracked \in Job /\ bag[Tracked] \in Nat /\ bag[t] \in Nat
  BY JobShapes
<1>3. Untracked(bag) = [x \in Job |->
        IF x = Tracked THEN 0 ELSE IF x = t THEN bag[x] + bag[Tracked] ELSE bag[x]]
  <2>1. Untracked(bag) = [bag EXCEPT ![Tracked] = 0, ![t] = @ + bag[Tracked]]
    BY <1>1 DEF Untracked
  <2> QED
    BY <1>1, <1>2, <2>1
<1>4. \A x \in Job :
        (IF x = Tracked THEN 0 ELSE IF x = t THEN bag[x] + bag[Tracked] ELSE bag[x]) \in Nat
  BY <1>2
<1> QED
  BY <1>1, <1>3, <1>4

LEMMA NobodyOwns ==
  ASSUME jobs \in [Job -> Nat]
  PROVE  /\ Stopped \in [Job -> Nat]
         /\ \A x \in Job : Stopped[x] =
              IF x.own THEN 0 ELSE IF x.kind = "first" THEN jobs[x]
              ELSE jobs[x] + jobs[[x EXCEPT !.own = TRUE]]
<1>1. \A x \in Job : ~x.own /\ x.kind # "first" => [x EXCEPT !.own = TRUE] \in Job
  <2>1. \A x \in Job : ~x.own => x.kind # "tracked"
    BY JobShapes
  <2> QED
    BY <2>1, JobShapes
<1> QED
  BY <1>1 DEF Stopped, Disowned

----------------------------------------------------------------------------
(* Types.                                                                  *)

\* Rows without content and events on their way are anomalies created.
RowsAreEvents == blanks + inbox <= truth

\* A poll that ends leaves a bag of jobs, and one that was the running
\* poller's a tracked timer.
LEMMA AfterPollIsBag ==
  ASSUME jobs \in [Job -> Nat], NEW j \in Job, Present(j), j.kind \in {"poll", "first"}
  PROVE  /\ AfterPoll(j) \in [Job -> Nat]
         /\ j.own => AfterPoll(j)[Tracked] > 0
         /\ ~j.own => \A x \in Job : x.own => AfterPoll(j)[x] = jobs[x]
<1>1. /\ Without(j) \in [Job -> Nat] /\ Tracked \in Job
      /\ \A x \in Job : Without(j)[x] = IF x = j THEN jobs[x] - 1 ELSE jobs[x]
  BY MinusOne, JobShapes
<1>2. CASE j.kind = "first"
  BY <1>1, <1>2, JobShapes DEF AfterPoll
<1>3. CASE j.kind # "first" /\ j.own
  <2>1. AfterPoll(j) = Plus(Untracked(Without(j)), Tracked)
    BY <1>3 DEF AfterPoll
  <2>2. Untracked(Without(j)) \in [Job -> Nat]
    BY <1>1, TrackedBecomesTimer
  <2>3. /\ Plus(Untracked(Without(j)), Tracked) \in [Job -> Nat]
        /\ \A x \in Job : Plus(Untracked(Without(j)), Tracked)[x] =
             IF x = Tracked THEN Untracked(Without(j))[x] + 1 ELSE Untracked(Without(j))[x]
    BY <1>1, <2>2, PlusOne
  <2> QED
    BY <1>1, <1>3, <2>1, <2>2, <2>3
<1>4. CASE j.kind # "first" /\ ~j.own
  <2>1. AfterPoll(j) = Plus(Without(j), J("timer", FALSE)) /\ J("timer", FALSE) \in Job
        /\ ~J("timer", FALSE).own
    BY <1>4, JobShapes DEF AfterPoll
  <2>2. /\ Plus(Without(j), J("timer", FALSE)) \in [Job -> Nat]
        /\ \A x \in Job : Plus(Without(j), J("timer", FALSE))[x] =
             IF x = J("timer", FALSE) THEN Without(j)[x] + 1 ELSE Without(j)[x]
    BY <1>1, <2>1, PlusOne
  <2> QED
    BY <1>1, <1>4, <2>1, <2>2
<1> QED
  BY <1>2, <1>3, <1>4

\* A timer that fires leaves a bag of jobs, one of them its poll.
LEMMA FiringIsBag ==
  ASSUME jobs \in [Job -> Nat], NEW j \in Job, TimerFires(j)
  PROVE  /\ jobs' \in [Job -> Nat]
         /\ j.own => jobs'[J("poll", TRUE)] > 0
         /\ ~j.own => \A x \in Job : x.own => jobs'[x] = jobs[x]
<1>1. /\ Without(j) \in [Job -> Nat] /\ J("poll", j.own) \in Job /\ j.own \in BOOLEAN
      /\ J("poll", j.own).own = j.own
      /\ \A x \in Job : Without(j)[x] = IF x = j THEN jobs[x] - 1 ELSE jobs[x]
  BY MinusOne, JobShapes DEF TimerFires
<1>2. CASE j.own
  <2>1. Untracked(Without(j)) \in [Job -> Nat] /\ jobs' = Plus(Untracked(Without(j)), J("poll", TRUE))
    BY <1>1, <1>2, TrackedBecomesTimer DEF TimerFires
  <2>2. /\ Plus(Untracked(Without(j)), J("poll", TRUE)) \in [Job -> Nat]
        /\ \A x \in Job : Plus(Untracked(Without(j)), J("poll", TRUE))[x] =
             IF x = J("poll", TRUE) THEN Untracked(Without(j))[x] + 1 ELSE Untracked(Without(j))[x]
    BY <1>1, <1>2, <2>1, PlusOne
  <2>3. PICK q \in Job : q = J("poll", TRUE)
    BY JobShapes
  <2>4. jobs'[q] = Untracked(Without(j))[q] + 1
    BY <2>1, <2>2, <2>3
  <2>5. Untracked(Without(j))[q] \in Nat
    BY <2>1
  <2>6. jobs'[q] > 0
    BY <2>4, <2>5
  <2>7. jobs' \in [Job -> Nat]
    BY <2>1, <2>2
  <2> QED
    BY <1>2, <2>3, <2>6, <2>7
<1>3. CASE ~j.own
  <2>1. jobs' = Plus(Without(j), J("poll", FALSE))
    BY <1>1, <1>3 DEF TimerFires
  <2>2. J("poll", FALSE) \in Job /\ ~J("poll", FALSE).own
    BY JobShapes
  <2>3. /\ Plus(Without(j), J("poll", FALSE)) \in [Job -> Nat]
        /\ \A x \in Job : Plus(Without(j), J("poll", FALSE))[x] =
             IF x = J("poll", FALSE) THEN Without(j)[x] + 1 ELSE Without(j)[x]
    BY <1>1, <2>2, PlusOne
  <2> QED
    BY <1>1, <1>3, <2>1, <2>2, <2>3
<1> QED
  BY <1>1, <1>2, <1>3

\* Reading answers a job, which stays where it is.
LEMMA ReadingIsBag ==
  ASSUME jobs \in [Job -> Nat], truth \in Version, NEW j \in Job, Read(j)
  PROVE  /\ [j EXCEPT !.answer = truth] \in Job
         /\ [j EXCEPT !.answer = truth].own = j.own /\ [j EXCEPT !.answer = truth].kind = j.kind
         /\ jobs' \in [Job -> Nat]
         /\ \A x \in Job : jobs'[x] = IF x = [j EXCEPT !.answer = truth] THEN Without(j)[x] + 1
                                      ELSE Without(j)[x]
         /\ \A x \in Job : Without(j)[x] = IF x = j THEN jobs[x] - 1 ELSE jobs[x]
<1>1. [j EXCEPT !.answer = truth] \in Job
  BY JobShapes DEF Read
<1>2. [j EXCEPT !.answer = truth].own = j.own /\ [j EXCEPT !.answer = truth].kind = j.kind
  BY DEF Job
<1>3. /\ Without(j) \in [Job -> Nat] /\ jobs' = Plus(Without(j), [j EXCEPT !.answer = truth])
      /\ \A x \in Job : Without(j)[x] = IF x = j THEN jobs[x] - 1 ELSE jobs[x]
  BY MinusOne DEF Read
<1>4. /\ Plus(Without(j), [j EXCEPT !.answer = truth]) \in [Job -> Nat]
      /\ \A x \in Job : Plus(Without(j), [j EXCEPT !.answer = truth])[x] =
             IF x = [j EXCEPT !.answer = truth] THEN Without(j)[x] + 1 ELSE Without(j)[x]
  BY <1>1, <1>3, PlusOne
<1> QED
  BY <1>1, <1>2, <1>3, <1>4

\* The running poller starts with a timer.
LEMMA StartIsBag ==
  ASSUME jobs \in [Job -> Nat], Start
  PROVE  /\ jobs' \in [Job -> Nat]
         /\ \A x \in Job : jobs'[x] = IF x \in {Tracked, J("first", FALSE)} THEN jobs[x] + 1 ELSE jobs[x]
<1>1. Tracked \in Job /\ J("first", FALSE) \in Job /\ Tracked # J("first", FALSE)
  BY JobShapes
<1>2. /\ Plus(jobs, Tracked) \in [Job -> Nat]
      /\ \A x \in Job : Plus(jobs, Tracked)[x] = IF x = Tracked THEN jobs[x] + 1 ELSE jobs[x]
  BY <1>1, PlusOne
<1>3. /\ Plus(Plus(jobs, Tracked), J("first", FALSE)) \in [Job -> Nat]
      /\ \A x \in Job : Plus(Plus(jobs, Tracked), J("first", FALSE))[x] =
             IF x = J("first", FALSE) THEN Plus(jobs, Tracked)[x] + 1 ELSE Plus(jobs, Tracked)[x]
  BY <1>1, <1>2, PlusOne
<1> QED
  BY <1>1, <1>2, <1>3 DEF Start

\* Everything starts in its type.
LEMMA TypesInit == Init => TypeOK /\ RowsAreEvents
<1> SUFFICES ASSUME Init
             PROVE  TypeOK /\ RowsAreEvents
  OBVIOUS
<1>1. jobs \in [Job -> Nat]
  BY DEF Init
<1>2. /\ truth \in Version /\ inbox \in Version /\ blanks \in Version
      /\ retryCount \in 0..MaxRetries /\ drops \in 0..MaxDrops /\ flips \in 0..MaxFlips
  BY PanelBoundsOK DEF Init, Version
<1>3. /\ conn \in {"connected", "connecting", "disconnected"} /\ retryTimer \in BOOLEAN
      /\ refused \in BOOLEAN /\ raced \in BOOLEAN
      /\ cacheFetch \in Version \cup {NoData, Ended}
      /\ cached \in Version \cup {NoData} /\ polled \in Version \cup {NoData}
      /\ shown \in Version \cup {NoData}
  BY DEF Init
<1> QED
  BY <1>1, <1>2, <1>3 DEF TypeOK, RowsAreEvents, Init

\* What a refresh shows is a list, and it never adds rows.
LEMMA RefreshTypes ==
  ASSUME TypeOK, cached' \in Version \cup {NoData}, polled' \in Version \cup {NoData}, Refresh
  PROVE  shown' \in Version \cup {NoData} /\ blanks' \in Version /\ (blanks' = blanks \/ blanks' = 0)
<1>1. blanks \in Nat /\ 0 \in Version
  BY PanelBoundsOK DEF TypeOK, Version
<1>2. Source(conn' = "connected", cached', polled') \in Version \cup {NoData}
  BY DEF Source
<1>3. \/ shown' = shown /\ blanks' = blanks
      \/ shown' = Source(conn' = "connected", cached', polled') /\ blanks' = 0
  BY DEF Refresh
<1>4. blanks' \in Version /\ (blanks' = blanks \/ blanks' = 0)
  BY <1>1, <1>3 DEF TypeOK
<1> QED
  BY <1>2, <1>3, <1>4 DEF TypeOK

\* Every step keeps the types.
LEMMA TypesStep == TypeOK /\ RowsAreEvents /\ [Next]_vars => TypeOK' /\ RowsAreEvents'
<1> SUFFICES ASSUME TypeOK, RowsAreEvents, [Next]_vars
             PROVE  TypeOK' /\ RowsAreEvents'
  OBVIOUS
<1>a. /\ jobs \in [Job -> Nat] /\ truth \in Version
      /\ truth \in Nat /\ inbox \in Nat /\ blanks \in Nat
      /\ cached \in Version \cup {NoData} /\ polled \in Version \cup {NoData}
  BY PanelBoundsOK DEF TypeOK, Version
<1>b. /\ truth \in Nat /\ inbox \in Nat /\ blanks \in Nat
      /\ blanks + inbox <= truth /\ 0 + inbox <= truth /\ blanks + 0 <= truth /\ 0 + 0 <= truth
  BY <1>a DEF RowsAreEvents
<1>1. ASSUME NEW j \in Job, TimerFires(j) \/ Read(j) \/ PollFails(j)
      PROVE  TypeOK' /\ RowsAreEvents'
  <2>1. UNCHANGED <<truth, socket, raced, cacheFetch, view, counts>>
    BY <1>1 DEF TimerFires, Read, PollFails
  <2>2. jobs' \in [Job -> Nat]
    <3>1. TimerFires(j) => jobs' \in [Job -> Nat]
      BY <1>a, FiringIsBag
    <3>2. Read(j) => jobs' \in [Job -> Nat]
      BY <1>a, ReadingIsBag
    <3>3. PollFails(j) => jobs' \in [Job -> Nat]
      BY <1>a, AfterPollIsBag DEF PollFails
    <3> QED
      BY <1>1, <3>1, <3>2, <3>3
  <2> QED
    BY <2>1, <2>2 DEF TypeOK, RowsAreEvents, socket, view, counts
<1>2. ASSUME NEW j \in Job, PollArrives(j)
      PROVE  TypeOK' /\ RowsAreEvents'
  <2>1. /\ polled' = j.answer /\ j.answer # NoData /\ jobs' = AfterPoll(j) /\ Refresh
        /\ j.kind \in {"poll", "first"} /\ Present(j)
        /\ UNCHANGED <<cached, conn, truth, inbox, retryCount, retryTimer, refused, raced, cacheFetch, counts>>
    BY <1>2 DEF PollArrives
  <2>2. j.answer \in Version \cup {NoData}
    BY DEF Job
  <2>3. jobs' \in [Job -> Nat]
    BY <1>a, <2>1, AfterPollIsBag
  <2>4. shown' \in Version \cup {NoData} /\ blanks' \in Version /\ (blanks' = blanks \/ blanks' = 0)
    BY <1>a, <2>1, <2>2, RefreshTypes
  <2>5. TypeOK'
    BY <2>1, <2>2, <2>3, <2>4 DEF TypeOK, counts
  <2>6. blanks' \in Nat
    BY <2>4, PanelBoundsOK DEF Version
  <2>9. inbox' = inbox /\ truth' = truth
    BY <2>1
  <2>10. blanks' + inbox <= truth
    BY <1>b, <2>4
  <2> QED
    BY <2>5, <2>9, <2>10 DEF RowsAreEvents
<1>3. CASE CacheArrives
  <2>1. /\ cached' = cacheFetch /\ cacheFetch \in Version /\ cacheFetch' = Ended /\ Refresh
        /\ UNCHANGED <<polled, conn, truth, inbox, retryCount, retryTimer, refused, polling, counts>>
    BY <1>3 DEF CacheArrives
  <2>2. shown' \in Version \cup {NoData} /\ blanks' \in Version /\ (blanks' = blanks \/ blanks' = 0)
    BY <1>a, <2>1, RefreshTypes
  <2>3. TypeOK'
    BY <2>1, <2>2 DEF TypeOK, polling, counts
  <2>4. blanks' \in Nat
    BY <2>2, PanelBoundsOK DEF Version
  <2>9. inbox' = inbox /\ truth' = truth
    BY <2>1
  <2>10. blanks' + inbox <= truth
    BY <1>b, <2>2
  <2> QED
    BY <2>3, <2>9, <2>10 DEF RowsAreEvents
<1>4. CASE ReadForCache \/ CacheFails
  <2>1. UNCHANGED <<truth, socket, polling, view, counts>> /\ cacheFetch' \in Version \cup {NoData, Ended}
    BY <1>a, <1>4 DEF ReadForCache, CacheFails
  <2> QED
    BY <2>1 DEF TypeOK, RowsAreEvents, socket, polling, view, counts
<1>5. CASE EventArrives
  <2>1. /\ inbox > 0 /\ inbox' = inbox - 1 /\ blanks' = blanks + 1
        /\ UNCHANGED <<truth, conn, retryCount, retryTimer, refused, polling,
                       cacheFetch, cached, polled, shown, counts>>
    BY <1>5 DEF EventArrives, BlankRow
  <2>2. inbox' \in Version /\ blanks' \in Version /\ RowsAreEvents'
    BY <1>a, <2>1, PanelBoundsOK DEF RowsAreEvents, Version
  <2> QED
    BY <2>1, <2>2 DEF TypeOK, polling, counts
<1>6. CASE Flip
  <2>1. jobs' \in [Job -> Nat]
    BY <1>6, <1>a, PlusOne, JobShapes DEF Flip
  <2>2. flips' \in 0..MaxFlips
    BY <1>6, PanelBoundsOK DEF Flip, TypeOK
  <2>3. raced' = TRUE /\ UNCHANGED <<truth, socket, cacheFetch, view, drops>>
    BY <1>6 DEF Flip
  <2> QED
    BY <2>1, <2>2, <2>3 DEF TypeOK, RowsAreEvents, socket, view
<1>7. CASE Open
  <2>1. /\ conn' = "connected" /\ retryCount' = 0 /\ Refresh
        /\ UNCHANGED <<cached, polled, truth, inbox, retryTimer, refused, cacheFetch, counts>>
    BY <1>7 DEF Open
  <2>2. jobs' \in [Job -> Nat]
    BY <1>7, <1>a, NobodyOwns DEF Open, Stop
  <2>3. raced' \in BOOLEAN
    BY <1>7 DEF Open, Stop, TypeOK
  <2>4. shown' \in Version \cup {NoData} /\ blanks' \in Version /\ (blanks' = blanks \/ blanks' = 0)
    BY <1>a, <2>1, RefreshTypes
  <2>5. retryCount' \in 0..MaxRetries
    BY <2>1, PanelBoundsOK
  <2>6. TypeOK'
    BY <2>1, <2>2, <2>3, <2>4, <2>5 DEF TypeOK, counts
  <2>7. blanks' \in Nat
    BY <2>4, PanelBoundsOK DEF Version
  <2>9. inbox' = inbox /\ truth' = truth
    BY <2>1
  <2>10. blanks' + inbox <= truth
    BY <1>b, <2>4
  <2> QED
    BY <2>6, <2>9, <2>10 DEF RowsAreEvents
<1>8. CASE Refuse \/ Reconnect
  <2>1. /\ conn' \in {"connected", "connecting", "disconnected"}
        /\ refused' \in BOOLEAN /\ retryTimer' \in BOOLEAN
        /\ UNCHANGED <<truth, inbox, retryCount, polling, cacheFetch, view, counts>>
    BY <1>8 DEF Refuse, Reconnect, TypeOK
  <2> QED
    BY <2>1 DEF TypeOK, RowsAreEvents, polling, view, counts
<1>9. CASE Drop
  <2>1. /\ conn' = "disconnected" /\ inbox' = 0 /\ Refresh
        /\ UNCHANGED <<cached, polled, truth, refused, cacheFetch, flips, raced>>
    BY <1>9 DEF Drop, Start
  <2>2. jobs' \in [Job -> Nat]
    BY <1>9, <1>a, StartIsBag DEF Drop
  <2>3. drops' \in 0..MaxDrops /\ 0 \in Version
    BY <1>9, PanelBoundsOK DEF Drop, TypeOK, Version
  <2>4. retryTimer' \in BOOLEAN
    BY <1>9 DEF Drop, ScheduleReconnect
  <2>5. retryCount' \in 0..MaxRetries
    BY <1>9, PanelBoundsOK DEF Drop, ScheduleReconnect, TypeOK
  <2>6. shown' \in Version \cup {NoData} /\ blanks' \in Version /\ (blanks' = blanks \/ blanks' = 0)
    BY <1>a, <2>1, RefreshTypes
  <2>7. TypeOK'
    BY <2>1, <2>2, <2>3, <2>4, <2>5, <2>6 DEF TypeOK
  <2>8. blanks' \in Nat
    BY <2>6, PanelBoundsOK DEF Version
  <2>9. inbox' = 0 /\ truth' = truth
    BY <2>1
  <2>10. blanks' + 0 <= truth
    BY <1>b, <2>6
  <2> QED
    BY <2>7, <2>9, <2>10 DEF RowsAreEvents
<1>10. CASE Create
  <2>1. /\ truth' \in Version /\ truth' = truth + 1 /\ inbox' \in {inbox, inbox + 1}
        /\ UNCHANGED <<conn, retryCount, retryTimer, refused, polling, cacheFetch, view, counts>>
    BY <1>10, PanelBoundsOK DEF Create, TypeOK, Version
  <2>2. truth' = truth + 1 /\ blanks' = blanks /\ (inbox' = inbox \/ inbox' = inbox + 1)
    BY <2>1 DEF view
  <2>3. blanks + inbox <= truth
    BY DEF RowsAreEvents
  <2>4. blanks' + inbox' <= truth' /\ inbox' \in 0..truth'
    BY <1>b, <2>2
  <2>5. inbox' \in Version
    BY <2>1, <2>4, PanelBoundsOK DEF Version
  <2>6. TypeOK'
    BY <2>1, <2>5 DEF TypeOK, polling, view, counts
  <2> QED
    BY <2>4, <2>6 DEF RowsAreEvents
<1>11. CASE UNCHANGED vars
  BY <1>11 DEF vars, TypeOK, RowsAreEvents, socket, polling, view, counts
<1> QED
  BY <1>1, <1>2, <1>3, <1>4, <1>5, <1>6, <1>7, <1>8, <1>9, <1>10, <1>11 DEF Next

\* The variables keep their types, and no bound is exceeded.
THEOREM PanelTypeCorrect == Spec => []TypeOK
  BY TypesInit, TypesStep, PTL DEF Spec

----------------------------------------------------------------------------
(* The socket.                                                             *)

\* onopen has reset the count.
Reset == conn = "connected" => retryCount = 0

\* The client rests only after a refused attempt: the loss of a connection
\* always schedules the next one.
THEOREM LossIsRetried == Spec => []RestsOnlyAfterRefusal
<1>1. Init => Reset /\ RestsOnlyAfterRefusal
  BY DEF Init, Reset, RestsOnlyAfterRefusal
<1>2. (Reset /\ RestsOnlyAfterRefusal) /\ TypeOK /\ [Next]_vars => (Reset /\ RestsOnlyAfterRefusal)'
  <2> SUFFICES ASSUME Reset, RestsOnlyAfterRefusal, TypeOK, [Next]_vars
               PROVE  (Reset /\ RestsOnlyAfterRefusal)'
    OBVIOUS
  <2>1. CASE Open
    BY <2>1 DEF Open, Reset, RestsOnlyAfterRefusal
  <2>2. CASE Refuse \/ Reconnect
    BY <2>2 DEF Refuse, Reconnect, Reset, RestsOnlyAfterRefusal
  <2>3. CASE Drop
    <3>1. retryCount = 0 /\ 0 < MaxRetries
      BY <2>3, PanelBoundsOK DEF Drop, Reset, isConnected
    <3>2. retryTimer' = (retryCount < MaxRetries) /\ conn' = "disconnected"
      BY <2>3 DEF Drop, ScheduleReconnect
    <3>3. (retryCount < MaxRetries) = TRUE
      BY <3>1
    <3> QED
      BY <3>2, <3>3 DEF Reset, RestsOnlyAfterRefusal
  <2>4. CASE \/ \E j \in Job : TimerFires(j) \/ Read(j) \/ PollArrives(j) \/ PollFails(j)
             \/ ReadForCache \/ CacheArrives \/ CacheFails
             \/ EventArrives \/ Flip \/ Create \/ UNCHANGED vars
    <3>1. UNCHANGED <<conn, retryCount, retryTimer, refused>>
      BY <2>4 DEF TimerFires, Read, PollArrives, PollFails, ReadForCache, CacheArrives, CacheFails,
                  EventArrives, Flip, Create, vars, socket
    <3> QED
      BY <3>1 DEF Reset, RestsOnlyAfterRefusal
  <2> QED
    BY <2>1, <2>2, <2>3, <2>4 DEF Next
<1> QED
  BY <1>1, <1>2, PanelTypeCorrect, PTL DEF Spec

----------------------------------------------------------------------------
(* The chains of polls.                                                    *)

\* A closed panel always has a poll before it.
THEOREM PollingGoesOn == Spec => []PollsWhileDisconnected
<1>1. Init => PollsWhileDisconnected
  <2>1. Tracked \in Job /\ Tracked.own
    BY JobShapes
  <2>2. Init => jobs[Tracked] = 1
    BY <2>1 DEF Init
  <2>3. Init => jobs[Tracked] > 0
    BY <2>2
  <2> QED
    BY <2>1, <2>3 DEF PollsWhileDisconnected, Present
<1>2. PollsWhileDisconnected /\ TypeOK /\ [Next]_vars => PollsWhileDisconnected'
  <2> SUFFICES ASSUME PollsWhileDisconnected, TypeOK, [Next]_vars, ~isConnected'
               PROVE  \E j \in Job : j.own /\ jobs'[j] > 0
    BY DEF PollsWhileDisconnected, Present
  <2>a. jobs \in [Job -> Nat] /\ truth \in Version
    BY DEF TypeOK
  <2>b. ~isConnected => \E j \in Job : j.own /\ jobs[j] > 0
    BY DEF PollsWhileDisconnected, Present
  <2>1. ASSUME NEW j \in Job, TimerFires(j) \/ Read(j) \/ PollArrives(j) \/ PollFails(j)
        PROVE  \E x \in Job : x.own /\ jobs'[x] > 0
    <3>1. PICK w \in Job : w.own /\ jobs[w] > 0
      BY <2>1, <2>b DEF TimerFires, Read, PollArrives, PollFails, socket, isConnected
    <3>2. CASE TimerFires(j)
      <4>1. /\ j.own => jobs'[J("poll", TRUE)] > 0
            /\ ~j.own => jobs'[w] = jobs[w]
        BY <2>a, <3>1, <3>2, FiringIsBag
      <4>2. J("poll", TRUE) \in Job /\ J("poll", TRUE).own
        BY JobShapes
      <4> QED
        BY <3>1, <4>1, <4>2
    <3>3. CASE Read(j)
      <4> DEFINE r == [j EXCEPT !.answer = truth]
      <4>1. /\ r \in Job /\ r.own = j.own
            /\ \A x \in Job : jobs'[x] = IF x = r THEN Without(j)[x] + 1 ELSE Without(j)[x]
            /\ \A x \in Job : Without(j)[x] = IF x = j THEN jobs[x] - 1 ELSE jobs[x]
            /\ Without(j) \in [Job -> Nat]
        BY <2>a, <3>3, ReadingIsBag, MinusOne DEF Read
      <4> HIDE DEF r
      <4>2. CASE w = j
        <5>1. jobs'[r] > 0
          BY <4>1
        <5> QED
          BY <3>1, <4>1, <4>2, <5>1
      <4>3. CASE w # j
        <5>1. jobs'[w] >= jobs[w] /\ jobs[w] \in Nat
          BY <2>a, <3>1, <4>1, <4>3
        <5>2. jobs'[w] > 0
          BY <2>a, <3>1, <4>1, <4>3
        <5> QED
          BY <3>1, <5>2
      <4> QED
        BY <4>2, <4>3
    <3>4. CASE PollArrives(j) \/ PollFails(j)
      <4>1. jobs' = AfterPoll(j) /\ Present(j) /\ j.kind \in {"poll", "first"}
        BY <3>4 DEF PollArrives, PollFails
      <4>2. /\ j.own => jobs'[Tracked] > 0
            /\ ~j.own => jobs'[w] = jobs[w]
        BY <2>a, <3>1, <4>1, AfterPollIsBag
      <4>3. Tracked \in Job /\ Tracked.own
        BY JobShapes
      <4> QED
        BY <3>1, <4>2, <4>3
    <3> QED
      BY <2>1, <3>2, <3>3, <3>4
  <2>2. CASE Drop \/ Flip
    <3>1. Tracked \in Job /\ Tracked.own /\ jobs[Tracked] \in Nat
      BY <2>a, JobShapes
    <3>2. jobs'[Tracked] = jobs[Tracked] + 1
      <4>1. Drop => jobs'[Tracked] = jobs[Tracked] + 1
        BY <2>a, <3>1, StartIsBag DEF Drop
      <4>2. Flip => jobs'[Tracked] = jobs[Tracked] + 1
        BY <2>a, <3>1, PlusOne DEF Flip
      <4> QED
        BY <2>2, <4>1, <4>2
    <3>3. jobs'[Tracked] > 0
      BY <3>1, <3>2
    <3> QED
      BY <3>1, <3>3
  <2>3. CASE Open
    BY <2>3 DEF Open, isConnected
  <2>4. CASE \/ ReadForCache \/ CacheArrives \/ CacheFails \/ Refuse \/ Reconnect
             \/ EventArrives \/ Create \/ UNCHANGED vars
    <3>1. jobs' = jobs /\ ~isConnected
      BY <2>4 DEF ReadForCache, CacheArrives, CacheFails, Refuse, Reconnect, EventArrives, Create,
                  vars, polling, socket, isConnected
    <3> QED
      BY <2>b, <3>1
  <2> QED
    BY <2>1, <2>2, <2>3, <2>4 DEF Next
<1> QED
  BY <1>1, <1>2, PanelTypeCorrect, PTL DEF Spec

\* While no poller was stopped or rescheduled inside a poll there is at most
\* one chain, the running poller's, and none while the socket is open.
Lone(q) ==
  /\ \A x \in Job : x.own => jobs[x] = IF x = q THEN 1 ELSE 0
  /\ \A x \in Job : ~x.own /\ x.kind # "first" => jobs[x] = 0

\* The same job of the running poller.
Owned(x) == [x EXCEPT !.own = TRUE]

Single ==
  ~raced =>
    \/ isConnected /\ \A x \in Job : x.kind # "first" => jobs[x] = 0
    \/ ~isConnected /\ \E q \in Job : q.own /\ q.kind # "timer" /\ Lone(q)

\* Every step keeps the one chain.
LEMMA SingleStep == TypeOK /\ Single /\ [Next]_vars => Single'
<1> SUFFICES ASSUME TypeOK, Single, [Next]_vars, ~raced'
             PROVE  Single'
  BY DEF Single
<1>a. jobs \in [Job -> Nat] /\ truth \in Version /\ raced \in BOOLEAN
  BY DEF TypeOK
<1>b. ASSUME ~isConnected', NEW q \in Job, q.own, q.kind # "timer",
             \A x \in Job : x.own => jobs'[x] = IF x = q THEN 1 ELSE 0,
             \A x \in Job : ~x.own /\ x.kind # "first" => jobs'[x] = 0
      PROVE  Single'
  BY <1>b DEF Single, Lone
<1>1. ASSUME NEW j \in Job, TimerFires(j)
      PROVE  Single'
  <2>1. ~raced /\ isConnected' = isConnected /\ Present(j) /\ j.kind \in {"tracked", "timer"}
    BY <1>1 DEF TimerFires, socket, isConnected
  <2>2. jobs[j] > 0 /\ j.kind # "first"
    BY <2>1 DEF Present
  <2>3. PICK q \in Job : ~isConnected /\ q.own /\ q.kind # "timer" /\ Lone(q)
    BY <1>a, <2>1, <2>2 DEF Single
  <2>4. j = q /\ j = Tracked /\ j.own
    BY <1>a, <2>1, <2>2, <2>3, JobShapes DEF Lone
  <2>5. PICK p \in Job : p = J("poll", TRUE) /\ p.own /\ p.kind = "poll" /\ p # Tracked
    BY JobShapes
  <2>6. PICK t \in Job : t = J("timer", TRUE) /\ t.own /\ t # Tracked /\ t # p
    BY <2>5, JobShapes
  <2>7. /\ Without(j) \in [Job -> Nat]
        /\ \A x \in Job : Without(j)[x] = IF x = Tracked THEN jobs[x] - 1 ELSE jobs[x]
    BY <1>a, <2>1, <2>4, MinusOne
  <2>8. jobs[Tracked] = 1 /\ \A x \in Job : x.own /\ x # Tracked => jobs[x] = 0
    BY <2>3, <2>4 DEF Lone
  <2>9. \A x \in Job : x.own => Without(j)[x] = 0
    BY <2>7, <2>8
  <2>10. /\ Untracked(Without(j)) \in [Job -> Nat]
         /\ \A x \in Job : Untracked(Without(j))[x] =
              IF x = Tracked THEN 0
              ELSE IF x = t THEN Without(j)[x] + Without(j)[Tracked] ELSE Without(j)[x]
    BY <2>6, <2>7, TrackedBecomesTimer
  <2>11. Tracked \in Job /\ Tracked.own
    BY JobShapes
  <2>12. \A x \in Job : Untracked(Without(j))[x] = IF x.own THEN 0 ELSE jobs[x]
    <3>1. Without(j)[Tracked] = 0 /\ Without(j)[t] = 0
      BY <2>6, <2>9, <2>11
    <3>2. Untracked(Without(j))[t] = 0
      <4>1. t # Tracked
        BY <2>6
      <4>2. Untracked(Without(j))[t] = Without(j)[t] + Without(j)[Tracked]
        BY <2>10, <4>1
      <4> QED
        BY <3>1, <4>2
    <3>3. \A x \in Job : x # Tracked /\ x # t => Untracked(Without(j))[x] = Without(j)[x]
      BY <2>10
    <3>4. Untracked(Without(j))[Tracked] = 0
      BY <2>10, <2>11
    <3>5. \A x \in Job : x # Tracked => Without(j)[x] = jobs[x]
      BY <2>7
    <3>6. \A x \in Job : x.own => Untracked(Without(j))[x] = 0
      BY <2>9, <3>2, <3>3, <3>4
    <3>7. \A x \in Job : ~x.own => x # Tracked /\ x # t
      BY <2>6, <2>11
    <3>8. \A x \in Job : ~x.own => Untracked(Without(j))[x] = jobs[x]
      BY <3>3, <3>5, <3>7
    <3> QED
      BY <3>6, <3>8
  <2>13. jobs' = Plus(Untracked(Without(j)), p)
    BY <1>1, <2>4, <2>5 DEF TimerFires
  <2>14. \A x \in Job : jobs'[x] = IF x = p THEN Untracked(Without(j))[x] + 1
                                   ELSE Untracked(Without(j))[x]
    <3>1. Untracked(Without(j)) \in [Job -> Nat]
      BY <2>10
    <3>2. \A x \in Job : Plus(Untracked(Without(j)), p)[x] =
            IF x = p THEN Untracked(Without(j))[x] + 1 ELSE Untracked(Without(j))[x]
      BY <3>1, PlusOne
    <3> QED
      BY <2>13, <3>2
  <2>15. \A x \in Job : x.own => jobs'[x] = IF x = p THEN 1 ELSE 0
    <3>1. Untracked(Without(j))[p] = 0
      BY <2>5, <2>12
    <3>2. jobs'[p] = 1
      <4>1. jobs'[p] = Untracked(Without(j))[p] + 1
        BY <2>14
      <4> QED
        BY <3>1, <4>1
    <3>3. \A x \in Job : x # p => jobs'[x] = Untracked(Without(j))[x]
      BY <2>14
    <3>4. \A x \in Job : x.own => Untracked(Without(j))[x] = 0
      BY <2>12
    <3> QED
      BY <3>2, <3>3, <3>4
  <2>16. \A x \in Job : ~x.own /\ x.kind # "first" => jobs'[x] = 0
    BY <2>3, <2>5, <2>12, <2>14 DEF Lone
  <2> QED
    BY <1>b, <2>1, <2>3, <2>5, <2>15, <2>16
<1>2. ASSUME NEW j \in Job, Read(j) \/ PollArrives(j) \/ PollFails(j), j.kind = "first"
      PROVE  Single'
  <2>1. ~raced /\ isConnected' = isConnected /\ Present(j)
    BY <1>2 DEF Read, PollArrives, PollFails, socket, isConnected
  <2>2. \A x \in Job : x.kind # "first" => jobs'[x] = jobs[x]
    <3>1. /\ Without(j) \in [Job -> Nat]
          /\ \A x \in Job : Without(j)[x] = IF x = j THEN jobs[x] - 1 ELSE jobs[x]
      BY <1>a, <2>1, MinusOne
    <3>2. CASE Read(j)
      <4>1. /\ [j EXCEPT !.answer = truth].kind = "first"
            /\ \A x \in Job : jobs'[x] = IF x = [j EXCEPT !.answer = truth] THEN Without(j)[x] + 1
                                         ELSE Without(j)[x]
        BY <1>2, <1>a, <3>2, ReadingIsBag
      <4> QED
        BY <1>2, <3>1, <4>1
    <3>3. CASE PollArrives(j) \/ PollFails(j)
      <4>1. jobs' = Without(j)
        BY <1>2, <3>3 DEF PollArrives, PollFails, AfterPoll
      <4> QED
        BY <1>2, <3>1, <4>1
    <3> QED
      BY <1>2, <3>2, <3>3
  <2>3. \A x \in Job : x.own => x.kind # "first"
    BY JobShapes
  <2>4. CASE isConnected
    BY <2>1, <2>2, <2>4 DEF Single
  <2>5. CASE ~isConnected
    <3>1. PICK q \in Job : q.own /\ q.kind # "timer" /\ Lone(q)
      BY <2>1, <2>5 DEF Single
    <3>2. /\ \A x \in Job : x.own => jobs'[x] = IF x = q THEN 1 ELSE 0
          /\ \A x \in Job : ~x.own /\ x.kind # "first" => jobs'[x] = 0
      BY <2>2, <2>3, <3>1 DEF Lone
    <3> QED
      BY <1>b, <2>1, <2>5, <3>1, <3>2
  <2> QED
    BY <2>4, <2>5
<1>3. ASSUME NEW j \in Job, Read(j) \/ PollArrives(j) \/ PollFails(j), j.kind = "poll"
      PROVE  Single'
  <2>1. ~raced /\ isConnected' = isConnected /\ Present(j) /\ jobs[j] > 0
    BY <1>3 DEF Read, PollArrives, PollFails, socket, isConnected, Present
  <2>2. PICK q \in Job : ~isConnected /\ q.own /\ q.kind # "timer" /\ Lone(q)
    BY <1>3, <2>1 DEF Single
  <2>3. j = q /\ j.own
    BY <1>3, <2>1, <2>2 DEF Lone
  <2>4. /\ Without(j) \in [Job -> Nat]
        /\ \A x \in Job : Without(j)[x] = IF x = j THEN jobs[x] - 1 ELSE jobs[x]
    BY <1>a, <2>1, MinusOne
  <2>5. \A x \in Job : x.own => Without(j)[x] = 0
    BY <2>2, <2>3, <2>4 DEF Lone
  <2>6. \A x \in Job : ~x.own => Without(j)[x] = jobs[x]
    BY <2>3, <2>4
  <2>7. CASE Read(j)
    <3>1. PICK r \in Job : /\ r = [j EXCEPT !.answer = truth] /\ r.own = j.own /\ r.kind = j.kind
                           /\ \A x \in Job : jobs'[x] = IF x = r THEN Without(j)[x] + 1
                                                        ELSE Without(j)[x]
      BY <1>a, <2>7, ReadingIsBag
    <3>2. \A x \in Job : x.own => jobs'[x] = IF x = r THEN 1 ELSE 0
      BY <2>3, <2>5, <3>1
    <3>3. \A x \in Job : ~x.own /\ x.kind # "first" => jobs'[x] = 0
      BY <2>2, <2>3, <2>6, <3>1 DEF Lone
    <3> QED
      BY <1>3, <1>b, <2>1, <2>2, <2>3, <3>1, <3>2, <3>3
  <2>8. CASE PollArrives(j) \/ PollFails(j)
    <3>1. jobs' = Plus(Untracked(Without(j)), Tracked)
      BY <1>3, <2>3, <2>8 DEF PollArrives, PollFails, AfterPoll
    <3>2. PICK t \in Job : t = J("timer", TRUE) /\ t.own
      BY JobShapes
    <3>3. Tracked \in Job /\ Tracked.own /\ Tracked.kind # "timer"
      BY JobShapes
    <3>4. /\ Untracked(Without(j)) \in [Job -> Nat]
          /\ \A x \in Job : Untracked(Without(j))[x] =
               IF x = Tracked THEN 0
               ELSE IF x = t THEN Without(j)[x] + Without(j)[Tracked] ELSE Without(j)[x]
      BY <2>4, <3>2, TrackedBecomesTimer
    <3>5. \A x \in Job : Untracked(Without(j))[x] = IF x.own THEN 0 ELSE jobs[x]
      <4>1. Without(j)[Tracked] = 0 /\ Without(j)[t] = 0
        BY <2>5, <3>2, <3>3
      <4>2. Untracked(Without(j))[t] = 0
        <5>1. t # Tracked
          BY <3>2, JobShapes
        <5>2. Untracked(Without(j))[t] = Without(j)[t] + Without(j)[Tracked]
          BY <3>4, <5>1
        <5> QED
          BY <4>1, <5>2
      <4>3. \A x \in Job : x # Tracked /\ x # t => Untracked(Without(j))[x] = Without(j)[x]
        BY <3>4
      <4>4. Untracked(Without(j))[Tracked] = 0
        BY <3>3, <3>4
      <4>5. \A x \in Job : x.own => Untracked(Without(j))[x] = 0
        BY <2>5, <4>2, <4>3, <4>4
      <4>6. \A x \in Job : ~x.own => x # Tracked /\ x # t
        BY <3>2, <3>3
      <4>7. \A x \in Job : ~x.own => Untracked(Without(j))[x] = jobs[x]
        BY <2>6, <4>3, <4>6
      <4> QED
        BY <4>5, <4>7
    <3>6. \A x \in Job : jobs'[x] = IF x = Tracked THEN Untracked(Without(j))[x] + 1
                                    ELSE Untracked(Without(j))[x]
      <4>1. Untracked(Without(j)) \in [Job -> Nat]
        BY <3>4
      <4>2. \A x \in Job : Plus(Untracked(Without(j)), Tracked)[x] =
              IF x = Tracked THEN Untracked(Without(j))[x] + 1 ELSE Untracked(Without(j))[x]
        BY <3>3, <4>1, PlusOne
      <4> QED
        BY <3>1, <4>2
    <3>7. \A x \in Job : x.own => jobs'[x] = IF x = Tracked THEN 1 ELSE 0
      BY <3>3, <3>5, <3>6
    <3>8. \A x \in Job : ~x.own /\ x.kind # "first" => jobs'[x] = 0
      BY <2>2, <3>3, <3>5, <3>6 DEF Lone
    <3> QED
      BY <1>b, <2>1, <2>2, <3>3, <3>7, <3>8
  <2> QED
    BY <1>3, <2>7, <2>8
<1>4. CASE Open
  <2>1. /\ isConnected' /\ ~isConnected /\ ~raced /\ jobs' = Stopped
        /\ \A x \in Job : x.kind = "poll" /\ x.own => ~(jobs[x] > 0)
    BY <1>4 DEF Open, Stop, isConnected, Present
  <2>2. PICK q \in Job : q.own /\ q.kind # "timer" /\ Lone(q)
    BY <2>1 DEF Single
  <2>3. \A x \in Job : Stopped[x] =
          IF x.own THEN 0 ELSE IF x.kind = "first" THEN jobs[x]
          ELSE jobs[x] + jobs[Owned(x)]
    BY <1>a, NobodyOwns DEF Owned
  <2>4. \A x \in Job : ~x.own /\ x.kind # "first" => jobs[x] = 0 /\ jobs[Owned(x)] = 0
    <3> SUFFICES ASSUME NEW x \in Job, ~x.own, x.kind # "first"
                 PROVE  jobs[x] = 0 /\ jobs[Owned(x)] = 0
      OBVIOUS
    <3>1. x.kind \in {"timer", "poll"}
      BY JobShapes
    <3>2. PICK y \in Job : y = Owned(x) /\ y.own /\ y.kind \in {"timer", "poll"}
      <4>1. Owned(x) \in Job
        BY <3>1, JobShapes DEF Owned
      <4>2. Owned(x).own /\ Owned(x).kind = x.kind
        BY DEF Owned, Job
      <4> QED
        BY <3>1, <4>1, <4>2
    <3>3. jobs[y] = 0
      <4>1. jobs[y] = IF y = q THEN 1 ELSE 0
        BY <2>2, <3>2 DEF Lone
      <4>2. CASE y.kind = "timer"
        BY <2>2, <4>1, <4>2
      <4>3. CASE y.kind = "poll"
        <5>1. ~(jobs[y] > 0) /\ jobs[y] \in Nat
          BY <1>a, <2>1, <3>2, <4>3
        <5> QED
          BY <5>1
      <4> QED
        BY <3>2, <4>2, <4>3
    <3>4. jobs[x] = 0
      BY <2>2 DEF Lone
    <3> QED
      BY <3>2, <3>3, <3>4
  <2>5. \A x \in Job : x.kind # "first" => Stopped[x] = 0
    <3>1. \A x \in Job : x.own => Stopped[x] = 0
      BY <2>3
    <3>2. \A x \in Job : ~x.own /\ x.kind # "first" =>
            Stopped[x] = jobs[x] + jobs[Owned(x)]
      BY <2>3
    <3>3. \A x \in Job : ~x.own /\ x.kind # "first" => Stopped[x] = 0
      <4> SUFFICES ASSUME NEW x \in Job, ~x.own, x.kind # "first"
                   PROVE  Stopped[x] = 0
        OBVIOUS
      <4>1. Stopped[x] = jobs[x] + jobs[Owned(x)]
        BY <3>2
      <4>2. jobs[x] = 0 /\ jobs[Owned(x)] = 0
        BY <2>4
      <4> QED
        BY <4>1, <4>2
    <3> QED
      BY <3>1, <3>3
  <2> QED
    BY <2>1, <2>5 DEF Single
<1>5. CASE Drop
  <2>1. isConnected /\ ~isConnected' /\ ~raced /\ Start
    BY <1>5 DEF Drop, Start, isConnected
  <2>2. \A x \in Job : jobs'[x] = IF x \in {Tracked, J("first", FALSE)} THEN jobs[x] + 1 ELSE jobs[x]
    BY <1>a, <2>1, StartIsBag
  <2>3. /\ Tracked \in Job /\ Tracked.own /\ Tracked.kind = "tracked"
        /\ J("first", FALSE).kind = "first" /\ \A x \in Job : x.own => x.kind # "first"
    BY JobShapes
  <2>4. \A x \in Job : x.kind # "first" => jobs[x] = 0
    BY <2>1 DEF Single
  <2>5. \A x \in Job : x.kind # "first" => jobs'[x] = IF x = Tracked THEN 1 ELSE 0
    <3>1. \A x \in Job : x.kind # "first" => x # J("first", FALSE)
      BY <2>3
    <3>2. jobs'[Tracked] = 1
      <4>1. jobs[Tracked] = 0 /\ jobs'[Tracked] = jobs[Tracked] + 1
        BY <2>2, <2>3, <2>4
      <4> QED
        BY <4>1
    <3>3. \A x \in Job : x.kind # "first" /\ x # Tracked => jobs'[x] = jobs[x]
      BY <2>2, <3>1
    <3> QED
      BY <2>4, <3>2, <3>3
  <2> QED
    BY <1>b, <2>1, <2>3, <2>5
<1>6. CASE Flip
  BY <1>6 DEF Flip
<1>7. CASE \/ ReadForCache \/ CacheArrives \/ CacheFails \/ Refuse \/ Reconnect
           \/ EventArrives \/ Create \/ UNCHANGED vars
  <2>1. jobs' = jobs /\ raced' = raced /\ isConnected' = isConnected
    BY <1>7 DEF ReadForCache, CacheArrives, CacheFails, Refuse, Reconnect, EventArrives, Create,
                vars, polling, socket, isConnected
  <2> QED
    BY <2>1 DEF Single, Lone
<1> QED
  <2>1. ASSUME NEW j \in Job, Read(j) \/ PollArrives(j) \/ PollFails(j)
        PROVE  j.kind \in {"poll", "first"}
    BY <2>1 DEF Read, PollArrives, PollFails
  <2> QED
    BY <1>1, <1>2, <1>3, <1>4, <1>5, <1>6, <1>7, <2>1 DEF Next

\* No chain of polls lives on beside an open socket, unless a poll was under
\* way when its poller was stopped or the tab changed.
THEOREM PollingStops == Spec => []QuietWhileConnected
<1>1. Init => Single
  <2> SUFFICES ASSUME Init
               PROVE  Single
    OBVIOUS
  <2>1. /\ Tracked \in Job /\ Tracked.own /\ Tracked.kind = "tracked"
        /\ J("first", FALSE).kind = "first" /\ \A x \in Job : x.own => x.kind # "first"
    BY JobShapes
  <2>2. \A x \in Job : jobs[x] = IF x \in {Tracked, J("first", FALSE)} THEN 1 ELSE 0
    BY DEF Init
  <2>3. Lone(Tracked)
    BY <2>1, <2>2 DEF Lone
  <2>4. ~isConnected
    BY DEF Init, isConnected
  <2> QED
    BY <2>1, <2>3, <2>4 DEF Single
<1>2. Single => QuietWhileConnected
  BY DEF Single, QuietWhileConnected, Present
<1> QED
  BY <1>1, <1>2, SingleStep, PanelTypeCorrect, PTL DEF Spec
=============================================================================
