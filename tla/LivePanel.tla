----------------------------- MODULE LivePanel -----------------------------
(***************************************************************************)
(* One panel of the dashboard, AnomalyFeed, with the three sources it      *)
(* draws on: its WebSocket client, its adaptive poller while the socket is *)
(* not open, and one cached fetch made when it is mounted.  ActionsPanel   *)
(* has the same shape.                                                     *)
(*                                                                         *)
(* A list is abstracted to its version, the number of anomalies the server *)
(* had when it read the list.  Intervals are left out: a timer fires some  *)
(* time.  A state change and the React effects it triggers are one step.   *)
(* The page is not left.                                                   *)
(***************************************************************************)
EXTENDS Integers

CONSTANTS
  MaxVersion, \* bound on the anomalies created
  MaxDrops,   \* bound on the connections lost
  MaxFlips,   \* bound on the tab's changes of visibility that matter
  MaxRetries  \* WebSocketOptions.maxRetries

ASSUME PanelBoundsOK ==
  /\ MaxVersion \in Nat /\ MaxDrops \in Nat /\ MaxFlips \in Nat
  /\ MaxRetries \in Nat \ {0}

NoData == -1
Ended == -2
Version == 0..MaxVersion

\* What the pollers have under way: timers, polls, and the first fetch that a
\* poller makes outside its chain.  A tracked timer is the one that timerId of
\* the running poller refers to; own says that the poller is the running one.
Job ==
  [kind : {"tracked"}, own : {TRUE}, answer : {NoData}]
    \cup [kind : {"timer"}, own : BOOLEAN, answer : {NoData}]
    \cup [kind : {"poll"}, own : BOOLEAN, answer : Version \cup {NoData}]
    \cup [kind : {"first"}, own : {FALSE}, answer : Version \cup {NoData}]

J(kind, own) == [kind |-> kind, own |-> own, answer |-> NoData]
Tracked == J("tracked", TRUE)

----------------------------------------------------------------------------
VARIABLES
  truth,      \* external: the version of the server's list
  inbox,      \* external: events on their way to the open socket
  conn,       \* WebSocketClient.connectionState
  retryCount, \* WebSocketClient.retryCount
  retryTimer, \* is a reconnection scheduled?
  jobs,       \* how many of each Job there are
  cacheFetch, \* the fetch of useCachedFetch: NoData until it is answered
  cached,     \* its data
  polled,     \* the data of useAdaptivePolling
  shown,      \* the list the panel shows
  blanks,     \* rows without content on top of it
  drops,      \* connections lost so far
  flips,      \* changes of visibility so far
  refused,    \* history: has an attempt to connect failed?
  raced       \* history: was a poller stopped or rescheduled inside a poll?

socket  == <<inbox, conn, retryCount, retryTimer, refused>>
polling == <<jobs, raced>>
view    == <<cached, polled, shown, blanks>>
counts  == <<drops, flips>>
vars    == <<truth, socket, polling, cacheFetch, view, counts>>

TypeOK ==
  /\ truth \in Version /\ inbox \in Version /\ blanks \in Version
  /\ conn \in {"connected", "connecting", "disconnected"}
  /\ retryCount \in 0..MaxRetries /\ retryTimer \in BOOLEAN
  /\ jobs \in [Job -> Nat]
  /\ cacheFetch \in Version \cup {NoData, Ended}
  /\ cached \in Version \cup {NoData} /\ polled \in Version \cup {NoData}
  /\ shown \in Version \cup {NoData}
  /\ drops \in 0..MaxDrops /\ flips \in 0..MaxFlips
  /\ refused \in BOOLEAN /\ raced \in BOOLEAN

----------------------------------------------------------------------------
(* The panel.  The operators named X_... are slips of X.                   *)

isConnected == conn = "connected"

\* Slip: the cached list has precedence, open or not.
Source_CachedFirst(open, c, p) == IF c # NoData THEN c ELSE p

\* isConnected ? cachedData : polledData
Source(open, c, p) == IF open THEN c ELSE p

\* The effect that runs when one of the three has changed.
Refresh ==
  LET data == Source(conn' = "connected", cached', polled')
  IN \/ data = NoData /\ UNCHANGED <<shown, blanks>>
     \/ data # NoData /\ shown' = data /\ blanks' = 0

\* The server reads the list for useCachedFetch, and the answer arrives.
ReadForCache ==
  /\ cacheFetch = NoData
  /\ cacheFetch' = truth
  /\ UNCHANGED <<truth, socket, polling, view, counts>>

CacheArrives ==
  /\ cacheFetch \in Version
  /\ cacheFetch' = Ended
  /\ cached' = cacheFetch
  /\ UNCHANGED <<polled, conn>>
  /\ Refresh
  /\ UNCHANGED <<truth, inbox, retryCount, retryTimer, refused, polling, counts>>

\* It is not repeated.
CacheFails ==
  /\ cacheFetch # Ended
  /\ cacheFetch' = Ended
  /\ UNCHANGED <<truth, socket, polling, view, counts>>

\* Slip: the handlers of the type and the generic ones both add the row.
BlankRow_Twice == blanks' = blanks + 2

\* An event's data holds the anomaly under a key; the panel takes the data
\* itself for the anomaly and puts a row without content on the list.
BlankRow == blanks' = blanks + 1

\* handleMessage; pings change nothing.
EventArrives ==
  /\ isConnected /\ inbox > 0
  /\ inbox' = inbox - 1
  /\ BlankRow
  /\ UNCHANGED <<truth, conn, retryCount, retryTimer, refused, polling,
                 cacheFetch, cached, polled, shown, counts>>

----------------------------------------------------------------------------
(* The poller: AdaptivePoller and useAdaptivePolling.                      *)

Present(j) == jobs[j] > 0

\* timerId is set to null or to another timer: the old one runs on.
Untracked(bag) ==
  [bag EXCEPT ![Tracked] = 0, ![J("timer", TRUE)] = @ + bag[Tracked]]

Without(j) == [jobs EXCEPT ![j] = @ - 1]
Plus(bag, j) == [bag EXCEPT ![j] = @ + 1]

\* A timer fires: timerId becomes null, whichever timer it referred to.
TimerFires(j) ==
  /\ j.kind \in {"tracked", "timer"} /\ Present(j)
  /\ jobs' = Plus(IF j.own THEN Untracked(Without(j)) ELSE Without(j), J("poll", j.own))
  /\ UNCHANGED <<truth, socket, raced, cacheFetch, view, counts>>

\* The server reads the list for a poll.
Read(j) ==
  /\ j.kind \in {"poll", "first"} /\ j.answer = NoData /\ Present(j)
  /\ jobs' = Plus(Without(j), [j EXCEPT !.answer = truth])
  /\ UNCHANGED <<truth, socket, raced, cacheFetch, view, counts>>

\* scheduleNextPoll after a poll: the chain goes on, although its poller may
\* have been stopped meanwhile.  An initial fetch is not a chain.
AfterPoll(j) ==
  CASE j.kind = "first" -> Without(j)
    [] j.kind # "first" /\ j.own -> Plus(Untracked(Without(j)), Tracked)
    [] OTHER -> Plus(Without(j), J("timer", FALSE))

PollArrives(j) ==
  /\ j.kind \in {"poll", "first"} /\ j.answer # NoData /\ Present(j)
  /\ polled' = j.answer
  /\ jobs' = AfterPoll(j)
  /\ UNCHANGED <<cached, conn>>
  /\ Refresh
  /\ UNCHANGED <<truth, inbox, retryCount, retryTimer, refused, raced, cacheFetch, counts>>

\* Slip: a failed poll is not caught, and its chain ends.
PollFails_Escapes(j) ==
  /\ j.kind \in {"poll", "first"} /\ Present(j)
  /\ jobs' = Without(j)
  /\ UNCHANGED <<truth, socket, raced, cacheFetch, view, counts>>

PollFails(j) ==
  /\ j.kind \in {"poll", "first"} /\ Present(j)
  /\ jobs' = AfterPoll(j)
  /\ UNCHANGED <<truth, socket, raced, cacheFetch, view, counts>>

\* The tab is shown or hidden.  With a timer set this replaces one timer by
\* another; inside a poll it starts a second chain.
Flip ==
  /\ ~isConnected /\ ~Present(Tracked) /\ flips < MaxFlips
  /\ flips' = flips + 1
  /\ jobs' = Plus(jobs, Tracked)
  /\ raced' = TRUE
  /\ UNCHANGED <<truth, socket, cacheFetch, view, drops>>

\* No poller runs any more.
Disowned(bag) ==
  [j \in Job |-> IF j.own THEN 0 ELSE IF j.kind = "first" THEN bag[j]
                 ELSE bag[j] + bag[[j EXCEPT !.own = TRUE]]]

\* Slip: stop leaves the timer to fire.
Stopped_KeepsTimer == Disowned(Untracked(jobs))

\* stop clears the one timer the poller knows of; what else it has under way
\* goes on.
Stopped == Disowned(jobs)

Stop ==
  /\ jobs' = Stopped
  /\ raced' = (raced \/ \E j \in Job : j.kind = "poll" /\ j.own /\ Present(j))

\* A new poller is created and started, and a first fetch is sent.
Start ==
  /\ jobs' = Plus(Plus(jobs, Tracked), J("first", FALSE))
  /\ UNCHANGED raced

----------------------------------------------------------------------------
(* The socket: WebSocketClient.                                            *)

\* onopen
Open ==
  /\ conn = "connecting"
  /\ conn' = "connected"
  /\ retryCount' = 0
  /\ Stop
  /\ UNCHANGED <<cached, polled>>
  /\ Refresh
  /\ UNCHANGED <<truth, inbox, retryTimer, refused, cacheFetch, counts>>

\* onclose of a socket that never opened: nothing is scheduled.
Refuse ==
  /\ conn = "connecting"
  /\ conn' = "disconnected"
  /\ refused' = TRUE
  /\ UNCHANGED <<truth, inbox, retryCount, retryTimer, polling, cacheFetch, view, counts>>

\* Slip: wasConnected is read after the state has been set.
ScheduleReconnect_Never == UNCHANGED <<retryTimer, retryCount>>

\* Beyond the limit nothing is scheduled; as onopen resets the count and only
\* an open socket that closes gets here, the limit is never met.
ScheduleReconnect ==
  LET again == retryCount < MaxRetries
  IN /\ retryTimer' = again
     /\ retryCount' = IF again THEN retryCount + 1 ELSE retryCount

\* onclose of an open socket: events under way are lost.
Drop ==
  /\ isConnected /\ drops < MaxDrops
  /\ drops' = drops + 1
  /\ conn' = "disconnected"
  /\ inbox' = 0
  /\ ScheduleReconnect
  /\ Start
  /\ UNCHANGED <<cached, polled>>
  /\ Refresh
  /\ UNCHANGED <<truth, refused, cacheFetch, flips>>

\* The retry timer fires and connect creates a socket.
Reconnect ==
  /\ retryTimer /\ conn = "disconnected"
  /\ retryTimer' = FALSE
  /\ conn' = "connecting"
  /\ UNCHANGED <<truth, inbox, retryCount, refused, polling, cacheFetch, view, counts>>

\* External: an anomaly is created, and its event sent on an open socket; the
\* server loses none.
Create ==
  /\ truth < MaxVersion
  /\ truth' = truth + 1
  /\ inbox' = IF isConnected THEN inbox + 1 ELSE inbox
  /\ UNCHANGED <<conn, retryCount, retryTimer, refused, polling, cacheFetch, view, counts>>

----------------------------------------------------------------------------
\* The panel has been mounted: a socket is connecting, a poller has started,
\* the cached fetch is under way.
Init ==
  /\ truth = 0 /\ inbox = 0
  /\ conn = "connecting" /\ retryCount = 0 /\ retryTimer = FALSE /\ refused = FALSE
  /\ jobs = [j \in Job |-> IF j \in {Tracked, J("first", FALSE)} THEN 1 ELSE 0]
  /\ raced = FALSE
  /\ cacheFetch = NoData /\ cached = NoData /\ polled = NoData
  /\ shown = NoData /\ blanks = 0
  /\ drops = 0 /\ flips = 0

Next ==
  \/ \E j \in Job : TimerFires(j) \/ Read(j) \/ PollArrives(j) \/ PollFails(j)
  \/ ReadForCache \/ CacheArrives \/ CacheFails
  \/ Open \/ Refuse \/ Drop \/ Reconnect
  \/ EventArrives \/ Flip \/ Create

Spec == Init /\ [][Next]_vars

\* Timers fire, events on an open socket arrive, attempts to connect end, and
\* a server that is asked again and again answers again and again.
Fairness ==
  /\ \A own \in BOOLEAN :
       /\ WF_vars(\E j \in Job : j.own = own /\ TimerFires(j))
       /\ SF_vars(\E j \in Job : j.own = own /\ Read(j))
       /\ SF_vars(\E j \in Job : j.own = own /\ PollArrives(j))
  /\ WF_vars(ReadForCache) /\ WF_vars(CacheArrives)
  /\ WF_vars(EventArrives) /\ WF_vars(Reconnect) /\ WF_vars(Open \/ Refuse)

FairSpec == Spec /\ Fairness

----------------------------------------------------------------------------
(* Properties.                                                             *)

\* Without an open socket the panel always has a poll before it: some chain of
\* the running poller waits for its timer or for an answer, whatever happened to
\* the polls, the socket and the tab before.
PollsWhileDisconnected ==
  ~isConnected => \E j \in Job : j.own /\ Present(j)

\* "Adaptive polling (disabled when WebSocket connected)": while the socket is
\* open no chain of polls lives on, unless a poll was under way when a poller
\* was stopped or the tab changed.
QuietWhileConnected ==
  isConnected /\ ~raced => \A j \in Job : j.kind # "first" => ~Present(j)

\* The client rests, neither open nor about to connect, only after an attempt
\* to connect has failed; a lost connection alone leads to a new attempt.
RestsOnlyAfterRefusal == conn = "disconnected" /\ ~retryTimer => refused

\* A panel whose socket stays closed ends up with the server's list, however
\* late, failed or reordered its polls are.
CatchesUpOffline == <>[](~isConnected) => <>[](shown = truth)

=============================================================================
