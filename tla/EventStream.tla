---------------------------- MODULE EventStream ----------------------------
(* From EventBroadcaster to the open sockets: Redis pub/sub, the one       *)
(* listener task, its broadcast over the table of connections, and the     *)
(* endpoint that keeps each connection.                                    *)
(*                                                                         *)
(* A step is what runs between two awaits.  A send may suspend, under back *)
(* pressure or on a closing transport; everything else may then run.       *)
EXTENDS Integers, Sequences, FiniteSets

CONSTANTS MaxClients, MaxEvents, MaxSendings, MaxDrops

\* The table is a dict, whose iteration goes by slots.  The first five
\* insertions do not move a slot; later ones may, and are not modelled.
ASSUME StreamBoundsOK ==
  MaxClients \in 0..5 /\ {MaxEvents, MaxSendings, MaxDrops} \subseteq Nat

\* Connections, named in the order they register: the order of their slots.
Client == 1..MaxClients
\* Events, named in the order they are published.
Event == 1..MaxEvents
\* PUBLISH commands as they reach Redis: the client sends one again when its reply
\* does not come in time, so that an event may have two.
Sending == 1..MaxSendings

VARIABLES
  redis,       \* whether Redis can be reached
  subscribed,  \* whether the listener's connection is subscribed
  feed,        \* the sendings that connection holds for the listener, oldest first
  published,   \* number of events published
  carries,     \* the event of each sending
  pc,          \* where the listener is
  cur,         \* the connection it is sending to
  size,        \* the size of the table when the broadcast began
  left,        \* entries the iteration still expects
  failed,      \* disconnected_clients
  table,       \* active_connections
  endpoint,    \* where the endpoint of each connection is
  alive,       \* whether the browser is still there
  log,         \* history: sendings taken by the listener
  got,         \* history: sendings received, by connection
  churned,     \* history: the table changed under the broadcast under way
  refused,     \* history: a subscription found Redis away
  drops        \* history: connections to Redis lost

publishVars == <<published, carries>>
redisVars == <<redis, subscribed, feed, publishVars, drops>>
sendVars == <<cur, size, left, failed>>
listenerVars == <<pc, sendVars, log>>
clientVars == <<table, endpoint, alive>>
vars == <<redisVars, listenerVars, clientVars, got, churned, refused>>

Least(S) == CHOOSE n \in S : \A m \in S : n <= m
Newest(s) == s[Len(s)]
Members(s) == {s[i] : i \in 1..Len(s)}
sent == Len(carries)

Init ==
  /\ redis \in BOOLEAN
  /\ subscribed = FALSE
  /\ feed = <<>>
  /\ published = 0
  /\ carries = <<>>
  /\ pc = "subscribe"
  /\ cur = 0
  /\ size = 0
  /\ left = 0
  /\ failed = {}
  /\ table = {}
  /\ endpoint = [c \in Client |-> "none"]
  /\ alive = [c \in Client |-> FALSE]
  /\ log = <<>>
  /\ got = [c \in Client |-> <<>>]
  /\ churned = FALSE
  /\ refused = FALSE
  /\ drops = 0

----------------------------------------------------------------------------
(* Redis and the publishers.                                               *)

\* One PUBLISH reaches Redis, or fails with it; an event that finds no
\* subscriber is gone.
Transmit(e) ==
  /\ sent < MaxSendings
  /\ carries' = Append(carries, e)
  /\ feed' = IF redis /\ subscribed THEN Append(feed, sent + 1) ELSE feed
  /\ UNCHANGED <<redis, subscribed, drops, listenerVars, clientVars, got, churned, refused>>

\* A publisher that cannot reach Redis logs that and goes on.
Publish ==
  /\ published < MaxEvents
  /\ published' = published + 1
  /\ Transmit(published + 1)

\* retry_on_timeout: a command without a reply in time is executed once more,
\* behind whatever was published in the meantime.
Resend_Again(e) ==
  /\ e \in Members(carries)
  /\ UNCHANGED published
  /\ Transmit(e)

Resend(e) ==
  /\ e \in Members(carries)
  /\ ~\E i, j \in 1..sent : i # j /\ carries[i] = e /\ carries[j] = e
  /\ UNCHANGED published
  /\ Transmit(e)

Posts == Publish \/ (\E e \in Event : Resend(e))

\* What was on its way to the listener may or may not still arrive.
RedisFails ==
  /\ redis
  /\ drops < MaxDrops
  /\ drops' = drops + 1
  /\ redis' = FALSE
  /\ subscribed' = FALSE
  /\ \E k \in 0..Len(feed) : feed' = SubSeq(feed, 1, k)
  /\ UNCHANGED <<publishVars, listenerVars, clientVars, got, churned, refused>>

RedisReturns ==
  /\ ~redis
  /\ redis' = TRUE
  /\ UNCHANGED <<subscribed, feed, publishVars, drops, listenerVars, clientVars, got, churned, refused>>

----------------------------------------------------------------------------
(* The listener.                                                           *)

\* At the start, and again five seconds after a lost connection.
Subscribe ==
  /\ pc = "subscribe"
  /\ redis
  /\ subscribed' = TRUE
  /\ pc' = "listen"
  /\ UNCHANGED <<redis, feed, publishVars, drops, sendVars, log, clientVars, got, churned, refused>>

\* The error of a failing subscription leaves the generator, and the listener
\* with it.  Nothing starts it again.
SubscribeFails ==
  /\ pc = "subscribe"
  /\ ~redis
  /\ pc' = "ended"
  /\ refused' = TRUE
  /\ UNCHANGED <<redisVars, sendVars, log, clientVars, got, churned>>

ConnectionError_Escapes ==
  /\ pc = "listen"
  /\ feed = <<>>
  /\ ~subscribed
  /\ pc' = "ended"
  /\ UNCHANGED <<redisVars, sendVars, log, clientVars, got, churned, refused>>

ConnectionError ==
  /\ pc = "listen"
  /\ feed = <<>>
  /\ ~subscribed
  /\ pc' = "subscribe"
  /\ UNCHANGED <<redisVars, sendVars, log, clientVars, got, churned, refused>>

\* get_message, and the beginning of broadcast up to its first await.
Receive ==
  /\ pc = "listen"
  /\ feed # <<>>
  /\ log' = Append(log, Head(feed))
  /\ feed' = Tail(feed)
  /\ IF table = {}
       THEN UNCHANGED <<pc, sendVars>>
       ELSE /\ pc' = "send"
            /\ cur' = Least(table)
            /\ size' = Cardinality(table)
            /\ left' = Cardinality(table) - 1
            /\ failed' = {}
  /\ UNCHANGED <<redis, subscribed, publishVars, drops, clientVars, got, churned, refused>>

\* The locals of broadcast go when it ends.
Leaves == cur' = 0 /\ size' = 0 /\ left' = 0 /\ failed' = {}

\* The iteration finds another size than it began with, or more keys: the
\* RuntimeError leaves broadcast and the listener.
Raises_Caught == pc' = "listen" /\ Leaves /\ UNCHANGED <<table, churned>>

Raises_Retries ==
  IF table = {}
    THEN pc' = "listen" /\ Leaves /\ UNCHANGED <<table, churned>>
    ELSE /\ cur' = Least(table)
         /\ size' = Cardinality(table)
         /\ left' = size' - 1
         /\ UNCHANGED <<pc, failed, table, churned>>

Raises == pc' = "ended" /\ Leaves /\ UNCHANGED <<table, churned>>

\* The loop is over: whoever failed is removed.
Completes(lost) ==
  /\ pc' = "listen"
  /\ Leaves
  /\ table' = table \ lost
  /\ churned' = FALSE

Continues(rest, lost) ==
  /\ cur' = Least(rest)
  /\ left' = left - 1
  /\ failed' = lost
  /\ UNCHANGED <<pc, size, table, churned>>

\* One step of the iteration over active_connections.items(), after a send.
Advance_SizeOnly(lost) ==
  LET rest == {c \in table : c > cur}
  IN IF Cardinality(table) # size THEN Raises
     ELSE IF rest = {} THEN Completes(lost)
     ELSE Continues(rest, lost)

Advance(lost) ==
  LET rest == {c \in table : c > cur}
  IN IF Cardinality(table) # size THEN Raises
     ELSE IF rest = {} THEN Completes(lost)
     ELSE IF left = 0 THEN Raises
     ELSE Continues(rest, lost)

Send ==
  /\ pc = "send"
  /\ alive[cur]
  /\ got' = [got EXCEPT ![cur] = Append(@, Newest(log))]
  /\ Advance(failed)
  /\ UNCHANGED <<redisVars, log, endpoint, alive, refused>>

\* To a browser that is gone: the send raises, or nobody notices yet.
SendFails_Returns ==
  /\ pc = "send"
  /\ ~alive[cur]
  /\ Completes({cur})
  /\ UNCHANGED <<redisVars, log, endpoint, alive, got, refused>>

SendFails ==
  /\ pc = "send"
  /\ ~alive[cur]
  /\ \E lost \in {failed, failed \cup {cur}} : Advance(lost)
  /\ UNCHANGED <<redisVars, log, endpoint, alive, got, refused>>

Listener == Subscribe \/ SubscribeFails \/ ConnectionError \/ Receive \/ Send \/ SendFails

----------------------------------------------------------------------------
(* The endpoint of each connection.                                        *)

\* websocket.accept(): from here on the browser takes the socket for open.
Accept(c) ==
  /\ endpoint[c] = "none"
  /\ endpoint' = [endpoint EXCEPT ![c] = "accepted"]
  /\ alive' = [alive EXCEPT ![c] = TRUE]
  /\ UNCHANGED <<redisVars, listenerVars, table, got, churned, refused>>

\* The table is changed under a broadcast if one is waiting for a send.
Touches == churned' = (churned \/ pc = "send")

Register(c) ==
  /\ endpoint[c] = "accepted"
  /\ \A d \in Client : d < c => endpoint[d] \in {"open", "closed"}
  /\ endpoint' = [endpoint EXCEPT ![c] = "open"]
  /\ table' = table \cup {c}
  /\ Touches
  /\ UNCHANGED <<redisVars, listenerVars, alive, got, refused>>

Leave(c) ==
  /\ alive[c]
  /\ alive' = [alive EXCEPT ![c] = FALSE]
  /\ UNCHANGED <<redisVars, listenerVars, table, endpoint, got, churned, refused>>

\* receive_text or the ping finds the browser gone.  The listener may have
\* removed the connection already.
Disconnect(c) ==
  /\ endpoint[c] = "open"
  /\ ~alive[c]
  /\ endpoint' = [endpoint EXCEPT ![c] = "closed"]
  /\ IF c \in table THEN table' = table \ {c} /\ Touches
                    ELSE UNCHANGED <<table, churned>>
  /\ UNCHANGED <<redisVars, listenerVars, alive, got, refused>>

Browser == \E c \in Client : Accept(c) \/ Register(c) \/ Leave(c) \/ Disconnect(c)

Next == Posts \/ RedisFails \/ RedisReturns \/ Listener \/ Browser

Spec == Init /\ [][Next]_vars

\* The listener goes on when it can.  A send to a browser that does not read
\* ends too: the server's own ping closes such a connection.
FairSpec == Spec /\ WF_vars(Listener)

----------------------------------------------------------------------------
(* Properties.                                                             *)

TypeOK ==
  /\ redis \in BOOLEAN /\ subscribed \in BOOLEAN
  /\ feed \in Seq(Sending)
  /\ published \in 0..MaxEvents
  /\ carries \in Seq(Event) /\ sent <= MaxSendings
  /\ pc \in {"subscribe", "listen", "send", "ended"}
  /\ cur \in Client \cup {0} /\ (pc = "send" => cur \in Client)
  /\ size \in 0..MaxClients /\ left \in 0..MaxClients
  /\ failed \subseteq Client /\ table \subseteq Client
  /\ endpoint \in [Client -> {"none", "accepted", "open", "closed"}]
  /\ alive \in [Client -> BOOLEAN]
  /\ log \in Seq(Sending)
  /\ got \in [Client -> Seq(Sending)]
  /\ churned \in BOOLEAN /\ refused \in BOOLEAN
  /\ drops \in 0..MaxDrops

\* Between two broadcasts no living connection of the table that has heard
\* anything lags behind: no broadcast skips one, whatever joins and leaves
\* while it is suspended (WebSocketManager.broadcast).
NobodyLeftBehind ==
  pc = "listen" =>
    \A c \in table : alive[c] /\ got[c] # <<>> => Newest(got[c]) = Newest(log)

\* The listener ends only because a connection came or went while a send was
\* suspended, or because Redis was still away when it subscribed: neither a
\* dead browser nor a lost connection to Redis ends it by itself
\* (start_event_listener, subscribe_to_events).
EndsOnlyByChurnOrRefusal == pc = "ended" => churned \/ refused

\* With a broadcast under way, or an event to take, the listener has a step.
ListenerCanGoOn ==
  pc = "send" \/ (pc = "listen" /\ feed # <<>>) => ENABLED <<Listener>>_vars

\* What becomes of a sending for a connection: it is received, or the browser
\* leaves, or the listener ends, or it goes with the connection to Redis.
Arrived(c, n) ==
  \/ n \in Members(got[c])
  \/ ~alive[c]
  \/ pc = "ended"
  \/ n \notin Members(feed) \cup Members(log)

\* The listener is never stuck and leaves no registered browser out for good:
\* an event that has reached it, be it the second sending of one, is sent to
\* whoever is in the table then
\* (start_event_listener, WebSocketManager.broadcast).
EventsArrive ==
  /\ []ListenerCanGoOn
  /\ \A c \in Client, n \in Sending :
       (n \in Members(feed) /\ c \in table) ~> Arrived(c, n)

Feed == INSTANCE EventFeed WITH heard <- got

\* In the order of sending, each sending at most once and without gaps, to each
\* connection; an event is sent twice at most, and first in the order of
\* publication (redis_client.py: retry_on_timeout; websocket_server.py:
\* "broadcasting received events to all connected WebSocket clients").
ImplementsFeed == Feed!Spec

=============================================================================
