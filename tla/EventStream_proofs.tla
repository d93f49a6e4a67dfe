------------------------- MODULE EventStream_proofs -------------------------
(***************************************************************************)
(* The safety properties of EventStream, for any number of events and lost *)
(* connections and up to five connections, and its refinement of           *)
(* EventFeed.                                                              *)
(***************************************************************************)
EXTENDS EventStream, FiniteSetTheorems, SequenceTheorems, TLAPS

----------------------------------------------------------------------------
(* The table as a set of slots.                                            *)

\* A set of connections is finite and no larger than all of them.
LEMMA ClientsFinite ==
  ASSUME NEW S \in SUBSET Client
  PROVE  IsFiniteSet(S) /\ Cardinality(S) \in 0..MaxClients
<1>1. IsFiniteSet(Client) /\ Cardinality(Client) = MaxClients
  <2>1. MaxClients \in Int /\ MaxClients >= 0
    BY StreamBoundsOK
  <2>2. IsFiniteSet(1..MaxClients)
        /\ Cardinality(1..MaxClients) = IF 1 > MaxClients THEN 0 ELSE MaxClients - 1 + 1
    BY <2>1, FS_Interval
  <2> QED
    BY <2>1, <2>2 DEF Client
<1>2. IsFiniteSet(S) /\ Cardinality(S) <= Cardinality(Client)
  BY <1>1, FS_Subset
<1>3. Cardinality(S) \in Nat
  BY <1>2, FS_CardinalityType
<1> QED
  BY <1>1, <1>2, <1>3, StreamBoundsOK

\* The first slot of a table is in it, and before every other.
LEMMA LeastIsFirst ==
  ASSUME NEW S \in SUBSET Client, S # {}
  PROVE  Least(S) \in S /\ \A c \in S : Least(S) <= c
<1>1. S \subseteq 1..5
  BY StreamBoundsOK DEF Client
<1>2. \E n \in S : \A m \in S : n <= m
  <2>1. CASE 1 \in S
    BY <1>1, <2>1
  <2>2. CASE 1 \notin S /\ 2 \in S
    BY <1>1, <2>2
  <2>3. CASE S \cap {1, 2} = {} /\ 3 \in S
    BY <1>1, <2>3
  <2>4. CASE S \cap {1, 2, 3} = {} /\ 4 \in S
    BY <1>1, <2>4
  <2>5. CASE S \cap {1, 2, 3, 4} = {}
    <3>1. \A n \in S : n = 5
      BY <1>1, <2>5
    <3> QED
      BY <3>1
  <2> QED
    BY <2>1, <2>2, <2>3, <2>4, <2>5
<1> QED
  BY <1>2 DEF Least

\* One step along the slots leaves one fewer to come.
LEMMA OneFewer ==
  ASSUME NEW S \in SUBSET Client, S # {}
  PROVE  Cardinality({c \in S : c > Least(S)}) = Cardinality(S) - 1
<1>1. {c \in S : c > Least(S)} = S \ {Least(S)}
  <2>1. \A c \in S : c \in Int
    BY StreamBoundsOK DEF Client
  <2> QED
    BY <2>1, LeastIsFirst
<1> QED
  BY <1>1, LeastIsFirst, ClientsFinite, FS_RemoveElement

\* No slots to come is no entries left.
LEMMA NoneLeft ==
  ASSUME NEW S \in SUBSET Client, Cardinality(S) = 0
  PROVE  S = {}
  BY ClientsFinite, FS_EmptySet

\* How an iteration goes on: it raises, or it has seen every slot, or it takes
\* the next one.
LEMMA Iteration ==
  ASSUME TypeOK, pc = "send", NEW lost \in SUBSET Client, Advance(lost)
  PROVE  \/ Raises
         \/ Completes(lost) /\ \A c \in table : c <= cur
         \/ /\ Continues({c \in table : c > cur}, lost)
            /\ Cardinality(table) = size
            /\ left # 0
            /\ cur' \in table /\ cur' > cur
            /\ \A c \in table : c > cur => c >= cur'
<1> DEFINE rest == {c \in table : c > cur}
<1>1. rest \in SUBSET Client /\ cur \in Int /\ \A c \in table : c \in Int
  <2>1. table \subseteq Client /\ cur \in Client
    BY DEF TypeOK
  <2>2. \A n \in Client : n \in Int
    BY StreamBoundsOK DEF Client
  <2> QED
    BY <2>1, <2>2
<1>2. CASE Cardinality(table) # size
  BY <1>2 DEF Advance
<1>3. CASE Cardinality(table) = size /\ rest = {}
  BY <1>1, <1>3 DEF Advance
<1>4. CASE Cardinality(table) = size /\ rest # {} /\ left = 0
  BY <1>4 DEF Advance
<1>5. CASE Cardinality(table) = size /\ rest # {} /\ left # 0
  <2>1. Continues(rest, lost)
    BY <1>5 DEF Advance
  <2>2. cur' = Least(rest)
    BY <2>1 DEF Continues
  <2>3. cur' \in rest /\ \A c \in rest : cur' <= c
    BY <1>1, <1>5, <2>2, LeastIsFirst
  <2>4. cur' \in Int
    BY <1>1, <2>3
  <2> QED
    BY <1>1, <1>5, <2>1, <2>3, <2>4
<1> QED
  BY <1>2, <1>3, <1>4, <1>5

----------------------------------------------------------------------------
(* Types.                                                                  *)

\* A broadcast is about an event.
Speaking == pc = "send" => log # <<>>

\* Every variable starts in its type.
LEMMA TypesInit == Init => TypeOK /\ Speaking
<1> SUFFICES ASSUME Init PROVE TypeOK /\ Speaking
  OBVIOUS
<1>1. /\ feed \in Seq(Sending) /\ log \in Seq(Sending) /\ got \in [Client -> Seq(Sending)]
      /\ carries \in Seq(Event) /\ sent = 0
  BY DEF Init, sent
<1>2. /\ redis \in BOOLEAN /\ subscribed \in BOOLEAN
      /\ pc \in {"subscribe", "listen", "send", "ended"} /\ pc # "send"
      /\ cur \in Client \cup {0} /\ failed \subseteq Client /\ table \subseteq Client
      /\ endpoint \in [Client -> {"none", "accepted", "open", "closed"}]
      /\ alive \in [Client -> BOOLEAN]
      /\ churned \in BOOLEAN /\ refused \in BOOLEAN
  BY DEF Init
<1>3. published \in 0..MaxEvents /\ 0 <= MaxSendings /\ size \in 0..MaxClients /\ left \in 0..MaxClients /\ drops \in 0..MaxDrops
  BY StreamBoundsOK DEF Init
<1> QED
  BY <1>1, <1>2, <1>3 DEF TypeOK, Speaking

\* A PUBLISH, the first or the second of its event, adds a sending to those there
\* are, and to the feed if the listener is there.
LEMMA PostsTransmit ==
  ASSUME TypeOK, Posts
  PROVE  /\ published' \in 0..MaxEvents /\ carries' \in Seq(Event)
         /\ sent \in Nat /\ sent + 1 \in Sending /\ sent' = sent + 1
         /\ feed' = Append(feed, sent + 1) \/ feed' = feed
         /\ UNCHANGED <<redis, subscribed, drops, listenerVars, clientVars, got, churned, refused>>
<1>1. PICK e \in Event : Transmit(e) /\ published' \in 0..MaxEvents
  <2>1. CASE Publish
    BY <2>1, StreamBoundsOK DEF Publish, Event, TypeOK
  <2>2. ASSUME NEW e \in Event, Resend(e)
        PROVE  Transmit(e) /\ published' \in 0..MaxEvents
    BY <2>2 DEF Resend, TypeOK
  <2> QED
    BY <2>1, <2>2 DEF Posts
<1>2. /\ carries \in Seq(Event) /\ carries' = Append(carries, e)
      /\ Len(carries) \in Nat /\ Len(carries) < MaxSendings
  BY <1>1, LenProperties DEF Transmit, TypeOK, sent
<1>3. carries' \in Seq(Event) /\ Len(carries') = Len(carries) + 1
  BY <1>2, AppendProperties
<1> QED
  BY <1>1, <1>2, <1>3, StreamBoundsOK DEF Transmit, Sending, sent

\* The first entries of a sequence of sendings are one.
LEMMA PrefixOfSendings ==
  ASSUME NEW s \in Seq(Sending), NEW k \in 0..Len(s)
  PROVE  /\ SubSeq(s, 1, k) \in Seq(Sending)
         /\ Len(SubSeq(s, 1, k)) = k
         /\ \A i \in 1..k : SubSeq(s, 1, k)[i] = s[i]
<1>1. Len(s) \in Nat
  BY LenProperties
<1>2. \A i \in 1..k : s[i] \in Sending
  BY <1>1, ElementOfSeq
<1>3. SubSeq(s, 1, k) = [i \in 1..k |-> s[i]]
  BY <1>1, SubSeqProperties
<1> QED
  BY <1>1, <1>2, <1>3, SubSeqProperties

\* A step of the iteration keeps the types of what it changes.
LEMMA IterationTypes ==
  ASSUME TypeOK, pc = "send", NEW lost \in SUBSET Client, Advance(lost)
  PROVE  /\ pc' \in {"send", "listen", "ended"}
         /\ cur' \in Client \cup {0} /\ (pc' = "send" => cur' \in Client)
         /\ size' \in 0..MaxClients /\ left' \in 0..MaxClients
         /\ failed' \subseteq Client /\ table' \subseteq Client
         /\ churned' \in BOOLEAN
<1>1. MaxClients \in Nat
  BY StreamBoundsOK
<1>2. CASE Raises
  BY <1>1, <1>2 DEF TypeOK, Raises, Leaves
<1>3. CASE Completes(lost)
  <2>1. table \subseteq Client
    BY DEF TypeOK
  <2>2. 0 \in 0..MaxClients
    BY <1>1
  <2> QED
    BY <1>3, <2>1, <2>2 DEF Completes, Leaves
<1>4. CASE /\ Continues({c \in table : c > cur}, lost)
           /\ left # 0 /\ cur' \in table
  BY <1>1, <1>4 DEF TypeOK, Continues
<1> QED
  BY <1>2, <1>3, <1>4, Iteration

\* Every step keeps the types.
LEMMA TypesStep == TypeOK /\ Speaking /\ [Next]_vars => TypeOK'
<1> SUFFICES ASSUME TypeOK, Speaking, [Next]_vars
             PROVE  TypeOK'
  OBVIOUS
<1> USE StreamBoundsOK
<1>1. CASE Posts
  <2>1. /\ published' \in 0..MaxEvents /\ carries' \in Seq(Event) /\ sent' <= MaxSendings
        /\ UNCHANGED <<redis, subscribed, drops, listenerVars, clientVars, got, churned, refused>>
    BY <1>1, PostsTransmit DEF Sending
  <2>2. feed' \in Seq(Sending)
    <3>1. feed \in Seq(Sending) /\ sent + 1 \in Sending
      BY <1>1, PostsTransmit DEF TypeOK
    <3>2. feed' = Append(feed, sent + 1) \/ feed' = feed
      BY <1>1, PostsTransmit
    <3> HIDE DEF sent
    <3> QED
      BY <3>1, <3>2
  <2> QED
    BY <2>1, <2>2 DEF TypeOK, listenerVars, sendVars, clientVars
<1>2. CASE RedisFails
  <2>1. PICK k \in 0..Len(feed) : feed' = SubSeq(feed, 1, k)
    BY <1>2 DEF RedisFails
  <2>2. feed' \in Seq(Sending)
    BY <2>1, PrefixOfSendings DEF TypeOK
  <2> QED
    <3>1. drops' \in 0..MaxDrops
      BY <1>2 DEF TypeOK, RedisFails
    <3>2. /\ redis' = FALSE /\ subscribed' = FALSE
          /\ UNCHANGED <<publishVars, listenerVars, clientVars, got, churned, refused>>
      BY <1>2 DEF RedisFails
    <3> QED
      BY <2>2, <3>1, <3>2 DEF TypeOK, sent, publishVars, listenerVars, sendVars, clientVars
<1>3. CASE RedisReturns
  BY <1>3 DEF TypeOK, sent, publishVars, RedisReturns, listenerVars, sendVars, clientVars
<1>4. CASE Subscribe \/ SubscribeFails \/ ConnectionError
  BY <1>4 DEF TypeOK, sent, publishVars, Subscribe, SubscribeFails, ConnectionError, redisVars, sendVars, clientVars
<1>5. CASE Receive
  <2>1. Head(feed) \in Sending /\ feed' \in Seq(Sending) /\ log' \in Seq(Sending)
    BY <1>5 DEF TypeOK, Receive
  <2>2. /\ pc' \in {"listen", "send"}
        /\ cur' \in Client \cup {0} /\ (pc' = "send" => cur' \in Client)
        /\ size' \in 0..MaxClients /\ left' \in 0..MaxClients
        /\ failed' \subseteq Client
    <3>1. CASE table = {}
      BY <1>5, <3>1 DEF TypeOK, Receive, sendVars
    <3>2. CASE table # {}
      <4>1. IsFiniteSet(table) /\ Cardinality(table) \in 0..MaxClients
        BY ClientsFinite DEF TypeOK
      <4>2. Cardinality(table) # 0
        BY <3>2, <4>1, FS_EmptySet
      <4>3. Least(table) \in Client
        BY <3>2, LeastIsFirst DEF TypeOK
      <4> QED
        BY <1>5, <3>2, <4>1, <4>2, <4>3 DEF Receive
    <3> QED
      BY <3>1, <3>2
  <2> QED
    BY <1>5, <2>1, <2>2 DEF TypeOK, sent, publishVars, Receive, clientVars
<1>6. CASE Send
  <2>1. got' \in [Client -> Seq(Sending)] /\ pc = "send"
    <3>1. pc = "send" /\ cur \in Client
      BY <1>6 DEF TypeOK, Send
    <3>2. Newest(log) \in Sending
      <4>1. log \in Seq(Sending) /\ log # <<>>
        BY <3>1 DEF TypeOK, Speaking
      <4> QED
        BY <4>1 DEF Newest
    <3>3. Append(got[cur], Newest(log)) \in Seq(Sending)
      BY <3>1, <3>2 DEF TypeOK
    <3> QED
      BY <1>6, <3>1, <3>3 DEF TypeOK, Send
  <2> QED
    BY <1>6, <2>1, IterationTypes DEF TypeOK, sent, publishVars, Send, redisVars
<1>7. CASE SendFails
  <2>1. pc = "send" /\ cur \in Client
    BY <1>7 DEF TypeOK, SendFails
  <2>2. PICK lost \in {failed, failed \cup {cur}} : Advance(lost)
    BY <1>7 DEF SendFails
  <2>3. lost \in SUBSET Client
    BY <2>1, <2>2 DEF TypeOK
  <2> QED
    BY <1>7, <2>1, <2>2, <2>3, IterationTypes DEF TypeOK, sent, publishVars, SendFails, redisVars
<1>8. ASSUME NEW c \in Client, Accept(c) \/ Register(c) \/ Leave(c) \/ Disconnect(c)
      PROVE  TypeOK'
  <2>1. table' \subseteq Client /\ churned' \in BOOLEAN
    BY <1>8 DEF TypeOK, Accept, Register, Leave, Disconnect, Touches
  <2> QED
    BY <1>8, <2>1 DEF TypeOK, sent, publishVars, Accept, Register, Leave, Disconnect, redisVars, listenerVars, sendVars
<1>9. CASE UNCHANGED vars
  BY <1>9 DEF TypeOK, sent, publishVars, vars, redisVars, listenerVars, sendVars, clientVars
<1> QED
  BY <1>1, <1>2, <1>3, <1>4, <1>5, <1>6, <1>7, <1>8, <1>9 DEF Next, Listener, Browser

\* A broadcast begins with an event, and the log never shrinks.
LEMMA SpeakingStep == TypeOK /\ Speaking /\ [Next]_vars => Speaking'
<1> SUFFICES ASSUME TypeOK, Speaking, [Next]_vars
             PROVE  Speaking'
  OBVIOUS
<1>1. CASE Receive
  <2>1. log \in Seq(Sending) /\ log' = Append(log, Head(feed)) /\ Head(feed) \in Sending
    BY <1>1 DEF Receive, TypeOK
  <2>2. Append(log, Head(feed)) # <<>>
    BY <2>1
  <2> QED
    BY <2>1, <2>2 DEF Speaking
<1>2. CASE Send \/ SendFails
  BY <1>2 DEF Send, SendFails, Speaking
<1>3. CASE Posts \/ RedisFails \/ RedisReturns \/ Browser \/ UNCHANGED vars
  BY <1>3 DEF Posts, Publish, Resend, Transmit, RedisFails, RedisReturns, Browser, Accept, Register, Leave, Disconnect,
              Speaking, vars, listenerVars
<1>4. CASE Subscribe \/ SubscribeFails \/ ConnectionError
  BY <1>4 DEF Subscribe, SubscribeFails, ConnectionError, Speaking
<1> QED
  BY <1>1, <1>2, <1>3, <1>4 DEF Next, Listener

\* The variables keep their types, and no bound is exceeded.
THEOREM StreamTypeCorrect == Spec => []TypeOK
  BY TypesInit, TypesStep, SpeakingStep, PTL DEF Spec

----------------------------------------------------------------------------
(* The table and the endpoints.                                            *)

\* The table holds the open connections whose browser is there, and of the
\* others at most those whose endpoint has not noticed; whoever a broadcast
\* finds dead is dead, and nobody hears anything before it is registered.
Registered ==
  /\ \A c \in table : endpoint[c] = "open"
  /\ \A c \in Client : endpoint[c] = "open" /\ alive[c] => c \in table
  /\ \A c \in Client : endpoint[c] \in {"none", "closed"} => ~alive[c]
  /\ \A c \in failed : ~alive[c] /\ endpoint[c] \in {"open", "closed"}
  /\ pc = "send" => endpoint[cur] \in {"open", "closed"}
  /\ \A c \in Client : endpoint[c] \in {"none", "accepted"} => got[c] = <<>>

\* Nothing is registered at the start.
LEMMA RegisteredInit == Init => Registered
  BY DEF Init, Registered

\* A step of the iteration takes only the dead out of the table.
LEMMA IterationRegistered ==
  ASSUME TypeOK, Registered, pc = "send", NEW lost \in SUBSET Client, Advance(lost),
         \A c \in lost : ~alive[c] /\ endpoint[c] \in {"open", "closed"},
         UNCHANGED <<endpoint, alive>>,
         \A c \in Client : got'[c] # got[c] => c = cur
  PROVE  Registered'
<1>1. /\ cur \in Client
      /\ \A c \in Client : endpoint[c] \in {"none", "accepted"} => got'[c] = <<>>
  BY DEF TypeOK, Registered
<1>2. CASE Raises
  BY <1>1, <1>2 DEF TypeOK, Registered, Raises, Leaves
<1>3. CASE Completes(lost)
  BY <1>1, <1>3 DEF TypeOK, Registered, Completes, Leaves
<1>4. CASE /\ Continues({c \in table : c > cur}, lost)
           /\ cur' \in table
  BY <1>1, <1>4 DEF TypeOK, Registered, Continues
<1> QED
  BY <1>2, <1>3, <1>4, Iteration

\* Every step keeps the table and the endpoints in line.
LEMMA RegisteredStep == TypeOK /\ TypeOK' /\ Registered /\ [Next]_vars => Registered'
<1> SUFFICES ASSUME TypeOK, TypeOK', Registered, [Next]_vars
             PROVE  Registered'
  OBVIOUS
<1>1. CASE \/ Posts \/ RedisFails \/ RedisReturns
           \/ Subscribe \/ SubscribeFails \/ ConnectionError \/ UNCHANGED vars
  <2>1. UNCHANGED <<table, endpoint, alive, failed, cur, got>> /\ (pc' = "send" => pc = "send")
    BY <1>1 DEF Posts, Publish, Resend, Transmit, RedisFails, RedisReturns, Subscribe, SubscribeFails, ConnectionError,
                vars, listenerVars, sendVars, clientVars
  <2> QED
    BY <2>1 DEF Registered
<1>2. CASE Receive
  <2>1. UNCHANGED <<table, endpoint, alive, got>> /\ pc = "listen"
    BY <1>2 DEF Receive, clientVars
  <2>2. CASE table = {}
    BY <1>2, <2>1, <2>2 DEF Receive, Registered, sendVars
  <2>3. CASE table # {}
    <3>1. cur' \in table /\ failed' = {}
      <4>1. table \in SUBSET Client
        BY DEF TypeOK
      <4> QED
        BY <1>2, <2>3, <4>1, LeastIsFirst DEF Receive
    <3> QED
      BY <2>1, <3>1 DEF Registered, TypeOK
  <2> QED
    BY <2>2, <2>3
<1>3. CASE Send
  BY <1>3, IterationRegistered DEF Send, TypeOK, Registered
<1>4. CASE SendFails
  <2>1. PICK lost \in {failed, failed \cup {cur}} : Advance(lost)
    BY <1>4 DEF SendFails
  <2>2. /\ lost \in SUBSET Client /\ pc = "send"
        /\ \A c \in lost : ~alive[c] /\ endpoint[c] \in {"open", "closed"}
    BY <1>4, <2>1 DEF SendFails, TypeOK, Registered
  <2> QED
    BY <1>4, <2>1, <2>2, IterationRegistered DEF SendFails
<1>5. ASSUME NEW c \in Client, Accept(c) \/ Leave(c)
      PROVE  Registered'
  <2>1. UNCHANGED <<table, failed, cur, pc, got>>
    BY <1>5 DEF Accept, Leave, listenerVars, sendVars
  <2>2. /\ endpoint \in [Client -> {"none", "accepted", "open", "closed"}]
        /\ alive \in [Client -> BOOLEAN] /\ table \subseteq Client /\ failed \subseteq Client
        /\ pc = "send" => cur \in Client
    BY DEF TypeOK
  <2>3. CASE Accept(c)
    <3>1. endpoint[c] = "none" /\ endpoint' = [endpoint EXCEPT ![c] = "accepted"]
          /\ alive' = [alive EXCEPT ![c] = TRUE]
      BY <2>3 DEF Accept
    <3> QED
      BY <2>1, <2>2, <3>1 DEF Registered
  <2>4. CASE Leave(c)
    <3>1. endpoint' = endpoint /\ alive' = [alive EXCEPT ![c] = FALSE]
      BY <2>4 DEF Leave
    <3> QED
      BY <2>1, <2>2, <3>1 DEF Registered
  <2> QED
    BY <1>5, <2>3, <2>4
<1>6. ASSUME NEW c \in Client, Register(c) \/ Disconnect(c)
      PROVE  Registered'
  <2>1. UNCHANGED <<alive, failed, cur, pc, got>>
    BY <1>6 DEF Register, Disconnect, listenerVars, sendVars
  <2>2. /\ endpoint \in [Client -> {"none", "accepted", "open", "closed"}]
        /\ table \subseteq Client /\ failed \subseteq Client
        /\ pc = "send" => cur \in Client
    BY DEF TypeOK
  <2>3. CASE Register(c)
    <3>1. endpoint[c] = "accepted" /\ endpoint' = [endpoint EXCEPT ![c] = "open"]
          /\ table' = table \cup {c}
      BY <2>3 DEF Register
    <3> QED
      BY <2>1, <2>2, <3>1 DEF Registered
  <2>4. CASE Disconnect(c)
    <3>1. ~alive[c] /\ endpoint' = [endpoint EXCEPT ![c] = "closed"]
          /\ table' = table \ {c}
      BY <2>4 DEF Disconnect
    <3> QED
      BY <2>1, <2>2, <3>1 DEF Registered
  <2> QED
    BY <1>6, <2>3, <2>4
<1> QED
  BY <1>1, <1>2, <1>3, <1>4, <1>5, <1>6 DEF Next, Listener, Browser

----------------------------------------------------------------------------
(* The end of the listener.                                                *)

\* While nobody comes or goes, the iteration has exactly the slots behind the
\* current one to come.
Counted ==
  pc = "send" /\ ~churned =>
    /\ Cardinality(table) = size
    /\ left = Cardinality({c \in table : c > cur})

\* Every step counts right, and only the two causes end the listener.
LEMMA CountedStep ==
  TypeOK /\ TypeOK' /\ Counted /\ EndsOnlyByChurnOrRefusal /\ [Next]_vars
    => Counted' /\ EndsOnlyByChurnOrRefusal'
<1> SUFFICES ASSUME TypeOK, TypeOK', Counted, EndsOnlyByChurnOrRefusal, [Next]_vars
             PROVE  Counted' /\ EndsOnlyByChurnOrRefusal'
  OBVIOUS
<1>1. CASE \/ Posts \/ RedisFails \/ RedisReturns \/ UNCHANGED vars
           \/ \E c \in Client : Accept(c) \/ Leave(c)
  <2>1. UNCHANGED <<table, size, left, cur, pc, churned, refused>>
    BY <1>1 DEF Posts, Publish, Resend, Transmit, RedisFails, RedisReturns, Accept, Leave,
                vars, listenerVars, sendVars, clientVars
  <2> QED
    BY <2>1 DEF Counted, EndsOnlyByChurnOrRefusal
<1>2. CASE Subscribe \/ SubscribeFails \/ ConnectionError
  BY <1>2 DEF Subscribe, SubscribeFails, ConnectionError, Counted, EndsOnlyByChurnOrRefusal
<1>3. CASE Receive
  <2>1. table' = table /\ pc = "listen" /\ pc' \in {"listen", "send"}
    BY <1>3 DEF Receive, clientVars
  <2>2. CASE table = {}
    BY <1>3, <2>1, <2>2 DEF Receive, Counted, EndsOnlyByChurnOrRefusal
  <2>3. CASE table # {}
    <3>1. table \in SUBSET Client
      BY DEF TypeOK
    <3>2. Cardinality({c \in table : c > Least(table)}) = Cardinality(table) - 1
      BY <2>3, <3>1, OneFewer
    <3>3. cur' = Least(table) /\ size' = Cardinality(table) /\ left' = Cardinality(table) - 1
      BY <1>3, <2>3 DEF Receive
    <3> QED
      BY <2>1, <3>2, <3>3 DEF Counted, EndsOnlyByChurnOrRefusal
  <2> QED
    BY <2>2, <2>3
<1>4. ASSUME NEW lost \in SUBSET Client, pc = "send", Advance(lost), UNCHANGED refused
      PROVE  Counted' /\ EndsOnlyByChurnOrRefusal'
  <2> DEFINE rest == {c \in table : c > cur}
  <2>1. rest \in SUBSET Client
    BY DEF TypeOK
  <2>2. CASE churned
    BY <1>4, <2>2, Iteration DEF Raises, Completes, Continues, Counted, EndsOnlyByChurnOrRefusal
  <2>3. CASE ~churned
    <3>1. Cardinality(table) = size /\ left = Cardinality(rest)
      BY <1>4, <2>3 DEF Counted
    <3>2. rest # {} => left # 0
      BY <2>1, <3>1, NoneLeft
    <3>3. CASE rest = {}
      <4>1. Completes(lost)
        BY <1>4, <3>1, <3>3 DEF Advance
      <4> QED
        BY <4>1 DEF Completes, Counted, EndsOnlyByChurnOrRefusal
    <3>4. CASE rest # {}
      <4>1. Continues(rest, lost)
        BY <1>4, <3>1, <3>2, <3>4 DEF Advance
      <4>2. cur' = Least(rest) /\ left' = Cardinality(rest) - 1
            /\ table' = table /\ size' = size /\ pc' = "send"
        BY <1>4, <3>1, <4>1 DEF Continues
      <4>3. Cardinality({c \in rest : c > Least(rest)}) = Cardinality(rest) - 1
        BY <2>1, <3>4, OneFewer
      <4>4. Least(rest) > cur /\ cur \in Int /\ Least(rest) \in Int /\ \A c \in table : c \in Int
        <5>1. Least(rest) \in rest
          BY <2>1, <3>4, LeastIsFirst
        <5>2. cur \in Client /\ Least(rest) \in Client /\ table \subseteq Client
          BY <1>4, <2>1, <5>1 DEF TypeOK
        <5>3. \A n \in Client : n \in Int
          BY StreamBoundsOK DEF Client
        <5> QED
          BY <5>1, <5>2, <5>3
      <4>5. {c \in rest : c > Least(rest)} = {c \in table : c > Least(rest)}
        BY <4>4
      <4> QED
        BY <3>1, <4>2, <4>3, <4>5 DEF Counted, EndsOnlyByChurnOrRefusal
    <3> QED
      BY <3>3, <3>4
  <2> QED
    BY <2>2, <2>3
<1>5. CASE Send
  BY <1>4, <1>5 DEF Send, TypeOK
<1>6. CASE SendFails
  <2>1. PICK lost \in {failed, failed \cup {cur}} : Advance(lost)
    BY <1>6 DEF SendFails
  <2>2. lost \in SUBSET Client /\ pc = "send"
    BY <1>6, <2>1 DEF SendFails, TypeOK
  <2> QED
    BY <1>4, <1>6, <2>1, <2>2 DEF SendFails
<1>7. ASSUME NEW c \in Client, Register(c) \/ Disconnect(c)
      PROVE  Counted' /\ EndsOnlyByChurnOrRefusal'
  <2>1. UNCHANGED <<pc, cur, size, left, refused>>
    BY <1>7 DEF Register, Disconnect, listenerVars, sendVars
  <2>2. \/ UNCHANGED <<table, churned>>
        \/ churned' = (churned \/ pc = "send")
    BY <1>7 DEF Register, Disconnect, Touches
  <2> QED
    BY <2>1, <2>2 DEF Counted, EndsOnlyByChurnOrRefusal
<1> QED
  BY <1>1, <1>2, <1>3, <1>5, <1>6, <1>7 DEF Next, Listener, Browser

\* The listener ends only because the table changed under a broadcast or a
\* subscription found Redis away.
THEOREM ListenerEndsForCause == Spec => []EndsOnlyByChurnOrRefusal
<1>1. Init => Counted /\ EndsOnlyByChurnOrRefusal
  BY DEF Init, Counted, EndsOnlyByChurnOrRefusal
<1> QED
  BY <1>1, CountedStep, StreamTypeCorrect, PTL DEF Spec

----------------------------------------------------------------------------
(* The order of the sendings.                                              *)

\* What waits for the listener was sent after all it has taken, in order.
InOrder ==
  /\ \A i, j \in 1..Len(feed) : i < j => feed[i] < feed[j]
  /\ \A i \in 1..Len(feed) : feed[i] <= sent
  /\ \A i \in 1..Len(log) : log[i] <= sent
  /\ \A i \in 1..Len(log), j \in 1..Len(feed) : log[i] < feed[j]

\* Nothing is published at the start.
LEMMA InOrderInit == Init => InOrder
  BY DEF Init, InOrder, sent

\* Taking the oldest event keeps the order.
LEMMA TakeInOrder ==
  ASSUME NEW f \in Seq(Sending), NEW l \in Seq(Sending), NEW s \in Nat, f # <<>>,
         \A i, j \in 1..Len(f) : i < j => f[i] < f[j],
         \A i \in 1..Len(f) : f[i] <= s,
         \A i \in 1..Len(l) : l[i] <= s,
         \A i \in 1..Len(l), j \in 1..Len(f) : l[i] < f[j]
  PROVE  /\ \A i, j \in 1..Len(Tail(f)) : i < j => Tail(f)[i] < Tail(f)[j]
         /\ \A i \in 1..Len(Tail(f)) : Tail(f)[i] <= s
         /\ \A i \in 1..Len(Append(l, Head(f))) : Append(l, Head(f))[i] <= s
         /\ \A i \in 1..Len(Append(l, Head(f))), j \in 1..Len(Tail(f)) :
              Append(l, Head(f))[i] < Tail(f)[j]
<1>1. /\ Len(f) \in Nat /\ Len(f) > 0 /\ Head(f) = f[1]
      /\ Len(Tail(f)) = Len(f) - 1
      /\ \A i \in 1..Len(Tail(f)) : Tail(f)[i] = f[i + 1]
  BY HeadTailProperties, LenProperties
<1>2. /\ Len(l) \in Nat /\ Len(Append(l, Head(f))) = Len(l) + 1
      /\ \A i \in 1..Len(l) : Append(l, Head(f))[i] = l[i]
      /\ Append(l, Head(f))[Len(l) + 1] = Head(f)
  BY <1>1, AppendProperties, LenProperties, ElementOfSeq
<1>3. \A i \in 1..Len(Tail(f)) : i + 1 \in 1..Len(f) /\ 1 < i + 1
  BY <1>1
<1>4. \A i \in 1..Len(Append(l, Head(f))) : i \in 1..Len(l) \/ i = Len(l) + 1
  BY <1>2
<1> QED
  BY <1>1, <1>2, <1>3, <1>4

\* Every step keeps the order.
LEMMA InOrderStep == TypeOK /\ InOrder /\ [Next]_vars => InOrder'
<1> SUFFICES ASSUME TypeOK, InOrder, [Next]_vars
             PROVE  InOrder'
  OBVIOUS
<1>1. /\ feed \in Seq(Sending) /\ log \in Seq(Sending) /\ sent \in Nat
      /\ Len(feed) \in Nat /\ Len(log) \in Nat
      /\ \A i \in 1..Len(feed) : feed[i] \in Int
      /\ \A i \in 1..Len(log) : log[i] \in Int
  <2>1. feed \in Seq(Sending) /\ log \in Seq(Sending) /\ sent \in Nat
    BY LenProperties DEF TypeOK, sent
  <2>2. \A n \in Sending : n \in Int
    BY StreamBoundsOK DEF Sending
  <2> QED
    BY <2>1, <2>2, LenProperties, ElementOfSeq
<1>2. CASE Posts
  <2>1. sent' = sent + 1 /\ log' = log /\ sent + 1 \in Sending
    BY <1>2, PostsTransmit DEF listenerVars
  <2>2. CASE feed' = feed
    BY <1>1, <2>1, <2>2 DEF InOrder
  <2>3. CASE feed' = Append(feed, sent + 1)
    <3>1. /\ Len(feed') = Len(feed) + 1 /\ feed'[Len(feed) + 1] = sent + 1
          /\ \A i \in 1..Len(feed) : feed'[i] = feed[i]
      BY <1>1, <2>1, <2>3, AppendProperties
    <3>2. \A i \in 1..Len(feed') : i \in 1..Len(feed) \/ i = Len(feed) + 1
      BY <1>1, <3>1
    <3>3. \A i, j \in 1..Len(feed') : i < j => feed'[i] < feed'[j]
      <4> SUFFICES ASSUME NEW i \in 1..Len(feed'), NEW j \in 1..Len(feed'), i < j
                   PROVE  feed'[i] < feed'[j]
        OBVIOUS
      <4>1. i \in 1..Len(feed)
        BY <1>1, <3>1
      <4>2. feed[i] <= sent
        BY <4>1 DEF InOrder
      <4> QED
        BY <1>1, <3>1, <3>2, <4>1, <4>2 DEF InOrder
    <3>4. \A i \in 1..Len(feed') : feed'[i] <= sent'
      BY <1>1, <2>1, <3>1, <3>2 DEF InOrder
    <3>5. \A i \in 1..Len(log') : log'[i] <= sent'
      BY <1>1, <2>1 DEF InOrder
    <3>6. \A i \in 1..Len(log'), j \in 1..Len(feed') : log'[i] < feed'[j]
      BY <1>1, <2>1, <3>1, <3>2 DEF InOrder
    <3> QED
      BY <3>3, <3>4, <3>5, <3>6 DEF InOrder
  <2> QED
    BY <1>2, <2>2, <2>3, PostsTransmit
<1>3. CASE RedisFails
  <2>1. PICK k \in 0..Len(feed) : feed' = SubSeq(feed, 1, k)
    BY <1>3 DEF RedisFails
  <2>2. Len(feed') = k /\ \A i \in 1..k : feed'[i] = feed[i]
    BY <1>1, <2>1, PrefixOfSendings
  <2>3. log' = log /\ sent' = sent
    BY <1>3 DEF RedisFails, listenerVars, publishVars, sent
  <2> QED
    BY <1>1, <2>1, <2>2, <2>3 DEF InOrder
<1>4. CASE Receive
  <2>1. feed # <<>> /\ feed' = Tail(feed) /\ log' = Append(log, Head(feed)) /\ sent' = sent
    BY <1>4 DEF Receive, publishVars, sent
  <2> QED
    BY <1>1, <2>1, TakeInOrder DEF InOrder
<1>5. CASE \/ RedisReturns \/ Subscribe \/ SubscribeFails \/ ConnectionError
           \/ Send \/ SendFails \/ Browser \/ UNCHANGED vars
  <2>1. UNCHANGED <<feed, log, sent>>
    BY <1>5 DEF RedisReturns, Subscribe, SubscribeFails, ConnectionError, Send, SendFails, Browser,
                Accept, Register, Leave, Disconnect, vars, redisVars, listenerVars, publishVars, sent
  <2> QED
    BY <2>1 DEF InOrder
<1> QED
  BY <1>2, <1>3, <1>4, <1>5 DEF Next, Listener

----------------------------------------------------------------------------
(* What the connections have heard.                                        *)

UpToDate(c) == got[c] # <<>> => Newest(got[c]) = Newest(log)
OneBehind(c) == got[c] # <<>> => Len(log) > 1 /\ Newest(got[c]) = log[Len(log) - 1]

\* Between broadcasts every living connection that has heard something is up to
\* date; during one the slots behind the current one are and the others lack
\* exactly the event on its way.
Heard ==
  /\ log = <<>> => \A c \in Client : got[c] = <<>>
  /\ pc \in {"subscribe", "listen"} => \A c \in table : alive[c] => UpToDate(c)
  /\ pc = "send" => \A c \in table : alive[c] =>
       IF c < cur THEN UpToDate(c) ELSE OneBehind(c)

\* Nobody has heard anything at the start.
LEMMA HeardInit == Init => Heard
  BY DEF Init, Heard

\* A step of the iteration that serves the current connection, or finds it
\* dead, leaves nobody behind.
LEMMA IterationHeard ==
  ASSUME TypeOK, Heard, pc = "send", NEW lost \in SUBSET Client, Advance(lost),
         UNCHANGED <<log, alive>>, log # <<>>,
         \A c \in Client \ {cur} : got'[c] = got[c],
         alive[cur] => got'[cur] # <<>> /\ Newest(got'[cur]) = Newest(log)
  PROVE  Heard'
<1>1. /\ table \subseteq Client /\ cur \in Client
      /\ \A c \in Client : c \in Int
  BY StreamBoundsOK DEF TypeOK, Client
<1>2. \A c \in table : alive[c] /\ c <= cur => UpToDate(c)'
  <2> SUFFICES ASSUME NEW c \in table, alive[c], c <= cur
               PROVE  UpToDate(c)'
    OBVIOUS
  <2>1. CASE c = cur
    BY <2>1 DEF UpToDate, Newest
  <2>2. CASE c # cur
    BY <1>1, <2>2 DEF Heard, UpToDate
  <2> QED
    BY <2>1, <2>2
<1>3. \A c \in table : alive[c] /\ c > cur => OneBehind(c)'
  BY <1>1 DEF Heard, OneBehind
<1>4. CASE Raises
  BY <1>4 DEF Raises, Heard
<1>5. CASE Completes(lost) /\ \A c \in table : c <= cur
  BY <1>2, <1>5 DEF Completes, Heard
<1>6. CASE /\ Continues({c \in table : c > cur}, lost)
           /\ cur' \in table /\ cur' > cur
           /\ \A c \in table : c > cur => c >= cur'
  <2>1. table' = table /\ pc' = "send"
    BY <1>6 DEF Continues
  <2>2. \A c \in table : IF c < cur' THEN c <= cur ELSE c > cur
    BY <1>1, <1>6
  <2> QED
    BY <1>2, <1>3, <2>1, <2>2 DEF Heard
<1> QED
  BY <1>4, <1>5, <1>6, Iteration

\* Every step leaves nobody behind.
LEMMA HeardStep ==
  TypeOK /\ TypeOK' /\ Speaking /\ Registered /\ Heard /\ [Next]_vars => Heard'
<1> SUFFICES ASSUME TypeOK, TypeOK', Speaking, Registered, Heard, [Next]_vars
             PROVE  Heard'
  OBVIOUS
<1>1. CASE \/ Posts \/ RedisFails \/ RedisReturns
           \/ Subscribe \/ SubscribeFails \/ ConnectionError \/ UNCHANGED vars
  <2>1. UNCHANGED <<table, alive, cur, got, log>>
        /\ \/ pc' = pc
           \/ pc \in {"subscribe", "listen"} /\ pc' \in {"subscribe", "listen", "ended"}
    BY <1>1 DEF Posts, Publish, Resend, Transmit, RedisFails, RedisReturns, Subscribe, SubscribeFails, ConnectionError,
                vars, listenerVars, sendVars, clientVars
  <2> QED
    BY <2>1 DEF Heard, UpToDate, OneBehind
<1>2. CASE Receive
  <2>1. /\ UNCHANGED <<table, alive, got>> /\ pc = "listen"
        /\ log' = Append(log, Head(feed)) /\ log \in Seq(Sending) /\ Head(feed) \in Sending
    BY <1>2 DEF Receive, clientVars, TypeOK
  <2>2. log' # <<>> /\ Len(log') = Len(log) + 1 /\ Len(log) \in Nat
    BY <2>1
  <2>3. CASE table = {}
    BY <2>1, <2>2, <2>3 DEF Heard
  <2>4. CASE table # {}
    <3>1. table \in SUBSET Client
      BY DEF TypeOK
    <3>2. pc' = "send" /\ cur' = Least(table)
      BY <1>2, <2>4 DEF Receive
    <3>3. \A c \in table : ~(c < cur')
      <4>1. Least(table) \in table /\ \A c \in table : Least(table) <= c
        BY <2>4, <3>1, LeastIsFirst
      <4>2. \A c \in Client : c \in Int
        BY StreamBoundsOK DEF Client
      <4> QED
        BY <3>1, <3>2, <4>1, <4>2
    <3>4. \A c \in table : alive[c] => OneBehind(c)'
      <4> SUFFICES ASSUME NEW c \in table, alive[c], got[c] # <<>>
                   PROVE  Len(log') > 1 /\ Newest(got[c]) = log'[Len(log') - 1]
        BY <2>1 DEF OneBehind
      <4>1. log # <<>> /\ Newest(got[c]) = Newest(log)
        BY <2>1, <3>1 DEF Heard, UpToDate
      <4>2. Len(log) > 0 /\ log'[Len(log)] = log[Len(log)]
        BY <2>1, <4>1
      <4> QED
        BY <2>2, <4>1, <4>2 DEF Newest
    <3> QED
      BY <2>1, <2>2, <3>2, <3>3, <3>4 DEF Heard
  <2> QED
    BY <2>3, <2>4
<1>3. CASE Send
  <2>1. /\ pc = "send" /\ cur \in Client /\ log # <<>> /\ Advance(failed)
        /\ failed \in SUBSET Client /\ UNCHANGED <<log, alive>>
    BY <1>3 DEF Send, TypeOK, Speaking
  <2>2. Newest(log) \in Sending
    BY <2>1 DEF TypeOK, Newest
  <2>3. got \in [Client -> Seq(Sending)] /\ got' = [got EXCEPT ![cur] = Append(@, Newest(log))]
    BY <1>3 DEF Send, TypeOK
  <2>4. got'[cur] = Append(got[cur], Newest(log)) /\ \A c \in Client \ {cur} : got'[c] = got[c]
    BY <2>1, <2>3
  <2>5. got'[cur] # <<>> /\ Newest(got'[cur]) = Newest(log)
    <3>1. got[cur] \in Seq(Sending)
      BY <2>1, <2>3
    <3>2. /\ Append(got[cur], Newest(log)) # <<>>
          /\ Append(got[cur], Newest(log))[Len(Append(got[cur], Newest(log)))] = Newest(log)
      BY <2>2, <3>1
    <3> QED
      BY <2>4, <3>2 DEF Newest
  <2> QED
    BY <2>1, <2>4, <2>5, IterationHeard
<1>4. CASE SendFails
  <2>1. PICK lost \in {failed, failed \cup {cur}} : Advance(lost)
    BY <1>4 DEF SendFails
  <2>2. /\ lost \in SUBSET Client /\ pc = "send" /\ ~alive[cur] /\ log # <<>>
        /\ UNCHANGED <<log, alive, got>>
    BY <1>4, <2>1 DEF SendFails, TypeOK, Speaking
  <2> QED
    BY <2>1, <2>2, IterationHeard
<1>5. ASSUME NEW c \in Client, Accept(c) \/ Leave(c)
      PROVE  Heard'
  <2>1. /\ UNCHANGED <<pc, cur, table, got, log>> /\ table \subseteq Client
        /\ alive \in [Client -> BOOLEAN]
    BY <1>5 DEF Accept, Leave, listenerVars, sendVars, TypeOK
  <2>2. \A d \in table : alive'[d] => alive[d]
    BY <1>5, <2>1 DEF Accept, Leave, Registered
  <2> QED
    BY <2>1, <2>2 DEF Heard, UpToDate, OneBehind
<1>6. ASSUME NEW c \in Client, Register(c) \/ Disconnect(c)
      PROVE  Heard'
  <2>1. UNCHANGED <<pc, cur, alive, got, log>>
    BY <1>6 DEF Register, Disconnect, listenerVars, sendVars
  <2>2. \A d \in table' : d \in table \/ got[d] = <<>>
    BY <1>6 DEF Register, Disconnect, Registered
  <2> QED
    BY <2>1, <2>2 DEF Heard, UpToDate, OneBehind
<1> QED
  BY <1>1, <1>2, <1>3, <1>4, <1>5, <1>6 DEF Next, Listener, Browser

----------------------------------------------------------------------------
(* The sendings.                                                           *)

\* What has been sent has been published.
Numbered == published \in Nat /\ \A e \in Members(carries) : e \in Int /\ e <= published

LEMMA MembersOfAppend ==
  ASSUME NEW S, NEW s \in Seq(S), NEW e \in S
  PROVE  Members(Append(s, e)) = Members(s) \cup {e}
<1>1. /\ Len(s) \in Nat /\ Len(Append(s, e)) = Len(s) + 1
      /\ \A i \in 1..Len(s) : Append(s, e)[i] = s[i]
      /\ Append(s, e)[Len(s) + 1] = e
  BY AppendProperties, LenProperties
<1>2. \A i \in 1..(Len(s) + 1) : i \in 1..Len(s) \/ i = Len(s) + 1
  BY <1>1
<1> QED
  BY <1>1, <1>2 DEF Members

LEMMA NumberedInit == Init => Numbered
  BY DEF Init, Numbered, Members

\* A second sending is of an event that was published before.
LEMMA NumberedStep == TypeOK /\ Numbered /\ [Next]_vars => Numbered'
<1> SUFFICES ASSUME TypeOK, Numbered, [Next]_vars
             PROVE  Numbered'
  OBVIOUS
<1>1. ASSUME NEW e \in Event, Transmit(e)
      PROVE  Members(carries') = Members(carries) \cup {e}
  BY <1>1, MembersOfAppend DEF Transmit, TypeOK
<1>2. CASE Publish
  <2>1. published + 1 \in Event /\ published' = published + 1 /\ Transmit(published + 1)
    BY <1>2, StreamBoundsOK DEF Publish, TypeOK, Event
  <2>2. Members(carries') = Members(carries) \cup {published + 1}
    BY <1>1, <2>1
  <2> QED
    BY <2>1, <2>2 DEF Numbered
<1>3. ASSUME NEW e \in Event, Resend(e)
      PROVE  Numbered'
  <2>1. e \in Members(carries) /\ published' = published /\ Transmit(e)
    BY <1>3 DEF Resend
  <2>2. Members(carries') = Members(carries)
    BY <1>1, <2>1
  <2> QED
    BY <2>1, <2>2 DEF Numbered
<1>4. CASE \/ RedisFails \/ RedisReturns \/ Listener \/ Browser \/ UNCHANGED vars
  <2>1. UNCHANGED publishVars
    BY <1>4 DEF RedisFails, RedisReturns, Listener, Subscribe, SubscribeFails, ConnectionError, Receive,
                Send, SendFails, Browser, Accept, Register, Leave, Disconnect, vars, redisVars
  <2> QED
    BY <2>1 DEF Numbered, publishVars
<1> QED
  BY <1>2, <1>3, <1>4 DEF Next, Posts

----------------------------------------------------------------------------
(* The theorems.                                                           *)

LEMMA SpeakingHolds == Spec => []Speaking
  BY TypesInit, TypesStep, SpeakingStep, PTL DEF Spec

LEMMA RegisteredHolds == Spec => []Registered
  BY RegisteredInit, RegisteredStep, StreamTypeCorrect, PTL DEF Spec

LEMMA InOrderHolds == Spec => []InOrder
  BY InOrderInit, InOrderStep, StreamTypeCorrect, PTL DEF Spec

LEMMA HeardHolds == Spec => []Heard
  BY HeardInit, HeardStep, StreamTypeCorrect, SpeakingHolds, RegisteredHolds, PTL DEF Spec

LEMMA NumberedHolds == Spec => []Numbered
  BY NumberedInit, NumberedStep, StreamTypeCorrect, PTL DEF Spec

\* Between two broadcasts nobody who has heard anything lags behind.
THEOREM NobodyIsSkipped == Spec => []NobodyLeftBehind
<1>1. Heard => NobodyLeftBehind
  BY DEF Heard, UpToDate, NobodyLeftBehind
<1> QED
  BY <1>1, HeardHolds, PTL

\* Every step sends an event for the first or the second time, relays the next
\* sending, hands the newest one to a connection that has the one before, or
\* changes nothing of these.
LEMMA StreamSimulation ==
  TypeOK /\ Speaking /\ Registered /\ InOrder /\ Numbered /\ Heard /\ [Next]_vars
    => [Feed!Next]_<<carries, log, got>>
<1> SUFFICES ASSUME TypeOK, Speaking, Registered, InOrder, Numbered, Heard, [Next]_vars
             PROVE  [Feed!Next]_<<carries, log, got>>
  OBVIOUS
<1>1. CASE Receive
  <2>1. feed \in Seq(Sending) /\ feed # <<>> /\ log' = Append(log, Head(feed)) /\ got' = got
        /\ carries' = carries
    BY <1>1 DEF Receive, TypeOK, publishVars
  <2>2. Head(feed) \in Sending /\ Head(feed) = feed[1] /\ 1 \in 1..Len(feed)
    BY <2>1
  <2>3. Head(feed) <= Len(carries) /\ \A i \in 1..Len(log) : log[i] < Head(feed)
    BY <2>2 DEF InOrder, sent
  <2>4. Feed!Relay(Head(feed))
    BY <2>1, <2>3 DEF Feed!Relay
  <2> QED
    BY <2>2, <2>4 DEF Feed!Next
<1>2. CASE Send
  <2>1. /\ pc = "send" /\ cur \in Client /\ alive[cur] /\ log' = log /\ log # <<>>
        /\ got' = [got EXCEPT ![cur] = Append(@, Newest(log))] /\ carries' = carries
    BY <1>2 DEF Send, TypeOK, Speaking, redisVars, publishVars
  <2>2. cur \in table
    BY <2>1 DEF Registered
  <2>3. ~(cur < cur)
    BY <2>1, StreamBoundsOK DEF Client
  <2>4. got[cur] # <<>> => Len(log) > 1 /\ Newest(got[cur]) = log[Len(log) - 1]
    BY <2>1, <2>2, <2>3 DEF Heard, OneBehind
  <2>5. Feed!Hear(cur)
    BY <2>1, <2>4 DEF Feed!Hear, Feed!Newest, Newest
  <2> QED
    BY <2>1, <2>5 DEF Feed!Next
<1>3. CASE Posts
  <2>1. Feed!Sent = Members(carries)
    BY DEF Feed!Sent, Members
  <2>2. CASE Publish
    <3>1. /\ published + 1 \in Event /\ carries' = Append(carries, published + 1)
          /\ UNCHANGED <<log, got>>
      BY <2>2, StreamBoundsOK DEF Publish, Transmit, TypeOK, Event, listenerVars
    <3>2. \A d \in Feed!Sent : d < published + 1
      BY <2>1 DEF Numbered
    <3>3. Feed!Publish(published + 1)
      BY <3>1, <3>2 DEF Feed!Publish
    <3> QED
      BY <3>1, <3>3 DEF Feed!Next
  <2>3. ASSUME NEW e \in Event, Resend(e)
        PROVE  Feed!Resend(e)
    <3>1. carries' = Append(carries, e) /\ UNCHANGED <<log, got>>
      BY <2>3 DEF Resend, Transmit, listenerVars
    <3>2. /\ e \in Members(carries)
          /\ ~\E i, j \in 1..Len(carries) : i # j /\ carries[i] = e /\ carries[j] = e
      BY <2>3 DEF Resend, sent
    <3> QED
      BY <2>1, <3>1, <3>2 DEF Feed!Resend
  <2> QED
    BY <1>3, <2>2, <2>3 DEF Posts, Feed!Next
<1>4. CASE \/ RedisFails \/ RedisReturns \/ Subscribe \/ SubscribeFails
           \/ ConnectionError \/ SendFails \/ Browser \/ UNCHANGED vars
  <2>1. UNCHANGED <<carries, log, got>>
    BY <1>4 DEF RedisFails, RedisReturns, Subscribe, SubscribeFails, ConnectionError, SendFails,
                Browser, Accept, Register, Leave, Disconnect, vars, redisVars, publishVars, listenerVars
  <2> QED
    BY <2>1
<1> QED
  BY <1>1, <1>2, <1>3, <1>4 DEF Next, Listener

\* The push channel implements the feed: the sendings in their order, each at most
\* once and without gaps; the events in theirs, each sent twice at most.
THEOREM StreamImplementsFeed == Spec => ImplementsFeed
<1>1. Init => Feed!Init
  BY DEF Init, Feed!Init
<1> QED
  BY <1>1, StreamSimulation, StreamTypeCorrect, SpeakingHolds, RegisteredHolds, InOrderHolds,
     NumberedHolds, HeardHolds, PTL DEF Spec, ImplementsFeed, Feed!Spec
----------------------------------------------------------------------------
(* What must happen.                                                       *)
(*                                                                         *)
(* A broadcast is at most five sends long, for the table has five slots at *)
(* most: each stage of it ends, and so it ends.  What a connection is owed *)
(* stays owed until then.  That every event in the feed comes to its head  *)
(* is an induction on the feed, and left to TLC (EventsArrive); that       *)
(* induction's measure is here (ListenerNearsEveryEvent).                  *)

\* The listener waits for Redis with nothing in hand.
Detached == pc = "subscribe" => feed = <<>> /\ ~subscribed

LEMMA DetachedStep == TypeOK /\ Detached /\ [Next]_vars => Detached'
<1> SUFFICES ASSUME TypeOK, Detached, [Next]_vars PROVE Detached'
  OBVIOUS
<1> USE DEF Detached
<1>1. CASE Posts
  BY <1>1 DEF Posts, Publish, Resend, Transmit, listenerVars
<1>2. CASE RedisFails
  <2>1. PICK k \in 0..Len(feed) : feed' = SubSeq(feed, 1, k)
    BY <1>2 DEF RedisFails
  <2>2. feed = <<>> => feed' = <<>>
    BY <2>1, PrefixOfSendings DEF TypeOK
  <2> QED
    BY <1>2, <2>2 DEF RedisFails, listenerVars
<1>3. CASE RedisReturns \/ Browser \/ UNCHANGED vars
  BY <1>3 DEF RedisReturns, Browser, Accept, Register, Leave, Disconnect, vars, redisVars, listenerVars
<1>4. CASE Subscribe \/ SubscribeFails \/ ConnectionError \/ Receive
  BY <1>4 DEF Subscribe, SubscribeFails, ConnectionError, Receive, redisVars
<1>5. CASE Send \/ SendFails
  <2>1. pc' # "subscribe"
    BY <1>5 DEF Send, SendFails, Advance, Raises, Completes, Continues
  <2> QED
    BY <2>1
<1> QED
  BY <1>1, <1>2, <1>3, <1>4, <1>5 DEF Next, Listener

\* What the proofs below know of a state.
Sound == TypeOK /\ Speaking /\ Registered /\ InOrder /\ Detached

LEMMA SoundHolds == Spec => []Sound
<1>1. Init => Detached
  BY DEF Init, Detached
<1> QED
  BY <1>1, DetachedStep, StreamTypeCorrect, SpeakingHolds, RegisteredHolds, InOrderHolds, PTL
     DEF Spec, Sound

\* A send ends the broadcast, or takes it to a later slot: the next one taken.
LEMMA SendAdvances ==
  ASSUME TypeOK, Registered, Send \/ SendFails
  PROVE  /\ UNCHANGED <<alive, log, feed>> /\ pc = "send"
         /\ \/ pc' = "ended"
            \/ /\ pc' = "listen"
               /\ \A c \in table : alive[c] => c \in table' /\ c <= cur
            \/ /\ pc' = "send" /\ table' = table
               /\ cur' \in Client /\ cur' > cur
               /\ \A c \in table : c > cur => c >= cur'
<1>1. PICK lost \in {failed, failed \cup {cur}} :
        Advance(lost) /\ \A c \in lost : ~alive[c]
  BY DEF Send, SendFails, Registered
<1>2. pc = "send" /\ UNCHANGED <<alive, log, feed>>
  BY DEF Send, SendFails, redisVars
<1>3. lost \in SUBSET Client /\ cur \in Client /\ table \subseteq Client
  BY <1>1, <1>2 DEF TypeOK
<1>4. CASE Raises
  BY <1>2, <1>4 DEF Raises
<1>5. CASE Completes(lost) /\ \A c \in table : c <= cur
  BY <1>1, <1>2, <1>5 DEF Completes
<1>6. CASE /\ Continues({c \in table : c > cur}, lost)
           /\ cur' \in table /\ cur' > cur
           /\ \A c \in table : c > cur => c >= cur'
  BY <1>2, <1>3, <1>6 DEF Continues
<1> QED
  BY <1>1, <1>2, <1>3, <1>4, <1>5, <1>6, Iteration

\* Only the listener moves the listener, and takes what is in the feed.
LEMMA OthersKeepListener ==
  ASSUME TypeOK, [Next]_vars, ~Listener
  PROVE  /\ UNCHANGED <<pc, cur, log>>
         /\ feed # <<>> /\ feed' # <<>> => Head(feed') = Head(feed)
<1>1. CASE Posts
  <2>1. sent + 1 \in Sending
    BY <1>1, PostsTransmit
  <2>2. feed' = Append(feed, sent + 1) \/ feed' = feed
    BY <1>1, PostsTransmit
  <2>3. feed # <<>> => Head(feed') = Head(feed)
    <3>1. CASE feed # <<>> /\ feed' = Append(feed, sent + 1)
      <4>1. Len(feed) > 0 /\ feed'[1] = feed[1] /\ feed' \in Seq(Sending)
        BY <2>1, <3>1, AppendProperties, LenProperties DEF TypeOK
      <4>2. Head(feed') = feed'[1] /\ Head(feed) = feed[1]
        BY <4>1 DEF TypeOK
      <4> QED
        BY <4>1, <4>2
    <3> QED
      BY <2>2, <3>1
  <2> QED
    BY <1>1, <2>3 DEF Posts, Publish, Resend, Transmit, listenerVars, sendVars
<1>2. CASE RedisFails
  <2>1. PICK k \in 0..Len(feed) : feed' = SubSeq(feed, 1, k)
    BY <1>2 DEF RedisFails
  <2>2. feed' \in Seq(Sending) /\ Len(feed') = k /\ \A i \in 1..k : feed'[i] = feed[i]
    BY <2>1, PrefixOfSendings DEF TypeOK
  <2>3. feed # <<>> /\ feed' # <<>> => Head(feed') = Head(feed)
    BY <2>2 DEF TypeOK
  <2> QED
    BY <1>2, <2>3 DEF RedisFails, listenerVars, sendVars
<1>3. CASE RedisReturns \/ Browser \/ UNCHANGED vars
  BY <1>3 DEF RedisReturns, Browser, Accept, Register, Leave, Disconnect,
              vars, redisVars, listenerVars, sendVars
<1> QED
  BY <1>1, <1>2, <1>3 DEF Next

\* The others take a connection out of the table only when its browser is gone.
LEMMA OthersKeepTable ==
  ASSUME TypeOK, [Next]_vars, ~Listener, NEW c \in table
  PROVE  c \in table' \/ ~alive'[c]
<1>1. CASE Posts \/ RedisFails \/ RedisReturns \/ UNCHANGED vars
  BY <1>1 DEF Posts, Publish, Resend, Transmit, RedisFails, RedisReturns, vars, clientVars
<1>2. ASSUME NEW d \in Client, Accept(d) \/ Register(d) \/ Leave(d) \/ Disconnect(d)
      PROVE  c \in table' \/ ~alive'[c]
  BY <1>2 DEF Accept, Register, Leave, Disconnect
<1> QED
  BY <1>1, <1>2 DEF Next, Browser

\* A broadcast ends, whatever joins, leaves and fails while it is under way:
\* it cannot go round the table for ever (WebSocketManager.broadcast).
BroadcastsEnd == pc = "send" ~> pc # "send"

At(k) == pc = "send" /\ cur = k
Past(k) == pc = "send" /\ cur > k
StageEnds(k) == At(k) ~> Past(k) \/ pc # "send"

Going == FairSpec /\ []ListenerCanGoOn

\* One stage of a broadcast ends.
LEMMA EveryStageEnds ==
  ASSUME NEW k \in 1..5
  PROVE  Going => StageEnds(k)
<1> DEFINE E == ENABLED <<Listener>>_vars
           R == pc # "send"
<1>1. Sound /\ At(k) /\ Listener => Past(k)' \/ R'
  <2> SUFFICES ASSUME Sound, At(k), Listener PROVE Past(k)' \/ R'
    OBVIOUS
  <2>1. Send \/ SendFails
    BY DEF At, Listener, Subscribe, SubscribeFails, ConnectionError, Receive
  <2> QED
    BY <2>1, SendAdvances DEF Sound, At, Past
<1>2. Sound /\ At(k) /\ [Next]_vars /\ ~Listener => At(k)'
  BY OthersKeepListener DEF Sound, At
<1>3. ListenerCanGoOn /\ At(k) => E
  BY DEF ListenerCanGoOn, At
<1>4. R <=> pc # "send"
  OBVIOUS
<1> HIDE DEF R
<1> QED
  BY <1>1, <1>2, <1>3, <1>4, SoundHolds, PTL DEF Going, FairSpec, Spec, StageEnds

\* Every broadcast ends, if a listener that sends has a step.
THEOREM BroadcastsTerminate == FairSpec /\ []ListenerCanGoOn => BroadcastsEnd
<1>1. Sound /\ pc = "send" => cur \in {1, 2, 3, 4, 5}
  <2> SUFFICES ASSUME Sound, pc = "send" PROVE cur \in {1, 2, 3, 4, 5}
    OBVIOUS
  <2>1. cur \in 1..MaxClients
    BY DEF Sound, TypeOK, Client
  <2> QED
    BY <2>1, StreamBoundsOK
<1>2. Sound /\ pc = "send" => At(1) \/ At(2) \/ At(3) \/ At(4) \/ At(5)
  BY <1>1 DEF At
<1>3. /\ Sound /\ Past(1) => At(2) \/ At(3) \/ At(4) \/ At(5)
      /\ Sound /\ Past(2) => At(3) \/ At(4) \/ At(5)
      /\ Sound /\ Past(3) => At(4) \/ At(5)
      /\ Sound /\ Past(4) => At(5)
      /\ Sound => ~Past(5)
  BY <1>1 DEF At, Past
<1>4. /\ Going => StageEnds(1) /\ StageEnds(2)
      /\ Going => StageEnds(3) /\ StageEnds(4)
      /\ Going => StageEnds(5)
  BY EveryStageEnds
<1> QED
  BY <1>2, <1>3, <1>4, SoundHolds, PTL DEF Going, FairSpec, StageEnds, BroadcastsEnd

\* What a connection in the table is owed next: the event at the head of the feed.
NextArrives ==
  \A c \in Client, e \in Sending :
    (c \in table /\ feed # <<>> /\ Head(feed) = e) ~> Arrived(c, e)

\* The event waits, or the broadcast is about it and has not come past c.
Owed(c, e) == c \in table /\ feed # <<>> /\ Head(feed) = e
OnItsWay(c, e) == /\ pc = "send" /\ c \in table /\ cur <= c
                  /\ log # <<>> /\ Newest(log) = e

\* It waits until the listener takes it, and is then on its way.
LEMMA OwedStep ==
  ASSUME NEW c \in Client, NEW e \in Sending, Sound, Sound', Owed(c, e), [Next]_vars
  PROVE  \/ Arrived(c, e)'
         \/ Owed(c, e)' /\ (pc = "listen" => ~Listener /\ pc' = "listen")
         \/ OnItsWay(c, e)'
<1> USE DEF Sound
<1>a. /\ feed \in Seq(Sending) /\ feed # <<>> /\ Head(feed) = e /\ c \in table
      /\ pc \in {"subscribe", "listen", "send", "ended"}
  BY DEF Owed, TypeOK
<1>1. CASE Receive
  <2>1. table' = table /\ table \in SUBSET Client /\ table # {} /\ log \in Seq(Sending)
    BY <1>1, <1>a DEF Receive, clientVars, TypeOK
  <2>2. pc' = "send" /\ cur' = Least(table) /\ log' = Append(log, e)
    BY <1>1, <1>a, <2>1 DEF Receive
  <2>3. log' # <<>> /\ Newest(log') = e
    BY <2>1, <2>2 DEF Newest
  <2>4. Least(table) <= c
    BY <1>a, <2>1, LeastIsFirst
  <2> QED
    BY <1>a, <2>1, <2>2, <2>3, <2>4 DEF OnItsWay
<1>2. CASE Send \/ SendFails
  <2>1. feed' = feed /\ alive' = alive /\ pc = "send"
        /\ (pc' = "ended" \/ (alive[c] => c \in table'))
    BY <1>2, <1>a, SendAdvances
  <2> QED
    BY <1>a, <2>1 DEF Owed, Arrived
<1>3. CASE Subscribe \/ SubscribeFails \/ ConnectionError
  <2>1. pc = "subscribe"
    BY <1>3, <1>a DEF Subscribe, SubscribeFails, ConnectionError
  <2> QED
    BY <1>a, <2>1 DEF Detached
<1>4. CASE ~Listener
  <2>1. UNCHANGED <<pc, log>> /\ (c \in table' \/ ~alive'[c])
        /\ (feed' # <<>> => Head(feed') = e)
    BY <1>4, <1>a, OthersKeepListener, OthersKeepTable
  <2>2. CASE feed' = <<>>
    <3>1. e \notin Members(log)
      <4>1. Len(feed) >= 1 /\ feed[1] = e
        BY <1>a
      <4>2. \A i \in 1..Len(log) : log[i] < e
        BY <4>1 DEF InOrder
      <4> QED
        BY <4>2, StreamBoundsOK DEF Members, Sending
    <3>2. Members(feed') = {}
      BY <2>2 DEF Members
    <3> QED
      BY <2>1, <3>1, <3>2 DEF Arrived, Members
  <2>3. CASE feed' # <<>>
    BY <1>4, <2>1, <2>3 DEF Owed, Arrived
  <2> QED
    BY <2>2, <2>3
<1> QED
  BY <1>1, <1>2, <1>3, <1>4 DEF Listener

\* On its way it stays, until it arrives.
LEMMA OnItsWayStep ==
  ASSUME NEW c \in Client, NEW e \in Sending, Sound, OnItsWay(c, e), [Next]_vars
  PROVE  OnItsWay(c, e)' \/ Arrived(c, e)'
<1> USE DEF Sound
<1>a. /\ pc = "send" /\ c \in table /\ cur <= c /\ log # <<>> /\ Newest(log) = e
      /\ cur \in Client /\ got \in [Client -> Seq(Sending)]
  BY DEF OnItsWay, TypeOK
<1>b. cur \in Int /\ c \in Int
  BY <1>a, StreamBoundsOK DEF Client
<1>1. CASE Send \/ SendFails
  <2>1. CASE cur = c /\ Send
    <3>1. got' = [got EXCEPT ![c] = Append(@, e)]
      BY <1>a, <2>1 DEF Send
    <3>2. got'[c] = Append(got[c], e) /\ got[c] \in Seq(Sending)
      BY <1>a, <3>1
    <3>3. Len(got'[c]) \in Nat /\ Len(got'[c]) >= 1 /\ got'[c][Len(got'[c])] = e
      BY <3>2, AppendProperties, LenProperties
    <3>4. e \in Members(got'[c])
      BY <3>3 DEF Members
    <3> QED
      BY <3>4 DEF Arrived
  <2>2. CASE cur = c /\ SendFails
    BY <1>1, <2>2, SendAdvances DEF SendFails, Arrived
  <2>3. CASE cur # c
    <3>1. c > cur
      BY <1>a, <1>b, <2>3
    <3> QED
      BY <1>1, <1>a, <1>b, <3>1, SendAdvances DEF OnItsWay, Arrived
  <2> QED
    BY <1>1, <2>1, <2>2, <2>3
<1>2. CASE ~Listener
  <2>1. UNCHANGED <<pc, cur, log>> /\ (c \in table' \/ ~alive'[c])
    BY <1>2, <1>a, OthersKeepListener, OthersKeepTable
  <2> QED
    BY <1>a, <2>1 DEF OnItsWay, Arrived
<1> QED
  BY <1>1, <1>2, <1>a DEF Listener, Subscribe, SubscribeFails, ConnectionError, Receive

\* The event at the head of the feed reaches every connection of the table whose
\* browser stays, unless the listener ends or the event is lost with Redis.
THEOREM TheNextEventArrives == FairSpec /\ []ListenerCanGoOn => NextArrives
<1> SUFFICES ASSUME NEW c \in Client, NEW e \in Sending
             PROVE  FairSpec /\ []ListenerCanGoOn => (Owed(c, e) ~> Arrived(c, e))
  BY DEF NextArrives, Owed
<1> DEFINE W == Owed(c, e)
           D == OnItsWay(c, e)
           G == Arrived(c, e)
           L == pc = "listen"
           Silent == pc # "send"
           E == ENABLED <<Listener>>_vars
<1>1. Sound /\ Sound' /\ W /\ L /\ [Next]_vars => G' \/ (W' /\ L') \/ D'
  BY OwedStep
<1>2. Sound /\ Sound' /\ W /\ L /\ Listener /\ [Next]_vars => G' \/ D'
  BY OwedStep
<1>3. Sound /\ Sound' /\ W /\ [Next]_vars => G' \/ W' \/ D'
  BY OwedStep
<1>4. Sound /\ D /\ [Next]_vars => D' \/ G'
  BY OnItsWayStep
<1>5. ListenerCanGoOn /\ W /\ L => E
  BY DEF ListenerCanGoOn, Owed
<1>6. Sound /\ W => L \/ ~Silent \/ G
  BY DEF Sound, TypeOK, Detached, Owed, Arrived
<1>7. D => ~Silent
  BY DEF OnItsWay
<1>8. (~Silent <=> pc = "send") /\ (Silent <=> pc # "send")
  OBVIOUS
<1> HIDE DEF W, D, G, L, Silent
<1>9. FairSpec /\ []ListenerCanGoOn => (W ~> G)
  BY <1>1, <1>2, <1>3, <1>4, <1>5, <1>6, <1>7, <1>8, SoundHolds, BroadcastsTerminate, PTL
     DEF FairSpec, Spec, BroadcastsEnd
<1> QED
  BY <1>9 DEF W, G
\* The events that the listener takes before e, and e itself.
Before(e) == {f \in Members(feed) : f <= e}

\* The sends that the broadcast under way has still to make, at most.
SendsLeft == IF pc = "send" THEN 6 - cur ELSE 0

\* As long as an event waits in the feed nothing comes in before it; each step of
\* the listener takes away one that is, or brings the broadcast under way nearer
\* to its end, or is the listener's last; and nobody else lengthens a broadcast.
Closer(e) ==
  /\ Before(e)' \subseteq Before(e)
  /\ SendsLeft \in Nat
  /\ IF Listener THEN pc' = "ended" \/ Before(e)' # Before(e) \/ SendsLeft' < SendsLeft
                 ELSE SendsLeft' = SendsLeft

FeedAdvances == [][\A e \in Members(feed) : e \in Members(feed)' => Closer(e)]_vars

\* What leaves the feed leaves it at the front, or goes with the connection.
LEMMA NothingComesBefore ==
  ASSUME Sound, [Next]_vars, NEW e \in Members(feed)
  PROVE  Before(e)' \subseteq Before(e)
<1>1. /\ feed \in Seq(Sending) /\ Len(feed) \in Nat /\ sent \in Int
      /\ \A i \in 1..Len(feed) : feed[i] \in Sending /\ feed[i] \in Int
      /\ e \in Int /\ e <= sent
  <2>1. feed \in Seq(Sending) /\ sent \in Int /\ \A f \in Sending : f \in Int
    BY StreamBoundsOK, LenProperties DEF Sound, TypeOK, Sending, sent
  <2>2. \A i \in 1..Len(feed) : feed[i] <= sent
    BY DEF Sound, InOrder
  <2> QED
    BY <2>1, <2>2, LenProperties, ElementOfSeq DEF Members
<1>2. CASE Posts
  <2>1. sent + 1 \in Sending
    BY <1>2, PostsTransmit DEF Sound
  <2>2. CASE feed' = Append(feed, sent + 1)
    <3>1. /\ Len(feed') = Len(feed) + 1 /\ feed'[Len(feed) + 1] = sent + 1
          /\ \A i \in 1..Len(feed) : feed'[i] = feed[i]
      BY <1>1, <2>1, <2>2, AppendProperties
    <3>2. \A i \in 1..Len(feed') : i \in 1..Len(feed) \/ i = Len(feed) + 1
      BY <1>1, <3>1
    <3>3. ~(sent + 1 <= e)
      BY <1>1
    <3> QED
      BY <3>1, <3>2, <3>3 DEF Before, Members
  <2>3. CASE feed' = feed
    BY <2>3 DEF Before, Members
  <2> QED
    BY <1>2, <2>2, <2>3, PostsTransmit DEF Sound
<1>3. CASE RedisFails
  <2>1. PICK k \in 0..Len(feed) : feed' = SubSeq(feed, 1, k)
    BY <1>3 DEF RedisFails
  <2>2. Len(feed') = k /\ \A i \in 1..k : feed'[i] = feed[i]
    BY <1>1, <2>1, PrefixOfSendings
  <2> QED
    BY <1>1, <2>1, <2>2 DEF Before, Members
<1>4. CASE Receive
  <2>1. feed # <<>> /\ feed' = Tail(feed)
    BY <1>4 DEF Receive
  <2>2. Len(feed') = Len(feed) - 1 /\ \A i \in 1..Len(feed') : feed'[i] = feed[i + 1]
    BY <1>1, <2>1, HeadTailProperties
  <2>3. \A i \in 1..Len(feed') : i + 1 \in 1..Len(feed)
    BY <1>1, <2>2
  <2> QED
    BY <2>2, <2>3 DEF Before, Members
<1>5. CASE \/ RedisReturns \/ Subscribe \/ SubscribeFails \/ ConnectionError
           \/ Send \/ SendFails \/ Browser \/ UNCHANGED vars
  <2>1. feed' = feed
    BY <1>5 DEF RedisReturns, Subscribe, SubscribeFails, ConnectionError, Send, SendFails, Browser,
                Accept, Register, Leave, Disconnect, vars, redisVars
  <2> QED
    BY <2>1 DEF Before, Members
<1> QED
  BY <1>2, <1>3, <1>4, <1>5 DEF Next, Listener

\* The measure of a waiting event goes down with each step of the listener but its
\* last, and up with none, for any number of events and lost connections.
THEOREM ListenerNearsEveryEvent == Spec => FeedAdvances
<1> DEFINE A == \A e \in Members(feed) : e \in Members(feed)' => Closer(e)
<1>1. ASSUME Sound, [Next]_vars
      PROVE  A
  <2> SUFFICES ASSUME NEW e \in Members(feed) PROVE Closer(e)
    OBVIOUS
  <2>1. Before(e)' \subseteq Before(e)
    BY <1>1, NothingComesBefore
  <2>2. SendsLeft \in Nat /\ (pc = "send" => cur \in 1..5)
    <3>1. pc = "send" => cur \in 1..MaxClients
      BY <1>1 DEF Sound, TypeOK, Client
    <3>2. pc = "send" => cur \in 1..5
      BY <3>1, StreamBoundsOK
    <3> QED
      BY <3>2 DEF SendsLeft
  <2>3. CASE Send \/ SendFails
    <3>1. /\ pc = "send"
          /\ \/ pc' = "ended" \/ pc' = "listen"
             \/ pc' = "send" /\ cur' \in Client /\ cur' > cur
      BY <1>1, <2>3, SendAdvances DEF Sound
    <3>2. cur' \in Client => cur' \in Int
      BY StreamBoundsOK DEF Client
    <3>3. pc' = "ended" \/ SendsLeft' < SendsLeft
      BY <2>2, <3>1, <3>2 DEF SendsLeft
    <3> QED
      BY <2>1, <2>2, <2>3, <3>3 DEF Closer, Listener
  <2>4. CASE Receive
    <3>1. /\ feed \in Seq(Sending) /\ feed # <<>> /\ feed' = Tail(feed)
          /\ \A i, j \in 1..Len(feed) : i < j => feed[i] < feed[j]
          /\ \A f \in Sending : f \in Int
      BY <1>1, <2>4, StreamBoundsOK DEF Receive, Sound, TypeOK, InOrder, Sending
    <3>2. /\ Len(feed) \in Nat /\ Len(feed) > 0 /\ Len(feed') = Len(feed) - 1
          /\ \A i \in 1..Len(feed') : feed'[i] = feed[i + 1]
          /\ \A i \in 1..Len(feed) : feed[i] \in Int
      BY <3>1, HeadTailProperties, LenProperties, EmptySeq, ElementOfSeq
    <3>3. feed[1] \in Before(e)
      <4>1. PICK j \in 1..Len(feed) : feed[j] = e
        BY DEF Members
      <4>2. feed[1] <= e
        BY <3>1, <3>2, <4>1
      <4> QED
        BY <3>2, <4>2 DEF Before, Members
    <3>4. feed[1] \notin Members(feed)'
      <4>1. \A i \in 1..Len(feed') : i + 1 \in 1..Len(feed) /\ 1 < i + 1 /\ 1 \in 1..Len(feed)
        BY <3>2
      <4>2. \A i \in 1..Len(feed') : feed[1] < feed'[i]
        BY <3>1, <3>2, <4>1
      <4>3. feed[1] \in Int /\ \A i \in 1..Len(feed') : feed'[i] \in Int
        BY <3>2, <4>1
      <4> QED
        BY <4>2, <4>3 DEF Members
    <3> QED
      BY <2>1, <2>2, <2>4, <3>3, <3>4 DEF Closer, Listener, Before
  <2>5. CASE Subscribe \/ SubscribeFails \/ ConnectionError
    <3>1. feed = <<>>
      BY <1>1, <2>5 DEF Sound, Detached, Subscribe, SubscribeFails, ConnectionError
    <3> QED
      BY <3>1 DEF Members
  <2>6. CASE ~Listener
    <3>1. SendsLeft' = SendsLeft
      BY <1>1, <2>6, OthersKeepListener DEF Sound, SendsLeft
    <3> QED
      BY <2>1, <2>2, <2>6, <3>1 DEF Closer
  <2> QED
    BY <2>3, <2>4, <2>5, <2>6 DEF Listener
<1>2. Sound /\ [Next]_vars => [A]_vars
  BY <1>1
<1> QED
  BY <1>2, SoundHolds, PTL DEF Spec, FeedAdvances

----------------------------------------------------------------------------
(* What the feed is worth.                                                 *)

\* What a connection has heard is a stretch of the log.
Stretch(h, l) ==
  \E lo \in Nat : /\ lo + Len(h) <= Len(l)
                  /\ \A i \in 1..Len(h) : h[i] = l[lo + i]

Sorted(l) == \A i, j \in 1..Len(l) : i < j => l[i] < l[j]

NoGaps == Sorted(log) /\ \A c \in Client : Stretch(got[c], log)

\* No three sendings are of one event.
TwiceAtMost ==
  \A i, j, k \in 1..Len(carries) :
    i < j /\ j < k => ~(carries[i] = carries[j] /\ carries[j] = carries[k])

\* What is sent behind a later event has been sent before it too.
FirstInOrder ==
  \A i, j \in 1..Len(carries) :
    i < j /\ carries[j] < carries[i] => \E k \in 1..Len(carries) : k < i /\ carries[k] = carries[j]

\* A connection hears no event three times.
HeardTwiceAtMost ==
  \A c \in Client : \A i, j, k \in 1..Len(got[c]) :
    i < j /\ j < k => ~(carries[got[c][i]] = carries[got[c][j]] /\ carries[got[c][j]] = carries[got[c][k]])

FeedTypes ==
  /\ carries \in Seq(Event)
  /\ log \in Seq(Sending) /\ got \in [Client -> Seq(Sending)]
  /\ \A i \in 1..Len(log) : log[i] <= Len(carries)

FeedInv == FeedTypes /\ NoGaps /\ TwiceAtMost /\ FirstInOrder

\* A log that grows keeps its stretches.
LEMMA StretchGrows ==
  ASSUME NEW l \in Seq(Sending), NEW h \in Seq(Sending), NEW e \in Sending, Stretch(h, l)
  PROVE  Stretch(h, Append(l, e))
<1>1. PICK lo \in Nat : lo + Len(h) <= Len(l) /\ \A i \in 1..Len(h) : h[i] = l[lo + i]
  BY DEF Stretch
<1>2. /\ Len(l) \in Nat /\ Len(h) \in Nat /\ Len(Append(l, e)) = Len(l) + 1
      /\ \A i \in 1..Len(l) : Append(l, e)[i] = l[i]
  BY AppendProperties, LenProperties
<1>3. \A i \in 1..Len(h) : lo + i \in 1..Len(l)
  BY <1>1, <1>2
<1>4. lo + Len(h) <= Len(Append(l, e)) /\ \A i \in 1..Len(h) : h[i] = Append(l, e)[lo + i]
  BY <1>1, <1>2, <1>3
<1> QED
  BY <1>4 DEF Stretch

\* A stretch that ends just before the newest event is extended by it.
LEMMA StretchExtends ==
  ASSUME NEW l \in Seq(Sending), NEW h \in Seq(Sending), Sorted(l), Stretch(h, l), l # <<>>,
         h # <<>> => Len(l) > 1 /\ Newest(h) = l[Len(l) - 1]
  PROVE  Stretch(Append(h, Newest(l)), l)
<1>1. PICK lo \in Nat : lo + Len(h) <= Len(l) /\ \A i \in 1..Len(h) : h[i] = l[lo + i]
  BY DEF Stretch
<1>2. /\ Len(l) \in Nat /\ Len(l) > 0 /\ Len(h) \in Nat
      /\ Newest(l) = l[Len(l)] /\ l[Len(l)] \in Sending
      /\ \A i \in 1..Len(l) : l[i] \in Int
  <2>1. Len(l) \in Nat /\ Len(l) > 0 /\ Len(h) \in Nat
    BY LenProperties, EmptySeq
  <2>2. \A i \in 1..Len(l) : l[i] \in Sending
    BY ElementOfSeq
  <2>3. \A e \in Sending : e \in Int
    BY StreamBoundsOK DEF Sending
  <2> QED
    BY <2>1, <2>2, <2>3 DEF Newest
<1>3. /\ Append(h, Newest(l)) \in Seq(Sending)
      /\ Len(Append(h, Newest(l))) = Len(h) + 1
      /\ \A i \in 1..Len(h) : Append(h, Newest(l))[i] = h[i]
      /\ Append(h, Newest(l))[Len(h) + 1] = l[Len(l)]
  BY <1>2, AppendProperties
<1>4. \A i \in 1..(Len(h) + 1) : i \in 1..Len(h) \/ i = Len(h) + 1
  BY <1>2
<1>5. CASE h = <<>>
  <2>1. Len(h) = 0 /\ Len(l) - 1 \in Nat
    BY <1>2, <1>5
  <2>2. /\ (Len(l) - 1) + (Len(h) + 1) <= Len(l)
        /\ \A i \in 1..(Len(h) + 1) : Append(h, Newest(l))[i] = l[(Len(l) - 1) + i]
    BY <1>2, <1>3, <2>1
  <2> QED
    BY <1>3, <2>1, <2>2 DEF Stretch
<1>6. CASE h # <<>>
  <2>1. Len(h) > 0 /\ Newest(h) = l[lo + Len(h)]
    BY <1>1, <1>2, <1>6, EmptySeq DEF Newest
  <2>2. lo + Len(h) \in 1..Len(l) /\ Len(l) - 1 \in 1..Len(l)
    BY <1>1, <1>2, <1>6, <2>1
  <2>3. lo + Len(h) = Len(l) - 1
    <3>1. l[lo + Len(h)] = l[Len(l) - 1]
      BY <1>6, <2>1
    <3>2. ~(lo + Len(h) < Len(l) - 1) /\ ~(Len(l) - 1 < lo + Len(h))
      BY <1>2, <2>2, <3>1 DEF Sorted
    <3> QED
      BY <1>2, <2>2, <3>2
  <2>4. /\ lo + (Len(h) + 1) <= Len(l)
        /\ \A i \in 1..(Len(h) + 1) : Append(h, Newest(l))[i] = l[lo + i]
    <3>1. lo + (Len(h) + 1) = Len(l)
      BY <1>2, <2>3
    <3>2. \A i \in 1..Len(h) : Append(h, Newest(l))[i] = l[lo + i]
      BY <1>1, <1>3
    <3>3. Append(h, Newest(l))[Len(h) + 1] = l[lo + (Len(h) + 1)]
      BY <1>3, <3>1
    <3>4. \A i \in 1..(Len(h) + 1) : Append(h, Newest(l))[i] = l[lo + i]
      BY <1>4, <3>2, <3>3, Zenon
    <3>5. lo + (Len(h) + 1) <= Len(l)
      BY <1>2, <3>1
    <3> QED
      BY <3>4, <3>5, Zenon
  <2> QED
    BY <1>3, <2>4 DEF Stretch
<1> QED
  BY <1>5, <1>6

\* One more sending, of a new event or of one that was sent once.
LEMMA SendingsKeep ==
  ASSUME NEW e \in Event, FeedInv, Feed!Publish(e) \/ Feed!Resend(e)
  PROVE  FeedInv'
<1> DEFINE n == Len(carries)
<1>1. /\ n \in Nat /\ Len(carries') = n + 1 /\ carries' \in Seq(Event)
      /\ \A i \in 1..n : carries'[i] = carries[i] /\ carries[i] \in Int
      /\ carries'[n + 1] = e /\ e \in Int
      /\ UNCHANGED <<log, got>>
  <2>1. carries' = Append(carries, e) /\ carries \in Seq(Event) /\ UNCHANGED <<log, got>>
    BY DEF Feed!Publish, Feed!Resend, FeedInv, FeedTypes
  <2>2. \A d \in Event : d \in Int
    BY StreamBoundsOK DEF Event
  <2>3. \A i \in 1..n : carries[i] \in Event
    BY <2>1, ElementOfSeq
  <2> QED
    BY <2>1, <2>2, <2>3, AppendProperties, LenProperties
<1>2. \A i \in 1..Len(carries') : i \in 1..n \/ i = n + 1
  BY <1>1
<1>3. FeedTypes' /\ NoGaps'
  <2>1. \A i \in 1..Len(log') : log'[i] <= Len(carries')
    <3>1. log' = log /\ \A i \in 1..Len(log) : log[i] \in Sending /\ log[i] <= n
      BY <1>1, ElementOfSeq DEF FeedInv, FeedTypes
    <3>2. \A m \in Sending : m \in Int
      BY StreamBoundsOK DEF Sending
    <3> QED
      BY <1>1, <3>1, <3>2
  <2> QED
    BY <1>1, <2>1 DEF FeedInv, FeedTypes, NoGaps
<1>4. ~\E i, j \in 1..n : i # j /\ carries[i] = e /\ carries[j] = e
  <2>1. CASE Feed!Publish(e)
    <3>1. \A i \in 1..n : carries[i] < e
      BY <2>1 DEF Feed!Publish, Feed!Sent
    <3> QED
      BY <1>1, <3>1
  <2>2. CASE Feed!Resend(e)
    BY <2>2 DEF Feed!Resend
  <2> QED
    BY <2>1, <2>2
<1>5. TwiceAtMost'
  <2> SUFFICES ASSUME NEW i \in 1..Len(carries'), NEW j \in 1..Len(carries'), NEW k \in 1..Len(carries'),
                      i < j, j < k
               PROVE  ~(carries'[i] = carries'[j] /\ carries'[j] = carries'[k])
    BY DEF TwiceAtMost
  <2>1. i \in 1..n /\ j \in 1..n
    BY <1>1
  <2>2. CASE k \in 1..n
    BY <1>1, <2>1, <2>2 DEF FeedInv, TwiceAtMost
  <2>3. CASE k = n + 1
    BY <1>1, <1>4, <2>1, <2>3
  <2> QED
    BY <1>2, <2>2, <2>3
<1>6. FirstInOrder'
  <2> SUFFICES ASSUME NEW i \in 1..Len(carries'), NEW j \in 1..Len(carries'),
                      i < j, carries'[j] < carries'[i]
               PROVE  \E k \in 1..Len(carries') : k < i /\ carries'[k] = carries'[j]
    BY DEF FirstInOrder
  <2>1. i \in 1..n /\ 1..n \subseteq 1..Len(carries')
    BY <1>1
  <2>2. CASE j \in 1..n
    <3>1. PICK k \in 1..n : k < i /\ carries[k] = carries[j]
      BY <1>1, <2>1, <2>2 DEF FeedInv, FirstInOrder
    <3> QED
      BY <1>1, <2>1, <2>2, <3>1
  <2>3. CASE j = n + 1
    <3>1. e < carries[i]
      BY <1>1, <2>1, <2>3
    <3>2. PICK k \in 1..n : carries[k] = e
      <4>1. ~Feed!Publish(e)
        <5>1. Feed!Publish(e) => \A m \in 1..n : carries[m] < e
          BY DEF Feed!Publish, Feed!Sent
        <5> QED
          BY <1>1, <2>1, <3>1, <5>1
      <4> QED
        BY <4>1 DEF Feed!Resend, Feed!Sent
    <3>3. CASE k < i
      BY <1>1, <2>1, <2>3, <3>2, <3>3
    <3>4. CASE i < k
      <4>1. PICK m \in 1..n : m < i /\ carries[m] = carries[k]
        BY <2>1, <3>1, <3>2, <3>4 DEF FeedInv, FirstInOrder
      <4> QED
        BY <1>1, <2>1, <2>3, <3>2, <4>1
    <3>5. k # i
      BY <1>1, <2>1, <3>1, <3>2
    <3> QED
      BY <1>1, <2>1, <3>3, <3>4, <3>5
  <2> QED
    BY <1>2, <2>2, <2>3
<1> QED
  BY <1>3, <1>5, <1>6 DEF FeedInv

LEMMA FeedKeeps == FeedInv /\ [Feed!Next]_<<carries, log, got>> => FeedInv'
<1> SUFFICES ASSUME FeedInv, [Feed!Next]_<<carries, log, got>>
             PROVE  FeedInv'
  OBVIOUS
<1> USE DEF FeedInv
<1>1. ASSUME NEW e \in Sending, Feed!Relay(e)
      PROVE  FeedInv'
  <2>1. /\ log' = Append(log, e) /\ got' = got /\ carries' = carries
        /\ e <= Len(carries) /\ \A i \in 1..Len(log) : log[i] < e
    BY <1>1 DEF Feed!Relay
  <2>2. /\ Len(log) \in Nat /\ Len(log') = Len(log) + 1 /\ log' \in Seq(Sending)
        /\ \A i \in 1..Len(log) : log'[i] = log[i]
        /\ log'[Len(log) + 1] = e
    BY <2>1, AppendProperties, LenProperties DEF FeedTypes
  <2>3. \A i \in 1..Len(log') : i \in 1..Len(log) \/ i = Len(log) + 1
    BY <2>2
  <2>4. Sorted(log')
    BY <2>1, <2>2, <2>3 DEF NoGaps, Sorted
  <2>5. \A c \in Client : Stretch(got'[c], log')
    BY <2>1, StretchGrows DEF FeedTypes, NoGaps
  <2>6. \A i \in 1..Len(log') : log'[i] <= Len(carries')
    BY <2>1, <2>2, <2>3 DEF FeedTypes
  <2>7. TwiceAtMost' /\ FirstInOrder'
    BY <2>1 DEF TwiceAtMost, FirstInOrder
  <2> QED
    BY <2>1, <2>2, <2>4, <2>5, <2>6, <2>7 DEF FeedTypes, NoGaps
<1>2. ASSUME NEW d \in Client, Feed!Hear(d)
      PROVE  FeedInv'
  <2>1. /\ log # <<>> /\ log' = log /\ carries' = carries
        /\ got' = [got EXCEPT ![d] = Append(@, Newest(log))]
        /\ got[d] # <<>> => Len(log) > 1 /\ Newest(got[d]) = log[Len(log) - 1]
    BY <1>2 DEF Feed!Hear, Feed!Newest, Newest
  <2>2. Newest(log) \in Sending
    BY <2>1 DEF FeedTypes, Newest
  <2>3. Append(got[d], Newest(log)) \in Seq(Sending)
    BY <2>2 DEF FeedTypes
  <2>4. got' \in [Client -> Seq(Sending)] /\ got'[d] = Append(got[d], Newest(log))
        /\ \A c \in Client \ {d} : got'[c] = got[c]
    BY <2>1, <2>3 DEF FeedTypes
  <2>5. Stretch(Append(got[d], Newest(log)), log)
    BY <2>1, StretchExtends DEF FeedTypes, NoGaps
  <2>6. \A c \in Client : Stretch(got'[c], log')
    BY <2>1, <2>4, <2>5 DEF NoGaps
  <2> QED
    BY <2>1, <2>4, <2>6 DEF FeedTypes, NoGaps, TwiceAtMost, FirstInOrder
<1>3. ASSUME NEW e \in Event, Feed!Publish(e) \/ Feed!Resend(e)
      PROVE  FeedInv'
  BY <1>3, SendingsKeep
<1>4. CASE UNCHANGED <<carries, log, got>>
  BY <1>4 DEF FeedTypes, NoGaps, TwiceAtMost, FirstInOrder
<1> QED
  BY <1>1, <1>2, <1>3, <1>4 DEF Feed!Next

\* Sendings of one event that a connection has heard are sendings of one event.
LEMMA HearingMeans == FeedInv => HeardTwiceAtMost
<1> SUFFICES ASSUME FeedInv, NEW c \in Client,
                    NEW i \in 1..Len(got[c]), NEW j \in 1..Len(got[c]), NEW k \in 1..Len(got[c]),
                    i < j, j < k
             PROVE  ~(carries[got[c][i]] = carries[got[c][j]] /\ carries[got[c][j]] = carries[got[c][k]])
  BY DEF HeardTwiceAtMost
<1>1. PICK lo \in Nat : lo + Len(got[c]) <= Len(log) /\ \A m \in 1..Len(got[c]) : got[c][m] = log[lo + m]
  BY DEF FeedInv, NoGaps, Stretch
<1>2. /\ Len(log) \in Nat /\ Len(got[c]) \in Nat /\ Len(carries) \in Nat
      /\ \A m \in 1..Len(log) : log[m] \in 1..Len(carries)
  <2>1. carries \in Seq(Event) /\ log \in Seq(Sending) /\ got[c] \in Seq(Sending)
    BY DEF FeedInv, FeedTypes
  <2>2. \A m \in 1..Len(log) : log[m] \in Sending /\ log[m] <= Len(carries)
    BY <2>1, ElementOfSeq DEF FeedInv, FeedTypes
  <2> QED
    BY <2>1, <2>2, LenProperties, StreamBoundsOK DEF Sending
<1>3. /\ lo + i \in 1..Len(log) /\ lo + j \in 1..Len(log) /\ lo + k \in 1..Len(log)
      /\ lo + i < lo + j /\ lo + j < lo + k
  BY <1>1, <1>2
<1>4. log[lo + i] < log[lo + j] /\ log[lo + j] < log[lo + k]
  BY <1>3 DEF FeedInv, NoGaps, Sorted
<1>5. /\ log[lo + i] \in 1..Len(carries) /\ log[lo + j] \in 1..Len(carries)
      /\ log[lo + k] \in 1..Len(carries)
  BY <1>2, <1>3
<1>6. ~(carries[log[lo + i]] = carries[log[lo + j]] /\ carries[log[lo + j]] = carries[log[lo + k]])
  BY <1>4, <1>5 DEF FeedInv, TwiceAtMost
<1> QED
  BY <1>1, <1>6

\* Whatever implements the feed: the sendings are relayed in their order, and a
\* connection hears a stretch of them with none missing and none repeated.  As
\* an event is sent twice at most nobody hears one three times; and where an event
\* comes behind a later one, it has been sent before it too.
THEOREM FeedMeans == ImplementsFeed => [](NoGaps /\ HeardTwiceAtMost /\ FirstInOrder)
<1>1. Feed!Init => FeedInv
  <2> SUFFICES ASSUME Feed!Init PROVE FeedInv
    OBVIOUS
  <2>1. log = <<>> /\ got = [c \in Client |-> <<>>] /\ carries = <<>>
    BY DEF Feed!Init
  <2>2. Sorted(log) /\ TwiceAtMost /\ FirstInOrder
    BY <2>1 DEF Sorted, TwiceAtMost, FirstInOrder
  <2>3. \A c \in Client : Stretch(got[c], log)
    <3>1. \A c \in Client : Len(got[c]) = 0 /\ Len(log) = 0
      BY <2>1
    <3>2. 0 \in Nat /\ 0 + 0 <= 0 /\ 1..0 = {}
      OBVIOUS
    <3> QED
      BY <3>1, <3>2 DEF Stretch
  <2> QED
    BY <2>1, <2>2, <2>3 DEF FeedInv, FeedTypes, NoGaps
<1>2. FeedInv => NoGaps /\ FirstInOrder
  BY DEF FeedInv
<1> QED
  BY <1>1, <1>2, FeedKeeps, HearingMeans, PTL DEF ImplementsFeed, Feed!Spec
=============================================================================
