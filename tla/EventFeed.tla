----------------------------- MODULE EventFeed -----------------------------
(* What the push channel promises a dashboard: the events are sent in the  *)
(* order they are published, each once or, when no reply came in time,     *)
(* twice; what is relayed is one log in the order of sending; and every    *)
(* connection hears a part of that log without gaps, as it is relayed.     *)
(*                                                                         *)
(* A sending is named by its number, so that two of one event differ.      *)
EXTENDS Integers, Sequences

CONSTANTS Client, Event, Sending

VARIABLES carries, \* the event of each sending, in the order they were made
          log,     \* the sendings relayed
          heard    \* what each connection has received

Newest(s) == s[Len(s)]
Sent == {carries[i] : i \in 1..Len(carries)}

Init ==
  /\ carries = <<>>
  /\ log = <<>>
  /\ heard = [c \in Client |-> <<>>]

\* The event of the sending is later than all that were sent before.
Publish(e) ==
  /\ \A d \in Sent : d < e
  /\ carries' = Append(carries, e)
  /\ UNCHANGED <<log, heard>>

\* An event is sent once more, at any time after.
Resend(e) ==
  /\ e \in Sent
  /\ ~\E i, j \in 1..Len(carries) : i # j /\ carries[i] = e /\ carries[j] = e
  /\ carries' = Append(carries, e)
  /\ UNCHANGED <<log, heard>>

\* A sending is relayed after all that were made before it, or never.
Relay(n) ==
  /\ n <= Len(carries)
  /\ \A i \in 1..Len(log) : log[i] < n
  /\ log' = Append(log, n)
  /\ UNCHANGED <<carries, heard>>

\* A connection hears the newest sending, having heard the one before, if any.
Hear(c) ==
  /\ log # <<>>
  /\ heard[c] # <<>> =>
       Len(log) > 1 /\ Newest(heard[c]) = log[Len(log) - 1]
  /\ heard' = [heard EXCEPT ![c] = Append(@, Newest(log))]
  /\ UNCHANGED <<carries, log>>

Next ==
  \/ \E e \in Event : Publish(e) \/ Resend(e)
  \/ \E n \in Sending : Relay(n)
  \/ \E c \in Client : Hear(c)

Spec == Init /\ [][Next]_<<carries, log, heard>>
=============================================================================
