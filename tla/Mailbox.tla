------------------------------ MODULE Mailbox ------------------------------
(***************************************************************************)
(* What the task queue promises those who publish: a box into which each   *)
(* letter is put once or, when no reply came in time, twice; that holds a  *)
(* bounded number of copies and gives them out oldest first, each at most  *)
(* once.  A copy may be lost, in the box or in the hand that took it; from *)
(* the box only the oldest is ever lost, or all of them together.          *)
(***************************************************************************)
EXTENDS Naturals, FiniteSets

CONSTANTS Letters,  \* how many are ever sent
          Copies,   \* how many copies of them are ever put in
          Capacity  \* how many copies the box holds

VARIABLES put,      \* copies put in so far, numbered in this order
          carries,  \* the letter of each, 0 before it is put in
          waiting,  \* those in the box
          held,     \* the one taken and not yet used, 0 if none
          used      \* how often each was used

Oldest(box) == CHOOSE m \in box : \A n \in box : m <= n
CopiesOf(l) == {c \in 1..put : carries[c] = l}

Init ==
  /\ put = 0
  /\ carries = [c \in 1..Copies |-> 0]
  /\ waiting = {} /\ held = 0
  /\ used = [c \in 1..Copies |-> 0]

\* A copy always finds room: the oldest makes way for it.
Put(l) ==
  /\ put < Copies
  /\ put' = put + 1
  /\ carries' = [carries EXCEPT ![put'] = l]
  /\ LET box == waiting \cup {put'} IN
     waiting' = IF Cardinality(waiting) < Capacity THEN box ELSE box \ {Oldest(box)}
  /\ UNCHANGED <<held, used>>

\* The letter is later than all that were sent before.
Send(l) == (\A c \in 1..put : carries[c] < l) /\ Put(l)

\* The second copy of a letter, at any time after the first.
SendAgain(l) == (\E c \in 1..put : CopiesOf(l) = {c}) /\ Put(l)

Take ==
  /\ held = 0 /\ waiting # {}
  /\ held' = Oldest(waiting)
  /\ waiting' = waiting \ {held'}
  /\ UNCHANGED <<put, carries, used>>

Use ==
  /\ held # 0
  /\ used' = [used EXCEPT ![held] = @ + 1]
  /\ held' = 0
  /\ UNCHANGED <<put, carries, waiting>>

Drop ==
  /\ held # 0 /\ held' = 0
  /\ UNCHANGED <<put, carries, waiting, used>>

Lose ==
  /\ waiting # {}
  /\ waiting' \in {{}, waiting \ {Oldest(waiting)}}
  /\ UNCHANGED <<put, carries, held, used>>

Next == (\E l \in 1..Letters : Send(l) \/ SendAgain(l)) \/ Take \/ Use \/ Drop \/ Lose

Spec == Init /\ [][Next]_<<put, carries, waiting, held, used>>
=============================================================================
