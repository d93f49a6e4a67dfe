--------------------------- MODULE ActionContract ---------------------------
(***************************************************************************)
(* What the approval gate promises of an action, without consumer, queue   *)
(* or requests: an action is either below the limit, and free to run, or   *)
(* it awaits a verdict that is given once; and its effect happens at most  *)
(* once, only while it is free or authorised.                              *)
(***************************************************************************)
EXTENDS Naturals

CONSTANT Action

VARIABLES verdict, effects

Verdict == {"absent", "automatic", "awaiting", "authorised", "refused"}

ContractTypeOK ==
  /\ verdict \in [Action -> Verdict]
  /\ effects \in [Action -> Nat]

ContractInit ==
  /\ verdict = [a \in Action |-> "absent"]
  /\ effects = [a \in Action |-> 0]

Decide(a, from, to) ==
  /\ verdict[a] = from
  /\ verdict' = [verdict EXCEPT ![a] = to]
  /\ UNCHANGED effects

\* The gate is applied when the action is created, the human's verdict later.
Propose(a) == \E v \in {"automatic", "awaiting"} : Decide(a, "absent", v)
Authorise(a) == Decide(a, "awaiting", "authorised")
Refuse(a) == Decide(a, "awaiting", "refused")

Perform(a) ==
  /\ verdict[a] \in {"automatic", "authorised"}
  /\ effects[a] = 0
  /\ effects' = [effects EXCEPT ![a] = 1]
  /\ UNCHANGED verdict

ContractNext ==
  \E a \in Action : Propose(a) \/ Authorise(a) \/ Refuse(a) \/ Perform(a)

Contract == ContractInit /\ [][ContractNext]_<<verdict, effects>>
=============================================================================
