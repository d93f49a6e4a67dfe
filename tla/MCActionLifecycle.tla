------------------------- MODULE MCActionLifecycle -------------------------
(* Small instances of ActionLifecycle for TLC.                             *)
EXTENDS ActionLifecycle, TLC

CONSTANTS i1, i2, i3, l1, t1

\* One duplicate pair, and three copies of an invoice: the last duplicates both
\* others.
OnePair == {<<i1, i2>>}
ThreeCopies == {<<i1, i3>>, <<i2, i3>>}

\* Every finding of the instances is worth 2, over a limit of 1, except those on
\* licences and prices.
MCAmount ==
  [f \in Finding |-> IF f[1] \in {"unused_subscription", "pricing_anomaly"} THEN 1 ELSE 2]

\* The finding that goes to the model.
DuplicateI2 == {Duplicate(i2)}

RowSymmetry == Permutations(Action) \cup Permutations(Anomaly) \cup Permutations(Request)
============================================================================
