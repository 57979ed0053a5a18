------------------------------ MODULE MCUpgrade ------------------------------
EXTENDS Upgrade

Count(n) == [value |-> n, percent |-> FALSE]
Percent(n) == [value |-> n, percent |-> TRUE]

(* One worker at a time, and two; each other flag, alone where it can be.   *)
Every ==
  {NoOptions,
   [NoOptions EXCEPT !.maxParallel = Percent(50)],
   [NoOptions EXCEPT !.dryRun = TRUE],
   [NoOptions EXCEPT !.confirm = TRUE],
   [NoOptions EXCEPT !.drain = FALSE],
   [NoOptions EXCEPT !.deleteIfEvictionFails = TRUE]}

Default == {NoOptions}

LastNode == {N}
=============================================================================
