------------------------------- MODULE MCApply -------------------------------
EXTENDS Apply

All == {Nodes}

Count(n) == [value |-> n, percent |-> FALSE]
Percent(n) == [value |-> n, percent |-> TRUE]

(* A cluster that is up, with an older config. *)
Up == [health |-> [i \in Nodes |-> "ready"],
       cfg |-> [i \in Nodes |-> "other"],
       member |-> [i \in Nodes |-> IF i \in ControlPlane THEN 1 ELSE 0]]

(* New machines, all in maintenance. *)
Fresh == [health |-> [i \in Nodes |-> "maintenance"],
          cfg |-> [i \in Nodes |-> "other"],
          member |-> [i \in Nodes |-> 0]]
FreshOnly == {Fresh}

(* A cluster that is up, some of whose machines have the desired config,   *)
(* and one whose last worker is in another condition.                      *)
Mixed ==
  {[Up EXCEPT !.cfg = [i \in Nodes |-> IF i \in d THEN "desired" ELSE "other"]] :
     d \in {{}, {1}, {N}, Nodes}}
  \cup {[Up EXCEPT !.health[N] = h] : h \in {"maintenance", "rebooting", "starting"}}

(* The cluster is up, and a control-plane machine that is to join it is    *)
(* new.                                                                    *)
Growing == {[Up EXCEPT !.health[NumCP] = "maintenance", !.member[NumCP] = 0]}
NewOnly == {{NumCP}}

UpOnly == {Up}

(* One worker at a time, and three of four nodes; each other flag.         *)
Every ==
  {NoOptions,
   [NoOptions EXCEPT !.maxParallel = Percent(60)],
   [NoOptions EXCEPT !.confirm = TRUE],
   [NoOptions EXCEPT !.dryRun = TRUE, !.autoBootstrap = TRUE],
   [NoOptions EXCEPT !.allowNotReady = TRUE],
   [NoOptions EXCEPT !.skipProblematic = TRUE],
   [NoOptions EXCEPT !.skipPost = TRUE]}
Filters == {{}, {N}, Nodes}

Bootstrapping == [NoOptions EXCEPT !.autoBootstrap = TRUE, !.maxParallel = Percent(100)]
BringingUp == {Bootstrapping, [Bootstrapping EXCEPT !.confirm = TRUE, !.maxParallel = Count(1)]}
Joining == {Bootstrapping}
Asking == {[NoOptions EXCEPT !.confirm = TRUE, !.maxParallel = Count(2)]}
=============================================================================
