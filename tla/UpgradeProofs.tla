---------------------------- MODULE UpgradeProofs ----------------------------
(***************************************************************************)
(* Proofs about `topf upgrade` for any number of control-plane nodes and   *)
(* workers, any options and any number of runs one after the other,        *)
(* whatever earlier runs left behind: the order of the upgrades and their  *)
(* number, the drain before a reboot, and what a nil result means.         *)
(***************************************************************************)
EXTENDS Upgrade, FiniteSetTheorems, TLAPS

-----------------------------------------------------------------------------
(* The bounds of --max-parallel *)

(* MaxParallel.Resolve is at least 1 for whatever the flag accepts, and    *)
(* never exceeds the number of nodes there are to process                  *)
(* (nodepool.go:53-55).                                                    *)
LEMMA ResolveBounds ==
  ASSUME NEW b \in MaxParallelFlag, ParseAccepts(b), NEW total \in Nat
  PROVE  /\ Resolve(b, total) \in Nat \ {0}
         /\ total > 0 => Resolve(b, total) <= total
  <1> DEFINE k == total * b.value
  <1>1. b.value \in Int /\ b.value > 0 /\ k \in Int
    BY DEF MaxParallelFlag, ParseAccepts
  <1>2. Ceil100(k) \in Int
    BY <1>1 DEF Ceil100
  <1> HIDE DEF k
  <1>3. \A n \in Int : /\ AtMost(AtLeastOne(n), total) \in Nat \ {0}
                       /\ total > 0 => AtMost(AtLeastOne(n), total) <= total
    BY DEF AtMost, AtLeastOne
  <1>4. (IF b.percent THEN Ceil100(k) ELSE b.value) \in Int
    BY <1>1, <1>2
  <1> QED
    BY <1>3, <1>4 DEF Resolve, k

(* RunConcurrent starts at least one goroutine when there is a node, never *)
(* more than there are nodes and never more than it was asked for.         *)
LEMMA PoolSizeBounds ==
  ASSUME NEW n \in Nat \ {0}, NEW len \in Nat
  PROVE  /\ PoolSize(n, len) \in 0 .. len
         /\ PoolSize(n, len) <= n
         /\ len > 0 => PoolSize(n, len) >= 1
  BY DEF PoolSize, AtMost, AtLeastOne

(* There is a goroutine for one more node as long as there is a node left  *)
(* and fewer are taken than were asked for.                                *)
LEMMA PoolSizeRoom ==
  ASSUME NEW n \in Nat \ {0}, NEW len \in Nat, NEW k \in Nat, k < n, k < len
  PROVE  k < PoolSize(n, len)
  BY DEF PoolSize, AtMost, AtLeastOne

-----------------------------------------------------------------------------
Places ==
  {"todo", "same", "declined", "required", "queued", "ok", "failed"} \cup Busy
Engaged == Busy \cup {"failed"}
Started == Engaged \cup {"ok"}
Lifecycle == {"prepare", "install", "clientset", "cordon", "evict", "delete",
              "reboot", "uncordon"}
Installed == {"clientset", "cordon", "evict", "delete", "reboot"}
Stabilizing == {"watch", "window"}

Types ==
  /\ health \in [Nodes -> {"ready", "unready", "down"}]
  /\ ver \in [Nodes -> {"old", "new"}] /\ disk \in [Nodes -> {"old", "new"}]
  /\ touched \subseteq Nodes
  /\ opts.maxParallel \in MaxParallelFlag /\ ParseAccepts(opts.maxParallel)
  /\ phase \in {"idle", "collect", "plan", "upgrade"}
  /\ info \in [Nodes -> [stage : {"ready", "unready", "down", "unknown", "error", "hung"},
                         ver : {"old", "new"}]]
  /\ pc \in [Nodes -> Places]

AllUp == \A j \in Nodes : info[j].stage \in {"ready", "unready"}

(* Who is upgraded: a node is on its way only if the pre-checks passed for *)
(* all of them, it runs another version and the operator agreed.           *)
AsPlanned(i) ==
  /\ phase = "collect" => pc[i] = "todo"
  /\ phase = "plan" => pc[i] \notin Started
  /\ phase = "plan" \/ pc[i] # "todo" => AllUp
  /\ pc[i] = "queued" \/ pc[i] \in Started =>
       info[i].ver = "old" /\ (opts.confirm => i \in yes)
  /\ i \in touched => pc[i] \in Started

(* Machines never lose a new version that they run.                        *)
Machine(i) ==
  /\ ver[i] = "new" => disk[i] = "new"
  /\ info[i].ver = "new" \/ pc[i] = "same" => ver[i] = "new"
  /\ i \in cordoned => i \notin Legacy

(* The way of one node: cordoned and drained before its reboot, the new    *)
(* version on its disk, and a reboot that topf still waits for until the   *)
(* machine runs it.                                                        *)
Way(i) ==
  /\ pc[i] = "legacy" => i \in Legacy
  /\ pc[i] \in Lifecycle => i \notin Legacy
  /\ pc[i] \in {"evict", "delete"} => i \in cordoned
  /\ pc[i] = "reboot" /\ opts.drain => i \in cordoned /\ i \notin pods
  /\ pc[i] \in Installed => i \in missed \/ disk[i] = "new"
  /\ pc[i] \in Stabilizing =>
       \/ i \in missed
       \/ /\ disk[i] = "new"
          /\ ver[i] = "new" \/ (i \in due /\ (i \in owed \/ health[i] = "down"))
  /\ pc[i] \in {"uncordon", "ok"} => i \notin due /\ (i \in missed \/ ver[i] = "new")
  /\ pc[i] = "ok" /\ opts.drain => i \notin cordoned

Nodewise == \A i \in Nodes : AsPlanned(i) /\ Machine(i) /\ Way(i)

(* The control plane is upgraded one node after the other, then the        *)
(* workers; nothing starts after a control-plane node that failed.         *)
InOrder ==
  \A i \in Nodes : pc[i] \in Started =>
    IF i \in ControlPlane THEN \A j \in 1 .. i - 1 : pc[j] \in Through
    ELSE \A j \in ControlPlane : pc[j] \in Through

BusyWorkers == {i \in Workers : pc[i] \in Engaged}
Limited == Cardinality(BusyWorkers) <= Resolve(opts.maxParallel, N)

Verdict ==
  phase = "idle" /\ result = "nil" /\ ~opts.dryRun => \A i \in Nodes : pc[i] \in Through

IInv == Types /\ Nodewise /\ InOrder /\ Limited /\ Verdict

LEMMA WorkersFinite ==
  /\ IsFiniteSet(BusyWorkers) /\ Cardinality(BusyWorkers) \in Nat
  /\ \A S \in SUBSET BusyWorkers : Cardinality(S) <= Cardinality(BusyWorkers)
  <1>1. NumCP \in Int /\ N \in Int
    BY UpgradeAssumption
  <1>2. IsFiniteSet(Workers)
    BY <1>1, FS_Interval DEF Workers
  <1>3. IsFiniteSet(BusyWorkers)
    BY <1>2, FS_Subset DEF BusyWorkers
  <1> QED
    BY <1>3, FS_CardinalityType, FS_Subset

LEMMA InitIInv == Init => IInv
  <1> SUFFICES ASSUME Init PROVE IInv
    OBVIOUS
  <1>1. Types
    BY DEF Init, Types, NoOptions, Unknown, Places, MaxParallelFlag, ParseAccepts
  <1>2. Nodewise
    BY DEF Init, Nodewise, AsPlanned, Machine, Way, Unknown, Started, Engaged, Busy,
           Lifecycle, Installed, Stabilizing
  <1>3. InOrder
    BY DEF Init, InOrder, Started, Engaged, Busy
  <1>4. Limited
    <2>1. BusyWorkers = {}
      BY UpgradeAssumption
         DEF Init, BusyWorkers, Workers, Nodes, Engaged, Busy
    <2>2. Resolve(opts.maxParallel, N) \in Nat
      BY <1>1, ResolveBounds, UpgradeAssumption DEF Types
    <2> QED
      BY <2>1, <2>2, FS_EmptySet DEF Limited
  <1>5. Verdict
    BY DEF Init, Verdict
  <1> QED
    BY <1>1, <1>2, <1>3, <1>4, <1>5 DEF IInv

-----------------------------------------------------------------------------
(* A step at node i, of the machine or of its upgrade, leaves the other    *)
(* machines and the other upgrades where they are.                         *)
Elsewhere(i) ==
  \A j \in Nodes \ {i} :
    /\ pc'[j] = pc[j] /\ health'[j] = health[j]
    /\ ver'[j] = ver[j] /\ disk'[j] = disk[j]
    /\ (j \in due' <=> j \in due) /\ (j \in owed' <=> j \in owed)
    /\ (j \in cordoned' <=> j \in cordoned) /\ (j \in pods' <=> j \in pods)
    /\ (j \in missed' <=> j \in missed)

LEMMA OthersKeep ==
  ASSUME Nodewise, NEW i \in Nodes, Elsewhere(i), opts' = opts, info' = info
  PROVE  \A j \in Nodes \ {i} : Machine(j)' /\ Way(j)'
  BY DEF Nodewise, Elsewhere, Machine, Way

MachineTypes ==
  /\ health \in [Nodes -> {"ready", "unready", "down"}]
  /\ ver \in [Nodes -> {"old", "new"}] /\ disk \in [Nodes -> {"old", "new"}]

(* What is left to show of a step of machine i. *)
LEMMA MachineKeeps ==
  ASSUME IInv, NEW i \in Nodes, UNCHANGED <<opts, phase, info, pc, result, runs, yes, touched>>,
         MachineTypes', Elsewhere(i), Machine(i)', Way(i)'
  PROVE  IInv'
  <1>1. Types'
    BY DEF IInv, Types, MachineTypes
  <1>2. Nodewise'
    <2>1. ASSUME NEW j \in Nodes PROVE AsPlanned(j)'
      BY DEF IInv, Nodewise, AsPlanned, AllUp
    <2>2. \A j \in Nodes : Machine(j)' /\ Way(j)'
      BY OthersKeep DEF IInv
    <2> QED
      BY <2>1, <2>2 DEF Nodewise
  <1>3. InOrder' /\ Limited' /\ Verdict'
    BY DEF IInv, InOrder, Limited, Verdict, BusyWorkers
  <1> QED
    BY <1>1, <1>2, <1>3 DEF IInv

LEMMA MachineStepIInv == IInv /\ MachineStep => IInv'
  <1> SUFFICES ASSUME IInv, MachineStep PROVE IInv'
    OBVIOUS
  <1>1. UNCHANGED <<opts, phase, info, pc, result, runs, yes, touched>>
    BY DEF MachineStep
  <1>2. \A i \in Nodes : Machine(i) /\ Way(i)
    BY DEF IInv, Nodewise
  <1>3. MachineTypes
    BY DEF IInv, Types, MachineTypes
  <1>4. ASSUME NEW i \in Nodes, Boot(i) PROVE IInv'
    <2>0. PICK v \in {disk[i], ver[i]} :
            /\ ver' = [ver EXCEPT ![i] = v] /\ disk' = [disk EXCEPT ![i] = v]
            /\ missed' = IF v = disk[i] THEN missed ELSE missed \cup {i}
      BY <1>4 DEF Boot
    <2>1. /\ health[i] = "down" /\ health' = [health EXCEPT ![i] = "unready"]
          /\ UNCHANGED <<due, owed, cordoned, pods, flaps>>
      BY <1>4 DEF Boot
    <2>2. MachineTypes' /\ Elsewhere(i)
      BY <1>1, <1>3, <2>0, <2>1 DEF MachineTypes, Elsewhere
    <2>3. Machine(i)'
      BY <1>1, <1>2, <1>3, <2>0, <2>1 DEF Machine, MachineTypes
    <2>4. /\ ver'[i] = v /\ disk'[i] = v
          /\ i \in missed => i \in missed'
          /\ i \in missed' \/ v = disk[i]
      BY <1>3, <2>0 DEF MachineTypes
    <2>5. Way(i)'
      BY <1>1, <1>2, <2>1, <2>4 DEF Way, Machine
    <2> QED
      BY <1>1, <2>2, <2>3, <2>5, MachineKeeps
  <1>5. ASSUME NEW i \in Nodes, GoDown(i), UNCHANGED missed PROVE IInv'
    <2>1. MachineTypes' /\ Elsewhere(i)
      BY <1>1, <1>3, <1>5 DEF MachineTypes, Elsewhere, GoDown
    <2>2. Machine(i)' /\ Way(i)'
      BY <1>1, <1>2, <1>3, <1>5 DEF Machine, Way, GoDown, MachineTypes
    <2> QED
      BY <1>1, <2>1, <2>2, MachineKeeps
  <1>6. ASSUME NEW i \in Nodes, BecomeReady(i), UNCHANGED missed PROVE IInv'
    <2>1. MachineTypes' /\ Elsewhere(i)
      BY <1>1, <1>3, <1>6 DEF MachineTypes, Elsewhere, BecomeReady
    <2>2. Machine(i)' /\ Way(i)'
      BY <1>1, <1>2, <1>3, <1>6 DEF Machine, Way, BecomeReady, MachineTypes
    <2> QED
      BY <1>1, <2>1, <2>2, MachineKeeps
  <1>7. ASSUME NEW i \in Nodes, Flap(i), UNCHANGED missed PROVE IInv'
    <2>1. MachineTypes' /\ Elsewhere(i)
      BY <1>1, <1>3, <1>7 DEF MachineTypes, Elsewhere, Flap
    <2>2. Machine(i)' /\ Way(i)'
      BY <1>1, <1>2, <1>3, <1>7 DEF Machine, Way, Flap, MachineTypes
    <2> QED
      BY <1>1, <2>1, <2>2, MachineKeeps
  <1>8. ASSUME NEW i \in Nodes, SchedulePods(i), UNCHANGED missed PROVE IInv'
    <2>1. MachineTypes' /\ Elsewhere(i)
      BY <1>1, <1>3, <1>8 DEF MachineTypes, Elsewhere, SchedulePods
    <2>2. Machine(i)' /\ Way(i)'
      BY <1>1, <1>2, <1>3, <1>8 DEF Machine, Way, SchedulePods, MachineTypes
    <2> QED
      BY <1>1, <2>1, <2>2, MachineKeeps
  <1> QED
    BY <1>4, <1>5, <1>6, <1>7, <1>8 DEF MachineStep

-----------------------------------------------------------------------------
(* Before the upgrades: the start of a run, the collection, the plan.      *)
LEMMA BeginIInv == IInv /\ Begin => IInv'
  <1> SUFFICES ASSUME IInv, Begin PROVE IInv'
    OBVIOUS
  <1>1. Types'
    BY UpgradeAssumption DEF IInv, Types, Begin, machines, Unknown, Places
  <1>2. Nodewise'
    BY DEF IInv, Begin, machines, Nodewise, AsPlanned, Machine, Way, Unknown, Started,
           Engaged, Busy, Lifecycle, Installed, Stabilizing
  <1>3. InOrder'
    BY DEF Begin, InOrder, Started, Engaged, Busy
  <1>4. Limited'
    <2>1. BusyWorkers' = {}
      BY UpgradeAssumption
         DEF Begin, BusyWorkers, Workers, Nodes, Engaged, Busy
    <2>2. Resolve(opts.maxParallel, N)' \in Nat
      BY <1>1, ResolveBounds, UpgradeAssumption DEF Types
    <2> QED
      BY <2>1, <2>2, FS_EmptySet DEF Limited
  <1>5. Verdict'
    BY DEF Begin, Verdict
  <1> QED
    BY <1>1, <1>2, <1>3, <1>4, <1>5 DEF IInv

LEMMA CollectIInv ==
  ASSUME IInv, NEW i \in Nodes, Collect(i)
  PROVE  IInv'
  <1>1. PICK seen \in {[stage |-> health[i], ver |-> ver[i]], NotRead("error"), NotRead("hung")} :
          info' = [info EXCEPT ![i] = seen]
    BY DEF Collect, Unanswered
  <1>2. /\ phase = "collect"
        /\ UNCHANGED <<machines, opts, phase, pc, result, runs, yes, touched, missed>>
    BY DEF Collect
  <1>3. Types'
    BY <1>1, <1>2 DEF IInv, Types, machines, NotRead
  <1>4. ASSUME NEW j \in Nodes PROVE AsPlanned(j)' /\ Machine(j)' /\ Way(j)'
    <2>1. pc[j] = "todo" /\ AsPlanned(j) /\ Machine(j) /\ Way(j)
      BY <1>2 DEF IInv, Nodewise, AsPlanned
    <2>2. info'[j].ver = "new" => ver[j] = "new"
      BY <1>1, <2>1 DEF IInv, Types, Machine, NotRead
    <2> QED
      BY <1>2, <2>1, <2>2
         DEF AsPlanned, Machine, Way, machines, Started, Engaged, Busy
  <1>5. InOrder' /\ Limited' /\ Verdict'
    BY <1>2 DEF IInv, InOrder, Limited, Verdict, BusyWorkers
  <1> QED
    BY <1>3, <1>4, <1>5 DEF IInv, Nodewise

(* The phase moves on and nothing else. *)
LEMMA PhaseMoves ==
  ASSUME IInv, UNCHANGED <<machines, opts, info, pc, runs, yes, touched, missed>>,
         phase' \in {"idle", "plan", "upgrade"},
         phase' = "plan" => AllUp /\ \A i \in Nodes : pc[i] \notin Started,
         Verdict'
  PROVE  IInv'
  <1>1. Types'
    BY DEF IInv, Types, machines
  <1>2. Nodewise'
    BY DEF IInv, Nodewise, AsPlanned, Machine, Way, machines, AllUp
  <1>3. InOrder' /\ Limited'
    BY DEF IInv, InOrder, Limited, BusyWorkers
  <1> QED
    BY <1>1, <1>2, <1>3 DEF IInv

LEMMA PreChecksIInv == IInv /\ PreChecks => IInv'
  <1> SUFFICES ASSUME IInv, PreChecks PROVE IInv'
    OBVIOUS
  <1>1. /\ phase = "collect"
        /\ UNCHANGED <<machines, opts, info, pc, runs, yes, touched, missed>>
        /\ phase' \in {"plan", "idle"}
        /\ phase' = "plan" => AllUp
        /\ phase' = "idle" => result' = "error"
    BY DEF PreChecks, Finish, AllUp
  <1>2. \A i \in Nodes : pc[i] \notin Started
    BY <1>1 DEF IInv, Nodewise, AsPlanned, Started, Engaged, Busy
  <1>3. Verdict'
    BY <1>1 DEF Verdict
  <1> QED
    BY <1>1, <1>2, <1>3, PhaseMoves

LEMMA PlanNodeIInv ==
  ASSUME IInv, NEW i \in Nodes, PlanNode(i)
  PROVE  IInv'
  <1>1. /\ phase = "plan" /\ pc[i] = "todo" /\ AllUp
        /\ UNCHANGED <<machines, opts, phase, info, result, runs, touched, missed>>
        /\ \A j \in Nodes : AsPlanned(j) /\ Machine(j) /\ Way(j) /\ pc[j] \notin Started
    BY DEF PlanNode, IInv, Nodewise, AsPlanned
  <1>2. PICK s \in {"same", "required", "queued", "declined"} :
          /\ pc' = [pc EXCEPT ![i] = s]
          /\ s = "same" => info[i].ver = "new"
          /\ s = "queued" => info[i].ver = "old" /\ (opts.confirm => i \in yes')
    BY DEF PlanNode
  <1>3. yes \subseteq yes'
    BY DEF PlanNode
  <1>4. s \notin Started /\ s \in Places
    BY DEF Started, Engaged, Busy, Places
  <1>5. /\ pc' \in [Nodes -> Places] /\ pc'[i] = s
        /\ \A j \in Nodes \ {i} : pc'[j] = pc[j]
    BY <1>2, <1>4 DEF IInv, Types
  <1>6. \A j \in Nodes : pc'[j] \notin Started
    BY <1>1, <1>4, <1>5
  <1>7. Types'
    BY <1>1, <1>5 DEF IInv, Types, machines
  <1>8. ASSUME NEW j \in Nodes PROVE AsPlanned(j)'
    BY <1>1, <1>2, <1>3, <1>5, <1>6 DEF AsPlanned, AllUp
  <1>9. ASSUME NEW j \in Nodes PROVE Machine(j)'
    BY <1>1, <1>2, <1>5 DEF Machine, machines
  <1>10. ASSUME NEW j \in Nodes PROVE Way(j)'
    BY <1>1, <1>5, <1>6
       DEF Way, machines, Started, Engaged, Busy,
           Lifecycle, Installed, Stabilizing
  <1>11. InOrder'
    BY <1>6 DEF InOrder
  <1>12. Limited'
    <2>1. BusyWorkers = {} /\ BusyWorkers' = {}
      BY <1>1, <1>6, UpgradeAssumption DEF BusyWorkers, Workers, Nodes, Started
    <2> QED
      BY <1>1, <2>1 DEF Limited, IInv
  <1>13. Verdict'
    BY <1>1 DEF Verdict
  <1> QED
    BY <1>7, <1>8, <1>9, <1>10, <1>11, <1>12, <1>13 DEF IInv, Nodewise

LEMMA PlannedIInv == IInv /\ Planned => IInv'
  <1> SUFFICES ASSUME IInv, Planned PROVE IInv'
    OBVIOUS
  <1>1. /\ UNCHANGED <<machines, opts, info, pc, runs, yes, touched, missed>>
        /\ phase' \in {"upgrade", "idle"}
        /\ phase' = "idle" => result' = "error" \/ opts.dryRun
    BY DEF Planned, Finish
  <1>2. Verdict'
    BY <1>1 DEF Verdict
  <1> QED
    BY <1>1, <1>2, PhaseMoves

LEMMA UpgradeReturnsIInv == IInv /\ UpgradeReturns => IInv'
  <1> SUFFICES ASSUME IInv, UpgradeReturns PROVE IInv'
    OBVIOUS
  <1>1. /\ UNCHANGED <<machines, opts, info, pc, runs, yes, touched, missed>>
        /\ phase' = "idle"
        /\ result' = "error" \/ \A i \in Nodes : pc[i] \in Through
    BY DEF UpgradeReturns, Finish
  <1>2. Verdict'
    BY <1>1 DEF Verdict
  <1> QED
    BY <1>1, <1>2, PhaseMoves

LEMMA InterruptIInv == IInv /\ Interrupt => IInv'
  <1> SUFFICES ASSUME IInv, Interrupt PROVE IInv'
    OBVIOUS
  <1>1. /\ UNCHANGED <<machines, opts, info, pc, runs, yes, touched, missed>>
        /\ phase' = "idle" /\ result' = "interrupted"
    BY DEF Interrupt, Finish
  <1>2. Verdict'
    BY <1>1 DEF Verdict
  <1> QED
    BY <1>1, <1>2, PhaseMoves

-----------------------------------------------------------------------------
(* The upgrade of a node that has begun goes on, fails or succeeds.        *)
Advances(i, s) ==
  /\ phase = "upgrade" /\ pc[i] \in Busy /\ s \in Started
  /\ Goto(i, s) /\ Program
  /\ touched' \subseteq touched \cup {i}

LEMMA NamesDiffer ==
  /\ Started \subseteq Places /\ Busy \subseteq Started /\ Engaged \subseteq Started
  /\ \A s \in Busy : s \notin Through /\ s # "todo" /\ s # "same"
  /\ \A s \in Started : s # "todo" /\ s # "same" /\ s # "queued"
  BY DEF Started, Engaged, Busy, Places, Through

LEMMA AdvanceMoves ==
  ASSUME IInv, NEW i \in Nodes, NEW s, Advances(i, s)
  PROVE  /\ pc' \in [Nodes -> Places] /\ pc'[i] = s
         /\ \A j \in Nodes \ {i} : pc'[j] = pc[j]
         /\ UNCHANGED <<opts, phase, info, result, runs, yes>>
  BY NamesDiffer DEF Advances, Goto, Program, IInv, Types

(* What is left to show of such a step. *)
LEMMA AdvanceKeeps ==
  ASSUME IInv, NEW i \in Nodes, NEW s, Advances(i, s),
         MachineTypes', Elsewhere(i), Machine(i)', Way(i)'
  PROVE  IInv'
  <1>1. /\ pc' \in [Nodes -> Places] /\ pc'[i] = s
        /\ \A j \in Nodes \ {i} : pc'[j] = pc[j]
        /\ UNCHANGED <<opts, phase, info, result, runs, yes>>
        /\ phase = "upgrade" /\ pc[i] \in Busy /\ s \in Started
        /\ touched' \subseteq touched \cup {i}
    BY AdvanceMoves DEF Advances
  <1>2. Types'
    BY <1>1 DEF IInv, Types, MachineTypes
  <1>3. ASSUME NEW j \in Nodes PROVE AsPlanned(j)'
    BY <1>1, NamesDiffer DEF IInv, Nodewise, AsPlanned, AllUp
  <1>4. Nodewise'
    BY <1>1, <1>3, OthersKeep DEF IInv, Nodewise
  <1>5. InOrder'
    <2>1. \A j \in Nodes : pc[j] \in Through => pc'[j] \in Through
      BY <1>1, NamesDiffer
    <2>2. \A j \in Nodes : pc'[j] \in Started => pc[j] \in Started
      BY <1>1, NamesDiffer
    <2>3. /\ ControlPlane \subseteq Nodes
          /\ \A k \in Nodes : 1 .. k - 1 \subseteq Nodes
      BY UpgradeAssumption DEF Nodes, ControlPlane
    <2> QED
      BY <2>1, <2>2, <2>3 DEF IInv, InOrder
  <1>6. Limited'
    <2>1. BusyWorkers' \subseteq BusyWorkers
      BY <1>1, UpgradeAssumption DEF BusyWorkers, Workers, Nodes, Engaged
    <2>2. Cardinality(BusyWorkers') <= Cardinality(BusyWorkers)
      BY <2>1, WorkersFinite
    <2>3. Cardinality(BusyWorkers') \in Nat
      BY <2>1, WorkersFinite, FS_Subset, FS_CardinalityType
    <2>4. Resolve(opts.maxParallel, N) \in Nat
      BY ResolveBounds, UpgradeAssumption DEF IInv, Types
    <2>5. Limited /\ Cardinality(BusyWorkers) \in Nat
      BY WorkersFinite DEF IInv
    <2> QED
      BY <1>1, <2>2, <2>3, <2>4, <2>5 DEF Limited
  <1>7. Verdict'
    BY <1>1 DEF Verdict
  <1> QED
    BY <1>2, <1>4, <1>5, <1>6, <1>7 DEF IInv

(* A step of the way that changes nothing of the machine.                  *)
LEMMA PlainStep ==
  ASSUME IInv, NEW i \in Nodes, NEW s, Advances(i, s), UNCHANGED <<machines, missed>>,
         Way(i)'
  PROVE  IInv'
  <1>1. /\ pc' \in [Nodes -> Places] /\ pc'[i] = s
        /\ \A j \in Nodes \ {i} : pc'[j] = pc[j]
        /\ UNCHANGED <<opts, phase, info, result, runs, yes>>
        /\ pc[i] \in Busy /\ s \in Started
    BY AdvanceMoves DEF Advances
  <1>2. MachineTypes' /\ Elsewhere(i)
    BY <1>1 DEF IInv, Types, MachineTypes, machines, Elsewhere
  <1>3. Machine(i)'
    BY <1>1, NamesDiffer DEF IInv, Nodewise, Machine, machines
  <1> QED
    BY <1>2, <1>3, AdvanceKeeps

LEMMA PrepareIInv ==
  ASSUME IInv, NEW i \in Nodes, Prepare(i) PROVE IInv'
  <1>1. PICK s \in {"install", "failed", "hung"} : Advances(i, s)
    BY DEF Prepare, Fails, Unanswered, Advances, Busy, Started, Engaged
  <1>2. /\ pc[i] = "prepare" /\ pc'[i] = s
        /\ UNCHANGED <<machines, missed, opts>>
    BY <1>1, AdvanceMoves DEF Prepare
  <1>3. Way(i)'
    BY <1>2 DEF IInv, Nodewise, Way, machines, Lifecycle, Installed, Stabilizing
  <1> QED
    BY <1>1, <1>2, <1>3, PlainStep

LEMMA DrainClientsetIInv ==
  ASSUME IInv, NEW i \in Nodes, DrainClientset(i) PROVE IInv'
  <1>1. PICK s \in {"cordon", "failed", "hung"} : Advances(i, s)
    BY DEF DrainClientset, Fails, Unanswered, Advances, Busy, Started, Engaged
  <1>2. /\ pc[i] = "clientset" /\ pc'[i] = s
        /\ UNCHANGED <<machines, missed, opts>>
    BY <1>1, AdvanceMoves DEF DrainClientset
  <1>3. Way(i)'
    BY <1>2 DEF IInv, Nodewise, Way, machines, Lifecycle, Installed, Stabilizing
  <1> QED
    BY <1>1, <1>2, <1>3, PlainStep

LEMMA SeeReadyIInv ==
  ASSUME IInv, NEW i \in Nodes, SeeReady(i) PROVE IInv'
  <1>1. Advances(i, "window")
    BY DEF SeeReady, Advances, Busy, Started, Engaged
  <1>2. /\ pc[i] = "watch" /\ pc'[i] = "window"
        /\ UNCHANGED <<machines, missed, opts>>
    BY <1>1, AdvanceMoves DEF SeeReady
  <1>3. Way(i)'
    BY <1>2 DEF IInv, Nodewise, Way, machines, Lifecycle, Installed, Stabilizing
  <1> QED
    BY <1>1, <1>2, <1>3, PlainStep

LEMMA WindowBrokenIInv ==
  ASSUME IInv, NEW i \in Nodes, WindowBroken(i) PROVE IInv'
  <1>1. Advances(i, "watch")
    BY DEF WindowBroken, Advances, Busy, Started, Engaged
  <1>2. /\ pc[i] = "window" /\ pc'[i] = "watch"
        /\ UNCHANGED <<machines, missed, opts>>
    BY <1>1, AdvanceMoves DEF WindowBroken
  <1>3. Way(i)'
    BY <1>2 DEF IInv, Nodewise, Way, machines, Lifecycle, Installed, Stabilizing
  <1> QED
    BY <1>1, <1>2, <1>3, PlainStep

LEMMA GiveUpIInv ==
  ASSUME IInv, NEW i \in Nodes, GiveUp(i) PROVE IInv'
  <1>1. PICK s \in {"failed", "hung"} : Advances(i, s)
    BY DEF GiveUp, Fails, Unanswered, Advances, Busy, Started, Engaged
  <1>2. pc'[i] \in {"failed", "hung"} /\ UNCHANGED <<machines, missed, opts>>
    BY <1>1, AdvanceMoves DEF GiveUp
  <1>3. Way(i)'
    BY <1>2 DEF Way, Lifecycle, Installed, Stabilizing
  <1> QED
    BY <1>1, <1>2, <1>3, PlainStep

(* The reboot is over and the machine runs the new version.                *)
LEMMA WindowOverIInv ==
  ASSUME IInv, NEW i \in Nodes, WindowOver(i) PROVE IInv'
  <1> DEFINE s == IF opts.drain /\ i \notin Legacy THEN "uncordon" ELSE "ok"
  <1>1. Advances(i, s) /\ s \in {"uncordon", "ok"}
    BY DEF WindowOver, Advances, Busy, Started, Engaged
  <1>2. /\ pc[i] = "window" /\ pc'[i] = s /\ i \notin due
        /\ UNCHANGED <<machines, missed, opts>>
    BY <1>1, AdvanceMoves DEF WindowOver
  <1>3. Way(i)'
    <2>1. i \in missed \/ ver[i] = "new"
      BY <1>2 DEF IInv, Nodewise, Way, Stabilizing
    <2>2. s = "ok" /\ opts.drain => i \notin cordoned
      BY DEF IInv, Nodewise, Machine
    <2> QED
      BY <1>1, <1>2, <2>1, <2>2 DEF Way, machines, Lifecycle, Installed, Stabilizing
  <1> QED
    BY <1>1, <1>2, <1>3, PlainStep

LEMMA InstallIInv ==
  ASSUME IInv, NEW i \in Nodes, Install(i) PROVE IInv'
  <1>1. PICK s \in {"clientset", "reboot", "failed", "hung"} :
          /\ Advances(i, s)
          /\ disk' = [disk EXCEPT ![i] = "new"] \/ (disk' = disk /\ s \in {"failed", "hung"})
          /\ s = "reboot" => ~opts.drain
    BY DEF Install, Fails, Unanswered, Calls, Advances, Busy, Started, Engaged
  <1>2. /\ pc[i] = "install" /\ pc'[i] = s
        /\ \A j \in Nodes \ {i} : pc'[j] = pc[j]
        /\ UNCHANGED <<health, ver, due, owed, cordoned, pods, flaps, missed, opts, info>>
    BY <1>1, AdvanceMoves DEF Install
  <1>3. MachineTypes' /\ Elsewhere(i)
    BY <1>1, <1>2 DEF IInv, Types, MachineTypes, Elsewhere
  <1>4. disk'[i] = "new" \/ (disk' = disk /\ s \in {"failed", "hung"})
    BY <1>1 DEF IInv, Types
  <1>5. Machine(i)'
    BY <1>1, <1>2, <1>4 DEF IInv, Nodewise, Machine
  <1>6. Way(i)'
    BY <1>1, <1>2, <1>4 DEF IInv, Nodewise, Way, Lifecycle, Installed, Stabilizing
  <1> QED
    BY <1>1, <1>3, <1>5, <1>6, AdvanceKeeps

LEMMA CordonIInv ==
  ASSUME IInv, NEW i \in Nodes, Cordon(i) PROVE IInv'
  <1>1. PICK s \in {"evict", "failed"} :
          /\ Advances(i, s)
          /\ cordoned' = cordoned \cup {i} \/ (cordoned' = cordoned /\ s = "failed")
    BY DEF Cordon, Calls, Advances, Busy, Started, Engaged
  <1>2. /\ pc[i] = "cordon" /\ pc'[i] = s
        /\ \A j \in Nodes \ {i} : pc'[j] = pc[j]
        /\ UNCHANGED <<health, ver, disk, due, owed, pods, flaps, missed, opts, info>>
    BY <1>1, AdvanceMoves DEF Cordon
  <1>3. MachineTypes' /\ Elsewhere(i)
    BY <1>1, <1>2 DEF IInv, Types, MachineTypes, Elsewhere
  <1>4. Machine(i)'
    BY <1>1, <1>2 DEF IInv, Nodewise, Machine, Way, Lifecycle
  <1>5. Way(i)'
    BY <1>1, <1>2 DEF IInv, Nodewise, Way, Lifecycle, Installed, Stabilizing
  <1> QED
    BY <1>1, <1>3, <1>4, <1>5, AdvanceKeeps

LEMMA DrainPodsIInv ==
  ASSUME IInv, NEW i \in Nodes, DrainPods(i) PROVE IInv'
  <1>1. PICK s \in {"reboot", "delete", "failed"} :
          /\ Advances(i, s)
          /\ pods' = pods \ {i} \/ (pods' = pods /\ s # "reboot")
    BY DEF DrainPods, Calls, Advances, Busy, Started, Engaged
  <1>2. /\ pc[i] \in {"evict", "delete"} /\ pc'[i] = s
        /\ \A j \in Nodes \ {i} : pc'[j] = pc[j]
        /\ UNCHANGED <<health, ver, disk, due, owed, cordoned, flaps, missed, opts, info>>
    BY <1>1, AdvanceMoves DEF DrainPods
  <1>3. MachineTypes' /\ Elsewhere(i)
    BY <1>1, <1>2 DEF IInv, Types, MachineTypes, Elsewhere
  <1>4. Machine(i)'
    BY <1>2 DEF IInv, Nodewise, Machine
  <1>5. Way(i)'
    BY <1>1, <1>2 DEF IInv, Nodewise, Way, Lifecycle, Installed, Stabilizing
  <1> QED
    BY <1>1, <1>3, <1>4, <1>5, AdvanceKeeps

LEMMA RebootIInv ==
  ASSUME IInv, NEW i \in Nodes, Reboot(i) PROVE IInv'
  <1>1. PICK s \in {"watch", "failed", "hung"} :
          /\ Advances(i, s)
          /\ \/ Rebooting(i) /\ UNCHANGED missed
             \/ UNCHANGED <<due, owed, missed>> /\ s \in {"failed", "hung"}
             \/ UNCHANGED <<due, owed>> /\ missed' = missed \cup {i}
    BY DEF Reboot, Fails, Unanswered, Calls, Advances, Busy, Started, Engaged
  <1>2. /\ pc[i] = "reboot" /\ pc'[i] = s
        /\ \A j \in Nodes \ {i} : pc'[j] = pc[j]
        /\ UNCHANGED <<health, ver, disk, cordoned, pods, flaps, opts, info>>
    BY <1>1, AdvanceMoves DEF Reboot
  <1>3. MachineTypes' /\ Elsewhere(i)
    BY <1>1, <1>2 DEF IInv, Types, MachineTypes, Elsewhere, Rebooting
  <1>4. Machine(i)'
    BY <1>2 DEF IInv, Nodewise, Machine
  <1>5. Way(i)'
    BY <1>1, <1>2 DEF IInv, Nodewise, Way, Lifecycle, Installed, Stabilizing, Rebooting
  <1> QED
    BY <1>1, <1>3, <1>4, <1>5, AdvanceKeeps

LEMMA LegacyUpgradeIInv ==
  ASSUME IInv, NEW i \in Nodes, LegacyUpgrade(i) PROVE IInv'
  <1>1. PICK s \in {"watch", "failed", "hung"} :
          /\ Advances(i, s)
          /\ \/ disk' = [disk EXCEPT ![i] = "new"] /\ Rebooting(i)
             \/ UNCHANGED <<disk, due, owed>> /\ s \in {"failed", "hung"}
    BY DEF LegacyUpgrade, Fails, Unanswered, Calls, Advances, Busy, Started, Engaged
  <1>2. /\ pc[i] = "legacy" /\ pc'[i] = s
        /\ \A j \in Nodes \ {i} : pc'[j] = pc[j]
        /\ UNCHANGED <<health, ver, cordoned, pods, flaps, missed, opts, info>>
    BY <1>1, AdvanceMoves DEF LegacyUpgrade
  <1>3. MachineTypes' /\ Elsewhere(i)
    BY <1>1, <1>2 DEF IInv, Types, MachineTypes, Elsewhere, Rebooting
  <1>4. \/ disk'[i] = "new" /\ i \in due' /\ i \in owed'
        \/ UNCHANGED <<disk, due, owed>> /\ s \in {"failed", "hung"}
    BY <1>1 DEF IInv, Types, Rebooting
  <1>5. Machine(i)'
    BY <1>2, <1>4 DEF IInv, Nodewise, Machine
  <1>6. Way(i)'
    BY <1>2, <1>4 DEF IInv, Nodewise, Way, Lifecycle, Installed, Stabilizing
  <1> QED
    BY <1>1, <1>3, <1>5, <1>6, AdvanceKeeps

LEMMA UncordonIInv ==
  ASSUME IInv, NEW i \in Nodes, Uncordon(i) PROVE IInv'
  <1>1. PICK s \in {"ok", "failed", "hung"} :
          /\ Advances(i, s)
          /\ cordoned' = cordoned \ {i} \/ (cordoned' = cordoned /\ s \in {"failed", "hung"})
    BY DEF Uncordon, Fails, Unanswered, Advances, Busy, Started, Engaged
  <1>2. /\ pc[i] = "uncordon" /\ pc'[i] = s
        /\ \A j \in Nodes \ {i} : pc'[j] = pc[j]
        /\ UNCHANGED <<health, ver, disk, due, owed, pods, flaps, missed, opts, info>>
    BY <1>1, AdvanceMoves DEF Uncordon
  <1>3. MachineTypes' /\ Elsewhere(i)
    BY <1>1, <1>2 DEF IInv, Types, MachineTypes, Elsewhere
  <1>4. Machine(i)'
    BY <1>1, <1>2 DEF IInv, Nodewise, Machine
  <1>5. Way(i)'
    BY <1>1, <1>2 DEF IInv, Nodewise, Way, Lifecycle, Installed, Stabilizing
  <1> QED
    BY <1>1, <1>3, <1>4, <1>5, AdvanceKeeps

-----------------------------------------------------------------------------
(* The turn of a node: it is the only one of the control plane, or one     *)
(* more worker within the limit after the whole control plane.             *)
LEMMA PoolWithinLimit ==
  ASSUME IInv
  PROVE  /\ Pool \in Nat /\ Resolve(opts.maxParallel, N) \in Nat
         /\ Pool <= Resolve(opts.maxParallel, N)
  <1>1. Resolve(opts.maxParallel, N) \in Nat \ {0}
    BY ResolveBounds, UpgradeAssumption DEF IInv, Types
  <1>2. IsFiniteSet(Workers)
    BY FS_Interval, UpgradeAssumption DEF Workers
  <1>3. Cardinality(Worklist \cap Workers) \in Nat
    BY <1>2, FS_Subset, FS_CardinalityType
  <1> QED
    BY <1>1, <1>3, PoolSizeBounds DEF Pool

(* With the control plane through, who works or has failed is a worker.    *)
LEMMA OnlyWorkers ==
  ASSUME \A j \in ControlPlane : pc[j] \in Through
  PROVE  InFlight \cup FailedNodes = BusyWorkers
  <1>1. \A j \in Nodes : j \in ControlPlane \/ j \in Workers
    BY UpgradeAssumption DEF Nodes, ControlPlane, Workers
  <1>2. \A j \in ControlPlane : pc[j] \notin Engaged
    BY DEF Through, Engaged, Busy
  <1>3. Workers \subseteq Nodes
    BY UpgradeAssumption DEF Nodes, Workers
  <1> QED
    BY <1>1, <1>2, <1>3 DEF InFlight, FailedNodes, BusyWorkers, Engaged

LEMMA StartIInv ==
  ASSUME IInv, NEW i \in Nodes, Start(i) PROVE IInv'
  <1>1. PICK s \in {"legacy", "prepare"} :
          /\ pc' = [pc EXCEPT ![i] = s]
          /\ s = "legacy" => i \in Legacy
          /\ s = "prepare" => i \notin Legacy
    BY DEF Start, Goto
  <1>2. /\ phase = "upgrade" /\ pc[i] = "queued" /\ Turn(i)
        /\ UNCHANGED <<machines, touched, missed, opts, phase, info, result, runs, yes>>
    BY DEF Start, Program
  <1>3. s \in Busy /\ s \in Engaged /\ s \in Started /\ s \in Places
    BY DEF Busy, Engaged, Started, Places
  <1>4. /\ pc' \in [Nodes -> Places] /\ pc'[i] = s
        /\ \A j \in Nodes \ {i} : pc'[j] = pc[j]
    BY <1>1, <1>3 DEF IInv, Types
  <1>5. Types'
    BY <1>2, <1>4 DEF IInv, Types, machines
  <1>6. ASSUME NEW j \in Nodes PROVE AsPlanned(j)'
    BY <1>2, <1>3, <1>4 DEF IInv, Nodewise, AsPlanned, AllUp
  <1>7. ASSUME NEW j \in Nodes PROVE Machine(j)'
    BY <1>1, <1>2, <1>4 DEF IInv, Nodewise, Machine, machines
  <1>8. ASSUME NEW j \in Nodes PROVE Way(j)'
    <2>1. CASE j = i
      BY <1>1, <1>4, <2>1 DEF Way, Lifecycle, Installed, Stabilizing
    <2>2. CASE j # i
      BY <1>2, <1>4, <2>2 DEF IInv, Nodewise, Way, machines
    <2> QED
      BY <2>1, <2>2
  <1>9. \A j \in Nodes : pc[j] \in Through => pc'[j] \in Through
    BY <1>2, <1>4 DEF Through
  <1>10. InOrder'
    <2>1. /\ ControlPlane \subseteq Nodes
          /\ \A k \in Nodes : 1 .. k - 1 \subseteq Nodes
      BY UpgradeAssumption DEF Nodes, ControlPlane
    <2>2. IF i \in ControlPlane THEN \A j \in 1 .. i - 1 : pc[j] \in Through
          ELSE \A j \in ControlPlane : pc[j] \in Through
      BY <1>2 DEF Turn
    <2>3. ASSUME NEW k \in Nodes, pc'[k] \in Started
          PROVE IF k \in ControlPlane THEN \A j \in 1 .. k - 1 : pc'[j] \in Through
                ELSE \A j \in ControlPlane : pc'[j] \in Through
      BY <1>4, <1>9, <2>1, <2>2, <2>3 DEF IInv, InOrder
    <2> QED
      BY <2>3 DEF InOrder
  <1>11. Limited'
    <2>1. CASE i \in ControlPlane
      <3>1. BusyWorkers' = BusyWorkers
        BY <1>4, <2>1, UpgradeAssumption DEF BusyWorkers, Workers, ControlPlane, Nodes
      <3> QED
        BY <1>2, <3>1 DEF IInv, Limited
    <2>2. CASE i \notin ControlPlane
      <3>1. /\ \A j \in ControlPlane : pc[j] \in Through
            /\ Cardinality(InFlight \cup FailedNodes) < Pool
        BY <1>2, <2>2 DEF Turn
      <3>2. InFlight \cup FailedNodes = BusyWorkers
        BY <3>1, OnlyWorkers
      <3>3. BusyWorkers' = BusyWorkers \cup {i}
        <4>1. i \in Workers /\ Workers \subseteq Nodes
          BY <2>2, UpgradeAssumption DEF Nodes, ControlPlane, Workers
        <4> QED
          BY <1>3, <1>4, <4>1 DEF BusyWorkers
      <3>4. i \notin BusyWorkers
        BY <1>2 DEF BusyWorkers, Engaged, Busy
      <3>5. Cardinality(BusyWorkers') = Cardinality(BusyWorkers) + 1
        BY <3>3, <3>4, WorkersFinite, FS_AddElement
      <3>6. Cardinality(BusyWorkers) < Pool /\ Cardinality(BusyWorkers) \in Nat
        BY <3>1, <3>2, WorkersFinite
      <3> QED
        BY <1>2, <3>5, <3>6, PoolWithinLimit DEF Limited
    <2> QED
      BY <2>1, <2>2
  <1>12. Verdict'
    BY <1>2 DEF Verdict
  <1> QED
    BY <1>5, <1>6, <1>7, <1>8, <1>10, <1>11, <1>12 DEF IInv, Nodewise

-----------------------------------------------------------------------------
LEMMA NextIInv == IInv /\ [Next]_vars => IInv'
  <1> SUFFICES ASSUME IInv, [Next]_vars PROVE IInv'
    OBVIOUS
  <1>1. ASSUME NEW i \in Nodes, Collect(i) \/ PlanNode(i) \/ NodeStep(i) PROVE IInv'
    BY <1>1, CollectIInv, PlanNodeIInv, StartIInv, PrepareIInv, InstallIInv,
       DrainClientsetIInv, CordonIInv, DrainPodsIInv, RebootIInv, LegacyUpgradeIInv,
       SeeReadyIInv, WindowBrokenIInv, WindowOverIInv, GiveUpIInv, UncordonIInv
       DEF NodeStep
  <1>2. ASSUME UNCHANGED vars PROVE IInv'
    BY <1>2 DEF IInv, Types, Nodewise, AsPlanned, AllUp, Machine, Way, InOrder, Limited,
                BusyWorkers, Verdict, vars, machines
  <1> QED
    BY <1>1, <1>2, MachineStepIInv, BeginIInv, PreChecksIInv, PlannedIInv,
       UpgradeReturnsIInv, InterruptIInv DEF Next

(* What the proofs rest on: who is upgraded was planned, a node goes its   *)
(* way in order and after its predecessors, and the pool counts the failed *)
(* workers with the busy ones.                                             *)
THEOREM UpgradeIInv == Spec => []IInv
  BY InitIInv, NextIInv, PTL DEF Spec

(* What the promise of the pool permits is in the model: once the control  *)
(* plane is through, a worker has its turn whenever Rollout may start it,  *)
(* with fewer workers running or failed than the limit.                    *)
RolloutAdmitted ==
  \A i \in Worklist \cap Workers :
    /\ pc[i] = "queued" /\ \A j \in ControlPlane : pc[j] \in Through
    /\ Cardinality({j \in Worklist \cap Workers : pc[j] \in Engaged})
         < Resolve(opts.maxParallel, N)
    => Turn(i)

(* A step that nodepool.RunConcurrent can take with the workers is one of  *)
(* the model's: it has no fewer steps than the pool, whose promise         *)
(* NodePoolProofs shows to be Rollout.                                     *)
THEOREM UpgradeAdmitsRollout == Spec => []RolloutAdmitted
  <1>1. IInv => RolloutAdmitted
    <2> DEFINE Pooled == Worklist \cap Workers
               Most == Resolve(opts.maxParallel, N)
    <2> SUFFICES ASSUME IInv, NEW i \in Pooled, pc[i] = "queued",
                        \A j \in ControlPlane : pc[j] \in Through,
                        Cardinality({j \in Pooled : pc[j] \in Engaged}) < Most
                 PROVE  Turn(i)
      BY DEF RolloutAdmitted
    <2>1. InFlight \cup FailedNodes = BusyWorkers
      BY OnlyWorkers
    <2>2. BusyWorkers \subseteq Pooled /\ {j \in Pooled : pc[j] \in Engaged} = BusyWorkers
      BY UpgradeAssumption DEF BusyWorkers, Worklist, Engaged, Workers, Nodes
    <2>3. IsFiniteSet(Pooled) /\ Cardinality(Pooled) \in Nat
      <3>1. IsFiniteSet(Workers)
        BY FS_Interval, UpgradeAssumption DEF Workers
      <3> QED
        BY <3>1, FS_Subset, FS_CardinalityType
    <2>4. BusyWorkers # Pooled
      BY DEF BusyWorkers, Engaged, Busy
    <2>5. Most \in Nat \ {0}
      BY ResolveBounds, UpgradeAssumption DEF IInv, Types
    <2> HIDE DEF Pooled, Most
    <2>6. Cardinality(BusyWorkers) < Cardinality(Pooled)
      BY <2>2, <2>3, <2>4, WorkersFinite, FS_Subset
    <2>7. Cardinality(BusyWorkers) < PoolSize(Most, Cardinality(Pooled))
      BY <2>2, <2>3, <2>5, <2>6, WorkersFinite, PoolSizeRoom
    <2>8. i \notin ControlPlane
      BY UpgradeAssumption DEF Workers, ControlPlane, Pooled
    <2> QED
      BY <2>1, <2>7, <2>8 DEF Turn, Pool, Most, Pooled
  <1> QED
    BY <1>1, UpgradeIInv, PTL

(* A machine that is out of service is one that topf works on or that it   *)
(* failed on.                                                              *)
LEMMA OutOfServiceEngaged ==
  ASSUME IInv, NEW i \in OutOfService
  PROVE  i \in Nodes /\ pc[i] \in Engaged /\ pc[i] \in Started /\ pc[i] \notin Through
  <1>1. i \in Nodes /\ pc[i] \in Started
    BY DEF OutOfService, IInv, Types, Nodewise, AsPlanned
  <1>2. pc[i] # "ok"
    BY <1>1 DEF OutOfService, IInv, Nodewise, Way
  <1> QED
    BY <1>1, <1>2 DEF Started, Engaged, Busy, Through

(* A run never has two control-plane machines out of service, so it does   *)
(* not take the quorum of etcd away (upgrade.Execute).                     *)
THEOREM UpgradeOneControlPlaneAtATime == Spec => []OneControlPlaneAtATime
  <1>1. IInv => OneControlPlaneAtATime
    <2> SUFFICES ASSUME IInv PROVE Cardinality(OutOfService \cap ControlPlane) <= 1
      BY DEF OneControlPlaneAtATime
    <2> DEFINE S == OutOfService \cap ControlPlane
    <2>1. ASSUME NEW i \in S, NEW j \in S, i < j PROVE FALSE
      <3>1. i \in 1 .. j - 1
        BY <2>1, UpgradeAssumption DEF ControlPlane
      <3>2. pc[i] \in Through
        BY <2>1, <3>1, OutOfServiceEngaged DEF IInv, InOrder
      <3> QED
        BY <2>1, <3>2, OutOfServiceEngaged
    <2>2. \A i, j \in S : i = j
      BY <2>1, UpgradeAssumption DEF ControlPlane
    <2>3. S = {} \/ \E x : S = {x}
      BY <2>2
    <2> HIDE DEF S
    <2>4. S = {} => Cardinality(S) = 0
      BY FS_EmptySet
    <2>5. ASSUME NEW x, S = {x} PROVE Cardinality(S) = 1
      BY <2>5, FS_Singleton
    <2>6. Cardinality(S) <= 1
      BY <2>3, <2>4, <2>5
    <2> QED
      BY <2>6 DEF S
  <1> QED
    BY <1>1, UpgradeIInv, PTL

(* The workers are left alone until the whole control plane is upgraded    *)
(* and back in service (upgrade.Execute).                                  *)
THEOREM UpgradeWorkersAfterControlPlane == Spec => []WorkersAfterControlPlane
  <1>1. IInv => WorkersAfterControlPlane
    <2> SUFFICES ASSUME IInv, NEW w \in OutOfService \cap Workers,
                        NEW i \in OutOfService \cap ControlPlane
                 PROVE  FALSE
      BY DEF WorkersAfterControlPlane
    <2>1. w \notin ControlPlane
      BY UpgradeAssumption DEF Workers, ControlPlane
    <2>2. pc[i] \in Through
      BY <2>1, OutOfServiceEngaged DEF IInv, InOrder
    <2> QED
      BY <2>2, OutOfServiceEngaged
  <1> QED
    BY <1>1, UpgradeIInv, PTL

(* However the upgrades end, no more workers are out of service at a time  *)
(* than --max-parallel allows (nodepool.RunConcurrent, Resolve).           *)
THEOREM UpgradeWorkersWithinLimit == Spec => []WorkersWithinLimit
  <1>1. IInv => WorkersWithinLimit
    <2> SUFFICES ASSUME IInv PROVE WorkersWithinLimit
      OBVIOUS
    <2>1. OutOfService \cap Workers \in SUBSET BusyWorkers
      BY OutOfServiceEngaged DEF BusyWorkers
    <2>2. Cardinality(OutOfService \cap Workers) <= Cardinality(BusyWorkers)
      BY <2>1, WorkersFinite
    <2>3. Cardinality(OutOfService \cap Workers) \in Nat
      BY <2>1, WorkersFinite, FS_Subset, FS_CardinalityType
    <2> QED
      BY <2>2, <2>3, WorkersFinite, PoolWithinLimit DEF IInv, Limited, WorkersWithinLimit
  <1> QED
    BY <1>1, UpgradeIInv, PTL

(* No machine is changed that the pre-checks, the plan and the operator    *)
(* did not agree to (upgrade.preChecks, plan).                             *)
THEOREM UpgradeChangedOnlyAsPlanned == Spec => []ChangedOnlyAsPlanned
  <1>1. IInv => ChangedOnlyAsPlanned
    <2> SUFFICES ASSUME IInv, NEW i \in touched
                 PROVE  AllUp /\ info[i].ver = "old" /\ (opts.confirm => i \in yes)
      BY DEF ChangedOnlyAsPlanned, AllUp
    <2> QED
      BY NamesDiffer DEF IInv, Types, Nodewise, AsPlanned
  <1> QED
    BY <1>1, UpgradeIInv, PTL

(* With --drain a reboot is only ever sent to a machine whose Kubernetes   *)
(* node is cordoned and empty (upgrade.drainNode).                         *)
THEOREM UpgradeDrainedBeforeReboot == Spec => DrainedBeforeReboot
  <1> DEFINE Drained == \A i \in owed' \ owed :
               opts.drain /\ i \notin Legacy => i \in cordoned /\ i \notin pods
  <1>1. IInv /\ [Next]_vars => [Drained]_vars
    <2> SUFFICES ASSUME IInv, Next, NEW i \in owed' \ owed, opts.drain, i \notin Legacy
                 PROVE  i \in cordoned /\ i \notin pods
      OBVIOUS
    <2>1. PICK j \in Nodes : Reboot(j) \/ LegacyUpgrade(j)
      BY DEF Next, MachineStep, Boot, GoDown, BecomeReady, Flap, SchedulePods, Begin,
             Interrupt, Collect, PlanNode, PreChecks, Planned, UpgradeReturns, NodeStep,
             Start, Prepare, Install, DrainClientset, Cordon, DrainPods, SeeReady,
             WindowBroken, WindowOver, GiveUp, Uncordon, machines, vars
    <2>2. i = j /\ (pc[i] = "reboot" \/ pc[i] = "legacy")
      BY <2>1 DEF Reboot, LegacyUpgrade, Rebooting
    <2> QED
      BY <2>2 DEF IInv, Nodewise, Way
  <1> QED
    BY <1>1, UpgradeIInv, PTL DEF Spec, DrainedBeforeReboot

(* Success means that the nodes run the new version and are schedulable    *)
(* again, also in a run that repeats one that failed (upgrade.Execute).    *)
THEOREM UpgradeResultHonest == Spec => []ResultHonest
  <1>1. IInv => ResultHonest
    <2> SUFFICES ASSUME IInv, phase = "idle", result = "nil", ~opts.dryRun,
                        NEW i \in Nodes
                 PROVE  /\ pc[i] # "declined" /\ i \notin missed => ver[i] = "new"
                        /\ pc[i] = "ok" /\ opts.drain => i \notin cordoned
      BY DEF ResultHonest
    <2>1. pc[i] \in {"same", "declined", "ok"}
      BY DEF IInv, Verdict, Through
    <2> QED
      BY <2>1 DEF IInv, Nodewise, Machine, Way
  <1> QED
    BY <1>1, UpgradeIInv, PTL
=============================================================================
