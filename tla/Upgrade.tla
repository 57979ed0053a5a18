------------------------------- MODULE Upgrade -------------------------------
(***************************************************************************)
(* `topf upgrade` (src/internal/cmd/upgrade/upgrade.go): pre-checks, the   *)
(* plan with its confirmations, and per node the lifecycle flow (install,  *)
(* cordon, drain, reboot, stabilise, uncordon) or the legacy one, over     *)
(* machines that reboot and Kubernetes nodes that get pods scheduled.      *)
(*                                                                         *)
(* Workers go through nodepool.RunConcurrent, represented by the Rollout   *)
(* it implements, as in module Apply.                                      *)
(***************************************************************************)
EXTENDS MaxParallel, FiniteSets

CONSTANTS
  NumCP,       (* control-plane nodes: 1 .. NumCP; LoadFromFile sorts them *)
               (* before the workers                                       *)
  N,           (* all nodes                                                *)
  Legacy,      (* nodes whose old version is below 1.13                    *)
  Options,     (* the Options a run may be started with                    *)
  MaxRuns,     (* bound: invocations of the command                        *)
  MaxFlaps,    (* bound: failures the machines suffer by themselves        *)
  MaxHangs     (* bound: calls of a run that never come back               *)

ASSUME UpgradeAssumption ==
  /\ NumCP \in Nat /\ N \in Nat /\ NumCP <= N
  /\ Legacy \subseteq 1 .. N
  /\ MaxRuns \in Nat /\ MaxFlaps \in Nat /\ MaxHangs \in Nat
  /\ \A o \in Options : o.maxParallel \in MaxParallelFlag /\ ParseAccepts(o.maxParallel)

Nodes == 1 .. N
ControlPlane == 1 .. NumCP
Workers == NumCP + 1 .. N

VARIABLES
  health,   (* the machine: "ready", "unready" (stage running with unmet    *)
            (* conditions), "down" (any other stage)                       *)
  ver,      (* version and schematic a machine runs: "old" or "new"        *)
  disk,     (* version it boots next                                       *)
  due,      (* machines a reboot sent by topf disturbs until ready again    *)
  owed,     (* those of them that have yet to go down                      *)
  cordoned, (* Kubernetes nodes that are unschedulable                     *)
  pods,     (* Kubernetes nodes with pods that a drain evicts              *)
  flaps,
  opts,     (* the running invocation's Options                            *)
  phase,    (* "idle", "collect", "plan", "upgrade"                        *)
  info,     (* Node.Error, or the stage and the running version collected  *)
  pc,       (* pc[i]: where node i is in the plan and in upgradeNode       *)
  result,   (* what the last invocation returned                           *)
  runs,
  yes,      (* history: nodes the operator said yes to in this run         *)
  touched,  (* history: nodes this run sent a state-changing call for      *)
  missed    (* history: machines that fell back to the old version, or     *)
            (* that a Reboot call answered with Unavailable did not reach  *)

machines == <<health, ver, disk, due, owed, cordoned, pods, flaps>>
vars == <<machines, opts, phase, info, pc, result, runs, yes, touched, missed>>

NoOptions == [dryRun |-> FALSE, confirm |-> FALSE, drain |-> TRUE,
              deleteIfEvictionFails |-> FALSE,
              maxParallel |-> [value |-> 1, percent |-> FALSE]]
Unknown == [stage |-> "unknown", ver |-> "old"]
NotRead(error) == [stage |-> error, ver |-> "old"]

Init ==
  /\ health = [i \in Nodes |-> "ready"]
  /\ ver \in [Nodes -> {"old", "new"}] /\ disk = ver
  /\ due = {} /\ owed = {} /\ cordoned = {} /\ pods = Nodes /\ flaps = 0
  /\ opts = NoOptions /\ phase = "idle" /\ result = "none" /\ runs = 0
  /\ info = [i \in Nodes |-> Unknown]
  /\ pc = [i \in Nodes |-> "todo"]
  /\ yes = {} /\ touched = {} /\ missed = {}

-----------------------------------------------------------------------------
(* The machines and the Kubernetes scheduler (external). A machine boots   *)
(* what is on its disk, or falls back to what it ran.                      *)

GoDown(i) ==
  /\ i \in owed
  /\ owed' = owed \ {i}
  /\ health' = [health EXCEPT ![i] = "down"]
  /\ pods' = pods \ {i}
  /\ UNCHANGED <<ver, disk, due, cordoned, flaps>>

Boot(i) ==
  /\ health[i] = "down"
  /\ health' = [health EXCEPT ![i] = "unready"]
  /\ \E v \in {disk[i], ver[i]} :
       /\ ver' = [ver EXCEPT ![i] = v] /\ disk' = [disk EXCEPT ![i] = v]
       /\ missed' = IF v = disk[i] THEN missed ELSE missed \cup {i}
  /\ UNCHANGED <<due, owed, cordoned, pods, flaps>>

BecomeReady(i) ==
  /\ health[i] = "unready"
  /\ health' = [health EXCEPT ![i] = "ready"]
  /\ due' = due \ ({i} \ owed)
  /\ UNCHANGED <<ver, disk, owed, cordoned, pods, flaps>>

Flap(i) ==
  /\ flaps < MaxFlaps /\ health[i] = "ready"
  /\ health' = [health EXCEPT ![i] = "unready"]
  /\ flaps' = flaps + 1
  /\ UNCHANGED <<ver, disk, due, owed, cordoned, pods>>

SchedulePods(i) ==
  /\ i \notin cordoned /\ i \notin pods /\ health[i] = "ready"
  /\ pods' = pods \cup {i}
  /\ UNCHANGED <<health, ver, disk, due, owed, cordoned, flaps>>

MachineStep ==
  /\ \/ \E i \in Nodes : Boot(i)
     \/ /\ \E i \in Nodes :
             GoDown(i) \/ BecomeReady(i) \/ Flap(i) \/ SchedulePods(i)
        /\ UNCHANGED missed
  /\ UNCHANGED <<opts, phase, info, pc, result, runs, yes, touched>>

-----------------------------------------------------------------------------
(* The command. *)

Finish(r) == phase' = "idle" /\ result' = r

Begin ==
  /\ phase = "idle" /\ runs < MaxRuns
  /\ opts' \in Options /\ runs' = runs + 1
  /\ phase' = "collect" /\ result' = "none"
  /\ info' = [i \in Nodes |-> Unknown]
  /\ pc' = [i \in Nodes |-> "todo"]
  /\ yes' = {} /\ touched' = {} /\ missed' = {}
  /\ UNCHANGED machines

(* A call that is not answered returns an error or hangs, as in module     *)
(* Apply.                                                                  *)
Hung == {i \in Nodes : "hung" \in {info[i].stage, pc[i]}}
Unanswered(error) ==
  {error} \cup (IF Cardinality(Hung) < MaxHangs THEN {"hung"} ELSE {})

(* FilteredNodes, one goroutine per node. *)
Collect(i) ==
  /\ phase = "collect" /\ info[i] = Unknown
  /\ \E seen \in {[stage |-> health[i], ver |-> ver[i]]}
                 \cup {NotRead(e) : e \in Unanswered("error")} :
       info' = [info EXCEPT ![i] = seen]
  /\ UNCHANGED <<machines, opts, phase, pc, result, runs, yes, touched, missed>>

(* Mutant of PreChecks: Node.Error is not looked at. *)
PreChecksIgnoringErrors ==
  /\ phase = "collect" /\ \A i \in Nodes : info[i].stage \notin {"unknown", "hung"}
  /\ IF \A i \in Nodes : info[i].stage # "down"
     THEN phase' = "plan" /\ UNCHANGED result
     ELSE Finish("error")
  /\ UNCHANGED <<machines, opts, info, pc, runs, yes, touched, missed>>

(* preChecks: every node collected without error and in stage running. *)
PreChecks ==
  /\ phase = "collect" /\ \A i \in Nodes : info[i].stage \notin {"unknown", "hung"}
  /\ IF \A i \in Nodes : info[i].stage \in {"ready", "unready"}
     THEN phase' = "plan" /\ UNCHANGED result
     ELSE Finish("error")
  /\ UNCHANGED <<machines, opts, info, pc, runs, yes, touched, missed>>

(* One iteration of plan's loop, in order, with its prompt. *)
PlanNode(i) ==
  /\ phase = "plan" /\ pc[i] = "todo"
  /\ \A j \in 1 .. i - 1 : pc[j] # "todo"
  /\ \/ /\ info[i].ver = "new"
        /\ pc' = [pc EXCEPT ![i] = "same"]
        /\ UNCHANGED yes
     \/ /\ info[i].ver = "old" /\ opts.dryRun
        /\ pc' = [pc EXCEPT ![i] = "required"]
        /\ UNCHANGED yes
     \/ /\ info[i].ver = "old" /\ ~opts.dryRun
        /\ \E a \in IF opts.confirm THEN {"y", "n"} ELSE {"y"} :
             /\ pc' = [pc EXCEPT ![i] = IF a = "y" THEN "queued" ELSE "declined"]
             /\ yes' = IF opts.confirm /\ a = "y" THEN yes \cup {i} ELSE yes
  /\ UNCHANGED <<machines, opts, phase, info, result, runs, touched, missed>>

(* plan fails on an installer image it cannot parse; otherwise a dry run   *)
(* ends with its verdict and the upgrades begin.                           *)
Planned ==
  /\ phase = "plan"
  /\ \/ Finish("error")
     \/ /\ \A i \in Nodes : pc[i] # "todo"
        /\ IF ~opts.dryRun THEN phase' = "upgrade" /\ UNCHANGED result
           ELSE IF \E i \in Nodes : pc[i] = "required" THEN Finish("changes")
           ELSE Finish("nil")
  /\ UNCHANGED <<machines, opts, info, pc, runs, yes, touched, missed>>

Busy == {"prepare", "install", "clientset", "cordon", "evict", "delete",
         "reboot", "legacy", "watch", "window", "uncordon", "hung"}
Through == {"same", "declined", "ok"}
InFlight == {i \in Nodes : pc[i] \in Busy}
FailedNodes == {i \in Nodes : pc[i] = "failed"}
Worklist == {i \in Nodes : pc[i] \in {"queued", "ok", "failed"} \cup Busy}

(* Mutant of Pool: all workers at once. *)
PoolUnlimited == Cardinality(Worklist \cap Workers)

(* The concurrency is resolved against all nodes, the pool holds the       *)
(* workers of the worklist.                                                *)
Pool == PoolSize(Resolve(opts.maxParallel, N), Cardinality(Worklist \cap Workers))

(* Mutants of Turn: the control plane goes through the pool as well; the   *)
(* workers do not wait for the control plane.                              *)
ControlPlaneInPool(i) ==
  Cardinality(InFlight \cup FailedNodes) < Pool

WorkersAtOnce(i) ==
  IF i \in ControlPlane
  THEN \A j \in 1 .. i - 1 : pc[j] \in Through
  ELSE Cardinality(InFlight \cup FailedNodes) < Pool

(* Execute: the control plane one node at a time, then the pool has the    *)
(* workers, in any order as in module Apply.                               *)
Turn(i) ==
  IF i \in ControlPlane
  THEN \A j \in 1 .. i - 1 : pc[j] \in Through
  ELSE /\ \A j \in ControlPlane : pc[j] \in Through
       /\ Cardinality(InFlight \cup FailedNodes) < Pool

Goto(i, s) == pc' = [pc EXCEPT ![i] = s]
Fails(i) == \E s \in Unanswered("failed") : Goto(i, s)
Program == UNCHANGED <<opts, phase, info, result, runs, yes>>
Calls(i) == touched' = touched \cup {i}

(* upgradeNode picks the flow from the running version it collected. *)
Start(i) ==
  /\ phase = "upgrade" /\ pc[i] = "queued" /\ Turn(i)
  /\ Goto(i, IF i \in Legacy THEN "legacy" ELSE "prepare")
  /\ UNCHANGED <<machines, touched, missed>> /\ Program

(* Client, GetKubernetesNodeName if draining, pullInstallerImage. *)
Prepare(i) ==
  /\ pc[i] = "prepare" /\ phase = "upgrade"
  /\ Goto(i, "install") \/ Fails(i)
  /\ UNCHANGED <<machines, touched, missed>> /\ Program

(* runUpgrade: exit code 0, or an error with the artifacts installed or    *)
(* not (a stream that ends without exit code).                             *)
Install(i) ==
  /\ pc[i] = "install" /\ phase = "upgrade"
  /\ \/ /\ disk' = [disk EXCEPT ![i] = "new"]
        /\ Goto(i, IF opts.drain THEN "clientset" ELSE "reboot") \/ Fails(i)
     \/ UNCHANGED disk /\ Fails(i)
  /\ Calls(i) /\ Program
  /\ UNCHANGED <<health, ver, due, owed, cordoned, pods, flaps, missed>>

(* drainNode: the clientset, *)
DrainClientset(i) ==
  /\ pc[i] = "clientset" /\ phase = "upgrade"
  /\ Goto(i, "cordon") \/ Fails(i)
  /\ UNCHANGED <<machines, touched, missed>> /\ Program

(* cordonNode: reading the node or patching it may fail, the patch may     *)
(* have been made all the same. --drain-timeout bounds it and the          *)
(* evictions,                                                              *)
Cordon(i) ==
  /\ pc[i] = "cordon" /\ phase = "upgrade"
  /\ \/ cordoned' = cordoned \cup {i} /\ (Goto(i, "evict") \/ Goto(i, "failed"))
     \/ UNCHANGED cordoned /\ Goto(i, "failed")
  /\ Calls(i) /\ Program
  /\ UNCHANGED <<health, ver, disk, due, owed, pods, flaps, missed>>

(* Mutant of DrainPods: a failed drain is logged and forgotten. *)
DrainErrorIgnored(i) ==
  /\ pc[i] \in {"evict", "delete"} /\ phase = "upgrade"
  /\ pods' \in {pods, pods \ {i}} /\ Goto(i, "reboot")
  /\ Calls(i) /\ Program
  /\ UNCHANGED <<health, ver, disk, due, owed, cordoned, flaps, missed>>

(* drainPods with evictions, and once more with deletions if asked to,     *)
(* within a --drain-timeout of their own.                                  *)
DrainPods(i) ==
  /\ pc[i] \in {"evict", "delete"} /\ phase = "upgrade"
  /\ \/ pods' = pods \ {i} /\ Goto(i, "reboot")
     \/ /\ pods' \in {pods, pods \ {i}}
        /\ Goto(i, IF pc[i] = "evict" /\ opts.deleteIfEvictionFails
                   THEN "delete" ELSE "failed")
  /\ Calls(i) /\ Program
  /\ UNCHANGED <<health, ver, disk, due, owed, cordoned, flaps, missed>>

Rebooting(i) == due' = due \cup {i} /\ owed' = owed \cup {i}

(* Reboot. Unavailable and Canceled count as success; they also come from  *)
(* a request that never reached the machine. Any other error is returned.  *)
Reboot(i) ==
  /\ pc[i] = "reboot" /\ phase = "upgrade"
  /\ \/ Rebooting(i) /\ (Goto(i, "watch") \/ Fails(i)) /\ UNCHANGED missed
     \/ UNCHANGED <<due, owed, missed>> /\ Fails(i)
     \/ UNCHANGED <<due, owed>> /\ Goto(i, "watch") /\ missed' = missed \cup {i}
  /\ Calls(i) /\ Program
  /\ UNCHANGED <<health, ver, disk, cordoned, pods, flaps>>

(* upgradeNodeLegacy: one RPC that installs, drains and reboots. *)
LegacyUpgrade(i) ==
  /\ pc[i] = "legacy" /\ phase = "upgrade"
  /\ \/ /\ disk' = [disk EXCEPT ![i] = "new"] /\ Rebooting(i)
        /\ Goto(i, "watch") \/ Fails(i)
     \/ UNCHANGED <<disk, due, owed>> /\ Fails(i)
  /\ Calls(i) /\ Program
  /\ UNCHANGED <<health, ver, cordoned, pods, flaps, missed>>

(* Stabilize, as in module Apply: a machine seen ready, *)
SeeReady(i) ==
  /\ pc[i] = "watch" /\ phase = "upgrade" /\ health[i] = "ready"
  /\ Goto(i, "window")
  /\ UNCHANGED <<machines, touched, missed>> /\ Program

WindowBroken(i) ==
  /\ pc[i] = "window" /\ phase = "upgrade" /\ health[i] # "ready"
  /\ Goto(i, "watch")
  /\ UNCHANGED <<machines, touched, missed>> /\ Program

(* that announces its reboot within the 30 seconds if it is to reboot. *)
WindowOver(i) ==
  /\ pc[i] = "window" /\ phase = "upgrade" /\ i \notin due
  /\ Goto(i, IF opts.drain /\ i \notin Legacy THEN "uncordon" ELSE "ok")
  /\ UNCHANGED <<machines, touched, missed>> /\ Program

(* Mutant of GiveUp: no time limit. *)
NeverGiveUp(i) == pc[i] = "watch" /\ phase = "upgrade" /\ UNCHANGED vars

GiveUp(i) ==
  /\ pc[i] = "watch" /\ phase = "upgrade"
  /\ Fails(i)
  /\ UNCHANGED <<machines, touched, missed>> /\ Program

(* Mutant of Uncordon: its error is logged and forgotten. *)
UncordonQuietly(i) ==
  /\ pc[i] = "uncordon" /\ phase = "upgrade"
  /\ cordoned' \in {cordoned, cordoned \ {i}} /\ Goto(i, "ok")
  /\ UNCHANGED <<health, ver, disk, due, owed, pods, flaps, touched, missed>> /\ Program

(* A new clientset and Uncordon. *)
Uncordon(i) ==
  /\ pc[i] = "uncordon" /\ phase = "upgrade"
  /\ \/ cordoned' = cordoned \ {i} /\ (Goto(i, "ok") \/ Fails(i))
     \/ UNCHANGED cordoned /\ Fails(i)
  /\ UNCHANGED <<health, ver, disk, due, owed, pods, flaps, touched, missed>> /\ Program

(* Execute returns once nothing is in flight. *)
UpgradeReturns ==
  /\ phase = "upgrade" /\ InFlight = {}
  /\ \/ FailedNodes # {} /\ Finish("error")
     \/ (\A i \in Nodes : pc[i] \in Through) /\ Finish("nil")
  /\ UNCHANGED <<machines, opts, info, pc, runs, yes, touched, missed>>

(* Ctrl-C ends the process. *)
Interrupt ==
  /\ phase # "idle" /\ Finish("interrupted")
  /\ UNCHANGED <<machines, opts, info, pc, runs, yes, touched, missed>>

NodeStep(i) ==
  \/ Start(i) \/ Prepare(i) \/ Install(i)
  \/ DrainClientset(i) \/ Cordon(i) \/ DrainPods(i)
  \/ Reboot(i) \/ LegacyUpgrade(i)
  \/ SeeReady(i) \/ WindowBroken(i) \/ WindowOver(i) \/ GiveUp(i)
  \/ Uncordon(i)

Next ==
  \/ MachineStep \/ Begin \/ Interrupt
  \/ \E i \in Nodes : Collect(i) \/ PlanNode(i) \/ NodeStep(i)
  \/ PreChecks \/ Planned \/ UpgradeReturns

Spec == Init /\ [][Next]_vars

(* Goroutines are scheduled, so a call comes back or hangs; the operator   *)
(* answers the prompts, and a machine told to reboot goes down.            *)
FairSpec ==
  /\ Spec
  /\ \A i \in Nodes : /\ WF_vars(Collect(i)) /\ WF_vars(PlanNode(i))
                      /\ WF_vars(NodeStep(i))
                      /\ WF_vars(GoDown(i) /\ MachineStep)
  /\ WF_vars(PreChecks) /\ WF_vars(Planned) /\ WF_vars(UpgradeReturns)

-----------------------------------------------------------------------------
(* Machines and Kubernetes nodes that the run took out of service: told to *)
(* reboot and not back yet, or cordoned by a run that drains.  What an     *)
(* earlier run left behind is not counted until this one touches it.       *)
OutOfService ==
  {i \in touched : i \in due \/ (opts.drain /\ i \in cordoned)}

(* A run takes at most one control-plane machine out of service at a time, *)
(* so etcd keeps its quorum (upgrade.go:93-95).                            *)
OneControlPlaneAtATime == Cardinality(OutOfService \cap ControlPlane) <= 1

(* No worker is rebooted or cordoned while the upgrade of a control-plane  *)
(* machine is not over.                                                    *)
WorkersAfterControlPlane ==
  OutOfService \cap Workers # {} => OutOfService \cap ControlPlane = {}

(* No more workers are rebooting or cordoned than --max-parallel resolves  *)
(* to, the ones left cordoned by a failure included.                       *)
WorkersWithinLimit ==
  Cardinality(OutOfService \cap Workers) <= Resolve(opts.maxParallel, N)

(* With --drain a machine is rebooted only when its Kubernetes node is     *)
(* cordoned and its pods are gone (upgrade.go:289-290).                    *)
DrainedBeforeReboot ==
  [][\A i \in owed' \ owed :
       opts.drain /\ i \notin Legacy => i \in cordoned /\ i \notin pods]_vars

(* A machine is changed only if every node passed the pre-checks, it ran   *)
(* another version when collected and, with --confirm, the operator said   *)
(* yes to it.                                                              *)
ChangedOnlyAsPlanned ==
  \A i \in touched :
    /\ \A j \in Nodes : info[j].stage \in {"ready", "unready"}
    /\ info[i].ver = "old"
    /\ opts.confirm => i \in yes

(* A nil result means that every node that was not declined runs the new   *)
(* version, unless its machine fell back or a lost Reboot was taken for    *)
(* one (upgrade.go:308-318), and, with --drain, that the Kubernetes nodes  *)
(* of the upgraded ones are schedulable again, also when an earlier run    *)
(* had failed.                                                             *)
ResultHonest ==
  phase = "idle" /\ result = "nil" /\ ~opts.dryRun =>
    \A i \in Nodes :
      /\ pc[i] # "declined" /\ i \notin missed => ver[i] = "new"
      /\ pc[i] = "ok" /\ opts.drain => i \notin cordoned

(* Nothing is left of the run but calls that hang: no other goroutine has  *)
(* a step to take, and no node can have its turn.                          *)
HeldUp ==
  /\ Hung # {}
  /\ \A i \in Nodes : info[i] # Unknown
  /\ InFlight \subseteq Hung
  /\ FailedNodes # {} \/ \A i \in Nodes : pc[i] = "queued" => ~Turn(i)

(* Every wait, drain, retry and prompt of a run comes to an end, whatever  *)
(* the machines do and whichever other nodes failed: the run ends, unless  *)
(* a call hangs that no timeout bounds; then it comes to hold nothing      *)
(* else.                                                                   *)
EndsOrHangs == phase # "idle" ~> (phase = "idle" \/ HeldUp)
=============================================================================
