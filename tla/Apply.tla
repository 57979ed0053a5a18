-------------------------------- MODULE Apply --------------------------------
(***************************************************************************)
(* `topf apply`: Execute, its pre-flight checks, the per-node apply with   *)
(* its dry run, prompt and stabilisation, and the etcd bootstrap at the    *)
(* end (src/internal/cmd/apply, src/internal/topf/apply.go and wait.go),   *)
(* over machines that restart, become ready, join etcd and fail on their   *)
(* own.  The operator may interrupt a run and start another.               *)
(*                                                                         *)
(* Worker nodes go through nodepool.RunConcurrent, which is represented by *)
(* the Rollout it implements: a worker starts while the goroutines that    *)
(* have not ended with a failed operation outnumber the busy ones.         *)
(***************************************************************************)
EXTENDS MaxParallel, FiniteSetsExt, Sequences

CONSTANTS
  NumCP,       (* control-plane nodes: 1 .. NumCP; LoadFromFile sorts them *)
               (* before the workers                                       *)
  N,           (* all nodes                                                *)
  Options,     (* the Options a run may be started with                    *)
  Selections,  (* the node sets --nodes-filter may leave                   *)
  Clusters,    (* the initial states of the machines                       *)
  MaxRuns,     (* bound: invocations of the command                        *)
  MaxFlaps,    (* bound: failures the machines suffer by themselves        *)
  MaxHangs     (* bound: calls of a run that never come back               *)

ASSUME ApplyAssumption ==
  /\ NumCP \in Nat /\ N \in Nat /\ NumCP <= N
  /\ MaxRuns \in Nat /\ MaxFlaps \in Nat /\ MaxHangs \in Nat
  /\ \A s \in Selections : s \subseteq 1 .. N
  /\ \A o \in Options : o.maxParallel \in MaxParallelFlag /\ ParseAccepts(o.maxParallel)
  /\ \A c \in Clusters :
       /\ c.health \in [1 .. N -> {"maintenance", "rebooting", "starting", "ready"}]
       /\ c.cfg \in [1 .. N -> {"desired", "other"}]
       /\ c.member \in [1 .. N -> 0 .. N]

Nodes == 1 .. N
ControlPlane == 1 .. NumCP
Workers == NumCP + 1 .. N

VARIABLES
  health,    (* the machine: "maintenance", "rebooting" (a stage topf does *)
             (* not process), "starting" (booting or running with unmet    *)
             (* conditions), "ready" (running, no unmet conditions)        *)
  cfg,       (* whether the machine has the "desired" config or an "other" *)
  member,    (* the founder of the etcd cluster a machine runs in, or 0    *)
  due,       (* machines that a config sent by topf disturbs until they    *)
             (* are ready again                                            *)
  owed,      (* those of them that have yet to restart for it              *)
  flaps,
  opts,      (* the running invocation's Options                           *)
  selected,  (* its nodes after --nodes-filter                             *)
  phase,     (* "idle", "collect", "apply", "probe", "rpc"                 *)
  info,      (* Node.Error or Node.MachineStatus, as collected             *)
  filtered,  (* the nodes that passed the pre-flight checks                *)
  skipPost,  (* opts.SkipPostApplyChecks after the pre-flight checks       *)
  pc,        (* pc[i]: where applyNode(i) is, or how it ended              *)
  prompts,   (* the prompts reading stdin, in the order they were printed  *)
  result,    (* what the last invocation returned                          *)
  runs,
  yes,       (* history: nodes the operator said yes to in this run        *)
  touched,   (* history: nodes sent a real ApplyConfiguration in this run  *)
  sawReady   (* history: nodes seen ready after their config was sent      *)

machines == <<health, cfg, member, due, owed, flaps>>
run == <<opts, selected, info, filtered, skipPost, runs>>
work == <<pc, prompts, yes, touched, sawReady>>
vars == <<machines, run, work, phase, result>>

NoOptions == [dryRun |-> FALSE, allowNotReady |-> FALSE,
              skipProblematic |-> FALSE, skipPost |-> FALSE,
              confirm |-> FALSE, autoBootstrap |-> FALSE,
              maxParallel |-> [value |-> 1, percent |-> FALSE]]

Init ==
  /\ \E c \in Clusters : health = c.health /\ cfg = c.cfg /\ member = c.member
  /\ due = {} /\ owed = {} /\ flaps = 0
  /\ opts = NoOptions /\ selected = {} /\ filtered = {} /\ skipPost = FALSE
  /\ phase = "idle" /\ result = "none" /\ runs = 0
  /\ info = [i \in Nodes |-> "unknown"]
  /\ pc = [i \in Nodes |-> "idle"]
  /\ prompts = <<>>
  /\ yes = {} /\ touched = {} /\ sawReady = {}

-----------------------------------------------------------------------------
(* The machines (external). *)

EtcdUp(i) == member[i] # 0 /\ health[i] \in {"starting", "ready"}

Restart(i) ==
  /\ i \in owed
  /\ owed' = owed \ {i}
  /\ health' = [health EXCEPT ![i] = "rebooting"]
  /\ UNCHANGED <<cfg, member, due, flaps>>

Boot(i) ==
  /\ health[i] = "rebooting"
  /\ health' = [health EXCEPT ![i] = "starting"]
  /\ UNCHANGED <<cfg, member, due, owed, flaps>>

(* A control-plane node is ready with its etcd running; every node needs   *)
(* the Kubernetes API, which needs some etcd member.                       *)
BecomeReady(i) ==
  /\ health[i] = "starting"
  /\ i \in ControlPlane => EtcdUp(i)
  /\ \E j \in ControlPlane : EtcdUp(j)
  /\ health' = [health EXCEPT ![i] = "ready"]
  /\ due' = due \ ({i} \ owed)
  /\ UNCHANGED <<cfg, member, owed, flaps>>

JoinEtcd(i) ==
  /\ health[i] = "starting" /\ member[i] = 0
  /\ \E j \in ControlPlane : EtcdUp(j) /\ member' = [member EXCEPT ![i] = member[j]]
  /\ UNCHANGED <<health, cfg, due, owed, flaps>>

Flap(i) ==
  /\ flaps < MaxFlaps
  /\ health[i] = "ready"
  /\ health' = [health EXCEPT ![i] = "starting"]
  /\ flaps' = flaps + 1
  /\ UNCHANGED <<cfg, member, due, owed>>

MachineStep ==
  /\ \/ \E i \in Nodes : Restart(i) \/ Boot(i) \/ BecomeReady(i) \/ Flap(i)
     \/ \E i \in ControlPlane : JoinEtcd(i)
  /\ UNCHANGED <<run, work, phase, result>>

(* What accepting a new config does to a machine: one in maintenance       *)
(* installs and reboots; another takes it as it is or is disturbed by it.  *)
Accept(i) ==
  /\ cfg' = [cfg EXCEPT ![i] = "desired"]
  /\ \/ /\ health[i] = "maintenance"
        /\ health' = [health EXCEPT ![i] = "rebooting"]
        /\ due' = due \cup {i}
        /\ UNCHANGED owed
     \/ /\ health[i] # "maintenance"
        /\ \E disturbed \in SUBSET {i} :
             due' = due \cup disturbed /\ owed' = owed \cup disturbed
        /\ UNCHANGED health
  /\ UNCHANGED <<member, flaps>>

-----------------------------------------------------------------------------
(* The command. *)

Finish(r) == phase' = "idle" /\ result' = r

(* Execute begins; --nodes-filter and the flags are fixed for the run. *)
Begin ==
  /\ phase = "idle" /\ runs < MaxRuns
  /\ opts' \in Options /\ selected' \in Selections
  /\ runs' = runs + 1
  /\ phase' = "collect" /\ result' = "none"
  /\ info' = [i \in Nodes |-> "unknown"]
  /\ pc' = [i \in Nodes |-> "idle"]
  /\ filtered' = {} /\ skipPost' = opts'.skipPost
  /\ prompts' = <<>> /\ yes' = {} /\ touched' = {} /\ sawReady' = {}
  /\ UNCHANGED machines

(* A call on a machine that is not answered: it returns an error, or it    *)
(* hangs. Only the machine ends it: root.go:100 runs the command under     *)
(* context.Background().                                                   *)
Hung == {i \in selected : "hung" \in {info[i], pc[i]}}
Unanswered(error) ==
  {error} \cup (IF Cardinality(Hung) < MaxHangs THEN {"hung"} ELSE {})

(* FilteredNodes: a goroutine per node reads the machine, or records the   *)
(* error of reading it or of generating its config.                        *)
Collect(i) ==
  /\ phase = "collect" /\ i \in selected /\ info[i] = "unknown"
  /\ \E seen \in {health[i]} \cup Unanswered("error") : info' = [info EXCEPT ![i] = seen]
  /\ UNCHANGED <<machines, work, phase, result, opts, selected, filtered,
                 skipPost, runs>>

(* Mutant of Problem: Node.Error is not looked at. *)
ProblemIgnoringErrors(i) ==
  info[i] = "rebooting" \/ (info[i] = "starting" /\ ~opts.allowNotReady)

Problem(i) ==
  \/ info[i] \in {"error", "rebooting"}
  \/ info[i] = "starting" /\ ~opts.allowNotReady

(* runPreflightChecks, on what was collected, not on what now is. *)
Preflight ==
  /\ phase = "collect"
  /\ \A i \in selected : info[i] \notin {"unknown", "hung"}
  /\ LET healthy == {i \in selected : ~Problem(i)} IN
       \/ /\ selected = {}
          /\ Finish("nil")
          /\ UNCHANGED <<filtered, skipPost>>
       \/ /\ selected # {}
          /\ healthy = {} \/ (healthy # selected /\ ~opts.skipProblematic)
          /\ Finish("error")
          /\ UNCHANGED <<filtered, skipPost>>
       \/ /\ healthy # {}
          /\ healthy = selected \/ opts.skipProblematic
          /\ phase' = "apply"
          /\ filtered' = healthy
          /\ skipPost' = (opts.skipPost
                            \/ \A i \in healthy : info[i] = "maintenance")
          /\ UNCHANGED result
  /\ UNCHANGED <<machines, work, opts, selected, info, runs>>

Ended == {"ok", "same", "declined", "changes"}
InFlight == {i \in filtered : pc[i] \in {"dryrun", "prompt", "send", "watch", "window", "hung"}}
FailedNodes == {i \in filtered : pc[i] = "failed"}
Before(i) == {j \in filtered : j < i}

(* Mutant of PoolFor: all workers at once. *)
PoolUnlimited(workers) == Cardinality(workers)

PoolFor(workers) ==
  PoolSize(Resolve(opts.maxParallel, Cardinality(filtered)), Cardinality(workers))

(* Mutants of Turn: the control plane goes through the pool as well; the   *)
(* workers do not wait for the control plane.                              *)
ControlPlaneInPool(i) ==
  Cardinality(InFlight \cup FailedNodes) < PoolFor(filtered \cap Workers)

WorkersAtOnce(i) ==
  IF opts.dryRun \/ i \in ControlPlane
  THEN \A j \in Before(i) : pc[j] \in Ended
  ELSE Cardinality(InFlight \cup FailedNodes) < PoolFor(filtered \cap Workers)

(* applyConfigs and applyDryRun: a node's turn. A dry run and the control  *)
(* plane go one node at a time, in order, and stop at the first error;     *)
(* then the pool has the workers. A goroutine may drop or delay the worker *)
(* it pulled, so they may start in any order.                              *)
Turn(i) ==
  IF opts.dryRun \/ i \in ControlPlane
  THEN \A j \in Before(i) : pc[j] \in Ended
  ELSE /\ \A j \in filtered \cap ControlPlane : pc[j] \in Ended
       /\ Cardinality(InFlight \cup FailedNodes) < PoolFor(filtered \cap Workers)

Start(i) ==
  /\ phase = "apply" /\ i \in filtered /\ pc[i] = "idle"
  /\ Turn(i)
  /\ pc' = [pc EXCEPT ![i] = "dryrun"]
  /\ UNCHANGED <<machines, run, phase, result, prompts, yes, touched, sawReady>>

(* Mutant of DryRunRPC: the dry-run option is forgotten. *)
DryRunForgotten(i) ==
  /\ phase = "apply" /\ pc[i] = "dryrun"
  /\ pc' = [pc EXCEPT ![i] = IF cfg[i] = "desired" THEN "same" ELSE "send"]
  /\ UNCHANGED <<machines, run, phase, result, prompts, yes, touched, sawReady>>

(* Node.Apply up to the prompt: the client and the dry-run RPC. *)
DryRunRPC(i) ==
  /\ phase = "apply" /\ pc[i] = "dryrun"
  /\ \E s \in Unanswered("failed") \cup {IF cfg[i] = "desired" THEN "same"
                                         ELSE IF opts.dryRun THEN "changes"
                                         ELSE IF opts.confirm THEN "prompt" ELSE "send"} :
       /\ pc' = [pc EXCEPT ![i] = s]
       /\ prompts' = IF s = "prompt" THEN Append(prompts, i) ELSE prompts
  /\ UNCHANGED <<machines, run, phase, result, yes, touched, sawReady>>

(* Mutant of Answer: no answer ever counts (the end of the input). *)
AnswerMissing(a) ==
  phase = "apply" /\ prompts # <<>> /\ a \in {"y", "n"} /\ UNCHANGED vars

(* ConfirmPrompt. The operator answers the prompt at the bottom of the     *)
(* screen, the last one printed; the line goes to the read(2) of stdin     *)
(* that has waited longest, the first one.                                 *)
Answer(a) ==
  /\ phase = "apply" /\ prompts # <<>>
  /\ pc' = [pc EXCEPT ![Head(prompts)] = IF a = "y" THEN "send" ELSE "declined"]
  /\ yes' = IF a = "y" THEN yes \cup {prompts[Len(prompts)]} ELSE yes
  /\ prompts' = Tail(prompts)
  /\ UNCHANGED <<machines, run, phase, result, touched, sawReady>>

(* The real ApplyConfiguration: done, not done, or done with the reply     *)
(* lost.                                                                   *)
Send(i) ==
  /\ phase = "apply" /\ pc[i] = "send"
  /\ touched' = touched \cup {i}
  /\ sawReady' = sawReady \ {i}
  /\ \/ Accept(i) /\ pc' = [pc EXCEPT ![i] = IF skipPost THEN "ok" ELSE "watch"]
     \/ /\ Accept(i) \/ UNCHANGED machines
        /\ \E s \in Unanswered("failed") : pc' = [pc EXCEPT ![i] = s]
  /\ UNCHANGED <<run, phase, result, prompts, yes>>

(* Stabilize: an attempt that finds the machine running and ready opens    *)
(* the stabilisation window.                                               *)
SeeReady(i) ==
  /\ phase = "apply" /\ pc[i] = "watch"
  /\ health[i] = "ready"
  /\ pc' = [pc EXCEPT ![i] = "window"]
  /\ sawReady' = sawReady \cup {i}
  /\ UNCHANGED <<machines, run, phase, result, prompts, yes, touched>>

(* An event in the window tells of a machine that is not; retry. *)
WindowBroken(i) ==
  /\ phase = "apply" /\ pc[i] = "window"
  /\ health[i] # "ready"
  /\ pc' = [pc EXCEPT ![i] = "watch"]
  /\ sawReady' = sawReady \ {i}
  /\ UNCHANGED <<machines, run, phase, result, prompts, yes, touched>>

(* The 30 seconds are over. A restart that the config causes is announced  *)
(* within them (assumed of the machine); any other failure may go unseen   *)
(* at the deadline, as select picks either ready channel.                  *)
WindowOver(i) ==
  /\ phase = "apply" /\ pc[i] = "window"
  /\ i \notin due
  /\ pc' = [pc EXCEPT ![i] = "ok"]
  /\ UNCHANGED <<machines, run, phase, result, prompts, yes, touched, sawReady>>

(* Mutant of GiveUp: the timeout is logged and forgotten. *)
GiveUpQuietly(i) ==
  /\ phase = "apply" /\ pc[i] = "watch"
  /\ pc' = [pc EXCEPT ![i] = "ok"]
  /\ UNCHANGED <<machines, run, phase, result, prompts, yes, touched, sawReady>>

(* 15 minutes of retries, or an attempt that hangs: the retry sets no      *)
(* timeout for one.                                                        *)
GiveUp(i) ==
  /\ phase = "apply" /\ pc[i] = "watch"
  /\ \E s \in Unanswered("failed") : pc' = [pc EXCEPT ![i] = s]
  /\ UNCHANGED <<machines, run, phase, result, prompts, yes, touched, sawReady>>

(* applyConfigs returns once nothing is in flight: at the first error, or  *)
(* when all nodes are through. Execute goes on to the bootstrap.           *)
ApplyReturns ==
  /\ phase = "apply" /\ InFlight = {}
  /\ \/ FailedNodes # {} /\ Finish("error")
     \/ /\ \A i \in filtered : pc[i] \in Ended
        /\ \/ \E i \in filtered : pc[i] = "changes" /\ Finish("changes")
           \/ /\ \A i \in filtered : pc[i] # "changes"
              /\ IF opts.autoBootstrap /\ ~opts.dryRun /\ Min(filtered) \in ControlPlane
                 THEN phase' = "probe" /\ UNCHANGED result
                 ELSE Finish("nil")
  /\ UNCHANGED <<machines, run, work>>

(* ServiceInfo(etcd) on the first node: "" without a config, "Preparing"   *)
(* until the member runs, then "Running".                                  *)
EtcdState(i) ==
  IF health[i] \in {"maintenance", "rebooting"} THEN ""
  ELSE IF member[i] = 0 THEN "Preparing" ELSE "Running"

(* tryBootstrap reads the state; anything else is retried. *)
ProbeEtcd ==
  /\ phase = "probe"
  /\ \/ EtcdState(Min(filtered)) = "Preparing" /\ phase' = "rpc" /\ UNCHANGED result
     \/ EtcdState(Min(filtered)) = "Running" /\ Finish("nil")
  /\ UNCHANGED <<machines, run, work>>

(* Mutants of BootstrapRPC: on any control-plane node; its error is taken  *)
(* for success.                                                            *)
BootstrapAnywhere ==
  /\ phase = "rpc"
  /\ \E b \in filtered \cap ControlPlane :
       /\ EtcdState(b) = "Preparing"
       /\ member' = [member EXCEPT ![b] = b]
  /\ phase' = "probe" \/ phase' = "idle"
  /\ UNCHANGED <<health, cfg, due, owed, flaps, run, work, result>>

BootstrapErrorIgnored ==
  /\ phase = "rpc"
  /\ Finish("nil")
  /\ LET b == Min(filtered) IN
       \/ EtcdState(b) = "Preparing" /\ member' = [member EXCEPT ![b] = b]
       \/ UNCHANGED member
  /\ UNCHANGED <<health, cfg, due, owed, flaps, run, work>>

(* The Bootstrap RPC, on a machine that may have changed since: it founds  *)
(* a cluster unless the machine has etcd data; its error is retried.       *)
BootstrapRPC ==
  /\ phase = "rpc"
  /\ LET b == Min(filtered) IN
       \/ /\ EtcdState(b) = "Preparing"
          /\ member' = [member EXCEPT ![b] = b]
          /\ Finish("nil") \/ (phase' = "probe" /\ UNCHANGED result)
       \/ phase' = "probe" /\ UNCHANGED <<member, result>>
  /\ UNCHANGED <<health, cfg, due, owed, flaps, run, work>>

BootstrapTimeout ==
  /\ phase = "probe"
  /\ Finish("error")
  /\ UNCHANGED <<machines, run, work>>

(* Ctrl-C: the context is never cancelled, the process just ends. *)
Interrupt ==
  /\ phase # "idle"
  /\ Finish("interrupted")
  /\ UNCHANGED <<machines, run, work>>

NodeStep(i) ==
  \/ Start(i) \/ DryRunRPC(i) \/ Send(i)
  \/ SeeReady(i) \/ WindowBroken(i) \/ WindowOver(i) \/ GiveUp(i)

CommandStep ==
  \/ \E i \in Nodes : Collect(i) \/ NodeStep(i)
  \/ Preflight
  \/ \E a \in {"y", "n"} : Answer(a)
  \/ ApplyReturns
  \/ ProbeEtcd \/ BootstrapRPC \/ BootstrapTimeout

Next == MachineStep \/ Begin \/ CommandStep \/ Interrupt

Spec == Init /\ [][Next]_vars

(* Goroutines are scheduled, so a call comes back or hangs, and a prompt   *)
(* is answered. BootstrapTimeout is strongly fair: the 10 minutes run out  *)
(* between two attempts, each of which ends within its 15 seconds          *)
(* (bootstrap.go:31-34), however often the RPC is retried.                 *)
CommandFairness ==
  /\ \A i \in Nodes : WF_vars(Collect(i)) /\ WF_vars(NodeStep(i))
  /\ WF_vars(Preflight) /\ WF_vars(\E a \in {"y", "n"} : Answer(a))
  /\ WF_vars(ApplyReturns) /\ WF_vars(BootstrapRPC) /\ SF_vars(BootstrapTimeout)

(* A machine restarts when its config asks for it, boots, joins etcd and   *)
(* becomes ready when it can.                                              *)
MachineFairness ==
  \A i \in Nodes :
    /\ WF_vars(Restart(i) /\ MachineStep) /\ WF_vars(Boot(i) /\ MachineStep)
    /\ WF_vars(BecomeReady(i) /\ MachineStep)
    /\ WF_vars(i \in ControlPlane /\ JoinEtcd(i) /\ MachineStep)

FairSpec == Spec /\ CommandFairness /\ MachineFairness

-----------------------------------------------------------------------------
(* Machines that the run disturbs and that did not come back yet.  What an *)
(* earlier run disturbed is not counted until this one touches it.         *)
Disturbed == due \cap touched

(* Within a run at most one control-plane machine is disturbed by it at    *)
(* any moment, so etcd keeps its quorum (apply.go:124-126): the next one   *)
(* is touched only when the previous one came back, whatever fails.        *)
OneControlPlaneAtATime ==
  ~skipPost => Cardinality(Disturbed \cap ControlPlane) <= 1

(* Workers are disturbed only while no control-plane machine is.           *)
WorkersAfterControlPlane ==
  ~skipPost /\ Disturbed \cap Workers # {} => Disturbed \cap ControlPlane = {}

(* No more workers are out of service because of the run than the value of *)
(* --max-parallel resolves to, the ones that failed to come back included. *)
WorkersWithinLimit ==
  ~skipPost => Cardinality(Disturbed \cap Workers)
                 <= Resolve(opts.maxParallel, Cardinality(filtered))

(* A machine is sent a config only if it passed the pre-flight checks of   *)
(* the run's flags, and none is when another one failed them, unless       *)
(* --skip-problematic-nodes allows it (apply.md, Flow, step 2).            *)
PreflightHonoured ==
  \A i \in touched :
    /\ i \in selected /\ info[i] \in {"maintenance", "ready", "starting"}
    /\ info[i] = "starting" => opts.allowNotReady
    /\ opts.skipProblematic
         \/ \A j \in selected :
              info[j] # "error" /\ info[j] # "rebooting"
                /\ (info[j] = "starting" => opts.allowNotReady)

(* With --confirm a machine is sent a config only when the operator said   *)
(* yes to the prompt on the screen for that machine                        *)
(* (docs/configuration.md:162).                                            *)
ConfirmedOnly == opts.confirm => touched \subseteq yes

(* A nil result means that every processed machine has the config or was   *)
(* declined, and that each one it was sent to was seen ready afterwards,   *)
(* unless the checks were skipped.                                         *)
ResultHonest ==
  phase = "idle" /\ result = "nil" /\ ~opts.dryRun =>
    \A i \in filtered :
      pc[i] # "declined" =>
        /\ cfg[i] = "desired"
        /\ i \in touched /\ ~skipPost => i \in sawReady

(* --dry-run changes no machine, founds no etcd cluster, and its exit code *)
(* says whether some machine would change.                                 *)
DryRunVerdict ==
  opts.dryRun =>
    /\ touched = {} /\ phase \notin {"probe", "rpc"}
    /\ result = "changes" => \E i \in filtered : cfg[i] = "other"
    /\ result = "nil" => \A i \in filtered : cfg[i] = "desired"

(* All etcd members belong to one cluster.                                 *)
OneEtcdCluster ==
  \A i, j \in ControlPlane : member[i] # 0 /\ member[j] # 0 => member[i] = member[j]

(* Nothing is left of the run but calls that hang: no other goroutine has  *)
(* a step to take, and no node can have its turn.                          *)
HeldUp ==
  /\ Hung # {}
  /\ \A i \in selected : info[i] # "unknown"
  /\ InFlight \subseteq Hung
  /\ FailedNodes # {} \/ \A i \in filtered : pc[i] = "idle" => ~Turn(i)

(* Every wait, retry and prompt of a run comes to an end, whatever the     *)
(* machines do and whichever other nodes failed: the run ends, unless a    *)
(* call hangs that no timeout bounds; then it comes to hold nothing else.  *)
EndsOrHangs == phase # "idle" ~> (phase = "idle" \/ HeldUp)

(* After a successful apply --auto-bootstrap of all nodes, with nothing    *)
(* declined, the cluster comes up: every machine becomes ready.            *)
BringUp ==
  (/\ phase = "idle" /\ result = "nil" /\ opts.autoBootstrap /\ ~opts.dryRun
   /\ filtered = Nodes /\ \A i \in Nodes : pc[i] # "declined")
    ~> (phase # "idle" \/ \A i \in Nodes : health[i] = "ready")

(* docs/commands/apply.md:110: --auto-bootstrap "has no influence if the   *)
(* cluster is already bootstrapped".                                       *)
BootstrapHarmless ==
  [][\A i \in ControlPlane :
       (member[i] = 0 /\ member'[i] = i) =>
         \A j \in ControlPlane : member[j] = 0]_vars
=============================================================================
