----------------------------- MODULE ApplyProofs -----------------------------
(***************************************************************************)
(* Proofs about `topf apply` for any number of control-plane nodes and     *)
(* workers, any options, filters and initial machines, and any number of   *)
(* runs one after the other: the order of the nodes and how many are       *)
(* disturbed at a time, the pre-flight checks, the dry run, what a nil     *)
(* result means, and when a second etcd cluster cannot come about.         *)
(***************************************************************************)
EXTENDS Apply, FiniteSetTheorems, SequenceTheorems, TLAPS

-----------------------------------------------------------------------------
(* The bounds of --max-parallel *)

(* MaxParallel.Resolve is at least 1 for whatever the flag accepts, and    *)
(* never exceeds the number of nodes there are to process                  *)
(* (nodepool.go:53-55).                                                    *)
LEMMA ResolveBounds ==
  ASSUME NEW b \in MaxParallelFlag, ParseAccepts(b), NEW total \in Nat
  PROVE  /\ Resolve(b, total) \in Nat \ {0}
         /\ total > 0 => Resolve(b, total) <= total
  <1> DEFINE k == total * b.value
  <1>1. b.value \in Int /\ b.value > 0 /\ k \in Int
    BY DEF MaxParallelFlag, ParseAccepts
  <1>2. Ceil100(k) \in Int
    BY <1>1 DEF Ceil100
  <1> HIDE DEF k
  <1>3. \A n \in Int : /\ AtMost(AtLeastOne(n), total) \in Nat \ {0}
                       /\ total > 0 => AtMost(AtLeastOne(n), total) <= total
    BY DEF AtMost, AtLeastOne
  <1>4. (IF b.percent THEN Ceil100(k) ELSE b.value) \in Int
    BY <1>1, <1>2
  <1> QED
    BY <1>3, <1>4 DEF Resolve, k

(* RunConcurrent starts at least one goroutine when there is a node, never *)
(* more than there are nodes and never more than it was asked for.         *)
LEMMA PoolSizeBounds ==
  ASSUME NEW n \in Nat \ {0}, NEW len \in Nat
  PROVE  /\ PoolSize(n, len) \in 0 .. len
         /\ PoolSize(n, len) <= n
         /\ len > 0 => PoolSize(n, len) >= 1
  BY DEF PoolSize, AtMost, AtLeastOne

(* There is a goroutine for one more node as long as there is a node left  *)
(* and fewer are taken than were asked for.                                *)
LEMMA PoolSizeRoom ==
  ASSUME NEW n \in Nat \ {0}, NEW len \in Nat, NEW k \in Nat, k < n, k < len
  PROVE  k < PoolSize(n, len)
  BY DEF PoolSize, AtMost, AtLeastOne

-----------------------------------------------------------------------------
Active == {"dryrun", "prompt", "send", "watch", "window"}
Engaged == Active \cup {"failed", "hung"}
Places == {"idle"} \cup Engaged \cup Ended

Types ==
  /\ health \in [Nodes -> {"maintenance", "rebooting", "starting", "ready"}]
  /\ cfg \in [Nodes -> {"desired", "other"}]
  /\ opts.maxParallel \in MaxParallelFlag /\ ParseAccepts(opts.maxParallel)
  /\ selected \subseteq Nodes /\ filtered \subseteq Nodes /\ touched \subseteq Nodes
  /\ phase \in {"idle", "collect", "apply", "probe", "rpc"}
  /\ info \in [Nodes -> {"unknown", "error", "hung", "maintenance", "rebooting",
                       "starting", "ready"}]
  /\ pc \in [Nodes -> Places]
  /\ prompts \in Seq(Nodes)

(* What the pre-flight checks let through. *)
Admitted ==
  /\ phase = "collect" => filtered = {}
  /\ phase \in {"apply", "probe", "rpc"} => filtered # {}
  /\ \A i \in filtered : i \in selected /\ ~Problem(i) /\ info[i] \notin {"unknown", "hung"}
  /\ filtered = {} \/ filtered = selected \/ opts.skipProblematic

(* The way of one node: where it is says what its machine has and whether  *)
(* the run still disturbs it.                                              *)
Way(i) ==
  /\ pc[i] # "idle" => i \in filtered
  /\ i \in touched => pc[i] \in {"watch", "window", "ok", "failed", "hung"}
  /\ opts.dryRun => /\ i \notin touched
                    /\ pc[i] \in {"idle", "dryrun", "same", "changes", "failed", "hung"}
  /\ pc[i] = "changes" => opts.dryRun /\ cfg[i] = "other"
  /\ pc[i] \in {"same", "watch", "window", "ok"} => cfg[i] = "desired"
  /\ pc[i] \in {"window", "ok"} /\ ~skipPost => i \in sawReady
  /\ pc[i] = "ok" /\ ~skipPost => i \notin due

(* The control plane goes one node at a time, in order, and so does a dry  *)
(* run; the workers come after the control plane.                          *)
InOrder ==
  \A i \in Nodes : pc[i] # "idle" =>
    IF opts.dryRun \/ i \in ControlPlane THEN \A j \in Before(i) : pc[j] \in Ended
    ELSE \A j \in filtered \cap ControlPlane : pc[j] \in Ended

Limit == Resolve(opts.maxParallel, Cardinality(filtered))
BusyWorkers == {i \in Workers : pc[i] \in Engaged}
Limited == ~opts.dryRun => Cardinality(BusyWorkers) <= Limit

(* The prompts on the screen are those of different nodes that wait.       *)
Asked ==
  /\ \A k \in 1 .. Len(prompts) : pc[prompts[k]] = "prompt"
  /\ \A k, l \in 1 .. Len(prompts) : prompts[k] = prompts[l] => k = l

AllThrough == \A i \in filtered : pc[i] \in Ended /\ pc[i] # "changes"
Verdict ==
  /\ phase # "idle" => result = "none"
  /\ phase \in {"probe", "rpc"} => ~opts.dryRun /\ AllThrough
  /\ result = "nil" => AllThrough
  /\ result = "changes" => \E i \in filtered : pc[i] = "changes"

IInv ==
  /\ Types /\ Admitted /\ (\A i \in Nodes : Way(i))
  /\ InOrder /\ Limited /\ Asked /\ Verdict


LEMMA Names ==
  /\ Active \subseteq Engaged /\ Engaged \subseteq Places /\ Ended \subseteq Places
  /\ \A s \in Active : s \notin Ended /\ s # "idle"
  /\ \A s \in Engaged : s \notin Ended /\ s # "idle"
  /\ "idle" \in Places /\ "idle" \notin Engaged /\ "idle" \notin Ended
  BY DEF Active, Engaged, Places, Ended

LEMMA WorkersFinite ==
  /\ IsFiniteSet(BusyWorkers) /\ Cardinality(BusyWorkers) \in Nat
  /\ \A S \in SUBSET BusyWorkers : Cardinality(S) <= Cardinality(BusyWorkers)
  <1>1. NumCP \in Int /\ N \in Int
    BY ApplyAssumption
  <1>2. IsFiniteSet(Workers)
    BY <1>1, FS_Interval DEF Workers
  <1>3. IsFiniteSet(BusyWorkers)
    BY <1>2, FS_Subset DEF BusyWorkers
  <1> QED
    BY <1>3, FS_CardinalityType, FS_Subset

LEMMA LimitPositive == Types => Limit \in Nat \ {0}
  <1> SUFFICES ASSUME Types PROVE Limit \in Nat \ {0}
    OBVIOUS
  <1>1. IsFiniteSet(Nodes)
    BY FS_Interval, ApplyAssumption DEF Nodes
  <1>2. Cardinality(filtered) \in Nat
    BY <1>1, FS_Subset, FS_CardinalityType DEF Types
  <1> QED
    BY <1>2, ResolveBounds DEF Types, Limit

(* As long as no node had its turn, there is nothing to be wrong about.    *)
Untouched ==
  /\ \A i \in Nodes : pc[i] = "idle"
  /\ touched = {} /\ prompts = <<>>

LEMMA NothingYet ==
  ASSUME Types, Untouched
  PROVE  (\A i \in Nodes : Way(i)) /\ InOrder /\ Limited /\ Asked
  <1>1. BusyWorkers = {}
    BY ApplyAssumption, Names DEF Untouched, BusyWorkers, Workers, Nodes
  <1>2. Limited
    BY <1>1, LimitPositive, FS_EmptySet DEF Limited
  <1>3. Asked
    BY DEF Untouched, Asked
  <1> QED
    BY <1>2, <1>3 DEF Untouched, Way, InOrder

LEMMA InitIInv == Init => IInv
  <1> SUFFICES ASSUME Init PROVE IInv
    OBVIOUS
  <1>1. Types
    BY ApplyAssumption
       DEF Init, Types, NoOptions, MaxParallelFlag, ParseAccepts, Nodes, Places
  <1>2. Untouched
    BY DEF Init, Untouched
  <1>3. Admitted /\ Verdict
    BY DEF Init, Admitted, Verdict
  <1> QED
    BY <1>1, <1>2, <1>3, NothingYet DEF IInv

-----------------------------------------------------------------------------
(* The machines, whose steps change no config and disturb nobody.          *)
LEMMA MachineStepIInv == IInv /\ MachineStep => IInv'
  <1> SUFFICES ASSUME IInv, MachineStep PROVE IInv'
    OBVIOUS
  <1>1. UNCHANGED <<run, work, phase, result, cfg>> /\ due' \subseteq due
    BY DEF MachineStep, Restart, Boot, BecomeReady, Flap, JoinEtcd
  <1>2. health' \in [Nodes -> {"maintenance", "rebooting", "starting", "ready"}]
    BY DEF MachineStep, Restart, Boot, BecomeReady, Flap, JoinEtcd, IInv, Types
  <1>3. Types'
    BY <1>1, <1>2 DEF IInv, Types, run, work
  <1>4. \A i \in Nodes : Way(i)'
    BY <1>1 DEF IInv, Way, run, work
  <1>5. Admitted' /\ InOrder' /\ Limited' /\ Asked' /\ Verdict'
    BY <1>1 DEF IInv, Admitted, Problem, InOrder, Before, Limited, BusyWorkers, Limit,
                Asked, Verdict, AllThrough, run, work
  <1> QED
    BY <1>3, <1>4, <1>5 DEF IInv

-----------------------------------------------------------------------------
(* Before the first node has its turn. *)
LEMMA BeginIInv == IInv /\ Begin => IInv'
  <1> SUFFICES ASSUME IInv, Begin PROVE IInv'
    OBVIOUS
  <1>1. Types'
    BY ApplyAssumption DEF IInv, Types, Begin, machines, Nodes, Places
  <1>2. Untouched'
    BY DEF Begin, Untouched
  <1>3. (\A i \in Nodes : Way(i))' /\ InOrder' /\ Limited' /\ Asked'
    BY <1>1, <1>2, NothingYet, PTL
  <1>4. Admitted' /\ Verdict'
    BY DEF Begin, Admitted, Verdict
  <1> QED
    BY <1>1, <1>3, <1>4 DEF IInv

LEMMA CollectIInv ==
  ASSUME IInv, NEW i \in Nodes, Collect(i)
  PROVE  IInv'
  <1>1. PICK seen \in {health[i], "error", "hung"} : info' = [info EXCEPT ![i] = seen]
    BY DEF Collect, Unanswered
  <1>2. /\ phase = "collect" /\ filtered = {}
        /\ UNCHANGED <<machines, work, phase, result, opts, selected, filtered, skipPost, runs>>
    BY DEF Collect, IInv, Admitted
  <1>3. Types'
    BY <1>1, <1>2 DEF IInv, Types, machines, work
  <1>4. Admitted'
    BY <1>2 DEF Admitted
  <1>5. \A j \in Nodes : Way(j)'
    BY <1>2 DEF IInv, Way, machines, work
  <1>6. InOrder' /\ Limited' /\ Asked' /\ Verdict'
    BY <1>2 DEF IInv, InOrder, Before, Limited, BusyWorkers, Limit,
                Asked, Verdict, AllThrough, work
  <1> QED
    BY <1>3, <1>4, <1>5, <1>6 DEF IInv

LEMMA CollectingUntouched ==
  ASSUME IInv, phase = "collect"
  PROVE  Untouched /\ filtered = {}
  <1>1. filtered = {} /\ \A i \in Nodes : pc[i] = "idle"
    BY DEF IInv, Admitted, Way
  <1>2. touched = {}
    BY <1>1 DEF IInv, Types, Way
  <1>3. prompts = <<>>
    <2>1. prompts \in Seq(Nodes) /\ Asked
      BY DEF IInv, Types
    <2>2. CASE Len(prompts) = 0
      BY <2>1, <2>2
    <2>3. CASE Len(prompts) # 0
      <3>1. Len(prompts) \in Nat /\ 1 \in 1 .. Len(prompts)
        BY <2>1, <2>3
      <3>2. prompts[1] \in Nodes /\ pc[prompts[1]] = "prompt"
        BY <2>1, <3>1 DEF Asked
      <3> QED
        BY <1>1, <3>2
    <2> QED
      BY <2>2, <2>3
  <1> QED
    BY <1>1, <1>2, <1>3 DEF Untouched

LEMMA PreflightIInv == IInv /\ Preflight => IInv'
  <1> SUFFICES ASSUME IInv, Preflight PROVE IInv'
    OBVIOUS
  <1>1. /\ phase = "collect" /\ \A i \in selected : info[i] \notin {"unknown", "hung"}
        /\ UNCHANGED <<machines, work, opts, selected, info, runs>>
    BY DEF Preflight
  <1>2. Untouched /\ filtered = {} /\ result = "none"
    BY <1>1, CollectingUntouched DEF IInv, Verdict
  <1>3. PICK healthy : healthy = {i \in selected : ~Problem(i)}
    OBVIOUS
  <1>4. \/ /\ phase' = "idle" /\ result' \in {"nil", "error"}
           /\ filtered' = {}
        \/ /\ healthy = selected \/ opts.skipProblematic
           /\ healthy # {}
           /\ phase' = "apply" /\ filtered' = healthy /\ result' = result
    BY <1>2, <1>3 DEF Preflight, Finish
  <1>5. Types'
    BY <1>1, <1>3, <1>4 DEF IInv, Types, machines, work
  <1>6. Untouched'
    BY <1>1, <1>2 DEF Untouched, work
  <1>7. (\A i \in Nodes : Way(i))' /\ InOrder' /\ Limited' /\ Asked'
    BY <1>5, <1>6, NothingYet, PTL
  <1>8. Admitted'
    BY <1>1, <1>3, <1>4 DEF Admitted, Problem
  <1>9. Verdict'
    BY <1>2, <1>4 DEF Verdict, AllThrough
  <1> QED
    BY <1>5, <1>7, <1>8, <1>9 DEF IInv

-----------------------------------------------------------------------------
(* The end of the applies, the bootstrap and Ctrl-C change only the phase, *)
(* the result and the etcd members.                                        *)
LEMMA PhaseMoves ==
  ASSUME IInv, UNCHANGED <<health, cfg, due, owed, flaps, run, work>>,
         phase \in {"apply", "probe", "rpc"} \/ phase' = "idle",
         phase' \in {"idle", "apply", "probe", "rpc"}, Verdict'
  PROVE  IInv'
  <1>1. Types'
    BY DEF IInv, Types, run, work
  <1>2. \A i \in Nodes : Way(i)'
    BY DEF IInv, Way, run, work
  <1>3. Admitted' /\ InOrder' /\ Limited' /\ Asked'
    BY DEF IInv, Admitted, Problem, InOrder, Before, Limited, BusyWorkers, Limit,
           Asked, run, work
  <1> QED
    BY <1>1, <1>2, <1>3 DEF IInv

LEMMA ApplyReturnsIInv == IInv /\ ApplyReturns => IInv'
  <1> SUFFICES ASSUME IInv, ApplyReturns PROVE IInv'
    OBVIOUS
  <1>1. UNCHANGED <<machines, run, work>> /\ phase = "apply"
    BY DEF ApplyReturns
  <1>2. \/ phase' = "idle" /\ result' = "error"
        \/ /\ phase' = "idle" /\ result' = "changes"
           /\ \E i \in filtered : pc[i] = "changes"
        \/ /\ AllThrough
           /\ \/ phase' = "probe" /\ result' = result /\ ~opts.dryRun
              \/ phase' = "idle" /\ result' = "nil"
    BY DEF ApplyReturns, Finish, AllThrough
  <1>3. Verdict'
    BY <1>1, <1>2 DEF IInv, Verdict, AllThrough, run, work
  <1> QED
    BY <1>1, <1>2, <1>3, PhaseMoves DEF machines

LEMMA BootstrapIInv ==
  IInv /\ (ProbeEtcd \/ BootstrapRPC \/ BootstrapTimeout) => IInv'
  <1> SUFFICES ASSUME IInv, ProbeEtcd \/ BootstrapRPC \/ BootstrapTimeout PROVE IInv'
    OBVIOUS
  <1>1. /\ UNCHANGED <<health, cfg, due, owed, flaps, run, work>>
        /\ phase \in {"probe", "rpc"}
        /\ \/ phase' \in {"probe", "rpc"} /\ result' = result
           \/ phase' = "idle" /\ result' \in {"nil", "error"}
    BY DEF ProbeEtcd, BootstrapRPC, BootstrapTimeout, Finish, machines
  <1>2. Verdict'
    BY <1>1 DEF IInv, Verdict, AllThrough, run, work
  <1> QED
    BY <1>1, <1>2, PhaseMoves

LEMMA InterruptIInv == IInv /\ Interrupt => IInv'
  <1> SUFFICES ASSUME IInv, Interrupt PROVE IInv'
    OBVIOUS
  <1>1. /\ UNCHANGED <<machines, run, work>>
        /\ phase' = "idle" /\ result' = "interrupted"
    BY DEF Interrupt, Finish
  <1>2. Verdict'
    BY <1>1 DEF Verdict
  <1> QED
    BY <1>1, <1>2, PhaseMoves DEF machines

-----------------------------------------------------------------------------
(* The apply of a node that had its turn goes on, fails or ends.           *)
Advances(i, s) ==
  /\ phase = "apply" /\ pc[i] \in Active /\ s \in Engaged \cup Ended
  /\ pc' = [pc EXCEPT ![i] = s]
  /\ UNCHANGED <<run, phase, result>>

Elsewhere(i) ==
  \A j \in Nodes \ {i} :
    /\ cfg'[j] = cfg[j] /\ (j \in due' <=> j \in due)
    /\ (j \in touched' <=> j \in touched) /\ (j \in sawReady' <=> j \in sawReady)

Moved(i, s) ==
  /\ pc' \in [Nodes -> Places] /\ pc'[i] = s
  /\ \A j \in Nodes \ {i} : pc'[j] = pc[j]

LEMMA AdvanceMoves ==
  ASSUME IInv, NEW i \in Nodes, NEW s, Advances(i, s)
  PROVE  Moved(i, s)
  BY Names DEF Advances, IInv, Types, Places, Moved

LEMMA AdvanceOrder ==
  ASSUME IInv, NEW i \in Nodes, NEW s, Advances(i, s)
  PROVE  Admitted' /\ InOrder' /\ Limited' /\ Verdict'
  <1>1. /\ Moved(i, s) /\ UNCHANGED <<run, phase, result>>
        /\ phase = "apply" /\ pc[i] \in Active
        /\ s \in Engaged \cup Ended
    BY AdvanceMoves DEF Advances
  <1>2. Admitted'
    BY <1>1 DEF IInv, Admitted, Problem, run
  <1>3. InOrder'
    <2>1. \A j \in Nodes : pc[j] \in Ended => pc'[j] \in Ended
      BY <1>1, Names DEF Moved
    <2>2. \A j \in Nodes : pc'[j] # "idle" => pc[j] # "idle"
      BY <1>1, Names DEF Moved
    <2>3. filtered \subseteq Nodes
      BY DEF IInv, Types
    <2> QED
      BY <1>1, <2>1, <2>2, <2>3 DEF IInv, InOrder, Before, run
  <1>4. Limited'
    <2>1. BusyWorkers' \subseteq BusyWorkers
      BY <1>1, Names, ApplyAssumption DEF Moved, BusyWorkers, Workers, Nodes
    <2>2. Cardinality(BusyWorkers') <= Cardinality(BusyWorkers)
      BY <2>1, WorkersFinite
    <2>3. Cardinality(BusyWorkers') \in Nat
      BY <2>1, WorkersFinite, FS_Subset, FS_CardinalityType
    <2>4. Limit \in Nat /\ Limit' = Limit
      BY <1>1, LimitPositive DEF IInv, Limit, run
    <2> QED
      BY <1>1, <2>2, <2>3, <2>4, WorkersFinite DEF IInv, Limited, run
  <1>5. Verdict'
    BY <1>1 DEF IInv, Verdict
  <1> QED
    BY <1>2, <1>3, <1>4, <1>5

(* What is left to show of a step of an apply.                             *)
LEMMA AdvanceKeeps ==
  ASSUME IInv, NEW i \in Nodes, NEW s, Advances(i, s), Elsewhere(i),
         health' \in [Nodes -> {"maintenance", "rebooting", "starting", "ready"}],
         cfg' \in [Nodes -> {"desired", "other"}],
         touched' \subseteq Nodes, prompts' \in Seq(Nodes),
         Way(i)', Asked'
  PROVE  IInv'
  <1>1. Moved(i, s) /\ UNCHANGED <<run, phase, result>>
    BY AdvanceMoves DEF Advances
  <1>2. Types'
    BY <1>1 DEF IInv, Types, Moved, run
  <1>3. \A j \in Nodes : Way(j)'
    BY <1>1 DEF IInv, Way, Moved, Elsewhere, run
  <1> QED
    BY <1>2, <1>3, AdvanceOrder DEF IInv

(* Who has no prompt on the screen leaves the others' alone.               *)
LEMMA AskedKept ==
  ASSUME IInv, NEW i \in Nodes, NEW s, Moved(i, s), pc[i] # "prompt", prompts' = prompts
  PROVE  Asked' /\ prompts' \in Seq(Nodes)
  <1>1. prompts \in Seq(Nodes) /\ Asked
    BY DEF IInv, Types
  <1>2. \A k \in 1 .. Len(prompts) : prompts[k] \in Nodes \ {i}
    BY <1>1 DEF Asked
  <1> QED
    BY <1>1, <1>2 DEF Asked, Moved

LEMMA DryRunRPCIInv ==
  ASSUME IInv, NEW i \in Nodes, DryRunRPC(i) PROVE IInv'
  <1>1. PICK s \in {"failed", "hung", "same", "changes", "prompt", "send"} :
          /\ pc' = [pc EXCEPT ![i] = s]
          /\ prompts' = IF s = "prompt" THEN Append(prompts, i) ELSE prompts
          /\ s = "same" => cfg[i] = "desired"
          /\ s \in {"changes", "prompt", "send"} => cfg[i] # "desired"
          /\ s = "changes" => opts.dryRun
          /\ s \in {"prompt", "send"} => ~opts.dryRun
    BY DEF DryRunRPC, Unanswered
  <1>2. /\ pc[i] = "dryrun" /\ Advances(i, s)
        /\ UNCHANGED <<machines, run, yes, touched, sawReady>>
    BY <1>1 DEF DryRunRPC, Advances, Active, Engaged, Ended
  <1>3. Moved(i, s) /\ i \notin touched
    BY <1>2, AdvanceMoves DEF IInv, Way
  <1>4. Elsewhere(i)
    BY <1>1, <1>2, <1>3 DEF Elsewhere, machines
  <1>5. Way(i)'
    BY <1>1, <1>2, <1>3 DEF IInv, Types, Way, machines, run, Moved
  <1>6. Asked' /\ prompts' \in Seq(Nodes)
    <2>1. prompts \in Seq(Nodes) /\ Asked
      BY DEF IInv, Types
    <2>2. CASE s # "prompt"
      BY <1>1, <1>2, <1>3, <2>2, AskedKept
    <2>3. CASE s = "prompt"
      <3>1. /\ prompts' = Append(prompts, i) /\ prompts' \in Seq(Nodes)
            /\ Len(prompts') = Len(prompts) + 1 /\ Len(prompts) \in Nat
            /\ prompts'[Len(prompts) + 1] = i
            /\ \A k \in 1 .. Len(prompts) : prompts'[k] = prompts[k]
        BY <1>1, <2>1, <2>3
      <3>2. \A k \in 1 .. Len(prompts) : prompts[k] \in Nodes \ {i}
        BY <1>2, <2>1 DEF Asked
      <3>3. \A k \in 1 .. Len(prompts') : k = Len(prompts) + 1 \/ k \in 1 .. Len(prompts)
        BY <3>1
      <3>4. \A k \in 1 .. Len(prompts') : pc'[prompts'[k]] = "prompt"
        BY <1>3, <2>1, <2>3, <3>1, <3>2, <3>3 DEF Asked, Moved
      <3>5. \A k, l \in 1 .. Len(prompts') : prompts'[k] = prompts'[l] => k = l
        BY <2>1, <3>1, <3>2, <3>3 DEF Asked
      <3> QED
        BY <3>1, <3>4, <3>5 DEF Asked
    <2> QED
      BY <2>2, <2>3
  <1> QED
    BY <1>2, <1>4, <1>5, <1>6, AdvanceKeeps DEF IInv, Types, machines

LEMMA AnswerIInv ==
  ASSUME IInv, NEW a \in {"y", "n"}, Answer(a) PROVE IInv'
  <1> DEFINE s == IF a = "y" THEN "send" ELSE "declined"
  <1>0. PICK i \in Nodes : i = Head(prompts)
    BY DEF Answer, IInv, Types
  <1>1. /\ prompts \in Seq(Nodes) /\ Asked /\ prompts # <<>>
        /\ Len(prompts) \in Nat /\ Len(prompts) # 0
        /\ pc' = [pc EXCEPT ![i] = s] /\ prompts' = Tail(prompts)
        /\ yes' = IF a = "y" THEN yes \cup {prompts[Len(prompts)]} ELSE yes
        /\ UNCHANGED <<machines, run, phase, result, touched, sawReady>>
    BY <1>0 DEF Answer, IInv, Types
  <1>2. i = prompts[1] /\ pc[i] = "prompt"
    BY <1>0, <1>1 DEF Asked
  <1>3. Advances(i, s)
    BY <1>1, <1>2 DEF Answer, Advances, Active, Engaged, Ended
  <1>4. Moved(i, s)
    BY <1>2, <1>3, AdvanceMoves
  <1>5. Elsewhere(i)
    BY <1>1 DEF Elsewhere, machines
  <1>6. Way(i)'
    BY <1>1, <1>2, <1>4 DEF IInv, Way, machines, run, Moved
  <1>7. Asked' /\ prompts' \in Seq(Nodes)
    <2>1. /\ prompts' \in Seq(Nodes) /\ Len(prompts') = Len(prompts) - 1
          /\ \A k \in 1 .. Len(prompts') :
               prompts'[k] = prompts[k + 1] /\ k + 1 \in 1 .. Len(prompts)
      BY <1>1
    <2>2. \A k \in 1 .. Len(prompts') : prompts'[k] \in Nodes /\ prompts'[k] # i
      <3>1. ASSUME NEW k \in 1 .. Len(prompts'), prompts'[k] = i PROVE FALSE
        <4>1. k + 1 \in 1 .. Len(prompts) /\ 1 \in 1 .. Len(prompts)
          BY <1>1, <2>1
        <4>2. prompts[k + 1] = prompts[1]
          BY <1>2, <2>1, <3>1
        <4>3. k + 1 = 1
          BY <1>1, <4>1, <4>2 DEF Asked
        <4> QED
          BY <4>3
      <3> QED
        BY <2>1, <3>1
    <2>3. \A k \in 1 .. Len(prompts') : pc'[prompts'[k]] = "prompt"
      BY <1>1, <1>4, <2>1, <2>2 DEF Asked, Moved
    <2>4. \A k, l \in 1 .. Len(prompts') : prompts'[k] = prompts'[l] => k = l
      <3>1. ASSUME NEW k \in 1 .. Len(prompts'), NEW l \in 1 .. Len(prompts'),
                   prompts'[k] = prompts'[l]
            PROVE  k = l
        <4>1. k + 1 = l + 1
          BY <1>1, <2>1, <3>1 DEF Asked
        <4> QED
          BY <4>1
      <3> QED
        BY <3>1
    <2> QED
      BY <2>1, <2>3, <2>4 DEF Asked
  <1> QED
    BY <1>1, <1>2, <1>3, <1>5, <1>6, <1>7, AdvanceKeeps DEF IInv, Types, machines

LEMMA SendIInv ==
  ASSUME IInv, NEW i \in Nodes, Send(i) PROVE IInv'
  <1>1. PICK s \in {"ok", "watch", "failed", "hung"} :
          /\ pc' = [pc EXCEPT ![i] = s]
          /\ s = "ok" => skipPost
          /\ Accept(i) \/ (UNCHANGED machines /\ s \in {"failed", "hung"})
    BY DEF Send, Unanswered
  <1>2. /\ pc[i] = "send" /\ Advances(i, s)
        /\ touched' = touched \cup {i} /\ sawReady' = sawReady \ {i}
        /\ UNCHANGED <<prompts, yes, run>>
    BY <1>1 DEF Send, Advances, Active, Engaged, Ended
  <1>3. Moved(i, s)
    BY <1>2, AdvanceMoves
  <1>4. /\ health' \in [Nodes -> {"maintenance", "rebooting", "starting", "ready"}]
        /\ cfg' \in [Nodes -> {"desired", "other"}]
        /\ s \in {"ok", "watch"} => cfg'[i] = "desired"
        /\ \A j \in Nodes \ {i} : cfg'[j] = cfg[j] /\ (j \in due' <=> j \in due)
    BY <1>1 DEF Accept, machines, IInv, Types
  <1>5. Elsewhere(i)
    BY <1>2, <1>4 DEF Elsewhere
  <1>6. Way(i)'
    BY <1>1, <1>2, <1>3, <1>4 DEF IInv, Way, run, Moved
  <1>7. Asked' /\ prompts' \in Seq(Nodes)
    BY <1>2, <1>3, AskedKept
  <1>8. touched' \subseteq Nodes
    BY <1>2 DEF IInv, Types
  <1> QED
    BY <1>2, <1>4, <1>5, <1>6, <1>7, <1>8, AdvanceKeeps

(* The steps of Stabilize.                                                 *)
LEMMA StabilizeIInv ==
  ASSUME IInv, NEW i \in Nodes,
         SeeReady(i) \/ WindowBroken(i) \/ WindowOver(i) \/ GiveUp(i)
  PROVE  IInv'
  <1>1. PICK s \in {"window", "watch", "ok", "failed", "hung"} :
          /\ pc' = [pc EXCEPT ![i] = s]
          /\ s = "window" => sawReady' = sawReady \cup {i}
          /\ s = "watch" => sawReady' = sawReady \ {i}
          /\ s = "ok" => pc[i] = "window" /\ i \notin due /\ sawReady' = sawReady
          /\ s \in {"failed", "hung"} => sawReady' = sawReady
    BY DEF SeeReady, WindowBroken, WindowOver, GiveUp, Unanswered
  <1>2. /\ pc[i] \in {"watch", "window"} /\ Advances(i, s)
        /\ UNCHANGED <<machines, run, prompts, yes, touched>>
    BY <1>1 DEF SeeReady, WindowBroken, WindowOver, GiveUp, Advances, Active, Engaged, Ended
  <1>3. Moved(i, s)
    BY <1>2, AdvanceMoves
  <1>4. Elsewhere(i)
    BY <1>1, <1>2, <1>3 DEF Elsewhere, machines
  <1>5. Way(i)'
    BY <1>1, <1>2, <1>3 DEF IInv, Way, machines, run, Moved
  <1>6. Asked' /\ prompts' \in Seq(Nodes)
    BY <1>2, <1>3, AskedKept
  <1> QED
    BY <1>2, <1>4, <1>5, <1>6, AdvanceKeeps DEF IInv, Types, machines

-----------------------------------------------------------------------------
(* With the control plane through, who works or has failed is a worker.    *)
LEMMA OnlyWorkers ==
  ASSUME IInv, \A j \in filtered \cap ControlPlane : pc[j] \in Ended
  PROVE  /\ InFlight \cup FailedNodes = BusyWorkers
         /\ BusyWorkers \subseteq filtered \cap Workers
  <1>1. \A j \in Nodes : j \in ControlPlane \/ j \in Workers
    BY ApplyAssumption DEF Nodes, ControlPlane, Workers
  <1>2. filtered \subseteq Nodes /\ Workers \subseteq Nodes
    BY ApplyAssumption DEF IInv, Types, Nodes, Workers
  <1>3. \A j \in filtered \cap ControlPlane : pc[j] \notin Engaged
    BY Names
  <1>4. \A j \in Nodes : pc[j] \in Engaged => j \in filtered
    BY Names DEF IInv, Way
  <1> QED
    BY <1>1, <1>2, <1>3, <1>4 DEF InFlight, FailedNodes, BusyWorkers, Engaged, Active

(* The turn of a node: it is the next one of the control plane, or one     *)
(* more worker within the limit after the whole control plane.             *)
LEMMA StartIInv ==
  ASSUME IInv, NEW i \in Nodes, Start(i) PROVE IInv'
  <1>1. /\ phase = "apply" /\ i \in filtered /\ pc[i] = "idle" /\ Turn(i)
        /\ pc' = [pc EXCEPT ![i] = "dryrun"]
        /\ UNCHANGED <<machines, run, phase, result, prompts, yes, touched, sawReady>>
    BY DEF Start
  <1>2. /\ "dryrun" \in Active /\ "dryrun" \in Engaged /\ "dryrun" \in Places
    BY DEF Active, Engaged, Places
  <1>3. Moved(i, "dryrun")
    BY <1>1, <1>2 DEF IInv, Types, Moved
  <1>4. Types'
    BY <1>1, <1>3 DEF IInv, Types, Moved, machines, run
  <1>5. Admitted'
    BY <1>1 DEF IInv, Admitted, Problem, run
  <1>6. ASSUME NEW j \in Nodes PROVE Way(j)'
    BY <1>1, <1>3 DEF IInv, Way, Moved, machines, run
  <1>7. InOrder'
    <2>1. \A j \in Nodes : pc[j] \in Ended => pc'[j] \in Ended
      BY <1>1, <1>3, Names DEF Moved
    <2>2. filtered \subseteq Nodes
      BY DEF IInv, Types
    <2>3. IF opts.dryRun \/ i \in ControlPlane THEN \A j \in Before(i) : pc[j] \in Ended
          ELSE \A j \in filtered \cap ControlPlane : pc[j] \in Ended
      BY <1>1 DEF Turn
    <2> QED
      BY <1>1, <1>3, <2>1, <2>2, <2>3 DEF IInv, InOrder, Before, Moved, run
  <1>8. Limited'
    <2> SUFFICES ASSUME ~opts.dryRun PROVE (Cardinality(BusyWorkers) <= Limit)'
      BY <1>1 DEF Limited, run
    <2>1. /\ Limit' = Limit /\ Limit \in Nat \ {0}
          /\ Cardinality(BusyWorkers) <= Limit
      BY <1>1, LimitPositive DEF IInv, Limited, Limit, run
    <2>2. CASE i \in ControlPlane
      <3>1. BusyWorkers' = BusyWorkers
        BY <1>3, <2>2, ApplyAssumption DEF Moved, BusyWorkers, Workers, ControlPlane, Nodes
      <3> QED
        BY <2>1, <3>1
    <2>3. CASE i \notin ControlPlane
      <3>1. /\ \A j \in filtered \cap ControlPlane : pc[j] \in Ended
            /\ Cardinality(InFlight \cup FailedNodes) < PoolFor(filtered \cap Workers)
        BY <1>1, <2>3 DEF Turn
      <3>2. InFlight \cup FailedNodes = BusyWorkers
        BY <3>1, OnlyWorkers
      <3>3. BusyWorkers' = BusyWorkers \cup {i} /\ i \notin BusyWorkers
        <4>1. i \in Workers /\ Workers \subseteq Nodes
          BY <2>3, ApplyAssumption DEF Nodes, ControlPlane, Workers
        <4> QED
          BY <1>1, <1>2, <1>3, <4>1, Names DEF BusyWorkers, Moved
      <3>4. Cardinality(BusyWorkers') = Cardinality(BusyWorkers) + 1
        BY <3>3, WorkersFinite, FS_AddElement
      <3>5. PoolFor(filtered \cap Workers) \in Nat /\ PoolFor(filtered \cap Workers) <= Limit
        <4>1. IsFiniteSet(Workers)
          BY FS_Interval, ApplyAssumption DEF Workers
        <4>2. Cardinality(filtered \cap Workers) \in Nat
          BY <4>1, FS_Subset, FS_CardinalityType
        <4> QED
          BY <2>1, <4>2, PoolSizeBounds DEF PoolFor, Limit
      <3> QED
        BY <2>1, <3>1, <3>2, <3>4, <3>5, WorkersFinite
    <2> QED
      BY <2>2, <2>3
  <1>9. Asked'
    BY <1>1, <1>3, AskedKept
  <1>10. Verdict'
    BY <1>1 DEF IInv, Verdict
  <1> QED
    BY <1>4, <1>5, <1>6, <1>7, <1>8, <1>9, <1>10 DEF IInv

-----------------------------------------------------------------------------
LEMMA NextIInv == IInv /\ [Next]_vars => IInv'
  <1> SUFFICES ASSUME IInv, [Next]_vars PROVE IInv'
    OBVIOUS
  <1>1. ASSUME CommandStep PROVE IInv'
    BY <1>1, CollectIInv, StartIInv, DryRunRPCIInv, SendIInv, StabilizeIInv, PreflightIInv,
       AnswerIInv, ApplyReturnsIInv, BootstrapIInv DEF CommandStep, NodeStep
  <1>2. ASSUME UNCHANGED vars PROVE IInv'
    <2>1. UNCHANGED <<machines, run, work, phase, result>>
      BY <1>2 DEF vars
    <2>2. Verdict'
      BY <2>1 DEF IInv, Verdict, AllThrough, run, work
    <2>3. Types' /\ Admitted'
      BY <2>1 DEF IInv, Types, Admitted, Problem, machines, run, work
    <2>4. \A i \in Nodes : Way(i)'
      BY <2>1 DEF IInv, Way, machines, run, work
    <2>5. InOrder' /\ Limited' /\ Asked'
      BY <2>1 DEF IInv, InOrder, Before, Limited, BusyWorkers, Limit, Asked, run, work
    <2> QED
      BY <2>2, <2>3, <2>4, <2>5 DEF IInv
  <1> QED
    BY <1>1, <1>2, MachineStepIInv, BeginIInv, InterruptIInv DEF Next

(* What the proofs rest on: only admitted nodes have their turn, each in   *)
(* order and within the limit, and where a node is says what its machine   *)
(* has and whether the run still disturbs it.                              *)
THEOREM ApplyIInv == Spec => []IInv
  BY InitIInv, NextIInv, PTL DEF Spec

(* What the promise of the pool permits is in the model: once the control  *)
(* plane is through, a worker has its turn whenever Rollout may start it,  *)
(* with fewer workers running or failed than the limit.                    *)
RolloutAdmitted ==
  \A i \in filtered \cap Workers :
    /\ ~opts.dryRun /\ pc[i] = "idle"
    /\ \A j \in filtered \cap ControlPlane : pc[j] \in Ended
    /\ Cardinality({j \in filtered \cap Workers : pc[j] \in Engaged}) < Limit
    => Turn(i)

(* A step that nodepool.RunConcurrent can take with the workers is one of  *)
(* the model's: it has no fewer steps than the pool, whose promise         *)
(* NodePoolProofs shows to be Rollout.                                     *)
THEOREM ApplyAdmitsRollout == Spec => []RolloutAdmitted
  <1>1. IInv => RolloutAdmitted
    <2> DEFINE Pooled == filtered \cap Workers
    <2> SUFFICES ASSUME IInv, NEW i \in Pooled, ~opts.dryRun, pc[i] = "idle",
                        \A j \in filtered \cap ControlPlane : pc[j] \in Ended,
                        Cardinality({j \in Pooled : pc[j] \in Engaged}) < Limit
                 PROVE  Turn(i)
      BY DEF RolloutAdmitted
    <2>1. InFlight \cup FailedNodes = BusyWorkers /\ BusyWorkers \subseteq Pooled
      BY OnlyWorkers
    <2>2. {j \in Pooled : pc[j] \in Engaged} = BusyWorkers
      BY <2>1 DEF BusyWorkers
    <2>3. IsFiniteSet(Pooled) /\ Cardinality(Pooled) \in Nat
      <3>1. IsFiniteSet(Workers)
        BY FS_Interval, ApplyAssumption DEF Workers
      <3> QED
        BY <3>1, FS_Subset, FS_CardinalityType
    <2>4. BusyWorkers # Pooled
      BY Names DEF BusyWorkers
    <2> HIDE DEF Pooled
    <2>5. Cardinality(BusyWorkers) < Cardinality(Pooled)
      BY <2>1, <2>3, <2>4, WorkersFinite, FS_Subset
    <2>6. Cardinality(BusyWorkers) < PoolSize(Limit, Cardinality(Pooled))
      BY <2>2, <2>3, <2>5, WorkersFinite, LimitPositive, PoolSizeRoom DEF IInv
    <2>7. i \notin ControlPlane
      BY ApplyAssumption DEF Workers, ControlPlane, Pooled
    <2> QED
      BY <2>1, <2>6, <2>7 DEF Turn, PoolFor, Limit, Pooled
  <1> QED
    BY <1>1, ApplyIInv, PTL

(* A machine that the run disturbs is one that topf waits for or failed    *)
(* on.                                                                     *)
LEMMA DisturbedEngaged ==
  ASSUME IInv, ~skipPost, NEW i \in Disturbed
  PROVE  /\ i \in Nodes /\ i \in filtered /\ ~opts.dryRun
         /\ pc[i] \in Engaged /\ pc[i] # "idle" /\ pc[i] \notin Ended
  <1>1. i \in Nodes /\ pc[i] \in {"watch", "window", "ok", "failed", "hung"} /\ ~opts.dryRun
    BY DEF Disturbed, IInv, Types, Way
  <1>2. pc[i] # "ok"
    BY <1>1 DEF Disturbed, IInv, Way
  <1>3. pc[i] \in Engaged
    BY <1>1, <1>2 DEF Engaged, Active
  <1> QED
    BY <1>1, <1>3, Names DEF IInv, Way

(* A run that waits for its nodes never disturbs two control-plane         *)
(* machines at a time (apply.applyConfigs).                                *)
THEOREM ApplyOneControlPlaneAtATime == Spec => []OneControlPlaneAtATime
  <1>1. IInv => OneControlPlaneAtATime
    <2> SUFFICES ASSUME IInv, ~skipPost
                 PROVE  Cardinality(Disturbed \cap ControlPlane) <= 1
      BY DEF OneControlPlaneAtATime
    <2> DEFINE S == Disturbed \cap ControlPlane
    <2>1. ASSUME NEW i \in S, NEW j \in S, i < j PROVE FALSE
      <3>1. i \in Before(j)
        BY <2>1, DisturbedEngaged DEF Before
      <3>2. pc[i] \in Ended
        BY <2>1, <3>1, DisturbedEngaged DEF IInv, InOrder
      <3> QED
        BY <2>1, <3>2, DisturbedEngaged
    <2>2. \A i, j \in S : i = j
      BY <2>1, ApplyAssumption DEF ControlPlane
    <2>3. S = {} \/ \E x : S = {x}
      BY <2>2
    <2> HIDE DEF S
    <2>4. S = {} => Cardinality(S) = 0
      BY FS_EmptySet
    <2>5. ASSUME NEW x, S = {x} PROVE Cardinality(S) = 1
      BY <2>5, FS_Singleton
    <2>6. Cardinality(S) <= 1
      BY <2>3, <2>4, <2>5
    <2> QED
      BY <2>6 DEF S
  <1> QED
    BY <1>1, ApplyIInv, PTL

(* No worker is disturbed before the control plane is through and back     *)
(* (apply.applyConfigs).                                                   *)
THEOREM ApplyWorkersAfterControlPlane == Spec => []WorkersAfterControlPlane
  <1>1. IInv => WorkersAfterControlPlane
    <2> SUFFICES ASSUME IInv, ~skipPost, NEW w \in Disturbed \cap Workers,
                        NEW i \in Disturbed \cap ControlPlane
                 PROVE  FALSE
      BY DEF WorkersAfterControlPlane
    <2>1. w \notin ControlPlane
      BY ApplyAssumption DEF Workers, ControlPlane
    <2>2. pc[i] \in Ended
      BY <2>1, DisturbedEngaged DEF IInv, InOrder
    <2> QED
      BY <2>2, DisturbedEngaged
  <1> QED
    BY <1>1, ApplyIInv, PTL

(* However the applies end, no more workers are disturbed at a time than   *)
(* --max-parallel allows (nodepool.RunConcurrent, Resolve).                *)
THEOREM ApplyWorkersWithinLimit == Spec => []WorkersWithinLimit
  <1>1. IInv => WorkersWithinLimit
    <2> SUFFICES ASSUME IInv, ~skipPost
                 PROVE  Cardinality(Disturbed \cap Workers) <= Limit
      BY DEF WorkersWithinLimit, Limit
    <2>1. Disturbed \cap Workers \in SUBSET BusyWorkers
      BY DisturbedEngaged DEF BusyWorkers
    <2>2. /\ Cardinality(Disturbed \cap Workers) <= Cardinality(BusyWorkers)
          /\ Cardinality(Disturbed \cap Workers) \in Nat
      BY <2>1, WorkersFinite, FS_Subset, FS_CardinalityType
    <2>3. CASE opts.dryRun
      <3>1. Disturbed \cap Workers = {}
        BY <2>3, DisturbedEngaged
      <3> QED
        BY <3>1, FS_EmptySet, LimitPositive DEF IInv
    <2>4. CASE ~opts.dryRun
      BY <2>2, <2>4, WorkersFinite, LimitPositive DEF IInv, Limited
    <2> QED
      BY <2>3, <2>4
  <1> QED
    BY <1>1, ApplyIInv, PTL

(* No machine is sent a config that the pre-flight checks did not let      *)
(* through (apply.runPreflightChecks).                                     *)
THEOREM ApplyPreflightHonoured == Spec => []PreflightHonoured
  <1>1. IInv => PreflightHonoured
    <2> SUFFICES ASSUME IInv, NEW i \in touched
                 PROVE  /\ i \in selected /\ info[i] \in {"maintenance", "ready", "starting"}
                        /\ info[i] = "starting" => opts.allowNotReady
                        /\ opts.skipProblematic
                             \/ \A j \in selected :
                                  info[j] # "error" /\ info[j] # "rebooting"
                                    /\ (info[j] = "starting" => opts.allowNotReady)
      BY DEF PreflightHonoured
    <2>1. i \in filtered /\ i \in Nodes
      BY DEF IInv, Types, Way
    <2>2. \A j \in filtered : j \in selected /\ ~Problem(j) /\ info[j] \notin {"unknown", "hung"}
      BY DEF IInv, Admitted
    <2>3. filtered = selected \/ opts.skipProblematic
      BY <2>1 DEF IInv, Admitted
    <2> QED
      BY <2>1, <2>2, <2>3 DEF IInv, Types, Problem
  <1> QED
    BY <1>1, ApplyIInv, PTL

(* Success means that every machine has its config, and that each one was  *)
(* seen ready after it was sent (apply.Execute, Node.Stabilize).           *)
THEOREM ApplyResultHonest == Spec => []ResultHonest
  <1>1. IInv => ResultHonest
    <2> SUFFICES ASSUME IInv, phase = "idle", result = "nil", ~opts.dryRun,
                        NEW i \in filtered, pc[i] # "declined"
                 PROVE  /\ cfg[i] = "desired"
                        /\ i \in touched /\ ~skipPost => i \in sawReady
      BY DEF ResultHonest
    <2>1. i \in Nodes /\ pc[i] \in {"ok", "same"}
      BY DEF IInv, Types, Verdict, AllThrough, Ended
    <2> QED
      BY <2>1 DEF IInv, Way
  <1> QED
    BY <1>1, ApplyIInv, PTL

(* A dry run changes nothing, and its exit code tells the truth about the  *)
(* machines (apply.applyDryRun).                                           *)
THEOREM ApplyDryRunVerdict == Spec => []DryRunVerdict
  <1>1. IInv => DryRunVerdict
    <2> SUFFICES ASSUME IInv, opts.dryRun
                 PROVE  /\ touched = {} /\ phase \notin {"probe", "rpc"}
                        /\ result = "changes" => \E i \in filtered : cfg[i] = "other"
                        /\ result = "nil" => \A i \in filtered : cfg[i] = "desired"
      BY DEF DryRunVerdict
    <2>1. touched = {} /\ phase \notin {"probe", "rpc"}
      BY DEF IInv, Types, Way, Verdict
    <2>2. result = "changes" => \E i \in filtered : cfg[i] = "other"
      BY DEF IInv, Types, Way, Verdict
    <2>3. ASSUME result = "nil", NEW i \in filtered PROVE cfg[i] = "desired"
      <3>1. i \in Nodes /\ pc[i] = "same"
        BY <2>3 DEF IInv, Types, Way, Verdict, AllThrough, Ended
      <3> QED
        BY <3>1 DEF IInv, Way
    <2> QED
      BY <2>1, <2>2, <2>3
  <1> QED
    BY <1>1, ApplyIInv, PTL

-----------------------------------------------------------------------------
(* Every run starts with the first node: it is never filtered out and no   *)
(* run skips it, and a cluster that is up at first has it for a member.    *)
FirstNodeAlways ==
  /\ NumCP > 0
  /\ \A s \in Selections : 1 \in s
  /\ \A o \in Options : ~o.skipProblematic
  /\ \A c \in Clusters : \A i, j \in ControlPlane :
       c.member[i] # 0 => c.member[1] # 0 /\ (c.member[j] # 0 => c.member[i] = c.member[j])

OneFounder ==
  /\ member \in [Nodes -> 0 .. N]
  /\ phase # "idle" => 1 \in selected /\ ~opts.skipProblematic
  /\ \A i \in ControlPlane : member[i] # 0 => member[1] # 0
  /\ OneEtcdCluster

LEMMA FounderInit ==
  ASSUME FirstNodeAlways, Init
  PROVE  OneFounder
  <1>1. PICK c \in Clusters : health = c.health /\ cfg = c.cfg /\ member = c.member
    BY DEF Init
  <1>2. member \in [Nodes -> 0 .. N] /\ phase = "idle"
    BY <1>1, ApplyAssumption DEF Init, Nodes
  <1> QED
    BY <1>1, <1>2 DEF FirstNodeAlways, OneFounder, OneEtcdCluster

(* A machine joins a cluster that the first one is in already.             *)
LEMMA FounderJoin ==
  ASSUME FirstNodeAlways, OneFounder, NEW i \in ControlPlane, JoinEtcd(i),
         UNCHANGED <<run, work, phase, result>>
  PROVE  OneFounder'
  <1>1. PICK j \in ControlPlane : EtcdUp(j) /\ member' = [member EXCEPT ![i] = member[j]]
    BY DEF JoinEtcd
  <1>2. ControlPlane \subseteq Nodes
    BY ApplyAssumption DEF ControlPlane, Nodes
  <1>3. /\ member' \in [Nodes -> 0 .. N] /\ member[i] = 0 /\ member[j] # 0
        /\ member'[i] = member[j] /\ \A k \in Nodes \ {i} : member'[k] = member[k]
    BY <1>1, <1>2 DEF OneFounder, JoinEtcd, EtcdUp
  <1>4. member[1] # 0 /\ 1 \in ControlPlane /\ 1 # i
    BY <1>3, ApplyAssumption DEF OneFounder, FirstNodeAlways, ControlPlane
  <1>5. member'[1] # 0
    BY <1>2, <1>3, <1>4
  <1>6. OneEtcdCluster'
    BY <1>2, <1>3 DEF OneFounder, OneEtcdCluster
  <1> QED
    BY <1>3, <1>5, <1>6 DEF OneFounder, run

(* Only the first node founds a cluster, and only when there is none.      *)
LEMMA FounderBootstrap ==
  ASSUME FirstNodeAlways, IInv, OneFounder, BootstrapRPC
  PROVE  OneFounder'
  <1>1. phase = "rpc" /\ UNCHANGED run
    BY DEF BootstrapRPC
  <1>2. 1 \in filtered /\ filtered \subseteq Nodes
    BY <1>1 DEF IInv, OneFounder, Admitted, Types
  <1>3. Min(filtered) = 1
    <2>1. \A x \in filtered : (\A y \in filtered : x <= y) <=> x = 1
      BY <1>2, ApplyAssumption DEF Nodes
    <2> QED
      BY <1>2, <2>1 DEF Min
  <1>4. CASE UNCHANGED member
    BY <1>1, <1>4 DEF OneFounder, OneEtcdCluster, run
  <1>5. CASE EtcdState(1) = "Preparing" /\ member' = [member EXCEPT ![1] = 1]
    <2>1. member[1] = 0
      BY <1>5 DEF EtcdState
    <2>2. ControlPlane \subseteq Nodes /\ 1 \in ControlPlane /\ 1 \in 0 .. N
      BY ApplyAssumption DEF FirstNodeAlways, ControlPlane, Nodes
    <2>3. \A k \in ControlPlane : member[k] = 0
      BY <2>1 DEF OneFounder
    <2>4. /\ member' \in [Nodes -> 0 .. N] /\ member'[1] = 1
          /\ \A k \in ControlPlane \ {1} : member'[k] = 0
      BY <1>5, <2>2, <2>3 DEF OneFounder
    <2>5. OneEtcdCluster'
      BY <2>4 DEF OneEtcdCluster
    <2> QED
      BY <1>1, <2>4, <2>5 DEF OneFounder, run
  <1> QED
    BY <1>3, <1>4, <1>5 DEF BootstrapRPC

LEMMA FounderNext ==
  ASSUME FirstNodeAlways
  PROVE  IInv /\ OneFounder /\ [Next]_vars => OneFounder'
  <1> SUFFICES ASSUME IInv, OneFounder, [Next]_vars PROVE OneFounder'
    OBVIOUS
  <1>1. ASSUME NEW i \in ControlPlane, JoinEtcd(i), MachineStep PROVE OneFounder'
    BY <1>1, FounderJoin DEF MachineStep
  <1>2. ASSUME Begin PROVE OneFounder'
    BY <1>2 DEF Begin, machines, FirstNodeAlways, OneFounder, OneEtcdCluster
  <1>3. ASSUME UNCHANGED <<member, opts, selected>>, phase # "idle" \/ phase' = phase
        PROVE  OneFounder'
    BY <1>3 DEF OneFounder, OneEtcdCluster
  <1>4. ASSUME MachineStep, ~\E i \in ControlPlane : JoinEtcd(i) PROVE OneFounder'
    BY <1>3, <1>4 DEF MachineStep, Restart, Boot, BecomeReady, Flap, run
  <1>5. ASSUME NEW i \in Nodes, Collect(i) \/ NodeStep(i) PROVE OneFounder'
    <2>1. UNCHANGED <<member, opts, selected>> /\ phase # "idle"
      BY <1>5 DEF Collect, NodeStep, Start, DryRunRPC, Send, Accept, SeeReady, WindowBroken,
                  WindowOver, GiveUp, machines, run
    <2> QED
      BY <1>3, <2>1
  <1>6. ASSUME \/ Preflight \/ \E a \in {"y", "n"} : Answer(a)
               \/ ApplyReturns \/ ProbeEtcd \/ BootstrapTimeout \/ Interrupt
        PROVE  OneFounder'
    <2>1. UNCHANGED <<member, opts, selected>> /\ phase # "idle"
      BY <1>6 DEF Preflight, Answer, ApplyReturns, ProbeEtcd, BootstrapTimeout, Interrupt,
                  machines, run
    <2> QED
      BY <1>3, <2>1
  <1>7. ASSUME UNCHANGED vars PROVE OneFounder'
    BY <1>3, <1>7 DEF vars, machines, run
  <1> QED
    BY <1>1, <1>2, <1>4, <1>5, <1>6, <1>7, FounderBootstrap DEF Next, CommandStep

(* When every run starts with the first node, apply --auto-bootstrap never *)
(* founds a second etcd cluster: that takes a --nodes-filter or            *)
(* --skip-problematic-nodes that leaves the first node out                 *)
(* (Talos.bootstrapEtcd).                                                  *)
THEOREM ApplyOneEtcdCluster ==
  ASSUME FirstNodeAlways
  PROVE  Spec => []OneEtcdCluster
  <1>1. OneFounder => OneEtcdCluster
    BY DEF OneFounder
  <1> QED
    BY <1>1, FounderInit, FounderNext, ApplyIInv, PTL DEF Spec
=============================================================================
