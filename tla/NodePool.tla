------------------------------ MODULE NodePool ------------------------------
(***************************************************************************)
(* nodepool.RunConcurrent (src/internal/nodepool/nodepool.go:99-155): a    *)
(* closed, buffered queue of nodes drained by a fixed set of goroutines    *)
(* that share an atomic stop flag and an error channel.  One action per    *)
(* atomic step of a goroutine, so that every interleaving of a failing     *)
(* operation with the others' next dequeue, load of stop and start is      *)
(* explored.                                                               *)
(***************************************************************************)
EXTENDS MaxParallel, FiniteSets

CONSTANTS
  N,            (* len(nodes) of the call; node i is nodes[i-1]            *)
  MaxParallels, (* the MaxParallel values the operator may have given      *)
  MaxOthers     (* most nodes of the command that this call does not get:  *)
                (* the control-plane nodes, which count in the total only  *)

ASSUME NodePoolAssumption ==
  /\ N \in Nat
  /\ MaxOthers \in Nat
  /\ MaxParallels \subseteq {b \in MaxParallelFlag : ParseAccepts(b)}

VARIABLES
  limit,    (* the parameter n: MaxParallel.Resolve of the command's total *)
  next,     (* the queue holds next .. N, in that order                    *)
  pc,       (* pc[g]: where goroutine g is in its loop                     *)
  cur,      (* cur[g]: the node goroutine g dequeued last, 0 for none      *)
  stop,     (* the atomic flag                                             *)
  op,       (* op[i]: what became of node i's operation                    *)
  errs,     (* nodes whose error is in the errs channel                    *)
  returned, (* whether RunConcurrent has returned                          *)
  result,   (* the nodes whose errors it returned, joined                  *)
  late      (* history: goroutines that started an operation after stop    *)

vars == <<limit, next, pc, cur, stop, op, errs, returned, result, late>>

Nodes == 1 .. N
Goroutines == 1 .. PoolSize(limit, N)

Init ==
  /\ \E b \in MaxParallels, others \in 0 .. MaxOthers :
       limit = Resolve(b, N + others)
  /\ next = 1
  /\ pc = [g \in Goroutines |-> "pull"]
  /\ cur = [g \in Goroutines |-> 0]
  /\ stop = FALSE
  /\ op = [i \in Nodes |-> "waiting"]
  /\ errs = {}
  /\ returned = FALSE
  /\ result = {}
  /\ late = {}

(* Mutants of Pull: the end of the queue is not noticed; two goroutines    *)
(* may be given the same node.                                             *)
PullPastTheEnd(g) ==
  /\ pc[g] = "pull"
  /\ cur' = [cur EXCEPT ![g] = next]
  /\ next' = next + 1
  /\ pc' = [pc EXCEPT ![g] = "load"]
  /\ UNCHANGED <<limit, stop, op, errs, returned, result, late>>

PullUnsynchronised(g) ==
  /\ pc[g] = "pull"
  /\ next <= N
  /\ cur' = [cur EXCEPT ![g] = next]
  /\ next' \in {next, next + 1}
  /\ pc' = [pc EXCEPT ![g] = "load"]
  /\ UNCHANGED <<limit, stop, op, errs, returned, result, late>>

(* for node := range queue: the next node, or the end of the closed queue. *)
Pull(g) ==
  /\ pc[g] = "pull"
  /\ next <= N
  /\ cur' = [cur EXCEPT ![g] = next]
  /\ next' = next + 1
  /\ pc' = [pc EXCEPT ![g] = "load"]
  /\ UNCHANGED <<limit, stop, op, errs, returned, result, late>>

QueueDrained(g) ==
  /\ pc[g] = "pull"
  /\ next > N
  /\ pc' = [pc EXCEPT ![g] = "done"]
  /\ UNCHANGED <<limit, next, cur, stop, op, errs, returned, result, late>>

(* Mutant of LoadStop: the flag is loaded and ignored. *)
StopIgnored(g) ==
  /\ pc[g] = "load"
  /\ pc' = [pc EXCEPT ![g] = "call"]
  /\ UNCHANGED <<limit, next, cur, stop, op, errs, returned, result, late>>

(* stop.Load(): the dequeued node is dropped when the flag is set. *)
LoadStop(g) ==
  /\ pc[g] = "load"
  /\ pc' = [pc EXCEPT ![g] = IF stop THEN "done" ELSE "call"]
  /\ UNCHANGED <<limit, next, cur, stop, op, errs, returned, result, late>>

(* fn(ctx, node, ...) begins: another goroutine may have set stop since. *)
Call(g) ==
  /\ pc[g] = "call"
  /\ op' = [op EXCEPT ![cur[g]] = "running"]
  /\ pc' = [pc EXCEPT ![g] = "run"]
  /\ late' = IF stop THEN late \cup {g} ELSE late
  /\ UNCHANGED <<limit, next, cur, stop, errs, returned, result>>

(* fn returns nil: back to the queue. *)
Succeed(g) ==
  /\ pc[g] = "run"
  /\ op' = [op EXCEPT ![cur[g]] = "ok"]
  /\ pc' = [pc EXCEPT ![g] = "pull"]
  /\ UNCHANGED <<limit, next, cur, stop, errs, returned, result, late>>

(* Mutant of Fail: the flag is set, the error is not sent. *)
FailSilently(g) ==
  /\ pc[g] = "run"
  /\ op' = [op EXCEPT ![cur[g]] = "failed"]
  /\ pc' = [pc EXCEPT ![g] = "store"]
  /\ UNCHANGED <<limit, next, cur, stop, errs, returned, result, late>>

(* fn returns an error: errs <- err, then stop.Store(true), then return.   *)
(* The channel holds len(nodes) errors, so the send never blocks.          *)
Fail(g) ==
  /\ pc[g] = "run"
  /\ op' = [op EXCEPT ![cur[g]] = "failed"]
  /\ pc' = [pc EXCEPT ![g] = "send"]
  /\ UNCHANGED <<limit, next, cur, stop, errs, returned, result, late>>

SendErr(g) ==
  /\ pc[g] = "send"
  /\ errs' = errs \cup {cur[g]}
  /\ pc' = [pc EXCEPT ![g] = "store"]
  /\ UNCHANGED <<limit, next, cur, stop, op, returned, result, late>>

StoreStop(g) ==
  /\ pc[g] = "store"
  /\ stop' = TRUE
  /\ pc' = [pc EXCEPT ![g] = "done"]
  /\ UNCHANGED <<limit, next, cur, op, errs, returned, result, late>>

(* Mutants of Return: without wg.Wait; with only one of the errors. *)
ReturnAtOnce ==
  /\ ~returned
  /\ stop \/ \A g \in Goroutines : pc[g] = "done"
  /\ returned' = TRUE
  /\ result' = errs
  /\ UNCHANGED <<limit, next, pc, cur, stop, op, errs, late>>

ReturnOneError ==
  /\ ~returned
  /\ \A g \in Goroutines : pc[g] = "done"
  /\ returned' = TRUE
  /\ result' = {i \in errs : \A j \in errs : i <= j}
  /\ UNCHANGED <<limit, next, pc, cur, stop, op, errs, late>>

(* wg.Wait(), close(errs), errors.Join of what the channel holds. *)
Return ==
  /\ ~returned
  /\ \A g \in Goroutines : pc[g] = "done"
  /\ returned' = TRUE
  /\ result' = errs
  /\ UNCHANGED <<limit, next, pc, cur, stop, op, errs, late>>

GoroutineStep(g) ==
  \/ Pull(g) \/ QueueDrained(g) \/ LoadStop(g) \/ Call(g)
  \/ Succeed(g) \/ Fail(g) \/ SendErr(g) \/ StoreStop(g)

Next == (\E g \in Goroutines : GoroutineStep(g)) \/ Return

(* The Go scheduler runs every runnable goroutine, and every operation     *)
(* returns: its waits are bounded by retry timeouts of 10 or 15 minutes.   *)
Fairness ==
  /\ \A g \in 1 .. N : WF_vars(g \in Goroutines /\ GoroutineStep(g))
  /\ WF_vars(Return)

Spec == Init /\ [][Next]_vars
FairSpec == Spec /\ Fairness

-----------------------------------------------------------------------------
Failed == {i \in Nodes : op[i] = "failed"}
Busy == {g \in Goroutines : pc[g] \in {"load", "call", "run", "send", "store"}}

(* The types of the variables. *)
TypeOK ==
  /\ limit \in Nat \ {0}
  /\ next \in 1 .. N + 1
  /\ pc \in [Goroutines ->
              {"pull", "load", "call", "run", "send", "store", "done"}]
  /\ cur \in [Goroutines -> 0 .. N]
  /\ stop \in BOOLEAN
  /\ op \in [Nodes -> {"waiting", "running", "ok", "failed"}]
  /\ errs \subseteq Nodes
  /\ returned \in BOOLEAN
  /\ result \subseteq Nodes
  /\ late \subseteq Goroutines

(* Two goroutines never work on the same node: a node is upgraded or       *)
(* configured by one of them, whatever the interleaving of the dequeues.   *)
ExclusiveNodes ==
  \A g, h \in Busy : g # h => cur[g] # cur[h]

(* No more operations in flight than the value of --max-parallel resolves  *)
(* to (docs/commands/upgrade.md, --max-parallel), those included that      *)
(* failed, whose machines may still be down.                               *)
LimitRespected == Cardinality({i \in Nodes : op[i] \in {"running", "failed"}}) <= limit

(* The returned error names exactly the nodes whose operation failed, and  *)
(* a node is left unprocessed only when some operation failed: no error is *)
(* lost when several operations fail together, and a nil result means that *)
(* every node was processed.                                               *)
ResultComplete ==
  returned =>
    /\ result = Failed
    /\ result = {} => \A i \in Nodes : op[i] = "ok"

(* RunConcurrent returns only after the in-flight operations have run to   *)
(* completion, so no caller goes on while a node is still being changed.   *)
NothingInFlightAfterReturn ==
  returned => \A i \in Nodes : op[i] # "running"

(* Once stop is set a goroutine starts at most the one operation it had    *)
(* already been committed to when it loaded the flag: a failure stops the  *)
(* rollout after at most one more node per goroutine.                      *)
AtMostOneLateStart ==
  [][\A g \in Goroutines :
       (stop /\ pc[g] = "call" /\ pc'[g] = "run") => g \notin late]_vars

(* The inductive invariant behind the safety properties: what a            *)
(* goroutine's place in its loop says about the node it holds, what the    *)
(* error channel and the flag say about the operations, and why a node     *)
(* that was dequeued can be left without an operation.                     *)
NodeHeld ==
  \A g \in Busy :
    /\ cur[g] \in Nodes /\ cur[g] < next
    /\ pc[g] \in {"load", "call"} => op[cur[g]] = "waiting"
    /\ pc[g] = "run" => op[cur[g]] = "running"
    /\ pc[g] \in {"send", "store"} => op[cur[g]] = "failed"

RunningHeld ==
  \A i \in Nodes :
    op[i] = "running" => \E g \in Goroutines : pc[g] = "run" /\ cur[g] = i

FailedHeld ==
  \A i \in Nodes :
    op[i] = "failed" =>
      \E g \in Goroutines : pc[g] \in {"send", "store", "done"} /\ cur[g] = i

QueuedUntouched == \A i \in Nodes : i >= next => op[i] = "waiting"

ErrorsSent ==
  \A i \in Nodes :
    /\ i \in errs => op[i] = "failed"
    /\ op[i] = "failed" =>
         i \in errs \/ \E g \in Goroutines : pc[g] = "send" /\ cur[g] = i

StopMeansFailed == stop => Failed # {}

DroppedOnlyOnStop ==
  \A i \in Nodes :
    i < next /\ op[i] = "waiting" =>
      stop \/ \E g \in Goroutines : pc[g] \in {"load", "call"} /\ cur[g] = i

DoneMeansOver == \A g \in Goroutines : pc[g] = "done" => stop \/ next > N

ReturnedAfterWait ==
  returned => result = errs /\ \A g \in Goroutines : pc[g] = "done"

LateIsCommitted == \A g \in late : stop /\ pc[g] # "call"

Holding ==
  ExclusiveNodes /\ NodeHeld /\ RunningHeld /\ FailedHeld /\ QueuedUntouched
Reporting == ErrorsSent /\ StopMeansFailed
Ending == DroppedOnlyOnStop /\ DoneMeansOver /\ ReturnedAfterWait /\ LateIsCommitted

IInv == TypeOK /\ Holding /\ Reporting /\ Ending

(* The refinement mapping: the pool's operations and its return are those  *)
(* of the rollout; the queue, the goroutines and the flag are internal.    *)
Promise == INSTANCE Rollout WITH
  N <- N, limit <- limit, op <- op, returned <- returned, result <- result

(* The pool implements the rollout its callers rely on. *)
ImplementsRollout == Promise!FairSpec
=============================================================================
