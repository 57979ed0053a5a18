------------------------------- MODULE Rollout -------------------------------
(***************************************************************************)
(* What the callers of nodepool.RunConcurrent rely on, without goroutines, *)
(* channels or flags: an operation per node, at most limit of them that    *)
(* run or failed when one more is started, no node twice, nodes left out   *)
(* only after a failure, and a result that names exactly the failed nodes  *)
(* once nothing is in flight any more.                                     *)
(* It is the promise of src/internal/nodepool/nodepool.go:92-98.           *)
(***************************************************************************)
EXTENDS Naturals, FiniteSets

CONSTANT N   (* number of nodes handed to the pool; node i is nodes[i-1] *)

VARIABLES
  limit,     (* most operations in flight or failed at once          *)
  op,        (* op[i]: "waiting", "running", "ok" or "failed"        *)
  returned,  (* whether the call has returned                        *)
  result     (* the nodes whose errors it returned joined            *)

vars == <<limit, op, returned, result>>

Nodes == 1 .. N
In(s) == {i \in Nodes : op[i] = s}

Init ==
  /\ limit \in Nat \ {0}
  /\ op = [i \in Nodes |-> "waiting"]
  /\ returned = FALSE
  /\ result = {}

(* A failed operation keeps its place: the goroutine that ran it starts no *)
(* other, so what is disturbed, failed nodes included, is within the limit. *)
Start(i) ==
  /\ ~returned
  /\ op[i] = "waiting"
  /\ Cardinality(In("running") \cup In("failed")) < limit
  /\ op' = [op EXCEPT ![i] = "running"]
  /\ UNCHANGED <<limit, returned, result>>

Finish(i) ==
  /\ op[i] = "running"
  /\ \E verdict \in {"ok", "failed"} : op' = [op EXCEPT ![i] = verdict]
  /\ UNCHANGED <<limit, returned, result>>

Return ==
  /\ ~returned
  /\ In("running") = {}
  /\ In("waiting") # {} => In("failed") # {}
  /\ returned' = TRUE
  /\ result' = In("failed")
  /\ UNCHANGED <<limit, op>>

Next == (\E i \in Nodes : Start(i) \/ Finish(i)) \/ Return

Spec == Init /\ [][Next]_vars
FairSpec == Spec /\ WF_vars(Next)
=============================================================================
