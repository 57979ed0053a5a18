----------------------------- MODULE ResetProofs -----------------------------
(***************************************************************************)
(* Proof that `topf reset --wait-for-maintenance` reports success only     *)
(* when the machines it reset are in maintenance, for any number of nodes, *)
(* whatever the calls and the polls answer.                                *)
(***************************************************************************)
EXTENDS Reset, TLAPS

Types ==
  /\ stage \in [Nodes -> {"running", "maintenance", "resetting", "off"}]
  /\ phase \in {"collect", "loop", "wait", "over"}
  /\ info \in [Nodes -> {"unknown", "error", "running", "maintenance", "resetting", "off"}]
  /\ pc \in [Nodes -> {"todo", "skipped", "reset", "failed", "arrived", "gaveup"}]
  /\ result \in {"none", "nil", "error"}

(* Nobody waits before the loop is through; a machine that was seen in     *)
(* maintenance during the wait is not touched any more; and the command    *)
(* succeeds only when no wait is under way or was given up.                *)
IInv ==
  /\ Types
  /\ \A i \in Nodes :
       /\ pc[i] = "arrived" => stage[i] = "maintenance"
       /\ phase \in {"collect", "loop"} => pc[i] \notin {"arrived", "gaveup"}
       /\ phase = "over" /\ result = "nil" /\ opts.wait => pc[i] \notin {"reset", "gaveup"}

LEMMA InitIInv == Init => IInv
  <1> SUFFICES ASSUME Init PROVE IInv
    OBVIOUS
  <1>1. stage \in [Nodes -> {"running", "maintenance", "resetting", "off"}]
    <2>1. stage \in [Nodes -> Stages] /\ Stages \subseteq {"running", "maintenance"}
      BY ResetAssumption DEF Init
    <2> QED
      BY <2>1
  <1>2. /\ phase = "collect" /\ result = "none"
        /\ info = [i \in Nodes |-> "unknown"]
        /\ pc = [i \in Nodes |-> "todo"]
    BY DEF Init
  <1>3. Types
    BY <1>1, <1>2 DEF Types
  <1> QED
    BY <1>2, <1>3 DEF IInv

LEMMA NextIInv == IInv /\ [Next]_vars => IInv'
  <1> SUFFICES ASSUME IInv, [Next]_vars PROVE IInv'
    OBVIOUS
  <1>1. ASSUME NEW i \in Nodes, Reinstall(i) PROVE IInv'
    BY <1>1 DEF IInv, Types, Reinstall
  <1>2. ASSUME NEW i \in Nodes, Collect(i) PROVE IInv'
    BY <1>2 DEF IInv, Types, Collect
  <1>3. ASSUME NEW i \in Nodes, Skip(i) PROVE IInv'
    BY <1>3 DEF IInv, Types, Skip
  <1>4. ASSUME NEW i \in Nodes, ResetNode(i) PROVE IInv'
    <2>1. /\ phase = "loop" /\ pc[i] = "todo" /\ UNCHANGED <<opts, phase, info, result>>
          /\ stage' \in [Nodes -> {"running", "maintenance", "resetting", "off"}]
          /\ \A j \in Nodes \ {i} : stage'[j] = stage[j]
          /\ pc' \in {[pc EXCEPT ![i] = s] : s \in {"reset", "failed"}}
      BY <1>4 DEF IInv, Types, ResetNode, Turn
    <2> QED
      BY <2>1 DEF IInv, Types
  <1>5. ASSUME NEW i \in Nodes, SeeMaintenance(i) PROVE IInv'
    BY <1>5 DEF IInv, Types, SeeMaintenance
  <1>6. ASSUME NEW i \in Nodes, GiveUp(i) PROVE IInv'
    BY <1>6 DEF IInv, Types, GiveUp
  <1>7. ASSUME Collected PROVE IInv'
    BY <1>7, ResetAssumption DEF IInv, Types, Collected, Nodes
  <1>8. ASSUME LoopOver PROVE IInv'
    BY <1>8 DEF IInv, Types, LoopOver, ResetNodes
  <1>9. ASSUME WaitOver PROVE IInv'
    BY <1>9 DEF IInv, Types, WaitOver
  <1>10. ASSUME UNCHANGED vars PROVE IInv'
    BY <1>10 DEF IInv, Types, vars
  <1> QED
    BY <1>1, <1>2, <1>3, <1>4, <1>5, <1>6, <1>7, <1>8, <1>9, <1>10 DEF Next, NodeStep

(* A nil result with --wait-for-maintenance: every machine whose reset was *)
(* accepted is in maintenance and stays there (reset.Execute,              *)
(* WaitForMaintenance).                                                    *)
THEOREM ResetWaitHonest == Spec => []WaitHonest
  <1>1. IInv => WaitHonest
    BY DEF IInv, WaitHonest, ResetNodes
  <1> QED
    BY <1>1, InitIInv, NextIInv, PTL DEF Spec
=============================================================================
