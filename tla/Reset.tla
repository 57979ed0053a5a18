-------------------------------- MODULE Reset --------------------------------
(***************************************************************************)
(* `topf reset` (src/internal/cmd/reset/reset.go): the nodes are collected *)
(* as in the other commands, then reset one after the other in the order   *)
(* of topf.yaml, whatever became of the ones before; on request the command*)
(* then waits, for all of them at once, until they are in maintenance.     *)
(***************************************************************************)
EXTENDS Integers, FiniteSets

CONSTANTS
  N,         (* nodes of topf.yaml                                         *)
  Options,   (* the Options a run may be started with                      *)
  Stages     (* the stages the machines may be in at first                 *)

ASSUME ResetAssumption ==
  N \in Nat /\ Stages \subseteq {"running", "maintenance"}

Nodes == 1 .. N

VARIABLES
  stage,     (* the machine: "running", "maintenance", "resetting" (wiping *)
             (* and rebooting) or "off"                                    *)
  opts,
  phase,     (* "collect", "loop", "wait", "over"                 *)
  info,      (* the stage collected, "error" if it could not be read       *)
  pc,        (* pc[i]: where the loop is with node i, or how it ended; then*)
             (* where the goroutine that waits for it is                   *)
  result,    (* what Execute returned                                      *)
  sent       (* history: stage of the machines at their Reset call         *)

vars == <<stage, opts, phase, info, pc, result, sent>>

Init ==
  /\ stage \in [Nodes -> Stages]
  /\ opts \in Options
  /\ phase = "collect" /\ result = "none"
  /\ info = [i \in Nodes |-> "unknown"]
  /\ pc = [i \in Nodes |-> "todo"]
  /\ sent = [i \in Nodes |-> "none"]

(* The machine (external): wiped, it comes up in maintenance. *)
Reinstall(i) ==
  /\ stage[i] = "resetting"
  /\ stage' = [stage EXCEPT ![i] = "maintenance"]
  /\ UNCHANGED <<opts, phase, info, pc, result, sent>>

(* FilteredNodes, as in module Apply. *)
Collect(i) ==
  /\ phase = "collect" /\ info[i] = "unknown"
  /\ \E seen \in {stage[i], "error"} : info' = [info EXCEPT ![i] = seen]
  /\ UNCHANGED <<stage, opts, phase, pc, result, sent>>

Collected ==
  /\ phase = "collect" /\ \A i \in Nodes : info[i] # "unknown"
  /\ \/ N = 0 /\ phase' = "over" /\ result' = "nil"
     \/ N > 0 /\ phase' = "loop" /\ UNCHANGED result
  /\ UNCHANGED <<stage, opts, info, pc, sent>>

Turn(i) == pc[i] = "todo" /\ \A j \in 1 .. i - 1 : pc[j] # "todo"

(* A node is passed over that was seen in maintenance, gets no client, or  *)
(* that the operator declines; the one that could not be read is not.      *)
Skip(i) ==
  /\ phase = "loop" /\ Turn(i)
  /\ pc' = [pc EXCEPT ![i] = "skipped"]
  /\ UNCHANGED <<stage, opts, phase, info, result, sent>>

(* The prompt is answered yes or not asked; the Reset call then succeeds,  *)
(* fails, or fails with the machine resetting all the same.                *)
ResetNode(i) ==
  /\ phase = "loop" /\ Turn(i) /\ info[i] # "maintenance"
  /\ sent' = [sent EXCEPT ![i] = stage[i]]
  /\ \/ /\ stage' = [stage EXCEPT ![i] = IF opts.shutdown THEN "off" ELSE "resetting"]
        /\ pc' \in {[pc EXCEPT ![i] = s] : s \in {"reset", "failed"}}
     \/ pc' = [pc EXCEPT ![i] = "failed"] /\ UNCHANGED stage
  /\ UNCHANGED <<opts, phase, info, result>>

ResetNodes == {i \in Nodes : pc[i] \in {"reset", "arrived", "gaveup"}}

(* The loop is through; failed resets are only counted. *)
LoopOver ==
  /\ phase = "loop" /\ \A i \in Nodes : pc[i] # "todo"
  /\ \/ opts.wait /\ ResetNodes # {} /\ phase' = "wait" /\ UNCHANGED result
     \/ (~opts.wait \/ ResetNodes = {}) /\ phase' = "over" /\ result' = "nil"
  /\ UNCHANGED <<stage, opts, info, pc, sent>>

(* WaitForMaintenance, a goroutine per reset node: polls the stage for 15  *)
(* minutes.                                                                *)
SeeMaintenance(i) ==
  /\ phase = "wait" /\ pc[i] = "reset" /\ stage[i] = "maintenance"
  /\ pc' = [pc EXCEPT ![i] = "arrived"]
  /\ UNCHANGED <<stage, opts, phase, info, result, sent>>

GiveUp(i) ==
  /\ phase = "wait" /\ pc[i] = "reset"
  /\ pc' = [pc EXCEPT ![i] = "gaveup"]
  /\ UNCHANGED <<stage, opts, phase, info, result, sent>>

(* Mutant of WaitOver: the first node to arrive ends the wait. *)
FirstArrivalEndsWait ==
  /\ phase = "wait" /\ \E i \in Nodes : pc[i] \in {"arrived", "gaveup"}
  /\ phase' = "over"
  /\ result' = IF \E i \in Nodes : pc[i] = "gaveup" THEN "error" ELSE "nil"
  /\ UNCHANGED <<stage, opts, info, pc, sent>>

(* wg.Wait and errors.Join. *)
WaitOver ==
  /\ phase = "wait" /\ \A i \in Nodes : pc[i] # "reset"
  /\ phase' = "over"
  /\ result' = IF \E i \in Nodes : pc[i] = "gaveup" THEN "error" ELSE "nil"
  /\ UNCHANGED <<stage, opts, info, pc, sent>>

NodeStep(i) ==
  \/ Collect(i) \/ Skip(i) \/ ResetNode(i) \/ SeeMaintenance(i) \/ GiveUp(i)

Next ==
  \/ \E i \in Nodes : Reinstall(i) \/ NodeStep(i)
  \/ Collected \/ LoopOver \/ WaitOver

Spec == Init /\ [][Next]_vars

-----------------------------------------------------------------------------
(* With --wait-for-maintenance a nil result means that every running       *)
(* machine that was reset is back in maintenance, so that topf apply can   *)
(* follow (docs/commands/reset.md): not only some of them, and none is     *)
(* taken for one that was not reset yet.                                   *)
WaitHonest ==
  phase = "over" /\ result = "nil" /\ opts.wait =>
    \A i \in ResetNodes : sent[i] = "running" => stage[i] = "maintenance"
=============================================================================
