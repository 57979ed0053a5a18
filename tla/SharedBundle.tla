---------------------------- MODULE SharedBundle ----------------------------
(***************************************************************************)
(* What the goroutines of a process may rely on when they call             *)
(* topf.Secrets, without mutex, provider or store: a caller is answered in *)
(* one step, with the bundle of the process or, as long as it has none,    *)
(* with an error; the bundle is known to the masked writer in the step     *)
(* that gives it away first, and stays the same until the process ends.    *)
(***************************************************************************)
CONSTANTS
  Callers,  (* goroutines of the process that call Secrets                 *)
  Bundles,
  None      (* no bundle                                                   *)

VARIABLES
  bundle,   (* topf.secretsBundle, or None                                 *)
  masked,   (* bundles whose secrets the writer masks                      *)
  answer,   (* answer[c]: "awaited", "given" or "refused"                  *)
  got       (* got[c]: the bundle that c was given, or None                *)

vars == <<bundle, masked, answer, got>>

Init ==
  /\ bundle = None /\ masked = {}
  /\ answer = [c \in Callers |-> "awaited"]
  /\ got = [c \in Callers |-> None]

Give(c, b) ==
  /\ answer[c] = "awaited"
  /\ bundle \in {b, None}
  /\ bundle' = b
  /\ masked' = masked \cup {b}
  /\ answer' = [answer EXCEPT ![c] = "given"]
  /\ got' = [got EXCEPT ![c] = b]

(* An error is not kept, and no caller sees one once there is a bundle.    *)
Refuse(c) ==
  /\ answer[c] = "awaited" /\ bundle = None
  /\ answer' = [answer EXCEPT ![c] = "refused"]
  /\ got' = [got EXCEPT ![c] = None]
  /\ UNCHANGED <<bundle, masked>>

(* The process ends and is started again.                                  *)
Restart ==
  /\ bundle' = None /\ masked' = {}
  /\ answer' = [c \in Callers |-> "awaited"]
  /\ got' = [c \in Callers |-> None]

Next ==
  \/ \E c \in Callers : Refuse(c) \/ \E b \in Bundles : Give(c, b)
  \/ Restart

Spec == Init /\ [][Next]_vars
=============================================================================
