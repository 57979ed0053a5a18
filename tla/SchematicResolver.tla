-------------------------- MODULE SchematicResolver --------------------------
(***************************************************************************)
(* schematic.Resolver (src/internal/schematic/resolver.go): node           *)
(* goroutines that resolve a schematic reference to its ID and, with       *)
(* --submit-to-factory, first submit it to the image factory, at most one  *)
(* request per factory and ID at a time.  A component: Collection says     *)
(* which goroutine calls Resolve when, and so bounds the calls.            *)
(***************************************************************************)
EXTENDS Singleflight

CONSTANT
  Submit     (* WithSubmitToFactory                                        *)

VARIABLES
  accepted,  (* the factories: keys (factory and ID) they have a schematic for *)
  pc,        (* pc[c]: where caller c is, or how its last call ended       *)
  key,       (* key[c]: the factory and ID its argument stands for         *)
  file,      (* file[c]: the argument is a file reference (starts with @)  *)
  outcome,   (* outcome[k]: the verdict of the request under way           *)
  source,    (* history: the flight whose error c returned                 *)
  before     (* history: the flights over when c's last call began         *)

vars == <<flightVars, accepted, pc, key, file, outcome, source, before>>

Init ==
  /\ FlightInit
  /\ accepted = {}
  /\ pc = [c \in Callers |-> "idle"]
  /\ key = [c \in Callers |-> CHOOSE k \in Keys : TRUE]
  /\ file = [c \in Callers |-> FALSE]
  /\ outcome = [k \in Keys |-> "none"]
  /\ source = [c \in Callers |-> 0] /\ before = [c \in Callers |-> {}]

Idle == {"idle", "id", "error"}

(* Resolve of a plain ID returns it; of a file reference it reads, renders *)
(* and parses the file and computes the ID, each of which may fail.        *)
Resolve(c, k) ==
  /\ pc[c] \in Idle
  /\ key' = [key EXCEPT ![c] = k]
  /\ before' = [before EXCEPT ![c] = ended]
  /\ source' = [source EXCEPT ![c] = 0]
  /\ \/ pc' = [pc EXCEPT ![c] = "id"] /\ file' = [file EXCEPT ![c] = FALSE]
     \/ /\ pc' \in {[pc EXCEPT ![c] = s] :
                      s \in {"error", IF Submit THEN "do" ELSE "id"}}
        /\ file' = [file EXCEPT ![c] = TRUE]
  /\ UNCHANGED <<flightVars, accepted, outcome>>

(* Mutant of Do: a failed submission is remembered. *)
DoRememberingErrors(c) ==
  /\ pc[c] = "do"
  /\ \/ /\ outcome[key[c]] = "error" /\ running[key[c]] = 0
        /\ pc' = [pc EXCEPT ![c] = "error"]
        /\ \E f \in ended : source' = [source EXCEPT ![c] = f]
        /\ UNCHANGED flightVars
     \/ Lead(c, key[c]) /\ pc' = [pc EXCEPT ![c] = "request"] /\ UNCHANGED source
     \/ Board(c, key[c]) /\ pc' = [pc EXCEPT ![c] = "wait"] /\ UNCHANGED source
  /\ UNCHANGED <<accepted, key, file, outcome, before>>

(* submitSchematic: r.submitted.Do(factory:id, ...). *)
Do(c) ==
  /\ pc[c] = "do"
  /\ \/ Lead(c, key[c]) /\ pc' = [pc EXCEPT ![c] = "request"]
     \/ Board(c, key[c]) /\ pc' = [pc EXCEPT ![c] = "wait"]
  /\ UNCHANGED <<accepted, key, file, outcome, source, before>>

(* SchematicCreate through the client of the factory: it has the schematic *)
(* from then on; or an error, the schematic accepted or not.               *)
Request(c) ==
  /\ pc[c] = "request"
  /\ \E verdict \in {"id", "error"} :
       /\ outcome' = [outcome EXCEPT ![key[c]] = verdict]
       /\ accepted' \in {accepted \cup {key[c]}}
                          \cup (IF verdict = "error" THEN {accepted} ELSE {})
  /\ pc' = [pc EXCEPT ![c] = "land"]
  /\ UNCHANGED <<flightVars, key, file, source, before>>

(* Mutant of Deliver: the callers that wait are told of no error. *)
DeliverNoError(c) ==
  /\ pc[c] = "land"
  /\ LET all == Passengers(key[c]) IN
       /\ Land(key[c])
       /\ pc' = [d \in Callers |-> IF d = c THEN outcome[key[c]]
                                   ELSE IF d \in all THEN "id" ELSE pc[d]]
  /\ UNCHANGED <<accepted, key, file, outcome, source, before>>

(* The verdict goes to every caller in the flight. *)
Deliver(c) ==
  /\ pc[c] = "land"
  /\ LET k == key[c]
         all == Passengers(k)
     IN /\ Land(k)
        /\ pc' = [d \in Callers |-> IF d \in all THEN outcome[k] ELSE pc[d]]
        /\ source' = [d \in Callers |-> IF d \in all THEN running[k] ELSE source[d]]
  /\ UNCHANGED <<accepted, key, file, outcome, before>>

(* The caller goes on with its verdict: the history of the call ends. *)
Take(c) ==
  /\ source' = [source EXCEPT ![c] = 0] /\ before' = [before EXCEPT ![c] = {}]
  /\ UNCHANGED <<flightVars, accepted, pc, key, file, outcome>>

CallerStep(c) == Do(c) \/ Request(c) \/ Deliver(c)

-----------------------------------------------------------------------------
(* An error is returned only to calls that overlap the failed request.     *)
NoStaleError ==
  \A c \in Callers :
    pc[c] = "error" /\ source[c] # 0 => source[c] \notin before[c]
=============================================================================
