--------------------------- MODULE DecryptionCache ---------------------------
(***************************************************************************)
(* decryption.Cache.ReadFile (src/internal/decryption/decryption.go):      *)
(* goroutines that read files through sops and vals, behind a cache of     *)
(* successful results and a singleflight group.  The check of the cache,   *)
(* the entry into the group and the end of the flight are separate steps,  *)
(* and what a file evaluates to may change while they happen (a vals       *)
(* backend is rotated, a file is edited).  sops.Decrypt reads an encrypted *)
(* file twice, once for the fields that are encrypted and once, through    *)
(* sops, for what they decrypt to.  sops and vals are run without a limit  *)
(* on their time.  A component: Collection says which goroutine calls      *)
(* ReadFile when, and so bounds the calls.                                 *)
(***************************************************************************)
EXTENDS Singleflight

CONSTANT
  MaxVersions  (* bound: contents a file takes, 1 .. MaxVersions           *)

VARIABLES
  content,  (* content[k]: the version the file at path k evaluates to now *)
  cache,    (* Cache.cache: the result kept for a path, or None            *)
  outcome,  (* outcome[c]: what c's run of the function returned           *)
  fields,   (* fields[c]: the version sops.Decrypt took the ENC fields of  *)
  pc,       (* pc[c]: where caller c is in ReadFile                        *)
  path,     (* path[c]: its argument                                       *)
  answer,   (* answer[c]: what its last call returned                      *)
  source,   (* history: the flight that answer came from, 0 for the cache  *)
  before    (* history: the flights over when c's last call began          *)

vars == <<flightVars, content, cache, outcome, fields, pc, path, answer, source, before>>

(* decryptResult: the version of the content, and the version whose ENC    *)
(* fields say which of its values are secrets.                             *)
Result(v, w) == [content |-> v, fields |-> w]
None == Result(0, 0)
Error == Result(-1, -1)

(* The two reads of sops.Decrypt saw different files. *)
Torn(result) == result.fields # result.content

Init ==
  /\ FlightInit
  /\ content = [k \in Keys |-> 1]
  /\ cache = [k \in Keys |-> None]
  /\ outcome = [c \in Callers |-> None] /\ fields = [c \in Callers |-> 0]
  /\ pc = [c \in Callers |-> "idle"]
  /\ path = [c \in Callers |-> CHOOSE k \in Keys : TRUE]
  /\ answer = [c \in Callers |-> None] /\ source = [c \in Callers |-> 0]
  /\ before = [c \in Callers |-> {}]

(* The world: what the file evaluates to changes. *)
Change(k) ==
  /\ content[k] < MaxVersions
  /\ content' = [content EXCEPT ![k] = @ + 1]
  /\ UNCHANGED <<flightVars, cache, outcome, fields, pc, path, answer, source, before>>

ReadFile(c, k) ==
  /\ pc[c] = "idle"
  /\ pc' = [pc EXCEPT ![c] = "check"]
  /\ path' = [path EXCEPT ![c] = k]
  /\ before' = [before EXCEPT ![c] = ended]
  /\ UNCHANGED <<flightVars, content, cache, outcome, fields, answer, source>>

(* The cache is looked up under the read lock. *)
Check(c) ==
  /\ pc[c] = "check"
  /\ \/ /\ cache[path[c]] # None
        /\ answer' = [answer EXCEPT ![c] = cache[path[c]]]
        /\ source' = [source EXCEPT ![c] = 0]
        /\ pc' = [pc EXCEPT ![c] = "idle"]
     \/ /\ cache[path[c]] = None
        /\ pc' = [pc EXCEPT ![c] = "do"]
        /\ UNCHANGED <<answer, source>>
  /\ UNCHANGED <<flightVars, content, cache, outcome, fields, path, before>>

(* Mutant of Do: no singleflight group. *)
DoAlone(c) ==
  /\ pc[c] = "do"
  /\ flights' = flights + 1
  /\ running' = [running EXCEPT ![path[c]] = flights + 1]
  /\ aboard' = [aboard EXCEPT ![c] = flights + 1]
  /\ pc' = [pc EXCEPT ![c] = "fork"]
  /\ UNCHANGED <<ended, content, cache, outcome, fields, path, answer, source, before>>

(* c.sf.Do(path, ...), without another look at the cache. *)
Do(c) ==
  /\ pc[c] = "do"
  /\ \/ Lead(c, path[c]) /\ pc' = [pc EXCEPT ![c] = "fork"]
     \/ Board(c, path[c]) /\ pc' = [pc EXCEPT ![c] = "wait"]
  /\ UNCHANGED <<content, cache, outcome, fields, path, answer, source, before>>

(* Mutant of Fork: errors are cached as well. *)
ForkKeepsErrors(c) ==
  /\ pc[c] = "fork"
  /\ \E r \in {Result(content[path[c]], content[path[c]]), Error} :
       outcome' = [outcome EXCEPT ![c] = r]
  /\ pc' = [pc EXCEPT ![c] = "store"]
  /\ UNCHANGED <<flightVars, content, cache, fields, path, answer, source, before>>

(* Stat, sops filestatus and the first read: an error, the content of the  *)
(* moment for a file that sops has not encrypted (and vals evaluates),     *)
(* the encrypted fields of the moment for one that it has, or no end.      *)
Fork(c) ==
  /\ pc[c] = "fork"
  /\ LET now == content[path[c]]
         Ends(r, next) == /\ outcome' = [outcome EXCEPT ![c] = r]
                          /\ pc' = [pc EXCEPT ![c] = next] /\ UNCHANGED fields
     IN \/ Ends(Error, "land")
        \/ Ends(Result(now, now), "store")
        \/ /\ fields' = [fields EXCEPT ![c] = now]
           /\ pc' = [pc EXCEPT ![c] = "decrypt"] /\ UNCHANGED outcome
        \/ pc' = [pc EXCEPT ![c] = "hung"] /\ UNCHANGED <<outcome, fields>>
  /\ UNCHANGED <<flightVars, content, cache, path, answer, source, before>>

(* sops decrypt, which reads the file again, and vals. *)
Decrypt(c) ==
  /\ pc[c] = "decrypt"
  /\ \/ /\ outcome' = [outcome EXCEPT ![c] = Error]
        /\ pc' = [pc EXCEPT ![c] = "land"]
     \/ /\ outcome' = [outcome EXCEPT ![c] = Result(content[path[c]], fields[c])]
        /\ pc' = [pc EXCEPT ![c] = "store"]
     \/ pc' = [pc EXCEPT ![c] = "hung"] /\ UNCHANGED outcome
  /\ fields' = [fields EXCEPT ![c] = 0]
  /\ UNCHANGED <<flightVars, content, cache, path, answer, source, before>>

(* A success is kept under the write lock; an error is not. *)
Store(c) ==
  /\ pc[c] = "store"
  /\ cache' = [cache EXCEPT ![path[c]] = outcome[c]]
  /\ pc' = [pc EXCEPT ![c] = "land"]
  /\ UNCHANGED <<flightVars, content, outcome, fields, path, answer, source, before>>

(* Mutant of Deliver: only the caller that ran the function gets a result. *)
DeliverToLeader(c) ==
  /\ pc[c] = "land"
  /\ Land(path[c])
  /\ answer' = [answer EXCEPT ![c] = outcome[c]]
  /\ source' = [source EXCEPT ![c] = running[path[c]]]
  /\ pc' = [pc EXCEPT ![c] = "idle"]
  /\ UNCHANGED <<content, cache, outcome, fields, path, before>>

(* The flight ends and ReadFile returns to all its passengers. *)
Deliver(c) ==
  /\ pc[c] = "land"
  /\ LET k == path[c]
         all == Passengers(k)
         To(old, new) == [d \in Callers |-> IF d \in all THEN new ELSE old[d]]
     IN /\ Land(k)
        /\ answer' = To(answer, outcome[c])
        /\ source' = To(source, running[k])
        /\ pc' = To(pc, "idle")
  /\ outcome' = [outcome EXCEPT ![c] = None]
  /\ UNCHANGED <<content, cache, fields, path, before>>

(* The caller goes on with its answer: the history of the call ends. *)
Take(c) ==
  /\ answer' = [answer EXCEPT ![c] = None]
  /\ source' = [source EXCEPT ![c] = 0] /\ before' = [before EXCEPT ![c] = {}]
  /\ UNCHANGED <<flightVars, content, cache, outcome, fields, pc, path>>

CallerStep(c) ==
  Check(c) \/ Do(c) \/ Fork(c) \/ Decrypt(c) \/ Store(c) \/ Deliver(c)

(* A call under way ends unless the flight it is on hangs. *)
Hung(c) == \E d \in Callers : pc[d] = "hung" /\ path[d] = path[c]
HeldUp(c) == pc[c] \in {"wait", "hung"} /\ Hung(c)

-----------------------------------------------------------------------------
(* An error is shared only by calls that overlap the failed read: a call   *)
(* that begins after it tries again.                                       *)
NoStaleError ==
  \A c \in Callers :
    pc[c] = "idle" /\ answer[c] = Error => source[c] \notin before[c] \cup {0}
=============================================================================
