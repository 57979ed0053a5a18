------------------------------- MODULE Secrets -------------------------------
(***************************************************************************)
(* The cluster's secrets bundle: topf.Secrets, generateAndStoreSecrets and *)
(* the two secrets providers (src/internal/topf/secrets.go,                *)
(* src/pkg/providers).  The goroutines of a process ask for the bundle at  *)
(* the same time, one per node; the first to hold the mutex loads it or,   *)
(* if the store has none, generates and stores a new one.  Storing it may  *)
(* fail half-way, and the process may be killed between any two steps and  *)
(* be started again.                                                       *)
(***************************************************************************)
EXTENDS Integers, FiniteSets

CONSTANTS
  Groups,      (* the sets of topf processes that may use the store at the *)
               (* same time                                                *)
  Callers,     (* goroutines of a process that call Secrets                *)
  MaxBundles,  (* bound: bundles generated                                 *)
  MaxCrashes,  (* bound: processes killed                                  *)
  Providers,   (* "file", "binary": the provider topf.yaml configures      *)
  Missing,     (* the providers of which a program may be missing at times *)
  Nobody       (* model value: the mutex is free                           *)

ASSUME SecretsAssumption ==
  /\ MaxBundles \in Nat /\ MaxCrashes \in Nat
  /\ Providers \subseteq {"file", "binary"} /\ Missing \subseteq Providers
  /\ Nobody \notin Callers
  /\ \A g \in Groups : IsFiniteSet(g)

Processes == UNION Groups

VARIABLES
  active,    (* the processes that use the store at the same time          *)
  provider,  (* the configured provider                                    *)
  confirm,   (* --confirm                                                  *)
  store,     (* secrets.yaml: a bundle, Absent, Empty or Garbage           *)
  made,      (* bundles generated so far: 1 .. made; 0 was there before    *)
  crashes,
  mu,        (* mu[p]: the caller of p that holds topf.mu, or Nobody       *)
  bundle,    (* bundle[p]: topf.secretsBundle, or Absent                   *)
  cached,    (* cached[p]: what decryptCache holds of the file, or Absent  *)
  fresh,     (* fresh[p]: the bundle p generated last, or Absent           *)
  masked,    (* masked[p]: bundles whose secrets the writer masks          *)
  pc,        (* pc[p][c]: where caller c of p is                           *)
  got,       (* got[p][c]: the bundle it was given, or Absent              *)
  used,      (* history: bundles handed to any caller of any process       *)
  vanished   (* history: a Get said that there is none while there was one *)

vars == <<active, provider, confirm, store, made, crashes, mu, bundle, cached, fresh,
          masked, pc, got, used, vanished>>
outside == <<active, provider, confirm, crashes, vanished>>

Bundles == 0 .. MaxBundles
Absent == -1    \* no file
Empty == -2     \* a file without a byte
Garbage == -3   \* a file that does not unmarshal or validate

Init ==
  /\ active \in Groups
  /\ provider \in Providers /\ confirm \in BOOLEAN
  /\ store \in {0, Absent, Empty, Garbage}
  /\ made = 0 /\ crashes = 0
  /\ mu = [p \in Processes |-> Nobody]
  /\ bundle = [p \in Processes |-> Absent]
  /\ cached = [p \in Processes |-> Absent]
  /\ fresh = [p \in Processes |-> Absent]
  /\ masked = [p \in Processes |-> {}]
  /\ pc = [p \in Processes |-> [c \in Callers |-> "start"]]
  /\ got = [p \in Processes |-> [c \in Callers |-> Absent]]
  /\ used = {} /\ vanished = FALSE

Goto(p, c, s) == pc' = [pc EXCEPT ![p][c] = s]

(* Mutant of ReturnBundle: an error path keeps the mutex. *)
ReturnErrorLocked(p, c, b) ==
  /\ mu' = IF b = Absent THEN mu ELSE [mu EXCEPT ![p] = Nobody]
  /\ got' = [got EXCEPT ![p][c] = b]
  /\ used' = IF b = Absent THEN used ELSE used \cup {b}
  /\ Goto(p, c, IF b = Absent THEN "failed" ELSE "ok")

(* Return b, or an error for Absent; the deferred Unlock. *)
ReturnBundle(p, c, b) ==
  /\ mu' = [mu EXCEPT ![p] = Nobody]
  /\ got' = [got EXCEPT ![p][c] = b]
  /\ used' = IF b = Absent THEN used ELSE used \cup {b}
  /\ Goto(p, c, IF b = Absent THEN "failed" ELSE "ok")

Goes(p, c, s) == Goto(p, c, s) /\ UNCHANGED <<mu, bundle, masked, got, used>>

(* Mutant of Publish: the secrets are not registered for masking. *)
PublishUnmasked(p, c, b) ==
  /\ bundle' = [bundle EXCEPT ![p] = b]
  /\ UNCHANGED masked
  /\ ReturnBundle(p, c, b)

(* The bundle is kept and its secrets are masked before it is returned. *)
Publish(p, c, b) ==
  /\ bundle' = [bundle EXCEPT ![p] = b]
  /\ masked' = [masked EXCEPT ![p] = @ \cup {b}]
  /\ ReturnBundle(p, c, b)

(* Mutant of Lock: no mutual exclusion. *)
LockNothing(p, c) ==
  /\ pc[p][c] = "start"
  /\ \/ bundle[p] # Absent /\ ReturnBundle(p, c, bundle[p])
     \/ /\ bundle[p] = Absent
        /\ Goto(p, c, "load")
        /\ UNCHANGED <<mu, got, used>>
  /\ UNCHANGED <<outside, store, made, bundle, cached, fresh, masked>>

(* t.mu.Lock(): a bundle already loaded is returned at once. *)
Lock(p, c) ==
  /\ pc[p][c] = "start" /\ mu[p] = Nobody
  /\ \/ /\ bundle[p] # Absent
        /\ ReturnBundle(p, c, bundle[p])
     \/ /\ bundle[p] = Absent
        /\ mu' = [mu EXCEPT ![p] = c]
        /\ Goto(p, c, "load")
        /\ UNCHANGED <<got, used>>
  /\ UNCHANGED <<outside, store, made, bundle, cached, fresh, masked>>

(* provider.Get: the file is read, decrypted and cached once it is there,  *)
(* the binary is run each time; either may fail for a reason of its own.   *)
(* Absent is every error that Is fs.ErrNotExist: of a file that is not     *)
(* there, and of a program that is not: the binary or its interpreter, or  *)
(* the one of vals when secrets.yaml has references (fork/exec: no such    *)
(* file or directory), wrapped with %w, whatever the store has.            *)
GetResults(p) ==
  IF provider = "file" /\ cached[p] # Absent THEN {cached[p]}
  ELSE {store, Garbage} \cup (IF provider \in Missing THEN {Absent} ELSE {})

(* Mutant of Load: any error counts as ErrSecretsNotFound. *)
LoadOrGenerate(p, c) ==
  /\ pc[p][c] = "load"
  /\ \E r \in GetResults(p) :
       /\ vanished' = (vanished \/ (r = Absent /\ store \in Bundles))
       /\ \/ r \in Bundles /\ Publish(p, c, r)
          \/ r \notin Bundles /\ Goes(p, c, "generate")
  /\ UNCHANGED <<active, provider, confirm, crashes, store, made, cached, fresh>>

(* LoadSecretsBundle: an error that Is fs.ErrNotExist, or no byte, is      *)
(* ErrSecretsNotFound and leads on to a new bundle; another error or an    *)
(* invalid bundle is returned.                                             *)
Load(p, c) ==
  /\ pc[p][c] = "load"
  /\ \E r \in GetResults(p) :
       /\ cached' = IF provider = "file" /\ r = store
                    THEN [cached EXCEPT ![p] = r] ELSE cached
       /\ vanished' = (vanished \/ (r = Absent /\ store \in Bundles))
       /\ \/ r \in Bundles /\ Publish(p, c, r)
          \/ /\ r \in {Absent, Empty}
             /\ Goes(p, c, IF confirm THEN "ask" ELSE "generate")
          \/ /\ r = Garbage
             /\ ReturnBundle(p, c, Absent) /\ UNCHANGED <<bundle, masked>>
  /\ UNCHANGED <<active, provider, confirm, crashes, store, made, fresh>>

(* ConfirmPrompt, with the mutex held. *)
Ask(p, c) ==
  /\ pc[p][c] = "ask"
  /\ \/ Goes(p, c, "generate")
     \/ ReturnBundle(p, c, Absent) /\ UNCHANGED <<bundle, masked>>
  /\ UNCHANGED <<outside, store, made, cached, fresh>>

(* NewBundle, then provider.Put. os.WriteFile opens and truncates the file *)
(* first, or fails to; the binary is taken to store the bundle in one step.*)
Generate(p, c) ==
  /\ pc[p][c] = "generate" /\ made < MaxBundles
  /\ made' = made + 1
  /\ fresh' = [fresh EXCEPT ![p] = made + 1]
  /\ \/ /\ store' = IF provider = "file" THEN Empty ELSE store
        /\ Goes(p, c, "write")
     \/ /\ ReturnBundle(p, c, Absent)
        /\ UNCHANGED <<store, bundle, masked>>
  /\ UNCHANGED <<outside, cached>>

(* Put ends: stored and returned to the caller, or an error with the       *)
(* bundle stored nevertheless, in part, or not at all.                     *)
Write(p, c) ==
  /\ pc[p][c] = "write"
  /\ \/ /\ store' = fresh[p]
        /\ Publish(p, c, fresh[p])
     \/ /\ store' \in {fresh[p], IF provider = "file" THEN Garbage ELSE store}
        /\ ReturnBundle(p, c, Absent)
        /\ UNCHANGED <<bundle, masked>>
  /\ UNCHANGED <<outside, made, fresh, cached>>

(* The process is killed, or ends, and is started again. *)
Crash(p) ==
  /\ crashes < MaxCrashes
  /\ crashes' = crashes + 1
  /\ mu' = [mu EXCEPT ![p] = Nobody]
  /\ bundle' = [bundle EXCEPT ![p] = Absent]
  /\ cached' = [cached EXCEPT ![p] = Absent]
  /\ fresh' = [fresh EXCEPT ![p] = Absent]
  /\ masked' = [masked EXCEPT ![p] = {}]
  /\ pc' = [pc EXCEPT ![p] = [c \in Callers |-> "start"]]
  /\ got' = [got EXCEPT ![p] = [c \in Callers |-> Absent]]
  /\ \/ UNCHANGED store
     \/ /\ \E c \in Callers : pc[p][c] = "write"
        /\ store' \in {fresh[p], IF provider = "file" THEN Garbage ELSE store}
  /\ UNCHANGED <<active, provider, confirm, made, used, vanished>>

CallerStep(p, c) ==
  Lock(p, c) \/ Load(p, c) \/ Ask(p, c) \/ Generate(p, c) \/ Write(p, c)

Next ==
  \E p \in active : Crash(p) \/ \E c \in Callers : CallerStep(p, c)

Spec == Init /\ [][Next]_vars

(* The mutex is handed on, files and binaries answer, and so does the      *)
(* operator.                                                               *)
FairSpec ==
  Spec /\ \A p \in Processes, c \in Callers : WF_vars(p \in active /\ CallerStep(p, c))

-----------------------------------------------------------------------------
(* With one process running at a time: whatever bundle any caller was ever *)
(* given, in this run or an earlier one that was killed, is the one in the *)
(* store. No node is configured from a bundle that a failed or interrupted *)
(* Put lost, and no run replaces a bundle that is in use. Excepted is what *)
(* follows a Get that took a missing program for missing secrets: there    *)
(* the code goes on to a new bundle (secrets.go:33, secrets_binary.go:31). *)
OneBundle == Cardinality(active) = 1 /\ ~vanished => used \subseteq {store}

(* All callers of a process are given the same bundle, also when another   *)
(* process uses the store at the same time.                                *)
ProcessAgrees ==
  \A p \in Processes : \A c, d \in Callers :
    pc[p][c] = "ok" /\ pc[p][d] = "ok" => got[p][c] = got[p][d]

(* The secrets of a bundle are masked in the output before any goroutine   *)
(* can print something that was made from it.                              *)
MaskedBeforeUse ==
  \A p \in Processes, c \in Callers : pc[p][c] = "ok" => got[p][c] \in masked[p]

(* No caller waits for the mutex for ever, whoever failed while holding    *)
(* it.                                                                     *)
CallersReturn ==
  \A p \in Processes, c \in Callers :
    p \in active ~> pc[p][c] \in {"ok", "failed"}

-----------------------------------------------------------------------------
(* How a caller stands that has not returned is no matter of the others.   *)
Answer(place) ==
  IF place = "ok" THEN "given" ELSE IF place = "failed" THEN "refused" ELSE "awaited"

(* To the callers in process p a call is one step.                         *)
Promise(p) == INSTANCE SharedBundle WITH
  None <- Absent, bundle <- bundle[p], masked <- masked[p],
  answer <- [c \in Callers |-> Answer(pc[p][c])], got <- got[p]

(* Whatever the others do meanwhile, in this process or in another one: a  *)
(* call of topf.Secrets is one step, which registers and hands out the one *)
(* bundle of the process, or fails as long as there is none.               *)
ImplementsSharedBundle ==
  /\ \A p \in Processes : Promise(p)!Init
  /\ [][\A p \in Processes : [Promise(p)!Next]_(Promise(p)!vars)]_vars
=============================================================================
