----------------------------- MODULE Collection -----------------------------
(***************************************************************************)
(* topf.FilteredNodes and topf.Render (src/internal/topf/nodes.go and      *)
(* render.go): a goroutine per node that asks the machine for its state,   *)
(* resolves the node's schematic, loads its patches, obtains the secrets   *)
(* bundle and builds the node's config.  The goroutines meet in the        *)
(* decryption cache (instance Files), in the schematic resolver (instance  *)
(* Submissions), in the bundle and in the masked writer; Secrets() is the  *)
(* one step of SharedBundle, which module Secrets implements.              *)
(***************************************************************************)
EXTENDS Integers, Sequences, FiniteSets

CONSTANTS
  Nodes,       (* the nodes that match the filter                          *)
  PatchesOf,   (* PatchesOf[n]: the patch files of node n, in load order   *)
  SchematicOf, (* SchematicOf[n]: the factory and ID n's reference is for  *)
  Submit,      (* --submit-to-factory                                      *)
  Changing,    (* bound: the patch files whose content changes meanwhile   *)
  MaxVersions, (* bound: contents such a file takes                        *)
  Modes        (* the calls explored: "nodes" is FilteredNodes, "online"   *)
               (* and "offline" are the two forms of Render                *)

Paths == UNION {{PatchesOf[n][i] : i \in DOMAIN PatchesOf[n]} : n \in Nodes}
Schematics == {SchematicOf[n] : n \in Nodes}

ASSUME CollectionAssumption ==
  /\ IsFiniteSet(Nodes) /\ Nodes # {} /\ Paths # {} /\ Changing \subseteq Paths
  /\ PatchesOf \in [Nodes -> Seq(Paths)]
  /\ Submit \in BOOLEAN /\ MaxVersions \in Nat \ {0}
  /\ Modes \subseteq {"nodes", "online", "offline"}

VARIABLES
  mode,      (* which of the calls this is                                 *)
  at,        (* at[n]: where the goroutine of node n is                    *)
  stage,     (* stage[n]: Node.MachineStatus.Stage                         *)
  loaded,    (* loaded[n]: the results of n's patch files read so far      *)
  found,     (* found[n]: secrets found in them (patchSecrets)             *)
  bundle,    (* the secrets bundle is in memory                            *)
  masked,    (* what the masked writer has been told to hide               *)
  error,     (* the nodes with a Node.Error                                *)
  config,    (* the nodes with a Node.ConfigBundle                         *)
  returned,  (* the call has returned its nodes                            *)
  (* the decryption cache *)
  fRunning, fAboard, fFlights, fEnded,
  content, cache, fOutcome, fFields, fPc, fPath, fAnswer, fSource, fBefore,
  (* the schematic resolver *)
  sRunning, sAboard, sFlights, sEnded,
  accepted, sPc, sKey, sFile, sOutcome, sSource, sBefore

Files == INSTANCE DecryptionCache WITH
  Callers <- Nodes, Keys <- Paths, MaxVersions <- MaxVersions,
  running <- fRunning, aboard <- fAboard, flights <- fFlights, ended <- fEnded,
  content <- content, cache <- cache, outcome <- fOutcome, fields <- fFields,
  pc <- fPc, path <- fPath, answer <- fAnswer, source <- fSource, before <- fBefore

Submissions == INSTANCE SchematicResolver WITH
  Callers <- Nodes, Keys <- Schematics, Submit <- Submit,
  running <- sRunning, aboard <- sAboard, flights <- sFlights, ended <- sEnded,
  accepted <- accepted, pc <- sPc, key <- sKey, file <- sFile,
  outcome <- sOutcome, source <- sSource, before <- sBefore

progress == <<at, stage, loaded, found>>
shared == <<bundle, masked, error, config>>
fileVars == <<fRunning, fAboard, fFlights, fEnded, content, cache, fOutcome,
              fFields, fPc, fPath, fAnswer, fSource, fBefore>>
submissionVars == <<sRunning, sAboard, sFlights, sEnded, accepted, sPc, sKey,
                    sFile, sOutcome, sSource, sBefore>>
components == <<fileVars, submissionVars>>
vars == <<mode, returned, progress, shared, components>>

OldSecrets(n) == [of |-> n, version |-> 0]   (* of the config n runs now *)
BundleSecrets == [of |-> "bundle", version |-> 0]
PatchSecret(n, i) == [of |-> PatchesOf[n][i], version |-> loaded[n][i].content]
PatchSecrets(n) == {PatchSecret(n, i) : i \in DOMAIN loaded[n]}

Init ==
  /\ mode \in Modes
  /\ at = [n \in Nodes |-> IF mode = "offline" THEN "resolve" ELSE "client"]
  /\ stage = [n \in Nodes |-> "unknown"]
  /\ loaded = [n \in Nodes |-> <<>>] /\ found = [n \in Nodes |-> {}]
  /\ bundle = FALSE /\ masked = {}
  /\ error = {} /\ config = {}
  /\ returned = FALSE
  /\ Files!Init /\ Submissions!Init

Goto(n, place) == at' = [at EXCEPT ![n] = place]
SetError(n) == error' = error \cup {n} /\ Goto(n, "failed")

(* t.Secrets(): the bundle, registered for redaction when it is loaded or  *)
(* generated; an error, which leaves the next caller to try again; or no   *)
(* end, for the provider (a file that sops or vals reads, a binary) is run *)
(* without a limit and with the mutex held, so that others wait for it.    *)
Secrets(n, then) ==
  /\ \A m \in Nodes : at[m] # "provider"
  /\ \/ /\ bundle' = TRUE
        /\ masked' = IF bundle THEN masked ELSE masked \cup {BundleSecrets}
        /\ Goto(n, then) /\ UNCHANGED error
     \/ ~bundle /\ SetError(n) /\ UNCHANGED <<bundle, masked>>
     \/ ~bundle /\ Goto(n, "provider") /\ UNCHANGED <<bundle, masked, error>>

(* Node.Client: the probe for mTLS fails, asks for no certificate, or asks *)
(* for one (checkForMTLS, 3 seconds) ...                                   *)
Client(n) ==
  /\ at[n] = "client"
  /\ \/ SetError(n)
     \/ Goto(n, "status") /\ UNCHANGED error
     \/ Goto(n, "certificate") /\ UNCHANGED error
  /\ UNCHANGED <<mode, returned, stage, loaded, found, bundle, masked, config, components>>

(* ... which needs the bundle. *)
Certificate(n) ==
  /\ at[n] = "certificate"
  /\ Secrets(n, "status")
  /\ UNCHANGED <<mode, returned, stage, loaded, found, config, components>>

(* The COSI reads run under context.Background() (root.go:100) and without *)
(* a limit: a machine that takes the connection and never answers holds    *)
(* its goroutine for ever.                                                 *)
NoAnswer(n) == Goto(n, "hung") /\ UNCHANGED error

MachineStatus(n) ==
  /\ at[n] = "status"
  /\ \/ (SetError(n) \/ NoAnswer(n)) /\ UNCHANGED stage
     \/ \E s \in {"maintenance", "installed"} :
          /\ stage' = [stage EXCEPT ![n] = s]
          /\ Goto(n, IF s = "maintenance" THEN "info" ELSE "machineconfig")
          /\ UNCHANGED error
  /\ UNCHANGED <<mode, returned, loaded, found, bundle, masked, config, components>>

(* Mutant of MachineConfig: the config the machine runs is optional. *)
MachineConfigOptional(n) ==
  /\ at[n] = "machineconfig"
  /\ masked' \in {masked, masked \cup {OldSecrets(n)}}
  /\ Goto(n, "info")
  /\ UNCHANGED <<mode, returned, stage, loaded, found, bundle, error, config, components>>

(* The secrets of the config that the machine runs are registered. *)
MachineConfig(n) ==
  /\ at[n] = "machineconfig"
  /\ \/ (SetError(n) \/ NoAnswer(n)) /\ UNCHANGED masked
     \/ masked' = masked \cup {OldSecrets(n)} /\ Goto(n, "info") /\ UNCHANGED error
  /\ UNCHANGED <<mode, returned, stage, loaded, found, bundle, config, components>>

(* Extensions and versions; FilteredNodes goes on, Render waits for all.   *)
MachineInfo(n) ==
  /\ at[n] = "info"
  /\ \/ SetError(n) \/ NoAnswer(n)
     \/ Goto(n, IF mode = "nodes" THEN "resolve" ELSE "collected") /\ UNCHANGED error
  /\ UNCHANGED <<mode, returned, stage, loaded, found, bundle, masked, config, components>>

(* Mutant of Generate: the nodes that could not be collected as well. *)
GenerateAll ==
  /\ \A n \in Nodes : at[n] \in {"collected", "failed"}
  /\ \E n \in Nodes : at[n] = "collected"
  /\ at' = [n \in Nodes |-> "resolve"]
  /\ UNCHANGED <<mode, returned, stage, loaded, found, shared, components>>

(* Render's first wg.Wait(); then a goroutine for each node without error. *)
Generate ==
  /\ \A n \in Nodes : at[n] \in {"collected", "failed"}
  /\ \E n \in Nodes : at[n] = "collected"
  /\ at' = [n \in Nodes |-> IF n \in error THEN at[n] ELSE "resolve"]
  /\ UNCHANGED <<mode, returned, stage, loaded, found, shared, components>>

(* generateNodeConfig: resolver.Resolve ... *)
Resolve(n) ==
  /\ at[n] = "resolve"
  /\ Submissions!Resolve(n, SchematicOf[n])
  /\ Goto(n, "resolving")
  /\ UNCHANGED <<mode, returned, stage, loaded, found, shared, fileVars>>

ResolverStep(n) ==
  /\ at[n] = "resolving"
  /\ Submissions!CallerStep(n)
  /\ UNCHANGED <<mode, returned, progress, shared, fileVars>>

Resolved(n) ==
  /\ at[n] = "resolving"
  /\ \/ sPc[n] = "error" /\ SetError(n)
     \/ sPc[n] = "id" /\ Goto(n, "load") /\ UNCHANGED error
  /\ Submissions!Take(n)
  /\ UNCHANGED <<mode, returned, stage, loaded, found, bundle, masked, config, fileVars>>

(* ... patchContext.Load: the files in order, through the cache ... *)
ReadPatch(n) ==
  /\ at[n] = "load"
  /\ Len(loaded[n]) < Len(PatchesOf[n])
  /\ Files!ReadFile(n, PatchesOf[n][Len(loaded[n]) + 1])
  /\ Goto(n, "reading")
  /\ UNCHANGED <<mode, returned, stage, loaded, found, shared, submissionVars>>

CacheStep(n) ==
  /\ at[n] = "reading"
  /\ Files!CallerStep(n)
  /\ UNCHANGED <<mode, returned, progress, shared, submissionVars>>

(* Load returns no patches and no secrets with an error. *)
Forget(n) ==
  /\ loaded' = [loaded EXCEPT ![n] = <<>>]
  /\ found' = [found EXCEPT ![n] = {}]

SecretOf(n) == [of |-> fPath[n], version |-> fAnswer[n].content]

(* ExtractSecrets takes from the content the values of the fields that were *)
(* encrypted: in a torn read, a value encrypted since is no secret to it.   *)
SecretsReturned(n) ==
  IF Files!Torn(fAnswer[n]) THEN {{}, {SecretOf(n)}} ELSE {{SecretOf(n)}}

(* Mutant of PatchRead: a cached file comes without its secrets. *)
PatchReadOfCache(n) ==
  /\ at[n] = "reading" /\ fPc[n] = "idle"
  /\ \/ SetError(n) /\ Forget(n)
     \/ /\ fAnswer[n] # Files!Error
        /\ loaded' = [loaded EXCEPT ![n] = Append(@, fAnswer[n])]
        /\ found' = IF fSource[n] = 0 THEN found
                    ELSE [found EXCEPT ![n] = @ \cup {SecretOf(n)}]
        /\ Goto(n, "load") /\ UNCHANGED error
  /\ Files!Take(n)
  /\ UNCHANGED <<mode, returned, stage, bundle, masked, config, submissionVars>>

(* ReadFile has returned an error, or a content that may not parse. *)
PatchRead(n) ==
  /\ at[n] = "reading" /\ fPc[n] = "idle"
  /\ \/ SetError(n) /\ Forget(n)
     \/ /\ fAnswer[n] # Files!Error
        /\ loaded' = [loaded EXCEPT ![n] = Append(@, fAnswer[n])]
        /\ \E some \in SecretsReturned(n) : found' = [found EXCEPT ![n] = @ \cup some]
        /\ Goto(n, "load") /\ UNCHANGED error
  /\ Files!Take(n)
  /\ UNCHANGED <<mode, returned, stage, bundle, masked, config, submissionVars>>

(* ... installerImagePatch and, if that did not fail,                      *)
(* AddSecretsToMask(patchSecrets) ...                                      *)
MaskPatchSecrets(n) ==
  /\ at[n] = "load"
  /\ Len(loaded[n]) = Len(PatchesOf[n])
  /\ \/ SetError(n) /\ UNCHANGED masked
     \/ masked' = masked \cup found[n] /\ Goto(n, "secrets") /\ UNCHANGED error
  /\ found' = [found EXCEPT ![n] = {}]
  /\ UNCHANGED <<mode, returned, stage, loaded, bundle, config, components>>

(* ... t.Secrets() ... *)
GetSecrets(n) ==
  /\ at[n] = "secrets"
  /\ Secrets(n, "bundle")
  /\ UNCHANGED <<mode, returned, stage, loaded, found, config, components>>

(* ... and bundle.NewBundle. *)
NewBundle(n) ==
  /\ at[n] = "bundle"
  /\ \/ SetError(n) /\ UNCHANGED config
     \/ config' = config \cup {n} /\ Goto(n, "done") /\ UNCHANGED error
  /\ UNCHANGED <<mode, returned, stage, loaded, found, bundle, masked, components>>

(* wg.Wait(); return nodes. *)
Return ==
  /\ ~returned
  /\ \A n \in Nodes : at[n] \in {"done", "failed"}
  /\ returned' = TRUE
  /\ UNCHANGED <<mode, progress, shared, components>>

NodeStep(n) ==
  \/ Client(n) \/ Certificate(n) \/ MachineStatus(n)
  \/ MachineConfig(n) \/ MachineInfo(n)
  \/ Resolve(n) \/ ResolverStep(n) \/ Resolved(n)
  \/ ReadPatch(n) \/ CacheStep(n) \/ PatchRead(n)
  \/ MaskPatchSecrets(n) \/ GetSecrets(n) \/ NewBundle(n)

(* The world: what a patch file evaluates to changes while topf runs. *)
FileChanges ==
  /\ ~returned /\ \E p \in Changing : Files!Change(p)
  /\ UNCHANGED <<mode, returned, progress, shared, submissionVars>>

Next == (\E n \in Nodes : NodeStep(n)) \/ Generate \/ Return \/ FileChanges

(* The scheduler runs every goroutine that can go on, and a call that ends *)
(* ends: one that does not is a step of its own, to "hung" or "provider".  *)
(* The probe for mTLS (3 seconds, client.go:111) and the factory's HTTP    *)
(* client (10 seconds, resolver.go:69) have a limit and never hang.        *)
Fairness ==
  /\ \A n \in Nodes : WF_vars(NodeStep(n))
  /\ WF_vars(Generate) /\ WF_vars(Return)

Spec == Init /\ [][Next]_vars /\ Fairness

-----------------------------------------------------------------------------
(* What apply can print of node n, whose machine answers the dry run with  *)
(* a diff of its config and the new one.                                   *)
Diff(n) ==
  PatchSecrets(n) \cup {BundleSecrets}
    \cup (IF stage[n] = "installed" THEN {OldSecrets(n)} ELSE {})

(* The secrets of the files that changed between the two reads that        *)
(* sops.Decrypt makes of them (sops.go:51 and 57-63).                      *)
TornSecrets(n) ==
  {PatchSecret(n, i) : i \in {j \in DOMAIN loaded[n] : Files!Torn(loaded[n][j])}}

(* Once the nodes are returned, every secret that the diff of any node     *)
(* with a config can show is known to the masked writer: the ones a        *)
(* goroutine found in a file that another goroutine had read, or that has  *)
(* changed since, included (topf.go AddSecretsToMask, nodes.go:55-73).     *)
(* Excepted are those of a torn read, which the code can miss.             *)
MaskedOnReturn ==
  returned => \A n \in config : Diff(n) \ TornSecrets(n) \subseteq masked

(* Each node leaves the call with a Node.Error or with a ConfigBundle, and *)
(* with one of them only: Apply and writeMachineConfigs tell them apart.   *)
OutcomePerNode == returned => \A n \in Nodes : n \in error <=> n \notin config

(* A config is built only when the factory has the schematic that its      *)
(* installer image names, also when another node's goroutine asked for it. *)
AcceptedBeforeUse ==
  \A n \in config : Submit /\ sFile[n] => SchematicOf[n] \in accepted

(* A failed read or request reaches only goroutines that overlap it: one   *)
(* node's failure is never handed to a node that asks later.               *)
NoStaleError == Files!NoStaleError /\ Submissions!NoStaleError

(* The cache never goes back to an older content, and forgets none, though *)
(* a goroutine that missed it may fork after it was filled.                *)
CacheForward ==
  [][\A p \in Paths : cache'[p].content >= cache[p].content]_vars

(* A machine, a fork or the provider hangs, and every goroutine has ended, *)
(* hangs itself, waits for one that does, or has been collected and waits  *)
(* for the others in Render's first wg.Wait().                             *)
Holds(n) == at[n] \in {"hung", "provider"} \/ (at[n] = "reading" /\ fPc[n] = "hung")
WaitsForever(n) ==
  \/ at[n] = "reading" /\ Files!HeldUp(n)
  \/ at[n] \in {"certificate", "secrets"} /\ \E m \in Nodes : at[m] = "provider"
HeldUp ==
  /\ \E n \in Nodes : Holds(n)
  /\ \A n \in Nodes :
       Holds(n) \/ WaitsForever(n) \/ at[n] \in {"collected", "done", "failed"}

(* The call returns, whoever fails and whoever waits for whom, unless a    *)
(* call that nothing bounds hangs; and then only those wait for ever that  *)
(* wait for that call.                                                     *)
EndsOrHangs == <>(returned \/ HeldUp)
=============================================================================
