-------------------------- MODULE CollectionProofs --------------------------
(***************************************************************************)
(* Proofs about FilteredNodes and Render for any number of nodes, any      *)
(* patch files and any schematics: each node leaves with an error or a     *)
(* config, what its diff can show is masked, the factory has the schematic *)
(* its config names, the cache goes forward, no error outlives its flight. *)
(* Invariants: Settled; Masking, with Settled; Accepting, with Settled;    *)
(* Reading, beside Masking; Told, beside Accepting.                        *)
(***************************************************************************)
EXTENDS Collection, TLAPS

Places == {"client", "certificate", "provider", "status", "machineconfig", "info",
           "hung", "collected", "resolve", "resolving", "load", "reading",
           "secrets", "bundle", "done", "failed"}

(* What error, config and returned say of the goroutines. *)
Settled ==
  /\ at \in [Nodes -> Places]
  /\ error \subseteq Nodes /\ config \subseteq Nodes
  /\ \A n \in Nodes : n \in error <=> at[n] = "failed"
  /\ \A n \in Nodes : n \in config <=> at[n] = "done"
  /\ returned => \A n \in Nodes : at[n] \in {"done", "failed"}

LEMMA InitSettled == Init => Settled
  BY DEF Init, Settled, Places

(* Every step of a goroutine that sets Node.Error ends it, and only the    *)
(* last one sets the config.                                               *)
LEMMA NextSettled == Settled /\ [Next]_vars => Settled'
  <1> SUFFICES ASSUME Settled, [Next]_vars PROVE Settled'
    OBVIOUS
  <1> USE DEF Settled, Places
  <1>1. ASSUME NEW n \in Nodes, NodeStep(n) PROVE Settled'
    <2>1. CASE Client(n)
      BY <2>1 DEF Client, Goto, SetError
    <2>2. CASE MachineStatus(n)
      BY <2>2 DEF MachineStatus, NoAnswer, Goto, SetError
    <2>3. CASE MachineConfig(n)
      BY <2>3 DEF MachineConfig, NoAnswer, Goto, SetError
    <2>4. CASE MachineInfo(n)
      BY <2>4 DEF MachineInfo, NoAnswer, Goto, SetError
    <2>5. CASE Resolve(n)
      BY <2>5 DEF Resolve, Goto, shared
    <2>6. CASE ResolverStep(n)
      BY <2>6 DEF ResolverStep, progress, shared
    <2>7. CASE Resolved(n)
      BY <2>7 DEF Resolved, Goto, SetError
    <2>8. CASE ReadPatch(n)
      BY <2>8 DEF ReadPatch, Goto, shared
    <2>9. CASE CacheStep(n)
      BY <2>9 DEF CacheStep, progress, shared
    <2>10. CASE PatchRead(n)
      BY <2>10 DEF PatchRead, Goto, SetError
    <2>11. CASE MaskPatchSecrets(n)
      BY <2>11 DEF MaskPatchSecrets, Goto, SetError
    <2>12. CASE GetSecrets(n)
      BY <2>12 DEF GetSecrets, Secrets, Goto, SetError
    <2>13. CASE NewBundle(n)
      BY <2>13 DEF NewBundle, Goto, SetError
    <2>14. CASE Certificate(n)
      BY <2>14 DEF Certificate, Secrets, Goto, SetError
    <2> QED
      BY <1>1, <2>1, <2>2, <2>3, <2>4, <2>5, <2>6, <2>7, <2>8, <2>9, <2>10,
         <2>11, <2>12, <2>13, <2>14 DEF NodeStep
  <1>2. CASE Generate
    BY <1>2 DEF Generate, shared
  <1>3. CASE Return
    BY <1>3 DEF Return, progress, shared
  <1>4. CASE FileChanges
    BY <1>4 DEF FileChanges, progress, shared
  <1>5. CASE UNCHANGED vars
    BY <1>5 DEF vars, progress, shared
  <1> QED
    BY <1>1, <1>2, <1>3, <1>4, <1>5 DEF Next

(* Each node leaves the call with a Node.Error or with a ConfigBundle, and *)
(* with one of them only (nodes.go:219-230, render.go:39-52).              *)
THEOREM Outcomes == Spec => []OutcomePerNode
  <1>1. Settled => OutcomePerNode
    BY DEF Settled, OutcomePerNode
  <1> QED
    BY <1>1, InitSettled, NextSettled, PTL DEF Spec

-----------------------------------------------------------------------------
(* What the cache hands out are versions of the file that was asked for.   *)
Results == [content : Int, fields : Int]

FileTypes ==
  /\ content \in [Paths -> Int] /\ cache \in [Paths -> Results]
  /\ fOutcome \in [Nodes -> Results] /\ fAnswer \in [Nodes -> Results]
  /\ fFields \in [Nodes -> Int] /\ fPath \in [Nodes -> Paths]
  /\ fPc \in [Nodes -> {"idle", "check", "do", "wait", "fork", "decrypt", "hung",
                        "store", "land"}]

LEMMA ResultTypes == Files!None \in Results /\ Files!Error \in Results
                     /\ \A v, w \in Int : Files!Result(v, w) \in Results
  BY DEF Files!None, Files!Error, Files!Result, Results

LEMMA InitFileTypes == Init => FileTypes
  BY CollectionAssumption, ResultTypes DEF Init, FileTypes, Files!Init

LEMMA CallFileTypes ==
  ASSUME FileTypes, NEW n \in Nodes, NEW p \in Paths, Files!ReadFile(n, p)
  PROVE  FileTypes'
  BY DEF Files!ReadFile, FileTypes

LEMMA CacheFileTypes ==
  ASSUME FileTypes, NEW n \in Nodes, Files!CallerStep(n)
  PROVE  FileTypes' /\ fPath' = fPath
  <1> USE ResultTypes DEF FileTypes
  <1>1. CASE Files!Check(n)
    BY <1>1 DEF Files!Check
  <1>2. CASE Files!Do(n)
    BY <1>2 DEF Files!Do
  <1>3. CASE Files!Fork(n)
    BY <1>3 DEF Files!Fork
  <1>4. CASE Files!Decrypt(n)
    BY <1>4 DEF Files!Decrypt
  <1>5. CASE Files!Store(n)
    BY <1>5 DEF Files!Store
  <1>6. CASE Files!Deliver(n)
    BY <1>6 DEF Files!Deliver
  <1> QED
    BY <1>1, <1>2, <1>3, <1>4, <1>5, <1>6 DEF Files!CallerStep

LEMMA TakeFileTypes ==
  ASSUME FileTypes, NEW n \in Nodes, Files!Take(n)
  PROVE  FileTypes' /\ fPath' = fPath
  BY ResultTypes DEF Files!Take, FileTypes

LEMMA ChangeFileTypes ==
  ASSUME FileTypes, NEW p \in Paths, Files!Change(p)
  PROVE  FileTypes' /\ fPath' = fPath
  BY DEF Files!Change, FileTypes

(* The goroutines that have seen the config of their machine, and the ones *)
(* that have registered the secrets of their patch files.                  *)
BeforeMachineConfig ==
  {"client", "certificate", "provider", "status", "machineconfig", "hung", "failed"}
Ended == {"failed", "hung", "provider"}
Loading == {"load", "reading"}
AfterMasking == {"secrets", "bundle", "done"}

Whole(n, i) == ~Files!Torn(loaded[n][i])
PatchesFound(n) == \A i \in DOMAIN loaded[n] : Whole(n, i) => PatchSecret(n, i) \in found[n]
PatchesMasked(n) == \A i \in DOMAIN loaded[n] : Whole(n, i) => PatchSecret(n, i) \in masked

(* What node n's goroutine has seen is registered when its place says so:  *)
(* a secret of a patch waits in found until all of them were loaded.  Only *)
(* a torn read may have come without its secret.                           *)
MaskingOf(n) ==
  /\ stage[n] = "installed" /\ at[n] \notin BeforeMachineConfig =>
       OldSecrets(n) \in masked
  /\ at[n] \in Loading => PatchesFound(n)
  /\ at[n] = "reading" => /\ Len(loaded[n]) < Len(PatchesOf[n])
                          /\ fPath[n] = PatchesOf[n][Len(loaded[n]) + 1]
  /\ at[n] \in AfterMasking => PatchesMasked(n)
  /\ at[n] \in {"bundle", "done"} => bundle
  /\ at[n] \notin Loading \cup AfterMasking \cup Ended => loaded[n] = <<>>

MaskingTypes ==
  /\ stage \in [Nodes -> {"unknown", "maintenance", "installed"}]
  /\ loaded \in [Nodes -> Seq(Results)]
  /\ DOMAIN found = Nodes

Masking ==
  /\ Settled /\ FileTypes /\ MaskingTypes
  /\ bundle => BundleSecrets \in masked
  /\ \A n \in Nodes : MaskingOf(n)

LEMMA InitMasking == Init => Masking
  <1> SUFFICES ASSUME Init PROVE Masking
    OBVIOUS
  <1>1. MaskingTypes
    BY DEF Init, MaskingTypes
  <1>2. ASSUME NEW n \in Nodes PROVE MaskingOf(n)
    <2>1. loaded[n] = <<>> /\ at[n] \in {"client", "resolve"} /\ stage[n] = "unknown"
      BY DEF Init
    <2> QED
      BY <2>1 DEF MaskingOf, BeforeMachineConfig, Loading, AfterMasking, Ended
  <1> QED
    BY <1>1, <1>2, InitSettled, InitFileTypes DEF Init, Masking

(* The writer and the bundle only gain; all of node n's is as before.      *)
Gains == masked \subseteq masked' /\ (bundle => bundle')

Same(n) ==
  /\ at'[n] = at[n] /\ stage'[n] = stage[n] /\ loaded'[n] = loaded[n]
  /\ found'[n] = found[n] /\ fPath'[n] = fPath[n]

LEMMA SameMasking ==
  ASSUME NEW n \in Nodes, MaskingOf(n), Gains, Same(n)
  PROVE  MaskingOf(n)'
  <1>1. /\ PatchesFound(n) => PatchesFound(n)'
        /\ PatchesMasked(n) => PatchesMasked(n)'
    BY DEF Same, Gains, PatchSecret, Whole, PatchesFound, PatchesMasked
  <1>2. OldSecrets(n)' = OldSecrets(n)
    BY DEF OldSecrets
  <1> QED
    BY <1>1, <1>2 DEF Same, Gains, MaskingOf

(* A step of n's goroutine that leaves its patches alone: the obligations  *)
(* are those of the place it goes to.                                      *)
LEMMA MoveMasking ==
  ASSUME NEW n \in Nodes, MaskingOf(n), Gains,
         loaded'[n] = loaded[n], found'[n] = found[n], fPath'[n] = fPath[n],
         stage'[n] = "installed" /\ at'[n] \notin BeforeMachineConfig =>
           OldSecrets(n) \in masked',
         at'[n] \in Loading => at'[n] = "load" /\ loaded[n] = <<>>,
         at'[n] \in AfterMasking => at[n] \in AfterMasking,
         at'[n] \in {"bundle", "done"} => bundle',
         at'[n] \notin Loading \cup AfterMasking \cup Ended =>
           at[n] \notin Loading \cup AfterMasking \cup Ended
  PROVE  MaskingOf(n)'
  <1>1. PatchesMasked(n) => PatchesMasked(n)'
    BY DEF Gains, PatchSecret, Whole, PatchesMasked
  <1>2. loaded[n] = <<>> => PatchesFound(n)'
    <2>1. DOMAIN <<>> = {}
      OBVIOUS
    <2> QED
      BY <2>1 DEF PatchesFound
  <1>3. OldSecrets(n)' = OldSecrets(n)
    BY DEF OldSecrets
  <1> QED
    BY <1>1, <1>2, <1>3 DEF Gains, MaskingOf, Loading

(* The files and the types in a step that does not touch them.             *)
LEMMA SameFiles ==
  ASSUME FileTypes, UNCHANGED fileVars
  PROVE  FileTypes' /\ fPath' = fPath
  BY DEF fileVars, FileTypes

LEMMA NodeMasking ==
  ASSUME Masking, NEW n \in Nodes, NodeStep(n)
  PROVE  /\ MaskingTypes' /\ FileTypes' /\ Gains
         /\ bundle' => BundleSecrets \in masked'
         /\ \A m \in Nodes \ {n} : Same(m)
         /\ MaskingOf(n)'
  <1>1. Settled /\ FileTypes /\ MaskingTypes /\ MaskingOf(n)
        /\ (bundle => BundleSecrets \in masked) /\ BundleSecrets' = BundleSecrets
    BY DEF Masking, BundleSecrets
  <1>2. CASE Client(n)
    <2>1. FileTypes' /\ fPath' = fPath
      BY <1>1, <1>2, SameFiles DEF Client, components
    <2>2. MaskingTypes' /\ Gains /\ (bundle' => BundleSecrets \in masked')
          /\ \A m \in Nodes \ {n} : Same(m)
      BY <1>1, <1>2, <2>1
         DEF Client, Goto, SetError, MaskingTypes, Gains, Same, Settled
    <2>3. MaskingOf(n)'
      BY <1>1, <1>2, <2>1, <2>2, MoveMasking
         DEF Client, Goto, SetError, Settled, MaskingOf,
             BeforeMachineConfig, Loading, AfterMasking, Ended
    <2> QED
      BY <2>1, <2>2, <2>3
  <1>3. CASE MachineStatus(n)
    <2>1. FileTypes' /\ fPath' = fPath
      BY <1>1, <1>3, SameFiles DEF MachineStatus, components
    <2>2. UNCHANGED <<loaded, found, bundle, masked>> /\ at[n] = "status"
      BY <1>3 DEF MachineStatus
    <2>3. /\ \/ stage' = stage
             \/ \E s \in {"maintenance", "installed"} : stage' = [stage EXCEPT ![n] = s]
          /\ \/ Goto(n, "failed") \/ Goto(n, "hung")
             \/ /\ Goto(n, "info") \/ Goto(n, "machineconfig")
                /\ stage'[n] = "installed" => Goto(n, "machineconfig")
      BY <1>1, <1>3 DEF MachineStatus, NoAnswer, SetError, MaskingTypes
    <2>4. MaskingTypes' /\ (\A m \in Nodes \ {n} : Same(m))
      <3>1. /\ stage' \in [Nodes -> {"unknown", "maintenance", "installed"}]
            /\ \A m \in Nodes \ {n} : stage'[m] = stage[m]
        BY <1>1, <2>3 DEF MaskingTypes
      <3>2. \A m \in Nodes \ {n} : at'[m] = at[m]
        BY <1>1, <2>3 DEF Settled, Goto
      <3> QED
        BY <1>1, <2>1, <2>2, <3>1, <3>2 DEF MaskingTypes, Same
    <2>5. MaskingOf(n)'
      BY <1>1, <2>1, <2>2, <2>3, MoveMasking
         DEF Goto, Gains, Settled, BeforeMachineConfig, Loading, AfterMasking, Ended
    <2> QED
      BY <1>1, <2>1, <2>2, <2>4, <2>5 DEF Gains
  <1>4. CASE MachineConfig(n)
    <2>1. FileTypes' /\ fPath' = fPath
      BY <1>1, <1>4, SameFiles DEF MachineConfig, components
    <2>2. MaskingTypes' /\ Gains /\ (bundle' => BundleSecrets \in masked')
          /\ \A m \in Nodes \ {n} : Same(m)
      BY <1>1, <1>4, <2>1
         DEF MachineConfig, NoAnswer, Goto, SetError, MaskingTypes, Gains, Same, Settled
    <2>3. MaskingOf(n)'
      BY <1>1, <1>4, <2>1, <2>2, MoveMasking
         DEF MachineConfig, NoAnswer, Goto, SetError, Settled, MaskingOf,
             BeforeMachineConfig, Loading, AfterMasking, Ended
    <2> QED
      BY <2>1, <2>2, <2>3
  <1>5. CASE MachineInfo(n)
    <2>1. FileTypes' /\ fPath' = fPath
      BY <1>1, <1>5, SameFiles DEF MachineInfo, components
    <2>2. MaskingTypes' /\ Gains /\ (bundle' => BundleSecrets \in masked')
          /\ \A m \in Nodes \ {n} : Same(m)
      BY <1>1, <1>5, <2>1
         DEF MachineInfo, NoAnswer, Goto, SetError, MaskingTypes, Gains, Same, Settled
    <2>3. MaskingOf(n)'
      BY <1>1, <1>5, <2>1, <2>2, MoveMasking
         DEF MachineInfo, NoAnswer, Goto, SetError, Settled, MaskingOf,
             BeforeMachineConfig, Loading, AfterMasking, Ended
    <2> QED
      BY <2>1, <2>2, <2>3
  <1>6. CASE Resolve(n)
    <2>1. FileTypes' /\ fPath' = fPath
      BY <1>1, <1>6, SameFiles DEF Resolve, components
    <2>2. MaskingTypes' /\ Gains /\ (bundle' => BundleSecrets \in masked')
          /\ \A m \in Nodes \ {n} : Same(m)
      BY <1>1, <1>6, <2>1
         DEF Resolve, Goto, SetError, shared, MaskingTypes, Gains, Same, Settled
    <2>3. MaskingOf(n)'
      BY <1>1, <1>6, <2>1, <2>2, MoveMasking
         DEF Resolve, Goto, SetError, shared, Settled, MaskingOf,
             BeforeMachineConfig, Loading, AfterMasking, Ended
    <2> QED
      BY <2>1, <2>2, <2>3
  <1>7. CASE ResolverStep(n)
    <2>1. FileTypes' /\ fPath' = fPath
      BY <1>1, <1>7, SameFiles DEF ResolverStep, components
    <2>2. MaskingTypes' /\ Gains /\ (bundle' => BundleSecrets \in masked')
          /\ \A m \in Nodes \ {n} : Same(m)
      BY <1>1, <1>7, <2>1
         DEF ResolverStep, Goto, SetError, shared, progress, MaskingTypes, Gains,
             Same, Settled
    <2>3. MaskingOf(n)'
      BY <1>1, <1>7, <2>1, <2>2, MoveMasking
         DEF ResolverStep, Goto, SetError, shared, progress, Settled, MaskingOf,
             BeforeMachineConfig, Loading, AfterMasking, Ended
    <2> QED
      BY <2>1, <2>2, <2>3
  <1>8. CASE Resolved(n)
    <2>1. FileTypes' /\ fPath' = fPath
      BY <1>1, <1>8, SameFiles DEF Resolved
    <2>2. MaskingTypes' /\ Gains /\ (bundle' => BundleSecrets \in masked')
          /\ \A m \in Nodes \ {n} : Same(m)
      BY <1>1, <1>8, <2>1
         DEF Resolved, Goto, SetError, MaskingTypes, Gains, Same, Settled
    <2>3. MaskingOf(n)'
      BY <1>1, <1>8, <2>1, <2>2, MoveMasking
         DEF Resolved, Goto, SetError, Settled, MaskingOf,
             BeforeMachineConfig, Loading, AfterMasking, Ended
    <2> QED
      BY <2>1, <2>2, <2>3
  <1>9. CASE GetSecrets(n)
    <2>1. FileTypes' /\ fPath' = fPath
      BY <1>1, <1>9, SameFiles DEF GetSecrets, Secrets, components
    <2>2. MaskingTypes' /\ Gains /\ (bundle' => BundleSecrets \in masked')
          /\ \A m \in Nodes \ {n} : Same(m)
      BY <1>1, <1>9, <2>1
         DEF GetSecrets, Secrets, Goto, SetError, MaskingTypes, Gains, Same, Settled
    <2>3. MaskingOf(n)'
      BY <1>1, <1>9, <2>1, <2>2, MoveMasking
         DEF GetSecrets, Secrets, Goto, SetError, Settled, MaskingOf,
             BeforeMachineConfig, Loading, AfterMasking, Ended
    <2> QED
      BY <2>1, <2>2, <2>3
  <1>10. CASE NewBundle(n)
    <2>1. FileTypes' /\ fPath' = fPath
      BY <1>1, <1>10, SameFiles DEF NewBundle, components
    <2>2. MaskingTypes' /\ Gains /\ (bundle' => BundleSecrets \in masked')
          /\ \A m \in Nodes \ {n} : Same(m)
      BY <1>1, <1>10, <2>1
         DEF NewBundle, Goto, SetError, MaskingTypes, Gains, Same, Settled
    <2>3. MaskingOf(n)'
      BY <1>1, <1>10, <2>1, <2>2, MoveMasking
         DEF NewBundle, Goto, SetError, Settled, MaskingOf,
             BeforeMachineConfig, Loading, AfterMasking, Ended
    <2> QED
      BY <2>1, <2>2, <2>3
  <1>11. CASE CacheStep(n)
    <2>1. FileTypes' /\ fPath' = fPath
      BY <1>1, <1>11, CacheFileTypes DEF CacheStep
    <2>2. MaskingTypes' /\ Gains /\ (bundle' => BundleSecrets \in masked')
          /\ \A m \in Nodes : Same(m)
      BY <1>1, <1>11, <2>1 DEF CacheStep, shared, progress, MaskingTypes, Gains, Same
    <2> QED
      BY <1>1, <2>1, <2>2, SameMasking
  <1>12. CASE ReadPatch(n)
    <2> DEFINE p == PatchesOf[n][Len(loaded[n]) + 1]
    <2>1. Len(loaded[n]) < Len(PatchesOf[n]) /\ Files!ReadFile(n, p) /\ at[n] = "load"
          /\ UNCHANGED <<stage, loaded, found, shared>> /\ Goto(n, "reading")
      BY <1>12 DEF ReadPatch
    <2>2. p \in Paths
      BY <1>1, <2>1, CollectionAssumption DEF MaskingTypes
    <2>3. FileTypes' /\ fPath' = [fPath EXCEPT ![n] = p]
      BY <1>1, <2>1, <2>2, CallFileTypes DEF Files!ReadFile
    <2>4. MaskingTypes' /\ Gains /\ (bundle' => BundleSecrets \in masked')
          /\ (\A m \in Nodes \ {n} : Same(m))
          /\ at'[n] = "reading" /\ fPath'[n] = p
      BY <1>1, <2>1, <2>3 DEF Goto, shared, MaskingTypes, Gains, Same, Settled, FileTypes
    <2>5. PatchesFound(n)'
      BY <1>1, <2>1 DEF MaskingOf, Loading, PatchesFound, PatchSecret, Whole
    <2>6. OldSecrets(n)' = OldSecrets(n) /\ stage'[n] = stage[n] /\ masked' = masked
      BY <2>1 DEF OldSecrets, shared
    <2>7. MaskingOf(n)'
      BY <1>1, <2>1, <2>4, <2>5, <2>6
         DEF MaskingOf, BeforeMachineConfig, Loading, AfterMasking, Ended
    <2> QED
      BY <2>3, <2>4, <2>7
  <1>13. CASE PatchRead(n)
    <2>1. FileTypes' /\ fPath' = fPath
      BY <1>1, <1>13, TakeFileTypes DEF PatchRead
    <2>2. UNCHANGED <<stage, bundle, masked>> /\ at[n] = "reading"
      BY <1>13 DEF PatchRead
    <2>3. CASE SetError(n) /\ Forget(n)
      <3>1. MaskingTypes' /\ (\A m \in Nodes \ {n} : Same(m)) /\ at'[n] = "failed"
        BY <1>1, <2>1, <2>2, <2>3 DEF SetError, Forget, Goto, MaskingTypes, Same, Settled
      <3>2. MaskingOf(n)'
        BY <3>1 DEF MaskingOf, BeforeMachineConfig, Loading, AfterMasking, Ended
      <3> QED
        BY <1>1, <2>1, <2>2, <3>1, <3>2 DEF Gains
    <2>4. CASE /\ loaded' = [loaded EXCEPT ![n] = Append(@, fAnswer[n])]
               /\ \E some \in SecretsReturned(n) :
                    found' = [found EXCEPT ![n] = @ \cup some]
               /\ Goto(n, "load")
      <3>1. fAnswer[n] \in Results /\ loaded[n] \in Seq(Results)
        BY <1>1 DEF FileTypes, MaskingTypes
      <3>2. PICK some \in SecretsReturned(n) : found' = [found EXCEPT ![n] = @ \cup some]
        BY <2>4
      <3>3. MaskingTypes' /\ (\A m \in Nodes \ {n} : Same(m)) /\ at'[n] = "load"
            /\ loaded'[n] = Append(loaded[n], fAnswer[n])
            /\ found'[n] = found[n] \cup some
        BY <1>1, <2>1, <2>2, <2>4, <3>1, <3>2 DEF Goto, MaskingTypes, Same, Settled
      <3>4. ASSUME NEW i \in DOMAIN loaded'[n], ~Files!Torn(loaded'[n][i])
            PROVE  PatchSecret(n, i)' \in found'[n]
        <4>1. CASE i = Len(loaded[n]) + 1
          <5>1. loaded'[n][i] = fAnswer[n] /\ fPath[n] = PatchesOf[n][i]
            BY <1>1, <2>2, <3>1, <3>3, <4>1 DEF MaskingOf
          <5>2. some = {SecretOf(n)}
            BY <3>2, <3>4, <5>1 DEF SecretsReturned
          <5> QED
            BY <3>3, <5>1, <5>2 DEF SecretOf, PatchSecret
        <4>2. CASE i # Len(loaded[n]) + 1
          <5>1. i \in DOMAIN loaded[n] /\ loaded'[n][i] = loaded[n][i]
            BY <3>1, <3>3, <3>4, <4>2
          <5>2. PatchSecret(n, i) \in found[n] /\ PatchSecret(n, i)' = PatchSecret(n, i)
            BY <1>1, <2>2, <3>4, <5>1
               DEF MaskingOf, Loading, PatchesFound, Whole, PatchSecret
          <5> QED
            BY <3>3, <5>2
        <4> QED
          BY <4>1, <4>2
      <3>5. PatchesFound(n)'
        BY <3>4 DEF PatchesFound, Whole
      <3>6. OldSecrets(n)' = OldSecrets(n)
        BY DEF OldSecrets
      <3>7. MaskingOf(n)'
        BY <1>1, <2>2, <3>3, <3>5, <3>6
           DEF MaskingOf, BeforeMachineConfig, Loading, AfterMasking, Ended
      <3> QED
        BY <1>1, <2>1, <2>2, <3>3, <3>7 DEF Gains
    <2> QED
      BY <1>13, <2>3, <2>4 DEF PatchRead
  <1>14. CASE MaskPatchSecrets(n)
    <2>1. FileTypes' /\ fPath' = fPath
      BY <1>1, <1>14, SameFiles DEF MaskPatchSecrets, components
    <2>2. at[n] = "load" /\ UNCHANGED <<stage, loaded, bundle>>
          /\ found' = [found EXCEPT ![n] = {}]
          /\ \/ Goto(n, "failed") /\ masked' = masked
             \/ Goto(n, "secrets") /\ masked' = masked \cup found[n]
      BY <1>14 DEF MaskPatchSecrets, SetError
    <2>3. MaskingTypes' /\ Gains /\ (bundle' => BundleSecrets \in masked')
          /\ \A m \in Nodes \ {n} : Same(m)
      BY <1>1, <2>1, <2>2 DEF Goto, MaskingTypes, Gains, Same, Settled
    <2>4. at'[n] = "secrets" => PatchesMasked(n)'
      BY <1>1, <2>2
         DEF Goto, Settled, MaskingOf, Loading, PatchesFound, PatchesMasked,
             PatchSecret, Whole
    <2>5. OldSecrets(n)' = OldSecrets(n)
      BY DEF OldSecrets
    <2>6. MaskingOf(n)'
      BY <1>1, <2>2, <2>4, <2>5
         DEF Goto, Settled, MaskingOf, BeforeMachineConfig, Loading, AfterMasking, Ended
    <2> QED
      BY <2>1, <2>3, <2>6
  <1>15. CASE Certificate(n)
    <2>1. FileTypes' /\ fPath' = fPath
      BY <1>1, <1>15, SameFiles DEF Certificate, Secrets, components
    <2>2. MaskingTypes' /\ Gains /\ (bundle' => BundleSecrets \in masked')
          /\ \A m \in Nodes \ {n} : Same(m)
      BY <1>1, <1>15, <2>1
         DEF Certificate, Secrets, Goto, SetError, MaskingTypes, Gains, Same, Settled
    <2>3. MaskingOf(n)'
      BY <1>1, <1>15, <2>1, <2>2, MoveMasking
         DEF Certificate, Secrets, Goto, SetError, Settled, MaskingOf,
             BeforeMachineConfig, Loading, AfterMasking, Ended
    <2> QED
      BY <2>1, <2>2, <2>3
  <1> QED
    BY <1>2, <1>3, <1>4, <1>5, <1>6, <1>7, <1>8, <1>9, <1>10, <1>11, <1>12,
       <1>13, <1>14, <1>15 DEF NodeStep, Masking

LEMMA NextMasking == Masking /\ [Next]_vars => Masking'
  <1> SUFFICES ASSUME Masking, [Next]_vars PROVE Masking'
    OBVIOUS
  <1>1. Settled'
    BY NextSettled DEF Masking
  <1>2. BundleSecrets' = BundleSecrets
    BY DEF BundleSecrets
  <1>3. ASSUME NEW n \in Nodes, NodeStep(n) PROVE Masking'
    <2>1. \A m \in Nodes \ {n} : MaskingOf(m)'
      BY <1>3, NodeMasking, SameMasking DEF Masking
    <2> QED
      BY <1>1, <1>2, <1>3, <2>1, NodeMasking DEF Masking
  <1>4. CASE Generate
    <2>1. FileTypes' /\ fPath' = fPath
      BY <1>4, SameFiles DEF Generate, components, Masking
    <2>2. UNCHANGED <<stage, loaded, found, bundle, masked>>
      BY <1>4 DEF Generate, shared
    <2>3. ASSUME NEW n \in Nodes PROVE MaskingOf(n)'
      <3>1. \/ at'[n] = at[n]
            \/ at[n] = "collected" /\ at'[n] = "resolve"
        BY <1>4 DEF Generate, Masking, Settled
      <3>2. MaskingOf(n) /\ Gains
        BY <2>2 DEF Masking, Gains
      <3>3. CASE at'[n] = at[n]
        BY <2>1, <2>2, <3>2, <3>3, SameMasking DEF Same
      <3>4. CASE at[n] = "collected" /\ at'[n] = "resolve"
        BY <2>1, <2>2, <3>2, <3>4, MoveMasking
           DEF MaskingOf, BeforeMachineConfig, Loading, AfterMasking, Ended
      <3> QED
        BY <3>1, <3>3, <3>4
    <2> QED
      BY <1>1, <1>2, <2>1, <2>2, <2>3 DEF Masking, MaskingTypes
  <1>5. ASSUME UNCHANGED <<progress, shared>>, FileTypes', fPath' = fPath PROVE Masking'
    <2>1. \A n \in Nodes : MaskingOf(n)'
      BY <1>5, SameMasking DEF Masking, Gains, Same, progress, shared
    <2> QED
      BY <1>1, <1>2, <1>5, <2>1 DEF Masking, MaskingTypes, progress, shared
  <1>6. CASE Return
    BY <1>5, <1>6, SameFiles DEF Return, components, Masking
  <1>7. CASE FileChanges
    BY <1>5, <1>7, ChangeFileTypes, CollectionAssumption DEF FileChanges, Masking
  <1>8. CASE UNCHANGED vars
    BY <1>5, <1>8, SameFiles DEF vars, components, Masking
  <1> QED
    BY <1>3, <1>4, <1>6, <1>7, <1>8 DEF Next

(* Every secret that the diff of a returned node can show is known to the  *)
(* masked writer: AddSecrets is called with the secrets of the machine's   *)
(* own config, of the bundle and of each content its patches were read     *)
(* with (nodes.go:72, 142 and secrets.go:44).  Excepted are the secrets of *)
(* a file that changed between the two reads of sops.Decrypt (sops.go:51   *)
(* and 57-63).                                                             *)
THEOREM Masked == Spec => []MaskedOnReturn
  <1>1. Masking => MaskedOnReturn
    <2> SUFFICES ASSUME Masking, returned, NEW n \in config
                 PROVE  Diff(n) \ TornSecrets(n) \subseteq masked
      BY DEF MaskedOnReturn
    <2>1. n \in Nodes /\ at[n] = "done" /\ MaskingOf(n)
      BY DEF Masking, Settled
    <2>2. PatchSecrets(n) \ TornSecrets(n) \subseteq masked
      BY <2>1 DEF MaskingOf, AfterMasking, PatchesMasked, Whole, PatchSecrets, TornSecrets
    <2> QED
      BY <2>1, <2>2 DEF Masking, MaskingOf, BeforeMachineConfig, Diff
  <1> QED
    BY <1>1, InitMasking, NextMasking, PTL DEF Spec

-----------------------------------------------------------------------------
(* The resolver: a flight belongs to one key, its passengers are the       *)
(* callers that asked for that key, and a verdict "id" means that the      *)
(* factory has accepted it.                                                *)
ResolverTypes ==
  /\ sPc \in [Nodes -> {"idle", "do", "request", "wait", "land", "id", "error"}]
  /\ sKey \in [Nodes -> Schematics] /\ sFile \in [Nodes -> BOOLEAN]
  /\ sAboard \in [Nodes -> Nat] /\ sFlights \in Nat
  /\ sRunning \in [Schematics -> Nat]
  /\ sOutcome \in [Schematics -> {"none", "id", "error"}]

Flying ==
  /\ \A k \in Schematics : sRunning[k] <= sFlights
  /\ \A k, l \in Schematics : sRunning[k] # 0 /\ sRunning[k] = sRunning[l] => k = l
  /\ \A n \in Nodes :
       /\ sPc[n] \in {"request", "wait", "land"} <=> sAboard[n] # 0
       /\ sAboard[n] # 0 => sAboard[n] = sRunning[sKey[n]]

Answered ==
  \A n \in Nodes :
    /\ sPc[n] = "land" => /\ sOutcome[sKey[n]] \in {"id", "error"}
                          /\ sOutcome[sKey[n]] = "id" => sKey[n] \in accepted
    /\ sPc[n] = "id" /\ Submit /\ sFile[n] => sKey[n] \in accepted

Resolver == ResolverTypes /\ Flying /\ Answered

LEMMA InitResolver == Init => Resolver
  <1> SUFFICES ASSUME Init PROVE Resolver
    OBVIOUS
  <1>1. (CHOOSE k \in Schematics : TRUE) \in Schematics
    BY CollectionAssumption DEF Schematics
  <1> QED
    BY <1>1 DEF Init, Submissions!Init, Submissions!FlightInit, Resolver, ResolverTypes,
                Flying, Answered

LEMMA CallResolver ==
  ASSUME Resolver, NEW n \in Nodes, NEW k \in Schematics, Submissions!Resolve(n, k)
  PROVE  /\ Resolver' /\ sKey'[n] = k
         /\ \A m \in Nodes \ {n} : sPc'[m] = sPc[m] /\ sKey'[m] = sKey[m]
  <1> USE DEF Resolver, ResolverTypes
  <1>1. /\ sPc[n] \in {"idle", "id", "error"}
        /\ sKey' = [sKey EXCEPT ![n] = k]
        /\ UNCHANGED <<sRunning, sAboard, sFlights, accepted, sOutcome>>
        /\ \/ sPc' = [sPc EXCEPT ![n] = "id"] /\ sFile' = [sFile EXCEPT ![n] = FALSE]
           \/ /\ \/ sPc' = [sPc EXCEPT ![n] = "error"]
                 \/ Submit /\ sPc' = [sPc EXCEPT ![n] = "do"]
                 \/ ~Submit /\ sPc' = [sPc EXCEPT ![n] = "id"]
              /\ sFile' = [sFile EXCEPT ![n] = TRUE]
    BY CollectionAssumption
       DEF Submissions!Resolve, Submissions!Idle, Submissions!flightVars
  <1>2. ResolverTypes' /\ sKey'[n] = k
        /\ \A m \in Nodes \ {n} :
             sPc'[m] = sPc[m] /\ sKey'[m] = sKey[m] /\ sFile'[m] = sFile[m]
    BY <1>1
  <1>3. sAboard[n] = 0 /\ sPc'[n] \in {"id", "error", "do"}
        /\ ~(sPc'[n] = "id" /\ Submit /\ sFile'[n])
    BY <1>1 DEF Flying
  <1>4. Flying'
    BY <1>1, <1>2, <1>3 DEF Flying
  <1>5. Answered'
    BY <1>1, <1>2, <1>3 DEF Answered
  <1> QED
    BY <1>2, <1>4, <1>5

LEMMA StepResolver ==
  ASSUME Resolver, NEW n \in Nodes, Submissions!CallerStep(n)
  PROVE  /\ Resolver' /\ sKey' = sKey /\ sFile' = sFile
         /\ \A m \in Nodes : sPc[m] = "id" => sPc'[m] = "id"
  <1> USE DEF Resolver, ResolverTypes, Flying, Answered
  <1>1. CASE Submissions!Do(n)
    <2>1. CASE Submissions!Lead(n, sKey[n]) /\ sPc' = [sPc EXCEPT ![n] = "request"]
      BY <1>1, <2>1 DEF Submissions!Do, Submissions!Lead
    <2>2. CASE Submissions!Board(n, sKey[n]) /\ sPc' = [sPc EXCEPT ![n] = "wait"]
      BY <1>1, <2>2 DEF Submissions!Do, Submissions!Board
    <2> QED
      BY <1>1, <2>1, <2>2 DEF Submissions!Do
  <1>2. CASE Submissions!Request(n)
    BY <1>2 DEF Submissions!Request, Submissions!flightVars
  <1>3. CASE Submissions!Deliver(n)
    BY <1>3 DEF Submissions!Deliver, Submissions!Land, Submissions!Passengers
  <1> QED
    BY <1>1, <1>2, <1>3 DEF Submissions!CallerStep

(* A goroutine past the resolver was given the ID it asked for.            *)
Accepting ==
  /\ Settled /\ Resolver
  /\ \A n \in Nodes :
       /\ at[n] \in {"resolving"} \cup Loading \cup AfterMasking =>
            sKey[n] = SchematicOf[n]
       /\ at[n] \in Loading \cup AfterMasking => sPc[n] = "id"

LEMMA InitAccepting == Init => Accepting
  BY InitSettled, InitResolver DEF Init, Accepting, Loading, AfterMasking

LEMMA NextAccepting == Accepting /\ [Next]_vars => Accepting'
  <1> SUFFICES ASSUME Accepting, [Next]_vars PROVE Accepting'
    OBVIOUS
  <1>1. Settled' /\ Settled /\ Resolver
    BY NextSettled DEF Accepting
  (* A step that leaves the resolver alone and passes it by nobody. *)
  <1>2. ASSUME UNCHANGED <<sRunning, sAboard, sFlights, accepted, sPc, sKey, sFile, sOutcome>>,
               \A n \in Nodes :
                 \/ at'[n] = at[n]
                 \/ at'[n] \notin {"resolving"} \cup Loading \cup AfterMasking
                 \/ at[n] \in Loading \cup AfterMasking
                 \/ at[n] = "resolving" /\ sPc[n] = "id"
        PROVE  Accepting'
    <2>1. Resolver'
      BY <1>1, <1>2
         DEF Resolver, ResolverTypes, Flying, Answered
    <2> QED
      BY <1>1, <1>2, <2>1 DEF Accepting
  <1>3. ASSUME NEW n \in Nodes, NodeStep(n) PROVE Accepting'
    <2> USE <1>1, <1>2 DEF Goto, SetError, Settled, Loading, AfterMasking, submissionVars
    <2>1. CASE Client(n)
      BY <2>1 DEF Client, components
    <2>2. CASE MachineStatus(n)
      BY <2>2 DEF MachineStatus, NoAnswer, components
    <2>3. CASE MachineConfig(n)
      BY <2>3 DEF MachineConfig, NoAnswer, components
    <2>4. CASE MachineInfo(n)
      BY <2>4 DEF MachineInfo, NoAnswer, components
    <2>5. CASE Resolve(n)
      <3>1. SchematicOf[n] \in Schematics
        BY DEF Schematics
      <3> QED
        BY <2>5, <3>1, CallResolver DEF Resolve, Accepting
    <2>6. CASE ResolverStep(n)
      BY <2>6, StepResolver DEF ResolverStep, progress, Accepting
    <2>7. CASE Resolved(n)
      BY <2>7 DEF Resolved, Submissions!Take, Submissions!flightVars
    <2>8. CASE ReadPatch(n)
      BY <2>8 DEF ReadPatch
    <2>9. CASE CacheStep(n)
      BY <2>9 DEF CacheStep, progress
    <2>10. CASE PatchRead(n)
      BY <2>10 DEF PatchRead
    <2>11. CASE MaskPatchSecrets(n)
      BY <2>11 DEF MaskPatchSecrets, components
    <2>12. CASE GetSecrets(n)
      BY <2>12 DEF GetSecrets, Secrets, components
    <2>13. CASE NewBundle(n)
      BY <2>13 DEF NewBundle, components
    <2>14. CASE Certificate(n)
      BY <2>14 DEF Certificate, Secrets, components
    <2> QED
      BY <1>3, <2>1, <2>2, <2>3, <2>4, <2>5, <2>6, <2>7, <2>8, <2>9, <2>10,
         <2>11, <2>12, <2>13, <2>14 DEF NodeStep
  <1>4. CASE Generate
    BY <1>1, <1>2, <1>4 DEF Generate, components, submissionVars, Settled, Loading, AfterMasking
  <1>5. CASE Return
    BY <1>2, <1>5 DEF Return, components, submissionVars, progress
  <1>6. CASE FileChanges
    BY <1>2, <1>6 DEF FileChanges, submissionVars, progress
  <1>7. CASE UNCHANGED vars
    BY <1>2, <1>7 DEF vars, components, submissionVars, progress
  <1> QED
    BY <1>3, <1>4, <1>5, <1>6, <1>7 DEF Next

(* A config is built only when the factory has the schematic its installer *)
(* image names, also when another goroutine submitted it                   *)
(* (resolver.go:137-173, nodes.go:122-128).                                *)
THEOREM Accepted == Spec => []AcceptedBeforeUse
  <1>1. Accepting => AcceptedBeforeUse
    <2> SUFFICES ASSUME Accepting, NEW n \in config, Submit, sFile[n]
                 PROVE  SchematicOf[n] \in accepted
      BY DEF AcceptedBeforeUse
    <2>1. n \in Nodes /\ at[n] = "done"
      BY DEF Accepting, Settled
    <2> QED
      BY <2>1 DEF Accepting, Resolver, Answered, AfterMasking
  <1> QED
    BY <1>1, InitAccepting, NextAccepting, PTL DEF Spec

-----------------------------------------------------------------------------
(* The cache: a flight under way is not over, and one goroutine at a time  *)
(* runs the function for a path; so what it is about to keep is no older   *)
(* than what is kept.                                                      *)
Leading == {"fork", "decrypt", "hung", "store", "land"}

FileFlights ==
  /\ fAboard \in [Nodes -> Nat] /\ fFlights \in Nat /\ fRunning \in [Paths -> Nat]
  /\ fEnded \subseteq 1 .. fFlights
  /\ \A p \in Paths : fRunning[p] <= fFlights /\ fRunning[p] \notin fEnded
  /\ \A p, q \in Paths : fRunning[p] # 0 /\ fRunning[p] = fRunning[q] => p = q
  /\ \A n \in Nodes :
       /\ fPc[n] \in Leading \cup {"wait"} <=> fAboard[n] # 0
       /\ fAboard[n] # 0 => fAboard[n] = fRunning[fPath[n]]
  /\ \A m, n \in Nodes :
       fPc[m] \in Leading /\ fPc[n] \in Leading /\ fPath[m] = fPath[n] => m = n

Kept ==
  /\ \A p \in Paths : /\ 0 <= cache[p].content /\ cache[p].content <= content[p]
                      /\ cache[p] # Files!Error
  /\ \A n \in Nodes :
       fPc[n] = "store" => /\ cache[fPath[n]].content <= fOutcome[n].content
                           /\ fOutcome[n].content <= content[fPath[n]]

(* What a goroutine was told, it was told by a flight that was not over    *)
(* when it asked.                                                          *)
Fresh ==
  /\ fSource \in [Nodes -> Nat] /\ DOMAIN fBefore = Nodes
  /\ \A n \in Nodes :
       /\ fBefore[n] \subseteq fEnded
       /\ fPc[n] = "idle" /\ fAnswer[n] = Files!Error => fSource[n] \notin fBefore[n] \cup {0}

Reading == FileTypes /\ FileFlights /\ Kept /\ Fresh

LEMMA InitReading == Init => Reading
  BY CollectionAssumption, InitFileTypes
     DEF Init, Files!Init, Files!FlightInit, Files!None, Files!Error, Files!Result,
         Reading, FileTypes, FileFlights, Kept, Fresh, Leading

LEMMA CallReading ==
  ASSUME Reading, NEW n \in Nodes, NEW p \in Paths, fPc[n] = "idle", Files!ReadFile(n, p)
  PROVE  Reading' /\ cache' = cache
  <1>1. FileTypes'
    BY CallFileTypes DEF Reading
  <1>2. /\ fPc' = [fPc EXCEPT ![n] = "check"] /\ fPath' = [fPath EXCEPT ![n] = p]
        /\ fBefore' = [fBefore EXCEPT ![n] = fEnded]
        /\ UNCHANGED <<fRunning, fAboard, fFlights, fEnded, content, cache,
                       fOutcome, fAnswer, fSource>>
    BY DEF Files!ReadFile, Files!flightVars
  <1>3. FileFlights'
    BY <1>2 DEF Reading, FileTypes, FileFlights, Leading
  <1>4. Kept'
    BY <1>2 DEF Reading, FileTypes, Kept
  <1>5. Fresh'
    BY <1>2 DEF Reading, FileTypes, Fresh
  <1> QED
    BY <1>1, <1>2, <1>3, <1>4, <1>5 DEF Reading

LEMMA StepReading ==
  ASSUME Reading, NEW n \in Nodes, Files!CallerStep(n)
  PROVE  Reading' /\ \A p \in Paths : cache'[p].content >= cache[p].content
  <1>1. FileTypes /\ FileTypes' /\ fPath' = fPath
    BY CacheFileTypes DEF Reading
  <1> USE <1>1 DEF Reading, FileTypes, Results
  <1>2. CASE Files!Check(n)
    <2> DEFINE told == cache[fPath[n]]
    <2>1. PICK next \in {"idle", "do"} :
          /\ UNCHANGED <<fRunning, fAboard, fFlights, fEnded, content, cache,
                         fOutcome, fBefore>>
          /\ fPc[n] = "check" /\ fPc' = [fPc EXCEPT ![n] = next]
          /\ \A m \in Nodes \ {n} : fAnswer'[m] = fAnswer[m] /\ fSource'[m] = fSource[m]
          /\ next = "idle" => fAnswer'[n] = told
          /\ fSource' \in [Nodes -> Nat]
      BY <1>2 DEF Files!Check, Files!flightVars, Fresh
    <2>2. FileFlights'
      BY <2>1 DEF FileFlights, Leading
    <2>3. Kept'
      BY <2>1 DEF Kept
    <2>4. told # Files!Error
      BY DEF Kept
    <2>5. Fresh'
      BY <2>1, <2>4 DEF Fresh
    <2> QED
      BY <2>1, <2>2, <2>3, <2>5
  <1>3. CASE Files!Do(n)
    <2>1. UNCHANGED <<content, cache, fOutcome, fAnswer, fSource, fBefore, fEnded>>
          /\ fPc[n] = "do" /\ fPath[n] \in Paths
      BY <1>3 DEF Files!Do, Files!Lead, Files!Board
    <2>2. CASE Files!Lead(n, fPath[n]) /\ fPc' = [fPc EXCEPT ![n] = "fork"]
      BY <2>1, <2>2 DEF Files!Lead, FileFlights, Kept, Fresh, Leading
    <2>3. CASE Files!Board(n, fPath[n]) /\ fPc' = [fPc EXCEPT ![n] = "wait"]
      BY <2>1, <2>3 DEF Files!Board, FileFlights, Kept, Fresh, Leading
    <2> QED
      BY <1>3, <2>2, <2>3 DEF Files!Do
  <1>4. CASE Files!Fork(n) \/ Files!Decrypt(n)
    <2>1. PICK next \in {"land", "store", "decrypt", "hung"} :
          /\ UNCHANGED <<fRunning, fAboard, fFlights, fEnded, content, cache,
                         fAnswer, fSource, fBefore>>
          /\ fPc[n] \in {"fork", "decrypt"} /\ fPc' = [fPc EXCEPT ![n] = next]
          /\ \A m \in Nodes \ {n} : fOutcome'[m] = fOutcome[m]
          /\ next = "store" => fOutcome'[n].content = content[fPath[n]]
      BY <1>4 DEF Files!Fork, Files!Decrypt, Files!Result, Files!flightVars
    <2>2. FileFlights'
      BY <2>1 DEF FileFlights, Leading
    <2>3. Kept'
      BY <2>1 DEF Kept
    <2>4. Fresh'
      BY <2>1 DEF Fresh
    <2> QED
      BY <2>1, <2>2, <2>3, <2>4
  <1>5. CASE Files!Store(n)
    <2>1. /\ UNCHANGED <<fRunning, fAboard, fFlights, fEnded, content,
                         fOutcome, fAnswer, fSource, fBefore>>
          /\ fPc[n] = "store" /\ fPc' = [fPc EXCEPT ![n] = "land"]
          /\ cache' = [cache EXCEPT ![fPath[n]] = fOutcome[n]]
      BY <1>5 DEF Files!Store, Files!flightVars
    <2>2. FileFlights'
      BY <2>1 DEF FileFlights, Leading
    <2>3. \A m \in Nodes : m # n /\ fPc[m] = "store" => fPath[m] # fPath[n]
      BY <2>1 DEF FileFlights, Leading
    <2>4. fOutcome[n] # Files!Error /\ fPath[n] \in Paths
      BY <2>1 DEF Kept, Files!Error, Files!Result
    <2>5. cache'[fPath[n]] = fOutcome[n]
          /\ \A p \in Paths : p # fPath[n] => cache'[p] = cache[p]
      BY <2>1, <2>4
    <2>6. Kept' /\ \A p \in Paths : cache'[p].content >= cache[p].content
      BY <2>1, <2>3, <2>4, <2>5 DEF Kept
    <2>7. Fresh'
      BY <2>1 DEF Fresh
    <2> QED
      BY <2>2, <2>6, <2>7
  <1>6. CASE Files!Deliver(n)
    <2> DEFINE k == fPath[n]
               all == {c \in Nodes : fRunning[k] # 0 /\ fAboard[c] = fRunning[k]}
    <2>1. /\ UNCHANGED <<content, cache, fBefore, fFlights>>
          /\ fOutcome' = [fOutcome EXCEPT ![n] = Files!None]
          /\ fPc[n] = "land" /\ fRunning[k] # 0
          /\ fEnded' = fEnded \cup {fRunning[k]} /\ fRunning' = [fRunning EXCEPT ![k] = 0]
          /\ fAboard' = [c \in Nodes |-> IF c \in all THEN 0 ELSE fAboard[c]]
          /\ fAnswer' = [c \in Nodes |-> IF c \in all THEN fOutcome[n] ELSE fAnswer[c]]
          /\ fSource' = [c \in Nodes |-> IF c \in all THEN fRunning[k] ELSE fSource[c]]
          /\ fPc' = [c \in Nodes |-> IF c \in all THEN "idle" ELSE fPc[c]]
      BY <1>6 DEF Files!Deliver, Files!Land, Files!Passengers
    <2>2. FileFlights'
      <3>1. \A c \in Nodes : c \in all <=> fAboard[c] # 0 /\ fPath[c] = k
        BY <2>1 DEF FileFlights
      <3>2. fRunning[k] \in 1 .. fFlights /\ fRunning'[k] = 0
        BY <2>1 DEF FileFlights
      <3>3. /\ fAboard' \in [Nodes -> Nat] /\ fFlights' \in Nat
            /\ fRunning' \in [Paths -> Nat] /\ fEnded' \subseteq 1 .. fFlights'
        BY <2>1, <3>2 DEF FileFlights
      <3>4. \A p \in Paths : fRunning'[p] <= fFlights' /\ fRunning'[p] \notin fEnded'
        BY <2>1, <3>2 DEF FileFlights
      <3>5. \A p, q \in Paths : fRunning'[p] # 0 /\ fRunning'[p] = fRunning'[q] => p = q
        BY <2>1 DEF FileFlights
      <3>6. ASSUME NEW c \in Nodes
            PROVE  /\ fPc'[c] \in Leading \cup {"wait"} <=> fAboard'[c] # 0
                   /\ fAboard'[c] # 0 => fAboard'[c] = fRunning'[fPath'[c]]
        BY <2>1, <3>1 DEF FileFlights, Leading
      <3>7. \A c \in Nodes : fPc'[c] \in Leading => fPc[c] \in Leading
        BY <2>1 DEF Leading
      <3>8. \A c, d \in Nodes :
              fPc'[c] \in Leading /\ fPc'[d] \in Leading /\ fPath'[c] = fPath'[d] => c = d
        BY <3>7 DEF FileFlights
      <3> QED
        BY <3>3, <3>4, <3>5, <3>6, <3>8 DEF FileFlights
    <2>3. Kept'
      BY <2>1 DEF Kept
    <2>4. Fresh'
      BY <2>1 DEF Fresh, FileFlights
    <2> QED
      BY <2>1, <2>2, <2>3, <2>4
  <1> QED
    BY <1>2, <1>3, <1>4, <1>5, <1>6 DEF Files!CallerStep

LEMMA TakeReading ==
  ASSUME Reading, NEW n \in Nodes, Files!Take(n)
  PROVE  Reading' /\ cache' = cache
  <1>1. FileTypes'
    BY TakeFileTypes DEF Reading
  <1>2. /\ fSource' = [fSource EXCEPT ![n] = 0] /\ fBefore' = [fBefore EXCEPT ![n] = {}]
        /\ fAnswer' = [fAnswer EXCEPT ![n] = Files!None] /\ Files!None # Files!Error
        /\ UNCHANGED <<fRunning, fAboard, fFlights, fEnded, content, cache, fOutcome,
                       fPc, fPath>>
    BY DEF Files!Take, Files!flightVars, Files!None, Files!Error, Files!Result
  <1>3. FileFlights' /\ Kept'
    BY <1>2 DEF Reading, FileFlights, Kept
  <1>4. Fresh'
    BY <1>2 DEF Reading, FileTypes, Fresh
  <1> QED
    BY <1>1, <1>2, <1>3, <1>4 DEF Reading

LEMMA ChangeReading ==
  ASSUME Reading, NEW p \in Paths, Files!Change(p)
  PROVE  Reading' /\ cache' = cache
  <1>1. FileTypes'
    BY ChangeFileTypes DEF Reading
  <1>2. /\ content' = [content EXCEPT ![p] = content[p] + 1]
        /\ UNCHANGED <<fRunning, fAboard, fFlights, fEnded, cache, fOutcome,
                       fPc, fPath, fAnswer, fSource, fBefore>>
    BY DEF Files!Change, Files!flightVars
  <1>3. FileFlights' /\ Fresh'
    BY <1>2 DEF Reading, FileFlights, Fresh
  <1>4. Kept'
    BY <1>2 DEF Reading, FileTypes, Results, Kept
  <1> QED
    BY <1>1, <1>2, <1>3, <1>4 DEF Reading

LEMMA SameReading ==
  ASSUME Reading, UNCHANGED fileVars
  PROVE  Reading' /\ cache' = cache
  BY DEF fileVars, Reading, FileTypes, FileFlights, Kept, Fresh

LEMMA NextReading ==
  ASSUME Masking, Reading, [Next]_vars
  PROVE  Reading' /\ \A p \in Paths : cache'[p].content >= cache[p].content
  <1>1. cache' = cache => \A p \in Paths : cache'[p].content >= cache[p].content
    BY DEF Reading, FileTypes, Results
  <1>2. ASSUME UNCHANGED fileVars
        PROVE  Reading' /\ \A p \in Paths : cache'[p].content >= cache[p].content
    BY <1>1, <1>2, SameReading
  <1>3. ASSUME NEW n \in Nodes, NodeStep(n)
        PROVE  Reading' /\ \A p \in Paths : cache'[p].content >= cache[p].content
    <2>1. CASE ReadPatch(n)
      <3>1. PatchesOf[n][Len(loaded[n]) + 1] \in Paths
        BY <2>1, CollectionAssumption DEF ReadPatch, Masking, MaskingTypes
      <3>2. Files!ReadFile(n, PatchesOf[n][Len(loaded[n]) + 1]) /\ fPc[n] = "idle"
        BY <2>1 DEF ReadPatch, Files!ReadFile
      <3> QED
        BY <1>1, <3>1, <3>2, CallReading
    <2>2. CASE CacheStep(n)
      BY <2>2, StepReading DEF CacheStep
    <2>3. CASE PatchRead(n)
      BY <1>1, <2>3, TakeReading DEF PatchRead
    <2>4. CASE ~ReadPatch(n) /\ ~CacheStep(n) /\ ~PatchRead(n)
      BY <1>2, <1>3, <2>4
         DEF NodeStep, Client, Certificate, MachineStatus, MachineConfig, MachineInfo,
             Resolve, ResolverStep, Resolved, MaskPatchSecrets, GetSecrets,
             NewBundle, components
    <2> QED
      BY <2>1, <2>2, <2>3, <2>4
  <1>4. CASE Generate \/ Return \/ UNCHANGED vars
    BY <1>2, <1>4 DEF Generate, Return, vars, components
  <1>5. CASE FileChanges
    BY <1>1, <1>5, ChangeReading, CollectionAssumption DEF FileChanges
  <1> QED
    BY <1>3, <1>4, <1>5 DEF Next

(* The cache keeps what it has and never goes back to an older content of  *)
(* a file, though a goroutine may fork for it after another has filled it  *)
(* (decryption.go:79-111).                                                 *)
THEOREM Forward == Spec => CacheForward
  <1>1. Init => Masking /\ Reading
    BY InitMasking, InitReading
  <1>2. Masking /\ Reading /\ [Next]_vars => Masking' /\ Reading'
    BY NextMasking, NextReading
  <1>3. Masking /\ Reading /\ [Next]_vars
          => [\A p \in Paths : cache'[p].content >= cache[p].content]_vars
    BY NextReading
  <1> QED
    BY <1>1, <1>2, <1>3, PTL DEF Spec, CacheForward
-----------------------------------------------------------------------------
(* The resolver hands out an error of a flight that was not over when its  *)
(* receiver asked.                                                         *)
Told ==
  /\ sEnded \subseteq 1 .. sFlights
  /\ \A k \in Schematics : sRunning[k] \notin sEnded
  /\ sSource \in [Nodes -> Nat] /\ DOMAIN sBefore = Nodes
  /\ \A n \in Nodes : /\ sBefore[n] \subseteq sEnded
                      /\ sPc[n] = "error" => sSource[n] \notin sBefore[n]

LEMMA InitTold == Init => Told
  BY DEF Init, Submissions!Init, Submissions!FlightInit, Told

LEMMA CallTold ==
  ASSUME Resolver, Told, NEW n \in Nodes, NEW k \in Schematics, Submissions!Resolve(n, k)
  PROVE  Told'
  <1>1. /\ UNCHANGED <<sRunning, sFlights, sEnded>>
        /\ sBefore' = [sBefore EXCEPT ![n] = sEnded]
        /\ sSource' = [sSource EXCEPT ![n] = 0]
        /\ \A m \in Nodes \ {n} : sPc'[m] = sPc[m]
    BY DEF Submissions!Resolve, Submissions!flightVars, Resolver, ResolverTypes
  <1> QED
    BY <1>1 DEF Told, Resolver, ResolverTypes

LEMMA StepTold ==
  ASSUME Resolver, Told, NEW n \in Nodes, Submissions!CallerStep(n)
  PROVE  Told'
  <1> USE DEF Resolver, ResolverTypes, Told
  <1>1. CASE Submissions!Do(n)
    <2>1. UNCHANGED <<sEnded, sSource, sBefore>> /\ sKey[n] \in Schematics
      BY <1>1 DEF Submissions!Do, Submissions!Lead, Submissions!Board
    <2>2. CASE Submissions!Lead(n, sKey[n]) /\ sPc' = [sPc EXCEPT ![n] = "request"]
      BY <2>1, <2>2 DEF Submissions!Lead
    <2>3. CASE Submissions!Board(n, sKey[n]) /\ sPc' = [sPc EXCEPT ![n] = "wait"]
      BY <2>1, <2>3 DEF Submissions!Board
    <2> QED
      BY <1>1, <2>2, <2>3 DEF Submissions!Do
  <1>2. CASE Submissions!Request(n)
    BY <1>2 DEF Submissions!Request, Submissions!flightVars
  <1>3. CASE Submissions!Deliver(n)
    <2> DEFINE k == sKey[n]
               all == {c \in Nodes : sRunning[k] # 0 /\ sAboard[c] = sRunning[k]}
    <2>1. /\ UNCHANGED <<sBefore, sFlights>> /\ sRunning[k] # 0
          /\ sEnded' = sEnded \cup {sRunning[k]}
          /\ sRunning' = [sRunning EXCEPT ![k] = 0]
          /\ sPc' = [c \in Nodes |-> IF c \in all THEN sOutcome[k] ELSE sPc[c]]
          /\ sSource' = [c \in Nodes |-> IF c \in all THEN sRunning[k] ELSE sSource[c]]
      BY <1>3 DEF Submissions!Deliver, Submissions!Land, Submissions!Passengers
    <2>2. sRunning[k] \in 1 .. sFlights /\ k \in Schematics
      BY <2>1 DEF Flying
    <2>3. sEnded' \subseteq 1 .. sFlights'
      BY <2>1, <2>2
    <2>4. ASSUME NEW l \in Schematics PROVE sRunning'[l] \notin sEnded'
      <3>1. CASE l = k
        BY <2>1, <2>2, <3>1
      <3>2. CASE l # k
        BY <2>1, <2>2, <3>2 DEF Flying
      <3> QED
        BY <3>1, <3>2
    <2>5. sSource' \in [Nodes -> Nat] /\ DOMAIN sBefore' = Nodes
      BY <2>1, <2>2
    <2>6. \A c \in Nodes : /\ sBefore'[c] \subseteq sEnded'
                           /\ sPc'[c] = "error" => sSource'[c] \notin sBefore'[c]
      BY <2>1, <2>2
    <2> QED
      BY <2>3, <2>4, <2>5, <2>6
  <1> QED
    BY <1>1, <1>2, <1>3 DEF Submissions!CallerStep

LEMMA TakeTold ==
  ASSUME Resolver, Told, NEW n \in Nodes, Submissions!Take(n)
  PROVE  Told'
  BY DEF Submissions!Take, Submissions!flightVars, Told, Resolver, ResolverTypes

LEMMA NextTold ==
  ASSUME Resolver, Told, [Next]_vars
  PROVE  Told'
  <1>1. ASSUME UNCHANGED submissionVars PROVE Told'
    BY <1>1 DEF submissionVars, Told
  <1>2. ASSUME NEW n \in Nodes, NodeStep(n) PROVE Told'
    <2>1. CASE Resolve(n)
      <3>1. SchematicOf[n] \in Schematics
        BY DEF Schematics
      <3> QED
        BY <2>1, <3>1, CallTold DEF Resolve
    <2>2. CASE ResolverStep(n)
      BY <2>2, StepTold DEF ResolverStep
    <2>3. CASE Resolved(n)
      BY <2>3, TakeTold DEF Resolved
    <2>4. CASE ~Resolve(n) /\ ~ResolverStep(n) /\ ~Resolved(n)
      BY <1>1, <1>2, <2>4
         DEF NodeStep, Client, Certificate, MachineStatus, MachineConfig, MachineInfo,
             ReadPatch, CacheStep, PatchRead, MaskPatchSecrets, GetSecrets,
             NewBundle, components
    <2> QED
      BY <2>1, <2>2, <2>3, <2>4
  <1>3. CASE Generate \/ Return \/ FileChanges \/ UNCHANGED vars
    BY <1>1, <1>3 DEF Generate, Return, FileChanges, vars, components
  <1> QED
    BY <1>2, <1>3 DEF Next

(* A node is never handed the error of a read or of a submission that had  *)
(* ended before it asked: a failure is shared with those that waited for   *)
(* it and forgotten with its flight (decryption.go:70-120,                 *)
(* resolver.go:137-173).                                                   *)
THEOREM NoStale == Spec => []NoStaleError
  <1> DEFINE I == Masking /\ Reading /\ Accepting /\ Told
  <1>1. Init => I
    BY InitMasking, InitReading, InitAccepting, InitTold
  <1>2. I /\ [Next]_vars => I'
    BY NextMasking, NextReading, NextAccepting, NextTold DEF Accepting
  <1>3. I => NoStaleError
    BY DEF NoStaleError, Files!NoStaleError, Files!Error, Submissions!NoStaleError,
           Reading, Fresh, Told
  <1> QED
    BY <1>1, <1>2, <1>3, PTL DEF Spec
=============================================================================
