---------------------------- MODULE SecretsProofs ----------------------------
(***************************************************************************)
(* Proofs about topf.Secrets for any processes, any number of goroutines   *)
(* and any number of crashes: the goroutines of a process agree on a       *)
(* bundle that is masked when they get it, and as long as one process runs *)
(* at a time nobody ever got a bundle other than the one in the store.     *)
(***************************************************************************)
EXTENDS Secrets, FiniteSetTheorems, TLAPS

Contents == Bundles \cup {Absent, Empty, Garbage}
Places == {"start", "load", "ask", "generate", "write", "ok", "failed"}
Locked == {"load", "ask", "generate", "write"}
Creating == {"ask", "generate", "write"}

StoreTypes ==
  /\ active \in Groups /\ provider \in Providers /\ confirm \in BOOLEAN
  /\ vanished \in BOOLEAN
  /\ store \in Contents /\ made \in 0 .. MaxBundles /\ crashes \in Nat
  /\ cached \in [Processes -> Contents]
  /\ fresh \in [Processes -> Bundles \cup {Absent}]

CallTypes ==
  /\ mu \in [Processes -> Callers \cup {Nobody}]
  /\ bundle \in [Processes -> Bundles \cup {Absent}]
  /\ masked \in [Processes -> SUBSET Bundles]
  /\ pc \in [Processes -> [Callers -> Places]]
  /\ got \in [Processes -> [Callers -> Bundles \cup {Absent}]]
  /\ used \subseteq Bundles

Types == StoreTypes /\ CallTypes

(* Who loads or creates the bundle holds the mutex, and there is none yet; *)
(* a bundle that was kept is masked and is the one everybody got.          *)
Guarded(p) ==
  /\ bundle[p] # Absent => bundle[p] \in masked[p] /\ bundle[p] \in used
  /\ \A c \in Callers :
       /\ pc[p][c] \in Locked => mu[p] = c /\ bundle[p] = Absent
       /\ pc[p][c] = "write" => fresh[p] \in Bundles
       /\ pc[p][c] = "ok" => got[p][c] = bundle[p] /\ bundle[p] # Absent

(* For a process that has the store for itself: a bundle is created only   *)
(* as long as nobody was given one, and after that what the decryption     *)
(* cache holds is what is in the store.                                    *)
Sole(p) ==
  /\ used \subseteq {store}
  /\ \A c \in Callers : pc[p][c] \in Creating => used = {}
  /\ cached[p] \in Bundles => cached[p] = store /\ used # {}
  /\ used # {} /\ bundle[p] = Absent => cached[p] \in {Absent, store}

IInv ==
  /\ Types
  /\ \A p \in Processes : Guarded(p)
  /\ \A p \in Processes : active = {p} /\ ~vanished => Sole(p)

LEMMA InitIInv == Init => IInv
  <1> SUFFICES ASSUME Init PROVE IInv
    OBVIOUS
  <1>1. StoreTypes
    <2>1. 0 \in Bundles /\ made \in 0 .. MaxBundles /\ crashes \in Nat
      BY SecretsAssumption DEF Init, Bundles
    <2> QED
      BY <2>1 DEF Init, StoreTypes, Contents
  <1>2. CallTypes
    BY DEF Init, CallTypes, Places
  <1>3. ASSUME NEW p \in Processes PROVE Guarded(p) /\ Sole(p)
    <2>1. cached[p] = Absent /\ Absent \notin Bundles
      BY DEF Init, Bundles, Absent
    <2> QED
      BY <2>1 DEF Init, Guarded, Sole, Locked, Creating
  <1> QED
    BY <1>1, <1>2, <1>3 DEF IInv, Types

-----------------------------------------------------------------------------
(* A step of caller c of process p moves one place of a nested function.   *)
LEMMA Update ==
  ASSUME NEW P, NEW C, NEW V, NEW f \in [P -> [C -> V]],
         NEW p \in P, NEW c \in C, NEW v \in V
  PROVE  LET g == [f EXCEPT ![p][c] = v] IN
           /\ g \in [P -> [C -> V]]
           /\ g[p][c] = v
           /\ \A d \in C \ {c} : g[p][d] = f[p][d]
           /\ \A q \in P \ {p} : g[q] = f[q]
  OBVIOUS

MovedTo(p, c, s) ==
  /\ pc' \in [Processes -> [Callers -> Places]]
  /\ pc'[p][c] = s
  /\ \A d \in Callers \ {c} : pc'[p][d] = pc[p][d]
  /\ \A q \in Processes \ {p} : pc'[q] = pc[q]

LEMMA Moves ==
  ASSUME Types, NEW p \in Processes, NEW c \in Callers, NEW s \in Places, Goto(p, c, s)
  PROVE  MovedTo(p, c, s)
  BY Update DEF Types, CallTypes, Goto, MovedTo

Returned(p, c, b) ==
  /\ MovedTo(p, c, IF b = Absent THEN "failed" ELSE "ok")
  /\ mu' \in [Processes -> Callers \cup {Nobody}]
  /\ \A q \in Processes \ {p} : mu'[q] = mu[q]
  /\ used' = IF b = Absent THEN used ELSE used \cup {b}
  /\ got' \in [Processes -> [Callers -> Bundles \cup {Absent}]]
  /\ got'[p][c] = b
  /\ \A d \in Callers \ {c} : got'[p][d] = got[p][d]
  /\ \A q \in Processes \ {p} : got'[q] = got[q]

LEMMA Returns ==
  ASSUME Types, NEW p \in Processes, NEW c \in Callers,
         NEW b \in Bundles \cup {Absent}, ReturnBundle(p, c, b)
  PROVE  Returned(p, c, b)
  <1>1. MovedTo(p, c, IF b = Absent THEN "failed" ELSE "ok")
    BY Moves DEF ReturnBundle, Places
  <1>2. /\ got' = [got EXCEPT ![p][c] = b]
        /\ got \in [Processes -> [Callers -> Bundles \cup {Absent}]]
    BY DEF ReturnBundle, Types, CallTypes
  <1>3. /\ got' \in [Processes -> [Callers -> Bundles \cup {Absent}]]
        /\ got'[p][c] = b
        /\ \A d \in Callers \ {c} : got'[p][d] = got[p][d]
        /\ \A q \in Processes \ {p} : got'[q] = got[q]
    BY <1>2, Update
  <1> QED
    BY <1>1, <1>3 DEF ReturnBundle, Types, CallTypes, Returned

(* What a process has does not change in the steps of another one.         *)
Same(q) ==
  /\ mu'[q] = mu[q] /\ bundle'[q] = bundle[q] /\ masked'[q] = masked[q]
  /\ fresh'[q] = fresh[q] /\ pc'[q] = pc[q] /\ got'[q] = got[q]

LEMMA SameGuarded ==
  ASSUME NEW q \in Processes, Guarded(q), Same(q), used \subseteq used'
  PROVE  Guarded(q)'
  BY DEF Guarded, Same

(* Everything that is to be shown of a step of process p.                  *)
Kept(p) ==
  /\ Types' /\ Guarded(p)' /\ active' = active
  /\ active = {p} /\ ~vanished' => Sole(p)'
  /\ used \subseteq used'
  /\ \A q \in Processes \ {p} : Same(q)

LEMMA KeptIInv ==
  ASSUME IInv, NEW p \in Processes, p \in active, Kept(p)
  PROVE  IInv'
  <1>1. ASSUME NEW q \in Processes PROVE Guarded(q)'
    BY <1>1, SameGuarded DEF Kept, IInv
  <1>2. ASSUME NEW q \in Processes, active' = {q}, ~vanished' PROVE Sole(q)'
    BY <1>2 DEF Kept
  <1> QED
    BY <1>1, <1>2 DEF Kept, IInv

LEMMA Kinds ==
  /\ Absent \notin Bundles /\ Empty \notin Bundles /\ Garbage \notin Bundles
  /\ Absent # Empty /\ Absent # Garbage /\ Empty # Garbage
  /\ Contents = Bundles \cup {Absent, Empty, Garbage}
  BY SecretsAssumption DEF Bundles, Absent, Empty, Garbage, Contents

LEMMA LockKept ==
  ASSUME IInv, NEW p \in Processes, NEW c \in Callers, Lock(p, c)
  PROVE  Kept(p)
  <1>1. /\ Types /\ Guarded(p)
        /\ active = {p} /\ ~vanished => Sole(p)
        /\ mu[p] = Nobody /\ pc[p][c] = "start"
        /\ UNCHANGED <<active, provider, confirm, crashes, vanished, store, made, bundle,
                       cached, fresh, masked>>
        /\ bundle[p] \in Bundles \cup {Absent}
    BY DEF IInv, Lock, outside, Types, CallTypes
  <1>2. CASE bundle[p] # Absent /\ ReturnBundle(p, c, bundle[p])
    <2>0. Returned(p, c, bundle[p]) /\ bundle[p] \in used
      BY <1>1, <1>2, Returns DEF Guarded
    <2>1. Returned(p, c, bundle[p]) /\ used' = used
      BY <1>2, <2>0 DEF Returned
    <2>2. Types'
      BY <1>1, <2>1 DEF Types, StoreTypes, CallTypes, Returned, MovedTo
    <2>3. Guarded(p)'
      BY <1>1, <1>2, <2>1 DEF Guarded, Locked, Returned, MovedTo
    <2>4. active = {p} /\ ~vanished' => Sole(p)'
      BY <1>1, <1>2, <2>1 DEF Sole, Creating, Returned, MovedTo
    <2>5. \A q \in Processes \ {p} : Same(q)
      BY <1>1, <2>1 DEF Same, Returned, MovedTo
    <2> QED
      BY <1>1, <2>1, <2>2, <2>3, <2>4, <2>5 DEF Kept
  <1>3. CASE /\ bundle[p] = Absent /\ mu' = [mu EXCEPT ![p] = c]
             /\ Goto(p, c, "load") /\ UNCHANGED <<got, used>>
    <2>1. MovedTo(p, c, "load")
      BY <1>1, <1>3, Moves DEF Places
    <2>2. Types'
      BY <1>1, <1>3, <2>1 DEF Types, StoreTypes, CallTypes, MovedTo
    <2>3. Guarded(p)'
      <3>1. mu'[p] = c /\ \A d \in Callers : pc[p][d] \notin Locked
        BY <1>1, <1>3, SecretsAssumption DEF Guarded, Types, CallTypes
      <3> QED
        BY <1>1, <1>3, <2>1, <3>1 DEF Guarded, Locked, MovedTo
    <2>4. active = {p} /\ ~vanished' => Sole(p)'
      BY <1>1, <1>3, <2>1 DEF Sole, Creating, MovedTo
    <2>5. \A q \in Processes \ {p} : Same(q)
      BY <1>1, <1>3, <2>1 DEF Same, Types, CallTypes, MovedTo
    <2> QED
      BY <1>1, <1>3, <2>2, <2>3, <2>4, <2>5 DEF Kept
  <1> QED
    BY <1>2, <1>3 DEF Lock

-----------------------------------------------------------------------------
(* The caller that holds the mutex, and the three ways in which its step   *)
(* ends: it goes on, returns an error, or publishes the bundle.            *)
Alone(p, c) ==
  /\ mu[p] = c /\ bundle[p] = Absent /\ pc[p][c] \in Locked
  /\ \A d \in Callers \ {c} : pc[p][d] \notin Locked
  /\ \A d \in Callers : pc[p][d] # "ok"

LEMMA HolderAlone ==
  ASSUME IInv, NEW p \in Processes, NEW c \in Callers, pc[p][c] \in Locked
  PROVE  Alone(p, c)
  BY DEF IInv, Guarded, Alone

(* What the three have in common.                                          *)
Proper(p) ==
  /\ CallTypes' /\ Guarded(p)' /\ used \subseteq used'
  /\ \A q \in Processes \ {p} :
       /\ mu'[q] = mu[q] /\ bundle'[q] = bundle[q] /\ masked'[q] = masked[q]
       /\ pc'[q] = pc[q] /\ got'[q] = got[q]

LEMMA GoesOn ==
  ASSUME Types, NEW p \in Processes, NEW c \in Callers, Alone(p, c),
         NEW s \in Locked, Goes(p, c, s), s = "write" => fresh'[p] \in Bundles
  PROVE  Proper(p) /\ MovedTo(p, c, s) /\ used' = used /\ bundle' = bundle
  <1>1. MovedTo(p, c, s) /\ UNCHANGED <<mu, bundle, masked, got, used>>
    BY Moves DEF Goes, Locked, Places
  <1>2. CallTypes'
    BY <1>1 DEF Types, CallTypes, MovedTo
  <1>3. Guarded(p)'
    BY <1>1 DEF Guarded, MovedTo, Alone, Locked
  <1> QED
    BY <1>1, <1>2, <1>3 DEF Proper, MovedTo

LEMMA ReturnsError ==
  ASSUME Types, NEW p \in Processes, NEW c \in Callers, Alone(p, c),
         ReturnBundle(p, c, Absent), UNCHANGED <<bundle, masked>>
  PROVE  Proper(p) /\ MovedTo(p, c, "failed") /\ used' = used /\ bundle' = bundle
  <1>1. Returned(p, c, Absent)
    BY Returns
  <1>2. MovedTo(p, c, "failed") /\ used' = used
    BY <1>1 DEF Returned
  <1>3. CallTypes'
    BY <1>1, <1>2 DEF Types, CallTypes, Returned, MovedTo
  <1>4. Guarded(p)'
    BY <1>2 DEF Guarded, MovedTo, Alone, Locked
  <1> QED
    BY <1>1, <1>2, <1>3, <1>4 DEF Proper, Returned, MovedTo

LEMMA Publishes ==
  ASSUME Types, NEW p \in Processes, NEW c \in Callers, Alone(p, c),
         NEW b \in Bundles, Publish(p, c, b)
  PROVE  /\ Proper(p) /\ MovedTo(p, c, "ok")
         /\ used' = used \cup {b} /\ bundle'[p] = b
  <1>1. Returned(p, c, b) /\ b # Absent
    BY Returns, Kinds DEF Publish
  <1>2. MovedTo(p, c, "ok") /\ used' = used \cup {b}
    BY <1>1 DEF Returned
  <1>3. /\ bundle' = [bundle EXCEPT ![p] = b]
        /\ masked' = [masked EXCEPT ![p] = masked[p] \cup {b}]
    BY DEF Publish
  <1>4. CallTypes'
    BY <1>1, <1>2, <1>3 DEF Types, CallTypes, Returned, MovedTo
  <1>5. bundle'[p] = b /\ b \in masked'[p] /\ got'[p][c] = b
    BY <1>1, <1>3 DEF Types, CallTypes, Returned
  <1>6. Guarded(p)'
    BY <1>1, <1>2, <1>5 DEF Guarded, MovedTo, Alone, Locked
  <1>7. /\ used \subseteq used'
        /\ \A q \in Processes \ {p} :
             /\ mu'[q] = mu[q] /\ bundle'[q] = bundle[q] /\ masked'[q] = masked[q]
             /\ pc'[q] = pc[q] /\ got'[q] = got[q]
    BY <1>1, <1>2, <1>3 DEF Types, CallTypes, Returned, MovedTo
  <1> QED
    BY <1>2, <1>4, <1>5, <1>6, <1>7 DEF Proper

LEMMA LoadKept ==
  ASSUME IInv, NEW p \in Processes, NEW c \in Callers, Load(p, c)
  PROVE  Kept(p)
  <1>1. /\ Types /\ Alone(p, c) /\ pc[p][c] = "load"
        /\ active = {p} /\ ~vanished => Sole(p)
        /\ UNCHANGED <<active, provider, confirm, crashes, store, made, fresh>>
    BY HolderAlone DEF IInv, Load, outside, Locked
  <1>2. PICK r \in GetResults(p) :
          /\ cached' = IF provider = "file" /\ r = store
                       THEN [cached EXCEPT ![p] = r] ELSE cached
          /\ vanished' = (vanished \/ (r = Absent /\ store \in Bundles))
          /\ \/ r \in Bundles /\ Publish(p, c, r)
             \/ /\ r \in {Absent, Empty}
                /\ Goes(p, c, IF confirm THEN "ask" ELSE "generate")
             \/ /\ r = Garbage
                /\ ReturnBundle(p, c, Absent) /\ UNCHANGED <<bundle, masked>>
    BY DEF Load
  <1>3. /\ r \in {store, Absent, Garbage} \/ (r = cached[p] /\ cached[p] # Absent)
        /\ r \in Contents
    BY <1>1 DEF GetResults, Types, StoreTypes, Contents
  <1>4. cached'[p] = cached[p] \/ (cached'[p] = store /\ r = store)
    BY <1>1, <1>2 DEF Types, StoreTypes
  <1>5. StoreTypes'
    BY <1>1, <1>2, <1>3 DEF Types, StoreTypes
  <1>0. ~vanished' => ~vanished /\ (r = Absent => store \notin Bundles)
    BY <1>2
  <1>6. ASSUME r \in Bundles, Publish(p, c, r) PROVE Kept(p)
    <2>1. /\ Proper(p) /\ MovedTo(p, c, "ok")
          /\ used' = used \cup {r} /\ bundle'[p] = r
      BY <1>1, <1>6, Publishes
    <2>2. ASSUME active = {p}, ~vanished' PROVE Sole(p)'
      <3>1. r = store
        BY <1>0, <1>1, <1>3, <1>6, <2>2, Kinds DEF Sole
      <3> QED
        BY <1>0, <1>1, <1>4, <1>6, <2>1, <2>2, <3>1, Kinds
           DEF Sole, Alone, Locked, Creating, MovedTo
    <2> QED
      BY <1>1, <1>5, <2>1, <2>2 DEF Kept, Proper, Types, Same
  <1>7. ASSUME r \in {Absent, Empty}, Goes(p, c, IF confirm THEN "ask" ELSE "generate")
        PROVE  Kept(p)
    <2>1. PICK s \in {"ask", "generate"} : Goes(p, c, s)
      BY <1>7
    <2>2. /\ Proper(p) /\ MovedTo(p, c, s)
          /\ used' = used /\ bundle' = bundle
      BY <1>1, <2>1, GoesOn DEF Locked
    <2>3. ASSUME active = {p}, ~vanished' PROVE Sole(p)'
      <3>1. used = {}
        BY <1>0, <1>1, <1>3, <1>7, <2>3, Kinds DEF Sole, Alone, Types, CallTypes
      <3> QED
        BY <1>0, <1>1, <1>4, <1>7, <2>2, <2>3, <3>1, Kinds DEF Sole
    <2> QED
      BY <1>1, <1>5, <2>2, <2>3 DEF Kept, Proper, Types, Same
  <1>8. ASSUME r = Garbage, ReturnBundle(p, c, Absent), UNCHANGED <<bundle, masked>>
        PROVE  Kept(p)
    <2>1. /\ Proper(p) /\ MovedTo(p, c, "failed")
          /\ used' = used /\ bundle' = bundle
      BY <1>1, <1>8, ReturnsError
    <2>2. ASSUME active = {p}, ~vanished' PROVE Sole(p)'
      BY <1>0, <1>1, <1>4, <1>8, <2>1, <2>2, Kinds
         DEF Sole, Alone, Locked, Creating, MovedTo
    <2> QED
      BY <1>1, <1>5, <2>1, <2>2 DEF Kept, Proper, Types, Same
  <1> QED
    BY <1>2, <1>6, <1>7, <1>8

LEMMA AskKept ==
  ASSUME IInv, NEW p \in Processes, NEW c \in Callers, Ask(p, c)
  PROVE  Kept(p)
  <1>1. /\ Types /\ Alone(p, c) /\ pc[p][c] = "ask"
        /\ active = {p} /\ ~vanished => Sole(p)
        /\ UNCHANGED <<active, provider, confirm, crashes, vanished, store, made, cached,
                       fresh>>
    BY HolderAlone DEF IInv, Ask, outside, Locked
  <1>2. StoreTypes'
    BY <1>1 DEF Types, StoreTypes
  <1>3. PICK s \in {"generate", "failed"} :
          /\ Proper(p) /\ MovedTo(p, c, s)
          /\ used' = used /\ bundle' = bundle
    BY <1>1, GoesOn, ReturnsError DEF Ask, Locked
  <1>4. ASSUME active = {p}, ~vanished' PROVE Sole(p)'
    BY <1>1, <1>3, <1>4 DEF Sole, Creating, MovedTo
  <1> QED
    BY <1>1, <1>2, <1>3, <1>4 DEF Kept, Proper, Types, Same

LEMMA GenerateKept ==
  ASSUME IInv, NEW p \in Processes, NEW c \in Callers, Generate(p, c)
  PROVE  Kept(p)
  <1>1. /\ Types /\ Alone(p, c) /\ pc[p][c] = "generate"
        /\ active = {p} /\ ~vanished => Sole(p)
        /\ UNCHANGED <<active, provider, confirm, crashes, vanished, cached>>
        /\ made < MaxBundles /\ made' = made + 1
        /\ fresh' = [fresh EXCEPT ![p] = made + 1]
    BY HolderAlone DEF IInv, Generate, outside, Locked
  <1>2. /\ made + 1 \in Bundles /\ fresh'[p] = made + 1
        /\ \A q \in Processes \ {p} : fresh'[q] = fresh[q]
    BY <1>1, SecretsAssumption DEF Types, StoreTypes, Bundles
  <1>3. StoreTypes'
    <2>1. store' \in Contents
      BY DEF Generate, IInv, Types, StoreTypes, Contents
    <2>2. made' \in 0 .. MaxBundles /\ fresh' \in [Processes -> Bundles \cup {Absent}]
      BY <1>1, <1>2, SecretsAssumption DEF Types, StoreTypes
    <2> QED
      BY <1>1, <2>1, <2>2 DEF Types, StoreTypes
  <1>4. PICK s \in {"write", "failed"} :
          /\ Proper(p) /\ MovedTo(p, c, s)
          /\ used' = used /\ bundle' = bundle
    BY <1>1, <1>2, GoesOn, ReturnsError DEF Generate, Locked
  <1>5. ASSUME active = {p}, ~vanished' PROVE Sole(p)'
    <2>1. used = {}
      BY <1>1, <1>5 DEF Sole, Creating
    <2> QED
      BY <1>1, <1>4, <1>5, <2>1 DEF Sole
  <1> QED
    BY <1>1, <1>2, <1>3, <1>4, <1>5 DEF Kept, Proper, Types, Same

LEMMA WriteKept ==
  ASSUME IInv, NEW p \in Processes, NEW c \in Callers, Write(p, c)
  PROVE  Kept(p)
  <1>1. /\ Types /\ Alone(p, c) /\ pc[p][c] = "write"
        /\ active = {p} /\ ~vanished => Sole(p)
        /\ fresh[p] \in Bundles
        /\ UNCHANGED <<active, provider, confirm, crashes, vanished, made, cached, fresh>>
    BY HolderAlone DEF IInv, Guarded, Write, outside, Locked
  <1>2. StoreTypes'
    <2>1. store' \in Contents
      BY <1>1 DEF Write, Types, StoreTypes, Contents
    <2> QED
      BY <1>1, <2>1 DEF Types, StoreTypes
  <1>3. ASSUME active = {p}, ~vanished PROVE used = {}
    BY <1>1, <1>3 DEF Sole, Creating
  <1>4. ASSUME store' = fresh[p], Publish(p, c, fresh[p]) PROVE Kept(p)
    <2>1. /\ Proper(p) /\ MovedTo(p, c, "ok")
          /\ used' = used \cup {fresh[p]} /\ bundle'[p] = fresh[p]
      BY <1>1, <1>4, Publishes
    <2>2. ASSUME active = {p}, ~vanished' PROVE Sole(p)'
      BY <1>1, <1>3, <1>4, <2>1, <2>2, Kinds
         DEF Sole, Alone, Locked, Creating, MovedTo
    <2> QED
      BY <1>1, <1>2, <2>1, <2>2 DEF Kept, Proper, Types, Same
  <1>5. ASSUME ReturnBundle(p, c, Absent), UNCHANGED <<bundle, masked>> PROVE Kept(p)
    <2>1. /\ Proper(p) /\ MovedTo(p, c, "failed")
          /\ used' = used /\ bundle' = bundle
      BY <1>1, <1>5, ReturnsError
    <2>2. ASSUME active = {p}, ~vanished' PROVE Sole(p)'
      BY <1>1, <1>3, <2>1, <2>2 DEF Sole
    <2> QED
      BY <1>1, <1>2, <2>1, <2>2 DEF Kept, Proper, Types, Same
  <1> QED
    BY <1>4, <1>5 DEF Write

-----------------------------------------------------------------------------
(* A process that is killed forgets everything; what it was writing is in  *)
(* the store, in part, or lost, and nobody has been given it.              *)
LEMMA CrashKept ==
  ASSUME IInv, NEW p \in Processes, Crash(p)
  PROVE  Kept(p)
  <1>1. /\ Types /\ Guarded(p)
        /\ active = {p} /\ ~vanished => Sole(p)
        /\ mu' = [mu EXCEPT ![p] = Nobody]
        /\ bundle' = [bundle EXCEPT ![p] = Absent]
        /\ cached' = [cached EXCEPT ![p] = Absent]
        /\ fresh' = [fresh EXCEPT ![p] = Absent]
        /\ masked' = [masked EXCEPT ![p] = {}]
        /\ pc' = [pc EXCEPT ![p] = [c \in Callers |-> "start"]]
        /\ got' = [got EXCEPT ![p] = [c \in Callers |-> Absent]]
        /\ crashes' = crashes + 1
        /\ UNCHANGED <<active, provider, confirm, made, used, vanished>>
    BY DEF IInv, Crash
  <1>2. \/ store' = store
        \/ /\ \E c \in Callers : pc[p][c] = "write"
           /\ store' \in {fresh[p], Garbage, store}
    BY DEF Crash
  <1>3. StoreTypes'
    <2>1. store' \in Contents
      BY <1>1, <1>2 DEF Types, StoreTypes, Contents
    <2> QED
      BY <1>1, <2>1 DEF Types, StoreTypes, Contents
  <1>4. CallTypes'
    BY <1>1 DEF Types, CallTypes, Places
  <1>5. /\ bundle'[p] = Absent /\ cached'[p] = Absent
        /\ \A c \in Callers : pc'[p][c] = "start"
    BY <1>1 DEF Types, StoreTypes, CallTypes
  <1>6. Guarded(p)'
    BY <1>5 DEF Guarded, Locked
  <1>7. ASSUME active = {p}, ~vanished' PROVE Sole(p)'
    <2>1. used \subseteq {store'}
      BY <1>1, <1>2, <1>7 DEF Sole, Creating
    <2> QED
      BY <1>1, <1>5, <2>1, Kinds DEF Sole, Creating
  <1>8. \A q \in Processes \ {p} : Same(q)
    BY <1>1 DEF Same, Types, StoreTypes, CallTypes
  <1> QED
    BY <1>1, <1>3, <1>4, <1>6, <1>7, <1>8 DEF Kept, Types

LEMMA NextIInv == IInv /\ [Next]_vars => IInv'
  <1> SUFFICES ASSUME IInv, [Next]_vars PROVE IInv'
    OBVIOUS
  <1>1. ASSUME Next PROVE IInv'
    <2>1. PICK p \in active : Crash(p) \/ \E c \in Callers : CallerStep(p, c)
      BY <1>1 DEF Next
    <2>2. p \in Processes
      BY <2>1 DEF IInv, Types, StoreTypes, Processes
    <2>3. Kept(p)
      BY <2>1, <2>2, CrashKept, LockKept, LoadKept, AskKept, GenerateKept, WriteKept
         DEF CallerStep
    <2> QED
      BY <2>1, <2>2, <2>3, KeptIInv
  <1>2. ASSUME UNCHANGED vars PROVE IInv'
    <2>1. Types'
      BY <1>2 DEF IInv, Types, StoreTypes, CallTypes, vars
    <2>2. \A p \in Processes : Guarded(p)'
      BY <1>2 DEF IInv, Guarded, vars
    <2>3. \A p \in Processes : active' = {p} /\ ~vanished' => Sole(p)'
      BY <1>2 DEF IInv, Sole, vars
    <2> QED
      BY <2>1, <2>2, <2>3 DEF IInv
  <1> QED
    BY <1>1, <1>2

(* What the proofs rest on: the mutex of topf.Secrets guards the bundle,   *)
(* and a process that has the store for itself never creates a bundle      *)
(* after somebody was given one.                                           *)
THEOREM SecretsIInv == Spec => []IInv
  BY InitIInv, NextIInv, PTL DEF Spec

-----------------------------------------------------------------------------
(* As long as one topf process runs at a time, nobody is ever given a      *)
(* bundle that is not the one in secrets.yaml, whichever Put failed or was *)
(* interrupted and however often the process was killed and started again  *)
(* (topf.Secrets, generateAndStoreSecrets), unless a Get took a program    *)
(* that is missing for secrets that are missing (secrets.go:33).           *)
THEOREM SecretsOneBundle == Spec => []OneBundle
  <1>1. IInv => OneBundle
    <2> SUFFICES ASSUME IInv, Cardinality(active) = 1, ~vanished PROVE used \subseteq {store}
      BY DEF OneBundle
    <2>1. IsFiniteSet(active) /\ active \in Groups
      BY SecretsAssumption DEF IInv, Types, StoreTypes
    <2>2. PICK p : active = {p}
      BY <2>1, FS_Singleton
    <2> QED
      BY <2>1, <2>2 DEF IInv, Sole, Processes
  <1> QED
    BY <1>1, SecretsIInv, PTL

(* All goroutines of a process configure their nodes from the same bundle, *)
(* also when other processes use the store at the same time.               *)
THEOREM SecretsProcessAgrees == Spec => []ProcessAgrees
  <1>1. IInv => ProcessAgrees
    BY DEF IInv, Guarded, ProcessAgrees
  <1> QED
    BY <1>1, SecretsIInv, PTL

(* No goroutine has a bundle whose secrets the masked writer does not yet  *)
(* know (logger.AddSecrets before the return).                             *)
THEOREM SecretsMaskedBeforeUse == Spec => []MaskedBeforeUse
  <1>1. IInv => MaskedBeforeUse
    BY DEF IInv, Guarded, MaskedBeforeUse
  <1> QED
    BY <1>1, SecretsIInv, PTL

-----------------------------------------------------------------------------
(* The call in process p as one step.  A caller that only moves on between *)
(* lock and unlock does nothing that the callers can see.                  *)
Awaiting == {"start"} \cup Locked

LEMMA AnswerOf ==
  /\ Answer("ok") = "given" /\ Answer("failed") = "refused"
  /\ \A s \in {"start"} \cup Locked : Answer(s) = "awaited"
  BY DEF Answer, Locked

LEMMA Unseen ==
  ASSUME Types, NEW p \in Processes, NEW c \in Callers, NEW s \in Awaiting,
         pc[p][c] \in Awaiting, MovedTo(p, c, s), UNCHANGED <<bundle, masked, got>>
  PROVE  UNCHANGED Promise(p)!vars
  <1>1. \A d \in Callers : Answer(pc'[p][d]) = Answer(pc[p][d])
    BY DEF Answer, MovedTo, Awaiting, Locked
  <1> QED
    BY <1>1 DEF Promise!vars

(* The answer of c changes and that of no other caller.                    *)
LEMMA Answers ==
  ASSUME NEW p \in Processes, NEW c \in Callers, NEW s \in Places, NEW a,
         MovedTo(p, c, s), Answer(s) = a
  PROVE  [d \in Callers |-> Answer(pc'[p][d])]
           = [[d \in Callers |-> Answer(pc[p][d])] EXCEPT ![c] = a]
  <1>1. pc'[p][c] = s /\ \A d \in Callers \ {c} : pc'[p][d] = pc[p][d]
    BY DEF MovedTo
  <1> QED
    BY <1>1

LEMMA Gives ==
  ASSUME Types, NEW p \in Processes, NEW c \in Callers, pc[p][c] \in Awaiting,
         NEW b \in Bundles, Returned(p, c, b), bundle[p] \in {b, Absent},
         bundle'[p] = b, masked'[p] = masked[p] \cup {b}
  PROVE  Promise(p)!Next
  <1>1. MovedTo(p, c, "ok") /\ Answer(pc[p][c]) = "awaited" /\ Answer("ok") = "given"
    <2>1. MovedTo(p, c, "ok")
      BY Kinds DEF Returned
    <2> QED
      BY <2>1, AnswerOf DEF Awaiting
  <1>2. [d \in Callers |-> Answer(pc'[p][d])]
          = [[d \in Callers |-> Answer(pc[p][d])] EXCEPT ![c] = "given"]
    <2>1. "ok" \in Places /\ "failed" \in Places
      BY DEF Places
    <2> QED
      BY <1>1, <2>1, Answers
  <1>3. got'[p] = [got[p] EXCEPT ![c] = b]
    BY DEF Returned, Types, CallTypes
  <1>4. Promise(p)!Give(c, b)
    BY <1>1, <1>2, <1>3 DEF Promise!Give
  <1> QED
    BY <1>4 DEF Promise!Next

LEMMA Refuses ==
  ASSUME Types, NEW p \in Processes, NEW c \in Callers, pc[p][c] \in Awaiting,
         Returned(p, c, Absent), bundle[p] = Absent, UNCHANGED <<bundle, masked>>
  PROVE  Promise(p)!Next
  <1>1. /\ MovedTo(p, c, "failed")
        /\ Answer(pc[p][c]) = "awaited" /\ Answer("failed") = "refused"
    <2>1. MovedTo(p, c, "failed")
      BY DEF Returned
    <2> QED
      BY <2>1, AnswerOf DEF Awaiting
  <1>2. [d \in Callers |-> Answer(pc'[p][d])]
          = [[d \in Callers |-> Answer(pc[p][d])] EXCEPT ![c] = "refused"]
    <2>1. "ok" \in Places /\ "failed" \in Places
      BY DEF Places
    <2> QED
      BY <1>1, <2>1, Answers
  <1>3. got'[p] = [got[p] EXCEPT ![c] = Absent]
    BY DEF Returned, Types, CallTypes
  <1>4. Promise(p)!Refuse(c)
    BY <1>1, <1>2, <1>3 DEF Promise!Refuse
  <1> QED
    BY <1>4 DEF Promise!Next

(* The three ways in which a step of the holder of the mutex ends.         *)
LEMMA HolderEnds ==
  ASSUME Types, NEW p \in Processes, NEW c \in Callers, Alone(p, c)
  PROVE  /\ \A b \in Bundles : Publish(p, c, b) => Promise(p)!Next
         /\ ReturnBundle(p, c, Absent) /\ UNCHANGED <<bundle, masked>> => Promise(p)!Next
         /\ \A s \in Locked : Goes(p, c, s) => UNCHANGED Promise(p)!vars
  <1>1. pc[p][c] \in Awaiting /\ bundle[p] = Absent
    BY DEF Alone, Awaiting
  <1>2. ASSUME NEW b \in Bundles, Publish(p, c, b) PROVE Promise(p)!Next
    <2>1. Returned(p, c, b)
      BY <1>2, Returns DEF Publish
    <2>2. bundle'[p] = b /\ masked'[p] = masked[p] \cup {b}
      BY <1>2 DEF Publish, Types, CallTypes
    <2> QED
      BY <1>1, <2>1, <2>2, Gives
  <1>3. ASSUME ReturnBundle(p, c, Absent), UNCHANGED <<bundle, masked>>
        PROVE  Promise(p)!Next
    <2>1. Returned(p, c, Absent)
      BY <1>3, Returns
    <2> QED
      BY <1>1, <1>3, <2>1, Refuses
  <1>4. ASSUME NEW s \in Locked, Goes(p, c, s) PROVE UNCHANGED Promise(p)!vars
    <2>1. s \in Awaiting /\ s \in Places
      BY DEF Awaiting, Locked, Places
    <2>2. MovedTo(p, c, s) /\ UNCHANGED <<bundle, masked, got>>
      BY <1>4, <2>1, Moves DEF Goes
    <2> QED
      BY <1>1, <2>1, <2>2, Unseen
  <1> QED
    BY <1>2, <1>3, <1>4

LEMMA CallerOneStep ==
  ASSUME IInv, NEW p \in Processes, NEW c \in Callers, CallerStep(p, c)
  PROVE  [Promise(p)!Next]_(Promise(p)!vars)
  <1>0. Types /\ Guarded(p) /\ bundle[p] \in Bundles \cup {Absent}
    BY DEF IInv, Types, CallTypes
  <1>1. CASE Lock(p, c)
    <2>1. pc[p][c] \in Awaiting /\ UNCHANGED <<bundle, masked>>
      BY <1>1 DEF Lock, Awaiting
    <2>2. CASE bundle[p] # Absent /\ ReturnBundle(p, c, bundle[p])
      <3>1. Returned(p, c, bundle[p])
        BY <1>0, <2>2, Returns
      <3>2. masked'[p] = masked[p] \cup {bundle[p]}
        BY <1>0, <2>1, <2>2 DEF Guarded
      <3> QED
        BY <1>0, <2>1, <2>2, <3>1, <3>2, Gives
    <2>3. CASE Goto(p, c, "load") /\ UNCHANGED <<got, used>>
      <3>1. MovedTo(p, c, "load")
        BY <1>0, <2>3, Moves DEF Places
      <3> QED
        BY <1>0, <2>1, <2>3, <3>1, Unseen DEF Awaiting, Locked
    <2> QED
      BY <1>1, <2>2, <2>3 DEF Lock
  <1>2. ASSUME pc[p][c] \in Locked
        PROVE  /\ \A b \in Bundles : Publish(p, c, b) => Promise(p)!Next
               /\ ReturnBundle(p, c, Absent) /\ UNCHANGED <<bundle, masked>>
                    => Promise(p)!Next
               /\ \A s \in Locked : Goes(p, c, s) => UNCHANGED Promise(p)!vars
    BY <1>0, <1>2, HolderAlone, HolderEnds
  <1>3. CASE Load(p, c)
    <2>1. pc[p][c] \in Locked /\ {"ask", "generate"} \subseteq Locked
      BY <1>3 DEF Load, Locked
    <2>2. \/ \E b \in Bundles : Publish(p, c, b)
          \/ \E s \in {"ask", "generate"} : Goes(p, c, s)
          \/ ReturnBundle(p, c, Absent) /\ UNCHANGED <<bundle, masked>>
      BY <1>3 DEF Load
    <2> QED
      BY <1>2, <2>1, <2>2
  <1>4. CASE Ask(p, c)
    <2>1. pc[p][c] \in Locked /\ "generate" \in Locked
      BY <1>4 DEF Ask, Locked
    <2> QED
      BY <1>2, <1>4, <2>1 DEF Ask
  <1>5. CASE Generate(p, c)
    <2>1. pc[p][c] \in Locked /\ "write" \in Locked
      BY <1>5 DEF Generate, Locked
    <2> QED
      BY <1>2, <1>5, <2>1 DEF Generate
  <1>6. CASE Write(p, c)
    <2>1. pc[p][c] \in Locked /\ fresh[p] \in Bundles
      BY <1>0, <1>6 DEF Write, Locked, Guarded
    <2> QED
      BY <1>2, <1>6, <2>1 DEF Write
  <1> QED
    BY <1>1, <1>3, <1>4, <1>5, <1>6 DEF CallerStep

LEMMA CrashOneStep ==
  ASSUME IInv, NEW p \in Processes, Crash(p)
  PROVE  Promise(p)!Next
  <1>1. /\ bundle'[p] = Absent /\ masked'[p] = {}
        /\ pc'[p] = [c \in Callers |-> "start"]
        /\ got'[p] = [c \in Callers |-> Absent]
    BY DEF Crash, IInv, Types, CallTypes
  <1>2. [c \in Callers |-> Answer(pc'[p][c])] = [c \in Callers |-> "awaited"]
    BY <1>1 DEF Answer
  <1>3. Promise(p)!Restart
    BY <1>1, <1>2 DEF Promise!Restart
  <1> QED
    BY <1>3 DEF Promise!Next

LEMMA NextOneStep ==
  ASSUME IInv, [Next]_vars
  PROVE  \A p \in Processes : [Promise(p)!Next]_(Promise(p)!vars)
  <1>1. CASE UNCHANGED vars
    BY <1>1 DEF vars, Promise!vars
  <1>2. ASSUME Next, NEW q \in Processes PROVE [Promise(q)!Next]_(Promise(q)!vars)
    <2>1. PICK p \in active : Crash(p) \/ \E c \in Callers : CallerStep(p, c)
      BY <1>2 DEF Next
    <2>2. p \in Processes
      BY <2>1 DEF IInv, Types, StoreTypes, Processes
    <2>3. CASE q = p
      BY <2>1, <2>2, <2>3, CrashOneStep, CallerOneStep
    <2>4. CASE q # p
      <3>1. Kept(p)
        BY <2>1, <2>2, CrashKept, LockKept, LoadKept, AskKept, GenerateKept, WriteKept
           DEF CallerStep
      <3>2. Same(q)
        BY <2>4, <3>1 DEF Kept
      <3> QED
        BY <3>2 DEF Same, Promise!vars
    <2> QED
      BY <2>3, <2>4
  <1> QED
    BY <1>1, <1>2

(* To its callers topf.Secrets is one step, in every process, however many *)
(* processes use the store, fail or are killed: the step of module         *)
(* SharedBundle, which registers and gives away the bundle at once and     *)
(* fails only as long as there is none.                                    *)
THEOREM SecretsImplementSharedBundle == Spec => ImplementsSharedBundle
  <1>1. Init => \A p \in Processes : Promise(p)!Init
    BY DEF Init, Promise!Init, Answer
  <1>2. IInv /\ [Next]_vars
          => [\A p \in Processes : [Promise(p)!Next]_(Promise(p)!vars)]_vars
    BY NextOneStep
  <1> QED
    BY <1>1, <1>2, SecretsIInv, PTL DEF Spec, ImplementsSharedBundle
=============================================================================
