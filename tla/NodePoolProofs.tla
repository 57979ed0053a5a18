--------------------------- MODULE NodePoolProofs ---------------------------
(***************************************************************************)
(* Proofs about nodepool.RunConcurrent for any number of nodes and any     *)
(* --max-parallel value: the invariant of module NodePool is inductive,    *)
(* and it implies the safety properties the runs check.                    *)
(***************************************************************************)
EXTENDS NodePool, FiniteSetTheorems, TLAPS

-----------------------------------------------------------------------------
(* The bounds of --max-parallel *)

(* MaxParallel.Resolve is at least 1 for whatever the flag accepts, and    *)
(* never exceeds the number of nodes there are to process                  *)
(* (nodepool.go:53-55).                                                    *)
THEOREM ResolveBounds ==
  ASSUME NEW b \in MaxParallelFlag, ParseAccepts(b), NEW total \in Nat
  PROVE  /\ Resolve(b, total) \in Nat \ {0}
         /\ total > 0 => Resolve(b, total) <= total
  <1> DEFINE k == total * b.value
  <1>1. b.value \in Int /\ b.value > 0 /\ k \in Int
    BY DEF MaxParallelFlag, ParseAccepts
  <1>2. Ceil100(k) \in Int
    BY <1>1 DEF Ceil100
  <1> HIDE DEF k
  <1>3. \A n \in Int : /\ AtMost(AtLeastOne(n), total) \in Nat \ {0}
                       /\ total > 0 => AtMost(AtLeastOne(n), total) <= total
    BY DEF AtMost, AtLeastOne
  <1>4. (IF b.percent THEN Ceil100(k) ELSE b.value) \in Int
    BY <1>1, <1>2
  <1> QED
    BY <1>3, <1>4 DEF Resolve, k

(* RunConcurrent starts at least one goroutine when there is a node, never *)
(* more than there are nodes and never more than it was asked for.         *)
LEMMA PoolSizeBounds ==
  ASSUME NEW n \in Nat \ {0}, NEW len \in Nat
  PROVE  /\ PoolSize(n, len) \in 0 .. len
         /\ PoolSize(n, len) <= n
         /\ len > 0 => PoolSize(n, len) >= 1
  BY DEF PoolSize, AtMost, AtLeastOne

-----------------------------------------------------------------------------
LEMMA InitIInv == Init => IInv
  <1> SUFFICES ASSUME Init PROVE IInv
    OBVIOUS
  <1>1. limit \in Nat \ {0}
    <2>1. PICK b \in MaxParallels, others \in 0 .. MaxOthers :
            limit = Resolve(b, N + others)
      BY DEF Init
    <2>2. b \in MaxParallelFlag /\ ParseAccepts(b) /\ N + others \in Nat
      BY NodePoolAssumption
    <2> QED
      BY <2>1, <2>2, ResolveBounds
  <1>2. Busy = {} /\ Failed = {}
    BY DEF Init, Busy, Failed
  <1>3. /\ next = 1 /\ pc = [g \in Goroutines |-> "pull"]
        /\ cur = [g \in Goroutines |-> 0] /\ stop = FALSE
        /\ op = [i \in Nodes |-> "waiting"] /\ errs = {} /\ returned = FALSE
        /\ result = {} /\ late = {}
    BY DEF Init
  <1>4. TypeOK
    <2>1. next \in 1 .. N + 1 /\ 0 \in 0 .. N
      BY <1>3, NodePoolAssumption
    <2>2. cur \in [Goroutines -> 0 .. N]
      BY <1>3, <2>1
    <2> QED
      BY <1>1, <1>3, <2>1, <2>2 DEF TypeOK
  <1>5. Holding
    BY <1>2, <1>3 DEF Holding, ExclusiveNodes, NodeHeld, RunningHeld, FailedHeld, QueuedUntouched, Nodes
  <1>6. Reporting
    BY <1>2, <1>3 DEF Reporting, ErrorsSent, StopMeansFailed
  <1>7. Ending
    BY <1>3, NodePoolAssumption DEF Ending, DroppedOnlyOnStop, DoneMeansOver, ReturnedAfterWait, LateIsCommitted, Nodes
  <1> QED
    BY <1>4, <1>5, <1>6, <1>7 DEF IInv

(* One step of one goroutine preserves the invariant. *)
LEMMA GoroutineIInv ==
  ASSUME IInv, NEW g \in Goroutines, GoroutineStep(g)
  PROVE  IInv'
  <1>1. Goroutines' = Goroutines /\ limit' = limit
    BY DEF GoroutineStep, Pull, QueueDrained, LoadStop, Call, Succeed, Fail,
       SendErr, StoreStop, Goroutines
  <1>2. TypeOK /\ Holding /\ Reporting /\ Ending
    BY DEF IInv
  \* the node dequeued was held by nobody, being still in the queue
  <1>3. CASE Pull(g)
    <2>1. TypeOK'
      BY <1>1, <1>2, <1>3, NodePoolAssumption DEF TypeOK, Pull, Nodes, Holding, NodeHeld, Busy
    <2>2. Holding'
      BY <1>1, <1>2, <1>3, NodePoolAssumption
         DEF TypeOK, Pull, Nodes, Busy, Holding, ExclusiveNodes, NodeHeld, RunningHeld, FailedHeld, QueuedUntouched
    <2>3. Reporting'
      BY <1>1, <1>2, <1>3, NodePoolAssumption
         DEF TypeOK, Pull, Nodes, Busy, Failed, Holding, ExclusiveNodes, NodeHeld,
             Reporting, ErrorsSent, StopMeansFailed
    <2>4. Ending'
      BY <1>1, <1>2, <1>3, NodePoolAssumption
         DEF TypeOK, Pull, Nodes, Busy, Failed, Holding, ExclusiveNodes, NodeHeld,
             Ending, DroppedOnlyOnStop, DoneMeansOver, ReturnedAfterWait, LateIsCommitted
    <2> QED
      BY <2>1, <2>2, <2>3, <2>4 DEF IInv
  \* the goroutine held no node
  <1>4. CASE QueueDrained(g)
    <2>1. TypeOK'
      BY <1>1, <1>2, <1>4, NodePoolAssumption DEF TypeOK, QueueDrained, Nodes, Holding, NodeHeld, Busy
    <2>2. Holding'
      BY <1>1, <1>2, <1>4, NodePoolAssumption
         DEF TypeOK, QueueDrained, Nodes, Busy, Holding, ExclusiveNodes, NodeHeld, RunningHeld, FailedHeld, QueuedUntouched
    <2>3. Reporting'
      BY <1>1, <1>2, <1>4, NodePoolAssumption
         DEF TypeOK, QueueDrained, Nodes, Busy, Failed, Holding, ExclusiveNodes, NodeHeld,
             Reporting, ErrorsSent, StopMeansFailed
    <2>4. Ending'
      BY <1>1, <1>2, <1>4, NodePoolAssumption
         DEF TypeOK, QueueDrained, Nodes, Busy, Failed, Holding, ExclusiveNodes, NodeHeld,
             Ending, DroppedOnlyOnStop, DoneMeansOver, ReturnedAfterWait, LateIsCommitted
    <2> QED
      BY <2>1, <2>2, <2>3, <2>4 DEF IInv
  \* a node is dropped only when the flag is set
  <1>5. CASE LoadStop(g)
    <2>1. TypeOK'
      BY <1>1, <1>2, <1>5, NodePoolAssumption DEF TypeOK, LoadStop, Nodes, Holding, NodeHeld, Busy
    <2>2. Holding'
      BY <1>1, <1>2, <1>5, NodePoolAssumption
         DEF TypeOK, LoadStop, Nodes, Busy, Holding, ExclusiveNodes, NodeHeld, RunningHeld, FailedHeld, QueuedUntouched
    <2>3. Reporting'
      BY <1>1, <1>2, <1>5, NodePoolAssumption
         DEF TypeOK, LoadStop, Nodes, Busy, Failed, Holding, ExclusiveNodes, NodeHeld,
             Reporting, ErrorsSent, StopMeansFailed
    <2>4. Ending'
      BY <1>1, <1>2, <1>5, NodePoolAssumption
         DEF TypeOK, LoadStop, Nodes, Busy, Failed, Holding, ExclusiveNodes, NodeHeld,
             Ending, DroppedOnlyOnStop, DoneMeansOver, ReturnedAfterWait, LateIsCommitted
    <2> QED
      BY <2>1, <2>2, <2>3, <2>4 DEF IInv
  \* the flag may be set by now, but then the goroutine starts no other
  <1>6. CASE Call(g)
    <2>1. TypeOK'
      BY <1>1, <1>2, <1>6, NodePoolAssumption DEF TypeOK, Call, Nodes, Holding, NodeHeld, Busy
    <2>2. Holding'
      BY <1>1, <1>2, <1>6, NodePoolAssumption
         DEF TypeOK, Call, Nodes, Busy, Holding, ExclusiveNodes, NodeHeld, RunningHeld, FailedHeld, QueuedUntouched
    <2>3. Reporting'
      BY <1>1, <1>2, <1>6, NodePoolAssumption
         DEF TypeOK, Call, Nodes, Busy, Failed, Holding, ExclusiveNodes, NodeHeld,
             Reporting, ErrorsSent, StopMeansFailed
    <2>4. Ending'
      BY <1>1, <1>2, <1>6, NodePoolAssumption
         DEF TypeOK, Call, Nodes, Busy, Failed, Holding, ExclusiveNodes, NodeHeld,
             Ending, DroppedOnlyOnStop, DoneMeansOver, ReturnedAfterWait, LateIsCommitted
    <2> QED
      BY <2>1, <2>2, <2>3, <2>4 DEF IInv
  \* the verdict of an operation that was running
  <1>7. CASE Succeed(g)
    <2>1. TypeOK'
      BY <1>1, <1>2, <1>7, NodePoolAssumption DEF TypeOK, Succeed, Nodes, Holding, NodeHeld, Busy
    <2>2. Holding'
      BY <1>1, <1>2, <1>7, NodePoolAssumption
         DEF TypeOK, Succeed, Nodes, Busy, Holding, ExclusiveNodes, NodeHeld, RunningHeld, FailedHeld, QueuedUntouched
    <2>3. Reporting'
      BY <1>1, <1>2, <1>7, NodePoolAssumption
         DEF TypeOK, Succeed, Nodes, Busy, Failed, Holding, ExclusiveNodes, NodeHeld,
             Reporting, ErrorsSent, StopMeansFailed
    <2>4. Ending'
      BY <1>1, <1>2, <1>7, NodePoolAssumption
         DEF TypeOK, Succeed, Nodes, Busy, Failed, Holding, ExclusiveNodes, NodeHeld,
             Ending, DroppedOnlyOnStop, DoneMeansOver, ReturnedAfterWait, LateIsCommitted
    <2> QED
      BY <2>1, <2>2, <2>3, <2>4 DEF IInv
  \* the error is not sent yet
  <1>8. CASE Fail(g)
    <2>1. TypeOK'
      BY <1>1, <1>2, <1>8, NodePoolAssumption DEF TypeOK, Fail, Nodes, Holding, NodeHeld, Busy
    <2>2. Holding'
      BY <1>1, <1>2, <1>8, NodePoolAssumption
         DEF TypeOK, Fail, Nodes, Busy, Holding, ExclusiveNodes, NodeHeld, RunningHeld, FailedHeld, QueuedUntouched
    <2>3. Reporting'
      BY <1>1, <1>2, <1>8, NodePoolAssumption
         DEF TypeOK, Fail, Nodes, Busy, Failed, Holding, ExclusiveNodes, NodeHeld,
             Reporting, ErrorsSent, StopMeansFailed
    <2>4. Ending'
      BY <1>1, <1>2, <1>8, NodePoolAssumption
         DEF TypeOK, Fail, Nodes, Busy, Failed, Holding, ExclusiveNodes, NodeHeld,
             Ending, DroppedOnlyOnStop, DoneMeansOver, ReturnedAfterWait, LateIsCommitted
    <2> QED
      BY <2>1, <2>2, <2>3, <2>4 DEF IInv
  \* the error of a failed operation is in the channel
  <1>9. CASE SendErr(g)
    <2>1. TypeOK'
      BY <1>1, <1>2, <1>9, NodePoolAssumption DEF TypeOK, SendErr, Nodes, Holding, NodeHeld, Busy
    <2>2. Holding'
      BY <1>1, <1>2, <1>9, NodePoolAssumption
         DEF TypeOK, SendErr, Nodes, Busy, Holding, ExclusiveNodes, NodeHeld, RunningHeld, FailedHeld, QueuedUntouched
    <2>3. Reporting'
      BY <1>1, <1>2, <1>9, NodePoolAssumption
         DEF TypeOK, SendErr, Nodes, Busy, Failed, Holding, ExclusiveNodes, NodeHeld,
             Reporting, ErrorsSent, StopMeansFailed
    <2>4. Ending'
      BY <1>1, <1>2, <1>9, NodePoolAssumption
         DEF TypeOK, SendErr, Nodes, Busy, Failed, Holding, ExclusiveNodes, NodeHeld,
             Ending, DroppedOnlyOnStop, DoneMeansOver, ReturnedAfterWait, LateIsCommitted
    <2> QED
      BY <2>1, <2>2, <2>3, <2>4 DEF IInv
  \* some operation has failed
  <1>10. CASE StoreStop(g)
    <2>1. TypeOK'
      BY <1>1, <1>2, <1>10, NodePoolAssumption DEF TypeOK, StoreStop, Nodes, Holding, NodeHeld, Busy
    <2>2. Holding'
      BY <1>1, <1>2, <1>10, NodePoolAssumption
         DEF TypeOK, StoreStop, Nodes, Busy, Holding, ExclusiveNodes, NodeHeld, RunningHeld, FailedHeld, QueuedUntouched
    <2>3. Reporting'
      BY <1>1, <1>2, <1>10, NodePoolAssumption
         DEF TypeOK, StoreStop, Nodes, Busy, Failed, Holding, ExclusiveNodes, NodeHeld,
             Reporting, ErrorsSent, StopMeansFailed
    <2>4. Ending'
      BY <1>1, <1>2, <1>10, NodePoolAssumption
         DEF TypeOK, StoreStop, Nodes, Busy, Failed, Holding, ExclusiveNodes, NodeHeld,
             Ending, DroppedOnlyOnStop, DoneMeansOver, ReturnedAfterWait, LateIsCommitted
    <2> QED
      BY <2>1, <2>2, <2>3, <2>4 DEF IInv
  <1> QED
    BY <1>3, <1>4, <1>5, <1>6, <1>7, <1>8, <1>9, <1>10 DEF GoroutineStep

(* Returning preserves the invariant. *)
LEMMA ReturnIInv == IInv /\ Return => IInv'
  <1> SUFFICES ASSUME IInv, Return PROVE IInv'
    OBVIOUS
  <1>1. Goroutines' = Goroutines
    BY DEF Return, Goroutines
  <1> QED
    BY <1>1 DEF Return, IInv, TypeOK, Holding, ExclusiveNodes, NodeHeld, RunningHeld, FailedHeld, QueuedUntouched,
       Reporting, ErrorsSent, StopMeansFailed, Ending, DroppedOnlyOnStop, DoneMeansOver, ReturnedAfterWait, LateIsCommitted,
       Nodes, Busy, Failed

(* The inductive invariant holds of every reachable state. *)
THEOREM InductiveInvariant == Spec => []IInv
  <1>1. Init => IInv
    BY InitIInv
  <1>2. IInv /\ [Next]_vars => IInv'
    <2> SUFFICES ASSUME IInv, [Next]_vars PROVE IInv'
      OBVIOUS
    <2>1. CASE \E g \in Goroutines : GoroutineStep(g)
      BY <2>1, GoroutineIInv
    <2>2. CASE Return
      BY <2>2, ReturnIInv
    <2>3. CASE UNCHANGED vars
      <3>1. Goroutines' = Goroutines
        BY <2>3 DEF vars, Goroutines
      <3> QED
        BY <2>3, <3>1 DEF vars, IInv, TypeOK, Holding, ExclusiveNodes, NodeHeld, RunningHeld, FailedHeld, QueuedUntouched,
           Reporting, ErrorsSent, StopMeansFailed, Ending, DroppedOnlyOnStop, DoneMeansOver, ReturnedAfterWait, LateIsCommitted,
           Nodes, Busy, Failed
    <2> QED
      BY <2>1, <2>2, <2>3 DEF Next
  <1> QED
    BY <1>1, <1>2, PTL DEF Spec

-----------------------------------------------------------------------------

(* Every variable keeps its type, for any number of nodes. *)
THEOREM TypeCorrect == Spec => []TypeOK
  <1>1. IInv => TypeOK
    BY DEF IInv
  <1> QED
    BY <1>1, InductiveInvariant, PTL

(* No two goroutines ever work on the same node. *)
THEOREM Exclusion == Spec => []ExclusiveNodes
  <1>1. IInv => ExclusiveNodes
    BY DEF IInv, Holding
  <1> QED
    BY <1>1, InductiveInvariant, PTL

(* The returned errors are exactly the failed nodes, and a nil result      *)
(* means that every node was processed.                                    *)
THEOREM Completeness == Spec => []ResultComplete
  <1>1. IInv => ResultComplete
    <2> DEFINE Ok == \A i \in Nodes : op[i] = "ok"
    <2> SUFFICES ASSUME IInv, returned
                 PROVE  result = Failed /\ (result = {} => Ok)
      BY DEF ResultComplete
    <2>1. TypeOK /\ result = errs /\ \A g \in Goroutines : pc[g] = "done"
      BY DEF IInv, Ending, ReturnedAfterWait
    <2>2. errs = Failed
      BY <2>1 DEF IInv, Reporting, ErrorsSent, Failed, TypeOK
    <2>3. ASSUME Failed = {}, NEW i \in Nodes PROVE op[i] = "ok"
      <3>1. PoolSize(limit, N) >= 1 /\ PoolSize(limit, N) \in Nat
        <4>1. N \in Nat /\ N > 0
          BY <2>3, NodePoolAssumption DEF Nodes
        <4>2. limit \in Nat \ {0}
          BY <2>1 DEF TypeOK
        <4> QED
          BY <4>1, <4>2, PoolSizeBounds
      <3>2. 1 \in Goroutines
        BY <3>1 DEF Goroutines
      <3>3. ~stop /\ next > N
        BY <2>1, <2>3, <3>2 DEF IInv, Reporting, StopMeansFailed, Ending, DoneMeansOver
      <3>4. i < next
        BY <2>1, <3>3, NodePoolAssumption DEF TypeOK, Nodes
      <3>5. op[i] # "waiting"
        BY <2>1, <3>3, <3>4 DEF IInv, Ending, DroppedOnlyOnStop
      <3>6. op[i] # "running"
        BY <2>1 DEF IInv, Holding, RunningHeld
      <3> QED
        BY <2>1, <2>3, <3>5, <3>6 DEF TypeOK, Failed
    <2> QED
      BY <2>1, <2>2, <2>3
  <1> QED
    BY <1>1, InductiveInvariant, PTL

(* Once it has returned, no operation is running.                          *)
THEOREM Quiescence == Spec => []NothingInFlightAfterReturn
  <1>1. IInv => NothingInFlightAfterReturn
    BY DEF IInv, Holding, RunningHeld, Ending, ReturnedAfterWait,
       NothingInFlightAfterReturn
  <1> QED
    BY <1>1, InductiveInvariant, PTL

(* After a failure a goroutine starts at most one more operation.          *)
THEOREM LateStarts == Spec => AtMostOneLateStart
  <1>1. IInv /\ [Next]_vars =>
          [\A g \in Goroutines :
             (stop /\ pc[g] = "call" /\ pc'[g] = "run") => g \notin late]_vars
    BY DEF IInv, Ending, LateIsCommitted
  <1> QED
    BY <1>1, InductiveInvariant, PTL DEF Spec, AtMostOneLateStart

(* Each operation that runs or failed is held by a goroutine of its own,   *)
(* so there are no more of them than goroutines that have begun one and    *)
(* not come back to the queue.                                             *)
LEMMA HeldCount ==
  ASSUME IInv, NEW S \in SUBSET Goroutines, IsFiniteSet(S),
         \A g \in Goroutines : pc[g] \in {"run", "send", "store", "done"} => g \in S
  PROVE  /\ Cardinality({i \in Nodes : op[i] \in {"running", "failed"}}) \in Nat
         /\ Cardinality({i \in Nodes : op[i] \in {"running", "failed"}}) <= Cardinality(S)
  <1> DEFINE Held == {i \in Nodes : op[i] \in {"running", "failed"}}
             Holds(g, i) == pc[g] \in {"run", "send", "store", "done"} /\ cur[g] = i
             holder == [i \in Held |-> CHOOSE g \in Goroutines : Holds(g, i)]
  <1>1. \A i \in Held : holder[i] \in S /\ cur[holder[i]] = i
    <2>1. \A i \in Held : \E g \in Goroutines : Holds(g, i)
      BY DEF IInv, Holding, RunningHeld, FailedHeld
    <2>2. \A i \in Held : holder[i] \in Goroutines /\ Holds(holder[i], i)
      BY <2>1
    <2> QED
      BY <2>2
  <1>2. holder \in Injection(Held, S)
    <2>1. holder \in [Held -> S]
      BY <1>1
    <2>2. \A i, j \in Held : holder[i] = holder[j] => i = j
      BY <1>1
    <2> HIDE DEF holder
    <2> QED
      BY <2>1, <2>2 DEF Injection, IsInjective
  <1>3. IsFiniteSet(Held) /\ Cardinality(Held) <= Cardinality(S)
    <2> HIDE DEF holder, Held
    <2> QED
      BY <1>2, FS_Injection
  <1> QED
    BY <1>3, FS_CardinalityType

(* The goroutines are finitely many, and no more than the limit.           *)
LEMMA GoroutineCount ==
  ASSUME IInv
  PROVE  /\ IsFiniteSet(Goroutines) /\ limit \in Nat
         /\ Cardinality(Goroutines) \in Nat
         /\ Cardinality(Goroutines) <= limit
  <1> DEFINE size == PoolSize(limit, N)
  <1>1. size \in Nat /\ size <= limit /\ limit \in Nat
    BY PoolSizeBounds, NodePoolAssumption DEF IInv, TypeOK
  <1>2. IsFiniteSet(Goroutines) /\ Cardinality(Goroutines) = size
    <2> HIDE DEF size
    <2>1. IsFiniteSet(1 .. size) /\ Cardinality(1 .. size) = size
      BY <1>1, FS_Interval
    <2> QED
      BY <2>1 DEF Goroutines, size
  <1> QED
    BY <1>1, <1>2

(* At most limit operations are in flight or have failed: each is held by  *)
(* a goroutine of its own, and there are no more goroutines than that.     *)
THEOREM Limit == Spec => []LimitRespected
  <1>1. IInv => LimitRespected
    <2> SUFFICES ASSUME IInv PROVE LimitRespected
      OBVIOUS
    <2>1. Goroutines \in SUBSET Goroutines
      OBVIOUS
    <2> QED
      BY <2>1, GoroutineCount, HeldCount DEF LimitRespected
  <1> QED
    BY <1>1, InductiveInvariant, PTL

-----------------------------------------------------------------------------

(* A goroutine that calls fn takes the step the rollout allows: the node   *)
(* waits, the pool has not returned, and there is room under the limit     *)
(* because this goroutine holds no operation that runs or failed.          *)
LEMMA CallStarts ==
  ASSUME IInv, NEW g \in Goroutines, Call(g)
  PROVE  Promise!Start(cur[g]) /\ cur[g] \in Nodes
  <1>1. pc[g] = "call" /\ g \in Busy
    BY DEF Call, Busy
  <1>2. cur[g] \in Nodes /\ op[cur[g]] = "waiting"
    BY <1>1 DEF IInv, Holding, NodeHeld
  <1>3. ~returned
    BY <1>1 DEF IInv, Ending, ReturnedAfterWait
  <1>4. Promise!Cardinality(Promise!In("running") \cup Promise!In("failed")) < limit
    <2> DEFINE S == Goroutines \ {g}
               Held == {i \in Nodes : op[i] \in {"running", "failed"}}
    <2>1. IsFiniteSet(S) /\ Cardinality(S) = Cardinality(Goroutines) - 1
      BY GoroutineCount, FS_RemoveElement
    <2>2. Cardinality(Held) < limit
      <3>1. /\ S \in SUBSET Goroutines
            /\ \A h \in Goroutines : pc[h] \in {"run", "send", "store", "done"} => h \in S
        BY <1>1
      <3>2. Cardinality(Held) \in Nat /\ Cardinality(Held) <= Cardinality(S)
        <4> HIDE DEF S
        <4> QED
          BY <2>1, <3>1, HeldCount
      <3> HIDE DEF S, Held
      <3> QED
        BY <2>1, <3>2, GoroutineCount
    <2>3. Promise!In("running") \cup Promise!In("failed") = Held
      BY DEF Promise!In, Promise!Nodes, Nodes
    <2>4. Promise!Cardinality(Held) = Cardinality(Held)
      BY DEF Promise!Cardinality, Cardinality, Promise!IsFiniteSet, IsFiniteSet
    <2> HIDE DEF Held
    <2> QED
      BY <2>2, <2>3, <2>4
  <1> QED
    BY <1>1, <1>2, <1>3, <1>4 DEF Call, Promise!Start

(* Every other step of a goroutine is the end of an operation, or nothing  *)
(* the callers can see.                                                    *)
LEMMA GoroutineImplements ==
  ASSUME IInv, NEW g \in Goroutines, GoroutineStep(g)
  PROVE  [Promise!Next]_(Promise!vars)
  <1>1. CASE Pull(g) \/ QueueDrained(g) \/ LoadStop(g) \/ SendErr(g) \/ StoreStop(g)
    BY <1>1 DEF Pull, QueueDrained, LoadStop, SendErr, StoreStop, Promise!vars
  <1>2. CASE Call(g)
    BY <1>2, CallStarts DEF Promise!Next, Promise!Nodes, Nodes
  <1>3. CASE Succeed(g) \/ Fail(g)
    <2>1. pc[g] = "run" /\ g \in Busy
      BY <1>3 DEF Succeed, Fail, Busy
    <2>2. cur[g] \in Promise!Nodes /\ op[cur[g]] = "running"
      BY <2>1 DEF IInv, Holding, NodeHeld, Promise!Nodes, Nodes
    <2>3. Promise!Finish(cur[g])
      BY <1>3, <2>2 DEF Succeed, Fail, Promise!Finish
    <2> QED
      BY <2>2, <2>3 DEF Promise!Next
  <1> QED
    BY <1>1, <1>2, <1>3 DEF GoroutineStep

(* RunConcurrent returns where the rollout may: nothing is in flight, and  *)
(* what was left out was left out because of a failure.                    *)
LEMMA ReturnImplements ==
  ASSUME IInv, IInv', ResultComplete', Return
  PROVE  Promise!Return
  <1>1. ~returned /\ returned' /\ op' = op /\ limit' = limit /\ result' = errs
    BY DEF Return
  <1>2. result' = Promise!In("failed")
    BY <1>1 DEF ResultComplete, Failed, Promise!In, Promise!Nodes, Nodes
  <1>3. Promise!In("running") = {}
    BY DEF IInv, Holding, RunningHeld, Return, Promise!In, Promise!Nodes, Nodes
  <1>4. Promise!In("waiting") # {} => Promise!In("failed") # {}
    BY <1>1, <1>2 DEF ResultComplete, Promise!In, Promise!Nodes, Nodes
  <1> QED
    BY <1>1, <1>2, <1>3, <1>4 DEF Promise!Return

(* The pool implements the rollout its callers rely on: it starts where    *)
(* the rollout does, and each of its steps is one of the rollout's or      *)
(* changes nothing that the callers see.                                   *)
THEOREM Refinement == Spec => Promise!Spec
  <1>1. Init /\ IInv => Promise!Init
    BY DEF Init, IInv, TypeOK, Promise!Init, Promise!Nodes, Nodes
  <1>2. IInv /\ IInv' /\ ResultComplete' /\ [Next]_vars => [Promise!Next]_(Promise!vars)
    <2> SUFFICES ASSUME IInv, IInv', ResultComplete', [Next]_vars
                 PROVE  [Promise!Next]_(Promise!vars)
      OBVIOUS
    <2>1. CASE \E g \in Goroutines : GoroutineStep(g)
      BY <2>1, GoroutineImplements
    <2>2. CASE Return
      BY <2>2, ReturnImplements DEF Promise!Next
    <2>3. CASE UNCHANGED vars
      BY <2>3 DEF vars, Promise!vars
    <2> QED
      BY <2>1, <2>2, <2>3 DEF Next
  <1> QED
    BY <1>1, <1>2, InductiveInvariant, Completeness, PTL DEF Spec, Promise!Spec
=============================================================================
