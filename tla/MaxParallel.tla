----------------------------- MODULE MaxParallel -----------------------------
(***************************************************************************)
(* The --max-parallel flag: which values are accepted and how many         *)
(* operations a value allows (src/internal/nodepool/nodepool.go).          *)
(***************************************************************************)
EXTENDS Integers

(* A flag that strconv.Atoi accepts, with or without the % suffix. *)
MaxParallelFlag == [value : Int, percent : BOOLEAN]

(* ParseMaxParallel: 1% to 100%, or any positive count. *)
ParseAccepts(b) == b.value > 0 /\ (b.percent => b.value <= 100)

Ceil100(k) == (k + 99) \div 100

AtLeastOne(n) == IF n < 1 THEN 1 ELSE n

AtMost(n, total) == IF n > total /\ total > 0 THEN total ELSE n

(* MaxParallel.Resolve: percentages round up, the result is at least 1 and *)
(* at most the total (when there is anything to process).                  *)
Resolve(b, total) ==
  AtMost(AtLeastOne(IF b.percent THEN Ceil100(total * b.value) ELSE b.value),
         total)

(* Mutant of PoolSize: the clamp to n is missing. *)
OneGoroutinePerNode(n, len) == len

(* The number of goroutines RunConcurrent(nodes, n) starts for len nodes;  *)
(* it returns at once when there are none.                                 *)
PoolSize(n, len) == IF len = 0 THEN 0 ELSE AtMost(AtLeastOne(n), len)
=============================================================================
