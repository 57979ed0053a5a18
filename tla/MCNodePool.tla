----------------------------- MODULE MCNodePool -----------------------------
EXTENDS NodePool

(* Counts on both sides of the number of nodes, and percentages that round *)
(* up, hit the total and hit one.                                          *)
MCMaxParallels ==
  [value : {1, 2, 3, 9}, percent : {FALSE}] \cup
  [value : {1, 34, 100}, percent : {TRUE}]
=============================================================================
