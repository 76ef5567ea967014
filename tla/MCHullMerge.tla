---------------------------- MODULE MCHullMerge ----------------------------
(* Model checking of the merge of hulls in one filter node.                 *)
EXTENDS HullMerge

\* Five hulls along the line.  "a" and "c" are near each other through the dense
\* ends that face a gap in which the sparse segment "b" lies; "d" intersects "c";
\* "e" is near nothing.
MCShape ==
  [a |-> [lo |->  0, hi |->  4, nlo |-> 1, nhi |-> 7, density |-> 5, thick |-> TRUE],
   b |-> [lo |->  6, hi |->  7, nlo |-> 2, nhi |-> 1, density |-> 3, thick |-> FALSE],
   c |-> [lo |->  9, hi |-> 14, nlo |-> 5, nhi |-> 1, density |-> 4, thick |-> TRUE],
   d |-> [lo |-> 13, hi |-> 16, nlo |-> 1, nhi |-> 1, density |-> 3, thick |-> TRUE],
   e |-> [lo |-> 30, hi |-> 32, nlo |-> 5, nhi |-> 5, density |-> 7, thick |-> TRUE]]
MCHullId == DOMAIN MCShape
=============================================================================
