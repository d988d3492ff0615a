------------------------------- MODULE Orders -------------------------------
(***************************************************************************)
(* Python's min, max and sorted, for the choices of the planner.  An order *)
(* is a set of pairs, the first of which comes before the second; ties are *)
(* decided by the order, which is total.                                   *)
(***************************************************************************)
EXTENDS Integers, FiniteSets

\* min(S), or max(S) under the order of a key that falls.
First(S, before) == CHOOSE x \in S: \A y \in S \ {x}: <<x, y>> \in before

\* sorted(S): each element at the place after those before it.
InOrder(S, before) ==
    [k \in 1..Cardinality(S) |->
        CHOOSE x \in S: Cardinality({y \in S: <<y, x>> \in before}) = k - 1]

=============================================================================
