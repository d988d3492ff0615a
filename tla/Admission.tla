----------------------------- MODULE Admission -----------------------------
(***************************************************************************)
(* What the router's gate promises to the requests: never more than        *)
(* MaxConcurrency of them inside, never more than MaxQueueDepth in line,   *)
(* and nobody enters ahead of a request that was in line before it.  A     *)
(* request that is turned away never shows up here.                        *)
(***************************************************************************)
EXTENDS Integers, FiniteSets

CONSTANTS Requests, MaxConcurrency, MaxQueueDepth

VARIABLES
    inside,   \* the requests that hold a slot
    line,     \* the requests that wait
    ahead     \* <<q, r>>: both wait, and q was there first

vars == <<inside, line, ahead>>

Init == inside = {} /\ line = {} /\ ahead = {}

\* A request is let in at once only when nobody is in line.
Enter(r) ==
    /\ r \notin inside /\ line = {}
    /\ Cardinality(inside) < MaxConcurrency
    /\ inside' = inside \cup {r}
    /\ UNCHANGED <<line, ahead>>

Wait(r) ==
    /\ r \notin inside \cup line
    /\ Cardinality(line) < MaxQueueDepth
    /\ line' = line \cup {r}
    /\ ahead' = ahead \cup line \X {r}
    /\ UNCHANGED inside

\* the line without those who have left it, in the order they had
Stay(left) ==
    /\ line' = line \ left
    /\ ahead' = {p \in ahead : p[1] \notin left /\ p[2] \notin left}

\* At most one request leaves, and the first in line take free slots.
Move(leaving, entering) ==
    /\ leaving \subseteq inside /\ Cardinality(leaving) <= 1
    /\ entering \subseteq line /\ entering \X (line \ entering) \subseteq ahead
    /\ inside' = (inside \ leaving) \cup entering
    /\ Cardinality(inside') <= MaxConcurrency
    /\ Stay(entering)

\* A request gives up waiting.
Abandon(r) ==
    /\ r \in line
    /\ Stay({r})
    /\ UNCHANGED inside

Next ==
    \/ \E r \in Requests : Enter(r) \/ Wait(r) \/ Abandon(r)
    \/ \E leaving \in SUBSET inside, entering \in SUBSET line : Move(leaving, entering)

Spec == Init /\ [][Next]_vars

=============================================================================
