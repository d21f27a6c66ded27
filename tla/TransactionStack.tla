-------------------------- MODULE TransactionStack --------------------------
(***************************************************************************)
(* What the scopes promise about the input they delimit, without scope     *)
(* objects, parents, lists, levels of diagnostics or a pool that re-uses   *)
(* blocks.  Units of input are open inside each other, and only the        *)
(* innermost takes input.  It ends before those around it: discarded if    *)
(* there was nothing, kept, or undone, and what had errors is never kept.  *)
(* A topmost unit is forgotten with everything begun inside it.            *)
(***************************************************************************)
CONSTANTS Unit, Input

VARIABLES
  open,    \* the units that take input, or will when those inside have ended
  inside,  \* per unit those that were open when it began
  input,   \* per unit what it took
  kept,    \* the units whose input stays
  undone,  \* the units whose input was rolled back
  failed   \* the units open when errors were reported

vars == <<open, inside, input, kept, undone, failed>>

Init ==
  /\ open = {} /\ kept = {} /\ undone = {} /\ failed = {}
  /\ inside = [u \in Unit |-> {}]
  /\ input = [u \in Unit |-> {}]

Innermost(u) == u \in open /\ open \ {u} \subseteq inside[u]

\* u and the units begun inside it.
Whole(u) == {v \in Unit : v = u \/ u \in inside[v]}

Begin(u) ==
  /\ u \notin open \cup kept \cup undone
  /\ open' = open \cup {u}
  /\ inside' = [inside EXCEPT ![u] = open]
  /\ UNCHANGED <<input, kept, undone, failed>>

Take(u, i) ==
  /\ Innermost(u)
  /\ input' = [input EXCEPT ![u] = @ \cup {i}]
  /\ UNCHANGED <<open, inside, kept, undone, failed>>

Drop(u) ==
  /\ Innermost(u)
  /\ \E rest \in SUBSET input[u] : input' = [input EXCEPT ![u] = rest]
  /\ UNCHANGED <<open, inside, kept, undone, failed>>

Fail ==
  /\ failed' = failed \cup open
  /\ UNCHANGED <<open, inside, input, kept, undone>>

Keep(u) ==
  /\ Innermost(u) /\ u \notin failed
  /\ open' = open \ {u}
  /\ kept' = kept \cup {u}
  /\ UNCHANGED <<inside, input, undone, failed>>

Undo(u) ==
  /\ Innermost(u)
  /\ open' = open \ {u}
  /\ undone' = undone \cup {u}
  /\ UNCHANGED <<inside, input, kept, failed>>

Discard(u) ==
  /\ Innermost(u) /\ input[u] = {} /\ Whole(u) = {u}
  /\ open' = open \ {u}
  /\ inside' = [inside EXCEPT ![u] = {}]
  /\ failed' = failed \ {u}
  /\ UNCHANGED <<input, kept, undone>>

Forget(u) ==
  /\ u \in kept \cup undone /\ inside[u] = {}
  /\ Whole(u) \cap open = {}
  /\ kept' = kept \ Whole(u)
  /\ undone' = undone \ Whole(u)
  /\ failed' = failed \ Whole(u)
  /\ inside' = [v \in Unit |-> IF v \in Whole(u) THEN {} ELSE inside[v]]
  /\ input' = [v \in Unit |-> IF v \in Whole(u) THEN {} ELSE input[v]]
  /\ UNCHANGED open

Next ==
  \/ Fail
  \/ \E u \in Unit :
       \/ Begin(u)
       \/ \E i \in Input : Take(u, i)
       \/ Drop(u)
       \/ Keep(u)
       \/ Undo(u)
       \/ Discard(u)
       \/ Forget(u)

Spec == Init /\ [][Next]_vars

\* What follows for the input: a unit is open, kept, undone or unknown, and what
\* is kept had no errors; the units around another are in order, and known as
\* long as it is; the open ones lie inside each other, and around them is
\* nothing that has ended.
Disciplined ==
  /\ open \cap (kept \cup undone) = {} /\ kept \cap (undone \cup failed) = {}
  /\ \A u, v \in Unit : u \in inside[v] =>
       v \notin inside[u] /\ inside[u] \subseteq inside[v]
  /\ \A v \in Unit : inside[v] \subseteq open \cup kept \cup undone
  /\ \A u, v \in open : u = v \/ u \in inside[v] \/ v \in inside[u]
  /\ \A v \in open : inside[v] \subseteq open
=============================================================================
