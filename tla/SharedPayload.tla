--------------------------- MODULE SharedPayload ---------------------------
(***************************************************************************)
(* What Value promises about the payloads it shares, without counters,     *)
(* kinds, canaries or call stack: a payload belongs to a set of Values,    *)
(* each Value has at most one, a payload without owner is finalised and    *)
(* given back, and only then may its block serve again.                    *)
(***************************************************************************)
CONSTANTS Handle, Cell

VARIABLES
  owners,   \* per cell the Values that share it
  phase     \* per cell "none", "held" or "dying"

vars == <<owners, phase>>

Init ==
  /\ owners = [c \in Cell |-> {}]
  /\ phase = [c \in Cell |-> "none"]

Free(h) == \A c \in Cell : h \notin owners[c]

Acquire(c, h) ==
  /\ phase[c] = "none" /\ Free(h)
  /\ phase' = [phase EXCEPT ![c] = "held"]
  /\ owners' = [owners EXCEPT ![c] = {h}]

Share(c, h) ==
  /\ phase[c] = "held" /\ Free(h)
  /\ owners' = [owners EXCEPT ![c] = @ \cup {h}]
  /\ UNCHANGED phase

Hand(c, g, h) ==
  /\ g \in owners[c] /\ Free(h)
  /\ owners' = [owners EXCEPT ![c] = (@ \ {g}) \cup {h}]
  /\ UNCHANGED phase

Leave(c, h) ==
  /\ h \in owners[c]
  /\ owners' = [owners EXCEPT ![c] = @ \ {h}]
  /\ phase' = [phase EXCEPT ![c] = IF owners[c] = {h} THEN "dying" ELSE @]

Reclaim(c) ==
  /\ phase[c] = "dying"
  /\ phase' = [phase EXCEPT ![c] = "none"]
  /\ UNCHANGED owners

Next ==
  \E c \in Cell :
    \/ Reclaim(c)
    \/ \E h \in Handle :
         \/ Acquire(c, h)
         \/ Share(c, h)
         \/ Leave(c, h)
         \/ \E g \in Handle : Hand(c, g, h)

Spec == Init /\ [][Next]_vars

FairSpec == Spec /\ \A c \in Cell : WF_vars(Reclaim(c))

(* A payload has an owner exactly while it is held, and no Value owns two. *)
Exclusive ==
  /\ \A c \in Cell : phase[c] = "held" <=> owners[c] # {}
  /\ \A c, d \in Cell : c # d => owners[c] \cap owners[d] = {}
=============================================================================
