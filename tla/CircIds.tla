------------------------------- MODULE CircIds -------------------------------
(***************************************************************************)
(* What circuit-id bookkeeping promises, without saying how: a slot        *)
(* (channel, circuit id) is free, or owned by one circuit, or draining     *)
(* because a DESTROY for it has been queued and not yet sent.  A circuit   *)
(* only ever gets a free slot; it keeps the slot until it gives it up; and *)
(* a draining slot becomes free before anyone can have it.  Hence the      *)
(* DESTROY of one circuit can never reach the peer after the CREATE of the *)
(* next circuit with the same id.                                          *)
(***************************************************************************)
CONSTANTS Slot, Circ, FREE, DRAINING

VARIABLES
  owner,   \* slot -> the circuit that owns it, FREE or DRAINING
  unsent   \* slots with a queued DESTROY

Init ==
  /\ owner = [l \in Slot |-> FREE]
  /\ unsent = {}

\* A circuit takes the slot.
Acquire(l) == owner[l] = FREE /\ owner'[l] \in Circ /\ l \notin unsent'

\* The slot is given up (or a CREATE for it refused) and a DESTROY is queued.
Drain(l) == owner[l] # DRAINING /\ owner'[l] = DRAINING /\ l \in unsent'

\* The slot is given up with nothing to send: the peer closed it, or the
\* channel is going away.
Drop(l) == owner[l] \in Circ /\ owner'[l] = FREE /\ l \notin unsent'

\* The DESTROY is sent, or lost with its channel.
Release(l) == owner[l] = DRAINING /\ owner'[l] = FREE /\ l \notin unsent'

Keep(l) == owner'[l] = owner[l] /\ (l \in unsent' <=> l \in unsent)

\* One step of the program may do this to many slots at once: a channel that
\* closes, or circuit_close_all_marked.
Next ==
  /\ DOMAIN owner' = Slot
  /\ unsent' \subseteq Slot
  /\ \A l \in Slot :
       Acquire(l) \/ Drain(l) \/ Drop(l) \/ Release(l) \/ Keep(l)

Spec == Init /\ [][Next]_<<owner, unsent>>

\* A slot drains exactly while its DESTROY is unsent.
DrainingIffUnsent == \A l \in Slot : owner[l] = DRAINING <=> l \in unsent

=============================================================================
