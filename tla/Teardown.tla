------------------------------ MODULE Teardown ------------------------------
(***************************************************************************)
(* The control command TEARDOWNCIRCUIT that El Tor adds                    *)
(* (control_teardowncircuit.c), on top of the life of a circuit.  Unlike   *)
(* every other way to close a circuit it queues DESTROY cells while the    *)
(* circuit is still linked, before marking it; FORCE_IMMEDIATE then also   *)
(* rewrites fields of the marked circuit.                                  *)
(***************************************************************************)
EXTENDS CircuitLifecycle

CONSTANT MaxDestroys   \* bound on the DESTROY cells queued for one slot

ASSUME MaxDestroysAssumption == MaxDestroys \in Nat \ {0}

\* circuit_is_open_and_active: GUARD_WAIT is not on its list.
Active(c) ==
  /\ c \in Live /\ ~marked[c]
  /\ state[c] \in {"OPEN", "BUILDING", "ONIONSKIN_PENDING", "CHAN_WAIT"}

\* channel_send_destroy on the sides of the circuits of S, all still linked:
\* channel_note_destroy_pending only sets the circuit's flag.
SendDestroys(S) ==
  LET sent == Sendable(SlotsOf(S)) IN
  /\ \A l \in sent : destroy_queue[l] < MaxDestroys
  /\ destroy_queue' = DestroysQueued(SlotsOf(S))
  /\ n_delete_pending' = [c \in Circ |-> IF n[c] \in sent THEN TRUE
                                         ELSE n_delete_pending[c]]
  /\ p_delete_pending' = [c \in Circ |-> IF p[c] \in sent THEN TRUE
                                         ELSE p_delete_pending[c]]

\* pathbias_check_close may keep an origin circuit open for a probe: the
\* circuits of S for which circuit_mark_for_close may return without marking.
Probeable(S) ==
  {c \in S : /\ kind[c] = "origin" /\ state[c] = "OPEN"
             /\ n[c] # NULL /\ chan_state[n[c][1]] = "OPEN"}

\* Mutant of DestroyAndMark: the mark is set on circuits kept open for a probe.
DestroyAndMarkProbed(S) ==
  /\ SendDestroys(S)
  /\ marked' = [c \in Circ |-> marked[c] \/ c \in S]
  /\ \E probed \in SUBSET Probeable(S) :
       circuits_pending_close' = circuits_pending_close \cup (S \ probed)
  /\ UNCHANGED <<kind, state, n, p, n_hop, onion, total_pending_tasks,
                 chan_circid_map, cmux, chan_state, circuits_pending_chans,
                 circuits_pending_other_guards>>

\* Mutant of DestroyAndMark: the n side is unlinked from the map at once, and the
\* circuitmux is not told.
DestroyAndUnlink(S) ==
  LET legs == {l \in Slot : \E c \in S : n[c] = l} IN
  /\ SendDestroys(S)
  /\ MarkForClose(S)
  /\ chan_circid_map' = Unlinked(legs, DeletePending \cup Sendable(legs))
  /\ n' = [c \in Circ |-> IF c \in S THEN NULL ELSE n[c]]
  /\ UNCHANGED <<kind, state, p, n_hop, onion, total_pending_tasks, cmux,
                 chan_state, circuits_pending_chans,
                 circuits_pending_other_guards>>

\* DESTROY cells out, then circuit_mark_for_close, for the circuits of S.
DestroyAndMark(S) ==
  /\ SendDestroys(S)
  /\ \E probed \in SUBSET Probeable(S) : MarkForClose(S \ probed)
  /\ UNCHANGED <<kind, state, n, p, n_hop, onion, total_pending_tasks,
                 chan_circid_map, cmux, chan_state, circuits_pending_chans,
                 circuits_pending_other_guards>>

\* TEARDOWNCIRCUIT <id>
TeardownCircuit(c) == Active(c) /\ DestroyAndMark({c})

\* TEARDOWNCIRCUIT ALL: every circuit not yet marked, whatever its state.
TeardownAll ==
  LET S == {c \in Live : ~marked[c]} IN S # {} /\ DestroyAndMark(S)

\* TEARDOWNCIRCUIT <id> FORCE_IMMEDIATE: the above, and then
\* force_immediate_circuit_destruction sets marked_for_close, unlinks the n
\* side (the circuit being marked, it is not detached from the circuitmux),
\* and writes circ->state past circuit_set_state; its second
\* circuit_mark_for_close finds the circuit marked, after assert_circuit_ok, a
\* failure of which (SecondMarkPasses) ends the process and is left out here.
TeardownForce(c) ==
  LET sent == Sendable(SlotsOf({c})) IN
  /\ Active(c)
  /\ \A l \in sent : destroy_queue[l] < MaxDestroys
  /\ destroy_queue' = DestroysQueued(SlotsOf({c}))
  /\ chan_circid_map' = IF n[c] = NULL THEN chan_circid_map
                        ELSE Unlinked({n[c]}, DeletePending \cup sent)
  /\ n' = [n EXCEPT ![c] = NULL]
  /\ n_delete_pending' = [n_delete_pending EXCEPT ![c] = FALSE]
  /\ p_delete_pending' = [p_delete_pending EXCEPT ![c] = @ \/ p[c] \in sent]
  /\ state' = [state EXCEPT ![c] = "BUILDING"]
  /\ marked' = [marked EXCEPT ![c] = TRUE]
  /\ \E probed \in SUBSET Probeable({c}) :
       circuits_pending_close' = circuits_pending_close \cup ({c} \ probed)
  /\ UNCHANGED <<kind, p, n_hop, onion, total_pending_tasks, cmux, chan_state,
                 circuits_pending_chans, circuits_pending_other_guards>>

NormalNext == Next \/ TeardownAll \/ \E c \in Circ : TeardownCircuit(c)
TeardownSpec == Init /\ [][NormalNext]_vars

\* The fairness of the core is enough: no command has to be given.
FairTeardownSpec == TeardownSpec /\ Fairness

ForceNext == Next \/ \E c \in Circ : TeardownForce(c)
ForceSpec == Init /\ [][ForceNext]_vars

-----------------------------------------------------------------------------
\* channel_mark_circid_unusable: "We use this to keep the circuit id from
\* getting re-used while we have queued but not yet sent a destroy cell."
IdKeptWhileDestroyQueued == \A l \in Slot : destroy_queue[l] > 0 => InUse(l)

\* circuitmux_detach_all_circuits, called when a channel closes, asserts that
\* no entry of the circuitmux still has policy data: true only of the entries
\* whose circuit it finds in the map.
DetachAllFindsCircuits ==
  \A l \in Slot : Condemned(l[1]) /\ cmux[l] # NULL => chan_circid_map[l] \in Circ

\* "if (c->state == CIRCUIT_STATE_CHAN_WAIT && !c->marked_for_close)" the
\* circuit is on circuits_pending_chans, else it is not: assert_circuit_ok.
PendingChansAsserted(c) ==
  c \in circuits_pending_chans <=> state[c] = "CHAN_WAIT" /\ ~marked[c]

\* "Duplicate call to circuit_mark_for_close" is logged, and the caller goes on:
\* what the second call of FORCE_IMMEDIATE finds, which is what the command
\* leaves, passes the assert_circuit_ok that comes before that check.
SecondMarkPasses ==
  [][\A c \in Circ : TeardownForce(c) => PendingChansAsserted(c)']_vars

=============================================================================
