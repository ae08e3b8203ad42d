--------------------------- MODULE CircuitLifecycle ---------------------------
(***************************************************************************)
(* The life of a circuit inside one El Tor process: how circuit objects    *)
(* (circuitlist.c), the (channel, circuit id) map, the circuitmux of each  *)
(* channel with its queue of DESTROY cells (circuitmux.c), the channel     *)
(* life cycle (channel.c), the CREATE/DESTROY/EXTEND/TRUNCATE handlers     *)
(* (command.c, relay.c, circuitbuild.c, circuitbuild_relay.c) and the      *)
(* onionskin work handed to cpuworker threads (onion_queue.c, cpuworker.c) *)
(* refer to one another.  All handlers run on the main thread, one at a    *)
(* time, so each is one step; the only other thread is the cpuworker,      *)
(* whose reply is a step of its own.                                       *)
(*                                                                         *)
(* A "slot" <<ch, id>> is a circuit id on a channel.  Cell contents, crypt *)
(* state, streams and timers are abstracted away.                          *)
(***************************************************************************)
EXTENDS Integers, FiniteSets

CONSTANTS
  Circ,            \* circuit objects (or_circuit_t and origin_circuit_t)
  Chan,            \* neighbouring relays, each with at most one channel_t
  PeerId,          \* circuit ids in the half chosen by the other end
  OwnId,           \* circuit ids in the half chosen by this end
  NULL,            \* a NULL pointer, or no entry
  RESERVED,        \* map entry without a circuit: a placeholder
  MaxPendingTasks  \* max_pending_tasks: handshakes handed to the thread pool

Id == PeerId \cup OwnId
Slot == Chan \X Id

ASSUME ConstantsAssumption ==
  /\ NULL \notin Circ \cup Chan \cup Slot
  /\ RESERVED \notin Circ
  /\ RESERVED # NULL
  /\ PeerId \cap OwnId = {}
  /\ MaxPendingTasks \in Nat \ {0}
  /\ IsFiniteSet(Circ)

VARIABLES
  kind,                \* "free" | "or" | "origin" | "dead" (DEAD_CIRCUIT_MAGIC)
  state,               \* circ->state
  marked,              \* circ->marked_for_close
  n,                   \* <<n_chan, n_circ_id>> or NULL
  p,                   \* <<p_chan, p_circ_id>> or NULL
  n_delete_pending,    \* DESTROY queued towards n while still linked
  p_delete_pending,    \* DESTROY queued towards p while still linked
  n_hop,               \* relay whose channel the circuit waits for, or NULL
  onion,               \* "none" | "queued" (onionqueue_entry) | "job" (workqueue_entry)
  total_pending_tasks, \* handshakes handed to the thread pool
  chan_circid_map,     \* slot -> circuit, RESERVED or NULL
  cmux,                \* slot -> circuit attached to the channel's circuitmux
  destroy_queue,       \* slot -> number of queued DESTROY cells
  chan_state,          \* channel state
  circuits_pending_close,
  circuits_pending_chans,
  circuits_pending_other_guards

circVars  == <<kind, state, marked, n, p, n_delete_pending, p_delete_pending,
               n_hop, onion, total_pending_tasks>>
linkVars  == <<chan_circid_map, cmux, destroy_queue>>
listVars  == <<circuits_pending_close, circuits_pending_chans,
               circuits_pending_other_guards>>
vars      == <<circVars, linkVars, chan_state, listVars>>

CircState == {"BUILDING", "ONIONSKIN_PENDING", "CHAN_WAIT", "GUARD_WAIT", "OPEN"}

\* UNUSED: no channel_t.  FAILING: CHANNEL_STATE_CLOSING of a channel that was
\* never open.  CLOSED stands for CLOSED and ERROR.
ChanState == {"UNUSED", "OPENING", "OPEN", "CLOSING", "FAILING", "CLOSED"}

TypeOK ==
  /\ kind \in [Circ -> {"free", "or", "origin", "dead"}]
  /\ state \in [Circ -> CircState]
  /\ marked \in [Circ -> BOOLEAN]
  /\ n \in [Circ -> Slot \cup {NULL}]
  /\ p \in [Circ -> Slot \cup {NULL}]
  /\ n_delete_pending \in [Circ -> BOOLEAN]
  /\ p_delete_pending \in [Circ -> BOOLEAN]
  /\ n_hop \in [Circ -> Chan \cup {NULL}]
  /\ onion \in [Circ -> {"none", "queued", "job"}]
  /\ total_pending_tasks \in Int
  /\ chan_circid_map \in [Slot -> Circ \cup {RESERVED, NULL}]
  /\ cmux \in [Slot -> Circ \cup {NULL}]
  /\ destroy_queue \in [Slot -> Nat]
  /\ chan_state \in [Chan -> ChanState]
  /\ circuits_pending_close \in SUBSET Circ
  /\ circuits_pending_chans \in SUBSET Circ
  /\ circuits_pending_other_guards \in SUBSET Circ

Init ==
  /\ kind = [c \in Circ |-> "free"]
  /\ state = [c \in Circ |-> "BUILDING"]
  /\ marked = [c \in Circ |-> FALSE]
  /\ n = [c \in Circ |-> NULL]
  /\ p = [c \in Circ |-> NULL]
  /\ n_delete_pending = [c \in Circ |-> FALSE]
  /\ p_delete_pending = [c \in Circ |-> FALSE]
  /\ n_hop = [c \in Circ |-> NULL]
  /\ onion = [c \in Circ |-> "none"]
  /\ total_pending_tasks = 0
  /\ chan_circid_map = [l \in Slot |-> NULL]
  /\ cmux = [l \in Slot |-> NULL]
  /\ destroy_queue = [l \in Slot |-> 0]
  /\ chan_state = [ch \in Chan |-> "UNUSED"]
  /\ circuits_pending_close = {}
  /\ circuits_pending_chans = {}
  /\ circuits_pending_other_guards = {}

-----------------------------------------------------------------------------
(* What the shared helpers of circuitlist.c, circuitmux.c and channel.c do. *)

Live == {c \in Circ : kind[c] \in {"or", "origin"}}

\* CHANNEL_CONDEMNED
Condemned(ch) == chan_state[ch] \in {"CLOSING", "FAILING", "CLOSED"}

\* The slots the circuits of S hold.
SlotsOf(S) == {l \in Slot : \E c \in S : n[c] = l \/ p[c] = l}

\* The slots whose circuit still has {n,p}_delete_pending set.
DeletePending ==
  {l \in Slot : \E c \in Circ : \/ n[c] = l /\ n_delete_pending[c]
                                \/ p[c] = l /\ p_delete_pending[c]}

\* circuit_id_in_use_on_channel: by a circuit, or by a placeholder.
InUse(l) == chan_circid_map[l] # NULL

\* Mutant of Unlinked: the map entry only goes when a DESTROY replaces it.
UnlinkedOnDestroy(S, D) ==
  [l \in Slot |-> IF l \in S \cap D THEN RESERVED ELSE chan_circid_map[l]]

\* circuit_set_{n,p}_circid_chan(circ, 0, NULL) on every slot of S: the map
\* entry goes, or turns into a placeholder when a DESTROY (D) is pending.
Unlinked(S, D) ==
  [l \in Slot |-> IF l \notin S THEN chan_circid_map[l]
                  ELSE IF l \in D THEN RESERVED ELSE NULL]

\* Mutant of Detached: the circuitmux is forgotten.
DetachedNever(S) == cmux

\* circuitmux_detach_circuit on every slot of S.
Detached(S) == [l \in Slot |-> IF l \in S THEN NULL ELSE cmux[l]]

\* channel_send_destroy on every slot of S: queued unless the channel is
\* condemned.
Sendable(S) == {l \in S : ~Condemned(l[1])}
DestroysQueued(S) ==
  [l \in Slot |-> IF l \in Sendable(S) THEN destroy_queue[l] + 1
                  ELSE destroy_queue[l]]

\* circuit_mark_for_close: remember the circuit for circuit_close_all_marked.
MarkForClose(S) ==
  /\ marked' = [c \in Circ |-> IF c \in S THEN TRUE ELSE marked[c]]
  /\ circuits_pending_close' = circuits_pending_close \cup S

\* Mutant of SetState: a circuit is added to the lists but never removed.
SetStateAddsOnly(c, st) ==
  /\ state' = [state EXCEPT ![c] = st]
  /\ circuits_pending_chans' =
       circuits_pending_chans \cup {d \in {c} : st = "CHAN_WAIT"}
  /\ circuits_pending_other_guards' =
       circuits_pending_other_guards \cup {d \in {c} : st = "GUARD_WAIT"}

\* circuit_set_state(c, st), with the two lists of waiting circuits.
SetState(c, st) ==
  /\ state' = [state EXCEPT ![c] = st]
  /\ circuits_pending_chans' =
       IF st = "CHAN_WAIT" THEN circuits_pending_chans \cup {c}
       ELSE circuits_pending_chans \ {d \in {c} : state[d] = "CHAN_WAIT"}
  /\ circuits_pending_other_guards' =
       IF st = "GUARD_WAIT" THEN circuits_pending_other_guards \cup {c}
       ELSE circuits_pending_other_guards \ {d \in {c} : state[d] = "GUARD_WAIT"}

\* circuit_set_n_circid_chan(c, id, ch) towards the free slot l: map and cmux.
LinkN(c, l) ==
  /\ n' = [n EXCEPT ![c] = l]
  /\ chan_circid_map' = [chan_circid_map EXCEPT ![l] = c]
  /\ cmux' = [cmux EXCEPT ![l] = c]

\* Mutant of Unique: placeholders do not count as use.
UniqueIgnoresReserved(l) == l[2] \in OwnId /\ chan_circid_map[l] \notin Circ

\* The outcomes of get_unique_circ_id_by_chan: an unused id of our half.
Unique(l) == l[2] \in OwnId /\ ~InUse(l)

-----------------------------------------------------------------------------
(* Channels *)

\* A connection to or from the relay starts its handshake.
ChannelLaunch(ch) ==
  /\ chan_state[ch] = "UNUSED"
  /\ chan_state' = [chan_state EXCEPT ![ch] = "OPENING"]
  /\ UNCHANGED <<circVars, linkVars, listVars>>

\* Mutant of Waiting: origin circuits are not looked for.
WaitingRelayOnly(ch) ==
  {c \in circuits_pending_chans :
     ~marked[c] /\ n_hop[c] = ch /\ n[c] = NULL /\ kind[c] = "or"}

\* circuit_get_all_pending_on_channel
Waiting(ch) ==
  {c \in circuits_pending_chans : ~marked[c] /\ n_hop[c] = ch /\ n[c] = NULL}

\* circuit_n_chan_done(chan, 1, close_origin): the circuits of "got" obtain the
\* circuit ids "id" and send their CREATE; the other waiting circuits find no
\* id, or are "closing" for close_origin, and are marked.
CircuitNChanDone(ch, closing, got, id) ==
  LET new(l)    == {c \in got : l = <<ch, id[c]>>}
      linked(f) == [l \in Slot |-> IF new(l) # {} THEN CHOOSE c \in new(l) : TRUE
                                   ELSE f[l]]
  IN
  /\ \A c, d \in got : id[c] = id[d] => c = d
  /\ \A c \in got : ~InUse(<<ch, id[c]>>)
  /\ n' = [c \in Circ |-> IF c \in got THEN <<ch, id[c]>> ELSE n[c]]
  /\ chan_circid_map' = linked(chan_circid_map)
  /\ cmux' = linked(cmux)
  /\ n_hop' = [c \in Circ |-> IF c \in Waiting(ch) \ closing THEN NULL
                              ELSE n_hop[c]]
  /\ state' = [c \in Circ |-> IF c \notin got THEN state[c]
                              ELSE IF kind[c] = "origin" THEN "BUILDING"
                              ELSE "OPEN"]
  /\ circuits_pending_chans' = circuits_pending_chans \ got
  /\ MarkForClose(Waiting(ch) \ got)

\* channel_change_state_open, and the circuits that wait for it.
ChannelOpen(ch) ==
  /\ chan_state[ch] = "OPENING"
  /\ chan_state' = [chan_state EXCEPT ![ch] = "OPEN"]
  /\ \E closing \in {{}, {c \in Waiting(ch) : kind[c] = "origin"}} :
     \E got \in SUBSET (Waiting(ch) \ closing) :
     \E id \in [got -> OwnId] : CircuitNChanDone(ch, closing, got, id)
  /\ UNCHANGED <<kind, p, n_delete_pending, p_delete_pending, onion,
                 total_pending_tasks, destroy_queue,
                 circuits_pending_other_guards>>

\* channel_mark_for_close, channel_close_from_lower_layer, channel_close_for_error
ChannelClose(ch) ==
  /\ chan_state[ch] \in {"OPENING", "OPEN"}
  /\ chan_state' = [chan_state EXCEPT ![ch] =
                      IF @ = "OPENING" THEN "FAILING" ELSE "CLOSING"]
  /\ UNCHANGED <<circVars, linkVars, listVars>>

\* channel_closed: circuits waiting for a channel that never opened are told,
\* then circuit_unlink_all_from_channel unlinks and marks the circuits that
\* the circuitmux has and the map knows.
ChannelClosed(ch) ==
  LET failed   == IF chan_state[ch] = "FAILING" THEN Waiting(ch) ELSE {}
      muxed    == {l \in Slot : l[1] = ch /\ cmux[l] # NULL}
      detached == {c \in Circ : \E l \in muxed : chan_circid_map[l] = c}
      legs     == {l \in SlotsOf(detached) : l[1] = ch}
  IN
  /\ chan_state[ch] \in {"CLOSING", "FAILING"}
  /\ chan_state' = [chan_state EXCEPT ![ch] = "CLOSED"]
  /\ chan_circid_map' = Unlinked(legs, DeletePending)
  /\ cmux' = [l \in Slot |-> IF l[1] = ch THEN NULL ELSE cmux[l]]
  /\ n' = [c \in Circ |-> IF n[c] \in legs THEN NULL ELSE n[c]]
  /\ p' = [c \in Circ |-> IF p[c] \in legs THEN NULL ELSE p[c]]
  /\ n_delete_pending' = [c \in Circ |-> IF n[c] \in legs THEN FALSE
                                            ELSE n_delete_pending[c]]
  /\ p_delete_pending' = [c \in Circ |-> IF p[c] \in legs THEN FALSE
                                            ELSE p_delete_pending[c]]
  /\ MarkForClose(failed \cup {c \in detached : ~marked[c]})
  /\ UNCHANGED <<kind, state, n_hop, onion, total_pending_tasks, destroy_queue,
                 circuits_pending_chans, circuits_pending_other_guards>>

\* Mutant of ChannelFree: the ids of discarded DESTROY cells stay reserved.
ChannelFreeKeepsIds(ch) ==
  /\ chan_state[ch] = "CLOSED"
  /\ chan_state' = [chan_state EXCEPT ![ch] = "UNUSED"]
  /\ destroy_queue' = [l \in Slot |-> IF l[1] = ch THEN 0 ELSE destroy_queue[l]]
  /\ cmux' = [l \in Slot |-> IF l[1] = ch THEN NULL ELSE cmux[l]]
  /\ UNCHANGED <<circVars, chan_circid_map, listVars>>

\* channel_free: circuitmux_mark_destroyed_circids_usable, then the circuitmux
\* goes with the DESTROY cells it still holds.
ChannelFree(ch) ==
  /\ chan_state[ch] = "CLOSED"
  /\ chan_state' = [chan_state EXCEPT ![ch] = "UNUSED"]
  /\ chan_circid_map' = [l \in Slot |-> IF l[1] = ch /\ destroy_queue[l] > 0
                                        THEN NULL ELSE chan_circid_map[l]]
  /\ destroy_queue' = [l \in Slot |-> IF l[1] = ch THEN 0 ELSE destroy_queue[l]]
  /\ cmux' = [l \in Slot |-> IF l[1] = ch THEN NULL ELSE cmux[l]]
  /\ UNCHANGED <<circVars, listVars>>

\* Mutant of DestroyNotPending: the flag of a circuit still linked is kept.
DestroyNotPendingMapOnly(S) ==
  /\ chan_circid_map' = [l \in Slot |-> IF l \in S /\ chan_circid_map[l] = RESERVED
                                        THEN NULL ELSE chan_circid_map[l]]
  /\ UNCHANGED <<n_delete_pending, p_delete_pending>>

\* channel_note_destroy_not_pending for the slots of S.
DestroyNotPending(S) ==
  /\ n_delete_pending' = [c \in Circ |-> IF n[c] \in S THEN FALSE
                                            ELSE n_delete_pending[c]]
  /\ p_delete_pending' = [c \in Circ |-> IF p[c] \in S THEN FALSE
                                            ELSE p_delete_pending[c]]
  /\ chan_circid_map' = [l \in Slot |-> IF l \in S /\ chan_circid_map[l] = RESERVED
                                        THEN NULL ELSE chan_circid_map[l]]

\* Mutant of FlushDestroy: an empty queue is not noticed.
FlushDestroyEmpty(l) ==
  /\ chan_state[l[1]] = "OPEN"
  /\ destroy_queue' = [destroy_queue EXCEPT ![l] = @ - 1]
  /\ DestroyNotPending({l})
  /\ UNCHANGED <<kind, state, marked, n, p, n_hop, onion, total_pending_tasks,
                 cmux, chan_state, listVars>>

\* channel_flush_from_first_active_circuit writes a DESTROY.
FlushDestroy(l) ==
  /\ chan_state[l[1]] = "OPEN"
  /\ destroy_queue[l] > 0
  /\ destroy_queue' = [destroy_queue EXCEPT ![l] = @ - 1]
  /\ DestroyNotPending({l})
  /\ UNCHANGED <<kind, state, marked, n, p, n_hop, onion, total_pending_tasks,
                 cmux, chan_state, listVars>>

\* The write of the last DESTROY fails: it is lost, though noted as sent, and
\* the channel is marked for close.  (With more cells to flush the loop goes on
\* and the assertion that the channel can handle cells ends the process.)
FlushFails(l) ==
  /\ chan_state[l[1]] = "OPEN"
  /\ destroy_queue[l] = 1
  /\ \A k \in Slot : k[1] = l[1] /\ k # l => destroy_queue[k] = 0
  /\ destroy_queue' = [destroy_queue EXCEPT ![l] = 0]
  /\ DestroyNotPending({l})
  /\ chan_state' = [chan_state EXCEPT ![l[1]] = "CLOSING"]
  /\ UNCHANGED <<kind, state, marked, n, p, n_hop, onion, total_pending_tasks,
                 cmux, listVars>>

-----------------------------------------------------------------------------
(* Relay side: CREATE cells and the handshakes behind them *)

\* command_process_create_cell turns the request down (hibernating, DoS
\* defence, not a server, id of our own half) and queues a DESTROY.
CreateRefused(l) ==
  /\ chan_state[l[1]] = "OPEN"
  /\ ~InUse(l)
  /\ destroy_queue' = [destroy_queue EXCEPT ![l] = @ + 1]
  /\ chan_circid_map' = [chan_circid_map EXCEPT ![l] = RESERVED]
  /\ UNCHANGED <<circVars, cmux, chan_state, listVars>>

\* or_circuit_new(id, chan) for a CREATE on slot l.
OrCircuitNew(c, l) ==
  /\ kind[c] = "free" /\ onion[c] = "none"
  /\ l[2] \in PeerId
  /\ chan_state[l[1]] = "OPEN"
  /\ ~InUse(l)
  /\ kind' = [kind EXCEPT ![c] = "or"]
  /\ p' = [p EXCEPT ![c] = l]
  /\ chan_circid_map' = [chan_circid_map EXCEPT ![l] = c]
  /\ cmux' = [cmux EXCEPT ![l] = c]
  /\ UNCHANGED <<n, n_delete_pending, p_delete_pending, n_hop, destroy_queue,
                 chan_state, circuits_pending_chans,
                 circuits_pending_other_guards>>

\* The CREATE does not parse, the fast handshake fails, or there is no room
\* in the onion queue: the new circuit is marked at once.
CreateFails(c, l) ==
  /\ OrCircuitNew(c, l)
  /\ state' = [state EXCEPT ![c] = "ONIONSKIN_PENDING"]
  /\ MarkForClose({c})
  /\ UNCHANGED <<onion, total_pending_tasks>>

\* CREATE_FAST: answered on the spot by onionskin_answer.
CreateFast(c, l) ==
  /\ OrCircuitNew(c, l)
  /\ state' = [state EXCEPT ![c] = "OPEN"]
  /\ UNCHANGED <<marked, circuits_pending_close, onion, total_pending_tasks>>

\* Mutant of CreateAssigned: one task too many is handed out.
CreateAssignedOver(c, l) ==
  /\ OrCircuitNew(c, l)
  /\ total_pending_tasks <= MaxPendingTasks
  /\ state' = [state EXCEPT ![c] = "ONIONSKIN_PENDING"]
  /\ onion' = [onion EXCEPT ![c] = "job"]
  /\ total_pending_tasks' = total_pending_tasks + 1
  /\ UNCHANGED <<marked, circuits_pending_close>>

\* assign_onionskin_to_cpuworker finds a free worker.
CreateAssigned(c, l) ==
  /\ OrCircuitNew(c, l)
  /\ total_pending_tasks < MaxPendingTasks
  /\ state' = [state EXCEPT ![c] = "ONIONSKIN_PENDING"]
  /\ onion' = [onion EXCEPT ![c] = "job"]
  /\ total_pending_tasks' = total_pending_tasks + 1
  /\ UNCHANGED <<marked, circuits_pending_close>>

\* ... or it does not, and onion_pending_add queues the onionskin and culls
\* the requests that have waited too long.
CreateQueued(c, l) ==
  /\ OrCircuitNew(c, l)
  /\ total_pending_tasks >= MaxPendingTasks
  /\ state' = [state EXCEPT ![c] = "ONIONSKIN_PENDING"]
  /\ \E culled \in SUBSET {d \in Circ : onion[d] = "queued"} :
       /\ onion' = [d \in Circ |-> IF d = c THEN "queued"
                                   ELSE IF d \in culled THEN "none" ELSE onion[d]]
       /\ MarkForClose({d \in culled : ~marked[d]})
  /\ UNCHANGED total_pending_tasks

\* queue_pending_tasks, after c's job is off the books: T is what
\* onion_next_task hands out; a circuit whose p_chan is gone is dropped.
QueuePendingTasks(c) ==
  \E T \in SUBSET {d \in Circ : onion[d] = "queued"} :
    LET assigned == {d \in T : p[d] # NULL}
        before   == total_pending_tasks - 1
        after    == before + Cardinality(assigned)
    IN
    /\ T # {} => before < MaxPendingTasks
    /\ after <= MaxPendingTasks
    /\ after = MaxPendingTasks \/ T = {d \in Circ : onion[d] = "queued"}
    /\ onion' = [d \in Circ |-> IF d \in assigned THEN "job"
                                ELSE IF d = c \/ d \in T THEN "none"
                                ELSE onion[d]]
    /\ total_pending_tasks' = after

\* Mutant of ReplyDead: the dead object is not freed.
ReplyDeadLeaks(c) ==
  /\ onion[c] = "job" /\ kind[c] = "dead"
  /\ QueuePendingTasks(c)
  /\ UNCHANGED <<kind, state, marked, n, p, n_delete_pending, p_delete_pending,
                 n_hop, linkVars, chan_state, listVars>>

\* cpuworker_onion_handshake_replyfn: the circuit died meanwhile ...
ReplyDead(c) ==
  /\ onion[c] = "job" /\ kind[c] = "dead"
  /\ kind' = [kind EXCEPT ![c] = "free"]
  /\ QueuePendingTasks(c)
  /\ UNCHANGED <<state, marked, n, p, n_delete_pending, p_delete_pending, n_hop,
                 linkVars, chan_state, listVars>>

\* ... or is marked for close ...
ReplyMarked(c) ==
  /\ onion[c] = "job" /\ kind[c] = "or" /\ marked[c]
  /\ QueuePendingTasks(c)
  /\ UNCHANGED <<kind, state, marked, n, p, n_delete_pending, p_delete_pending,
                 n_hop, linkVars, chan_state, listVars>>

\* ... or the handshake failed ...
ReplyFailure(c) ==
  /\ onion[c] = "job" /\ kind[c] = "or" /\ ~marked[c]
  /\ MarkForClose({c})
  /\ QueuePendingTasks(c)
  /\ UNCHANGED <<kind, state, n, p, n_delete_pending, p_delete_pending, n_hop,
                 linkVars, chan_state, circuits_pending_chans,
                 circuits_pending_other_guards>>

\* ... or onionskin_answer opens the circuit.
ReplySuccess(c) ==
  /\ onion[c] = "job" /\ kind[c] = "or" /\ ~marked[c]
  /\ SetState(c, "OPEN")
  /\ QueuePendingTasks(c)
  /\ UNCHANGED <<kind, marked, n, p, n_delete_pending, p_delete_pending, n_hop,
                 linkVars, chan_state, circuits_pending_close>>

-----------------------------------------------------------------------------
(* Relay side: EXTEND and TRUNCATE *)

\* Mutant of RelayCell: cells are not held back during the handshake.
RelayCellAnyState(c) ==
  /\ kind[c] = "or" /\ ~marked[c]
  /\ p[c] # NULL /\ chan_state[p[c][1]] = "OPEN"

\* A relay cell for us arrives on c from the previous hop.
RelayCell(c) ==
  /\ kind[c] = "or" /\ ~marked[c] /\ state[c] # "ONIONSKIN_PENDING"
  /\ p[c] # NULL /\ chan_state[p[c][1]] = "OPEN"

\* circuit_extend, past circuit_extend_state_valid_helper and the check that
\* the next hop is not the previous one.
Extendable(c, ch) ==
  /\ RelayCell(c)
  /\ n[c] = NULL /\ n_hop[c] = NULL
  /\ p[c][1] # ch

\* circuit_extend over an open channel: circuit_deliver_create_cell.
ExtendOpenChan(c, l) ==
  /\ Extendable(c, l[1])
  /\ chan_state[l[1]] = "OPEN"
  /\ Unique(l)
  /\ LinkN(c, l)
  /\ UNCHANGED <<kind, state, marked, p, n_delete_pending, p_delete_pending,
                 n_hop, onion, total_pending_tasks, destroy_queue, chan_state,
                 listVars>>

\* circuit_open_connection_for_extend: wait for a channel, launched if need be.
ExtendWait(c, ch) ==
  /\ Extendable(c, ch)
  /\ chan_state[ch] \in {"UNUSED", "OPENING"}
  /\ n_hop' = [n_hop EXCEPT ![c] = ch]
  /\ SetState(c, "CHAN_WAIT")
  /\ chan_state' = [chan_state EXCEPT ![ch] = "OPENING"]
  /\ UNCHANGED <<kind, marked, n, p, n_delete_pending, p_delete_pending, onion,
                 total_pending_tasks, linkVars, circuits_pending_close>>

\* ... and channel_connect_for_circuit fails.
ExtendLaunchFails(c, ch) ==
  /\ Extendable(c, ch)
  /\ chan_state[ch] = "UNUSED"
  /\ n_hop' = [n_hop EXCEPT ![c] = ch]
  /\ SetState(c, "CHAN_WAIT")
  /\ MarkForClose({c})
  /\ UNCHANGED <<kind, n, p, n_delete_pending, p_delete_pending, onion,
                 total_pending_tasks, linkVars, chan_state>>

\* RELAY_COMMAND_TRUNCATE while the circuit waits for its next hop ...
TruncateWaiting(c) ==
  /\ RelayCell(c)
  /\ n_hop[c] # NULL
  /\ n_hop' = [n_hop EXCEPT ![c] = NULL]
  /\ SetState(c, "OPEN")
  /\ UNCHANGED <<kind, marked, n, p, n_delete_pending, p_delete_pending, onion,
                 total_pending_tasks, linkVars, chan_state,
                 circuits_pending_close>>

\* ... or once it has one: DESTROY towards n, then the n side is unlinked.
TruncateExtended(c) ==
  /\ RelayCell(c)
  /\ n_hop[c] = NULL /\ n[c] # NULL
  /\ destroy_queue' = DestroysQueued({n[c]})
  /\ chan_circid_map' = Unlinked({n[c]}, DeletePending \cup Sendable({n[c]}))
  /\ cmux' = Detached({n[c]})
  /\ n' = [n EXCEPT ![c] = NULL]
  /\ n_delete_pending' = [n_delete_pending EXCEPT ![c] = FALSE]
  /\ UNCHANGED <<kind, state, marked, p, p_delete_pending, n_hop, onion,
                 total_pending_tasks, chan_state, listVars>>

-----------------------------------------------------------------------------
(* Client side: the first hop, the rest of the build *)

\* origin_circuit_init and circuit_handle_first_hop over an open channel.
LaunchOpenChan(c, l) ==
  /\ kind[c] = "free" /\ onion[c] = "none"
  /\ chan_state[l[1]] = "OPEN"
  /\ Unique(l)
  /\ kind' = [kind EXCEPT ![c] = "origin"]
  /\ SetState(c, "BUILDING")
  /\ LinkN(c, l)
  /\ UNCHANGED <<marked, p, n_delete_pending, p_delete_pending, n_hop, onion,
                 total_pending_tasks, destroy_queue, chan_state,
                 circuits_pending_close>>

\* ... waiting for a channel ...
LaunchWait(c, ch) ==
  /\ kind[c] = "free" /\ onion[c] = "none"
  /\ chan_state[ch] \in {"UNUSED", "OPENING"}
  /\ kind' = [kind EXCEPT ![c] = "origin"]
  /\ SetState(c, "CHAN_WAIT")
  /\ n_hop' = [n_hop EXCEPT ![c] = ch]
  /\ chan_state' = [chan_state EXCEPT ![ch] = "OPENING"]
  /\ UNCHANGED <<marked, n, p, n_delete_pending, p_delete_pending, onion,
                 total_pending_tasks, linkVars, circuits_pending_close>>

\* ... or failing: no circuit id (n_hop stays NULL) or no connection.
LaunchFails(c, hop) ==
  /\ kind[c] = "free" /\ onion[c] = "none"
  /\ hop # NULL => chan_state[hop] = "UNUSED"
  /\ kind' = [kind EXCEPT ![c] = "origin"]
  /\ SetState(c, "CHAN_WAIT")
  /\ n_hop' = [n_hop EXCEPT ![c] = hop]
  /\ MarkForClose({c})
  /\ UNCHANGED <<n, p, n_delete_pending, p_delete_pending, onion,
                 total_pending_tasks, linkVars, chan_state>>

\* circuit_build_no_more_hops: GUARD_WAIT when a better guard may still answer.
\* circuit_upgrade_circuits_from_guard_wait: GUARD_WAIT to OPEN.
\* Extending a finished circuit again puts it back to BUILDING.
BuildStep(c, st) ==
  /\ kind[c] = "origin" /\ ~marked[c]
  /\ \/ state[c] = "BUILDING" /\ st \in {"OPEN", "GUARD_WAIT"} /\ n[c] # NULL
     \/ state[c] = "GUARD_WAIT" /\ st \in {"OPEN", "BUILDING"}
     \/ state[c] = "OPEN" /\ st = "BUILDING"
  /\ SetState(c, st)
  /\ UNCHANGED <<kind, marked, n, p, n_delete_pending, p_delete_pending, n_hop,
                 onion, total_pending_tasks, linkVars, chan_state,
                 circuits_pending_close>>

-----------------------------------------------------------------------------
(* Closing circuits *)

\* circuit_mark_for_close on a timeout, a protocol error, memory pressure, a
\* refused EXTEND (no payment hash included): nothing is unlinked yet.
CircuitFails(c) ==
  /\ c \in Live /\ ~marked[c]
  /\ MarkForClose({c})
  /\ UNCHANGED <<kind, state, n, p, n_delete_pending, p_delete_pending, n_hop,
                 onion, total_pending_tasks, linkVars, chan_state,
                 circuits_pending_chans, circuits_pending_other_guards>>

\* command_process_destroy_cell: the side the DESTROY came from is unlinked
\* without answering it, and the circuit is marked.
ProcessDestroy(l) ==
  LET c == chan_circid_map[l] IN
  /\ chan_state[l[1]] = "OPEN"
  /\ c \in Circ /\ ~marked[c]
  /\ chan_circid_map' = Unlinked({l}, DeletePending)
  /\ cmux' = Detached({l})
  /\ IF p[c] = l
     THEN /\ p' = [p EXCEPT ![c] = NULL]
          /\ p_delete_pending' = [p_delete_pending EXCEPT ![c] = FALSE]
          /\ UNCHANGED <<n, n_delete_pending>>
     ELSE /\ n' = [n EXCEPT ![c] = NULL]
          /\ n_delete_pending' = [n_delete_pending EXCEPT ![c] = FALSE]
          /\ UNCHANGED <<p, p_delete_pending>>
  /\ MarkForClose({c})
  /\ UNCHANGED <<kind, state, n_hop, onion, total_pending_tasks, destroy_queue,
                 chan_state, circuits_pending_chans,
                 circuits_pending_other_guards>>

\* circuit_close_all_marked: circuit_about_to_free and circuit_free for every
\* circuit on the list.  A job that a worker has already taken (not in
\* "cancelled") keeps the object alive with DEAD_CIRCUIT_MAGIC.
CircuitCloseAllMarked ==
  LET S        == circuits_pending_close
      pending  == {c \in S : state[c] = "ONIONSKIN_PENDING"}
      jobs(T)  == {c \in T : onion[c] = "job"}
      reset(f, v) == [c \in Circ |-> IF c \in S THEN v ELSE f[c]]
      legs     == SlotsOf(S)
  IN
  /\ S # {}
  /\ \E cancelled \in SUBSET jobs(pending) :
       /\ kind' = [c \in Circ |-> IF c \notin S THEN kind[c]
                                  ELSE IF c \in jobs(S) \ cancelled THEN "dead"
                                  ELSE "free"]
       /\ onion' = [c \in Circ |-> IF c \in (pending \ jobs(S)) \cup cancelled
                                   THEN "none" ELSE onion[c]]
       /\ total_pending_tasks' = total_pending_tasks - Cardinality(cancelled)
  /\ destroy_queue' = DestroysQueued(legs)
  /\ chan_circid_map' = Unlinked(legs, DeletePending \cup Sendable(legs))
  /\ cmux' = Detached(legs)
  /\ state' = reset(state, "BUILDING")
  /\ marked' = reset(marked, FALSE)
  /\ n' = reset(n, NULL)
  /\ p' = reset(p, NULL)
  /\ n_delete_pending' = reset(n_delete_pending, FALSE)
  /\ p_delete_pending' = reset(p_delete_pending, FALSE)
  /\ n_hop' = reset(n_hop, NULL)
  /\ circuits_pending_close' = {}
  /\ circuits_pending_chans' =
       circuits_pending_chans \ {c \in S : state[c] = "CHAN_WAIT"}
  /\ circuits_pending_other_guards' = circuits_pending_other_guards \ S
  /\ UNCHANGED chan_state

-----------------------------------------------------------------------------
ChannelStep ==
  \E ch \in Chan : \/ ChannelLaunch(ch) \/ ChannelOpen(ch) \/ ChannelClose(ch)
                   \/ ChannelClosed(ch) \/ ChannelFree(ch)

SlotStep ==
  \E l \in Slot : \/ FlushDestroy(l) \/ FlushFails(l)
                  \/ CreateRefused(l) \/ ProcessDestroy(l)

CreateStep ==
  \E c \in Circ, l \in Slot :
    \/ CreateFails(c, l) \/ CreateFast(c, l)
    \/ CreateAssigned(c, l) \/ CreateQueued(c, l)

ReplyStep ==
  \E c \in Circ :
    ReplyDead(c) \/ ReplyMarked(c) \/ ReplyFailure(c) \/ ReplySuccess(c)

ExtendStep ==
  \E c \in Circ :
    \/ \E l \in Slot : ExtendOpenChan(c, l) \/ LaunchOpenChan(c, l)
    \/ \E ch \in Chan : \/ ExtendWait(c, ch) \/ ExtendLaunchFails(c, ch)
                        \/ LaunchWait(c, ch)
    \/ \E hop \in Chan \cup {NULL} : LaunchFails(c, hop)
    \/ \E st \in CircState : BuildStep(c, st)
    \/ TruncateWaiting(c) \/ TruncateExtended(c)
    \/ CircuitFails(c)

Next ==
  \/ ChannelStep \/ SlotStep \/ CreateStep \/ ReplyStep \/ ExtendStep
  \/ CircuitCloseAllMarked

Spec == Init /\ [][Next]_vars

-----------------------------------------------------------------------------
(* Safety *)

\* The (channel, id) map and the circuits' own n and p fields say the same: an
\* entry points to the circuit that holds the slot, and no freed circuit is
\* reachable through it.  The two sides of a circuit are on different channels.
MapAgrees ==
  /\ \A c \in Circ, l \in Slot : chan_circid_map[l] = c <=> (n[c] = l \/ p[c] = l)
  /\ \A c \in Circ : n[c] # NULL /\ p[c] # NULL => n[c][1] # p[c][1]
  /\ \A c \in Circ : p[c] # NULL => kind[c] = "or"
  /\ \A c \in Circ : n[c] # NULL => c \in Live

\* A circuit is attached to the circuitmux of a channel exactly while the map
\* knows it there, marked or not: no freed circuit is ever picked to send.
MuxAgrees ==
  \A l \in Slot : cmux[l] = IF chan_circid_map[l] \in Circ
                            THEN chan_circid_map[l] ELSE NULL

\* An id is reserved by a placeholder exactly while its one DESTROY is queued
\* (the promise of channel_mark_circid_unusable): no id is given out early and
\* no placeholder outlives its DESTROY.
DestroyReservesId ==
  \A l \in Slot : /\ destroy_queue[l] <= 1
                  /\ destroy_queue[l] = 1 <=> chan_circid_map[l] = RESERVED

\* circuits_pending_close holds the marked circuits and
\* circuits_pending_other_guards those in GUARD_WAIT.  A circuit in CHAN_WAIT
\* that is not marked is on circuits_pending_chans, where circuit_n_chan_done
\* looks for it, and nothing stays there that is not in CHAN_WAIT.  No list
\* keeps a freed circuit.  Whether one marked in CHAN_WAIT belongs on that list
\* is left open, as assert_circuit_ok says no: see SecondMarkPasses of Teardown.
ListsKnow ==
  \A c \in Circ :
    /\ c \in circuits_pending_close <=> c \in Live /\ marked[c]
    /\ c \in Live /\ state[c] = "CHAN_WAIT" /\ ~marked[c] =>
         c \in circuits_pending_chans
    /\ c \in circuits_pending_chans => c \in Live /\ state[c] = "CHAN_WAIT"
    /\ c \in circuits_pending_other_guards <=> c \in Live /\ state[c] = "GUARD_WAIT"

\* The onion queue and the worker threads only ever refer to relay circuits
\* that still wait for their handshake, or to a DEAD_CIRCUIT_MAGIC object kept
\* for the reply: never to freed memory.
OnionRefsValid ==
  \A c \in Circ :
    /\ onion[c] = "queued" => kind[c] = "or" /\ state[c] = "ONIONSKIN_PENDING"
    /\ onion[c] = "job" => \/ kind[c] = "or" /\ state[c] = "ONIONSKIN_PENDING"
                           \/ kind[c] = "dead"
    /\ kind[c] = "dead" => onion[c] = "job"

\* total_pending_tasks counts the jobs in flight, so its assertions hold and
\* at most max_pending_tasks are handed out.
TasksCounted ==
  /\ total_pending_tasks = Cardinality({c \in Circ : onion[c] = "job"})
  /\ total_pending_tasks <= MaxPendingTasks

\* Circuits are linked only to channels that exist, are open or closing; a
\* freed channel leaves neither map entry nor DESTROY behind.
ChannelRefsValid ==
  \A l \in Slot :
    /\ chan_circid_map[l] \in Circ => chan_state[l[1]] \in {"OPEN", "CLOSING"}
    /\ chan_state[l[1]] \in {"UNUSED", "OPENING", "FAILING"} =>
         chan_circid_map[l] = NULL

\* A circuit in CHAN_WAIT that is not about to be closed waits for a channel
\* that is still coming up or whose failure is still to be announced: the
\* wake-up circuit_n_chan_done gives is never missed.
NoLostWait ==
  \A c \in Circ :
    /\ c \in Live /\ state[c] = "CHAN_WAIT" /\ ~marked[c] =>
         n_hop[c] # NULL /\ chan_state[n_hop[c]] \in {"OPENING", "FAILING"}
    /\ n_hop[c] # NULL => c \in Live /\ state[c] = "CHAN_WAIT"
    /\ state[c] = "CHAN_WAIT" => n[c] = NULL

\* A placeholder always has a DESTROY behind it, and a circuit's delete_pending
\* flag too: with several DESTROY cells queued for one id no reservation is
\* left that nothing will ever release.
ReservationHasDestroy ==
  /\ \A l \in Slot : chan_circid_map[l] = RESERVED => destroy_queue[l] > 0
  /\ \A l \in DeletePending : destroy_queue[l] > 0

\* What also holds of every circuit and makes the above inductive: a
\* delete_pending flag is only set on a side that is linked, and freed objects
\* are clean.
FlagsLinked ==
  \A c \in Circ : /\ n_delete_pending[c] => n[c] # NULL
                  /\ p_delete_pending[c] => p[c] # NULL
FreedClean == \A c \in Circ : c \notin Live => state[c] = "BUILDING" /\ ~marked[c]

\* Only circuit_set_state and circuit_about_to_free touch the two lists of waiting
\* circuits, which therefore follow the state alone, marked or not.
ListsFollowState ==
  \A c \in Circ :
    /\ c \in circuits_pending_close <=> c \in Live /\ marked[c]
    /\ c \in circuits_pending_chans <=> c \in Live /\ state[c] = "CHAN_WAIT"
    /\ c \in circuits_pending_other_guards <=> c \in Live /\ state[c] = "GUARD_WAIT"

\* The inductive invariant, for the handlers here and for TEARDOWNCIRCUIT.
BaseInv ==
  /\ TypeOK
  /\ MapAgrees
  /\ MuxAgrees
  /\ ReservationHasDestroy
  /\ FlagsLinked
  /\ ListsFollowState
  /\ OnionRefsValid
  /\ ChannelRefsValid
  /\ NoLostWait
  /\ FreedClean

\* What the handlers here keep and TEARDOWNCIRCUIT does not: no DESTROY is
\* pending for a slot still linked, hence one DESTROY per placeholder.
NoDeletePending == \A c \in Circ : ~n_delete_pending[c] /\ ~p_delete_pending[c]
IInv == BaseInv /\ DestroyReservesId /\ NoDeletePending

-----------------------------------------------------------------------------
(* Refinement *)

Ids == INSTANCE CircIds WITH
         FREE <- NULL, DRAINING <- RESERVED, owner <- chan_circid_map,
         unsent <- {l \in Slot : destroy_queue[l] > 0}

\* The circuit ids are used as CircIds promises.
CircIdsUsedSafely == Ids!Spec

-----------------------------------------------------------------------------
(* Liveness *)

\* Fairness: circuit_close_all_marked runs after each pass of the event loop
\* that marked a circuit; a worker thread finishes its job and the reply is
\* handled; a connection that is being made succeeds or times out; a closed
\* channel is cleaned up; a channel with something to send is flushed or, when
\* the peer does not read, closed.
Fairness ==
  /\ WF_vars(CircuitCloseAllMarked)
  /\ \A c \in Circ : WF_vars(ReplyDead(c) \/ ReplyMarked(c) \/ ReplyFailure(c)
                             \/ ReplySuccess(c))
  /\ \A ch \in Chan : /\ WF_vars(ChannelOpen(ch) \/ (chan_state[ch] = "OPENING"
                                                     /\ ChannelClose(ch)))
                      /\ WF_vars(ChannelClosed(ch))
                      /\ WF_vars(ChannelFree(ch))
  /\ \A l \in Slot : WF_vars(\/ FlushDestroy(l) \/ FlushFails(l)
                             \/ destroy_queue[l] > 0 /\ ChannelClose(l[1]))

FairSpec == Spec /\ Fairness

\* Every circuit marked for close is freed, also when a worker thread still
\* holds its handshake: no circuit object leaks.
MarkedIsFreed == \A c \in Circ : marked[c] ~> kind[c] = "free"

\* A circuit waiting for a channel is told how that ended.
WaitEnds == \A c \in Circ : n_hop[c] # NULL ~> n_hop[c] = NULL

\* A reserved id of a channel comes back into use, whatever happens to the
\* channel.
ReservedIsReleased(ch) ==
  \A l \in {ch} \X Id : chan_circid_map[l] = RESERVED ~> chan_circid_map[l] # RESERVED

=============================================================================
