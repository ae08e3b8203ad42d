# A TLA+ verification of El Tor's circuits

libeltor-sys is a Rust crate that builds and binds **El Tor**, a fork of Tor in
which relays are paid for carrying circuits. The program is the C code under
`src/libtor-src/tor-src/src/` (paths below are relative to it). What El Tor adds
to Tor are the control commands `EXTENDPAIDCIRCUIT`, `TEARDOWNCIRCUIT` and
`LOGALLCIRCUITS`, payment hashes in onionskins and EXTEND cells, and a control
event when a relay receives one. All of it acts on the circuits Tor keeps, so
the life of a circuit is the core of this project, and the paid commands are
modelled on top of it. Around it stand the two concurrent mechanisms circuits
depend on: the thread pool that answers their handshakes and raises the payment
event, and conflux, which spreads one flow of cells over several circuits.

## Inventory

| Component | State | Operations | What makes it correct |
|---|---|---|---|
| Circuits (`core/or/circuitlist.c`) | circuit objects; map (channel, circuit id) -> circuit or placeholder; lists `circuits_pending_close`, `circuits_pending_chans`, `circuits_pending_other_guards` | create, set state, link and unlink a side, mark for close, free | no dangling reference; no circuit is missing from the list that serves it, none keeps a freed one; every marked circuit is freed |
| Circuitmux (`core/or/circuitmux.c`, flush in `core/or/relay.c`) | attached circuits; queue of DESTROY cells; `destroy_ctr` | attach, detach, append DESTROY, flush | attached iff linked; an id is not reused before its DESTROY has left |
| Channels (`core/or/channel.c`) | state, circuitmux | open, close, fail, free | waiting circuits learn the outcome; nothing refers to a freed channel |
| Cell commands (`core/or/command.c`, `core/or/relay.c`, `feature/relay/circuitbuild_relay.c`) | none of their own | CREATE, CREATE_FAST, EXTEND, TRUNCATE, DESTROY | the above, after any sequence of cells |
| Onionskins (`feature/relay/onion_queue.c`, `core/mainloop/cpuworker.c`) | ntor and tap queues with their counters; jobs with the pool; `total_pending_tasks` | assign, queue, cull, hand out, reply, cancel, rotate keys | no reference to a freed circuit; counters exact and bounded; a queued request is handed out or given up |
| Thread pool (`lib/evloop/workqueue.c`) | work queue, update per thread, generation, reply queue, alert socket | queue, cancel, update, sleep, wake, reply | no job, update or answer is left with everyone asleep |
| Conflux (`core/or/conflux.c`, `conflux_pool.c`, `conflux_cell.c`) | unlinked set; legs with sequence numbers and RTT; current leg; out-of-order queue | launch, LINK, LINKED, LINKED_ACK, send, SWITCH, receive, close a leg | each direction is an ordered stream; a lost leg is replaced, or the set goes on when little enough went with it |
| Building (`core/or/circuitbuild.c`, `core/or/circuituse.c`) | path, hop states, guard wait | first hop, next hop, finish, time out | a circuit that builds is finished or closed |
| Paid circuits (`feature/control/control_extendpaidcircuit.c`, `feature/payment/`) | `payhashes`, `relay_payments` of a circuit | EXTENDPAIDCIRCUIT, payment of a hop | each hop gets the payment of its own relay |
| Teardown (`feature/control/control_teardowncircuit.c`) | none of its own | TEARDOWNCIRCUIT id, ALL, FORCE_IMMEDIATE | keeps the invariants of circuits and circuitmux |
| Payment events (`core/crypto/onion_ntor_v3.c`, `feature/control/control_events.c`) | queue of control events, pending flag | event from the handshake, flush on the main thread or a worker | each event written once, by a thread that may |
| Rest of Tor (guards, directory, hidden services, congestion control, streams, TLS, buffers), libevent, Rust bindings | | | not modelled |

Components interact by direct calls on the main thread: a handler runs to its
end before the next one starts, so one handler is one step. Concurrency comes
from three sides: the order in which cells, channel events, control commands and
`circuit_close_all_marked` (run after the event loop's handlers) follow one
another; cpuworker threads, which hold a pointer to a circuit across many
handlers and share the pool's queues and the control events with the main
thread; and the peers, at the other end of circuits on which cells travel. The hard places are listed with their lines as
`hazards` in `PROJECT.json`: ids reused before their DESTROY has left, circuits
freed while a worker holds them, circuits waiting for a channel that ends before
or while they are registered, several waiting circuits of which some fail,
closing a channel with DESTROY cells still queued, commands that change half
of a circuit and then refuse, wakeups and alerts that cross a thread going to
sleep, and cells of one flow that overtake one another on several legs, some of
which are lost.

## Modules

`CircuitLifecycle` is the core. A *slot* is a pair (channel, circuit id).

| Variable | Code |
|---|---|
| `kind` | the object: not allocated (`free`), `or_circuit_t`, `origin_circuit_t`, or freed with `DEAD_CIRCUIT_MAGIC` and kept for a worker (`dead`) |
| `state`, `marked`, `n_hop` | `circ->state`, `marked_for_close`, `n_hop` |
| `n`, `p` | `n_chan`/`n_circ_id`, `p_chan`/`p_circ_id` |
| `n_delete_pending`, `p_delete_pending` | the bits of `circuit_t` |
| `onion`, `total_pending_tasks` | `onionqueue_entry` / `workqueue_entry`; the counter of `cpuworker.c` |
| `chan_circid_map` | the hash table of `circuitlist.c`; `RESERVED` is an entry with no circuit |
| `cmux`, `destroy_queue` | each channel's circuitmux: attached circuits, DESTROY cells per id |
| `chan_state` | channel state as circuits see it; `FAILING` is CLOSING of a channel that never opened, `CLOSED` stands for CLOSED and ERROR |
| the three lists | the lists of the same names |

Actions: `ChannelLaunch`, `ChannelOpen` (with `circuit_n_chan_done` for all the
circuits that wait), `ChannelClose`, `ChannelClosed`, `ChannelFree`,
`FlushDestroy`, `FlushFails`; `CreateRefused`, `CreateFails`, `CreateFast`,
`CreateAssigned`, `CreateQueued`; `ReplyDead`, `ReplyMarked`, `ReplyFailure`,
`ReplySuccess` (each with the `queue_pending_tasks` that ends
`cpuworker_onion_handshake_replyfn`); `ExtendOpenChan`, `ExtendWait`,
`ExtendLaunchFails`, `TruncateWaiting`, `TruncateExtended`; `LaunchOpenChan`,
`LaunchWait`, `LaunchFails`, `BuildStep`; `CircuitFails`, `ProcessDestroy`,
`CircuitCloseAllMarked`. The relay's refusal of an EXTEND without payment hash
(`circuitbuild_relay.c`) marks the circuit and is an instance of `CircuitFails`.

`CircIds` is the abstract promise about circuit ids: a slot is free, owned by one
circuit, or draining because a DESTROY is unsent; only free slots are taken.
`CircuitLifecycle` implements it with `owner <- chan_circid_map` and
`unsent` the slots with a queued DESTROY (`CircIdsUsedSafely`).

`Teardown` extends `CircuitLifecycle` with the three forms of TEARDOWNCIRCUIT.
`PaidCircuit` is a module of its own: one client circuit, the EXTENDPAIDCIRCUIT
handler with all its exits, and the building of the hops with what each is paid.

`Workqueue` is the thread pool: one step is what a thread does under one lock, or
between two. `QueueWork` (with the signal to one sleeper), `Cancel` and
`QueueUpdate` are what the main thread calls; `TakeUpdate`, `RunUpdate`,
`TakeWork`, `Sleep`, `SpuriousWake`, `QueueReply` and `SendAlert` are
`worker_thread_main`. `Handshakes` extends it with what the relay puts on it:
`onion_queue.c` and `cpuworker.c` in full order.

| Variable | Code |
|---|---|
| `work`, `generation`, `update_args` | the fields of `threadpool_t` |
| `tpc`, `tjob`, `targ`, `tgen`, `tstate` | a thread's place in `worker_thread_main`, the job and update it holds, `thread->generation`, the keys of its state |
| `answers`, `alert` | the reply queue; its alert socket is readable |
| `circ`, `p_chan`, `workqueue_entry` | the circuit of a handshake, and the two fields of `or_circuit_t` |
| `ol_list`, `ol_entries`, `recently_chosen_ntors` | the statics of `onion_queue.c` |
| `total_pending_tasks`, `consensus` | the counter of `cpuworker.c`; which of its values `max_pending_tasks` has |
| `mpc` | where the main thread is: between handlers, in `replyqueue_process`, in `queue_pending_tasks` |
| `ntors_ahead` | history: ntor requests taken since a tap request has waited |

The main thread's handlers are steps, except that `replyqueue_process` and
`queue_pending_tasks` are broken up where they give up a lock. Compared with
`CircuitLifecycle`, which has the handshake as one reference of a circuit,
`Handshakes` leaves channels and ids out and has queues, threads and keys in.

`PaymentEvents` is the queue of control events with the main thread and the
workers that raise and flush them; `queued_events_flush_all` is two steps, its
locked half (`TakeEvents`) and the writing (`Flushed`).

`Conflux` is one conflux set at its two ends. `circ`, `unlinked`, `link` and
`num_leg_launch` are the circuits and the `unlinked_circuits_t` of the client;
`legs`, `curr_leg`, `measured`, `last_seq_sent`, `last_seq_recv`, `inflight`,
`last_seq_delivered` and `ooo_q` are, per end, the fields of `conflux_t`,
`conflux_leg_t` and `congestion_control_t`; `wire` is the cells under way on each
circuit, in order, a DESTROY among them; `sent`, `delivered` and `closes` are
history and bound. Every handler of a conflux cell is an action, and so is
`Send`, with the choice of leg and the SWITCH that belong to it. `Close` is
`conflux_circuit_has_closed` with its recursion: a relaunch for an unlinked leg,
`cfx_del_leg` and perhaps all other legs for a linked one. `OrderedStream` is
what a set promises to its streams: what is delivered is a prefix of what was
sent. `Conflux` implements it once in each direction (`FromClient`, `FromExit`).

`MCCircuitLifecycle`, `MCTeardown`, `MCPaidCircuit`, `MCHandshakes` and
`MCPaymentEvents` hold the model values (`Conflux` has numbers only and is
checked itself). The modules named `...Proofs` hold the theorems about the module
they are named after (`ConfluxOrderProofs` goes on from `ConfluxProofs`), and
`DataLemmas` the lemmas they share.

Operators named in a comment as a mutant are plausible mistakes in the
definition that follows them; replacing the definition by its mutant makes TLC
find the property that is meant to catch it violated. No specification uses them.

### Abstractions

- One channel per neighbouring relay at a time; MAINT state and channel
  upgrades are left out. Circuit ids are a few values of each half.
- Rendezvous splicing, conflux sets, cannibalising and padding circuits are left
  out; so are streams and relay cells other than EXTEND and TRUNCATE.
- In `CircuitLifecycle` the order of the onion queue, the ntor/tap balance and
  the age of entries are a choice of which entries are taken or culled. In
  `Handshakes` order and balance are those of the code; the age of entries is a
  choice of a first part of the queue to cull, never the request just added (this
  assumes a cutoff of at least a second: the default is 5, but the consensus may
  say 0, and `onion_pending_add` would then read the head of an emptied queue);
  whether a queue of more than `AlwaysRoom` entries
  has room is a choice; a circuit that has opened counts as free; `p_chan` is
  followed where it is read again, in the queues.
- All jobs of `Workqueue` have one priority, as those of `Handshakes` do; other
  users of the pool (consensus diffs, proofs of work) would only add jobs.
- `Conflux`: which measured leg is the fastest, and whether it may send, is any
  choice; `cells_until_switch` is 0 wherever the code sets it, so `prev_leg` never
  matters; a leg's circuit carries cells in order until it breaks, and a DESTROY
  may overtake any of the last cells queued; one set, whose legs are only
  launched together or to replace one another, so that an unlinked set beside
  a linked one never happens at the client. LINK and LINKED then always carry
  zeros, and the numbers of a leg that joins a set which has already sent are not
  exercised (`conflux_pool.c` doubts them itself, at line 502). Padding commands and XON/XOFF are
  instances of `OTHER`.
- `channel_send_destroy` may flush at once; that is the append followed by
  `FlushDestroy`.
- When a DESTROY cannot be written and further cells are queued on the channel,
  an assertion of `write_packed_cell` ends the process; `FlushFails` models the
  case that survives.
- Path-bias probing may put off the mark of an open origin circuit. In the core
  that is no step at all; in `Teardown`, where a DESTROY has been queued by then,
  it is modelled (`Probeable`).
- Key generation and memory allocation do not fail.
- `PaidCircuit`: a payment is identified with the relay it is for; payloads have
  the prescribed length, so `payhashes` is a sequence of payments;
  `MaxPayhashes` stands for the 10 KiB limit. An early exit that jumps over the
  initialisation of two pointers which are then freed either has no effect or
  crashes.

## Runs

| Run | Configuration | Checks | Result |
|---|---|---|---|
| `core` | 2 circuits, 2 channels, one id of each half, 1 worker | all safety invariants, the refinement of `CircIds` | holds, 124,576 states |
| `teardown` | 1 circuit, 2 channels, TEARDOWNCIRCUIT id and ALL, fairness | `MuxAgrees`, `ListsKnow`, `ReservationHasDestroy`; `MarkedIsFreed`, `WaitEnds`, `ReservedIsReleased` for a channel | holds |
| `teardown_id_reuse` | 2 circuits, 2 channels, TEARDOWNCIRCUIT id and ALL | `IdKeptWhileDestroyQueued` | violated |
| `force_detach` | the same, FORCE_IMMEDIATE instead | `DetachAllFindsCircuits` | violated |
| `force_assert` | 1 circuit, 2 channels, FORCE_IMMEDIATE | `SecondMarkPasses` | violated |
| `paid` | up to 3 lines, 4 hops, 2 payments that fit | `OneCommandPaysHops`, `BuildEnds` | holds |
| `paid_reextend` | the same | `HopsPaid` | violated |
| `paid_abandoned` | the same | `UnstartedWaitsForChannel` | violated |
| `handshakes` | 3 circuits (2 ntor, 1 tap), 2 threads, 1 rotation or limit change, fairness | queues, counters, references, wakeups, alerts, keys; `JobsAnswered`, `QueueMoves` | holds, 758,570 states |
| `payment_event_race` | 2 workers, 3 payments, 2 other events | `BuffersOwned` | violated |
| `conflux` | 2 legs and 2 launches more, 3 cells, SENDME for each, 1 leg lost or closed, fairness | numbers, legs, losses; refinement of `OrderedStream` both ways; `CellsSettle`, `SetLinks` | holds, 106,220 states |
| `conflux_loss` | 2 legs and 1 launch more, 4 cells, SENDME every 2, 1 leg lost or closed | `NothingLost` | violated |

Why the bounds are enough to be interesting. Two channels let a circuit have both
sides and let one be closed under it. Two circuits with one worker let one
handshake run and one wait in the queue, and compete for the one id a channel has
to give; a third, to be culled, is there in `handshakes`. What these runs check of
safety is proved for any number of circuits, channels, ids and threads, so their
bounds need only let every action happen; that is also why `teardown` can do with
one circuit: what a second adds to its liveness is competition for ids and for
the worker, and neither keeps a marked circuit, a wait or a reservation from
ending, since what each of them waits for is a step of its own circuit or channel.
One id per half makes every reuse a reuse of
the same id. One worker thread puts `total_pending_tasks` at its limit.
`MaxDestroys` bounds the DESTROY cells already queued when TEARDOWNCIRCUIT adds
another; the close that follows can still add its own. With `MaxPayhashes` below
`MaxLines` a command can be too large, and with `MaxHops` above it a circuit can
be extended twice. Symmetry, over circuits and channels, is used in the two
violated runs of `Teardown` only. `ReservedIsReleasedOnCh1` names one of two
channels that nothing distinguishes.

In `handshakes` two threads let one be asleep, or in an update, while the other
takes work, and circuits come back as new ones after they are freed, so that
queues run full and empty again without bound; two ntor circuits with
`NtorsPerTap = 1` overtake the tap request as often as they may. `MaxChanges = 1`
allows one rotation, or one rise of the limit from 1 to 2 tasks, at any moment; room
for two is what lets both threads be busy or asleep at once.
In `conflux` two legs and two launches more give up to four circuits, so that the
replacement meets cells of the others. A set may spend one launch on a leg that
cannot be established and one on a leg that is lost later, and `SetLinks` asks for
it to be finalised with launches left and with the last one spent; three cells, each acknowledged, allow a
switch there and back in one direction, or cells in both, with an acknowledgement
under way. `conflux_loss` has a SENDME for two cells only, so that less than one
SENDME's worth can be lost. `MaxLegsSet = 2` is below what real consensus parameters allow, so
that the exit refuses a leg the client has launched to replace one whose DESTROY
is still under way (`RefuseLink`).

`CHECK_DEADLOCK FALSE` is used for `PaidCircuit`, where the process may be
gone, and `Conflux`, where all cells may be sent and all legs closed.

Fairness. In `teardown`, `circuit_close_all_marked` is scheduled whenever a circuit is
marked; a worker finishes its job, and its reply is handled by the event loop; a
connection attempt succeeds or times out; a closed channel is cleaned up by
`channel_run_cleanup`; a channel with something to write is flushed or, if the
peer does not read, is closed in the end. In `PaidCircuit`, connection attempts
end and `circuit_expire_building` runs every second. In `handshakes` each thread
that is not asleep runs on (weak, per thread: spurious wakeups are not relied
on), the main thread finishes the handler it is in (weak), and the event loop
serves the alert socket in the end although other handlers run in between
(strong). In `Conflux` one weak fairness for both ends: while some cell can arrive
or some circuit being built can open or fail, one of these happens. Nothing is
assumed about peers, clients or control commands: nobody has to send, close or
tear down anything.

### What the violated runs show

- `teardown_id_reuse`: TEARDOWNCIRCUIT queues a DESTROY for a circuit that is
  still linked and freeing it queues another. When the first is written the one
  reservation goes, and the id may be reused with the second still queued.
- `force_detach`: FORCE_IMMEDIATE marks the circuit itself and then unlinks it;
  for a marked circuit the unlink does not detach it from the circuitmux. When
  the channel closes, the entry without circuit meets an assertion.
- `force_assert`: the command has marked the circuit, and FORCE_IMMEDIATE marks it
  again. `circuit_mark_for_close_` would log a duplicate and return, but it runs
  `assert_circuit_ok` first. That asserts that a marked circuit is not on
  `circuits_pending_chans`, while the code leaves a circuit marked in CHAN_WAIT there
  until it is freed: the process aborts. The disagreement is not the
  command's own: whatever marks a circuit in CHAN_WAIT leaves it so, which does no
  harm until something, such as a second mark, runs the assertion on it. `ListsKnow` therefore says nothing of the marked
  ones on that list beyond their state; that they stay there is part of the
  inductive invariant only (`ListsFollowState`).
- `paid_reextend`: a later EXTENDPAIDCIRCUIT replaces the payments by those of the
  new hops, while hops look theirs up by their place in the whole path.
- `paid_abandoned`: EXTENDPAIDCIRCUIT 0 makes the circuit before it checks the
  lines and leaves it behind when it turns them down; the timeout code takes such
  a circuit to be waiting for a channel.
- `payment_event_race`: the worker that decrypts a paid onionskin flushes the
  event itself. Two threads may then add to the buffers of the control
  connections at once, which `control_event_logmsg` warns against.
- `conflux_loss`: `cfx_del_leg` means to tear the set down when the lost leg still
  had data in flight, but asks for a whole SENDME's worth. With less, and another
  leg in use, the set goes on with a hole in the sequence which nothing fills.
  `LossBounded` is what the code does guarantee.

Seen while modelling, and not runs of their own. FORCE_IMMEDIATE writes
`circ->state` directly, past `circuit_set_state`: a circuit in ONIONSKIN_PENDING
stays in the onion queue when it is freed (`OnionRefsValid` fails under
`ForceSpec`). The comments above
`unlinked_circuit_closed` and in `conflux_circuit_has_closed` say that the set is
finalised after the leg is deleted. The code only launches another leg; when
launches are used up and all legs left have linked, nothing finalises the set.
`SetLinks` names that state (`LeftUnfinalised`) as its one exception.
`launch_new_set` says a failed launch cleans up the unlinked set; the legs already
launched stay.

## Proofs

Eight modules hold theorems; `PROJECT.json` lists the results. Each component has
one inductive invariant, stated with its module as `IInv` and checked by TLC on
the runs' instances before it was proved. The proofs have one lemma per action,
with one step per conjunct the action can disturb, and hold for every value of
the constants that satisfies the module's `ASSUME`.

`CircuitLifecycleProofs`: any finite set of circuits, any sets of channels and
ids (`ConstantsAssumption`: NULL and RESERVED are not circuits, slots or channels;
the two id halves are disjoint; `max_pending_tasks` is positive). `Invariance` is
`Spec => []IInv`, and every safety property of the run `core` follows:
`TypeCorrect`, `LinksAgree`, `MuxCorrect`, `IdsReserved`, `ListsCorrect`,
`NoFreedOnionRef`, `NoFreedChannelRef`, `WaitsAreAnswered`; `TasksCorrect`, which
needs cardinalities, is proved on its own; `Refinement` says that the module
implements `CircIds`. The properties need one another: that an id reserved by a
placeholder has one DESTROY only holds because a slot still linked has none
(`NoDeletePending`: in the core a DESTROY is always queued in the step that
unlinks), that a freed object can be reused needs it to be clean (`FreedClean`),
and that closing a channel unlinks every circuit on it needs the circuitmux and
the map to agree.

`TeardownProofs`: TEARDOWNCIRCUIT breaks `NoDeletePending` and with it the exact
count of DESTROY cells, so the invariant is in two parts. `BaseInv` has all that
does not depend on the count; the lemmas of `CircuitLifecycleProofs` prove it of
every action from `BaseInv` alone, and here it is proved of TEARDOWNCIRCUIT `<id>`
and `ALL`, too (`TeardownInvariance`). So a reservation always has a DESTROY that
will release it, no circuit is missing from the list that
serves it, the circuitmux stays exact, and no reference dangles
(`TeardownReservations`, `TeardownLists`, `TeardownMux`, `TeardownReferences`,
`TeardownTasks`, `TeardownTakesFree`). What is left out is what the run
`teardown_id_reuse` shows to fail.

`HandshakesProofs`: any finite set of circuits and threads, any number of
rotations and any limits. `IInv` has, beside the properties themselves, where a
handshake can be (`PlacesDisjoint`: in one of the queues, with the pool, with one
thread, or answered, and nowhere twice), what a thread holds at each place of
`worker_thread_main` (`ThreadsExact`), which fields of the circuit refer to it
(`CircuitRefs`, `ChannelOfQueued`), and how far the tap turn has got
(`TurnCounted`). `NoIdleWorker` and `NoLostAlert` are the two wakeups: a thread
sleeps through no key update, and while jobs outnumber the threads about to look for
work no thread sleeps; an answer waits only with the alert socket readable, a thread
about to make it so, or the main thread still emptying the reply queue. `KeysAreFresh` is an
action property.

`PaidCircuitProofs`: commands and circuits of any length. That one command pays
every hop (`PaidHops`) needs that, until the circuit is extended again, the
payments kept are those of the path, whichever of the handler's exits was taken.

`PaymentEventsProofs`: any threads and events, no assumption. A queued event
always has a flush to come (`EventsFlushed`) and none is written twice
(`EventsOnce`): what the handler is for holds, and it is only the ownership of the
buffers that it breaks. The invariant adds that the pending flag is never set
without an active flush event, that a thread that is not flushing holds no
events, and that only raised events are anywhere.

`ConfluxProofs`: any number of legs, retries, cells and losses, any SENDME
increment (`ConfluxAssumption`). `ConfluxTypes`, `ConfluxLegsAgree`,
`ConfluxCurrLegAhead` and `ConfluxFirstLegMeasured`. No field of one end says what
the other end knows, so the invariant speaks of the wires: LINK and LINKED are the
first cells of their direction and carry zeros (`LinkCells`), every numbered
cell finds its leg linked, and comes to the exit behind a LINKED_ACK unless that
has arrived (`CellsLinked`), nobody answers before the client has sent
(`SendersFirst`), a set that has received still has a leg that did
(`LegsCounted`; here the proof needs that a full teardown follows when the leg
with the highest number goes), and what is in flight covers the DATA on the way,
received but not acknowledged, and acknowledged by SENDMEs on the way
(`InflightCovers`; without it a SENDME could take the counter below zero).
The lemmas of the module say what appending to, taking from and breaking a wire
does to its cells and to how many there are of a kind.

`ConfluxOrderProofs`: the same constants. `FlowInv` adds to `IInv` where every cell
is and under which number (`ConfluxFlow`: `Spec => []FlowInv`).
- `CellsNumbered`: the count of the receiver, carried on along the wire of a leg
  (`Counting`), gives each cell its number and ends at what the sender has
  counted. `Send` keeps it because the leg in use has sent the last cell
  (`CurrLegLast`), so that the SWITCH carries what the other leg missed; linking
  keeps it because nothing is counted before the first cell (`StartsAtZero`).
- `CellsOnce`: a cell on its way was sent on that leg, is on the wire once, and
  was neither delivered nor put in the queue. Without it the same number could be
  released twice.
- `DeliveredInOrder`: what was delivered is 1, 2, 3 and so on, and what waits has
  a number further on, behind a hole.
- `UnreceivedBounded`: DATA that has not come is covered by what its leg has in
  flight, which is less than a SENDME's worth when the leg is dropped alone.

From it follow `ConfluxSeqExact`, `ConfluxLossBounded` and, one step of the set
being one cell sent, some cells delivered in order, or a stutter (`StreamSteps`),
the refinements `ConfluxFromClient` and `ConfluxFromExit`. So the sequence numbers
are exact, and streams ordered, for any number of legs, cells, closes and breaks.

One state had to be found before the invariant was inductive. The client may have
replaced a leg before the set was linked, with the LINK of the old leg, and the
DESTROY behind it, still under way. If that LINK arrives when the exit's set has come
and gone, the exit makes a new set which counts from 0 while the history of the flow
does not (`Renewed`). The client uses no leg of that set, so no numbered cell comes
on it; this is part of `DeliveredInOrder`. It is also why `TornDown` says that no
leg is left at both ends: that an end has no leg at all would miss such a pair of
sets.

`DataLemmas` has, of sequences without duplicates, what appending, taking the head
and removing an element do to sets and lengths; induction over sets of naturals,
and the existence of functions defined by primitive recursion, both from the
theorem of the library that `<` is well founded. With it, what a recursive function
such as `Counting` computes is proved by forming the set of numbers for which the
claim holds.

Only model-checked: the liveness properties, `MarkedIsFreed`, `WaitEnds`,
`ReservedIsReleasedOnCh1`, `BuildEnds`, `JobsAnswered`, `QueueMoves`, `CellsSettle` and
`SetLinks`, since fairness and ENABLED are out of the prover's reach. Every safety
property, action property and refinement that a passing run checks is a theorem.
What the violated runs show needs no proof: their traces are the evidence.

## Plan

1. Done: the modules `CircuitLifecycle`, `CircIds`, `Teardown`, `PaidCircuit`,
   `Workqueue`, `Handshakes`, `PaymentEvents`, `Conflux`, `OrderedStream`, with their
   runs, and the proofs of every safety property and refinement of the passing
   runs.
2. Next, if the models grow: FORCE_IMMEDIATE as part of `Teardown`'s `Spec` once the
   code goes through `circuit_set_state`; the idle timeout of an unlinked conflux
   set, so that `SetLinks` can drop its exception; several channels to
   one relay.

## Not modelled

- Payment payloads (`feature/payment/payment_util.c`, the payhash in EXTEND cells):
  how concatenated hashes are cut is formatting at the level of bytes; the models
  have one payment per hop.
- Which circuit an id without a channel names (TEARDOWNCIRCUIT, the payment
  event's ids): `Teardown` lets the command name any circuit.
- Queued relay cells, the circuitmux policy, blocked circuits, streams, SENDME
  windows of streams, congestion control: they decide when a cell is sent, which
  the models leave open.
- Several channels to one relay, listeners, rendezvous splicing, cannibalising.
- Guards, directory, hidden services, and everything else inherited from Tor that
  the paid circuits do not touch: each is a system of its own, with no state in
  common with the modules here but circuits that open, close or fail.
- `LOGALLCIRCUITS` changes no state; the Rust crate is declarations and a build
  script; libevent is a vendored library.
