------------------------------ MODULE Conflux -------------------------------
(* One conflux set (core/or/conflux.c, conflux_pool.c): a client and an exit *)
(* tie several circuits, the legs, together and spread one ordered flow of   *)
(* relay cells over them.                                                    *)
(*   Linking: the client launches the legs and sends LINK on each; the exit  *)
(* puts the leg in its set at once and answers LINKED; the client puts its   *)
(* legs in the set when LINKED came on all of them.                          *)
(*   Sending: each cell goes on one leg; when the leg changes, a SWITCH tells *)
(* the other end how many cells went elsewhere in between.                   *)
(*   Receiving: each leg counts, so every cell has a number; a cell ahead of *)
(* its turn waits in ooo_q.                                                  *)
(*   Losing a leg: the set goes on without it, or is torn down.              *)
(* Abstractions: which leg is fastest and whether it may send (RTT, cwnd,    *)
(* blocked channels) is any choice over the legs with a measured RTT;        *)
(* cells_until_switch is 0 throughout the code, so prev_leg never matters;   *)
(* in_full_teardown holds only inside the call that empties the set.         *)
EXTENDS Integers, Sequences, FiniteSets, SequencesExt, FiniteSetsExt

CONSTANTS
  NumLegsSet,   \* legs a new set is launched with
  MaxRetry,     \* launches allowed beyond them
  MaxLegsSet,   \* legs a set may have
  SendmeInc,    \* DATA cells acknowledged by one SENDME
  MaxSent,      \* bound: cells the two ends send
  MaxCloses,    \* bound: legs that break or are closed on their own account
  NULL

MaxLaunch == NumLegsSet + MaxRetry
Leg == 1..MaxLaunch
End == {"client", "exit"}
Other(e) == IF e = "client" THEN "exit" ELSE "client"

ASSUME ConfluxAssumption ==
  /\ NumLegsSet \in Nat \ {0} /\ MaxRetry \in Nat
  /\ MaxLegsSet \in Nat /\ NumLegsSet <= MaxLegsSet
  /\ SendmeInc \in Nat \ {0}
  /\ MaxSent \in Nat /\ MaxCloses \in Nat
  /\ NULL \notin Leg

VARIABLES
  circ,           \* the circuit of a leg at an end: "none", "building", "open", "closed"
  unlinked,       \* legs of the client's unlinked set
  link,           \* the LINKED an unlinked leg got, or NULL
  num_leg_launch,
  legs,           \* legs of an end's linked set
  curr_leg,
  measured,       \* legs with a RTT (circ_rtts_usec # 0)
  last_seq_sent, last_seq_recv, inflight,
  unacked,        \* DATA cells received since the last SENDME was sent
  last_seq_delivered, ooo_q,
  wire,           \* cells an end has sent on a leg that have not arrived
  sent,           \* history: the leg and command of every cell sent
  delivered,      \* history: the numbers of the cells given to the streams
  closes          \* legs that broke or were closed so far

pool == <<unlinked, link, num_leg_launch>>
flow == <<last_seq_sent, last_seq_recv, inflight, unacked,
          last_seq_delivered, ooo_q, sent, delivered>>
vars == <<circ, pool, legs, curr_leg, measured, flow, wire, closes>>

Cell == [cmd : {"LINK", "LINKED"}, last_seqno_sent : Nat, last_seqno_recv : Nat]
        \cup [cmd : {"LINKED_ACK", "SENDME", "DESTROY"}]
        \cup [cmd : {"SWITCH"}, relative_seq : Nat]
        \cup [cmd : {"DATA", "OTHER"}, no : Nat]
Multiplexed(cell) == cell.cmd \in {"DATA", "OTHER"}

AllLegs(value) == [e \in End |-> [l \in Leg |-> value]]

Init ==
  /\ circ = AllLegs("none")
  /\ unlinked = {} /\ link = [l \in Leg |-> NULL] /\ num_leg_launch = 0
  /\ legs = [e \in End |-> {}] /\ measured = [e \in End |-> {}]
  /\ curr_leg = [e \in End |-> NULL]
  /\ last_seq_sent = AllLegs(0) /\ last_seq_recv = AllLegs(0)
  /\ inflight = AllLegs(0) /\ unacked = AllLegs(0)
  /\ last_seq_delivered = [e \in End |-> 0] /\ ooo_q = [e \in End |-> {}]
  /\ wire = AllLegs(<< >>)
  /\ sent = [e \in End |-> << >>] /\ delivered = [e \in End |-> << >>]
  /\ closes = 0

\* An arriving cell takes its place at the head of the wire of the other end.
Arrives(e, l, cmds) ==
  /\ circ[e][l] = "open"
  /\ wire[Other(e)][l] # << >>
  /\ Head(wire[Other(e)][l]).cmd \in cmds

Broken(cells) == \E i \in DOMAIN cells : cells[i].cmd = "DESTROY"

\* Cells put on a leg; none arrives when the leg is broken or the other end
\* has closed it.
Put(w, e, l, cells) ==
  IF circ[Other(e)][l] = "open" /\ ~Broken(w[e][l])
  THEN [w EXCEPT ![e][l] = @ \o cells] ELSE w

\* The wires after e took the first cell from leg l and put some on it.
Taken(e, l, answers) == Put([wire EXCEPT ![Other(e)][l] = Tail(@)], e, l, answers)

MaxOver(legset, seqs) == Max({0} \cup {seqs[l] : l \in legset})

-----------------------------------------------------------------------------
\* Linking.

\* launch_new_set.  A circuit that cannot be established is marked for close on
\* the spot, which launches again from inside the call: a call spends launches
\* until one succeeds or none is left, and the first failure ends the loop.
LaunchSet ==
  /\ circ = AllLegs("none") /\ num_leg_launch = 0
  /\ \/ unlinked' = 1..NumLegsSet /\ num_leg_launch' = NumLegsSet
     \/ \E ok \in 1..(NumLegsSet - 1) :
          \/ unlinked' = 1..ok /\ num_leg_launch' = MaxLaunch
          \/ \E last \in (ok + 2)..MaxLaunch :
               unlinked' = 1..ok \cup {last} /\ num_leg_launch' = last
  /\ circ' = [circ EXCEPT !["client"] =
                [l \in Leg |-> IF l \in unlinked' THEN "building" ELSE "none"]]
  /\ UNCHANGED <<link, legs, curr_leg, measured, flow, wire, closes>>

\* conflux_circuit_has_opened: the LINK goes out.
Opened(l) ==
  /\ circ["client"][l] = "building"
  /\ circ' = [e \in End |-> [circ[e] EXCEPT ![l] = "open"]]
  /\ wire' = [wire EXCEPT !["client"][l] =
       << [cmd |-> "LINK",
           last_seqno_sent |-> MaxOver(legs["client"], last_seq_sent["client"]),
           last_seqno_recv |-> last_seq_delivered["client"]] >>]
  /\ UNCHANGED <<pool, legs, curr_leg, measured, flow, closes>>

\* Mutant: one SENDME's worth of DATA may be lost.
InFlightBeyond(e, l) == inflight[e][l] > SendmeInc
InFlight(e, l) == inflight[e][l] >= SendmeInc

HadHighestSeq(e, l) ==
  LET rest == legs[e] \ {l} IN
  /\ rest # {}
  /\ \/ MaxOver(rest, last_seq_sent[e]) < last_seq_sent[e][l]
     \/ MaxOver(rest, last_seq_recv[e]) < last_seq_recv[e][l]

\* cfx_del_leg: does the set go when its leg l goes?
FullTeardown(e, l) ==
  l \in legs[e] /\ (InFlight(e, l) \/ curr_leg[e] = l \/ HadHighestSeq(e, l))

\* The legs e closes when l goes: conflux_circuit_has_closed and, for a full
\* teardown, conflux_mark_all_for_close.

Going(e, l) == {l} \cup (IF FullTeardown(e, l) THEN legs[e] ELSE {})

\* circuit_clear_cell_queue: what is not on the channel yet when the circuit
\* is freed goes, and a DESTROY comes instead.
Cut(cells, n) ==
  IF Broken(cells) THEN cells ELSE SubSeq(cells, 1, n) \o << [cmd |-> "DESTROY"] >>

\* What becomes of the wires when e closes the legs S (circuit_about_to_free).
HungUp(e, S, keep) ==
  [f \in End |-> [l \in Leg |->
     IF l \notin S THEN wire[f][l]
     ELSE IF f = e /\ circ[Other(e)][l] = "open" THEN Cut(wire[f][l], keep[l])
     ELSE << >>]]

\* circuitmux_get_first_active_circuit, here and at every relay: a DESTROY does
\* not wait for the cells queued on the circuit, any number of which is dropped.
Keeps(e, S) ==
  {keep \in [S -> 0..MaxOver(S, [l \in Leg |-> Len(wire[e][l])])] :
     \A l \in S : keep[l] <= Len(wire[e][l])}

Without(f, e, S) == [f EXCEPT ![e] = [l \in Leg |-> IF l \in S THEN 0 ELSE @[l]]]

\* Mutant: the leg is launched again, and the lost one still waited for.
RelaunchKeepsLost(l, n) ==
  IF l \in unlinked
  THEN /\ link' = [link EXCEPT ![l] = NULL]
       /\ unlinked' = unlinked \cup ({n} \ {NULL})
       /\ num_leg_launch' = IF n = NULL THEN MaxLaunch ELSE n
  ELSE n = NULL /\ UNCHANGED pool

\* unlinked_circuit_closed: a client launches another leg if the set has others.
Relaunch(l, n) ==
  IF l \in unlinked
  THEN /\ link' = [link EXCEPT ![l] = NULL]
       /\ \/ /\ unlinked = {l} /\ n = NULL
             /\ unlinked' = {} /\ UNCHANGED num_leg_launch
          \/ /\ unlinked # {l}
             /\ unlinked' = (unlinked \ {l}) \cup ({n} \ {NULL})
             /\ num_leg_launch' = IF n = NULL THEN MaxLaunch ELSE n
  ELSE n = NULL /\ UNCHANGED pool

\* Circuit l of end e is closed.
Close(e, l) ==
  LET S == Going(e, l) IN
  \E n \in (num_leg_launch + 1)..MaxLaunch \cup {NULL} :
  \E keep \in Keeps(e, S) :
    /\ IF e = "client" THEN Relaunch(l, n) ELSE n = NULL /\ UNCHANGED pool
    /\ circ' = [circ EXCEPT ![e] = [m \in Leg |->
                  IF m \in S THEN "closed" ELSE IF m = n THEN "building" ELSE @[m]]]
    /\ legs' = [legs EXCEPT ![e] = @ \ S]
    /\ measured' = [measured EXCEPT ![e] = @ \ S]
    /\ curr_leg' = [curr_leg EXCEPT ![e] = IF @ \in S THEN NULL ELSE @]
    /\ last_seq_sent' = Without(last_seq_sent, e, S)
    /\ last_seq_recv' = Without(last_seq_recv, e, S)
    /\ inflight' = Without(inflight, e, S)
    /\ unacked' = Without(unacked, e, S)
    /\ wire' = HungUp(e, S, keep)
    /\ UNCHANGED <<last_seq_delivered, ooo_q, sent, delivered>>

MarkForClose(e, l) ==
  /\ closes < MaxCloses /\ closes' = closes + 1
  /\ circ[e][l] \in {"building", "open"}
  /\ Close(e, l)

ReceiveDestroy(e, l) ==
  /\ Arrives(e, l, {"DESTROY"})
  /\ Close(e, l)
  /\ UNCHANGED closes

\* A relay of the leg is gone: what it held is lost, both ends get a DESTROY.
LegBreaks(l) ==
  /\ closes < MaxCloses /\ closes' = closes + 1
  /\ \A e \in End : circ[e][l] = "open" /\ ~Broken(wire[e][l])
  /\ \E keep \in [End -> 0..Max({Len(wire[e][l]) : e \in End})] :
       /\ \A e \in End : keep[e] <= Len(wire[e][l])
       /\ wire' = [e \in End |-> [wire[e] EXCEPT ![l] = Cut(@, keep[e])]]
  /\ UNCHANGED <<circ, pool, legs, curr_leg, measured, flow>>

\* conflux_process_link: the exit adds the leg to its set, new if it has none,
\* before it answers, so that a BEGIN overtaking the LINKED_ACK finds it.
Accepted(l) == Cardinality(legs["exit"] \cup {l}) <= MaxLegsSet

ReceiveLink(l) ==
  LET cell == Head(wire["client"][l])
      new == legs["exit"] = {}
      seq_delivered == IF new THEN 0 ELSE last_seq_delivered["exit"] IN
  /\ Arrives("exit", l, {"LINK"})
  /\ Accepted(l)
  /\ legs' = [legs EXCEPT !["exit"] = @ \cup {l}]
  /\ last_seq_sent' = [last_seq_sent EXCEPT !["exit"][l] = cell.last_seqno_recv]
  /\ last_seq_recv' = [last_seq_recv EXCEPT !["exit"][l] = cell.last_seqno_sent]
  /\ last_seq_delivered' = [last_seq_delivered EXCEPT !["exit"] = seq_delivered]
  /\ ooo_q' = [ooo_q EXCEPT !["exit"] = IF new THEN {} ELSE @]
  /\ wire' = Taken("exit", l,
       << [cmd |-> "LINKED",
           last_seqno_sent |-> MaxOver(legs["exit"], last_seq_sent["exit"]),
           last_seqno_recv |-> seq_delivered] >>)
  /\ UNCHANGED <<circ, pool, curr_leg, measured, inflight, unacked, sent,
                 delivered, closes>>

\* try_finalize_set: no room for another leg, so its circuit is closed.
RefuseLink(l) ==
  /\ Arrives("exit", l, {"LINK"})
  /\ ~Accepted(l)
  /\ Close("exit", l)
  /\ UNCHANGED closes

\* conflux_process_linked and try_finalize_set at the client, which has at most
\* NumLegsSet legs in all, none with a last_seqno_sent above 0: an exit sends
\* only what answers a BEGIN.  A RTT above the circuit build timeout closes the
\* leg instead (MarkForClose).
Joining(l) == {m \in unlinked : m = l \/ link[m] # NULL}
\* Mutant: the first LINKED makes the set.
FinalizesAtOnce(l) == TRUE
Finalizes(l) == Joining(l) = unlinked

\* Mutant: only the LINKED that completes the set is acknowledged.
LinkedAckOfLast(l) ==
  IF Finalizes(l) THEN << [cmd |-> "LINKED_ACK"] >> ELSE << >>
LinkedAck(l) == << [cmd |-> "LINKED_ACK"] >>

ReceiveLinked(l) ==
  LET links == [link EXCEPT ![l] = Head(wire["exit"][l])]
      joining == IF Finalizes(l) THEN Joining(l) ELSE {} IN
  /\ Arrives("client", l, {"LINKED"})
  /\ wire' = Taken("client", l, LinkedAck(l))
  /\ legs' = [legs EXCEPT !["client"] = @ \cup joining]
  /\ measured' = [measured EXCEPT !["client"] = @ \cup joining]
  /\ last_seq_sent' = [last_seq_sent EXCEPT !["client"] =
       [m \in Leg |-> IF m \in joining THEN links[m].last_seqno_recv ELSE @[m]]]
  /\ last_seq_recv' = [last_seq_recv EXCEPT !["client"] =
       [m \in Leg |-> IF m \in joining THEN links[m].last_seqno_sent ELSE @[m]]]
  /\ unlinked' = unlinked \ joining
  /\ link' = [m \in Leg |-> IF m \in joining THEN NULL ELSE links[m]]
  /\ num_leg_launch' = IF Finalizes(l) THEN 0 ELSE num_leg_launch
  /\ UNCHANGED <<circ, curr_leg, inflight, unacked, last_seq_delivered, ooo_q,
                 sent, delivered, closes>>

\* conflux_process_linked_ack: the exit has its RTT of the leg.
ReceiveLinkedAck(l) ==
  /\ Arrives("exit", l, {"LINKED_ACK"})
  /\ measured' = [measured EXCEPT !["exit"] = @ \cup {l}]
  /\ wire' = Taken("exit", l, << >>)
  /\ UNCHANGED <<circ, pool, legs, curr_leg, flow, closes>>

-----------------------------------------------------------------------------
\* Sending: relay_send_command_from_edge with conflux_decide_circ_for_send and
\* conflux_note_cell_sent.

\* Mutant: the first leg is picked anew for every cell.
FirstLegsEachTime(e) == IF measured[e] # {} THEN measured[e] ELSE legs[e]

\* conflux_pick_first_leg: the fastest leg with a RTT; failing that, any.
FirstLegs(e) ==
  IF curr_leg[e] # NULL THEN {curr_leg[e]}
  ELSE IF measured[e] # {} THEN measured[e] ELSE legs[e]

\* When no leg is ready a cell that is not DATA stays on the current leg.
NextLegs(e, curr, cmd) == measured[e] \cup (IF cmd = "OTHER" THEN {curr} ELSE {})

\* Mutant: the difference taken the other way round.
RelativeSeqBack(e, prev, curr) == last_seq_sent[e][curr] - last_seq_sent[e][prev]
RelativeSeq(e, prev, curr) == last_seq_sent[e][prev] - last_seq_sent[e][curr]

\* Mutants: the SWITCH counts the cell that follows it; none is sent.
SwitchCountsNext(e, prev, curr) ==
  IF prev = curr THEN << >>
  ELSE << [cmd |-> "SWITCH", relative_seq |-> RelativeSeq(e, prev, curr) + 1] >>
SwitchNever(e, prev, curr) == << >>

Switch(e, prev, curr) ==
  IF prev = curr THEN << >>
  ELSE << [cmd |-> "SWITCH", relative_seq |-> RelativeSeq(e, prev, curr)] >>

\* connection_ap_handshake_send_begin: the client opens a stream with BEGIN, DATA
\* comes after; the exit answers CONNECTED (connection_edge_finished_connecting).
MaySend(e, cmd) ==
  /\ legs[e] # {} /\ Len(sent["client"]) + Len(sent["exit"]) < MaxSent
  /\ sent[e] = << >> => cmd = "OTHER"
  /\ e = "exit" => last_seq_delivered["exit"] > 0

Send(e, cmd) ==
  /\ MaySend(e, cmd)
  /\ \E prev \in FirstLegs(e) : \E curr \in NextLegs(e, prev, cmd) :
       /\ curr_leg' = [curr_leg EXCEPT ![e] = curr]
       /\ last_seq_sent' = [last_seq_sent EXCEPT ![e][curr] = last_seq_sent[e][prev] + 1]
       /\ wire' = Put(wire, e, curr, Switch(e, prev, curr)
                        \o << [cmd |-> cmd, no |-> Len(sent[e]) + 1] >>)
       /\ inflight' = [inflight EXCEPT ![e][curr] = IF cmd = "DATA" THEN @ + 1 ELSE @]
       /\ sent' = [sent EXCEPT ![e] = Append(@, [leg |-> curr, cmd |-> cmd])]
  /\ UNCHANGED <<circ, pool, legs, measured, last_seq_recv, unacked,
                 last_seq_delivered, ooo_q, delivered, closes>>

-----------------------------------------------------------------------------
\* Receiving.

\* conflux_process_switch_command.
ReceiveSwitch(e, l) ==
  /\ Arrives(e, l, {"SWITCH"})
  /\ last_seq_recv' = [last_seq_recv EXCEPT
                         ![e][l] = @ + Head(wire[Other(e)][l]).relative_seq]
  /\ wire' = Taken(e, l, << >>)
  /\ UNCHANGED <<circ, pool, legs, curr_leg, measured, last_seq_sent, inflight,
                 unacked, last_seq_delivered, ooo_q, sent, delivered, closes>>

\* sendme_circuit_consider_sending: DATA is acknowledged on the leg it came on,
\* whether or not it is its turn.
AckDue(e, l, cell) == cell.cmd = "DATA" /\ unacked[e][l] + 1 = SendmeInc

\* Mutant: one cell of the queue is taken, not all that are ready.
UpToOnce(e, queue) ==
  last_seq_delivered[e] + Cardinality({c \in queue : c.seq = last_seq_delivered[e] + 1})

\* conflux_dequeue_cell until it finds a hole: the number it gets to.
UpTo(e, queue) ==
  LET first == last_seq_delivered[e] + 1 IN
  Max({first - 1} \cup
      {last \in first..(first + Cardinality(queue)) :
         first..last \subseteq {c.seq : c \in queue}})

\* conflux_process_cell.
\* A number below the next one would close the leg (a BUG there; SeqExact).
ReceiveCell(e, l) ==
  LET cell == Head(wire[Other(e)][l])
      seq == last_seq_recv[e][l] + 1
      queue == ooo_q[e] \cup {[seq |-> seq, no |-> cell.no]}
      upto == UpTo(e, queue)
      NoOf(i) == (CHOOSE c \in queue : c.seq = i).no IN
  /\ Arrives(e, l, {"DATA", "OTHER"})
  /\ last_seq_recv' = [last_seq_recv EXCEPT ![e][l] = seq]
  /\ unacked' = [unacked EXCEPT ![e][l] =
       IF AckDue(e, l, cell) THEN 0 ELSE IF cell.cmd = "DATA" THEN @ + 1 ELSE @]
  /\ wire' = Taken(e, l, IF AckDue(e, l, cell) THEN << [cmd |-> "SENDME"] >> ELSE << >>)
  /\ last_seq_delivered' = [last_seq_delivered EXCEPT ![e] = upto]
  /\ ooo_q' = [ooo_q EXCEPT ![e] = {c \in queue : c.seq > upto}]
  /\ delivered' = [delivered EXCEPT ![e] =
       @ \o [i \in 1..(upto - last_seq_delivered[e]) |-> NoOf(last_seq_delivered[e] + i)]]
  /\ UNCHANGED <<circ, pool, legs, curr_leg, measured, last_seq_sent, inflight,
                 sent, closes>>

\* A SENDME also brings a new RTT (conflux_update_rtt).
ReceiveSendme(e, l) ==
  /\ Arrives(e, l, {"SENDME"})
  /\ inflight' = [inflight EXCEPT ![e][l] = @ - SendmeInc]
  /\ measured' = [measured EXCEPT ![e] = @ \cup {l}]
  /\ wire' = Taken(e, l, << >>)
  /\ UNCHANGED <<circ, pool, legs, curr_leg, last_seq_sent, last_seq_recv, unacked,
                 last_seq_delivered, ooo_q, sent, delivered, closes>>

-----------------------------------------------------------------------------
Next ==
  \/ LaunchSet
  \/ \E l \in Leg :
       \/ Opened(l) \/ ReceiveLink(l) \/ RefuseLink(l) \/ ReceiveLinked(l)
       \/ ReceiveLinkedAck(l) \/ LegBreaks(l)
  \/ \E e \in End, l \in Leg :
       \/ ReceiveSwitch(e, l) \/ ReceiveCell(e, l) \/ ReceiveSendme(e, l)
       \/ ReceiveDestroy(e, l) \/ MarkForClose(e, l)
  \/ \E e \in End, cmd \in {"DATA", "OTHER"} : Send(e, cmd)

Receive(e, l) ==
  \/ ReceiveDestroy(e, l) \/ ReceiveSwitch(e, l) \/ ReceiveCell(e, l) \/ ReceiveSendme(e, l)
  \/ e = "exit" /\ (ReceiveLink(l) \/ RefuseLink(l) \/ ReceiveLinkedAck(l))
  \/ e = "client" /\ ReceiveLinked(l)

\* While a cell can arrive or a circuit being built can open or fail, one of
\* these happens: the event loop does not stop on either side.  Nobody has to
\* send, and no leg has to break.
Fairness ==
  WF_vars(\E l \in Leg :
    \/ Opened(l) \/ (circ["client"][l] = "building" /\ MarkForClose("client", l))
    \/ \E e \in End : Receive(e, l))

Spec == Init /\ [][Next]_vars
FairSpec == Spec /\ Fairness

-----------------------------------------------------------------------------
TypeOK ==
  /\ circ \in [End -> [Leg -> {"none", "building", "open", "closed"}]]
  /\ unlinked \subseteq Leg /\ num_leg_launch \in 0..MaxLaunch
  /\ \A l \in Leg : link[l] # NULL => l \in unlinked /\ link[l] \in Cell
  /\ \A e \in End :
       /\ legs[e] \subseteq {l \in Leg : circ[e][l] = "open"}
       /\ measured[e] \subseteq legs[e] /\ curr_leg[e] \in legs[e] \cup {NULL}
       /\ \A l \in Leg : \A i \in DOMAIN wire[e][l] : wire[e][l][i] \in Cell
  /\ \A counter \in {last_seq_sent, last_seq_recv, inflight, unacked} :
       counter \in [End -> [Leg -> Nat]]

\* The numbers a receiver that stands at seq counts up to with each of the cells
\* (conflux_process_cell, conflux_process_switch_command).
Counted(seq, cell) ==
  IF Multiplexed(cell) THEN seq + 1
  ELSE IF cell.cmd = "SWITCH" THEN seq + cell.relative_seq
  ELSE seq

Counting(seq, cells) ==
  LET count[k \in 0..Len(cells)] ==
        IF k = 0 THEN seq ELSE Counted(count[k - 1], cells[k])
  IN count

\* The number the receiver of wire[e][l] will have counted up to after the
\* first k cells of it.
SeqAfter(e, l, k) == Counting(last_seq_recv[Other(e)][l], wire[e][l])[k]

\* Two ends that never exchange a sequence number agree on the number of every
\* cell: the one its receiver will count for it on whatever leg it travels is
\* its place in the order of sending, a SWITCH is due exactly for the rest, and
\* no cell comes whose turn is over.
SeqExact ==
  \A e \in End :
    /\ \A c \in ooo_q[e] : c.seq = c.no /\ c.seq > last_seq_delivered[e] + 1
    /\ \A l \in legs[e] \cap legs[Other(e)] :
         LET cells == wire[e][l] IN
         /\ \A k \in DOMAIN cells : Multiplexed(cells[k]) =>
              /\ SeqAfter(e, l, k) = cells[k].no
              /\ cells[k].no > last_seq_delivered[Other(e)]
         /\ ~Broken(cells) => SeqAfter(e, l, Len(cells)) = last_seq_sent[e][l]

\* The ends agree on the legs although each links at a moment of its own: a leg
\* the client sends on is in the exit's set however the LINKED_ACKs and the
\* first BEGIN race, no cell for a stream arrives on a circuit that is not
\* linked, and a linked client set has no unlinked leg left.
LegsAgree ==
  /\ \A l \in legs["client"] : circ["exit"][l] = "open" => l \in legs["exit"]
  /\ \A e \in End, l \in Leg :
       /\ circ[Other(e)][l] = "open"
       /\ \E i \in DOMAIN wire[e][l] : Multiplexed(wire[e][l][i])
       => l \in legs[Other(e)]
  /\ legs["client"] # {} => unlinked = {}

\* "tor_assert(cfx->prev_leg->last_seq_sent >= cfx->curr_leg->last_seq_sent)"
\* before the SWITCH: the leg in use is never behind another, or the unsigned
\* difference wraps.
CurrLegAhead ==
  \A e \in End : curr_leg[e] # NULL =>
    \A l \in legs[e] : RelativeSeq(e, curr_leg[e], l) >= 0

\* conflux_pick_first_leg never finds a set without a RTT ("BEGIN wins the
\* race"): when the exit has something to answer, the LINKED_ACK of a leg that
\* is still there has arrived.
FirstLegMeasured ==
  \A e \in End :
    legs[e] # {} /\ (e = "exit" => last_seq_delivered["exit"] > 0) => measured[e] # {}

-----------------------------------------------------------------------------
(* The inductive invariant behind TypeOK, LegsAgree, CurrLegAhead and          *)
(* FirstLegMeasured.                                                           *)

\* What TypeOK leaves open.
FieldTypes ==
  /\ legs \in [End -> SUBSET Leg] /\ measured \in [End -> SUBSET Leg]
  /\ curr_leg \in [End -> Leg \cup {NULL}]
  /\ link \in [Leg -> Cell \cup {NULL}]
  /\ last_seq_delivered \in [End -> Nat]
  /\ ooo_q \in [End -> SUBSET [seq : Nat, no : Nat]]
  /\ \A e \in End : IsFiniteSet(ooo_q[e])
  /\ wire \in [End -> [Leg -> Seq(Cell)]]
  /\ sent \in [End -> Seq([leg : Leg, cmd : {"DATA", "OTHER"}])]

\* A leg's circuit is built once.  The client's circuits are those of its
\* unlinked set, or else those of its linked one, and numbers not launched yet
\* have no circuit.
CircuitsInSets ==
  /\ \A l \in Leg :
       /\ circ["client"][l] = "open" => l \in unlinked \cup legs["client"]
       /\ circ["client"][l] = "building" => l \in unlinked
       /\ l \in unlinked => circ["client"][l] \in {"building", "open"}
       /\ circ["client"][l] \in {"none", "building"} =>
            /\ circ["exit"][l] = "none" /\ link[l] = NULL
            /\ \A e \in End : wire[e][l] = << >>
       /\ unlinked # {} /\ l > num_leg_launch => circ["client"][l] = "none"
  /\ unlinked # {} => legs["client"] = {} /\ sent["client"] = << >>
  /\ sent["client"] # << >> => \E l \in Leg : circ["client"][l] # "none"

\* LINK and LINKED are the first cells of their direction, sent before any cell
\* was numbered.
LegLinks(l) ==
  /\ \A i \in DOMAIN wire["client"][l] :
       /\ wire["client"][l][i].cmd # "LINKED"
       /\ wire["client"][l][i].cmd = "LINK" =>
            /\ i = 1 /\ link[l] = NULL
            /\ l \notin legs["client"] /\ l \notin legs["exit"]
            /\ \A k \in DOMAIN wire["exit"][l] : wire["exit"][l][k].cmd = "DESTROY"
            /\ wire["client"][l][i].last_seqno_sent = 0
            /\ wire["client"][l][i].last_seqno_recv = 0
  /\ \A i \in DOMAIN wire["exit"][l] :
       /\ wire["exit"][l][i].cmd \notin {"LINK", "LINKED_ACK"}
       /\ wire["exit"][l][i].cmd = "LINKED" =>
            /\ i = 1 /\ link[l] = NULL /\ l \in unlinked
            /\ circ["exit"][l] = "open" => l \in legs["exit"]
            /\ wire["exit"][l][i].last_seqno_recv = 0
  /\ link[l] # NULL => link[l].cmd = "LINKED" /\ link[l].last_seqno_recv = 0
  /\ (link[l] # NULL \/ l \in legs["client"]) /\ circ["exit"][l] = "open" =>
       l \in legs["exit"]

LinkCells == \A l \in Leg : LegLinks(l)

\* Every other cell but a DESTROY finds its leg linked, and what the client
\* sends on a leg comes behind its LINKED_ACK.
CellsLinked ==
  /\ \A e \in End, l \in Leg :
       circ[Other(e)][l] = "open" => \A i \in DOMAIN wire[e][l] :
         wire[e][l][i].cmd \notin {"LINK", "LINKED", "DESTROY"} => l \in legs[Other(e)]
  /\ \A l \in Leg :
       circ["exit"][l] = "open" =>
         /\ \A i \in DOMAIN wire["client"][l] :
              wire["client"][l][i].cmd \in {"SWITCH", "DATA", "OTHER"} =>
                \/ l \in measured["exit"]
                \/ \E k \in 1..(i - 1) : wire["client"][l][k].cmd = "LINKED_ACK"
         /\ (l \in legs["client"] \/ link[l] # NULL) /\ ~Broken(wire["client"][l]) =>
                \/ l \in measured["exit"]
                \/ \E k \in DOMAIN wire["client"][l] : wire["client"][l][k].cmd = "LINKED_ACK"

\* The exit sends nothing before the client has, and what was not sent is
\* neither counted nor delivered.
SendersFirst ==
  /\ sent["exit"] # << >> => sent["client"] # << >>
  /\ \A e \in End :
       /\ last_seq_delivered[Other(e)] > 0 => sent[e] # << >>
       /\ \A l \in Leg :
            /\ sent[e] = << >> => last_seq_sent[e][l] = 0
            /\ \A i \in DOMAIN wire[e][l] : Multiplexed(wire[e][l][i]) => sent[e] # << >>

\* Without a leg in use none has sent; a leg of the exit that received has its
\* RTT; and a set that received has a leg that did.
LegsCounted ==
  /\ \A e \in End : curr_leg[e] = NULL => \A l \in legs[e] : last_seq_sent[e][l] = 0
  /\ measured["client"] = legs["client"]
  /\ \A l \in legs["exit"] : last_seq_recv["exit"][l] > 0 => l \in measured["exit"]
  /\ last_seq_delivered["exit"] > 0 /\ legs["exit"] # {} =>
       \E l \in legs["exit"] : last_seq_recv["exit"][l] > 0

Count(cells, cmd) == Cardinality({i \in DOMAIN cells : cells[i].cmd = cmd})

\* DATA is counted in flight until its SENDME arrives.
InflightCovers ==
  \A e \in End, l \in Leg :
    circ[e][l] # "closed" =>
      inflight[e][l] >= SendmeInc * Count(wire[Other(e)][l], "SENDME")
                        + unacked[Other(e)][l] + Count(wire[e][l], "DATA")

IInv ==
  /\ TypeOK /\ FieldTypes /\ CircuitsInSets /\ LinkCells /\ CellsLinked
  /\ SendersFirst /\ LegsCounted /\ InflightCovers
  /\ CurrLegAhead

-----------------------------------------------------------------------------
\* Cells that are nowhere any more: neither delivered, nor waiting, nor on a wire.
Lost(e) ==
  {i \in (Len(delivered[Other(e)]) + 1)..Len(sent[e]) :
     /\ \A c \in ooo_q[Other(e)] : c.no # i
     /\ \A l \in Leg : \A k \in DOMAIN wire[e][l] :
          Multiplexed(wire[e][l][k]) => wire[e][l][k].no # i}

\* No leg is left at both ends: what they still have of the set is going, or is
\* a set of its own that a late LINK made.
TornDown == legs["client"] \cap legs["exit"] = {}

LostWith(e, l, cmds) ==
  {i \in Lost(e) : /\ sent[e][i].leg = l /\ sent[e][i].cmd \in cmds
                   /\ \A f \in End : circ[f][l] = "closed"}

\* A set that goes on after a leg is lost has lost less DATA with it than one
\* SENDME acknowledges.
LossBounded ==
  \A e \in End, l \in Leg :
    ~TornDown => Cardinality(LostWith(e, l, {"DATA"})) < SendmeInc

\* cfx_del_leg: "If the circuit still has inflight data, teardown".
NothingLost ==
  \A e \in End, l \in Leg : ~TornDown => LostWith(e, l, {"DATA"}) = {}

-----------------------------------------------------------------------------
(* The inductive invariant behind SeqExact, LossBounded and the streams: it     *)
(* is inductive together with IInv.                                            *)

\* A LINK of a leg the client gave up came when the exit's set was gone: the
\* exit has a new set, with no leg the client uses.
Renewed == last_seq_delivered["exit"] = 0 /\ delivered["exit"] # << >>

\* Nothing counts on either side before the first cell is sent.
StartsAtZero ==
  /\ \A e \in End, l \in Leg : sent[e] = << >> =>
       /\ last_seq_recv[Other(e)][l] = 0
       /\ \A i \in DOMAIN wire[e][l] : wire[e][l][i].cmd # "SWITCH"
  /\ \A l \in Leg :
       /\ \A i \in DOMAIN wire["exit"][l] :
            wire["exit"][l][i].cmd = "LINKED" => wire["exit"][l][i].last_seqno_sent = 0
       /\ link[l] # NULL => link[l].last_seqno_sent = 0

\* Cells were delivered, and wait, under the numbers they were sent with.
DeliveredInOrder ==
  /\ delivered \in [End -> Seq(Nat)]
  /\ \A e \in End :
       /\ delivered[e] = [i \in 1..Len(delivered[e]) |-> i]
       /\ Len(delivered[e]) <= Len(sent[Other(e)])
       /\ last_seq_delivered[e] = Len(delivered[e]) \/ (e = "exit" /\ Renewed)
       /\ \A c \in ooo_q[e] : /\ c.seq = c.no /\ c.seq > last_seq_delivered[e] + 1
                              /\ c.no <= Len(sent[Other(e)])
  /\ Renewed => \A l \in legs["exit"] :
       /\ l \notin legs["client"]
       /\ \A i \in DOMAIN wire["client"][l] : ~Multiplexed(wire["client"][l][i])
  /\ sent["exit"] # << >> => delivered["exit"] # << >>

\* The leg in use has sent the last cell.
CurrLegLast ==
  \A e \in End :
    /\ curr_leg[e] # NULL => last_seq_sent[e][curr_leg[e]] = Len(sent[e])
    /\ curr_leg[e] = NULL /\ legs[e] # {} /\ sent[e] # << >> => e = "exit" /\ Renewed

\* A cell on its way is one that was sent on that leg, once, and has not come.
CellsOnce ==
  \A e \in End, l \in Leg : \A i \in DOMAIN wire[e][l] :
    Multiplexed(wire[e][l][i]) =>
      LET cell == wire[e][l][i] IN
      /\ cell.no \in (Len(delivered[Other(e)]) + 1)..Len(sent[e])
      /\ sent[e][cell.no] = [leg |-> l, cmd |-> cell.cmd]
      /\ \A c \in ooo_q[Other(e)] : c.no # cell.no
      /\ \A j \in DOMAIN wire[e][l] :
           Multiplexed(wire[e][l][j]) /\ wire[e][l][j].no = cell.no => j = i

\* SeqExact as long as the receiver has the leg.
CellsNumbered ==
  \A e \in End, l \in Leg : l \in legs[Other(e)] =>
    /\ \A k \in DOMAIN wire[e][l] :
         Multiplexed(wire[e][l][k]) => SeqAfter(e, l, k) = wire[e][l][k].no
    /\ l \in legs[e] /\ ~Broken(wire[e][l]) =>
         SeqAfter(e, l, Len(wire[e][l])) = last_seq_sent[e][l]

\* DATA sent on a leg that has not come, be it on its way or lost.
Unreceived(e, l) ==
  {i \in (Len(delivered[Other(e)]) + 1)..Len(sent[e]) :
     sent[e][i] = [leg |-> l, cmd |-> "DATA"] /\ \A c \in ooo_q[Other(e)] : c.no # i}

\* What has not come is in flight, and a leg is not dropped from a set that
\* stays with a SENDME's worth in flight.
UnreceivedBounded ==
  \A e \in End, l \in Leg :
    /\ l \notin legs[e] => inflight[e][l] = 0
    /\ \/ TornDown
       \/ IF circ[e][l] = "closed" THEN Cardinality(Unreceived(e, l)) < SendmeInc
          ELSE inflight[e][l] >= SendmeInc * Count(wire[Other(e)][l], "SENDME")
                 + unacked[Other(e)][l] + Cardinality(Unreceived(e, l))

FlowInv ==
  /\ IInv /\ StartsAtZero /\ DeliveredInOrder /\ CurrLegLast /\ CellsOnce
  /\ CellsNumbered /\ UnreceivedBounded

-----------------------------------------------------------------------------
\* Each direction is an ordered stream, whatever the legs, the switches and the
\* losses.
ClientStream == INSTANCE OrderedStream WITH
  sent <- Len(sent["client"]), delivered <- delivered["exit"]
ExitStream == INSTANCE OrderedStream WITH
  sent <- Len(sent["exit"]), delivered <- delivered["client"]

FromClient == ClientStream!Spec
FromExit == ExitStream!Spec

\* Every cell sent is delivered in the end, unless the set is torn down or the
\* cell whose turn it is went with a lost leg: waiting is never for nothing.
Settled(e) ==
  LET turn == Len(delivered[Other(e)]) + 1 IN
  turn > Len(sent[e]) \/ TornDown \/ turn \in Lost(e)

CellsSettle == \A e \in End : []<>Settled(e)

\* Launches are used up and every leg left has its LINKED: no more comes for
\* this set, and unlinked_circuit_closed does not finalise it.
LeftUnfinalised ==
  num_leg_launch = MaxLaunch /\ \A l \in unlinked : link[l] # NULL

\* A set being linked ends up linked or gone however often a leg fails and is
\* launched again, with the last launch as with the first; the one way to stay is
\* to lose a leg that no launch is left for, when all others have linked.
SetLinks == unlinked # {} ~> unlinked = {} \/ LeftUnfinalised
=============================================================================
