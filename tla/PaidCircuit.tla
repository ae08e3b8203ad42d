----------------------------- MODULE PaidCircuit -----------------------------
(***************************************************************************)
(* One client circuit under the control command EXTENDPAIDCIRCUIT that     *)
(* El Tor adds (control_extendpaidcircuit.c), and the way its hops are     *)
(* then built and paid (circuitbuild.c, payment_util.c, relay_payments.c). *)
(*                                                                         *)
(* A command names relays with their payments, one per line.  A payment is *)
(* identified with the relay it is meant for; payloads have the length the *)
(* protocol prescribes, so payhashes is a sequence of payments.  The hops  *)
(* of cpath are opened in order: the first hops_open are open, and while   *)
(* "awaiting" holds the next one has been sent its handshake.              *)
(***************************************************************************)
EXTENDS Naturals, Sequences

CONSTANTS
  Relay,        \* relays with a usable descriptor
  BAD,          \* a line that is not <fingerprint> <payload>: skipped
  UNKNOWN,      \* a line naming no relay, or one without descriptor
  NONE,         \* no payment
  MaxLines,     \* bound: lines of one command
  MaxHops,      \* bound: hops of the circuit
  MaxPayhashes  \* payments that fit into max_payhash_size

ASSUME PaidAssumption ==
  /\ BAD \notin Relay /\ UNKNOWN \notin Relay /\ NONE \notin Relay
  /\ BAD # UNKNOWN
  /\ MaxLines \in Nat /\ MaxHops \in Nat /\ MaxPayhashes \in Nat

VARIABLES
  state,          \* circ->state, "none" when there is no circuit
  marked,         \* circ->marked_for_close
  n_hop,          \* waiting for the channel to the first hop (n_hop # NULL)
  cpath,          \* the relays of the path
  hops_open,      \* hops in CPATH_STATE_OPEN
  awaiting,       \* the next hop is in CPATH_STATE_AWAITING_KEYS
  payhashes,      \* circ->payhashes (<<>> for NULL)
  relay_payments, \* circ->relay_payments (<<>> for NULL)
  sent,           \* history: the payment sent with each hop's handshake
  reextended,     \* history: a later command touched the circuit
  crashed         \* the process is gone

buildVars == <<state, n_hop, hops_open, awaiting, sent>>
payVars   == <<payhashes, relay_payments>>
vars      == <<buildVars, payVars, marked, cpath, reextended, crashed>>

Line  == Relay \cup {BAD, UNKNOWN}
Lines == UNION {[1..k -> Line] : k \in 1..MaxLines}

TypeOK ==
  /\ state \in {"none", "CHAN_WAIT", "BUILDING", "GUARD_WAIT", "OPEN"}
  /\ marked \in BOOLEAN
  /\ n_hop \in BOOLEAN
  /\ cpath \in Seq(Relay)
  /\ hops_open \in 0..Len(cpath)
  /\ awaiting \in BOOLEAN
  /\ payhashes \in Seq(Relay)
  /\ relay_payments \in Seq(Relay)
  /\ sent \in Seq(Relay \cup {NONE})
  /\ Len(sent) = hops_open + (IF awaiting THEN 1 ELSE 0)
  /\ reextended \in BOOLEAN
  /\ crashed \in BOOLEAN

Init ==
  /\ state = "none" /\ marked = FALSE /\ n_hop = FALSE
  /\ cpath = <<>> /\ hops_open = 0 /\ awaiting = FALSE
  /\ payhashes = <<>> /\ relay_payments = <<>>
  /\ sent = <<>> /\ reextended = FALSE
  /\ crashed = FALSE

-----------------------------------------------------------------------------
(* The pieces of the command handler *)

\* The nodes the lines name.  payhashes and relay_payments get one entry for
\* each of them.
Nodes(lines) ==
  LET kept[k \in 0..Len(lines)] ==
        IF k = 0 THEN << >>
        ELSE IF lines[k] = BAD THEN kept[k - 1] ELSE Append(kept[k - 1], lines[k])
  IN kept[Len(lines)]

\* "No such router", "No descriptor" or "No valid nodes provided"
Rejected(lines) ==
  Nodes(lines) = <<>> \/ \E i \in DOMAIN lines : lines[i] = UNKNOWN

\* "Payment hash data exceeds maximum size"
Oversized(lines) == ~Rejected(lines) /\ Len(Nodes(lines)) > MaxPayhashes

Accepted(lines) == ~Rejected(lines) /\ ~Oversized(lines)

\* Mutant of Payment: the list is read as if hops were counted from zero.
PaymentFromZero(ph, rp, i) ==
  IF i = 1 THEN IF ph = <<>> THEN NONE ELSE ph[1]
  ELSE IF i - 1 <= Len(rp) THEN rp[i - 1] ELSE NONE

\* What hop i is sent when the circuit carries payhashes ph and payments rp:
\* the first hop the first entry of payhashes, any other hop the entry of
\* relay_payments that its place in the path selects.
Payment(ph, rp, i) ==
  IF i = 1 THEN IF ph = <<>> THEN NONE ELSE ph[1]
  ELSE IF i <= Len(rp) THEN rp[i] ELSE NONE

\* Mutant of SendFirst: the first hop is not put into AWAITING_KEYS.
SendFirstStaysClosed(ph) ==
  /\ state' = "BUILDING"
  /\ n_hop' = FALSE
  /\ sent' = <<Payment(ph, <<>>, 1)>>
  /\ UNCHANGED <<awaiting, hops_open>>

\* circuit_send_first_onion_skin
SendFirst(ph) ==
  /\ state' = "BUILDING"
  /\ n_hop' = FALSE
  /\ sent' = <<Payment(ph, <<>>, 1)>>
  /\ awaiting' = TRUE
  /\ hops_open' = 0

\* The circuit is there, and the controller may name it.
Known == state # "none" /\ ~marked /\ ~crashed

-----------------------------------------------------------------------------
(* EXTENDPAIDCIRCUIT *)

\* No lines, or an id that is no unmarked circuit: the handler jumps to "done"
\* over the declarations of payhashes and relay_payments and frees what these
\* hold: nothing happens, or the process crashes.
CommandRefused == ~crashed /\ crashed' \in BOOLEAN
                  /\ UNCHANGED <<buildVars, payVars, marked, cpath, reextended>>

\* "0": origin_circuit_init comes first.
NewCircuit(lines) == state = "none" /\ ~crashed /\ lines \in Lines

\* The lines are turned down; the new circuit stays.
NewRejected(lines) ==
  /\ NewCircuit(lines)
  /\ Rejected(lines) \/ Oversized(lines)
  /\ state' = "CHAN_WAIT"
  /\ payhashes' = IF Rejected(lines) THEN payhashes ELSE Nodes(lines)
  /\ UNCHANGED <<marked, n_hop, cpath, hops_open, awaiting, relay_payments, sent,
                 reextended, crashed>>

\* Payments stored; the hop after the first k has no usable extend_info.
NewHopUnusable(lines, k) ==
  /\ NewCircuit(lines) /\ Accepted(lines)
  /\ k < Len(Nodes(lines))
  /\ state' = "CHAN_WAIT"
  /\ marked' = TRUE
  /\ cpath' = SubSeq(Nodes(lines), 1, k)
  /\ payhashes' = Nodes(lines)
  /\ relay_payments' = Nodes(lines)
  /\ UNCHANGED <<reextended, n_hop, hops_open, awaiting, sent, crashed>>

\* Payments stored and hops appended; then circuit_handle_first_hop ...
NewAccepted(lines) ==
  /\ NewCircuit(lines) /\ Accepted(lines)
  /\ cpath' = Nodes(lines)
  /\ payhashes' = Nodes(lines)
  /\ relay_payments' = Nodes(lines)
  /\ UNCHANGED <<reextended, crashed>>

\* ... sends the first onion skin ...
NewSends(lines) ==
  /\ NewAccepted(lines)
  /\ SendFirst(Nodes(lines))
  /\ UNCHANGED marked

\* ... or waits for the channel ...
NewWaits(lines) ==
  /\ NewAccepted(lines)
  /\ state' = "CHAN_WAIT"
  /\ n_hop' = TRUE
  /\ UNCHANGED <<marked, hops_open, awaiting, sent>>

\* ... or fails.
NewFails(lines) ==
  /\ NewAccepted(lines)
  /\ state' = "CHAN_WAIT"
  /\ n_hop' \in BOOLEAN
  /\ marked' = TRUE
  /\ UNCHANGED <<hops_open, awaiting, sent>>

\* A known circuit and lines that would not make it longer than the bound.
OldCircuit(lines) ==
  Known /\ lines \in Lines /\ Len(cpath) + Len(Nodes(lines)) <= MaxHops

\* Too much payment data: payhashes is replaced all the same.
OldOversized(lines) ==
  /\ OldCircuit(lines) /\ Oversized(lines)
  /\ payhashes' = Nodes(lines)
  /\ reextended' = TRUE
  /\ UNCHANGED <<buildVars, relay_payments, marked, cpath, crashed>>

\* Both payment fields are replaced by those of the new hops, k of which are
\* appended.
Repaid(lines, k) ==
  /\ OldCircuit(lines) /\ Accepted(lines)
  /\ payhashes' = Nodes(lines)
  /\ relay_payments' = Nodes(lines)
  /\ cpath' = cpath \o SubSeq(Nodes(lines), 1, k)
  /\ reextended' = TRUE
  /\ UNCHANGED crashed

OldHopUnusable(lines, k) ==
  /\ k < Len(Nodes(lines))
  /\ Repaid(lines, k)
  /\ marked' = TRUE
  /\ UNCHANGED buildVars

\* A finished circuit goes back to BUILDING and sends the next onion skin.
OldSends(lines) ==
  /\ state \in {"OPEN", "GUARD_WAIT"}
  /\ Repaid(lines, Len(Nodes(lines)))
  /\ state' = "BUILDING"
  /\ awaiting' = TRUE
  /\ sent' = Append(sent, Payment(payhashes', relay_payments', hops_open + 1))
  /\ UNCHANGED <<n_hop, hops_open, marked>>

\* ... or circuit_send_next_onion_skin fails.
OldSendFails(lines) ==
  /\ state \in {"OPEN", "GUARD_WAIT"}
  /\ Repaid(lines, Len(Nodes(lines)))
  /\ state' = "BUILDING"
  /\ marked' = TRUE
  /\ UNCHANGED <<n_hop, hops_open, awaiting, sent>>

\* "Circuit is not in a state that can be extended": said after the fact.
OldNotReady(lines) ==
  /\ state \in {"CHAN_WAIT", "BUILDING"}
  /\ Repaid(lines, Len(Nodes(lines)))
  /\ UNCHANGED <<buildVars, marked>>

-----------------------------------------------------------------------------
(* Building the hops *)

\* circuit_n_chan_done: the channel to the first hop is open.
ChannelReady ==
  /\ Known /\ n_hop
  /\ SendFirst(payhashes)
  /\ UNCHANGED <<payVars, marked, cpath, reextended, crashed>>

\* A CREATED or EXTENDED cell answers the handshake, and
\* circuit_send_next_onion_skin goes on with the next hop or finishes the
\* circuit.  A relay that got no payment hash in the EXTEND never answers so.
HopAnswers ==
  /\ Known /\ awaiting
  /\ hops_open > 0 => sent[hops_open + 1] # NONE
  /\ hops_open' = hops_open + 1
  /\ IF hops_open' < Len(cpath)
     THEN /\ sent' = Append(sent, Payment(payhashes, relay_payments, hops_open + 2))
          /\ UNCHANGED <<state, awaiting>>
     ELSE /\ awaiting' = FALSE
          /\ state' \in {"OPEN", "GUARD_WAIT"}
          /\ UNCHANGED sent
  /\ UNCHANGED <<n_hop, payVars, marked, cpath, reextended, crashed>>

\* circuit_upgrade_circuits_from_guard_wait
GuardUsable ==
  /\ Known /\ state = "GUARD_WAIT"
  /\ state' = "OPEN"
  /\ UNCHANGED <<n_hop, hops_open, awaiting, sent, payVars, marked, cpath,
                 reextended, crashed>>

\* The channel cannot be made, a relay refuses or closes, the circuit is no
\* longer wanted.  A circuit that waits for nothing hears none of this.
CircuitFails ==
  /\ Known /\ (n_hop \/ awaiting \/ hops_open > 0)
  /\ marked' = TRUE
  /\ UNCHANGED <<buildVars, payVars, cpath, reextended, crashed>>

\* Mutant of ExpireBuilding: only the first hop is timed.
ExpireFirstHopOnly ==
  /\ Known
  /\ \/ cpath = <<>> /\ crashed' = TRUE /\ UNCHANGED marked
     \/ awaiting /\ hops_open = 0 /\ marked' = TRUE /\ UNCHANGED crashed
  /\ UNCHANGED <<buildVars, payVars, cpath, reextended>>

\* circuit_expire_building on an unmarked circuit: it reads cpath->state first,
\* leaves a circuit whose first hop has not been started alone, and closes one
\* that has been building for too long.
ExpireBuilding ==
  /\ Known
  /\ \/ cpath = <<>> /\ crashed' = TRUE /\ UNCHANGED marked
     \/ awaiting /\ marked' = TRUE /\ UNCHANGED crashed
  /\ UNCHANGED <<buildVars, payVars, cpath, reextended>>

\* circuit_close_all_marked
CircuitFreed ==
  /\ marked /\ ~crashed
  /\ state' = "none" /\ marked' = FALSE /\ n_hop' = FALSE
  /\ cpath' = <<>> /\ hops_open' = 0 /\ awaiting' = FALSE
  /\ payhashes' = <<>> /\ relay_payments' = <<>>
  /\ sent' = <<>> /\ reextended' = FALSE
  /\ UNCHANGED crashed

Command ==
  \/ CommandRefused
  \/ \E lines \in Lines :
       \/ NewRejected(lines) \/ NewSends(lines) \/ NewWaits(lines)
       \/ NewFails(lines) \/ OldOversized(lines) \/ OldSends(lines)
       \/ OldSendFails(lines) \/ OldNotReady(lines)
       \/ \E k \in 0..(MaxLines - 1) : NewHopUnusable(lines, k)
                                       \/ OldHopUnusable(lines, k)

Next ==
  \/ Command \/ ChannelReady \/ HopAnswers \/ GuardUsable \/ CircuitFails
  \/ ExpireBuilding \/ CircuitFreed

Spec == Init /\ [][Next]_vars

\* Fairness: a connection attempt ends, and circuit_expire_building runs every
\* second.
FairSpec ==
  /\ Spec
  /\ WF_vars(ChannelReady \/ (n_hop /\ CircuitFails))
  /\ WF_vars(ExpireBuilding)

-----------------------------------------------------------------------------
\* A circuit built by one command sends every hop the payment of its own relay,
\* whichever lines were skipped.
OneCommandPaysHops ==
  ~reextended => \A i \in 1..Len(sent) : sent[i] = cpath[i]

\* OneCommandPaysHops with what it rests on: there is nothing left of a freed
\* circuit; what is awaited is a hop of the path; a finished circuit awaits
\* none; and until a second command comes, the payments of a circuit that is
\* or will be sending them are those of its path.
IInv ==
  /\ TypeOK
  /\ state = "none" => /\ cpath = <<>> /\ sent = <<>>
                       /\ hops_open = 0 /\ ~awaiting /\ ~n_hop
  /\ awaiting => hops_open < Len(cpath)
  /\ n_hop => cpath # <<>>
  /\ state \in {"GUARD_WAIT", "OPEN"} => ~awaiting
  /\ ~reextended /\ (n_hop \/ sent # <<>>) =>
       payhashes = cpath /\ relay_payments = cpath
  /\ OneCommandPaysHops

\* A circuit that has begun to build is finished or closed at last, however many
\* commands interfere.
BuildEnds ==
  (Known /\ (n_hop \/ awaiting)) ~> ~(Known /\ (n_hop \/ awaiting))

\* EXTENDPAIDCIRCUIT is to "extend the listed circuit with payment hash data":
\* a hop must get the payment of its own relay when the circuit is extended
\* again, too.
HopsPaid == \A i \in 1..Len(sent) : sent[i] = cpath[i]

\* circuit_expire_building: "If we haven't yet started the first hop, it means we
\* don't have any orconns available [...] The ORConn should timeout
\* independently and kill us then."
UnstartedWaitsForChannel ==
  Known /\ hops_open = 0 /\ ~awaiting => n_hop

=============================================================================
