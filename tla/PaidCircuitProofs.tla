--------------------------- MODULE PaidCircuitProofs ---------------------------
(***************************************************************************)
(* Proofs for PaidCircuit: its types, and that a circuit built by one      *)
(* command pays every hop what the command names for that hop's relay.     *)
(* Nodes is a recursive function over the lines, so its type is proved by  *)
(* the lemmas of DataLemmas; the rest follows from IInv, action by    *)
(* action.                                                                 *)
(***************************************************************************)
EXTENDS PaidCircuit, DataLemmas, SequenceTheorems

\* What a command keeps of its lines: a sequence of what the lines name, without
\* the lines it skips.
LEMMA NodesType ==
  ASSUME NEW S, NEW lines \in Seq(S)
  PROVE  Nodes(lines) \in Seq(S \ {BAD})
<1> DEFINE N    == Len(lines)
           V    == Seq(S \ {BAD})
           Body(g, k) == IF k = 0 THEN << >>
                         ELSE IF lines[k] = BAD THEN g[k - 1]
                         ELSE Append(g[k - 1], lines[k])
           kept == CHOOSE g : g = [k \in 0..N |-> Body(g, k)]
           none == << >>
           step == [k \in Nat |-> [v \in V |->
                      IF k \notin 1..N \/ lines[k] = BAD THEN v
                      ELSE Append(v, lines[k])]]
<1>1. Nodes(lines) = kept[N]
  BY DEF Nodes
<1>2. N \in Nat /\ \A k \in 1..N : lines[k] \in S
  OBVIOUS
<1>3. \A v \in V, e \in S \ {BAD} : Append(v, e) \in V
  OBVIOUS
<1>4. none \in V
  OBVIOUS
<1>5. step \in [Nat -> [V -> V]]
  <2> HIDE DEF V, N
  <2> QED
    BY <1>2, <1>3
<1> HIDE DEF step, V, none, N
<1>6. \E f \in [Nat -> V] : Recurs(f, none, step)
  BY <1>5, <1>4, PrimitiveRecursion, Zenon
<1>7. PICK f \in [Nat -> V] : /\ f[0] = none
                              /\ \A k \in Nat : f[k + 1] = step[k + 1][f[k]]
  BY <1>6 DEF Recurs
<1> DEFINE h == [k \in 0..N |-> f[k]]
<1>8. \A k \in 0..N : h[k] = Body(h, k)
  <2> SUFFICES ASSUME NEW k \in 0..N, k # 0
               PROVE  h[k] = Body(h, k)
    BY <1>2, <1>7 DEF none
  <2>1. k - 1 \in Nat /\ k - 1 \in 0..N /\ (k - 1) + 1 = k /\ k \in 1..N
    BY <1>2
  <2>2. f[k] = step[k][f[k - 1]] /\ f[k - 1] \in V
    BY <1>7, <2>1
  <2>3. f[k] = IF lines[k] = BAD THEN f[k - 1] ELSE Append(f[k - 1], lines[k])
    BY <1>2, <2>1, <2>2 DEF step
  <2> QED
    BY <2>1, <2>3
<1>9. h = [k \in 0..N |-> Body(h, k)]
  BY <1>8
<1> HIDE DEF h
<1>10. kept = [k \in 0..N |-> Body(kept, k)]
  BY <1>9, Zenon
<1>11. \A k \in 0..N : kept[k] = Body(kept, k)
  <2> DEFINE F(k) == Body(kept, k)
  <2>1. kept = [k \in 0..N |-> F(k)]
    BY <1>10
  <2> HIDE DEF F, kept
  <2>2. \A k \in 0..N : kept[k] = F(k)
    BY <2>1
  <2> QED
    BY <2>2 DEF F
<1> HIDE DEF kept, Body
<1> DEFINE T == {k \in Nat : k <= N => kept[k] \in V}
<1>12. 0 \in T
  BY <1>2, <1>11, <1>4 DEF Body, none
<1>13. ASSUME NEW k \in Nat, k \in T
       PROVE  k + 1 \in T
  <2> SUFFICES ASSUME k + 1 <= N
               PROVE  kept[k + 1] \in V
    OBVIOUS
  <2>1. k + 1 \in 1..N /\ kept[k] \in V /\ (k + 1) - 1 = k
    BY <1>2, <1>13
  <2>2. kept[k + 1] = IF lines[k + 1] = BAD THEN kept[k]
                      ELSE Append(kept[k], lines[k + 1])
    <3>1. kept[k + 1] = Body(kept, k + 1)
      BY <1>11, <2>1
    <3> QED
      BY <2>1, <3>1 DEF Body
  <2> QED
    BY <1>2, <1>3, <2>1, <2>2
<1> HIDE DEF T
<1>14. Nat \subseteq T
  BY <1>12, <1>13, SetInduction
<1>15. kept[N] \in V
  BY <1>2, <1>14 DEF T
<1> QED
  BY <1>1, <1>15 DEF V

\* The lines of a command that is not rejected name relays, at least one.
LEMMA AcceptedNodes ==
  ASSUME NEW lines \in Lines, ~Rejected(lines)
  PROVE  Nodes(lines) \in Seq(Relay) /\ Len(Nodes(lines)) \in Nat \ {0}
<1>1. PICK k \in 1..MaxLines : lines \in [1..k -> Line]
  BY DEF Lines
<1>2. k \in Nat
  BY PaidAssumption
<1>3. \A i \in 1..k : lines[i] \in Relay \cup {BAD}
  BY <1>1 DEF Rejected, Line
<1>4. lines \in [1..k -> Relay \cup {BAD}]
  BY <1>1, <1>3
<1>5. lines \in Seq(Relay \cup {BAD})
  BY <1>2, <1>4
<1>6. Nodes(lines) \in Seq((Relay \cup {BAD}) \ {BAD})
  BY <1>5, NodesType
<1>7. (Relay \cup {BAD}) \ {BAD} = Relay
  BY PaidAssumption
<1>8. Nodes(lines) \in Seq(Relay) /\ Nodes(lines) # << >>
  BY <1>6, <1>7 DEF Rejected
<1> QED
  BY <1>8

\* The first k of them.
LEMMA FirstNodes ==
  ASSUME NEW lines \in Lines, ~Rejected(lines),
         NEW k \in Nat, k <= Len(Nodes(lines))
  PROVE  /\ SubSeq(Nodes(lines), 1, k) \in Seq(Relay)
         /\ Len(SubSeq(Nodes(lines), 1, k)) = k
<1> DEFINE nodes == Nodes(lines)
<1>1. nodes \in Seq(Relay)
  BY AcceptedNodes
<1> HIDE DEF nodes
<1>2. \A i \in 1..k : nodes[i] \in Relay
  BY <1>1 DEF nodes
<1>3. k \in Int /\ 1 \in Int /\ (IF 1 <= k THEN k - 1 + 1 ELSE 0) = k
  OBVIOUS
<1>4. /\ SubSeq(nodes, 1, k) \in Seq(Relay)
      /\ Len(SubSeq(nodes, 1, k)) = k
  BY <1>2, <1>3, SubSeqProperties
<1> QED
  BY <1>4 DEF nodes

-----------------------------------------------------------------------------
(* IInv is inductive: one lemma per action *)

\* No circuit is there at the start.
LEMMA InitInv == Init => IInv
<1> SUFFICES ASSUME Init
             PROVE  IInv
  OBVIOUS
<1>1. /\ << >> \in Seq(Relay) /\ << >> \in Seq(Relay \cup {NONE})
      /\ Len(<< >>) = 0
  BY EmptySeq
<1>2. TypeOK
  <2>1. /\ state \in {"none", "CHAN_WAIT", "BUILDING", "GUARD_WAIT", "OPEN"}
        /\ marked \in BOOLEAN /\ n_hop \in BOOLEAN /\ awaiting \in BOOLEAN
        /\ reextended \in BOOLEAN /\ crashed \in BOOLEAN
    BY DEF Init
  <2>2. /\ cpath \in Seq(Relay) /\ payhashes \in Seq(Relay)
        /\ relay_payments \in Seq(Relay) /\ sent \in Seq(Relay \cup {NONE})
    BY <1>1 DEF Init
  <2>3. hops_open \in 0..Len(cpath)
    BY <1>1 DEF Init
  <2>4. Len(sent) = hops_open + (IF awaiting THEN 1 ELSE 0)
    BY <1>1 DEF Init
  <2> QED
    BY <2>1, <2>2, <2>3, <2>4 DEF TypeOK
<1>3. \A i \in 1..Len(sent) : sent[i] = cpath[i]
  BY <1>1 DEF Init
<1> QED
  BY <1>2, <1>3 DEF Init, IInv, OneCommandPaysHops

\* A command that is refused changes nothing but "crashed".
LEMMA CommandRefusedInv == IInv /\ CommandRefused => IInv'
  BY DEF IInv, TypeOK, OneCommandPaysHops, CommandRefused, buildVars, payVars

\* Rejected lines leave a circuit without a path.
LEMMA NewRejectedInv ==
  ASSUME IInv, NEW lines \in Lines, NewRejected(lines)
  PROVE  IInv'
<1>1. payhashes' \in Seq(Relay)
  BY AcceptedNodes DEF NewRejected, IInv, TypeOK
<1> QED
  BY <1>1 DEF IInv, TypeOK, OneCommandPaysHops, NewRejected, NewCircuit

\* A hop that cannot be used: the path breaks off and the circuit is marked.
LEMMA NewHopUnusableInv ==
  ASSUME IInv, NEW lines \in Lines, NEW k \in Nat, NewHopUnusable(lines, k)
  PROVE  IInv'
<1>1. ~Rejected(lines) /\ k < Len(Nodes(lines))
  BY DEF NewHopUnusable, Accepted
<1>2. Nodes(lines) \in Seq(Relay) /\ SubSeq(Nodes(lines), 1, k) \in Seq(Relay)
  BY <1>1, AcceptedNodes, FirstNodes
<1> QED
  BY <1>2 DEF IInv, TypeOK, OneCommandPaysHops, NewHopUnusable, NewCircuit

\* Accepted lines become path and payments alike.
LEMMA NewAcceptedInv ==
  ASSUME IInv, NEW lines \in Lines,
         NewSends(lines) \/ NewWaits(lines) \/ NewFails(lines)
  PROVE  IInv'
<1>1. NewAccepted(lines) /\ ~Rejected(lines)
  BY DEF NewSends, NewWaits, NewFails, NewAccepted, Accepted
<1>2. Nodes(lines) \in Seq(Relay) /\ Len(Nodes(lines)) \in Nat \ {0}
  BY <1>1, AcceptedNodes
<1>3. CASE NewSends(lines)
  <2>1. sent' = <<Nodes(lines)[1]>> /\ Nodes(lines)[1] \in Relay
    BY <1>2, <1>3 DEF NewSends, SendFirst, Payment
  <2>2. /\ sent' \in Seq(Relay \cup {NONE}) /\ Len(sent') = 1
        /\ sent'[1] = Nodes(lines)[1]
    BY <2>1
  <2>3. /\ cpath' = Nodes(lines) /\ payhashes' = Nodes(lines)
        /\ relay_payments' = Nodes(lines) /\ UNCHANGED <<reextended, crashed>>
        /\ state' = "BUILDING" /\ n_hop' = FALSE /\ awaiting' = TRUE
        /\ hops_open' = 0 /\ UNCHANGED marked
    BY <1>1, <1>3 DEF NewSends, NewAccepted, SendFirst
  <2>4. TypeOK'
    <3>1. /\ marked' \in BOOLEAN /\ n_hop' \in BOOLEAN /\ awaiting' \in BOOLEAN
          /\ reextended' \in BOOLEAN /\ crashed' \in BOOLEAN
      BY <2>3 DEF IInv, TypeOK
    <3>2. hops_open' \in 0..Len(cpath')
      BY <1>2, <2>3
    <3>3. Len(sent') = hops_open' + (IF awaiting' THEN 1 ELSE 0)
      BY <2>2, <2>3
    <3>4. /\ state' \in {"none", "CHAN_WAIT", "BUILDING", "GUARD_WAIT", "OPEN"}
          /\ cpath' \in Seq(Relay) /\ payhashes' \in Seq(Relay)
          /\ relay_payments' \in Seq(Relay)
      BY <1>2, <2>3
    <3> QED
      BY <2>2, <3>1, <3>2, <3>3, <3>4 DEF TypeOK
  <2>5. OneCommandPaysHops'
    BY <2>2, <2>3 DEF OneCommandPaysHops
  <2> QED
    BY <1>2, <2>3, <2>4, <2>5 DEF IInv
<1>4. CASE NewWaits(lines)
  BY <1>1, <1>2, <1>4
  DEF IInv, TypeOK, OneCommandPaysHops, NewWaits, NewAccepted, NewCircuit
<1>5. CASE NewFails(lines)
  BY <1>1, <1>2, <1>5
  DEF IInv, TypeOK, OneCommandPaysHops, NewFails, NewAccepted, NewCircuit
<1> QED
  BY <1>3, <1>4, <1>5

\* Too much payment data for a circuit that exists.
LEMMA OldOversizedInv ==
  ASSUME IInv, NEW lines \in Lines, OldOversized(lines)
  PROVE  IInv'
<1>1. payhashes' \in Seq(Relay)
  BY AcceptedNodes DEF OldOversized, Oversized
<1> QED
  BY <1>1 DEF IInv, TypeOK, OneCommandPaysHops, OldOversized, OldCircuit, Known,
               buildVars

\* What appending k hops, and replacing the payments, leaves true.
LEMMA RepaidTypes ==
  ASSUME IInv, NEW lines \in Lines, NEW k \in Nat, k <= Len(Nodes(lines)),
         Repaid(lines, k)
  PROVE  /\ payhashes' \in Seq(Relay) /\ relay_payments' \in Seq(Relay)
         /\ cpath' \in Seq(Relay)
         /\ Len(cpath') = Len(cpath) + k
         /\ reextended' = TRUE /\ crashed' \in BOOLEAN
         /\ state # "none"
<1>1. ~Rejected(lines)
  BY DEF Repaid, Accepted
<1>2. Nodes(lines) \in Seq(Relay)
  BY <1>1, AcceptedNodes
<1>3. /\ SubSeq(Nodes(lines), 1, k) \in Seq(Relay)
      /\ Len(SubSeq(Nodes(lines), 1, k)) = k
  BY <1>1, FirstNodes
<1>4. cpath \in Seq(Relay) /\ cpath' = cpath \o SubSeq(Nodes(lines), 1, k)
  BY DEF IInv, TypeOK, Repaid
<1>5. cpath' \in Seq(Relay) /\ Len(cpath') = Len(cpath) + k
  BY <1>3, <1>4
<1> QED
  BY <1>2, <1>5 DEF Repaid, OldCircuit, Known, IInv, TypeOK

\* A hop after the first k cannot be used.
LEMMA OldHopUnusableInv ==
  ASSUME IInv, NEW lines \in Lines, NEW k \in Nat, OldHopUnusable(lines, k)
  PROVE  IInv'
<1>1. k <= Len(Nodes(lines)) /\ Repaid(lines, k)
  <2>1. Len(Nodes(lines)) \in Nat
    BY AcceptedNodes DEF OldHopUnusable, Repaid, Accepted
  <2> QED
    BY <2>1 DEF OldHopUnusable
<1>2. cpath \in Seq(Relay) /\ Len(cpath) \in Nat /\ hops_open \in 0..Len(cpath)
  BY DEF IInv, TypeOK
<1>3. /\ payhashes' \in Seq(Relay) /\ relay_payments' \in Seq(Relay)
      /\ cpath' \in Seq(Relay)
      /\ Len(cpath') = Len(cpath) + k
      /\ reextended' = TRUE /\ crashed' \in BOOLEAN
      /\ state # "none"
  BY <1>1, RepaidTypes
<1>4. marked' = TRUE /\ UNCHANGED buildVars
  BY DEF OldHopUnusable
<1> QED
  BY <1>2, <1>3, <1>4 DEF IInv, TypeOK, OneCommandPaysHops, buildVars

\* The circuit exists and all the new hops are appended: the next onion skin is
\* sent, fails, or is none.
LEMMA OldExtendedInv ==
  ASSUME IInv, NEW lines \in Lines,
         OldSends(lines) \/ OldSendFails(lines) \/ OldNotReady(lines)
  PROVE  IInv'
<1> DEFINE k == Len(Nodes(lines))
<1>1. Repaid(lines, k)
  BY DEF OldSends, OldSendFails, OldNotReady
<1>2. k \in Nat \ {0}
  BY <1>1, AcceptedNodes DEF Repaid, Accepted
<1> HIDE DEF k
<1>3. /\ payhashes' \in Seq(Relay) /\ relay_payments' \in Seq(Relay)
      /\ cpath' \in Seq(Relay)
      /\ Len(cpath') = Len(cpath) + k
      /\ reextended' = TRUE /\ crashed' \in BOOLEAN
      /\ state # "none"
  <2>1. k \in Nat /\ k <= Len(Nodes(lines))
    BY <1>2 DEF k
  <2> QED
    BY <1>1, <2>1, RepaidTypes
<1>4. /\ cpath \in Seq(Relay) /\ Len(cpath) \in Nat
      /\ hops_open \in 0..Len(cpath)
  BY DEF IInv, TypeOK
<1>5. CASE OldSends(lines)
  <2> DEFINE paid == Payment(payhashes', relay_payments', hops_open + 1)
  <2>1. paid \in Relay \cup {NONE}
    BY <1>3, <1>4 DEF Payment
  <2> HIDE DEF paid
  <2>2. ~awaiting /\ Len(sent) = hops_open /\ sent' = Append(sent, paid)
    BY <1>5 DEF OldSends, IInv, TypeOK, paid
  <2>3. sent' \in Seq(Relay \cup {NONE}) /\ Len(sent') = hops_open + 1
    BY <1>4, <2>1, <2>2 DEF IInv, TypeOK
  <2> QED
    BY <1>2, <1>3, <1>4, <1>5, <2>3
    DEF IInv, TypeOK, OneCommandPaysHops, OldSends
<1>6. CASE OldSendFails(lines)
  BY <1>2, <1>3, <1>4, <1>6
  DEF IInv, TypeOK, OneCommandPaysHops, OldSendFails
<1>7. CASE OldNotReady(lines)
  BY <1>2, <1>3, <1>4, <1>7
  DEF IInv, TypeOK, OneCommandPaysHops, OldNotReady, buildVars
<1> QED
  BY <1>5, <1>6, <1>7

\* The first hop is sent the first payment.
LEMMA ChannelReadyInv == IInv /\ ChannelReady => IInv'
<1> SUFFICES ASSUME IInv, ChannelReady
             PROVE  IInv'
  OBVIOUS
<1> DEFINE paid == Payment(payhashes, << >>, 1)
<1>1. /\ cpath \in Seq(Relay) /\ Len(cpath) \in Nat \ {0}
      /\ payhashes \in Seq(Relay)
  BY DEF IInv, TypeOK, ChannelReady
<1>2. paid \in Relay \cup {NONE} /\ (~reextended => paid = cpath[1])
  BY <1>1 DEF Payment, IInv, ChannelReady
<1>3. sent' = <<paid>> /\ awaiting' = TRUE /\ hops_open' = 0
  BY DEF ChannelReady, SendFirst
<1> HIDE DEF paid
<1>4. sent' \in Seq(Relay \cup {NONE}) /\ Len(sent') = 1 /\ sent'[1] = paid
  BY <1>2, <1>3
<1>5. /\ UNCHANGED <<payhashes, relay_payments, marked, cpath, reextended,
                      crashed>>
      /\ state' = "BUILDING" /\ n_hop' = FALSE /\ n_hop
  BY DEF ChannelReady, SendFirst, payVars
<1>6. TypeOK'
  <2>1. /\ marked' \in BOOLEAN /\ n_hop' \in BOOLEAN /\ awaiting' \in BOOLEAN
        /\ reextended' \in BOOLEAN /\ crashed' \in BOOLEAN
    BY <1>3, <1>5 DEF IInv, TypeOK
  <2>2. hops_open' \in 0..Len(cpath')
    BY <1>1, <1>3, <1>5
  <2>3. Len(sent') = hops_open' + (IF awaiting' THEN 1 ELSE 0)
    BY <1>3, <1>4
  <2>4. /\ state' \in {"none", "CHAN_WAIT", "BUILDING", "GUARD_WAIT", "OPEN"}
        /\ cpath' \in Seq(Relay) /\ payhashes' \in Seq(Relay)
        /\ relay_payments' \in Seq(Relay)
    BY <1>5 DEF IInv, TypeOK
  <2> QED
    BY <1>4, <2>1, <2>2, <2>3, <2>4 DEF TypeOK
<1>7. OneCommandPaysHops'
  BY <1>2, <1>4, <1>5 DEF OneCommandPaysHops
<1> QED
  BY <1>1, <1>3, <1>5, <1>6, <1>7 DEF IInv

\* An answered hop is open, and the next one is sent the payment of its place.
LEMMA HopAnswersInv == IInv /\ HopAnswers => IInv'
<1> SUFFICES ASSUME IInv, HopAnswers
             PROVE  IInv'
  OBVIOUS
<1>1. /\ cpath \in Seq(Relay) /\ Len(cpath) \in Nat
      /\ hops_open \in Nat /\ hops_open < Len(cpath)
      /\ sent \in Seq(Relay \cup {NONE}) /\ Len(sent) = hops_open + 1
      /\ hops_open' = hops_open + 1 /\ state # "none"
  BY DEF IInv, TypeOK, HopAnswers, Known
<1>2. UNCHANGED <<n_hop, payhashes, relay_payments, marked, cpath, reextended,
                  crashed>>
  BY DEF HopAnswers, payVars
<1>3. CASE hops_open' < Len(cpath)
  <2> DEFINE paid == Payment(payhashes, relay_payments, hops_open + 2)
  <2>1. /\ paid \in Relay \cup {NONE}
        /\ ~reextended => paid = cpath[hops_open + 2]
    <3>1. sent # << >>
      BY <1>1
    <3>2. hops_open + 2 \in Nat /\ hops_open + 2 # 1
          /\ hops_open + 2 <= Len(cpath)
      BY <1>1, <1>3
    <3>3. relay_payments \in Seq(Relay)
          /\ (~reextended => relay_payments = cpath)
      BY <3>1 DEF IInv, TypeOK
    <3>4. hops_open + 2 \in 1..Len(cpath)
      BY <1>1, <3>2
    <3>5. paid = IF hops_open + 2 <= Len(relay_payments)
                 THEN relay_payments[hops_open + 2] ELSE NONE
      BY <3>2 DEF Payment
    <3>6. CASE hops_open + 2 <= Len(relay_payments)
      <4>1. hops_open + 2 \in 1..Len(relay_payments)
        BY <3>2, <3>3, <3>6, <1>1
      <4> QED
        BY <3>3, <3>5, <3>6, <4>1
    <3>7. CASE ~(hops_open + 2 <= Len(relay_payments))
      BY <3>2, <3>3, <3>5, <3>7
    <3> QED
      BY <3>6, <3>7
  <2>2. sent' = Append(sent, paid) /\ UNCHANGED <<state, awaiting>>
    BY <1>3 DEF HopAnswers
  <2> HIDE DEF paid
  <2>3. /\ sent' \in Seq(Relay \cup {NONE}) /\ Len(sent') = hops_open + 2
        /\ \A i \in 1..Len(sent) : sent'[i] = sent[i]
        /\ sent'[hops_open + 2] = paid
    BY <1>1, <2>1, <2>2
  <2>4. OneCommandPaysHops'
    BY <1>1, <1>2, <2>1, <2>3 DEF IInv, OneCommandPaysHops
  <2>5. sent # << >> /\ awaiting
    BY <1>1 DEF HopAnswers
  <2>6. TypeOK'
    BY <1>1, <1>2, <1>3, <2>2, <2>3, <2>5 DEF IInv, TypeOK
  <2> QED
    BY <1>1, <1>2, <1>3, <2>2, <2>4, <2>5, <2>6 DEF IInv
<1>4. CASE ~(hops_open' < Len(cpath))
  <2>1. /\ awaiting' = FALSE /\ state' \in {"OPEN", "GUARD_WAIT"}
        /\ sent' = sent /\ hops_open' = Len(cpath)
    BY <1>1, <1>4 DEF HopAnswers
  <2>2. Len(sent') = hops_open' + (IF awaiting' THEN 1 ELSE 0)
    BY <1>1, <2>1
  <2>3. cpath' = cpath /\ hops_open' \in 0..Len(cpath)
    BY <1>1, <1>2, <2>1
  <2>4. awaiting' \in BOOLEAN /\ sent' \in Seq(Relay \cup {NONE})
    BY <1>1, <2>1
  <2>5. state' \in {"none", "CHAN_WAIT", "BUILDING", "GUARD_WAIT", "OPEN"}
    BY <2>1
  <2>6. TypeOK'
    BY <1>1, <1>2, <2>2, <2>3, <2>4, <2>5 DEF IInv, TypeOK
  <2>7. sent # << >> /\ OneCommandPaysHops'
    BY <1>1, <1>2, <2>1 DEF IInv, OneCommandPaysHops
  <2> QED
    BY <1>1, <1>2, <2>1, <2>6, <2>7 DEF IInv
<1> QED
  BY <1>3, <1>4

\* GUARD_WAIT becomes OPEN.
LEMMA GuardUsableInv == IInv /\ GuardUsable => IInv'
  BY DEF IInv, TypeOK, OneCommandPaysHops, GuardUsable, payVars

\* The circuit is marked.
LEMMA CircuitFailsInv == IInv /\ CircuitFails => IInv'
  BY DEF IInv, TypeOK, OneCommandPaysHops, CircuitFails, buildVars, payVars

\* The circuit is marked, or the process is gone.
LEMMA ExpireBuildingInv == IInv /\ ExpireBuilding => IInv'
<1> SUFFICES ASSUME IInv, ExpireBuilding
             PROVE  IInv'
  OBVIOUS
<1>1. crashed' \in BOOLEAN /\ marked' \in BOOLEAN
  BY DEF ExpireBuilding, IInv, TypeOK
<1>2. UNCHANGED <<buildVars, payVars, cpath, reextended>>
  BY DEF ExpireBuilding
<1> QED
  BY <1>1, <1>2 DEF IInv, TypeOK, OneCommandPaysHops, buildVars, payVars

\* Nothing is left of the circuit.
LEMMA CircuitFreedInv == IInv /\ CircuitFreed => IInv'
<1> SUFFICES ASSUME IInv, CircuitFreed
             PROVE  IInv'
  OBVIOUS
<1>1. /\ << >> \in Seq(Relay) /\ << >> \in Seq(Relay \cup {NONE})
      /\ Len(<< >>) = 0
  BY EmptySeq
<1>2. TypeOK'
  <2>1. /\ state' \in {"none", "CHAN_WAIT", "BUILDING", "GUARD_WAIT", "OPEN"}
        /\ marked' \in BOOLEAN /\ n_hop' \in BOOLEAN /\ awaiting' \in BOOLEAN
        /\ reextended' \in BOOLEAN /\ crashed' \in BOOLEAN
    BY DEF CircuitFreed, IInv, TypeOK
  <2>2. /\ cpath' \in Seq(Relay) /\ payhashes' \in Seq(Relay)
        /\ relay_payments' \in Seq(Relay) /\ sent' \in Seq(Relay \cup {NONE})
    BY <1>1 DEF CircuitFreed
  <2>3. hops_open' \in 0..Len(cpath')
    BY <1>1 DEF CircuitFreed
  <2>4. Len(sent') = hops_open' + (IF awaiting' THEN 1 ELSE 0)
    BY <1>1 DEF CircuitFreed
  <2> QED
    BY <2>1, <2>2, <2>3, <2>4 DEF TypeOK
<1>3. \A i \in 1..Len(sent') : sent'[i] = cpath'[i]
  BY <1>1 DEF CircuitFreed
<1> QED
  BY <1>2, <1>3 DEF CircuitFreed, IInv, OneCommandPaysHops

\* Every step.
LEMMA NextInv == IInv /\ [Next]_vars => IInv'
<1> SUFFICES ASSUME IInv, [Next]_vars
             PROVE  IInv'
  OBVIOUS
<1>1. CASE UNCHANGED vars
  BY <1>1 DEF IInv, TypeOK, OneCommandPaysHops, vars, buildVars, payVars
<1>2. ASSUME NEW lines \in Lines,
             \/ NewRejected(lines) \/ NewSends(lines) \/ NewWaits(lines)
             \/ NewFails(lines) \/ OldOversized(lines) \/ OldSends(lines)
             \/ OldSendFails(lines) \/ OldNotReady(lines)
      PROVE  IInv'
  BY <1>2, NewRejectedInv, NewAcceptedInv, OldOversizedInv, OldExtendedInv
<1>3. ASSUME NEW lines \in Lines, NEW k \in 0..(MaxLines - 1),
             NewHopUnusable(lines, k) \/ OldHopUnusable(lines, k)
      PROVE  IInv'
  BY <1>3, NewHopUnusableInv, OldHopUnusableInv
<1>4. CASE Command
  BY <1>2, <1>3, <1>4, CommandRefusedInv DEF Command
<1> QED
  BY <1>1, <1>4, ChannelReadyInv, HopAnswersInv, GuardUsableInv,
     CircuitFailsInv, ExpireBuildingInv, CircuitFreedInv DEF Next

-----------------------------------------------------------------------------
\* The strengthened invariant holds of every circuit under EXTENDPAIDCIRCUIT.
THEOREM PaidInvariance == Spec => []IInv
  BY InitInv, NextInv, PTL DEF Spec

\* The fields of the circuit have their types; one payment has been sent for
\* every hop that is open or awaited.
THEOREM PaidTypes == Spec => []TypeOK
<1>1. IInv => TypeOK
  BY DEF IInv
<1> QED
  BY <1>1, PaidInvariance, PTL

\* A circuit built by one command sends every hop the payment of its own relay,
\* however many lines the command has and whichever of them are skipped.
THEOREM PaidHops == Spec => []OneCommandPaysHops
<1>1. IInv => OneCommandPaysHops
  BY DEF IInv
<1> QED
  BY <1>1, PaidInvariance, PTL
=============================================================================
