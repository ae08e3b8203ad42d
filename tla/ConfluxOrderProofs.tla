--------------------------- MODULE ConfluxOrderProofs ---------------------------
(***************************************************************************)
(* Proofs for Conflux, continued: FlowInv is inductive, so cells are       *)
(* numbered exactly, what a lost leg takes along is bounded, and each      *)
(* direction of a set is an ordered stream.                                *)
(***************************************************************************)
EXTENDS ConfluxProofs

-----------------------------------------------------------------------------
(* Counting the cells of a wire *)

\* A receiver's count is a number and follows the cells one by one.
LEMMA CountedCell ==
  ASSUME NEW seq \in Nat, NEW c \in Cell
  PROVE  Counted(seq, c) \in Nat /\ Counted(seq, c) >= seq
<1>1. c.cmd = "SWITCH" => c.relative_seq \in Nat
  BY DEF Cell
<1> QED
  BY <1>1 DEF Counted

\* Counting satisfies the equation it is defined by.
LEMMA CountingSteps ==
  ASSUME NEW seq \in Nat, NEW cells \in Seq(Cell)
  PROVE  /\ Counting(seq, cells) \in [0..Len(cells) -> Nat]
         /\ Counting(seq, cells)[0] = seq
         /\ \A k \in 1..Len(cells) :
              Counting(seq, cells)[k] = Counted(Counting(seq, cells)[k - 1], cells[k])
<1> DEFINE N    == Len(cells)
           Body(g, k) == IF k = 0 THEN seq ELSE Counted(g[k - 1], cells[k])
           count == CHOOSE g : g = [k \in 0..N |-> Body(g, k)]
           step == [k \in Nat |-> [v \in Nat |->
                      IF k \notin 1..N THEN v ELSE Counted(v, cells[k])]]
<1>1. Counting(seq, cells) = count
  BY DEF Counting
<1>2. N \in Nat /\ \A k \in 1..N : cells[k] \in Cell
  OBVIOUS
<1>3. step \in [Nat -> [Nat -> Nat]]
  <2> HIDE DEF N
  <2> QED
    BY <1>2, CountedCell
<1> HIDE DEF step, N
<1>4. \E f \in [Nat -> Nat] : Recurs(f, seq, step)
  BY <1>3, PrimitiveRecursion, Zenon
<1>5. PICK f \in [Nat -> Nat] : /\ f[0] = seq
                                /\ \A k \in Nat : f[k + 1] = step[k + 1][f[k]]
  BY <1>4 DEF Recurs
<1> DEFINE h == [k \in 0..N |-> f[k]]
<1>6. \A k \in 0..N : h[k] = Body(h, k)
  <2> SUFFICES ASSUME NEW k \in 0..N, k # 0
               PROVE  h[k] = Body(h, k)
    BY <1>2, <1>5
  <2>1. k - 1 \in Nat /\ k - 1 \in 0..N /\ (k - 1) + 1 = k /\ k \in 1..N
    BY <1>2
  <2>2. f[k] = step[k][f[k - 1]] /\ f[k - 1] \in Nat
    BY <1>5, <2>1
  <2>3. f[k] = Counted(f[k - 1], cells[k])
    BY <1>2, <2>1, <2>2 DEF step
  <2> QED
    BY <2>1, <2>3
<1>7. h = [k \in 0..N |-> Body(h, k)]
  BY <1>6
<1> HIDE DEF h
<1>8. count = [k \in 0..N |-> Body(count, k)]
  BY <1>7, Zenon
<1>9. \A k \in 0..N : count[k] = Body(count, k)
  <2> DEFINE F(k) == Body(count, k)
  <2>1. count = [k \in 0..N |-> F(k)]
    BY <1>8
  <2> HIDE DEF F, count
  <2>2. \A k \in 0..N : count[k] = F(k)
    BY <2>1
  <2> QED
    BY <2>2 DEF F
<1>10. DOMAIN count = 0..N
  <2> DEFINE F(k) == Body(count, k)
  <2>1. count = [k \in 0..N |-> F(k)]
    BY <1>8
  <2> HIDE DEF F, count
  <2> QED
    BY <2>1
<1>11. count = [k \in 0..N |-> count[k]]
  <2> DEFINE F(k) == Body(count, k)
  <2>1. count = [k \in 0..N |-> F(k)]
    BY <1>8
  <2> HIDE DEF F, count
  <2> QED
    BY <2>1
<1> HIDE DEF count
<1>12. count[0] = seq
  BY <1>2, <1>9
<1>13. \A k \in 1..N : count[k] = Counted(count[k - 1], cells[k])
  BY <1>2, <1>9
<1> DEFINE T == {k \in Nat : k <= N => count[k] \in Nat}
<1>14. 0 \in T
  BY <1>12
<1>15. ASSUME NEW k \in Nat, k \in T
       PROVE  k + 1 \in T
  <2> SUFFICES ASSUME k + 1 <= N
               PROVE  count[k + 1] \in Nat
    OBVIOUS
  <2>1. k + 1 \in 1..N /\ count[k] \in Nat /\ (k + 1) - 1 = k
    BY <1>2, <1>15
  <2>2. cells[k + 1] \in Cell
    BY <1>2, <2>1
  <2> QED
    BY <1>13, <2>1, <2>2, CountedCell
<1> HIDE DEF T
<1>16. Nat \subseteq T
  BY <1>14, <1>15, SetInduction
<1>17. \A k \in 0..N : count[k] \in Nat
  BY <1>2, <1>16 DEF T
<1>18. count \in [0..N -> Nat]
  BY <1>11, <1>17
<1> QED
  BY <1>1, <1>12, <1>13, <1>18 DEF N

\* It depends on the cells counted only.
LEMMA CountingPrefix ==
  ASSUME NEW seq \in Nat, NEW r \in Seq(Cell), NEW w \in Seq(Cell), NEW n \in Nat,
         n <= Len(r), n <= Len(w), \A i \in 1..n : r[i] = w[i]
  PROVE  \A k \in 0..n : Counting(seq, r)[k] = Counting(seq, w)[k]
<1> DEFINE T == {k \in Nat : k <= n => Counting(seq, r)[k] = Counting(seq, w)[k]}
<1>1. 0 \in T
  BY CountingSteps
<1>2. ASSUME NEW k \in Nat, k \in T
      PROVE  k + 1 \in T
  <2> SUFFICES ASSUME k + 1 <= n
               PROVE  Counting(seq, r)[k + 1] = Counting(seq, w)[k + 1]
    OBVIOUS
  <2>1. /\ k + 1 \in 1..n /\ (k + 1) - 1 = k
        /\ k + 1 \in 1..Len(r) /\ k + 1 \in 1..Len(w)
        /\ Counting(seq, r)[k] = Counting(seq, w)[k]
    BY <1>2
  <2>2. /\ Counting(seq, r)[k + 1] = Counted(Counting(seq, r)[k], r[k + 1])
        /\ Counting(seq, w)[k + 1] = Counted(Counting(seq, w)[k], w[k + 1])
    BY <2>1, CountingSteps
  <2> QED
    BY <2>1, <2>2
<1> HIDE DEF T
<1>3. Nat \subseteq T
  BY <1>1, <1>2, SetInduction
<1> QED
  BY <1>3 DEF T

\* A cell more at the end.
LEMMA CountingAppended ==
  ASSUME NEW seq \in Nat, NEW w \in Seq(Cell), NEW c \in Cell
  PROVE  LET r == w \o <<c>> IN
         /\ \A k \in 0..Len(w) : Counting(seq, r)[k] = Counting(seq, w)[k]
         /\ Counting(seq, r)[Len(w) + 1] = Counted(Counting(seq, w)[Len(w)], c)
         /\ Len(r) = Len(w) + 1
<1> DEFINE r == w \o <<c>>
<1>1. /\ r \in Seq(Cell) /\ Len(w) \in Nat /\ Len(r) = Len(w) + 1
      /\ \A i \in 1..Len(w) : r[i] = w[i]
      /\ r[Len(w) + 1] = c
  BY AppendedCell
<1> HIDE DEF r
<1>2. \A k \in 0..Len(w) : Counting(seq, r)[k] = Counting(seq, w)[k]
  BY <1>1, CountingPrefix
<1>3. Counting(seq, r)[Len(w) + 1] = Counted(Counting(seq, r)[Len(w)], r[Len(w) + 1])
  <2>1. Len(w) + 1 \in 1..Len(r) /\ (Len(w) + 1) - 1 = Len(w)
    BY <1>1
  <2> QED
    BY <1>1, <2>1, CountingSteps
<1>4. Len(w) \in 0..Len(w)
  BY <1>1
<1> QED
  BY <1>1, <1>2, <1>3, <1>4 DEF r

\* The first cell counted and taken.
LEMMA CountingTail ==
  ASSUME NEW seq \in Nat, NEW w \in Seq(Cell), w # << >>
  PROVE  \A k \in 0..Len(Tail(w)) :
           Counting(Counted(seq, w[1]), Tail(w))[k] = Counting(seq, w)[k + 1]
<1> DEFINE r == Tail(w)
           s == Counted(seq, w[1])
           T == {k \in Nat : k <= Len(r) => Counting(s, r)[k] = Counting(seq, w)[k + 1]}
<1>1. /\ r \in Seq(Cell) /\ Len(w) \in Nat \ {0} /\ Len(r) = Len(w) - 1
      /\ w[1] \in Cell
      /\ \A i \in 1..Len(r) : r[i] = w[i + 1] /\ i + 1 \in 1..Len(w)
  BY TakenCell
<1>2. s \in Nat
  BY <1>1, CountedCell
<1> HIDE DEF r
<1>3. 0 \in T
  <2>1. 1 \in 1..Len(w) /\ 1 - 1 = 0 /\ 0 + 1 = 1
    BY <1>1
  <2>2. Counting(seq, w)[1] = s
    BY <2>1, CountingSteps
  <2>3. Counting(s, r)[0] = s
    BY <1>1, <1>2, CountingSteps
  <2> QED
    BY <2>1, <2>2, <2>3
<1> HIDE DEF s
<1>4. ASSUME NEW k \in Nat, k \in T
      PROVE  k + 1 \in T
  <2> SUFFICES ASSUME k + 1 <= Len(r)
               PROVE  Counting(s, r)[k + 1] = Counting(seq, w)[(k + 1) + 1]
    OBVIOUS
  <2>1. /\ k + 1 \in 1..Len(r) /\ (k + 1) - 1 = k
        /\ (k + 1) + 1 \in 1..Len(w) /\ ((k + 1) + 1) - 1 = k + 1
        /\ Counting(s, r)[k] = Counting(seq, w)[k + 1]
        /\ r[k + 1] = w[(k + 1) + 1]
    BY <1>1, <1>4
  <2>2. /\ Counting(s, r)[k + 1] = Counted(Counting(s, r)[k], r[k + 1])
        /\ Counting(seq, w)[(k + 1) + 1]
             = Counted(Counting(seq, w)[k + 1], w[(k + 1) + 1])
    BY <1>1, <1>2, <2>1, CountingSteps
  <2> QED
    BY <2>1, <2>2
<1> HIDE DEF T
<1>5. Nat \subseteq T
  BY <1>3, <1>4, SetInduction
<1>6. \A k \in 0..Len(r) : Counting(s, r)[k] = Counting(seq, w)[k + 1]
  BY <1>1, <1>5 DEF T
<1> QED
  BY <1>6 DEF r, s

\* The count gives every numbered cell of a wire its number.
Numbered(seq, w) ==
  \A k \in DOMAIN w : Multiplexed(w[k]) => Counting(seq, w)[k] = w[k].no

\* What it has got to at the end of the wire.
Total(seq, w) == Counting(seq, w)[Len(w)]

\* A cell is taken and counted: the rest keeps its numbers.
LEMMA NumberedTaken ==
  ASSUME NEW seq \in Nat, NEW w \in Seq(Cell), w # << >>, Numbered(seq, w)
  PROVE  /\ Numbered(Counted(seq, w[1]), Tail(w))
         /\ Total(Counted(seq, w[1]), Tail(w)) = Total(seq, w)
         /\ Multiplexed(w[1]) => w[1].no = seq + 1
<1>1. /\ Tail(w) \in Seq(Cell) /\ DOMAIN Tail(w) = 1..Len(Tail(w))
      /\ Len(w) \in Nat \ {0} /\ Len(Tail(w)) = Len(w) - 1 /\ DOMAIN w = 1..Len(w)
      /\ \A i \in 1..Len(Tail(w)) : Tail(w)[i] = w[i + 1] /\ i + 1 \in 1..Len(w)
  BY TakenCell
<1>2. \A k \in 0..Len(Tail(w)) :
        Counting(Counted(seq, w[1]), Tail(w))[k] = Counting(seq, w)[k + 1]
  BY CountingTail
<1>3. Numbered(Counted(seq, w[1]), Tail(w))
  <2> SUFFICES ASSUME NEW k \in 1..Len(Tail(w)), Multiplexed(Tail(w)[k])
               PROVE  Counting(Counted(seq, w[1]), Tail(w))[k] = Tail(w)[k].no
    BY <1>1 DEF Numbered
  <2>1. k \in 0..Len(Tail(w)) /\ Tail(w)[k] = w[k + 1] /\ k + 1 \in DOMAIN w
    BY <1>1
  <2> QED
    BY <1>2, <2>1 DEF Numbered
<1>4. Total(Counted(seq, w[1]), Tail(w)) = Total(seq, w)
  <2>1. Len(Tail(w)) \in 0..Len(Tail(w)) /\ Len(Tail(w)) + 1 = Len(w)
    BY <1>1
  <2> QED
    BY <1>2, <2>1 DEF Total
<1>5. Multiplexed(w[1]) => w[1].no = seq + 1
  <2>1. 1 \in 1..Len(w) /\ 1 - 1 = 0
    BY <1>1
  <2>2. Counting(seq, w)[1] = Counted(seq, w[1])
    BY <2>1, CountingSteps
  <2> QED
    BY <1>1, <2>1, <2>2 DEF Numbered, Counted
<1> QED
  BY <1>3, <1>4, <1>5

\* What is left of a wire that broke keeps its numbers.
LEMMA NumberedShrunk ==
  ASSUME NEW seq \in Nat, NEW w \in Seq(Cell), NEW r \in Seq(Cell), Shrunk(r, w),
         Numbered(seq, w)
  PROVE  Numbered(seq, r)
<1> SUFFICES ASSUME NEW k \in DOMAIN r, Multiplexed(r[k])
             PROVE  Counting(seq, r)[k] = r[k].no
  BY DEF Numbered
<1>1. k \in DOMAIN w /\ \A i \in 1..k : r[i] = w[i]
  BY DEF Shrunk, Multiplexed
<1>2. k \in Nat /\ k <= Len(r) /\ k <= Len(w) /\ k \in 0..k /\ k \in 1..k
  BY <1>1
<1>3. Counting(seq, r)[k] = Counting(seq, w)[k]
  BY <1>1, <1>2, CountingPrefix
<1> QED
  BY <1>1, <1>2, <1>3 DEF Numbered

\* A cell more that carries the next number, or none.
LEMMA NumberedAppended ==
  ASSUME NEW seq \in Nat, NEW w \in Seq(Cell), NEW c \in Cell, Numbered(seq, w),
         Multiplexed(c) => c.no = Total(seq, w) + 1
  PROVE  /\ Numbered(seq, w \o <<c>>)
         /\ Total(seq, w \o <<c>>) = Counted(Total(seq, w), c)
<1> DEFINE r == w \o <<c>>
<1>1. /\ r \in Seq(Cell) /\ Len(w) \in Nat
      /\ DOMAIN w = 1..Len(w) /\ DOMAIN r = 1..(Len(w) + 1)
      /\ \A i \in 1..Len(w) : r[i] = w[i]
      /\ r[Len(w) + 1] = c
  BY AppendedCell
<1>2. /\ \A k \in 0..Len(w) : Counting(seq, r)[k] = Counting(seq, w)[k]
      /\ Counting(seq, r)[Len(w) + 1] = Counted(Counting(seq, w)[Len(w)], c)
      /\ Len(r) = Len(w) + 1
  BY CountingAppended
<1> HIDE DEF r
<1>3. ASSUME NEW k \in DOMAIN r, Multiplexed(r[k])
      PROVE  Counting(seq, r)[k] = r[k].no
  <2>1. CASE k = Len(w) + 1
    BY <1>1, <1>2, <1>3, <2>1 DEF Counted, Total
  <2>2. CASE k # Len(w) + 1
    <3>1. k \in 1..Len(w) /\ k \in 0..Len(w)
      BY <1>1, <2>2
    <3> QED
      BY <1>1, <1>2, <1>3, <3>1 DEF Numbered
  <2> QED
    BY <2>1, <2>2
<1>4. Numbered(seq, r)
  BY <1>3 DEF Numbered
<1>5. Total(seq, r) = Counted(Total(seq, w), c)
  BY <1>2 DEF Total
<1> QED
  BY <1>4, <1>5 DEF r

\* Nothing to count.
LEMMA NumberedNone ==
  ASSUME NEW seq \in Nat, NEW w \in Seq(Cell),
         \A i \in DOMAIN w : ~Multiplexed(w[i]) /\ w[i].cmd # "SWITCH"
  PROVE  Numbered(seq, w) /\ Total(seq, w) = seq
<1> DEFINE T == {k \in Nat : k <= Len(w) => Counting(seq, w)[k] = seq}
<1>1. 0 \in T
  BY CountingSteps
<1>2. ASSUME NEW k \in Nat, k \in T
      PROVE  k + 1 \in T
  <2> SUFFICES ASSUME k + 1 <= Len(w)
               PROVE  Counting(seq, w)[k + 1] = seq
    OBVIOUS
  <2>1. k + 1 \in 1..Len(w) /\ (k + 1) - 1 = k /\ k + 1 \in DOMAIN w
        /\ Counting(seq, w)[k] = seq
    BY <1>2
  <2>2. Counting(seq, w)[k + 1] = Counted(Counting(seq, w)[k], w[k + 1])
    BY <2>1, CountingSteps
  <2> QED
    BY <2>1, <2>2 DEF Counted
<1> HIDE DEF T
<1>3. Nat \subseteq T
  BY <1>1, <1>2, SetInduction
<1>4. Len(w) \in Nat
  OBVIOUS
<1>5. Total(seq, w) = seq
  BY <1>3, <1>4 DEF T, Total
<1>6. Numbered(seq, w)
  BY DEF Numbered
<1> QED
  BY <1>5, <1>6

\* CellsNumbered, in these words.
LEMMA NumberedCells ==
  CellsNumbered <=>
    \A e \in End, l \in Leg : l \in legs[Other(e)] =>
      /\ Numbered(last_seq_recv[Other(e)][l], wire[e][l])
      /\ l \in legs[e] /\ ~Broken(wire[e][l]) =>
           Total(last_seq_recv[Other(e)][l], wire[e][l]) = last_seq_sent[e][l]
  BY DEF CellsNumbered, Numbered, Total, SeqAfter

\* The same of the next state.
LEMMA NumberedCellsNext ==
  CellsNumbered' <=>
    \A e \in End, l \in Leg : l \in legs'[Other(e)] =>
      /\ Numbered(last_seq_recv'[Other(e)][l], wire'[e][l])
      /\ l \in legs'[e] /\ ~Broken(wire'[e][l]) =>
           Total(last_seq_recv'[Other(e)][l], wire'[e][l]) = last_seq_sent'[e][l]
  BY DEF CellsNumbered, Numbered, Total, SeqAfter

-----------------------------------------------------------------------------
(* Steps that send and deliver nothing *)

Numbers == {"DATA", "OTHER", "SWITCH"}

\* r has no cell of these commands that is not in w, at most one place further
\* back.
FewerCells(r, w, cmds) ==
  \E d \in {0, 1} : \A i \in DOMAIN r :
    r[i].cmd \in cmds => /\ i \in Nat /\ i + d \in DOMAIN w /\ r[i] = w[i + d]

\* Of all the wires.
FewerWires(r, cmds) ==
  \A f \in End, m \in Leg : FewerCells(r[f][m], wire[f][m], cmds)

\* Wires of which some broke.
LEMMA FewerShrunk ==
  ASSUME NEW r, ShrunkWires(r), NEW cmds, "DESTROY" \notin cmds
  PROVE  FewerWires(r, cmds)
<1> SUFFICES ASSUME NEW f \in End, NEW m \in Leg
             PROVE  FewerCells(r[f][m], wire[f][m], cmds)
  BY DEF FewerWires
<1>1. \A i \in DOMAIN r[f][m] : r[f][m][i].cmd \in cmds =>
        /\ i \in Nat /\ i + 0 \in DOMAIN wire[f][m]
        /\ r[f][m][i] = wire[f][m][i + 0]
  BY DEF ShrunkWires
<1> QED
  BY <1>1 DEF FewerCells

\* A wire with no such cell.
LEMMA FewerNone ==
  ASSUME NEW r, NEW w, NEW cmds, \A i \in DOMAIN r : r[i].cmd \notin cmds
  PROVE  FewerCells(r, w, cmds)
  BY DEF FewerCells

\* The same wire.
LEMMA FewerSame ==
  ASSUME NEW w \in Seq(Cell), NEW cmds
  PROVE  FewerCells(w, w, cmds)
<1>1. \A i \in DOMAIN w : i \in Nat /\ i + 0 = i
  OBVIOUS
<1> QED
  BY <1>1 DEF FewerCells

\* A wire with another cell behind it.
LEMMA FewerAppended ==
  ASSUME NEW w \in Seq(Cell), NEW c \in Cell, NEW cmds, c.cmd \notin cmds
  PROVE  FewerCells(w \o <<c>>, w, cmds)
<1> DEFINE r == w \o <<c>>
<1>1. /\ Len(w) \in Nat /\ DOMAIN w = 1..Len(w) /\ DOMAIN r = 1..(Len(w) + 1)
      /\ \A i \in 1..Len(w) : r[i] = w[i]
      /\ r[Len(w) + 1] = c
  BY AppendedCell
<1> HIDE DEF r
<1>2. ASSUME NEW i \in DOMAIN r, r[i].cmd \in cmds
      PROVE  i \in Nat /\ i + 0 \in DOMAIN w /\ r[i] = w[i + 0]
  <2>1. i # Len(w) + 1
    BY <1>1, <1>2
  <2>2. i \in 1..Len(w) /\ i + 0 = i
    BY <1>1, <2>1
  <2> QED
    BY <1>1, <2>2
<1>3. FewerCells(r, w, cmds)
  BY <1>2 DEF FewerCells
<1> QED
  BY <1>3 DEF r

\* Wires of which a cell was taken and perhaps answered.
LEMMA FewerTaken ==
  ASSUME wire \in WireType, NEW e \in End, NEW l \in Leg, NEW taken, NEW c \in Cell,
         NEW answers, NEW r, TakenPut(r, e, l, taken, c, answers),
         NEW cmds, c.cmd \notin cmds
  PROVE  FewerWires(r, cmds)
<1> SUFFICES ASSUME NEW f \in End, NEW m \in Leg
             PROVE  FewerCells(r[f][m], wire[f][m], cmds)
  BY DEF FewerWires
<1>1. wire[f][m] \in Seq(Cell)
  BY DEF WireType
<1>2. CASE m # l
  BY <1>1, <1>2, FewerSame DEF TakenPut
<1>3. CASE m = l /\ f = e
  BY <1>1, <1>3, FewerSame, FewerAppended DEF TakenPut
<1>4. CASE m = l /\ f = Other(e)
  <2>1. r[f][m] = Tail(wire[f][m]) /\ wire[f][m] # << >>
    BY <1>4 DEF TakenPut
  <2>2. \A i \in DOMAIN Tail(wire[f][m]) :
          /\ i \in Nat /\ i + 1 \in DOMAIN wire[f][m]
          /\ Tail(wire[f][m])[i] = wire[f][m][i + 1]
    BY <1>1, <2>1
  <2> QED
    BY <2>1, <2>2 DEF FewerCells
<1> QED
  BY <1>2, <1>3, <1>4, Ends

\* Numbered cells, and SWITCHes, have such commands.
LEMMA NumbersAre ==
  \A c : (Multiplexed(c) => c.cmd \in Numbers) /\ (c.cmd = "SWITCH" => c.cmd \in Numbers)
  BY DEF Multiplexed, Numbers

\* What is on its way still is what was sent.
LEMMA OnceKept ==
  ASSUME CellsOnce, FewerWires(wire', Numbers), sent' = sent, delivered' = delivered,
         \A f \in End : ooo_q'[f] \subseteq ooo_q[f],
         \A f \in End, m \in Leg : \A i \in DOMAIN wire[f][m] : i \in Nat
  PROVE  CellsOnce'
<1> SUFFICES ASSUME NEW f \in End, NEW m \in Leg, NEW i \in DOMAIN wire'[f][m],
                    Multiplexed(wire'[f][m][i])
             PROVE  LET cell == wire'[f][m][i] IN
                    /\ cell.no \in (Len(delivered'[Other(f)]) + 1)..Len(sent'[f])
                    /\ sent'[f][cell.no] = [leg |-> m, cmd |-> cell.cmd]
                    /\ \A c \in ooo_q'[Other(f)] : c.no # cell.no
                    /\ \A j \in DOMAIN wire'[f][m] :
                         Multiplexed(wire'[f][m][j])
                         /\ wire'[f][m][j].no = cell.no => j = i
  BY DEF CellsOnce
<1>1. PICK d \in {0, 1} : \A j \in DOMAIN wire'[f][m] :
        wire'[f][m][j].cmd \in Numbers =>
          /\ j \in Nat /\ j + d \in DOMAIN wire[f][m]
          /\ wire'[f][m][j] = wire[f][m][j + d]
  BY DEF FewerWires, FewerCells
<1>2. /\ i + d \in DOMAIN wire[f][m] /\ i \in Nat
      /\ wire'[f][m][i] = wire[f][m][i + d]
  BY <1>1, NumbersAre
<1> DEFINE cell == wire'[f][m][i]
<1>3. /\ cell.no \in (Len(delivered[Other(f)]) + 1)..Len(sent[f])
      /\ sent[f][cell.no] = [leg |-> m, cmd |-> cell.cmd]
      /\ \A c \in ooo_q[Other(f)] : c.no # cell.no
      /\ \A j \in DOMAIN wire[f][m] :
           Multiplexed(wire[f][m][j]) /\ wire[f][m][j].no = cell.no => j = i + d
  BY <1>2 DEF CellsOnce
<1>4. ASSUME NEW j \in DOMAIN wire'[f][m], Multiplexed(wire'[f][m][j]),
             wire'[f][m][j].no = cell.no
      PROVE  j = i
  <2>1. /\ j + d \in DOMAIN wire[f][m] /\ j \in Nat
        /\ wire'[f][m][j] = wire[f][m][j + d]
    BY <1>1, <1>4, NumbersAre
  <2>2. j + d = i + d
    BY <1>3, <1>4, <2>1
  <2> QED
    BY <1>2, <2>1, <2>2
<1>5. ooo_q'[Other(f)] \subseteq ooo_q[Other(f)]
  BY Ends
<1> QED
  BY <1>3, <1>4, <1>5

\* An end that has sent nothing is not counted on.
LEMMA StartsKept ==
  ASSUME StartsAtZero, FewerWires(wire', Numbers), sent' = sent,
         \A f \in End, m \in Leg : sent[f] = << >> =>
           last_seq_recv'[Other(f)][m] \in {last_seq_recv[Other(f)][m], 0},
         \A m \in Leg : \A i \in DOMAIN wire'["exit"][m] :
           wire'["exit"][m][i].cmd = "LINKED" => wire'["exit"][m][i].last_seqno_sent = 0,
         \A m \in Leg : link'[m] # NULL => link'[m].last_seqno_sent = 0
  PROVE  StartsAtZero'
<1>1. ASSUME NEW f \in End, NEW m \in Leg, sent'[f] = << >>
      PROVE  /\ last_seq_recv'[Other(f)][m] = 0
             /\ \A i \in DOMAIN wire'[f][m] : wire'[f][m][i].cmd # "SWITCH"
  <2>1. PICK d \in {0, 1} : \A j \in DOMAIN wire'[f][m] :
          wire'[f][m][j].cmd \in Numbers =>
            /\ j \in Nat /\ j + d \in DOMAIN wire[f][m]
            /\ wire'[f][m][j] = wire[f][m][j + d]
    BY DEF FewerWires, FewerCells
  <2>2. /\ last_seq_recv[Other(f)][m] = 0
        /\ \A i \in DOMAIN wire[f][m] : wire[f][m][i].cmd # "SWITCH"
    BY <1>1 DEF StartsAtZero
  <2> QED
    BY <1>1, <2>1, <2>2 DEF Numbers
<1> QED
  BY <1>1 DEF StartsAtZero

\* When no LINKED is put on a wire and none kept.
LEMMA LinkedZeroKept ==
  ASSUME StartsAtZero, FewerWires(wire', {"LINKED"}),
         \A m \in Leg : link'[m] = link[m] \/ link'[m] = NULL
  PROVE  /\ \A m \in Leg : \A i \in DOMAIN wire'["exit"][m] :
              wire'["exit"][m][i].cmd = "LINKED" =>
                wire'["exit"][m][i].last_seqno_sent = 0
         /\ \A m \in Leg : link'[m] # NULL => link'[m].last_seqno_sent = 0
<1>1. ASSUME NEW m \in Leg, NEW i \in DOMAIN wire'["exit"][m],
             wire'["exit"][m][i].cmd = "LINKED"
      PROVE  wire'["exit"][m][i].last_seqno_sent = 0
  <2>1. PICK d \in {0, 1} : \A j \in DOMAIN wire'["exit"][m] :
          wire'["exit"][m][j].cmd \in {"LINKED"} =>
            /\ j \in Nat /\ j + d \in DOMAIN wire["exit"][m]
            /\ wire'["exit"][m][j] = wire["exit"][m][j + d]
    BY DEF FewerWires, FewerCells, End
  <2> QED
    BY <1>1, <2>1 DEF StartsAtZero
<1>2. \A m \in Leg : link'[m] # NULL => link'[m].last_seqno_sent = 0
  BY DEF StartsAtZero
<1> QED
  BY <1>1, <1>2

Quiet == UNCHANGED <<sent, delivered, last_seq_delivered, ooo_q>>

\* What was delivered stays so, and a new set of the exit stays apart from the
\* client's.
LEMMA DeliveredKept ==
  ASSUME DeliveredInOrder, FewerWires(wire', Numbers), Quiet,
         legs'["exit"] \subseteq legs["exit"],
         legs'["client"] \subseteq legs["client"] \/ sent["client"] = << >>,
         sent \in [End -> Seq([leg : Leg, cmd : {"DATA", "OTHER"}])],
         legs \in [End -> SUBSET Leg]
  PROVE  DeliveredInOrder'
<1>1. ASSUME Renewed, NEW l \in legs'["exit"]
      PROVE  /\ l \notin legs'["client"]
             /\ \A i \in DOMAIN wire'["client"][l] : ~Multiplexed(wire'["client"][l][i])
  <2>1. /\ l \in legs["exit"] /\ l \in Leg
        /\ l \notin legs["client"]
        /\ \A i \in DOMAIN wire["client"][l] : ~Multiplexed(wire["client"][l][i])
    BY <1>1 DEF DeliveredInOrder, End
  <2>2. sent["client"] # << >>
    <3>1. /\ delivered["exit"] \in Seq(Nat) /\ delivered["exit"] # << >>
          /\ Len(delivered["exit"]) <= Len(sent["client"])
      BY <1>1 DEF DeliveredInOrder, Renewed, End, Other
    <3> QED
      BY <3>1
  <2>3. PICK d \in {0, 1} : \A j \in DOMAIN wire'["client"][l] :
          wire'["client"][l][j].cmd \in Numbers =>
            /\ j \in Nat /\ j + d \in DOMAIN wire["client"][l]
            /\ wire'["client"][l][j] = wire["client"][l][j + d]
    BY <2>1 DEF FewerWires, FewerCells, End
  <2> QED
    BY <2>1, <2>2, <2>3, NumbersAre
<1>2. Renewed' = Renewed
  BY DEF Quiet, Renewed
<1> QED
  BY <1>1, <1>2 DEF DeliveredInOrder, Quiet

\* The leg in use stays, with its number, or goes with the set.
LEMMA CurrLegKept ==
  ASSUME CurrLegLast, Quiet,
         \A e \in End :
           \/ /\ curr_leg'[e] = curr_leg[e]
              /\ curr_leg[e] # NULL =>
                   last_seq_sent'[e][curr_leg[e]] = last_seq_sent[e][curr_leg[e]]
              /\ legs[e] # {} \/ legs'[e] = {}
           \/ curr_leg'[e] = NULL /\ legs'[e] = {}
  PROVE  CurrLegLast'
<1>1. Renewed' = Renewed
  BY DEF Quiet, Renewed
<1> QED
  BY <1>1 DEF CurrLegLast, Quiet

\* What has not come is a finite set.
LEMMA UnreceivedFinite ==
  ASSUME delivered \in [End -> Seq(Nat)],
         sent \in [End -> Seq([leg : Leg, cmd : {"DATA", "OTHER"}])],
         NEW e \in End, NEW l
  PROVE  /\ IsFiniteSet(Unreceived(e, l)) /\ Cardinality(Unreceived(e, l)) \in Nat
         /\ Unreceived(e, l) \in SUBSET Nat
<1> DEFINE a == Len(delivered[Other(e)]) + 1
           b == Len(sent[e])
<1>1. a \in Int /\ b \in Int
  BY Ends
<1>2. Unreceived(e, l) \subseteq a..b /\ a..b \subseteq Int
  BY DEF Unreceived
<1>3. IsFiniteSet(a..b)
  BY <1>1, FS_Interval
<1>4. IsFiniteSet(Unreceived(e, l))
  BY <1>2, <1>3, FS_Subset
<1>5. a \in Nat
  BY Ends
<1> QED
  BY <1>2, <1>4, <1>5, FS_CardinalityType

\* Nothing is missing of what was not sent.
LEMMA UnreceivedNone ==
  ASSUME delivered \in [End -> Seq(Nat)],
         NEW e \in End, sent[e] = << >>, NEW l
  PROVE  Unreceived(e, l) = {}
<1>1. Len(sent[e]) = 0 /\ Len(delivered[Other(e)]) \in Nat
  BY Ends
<1> QED
  BY <1>1 DEF Unreceived

\* An end's DATA that has not come stays in flight, or is given up with the leg,
\* by a step that delivers nothing.
BoundKept(f, m) ==
  /\ m \notin legs'[f] => inflight'[f][m] = 0
  /\ \/ TornDown'
     \/ /\ ~TornDown
        /\ IF circ'[f][m] = "closed"
           THEN circ[f][m] = "closed" \/ inflight[f][m] < SendmeInc
           ELSE /\ circ[f][m] # "closed"
                /\ inflight'[f][m]
                     - (SendmeInc * Count(wire'[Other(f)][m], "SENDME")
                          + unacked'[Other(f)][m])
                   >= inflight[f][m]
                        - (SendmeInc * Count(wire[Other(f)][m], "SENDME")
                             + unacked[Other(f)][m])

\* What the counters count is a number.
BoundTypes ==
  \A f \in End, m \in Leg :
    /\ inflight[f][m] \in Nat /\ unacked[Other(f)][m] \in Nat
    /\ SendmeInc * Count(wire[Other(f)][m], "SENDME") \in Nat

\* They are numbers wherever the types are right.
LEMMA BoundsTyped ==
  ASSUME IInv
  PROVE  BoundTypes
<1> SUFFICES ASSUME NEW f \in End, NEW m \in Leg
             PROVE  /\ inflight[f][m] \in Nat /\ unacked[Other(f)][m] \in Nat
                    /\ SendmeInc * Count(wire[Other(f)][m], "SENDME") \in Nat
  BY DEF BoundTypes
<1>1. Other(f) \in End
  BY Ends
<1>2. /\ inflight \in [End -> [Leg -> Nat]] /\ unacked \in [End -> [Leg -> Nat]]
      /\ wire \in [End -> [Leg -> Seq(Cell)]]
  BY DEF IInv, TypeOK, FieldTypes
<1>3. Count(wire[Other(f)][m], "SENDME") \in Nat
  <2>1. wire[Other(f)][m] \in Seq(Cell)
    BY <1>1, <1>2
  <2> QED
    BY <2>1, CountType
<1>4. SendmeInc * Count(wire[Other(f)][m], "SENDME") \in Nat
  BY <1>3, TimesMore, ConfluxAssumption
<1> QED
  BY <1>1, <1>2, <1>4

\* And in the next state.
LEMMA BoundsTypedNext ==
  ASSUME IInv'
  PROVE  BoundTypes'
<1> SUFFICES ASSUME NEW f \in End, NEW m \in Leg
             PROVE  /\ inflight'[f][m] \in Nat /\ unacked'[Other(f)][m] \in Nat
                    /\ SendmeInc * Count(wire'[Other(f)][m], "SENDME") \in Nat
  BY DEF BoundTypes
<1>1. Other(f) \in End
  BY Ends
<1>2. /\ inflight' \in [End -> [Leg -> Nat]] /\ unacked' \in [End -> [Leg -> Nat]]
      /\ wire' \in [End -> [Leg -> Seq(Cell)]]
  BY DEF IInv, TypeOK, FieldTypes
<1>3. Count(wire'[Other(f)][m], "SENDME") \in Nat
  <2>1. wire'[Other(f)][m] \in Seq(Cell)
    BY <1>1, <1>2
  <2> QED
    BY <2>1, CountType
<1>4. SendmeInc * Count(wire'[Other(f)][m], "SENDME") \in Nat
  BY <1>3, TimesMore, ConfluxAssumption
<1> QED
  BY <1>1, <1>2, <1>4

\* Leg by leg, the bound holds after such a step.
LEMMA UnreceivedKept ==
  ASSUME FlowInv, IInv', Quiet, \A f \in End, m \in Leg : BoundKept(f, m)
  PROVE  UnreceivedBounded'
<1> SUFFICES ASSUME NEW f \in End, NEW m \in Leg, ~TornDown'
             PROVE  IF circ'[f][m] = "closed"
                    THEN Cardinality(Unreceived(f, m)') < SendmeInc
                    ELSE inflight'[f][m] >=
                           SendmeInc * Count(wire'[Other(f)][m], "SENDME")
                             + unacked'[Other(f)][m] + Cardinality(Unreceived(f, m)')
  BY DEF UnreceivedBounded, BoundKept
<1>1. Unreceived(f, m)' = Unreceived(f, m)
  BY DEF Quiet, Unreceived
<1> DEFINE u == Cardinality(Unreceived(f, m))
           b == SendmeInc * Count(wire[Other(f)][m], "SENDME")
           n == SendmeInc * Count(wire'[Other(f)][m], "SENDME")
<1>2. u \in Nat
  BY UnreceivedFinite DEF FlowInv, IInv, FieldTypes, DeliveredInOrder
<1>3. /\ inflight[f][m] \in Nat /\ unacked[Other(f)][m] \in Nat /\ b \in Nat
      /\ inflight'[f][m] \in Nat /\ unacked'[Other(f)][m] \in Nat /\ n \in Nat
  <2>1. BoundTypes /\ BoundTypes'
    BY BoundsTyped, BoundsTypedNext DEF FlowInv
  <2> QED
    BY <2>1 DEF BoundTypes
<1>4. SendmeInc \in Nat
  BY ConfluxAssumption
<1>5. IF circ[f][m] = "closed" THEN u < SendmeInc
      ELSE inflight[f][m] >= b + unacked[Other(f)][m] + u
  BY DEF FlowInv, UnreceivedBounded, BoundKept
<1>6. IF circ'[f][m] = "closed"
      THEN circ[f][m] = "closed" \/ inflight[f][m] < SendmeInc
      ELSE /\ circ[f][m] # "closed"
           /\ inflight'[f][m] - (n + unacked'[Other(f)][m])
                >= inflight[f][m] - (b + unacked[Other(f)][m])
  BY DEF BoundKept
<1> HIDE DEF u, b, n
<1>7. IF circ'[f][m] = "closed" THEN u < SendmeInc
      ELSE inflight'[f][m] >= n + unacked'[Other(f)][m] + u
  BY <1>2, <1>3, <1>4, <1>5, <1>6
<1> QED
  BY <1>1, <1>7 DEF u, n

-----------------------------------------------------------------------------
(* Cells that count nothing or a SWITCH arrive *)

\* The types the following steps use.
LEMMA FlowTypes ==
  ASSUME IInv
  PROVE  /\ wire \in WireType /\ wire \in [End -> [Leg -> Seq(Cell)]]
         /\ legs \in [End -> SUBSET Leg]
         /\ last_seq_recv \in [End -> [Leg -> Nat]]
         /\ last_seq_sent \in [End -> [Leg -> Nat]]
         /\ inflight \in [End -> [Leg -> Nat]] /\ unacked \in [End -> [Leg -> Nat]]
         /\ circ \in [End -> [Leg -> {"none", "building", "open", "closed"}]]
         /\ sent \in [End -> Seq([leg : Leg, cmd : {"DATA", "OTHER"}])]
         /\ curr_leg \in [End -> Leg \cup {NULL}]
         /\ \A f \in End : curr_leg[f] \in legs[f] \cup {NULL}
         /\ last_seq_delivered \in [End -> Nat]
         /\ ooo_q \in [End -> SUBSET [seq : Nat, no : Nat]]
         /\ \A f \in End, m \in Leg : \A i \in DOMAIN wire[f][m] : i \in Nat
<1>1. wire \in [End -> [Leg -> Seq(Cell)]]
  BY DEF IInv, FieldTypes
<1>2. \A f \in End, m \in Leg : \A i \in DOMAIN wire[f][m] : i \in Nat
  <2> SUFFICES ASSUME NEW f \in End, NEW m \in Leg
               PROVE  \A i \in DOMAIN wire[f][m] : i \in Nat
    OBVIOUS
  <2>1. wire[f][m] \in Seq(Cell)
    BY <1>1
  <2> QED
    BY <2>1
<1> QED
  BY <1>1, <1>2 DEF IInv, TypeOK, FieldTypes, WireType

\* A cell is counted by its receiver as its sender did.
LEMMA NumberedArrival ==
  ASSUME IInv, CellsNumbered, NEW e \in End, NEW l \in Leg, NEW cmds,
         "DESTROY" \notin cmds, NEW c \in Cell, ~Multiplexed(c), c.cmd # "SWITCH",
         NEW answers, TakenPut(wire', e, l, cmds, c, answers), l \in legs[e],
         legs' = legs, last_seq_sent' = last_seq_sent,
         last_seq_recv' = [last_seq_recv EXCEPT
           ![e][l] = Counted(last_seq_recv[e][l], wire[Other(e)][l][1])]
  PROVE  /\ CellsNumbered'
         /\ Multiplexed(wire[Other(e)][l][1]) =>
              wire[Other(e)][l][1].no = last_seq_recv[e][l] + 1
<1>1. /\ wire \in [End -> [Leg -> Seq(Cell)]] /\ legs \in [End -> SUBSET Leg]
      /\ last_seq_recv \in [End -> [Leg -> Nat]]
  BY FlowTypes
<1>2. \A f \in End, m \in Leg : m \in legs[Other(f)] =>
        /\ Numbered(last_seq_recv[Other(f)][m], wire[f][m])
        /\ m \in legs[f] /\ ~Broken(wire[f][m]) =>
             Total(last_seq_recv[Other(f)][m], wire[f][m]) = last_seq_sent[f][m]
  BY NumberedCells
<1> DEFINE o == Other(e)
           w == wire[o][l]
           s == last_seq_recv[e][l]
<1>3. /\ o \in End /\ o # e /\ Other(o) = e /\ \A f \in End : f = e \/ f = o
  BY Ends
<1>4. /\ w \in Seq(Cell) /\ w # << >> /\ s \in Nat /\ w[1].cmd \in cmds
      /\ wire'[o][l] = Tail(w)
  BY <1>1, <1>3 DEF TakenPut
<1>5. /\ last_seq_recv'[e][l] = Counted(s, w[1])
      /\ \A f \in End, m \in Leg :
           f # e \/ m # l => last_seq_recv'[f][m] = last_seq_recv[f][m]
  BY <1>1
<1>6. Numbered(s, w)
  BY <1>2, <1>3
<1>7. /\ Numbered(Counted(s, w[1]), Tail(w))
      /\ Total(Counted(s, w[1]), Tail(w)) = Total(s, w)
      /\ Multiplexed(w[1]) => w[1].no = s + 1
  BY <1>4, <1>6, NumberedTaken
<1>8. ~Broken(Tail(w)) => ~Broken(w)
  <2> SUFFICES ASSUME Broken(w)
               PROVE  Broken(Tail(w))
    OBVIOUS
  <2>1. PICK i \in DOMAIN w : w[i].cmd = "DESTROY"
    BY DEF Broken
  <2>2. i # 1
    BY <1>4, <2>1
  <2>3. /\ Len(w) \in Nat \ {0} /\ DOMAIN w = 1..Len(w)
        /\ DOMAIN Tail(w) = 1..(Len(w) - 1)
        /\ \A k \in 1..(Len(w) - 1) : Tail(w)[k] = w[k + 1]
    BY <1>4, TakenCell
  <2> HIDE DEF w
  <2>4. i - 1 \in DOMAIN Tail(w) /\ Tail(w)[i - 1] = w[(i - 1) + 1] /\ (i - 1) + 1 = i
    BY <2>2, <2>3
  <2> QED
    BY <2>1, <2>4 DEF Broken
<1> HIDE DEF w, s, o
<1>9. ASSUME NEW f \in End, NEW m \in Leg, m \in legs'[Other(f)]
      PROVE  /\ Numbered(last_seq_recv'[Other(f)][m], wire'[f][m])
             /\ m \in legs'[f] /\ ~Broken(wire'[f][m]) =>
                  Total(last_seq_recv'[Other(f)][m], wire'[f][m]) = last_seq_sent'[f][m]
  <2>1. Other(f) \in End /\ (Other(f) = e <=> f = o)
    BY <1>3, Ends
  <2>2. CASE m # l
    <3>1. wire'[f][m] = wire[f][m] /\ last_seq_recv'[Other(f)][m] = last_seq_recv[Other(f)][m]
      BY <1>5, <2>1, <2>2 DEF TakenPut
    <3> QED
      BY <1>2, <1>9, <3>1
  <2>3. CASE m = l /\ f = o
    BY <1>2, <1>3, <1>4, <1>5, <1>7, <1>8, <1>9, <2>3 DEF w, s
  <2>4. CASE m = l /\ f = e
    <3>1. /\ last_seq_recv'[Other(f)][m] = last_seq_recv[Other(f)][m]
          /\ last_seq_recv[Other(f)][m] \in Nat /\ wire[f][m] \in Seq(Cell)
      BY <1>1, <1>3, <1>5, <2>1, <2>4
    <3>2. CASE wire'[f][m] = wire[f][m]
      BY <1>2, <1>9, <3>1, <3>2
    <3>3. CASE wire'[f][m] = wire[f][m] \o <<c>>
      <4>1. /\ Numbered(last_seq_recv[Other(f)][m], wire[f][m] \o <<c>>)
            /\ Total(last_seq_recv[Other(f)][m], wire[f][m] \o <<c>>)
                 = Counted(Total(last_seq_recv[Other(f)][m], wire[f][m]), c)
        BY <1>2, <1>9, <3>1, NumberedAppended
      <4>2. ~Broken(wire[f][m] \o <<c>>) => ~Broken(wire[f][m])
        <5>1. /\ DOMAIN wire[f][m] \subseteq DOMAIN (wire[f][m] \o <<c>>)
              /\ \A i \in DOMAIN wire[f][m] : (wire[f][m] \o <<c>>)[i] = wire[f][m][i]
          BY <3>1
        <5> QED
          BY <5>1 DEF Broken
      <4> QED
        BY <1>2, <1>9, <3>1, <3>3, <4>1, <4>2 DEF Counted
    <3> QED
      BY <2>4, <3>2, <3>3 DEF TakenPut
  <2> QED
    BY <1>3, <2>2, <2>3, <2>4
<1>10. CellsNumbered'
  BY <1>9, NumberedCellsNext
<1> QED
  BY <1>7, <1>10 DEF w, s, o

\* What a step that takes such a cell leaves of FlowInv.
LEMMA ArrivalKeeps ==
  ASSUME FlowInv, NEW e \in End, NEW l \in Leg,
         NEW cmds \in SUBSET {"LINKED_ACK", "SWITCH", "SENDME"},
         Arrives(e, l, cmds), wire' = Taken(e, l, << >>), Quiet,
         UNCHANGED <<circ, pool, legs, curr_leg, last_seq_sent>>,
         last_seq_recv' = [last_seq_recv EXCEPT
           ![e][l] = Counted(last_seq_recv[e][l], wire[Other(e)][l][1])]
  PROVE  StartsAtZero' /\ DeliveredInOrder' /\ CurrLegLast' /\ CellsOnce' /\ CellsNumbered'
<1> DEFINE c == [cmd |-> "SENDME"]
<1>1. c \in Cell /\ ~Multiplexed(c) /\ c.cmd = "SENDME" /\ << >> \in Seq(Cell)
  BY Commands, EmptySeq DEF Multiplexed
<1>2. IInv /\ wire \in WireType
  BY FlowTypes DEF FlowInv
<1> HIDE DEF c
<1>3. TakenPut(wire', e, l, cmds, c, << >>)
  BY <1>1, <1>2, TakenWire
<1>4. FewerWires(wire', Numbers) /\ FewerWires(wire', {"LINKED"})
  BY <1>1, <1>2, <1>3, FewerTaken DEF Numbers
<1>5. l \in legs[e] /\ wire[Other(e)][l][1].cmd \in cmds
  <2>1. Arrives(e, l, Later)
    BY DEF Arrives, Later
  <2> QED
    BY <1>2, <1>3, <2>1, ArrivedLinked DEF TakenPut
<1>6. StartsAtZero'
  <2>1. \A f \in End, m \in Leg : sent[f] = << >> =>
          last_seq_recv'[Other(f)][m] \in {last_seq_recv[Other(f)][m], 0}
    <3> SUFFICES ASSUME NEW f \in End, NEW m \in Leg, sent[f] = << >>
                 PROVE  last_seq_recv'[Other(f)][m] = last_seq_recv[Other(f)][m]
      OBVIOUS
    <3>1. last_seq_recv \in [End -> [Leg -> Nat]]
      BY <1>2, FlowTypes
    <3>2. CASE Other(f) = e /\ m = l
      <4>1. Other(e) = f
        BY <3>2, Ends
      <4>2. wire[f][l] \in Seq(Cell) /\ wire[f][l] # << >>
        BY <1>3, <4>1 DEF TakenPut
      <4>3. 1 \in DOMAIN wire[f][l]
        BY <4>2
      <4>4. wire[f][l][1].cmd # "SWITCH"
        BY <4>3 DEF FlowInv, StartsAtZero
      <4>5. ~Multiplexed(wire[f][l][1])
        BY <1>5, <4>1 DEF Multiplexed
      <4> QED
        BY <3>1, <3>2, <4>1, <4>4, <4>5 DEF Counted
    <3>3. CASE ~(Other(f) = e /\ m = l)
      BY <3>1, <3>3, Ends
    <3> QED
      BY <3>2, <3>3
  <2>2. \A m \in Leg : link'[m] = link[m]
    BY DEF pool
  <2> QED
    BY <1>4, <2>1, <2>2, LinkedZeroKept, StartsKept DEF FlowInv, Quiet
<1>7. DeliveredInOrder'
  BY <1>2, <1>4, FlowTypes, DeliveredKept DEF FlowInv
<1>8. CurrLegLast'
  BY <1>2, FlowTypes, CurrLegKept DEF FlowInv
<1>9. CellsOnce'
  BY <1>2, <1>4, FlowTypes, OnceKept DEF FlowInv, Quiet
<1>10. CellsNumbered'
  <2>1. "DESTROY" \notin cmds
    OBVIOUS
  <2> QED
    BY <1>1, <1>2, <1>3, <1>5, <2>1, NumberedArrival DEF FlowInv
<1> QED
  BY <1>6, <1>7, <1>8, <1>9, <1>10

\* Nothing arrives from a leg behind what was counted and what not.
LEMMA ArrivalCounts ==
  ASSUME FlowInv, NEW e \in End, NEW l \in Leg,
         NEW cmds, Arrives(e, l, cmds), wire' = Taken(e, l, << >>)
  PROVE  \A f \in End, m \in Leg :
           /\ Count(wire'[f][m], "SENDME") \in Nat /\ Count(wire[f][m], "SENDME") \in Nat
           /\ IF f = Other(e) /\ m = l /\ wire[Other(e)][l][1].cmd = "SENDME"
              THEN Count(wire[f][m], "SENDME") = Count(wire'[f][m], "SENDME") + 1
              ELSE Count(wire'[f][m], "SENDME") = Count(wire[f][m], "SENDME")
<1> DEFINE c == [cmd |-> "DESTROY"]
<1>1. c \in Cell /\ c.cmd = "DESTROY" /\ << >> \in Seq(Cell) /\ << >> # <<c>>
  BY Commands, EmptySeq
<1>2. IInv /\ wire \in WireType
  BY FlowTypes DEF FlowInv
<1> HIDE DEF c
<1>3. TakenOff(wire', e, l, cmds, c, << >>)
  BY <1>1, <1>2, TakenCells
<1>4. TakenCount(wire', e, l, c, << >>, "SENDME")
  BY <1>1, <1>2, <1>3, TakenCounts
<1>5. ASSUME NEW f \in End, NEW m \in Leg, m # l
      PROVE  wire'[f][m] = wire[f][m] /\ Count(wire[f][m], "SENDME") \in Nat
  <2>1. wire'[f][m] = wire[f][m]
    BY <1>3, <1>5 DEF TakenOff
  <2>2. wire[f][m] \in Seq(Cell)
    BY <1>2 DEF WireType
  <2> QED
    BY <2>1, <2>2, CountType
<1>6. ASSUME NEW f \in End
      PROVE  f = e \/ f = Other(e)
  BY Ends
<1>7. e # Other(e)
  BY Ends
<1>8. Count(wire[Other(e)][l], "SENDME") \in Nat
  BY <1>4 DEF TakenCount
<1> QED
  BY <1>1, <1>4, <1>5, <1>6, <1>7, <1>8 DEF TakenCount

\* The exit learns a RTT.
LEMMA FlowReceiveLinkedAck ==
  ASSUME FlowInv, IInv', NEW l \in Leg, ReceiveLinkedAck(l)
  PROVE  FlowInv'
<1>1. /\ Arrives("exit", l, {"LINKED_ACK"})
      /\ wire' = Taken("exit", l, << >>)
      /\ UNCHANGED <<circ, pool, legs, curr_leg, flow, closes>>
  BY DEF ReceiveLinkedAck
<1>2. /\ "exit" \in End /\ Quiet /\ last_seq_sent' = last_seq_sent
      /\ last_seq_recv' = last_seq_recv
      /\ inflight' = inflight /\ unacked' = unacked
  BY <1>1 DEF flow, End, Quiet
<1>3. IInv /\ last_seq_recv \in [End -> [Leg -> Nat]] /\ wire \in WireType
  BY FlowTypes DEF FlowInv
<1>4. wire[Other("exit")][l][1].cmd = "LINKED_ACK"
  <2>1. wire[Other("exit")][l] \in Seq(Cell)
    BY <1>2, <1>3, Ends DEF WireType
  <2> QED
    BY <1>1, <2>1 DEF Arrives
<1>5. last_seq_recv' = [last_seq_recv EXCEPT
        !["exit"][l] = Counted(last_seq_recv["exit"][l], wire[Other("exit")][l][1])]
  BY <1>2, <1>3, <1>4 DEF Counted, Multiplexed
<1>6. StartsAtZero' /\ DeliveredInOrder' /\ CurrLegLast' /\ CellsOnce' /\ CellsNumbered'
  BY <1>1, <1>2, <1>5, ArrivalKeeps
<1>7. \A f \in End, m \in Leg :
        Count(wire'[f][m], "SENDME") = Count(wire[f][m], "SENDME")
  BY <1>1, <1>2, <1>4, ArrivalCounts
<1>8. UnreceivedBounded'
  <2> SUFFICES ASSUME NEW f \in End, NEW m \in Leg
               PROVE  BoundKept(f, m)
    BY <1>2, UnreceivedKept
  <2>1. BoundTypes /\ Other(f) \in End
    BY <1>3, BoundsTyped, Ends
  <2>2. /\ legs' = legs /\ circ' = circ /\ TornDown' = TornDown
        /\ m \notin legs[f] => inflight[f][m] = 0
    BY <1>1 DEF TornDown, FlowInv, UnreceivedBounded
  <2> QED
    BY <1>2, <1>7, <2>1, <2>2 DEF BoundKept, BoundTypes
<1> QED
  BY <1>6, <1>8 DEF FlowInv

\* A leg is told how far it is behind.
LEMMA FlowReceiveSwitch ==
  ASSUME FlowInv, IInv', NEW e \in End, NEW l \in Leg, ReceiveSwitch(e, l)
  PROVE  FlowInv'
<1>1. /\ Arrives(e, l, {"SWITCH"})
      /\ last_seq_recv' = [last_seq_recv EXCEPT
                             ![e][l] = @ + Head(wire[Other(e)][l]).relative_seq]
      /\ wire' = Taken(e, l, << >>)
      /\ UNCHANGED <<circ, pool, legs, curr_leg, last_seq_sent>>
      /\ UNCHANGED <<inflight, unacked>> /\ Quiet
  BY DEF ReceiveSwitch, Quiet
<1>2. IInv /\ last_seq_recv \in [End -> [Leg -> Nat]] /\ wire \in WireType
  BY FlowTypes DEF FlowInv
<1>3. /\ wire[Other(e)][l][1].cmd = "SWITCH"
      /\ Head(wire[Other(e)][l]) = wire[Other(e)][l][1]
  <2>1. wire[Other(e)][l] \in Seq(Cell)
    BY <1>2, Ends DEF WireType
  <2> QED
    BY <1>1, <2>1 DEF Arrives
<1>4. last_seq_recv' = [last_seq_recv EXCEPT
        ![e][l] = Counted(last_seq_recv[e][l], wire[Other(e)][l][1])]
  BY <1>1, <1>2, <1>3 DEF Counted, Multiplexed
<1>5. StartsAtZero' /\ DeliveredInOrder' /\ CurrLegLast' /\ CellsOnce' /\ CellsNumbered'
  BY <1>1, <1>4, ArrivalKeeps
<1>6. \A f \in End, m \in Leg :
        Count(wire'[f][m], "SENDME") = Count(wire[f][m], "SENDME")
  BY <1>1, <1>3, ArrivalCounts
<1>7. UnreceivedBounded'
  <2> SUFFICES ASSUME NEW f \in End, NEW m \in Leg
               PROVE  BoundKept(f, m)
    BY <1>1, UnreceivedKept
  <2>1. BoundTypes /\ Other(f) \in End
    BY <1>2, BoundsTyped, Ends
  <2>2. /\ legs' = legs /\ circ' = circ /\ TornDown' = TornDown
        /\ m \notin legs[f] => inflight[f][m] = 0
    BY <1>1 DEF TornDown, FlowInv, UnreceivedBounded
  <2> QED
    BY <1>1, <1>6, <2>1, <2>2 DEF BoundKept, BoundTypes
<1> QED
  BY <1>5, <1>7 DEF FlowInv

\* A SENDME takes what came off what is in flight.
LEMMA FlowReceiveSendme ==
  ASSUME FlowInv, IInv', NEW e \in End, NEW l \in Leg, ReceiveSendme(e, l)
  PROVE  FlowInv'
<1>1. /\ Arrives(e, l, {"SENDME"})
      /\ inflight' = [inflight EXCEPT ![e][l] = @ - SendmeInc]
      /\ wire' = Taken(e, l, << >>)
      /\ UNCHANGED <<circ, pool, legs, curr_leg, last_seq_sent>>
      /\ UNCHANGED <<last_seq_recv, unacked>> /\ Quiet
  BY DEF ReceiveSendme, Quiet
<1>2. IInv /\ last_seq_recv \in [End -> [Leg -> Nat]] /\ wire \in WireType
      /\ inflight \in [End -> [Leg -> Nat]]
  BY FlowTypes DEF FlowInv
<1>3. wire[Other(e)][l][1].cmd = "SENDME"
  <2>1. wire[Other(e)][l] \in Seq(Cell)
    BY <1>2, Ends DEF WireType
  <2> QED
    BY <1>1, <2>1 DEF Arrives
<1>4. last_seq_recv' = [last_seq_recv EXCEPT
        ![e][l] = Counted(last_seq_recv[e][l], wire[Other(e)][l][1])]
  BY <1>1, <1>2, <1>3 DEF Counted, Multiplexed
<1>5. StartsAtZero' /\ DeliveredInOrder' /\ CurrLegLast' /\ CellsOnce' /\ CellsNumbered'
  BY <1>1, <1>4, ArrivalKeeps
<1>6. \A f \in End, m \in Leg :
        /\ Count(wire'[f][m], "SENDME") \in Nat
        /\ IF f = Other(e) /\ m = l
           THEN Count(wire[f][m], "SENDME") = Count(wire'[f][m], "SENDME") + 1
           ELSE Count(wire'[f][m], "SENDME") = Count(wire[f][m], "SENDME")
  BY <1>1, <1>3, ArrivalCounts
<1>7. l \in legs[e]
  <2>1. Arrives(e, l, Later)
    BY <1>1 DEF Arrives, Later
  <2> QED
    BY <1>2, <2>1, ArrivedLinked
<1>8. UnreceivedBounded'
  <2> SUFFICES ASSUME NEW f \in End, NEW m \in Leg
               PROVE  BoundKept(f, m)
    BY <1>1, UnreceivedKept
  <2>1. BoundTypes /\ Other(f) \in End /\ (Other(f) = Other(e) <=> f = e)
    BY <1>2, BoundsTyped, Ends
  <2>2. /\ legs' = legs /\ circ' = circ /\ TornDown' = TornDown
        /\ m \notin legs[f] => inflight[f][m] = 0
    BY <1>1 DEF TornDown, FlowInv, UnreceivedBounded
  <2>3. CASE f = e /\ m = l
    <3> DEFINE a == Count(wire'[Other(f)][m], "SENDME")
               b == Count(wire[Other(f)][m], "SENDME")
    <3>1. inflight'[f][m] = inflight[f][m] - SendmeInc
      BY <1>1, <1>2, <2>3
    <3>2. a \in Nat /\ b = a + 1
      BY <1>6, <2>1, <2>3
    <3>3. SendmeInc \in Nat
      BY ConfluxAssumption
    <3> HIDE DEF a, b
    <3>4. SendmeInc * a \in Nat /\ SendmeInc * b = SendmeInc * a + SendmeInc
      BY <3>2, <3>3, TimesMore
    <3>5. /\ inflight[f][m] \in Nat /\ unacked[Other(f)][m] \in Nat
          /\ unacked' = unacked
      BY <1>1, <2>1 DEF BoundTypes
    <3>6. inflight'[f][m] - (SendmeInc * a + unacked'[Other(f)][m])
            >= inflight[f][m] - (SendmeInc * b + unacked[Other(f)][m])
      BY <3>1, <3>3, <3>4, <3>5
    <3> QED
      BY <1>7, <2>2, <2>3, <3>6 DEF BoundKept, a, b
  <2>4. CASE ~(f = e /\ m = l)
    <3>1. inflight'[f][m] = inflight[f][m]
      BY <1>1, <1>2, <2>4
    <3>2. Count(wire'[Other(f)][m], "SENDME") = Count(wire[Other(f)][m], "SENDME")
      BY <1>6, <2>1, <2>4
    <3> QED
      BY <1>1, <2>1, <2>2, <3>1, <3>2 DEF BoundKept, BoundTypes
  <2> QED
    BY <2>3, <2>4
<1> QED
  BY <1>5, <1>8 DEF FlowInv

-----------------------------------------------------------------------------
(* Legs break and close *)

\* Wires of which some broke keep what they numbered.
LEMMA NumberedWires ==
  ASSUME IInv, CellsNumbered, NEW r, ShrunkWires(r)
  PROVE  \A f \in End, m \in Leg : m \in legs[Other(f)] =>
           Numbered(last_seq_recv[Other(f)][m], r[f][m])
<1> SUFFICES ASSUME NEW f \in End, NEW m \in Leg, m \in legs[Other(f)]
             PROVE  Numbered(last_seq_recv[Other(f)][m], r[f][m])
  OBVIOUS
<1>1. Numbered(last_seq_recv[Other(f)][m], wire[f][m])
  BY NumberedCells
<1>2. /\ last_seq_recv[Other(f)][m] \in Nat /\ wire[f][m] \in Seq(Cell)
      /\ r[f][m] \in Seq(Cell)
  BY FlowTypes, Ends DEF ShrunkWires, WireType
<1>3. Shrunk(r[f][m], wire[f][m])
  BY DEF ShrunkWires, Shrunk
<1> QED
  BY <1>1, <1>2, <1>3, NumberedShrunk

\* The wires of a leg that broke.
LEMMA LegBroken ==
  ASSUME IInv, NEW l \in Leg, LegBreaks(l)
  PROVE  /\ ShrunkWires(wire') /\ \A f \in End : Broken(wire'[f][l])
         /\ \A f \in End, m \in Leg : m # l => wire'[f][m] = wire[f][m]
<1>1. PICK keep \in [End -> 0..Max({Len(wire[e][l]) : e \in End})] :
        /\ \A e \in End : keep[e] <= Len(wire[e][l])
        /\ wire' = [e \in End |-> [wire[e] EXCEPT ![l] = Cut(@, keep[e])]]
  BY DEF LegBreaks
<1>2. wire \in WireType /\ \A f \in End, m \in Leg : wire[f][m] \in Seq(Cell)
  BY FlowTypes
<1>3. \A f \in End : /\ Cut(wire[f][l], keep[f]) \in Seq(Cell)
                     /\ Shrunk(Cut(wire[f][l], keep[f]), wire[f][l])
                     /\ Broken(Cut(wire[f][l], keep[f]))
  <2> SUFFICES ASSUME NEW f \in End
               PROVE  /\ Cut(wire[f][l], keep[f]) \in Seq(Cell)
                      /\ Shrunk(Cut(wire[f][l], keep[f]), wire[f][l])
                      /\ Broken(Cut(wire[f][l], keep[f]))
    OBVIOUS
  <2> DEFINE most == Max({Len(wire[e][l]) : e \in End})
  <2>1. keep[f] \in 0..most /\ keep[f] <= Len(wire[f][l])
    BY <1>1
  <2> HIDE DEF most
  <2>2. keep[f] \in Nat
    BY <2>1
  <2> QED
    BY <1>2, <2>1, <2>2, CutWire
<1>4. /\ wire' \in WireType
      /\ \A f \in End, m \in Leg :
           wire'[f][m] = IF m = l THEN Cut(wire[f][l], keep[f]) ELSE wire[f][m]
  BY <1>1, <1>2, <1>3 DEF WireType
<1>5. \A f \in End, m \in Leg : Shrunk(wire'[f][m], wire[f][m])
  <2> SUFFICES ASSUME NEW f \in End, NEW m \in Leg
               PROVE  Shrunk(wire'[f][m], wire[f][m])
    OBVIOUS
  <2>1. CASE m = l
    BY <1>3, <1>4, <2>1
  <2>2. CASE m # l
    BY <1>4, <2>2 DEF Shrunk
  <2> QED
    BY <2>1, <2>2
<1> QED
  BY <1>2, <1>3, <1>4, <1>5, Shrinking

\* A leg breaks: what it carried and lost is in flight still.
LEMMA FlowLegBreaks ==
  ASSUME FlowInv, IInv', NEW l \in Leg, LegBreaks(l)
  PROVE  FlowInv'
<1>1. /\ circ' = circ /\ legs' = legs /\ curr_leg' = curr_leg /\ link' = link
      /\ last_seq_sent' = last_seq_sent /\ last_seq_recv' = last_seq_recv
      /\ inflight' = inflight /\ unacked' = unacked /\ Quiet
  BY DEF LegBreaks, pool, flow, Quiet
<1>2. IInv
  BY DEF FlowInv
<1>3. /\ ShrunkWires(wire') /\ \A f \in End : Broken(wire'[f][l])
      /\ \A f \in End, m \in Leg : m # l => wire'[f][m] = wire[f][m]
  BY <1>2, LegBroken
<1>4. FewerWires(wire', Numbers) /\ FewerWires(wire', {"LINKED"})
  BY <1>3, FewerShrunk DEF Numbers
<1>5. StartsAtZero'
  BY <1>1, <1>4, LinkedZeroKept, StartsKept DEF FlowInv, Quiet
<1>6. DeliveredInOrder'
  BY <1>1, <1>2, <1>4, FlowTypes, DeliveredKept DEF FlowInv
<1>7. CurrLegLast'
  BY <1>1, <1>2, FlowTypes, CurrLegKept DEF FlowInv
<1>8. CellsOnce'
  BY <1>1, <1>2, <1>4, FlowTypes, OnceKept DEF FlowInv, Quiet
<1>9. CellsNumbered'
  <2> SUFFICES ASSUME NEW f \in End, NEW m \in Leg, m \in legs[Other(f)]
               PROVE  /\ Numbered(last_seq_recv[Other(f)][m], wire'[f][m])
                      /\ m \in legs[f] /\ ~Broken(wire'[f][m]) =>
                           Total(last_seq_recv[Other(f)][m], wire'[f][m])
                             = last_seq_sent[f][m]
    BY <1>1, NumberedCellsNext
  <2>1. Numbered(last_seq_recv[Other(f)][m], wire'[f][m])
    BY <1>2, <1>3, NumberedWires DEF FlowInv
  <2>2. m \in legs[f] /\ ~Broken(wire[f][m]) =>
          Total(last_seq_recv[Other(f)][m], wire[f][m]) = last_seq_sent[f][m]
    BY NumberedCells DEF FlowInv
  <2> QED
    BY <1>3, <2>1, <2>2
<1>10. UnreceivedBounded'
  <2> SUFFICES ASSUME NEW f \in End, NEW m \in Leg
               PROVE  BoundKept(f, m)
    BY <1>1, UnreceivedKept
  <2> DEFINE a == Count(wire'[Other(f)][m], "SENDME")
             b == Count(wire[Other(f)][m], "SENDME")
  <2>1. BoundTypes /\ Other(f) \in End /\ SendmeInc \in Nat
    BY <1>2, BoundsTyped, Ends, ConfluxAssumption
  <2>2. a \in Nat /\ b \in Nat /\ a <= b
    BY <1>3, <2>1 DEF ShrunkWires
  <2> HIDE DEF a, b
  <2>3. SendmeInc * a \in Nat /\ SendmeInc * b \in Nat /\ SendmeInc * a <= SendmeInc * b
    BY <2>1, <2>2, TimesMore
  <2>4. /\ TornDown' = TornDown
        /\ m \notin legs[f] => inflight[f][m] = 0
    BY <1>1 DEF TornDown, FlowInv, UnreceivedBounded
  <2>5. inflight[f][m] \in Nat /\ unacked[Other(f)][m] \in Nat
    BY <2>1 DEF BoundTypes
  <2>6. inflight[f][m] - (SendmeInc * a + unacked[Other(f)][m])
          >= inflight[f][m] - (SendmeInc * b + unacked[Other(f)][m])
    BY <2>3, <2>5
  <2> QED
    BY <1>1, <2>4, <2>6 DEF BoundKept, a, b
<1> QED
  BY <1>5, <1>6, <1>7, <1>8, <1>9, <1>10 DEF FlowInv

\* What closing the legs S at e leaves.
ClosedLegs(e, l, S) ==
  /\ S \in SUBSET Leg /\ l \in S
  /\ S = {l} \/ legs[e] \subseteq S
  /\ curr_leg[e] \in S => legs[e] \subseteq S
  /\ legs[e] \subseteq S \/ l \notin legs[e] \/ inflight[e][l] < SendmeInc
  /\ legs'[e] = legs[e] \ S /\ legs'[Other(e)] = legs[Other(e)]
  /\ curr_leg'[e] = (IF curr_leg[e] \in S THEN NULL ELSE curr_leg[e])
  /\ curr_leg'[Other(e)] = curr_leg[Other(e)]
  /\ \A m \in S : circ'[e][m] = "closed"
  /\ \A m \in Leg \ S : \/ circ'[e][m] = circ[e][m]
                        \/ circ'[e][m] # "closed" /\ circ[e][m] # "closed"
  /\ circ'[Other(e)] = circ[Other(e)]
  /\ \A m \in Leg : link'[m] = link[m] \/ link'[m] = NULL

\* And of the counters.
ClosedCount(c, d, e, S) ==
  /\ d[Other(e)] = c[Other(e)]
  /\ \A m \in Leg : d[e][m] = (IF m \in S THEN 0 ELSE c[e][m])

\* Close does that.
LEMMA ClosedStep ==
  ASSUME IInv, NEW e \in End, NEW l \in Leg, circ[e][l] \in {"building", "open"},
         Close(e, l)
  PROVE  \E S : /\ ClosedLegs(e, l, S) /\ Hung(wire', e, S) /\ Quiet
                /\ ClosedCount(last_seq_sent, last_seq_sent', e, S)
                /\ ClosedCount(last_seq_recv, last_seq_recv', e, S)
                /\ ClosedCount(inflight, inflight', e, S)
                /\ ClosedCount(unacked, unacked', e, S)
<1> DEFINE S == Going(e, l)
           o == Other(e)
<1>1. PICK n \in (num_leg_launch + 1)..MaxLaunch \cup {NULL} :
      \E keep \in Keeps(e, S) :
        /\ IF e = "client" THEN Relaunch(l, n) ELSE n = NULL /\ UNCHANGED pool
        /\ circ' = [circ EXCEPT ![e] = [m \in Leg |->
                      IF m \in S THEN "closed" ELSE IF m = n THEN "building" ELSE @[m]]]
        /\ legs' = [legs EXCEPT ![e] = @ \ S]
        /\ measured' = [measured EXCEPT ![e] = @ \ S]
        /\ curr_leg' = [curr_leg EXCEPT ![e] = IF @ \in S THEN NULL ELSE @]
        /\ last_seq_sent' = Without(last_seq_sent, e, S)
        /\ last_seq_recv' = Without(last_seq_recv, e, S)
        /\ inflight' = Without(inflight, e, S)
        /\ unacked' = Without(unacked, e, S)
        /\ wire' = HungUp(e, S, keep)
        /\ UNCHANGED <<last_seq_delivered, ooo_q, sent, delivered>>
  BY DEF Close
<1>2. PICK keep \in Keeps(e, S) : wire' = HungUp(e, S, keep)
  BY <1>1
<1>3. /\ S \in SUBSET Leg /\ l \in S
      /\ S = {l} \/ legs[e] \subseteq S
      /\ curr_leg[e] \in S => legs[e] \subseteq S
  BY GoingLegs
<1>4. legs[e] \subseteq S \/ l \notin legs[e] \/ inflight[e][l] < SendmeInc
  <2>1. CASE FullTeardown(e, l)
    BY <2>1 DEF Going
  <2>2. CASE ~FullTeardown(e, l)
    <3>1. inflight[e][l] \in Nat /\ SendmeInc \in Nat
      BY FlowTypes, ConfluxAssumption
    <3> QED
      BY <2>2, <3>1 DEF FullTeardown, InFlight
  <2> QED
    BY <2>1, <2>2
<1>5. Relaunched(e, l, n)
  BY <1>1, Relaunches
<1> HIDE DEF S
<1>6. Hung(wire', e, S)
  BY <1>2, <1>3, FlowTypes, HungUpWires
<1>7. o \in End /\ o # e
  BY Ends
<1>8. /\ legs \in [End -> SUBSET Leg] /\ curr_leg \in [End -> Leg \cup {NULL}]
      /\ circ \in [End -> [Leg -> {"none", "building", "open", "closed"}]]
  BY FlowTypes
<1> HIDE DEF o
<1>9. /\ legs'[e] = legs[e] \ S /\ legs'[o] = legs[o]
      /\ curr_leg'[e] = (IF curr_leg[e] \in S THEN NULL ELSE curr_leg[e])
      /\ curr_leg'[o] = curr_leg[o]
  BY <1>1, <1>7, <1>8
<1>10. /\ \A m \in Leg : circ'[e][m] = IF m \in S THEN "closed"
                                       ELSE IF m = n THEN "building" ELSE circ[e][m]
       /\ circ'[o] = circ[o]
  BY <1>1, <1>7, <1>8
<1>11. n # NULL => e = "client" /\ n \in Leg /\ circ["client"][n] = "none"
  BY <1>5 DEF Relaunched
<1>12. \A m \in Leg \ S : \/ circ'[e][m] = circ[e][m]
                          \/ circ'[e][m] # "closed" /\ circ[e][m] # "closed"
  BY <1>10, <1>11, ConfluxAssumption
<1>13. \A m \in Leg : link'[m] = link[m] \/ link'[m] = NULL
  BY <1>5 DEF Relaunched
<1>14. ClosedLegs(e, l, S)
  BY <1>3, <1>4, <1>9, <1>10, <1>12, <1>13 DEF ClosedLegs, o
<1>15. ASSUME NEW c \in [End -> [Leg -> Nat]]
       PROVE  ClosedCount(c, Without(c, e, S), e, S)
  BY <1>7 DEF Without, ClosedCount, o
<1>16. /\ ClosedCount(last_seq_sent, last_seq_sent', e, S)
       /\ ClosedCount(last_seq_recv, last_seq_recv', e, S)
       /\ ClosedCount(inflight, inflight', e, S)
       /\ ClosedCount(unacked, unacked', e, S)
  BY <1>1, <1>15, FlowTypes
<1>17. Quiet
  BY <1>1 DEF Quiet
<1> QED
  BY <1>6, <1>14, <1>16, <1>17

\* Closing legs: what goes with a leg of a set that stays is less than a SENDME's
\* worth.
LEMMA FlowClose ==
  ASSUME FlowInv, IInv', NEW e \in End, NEW l \in Leg,
         circ[e][l] \in {"building", "open"}, Close(e, l)
  PROVE  FlowInv'
<1>1. PICK S : /\ ClosedLegs(e, l, S) /\ Hung(wire', e, S) /\ Quiet
               /\ ClosedCount(last_seq_sent, last_seq_sent', e, S)
               /\ ClosedCount(last_seq_recv, last_seq_recv', e, S)
               /\ ClosedCount(inflight, inflight', e, S)
               /\ ClosedCount(unacked, unacked', e, S)
  BY ClosedStep DEF FlowInv
<1>2. IInv
  BY DEF FlowInv
<1> DEFINE o == Other(e)
<1>3. /\ o \in End /\ o # e /\ Other(o) = e /\ \A f \in End : f = e \/ f = o
      /\ \/ e = "client" /\ o = "exit"
         \/ e = "exit" /\ o = "client"
  BY Ends DEF End, Other
<1>4. /\ S \in SUBSET Leg /\ l \in S
      /\ legs'[e] = legs[e] \ S /\ legs'[o] = legs[o]
  BY <1>1 DEF ClosedLegs
<1>5. /\ ShrunkWires(wire')
      /\ \A f \in End, m \in Leg : m \notin S => wire'[f][m] = wire[f][m]
      /\ \A m \in S : wire'[o][m] = << >>
  BY <1>1 DEF Hung
<1>6. FewerWires(wire', Numbers) /\ FewerWires(wire', {"LINKED"})
  BY <1>5, FewerShrunk DEF Numbers
<1>7. /\ legs'["exit"] \subseteq legs["exit"] /\ legs'["client"] \subseteq legs["client"]
      /\ TornDown => TornDown'
  BY <1>3, <1>4 DEF TornDown
<1> HIDE DEF o
<1>8. \A f \in End, m \in Leg :
        last_seq_recv'[Other(f)][m] \in {last_seq_recv[Other(f)][m], 0}
  BY <1>1, <1>3, Ends DEF ClosedCount, o
<1>9. StartsAtZero'
  <2>1. \A m \in Leg : link'[m] = link[m] \/ link'[m] = NULL
    BY <1>1 DEF ClosedLegs
  <2> QED
    BY <1>1, <1>6, <1>8, <2>1, LinkedZeroKept, StartsKept DEF FlowInv, Quiet
<1>10. DeliveredInOrder'
  BY <1>1, <1>2, <1>6, <1>7, FlowTypes, DeliveredKept DEF FlowInv
<1>11. CurrLegLast'
  <2> SUFFICES ASSUME NEW f \in End
               PROVE  \/ /\ curr_leg'[f] = curr_leg[f]
                         /\ curr_leg[f] # NULL =>
                              last_seq_sent'[f][curr_leg[f]] = last_seq_sent[f][curr_leg[f]]
                         /\ legs[f] # {} \/ legs'[f] = {}
                      \/ curr_leg'[f] = NULL /\ legs'[f] = {}
    BY <1>1, CurrLegKept DEF FlowInv
  <2>1. CASE f = o
    BY <1>1, <1>4, <2>1 DEF ClosedLegs, ClosedCount, o
  <2>2. CASE f = e /\ curr_leg[e] \in S
    BY <1>1, <1>4, <2>2 DEF ClosedLegs
  <2>3. CASE f = e /\ curr_leg[e] \notin S
    <3>1. curr_leg[e] \in Leg \cup {NULL}
      BY <1>2, FlowTypes
    <3> QED
      BY <1>1, <1>4, <2>3, <3>1 DEF ClosedLegs, ClosedCount
  <2> QED
    BY <1>3, <2>1, <2>2, <2>3
<1>12. CellsOnce'
  BY <1>1, <1>2, <1>6, FlowTypes, OnceKept DEF FlowInv, Quiet
<1>13. CellsNumbered'
  <2> SUFFICES ASSUME NEW f \in End, NEW m \in Leg, m \in legs'[Other(f)]
               PROVE  /\ Numbered(last_seq_recv'[Other(f)][m], wire'[f][m])
                      /\ m \in legs'[f] /\ ~Broken(wire'[f][m]) =>
                           Total(last_seq_recv'[Other(f)][m], wire'[f][m])
                             = last_seq_sent'[f][m]
    BY NumberedCellsNext
  <2>1. /\ m \in legs[Other(f)] /\ legs'[f] \subseteq legs[f]
        /\ last_seq_recv'[Other(f)][m] = last_seq_recv[Other(f)][m]
    BY <1>1, <1>3, <1>4, Ends DEF ClosedCount, o
  <2>2. Numbered(last_seq_recv[Other(f)][m], wire'[f][m])
    BY <1>2, <1>5, <2>1, NumberedWires DEF FlowInv
  <2>3. m \in legs[f] /\ ~Broken(wire[f][m]) =>
          Total(last_seq_recv[Other(f)][m], wire[f][m]) = last_seq_sent[f][m]
    BY <2>1, NumberedCells DEF FlowInv
  <2>4. CASE m \notin S
    <3>1. wire'[f][m] = wire[f][m] /\ last_seq_sent'[f][m] = last_seq_sent[f][m]
      BY <1>1, <1>3, <1>5, <2>4 DEF ClosedCount, o
    <3> QED
      BY <2>1, <2>2, <2>3, <3>1
  <2>5. CASE m \in S
    <3>1. f = e
      BY <1>3, <1>4, <2>5 DEF o
    <3>2. m \notin legs'[f]
      BY <1>4, <2>5, <3>1
    <3> QED
      BY <2>1, <2>2, <3>2
  <2> QED
    BY <2>4, <2>5
<1>14. UnreceivedBounded'
  <2> SUFFICES ASSUME NEW f \in End, NEW m \in Leg
               PROVE  BoundKept(f, m)
    BY <1>1, UnreceivedKept
  <2>1. BoundTypes /\ Other(f) \in End /\ SendmeInc \in Nat \ {0}
    BY <1>2, BoundsTyped, Ends, ConfluxAssumption
  <2>2. m \notin legs[f] => inflight[f][m] = 0
    BY DEF FlowInv, UnreceivedBounded
  <2>3. inflight[f][m] \in Nat /\ unacked[Other(f)][m] \in Nat
    BY <2>1 DEF BoundTypes
  <2>4. CASE f = o
    <3> DEFINE a == Count(wire'[Other(f)][m], "SENDME")
               b == Count(wire[Other(f)][m], "SENDME")
    <3>1. a \in Nat /\ b \in Nat /\ a <= b
      BY <1>5, <2>1 DEF ShrunkWires
    <3> HIDE DEF a, b
    <3>2. SendmeInc * a \in Nat /\ SendmeInc * b \in Nat /\ SendmeInc * a <= SendmeInc * b
      BY <2>1, <3>1, TimesMore
    <3>3. /\ inflight'[f][m] = inflight[f][m] /\ circ'[f][m] = circ[f][m]
          /\ legs'[f] = legs[f]
          /\ unacked'[Other(f)][m] \in {unacked[Other(f)][m], 0}
      BY <1>1, <1>3, <2>4 DEF ClosedLegs, ClosedCount, o
    <3>4. inflight'[f][m] - (SendmeInc * a + unacked'[Other(f)][m])
            >= inflight[f][m] - (SendmeInc * b + unacked[Other(f)][m])
      BY <2>3, <3>2, <3>3
    <3> QED
      BY <1>7, <2>2, <3>3, <3>4 DEF BoundKept, a, b
  <2>5. CASE f = e /\ m \in S
    <3>1. inflight'[f][m] = 0 /\ circ'[f][m] = "closed"
      BY <1>1, <2>5 DEF ClosedLegs, ClosedCount
    <3>2. CASE legs[e] \subseteq S
      BY <1>3, <1>4, <3>1, <3>2 DEF BoundKept, TornDown
    <3>3. CASE ~(legs[e] \subseteq S)
      <4>1. m = l /\ (l \notin legs[e] \/ inflight[e][l] < SendmeInc)
        BY <1>1, <2>5, <3>3 DEF ClosedLegs
      <4>2. inflight[f][m] < SendmeInc
        BY <2>1, <2>2, <2>5, <4>1
      <4> QED
        BY <1>7, <3>1, <4>2 DEF BoundKept
    <3> QED
      BY <3>2, <3>3
  <2>6. CASE f = e /\ m \notin S
    <3>1. /\ inflight'[f][m] = inflight[f][m]
          /\ unacked'[Other(f)][m] = unacked[Other(f)][m]
          /\ wire'[Other(f)][m] = wire[Other(f)][m]
      BY <1>1, <1>5, <2>1, <2>6 DEF ClosedCount
    <3>2. \/ circ'[f][m] = circ[f][m]
          \/ circ'[f][m] # "closed" /\ circ[f][m] # "closed"
      BY <1>1, <2>6 DEF ClosedLegs
    <3>3. m \notin legs'[f] => inflight'[f][m] = 0
      BY <1>4, <2>2, <2>6, <3>1
    <3>4. SendmeInc * Count(wire[Other(f)][m], "SENDME") \in Nat
      BY <2>1 DEF BoundTypes
    <3>5. inflight'[f][m]
            - (SendmeInc * Count(wire'[Other(f)][m], "SENDME") + unacked'[Other(f)][m])
          >= inflight[f][m]
               - (SendmeInc * Count(wire[Other(f)][m], "SENDME") + unacked[Other(f)][m])
      BY <2>3, <3>1, <3>4
    <3> QED
      BY <1>7, <3>2, <3>3, <3>5 DEF BoundKept
  <2> QED
    BY <1>3, <2>4, <2>5, <2>6
<1> QED
  BY <1>9, <1>10, <1>11, <1>12, <1>13, <1>14 DEF FlowInv

\* Closing on one's own account, on a DESTROY, and for want of room.
LEMMA FlowClosing ==
  ASSUME FlowInv, IInv', NEW e \in End, NEW l \in Leg,
         MarkForClose(e, l) \/ ReceiveDestroy(e, l) \/ (e = "exit" /\ RefuseLink(l))
  PROVE  FlowInv'
<1>1. circ[e][l] \in {"building", "open"} /\ Close(e, l)
  BY DEF MarkForClose, ReceiveDestroy, RefuseLink, Arrives
<1> QED
  BY <1>1, FlowClose

-----------------------------------------------------------------------------
(* Before anything is sent *)

\* Nothing was sent, so there is nothing to deliver, to count or to lose.
Idle ==
  /\ IInv /\ StartsAtZero
  /\ delivered \in [End -> Seq(Nat)]
  /\ \A e \in End : sent[e] = << >> /\ delivered[e] = << >> /\ ooo_q[e] = {}
  /\ \A e \in End, l \in Leg : l \notin legs[e] => inflight[e][l] = 0

\* The invariant holds then.
LEMMA IdleFlow == Idle => FlowInv
<1> SUFFICES ASSUME Idle
             PROVE  FlowInv
  OBVIOUS
<1>1. IInv /\ StartsAtZero /\ \A e \in End : Other(e) \in End /\ Other(Other(e)) = e
  BY Ends DEF Idle
<1>2. ASSUME NEW e \in End
      PROVE  /\ sent[e] = << >> /\ delivered[e] = << >> /\ ooo_q[e] = {}
             /\ Len(sent[e]) = 0 /\ Len(delivered[e]) = 0 /\ last_seq_delivered[e] = 0
  <2>1. sent[e] = << >> /\ delivered[e] = << >> /\ ooo_q[e] = {}
    BY DEF Idle
  <2>2. last_seq_delivered[e] \in Nat
    BY <1>1, FlowTypes
  <2>3. sent[Other(e)] = << >> /\ ~(last_seq_delivered[Other(Other(e))] > 0)
    BY <1>1 DEF Idle, IInv, SendersFirst
  <2> QED
    BY <1>1, <2>1, <2>2, <2>3
<1>3. \A e \in End, l \in Leg :
        /\ last_seq_sent[e][l] = 0 /\ last_seq_recv[Other(e)][l] = 0
        /\ wire[e][l] \in Seq(Cell)
        /\ \A i \in DOMAIN wire[e][l] :
             ~Multiplexed(wire[e][l][i]) /\ wire[e][l][i].cmd # "SWITCH"
  <2>1. \A e \in End, l \in Leg :
          /\ last_seq_sent[e][l] = 0
          /\ \A i \in DOMAIN wire[e][l] : ~Multiplexed(wire[e][l][i])
    BY <1>1, <1>2 DEF IInv, SendersFirst
  <2>2. \A e \in End, l \in Leg :
          /\ last_seq_recv[Other(e)][l] = 0
          /\ \A i \in DOMAIN wire[e][l] : wire[e][l][i].cmd # "SWITCH"
    BY <1>1, <1>2 DEF StartsAtZero
  <2>3. \A e \in End, l \in Leg : wire[e][l] \in Seq(Cell)
    BY <1>1, FlowTypes
  <2> QED
    BY <2>1, <2>2, <2>3
<1>4. DeliveredInOrder
  <2>1. << >> = [i \in 1..0 |-> i]
    OBVIOUS
  <2>2. ~Renewed
    BY <1>2 DEF Renewed, End
  <2>3. sent["exit"] = << >>
    BY <1>2 DEF End
  <2>4. delivered \in [End -> Seq(Nat)]
    BY DEF Idle
  <2>5. ASSUME NEW e \in End
        PROVE  /\ delivered[e] = [i \in 1..Len(delivered[e]) |-> i]
               /\ Len(delivered[e]) <= Len(sent[Other(e)])
               /\ last_seq_delivered[e] = Len(delivered[e])
               /\ ooo_q[e] = {}
    BY <1>1, <1>2, <2>1
  <2> QED
    BY <2>2, <2>3, <2>4, <2>5 DEF DeliveredInOrder
<1>5. CurrLegLast
  <2> SUFFICES ASSUME NEW e \in End, curr_leg[e] # NULL
               PROVE  last_seq_sent[e][curr_leg[e]] = Len(sent[e])
    BY <1>2 DEF CurrLegLast
  <2>1. curr_leg[e] \in Leg
    BY <1>1, FlowTypes
  <2> QED
    BY <1>2, <1>3, <2>1
<1>6. CellsOnce
  BY <1>3 DEF CellsOnce
<1>7. CellsNumbered
  <2> SUFFICES ASSUME NEW e \in End, NEW l \in Leg
               PROVE  Numbered(0, wire[e][l]) /\ Total(0, wire[e][l]) = 0
    BY <1>3, NumberedCells
  <2> QED
    BY <1>3, NumberedNone
<1>8. UnreceivedBounded
  <2> SUFFICES ASSUME NEW e \in End, NEW l \in Leg
               PROVE  IF circ[e][l] = "closed" THEN Cardinality(Unreceived(e, l)) < SendmeInc
                      ELSE inflight[e][l] >= SendmeInc * Count(wire[Other(e)][l], "SENDME")
                             + unacked[Other(e)][l] + Cardinality(Unreceived(e, l))
    BY DEF UnreceivedBounded, Idle
  <2>1. Unreceived(e, l) = {}
    BY <1>2, UnreceivedNone DEF Idle
  <2>2. Cardinality(Unreceived(e, l)) = 0
    BY <2>1, FS_EmptySet
  <2>3. SendmeInc \in Nat \ {0}
    BY ConfluxAssumption
  <2>4. CASE circ[e][l] = "closed"
    BY <2>2, <2>3, <2>4
  <2>5. CASE circ[e][l] # "closed"
    <3>1. /\ inflight[e][l] \in Nat /\ unacked[Other(e)][l] \in Nat
          /\ SendmeInc * Count(wire[Other(e)][l], "SENDME") \in Nat
      BY <1>1, BoundsTyped DEF BoundTypes
    <3>2. Count(wire[e][l], "DATA") \in Nat
      BY <1>3, CountType
    <3>3. inflight[e][l] >= SendmeInc * Count(wire[Other(e)][l], "SENDME")
                              + unacked[Other(e)][l] + Count(wire[e][l], "DATA")
      BY <1>1, <2>5 DEF IInv, InflightCovers
    <3> DEFINE p == SendmeInc * Count(wire[Other(e)][l], "SENDME")
    <3> HIDE DEF p
    <3>4. inflight[e][l] >= p + unacked[Other(e)][l] + 0
      BY <3>1, <3>2, <3>3 DEF p
    <3> QED
      BY <2>2, <2>5, <3>4 DEF p
  <2> QED
    BY <2>4, <2>5
<1> QED
  BY <1>1, <1>4, <1>5, <1>6, <1>7, <1>8 DEF FlowInv

\* So in the next state.
LEMMA IdleFlowNext == Idle' => FlowInv'
  BY IdleFlow, PTL

\* What has not been sent was not delivered.
LEMMA UnsentNone ==
  ASSUME FlowInv, sent["client"] = << >>
  PROVE  \A e \in End : sent[e] = << >> /\ delivered[e] = << >> /\ ooo_q[e] = {}
<1>1. sent["exit"] = << >>
  BY DEF FlowInv, IInv, SendersFirst
<1> SUFFICES ASSUME NEW e \in End
             PROVE  sent[e] = << >> /\ delivered[e] = << >> /\ ooo_q[e] = {}
  OBVIOUS
<1>2. /\ Other(e) \in End /\ sent[e] = << >> /\ sent[Other(e)] = << >>
      /\ Len(sent[Other(e)]) = 0
  BY <1>1, Ends DEF End
<1>3. /\ delivered[e] \in Seq(Nat) /\ Len(delivered[e]) <= 0
      /\ \A c \in ooo_q[e] : /\ c.seq = c.no /\ c.seq > last_seq_delivered[e] + 1
                             /\ c.no <= 0
  BY <1>2 DEF FlowInv, DeliveredInOrder
<1>4. last_seq_delivered[e] \in Nat /\ \A c \in ooo_q[e] : c.seq \in Nat /\ c.no \in Nat
  <2>1. IInv
    BY DEF FlowInv
  <2> QED
    BY <2>1, FlowTypes
<1>5. ooo_q[e] = {}
  BY <1>3, <1>4
<1>6. delivered[e] = << >>
  BY <1>3
<1> QED
  BY <1>2, <1>5, <1>6

\* Linking goes on while nothing is sent.
LEMMA FlowUnsent ==
  ASSUME FlowInv, IInv', sent["client"] = << >>, Quiet, StartsAtZero',
         inflight' = inflight, \A e \in End : legs[e] \subseteq legs'[e]
  PROVE  FlowInv'
<1>1. \A e \in End : sent[e] = << >> /\ delivered[e] = << >> /\ ooo_q[e] = {}
  BY UnsentNone
<1>2. \A e \in End, l \in Leg : l \notin legs'[e] => inflight'[e][l] = 0
  BY DEF FlowInv, UnreceivedBounded
<1>3. delivered' \in [End -> Seq(Nat)]
  BY DEF FlowInv, DeliveredInOrder, Quiet
<1>4. Idle'
  BY <1>1, <1>2, <1>3 DEF Idle, Quiet
<1> QED
  BY <1>4, IdleFlowNext

\* The set is launched.
LEMMA FlowLaunchSet ==
  ASSUME FlowInv, IInv', LaunchSet
  PROVE  FlowInv'
<1>1. /\ circ = AllLegs("none")
      /\ UNCHANGED <<link, legs, curr_leg, measured, flow, wire, closes>>
  BY DEF LaunchSet
<1>2. sent["client"] = << >>
  <2>1. \A l \in Leg : circ["client"][l] = "none"
    BY <1>1 DEF AllLegs, End
  <2> QED
    BY <2>1 DEF FlowInv, IInv, CircuitsInSets
<1>3. StartsAtZero'
  BY <1>1 DEF FlowInv, StartsAtZero, flow
<1> QED
  BY <1>1, <1>2, <1>3, FlowUnsent DEF flow, Quiet

\* A circuit opens and carries a LINK.
LEMMA FlowOpened ==
  ASSUME FlowInv, IInv', NEW l \in Leg, Opened(l)
  PROVE  FlowInv'
<1> DEFINE c == [cmd |-> "LINK",
                 last_seqno_sent |-> MaxOver(legs["client"], last_seq_sent["client"]),
                 last_seqno_recv |-> last_seq_delivered["client"]]
<1>1. /\ circ["client"][l] = "building"
      /\ wire' = [wire EXCEPT !["client"][l] = <<c>>]
      /\ UNCHANGED <<pool, legs, curr_leg, measured, flow, closes>>
  BY DEF Opened
<1>2. IInv /\ wire \in [End -> [Leg -> Seq(Cell)]] /\ c.cmd = "LINK"
      /\ "client" \in End /\ "exit" \in End
  BY FlowTypes DEF FlowInv, End
<1>3. sent["client"] = << >>
  BY <1>1, <1>2 DEF IInv, CircuitsInSets
<1> HIDE DEF c
<1>4. StartsAtZero'
  <2>1. \A e \in End, m \in Leg :
          wire'[e][m] = IF e = "client" /\ m = l THEN <<c>> ELSE wire[e][m]
    BY <1>1, <1>2
  <2>2. \A i \in DOMAIN <<c>> : <<c>>[i].cmd = "LINK"
    BY <1>2
  <2>3. ASSUME NEW e \in End, NEW m \in Leg, sent[e] = << >>
        PROVE  /\ last_seq_recv[Other(e)][m] = 0
               /\ \A i \in DOMAIN wire'[e][m] : wire'[e][m][i].cmd # "SWITCH"
    <3>1. /\ last_seq_recv[Other(e)][m] = 0
          /\ \A i \in DOMAIN wire[e][m] : wire[e][m][i].cmd # "SWITCH"
      BY <2>3 DEF FlowInv, StartsAtZero
    <3>2. CASE e = "client" /\ m = l
      BY <2>1, <2>2, <3>1, <3>2
    <3>3. CASE ~(e = "client" /\ m = l)
      BY <2>1, <3>1, <3>3
    <3> QED
      BY <3>2, <3>3
  <2>4. \A m \in Leg : wire'["exit"][m] = wire["exit"][m]
    BY <1>2, <2>1
  <2> QED
    BY <1>1, <2>3, <2>4 DEF FlowInv, StartsAtZero, flow, pool
<1> QED
  BY <1>1, <1>3, <1>4, FlowUnsent DEF flow, Quiet

\* LINKED makes the client's set, of legs on which nothing was counted.
LEMMA FlowReceiveLinked ==
  ASSUME FlowInv, IInv', NEW l \in Leg, ReceiveLinked(l)
  PROVE  FlowInv'
<1> DEFINE cell == Head(wire["exit"][l])
           links == [link EXCEPT ![l] = Head(wire["exit"][l])]
           joining == IF Finalizes(l) THEN Joining(l) ELSE {}
           c == [cmd |-> "LINKED_ACK"]
<1>1. /\ Arrives("client", l, {"LINKED"})
      /\ wire' = Taken("client", l, <<c>>)
      /\ legs' = [legs EXCEPT !["client"] = @ \cup joining]
      /\ last_seq_recv' = [last_seq_recv EXCEPT !["client"] =
           [m \in Leg |-> IF m \in joining THEN links[m].last_seqno_sent ELSE @[m]]]
      /\ link' = [m \in Leg |-> IF m \in joining THEN NULL ELSE links[m]]
      /\ UNCHANGED <<inflight, last_seq_delivered, ooo_q, sent, delivered>>
  BY DEF ReceiveLinked, LinkedAck
<1>2. /\ "client" \in End /\ "exit" \in End /\ Other("client") = "exit"
      /\ Other("exit") = "client" /\ \A f \in End : f = "client" \/ f = "exit"
  BY DEF End, Other
<1>3. IInv /\ StartsAtZero
  BY DEF FlowInv
<1>4. /\ wire \in WireType /\ last_seq_recv \in [End -> [Leg -> Nat]]
      /\ legs \in [End -> SUBSET Leg] /\ link \in [Leg -> Cell \cup {NULL}]
  BY <1>3, FlowTypes DEF IInv, FieldTypes
<1>5. /\ wire["exit"][l] \in Seq(Cell) /\ wire["exit"][l] # << >>
      /\ 1 \in DOMAIN wire["exit"][l] /\ cell = wire["exit"][l][1]
      /\ wire["exit"][l][1].cmd = "LINKED"
  BY <1>1, <1>2, <1>4 DEF WireType, Arrives
<1>6. cell.last_seqno_sent = 0
  BY <1>3, <1>5 DEF StartsAtZero
<1>7. sent["client"] = << >>
  <2>1. l \in unlinked
    BY <1>3, <1>5 DEF IInv, LinkCells, LegLinks
  <2> QED
    BY <1>3, <2>1, NothingSentYet
<1>8. c \in Cell /\ <<c>> \in Seq(Cell) /\ c.cmd = "LINKED_ACK"
  BY Commands
<1> HIDE DEF c
<1>9. TakenPut(wire', "client", l, {"LINKED"}, c, <<c>>)
  BY <1>1, <1>2, <1>4, <1>8, TakenWire
<1>10. FewerWires(wire', Numbers) /\ FewerWires(wire', {"LINKED"})
  BY <1>2, <1>4, <1>8, <1>9, FewerTaken DEF Numbers
<1>11. \A m \in joining : m \in unlinked /\ m \in Leg /\ (m = l \/ link[m] # NULL)
  BY <1>3 DEF Joining, IInv, TypeOK
<1>12. \A m \in Leg : links[m] = IF m = l THEN cell ELSE link[m]
  BY <1>4
<1>13. \A m \in Leg : link[m] # NULL => link[m].last_seqno_sent = 0
  BY <1>3 DEF StartsAtZero
<1>14. \A m \in Leg : m = l \/ link[m] # NULL => links[m].last_seqno_sent = 0
  BY <1>6, <1>12, <1>13
<1> HIDE DEF links, cell, joining
<1>15. StartsAtZero'
  <2>1. ASSUME NEW f \in End, NEW m \in Leg
        PROVE  last_seq_recv'[Other(f)][m] \in {last_seq_recv[Other(f)][m], 0}
    <3>1. last_seq_recv'["exit"] = last_seq_recv["exit"]
      BY <1>1, <1>2, <1>4
    <3>2. last_seq_recv'["client"][m] =
            IF m \in joining THEN links[m].last_seqno_sent ELSE last_seq_recv["client"][m]
      BY <1>1, <1>2, <1>4
    <3> QED
      BY <1>2, <1>11, <1>14, <3>1, <3>2
  <2>2. \A m \in Leg : link'[m] # NULL => link'[m].last_seqno_sent = 0
    <3> SUFFICES ASSUME NEW m \in Leg, link'[m] # NULL
                 PROVE  link'[m].last_seqno_sent = 0
      OBVIOUS
    <3>1. link'[m] = links[m] /\ links[m] # NULL
      BY <1>1
    <3> QED
      BY <1>12, <1>14, <3>1
  <2>3. ASSUME NEW m \in Leg, NEW i \in DOMAIN wire'["exit"][m],
               wire'["exit"][m][i].cmd = "LINKED"
        PROVE  wire'["exit"][m][i].last_seqno_sent = 0
    <3>1. PICK d \in {0, 1} : \A j \in DOMAIN wire'["exit"][m] :
            wire'["exit"][m][j].cmd \in {"LINKED"} =>
              /\ j \in Nat /\ j + d \in DOMAIN wire["exit"][m]
              /\ wire'["exit"][m][j] = wire["exit"][m][j + d]
      BY <1>2, <1>10 DEF FewerWires, FewerCells
    <3> QED
      BY <1>3, <2>3, <3>1 DEF StartsAtZero
  <2> QED
    BY <1>1, <1>3, <1>10, <2>1, <2>2, <2>3, StartsKept
<1>16. \A e \in End : legs[e] \subseteq legs'[e]
  BY <1>1, <1>2, <1>4
<1> QED
  BY <1>1, <1>7, <1>15, <1>16, FlowUnsent DEF Quiet

\* LINK puts a leg in the exit's set.  If the set is gone, that is a new one with
\* no leg of the client's.
LEMMA FlowReceiveLink ==
  ASSUME FlowInv, IInv', NEW l \in Leg, ReceiveLink(l)
  PROVE  FlowInv'
<1> DEFINE cell == Head(wire["client"][l])
           new == legs["exit"] = {}
           seq == IF new THEN 0 ELSE last_seq_delivered["exit"]
           queue == IF new THEN {} ELSE ooo_q["exit"]
           c == [cmd |-> "LINKED",
                 last_seqno_sent |-> MaxOver(legs["exit"], last_seq_sent["exit"]),
                 last_seqno_recv |-> seq]
<1>1. /\ Arrives("exit", l, {"LINK"})
      /\ legs' = [legs EXCEPT !["exit"] = @ \cup {l}]
      /\ last_seq_sent' = [last_seq_sent EXCEPT !["exit"][l] = cell.last_seqno_recv]
      /\ last_seq_recv' = [last_seq_recv EXCEPT !["exit"][l] = cell.last_seqno_sent]
      /\ last_seq_delivered' = [last_seq_delivered EXCEPT !["exit"] = seq]
      /\ ooo_q' = [ooo_q EXCEPT !["exit"] = queue]
      /\ wire' = Taken("exit", l, <<c>>)
      /\ circ' = circ /\ link' = link /\ curr_leg' = curr_leg
      /\ inflight' = inflight /\ unacked' = unacked
      /\ sent' = sent /\ delivered' = delivered
  BY DEF ReceiveLink, pool
<1>2. /\ "client" \in End /\ "exit" \in End /\ Other("client") = "exit"
      /\ Other("exit") = "client" /\ \A f \in End : f = "client" \/ f = "exit"
  BY DEF End, Other
<1>3. /\ IInv /\ StartsAtZero /\ DeliveredInOrder /\ CurrLegLast /\ CellsOnce
      /\ CellsNumbered /\ UnreceivedBounded
  BY DEF FlowInv
<1>4. /\ wire \in WireType /\ last_seq_recv \in [End -> [Leg -> Nat]]
      /\ last_seq_sent \in [End -> [Leg -> Nat]]
      /\ legs \in [End -> SUBSET Leg] /\ last_seq_delivered \in [End -> Nat]
      /\ ooo_q \in [End -> SUBSET [seq : Nat, no : Nat]]
      /\ curr_leg \in [End -> Leg \cup {NULL}]
      /\ \A f \in End : curr_leg[f] \in legs[f] \cup {NULL}
      /\ sent \in [End -> Seq([leg : Leg, cmd : {"DATA", "OTHER"}])]
  BY <1>3, FlowTypes
<1>5. /\ wire["client"][l] \in Seq(Cell) /\ wire["client"][l] # << >>
      /\ 1 \in DOMAIN wire["client"][l] /\ cell = wire["client"][l][1]
      /\ wire["client"][l][1].cmd = "LINK" /\ circ["exit"][l] = "open"
  BY <1>1, <1>2, <1>4 DEF WireType, Arrives
<1>6. /\ l \notin legs["client"] /\ l \notin legs["exit"]
      /\ cell.last_seqno_sent = 0 /\ cell.last_seqno_recv = 0
  BY <1>3, <1>5 DEF IInv, LinkCells, LegLinks
<1>7. \A i \in DOMAIN wire["client"][l] :
        wire["client"][l][i].cmd \in {"LINK", "LINKED", "DESTROY"}
  BY <1>2, <1>3, <1>5, <1>6 DEF IInv, CellsLinked
<1>8. MaxOver(legs["exit"], last_seq_sent["exit"]) \in Nat
  <2>1. legs["exit"] \in SUBSET Leg /\ last_seq_sent["exit"] \in [Leg -> Nat]
    BY <1>2, <1>4
  <2> QED
    BY <2>1, MaxOverLegs
<1>9. /\ c \in Cell /\ c.cmd = "LINKED" /\ <<c>> \in Seq(Cell)
      /\ c.last_seqno_sent = MaxOver(legs["exit"], last_seq_sent["exit"])
  <2>1. seq \in Nat
    BY <1>2, <1>4
  <2> HIDE DEF seq
  <2>2. c \in Cell
    BY <1>8, <2>1 DEF Cell
  <2> QED
    BY <2>2
<1>10. circ["client"][l] = "open" => c.last_seqno_sent = 0
  <2> SUFFICES ASSUME circ["client"][l] = "open"
               PROVE  MaxOver(legs["exit"], last_seq_sent["exit"]) = 0
    BY <1>9
  <2>1. l \in unlinked
    BY <1>3, <1>6 DEF IInv, CircuitsInSets
  <2>2. \A m \in Leg : last_seq_sent["exit"][m] = 0
    BY <1>2, <1>3, <2>1, NothingSentYet
  <2>3. legs["exit"] \in SUBSET Leg /\ last_seq_sent["exit"] \in [Leg -> Nat]
    BY <1>2, <1>4
  <2> QED
    BY <2>2, <2>3, MaxOverLegs
<1> HIDE DEF c
<1>11. TakenPut(wire', "exit", l, {"LINK"}, c, <<c>>)
  BY <1>1, <1>2, <1>4, <1>9, TakenWire
<1>12. FewerWires(wire', Numbers)
  <2>1. wire \in WireType /\ "exit" \in End /\ c \in Cell /\ c.cmd \notin Numbers
    BY <1>2, <1>4, <1>9 DEF Numbers
  <2> QED
    BY <1>11, <2>1, FewerTaken
<1>13. /\ wire'["client"][l] = Tail(wire["client"][l])
       /\ \A f \in End, m \in Leg : m # l => wire'[f][m] = wire[f][m]
       /\ \/ wire'["exit"][l] = wire["exit"][l]
          \/ circ["client"][l] = "open" /\ wire'["exit"][l] = wire["exit"][l] \o <<c>>
       /\ wire["exit"][l] \in Seq(Cell)
  BY <1>2, <1>11 DEF TakenPut
<1>14. /\ Tail(wire["client"][l]) \in Seq(Cell)
       /\ \A i \in DOMAIN wire'["client"][l] :
            ~Multiplexed(wire'["client"][l][i]) /\ wire'["client"][l][i].cmd # "SWITCH"
  <2>1. /\ Tail(wire["client"][l]) \in Seq(Cell)
        /\ \A i \in DOMAIN Tail(wire["client"][l]) :
             /\ i + 1 \in DOMAIN wire["client"][l]
             /\ Tail(wire["client"][l])[i] = wire["client"][l][i + 1]
    BY <1>5
  <2> QED
    BY <1>7, <1>13, <2>1 DEF Multiplexed
<1> HIDE DEF cell
<1>15. /\ legs'["client"] = legs["client"] /\ legs'["exit"] = legs["exit"] \cup {l}
       /\ TornDown' = TornDown
  BY <1>1, <1>2, <1>4, <1>6 DEF TornDown
<1>16. /\ \A f \in End, m \in Leg : last_seq_recv'[f][m] =
             IF f = "exit" /\ m = l THEN 0 ELSE last_seq_recv[f][m]
       /\ \A f \in End, m \in Leg : last_seq_sent'[f][m] =
             IF f = "exit" /\ m = l THEN 0 ELSE last_seq_sent[f][m]
  BY <1>1, <1>4, <1>6
<1>17. /\ last_seq_delivered'["client"] = last_seq_delivered["client"]
       /\ last_seq_delivered'["exit"] = seq
       /\ ooo_q'["client"] = ooo_q["client"] /\ ooo_q'["exit"] = queue
  BY <1>1, <1>2, <1>4
<1>18. ~new => Quiet
  BY <1>1, <1>4 DEF Quiet
<1>19. StartsAtZero'
  <2>1. ASSUME NEW m \in Leg, NEW i \in DOMAIN wire'["exit"][m],
               wire'["exit"][m][i].cmd = "LINKED"
        PROVE  wire'["exit"][m][i].last_seqno_sent = 0
    <3>1. CASE wire'["exit"][m] = wire["exit"][m]
      BY <1>3, <2>1, <3>1 DEF StartsAtZero
    <3>2. CASE wire'["exit"][m] # wire["exit"][m]
      <4>1. /\ m = l /\ circ["client"][l] = "open"
            /\ wire'["exit"][l] = wire["exit"][l] \o <<c>>
        BY <1>2, <1>13, <3>2
      <4>2. /\ DOMAIN wire'["exit"][l] = 1..(Len(wire["exit"][l]) + 1)
            /\ DOMAIN wire["exit"][l] = 1..Len(wire["exit"][l])
            /\ Len(wire["exit"][l]) \in Nat
            /\ \A k \in 1..Len(wire["exit"][l]) :
                 wire'["exit"][l][k] = wire["exit"][l][k]
            /\ wire'["exit"][l][Len(wire["exit"][l]) + 1] = c
        BY <1>9, <1>13, <4>1, AppendedCell
      <4>3. CASE i = Len(wire["exit"][l]) + 1
        BY <1>10, <4>1, <4>2, <4>3
      <4>4. CASE i # Len(wire["exit"][l]) + 1
        <5>1. i \in DOMAIN wire["exit"][l] /\ wire'["exit"][l][i] = wire["exit"][l][i]
          BY <2>1, <4>1, <4>2, <4>4
        <5> QED
          BY <1>3, <2>1, <4>1, <5>1 DEF StartsAtZero
      <4> QED
        BY <4>3, <4>4
    <3> QED
      BY <3>1, <3>2
  <2>2. \A m \in Leg : link'[m] # NULL => link'[m].last_seqno_sent = 0
    BY <1>1, <1>3 DEF StartsAtZero
  <2>3. \A f \in End, m \in Leg :
          last_seq_recv'[Other(f)][m] \in {last_seq_recv[Other(f)][m], 0}
    BY <1>2, <1>16
  <2> QED
    BY <1>1, <1>3, <1>12, <2>1, <2>2, <2>3, StartsKept
<1>20. /\ delivered["exit"] # << >> /\ new => Renewed'
       /\ ~new => Renewed' = Renewed
  BY <1>1, <1>17, <1>18 DEF Renewed, Quiet
<1>21. DeliveredInOrder'
  <2>1. ASSUME NEW f \in End
        PROVE  /\ delivered[f] = [i \in 1..Len(delivered[f]) |-> i]
               /\ Len(delivered[f]) <= Len(sent[Other(f)])
               /\ \/ last_seq_delivered'[f] = Len(delivered[f])
                  \/ f = "exit" /\ Renewed'
               /\ \A q \in ooo_q'[f] :
                    /\ q.seq = q.no /\ q.seq > last_seq_delivered'[f] + 1
                    /\ q.no <= Len(sent[Other(f)])
    <3>1. /\ delivered[f] = [i \in 1..Len(delivered[f]) |-> i]
          /\ Len(delivered[f]) <= Len(sent[Other(f)])
          /\ last_seq_delivered[f] = Len(delivered[f]) \/ (f = "exit" /\ Renewed)
          /\ \A q \in ooo_q[f] :
               /\ q.seq = q.no /\ q.seq > last_seq_delivered[f] + 1
               /\ q.no <= Len(sent[Other(f)])
      BY <1>3 DEF DeliveredInOrder
    <3>2. CASE f = "client"
      BY <1>17, <3>1, <3>2
    <3>3. CASE f = "exit" /\ ~new
      BY <1>17, <1>20, <3>1, <3>3
    <3>4. CASE f = "exit" /\ new
      <4>1. delivered["exit"] = << >> => Len(delivered["exit"]) = 0
        OBVIOUS
      <4> QED
        BY <1>17, <1>20, <3>1, <3>4, <4>1
    <3> QED
      BY <1>2, <3>2, <3>3, <3>4
  <2>2. ASSUME Renewed', NEW m \in legs'["exit"]
        PROVE  /\ m \notin legs'["client"]
               /\ \A i \in DOMAIN wire'["client"][m] : ~Multiplexed(wire'["client"][m][i])
    <3>1. CASE m = l
      BY <1>6, <1>14, <1>15, <3>1
    <3>2. CASE m # l
      <4>1. m \in legs["exit"] /\ ~new /\ m \in Leg
        BY <1>2, <1>4, <1>15, <2>2, <3>2
      <4>2. Renewed
        BY <1>20, <2>2, <4>1
      <4> QED
        BY <1>2, <1>3, <1>13, <1>15, <3>2, <4>1, <4>2 DEF DeliveredInOrder
    <3> QED
      BY <3>1, <3>2
  <2>3. delivered \in [End -> Seq(Nat)] /\ (sent["exit"] # << >> => delivered["exit"] # << >>)
    BY <1>3 DEF DeliveredInOrder
  <2> QED
    BY <1>1, <2>1, <2>2, <2>3 DEF DeliveredInOrder
<1>22. CurrLegLast'
  <2> SUFFICES ASSUME NEW f \in End
               PROVE  /\ curr_leg[f] # NULL =>
                           last_seq_sent'[f][curr_leg[f]] = Len(sent[f])
                      /\ curr_leg[f] = NULL /\ legs'[f] # {} /\ sent[f] # << >> =>
                           f = "exit" /\ Renewed'
    BY <1>1 DEF CurrLegLast
  <2>1. /\ curr_leg[f] # NULL => last_seq_sent[f][curr_leg[f]] = Len(sent[f])
        /\ curr_leg[f] = NULL /\ legs[f] # {} /\ sent[f] # << >> => f = "exit" /\ Renewed
    BY <1>3 DEF CurrLegLast
  <2>2. curr_leg[f] # NULL =>
          last_seq_sent'[f][curr_leg[f]] = last_seq_sent[f][curr_leg[f]]
    <3>1. curr_leg[f] # NULL => curr_leg[f] \in Leg /\ curr_leg[f] \in legs[f]
      BY <1>4
    <3> QED
      BY <1>6, <1>16, <3>1
  <2>3. sent["exit"] # << >> => delivered["exit"] # << >>
    BY <1>3 DEF DeliveredInOrder
  <2> QED
    BY <1>2, <1>15, <1>20, <2>1, <2>2, <2>3
<1>23. CellsOnce'
  <2>1. \A f \in End : ooo_q'[f] \subseteq ooo_q[f]
    BY <1>2, <1>17
  <2> QED
    BY <1>1, <1>3, <1>12, <2>1, FlowTypes, OnceKept
<1>24. CellsNumbered'
  <2> SUFFICES ASSUME NEW f \in End, NEW m \in Leg, m \in legs'[Other(f)]
               PROVE  /\ Numbered(last_seq_recv'[Other(f)][m], wire'[f][m])
                      /\ m \in legs'[f] /\ ~Broken(wire'[f][m]) =>
                           Total(last_seq_recv'[Other(f)][m], wire'[f][m])
                             = last_seq_sent'[f][m]
    BY NumberedCellsNext
  <2>1. CASE m = l
    <3>1. f = "client"
      BY <1>2, <1>6, <1>15, <2>1
    <3>2. Numbered(0, wire'["client"][l])
      BY <1>13, <1>14, NumberedNone
    <3> QED
      BY <1>2, <1>6, <1>15, <1>16, <2>1, <3>1, <3>2
  <2>2. CASE m # l
    <3>1. /\ m \in legs[Other(f)] /\ m \in legs'[f] => m \in legs[f]
          /\ last_seq_recv'[Other(f)][m] = last_seq_recv[Other(f)][m]
          /\ last_seq_sent'[f][m] = last_seq_sent[f][m] /\ wire'[f][m] = wire[f][m]
      BY <1>2, <1>13, <1>15, <1>16, <2>2
    <3>2. /\ Numbered(last_seq_recv[Other(f)][m], wire[f][m])
          /\ m \in legs[f] /\ ~Broken(wire[f][m]) =>
               Total(last_seq_recv[Other(f)][m], wire[f][m]) = last_seq_sent[f][m]
      <4>1. m \in legs[Other(f)]
        BY <1>2, <1>15, <2>2
      <4> QED
        BY <1>3, <4>1, NumberedCells
    <3>3. m \in legs'[f] => m \in legs[f]
      BY <1>2, <1>15, <2>2
    <3> QED
      BY <3>1, <3>2, <3>3
  <2> QED
    BY <2>1, <2>2
<1>25. \A f \in End, m \in Leg : m \notin legs'[f] => inflight'[f][m] = 0
  BY <1>1, <1>2, <1>3, <1>15 DEF UnreceivedBounded
<1>26. UnreceivedBounded'
  <2>1. CASE new
    BY <1>15, <1>25, <2>1 DEF UnreceivedBounded, TornDown
  <2>2. CASE ~new
    <3> SUFFICES ASSUME NEW f \in End, NEW m \in Leg
                 PROVE  BoundKept(f, m)
      BY <1>18, <2>2, UnreceivedKept
    <3>1. BoundTypes /\ Other(f) \in End
      BY <1>3, BoundsTyped, Ends
    <3>2. Count(wire'[Other(f)][m], "SENDME") = Count(wire[Other(f)][m], "SENDME")
      <4> DEFINE answers == <<c>>
      <4>0. TakenOff(wire', "exit", l, {"LINK"}, c, answers)
        BY <1>1, <1>2, <1>4, <1>9, TakenCells
      <4> HIDE DEF answers
      <4>1. TakenCount(wire', "exit", l, c, answers, "SENDME")
        BY <1>2, <1>4, <1>9, <4>0, TakenCounts
      <4>2. /\ Count(wire'["client"][l], "SENDME") = Count(wire["client"][l], "SENDME")
            /\ Count(wire'["exit"][l], "SENDME") = Count(wire["exit"][l], "SENDME")
        BY <1>2, <1>5, <1>9, <4>1 DEF TakenCount
      <4> QED
        BY <1>2, <1>13, <3>1, <4>2
    <3> QED
      BY <1>1, <1>15, <1>25, <3>1, <3>2 DEF BoundKept, BoundTypes
  <2> QED
    BY <2>1, <2>2
<1> QED
  BY <1>19, <1>21, <1>22, <1>23, <1>24, <1>26 DEF FlowInv

-----------------------------------------------------------------------------
(* A numbered cell arrives *)

\* The queue is emptied up to the first hole, and no further.
LEMMA UpToHole ==
  ASSUME last_seq_delivered \in [End -> Nat], NEW e \in End,
         NEW queue \in SUBSET [seq : Nat, no : Nat], IsFiniteSet(queue)
  PROVE  /\ UpTo(e, queue) \in Nat /\ last_seq_delivered[e] <= UpTo(e, queue)
         /\ \A i \in (last_seq_delivered[e] + 1)..UpTo(e, queue) :
              \E c \in queue : c.seq = i
         /\ \A c \in queue : c.seq # UpTo(e, queue) + 1
<1> DEFINE first == last_seq_delivered[e] + 1
           seqs == {c.seq : c \in queue}
           b == first + Cardinality(queue)
           T == {first - 1} \cup {last \in first..b : first..last \subseteq seqs}
<1>1. first \in Nat /\ Cardinality(queue) \in Nat /\ first - 1 = last_seq_delivered[e]
  BY FS_CardinalityType
<1>2. b \in Nat /\ T \in SUBSET Nat /\ first - 1 \in T /\ \A y \in T : y <= b
  BY <1>1
<1>3. UpTo(e, queue) = Max(T)
  BY DEF UpTo
<1> DEFINE upto == Max(T)
<1>4. /\ \A y \in T : y = first - 1 \/ first..y \subseteq seqs
      /\ \A y \in first..b : first..y \subseteq seqs => y \in T
      /\ \A i \in seqs : \E c \in queue : c.seq = i
      /\ \A c \in queue : c.seq \in seqs
  OBVIOUS
<1> HIDE DEF T, seqs
<1>5. upto \in T /\ \A y \in T : y <= upto
  BY <1>2, MaxBounded
<1>6. upto \in Nat /\ first - 1 <= upto
  BY <1>2, <1>5
<1> HIDE DEF upto
<1>7. first..upto \subseteq seqs
  <2>1. CASE upto = first - 1
    <3>1. first..upto = {}
      BY <1>1, <1>6, <2>1
    <3> QED
      BY <3>1
  <2>2. CASE upto # first - 1
    BY <1>4, <1>5, <2>2
  <2> QED
    BY <2>1, <2>2
<1>8. ASSUME NEW c \in queue, c.seq = upto + 1
      PROVE  FALSE
  <2>1. first..(upto + 1) \subseteq seqs
    <3> SUFFICES ASSUME NEW i \in first..(upto + 1)
                 PROVE  i \in seqs
      OBVIOUS
    <3>1. CASE i = upto + 1
      BY <1>4, <1>8, <3>1
    <3>2. CASE i # upto + 1
      BY <1>1, <1>6, <1>7, <3>2
    <3> QED
      BY <3>1, <3>2
  <2> DEFINE f == [i \in first..(upto + 1) |-> CHOOSE q \in queue : q.seq = i]
  <2>2. \A i \in first..(upto + 1) : f[i] \in queue /\ f[i].seq = i
    BY <1>4, <2>1
  <2>3. f \in [first..(upto + 1) -> queue]
    BY <2>2
  <2> HIDE DEF f
  <2>4. \A i, j \in first..(upto + 1) : f[i] = f[j] => i = j
    BY <2>2
  <2>5. f \in Injection(first..(upto + 1), queue)
    BY <2>3, <2>4 DEF Injection, IsInjective
  <2>6. Cardinality(first..(upto + 1)) <= Cardinality(queue)
    BY <2>5, FS_Injection, Zenon
  <2>7. Cardinality(first..(upto + 1)) = (upto + 1) - first + 1
    <3>1. first \in Int /\ upto + 1 \in Int /\ ~(first > upto + 1)
      BY <1>1, <1>6
    <3> HIDE DEF first
    <3> QED
      BY <3>1, FS_Interval
  <2>8. upto + 1 \in first..b
    BY <1>1, <1>6, <2>6, <2>7
  <2>9. upto + 1 \in T
    BY <1>4, <2>1, <2>8
  <2> QED
    BY <1>5, <1>6, <2>9
<1> QED
  BY <1>1, <1>3, <1>4, <1>6, <1>7, <1>8 DEF upto

\* What e does with a cell: it releases, in order, the cells up to the first
\* that is missing, and the others wait.
Released(e, cell, upto) ==
  /\ upto \in Nat
  /\ Len(delivered[e]) <= upto /\ upto <= Len(sent[Other(e)])
  /\ delivered' = [delivered EXCEPT ![e] = [i \in 1..upto |-> i]]
  /\ last_seq_delivered' = [last_seq_delivered EXCEPT ![e] = upto]
  /\ ooo_q'[Other(e)] = ooo_q[Other(e)]
  /\ \A c \in ooo_q'[e] : /\ c.seq = c.no /\ c.seq > upto + 1
                          /\ c.no <= Len(sent[Other(e)])
  /\ \A c \in ooo_q[e] : c.no > upto => c \in ooo_q'[e]
  /\ cell.no > upto => \E c \in ooo_q'[e] : c.no = cell.no
  /\ \A n \in Nat :
       /\ n > Len(delivered[e]) /\ n # cell.no /\ \A c \in ooo_q[e] : c.no # n
       => n > upto /\ \A c \in ooo_q'[e] : c.no # n

\* The cell that arrives.
Arrived(e, l, cell) ==
  /\ cell = wire[Other(e)][l][1] /\ cell \in Cell /\ Multiplexed(cell)
  /\ cell.no \in Nat /\ cell.no > Len(delivered[e])
  /\ cell.no <= Len(sent[Other(e)])
  /\ sent[Other(e)][cell.no] = [leg |-> l, cmd |-> cell.cmd]
  /\ \A c \in ooo_q[e] : c.no # cell.no
  /\ cell.no = last_seq_recv[e][l] + 1

\* A cell that arrives has the number its receiver counts.
LEMMA CellArrived ==
  ASSUME FlowInv, NEW e \in End, NEW l \in Leg, Arrives(e, l, {"DATA", "OTHER"})
  PROVE  /\ Arrived(e, l, Head(wire[Other(e)][l]))
         /\ l \in legs[e] /\ last_seq_delivered[e] = Len(delivered[e])
         /\ (e = "exit" => ~Renewed) /\ sent[Other(e)] # << >>
<1> DEFINE o == Other(e)
           cell == Head(wire[o][l])
<1>1. o \in End /\ o # e /\ Other(o) = e
  BY Ends
<1>2. /\ IInv /\ wire \in WireType /\ last_seq_recv \in [End -> [Leg -> Nat]]
      /\ sent \in [End -> Seq([leg : Leg, cmd : {"DATA", "OTHER"}])]
  BY FlowTypes DEF FlowInv
<1>3. /\ wire[o][l] \in Seq(Cell) /\ wire[o][l] # << >> /\ 1 \in DOMAIN wire[o][l]
      /\ cell = wire[o][l][1] /\ cell \in Cell /\ cell.cmd \in {"DATA", "OTHER"}
  BY <1>1, <1>2 DEF Arrives, WireType
<1>4. l \in legs[e]
  <2>1. Arrives(e, l, Later)
    BY DEF Arrives, Later
  <2> QED
    BY <1>2, <2>1, ArrivedLinked
<1> HIDE DEF cell
<1>5. Multiplexed(cell)
  BY <1>3 DEF Multiplexed
<1>6. /\ cell.no \in (Len(delivered[e]) + 1)..Len(sent[o])
      /\ sent[o][cell.no] = [leg |-> l, cmd |-> cell.cmd]
      /\ \A c \in ooo_q[e] : c.no # cell.no
  <2>1. \A i \in DOMAIN wire[o][l] : Multiplexed(wire[o][l][i]) =>
          /\ wire[o][l][i].no \in (Len(delivered[Other(o)]) + 1)..Len(sent[o])
          /\ sent[o][wire[o][l][i].no] = [leg |-> l, cmd |-> wire[o][l][i].cmd]
          /\ \A c \in ooo_q[Other(o)] : c.no # wire[o][l][i].no
    BY <1>1 DEF FlowInv, CellsOnce
  <2> HIDE DEF o
  <2> QED
    BY <1>1, <1>3, <1>5, <2>1
<1>7. e = "exit" => ~Renewed
  <2> SUFFICES ASSUME e = "exit", Renewed
               PROVE  FALSE
    OBVIOUS
  <2>1. o = "client"
    BY Ends
  <2> QED
    BY <1>3, <1>4, <1>5, <2>1 DEF FlowInv, DeliveredInOrder
<1>8. last_seq_delivered[e] = Len(delivered[e])
  BY <1>7 DEF FlowInv, DeliveredInOrder
<1>9. Len(delivered[e]) \in Nat /\ Len(sent[o]) \in Nat
  BY <1>1, <1>2 DEF FlowInv, DeliveredInOrder
<1>10. cell.no = last_seq_recv[e][l] + 1
  <2>1. Numbered(last_seq_recv[e][l], wire[o][l])
    BY <1>1, <1>4, NumberedCells DEF FlowInv
  <2> QED
    BY <1>2, <1>3, <1>5, <2>1, NumberedTaken
<1>11. Arrived(e, l, cell)
  BY <1>3, <1>5, <1>6, <1>9, <1>10 DEF Arrived, o
<1>12. sent[o] # << >>
  BY <1>6, <1>9
<1> QED
  BY <1>4, <1>7, <1>8, <1>11, <1>12 DEF cell, o

\* And it releases what waited for it.
LEMMA CellReleases ==
  ASSUME FlowInv, NEW e \in End, NEW l \in Leg, ReceiveCell(e, l)
  PROVE  \E upto : Released(e, Head(wire[Other(e)][l]), upto)
<1> DEFINE o == Other(e)
           cell == Head(wire[Other(e)][l])
           seq == last_seq_recv[e][l] + 1
           arrived == [seq |-> seq, no |-> cell.no]
           queue == ooo_q[e] \cup {arrived}
           upto == UpTo(e, queue)
           from == last_seq_delivered[e]
           NoOf(i) == (CHOOSE c \in queue : c.seq = i).no
           more == [i \in 1..(upto - from) |-> NoOf(from + i)]
<1>1. /\ Arrives(e, l, {"DATA", "OTHER"})
      /\ last_seq_delivered' = [last_seq_delivered EXCEPT ![e] = upto]
      /\ ooo_q' = [ooo_q EXCEPT ![e] = {c \in queue : c.seq > upto}]
      /\ delivered' = [delivered EXCEPT ![e] = @ \o more]
  BY DEF ReceiveCell
<1>2. /\ Arrived(e, l, cell) /\ from = Len(delivered[e])
      /\ o \in End /\ o # e
  BY <1>1, CellArrived, Ends
<1>3. /\ last_seq_delivered \in [End -> Nat]
      /\ ooo_q \in [End -> SUBSET [seq : Nat, no : Nat]] /\ IsFiniteSet(ooo_q[e])
      /\ sent \in [End -> Seq([leg : Leg, cmd : {"DATA", "OTHER"}])]
      /\ delivered \in [End -> Seq(Nat)]
  BY FlowTypes DEF FlowInv, IInv, FieldTypes, DeliveredInOrder
<1>4. /\ cell.no \in Nat /\ cell.no = seq /\ seq \in Nat
      /\ from < seq /\ seq <= Len(sent[o])
      /\ from \in Nat /\ Len(sent[o]) \in Nat
  BY <1>2, <1>3 DEF Arrived
<1>5. /\ delivered[e] = [i \in 1..from |-> i]
      /\ from <= Len(sent[o])
      /\ \A c \in ooo_q[e] : c.seq = c.no /\ c.seq > from + 1 /\ c.no <= Len(sent[o])
  BY <1>2 DEF FlowInv, DeliveredInOrder
<1> HIDE DEF cell, seq
<1>6. queue \in SUBSET [seq : Nat, no : Nat] /\ IsFiniteSet(queue)
  <2>1. arrived \in [seq : Nat, no : Nat]
    BY <1>4
  <2> HIDE DEF arrived
  <2> QED
    BY <1>3, <2>1, FS_AddElement
<1>7. \A c \in queue : /\ c.seq = c.no /\ c.seq \in Nat /\ c.seq > from
                       /\ c.no <= Len(sent[o])
  <2>1. arrived.seq = arrived.no /\ arrived.no = cell.no
    BY <1>4
  <2> HIDE DEF arrived
  <2>2. \A c \in ooo_q[e] : c.seq \in Nat
    BY <1>6
  <2> QED
    BY <1>4, <1>5, <2>1, <2>2
<1>8. /\ arrived \in queue /\ arrived.seq = cell.no /\ arrived.no = cell.no
      /\ \A c \in queue : c = arrived \/ c \in ooo_q[e]
      /\ ooo_q[e] \subseteq queue
  BY <1>4
<1> HIDE DEF arrived, queue
<1>9. /\ upto \in Nat /\ from <= upto
      /\ \A i \in (from + 1)..upto : \E c \in queue : c.seq = i
      /\ \A c \in queue : c.seq # upto + 1
  BY <1>3, <1>6, UpToHole
<1> HIDE DEF upto
<1>10. upto <= Len(sent[o])
  <2>1. CASE upto = from
    BY <1>5, <2>1
  <2>2. CASE upto # from
    <3>1. upto \in (from + 1)..upto
      BY <1>4, <1>9, <2>2
    <3>2. PICK c \in queue : c.seq = upto
      BY <1>9, <3>1
    <3> QED
      BY <1>7, <3>2
  <2> QED
    BY <2>1, <2>2
<1>11. delivered[e] \o more = [i \in 1..upto |-> i]
  <2>1. \A i \in 1..(upto - from) : NoOf(from + i) = from + i
    <3> SUFFICES ASSUME NEW i \in 1..(upto - from)
                 PROVE  NoOf(from + i) = from + i
      OBVIOUS
    <3>1. from + i \in (from + 1)..upto
      BY <1>4, <1>9
    <3>2. \E c \in queue : c.seq = from + i
      BY <1>9, <3>1
    <3> QED
      BY <1>7, <3>2
  <2>2. more = [i \in 1..(upto - from) |-> from + i]
    BY <2>1
  <2> HIDE DEF more
  <2>3. /\ upto - from \in Nat
        /\ more \in Seq(Nat) /\ Len(more) = upto - from
    <3>1. upto - from \in Nat
      BY <1>4, <1>9
    <3>2. \A i \in 1..(upto - from) : from + i \in Nat
      BY <1>4, <3>1
    <3> QED
      BY <2>2, <3>1, <3>2
  <2>4. delivered[e] \in Seq(Nat) /\ Len(delivered[e]) = from
    BY <1>2, <1>3
  <2> DEFINE all == delivered[e] \o more
  <2>5. /\ all \in Seq(Nat) /\ Len(all) = upto
        /\ \A i \in 1..upto :
             all[i] = IF i <= from THEN delivered[e][i] ELSE more[i - from]
    <3>1. /\ all \in Seq(Nat) /\ Len(all) = Len(delivered[e]) + Len(more)
          /\ \A i \in 1..(Len(delivered[e]) + Len(more)) :
               all[i] = IF i <= Len(delivered[e]) THEN delivered[e][i]
                        ELSE more[i - Len(delivered[e])]
      BY <2>3, <2>4, ConcatProperties
    <3>2. Len(delivered[e]) + Len(more) = upto
      BY <1>4, <1>9, <2>3, <2>4
    <3> QED
      BY <2>4, <3>1, <3>2
  <2>6. \A i \in 1..upto : all[i] = i
    <3> SUFFICES ASSUME NEW i \in 1..upto
                 PROVE  (IF i <= from THEN delivered[e][i] ELSE more[i - from]) = i
      BY <2>5
    <3>1. CASE i <= from
      BY <1>4, <1>5, <1>9, <3>1
    <3>2. CASE ~(i <= from)
      BY <1>4, <1>9, <2>2, <3>2
    <3> QED
      BY <3>1, <3>2
  <2> HIDE DEF all
  <2>7. all = [i \in 1..Len(all) |-> all[i]]
    BY <2>5
  <2> QED
    BY <2>5, <2>6, <2>7 DEF all
<1> HIDE DEF more, from, o
<1>12. /\ delivered' = [delivered EXCEPT ![e] = [i \in 1..upto |-> i]]
       /\ last_seq_delivered' = [last_seq_delivered EXCEPT ![e] = upto]
       /\ ooo_q'[o] = ooo_q[o] /\ ooo_q'[e] = {c \in queue : c.seq > upto}
  BY <1>1, <1>2, <1>3, <1>11
<1>13. \A c \in ooo_q'[e] : /\ c.seq = c.no /\ c.seq > upto + 1
                            /\ c.no <= Len(sent[o])
  BY <1>7, <1>9, <1>12
<1>14. /\ \A c \in ooo_q[e] : c.no > upto => c \in ooo_q'[e]
       /\ cell.no > upto => \E c \in ooo_q'[e] : c.no = cell.no
  BY <1>5, <1>8, <1>12
<1>15. ASSUME NEW n \in Nat, n > Len(delivered[e]), n # cell.no,
              \A c \in ooo_q[e] : c.no # n
       PROVE  n > upto /\ \A c \in ooo_q'[e] : c.no # n
  <2>1. \A c \in queue : c.no # n /\ c.seq # n
    BY <1>7, <1>8, <1>15
  <2>2. n \notin (from + 1)..upto
    BY <1>9, <2>1
  <2> QED
    BY <1>2, <1>4, <1>9, <1>12, <1>15, <2>1, <2>2
<1>16. Released(e, cell, upto)
  BY <1>2, <1>9, <1>10, <1>12, <1>13, <1>14, <1>15 DEF Released, o
<1> QED
  BY <1>16 DEF cell

\* What is on its way behind or beside a cell that arrives is not released with
\* it.
LEMMA OnceReleased ==
  ASSUME FlowInv, NEW e \in End, NEW l \in Leg, NEW cell, NEW upto,
         Arrived(e, l, cell), Released(e, cell, upto), FewerWires(wire', Numbers),
         wire[Other(e)][l] # << >>, wire'[Other(e)][l] = Tail(wire[Other(e)][l]),
         \A m \in Leg : m # l => wire'[Other(e)][m] = wire[Other(e)][m], sent' = sent
  PROVE  CellsOnce'
<1> DEFINE o == Other(e)
<1>1. o \in End /\ o # e /\ Other(o) = e /\ \A f \in End : f = e \/ f = o
  BY Ends
<1>2. /\ wire \in WireType /\ CellsOnce /\ delivered \in [End -> Seq(Nat)]
      /\ sent \in [End -> Seq([leg : Leg, cmd : {"DATA", "OTHER"}])]
      /\ \A f \in End, m \in Leg : \A i \in DOMAIN wire[f][m] : i \in Nat
  BY FlowTypes DEF FlowInv, DeliveredInOrder
<1>3. /\ delivered'[o] = delivered[o] /\ ooo_q'[o] = ooo_q[o]
      /\ delivered'[e] = [i \in 1..upto |-> i] /\ upto \in Nat
  BY <1>1, <1>2 DEF Released, o
<1>4. Len(delivered'[e]) = upto
  BY <1>3
<1>5. ASSUME NEW f \in End, NEW m \in Leg, NEW i \in DOMAIN wire'[f][m],
             Multiplexed(wire'[f][m][i])
      PROVE  \E d \in {0, 1} :
               /\ f = o /\ m = l => d = 1
               /\ i \in Nat /\ i + d \in DOMAIN wire[f][m]
               /\ \A j \in DOMAIN wire'[f][m] : Multiplexed(wire'[f][m][j]) =>
                    /\ j \in Nat /\ j + d \in DOMAIN wire[f][m]
                    /\ wire'[f][m][j] = wire[f][m][j + d]
  <2>1. CASE f = o /\ m = l
    <3>1. wire[o][l] \in Seq(Cell) /\ wire[o][l] # << >>
      BY <1>1, <1>2 DEF WireType
    <3>2. wire'[o][l] = Tail(wire[o][l])
      OBVIOUS
    <3> HIDE DEF o
    <3>3. \A j \in DOMAIN wire'[o][l] :
            /\ j \in Nat /\ j + 1 \in DOMAIN wire[o][l]
            /\ wire'[o][l][j] = wire[o][l][j + 1]
      BY <3>1, <3>2
    <3> QED
      BY <1>5, <2>1, <3>3
  <2>2. CASE ~(f = o /\ m = l)
    <3>1. PICK d \in {0, 1} : \A j \in DOMAIN wire'[f][m] :
            wire'[f][m][j].cmd \in Numbers =>
              /\ j \in Nat /\ j + d \in DOMAIN wire[f][m]
              /\ wire'[f][m][j] = wire[f][m][j + d]
      BY DEF FewerWires, FewerCells
    <3> QED
      BY <1>5, <2>2, <3>1, NumbersAre
  <2> QED
    BY <2>1, <2>2
<1> SUFFICES ASSUME NEW f \in End, NEW m \in Leg, NEW i \in DOMAIN wire'[f][m],
                    Multiplexed(wire'[f][m][i])
             PROVE  LET x == wire'[f][m][i] IN
                    /\ x.no \in (Len(delivered'[Other(f)]) + 1)..Len(sent'[f])
                    /\ sent'[f][x.no] = [leg |-> m, cmd |-> x.cmd]
                    /\ \A c \in ooo_q'[Other(f)] : c.no # x.no
                    /\ \A j \in DOMAIN wire'[f][m] :
                         Multiplexed(wire'[f][m][j])
                         /\ wire'[f][m][j].no = x.no => j = i
  BY DEF CellsOnce
<1> DEFINE x == wire'[f][m][i]
<1>6. PICK d \in {0, 1} :
        /\ f = o /\ m = l => d = 1
        /\ i \in Nat /\ i + d \in DOMAIN wire[f][m]
        /\ \A j \in DOMAIN wire'[f][m] : Multiplexed(wire'[f][m][j]) =>
             /\ j \in Nat /\ j + d \in DOMAIN wire[f][m]
             /\ wire'[f][m][j] = wire[f][m][j + d]
  BY <1>5
<1>7. x = wire[f][m][i + d] /\ Multiplexed(x)
  BY <1>6
<1>8. /\ x.no \in (Len(delivered[Other(f)]) + 1)..Len(sent[f])
      /\ sent[f][x.no] = [leg |-> m, cmd |-> x.cmd]
      /\ \A c \in ooo_q[Other(f)] : c.no # x.no
      /\ \A j \in DOMAIN wire[f][m] :
           Multiplexed(wire[f][m][j]) /\ wire[f][m][j].no = x.no => j = i + d
  <2>1. \A k \in DOMAIN wire[f][m] : Multiplexed(wire[f][m][k]) =>
          /\ wire[f][m][k].no \in (Len(delivered[Other(f)]) + 1)..Len(sent[f])
          /\ sent[f][wire[f][m][k].no] = [leg |-> m, cmd |-> wire[f][m][k].cmd]
          /\ \A c \in ooo_q[Other(f)] : c.no # wire[f][m][k].no
          /\ \A j \in DOMAIN wire[f][m] :
               Multiplexed(wire[f][m][j]) /\ wire[f][m][j].no = wire[f][m][k].no => j = k
    BY <1>2 DEF CellsOnce
  <2> HIDE DEF x
  <2> QED
    BY <1>6, <1>7, <2>1
<1> HIDE DEF x
<1>9. \A j \in DOMAIN wire'[f][m] :
        Multiplexed(wire'[f][m][j]) /\ wire'[f][m][j].no = x.no => j = i
  <2> SUFFICES ASSUME NEW j \in DOMAIN wire'[f][m], Multiplexed(wire'[f][m][j]),
                      wire'[f][m][j].no = x.no
               PROVE  j = i
    OBVIOUS
  <2>1. j \in Nat /\ j + d \in DOMAIN wire[f][m] /\ wire'[f][m][j] = wire[f][m][j + d]
    BY <1>6
  <2>2. j + d = i + d
    BY <1>8, <2>1
  <2> QED
    BY <1>6, <2>1, <2>2
<1>10. CASE f = e
  BY <1>3, <1>8, <1>9, <1>10 DEF x, o
<1>11. CASE f = o
  <2>1. /\ cell = wire[o][l][1] /\ Multiplexed(cell) /\ 1 \in DOMAIN wire[o][l]
        /\ sent[o][cell.no] = [leg |-> l, cmd |-> cell.cmd]
    <3>1. wire[o][l] \in Seq(Cell) /\ wire[o][l] # << >>
      BY <1>1, <1>2 DEF WireType
    <3> QED
      BY <3>1 DEF Arrived, o
  <2>2. x.no # cell.no
    <3>1. CASE m = l
      <4>1. i # 0
        <5>1. wire[o][l] \in Seq(Cell) /\ wire[o][l] # << >>
              /\ wire'[o][l] = Tail(wire[o][l])
          BY <1>1, <1>2 DEF WireType
        <5> HIDE DEF o
        <5>2. DOMAIN wire'[o][l] = 1..(Len(wire[o][l]) - 1)
          BY <5>1, TakenCell
        <5>3. i \in DOMAIN wire'[o][l]
          BY <1>11, <3>1
        <5> QED
          BY <5>2, <5>3
      <4>2. 1 # i + d
        BY <1>6, <1>11, <3>1, <4>1
      <4> QED
        BY <1>8, <1>11, <2>1, <3>1, <4>2
    <3>2. CASE m # l
      BY <1>8, <1>11, <2>1, <3>2
    <3> QED
      BY <3>1, <3>2
  <2>3. Len(delivered[e]) \in Nat /\ Len(sent[o]) \in Nat
    BY <1>1, <1>2
  <2>4. x.no \in Nat /\ x.no > Len(delivered[e]) /\ \A c \in ooo_q[e] : c.no # x.no
    BY <1>1, <1>8, <1>11, <2>3
  <2>5. x.no > upto /\ \A c \in ooo_q'[e] : c.no # x.no
    BY <2>2, <2>4 DEF Released
  <2>6. x.no \in (upto + 1)..Len(sent[o])
    BY <1>3, <1>8, <1>11, <2>3, <2>4, <2>5
  <2> QED
    BY <1>1, <1>4, <1>8, <1>9, <1>11, <2>5, <2>6 DEF x
<1> QED
  BY <1>1, <1>10, <1>11

\* What has not come is less by the cell that did.
LEMMA UnreceivedLess ==
  ASSUME FlowInv, NEW e \in End, NEW l \in Leg, NEW cell, NEW upto,
         Arrived(e, l, cell), Released(e, cell, upto), sent' = sent
  PROVE  /\ \A m : Unreceived(e, m)' = Unreceived(e, m)
         /\ \A m : Unreceived(Other(e), m)' \subseteq Unreceived(Other(e), m)
         /\ cell.cmd = "DATA" =>
              /\ cell.no \in Unreceived(Other(e), l)
              /\ cell.no \notin Unreceived(Other(e), l)'
<1> DEFINE o == Other(e)
<1>1. o \in End /\ o # e /\ Other(o) = e
  BY Ends
<1>2. /\ delivered \in [End -> Seq(Nat)]
      /\ sent \in [End -> Seq([leg : Leg, cmd : {"DATA", "OTHER"}])]
  BY FlowTypes DEF FlowInv, DeliveredInOrder
<1>3. /\ delivered'[o] = delivered[o] /\ ooo_q'[o] = ooo_q[o]
      /\ delivered'[e] = [i \in 1..upto |-> i] /\ upto \in Nat
      /\ Len(delivered[e]) <= upto
  BY <1>1, <1>2 DEF Released, o
<1>4. Len(delivered'[e]) = upto /\ Len(delivered[e]) \in Nat /\ Len(sent[o]) \in Nat
  BY <1>1, <1>2, <1>3
<1>5. \A m : Unreceived(e, m)' = Unreceived(e, m)
  BY <1>3 DEF Unreceived, o
<1>6. ASSUME NEW m, NEW i \in Unreceived(o, m)'
      PROVE  i \in Unreceived(o, m) /\ i # cell.no
  <2>1. /\ i \in (upto + 1)..Len(sent[o])
        /\ sent[o][i] = [leg |-> m, cmd |-> "DATA"]
        /\ \A c \in ooo_q'[e] : c.no # i
    BY <1>1, <1>4, <1>6 DEF Unreceived
  <2>2. i > upto
    BY <1>3, <1>4, <2>1
  <2>3. \A c \in ooo_q[e] : c.no # i
    BY <2>1, <2>2 DEF Released
  <2>4. i # cell.no
    BY <2>1, <2>2 DEF Released
  <2>5. i \in (Len(delivered[e]) + 1)..Len(sent[o])
    BY <1>3, <1>4, <2>1
  <2> QED
    BY <1>1, <2>1, <2>3, <2>4, <2>5 DEF Unreceived
<1>7. cell.cmd = "DATA" => cell.no \in Unreceived(o, l)
  <2>1. cell.no \in (Len(delivered[e]) + 1)..Len(sent[o])
    BY <1>4 DEF Arrived, o
  <2> QED
    BY <1>1, <2>1 DEF Arrived, Unreceived, o
<1> QED
  BY <1>5, <1>6, <1>7

\* A numbered cell is acknowledged, and delivered when its turn has come.
LEMMA FlowReceiveCell ==
  ASSUME FlowInv, IInv', NEW e \in End, NEW l \in Leg, ReceiveCell(e, l)
  PROVE  FlowInv'
<1> DEFINE o == Other(e)
           cell == Head(wire[Other(e)][l])
           due == AckDue(e, l, cell)
           answers == IF due THEN << [cmd |-> "SENDME"] >> ELSE << >>
           count == IF due THEN 0
                    ELSE IF cell.cmd = "DATA" THEN unacked[e][l] + 1
                    ELSE unacked[e][l]
           c == [cmd |-> "SENDME"]
<1>1. /\ Arrives(e, l, {"DATA", "OTHER"})
      /\ last_seq_recv' = [last_seq_recv EXCEPT ![e][l] = last_seq_recv[e][l] + 1]
      /\ unacked' = [unacked EXCEPT ![e][l] = count]
      /\ wire' = Taken(e, l, answers)
      /\ circ' = circ /\ link' = link /\ legs' = legs /\ curr_leg' = curr_leg
      /\ last_seq_sent' = last_seq_sent /\ inflight' = inflight /\ sent' = sent
  BY DEF ReceiveCell, pool
<1>2. PICK upto : Released(e, cell, upto)
  BY CellReleases
<1>3. /\ Arrived(e, l, cell) /\ l \in legs[e]
      /\ last_seq_delivered[e] = Len(delivered[e])
      /\ (e = "exit" => ~Renewed) /\ sent[o] # << >>
  BY <1>1, CellArrived
<1>4. /\ o \in End /\ o # e /\ Other(o) = e /\ \A f \in End : f = e \/ f = o
      /\ \/ e = "client" /\ o = "exit"
         \/ e = "exit" /\ o = "client"
  BY Ends DEF End, Other
<1>5. /\ IInv /\ wire \in WireType /\ last_seq_recv \in [End -> [Leg -> Nat]]
      /\ unacked \in [End -> [Leg -> Nat]] /\ inflight \in [End -> [Leg -> Nat]]
      /\ sent \in [End -> Seq([leg : Leg, cmd : {"DATA", "OTHER"}])]
      /\ legs \in [End -> SUBSET Leg] /\ last_seq_delivered \in [End -> Nat]
      /\ delivered \in [End -> Seq(Nat)]
  BY FlowTypes DEF FlowInv, DeliveredInOrder
<1>6. /\ c \in Cell /\ c.cmd = "SENDME" /\ ~Multiplexed(c)
      /\ answers \in Seq(Cell) /\ (answers = << >> \/ answers = <<c>>)
      /\ (answers = <<c>> => due)
  <2>1. << >> \in Seq(Cell) /\ c \in Cell
    BY EmptySeq, Commands
  <2>2. <<c>> \in Seq(Cell)
    BY <2>1
  <2> QED
    BY <2>1, <2>2 DEF Multiplexed
<1>7. due => cell.cmd = "DATA" /\ unacked[e][l] + 1 = SendmeInc
  BY DEF AckDue
<1>8. /\ cell = wire[o][l][1] /\ Multiplexed(cell) /\ cell.cmd \in {"DATA", "OTHER"}
      /\ wire[o][l] # << >> /\ wire[o][l] \in Seq(Cell)
  BY <1>1, <1>3, <1>4, <1>5 DEF Arrived, Multiplexed, Arrives, WireType
<1>9. last_seq_recv' = [last_seq_recv EXCEPT
        ![e][l] = Counted(last_seq_recv[e][l], wire[o][l][1])]
  BY <1>1, <1>8 DEF Counted
<1> HIDE DEF c, answers, due, count, cell
<1>10. TakenPut(wire', e, l, {"DATA", "OTHER"}, c, answers)
  BY <1>1, <1>5, <1>6, TakenWire
<1>11. TakenOff(wire', e, l, {"DATA", "OTHER"}, c, answers)
  BY <1>1, <1>5, <1>6, TakenCells
<1>12. FewerWires(wire', Numbers) /\ FewerWires(wire', {"LINKED"})
  <2>1. c.cmd \notin Numbers /\ c.cmd \notin {"LINKED"}
    BY <1>6 DEF Numbers
  <2> QED
    BY <1>5, <1>6, <1>10, <2>1, FewerTaken
<1>13. /\ wire'[o][l] = Tail(wire[o][l])
       /\ \A f \in End, m \in Leg : m # l => wire'[f][m] = wire[f][m]
  BY <1>10 DEF TakenPut
<1>14. /\ delivered'[o] = delivered[o] /\ ooo_q'[o] = ooo_q[o]
       /\ last_seq_delivered'[o] = last_seq_delivered[o]
       /\ delivered'[e] = [i \in 1..upto |-> i] /\ upto \in Nat
       /\ last_seq_delivered'[e] = upto /\ Len(delivered'[e]) = upto
       /\ Len(delivered[e]) <= upto /\ upto <= Len(sent[o])
       /\ delivered' \in [End -> Seq(Nat)]
  <2>1. [i \in 1..upto |-> i] \in Seq(Nat) /\ Len([i \in 1..upto |-> i]) = upto
    BY <1>2 DEF Released
  <2> QED
    BY <1>2, <1>4, <1>5, <2>1 DEF Released
<1>15. Renewed' = Renewed
  <2>1. CASE e = "client"
    BY <1>4, <1>14, <2>1 DEF Renewed
  <2>2. CASE e = "exit"
    <3>1. ~Renewed
      BY <1>3, <2>2
    <3>2. ~Renewed'
      <4>1. upto = 0 => delivered'[e] = << >>
        BY <1>14
      <4>2. last_seq_delivered'[e] = upto
        BY <1>14
      <4>3. last_seq_delivered'[e] = 0 => delivered'[e] = << >>
        BY <4>1, <4>2
      <4> QED
        BY <2>2, <4>3 DEF Renewed
    <3> QED
      BY <3>1, <3>2 DEF Renewed
  <2> QED
    BY <1>4, <2>1, <2>2
<1>16. StartsAtZero'
  <2>1. \A f \in End, m \in Leg : sent[f] = << >> =>
          last_seq_recv'[Other(f)][m] \in {last_seq_recv[Other(f)][m], 0}
    <3> SUFFICES ASSUME NEW f \in End, NEW m \in Leg, sent[f] = << >>
                 PROVE  last_seq_recv'[Other(f)][m] = last_seq_recv[Other(f)][m]
      OBVIOUS
    <3>1. f = e
      BY <1>3, <1>4
    <3> QED
      BY <1>1, <1>4, <1>5, <3>1
  <2>2. \A m \in Leg : link'[m] = link[m] \/ link'[m] = NULL
    BY <1>1
  <2> QED
    BY <1>1, <1>12, <2>1, <2>2, LinkedZeroKept, StartsKept DEF FlowInv
<1>17. DeliveredInOrder'
  <2>1. ASSUME NEW f \in End
        PROVE  /\ delivered'[f] = [i \in 1..Len(delivered'[f]) |-> i]
               /\ Len(delivered'[f]) <= Len(sent[Other(f)])
               /\ \/ last_seq_delivered'[f] = Len(delivered'[f])
                  \/ f = "exit" /\ Renewed'
               /\ \A q \in ooo_q'[f] :
                    /\ q.seq = q.no /\ q.seq > last_seq_delivered'[f] + 1
                    /\ q.no <= Len(sent[Other(f)])
    <3>1. CASE f = e
      BY <1>2, <1>14, <3>1 DEF Released
    <3>2. CASE f = o
      BY <1>14, <1>15, <3>2 DEF FlowInv, DeliveredInOrder
    <3> QED
      BY <1>4, <3>1, <3>2
  <2>2. ASSUME Renewed, NEW m \in legs["exit"]
        PROVE  /\ m \notin legs["client"]
               /\ \A i \in DOMAIN wire'["client"][m] : ~Multiplexed(wire'["client"][m][i])
    <3>1. /\ m \in Leg /\ m \notin legs["client"]
          /\ \A i \in DOMAIN wire["client"][m] : ~Multiplexed(wire["client"][m][i])
      BY <1>4, <1>5, <2>2 DEF FlowInv, DeliveredInOrder
    <3>2. PICK d \in {0, 1} : \A j \in DOMAIN wire'["client"][m] :
            wire'["client"][m][j].cmd \in Numbers =>
              /\ j \in Nat /\ j + d \in DOMAIN wire["client"][m]
              /\ wire'["client"][m][j] = wire["client"][m][j + d]
      BY <1>4, <1>12, <3>1 DEF FewerWires, FewerCells
    <3> QED
      BY <3>1, <3>2, NumbersAre
  <2>3. sent["exit"] # << >> => delivered'["exit"] # << >>
    <3>1. sent["exit"] # << >> => delivered["exit"] # << >>
      BY DEF FlowInv, DeliveredInOrder
    <3>2. CASE e = "client"
      BY <1>4, <1>14, <3>1, <3>2
    <3>3. CASE e = "exit"
      <4>1. delivered[e] \in Seq(Nat) /\ (delivered[e] # << >> => Len(delivered[e]) > 0)
        BY <1>5
      <4>2. delivered'[e] = << >> => Len(delivered'[e]) = 0
        OBVIOUS
      <4>3. Len(delivered[e]) \in Nat
        BY <4>1
      <4> QED
        BY <1>14, <3>1, <3>3, <4>1, <4>2, <4>3
    <3> QED
      BY <1>4, <3>2, <3>3
  <2> QED
    BY <1>1, <1>14, <1>15, <2>1, <2>2, <2>3 DEF DeliveredInOrder
<1>18. CurrLegLast'
  BY <1>1, <1>15 DEF FlowInv, CurrLegLast
<1>19. CellsOnce'
  BY <1>1, <1>2, <1>3, <1>4, <1>8, <1>12, <1>13, OnceReleased
<1>20. CellsNumbered'
  <2>1. "DESTROY" \notin {"DATA", "OTHER"} /\ c.cmd # "SWITCH"
    BY <1>6
  <2> QED
    BY <1>1, <1>3, <1>5, <1>6, <1>9, <1>10, <2>1, NumberedArrival DEF FlowInv
<1>21. UnreceivedBounded'
  <2> SUFFICES ASSUME NEW f \in End, NEW m \in Leg, ~TornDown'
               PROVE  IF circ'[f][m] = "closed"
                      THEN Cardinality(Unreceived(f, m)') < SendmeInc
                      ELSE inflight'[f][m] >=
                             SendmeInc * Count(wire'[Other(f)][m], "SENDME")
                               + unacked'[Other(f)][m] + Cardinality(Unreceived(f, m)')
    BY <1>1 DEF FlowInv, UnreceivedBounded
  <2> DEFINE U == Unreceived(f, m)
             V == Unreceived(f, m)'
             a == Count(wire'[Other(f)][m], "SENDME")
             b == Count(wire[Other(f)][m], "SENDME")
             data == f = o /\ m = l /\ cell.cmd = "DATA"
  <2>1. IF circ[f][m] = "closed" THEN Cardinality(U) < SendmeInc
        ELSE inflight[f][m] >= SendmeInc * b + unacked[Other(f)][m] + Cardinality(U)
    BY <1>1 DEF FlowInv, UnreceivedBounded, TornDown
  <2>2. /\ IsFiniteSet(U) /\ Cardinality(U) \in Nat /\ V \subseteq U
        /\ data => cell.no \in U /\ cell.no \notin V
    <3>1. IsFiniteSet(U) /\ Cardinality(U) \in Nat
      BY <1>5, UnreceivedFinite
    <3>2. V \subseteq U /\ (data => cell.no \in U /\ cell.no \notin V)
      BY <1>1, <1>2, <1>3, <1>4, UnreceivedLess
    <3> QED
      BY <3>1, <3>2
  <2> HIDE DEF U, V
  <2>3. /\ Cardinality(V) \in Nat /\ Cardinality(V) <= Cardinality(U)
        /\ data => Cardinality(V) + 1 <= Cardinality(U)
    <3>1. IsFiniteSet(V) /\ Cardinality(V) <= Cardinality(U)
      BY <2>2, FS_Subset
    <3>2. Cardinality(V) \in Nat
      BY <3>1, FS_CardinalityType
    <3>3. ASSUME data
          PROVE  Cardinality(V) + 1 <= Cardinality(U)
      <4>1. V \in SUBSET (U \ {cell.no})
        BY <2>2, <3>3
      <4>2. IsFiniteSet(U \ {cell.no}) /\ Cardinality(U \ {cell.no}) = Cardinality(U) - 1
        BY <2>2, <3>3, FS_RemoveElement
      <4>3. Cardinality(V) <= Cardinality(U \ {cell.no})
        BY <4>1, <4>2, FS_Subset
      <4> QED
        BY <2>2, <3>2, <4>2, <4>3
    <3> QED
      BY <3>1, <3>2, <3>3
  <2>4. Other(f) \in End /\ (Other(f) = o <=> f = e) /\ (Other(f) = e <=> f = o)
    BY <1>4, Ends
  <2>5. /\ a \in Nat /\ b \in Nat
        /\ a = b \/ (f = o /\ m = l /\ due /\ a = b + 1)
    <3>1. TakenCount(wire', e, l, c, answers, "SENDME")
      BY <1>5, <1>6, <1>11, TakenCounts
    <3>2. /\ Count(wire'[o][l], "SENDME") \in Nat
          /\ Count(wire'[o][l], "SENDME") = Count(wire[o][l], "SENDME")
      BY <1>8, <3>1 DEF TakenCount
    <3>3. /\ Count(wire'[e][l], "SENDME") \in Nat /\ Count(wire[e][l], "SENDME") \in Nat
          /\ \/ Count(wire'[e][l], "SENDME") = Count(wire[e][l], "SENDME")
             \/ due /\ Count(wire'[e][l], "SENDME") = Count(wire[e][l], "SENDME") + 1
      BY <1>6, <3>1 DEF TakenCount
    <3>4. CASE m # l
      <4>1. wire[Other(f)][m] \in Seq(Cell)
        BY <1>5, <2>4 DEF WireType
      <4> QED
        BY <1>13, <2>4, <3>4, <4>1, CountType
    <3> QED
      BY <1>4, <2>4, <3>2, <3>3, <3>4
  <2>6. SendmeInc \in Nat \ {0}
    BY ConfluxAssumption
  <2>7. inflight[f][m] \in Nat /\ unacked[Other(f)][m] \in Nat
    BY <1>5, <2>4
  <2>8. unacked'[Other(f)][m] =
          IF f = o /\ m = l THEN count ELSE unacked[Other(f)][m]
    BY <1>1, <1>4, <1>5, <2>4
  <2> HIDE DEF a, b
  <2>9. /\ SendmeInc * a \in Nat /\ SendmeInc * b \in Nat
        /\ SendmeInc * (b + 1) = SendmeInc * b + SendmeInc
    BY <2>5, <2>6, TimesMore
  <2>10. CASE circ[f][m] = "closed"
    BY <1>1, <2>1, <2>2, <2>3, <2>6, <2>10 DEF V
  <2>11. CASE circ[f][m] # "closed" /\ f = o /\ m = l /\ due
    <3>1. /\ cell.cmd = "DATA" /\ unacked[Other(f)][m] + 1 = SendmeInc
          /\ unacked'[Other(f)][m] = 0
      BY <1>4, <1>7, <2>8, <2>11 DEF count
    <3>2. SendmeInc * a <= SendmeInc * b + SendmeInc
      BY <2>5, <2>6, <2>9
    <3>3. inflight[f][m] >= SendmeInc * a + 0 + Cardinality(V)
      BY <2>1, <2>2, <2>3, <2>6, <2>7, <2>9, <2>11, <3>1, <3>2
    <3> QED
      BY <1>1, <2>11, <3>1, <3>3 DEF V, a
  <2>12. CASE circ[f][m] # "closed" /\ ~(f = o /\ m = l /\ due)
    <3>1. a = b
      BY <2>5, <2>12
    <3>2. unacked'[Other(f)][m] = unacked[Other(f)][m] + (IF data THEN 1 ELSE 0)
      BY <1>4, <2>7, <2>8, <2>12 DEF count
    <3>3. inflight[f][m] >= SendmeInc * b + unacked'[Other(f)][m] + Cardinality(V)
      BY <2>1, <2>2, <2>3, <2>7, <2>9, <2>12, <3>2
    <3> QED
      BY <1>1, <2>12, <3>1, <3>3 DEF V, a
  <2> QED
    BY <2>10, <2>11, <2>12
<1> QED
  BY <1>16, <1>17, <1>18, <1>19, <1>20, <1>21 DEF FlowInv

-----------------------------------------------------------------------------
(* Cells are sent *)

\* A wire with d at its end, behind s perhaps.
Extended(r, w, s, d) ==
  \A i \in DOMAIN r : \/ i \in DOMAIN w /\ r[i] = w[i]
                      \/ r[i] = s
                      \/ i = Len(r) /\ r[i] = d

\* So is a wire that one cell or two were put on.
LEMMA ExtendedWire ==
  ASSUME NEW w \in Seq(Cell), NEW s \in Cell, NEW d \in Cell,
         NEW r, r = w \o <<d>> \/ r = (w \o <<s>>) \o <<d>>
  PROVE  Extended(r, w, s, d)
<1>1. ASSUME NEW v \in Seq(Cell), NEW c \in Cell
      PROVE  /\ v \o <<c>> \in Seq(Cell) /\ Len(v \o <<c>>) = Len(v) + 1
             /\ \A i \in DOMAIN (v \o <<c>>) :
                  \/ i \in DOMAIN v /\ (v \o <<c>>)[i] = v[i]
                  \/ i = Len(v \o <<c>>) /\ (v \o <<c>>)[i] = c
  <2>1. /\ Len(v) \in Nat /\ DOMAIN v = 1..Len(v)
        /\ DOMAIN (v \o <<c>>) = 1..(Len(v) + 1)
        /\ \A i \in 1..Len(v) : (v \o <<c>>)[i] = v[i]
        /\ (v \o <<c>>)[Len(v) + 1] = c
    BY <1>1, AppendedCell
  <2>2. v \o <<c>> \in Seq(Cell) /\ Len(v \o <<c>>) = Len(v) + 1
    BY <1>1
  <2> QED
    BY <2>1, <2>2
<1>2. CASE r = w \o <<d>>
  BY <1>1, <1>2 DEF Extended
<1>3. CASE r = (w \o <<s>>) \o <<d>>
  <2> DEFINE v == w \o <<s>>
  <2>1. /\ v \in Seq(Cell)
        /\ \A i \in DOMAIN v : \/ i \in DOMAIN w /\ v[i] = w[i]
                               \/ v[i] = s
    BY <1>1
  <2> HIDE DEF v
  <2>2. \A i \in DOMAIN (v \o <<d>>) :
          \/ i \in DOMAIN v /\ (v \o <<d>>)[i] = v[i]
          \/ i = Len(v \o <<d>>) /\ (v \o <<d>>)[i] = d
    BY <1>1, <2>1
  <2>3. r = v \o <<d>>
    BY <1>3 DEF v
  <2>4. \A i \in DOMAIN r : \/ i \in DOMAIN v /\ r[i] = v[i]
                            \/ i = Len(r) /\ r[i] = d
    BY <2>2, <2>3
  <2> QED
    BY <2>1, <2>4 DEF Extended
<1> QED
  BY <1>2, <1>3

\* On the wire w comes d, the cell after n others, behind a SWITCH s for the ones
\* that went elsewhere, if there are any.
SentBehind(seq, n, w, s, d, r) ==
  /\ seq \in Nat /\ n \in Nat /\ w \in Seq(Cell) /\ Numbered(seq, w)
  /\ d \in Cell /\ Multiplexed(d) /\ d.no = n + 1
  /\ s \in Cell /\ s.cmd = "SWITCH" /\ s.relative_seq = n - Total(seq, w)
  /\ \/ r = w \o <<d>> /\ Total(seq, w) = n
     \/ r = (w \o <<s>>) \o <<d>>

\* Then it is counted right.
LEMMA ExtendedNumbered ==
  ASSUME NEW seq, NEW n, NEW w, NEW s, NEW d, NEW r, SentBehind(seq, n, w, s, d, r)
  PROVE  Numbered(seq, r) /\ Total(seq, r) = n + 1
<1> USE DEF SentBehind
<1>1. Total(seq, w) \in Nat
  <2>1. Counting(seq, w) \in [0..Len(w) -> Nat] /\ Len(w) \in 0..Len(w)
    BY CountingSteps
  <2> QED
    BY <2>1 DEF Total
<1>2. Counted(n, d) = n + 1
  BY DEF Counted
<1>3. CASE r = w \o <<d>> /\ Total(seq, w) = n
  BY <1>2, <1>3, NumberedAppended
<1>4. CASE r = (w \o <<s>>) \o <<d>>
  <2>1. ~Multiplexed(s) /\ Counted(Total(seq, w), s) = n
    BY <1>1 DEF Multiplexed, Counted
  <2>2. Numbered(seq, w \o <<s>>) /\ Total(seq, w \o <<s>>) = n
    BY <2>1, NumberedAppended
  <2>3. w \o <<s>> \in Seq(Cell)
    OBVIOUS
  <2> DEFINE v == w \o <<s>>
  <2> HIDE DEF v
  <2>4. Numbered(seq, v \o <<d>>) /\ Total(seq, v \o <<d>>) = Counted(n, d)
    BY <2>2, <2>3, NumberedAppended DEF v
  <2> QED
    BY <1>2, <1>4, <2>4 DEF v
<1> QED
  BY <1>3, <1>4

\* What sending a cell does: it goes on the leg curr, behind a SWITCH s if the
\* leg before was another.
SentOn(e, cmd, curr, s, d) ==
  /\ curr \in Leg /\ curr \in legs[e] /\ circ[e][curr] = "open"
  /\ circ[Other(e)][curr] = "open" => curr \in legs[Other(e)]
  /\ e = "exit" => ~Renewed /\ last_seq_delivered["exit"] > 0
  /\ s \in Cell /\ s.cmd = "SWITCH"
  /\ s.relative_seq = Len(sent[e]) - last_seq_sent[e][curr]
  /\ d \in Cell /\ d.cmd = cmd /\ d.no = Len(sent[e]) + 1
  /\ curr_leg' = [curr_leg EXCEPT ![e] = curr]
  /\ last_seq_sent' = [last_seq_sent EXCEPT ![e][curr] = Len(sent[e]) + 1]
  /\ inflight' = [inflight EXCEPT
                    ![e][curr] = inflight[e][curr] + (IF cmd = "DATA" THEN 1 ELSE 0)]
  /\ sent' = [sent EXCEPT ![e] = Append(sent[e], [leg |-> curr, cmd |-> cmd])]
  /\ \A f \in End, m \in Leg : f # e \/ m # curr => wire'[f][m] = wire[f][m]
  /\ \/ /\ wire'[e][curr] = wire[e][curr]
        /\ circ[Other(e)][curr] # "open" \/ Broken(wire[e][curr])
     \/ /\ wire'[e][curr] = wire[e][curr] \o <<d>>
        /\ last_seq_sent[e][curr] = Len(sent[e])
        /\ circ[Other(e)][curr] = "open" /\ ~Broken(wire[e][curr])
     \/ /\ wire'[e][curr] = (wire[e][curr] \o <<s>>) \o <<d>>
        /\ circ[Other(e)][curr] = "open" /\ ~Broken(wire[e][curr])
  /\ UNCHANGED <<circ, unlinked, link, legs, last_seq_recv, unacked,
                 last_seq_delivered, ooo_q, delivered>>

\* Send does that: the leg before has sent the last cell.
LEMMA SendSends ==
  ASSUME FlowInv, NEW e \in End, NEW cmd \in {"DATA", "OTHER"}, Send(e, cmd)
  PROVE  \E curr, s, d : SentOn(e, cmd, curr, s, d)
<1> DEFINE o == Other(e)
<1>1. PICK prev \in FirstLegs(e) : \E curr \in NextLegs(e, prev, cmd) :
        /\ curr_leg' = [curr_leg EXCEPT ![e] = curr]
        /\ last_seq_sent' =
             [last_seq_sent EXCEPT ![e][curr] = last_seq_sent[e][prev] + 1]
        /\ wire' = Put(wire, e, curr, Switch(e, prev, curr)
                         \o << [cmd |-> cmd, no |-> Len(sent[e]) + 1] >>)
        /\ inflight' = [inflight EXCEPT ![e][curr] = IF cmd = "DATA" THEN @ + 1 ELSE @]
        /\ sent' = [sent EXCEPT ![e] = Append(@, [leg |-> curr, cmd |-> cmd])]
  BY DEF Send
<1>2. PICK curr \in NextLegs(e, prev, cmd) :
        /\ curr_leg' = [curr_leg EXCEPT ![e] = curr]
        /\ last_seq_sent' =
             [last_seq_sent EXCEPT ![e][curr] = last_seq_sent[e][prev] + 1]
        /\ wire' = Put(wire, e, curr, Switch(e, prev, curr)
                         \o << [cmd |-> cmd, no |-> Len(sent[e]) + 1] >>)
        /\ inflight' = [inflight EXCEPT ![e][curr] = IF cmd = "DATA" THEN @ + 1 ELSE @]
        /\ sent' = [sent EXCEPT ![e] = Append(@, [leg |-> curr, cmd |-> cmd])]
  BY <1>1
<1>3. /\ legs[e] # {} /\ (e = "exit" => last_seq_delivered["exit"] > 0)
      /\ UNCHANGED <<circ, unlinked, link, legs, last_seq_recv, unacked,
                     last_seq_delivered, ooo_q, delivered>>
  BY DEF Send, MaySend, pool
<1>4. /\ o \in End /\ o # e /\ Other(o) = e
      /\ \/ e = "client" /\ o = "exit"
         \/ e = "exit" /\ o = "client"
      /\ "client" \in End /\ "exit" \in End
  BY Ends DEF End, Other
<1>5. /\ IInv /\ wire \in WireType /\ last_seq_sent \in [End -> [Leg -> Nat]]
      /\ inflight \in [End -> [Leg -> Nat]]
      /\ legs[e] \subseteq Leg /\ measured[e] \subseteq legs[e]
      /\ curr_leg[e] \in legs[e] \cup {NULL}
      /\ sent \in [End -> Seq([leg : Leg, cmd : {"DATA", "OTHER"}])]
  <2>1. IInv
    BY DEF FlowInv
  <2> QED
    BY <2>1, FlowTypes DEF IInv, TypeOK
<1>6. /\ prev \in legs[e] /\ prev \in Leg /\ curr \in legs[e] /\ curr \in Leg
      /\ circ[e][curr] = "open"
  <2>1. prev \in legs[e]
    BY <1>3, <1>5 DEF FirstLegs
  <2>2. curr \in legs[e]
    BY <1>5, <2>1 DEF NextLegs
  <2> QED
    BY <1>5, <2>1, <2>2 DEF IInv, TypeOK
<1>7. e = "exit" => ~Renewed /\ last_seq_delivered["exit"] > 0
  BY <1>3 DEF Renewed
<1>8. last_seq_sent[e][prev] = Len(sent[e])
  <2>1. CASE curr_leg[e] = NULL
    <3>1. sent[e] = << >>
      BY <1>3, <1>7, <2>1 DEF FlowInv, CurrLegLast
    <3>2. Len(sent[e]) = 0 /\ last_seq_sent[e][prev] = 0
      BY <1>5, <1>6, <3>1 DEF IInv, SendersFirst
    <3> QED
      BY <3>2
  <2>2. CASE curr_leg[e] # NULL
    <3>1. prev = curr_leg[e]
      BY <2>2 DEF FirstLegs
    <3> QED
      BY <2>2, <3>1 DEF FlowInv, CurrLegLast
  <2> QED
    BY <2>1, <2>2
<1>9. \A l \in legs[e] : last_seq_sent[e][prev] >= last_seq_sent[e][l]
  <2> SUFFICES ASSUME NEW l \in legs[e]
               PROVE  last_seq_sent[e][prev] >= last_seq_sent[e][l]
    OBVIOUS
  <2>1. last_seq_sent[e][prev] \in Nat /\ last_seq_sent[e][l] \in Nat
    BY <1>5, <1>6
  <2>2. CASE curr_leg[e] = NULL
    BY <1>5, <1>6, <2>1, <2>2 DEF IInv, LegsCounted
  <2>3. CASE curr_leg[e] # NULL
    <3>1. prev = curr_leg[e]
      BY <2>3 DEF FirstLegs
    <3> QED
      BY <1>5, <2>1, <2>3, <3>1 DEF IInv, CurrLegAhead, RelativeSeq
  <2> QED
    BY <2>2, <2>3
<1> DEFINE s == [cmd |-> "SWITCH", relative_seq |->
                   Len(sent[e]) - last_seq_sent[e][curr]]
           d == [cmd |-> cmd, no |-> Len(sent[e]) + 1]
           cells == Switch(e, prev, curr) \o <<d>>
<1>10. /\ s \in Cell /\ s.cmd = "SWITCH"
       /\ s.relative_seq = Len(sent[e]) - last_seq_sent[e][curr]
       /\ d \in Cell /\ d.cmd = cmd /\ d.no = Len(sent[e]) + 1
  <2>1. Len(sent[e]) - last_seq_sent[e][curr] \in Nat
    BY <1>5, <1>6, <1>8, <1>9
  <2>2. Len(sent[e]) + 1 \in Nat
    BY <1>5
  <2> QED
    BY <2>1, <2>2 DEF Cell
<1>11. \/ cells = << >> \o <<d>> /\ last_seq_sent[e][curr] = Len(sent[e])
       \/ cells = <<s>> \o <<d>>
  BY <1>8 DEF Switch, RelativeSeq
<1>12. wire' = Put(wire, e, curr, cells)
  BY <1>2
<1> HIDE DEF s, d, cells
<1>13. /\ wire[e][curr] \in Seq(Cell) /\ cells \in Seq(Cell)
       /\ \/ /\ wire[e][curr] \o cells = wire[e][curr] \o <<d>>
             /\ last_seq_sent[e][curr] = Len(sent[e])
          \/ wire[e][curr] \o cells = (wire[e][curr] \o <<s>>) \o <<d>>
  <2>1. wire[e][curr] \in Seq(Cell)
    BY <1>5, <1>6 DEF WireType
  <2>2. <<s>> \in Seq(Cell) /\ <<d>> \in Seq(Cell)
    BY <1>10
  <2>3. << >> \o <<d>> = <<d>> /\ <<s>> \o <<d>> \in Seq(Cell)
    BY <2>2, ConcatEmptySeq
  <2>4. wire[e][curr] \o (<<s>> \o <<d>>) = (wire[e][curr] \o <<s>>) \o <<d>>
    BY <2>1, <2>2, ConcatAssociative
  <2> QED
    BY <1>11, <2>1, <2>2, <2>3, <2>4
<1>14. /\ \A f \in End, m \in Leg : f # e \/ m # curr => wire'[f][m] = wire[f][m]
       /\ \/ /\ wire'[e][curr] = wire[e][curr]
             /\ circ[o][curr] # "open" \/ Broken(wire[e][curr])
          \/ /\ circ[o][curr] = "open" /\ ~Broken(wire[e][curr])
             /\ wire'[e][curr] = wire[e][curr] \o cells
  <2>1. /\ \A f \in End, m \in Leg : f # e \/ m # curr =>
             Put(wire, e, curr, cells)[f][m] = wire[f][m]
        /\ \/ Put(wire, e, curr, cells)[e][curr] = wire[e][curr]
           \/ /\ circ[Other(e)][curr] = "open" /\ ~Broken(wire[e][curr])
              /\ Put(wire, e, curr, cells)[e][curr] = wire[e][curr] \o cells
        /\ circ[Other(e)][curr] = "open" /\ ~Broken(wire[e][curr]) =>
             Put(wire, e, curr, cells)[e][curr] = wire[e][curr] \o cells
    <3>1. wire \in WireType /\ curr \in Leg /\ cells \in Seq(Cell)
      BY <1>5, <1>6, <1>13
    <3> QED
      BY <3>1, PutWire
  <2> QED
    BY <1>12, <2>1
<1>15. circ[o][curr] = "open" => curr \in legs[o]
  <2>1. CASE e = "client"
    BY <1>4, <1>5, <1>6, <2>1 DEF IInv, LinkCells, LegLinks
  <2>2. CASE e = "exit"
    <3>1. sent["client"] # << >>
      BY <1>3, <1>4, <1>5, <2>2, Ends DEF IInv, SendersFirst
    <3> QED
      BY <1>4, <1>5, <1>6, <2>2, <3>1 DEF IInv, CircuitsInSets
  <2> QED
    BY <2>1, <2>2 DEF End
<1>16. /\ curr_leg' = [curr_leg EXCEPT ![e] = curr]
       /\ last_seq_sent' = [last_seq_sent EXCEPT ![e][curr] = Len(sent[e]) + 1]
       /\ inflight' = [inflight EXCEPT
            ![e][curr] = inflight[e][curr] + (IF cmd = "DATA" THEN 1 ELSE 0)]
       /\ sent' = [sent EXCEPT ![e] = Append(sent[e], [leg |-> curr, cmd |-> cmd])]
  <2>1. inflight[e][curr] \in Nat
    BY <1>5, <1>6
  <2>2. inflight' = [inflight EXCEPT
          ![e][curr] = IF cmd = "DATA" THEN inflight[e][curr] + 1 ELSE inflight[e][curr]]
    BY <1>2
  <2>3. (IF cmd = "DATA" THEN inflight[e][curr] + 1 ELSE inflight[e][curr])
          = inflight[e][curr] + (IF cmd = "DATA" THEN 1 ELSE 0)
    BY <2>1
  <2>4. inflight' = [inflight EXCEPT
          ![e][curr] = inflight[e][curr] + (IF cmd = "DATA" THEN 1 ELSE 0)]
    BY <2>2, <2>3, Zenon
  <2> QED
    BY <1>2, <1>8, <2>4
<1>17. SentOn(e, cmd, curr, s, d)
  BY <1>3, <1>6, <1>7, <1>10, <1>13, <1>14, <1>15, <1>16 DEF SentOn
<1> QED
  BY <1>17

\* What was sent, and the wire it was sent on.
LEMMA SentState ==
  ASSUME FlowInv, NEW e \in End, NEW cmd \in {"DATA", "OTHER"},
         NEW curr, NEW s, NEW d, SentOn(e, cmd, curr, s, d)
  PROVE  /\ Extended(wire'[e][curr], wire[e][curr], s, d)
         /\ Multiplexed(d) /\ ~Multiplexed(s)
         /\ sent' \in [End -> Seq([leg : Leg, cmd : {"DATA", "OTHER"}])]
         /\ Len(sent[e]) \in Nat /\ Len(sent'[e]) = Len(sent[e]) + 1
         /\ sent'[e][Len(sent[e]) + 1] = [leg |-> curr, cmd |-> cmd]
         /\ \A i \in 1..Len(sent[e]) : sent'[e][i] = sent[e][i]
         /\ \A f \in End : f # e => sent'[f] = sent[f]
<1>1. IInv /\ curr \in Leg
  BY DEF FlowInv, SentOn
<1>2. /\ wire[e][curr] \in Seq(Cell) /\ sent[e] \in Seq([leg : Leg, cmd : {"DATA", "OTHER"}])
      /\ last_seq_sent \in [End -> [Leg -> Nat]] /\ inflight \in [End -> [Leg -> Nat]]
      /\ sent \in [End -> Seq([leg : Leg, cmd : {"DATA", "OTHER"}])]
  <2>1. /\ wire \in [End -> [Leg -> Seq(Cell)]]
        /\ sent \in [End -> Seq([leg : Leg, cmd : {"DATA", "OTHER"}])]
        /\ last_seq_sent \in [End -> [Leg -> Nat]] /\ inflight \in [End -> [Leg -> Nat]]
    BY <1>1, FlowTypes
  <2> QED
    BY <1>1, <2>1
<1>3. Extended(wire'[e][curr], wire[e][curr], s, d)
  <2>1. CASE wire'[e][curr] = wire[e][curr]
    BY <2>1 DEF Extended
  <2>2. CASE \/ wire'[e][curr] = wire[e][curr] \o <<d>>
             \/ wire'[e][curr] = (wire[e][curr] \o <<s>>) \o <<d>>
    BY <1>2, <2>2, ExtendedWire DEF SentOn
  <2> QED
    BY <2>1, <2>2 DEF SentOn
<1>4. Multiplexed(d) /\ ~Multiplexed(s)
  BY DEF SentOn, Multiplexed
<1> DEFINE T == [leg : Leg, cmd : {"DATA", "OTHER"}]
           x == [leg |-> curr, cmd |-> cmd]
<1>5. x \in T /\ sent[e] \in Seq(T) /\ sent \in [End -> Seq(T)]
      /\ sent' = [sent EXCEPT ![e] = Append(sent[e], x)]
  BY <1>1, <1>2 DEF SentOn
<1> HIDE DEF T, x
<1>6. /\ Append(sent[e], x) \in Seq(T) /\ Len(sent[e]) \in Nat
      /\ Len(Append(sent[e], x)) = Len(sent[e]) + 1
      /\ Append(sent[e], x)[Len(sent[e]) + 1] = x
      /\ \A i \in 1..Len(sent[e]) : Append(sent[e], x)[i] = sent[e][i]
  BY <1>5
<1>7. /\ sent' \in [End -> Seq(T)] /\ sent'[e] = Append(sent[e], x)
      /\ \A f \in End : f # e => sent'[f] = sent[f]
  BY <1>5, <1>6
<1> QED
  BY <1>3, <1>4, <1>6, <1>7 DEF T, x

\* What was counted.
LEMMA SentCounters ==
  ASSUME FlowInv, NEW e \in End, NEW cmd \in {"DATA", "OTHER"},
         NEW curr, NEW s, NEW d, SentOn(e, cmd, curr, s, d)
  PROVE  \A f \in End, m \in Leg :
           /\ last_seq_sent'[f][m] = IF f = e /\ m = curr THEN Len(sent[e]) + 1
                                     ELSE last_seq_sent[f][m]
           /\ inflight'[f][m] = IF f = e /\ m = curr
                                THEN inflight[e][curr] + (IF cmd = "DATA" THEN 1 ELSE 0)
                                ELSE inflight[f][m]
<1>1. IInv
  BY DEF FlowInv
<1>2. last_seq_sent \in [End -> [Leg -> Nat]] /\ inflight \in [End -> [Leg -> Nat]]
  BY <1>1, FlowTypes
<1> QED
  BY <1>2 DEF SentOn

\* The cell sent has a number no other has.
LEMMA OnceSent ==
  ASSUME FlowInv, NEW e \in End, NEW cmd \in {"DATA", "OTHER"},
         NEW curr, NEW s, NEW d, SentOn(e, cmd, curr, s, d)
  PROVE  CellsOnce'
<1> DEFINE n == Len(sent[e])
           o == Other(e)
<1>1. /\ Extended(wire'[e][curr], wire[e][curr], s, d)
      /\ Multiplexed(d) /\ ~Multiplexed(s)
      /\ n \in Nat /\ Len(sent'[e]) = n + 1
      /\ sent'[e][n + 1] = [leg |-> curr, cmd |-> cmd]
      /\ \A i \in 1..n : sent'[e][i] = sent[e][i]
      /\ \A f \in End : f # e => sent'[f] = sent[f]
  BY SentState
<1>2. /\ curr \in Leg /\ d.cmd = cmd /\ d.no = n + 1
      /\ delivered' = delivered /\ ooo_q' = ooo_q
      /\ \A f \in End, m \in Leg : f # e \/ m # curr => wire'[f][m] = wire[f][m]
  BY DEF SentOn
<1>3. o \in End /\ Other(o) = e /\ \A f \in End : f = e \/ f = o
  BY Ends
<1>4. /\ Len(delivered[o]) \in Nat /\ Len(delivered[o]) <= n
      /\ \A c \in ooo_q[o] : c.no <= n
  <2>1. /\ delivered[o] \in Seq(Nat) /\ Len(delivered[o]) <= n
        /\ \A c \in ooo_q[o] : c.no <= n
    BY <1>3 DEF FlowInv, DeliveredInOrder
  <2> QED
    BY <2>1
<1>5. \A c \in ooo_q[o] : c.no \in Nat
  <2>1. IInv
    BY DEF FlowInv
  <2>2. ooo_q \in [End -> SUBSET [seq : Nat, no : Nat]]
    BY <2>1, FlowTypes
  <2> QED
    BY <1>3, <2>2
<1>6. ASSUME NEW f \in End, NEW l \in Leg, NEW i \in DOMAIN wire[f][l],
             Multiplexed(wire[f][l][i])
      PROVE  /\ wire[f][l][i].no \in (Len(delivered[Other(f)]) + 1)..Len(sent[f])
             /\ sent[f][wire[f][l][i].no] = [leg |-> l, cmd |-> wire[f][l][i].cmd]
             /\ \A c \in ooo_q[Other(f)] : c.no # wire[f][l][i].no
             /\ \A j \in DOMAIN wire[f][l] :
                  Multiplexed(wire[f][l][j]) /\ wire[f][l][j].no = wire[f][l][i].no => j = i
  <2>1. CellsOnce
    BY DEF FlowInv
  <2> QED
    BY <1>6, <2>1 DEF CellsOnce
<1> HIDE DEF n, o
<1>7. ASSUME NEW i \in DOMAIN wire[e][curr], Multiplexed(wire[e][curr][i])
      PROVE  /\ wire[e][curr][i].no \in (Len(delivered[o]) + 1)..n
             /\ wire[e][curr][i].no \in 1..n /\ wire[e][curr][i].no # n + 1
  <2>1. wire[e][curr][i].no \in (Len(delivered[o]) + 1)..n
    BY <1>2, <1>6, <1>7 DEF n, o
  <2> QED
    BY <1>1, <1>4, <2>1
<1>8. ASSUME NEW i \in DOMAIN wire'[e][curr], Multiplexed(wire'[e][curr][i])
      PROVE  /\ wire'[e][curr][i].no \in (Len(delivered[o]) + 1)..(n + 1)
             /\ sent'[e][wire'[e][curr][i].no] = [leg |-> curr, cmd |-> wire'[e][curr][i].cmd]
             /\ \A c \in ooo_q[o] : c.no # wire'[e][curr][i].no
             /\ \A j \in DOMAIN wire'[e][curr] :
                  Multiplexed(wire'[e][curr][j]) /\ wire'[e][curr][j].no = wire'[e][curr][i].no
                    => j = i
  <2>1. CASE i \in DOMAIN wire[e][curr] /\ wire'[e][curr][i] = wire[e][curr][i]
    <3> DEFINE c == wire[e][curr][i]
    <3>1. /\ c.no \in (Len(delivered[o]) + 1)..n /\ c.no \in 1..n /\ c.no # n + 1
      BY <1>7, <1>8, <2>1
    <3>2. /\ sent[e][c.no] = [leg |-> curr, cmd |-> c.cmd]
          /\ \A q \in ooo_q[o] : q.no # c.no
          /\ \A j \in DOMAIN wire[e][curr] :
               Multiplexed(wire[e][curr][j]) /\ wire[e][curr][j].no = c.no => j = i
      BY <1>2, <1>6, <1>8, <2>1 DEF o
    <3> HIDE DEF c
    <3>3. ASSUME NEW j \in DOMAIN wire'[e][curr], Multiplexed(wire'[e][curr][j]),
                 wire'[e][curr][j].no = c.no
          PROVE  j = i
      <4>1. wire'[e][curr][j] # s /\ wire'[e][curr][j] # d
        BY <1>1, <1>2, <3>1, <3>3
      <4>2. j \in DOMAIN wire[e][curr] /\ wire'[e][curr][j] = wire[e][curr][j]
        BY <1>1, <4>1 DEF Extended
      <4> QED
        BY <3>2, <3>3, <4>2
    <3>4. c.no \in (Len(delivered[o]) + 1)..(n + 1)
      BY <1>1, <1>4, <3>1
    <3>5. sent'[e][c.no] = [leg |-> curr, cmd |-> c.cmd]
      BY <1>1, <3>1, <3>2
    <3>6. wire'[e][curr][i] = c
      BY <2>1 DEF c
    <3> QED
      BY <3>2, <3>3, <3>4, <3>5, <3>6
  <2>2. CASE i = Len(wire'[e][curr]) /\ wire'[e][curr][i] = d
    <3>1. ASSUME NEW j \in DOMAIN wire'[e][curr], Multiplexed(wire'[e][curr][j]),
                 wire'[e][curr][j].no = n + 1
          PROVE  j = i
      <4>1. ~(j \in DOMAIN wire[e][curr] /\ wire'[e][curr][j] = wire[e][curr][j])
        BY <1>7, <3>1
      <4>2. wire'[e][curr][j] # s
        BY <1>1, <3>1
      <4> QED
        BY <1>1, <2>2, <4>1, <4>2 DEF Extended
    <3>2. \A c \in ooo_q[o] : c.no # n + 1
      BY <1>1, <1>4, <1>5
    <3>3. n + 1 \in (Len(delivered[o]) + 1)..(n + 1)
      BY <1>1, <1>4
    <3> QED
      BY <1>1, <1>2, <2>2, <3>1, <3>2, <3>3
  <2>3. wire'[e][curr][i] # s
    BY <1>1, <1>8
  <2> QED
    BY <1>1, <2>1, <2>2, <2>3 DEF Extended
<1>9. ASSUME NEW f \in End, NEW l \in Leg, NEW i \in DOMAIN wire'[f][l],
             Multiplexed(wire'[f][l][i])
      PROVE  /\ wire'[f][l][i].no \in (Len(delivered[Other(f)]) + 1)..Len(sent'[f])
             /\ sent'[f][wire'[f][l][i].no] = [leg |-> l, cmd |-> wire'[f][l][i].cmd]
             /\ \A c \in ooo_q[Other(f)] : c.no # wire'[f][l][i].no
             /\ \A j \in DOMAIN wire'[f][l] :
                  Multiplexed(wire'[f][l][j]) /\ wire'[f][l][j].no = wire'[f][l][i].no => j = i
  <2>1. CASE f = e /\ l = curr
    BY <1>1, <1>8, <1>9, <2>1 DEF o
  <2>2. CASE f = e /\ l # curr
    <3>1. wire'[e][l] = wire[e][l]
      BY <1>2, <2>2
    <3> DEFINE c == wire[e][l][i]
    <3>2. /\ c.no \in (Len(delivered[o]) + 1)..n
          /\ sent[e][c.no] = [leg |-> l, cmd |-> c.cmd]
          /\ \A q \in ooo_q[o] : q.no # c.no
          /\ \A j \in DOMAIN wire[e][l] :
               Multiplexed(wire[e][l][j]) /\ wire[e][l][j].no = c.no => j = i
      BY <1>6, <1>9, <2>2, <3>1 DEF o, n
    <3> HIDE DEF c
    <3>3. c.no \in 1..n /\ c.no \in (Len(delivered[o]) + 1)..(n + 1)
      BY <1>1, <1>4, <3>2
    <3>4. wire'[e][l][i] = c
      BY <3>1 DEF c
    <3> QED
      BY <1>1, <2>2, <3>1, <3>2, <3>3, <3>4 DEF o
  <2>3. CASE f # e
    <3>1. wire'[f][l] = wire[f][l] /\ sent'[f] = sent[f]
      BY <1>1, <1>2, <2>3
    <3> QED
      BY <1>6, <1>9, <3>1
  <2> QED
    BY <2>1, <2>2, <2>3
<1> QED
  BY <1>2, <1>9 DEF CellsOnce

\* The SWITCH counts what the leg missed, so its wire stays numbered.
LEMMA NumberedSent ==
  ASSUME FlowInv, NEW e \in End, NEW cmd \in {"DATA", "OTHER"},
         NEW curr, NEW s, NEW d, SentOn(e, cmd, curr, s, d)
  PROVE  CellsNumbered'
<1> DEFINE n == Len(sent[e])
           o == Other(e)
           seq == last_seq_recv[o][curr]
           w == wire[e][curr]
           r == wire'[e][curr]
<1>1. /\ Multiplexed(d) /\ n \in Nat
      /\ \A f \in End, m \in Leg :
           last_seq_sent'[f][m] = IF f = e /\ m = curr THEN n + 1
                                  ELSE last_seq_sent[f][m]
  <2>1. Multiplexed(d) /\ n \in Nat
    BY SentState
  <2>2. \A f \in End, m \in Leg :
          last_seq_sent'[f][m] = IF f = e /\ m = curr THEN n + 1
                                 ELSE last_seq_sent[f][m]
    BY SentCounters
  <2> QED
    BY <2>1, <2>2
<1>2. /\ curr \in Leg /\ curr \in legs[e] /\ s \in Cell /\ s.cmd = "SWITCH"
      /\ s.relative_seq = n - last_seq_sent[e][curr]
      /\ d \in Cell /\ d.no = n + 1
      /\ \A f \in End, m \in Leg : f # e \/ m # curr => wire'[f][m] = wire[f][m]
      /\ \/ r = w /\ (circ[o][curr] # "open" \/ Broken(w))
         \/ r = w \o <<d>> /\ last_seq_sent[e][curr] = n /\ ~Broken(w)
         \/ r = (w \o <<s>>) \o <<d>> /\ ~Broken(w)
      /\ legs' = legs /\ last_seq_recv' = last_seq_recv
  BY DEF SentOn
<1>3. /\ o \in End /\ IInv /\ last_seq_recv \in [End -> [Leg -> Nat]]
      /\ wire \in [End -> [Leg -> Seq(Cell)]]
  <2>1. IInv
    BY DEF FlowInv
  <2> QED
    BY <2>1, FlowTypes, Ends
<1>4. curr \in legs[o] => circ[o][curr] = "open"
  BY <1>3 DEF IInv, TypeOK
<1>5. \A f \in End, m \in Leg : m \in legs[Other(f)] =>
        /\ Numbered(last_seq_recv[Other(f)][m], wire[f][m])
        /\ m \in legs[f] /\ ~Broken(wire[f][m]) =>
             Total(last_seq_recv[Other(f)][m], wire[f][m]) = last_seq_sent[f][m]
  BY NumberedCells DEF FlowInv
<1>6. ASSUME curr \in legs[o]
      PROVE  Numbered(seq, r) /\ (~Broken(r) => Total(seq, r) = n + 1)
  <2>1. /\ Numbered(seq, w) /\ (~Broken(w) => Total(seq, w) = last_seq_sent[e][curr])
        /\ seq \in Nat /\ w \in Seq(Cell)
    BY <1>2, <1>3, <1>5, <1>6
  <2>2. CASE r = w /\ Broken(w)
    BY <2>1, <2>2
  <2>3. CASE /\ ~Broken(w)
             /\ \/ r = w \o <<d>> /\ last_seq_sent[e][curr] = n
                \/ r = (w \o <<s>>) \o <<d>>
    <3>1. /\ Total(seq, w) = last_seq_sent[e][curr]
          /\ s.relative_seq = n - Total(seq, w)
      BY <1>2, <2>1, <2>3
    <3> HIDE DEF n, seq, w, r
    <3>2. \/ r = w \o <<d>> /\ Total(seq, w) = n
          \/ r = (w \o <<s>>) \o <<d>>
      BY <2>3, <3>1
    <3> QED
      <4>1. SentBehind(seq, n, w, s, d, r)
        BY <1>1, <1>2, <2>1, <3>1, <3>2 DEF SentBehind
      <4>2. Numbered(seq, r) /\ Total(seq, r) = n + 1
        BY <4>1, ExtendedNumbered
      <4> QED
        BY <4>2
  <2> QED
    BY <1>2, <1>4, <1>6, <2>2, <2>3
<1>7. ASSUME NEW f \in End, NEW m \in Leg, m \in legs'[Other(f)]
      PROVE  /\ Numbered(last_seq_recv'[Other(f)][m], wire'[f][m])
             /\ m \in legs'[f] /\ ~Broken(wire'[f][m]) =>
                  Total(last_seq_recv'[Other(f)][m], wire'[f][m]) = last_seq_sent'[f][m]
  <2>1. CASE f = e /\ m = curr
    <3>1. last_seq_sent'[e][curr] = n + 1
      BY <1>1, <1>2
    <3> QED
      BY <1>2, <1>6, <1>7, <2>1, <3>1
  <2>2. CASE f # e \/ m # curr
    <3>1. /\ wire'[f][m] = wire[f][m] /\ last_seq_sent'[f][m] = last_seq_sent[f][m]
          /\ m \in legs[Other(f)]
      BY <1>1, <1>2, <1>7, <2>2
    <3> QED
      BY <1>2, <1>5, <3>1
  <2> QED
    BY <2>1, <2>2
<1> QED
  BY <1>7, NumberedCellsNext

\* DATA that is sent is in flight.
LEMMA BoundSent ==
  ASSUME FlowInv, NEW e \in End, NEW cmd \in {"DATA", "OTHER"},
         NEW curr, NEW s, NEW d, SentOn(e, cmd, curr, s, d)
  PROVE  UnreceivedBounded'
<1> DEFINE n == Len(sent[e])
           o == Other(e)
<1>1. /\ Extended(wire'[e][curr], wire[e][curr], s, d)
      /\ n \in Nat /\ Len(sent'[e]) = n + 1
      /\ sent'[e][n + 1] = [leg |-> curr, cmd |-> cmd]
      /\ \A i \in 1..n : sent'[e][i] = sent[e][i]
      /\ \A f \in End : f # e => sent'[f] = sent[f]
      /\ \A f \in End, m \in Leg :
           inflight'[f][m] = IF f = e /\ m = curr
                             THEN inflight[e][curr] + (IF cmd = "DATA" THEN 1 ELSE 0)
                             ELSE inflight[f][m]
  BY SentState, SentCounters
<1>2. /\ curr \in Leg /\ curr \in legs[e] /\ circ[e][curr] = "open"
      /\ s \in Cell /\ s.cmd = "SWITCH" /\ d \in Cell /\ d.cmd = cmd
      /\ \A f \in End, m \in Leg : f # e \/ m # curr => wire'[f][m] = wire[f][m]
      /\ \/ wire'[e][curr] = wire[e][curr]
         \/ wire'[e][curr] = wire[e][curr] \o <<d>>
         \/ wire'[e][curr] = (wire[e][curr] \o <<s>>) \o <<d>>
      /\ circ' = circ /\ legs' = legs /\ unacked' = unacked
      /\ ooo_q' = ooo_q /\ delivered' = delivered
  BY DEF SentOn
<1>3. o \in End /\ Other(o) = e /\ o # e /\ \A f \in End : f = e \/ f = o
  BY Ends
<1>4. /\ IInv /\ wire \in [End -> [Leg -> Seq(Cell)]]
      /\ inflight \in [End -> [Leg -> Nat]] /\ unacked \in [End -> [Leg -> Nat]]
      /\ sent \in [End -> Seq([leg : Leg, cmd : {"DATA", "OTHER"}])]
      /\ delivered \in [End -> Seq(Nat)]
  <2>1. IInv
    BY DEF FlowInv
  <2> QED
    BY <2>1, FlowTypes DEF FlowInv, DeliveredInOrder
<1>5. Count(wire'[e][curr], "SENDME") = Count(wire[e][curr], "SENDME")
  <2>1. \A w \in Seq(Cell), c \in Cell : c.cmd # "SENDME" =>
          w \o <<c>> \in Seq(Cell) /\ Count(w \o <<c>>, "SENDME") = Count(w, "SENDME")
    <3> SUFFICES ASSUME NEW w \in Seq(Cell), NEW c \in Cell, c.cmd # "SENDME"
                 PROVE  /\ w \o <<c>> \in Seq(Cell)
                        /\ Count(w \o <<c>>, "SENDME") = Count(w, "SENDME")
      OBVIOUS
    <3>1. Count(w \o <<c>>, "SENDME") = Count(w, "SENDME") + 0
      BY CountAppended
    <3>2. Count(w, "SENDME") \in Nat
      BY CountType
    <3> QED
      BY <3>1, <3>2
  <2>2. wire[e][curr] \in Seq(Cell) /\ s.cmd # "SENDME" /\ d.cmd # "SENDME"
    BY <1>2, <1>4
  <2>3. wire[e][curr] \o <<s>> \in Seq(Cell)
    BY <1>2, <2>1, <2>2
  <2> QED
    BY <1>2, <2>1, <2>2, <2>3
<1>6. \A f \in End, m \in Leg : Count(wire'[f][m], "SENDME") = Count(wire[f][m], "SENDME")
  BY <1>2, <1>5
<1> HIDE DEF n, o
<1>7. ASSUME NEW f \in End, NEW m \in Leg,
             NEW i \in (Len(delivered[Other(f)]) + 1)..Len(sent'[f]),
             sent'[f][i] = [leg |-> m, cmd |-> "DATA"],
             \A c \in ooo_q[Other(f)] : c.no # i
      PROVE  \/ i \in Unreceived(f, m)
             \/ f = e /\ m = curr /\ cmd = "DATA" /\ i = n + 1
  <2>1. CASE f # e
    BY <1>1, <1>7, <2>1 DEF Unreceived
  <2>2. CASE f = e
    <3>1. Len(delivered[o]) \in Nat
      BY <1>3, <1>4
    <3>2. i \in (Len(delivered[o]) + 1)..(n + 1) /\ Other(f) = o
      BY <1>1, <1>7, <2>2 DEF o
    <3>3. CASE i = n + 1
      <4>1. [leg |-> curr, cmd |-> cmd] = [leg |-> m, cmd |-> "DATA"]
        BY <1>1, <1>7, <2>2, <3>3
      <4>2. curr = m /\ cmd = "DATA"
        BY <4>1
      <4> QED
        BY <2>2, <3>3, <4>2
    <3>4. CASE i # n + 1
      <4>1. i \in 1..n /\ i \in (Len(delivered[o]) + 1)..n
        BY <1>1, <3>1, <3>2, <3>4
      <4>2. sent[e][i] = [leg |-> m, cmd |-> "DATA"]
        BY <1>1, <1>7, <2>2, <4>1
      <4> QED
        BY <1>7, <2>2, <3>2, <4>1, <4>2 DEF Unreceived, n
    <3> QED
      BY <3>3, <3>4
  <2> QED
    BY <2>1, <2>2
<1>8. ASSUME NEW f \in End, NEW m \in Leg
      PROVE  /\ Cardinality(Unreceived(f, m)') \in Nat
             /\ Cardinality(Unreceived(f, m)) \in Nat
             /\ Cardinality(Unreceived(f, m)') <= Cardinality(Unreceived(f, m))
                  + (IF f = e /\ m = curr /\ cmd = "DATA" THEN 1 ELSE 0)
  <2> DEFINE U == Unreceived(f, m)
             V == Unreceived(f, m)'
  <2>1. IsFiniteSet(U) /\ Cardinality(U) \in Nat
    BY <1>4, UnreceivedFinite
  <2>2. \A i \in V : i \in U \/ (f = e /\ m = curr /\ cmd = "DATA" /\ i = n + 1)
    BY <1>2, <1>7, Ends DEF Unreceived
  <2> HIDE DEF U, V
  <2>3. CASE f = e /\ m = curr /\ cmd = "DATA"
    <3>1. V \subseteq U \cup {n + 1}
      BY <2>2
    <3>2. /\ IsFiniteSet(U \cup {n + 1})
          /\ Cardinality(U \cup {n + 1}) \in {Cardinality(U), Cardinality(U) + 1}
      BY <2>1, FS_AddElement
    <3>3. Cardinality(V) <= Cardinality(U \cup {n + 1}) /\ Cardinality(V) \in Nat
      BY <3>1, <3>2, FS_Subset, FS_CardinalityType
    <3>4. Cardinality(V) <= Cardinality(U) + 1
      BY <2>1, <3>2, <3>3
    <3> QED
      BY <2>1, <2>3, <3>3, <3>4 DEF U, V
  <2>4. CASE ~(f = e /\ m = curr /\ cmd = "DATA")
    <3>1. V \subseteq U
      BY <2>2, <2>4
    <3>2. Cardinality(V) <= Cardinality(U) /\ Cardinality(V) \in Nat
      BY <2>1, <3>1, FS_Subset, FS_CardinalityType
    <3>3. Cardinality(V) <= Cardinality(U) + 0
      BY <2>1, <3>2
    <3> QED
      BY <2>1, <2>4, <3>2, <3>3 DEF U, V
  <2> QED
    BY <2>3, <2>4
<1>9. ASSUME NEW f \in End, NEW m \in Leg, m \notin legs[f]
      PROVE  inflight'[f][m] = 0
  <2>1. inflight[f][m] = 0
    BY <1>9 DEF FlowInv, UnreceivedBounded
  <2> QED
    BY <1>1, <1>2, <1>9, <2>1
<1>10. ASSUME NEW f \in End, NEW m \in Leg, ~TornDown
       PROVE  IF circ[f][m] = "closed"
              THEN Cardinality(Unreceived(f, m)') < SendmeInc
              ELSE inflight'[f][m] >= SendmeInc * Count(wire[Other(f)][m], "SENDME")
                     + unacked[Other(f)][m] + Cardinality(Unreceived(f, m)')
  <2>1. IF circ[f][m] = "closed" THEN Cardinality(Unreceived(f, m)) < SendmeInc
        ELSE inflight[f][m] >= SendmeInc * Count(wire[Other(f)][m], "SENDME")
               + unacked[Other(f)][m] + Cardinality(Unreceived(f, m))
    BY <1>10 DEF FlowInv, UnreceivedBounded
  <2>2. CASE circ[f][m] = "closed"
    <3>1. ~(f = e /\ m = curr)
      BY <1>2, <2>2
    <3>2. Cardinality(Unreceived(f, m)') <= Cardinality(Unreceived(f, m)) + 0
      BY <1>8, <3>1
    <3>3. SendmeInc \in Nat
      BY ConfluxAssumption
    <3>4. Cardinality(Unreceived(f, m)') < SendmeInc
      BY <1>8, <2>1, <2>2, <3>2, <3>3
    <3> QED
      BY <2>2, <3>4
  <2>3. CASE circ[f][m] # "closed"
    <3> DEFINE p == SendmeInc * Count(wire[Other(f)][m], "SENDME")
               x == IF f = e /\ m = curr /\ cmd = "DATA" THEN 1 ELSE 0
               U == Cardinality(Unreceived(f, m))
               V == Cardinality(Unreceived(f, m)')
    <3>1. inflight[f][m] \in Nat /\ unacked[Other(f)][m] \in Nat /\ p \in Nat
      BY <1>4, BoundsTyped DEF BoundTypes
    <3>2. inflight'[f][m] = inflight[f][m] + x /\ x \in Nat
      BY <1>1, <3>1
    <3>3. U \in Nat /\ V \in Nat /\ V <= U + x
      BY <1>8
    <3>4. inflight[f][m] >= p + unacked[Other(f)][m] + U
      BY <2>1, <2>3
    <3> HIDE DEF p, x, U, V
    <3>5. inflight'[f][m] >= p + unacked[Other(f)][m] + V
      BY <3>1, <3>2, <3>3, <3>4
    <3> QED
      BY <2>3, <3>5 DEF p, V
  <2> QED
    BY <2>2, <2>3
<1>11. TornDown' = TornDown
  BY <1>2 DEF TornDown
<1>12. \A f \in End : Other(f) \in End
  BY Ends
<1> QED
  BY <1>2, <1>6, <1>9, <1>10, <1>11, <1>12 DEF UnreceivedBounded

\* A cell is sent on a leg, with the number that comes next.
LEMMA FlowSend ==
  ASSUME FlowInv, IInv', NEW e \in End, NEW cmd \in {"DATA", "OTHER"}, Send(e, cmd)
  PROVE  FlowInv'
<1>1. PICK curr, s, d : SentOn(e, cmd, curr, s, d)
  BY SendSends
<1> DEFINE n == Len(sent[e])
           o == Other(e)
<1>2. /\ Extended(wire'[e][curr], wire[e][curr], s, d)
      /\ n \in Nat /\ Len(sent'[e]) = n + 1 /\ sent'[e] # << >>
      /\ \A f \in End : f # e => sent'[f] = sent[f]
  <2>1. /\ Extended(wire'[e][curr], wire[e][curr], s, d)
        /\ n \in Nat /\ Len(sent'[e]) = n + 1
        /\ \A f \in End : f # e => sent'[f] = sent[f]
    BY <1>1, SentState
  <2>2. sent'[e] = << >> => Len(sent'[e]) = 0
    OBVIOUS
  <2> QED
    BY <2>1, <2>2
<1>3. \A f \in End, m \in Leg :
        last_seq_sent'[f][m] = IF f = e /\ m = curr THEN n + 1 ELSE last_seq_sent[f][m]
  BY <1>1, SentCounters
<1>4. /\ curr \in Leg /\ curr \in legs[e]
      /\ e = "exit" => ~Renewed /\ last_seq_delivered["exit"] > 0
      /\ s.cmd = "SWITCH" /\ d.cmd \in {"DATA", "OTHER"}
      /\ curr_leg' = [curr_leg EXCEPT ![e] = curr]
      /\ \A f \in End, m \in Leg : f # e \/ m # curr => wire'[f][m] = wire[f][m]
      /\ UNCHANGED <<circ, unlinked, link, legs, last_seq_recv, unacked,
                     last_seq_delivered, ooo_q, delivered>>
  BY <1>1 DEF SentOn
<1>5. /\ o \in End /\ o # e /\ Other(o) = e /\ \A f \in End : f = e \/ f = o
      /\ \/ e = "client" /\ o = "exit"
         \/ e = "exit" /\ o = "client"
      /\ "client" \in End /\ "exit" \in End
  BY Ends DEF End, Other
<1>6. /\ IInv /\ legs \in [End -> SUBSET Leg] /\ curr_leg \in [End -> Leg \cup {NULL}]
      /\ \A f \in End : curr_leg[f] \in legs[f] \cup {NULL}
      /\ sent \in [End -> Seq([leg : Leg, cmd : {"DATA", "OTHER"}])]
  <2>1. IInv
    BY DEF FlowInv
  <2> QED
    BY <2>1, FlowTypes
<1>7. Renewed' = Renewed
  BY <1>4 DEF Renewed
<1>8. StartsAtZero'
  <2>1. ASSUME NEW f \in End, NEW m \in Leg, sent'[f] = << >>
        PROVE  /\ last_seq_recv[Other(f)][m] = 0
               /\ \A i \in DOMAIN wire'[f][m] : wire'[f][m][i].cmd # "SWITCH"
    <3>1. f # e /\ sent[f] = << >>
      BY <1>2, <2>1
    <3>2. wire'[f][m] = wire[f][m]
      BY <1>4, <3>1
    <3> QED
      BY <3>1, <3>2 DEF FlowInv, StartsAtZero
  <2>2. ASSUME NEW m \in Leg, NEW i \in DOMAIN wire'["exit"][m],
               wire'["exit"][m][i].cmd = "LINKED"
        PROVE  wire'["exit"][m][i].last_seqno_sent = 0
    <3>1. i \in DOMAIN wire["exit"][m] /\ wire'["exit"][m][i] = wire["exit"][m][i]
      <4>1. CASE e = "exit" /\ m = curr
        BY <1>2, <1>4, <2>2, <4>1 DEF Extended
      <4>2. CASE e # "exit" \/ m # curr
        BY <1>4, <1>5, <2>2, <4>2
      <4> QED
        BY <4>1, <4>2
    <3> QED
      BY <2>2, <3>1 DEF FlowInv, StartsAtZero
  <2> QED
    BY <1>4, <2>1, <2>2 DEF FlowInv, StartsAtZero
<1>9. DeliveredInOrder'
  <2>1. \A f \in End : Len(sent[f]) <= Len(sent'[f]) /\ Len(sent[f]) \in Nat
                       /\ Len(sent'[f]) \in Nat
    <3> SUFFICES ASSUME NEW f \in End
                 PROVE  Len(sent[f]) <= Len(sent'[f]) /\ Len(sent[f]) \in Nat
                        /\ Len(sent'[f]) \in Nat
      OBVIOUS
    <3>1. Len(sent[f]) \in Nat
      BY <1>6
    <3>2. CASE f = e
      BY <1>2, <3>2
    <3>3. CASE f # e
      BY <1>2, <3>1, <3>3
    <3> QED
      BY <3>2, <3>3
  <2>2. delivered \in [End -> Seq(Nat)]
    BY DEF FlowInv, DeliveredInOrder
  <2>3. \A f \in End : \A c \in ooo_q[f] : c.no \in Nat
    <3>1. ooo_q \in [End -> SUBSET [seq : Nat, no : Nat]]
      BY <1>6, FlowTypes
    <3> QED
      BY <3>1
  <2>4. ASSUME NEW f \in End
        PROVE  /\ delivered[f] = [i \in 1..Len(delivered[f]) |-> i]
               /\ Len(delivered[f]) <= Len(sent'[Other(f)])
               /\ \/ last_seq_delivered[f] = Len(delivered[f])
                  \/ f = "exit" /\ Renewed
               /\ \A c \in ooo_q[f] :
                    /\ c.seq = c.no /\ c.seq > last_seq_delivered[f] + 1
                    /\ c.no <= Len(sent'[Other(f)])
    <3>1. /\ delivered[f] = [i \in 1..Len(delivered[f]) |-> i]
          /\ Len(delivered[f]) <= Len(sent[Other(f)])
          /\ \/ last_seq_delivered[f] = Len(delivered[f])
             \/ f = "exit" /\ Renewed
          /\ \A c \in ooo_q[f] :
               /\ c.seq = c.no /\ c.seq > last_seq_delivered[f] + 1
               /\ c.no <= Len(sent[Other(f)])
      BY DEF FlowInv, DeliveredInOrder
    <3>2. /\ Len(sent[Other(f)]) <= Len(sent'[Other(f)])
          /\ Len(sent[Other(f)]) \in Nat /\ Len(sent'[Other(f)]) \in Nat
          /\ Len(delivered[f]) \in Nat /\ \A c \in ooo_q[f] : c.no \in Nat
      BY <2>1, <2>2, <2>3, Ends
    <3> QED
      BY <3>1, <3>2
  <2>5. ASSUME Renewed, NEW m \in legs["exit"]
        PROVE  /\ m \notin legs["client"]
               /\ \A i \in DOMAIN wire'["client"][m] : ~Multiplexed(wire'["client"][m][i])
    <3>1. /\ m \in Leg /\ m \notin legs["client"]
          /\ \A i \in DOMAIN wire["client"][m] : ~Multiplexed(wire["client"][m][i])
      BY <1>5, <1>6, <2>5 DEF FlowInv, DeliveredInOrder
    <3>2. "client" # e \/ m # curr
      BY <1>4, <3>1
    <3>3. wire'["client"][m] = wire["client"][m]
      BY <1>4, <1>5, <3>1, <3>2
    <3> QED
      BY <3>1, <3>3
  <2>6. sent'["exit"] # << >> => delivered["exit"] # << >>
    <3>1. CASE e = "client"
      <4>1. sent'["exit"] = sent["exit"]
        BY <1>2, <1>5, <3>1
      <4> QED
        BY <4>1 DEF FlowInv, DeliveredInOrder
    <3>2. CASE e = "exit"
      <4>1. last_seq_delivered["exit"] = Len(delivered["exit"])
        BY <1>4, <1>5, <3>2 DEF FlowInv, DeliveredInOrder
      <4>2. delivered["exit"] = << >> => Len(delivered["exit"]) = 0
        OBVIOUS
      <4> QED
        BY <1>4, <3>2, <4>1, <4>2
    <3> QED
      BY <1>5, <3>1, <3>2
  <2> QED
    BY <1>4, <1>7, <2>2, <2>4, <2>5, <2>6 DEF DeliveredInOrder
<1>10. CurrLegLast'
  <2>1. ASSUME NEW f \in End
        PROVE  /\ curr_leg'[f] # NULL => last_seq_sent'[f][curr_leg'[f]] = Len(sent'[f])
               /\ curr_leg'[f] = NULL /\ legs[f] # {} /\ sent'[f] # << >> =>
                    f = "exit" /\ Renewed
    <3>1. CASE f = e
      <4>1. curr_leg'[e] = curr /\ curr # NULL
        BY <1>4, <1>6, ConfluxAssumption
      <4> QED
        BY <1>2, <1>3, <1>4, <3>1, <4>1
    <3>2. CASE f # e
      <4>1. curr_leg'[f] = curr_leg[f] /\ sent'[f] = sent[f]
        BY <1>2, <1>4, <1>6, <3>2
      <4>2. curr_leg[f] # NULL => curr_leg[f] \in Leg
        BY <1>6
      <4>3. curr_leg[f] # NULL =>
              last_seq_sent'[f][curr_leg[f]] = last_seq_sent[f][curr_leg[f]]
        BY <1>3, <3>2, <4>2
      <4> QED
        BY <4>1, <4>3 DEF FlowInv, CurrLegLast
    <3> QED
      BY <3>1, <3>2
  <2> QED
    BY <1>4, <1>7, <2>1 DEF CurrLegLast
<1> QED
  BY <1>1, <1>8, <1>9, <1>10, OnceSent, NumberedSent, BoundSent DEF FlowInv

-----------------------------------------------------------------------------
(* The invariant is inductive *)

\* Nothing is sent at first.
LEMMA InitFlow == Init => FlowInv
<1> SUFFICES ASSUME Init
             PROVE  FlowInv
  OBVIOUS
<1>1. IInv
  BY InitIInv
<1>2. /\ \A e \in End : /\ sent[e] = << >> /\ delivered[e] = << >> /\ ooo_q[e] = {}
                        /\ \A l \in Leg : /\ last_seq_recv[e][l] = 0 /\ inflight[e][l] = 0
                                          /\ wire[e][l] = << >>
      /\ \A l \in Leg : link[l] = NULL
      /\ delivered = [e \in End |-> << >>]
  BY DEF Init, AllLegs
<1>3. \A e \in End : Other(e) \in End
  BY Ends
<1>4. DOMAIN << >> = {} /\ << >> \in Seq(Nat) /\ "exit" \in End
  BY EmptySeq DEF End
<1>5. StartsAtZero
  BY <1>2, <1>3, <1>4 DEF StartsAtZero
<1>6. delivered \in [End -> Seq(Nat)]
  BY <1>2, <1>4
<1>7. Idle
  BY <1>1, <1>2, <1>5, <1>6 DEF Idle
<1> QED
  BY <1>7, IdleFlow

\* Every step keeps the invariant.
LEMMA NextFlowInv == FlowInv /\ [Next]_vars => FlowInv'
<1> SUFFICES ASSUME FlowInv, [Next]_vars
             PROVE  FlowInv'
  OBVIOUS
<1>1. IInv'
  BY NextIInv DEF FlowInv
<1>2. CASE LaunchSet
  BY <1>1, <1>2, FlowLaunchSet
<1>3. ASSUME NEW l \in Leg,
             \/ Opened(l) \/ ReceiveLink(l) \/ RefuseLink(l) \/ ReceiveLinked(l)
             \/ ReceiveLinkedAck(l) \/ LegBreaks(l)
      PROVE  FlowInv'
  <2>1. RefuseLink(l) => FlowInv'
    BY <1>1, FlowClosing DEF End
  <2> QED
    BY <1>1, <1>3, <2>1, FlowOpened, FlowReceiveLink, FlowReceiveLinked,
       FlowReceiveLinkedAck, FlowLegBreaks
<1>4. ASSUME NEW e \in End, NEW l \in Leg,
             \/ ReceiveSwitch(e, l) \/ ReceiveCell(e, l) \/ ReceiveSendme(e, l)
             \/ ReceiveDestroy(e, l) \/ MarkForClose(e, l)
      PROVE  FlowInv'
  BY <1>1, <1>4, FlowReceiveSwitch, FlowReceiveCell, FlowReceiveSendme, FlowClosing
<1>5. ASSUME NEW e \in End, NEW cmd \in {"DATA", "OTHER"}, Send(e, cmd)
      PROVE  FlowInv'
  BY <1>1, <1>5, FlowSend
<1>6. CASE UNCHANGED vars
  <2> USE <1>6 DEF vars, pool, flow
  <2>1. StartsAtZero' /\ DeliveredInOrder'
    BY DEF FlowInv, StartsAtZero, DeliveredInOrder, Renewed
  <2>2. CurrLegLast'
    BY DEF FlowInv, CurrLegLast, Renewed
  <2>3. CellsOnce'
    BY DEF FlowInv, CellsOnce
  <2>4. CellsNumbered'
    BY DEF FlowInv, CellsNumbered, SeqAfter
  <2>5. UnreceivedBounded'
    BY DEF FlowInv, UnreceivedBounded, Unreceived, TornDown
  <2> QED
    BY <1>1, <2>1, <2>2, <2>3, <2>4, <2>5 DEF FlowInv
<1> QED
  BY <1>2, <1>3, <1>4, <1>5, <1>6 DEF Next

\* The inductive invariant.
THEOREM ConfluxFlow == Spec => []FlowInv
<1>1. Init => FlowInv
  BY InitFlow
<1>2. FlowInv /\ [Next]_vars => FlowInv'
  BY NextFlowInv
<1> QED
  BY <1>1, <1>2, PTL DEF Spec

-----------------------------------------------------------------------------
(* What follows from it *)

\* The number a cell is counted under is its place in the order of sending,
\* whatever leg it comes on, so conflux_process_cell never meets a number that
\* was delivered already (its BUG).
THEOREM ConfluxSeqExact == Spec => []SeqExact
<1>1. FlowInv => SeqExact
  <2> SUFFICES ASSUME FlowInv, NEW e \in End
               PROVE
                 /\ \A c \in ooo_q[e] : c.seq = c.no /\ c.seq > last_seq_delivered[e] + 1
                 /\ \A l \in legs[e] \cap legs[Other(e)] :
                      LET cells == wire[e][l] IN
                      /\ \A k \in DOMAIN cells : Multiplexed(cells[k]) =>
                           /\ SeqAfter(e, l, k) = cells[k].no
                           /\ cells[k].no > last_seq_delivered[Other(e)]
                      /\ ~Broken(cells) => SeqAfter(e, l, Len(cells)) = last_seq_sent[e][l]
    BY DEF SeqExact
  <2>1. /\ IInv /\ legs \in [End -> SUBSET Leg] /\ Other(e) \in End
        /\ delivered \in [End -> Seq(Nat)] /\ last_seq_delivered \in [End -> Nat]
        /\ sent \in [End -> Seq([leg : Leg, cmd : {"DATA", "OTHER"}])]
    <3>1. IInv
      BY DEF FlowInv
    <3> QED
      BY <3>1, FlowTypes, Ends DEF FlowInv, DeliveredInOrder
  <2>2. \A c \in ooo_q[e] : c.seq = c.no /\ c.seq > last_seq_delivered[e] + 1
    BY DEF FlowInv, DeliveredInOrder
  <2>3. /\ Len(delivered[Other(e)]) \in Nat
        /\ last_seq_delivered[Other(e)] <= Len(delivered[Other(e)])
    <3>1. Len(delivered[Other(e)]) \in Nat
      BY <2>1
    <3>2. \/ last_seq_delivered[Other(e)] = Len(delivered[Other(e)])
          \/ last_seq_delivered[Other(e)] = 0
      BY <2>1 DEF FlowInv, DeliveredInOrder, Renewed
    <3> QED
      BY <3>1, <3>2
  <2>4. ASSUME NEW l \in legs[e] \cap legs[Other(e)]
        PROVE  /\ \A k \in DOMAIN wire[e][l] : Multiplexed(wire[e][l][k]) =>
                    /\ SeqAfter(e, l, k) = wire[e][l][k].no
                    /\ wire[e][l][k].no > last_seq_delivered[Other(e)]
               /\ ~Broken(wire[e][l]) =>
                    SeqAfter(e, l, Len(wire[e][l])) = last_seq_sent[e][l]
    <3>1. l \in Leg
      BY <2>1, <2>4
    <3>2. ASSUME NEW k \in DOMAIN wire[e][l], Multiplexed(wire[e][l][k])
          PROVE  wire[e][l][k].no > last_seq_delivered[Other(e)]
      <4>1. wire[e][l][k].no \in (Len(delivered[Other(e)]) + 1)..Len(sent[e])
        BY <3>1, <3>2 DEF FlowInv, CellsOnce
      <4>2. Len(sent[e]) \in Nat /\ last_seq_delivered[Other(e)] \in Nat
        BY <2>1
      <4> QED
        BY <2>3, <4>1, <4>2
    <3> QED
      BY <2>4, <3>1, <3>2 DEF FlowInv, CellsNumbered
  <2> QED
    BY <2>2, <2>4
<1> QED
  BY <1>1, ConfluxFlow, PTL

\* "If the circuit still has inflight data, teardown": a set that stays after a
\* leg is gone has lost less DATA with it than one SENDME acknowledges, because
\* what did not come was in flight and a leg with more takes the set along.
THEOREM ConfluxLossBounded == Spec => []LossBounded
<1>1. FlowInv => LossBounded
  <2> SUFFICES ASSUME FlowInv, NEW e \in End, NEW l \in Leg, ~TornDown
               PROVE  Cardinality(LostWith(e, l, {"DATA"})) < SendmeInc
    BY DEF LossBounded
  <2> DEFINE L == LostWith(e, l, {"DATA"})
  <2>1. /\ sent \in [End -> Seq([leg : Leg, cmd : {"DATA", "OTHER"}])]
        /\ delivered \in [End -> Seq(Nat)] /\ Other(e) \in End
    <3>1. IInv
      BY DEF FlowInv
    <3> QED
      BY <3>1, FlowTypes, Ends DEF FlowInv, DeliveredInOrder
  <2>2. IsFiniteSet(Unreceived(e, l)) /\ Cardinality(Unreceived(e, l)) \in Nat
    BY <2>1, UnreceivedFinite
  <2>3. SendmeInc \in Nat \ {0}
    BY ConfluxAssumption
  <2>4. CASE circ[e][l] = "closed"
    <3>1. Cardinality(Unreceived(e, l)) < SendmeInc
      BY <2>4 DEF FlowInv, UnreceivedBounded
    <3>2. ASSUME NEW i \in L
          PROVE  i \in Unreceived(e, l)
      <4>1. /\ i \in (Len(delivered[Other(e)]) + 1)..Len(sent[e])
            /\ \A c \in ooo_q[Other(e)] : c.no # i
            /\ sent[e][i].leg = l /\ sent[e][i].cmd = "DATA"
        BY <3>2 DEF LostWith, Lost
      <4> DEFINE T == [leg : Leg, cmd : {"DATA", "OTHER"}]
      <4>2. sent \in [End -> Seq(T)] /\ delivered \in [End -> Seq(Nat)]
        BY <2>1
      <4> HIDE DEF T
      <4>3. sent[e] \in Seq(T) /\ Len(delivered[Other(e)]) \in Nat
        BY <2>1, <4>2
      <4>4. sent[e][i] \in T
        <5>1. i \in 1..Len(sent[e])
          BY <4>1, <4>3
        <5> QED
          BY <4>3, <5>1
      <4>5. sent[e][i] = [leg |-> l, cmd |-> "DATA"]
        BY <4>1, <4>4 DEF T
      <4> QED
        BY <4>1, <4>5 DEF Unreceived
    <3>3. L \subseteq Unreceived(e, l)
      BY <3>2
    <3> HIDE DEF L
    <3>4. Cardinality(L) <= Cardinality(Unreceived(e, l)) /\ Cardinality(L) \in Nat
      BY <2>2, <3>3, FS_Subset, FS_CardinalityType
    <3>5. Cardinality(L) < SendmeInc
      BY <2>2, <2>3, <3>1, <3>4
    <3> QED
      BY <3>5 DEF L
  <2>5. CASE circ[e][l] # "closed"
    <3>1. L = {}
      BY <2>5 DEF LostWith
    <3>2. Cardinality(L) = 0
      BY <3>1, FS_EmptySet
    <3> QED
      BY <2>3, <3>2
  <2> QED
    BY <2>4, <2>5
<1> QED
  BY <1>1, ConfluxFlow, PTL

-----------------------------------------------------------------------------
(* Each direction is an ordered stream *)

\* No step but Send sends, none but ReceiveCell delivers.
LEMMA StreamsKept ==
  ASSUME [Next]_vars,
         ~(\E e \in End, l \in Leg : ReceiveCell(e, l)),
         ~(\E e \in End, cmd \in {"DATA", "OTHER"} : Send(e, cmd))
  PROVE  sent' = sent /\ delivered' = delivered
<1>1. CASE LaunchSet
  BY <1>1 DEF LaunchSet, flow
<1>2. ASSUME NEW l \in Leg,
             \/ Opened(l) \/ ReceiveLink(l) \/ RefuseLink(l) \/ ReceiveLinked(l)
             \/ ReceiveLinkedAck(l) \/ LegBreaks(l)
      PROVE  sent' = sent /\ delivered' = delivered
  <2>1. CASE Opened(l)
    BY <2>1 DEF Opened, flow
  <2>2. CASE ReceiveLink(l)
    BY <2>2 DEF ReceiveLink
  <2>3. CASE RefuseLink(l)
    BY <2>3 DEF RefuseLink, Close
  <2>4. CASE ReceiveLinked(l)
    BY <2>4 DEF ReceiveLinked
  <2>5. CASE ReceiveLinkedAck(l)
    BY <2>5 DEF ReceiveLinkedAck, flow
  <2>6. CASE LegBreaks(l)
    BY <2>6 DEF LegBreaks, flow
  <2> QED
    BY <1>2, <2>1, <2>2, <2>3, <2>4, <2>5, <2>6
<1>3. ASSUME NEW e \in End, NEW l \in Leg,
             \/ ReceiveSwitch(e, l) \/ ReceiveSendme(e, l)
             \/ ReceiveDestroy(e, l) \/ MarkForClose(e, l)
      PROVE  sent' = sent /\ delivered' = delivered
  <2>1. CASE ReceiveSwitch(e, l) \/ ReceiveSendme(e, l)
    BY <2>1 DEF ReceiveSwitch, ReceiveSendme
  <2>2. CASE ReceiveDestroy(e, l) \/ MarkForClose(e, l)
    BY <2>2 DEF ReceiveDestroy, MarkForClose, Close
  <2> QED
    BY <1>3, <2>1, <2>2
<1>4. CASE UNCHANGED vars
  BY <1>4 DEF vars, flow
<1> QED
  BY <1>1, <1>2, <1>3, <1>4 DEF Next

\* A step of the set is, for what comes from an end, one cell sent, some cells
\* delivered, or nothing.
StreamStep(e) ==
  \/ Len(sent'[e]) = Len(sent[e]) + 1 /\ delivered'[Other(e)] = delivered[Other(e)]
  \/ /\ Len(sent'[e]) = Len(sent[e])
     /\ \/ delivered'[Other(e)] = delivered[Other(e)]
        \/ \E last \in (Len(delivered[Other(e)]) + 1)..Len(sent[e]) :
             delivered'[Other(e)] = [i \in 1..last |-> i]

\* The invariant leaves no other.
LEMMA StreamSteps ==
  ASSUME FlowInv, [Next]_vars, NEW e \in End
  PROVE  StreamStep(e)
<1>1. ASSUME NEW f \in End, NEW cmd \in {"DATA", "OTHER"}, Send(f, cmd)
      PROVE  StreamStep(e)
  <2>1. PICK curr, s, d : SentOn(f, cmd, curr, s, d)
    BY <1>1, SendSends
  <2>2. Len(sent'[f]) = Len(sent[f]) + 1 /\ \A g \in End : g # f => sent'[g] = sent[g]
    BY <2>1, SentState
  <2>3. delivered' = delivered
    BY <2>1 DEF SentOn
  <2> QED
    BY <2>2, <2>3 DEF StreamStep
<1>2. ASSUME NEW f \in End, NEW l \in Leg, ReceiveCell(f, l)
      PROVE  StreamStep(e)
  <2>1. PICK upto : Released(f, Head(wire[Other(f)][l]), upto)
    BY <1>2, CellReleases
  <2>2. sent' = sent
    BY <1>2 DEF ReceiveCell
  <2>3. /\ delivered \in [End -> Seq(Nat)]
        /\ \A g \in End : delivered[g] = [i \in 1..Len(delivered[g]) |-> i]
    BY DEF FlowInv, DeliveredInOrder
  <2>4. IInv /\ sent \in [End -> Seq([leg : Leg, cmd : {"DATA", "OTHER"}])]
    BY FlowTypes DEF FlowInv
  <2>5. CASE f = Other(e)
    <3>1. Other(f) = e /\ Len(sent[e]) \in Nat /\ Len(delivered[f]) \in Nat
      BY <2>3, <2>4, <2>5, Ends
    <3>2. /\ delivered'[f] = [i \in 1..upto |-> i] /\ upto \in Nat
          /\ Len(delivered[f]) <= upto /\ upto <= Len(sent[e])
      BY <2>1, <2>3, <3>1 DEF Released
    <3>3. CASE upto = Len(delivered[f])
      <4>1. delivered'[f] = delivered[f]
        BY <2>3, <3>2, <3>3
      <4> QED
        BY <2>2, <2>5, <4>1 DEF StreamStep
    <3>4. CASE upto # Len(delivered[f])
      <4>1. upto \in (Len(delivered[f]) + 1)..Len(sent[e])
        BY <3>1, <3>2, <3>4
      <4> QED
        BY <2>2, <2>5, <3>2, <4>1 DEF StreamStep
    <3> QED
      BY <3>3, <3>4
  <2>6. CASE f # Other(e)
    <3>1. delivered'[Other(e)] = delivered[Other(e)]
      BY <2>1, <2>3, <2>6, Ends DEF Released
    <3> QED
      BY <2>2, <3>1 DEF StreamStep
  <2> QED
    BY <2>5, <2>6
<1>3. CASE sent' = sent /\ delivered' = delivered
  BY <1>3 DEF StreamStep
<1> QED
  BY <1>1, <1>2, <1>3, StreamsKept

\* What the client sends on its legs reaches the exit's streams in the order it
\* was sent, none skipped and none twice: the detailed set implements the stream.
THEOREM ConfluxFromClient == Spec => FromClient
<1>1. Init => ClientStream!Init
  <2> SUFFICES ASSUME Init
               PROVE  ClientStream!Init
    OBVIOUS
  <2>1. "client" \in End /\ "exit" \in End
    BY DEF End
  <2>2. sent["client"] = << >> /\ delivered["exit"] = << >>
    BY <2>1 DEF Init
  <2> QED
    BY <2>2 DEF ClientStream!Init
<1>2. FlowInv /\ [Next]_vars =>
        [ClientStream!Next]_<<Len(sent["client"]), delivered["exit"]>>
  <2> SUFFICES ASSUME FlowInv, [Next]_vars
               PROVE  [ClientStream!Next]_<<Len(sent["client"]), delivered["exit"]>>
    OBVIOUS
  <2>1. "client" \in End /\ Other("client") = "exit"
    BY DEF End, Other
  <2>2. StreamStep("client")
    BY <2>1, StreamSteps
  <2> QED
    BY <2>1, <2>2 DEF StreamStep, ClientStream!Next, ClientStream!Send,
       ClientStream!Deliver
<1> QED
  BY <1>1, <1>2, ConfluxFlow, PTL DEF Spec, FromClient, ClientStream!Spec

\* And what the exit sends reaches the client's.
THEOREM ConfluxFromExit == Spec => FromExit
<1>1. Init => ExitStream!Init
  <2> SUFFICES ASSUME Init
               PROVE  ExitStream!Init
    OBVIOUS
  <2>1. "client" \in End /\ "exit" \in End
    BY DEF End
  <2>2. sent["exit"] = << >> /\ delivered["client"] = << >>
    BY <2>1 DEF Init
  <2> QED
    BY <2>2 DEF ExitStream!Init
<1>2. FlowInv /\ [Next]_vars =>
        [ExitStream!Next]_<<Len(sent["exit"]), delivered["client"]>>
  <2> SUFFICES ASSUME FlowInv, [Next]_vars
               PROVE  [ExitStream!Next]_<<Len(sent["exit"]), delivered["client"]>>
    OBVIOUS
  <2>1. "exit" \in End /\ Other("exit") = "client"
    BY DEF End, Other
  <2>2. StreamStep("exit")
    BY <2>1, StreamSteps
  <2> QED
    BY <2>1, <2>2 DEF StreamStep, ExitStream!Next, ExitStream!Send,
       ExitStream!Deliver
<1> QED
  BY <1>1, <1>2, ConfluxFlow, PTL DEF Spec, FromExit, ExitStream!Spec
=============================================================================
