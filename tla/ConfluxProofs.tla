----------------------------- MODULE ConfluxProofs -----------------------------
(***************************************************************************)
(* Proofs for Conflux: IInv is an inductive invariant, for any number of   *)
(* legs, retries, cells and losses and any SENDME increment.               *)
(***************************************************************************)
EXTENDS Conflux, DataLemmas, SequenceTheorems, FiniteSetTheorems

WireType == [End -> [Leg -> Seq(Cell)]]

-----------------------------------------------------------------------------
(* Ends, legs and maxima *)

\* There are two ends.
LEMMA Ends ==
  ASSUME NEW e \in End
  PROVE  /\ Other(e) \in End /\ Other(e) # e /\ Other(Other(e)) = e
         /\ \A f \in End : f = e \/ f = Other(e)
         /\ e = "client" <=> Other(e) = "exit"
         /\ e = "exit" <=> Other(e) = "client"
  BY DEF End, Other

\* Legs are numbered from 1.
LEMMA Legs == MaxLaunch \in Nat /\ Leg \in SUBSET Nat /\ IsFiniteSet(Leg)
<1>1. MaxLaunch \in Nat
  BY ConfluxAssumption DEF MaxLaunch
<1>2. IsFiniteSet(1..MaxLaunch)
  BY <1>1, FS_Interval
<1> QED
  BY <1>1, <1>2 DEF Leg

\* A bounded set of numbers has a maximum.
LEMMA MaxBounded ==
  ASSUME NEW S \in SUBSET Nat, S # {}, NEW b \in Nat, \A y \in S : y <= b
  PROVE  Max(S) \in S /\ \A y \in S : y <= Max(S)
<1> DEFINE T == {b - y : y \in S}
<1>1. T \in SUBSET Nat /\ T # {}
  <2>1. \A y \in S : y \in Nat /\ b - y \in Nat
    OBVIOUS
  <2>2. T \subseteq Nat
    BY <2>1
  <2>3. PICK y \in S : TRUE
    OBVIOUS
  <2>4. b - y \in T
    BY <2>3
  <2> QED
    BY <2>2, <2>4
<1>2. PICK t \in T : \A u \in T : t <= u
  BY <1>1, LeastNatural
<1>3. PICK x \in S : t = b - x
  OBVIOUS
<1>4. \A y \in S : x >= y
  <2> SUFFICES ASSUME NEW y \in S
               PROVE  x >= y
    OBVIOUS
  <2>1. b - y \in T
    OBVIOUS
  <2>2. b - x <= b - y
    BY <1>2, <1>3, <2>1
  <2>3. x \in Nat /\ y \in Nat
    OBVIOUS
  <2> QED
    BY <2>2, <2>3
<1> HIDE DEF T
<1>5. Max(S) \in S /\ \A y \in S : Max(S) >= y
  BY <1>4 DEF Max
<1>6. Max(S) \in Nat
  BY <1>5
<1> QED
  BY <1>5, <1>6

\* Numbers of legs have a bound.
LEMMA LegsBounded ==
  ASSUME NEW seqs \in [Leg -> Nat]
  PROVE  \E b \in Nat : \A l \in Leg : seqs[l] <= b
<1> DEFINE Bounded(k, b) == \A l \in Leg : l <= k => seqs[l] <= b
           T == {k \in Nat : \E b \in Nat : Bounded(k, b)}
<1>1. 0 \in T
  <2>1. Bounded(0, 0)
    BY DEF Leg
  <2> QED
    BY <2>1
<1>2. ASSUME NEW k \in Nat, k \in T
      PROVE  k + 1 \in T
  <2>1. PICK b \in Nat : Bounded(k, b)
    BY <1>2
  <2> DEFINE c == IF k + 1 \in Leg /\ seqs[k + 1] > b THEN seqs[k + 1] ELSE b
  <2>2. c \in Nat
    OBVIOUS
  <2>3. Bounded(k + 1, c)
    BY <2>1, Legs
  <2> QED
    BY <2>2, <2>3
<1> HIDE DEF T
<1>3. MaxLaunch \in T
  BY <1>1, <1>2, SetInduction, Legs
<1>4. PICK b \in Nat : Bounded(MaxLaunch, b)
  BY <1>3 DEF T
<1>5. \A l \in Leg : seqs[l] <= b
  BY <1>4, Legs DEF Leg
<1> QED
  BY <1>5

\* What MaxOver returns.
LEMMA MaxOverLegs ==
  ASSUME NEW S \in SUBSET Leg, NEW seqs \in [Leg -> Nat]
  PROVE  /\ MaxOver(S, seqs) \in Nat
         /\ \A l \in S : seqs[l] <= MaxOver(S, seqs)
         /\ MaxOver(S, seqs) # 0 => \E l \in S : seqs[l] = MaxOver(S, seqs)
<1> DEFINE T == {0} \cup {seqs[l] : l \in S}
<1>1. PICK b \in Nat : \A l \in Leg : seqs[l] <= b
  BY LegsBounded
<1>2. T \in SUBSET Nat /\ T # {} /\ \A y \in T : y <= b
  BY <1>1
<1>3. MaxOver(S, seqs) = Max(T)
  BY DEF MaxOver
<1>4. \A l \in S : seqs[l] \in T
  OBVIOUS
<1>5. \A y \in T : y = 0 \/ \E l \in S : seqs[l] = y
  OBVIOUS
<1> HIDE DEF T
<1>6. Max(T) \in T /\ \A y \in T : y <= Max(T)
  BY <1>2, MaxBounded
<1> QED
  BY <1>2, <1>3, <1>4, <1>5, <1>6

\* Of no leg.
LEMMA MaxOverNone ==
  ASSUME NEW seqs \in [Leg -> Nat]
  PROVE  MaxOver({}, seqs) = 0
  BY MaxOverLegs
-----------------------------------------------------------------------------
(* Cells on a wire *)

\* r is w with some of its last cells dropped and perhaps a DESTROY in their
\* place: what closing or breaking a leg makes of a wire.
Shrunk(r, w) ==
  \A i \in DOMAIN r : r[i].cmd # "DESTROY" =>
    i \in DOMAIN w /\ \A k \in 1..i : r[k] = w[k]

\* One more cell at the end.
LEMMA AppendedCell ==
  ASSUME NEW w \in Seq(Cell), NEW c \in Cell
  PROVE  LET r == w \o <<c>> IN
         /\ r \in Seq(Cell)
         /\ DOMAIN w = 1..Len(w) /\ DOMAIN r = 1..(Len(w) + 1)
         /\ Len(w) \in Nat /\ Len(r) = Len(w) + 1
         /\ \A i \in 1..Len(w) : r[i] = w[i]
         /\ r[Len(w) + 1] = c
  OBVIOUS

\* The first cell taken.
LEMMA TakenCell ==
  ASSUME NEW w \in Seq(Cell), w # << >>
  PROVE  /\ Tail(w) \in Seq(Cell)
         /\ Len(w) \in Nat \ {0} /\ Len(Tail(w)) = Len(w) - 1
         /\ DOMAIN w = 1..Len(w) /\ DOMAIN Tail(w) = 1..(Len(w) - 1)
         /\ Head(w) = w[1] /\ Head(w) \in Cell
         /\ \A i \in 1..(Len(w) - 1) : Tail(w)[i] = w[i + 1] /\ i + 1 \in 1..Len(w)
  OBVIOUS

\* A broken wire.
LEMMA CutWire ==
  ASSUME NEW w \in Seq(Cell), NEW n \in Nat, n <= Len(w)
  PROVE  /\ Cut(w, n) \in Seq(Cell) /\ Shrunk(Cut(w, n), w)
         /\ Broken(Cut(w, n))
<1>1. CASE Broken(w)
  BY <1>1 DEF Cut, Shrunk, Broken
<1>2. CASE ~Broken(w)
  <2> DEFINE part == SubSeq(w, 1, n)
             d    == [cmd |-> "DESTROY"]
  <2>1. /\ part \in Seq(Cell) /\ Len(part) = n
        /\ \A i \in 1..n : part[i] = w[i]
    <3>1. \A i \in 1..n : w[i] \in Cell
      OBVIOUS
    <3>2. n \in Int /\ 1 \in Int /\ (IF 1 <= n THEN n - 1 + 1 ELSE 0) = n
          /\ n - 1 + 1 = n /\ \A i \in Int : 1 + i - 1 = i
      OBVIOUS
    <3> QED
      BY <3>1, <3>2, SubSeqProperties
  <2>2. d \in Cell
    BY DEF Cell
  <2>3. Cut(w, n) = part \o <<d>>
    BY <1>2 DEF Cut
  <2> HIDE DEF part
  <2>4. /\ Cut(w, n) \in Seq(Cell) /\ DOMAIN Cut(w, n) = 1..(n + 1)
        /\ \A i \in 1..n : Cut(w, n)[i] = w[i]
        /\ Cut(w, n)[n + 1] = d
    BY <2>1, <2>2, <2>3, AppendedCell
  <2>5. Broken(Cut(w, n))
    BY <2>4 DEF Broken
  <2>6. Shrunk(Cut(w, n), w)
    BY <2>4 DEF Shrunk
  <2> QED
    BY <2>4, <2>5, <2>6
<1> QED
  BY <1>1, <1>2

\* How many cells of a kind there are.
LEMMA CountType ==
  ASSUME NEW w \in Seq(Cell), NEW cmd
  PROVE  /\ IsFiniteSet({i \in DOMAIN w : w[i].cmd = cmd})
         /\ Count(w, cmd) \in Nat
<1>1. IsFiniteSet(1..Len(w)) /\ DOMAIN w = 1..Len(w)
  BY FS_Interval
<1>2. {i \in DOMAIN w : w[i].cmd = cmd} \subseteq 1..Len(w)
  BY <1>1
<1>3. IsFiniteSet({i \in DOMAIN w : w[i].cmd = cmd})
  BY <1>1, <1>2, FS_Subset
<1> QED
  BY <1>3, FS_CardinalityType DEF Count

\* An empty wire has none.
LEMMA CountEmpty ==
  ASSUME NEW cmd
  PROVE  Count(<< >>, cmd) = 0
<1>1. {i \in DOMAIN << >> : << >>[i].cmd = cmd} = {}
  OBVIOUS
<1> QED
  BY <1>1, FS_EmptySet DEF Count

\* A cell more counts if it is of the kind.
LEMMA CountAppended ==
  ASSUME NEW w \in Seq(Cell), NEW c \in Cell, NEW cmd
  PROVE  Count(w \o <<c>>, cmd) = Count(w, cmd) + (IF c.cmd = cmd THEN 1 ELSE 0)
<1> DEFINE r == w \o <<c>>
           A == {i \in DOMAIN w : w[i].cmd = cmd}
           B == {i \in DOMAIN r : r[i].cmd = cmd}
           n == Len(w) + 1
<1>1. /\ DOMAIN w = 1..Len(w) /\ DOMAIN r = 1..n
      /\ Len(w) \in Nat /\ r[n] = c /\ \A i \in 1..Len(w) : r[i] = w[i]
  BY AppendedCell
<1>2. IsFiniteSet(A) /\ Cardinality(A) \in Nat
  BY CountType DEF Count
<1> HIDE DEF r
<1>3. B = (IF c.cmd = cmd THEN A \cup {n} ELSE A) /\ n \notin A
  BY <1>1
<1> HIDE DEF A, B, n
<1>4. Cardinality(B) = Cardinality(A) + (IF c.cmd = cmd THEN 1 ELSE 0)
  <2>1. CASE c.cmd = cmd
    BY <1>2, <1>3, <2>1, FS_AddElement
  <2>2. CASE c.cmd # cmd
    BY <1>2, <1>3, <2>2
  <2> QED
    BY <2>1, <2>2
<1> QED
  BY <1>4 DEF Count, A, B, r

\* The first cell counted if it was of the kind.
LEMMA CountTaken ==
  ASSUME NEW w \in Seq(Cell), w # << >>, NEW cmd
  PROVE  Count(w, cmd) = Count(Tail(w), cmd) + (IF w[1].cmd = cmd THEN 1 ELSE 0)
<1> DEFINE A == {i \in DOMAIN w : w[i].cmd = cmd}
           R == {i \in A : i # 1}
           B == {i \in DOMAIN Tail(w) : Tail(w)[i].cmd = cmd}
           shift == [i \in B |-> i + 1]
<1>1. /\ Len(w) \in Nat \ {0}
      /\ DOMAIN w = 1..Len(w) /\ DOMAIN Tail(w) = 1..(Len(w) - 1)
      /\ \A i \in 1..(Len(w) - 1) : Tail(w)[i] = w[i + 1] /\ i + 1 \in 1..Len(w)
  BY TakenCell
<1>2. IsFiniteSet(B) /\ Cardinality(B) \in Nat
  <2>1. Tail(w) \in Seq(Cell)
    BY TakenCell
  <2> QED
    BY <2>1, CountType DEF Count
<1>3. shift \in Bijection(B, R)
  <2>1. \A i \in B : i + 1 \in R
    BY <1>1
  <2>2. \A j \in R : j - 1 \in B /\ (j - 1) + 1 = j
    <3> SUFFICES ASSUME NEW j \in R
                 PROVE  j - 1 \in B /\ (j - 1) + 1 = j
      OBVIOUS
    <3>1. j \in 1..Len(w) /\ j # 1 /\ w[j].cmd = cmd
      BY <1>1
    <3>2. j - 1 \in 1..(Len(w) - 1) /\ (j - 1) + 1 = j
      BY <1>1, <3>1
    <3>3. Tail(w)[j - 1] = w[j]
      BY <1>1, <3>2
    <3> QED
      BY <1>1, <3>1, <3>2, <3>3
  <2>3. B \in SUBSET Nat
    BY <1>1
  <2> HIDE DEF B, R
  <2>4. shift \in [B -> R]
    BY <2>1
  <2>5. \A i, j \in B : shift[i] = shift[j] => i = j
    BY <2>3
  <2>6. \A j \in R : \E i \in B : shift[i] = j
    BY <2>2
  <2> QED
    BY <2>4, <2>5, <2>6 DEF Bijection, Injection, Surjection, IsInjective
<1>4. Cardinality(R) = Cardinality(B) /\ IsFiniteSet(R)
  BY <1>2, <1>3, FS_Bijection DEF ExistsBijection
<1>5. A = (IF w[1].cmd = cmd THEN R \cup {1} ELSE R) /\ 1 \notin R
  BY <1>1
<1> HIDE DEF A, B, R
<1>6. Cardinality(A) = Cardinality(R) + (IF w[1].cmd = cmd THEN 1 ELSE 0)
  <2>1. CASE w[1].cmd = cmd
    BY <1>2, <1>4, <1>5, <2>1, FS_AddElement
  <2>2. CASE w[1].cmd # cmd
    BY <1>2, <1>4, <1>5, <2>2
  <2> QED
    BY <2>1, <2>2
<1> QED
  BY <1>4, <1>6 DEF Count, A, B

\* A broken wire has no more of any kind but DESTROY.
LEMMA CountShrunk ==
  ASSUME NEW w \in Seq(Cell), NEW r \in Seq(Cell), Shrunk(r, w),
         NEW cmd, cmd # "DESTROY"
  PROVE  Count(r, cmd) <= Count(w, cmd)
<1> DEFINE A == {i \in DOMAIN w : w[i].cmd = cmd}
           B == {i \in DOMAIN r : r[i].cmd = cmd}
<1>1. B \subseteq A
  <2> SUFFICES ASSUME NEW i \in DOMAIN r, r[i].cmd = cmd
               PROVE  i \in DOMAIN w /\ w[i].cmd = cmd
    OBVIOUS
  <2>1. i \in DOMAIN w /\ \A k \in 1..i : r[k] = w[k]
    BY DEF Shrunk
  <2>2. i \in 1..i
    OBVIOUS
  <2> QED
    BY <2>1, <2>2
<1>2. IsFiniteSet(A)
  BY CountType
<1> HIDE DEF A, B
<1>3. Cardinality(B) <= Cardinality(A)
  BY <1>1, <1>2, FS_Subset
<1> QED
  BY <1>3 DEF Count, A, B
-----------------------------------------------------------------------------
(* What is put on a wire and taken from it *)

\* Put appends the cells or drops them.
LEMMA PutWire ==
  ASSUME NEW w \in WireType, NEW e \in End, NEW l \in Leg, NEW cells \in Seq(Cell)
  PROVE  /\ Put(w, e, l, cells) \in WireType
         /\ \A f \in End, m \in Leg :
              f # e \/ m # l => Put(w, e, l, cells)[f][m] = w[f][m]
         /\ \/ Put(w, e, l, cells)[e][l] = w[e][l]
            \/ /\ circ[Other(e)][l] = "open" /\ ~Broken(w[e][l])
               /\ Put(w, e, l, cells)[e][l] = w[e][l] \o cells
         /\ circ[Other(e)][l] = "open" /\ ~Broken(w[e][l]) =>
              Put(w, e, l, cells)[e][l] = w[e][l] \o cells
<1> DEFINE r == [w EXCEPT ![e][l] = @ \o cells]
<1>1. w[e][l] \in Seq(Cell) /\ w[e][l] \o cells \in Seq(Cell)
  BY DEF WireType
<1>2. /\ r \in WireType /\ r[e][l] = w[e][l] \o cells
      /\ \A f \in End, m \in Leg : f # e \/ m # l => r[f][m] = w[f][m]
  BY <1>1 DEF WireType
<1> HIDE DEF r
<1>3. CASE circ[Other(e)][l] = "open" /\ ~Broken(w[e][l])
  <2>1. Put(w, e, l, cells) = r
    BY <1>3 DEF Put, r
  <2> QED
    BY <1>2, <1>3, <2>1
<1>4. CASE ~(circ[Other(e)][l] = "open" /\ ~Broken(w[e][l]))
  <2>1. Put(w, e, l, cells) = w
    BY <1>4 DEF Put
  <2> QED
    BY <1>4, <2>1
<1> QED
  BY <1>3, <1>4

\* The wires when a cell was taken, and one or none put in answer.
TakenPut(r, e, l, cmds, c, answers) ==
  /\ r \in WireType
  /\ \A f \in End, m \in Leg : m # l => r[f][m] = wire[f][m]
  /\ wire[Other(e)][l] \in Seq(Cell) /\ wire[Other(e)][l] # << >>
  /\ wire[e][l] \in Seq(Cell)
  /\ wire[Other(e)][l][1] = Head(wire[Other(e)][l])
  /\ Head(wire[Other(e)][l]) \in Cell
  /\ wire[Other(e)][l][1].cmd \in cmds
  /\ r[Other(e)][l] = Tail(wire[Other(e)][l])
  /\ \/ r[e][l] = wire[e][l]
     \/ /\ answers = <<c>>
        /\ circ[Other(e)][l] = "open" /\ ~Broken(wire[e][l])
        /\ r[e][l] = wire[e][l] \o <<c>>
  /\ answers = <<c>> /\ circ[Other(e)][l] = "open" /\ ~Broken(wire[e][l]) =>
       r[e][l] = wire[e][l] \o <<c>>

\* Taken leaves such wires.
LEMMA TakenWire ==
  ASSUME wire \in WireType, NEW e \in End, NEW l \in Leg, NEW cmds,
         Arrives(e, l, cmds), NEW c \in Cell, NEW answers \in Seq(Cell),
         answers = << >> \/ answers = <<c>>
  PROVE  TakenPut(Taken(e, l, answers), e, l, cmds, c, answers)
<1> DEFINE o == Other(e)
           w == [wire EXCEPT ![o][l] = Tail(@)]
<1>1. o \in End /\ o # e
  BY Ends
<1>2. /\ wire[o][l] \in Seq(Cell) /\ wire[o][l] # << >>
      /\ wire[e][l] \in Seq(Cell) /\ Head(wire[o][l]).cmd \in cmds
  BY <1>1 DEF Arrives, WireType
<1>3. /\ wire[o][l][1] = Head(wire[o][l]) /\ Head(wire[o][l]) \in Cell
      /\ Tail(wire[o][l]) \in Seq(Cell)
  BY <1>2, TakenCell
<1>4. /\ w \in WireType /\ w[o][l] = Tail(wire[o][l])
      /\ \A f \in End, m \in Leg : f # o \/ m # l => w[f][m] = wire[f][m]
  BY <1>1, <1>3 DEF WireType
<1>5. Taken(e, l, answers) = Put(w, e, l, answers)
  BY DEF Taken
<1>6. w[e][l] = wire[e][l]
  BY <1>1, <1>4
<1> HIDE DEF w, o
<1>7. /\ Put(w, e, l, answers) \in WireType
      /\ \A f \in End, m \in Leg :
           f # e \/ m # l => Put(w, e, l, answers)[f][m] = w[f][m]
      /\ \/ Put(w, e, l, answers)[e][l] = w[e][l]
         \/ /\ circ[Other(e)][l] = "open" /\ ~Broken(w[e][l])
            /\ Put(w, e, l, answers)[e][l] = w[e][l] \o answers
      /\ circ[Other(e)][l] = "open" /\ ~Broken(w[e][l]) =>
           Put(w, e, l, answers)[e][l] = w[e][l] \o answers
  BY <1>4, PutWire
<1>8. wire[e][l] \o << >> = wire[e][l]
  BY <1>2, ConcatEmptySeq
<1>9. \A f \in End, m \in Leg : m # l => Put(w, e, l, answers)[f][m] = wire[f][m]
  BY <1>4, <1>7
<1>10. Put(w, e, l, answers)[o][l] = Tail(wire[o][l])
  BY <1>1, <1>4, <1>7
<1> DEFINE r == Put(w, e, l, answers)
<1>11. \/ r[e][l] = wire[e][l]
       \/ /\ answers = <<c>>
          /\ circ[Other(e)][l] = "open" /\ ~Broken(wire[e][l])
          /\ r[e][l] = wire[e][l] \o <<c>>
  BY <1>6, <1>7, <1>8
<1>12. answers = <<c>> /\ circ[Other(e)][l] = "open" /\ ~Broken(wire[e][l]) =>
         r[e][l] = wire[e][l] \o <<c>>
  BY <1>6, <1>7
<1>13. r \in WireType
  BY <1>7
<1> HIDE DEF r
<1>14. TakenPut(r, e, l, cmds, c, answers)
  BY <1>2, <1>3, <1>9, <1>10, <1>11, <1>12, <1>13 DEF TakenPut, o, r
<1> QED
  BY <1>5, <1>14 DEF r

\* The same, cell by cell: r is wire without the first cell of leg l and with
\* the answers behind what e has sent on it.
TakenOff(r, e, l, cmds, c, answers) ==
  /\ r \in WireType
  /\ \A f \in End, m \in Leg : m # l => r[f][m] = wire[f][m]
  /\ 1 \in DOMAIN wire[Other(e)][l]
  /\ Head(wire[Other(e)][l]) = wire[Other(e)][l][1]
  /\ Head(wire[Other(e)][l]) \in Cell
  /\ wire[Other(e)][l][1].cmd \in cmds
  /\ \A i \in DOMAIN r[Other(e)][l] :
       /\ i \in Nat \ {0} /\ i + 1 \in DOMAIN wire[Other(e)][l]
       /\ r[Other(e)][l][i] = wire[Other(e)][l][i + 1]
  /\ \A i \in DOMAIN wire[Other(e)][l] :
       \/ i = 1
       \/ /\ i - 1 \in DOMAIN r[Other(e)][l]
          /\ r[Other(e)][l][i - 1] = wire[Other(e)][l][i]
  /\ \A i \in DOMAIN wire[e][l] :
       /\ i \in DOMAIN r[e][l] /\ i \in Nat
       /\ \A k \in 1..i : r[e][l][k] = wire[e][l][k]
  /\ \A i \in DOMAIN r[e][l] :
       \/ /\ i \in DOMAIN wire[e][l] /\ r[e][l][i] = wire[e][l][i]
          /\ \A k \in 1..i : r[e][l][k] = wire[e][l][k]
       \/ /\ answers = <<c>> /\ circ[Other(e)][l] = "open"
          /\ ~Broken(wire[e][l]) /\ r[e][l][i] = c
          /\ i = Len(wire[e][l]) + 1
  /\ answers = <<c>> /\ circ[Other(e)][l] = "open" /\ ~Broken(wire[e][l]) =>
       \E i \in DOMAIN r[e][l] : r[e][l][i] = c
  /\ wire[Other(e)][l] # << >> /\ r[Other(e)][l] = Tail(wire[Other(e)][l])
  /\ \/ r[e][l] = wire[e][l]
     \/ answers = <<c>> /\ r[e][l] = wire[e][l] \o <<c>>

\* Taken leaves such wires.
LEMMA TakenCells ==
  ASSUME wire \in WireType, NEW e \in End, NEW l \in Leg, NEW cmds,
         Arrives(e, l, cmds), NEW c \in Cell, NEW answers \in Seq(Cell),
         answers = << >> \/ answers = <<c>>,
         NEW r, r = Taken(e, l, answers)
  PROVE  TakenOff(r, e, l, cmds, c, answers)
<1>a. TakenPut(r, e, l, cmds, c, answers)
  BY TakenWire
<1> DEFINE o == Other(e)
           w == wire[o][l]
           v == wire[e][l]
<1>1. /\ r \in WireType
      /\ \A f \in End, m \in Leg : m # l => r[f][m] = wire[f][m]
      /\ w \in Seq(Cell) /\ w # << >>
      /\ v \in Seq(Cell)
      /\ w[1] = Head(w)
      /\ Head(w) \in Cell
      /\ w[1].cmd \in cmds
      /\ r[o][l] = Tail(w)
      /\ \/ r[e][l] = v
         \/ /\ answers = <<c>>
            /\ circ[o][l] = "open" /\ ~Broken(v)
            /\ r[e][l] = v \o <<c>>
      /\ answers = <<c>> /\ circ[o][l] = "open" /\ ~Broken(v) =>
           r[e][l] = v \o <<c>>
  BY <1>a DEF TakenPut
<1> HIDE DEF w, v
<1>2. /\ Len(w) \in Nat \ {0}
      /\ DOMAIN w = 1..Len(w) /\ DOMAIN r[o][l] = 1..(Len(w) - 1)
      /\ \A i \in 1..(Len(w) - 1) : r[o][l][i] = w[i + 1] /\ i + 1 \in 1..Len(w)
  BY <1>1, TakenCell
<1>3. /\ 1 \in DOMAIN w
      /\ \A i \in DOMAIN r[o][l] :
           /\ i \in Nat \ {0} /\ i + 1 \in DOMAIN w /\ r[o][l][i] = w[i + 1]
  BY <1>2
<1>4. \A i \in DOMAIN w : \/ i = 1
                          \/ i - 1 \in DOMAIN r[o][l] /\ r[o][l][i - 1] = w[i]
  <2> SUFFICES ASSUME NEW i \in DOMAIN w, i # 1
               PROVE  i - 1 \in DOMAIN r[o][l] /\ r[o][l][i - 1] = w[i]
    OBVIOUS
  <2>1. i - 1 \in 1..(Len(w) - 1) /\ (i - 1) + 1 = i
    BY <1>2
  <2> QED
    BY <1>2, <2>1
<1>5. CASE r[e][l] = v
  <2>1. DOMAIN v = 1..Len(v) /\ Len(v) \in Nat
    BY <1>1
  <2>2. \A i \in DOMAIN v : /\ i \in DOMAIN r[e][l] /\ i \in Nat
                            /\ \A k \in 1..i : r[e][l][k] = v[k]
    BY <1>5, <2>1
  <2>3. \A i \in DOMAIN r[e][l] : /\ i \in DOMAIN v /\ r[e][l][i] = v[i]
                                  /\ \A k \in 1..i : r[e][l][k] = v[k]
    BY <1>5
  <2>4. answers = <<c>> /\ circ[o][l] = "open" /\ ~Broken(v) =>
           \E i \in DOMAIN r[e][l] : r[e][l][i] = c
    <3>1. /\ DOMAIN (v \o <<c>>) = 1..(Len(v) + 1)
          /\ (v \o <<c>>)[Len(v) + 1] = c
      BY <1>1, AppendedCell
    <3>2. Len(v) + 1 \in DOMAIN (v \o <<c>>)
      BY <2>1, <3>1
    <3> QED
      BY <1>1, <3>1, <3>2
  <2> QED
    BY <1>1, <1>3, <1>4, <2>2, <2>3, <2>4 DEF TakenOff, w, v
<1>6. CASE /\ answers = <<c>> /\ circ[o][l] = "open" /\ ~Broken(v)
           /\ r[e][l] = v \o <<c>>
  <2>1. /\ DOMAIN v = 1..Len(v) /\ DOMAIN r[e][l] = 1..(Len(v) + 1)
        /\ Len(v) \in Nat /\ \A i \in 1..Len(v) : r[e][l][i] = v[i]
        /\ r[e][l][Len(v) + 1] = c
    BY <1>1, <1>6, AppendedCell
  <2>2. \A i \in DOMAIN v : /\ i \in DOMAIN r[e][l] /\ i \in Nat
                            /\ \A k \in 1..i : r[e][l][k] = v[k]
    BY <2>1
  <2>3. \A i \in DOMAIN r[e][l] :
          \/ /\ i \in DOMAIN v /\ r[e][l][i] = v[i]
             /\ \A k \in 1..i : r[e][l][k] = v[k]
          \/ r[e][l][i] = c /\ i = Len(v) + 1
    <3> SUFFICES ASSUME NEW i \in DOMAIN r[e][l], i # Len(v) + 1
                 PROVE  /\ i \in DOMAIN v /\ r[e][l][i] = v[i]
                        /\ \A k \in 1..i : r[e][l][k] = v[k]
      BY <2>1
    <3>1. i \in 1..Len(v)
      BY <2>1
    <3> QED
      BY <2>1, <3>1
  <2>4. Len(v) + 1 \in DOMAIN r[e][l]
    BY <2>1
  <2> QED
    BY <1>1, <1>3, <1>4, <1>6, <2>1, <2>2, <2>3, <2>4 DEF TakenOff, w, v
<1> QED
  BY <1>1, <1>5, <1>6

-----------------------------------------------------------------------------
(* Receiving on a linked leg *)

Later == {"SWITCH", "DATA", "OTHER", "SENDME", "LINKED_ACK"}

\* Every cell has a command.
LEMMA Commands ==
  /\ \A c \in Cell : c.cmd \in Later \cup {"LINK", "LINKED", "DESTROY"}
  /\ \A cmd \in {"LINKED_ACK", "SENDME", "DESTROY"} : [cmd |-> cmd] \in Cell
  /\ \A c \in Cell : Multiplexed(c) <=> c.cmd \in {"DATA", "OTHER"}
  BY DEF Cell, Later, Multiplexed

\* The leg a cell arrives on is in the set, and if the cell is numbered it is
\* in the other end's, too.
LEMMA ArrivedLinked ==
  ASSUME IInv, NEW e \in End, NEW l \in Leg, Arrives(e, l, Later)
  PROVE  /\ l \in legs[e] /\ circ[e][l] = "open"
         /\ wire[Other(e)][l][1].cmd \in {"DATA", "OTHER"} =>
              /\ sent[Other(e)] # << >>
              /\ circ[Other(e)][l] = "open" => l \in legs[Other(e)]
<1> DEFINE o == Other(e)
<1>1. o \in End /\ Other(o) = e
  BY Ends
<1>2. wire[o][l] \in Seq(Cell) /\ wire[o][l] # << >>
  BY <1>1 DEF IInv, FieldTypes, Arrives
<1>3. /\ 1 \in DOMAIN wire[o][l] /\ wire[o][l][1] \in Cell
      /\ wire[o][l][1].cmd \in Later
  BY <1>2 DEF Arrives
<1>4. circ[e][l] = "open"
  BY DEF Arrives
<1>5. l \in legs[e]
  BY <1>1, <1>3, <1>4 DEF IInv, CellsLinked, Later
<1>6. ASSUME wire[o][l][1].cmd \in {"DATA", "OTHER"}
      PROVE  sent[o] # << >> /\ (circ[o][l] = "open" => l \in legs[o])
  <2>1. sent[o] # << >>
    BY <1>1, <1>3, <1>6 DEF IInv, SendersFirst, Multiplexed
  <2>2. CASE e = "client"
    <3>1. o = "exit"
      BY <2>2, Ends
    <3> QED
      BY <1>5, <2>1, <2>2, <3>1 DEF IInv, LinkCells, LegLinks
  <2>3. CASE e = "exit"
    <3>1. o = "client"
      BY <2>3, Ends
    <3> QED
      BY <2>1, <2>3, <3>1 DEF IInv, CircuitsInSets
  <2> QED
    BY <2>1, <2>2, <2>3 DEF End
<1> QED
  BY <1>4, <1>5, <1>6

\* What a step that only takes a cell for the set leaves as it is: the linking
\* and what the wires say of it.
LinkingKept ==
  /\ wire' \in WireType
  /\ CircuitsInSets' /\ LinkCells' /\ CellsLinked'
  /\ \A f \in End, m \in Leg : \A i \in DOMAIN wire'[f][m] :
       Multiplexed(wire'[f][m][i]) => sent'[f] # << >>

\* Taking a cell for the set, acknowledged or not, disturbs neither the
\* linking nor what the wires say of it.
LEMMA ReceiveKeeps ==
  ASSUME IInv, NEW e \in End, NEW l \in Leg, Arrives(e, l, Later),
         NEW answers \in Seq(Cell),
         \/ answers = << >>
         \/ /\ answers = <<[cmd |-> "SENDME"]>>
            /\ wire[Other(e)][l][1].cmd \in {"DATA", "OTHER"},
         wire' = Taken(e, l, answers),
         UNCHANGED <<circ, pool, legs, sent>>,
         measured["exit"] \subseteq measured'["exit"],
         wire[Other(e)][l][1].cmd = "LINKED_ACK" => l \in measured'["exit"]
  PROVE  LinkingKept
<1> DEFINE o == Other(e)
           c == [cmd |-> "SENDME"]
<1>1. /\ o \in End /\ o # e /\ Other(o) = e /\ \A f \in End : f = e \/ f = o
      /\ \/ e = "client" /\ o = "exit"
         \/ e = "exit" /\ o = "client"
  BY Ends DEF End, Other
<1>2. wire \in WireType
  BY DEF IInv, FieldTypes, WireType
<1>3. c \in Cell
  BY Commands
<1> HIDE DEF c
<1>4. TakenOff(wire', e, l, Later, c, answers)
  BY <1>2, <1>3, TakenCells DEF c
<1>5. /\ l \in legs[e] /\ circ[e][l] = "open"
      /\ wire[o][l][1].cmd \in {"DATA", "OTHER"} =>
           /\ sent[o] # << >>
           /\ circ[o][l] = "open" => l \in legs[o]
  BY ArrivedLinked
<1>6. /\ 1 \in DOMAIN wire[o][l] /\ wire[o][l][1].cmd \in Later
      /\ wire[o][l] # << >>
  <2>1. wire[o][l] # << >>
    BY DEF Arrives
  <2> QED
    BY <1>4, <2>1 DEF TakenOff
<1>7. answers = <<c>> => wire[o][l][1].cmd \in {"DATA", "OTHER"}
  <2>1. << >> # <<c>>
    OBVIOUS
  <2> QED
    BY <2>1 DEF c
<1>8. \A f \in End, m \in Leg : m # l => wire'[f][m] = wire[f][m]
  BY <1>4 DEF TakenOff
<1>9. \A i \in DOMAIN wire'[o][l] :
        /\ i \in Nat \ {0} /\ i + 1 \in DOMAIN wire[o][l]
        /\ wire'[o][l][i] = wire[o][l][i + 1]
  BY <1>4 DEF TakenOff
<1>10. \A i \in DOMAIN wire[o][l] :
         \/ i = 1
         \/ /\ i - 1 \in DOMAIN wire'[o][l]
            /\ wire'[o][l][i - 1] = wire[o][l][i]
  BY <1>4 DEF TakenOff
<1>11. \A i \in DOMAIN wire[e][l] :
         /\ i \in DOMAIN wire'[e][l] /\ i \in Nat
         /\ \A k \in 1..i : wire'[e][l][k] = wire[e][l][k]
  BY <1>4 DEF TakenOff
<1>12. \A i \in DOMAIN wire'[e][l] :
         \/ /\ i \in DOMAIN wire[e][l] /\ wire'[e][l][i] = wire[e][l][i]
            /\ \A k \in 1..i : wire'[e][l][k] = wire[e][l][k]
         \/ /\ circ[o][l] = "open" => l \in legs[o]
            /\ wire'[e][l][i].cmd = "SENDME" /\ ~Broken(wire[e][l])
  BY <1>4, <1>5, <1>7 DEF TakenOff, c
<1>a. circ' = circ /\ unlinked' = unlinked /\ link' = link /\ legs' = legs
  BY DEF pool
<1>13. CircuitsInSets'
  <2>1. \A f \in End, m \in Leg :
          circ["client"][m] \in {"none", "building"} => m # l
    BY <1>1, <1>6 DEF IInv, CircuitsInSets
  <2>2. \A f \in End, m \in Leg :
          circ["client"][m] \in {"none", "building"} => wire'[f][m] = << >>
    BY <1>8, <2>1 DEF IInv, CircuitsInSets
  <2> QED
    BY <2>2 DEF IInv, CircuitsInSets, pool
<1>14. LinkCells'
  <2> SUFFICES ASSUME NEW m \in Leg
               PROVE  LegLinks(m)'
    BY DEF LinkCells
  <2>1. CASE m # l
    <3>1. wire'["client"][m] = wire["client"][m] /\ wire'["exit"][m] = wire["exit"][m]
      BY <1>8, <2>1 DEF End
    <3> QED
      BY <1>a, <3>1 DEF IInv, LinkCells, LegLinks
  <2>2. CASE m = l /\ e = "client"
    <3>1. o = "exit"
      BY <1>1, <2>2
    <3>2. \A i \in DOMAIN wire'["exit"][l] :
            /\ wire'["exit"][l][i].cmd \notin {"LINK", "LINKED_ACK", "LINKED"}
      BY <1>9, <3>1 DEF IInv, LinkCells, LegLinks
    <3>3. \A i \in DOMAIN wire'["client"][l] :
            \/ i \in DOMAIN wire["client"][l] /\ wire'["client"][l][i] = wire["client"][l][i]
            \/ wire'["client"][l][i].cmd = "SENDME"
      BY <1>12, <2>2
    <3>4. wire["exit"][l][1].cmd # "DESTROY"
      BY <1>6, <3>1 DEF Later
    <3>5. \A i \in DOMAIN wire["client"][l] : wire["client"][l][i].cmd # "LINK"
      BY <1>6, <3>1, <3>4 DEF IInv, LinkCells, LegLinks
    <3> QED
      BY <1>a, <2>2, <3>2, <3>3, <3>5 DEF IInv, LinkCells, LegLinks
  <2>3. CASE m = l /\ e = "exit"
    <3>1. o = "client"
      BY <1>1, <2>3
    <3>2. \A i \in DOMAIN wire'["client"][l] :
            /\ wire'["client"][l][i].cmd \notin {"LINK", "LINKED"}
      BY <1>9, <3>1 DEF IInv, LinkCells, LegLinks
    <3>3. \A i \in DOMAIN wire'["exit"][l] :
            \/ i \in DOMAIN wire["exit"][l] /\ wire'["exit"][l][i] = wire["exit"][l][i]
            \/ wire'["exit"][l][i].cmd = "SENDME"
      BY <1>12, <2>3
    <3> QED
      BY <1>a, <2>3, <3>2, <3>3 DEF IInv, LinkCells, LegLinks
  <2> QED
    BY <1>1, <2>1, <2>2, <2>3
<1>15. CellsLinked'
  <2>1. \A f \in End, m \in Leg :
          circ[Other(f)][m] = "open" => \A i \in DOMAIN wire'[f][m] :
            wire'[f][m][i].cmd \notin {"LINK", "LINKED", "DESTROY"} =>
              m \in legs[Other(f)]
    <3> SUFFICES ASSUME NEW f \in End, NEW m \in Leg, circ[Other(f)][m] = "open",
                        NEW i \in DOMAIN wire'[f][m],
                        wire'[f][m][i].cmd \notin {"LINK", "LINKED", "DESTROY"}
                 PROVE  m \in legs[Other(f)]
      OBVIOUS
    <3>1. CASE m # l
      BY <1>8, <3>1 DEF IInv, CellsLinked
    <3>2. CASE m = l /\ f = o
      BY <1>5, <1>1, <3>2
    <3>3. CASE m = l /\ f = e
      BY <1>12, <3>3 DEF IInv, CellsLinked
    <3> QED
      BY <1>1, <3>1, <3>2, <3>3
  <2>2. ASSUME NEW m \in Leg, circ["exit"][m] = "open",
               NEW i \in DOMAIN wire'["client"][m],
               wire'["client"][m][i].cmd \in {"SWITCH", "DATA", "OTHER"}
        PROVE  \/ m \in measured'["exit"]
               \/ \E k \in 1..(i - 1) : wire'["client"][m][k].cmd = "LINKED_ACK"
    <3>1. CASE m # l
      <4>1. wire'["client"][m] = wire["client"][m]
        BY <1>8, <3>1 DEF End
      <4> QED
        BY <2>2, <4>1 DEF IInv, CellsLinked
    <3>2. CASE m = l /\ e = "client"
      <4>1. /\ i \in DOMAIN wire["client"][l] /\ wire'["client"][l][i] = wire["client"][l][i]
            /\ \A k \in 1..i : wire'["client"][l][k] = wire["client"][l][k]
        BY <1>12, <2>2, <3>2
      <4>2. i \in Nat
        BY <1>11, <3>2, <4>1
      <4>3. \/ l \in measured["exit"]
            \/ \E k \in 1..(i - 1) : wire["client"][l][k].cmd = "LINKED_ACK"
        BY <2>2, <3>2, <4>1 DEF IInv, CellsLinked
      <4>4. \A k \in 1..(i - 1) : wire'["client"][l][k] = wire["client"][l][k]
        BY <4>1, <4>2
      <4> QED
        BY <3>2, <4>3, <4>4
    <3>3. CASE m = l /\ e = "exit"
      <4>1. /\ i \in Nat \ {0} /\ i + 1 \in DOMAIN wire["client"][l]
            /\ wire'["client"][l][i] = wire["client"][l][i + 1]
        BY <1>1, <1>9, <2>2, <3>3
      <4>2. \/ l \in measured["exit"]
            \/ \E k \in 1..((i + 1) - 1) : wire["client"][l][k].cmd = "LINKED_ACK"
        BY <2>2, <3>3, <4>1 DEF IInv, CellsLinked
      <4>3. CASE \E k \in 1..((i + 1) - 1) : wire["client"][l][k].cmd = "LINKED_ACK"
        <5>1. PICK k \in 1..i : wire["client"][l][k].cmd = "LINKED_ACK"
          BY <4>1, <4>3
        <5>2. CASE k = 1
          BY <1>1, <3>3, <5>1, <5>2
        <5>3. CASE k # 1
          <6>1. k - 1 \in 1..(i - 1) /\ (k - 1) + 1 = k
            BY <4>1, <5>1, <5>3
          <6>2. k - 1 \in DOMAIN wire'["client"][l]
            <7>1. DOMAIN wire'["client"][l] = 1..Len(wire'["client"][l])
                  /\ Len(wire'["client"][l]) \in Nat
              BY <1>4 DEF TakenOff, WireType, End
            <7> QED
              BY <2>2, <3>3, <4>1, <6>1, <7>1
          <6>3. wire'["client"][l][k - 1] = wire["client"][l][k]
            BY <1>1, <1>9, <3>3, <6>1, <6>2
          <6> QED
            BY <3>3, <5>1, <6>1, <6>3
        <5> QED
          BY <5>2, <5>3
      <4> QED
        BY <3>3, <4>2, <4>3
    <3> QED
      BY <1>1, <3>1, <3>2, <3>3
  <2>3. ASSUME NEW m \in Leg, circ["exit"][m] = "open",
               m \in legs["client"] \/ link[m] # NULL, ~Broken(wire'["client"][m])
        PROVE  \/ m \in measured'["exit"]
               \/ \E k \in DOMAIN wire'["client"][m] :
                    wire'["client"][m][k].cmd = "LINKED_ACK"
    <3>1. CASE m # l
      <4>1. wire'["client"][m] = wire["client"][m]
        BY <1>8, <3>1 DEF End
      <4> QED
        BY <2>3, <4>1 DEF IInv, CellsLinked
    <3>2. CASE m = l /\ e = "client"
      <4>1. \A i \in DOMAIN wire["client"][l] :
              i \in DOMAIN wire'["client"][l] /\ wire'["client"][l][i] = wire["client"][l][i]
        <5>1. \A i \in DOMAIN wire["client"][l] : i \in 1..i
          BY <1>2 DEF WireType, End
        <5> QED
          BY <1>11, <3>2, <5>1
      <4>2. ~Broken(wire["client"][l])
        BY <2>3, <3>2, <4>1 DEF Broken
      <4> QED
        BY <2>3, <3>2, <4>1, <4>2 DEF IInv, CellsLinked
    <3>3. CASE m = l /\ e = "exit"
      <4>1. \A i \in DOMAIN wire["client"][l] :
              \/ i = 1
              \/ i - 1 \in DOMAIN wire'["client"][l]
                 /\ wire'["client"][l][i - 1] = wire["client"][l][i]
        BY <1>1, <1>10, <3>3
      <4>2. ~Broken(wire["client"][l])
        BY <1>1, <1>6, <2>3, <3>3, <4>1 DEF Broken, Later
      <4>3. \/ l \in measured["exit"]
            \/ \E k \in DOMAIN wire["client"][l] : wire["client"][l][k].cmd = "LINKED_ACK"
        BY <2>3, <3>3, <4>2 DEF IInv, CellsLinked
      <4> QED
        BY <1>1, <3>3, <4>1, <4>3
    <3> QED
      BY <1>1, <3>1, <3>2, <3>3
  <2> QED
    BY <2>1, <2>2, <2>3 DEF CellsLinked, pool
<1>16. \A f \in End, m \in Leg : \A i \in DOMAIN wire'[f][m] :
         Multiplexed(wire'[f][m][i]) => sent'[f] # << >>
  <2> SUFFICES ASSUME NEW f \in End, NEW m \in Leg, NEW i \in DOMAIN wire'[f][m],
                      Multiplexed(wire'[f][m][i])
               PROVE  sent[f] # << >>
    OBVIOUS
  <2>1. CASE m # l
    BY <1>8, <2>1 DEF IInv, SendersFirst
  <2>2. CASE m = l /\ f = o
    BY <1>1, <1>9, <2>2 DEF IInv, SendersFirst
  <2>3. CASE m = l /\ f = e
    <3>1. wire'[f][m][i].cmd # "SENDME"
      BY DEF Multiplexed
    <3> QED
      BY <1>12, <2>3, <3>1 DEF IInv, SendersFirst
  <2> QED
    BY <1>1, <2>1, <2>2, <2>3
<1> QED
  BY <1>4, <1>13, <1>14, <1>15, <1>16 DEF TakenOff, LinkingKept

\* How many cells of a kind are left, and how many are there then.
TakenCount(r, e, l, c, answers, cmd) ==
  /\ Count(r[Other(e)][l], cmd) \in Nat /\ Count(r[e][l], cmd) \in Nat
  /\ Count(wire[e][l], cmd) \in Nat
  /\ Count(wire[Other(e)][l], cmd) =
       Count(r[Other(e)][l], cmd)
         + (IF wire[Other(e)][l][1].cmd = cmd THEN 1 ELSE 0)
  /\ \/ Count(r[e][l], cmd) = Count(wire[e][l], cmd)
     \/ /\ answers = <<c>>
        /\ Count(r[e][l], cmd) =
             Count(wire[e][l], cmd) + (IF c.cmd = cmd THEN 1 ELSE 0)

\* Taken leaves so many.
LEMMA TakenCounts ==
  ASSUME wire \in WireType, NEW e \in End, NEW l \in Leg, NEW cmds,
         NEW c \in Cell, NEW answers, NEW r,
         TakenOff(r, e, l, cmds, c, answers), NEW cmd
  PROVE  TakenCount(r, e, l, c, answers, cmd)
<1> DEFINE o == Other(e)
<1>1. o \in End /\ o # e
  BY Ends
<1>2. /\ r \in WireType
      /\ wire[o][l] \in Seq(Cell) /\ wire[o][l] # << >> /\ wire[e][l] \in Seq(Cell)
      /\ r[o][l] = Tail(wire[o][l])
      /\ \/ r[e][l] = wire[e][l]
         \/ answers = <<c>> /\ r[e][l] = wire[e][l] \o <<c>>
  BY <1>1 DEF TakenOff, WireType
<1>3. r[o][l] \in Seq(Cell) /\ r[e][l] \in Seq(Cell)
  BY <1>1, <1>2 DEF WireType
<1>4. /\ Count(r[o][l], cmd) \in Nat /\ Count(r[e][l], cmd) \in Nat
      /\ Count(wire[e][l], cmd) \in Nat
  BY <1>2, <1>3, CountType
<1>5. Count(wire[o][l], cmd) =
        Count(r[o][l], cmd) + (IF wire[o][l][1].cmd = cmd THEN 1 ELSE 0)
  BY <1>2, CountTaken
<1>6. Count(wire[e][l] \o <<c>>, cmd) =
        Count(wire[e][l], cmd) + (IF c.cmd = cmd THEN 1 ELSE 0)
  BY <1>2, CountAppended
<1> QED
  BY <1>2, <1>4, <1>5, <1>6 DEF TakenCount

\* Every cell of the wires is a cell.
LEMMA WireCells ==
  ASSUME NEW w \in WireType
  PROVE  \A e \in End, l \in Leg : w[e][l] \in Seq(Cell)
                                   /\ \A i \in DOMAIN w[e][l] : w[e][l][i] \in Cell
  BY DEF WireType

\* More acknowledgements stand for more cells.
LEMMA TimesMore ==
  ASSUME NEW a \in Nat, NEW b \in Nat, NEW c \in Nat, b <= c
  PROVE  a * b \in Nat /\ a * b <= a * c /\ a * (b + 1) = a * b + a
<1>1. PICK d \in Nat : c = b + d
  <2>1. c - b \in Nat /\ c = b + (c - b)
    OBVIOUS
  <2> QED
    BY <2>1
<1>2. a * c = a * b + a * d /\ a * b \in Nat /\ a * d \in Nat
  BY <1>1
<1>3. a * (b + 1) = a * b + a
  OBVIOUS
<1> QED
  BY <1>2, <1>3

\* Taking and answering with cells that are neither DATA nor SENDMEs leaves what
\* the DATA in flight is counted by.
LEMMA TakenUncounted ==
  ASSUME IInv, NEW e \in End, NEW l \in Leg, NEW cmds, Arrives(e, l, cmds),
         cmds \subseteq {"SWITCH", "LINKED_ACK", "LINKED", "LINK"},
         NEW c \in Cell, c.cmd \notin {"DATA", "SENDME"},
         NEW answers \in Seq(Cell), answers = << >> \/ answers = <<c>>,
         wire' = Taken(e, l, answers),
         UNCHANGED <<circ, inflight, unacked>>
  PROVE  InflightCovers'
<1> DEFINE o == Other(e)
<1>1. o \in End /\ o # e /\ Other(o) = e /\ \A f \in End : f = e \/ f = o
  BY Ends
<1>2. wire \in WireType
  BY DEF IInv, FieldTypes, WireType
<1>3. TakenOff(wire', e, l, cmds, c, answers)
  BY <1>2, TakenCells
<1>4. /\ \A f \in End, m \in Leg : m # l => wire'[f][m] = wire[f][m]
      /\ wire[o][l][1].cmd \notin {"DATA", "SENDME"}
  BY <1>3 DEF TakenOff
<1>5. \A cmd \in {"DATA", "SENDME"} :
        Count(wire'[o][l], cmd) = Count(wire[o][l], cmd)
        /\ Count(wire'[e][l], cmd) = Count(wire[e][l], cmd)
  <2> SUFFICES ASSUME NEW cmd \in {"DATA", "SENDME"}
               PROVE  Count(wire'[o][l], cmd) = Count(wire[o][l], cmd)
                      /\ Count(wire'[e][l], cmd) = Count(wire[e][l], cmd)
    OBVIOUS
  <2>1. TakenCount(wire', e, l, c, answers, cmd)
    BY <1>2, <1>3, TakenCounts
  <2> QED
    BY <1>2, <1>4, <2>1 DEF TakenCount
<1>6. \A f \in End, m \in Leg : \A cmd \in {"DATA", "SENDME"} :
        Count(wire'[f][m], cmd) = Count(wire[f][m], cmd)
  BY <1>1, <1>4, <1>5
<1> QED
  BY <1>1, <1>6, Ends DEF IInv, InflightCovers

\* The exit gets its RTT of a leg.
LEMMA ReceiveLinkedAckKeeps ==
  ASSUME IInv, NEW l \in Leg, ReceiveLinkedAck(l)
  PROVE  IInv'
<1>1. /\ Arrives("exit", l, {"LINKED_ACK"})
      /\ measured' = [measured EXCEPT !["exit"] = @ \cup {l}]
      /\ wire' = Taken("exit", l, << >>)
      /\ UNCHANGED <<circ, pool, legs, curr_leg, flow, closes>>
  BY DEF ReceiveLinkedAck
<1>2. Arrives("exit", l, Later) /\ wire["client"][l][1].cmd = "LINKED_ACK"
  <2>1. Other("exit") = "client"
    BY DEF Other
  <2>2. wire["client"][l] \in Seq(Cell) /\ wire["client"][l] # << >>
    BY <1>1, <2>1 DEF Arrives, IInv, FieldTypes, End
  <2> QED
    BY <1>1, <2>1, <2>2 DEF Arrives, Later
<1>3. l \in legs["exit"]
  BY <1>2, ArrivedLinked DEF End
<1>4. /\ measured' \in [End -> SUBSET Leg]
      /\ measured'["exit"] = measured["exit"] \cup {l}
      /\ measured'["client"] = measured["client"]
  BY <1>1 DEF IInv, FieldTypes, End
<1>5. LinkingKept
  <2>1. << >> \in Seq(Cell) /\ "exit" \in End
    BY EmptySeq DEF End
  <2>2. UNCHANGED <<circ, pool, legs, sent>>
    BY <1>1 DEF flow
  <2> QED
    BY <1>1, <1>2, <1>4, <2>1, <2>2, ReceiveKeeps
<1>6. TypeOK' /\ FieldTypes'
  <2>1. TypeOK'
    BY <1>1, <1>3, <1>4, <1>5, WireCells DEF LinkingKept, IInv, TypeOK, pool,
       flow, End
  <2>2. FieldTypes'
    BY <1>1, <1>4, <1>5 DEF LinkingKept, IInv, FieldTypes, WireType, pool, flow
  <2> QED
    BY <2>1, <2>2
<1>7. SendersFirst'
  BY <1>1, <1>5 DEF LinkingKept, IInv, SendersFirst, flow
<1>8. LegsCounted'
  BY <1>1, <1>4 DEF IInv, LegsCounted, flow
<1>9. InflightCovers'
  <2>1. "exit" \in End /\ {"LINKED_ACK"} \subseteq {"SWITCH", "LINKED_ACK", "LINKED", "LINK"}
    BY DEF End
  <2>2. UNCHANGED <<circ, inflight, unacked>>
    BY <1>1 DEF flow
  <2>3. /\ [cmd |-> "DESTROY"] \in Cell /\ << >> \in Seq(Cell)
        /\ [cmd |-> "DESTROY"].cmd \notin {"DATA", "SENDME"}
    BY Commands, EmptySeq
  <2> QED
    BY <1>1, <2>1, <2>2, <2>3, TakenUncounted
<1>10. CurrLegAhead'
  BY <1>1 DEF IInv, CurrLegAhead, RelativeSeq, flow
<1> QED
  BY <1>5, <1>6, <1>7, <1>8, <1>9, <1>10 DEF LinkingKept, IInv

\* A leg is told how far it is behind.
LEMMA ReceiveSwitchKeeps ==
  ASSUME IInv, NEW e \in End, NEW l \in Leg, ReceiveSwitch(e, l)
  PROVE  IInv'
<1> DEFINE o == Other(e)
           seq == last_seq_recv[e][l] + Head(wire[Other(e)][l]).relative_seq
<1>1. /\ Arrives(e, l, {"SWITCH"})
      /\ last_seq_recv' = [last_seq_recv EXCEPT ![e][l] = seq]
      /\ wire' = Taken(e, l, << >>)
      /\ UNCHANGED <<circ, pool, legs, curr_leg, measured, last_seq_sent, inflight,
                     unacked, last_seq_delivered, ooo_q, sent, delivered, closes>>
  BY DEF ReceiveSwitch
<1>2. /\ o \in End /\ Other(o) = e
      /\ wire[o][l] \in Seq(Cell) /\ wire[o][l] # << >>
      /\ Head(wire[o][l]) = wire[o][l][1] /\ 1 \in DOMAIN wire[o][l]
      /\ wire[o][l][1] \in Cell
      /\ wire[o][l][1].cmd = "SWITCH" /\ circ[e][l] = "open"
  <2>1. o \in End /\ Other(o) = e
    BY Ends
  <2>2. wire[o][l] \in Seq(Cell) /\ wire[o][l] # << >>
    BY <1>1, <2>1 DEF Arrives, IInv, FieldTypes
  <2> QED
    BY <1>1, <2>1, <2>2 DEF Arrives
<1>3. Arrives(e, l, Later)
  BY <1>1 DEF Arrives, Later
<1>4. wire[o][l][1].relative_seq \in Nat
  BY <1>2 DEF Cell
<1>5. seq \in Nat /\ seq >= last_seq_recv[e][l] /\ last_seq_recv[e][l] \in Nat
  <2>1. last_seq_recv[e][l] \in Nat
    BY DEF IInv, TypeOK
  <2>2. seq = last_seq_recv[e][l] + wire[o][l][1].relative_seq
    BY <1>2
  <2> HIDE DEF seq
  <2> QED
    BY <1>4, <2>1, <2>2
<1> HIDE DEF seq
<1>6. /\ last_seq_recv' \in [End -> [Leg -> Nat]]
      /\ \A f \in End, m \in Leg :
           \/ last_seq_recv'[f][m] = last_seq_recv[f][m]
           \/ /\ f = e /\ m = l
              /\ last_seq_recv'[f][m] >= last_seq_recv[f][m]
  BY <1>1, <1>5 DEF IInv, TypeOK
<1>7. LinkingKept
  <2>1. << >> \in Seq(Cell) /\ wire[Other(e)][l][1].cmd # "LINKED_ACK"
    BY <1>2, EmptySeq
  <2>2. measured["exit"] \subseteq measured'["exit"]
    BY <1>1
  <2> QED
    BY <1>1, <1>3, <2>1, <2>2, ReceiveKeeps
<1>8. TypeOK' /\ FieldTypes'
  <2>1. TypeOK'
    <3>1. inflight \in [End -> [Leg -> Nat]] /\ unacked \in [End -> [Leg -> Nat]]
          /\ last_seq_sent \in [End -> [Leg -> Nat]]
      BY DEF IInv, TypeOK
    <3>2. \A counter \in {last_seq_sent, last_seq_recv, inflight, unacked}' :
            counter \in [End -> [Leg -> Nat]]
      BY <1>1, <1>6, <3>1
    <3>3. \A f \in End, m \in Leg :
            \A i \in DOMAIN wire'[f][m] : wire'[f][m][i] \in Cell
      BY <1>7, WireCells DEF LinkingKept
    <3> QED
      BY <1>1, <3>2, <3>3 DEF IInv, TypeOK, pool
  <2>2. FieldTypes'
    BY <1>1, <1>7 DEF LinkingKept, IInv, FieldTypes, WireType, pool
  <2> QED
    BY <2>1, <2>2
<1>9. SendersFirst'
  BY <1>1, <1>7 DEF LinkingKept, IInv, SendersFirst
<1>10. e = "exit" => l \in measured["exit"]
  <2> SUFFICES ASSUME e = "exit"
               PROVE  l \in measured["exit"]
    OBVIOUS
  <2>1. o = "client"
    BY Ends
  <2> QED
    BY <1>2, <2>1 DEF IInv, CellsLinked
<1>11. LegsCounted'
  <2>1. \A m \in legs["exit"] : last_seq_recv'["exit"][m] > 0 => m \in measured["exit"]
    BY <1>6, <1>10 DEF IInv, LegsCounted, FieldTypes, End
  <2>2. last_seq_delivered["exit"] > 0 /\ legs["exit"] # {} =>
          \E m \in legs["exit"] : last_seq_recv'["exit"][m] > 0
    <3> SUFFICES ASSUME last_seq_delivered["exit"] > 0, legs["exit"] # {}
                 PROVE  \E m \in legs["exit"] : last_seq_recv'["exit"][m] > 0
      OBVIOUS
    <3>1. PICK m \in legs["exit"] : last_seq_recv["exit"][m] > 0
      BY DEF IInv, LegsCounted
    <3>2. /\ m \in Leg /\ last_seq_recv["exit"][m] \in Nat
          /\ last_seq_recv'["exit"][m] \in Nat
      BY <1>6 DEF IInv, FieldTypes, TypeOK, End
    <3>3. last_seq_recv'["exit"][m] >= last_seq_recv["exit"][m]
      BY <1>6, <3>2 DEF End
    <3> QED
      BY <3>1, <3>2, <3>3
  <2> QED
    BY <1>1, <2>1, <2>2 DEF IInv, LegsCounted
<1>12. InflightCovers'
  <2>1. {"SWITCH"} \subseteq {"SWITCH", "LINKED_ACK", "LINKED", "LINK"}
    OBVIOUS
  <2>2. /\ [cmd |-> "DESTROY"] \in Cell /\ << >> \in Seq(Cell)
        /\ [cmd |-> "DESTROY"].cmd \notin {"DATA", "SENDME"}
    BY Commands, EmptySeq
  <2> QED
    BY <1>1, <2>1, <2>2, TakenUncounted
<1>13. CurrLegAhead'
  BY <1>1 DEF IInv, CurrLegAhead, RelativeSeq
<1> QED
  BY <1>7, <1>8, <1>9, <1>11, <1>12, <1>13 DEF LinkingKept, IInv

\* A SENDME takes its increment off the cells in flight.
LEMMA ReceiveSendmeKeeps ==
  ASSUME IInv, NEW e \in End, NEW l \in Leg, ReceiveSendme(e, l)
  PROVE  IInv'
<1> DEFINE o == Other(e)
           c == [cmd |-> "LINKED_ACK"]
<1>1. /\ Arrives(e, l, {"SENDME"})
      /\ inflight' = [inflight EXCEPT ![e][l] = @ - SendmeInc]
      /\ measured' = [measured EXCEPT ![e] = @ \cup {l}]
      /\ wire' = Taken(e, l, << >>)
      /\ UNCHANGED <<circ, pool, legs, curr_leg, last_seq_sent, last_seq_recv,
                     unacked, last_seq_delivered, ooo_q, sent, delivered, closes>>
  BY DEF ReceiveSendme
<1>2. /\ o \in End /\ o # e /\ Other(o) = e /\ \A f \in End : f = e \/ f = o
      /\ wire \in WireType
      /\ c \in Cell /\ << >> \in Seq(Cell) /\ << >> # <<c>>
  <2>1. << >> \in Seq(Cell)
    BY EmptySeq
  <2>2. wire \in WireType
    BY DEF IInv, FieldTypes, WireType
  <2> QED
    BY <2>1, <2>2, Commands, Ends
<1>3. Arrives(e, l, Later) /\ circ[e][l] = "open"
  BY <1>1 DEF Arrives, Later
<1>4. l \in legs[e]
  BY <1>3, ArrivedLinked
<1> HIDE DEF c
<1>5. TakenOff(wire', e, l, {"SENDME"}, c, << >>)
  BY <1>1, <1>2, TakenCells
<1>6. /\ \A f \in End, m \in Leg : m # l => wire'[f][m] = wire[f][m]
      /\ wire[o][l][1].cmd = "SENDME"
  BY <1>5 DEF TakenOff
<1>7. /\ Count(wire'[o][l], "SENDME") \in Nat
      /\ Count(wire[o][l], "SENDME") = Count(wire'[o][l], "SENDME") + 1
      /\ Count(wire'[e][l], "SENDME") = Count(wire[e][l], "SENDME")
      /\ Count(wire'[o][l], "DATA") = Count(wire[o][l], "DATA")
      /\ Count(wire'[e][l], "DATA") = Count(wire[e][l], "DATA")
      /\ Count(wire[e][l], "DATA") \in Nat
  <2>1. TakenCount(wire', e, l, c, << >>, "SENDME")
    BY <1>2, <1>5, TakenCounts
  <2>2. TakenCount(wire', e, l, c, << >>, "DATA")
    BY <1>2, <1>5, TakenCounts
  <2> QED
    BY <1>2, <1>6, <2>1, <2>2 DEF TakenCount
<1>8. /\ inflight[e][l] \in Nat /\ unacked[o][l] \in Nat /\ SendmeInc \in Nat
      /\ inflight[e][l] - SendmeInc >= SendmeInc * Count(wire'[o][l], "SENDME")
                                         + unacked[o][l] + Count(wire'[e][l], "DATA")
      /\ inflight[e][l] - SendmeInc \in Nat
  <2>1. inflight[e][l] \in Nat /\ unacked[o][l] \in Nat /\ SendmeInc \in Nat
    BY <1>2, ConfluxAssumption DEF IInv, TypeOK
  <2>2. inflight[e][l] >= SendmeInc * Count(wire[o][l], "SENDME")
                            + unacked[o][l] + Count(wire[e][l], "DATA")
    BY <1>3 DEF IInv, InflightCovers
  <2> DEFINE n == Count(wire'[o][l], "SENDME")
             d == Count(wire[e][l], "DATA")
  <2>3. n \in Nat /\ d \in Nat /\ Count(wire[o][l], "SENDME") = n + 1
    BY <1>7
  <2> HIDE DEF n, d
  <2>4. SendmeInc * (n + 1) = SendmeInc * n + SendmeInc /\ SendmeInc * n \in Nat
    BY <2>1, <2>3, TimesMore
  <2>5. inflight[e][l] >= SendmeInc * (n + 1) + unacked[o][l] + d
    BY <2>2, <2>3 DEF d
  <2>6. inflight[e][l] - SendmeInc >= SendmeInc * n + unacked[o][l] + d
        /\ inflight[e][l] - SendmeInc \in Nat
    <3> DEFINE p == SendmeInc * n
    <3>1. p \in Nat /\ inflight[e][l] >= p + SendmeInc + unacked[o][l] + d
      BY <2>4, <2>5
    <3> HIDE DEF p
    <3> QED
      BY <2>1, <2>3, <3>1 DEF p
  <2> QED
    BY <1>7, <2>1, <2>6 DEF n, d
<1>9. /\ measured' \in [End -> SUBSET Leg]
      /\ \A f \in End : measured'[f] = IF f = e THEN measured[f] \cup {l} ELSE measured[f]
  BY <1>1 DEF IInv, FieldTypes
<1>10. /\ inflight' \in [End -> [Leg -> Nat]]
       /\ inflight'[e][l] = inflight[e][l] - SendmeInc
       /\ \A f \in End, m \in Leg : f # e \/ m # l => inflight'[f][m] = inflight[f][m]
  BY <1>1, <1>8 DEF IInv, TypeOK
<1>11. LinkingKept
  <2>1. measured["exit"] \subseteq measured'["exit"]
    BY <1>9 DEF End
  <2>2. << >> \in Seq(Cell) /\ wire[Other(e)][l][1].cmd # "LINKED_ACK"
    BY <1>2, <1>6
  <2>3. UNCHANGED <<circ, pool, legs, sent>>
    BY <1>1
  <2> QED
    BY <1>1, <1>3, <2>1, <2>2, <2>3, ReceiveKeeps
<1>12. TypeOK' /\ FieldTypes'
  <2>1. TypeOK'
    <3>1. \A f \in End : measured'[f] \subseteq legs[f]
      <4>1. \A f \in End : measured[f] \subseteq legs[f]
        BY DEF IInv, TypeOK
      <4>2. \A f \in End : f # e => measured'[f] = measured[f]
        BY <1>9
      <4>3. measured'[e] = measured[e] \cup {l}
        BY <1>9
      <4> QED
        BY <1>4, <4>1, <4>2, <4>3
    <3>2. \A counter \in {last_seq_sent, last_seq_recv, inflight, unacked}' :
            counter \in [End -> [Leg -> Nat]]
      BY <1>1, <1>10 DEF IInv, TypeOK
    <3>3. \A f \in End, m \in Leg : \A i \in DOMAIN wire'[f][m] :
            wire'[f][m][i] \in Cell
      BY <1>11, WireCells DEF LinkingKept
    <3> QED
      BY <1>1, <3>1, <3>2, <3>3 DEF IInv, TypeOK, pool
  <2>2. FieldTypes'
    BY <1>1, <1>9, <1>11 DEF LinkingKept, IInv, FieldTypes, WireType, pool
  <2> QED
    BY <2>1, <2>2
<1>13. SendersFirst'
  BY <1>1, <1>11 DEF LinkingKept, IInv, SendersFirst
<1>14. LegsCounted'
  <2>1. measured'["client"] = legs["client"]
    BY <1>4, <1>9 DEF IInv, LegsCounted, End
  <2>2. measured["exit"] \subseteq measured'["exit"]
    BY <1>9 DEF End
  <2> QED
    BY <1>1, <2>1, <2>2 DEF IInv, LegsCounted
<1>15. InflightCovers'
  <2> SUFFICES ASSUME NEW f \in End, NEW m \in Leg, circ[f][m] # "closed"
               PROVE  inflight'[f][m] >= SendmeInc * Count(wire'[Other(f)][m], "SENDME")
                                + unacked[Other(f)][m] + Count(wire'[f][m], "DATA")
    BY <1>1 DEF InflightCovers
  <2>1. CASE m # l
    <3>1. Other(f) \in End
      BY Ends
    <3>2. /\ wire'[f][m] = wire[f][m] /\ wire'[Other(f)][m] = wire[Other(f)][m]
          /\ inflight'[f][m] = inflight[f][m]
      BY <1>6, <1>10, <2>1, <3>1
    <3> QED
      BY <3>2 DEF IInv, InflightCovers
  <2>2. CASE m = l /\ f = e
    BY <1>8, <1>10, <2>2
  <2>3. CASE m = l /\ f = o
    <3>1. inflight'[o][l] = inflight[o][l]
      BY <1>2, <1>10
    <3> QED
      BY <1>2, <1>7, <2>3, <3>1 DEF LinkingKept, IInv, InflightCovers
  <2> QED
    BY <1>2, <2>1, <2>2, <2>3
<1>16. CurrLegAhead'
  BY <1>1 DEF IInv, CurrLegAhead, RelativeSeq
<1> QED
  BY <1>11, <1>12, <1>13, <1>14, <1>15, <1>16 DEF LinkingKept, IInv

\* The number a receiver gets to is a number.
LEMMA UpToType ==
  ASSUME last_seq_delivered \in [End -> Nat], NEW e \in End,
         NEW queue \in SUBSET [seq : Nat, no : Nat], IsFiniteSet(queue)
  PROVE  UpTo(e, queue) \in Nat /\ UpTo(e, queue) >= last_seq_delivered[e]
<1> DEFINE first == last_seq_delivered[e] + 1
           b == first + Cardinality(queue)
           T == {first - 1} \cup
                {last \in first..b : first..last \subseteq {c.seq : c \in queue}}
<1>1. first \in Nat /\ Cardinality(queue) \in Nat /\ first - 1 = last_seq_delivered[e]
  BY FS_CardinalityType
<1>2. b \in Nat /\ T \in SUBSET Nat /\ first - 1 \in T /\ \A y \in T : y <= b
  BY <1>1
<1>3. UpTo(e, queue) = Max(T)
  BY DEF UpTo
<1> HIDE DEF T, first, b
<1>4. Max(T) \in T /\ \A y \in T : y <= Max(T)
  BY <1>2, MaxBounded
<1>5. Max(T) \in Nat /\ first - 1 <= Max(T)
  BY <1>2, <1>4
<1> QED
  BY <1>1, <1>3, <1>5

\* A numbered cell is counted, acknowledged when an increment is full, and
\* delivered with what waited for it.
LEMMA ReceiveCellKeeps ==
  ASSUME IInv, NEW e \in End, NEW l \in Leg, ReceiveCell(e, l)
  PROVE  IInv'
<1> DEFINE o == Other(e)
           cell == Head(wire[Other(e)][l])
           seq == last_seq_recv[e][l] + 1
           queue == ooo_q[e] \cup {[seq |-> seq, no |-> cell.no]}
           upto == UpTo(e, queue)
           due == AckDue(e, l, cell)
           answers == IF due THEN << [cmd |-> "SENDME"] >> ELSE << >>
           count == IF due THEN 0
                    ELSE IF cell.cmd = "DATA" THEN unacked[e][l] + 1
                    ELSE unacked[e][l]
           c == [cmd |-> "SENDME"]
<1>1. /\ Arrives(e, l, {"DATA", "OTHER"})
      /\ last_seq_recv' = [last_seq_recv EXCEPT ![e][l] = seq]
      /\ unacked' = [unacked EXCEPT ![e][l] = count]
      /\ wire' = Taken(e, l, answers)
      /\ last_seq_delivered' = [last_seq_delivered EXCEPT ![e] = upto]
      /\ ooo_q' = [ooo_q EXCEPT ![e] = {q \in queue : q.seq > upto}]
      /\ UNCHANGED <<circ, pool, legs, curr_leg, measured, last_seq_sent, inflight,
                     sent, closes>>
  BY DEF ReceiveCell
<1>2. /\ o \in End /\ o # e /\ Other(o) = e /\ \A f \in End : f = e \/ f = o
      /\ wire \in WireType
      /\ c \in Cell /\ answers \in Seq(Cell)
      /\ answers = << >> \/ answers = <<c>>
      /\ << >> # <<c>> /\ c.cmd = "SENDME"
  <2>1. << >> \in Seq(Cell)
    BY EmptySeq
  <2>2. wire \in WireType
    BY DEF IInv, FieldTypes, WireType
  <2>3. c \in Cell
    BY Commands
  <2>4. <<c>> \in Seq(Cell)
    BY <2>3
  <2> QED
    BY <2>1, <2>2, <2>3, <2>4, Ends
<1>3. Arrives(e, l, Later) /\ circ[e][l] = "open"
  BY <1>1 DEF Arrives, Later
<1>4. /\ wire[o][l] \in Seq(Cell) /\ 1 \in DOMAIN wire[o][l]
      /\ cell = wire[o][l][1] /\ cell \in Cell /\ cell.no \in Nat
      /\ cell.cmd \in {"DATA", "OTHER"}
  <2>1. wire[o][l] \in Seq(Cell) /\ wire[o][l] # << >>
    BY <1>1, <1>2 DEF Arrives, WireType
  <2>2. 1 \in DOMAIN wire[o][l] /\ cell = wire[o][l][1] /\ cell \in Cell
        /\ cell.cmd \in {"DATA", "OTHER"}
    BY <1>1, <2>1 DEF Arrives
  <2>3. cell.no \in Nat
    BY <2>2 DEF Cell
  <2> QED
    BY <2>1, <2>2, <2>3
<1>5. /\ l \in legs[e]
      /\ sent[o] # << >> /\ (circ[o][l] = "open" => l \in legs[o])
  BY <1>3, <1>4, ArrivedLinked
<1>6. /\ last_seq_recv[e][l] \in Nat /\ seq \in Nat /\ seq > 0
      /\ unacked[e][l] \in Nat /\ count \in Nat
      /\ SendmeInc \in Nat \ {0}
  BY ConfluxAssumption DEF IInv, TypeOK
<1>7. /\ queue \in SUBSET [seq : Nat, no : Nat] /\ IsFiniteSet(queue)
  <2>1. [seq |-> seq, no |-> cell.no] \in [seq : Nat, no : Nat]
    BY <1>4, <1>6
  <2>2. ooo_q[e] \in SUBSET [seq : Nat, no : Nat] /\ IsFiniteSet(ooo_q[e])
    BY DEF IInv, FieldTypes
  <2> QED
    BY <2>1, <2>2, FS_AddElement
<1>8. due => cell.cmd = "DATA" /\ unacked[e][l] + 1 = SendmeInc
  BY DEF AckDue
<1>9. answers = <<c>> <=> due
  BY <1>2
<1> HIDE DEF cell, seq, queue, upto, due, answers, c
<1>10. upto \in Nat
  <2>1. last_seq_delivered \in [End -> Nat]
    BY DEF IInv, FieldTypes
  <2> QED
    BY <1>7, <2>1, UpToType DEF upto
<1>11. TakenOff(wire', e, l, {"DATA", "OTHER"}, c, answers)
  BY <1>1, <1>2, TakenCells
<1>12. LinkingKept
  <2>1. UNCHANGED <<circ, pool, legs, sent>>
    BY <1>1
  <2>2. \/ answers = << >>
        \/ /\ answers = <<[cmd |-> "SENDME"]>>
           /\ wire[Other(e)][l][1].cmd \in {"DATA", "OTHER"}
    BY <1>2, <1>4 DEF c
  <2>3. measured["exit"] \subseteq measured'["exit"]
        /\ wire[Other(e)][l][1].cmd # "LINKED_ACK"
    BY <1>1, <1>4
  <2> QED
    BY <1>1, <1>2, <1>3, <2>1, <2>2, <2>3, ReceiveKeeps
<1>13. TypeOK' /\ FieldTypes'
  <2>1. \A counter \in {last_seq_sent, last_seq_recv, inflight, unacked}' :
          counter \in [End -> [Leg -> Nat]]
    <3>1. last_seq_recv' \in [End -> [Leg -> Nat]]
      BY <1>1, <1>6 DEF IInv, TypeOK
    <3> HIDE DEF count
    <3>2. unacked' \in [End -> [Leg -> Nat]]
      BY <1>1, <1>6 DEF IInv, TypeOK
    <3> QED
      BY <1>1, <3>1, <3>2 DEF IInv, TypeOK
  <2>2. \A f \in End, m \in Leg : \A i \in DOMAIN wire'[f][m] :
          wire'[f][m][i] \in Cell
    BY <1>12, WireCells DEF LinkingKept
  <2>3. TypeOK'
    BY <1>1, <2>1, <2>2 DEF IInv, TypeOK, pool
  <2>4. last_seq_delivered' \in [End -> Nat]
    BY <1>1, <1>10 DEF IInv, FieldTypes
  <2>5. /\ ooo_q' \in [End -> SUBSET [seq : Nat, no : Nat]]
        /\ \A f \in End : IsFiniteSet(ooo_q'[f])
    <3> DEFINE rest == {q \in queue : q.seq > upto}
    <3>1. rest \subseteq queue
      OBVIOUS
    <3>2. IsFiniteSet(rest) /\ rest \in SUBSET [seq : Nat, no : Nat]
      BY <1>7, <3>1, FS_Subset
    <3>3. ooo_q' = [ooo_q EXCEPT ![e] = rest]
      BY <1>1
    <3> HIDE DEF rest
    <3> QED
      BY <3>2, <3>3 DEF IInv, FieldTypes
  <2>6. FieldTypes'
    BY <1>1, <1>12, <2>4, <2>5 DEF LinkingKept, IInv, FieldTypes, WireType, pool
  <2> QED
    BY <2>3, <2>6
<1>14. SendersFirst'
  <2>1. \A f \in End : last_seq_delivered'[Other(f)] > 0 => sent[f] # << >>
    <3> SUFFICES ASSUME NEW f \in End, last_seq_delivered'[Other(f)] > 0
                 PROVE  sent[f] # << >>
      OBVIOUS
    <3>1. CASE f = o
      BY <1>5, <3>1
    <3>2. CASE f = e
      <4>1. last_seq_delivered'[o] = last_seq_delivered[o]
        BY <1>1, <1>2 DEF IInv, FieldTypes
      <4> QED
        BY <3>2, <4>1 DEF IInv, SendersFirst
    <3> QED
      BY <1>2, <3>1, <3>2
  <2> QED
    BY <1>1, <1>12, <2>1 DEF LinkingKept, IInv, SendersFirst
<1>15. LegsCounted'
  <2>1. CASE e = "client"
    <3>1. /\ last_seq_recv'["exit"] = last_seq_recv["exit"]
          /\ last_seq_delivered'["exit"] = last_seq_delivered["exit"]
      BY <1>1, <2>1 DEF IInv, FieldTypes, TypeOK, End
    <3> QED
      BY <1>1, <3>1 DEF IInv, LegsCounted
  <2>2. CASE e = "exit"
    <3>1. o = "client"
      BY <2>2, Ends
    <3>2. l \in measured["exit"]
      BY <1>3, <1>4, <2>2, <3>1 DEF IInv, CellsLinked
    <3>3. /\ last_seq_recv'["exit"][l] = seq
          /\ \A m \in Leg : m # l => last_seq_recv'["exit"][m] = last_seq_recv["exit"][m]
      BY <1>1, <2>2 DEF IInv, TypeOK
    <3>4. \A m \in legs["exit"] : m \in Leg
      BY DEF IInv, FieldTypes, End
    <3>5. \A m \in legs["exit"] : last_seq_recv'["exit"][m] > 0 => m \in measured["exit"]
      BY <3>2, <3>3, <3>4 DEF IInv, LegsCounted
    <3>6. \E m \in legs["exit"] : last_seq_recv'["exit"][m] > 0
      BY <1>5, <1>6, <2>2, <3>3
    <3> QED
      BY <1>1, <3>5, <3>6 DEF IInv, LegsCounted
  <2> QED
    BY <2>1, <2>2 DEF End
<1>16. InflightCovers'
  <2>1. /\ \A f \in End, m \in Leg : m # l => wire'[f][m] = wire[f][m]
        /\ wire[o][l][1].cmd = cell.cmd
    BY <1>4, <1>11 DEF TakenOff
  <2>2. /\ unacked'[e][l] = count
        /\ \A f \in End, m \in Leg : f # e \/ m # l => unacked'[f][m] = unacked[f][m]
    BY <1>1 DEF IInv, TypeOK
  <2>3. TakenCount(wire', e, l, c, answers, "SENDME")
        /\ TakenCount(wire', e, l, c, answers, "DATA")
    BY <1>2, <1>11, TakenCounts
  <2>4. /\ Count(wire'[o][l], "SENDME") = Count(wire[o][l], "SENDME")
        /\ Count(wire'[e][l], "DATA") = Count(wire[e][l], "DATA")
        /\ Count(wire'[o][l], "DATA") \in Nat /\ Count(wire[e][l], "SENDME") \in Nat
        /\ Count(wire[o][l], "DATA") =
             Count(wire'[o][l], "DATA") + (IF cell.cmd = "DATA" THEN 1 ELSE 0)
        /\ \/ Count(wire'[e][l], "SENDME") = Count(wire[e][l], "SENDME")
           \/ due /\ Count(wire'[e][l], "SENDME") = Count(wire[e][l], "SENDME") + 1
    BY <1>2, <1>4, <1>9, <2>1, <2>3 DEF TakenCount
  <2>5. ASSUME circ[o][l] # "closed"
        PROVE  inflight[o][l] >= SendmeInc * Count(wire'[e][l], "SENDME")
                                   + count + Count(wire'[o][l], "DATA")
    <3> DEFINE n == Count(wire[e][l], "SENDME")
               d == Count(wire'[o][l], "DATA")
               x == IF cell.cmd = "DATA" THEN 1 ELSE 0
               u == unacked[e][l]
               p == SendmeInc * n
    <3>1. inflight[o][l] >= SendmeInc * n + u + Count(wire[o][l], "DATA")
      BY <1>2, <2>5 DEF IInv, InflightCovers
    <3>2. inflight[o][l] \in Nat /\ n \in Nat /\ d \in Nat /\ u \in Nat
      BY <1>2, <2>4 DEF IInv, TypeOK
    <3>3. SendmeInc * (n + 1) = SendmeInc * n + SendmeInc /\ SendmeInc * n \in Nat
      BY <1>6, <3>2, TimesMore
    <3>4. Count(wire[o][l], "DATA") = d + x /\ x \in {0, 1}
      BY <2>4
    <3>5. \/ Count(wire'[e][l], "SENDME") = n
          \/ due /\ Count(wire'[e][l], "SENDME") = n + 1
      BY <2>4
    <3>6. count = IF due THEN 0 ELSE u + x
      BY <3>2
    <3>7. due => u + 1 = SendmeInc /\ x = 1
      BY <1>8
    <3> HIDE DEF n, d, u, p, x, count
    <3>8. p \in Nat /\ inflight[o][l] >= p + u + (d + x)
      BY <3>1, <3>3, <3>4 DEF p
    <3>9. CASE Count(wire'[e][l], "SENDME") = n
      <4>1. count <= u + x /\ count \in Nat /\ x \in Nat
        BY <3>2, <3>4, <3>6
      <4>2. inflight[o][l] >= p + count + d
        BY <3>2, <3>8, <4>1
      <4> QED
        BY <3>9, <4>2 DEF d, p
    <3>10. CASE due /\ Count(wire'[e][l], "SENDME") = n + 1
      <4>1. SendmeInc * Count(wire'[e][l], "SENDME") = p + SendmeInc /\ count = 0
        BY <3>3, <3>6, <3>10 DEF p
      <4>2. inflight[o][l] >= (p + SendmeInc) + 0 + d
        BY <1>6, <3>2, <3>7, <3>8, <3>10
      <4> QED
        BY <4>1, <4>2 DEF d
    <3> QED
      BY <3>5, <3>9, <3>10
  <2> SUFFICES ASSUME NEW f \in End, NEW m \in Leg, circ[f][m] # "closed"
               PROVE  inflight[f][m] >= SendmeInc * Count(wire'[Other(f)][m], "SENDME")
                                + unacked'[Other(f)][m] + Count(wire'[f][m], "DATA")
    BY <1>1 DEF InflightCovers
  <2>6. CASE m # l
    <3>1. Other(f) \in End
      BY Ends
    <3>2. /\ wire'[f][m] = wire[f][m] /\ wire'[Other(f)][m] = wire[Other(f)][m]
          /\ unacked'[Other(f)][m] = unacked[Other(f)][m]
      BY <2>1, <2>2, <2>6, <3>1
    <3> QED
      BY <3>2 DEF IInv, InflightCovers
  <2>7. CASE m = l /\ f = e
    <3>1. unacked'[o][l] = unacked[o][l]
      BY <1>2, <2>2
    <3> QED
      BY <2>4, <2>7, <3>1 DEF IInv, InflightCovers
  <2>8. CASE m = l /\ f = o
    BY <1>2, <2>2, <2>5, <2>8
  <2> QED
    BY <1>2, <2>6, <2>7, <2>8
<1>17. CurrLegAhead'
  BY <1>1 DEF IInv, CurrLegAhead, RelativeSeq
<1> QED
  BY <1>12, <1>13, <1>14, <1>15, <1>16, <1>17 DEF LinkingKept, IInv
-----------------------------------------------------------------------------
(* Linking *)

\* The empty wire.
LEMMA NoCells == /\ << >> \in Seq(Cell) /\ DOMAIN << >> = {}
                 /\ ~Broken(<< >>)
  BY EmptySeq DEF Broken

\* The set is launched: circuits that were never there are being built.
LEMMA LaunchSetKeeps ==
  ASSUME IInv, LaunchSet
  PROVE  IInv'
<1>1. /\ circ = AllLegs("none")
      /\ circ' = [circ EXCEPT !["client"] =
                    [l \in Leg |-> IF l \in unlinked' THEN "building" ELSE "none"]]
      /\ UNCHANGED <<link, legs, curr_leg, measured, flow, wire, closes>>
  BY DEF LaunchSet
<1>2. /\ unlinked' \in SUBSET Leg /\ num_leg_launch' \in 0..MaxLaunch
      /\ \A l \in unlinked' : l <= num_leg_launch'
  <2>1. NumLegsSet \in Nat \ {0} /\ MaxLaunch \in Nat /\ NumLegsSet <= MaxLaunch
    BY ConfluxAssumption DEF MaxLaunch
  <2>2. CASE unlinked' = 1..NumLegsSet /\ num_leg_launch' = NumLegsSet
    BY <2>1, <2>2 DEF Leg
  <2>3. ASSUME NEW ok \in 1..(NumLegsSet - 1),
               unlinked' = 1..ok /\ num_leg_launch' = MaxLaunch
        PROVE  /\ unlinked' \in SUBSET Leg /\ num_leg_launch' \in 0..MaxLaunch
               /\ \A l \in unlinked' : l <= num_leg_launch'
    BY <2>1, <2>3 DEF Leg
  <2>4. ASSUME NEW ok \in 1..(NumLegsSet - 1), NEW last \in (ok + 2)..MaxLaunch,
               unlinked' = 1..ok \cup {last} /\ num_leg_launch' = last
        PROVE  /\ unlinked' \in SUBSET Leg /\ num_leg_launch' \in 0..MaxLaunch
               /\ \A l \in unlinked' : l <= num_leg_launch'
    BY <2>1, <2>4 DEF Leg
  <2> QED
    BY <2>2, <2>3, <2>4 DEF LaunchSet
<1>3. /\ \A e \in End, l \in Leg : circ[e][l] = "none" /\ wire[e][l] = << >>
      /\ \A l \in Leg : link[l] = NULL
  <2>1. \A e \in End, l \in Leg : circ[e][l] = "none"
    BY <1>1 DEF AllLegs
  <2>2. "client" \in End
    BY DEF End
  <2> QED
    BY <2>1, <2>2 DEF IInv, CircuitsInSets
<1>4. unlinked = {} /\ \A e \in End : legs[e] = {}
  BY <1>3 DEF IInv, TypeOK, CircuitsInSets, End
<1>5. sent["client"] = << >>
  BY <1>3 DEF IInv, CircuitsInSets, End
<1>6. /\ circ' \in [End -> [Leg -> {"none", "building", "open", "closed"}]]
      /\ \A l \in Leg : circ'["exit"][l] = "none"
      /\ \A l \in Leg :
           circ'["client"][l] = IF l \in unlinked' THEN "building" ELSE "none"
  BY <1>1, <1>3 DEF IInv, TypeOK, End
<1>7. TypeOK' /\ FieldTypes'
  <2>1. TypeOK'
    BY <1>1, <1>2, <1>3, <1>4, <1>6 DEF IInv, TypeOK, flow
  <2>2. FieldTypes'
    BY <1>1 DEF IInv, FieldTypes, flow
  <2> QED
    BY <2>1, <2>2
<1>8. CircuitsInSets'
  <2>1. \A l \in Leg : l \in Nat
    BY Legs
  <2>2. "client" \in End
    BY DEF End
  <2> QED
    BY <1>1, <1>2, <1>3, <1>4, <1>5, <1>6, <2>1, <2>2 DEF CircuitsInSets, flow
<1>9. LinkCells'
  BY <1>1, <1>3, <1>4, <1>6, NoCells DEF LinkCells, LegLinks, End
<1>10. CellsLinked'
  BY <1>1, <1>3, <1>4, <1>6, NoCells DEF CellsLinked, End
<1>11. SendersFirst'
  BY <1>1 DEF IInv, SendersFirst, flow
<1>12. LegsCounted'
  BY <1>1 DEF IInv, LegsCounted, flow
<1>13. InflightCovers'
  BY <1>1, <1>3 DEF IInv, InflightCovers, flow
<1>14. CurrLegAhead'
  BY <1>1 DEF IInv, CurrLegAhead, RelativeSeq, flow
<1> QED
  BY <1>7, <1>8, <1>9, <1>10, <1>11, <1>12, <1>13, <1>14 DEF IInv

\* A LINK says that nothing was sent or received.
LEMMA NothingSentYet ==
  ASSUME IInv, unlinked # {}
  PROVE  /\ legs["client"] = {} /\ sent["client"] = << >> /\ sent["exit"] = << >>
         /\ \A e \in End : last_seq_delivered[e] = 0
         /\ \A e \in End, l \in Leg : last_seq_sent[e][l] = 0
<1>1. legs["client"] = {} /\ sent["client"] = << >>
  BY DEF IInv, CircuitsInSets
<1>2. sent["exit"] = << >>
  BY <1>1 DEF IInv, SendersFirst
<1>3. \A e \in End : sent[e] = << >>
  BY <1>1, <1>2 DEF End
<1>4. \A e \in End : last_seq_delivered[e] = 0
  <2> SUFFICES ASSUME NEW e \in End
               PROVE  last_seq_delivered[e] = 0
    OBVIOUS
  <2>1. Other(e) \in End /\ Other(Other(e)) = e
    BY Ends
  <2>2. ~(last_seq_delivered[Other(Other(e))] > 0)
    BY <1>3, <2>1 DEF IInv, SendersFirst
  <2>3. last_seq_delivered[e] \in Nat
    BY DEF IInv, FieldTypes
  <2> QED
    BY <2>1, <2>2, <2>3
<1> QED
  BY <1>1, <1>2, <1>3, <1>4 DEF IInv, SendersFirst

\* A circuit of the set opens and carries the LINK.
LEMMA OpenedKeeps ==
  ASSUME IInv, NEW l \in Leg, Opened(l)
  PROVE  IInv'
<1> DEFINE c == [cmd |-> "LINK",
                 last_seqno_sent |-> MaxOver(legs["client"], last_seq_sent["client"]),
                 last_seqno_recv |-> last_seq_delivered["client"]]
<1>1. /\ circ["client"][l] = "building"
      /\ circ' = [e \in End |-> [circ[e] EXCEPT ![l] = "open"]]
      /\ wire' = [wire EXCEPT !["client"][l] = <<c>>]
      /\ UNCHANGED <<pool, legs, curr_leg, measured, flow, closes>>
  BY DEF Opened
<1>2. "client" \in End /\ "exit" \in End /\ Other("client") = "exit"
      /\ Other("exit") = "client" /\ \A f \in End : f = "client" \/ f = "exit"
  BY DEF End, Other
<1>3. l \in unlinked /\ link[l] = NULL /\ circ["exit"][l] = "none"
      /\ \A e \in End : wire[e][l] = << >>
  BY <1>1 DEF IInv, CircuitsInSets
<1>4. /\ c \in Cell /\ c.cmd = "LINK" /\ c.last_seqno_sent = 0 /\ c.last_seqno_recv = 0
  <2>1. legs["client"] = {} /\ last_seq_delivered["client"] = 0
    BY <1>2, <1>3, NothingSentYet
  <2>2. last_seq_sent["client"] \in [Leg -> Nat]
    BY <1>2 DEF IInv, TypeOK
  <2>3. MaxOver(legs["client"], last_seq_sent["client"]) = 0
    BY <2>1, <2>2, MaxOverNone
  <2> QED
    BY <2>1, <2>3 DEF Cell
<1> HIDE DEF c
<1>5. /\ circ' \in [End -> [Leg -> {"none", "building", "open", "closed"}]]
      /\ \A f \in End, m \in Leg :
           circ'[f][m] = IF m = l THEN "open" ELSE circ[f][m]
  BY <1>1 DEF IInv, TypeOK
<1>6. /\ wire' \in WireType /\ wire'["client"][l] = <<c>>
      /\ \A f \in End, m \in Leg : f # "client" \/ m # l => wire'[f][m] = wire[f][m]
  <2>1. <<c>> \in Seq(Cell)
    BY <1>4
  <2>2. wire \in WireType
    BY DEF IInv, FieldTypes, WireType
  <2> QED
    BY <1>1, <1>2, <2>1, <2>2 DEF WireType
<1>7. /\ DOMAIN <<c>> = {1} /\ <<c>>[1] = c
  OBVIOUS
<1>8. l \notin legs["client"] /\ l \notin legs["exit"]
  BY <1>1, <1>2, <1>3 DEF IInv, TypeOK
<1>9. TypeOK' /\ FieldTypes'
  <2>1. \A f \in End : legs[f] \subseteq {m \in Leg : circ'[f][m] = "open"}
    BY <1>5 DEF IInv, TypeOK
  <2>2. TypeOK'
    BY <1>1, <1>5, <1>6, <2>1, WireCells DEF IInv, TypeOK, pool, flow
  <2>3. FieldTypes'
    BY <1>1, <1>6 DEF IInv, FieldTypes, WireType, pool, flow
  <2> QED
    BY <2>2, <2>3
<1>a. unlinked' = unlinked /\ link' = link /\ legs' = legs
  BY <1>1 DEF pool
<1>10. CircuitsInSets'
  BY <1>1, <1>2, <1>3, <1>5, <1>6 DEF IInv, CircuitsInSets, pool, flow
<1>11. LinkCells'
  <2> SUFFICES ASSUME NEW m \in Leg
               PROVE  LegLinks(m)'
    BY DEF LinkCells
  <2>1. CASE m # l
    <3>1. /\ wire'["client"][m] = wire["client"][m] /\ wire'["exit"][m] = wire["exit"][m]
          /\ circ'["exit"][m] = circ["exit"][m]
      BY <1>2, <1>5, <1>6, <2>1
    <3> QED
      BY <1>a, <3>1 DEF IInv, LinkCells, LegLinks
  <2>2. CASE m = l
    <3>1. wire'["exit"][l] = << >>
      BY <1>2, <1>3, <1>6
    <3> QED
      BY <1>a, <1>3, <1>4, <1>6, <1>7, <1>8, <2>2, <3>1, NoCells
         DEF LegLinks
  <2> QED
    BY <2>1, <2>2
<1>12. CellsLinked'
  <2>1. ASSUME NEW f \in End, NEW m \in Leg, circ'[Other(f)][m] = "open",
               NEW i \in DOMAIN wire'[f][m],
               wire'[f][m][i].cmd \notin {"LINK", "LINKED", "DESTROY"}
        PROVE  m \in legs[Other(f)]
    <3>1. Other(f) \in End
      BY Ends
    <3>2. CASE m # l
      BY <1>5, <1>6, <2>1, <3>1, <3>2 DEF IInv, CellsLinked
    <3>3. CASE m = l /\ f = "client"
      BY <1>4, <1>6, <1>7, <2>1, <3>3
    <3>4. CASE m = l /\ f = "exit"
      BY <1>2, <1>3, <1>6, <2>1, <3>4, NoCells
    <3> QED
      BY <1>2, <3>2, <3>3, <3>4
  <2>2. ASSUME NEW m \in Leg, circ'["exit"][m] = "open"
        PROVE  /\ \A i \in DOMAIN wire'["client"][m] :
                    wire'["client"][m][i].cmd \in {"SWITCH", "DATA", "OTHER"} =>
                      \/ m \in measured["exit"]
                      \/ \E k \in 1..(i - 1) : wire'["client"][m][k].cmd = "LINKED_ACK"
               /\ (m \in legs["client"] \/ link[m] # NULL)
                    /\ ~Broken(wire'["client"][m]) =>
                      \/ m \in measured["exit"]
                      \/ \E k \in DOMAIN wire'["client"][m] :
                           wire'["client"][m][k].cmd = "LINKED_ACK"
    <3>1. CASE m # l
      <4>1. wire'["client"][m] = wire["client"][m] /\ circ["exit"][m] = "open"
        BY <1>2, <1>5, <1>6, <2>2, <3>1
      <4> QED
        BY <4>1 DEF IInv, CellsLinked
    <3>2. CASE m = l
      BY <1>3, <1>4, <1>6, <1>7, <1>8, <3>2
    <3> QED
      BY <3>1, <3>2
  <2> QED
    BY <1>1, <2>1, <2>2 DEF CellsLinked, pool
<1>13. SendersFirst'
  <2>1. \A f \in End, m \in Leg : \A i \in DOMAIN wire'[f][m] :
          Multiplexed(wire'[f][m][i]) => sent[f] # << >>
    <3>1. ~Multiplexed(c)
      BY <1>4 DEF Multiplexed
    <3> QED
      BY <1>6, <1>7, <3>1 DEF IInv, SendersFirst
  <2> QED
    BY <1>1, <2>1 DEF IInv, SendersFirst, flow
<1>14. LegsCounted'
  BY <1>1 DEF IInv, LegsCounted, flow
<1>15. InflightCovers'
  <2>1. \A cmd \in {"DATA", "SENDME"} : \A f \in End, m \in Leg :
          Count(wire'[f][m], cmd) = Count(wire[f][m], cmd)
    <3> SUFFICES ASSUME NEW cmd \in {"DATA", "SENDME"}
                 PROVE  Count(wire'["client"][l], cmd) = Count(wire["client"][l], cmd)
      BY <1>6
    <3>1. << >> \in Seq(Cell) /\ << >> \o <<c>> = <<c>>
      <4>1. <<c>> \in Seq(Cell)
        BY <1>4
      <4> QED
        BY <4>1, EmptySeq, ConcatEmptySeq
    <3>2. Count(<< >> \o <<c>>, cmd) = Count(<< >>, cmd) + (IF c.cmd = cmd THEN 1 ELSE 0)
      BY <1>4, <3>1, CountAppended
    <3>3. Count(<< >>, cmd) = 0
      BY CountEmpty
    <3> QED
      BY <1>2, <1>3, <1>4, <1>6, <3>1, <3>2, <3>3
  <2>2. \A f \in End, m \in Leg : circ[f][m] # "closed" \/ m = l
                                  => circ[f][m] # "closed"
    BY <1>1, <1>2, <1>3
  <2>3. \A f \in End, m \in Leg : circ'[f][m] # "closed" => circ[f][m] # "closed"
    BY <1>5, <2>2
  <2> QED
    BY <1>1, <2>1, <2>3, Ends DEF IInv, InflightCovers, flow
<1>16. CurrLegAhead'
  BY <1>1 DEF IInv, CurrLegAhead, RelativeSeq, flow
<1> QED
  BY <1>9, <1>10, <1>11, <1>12, <1>13, <1>14, <1>15, <1>16 DEF IInv

\* The exit takes a leg into its set and answers.
LEMMA ReceiveLinkKeeps ==
  ASSUME IInv, NEW l \in Leg, ReceiveLink(l)
  PROVE  IInv'
<1> DEFINE cell == Head(wire["client"][l])
           new == legs["exit"] = {}
           seq == IF new THEN 0 ELSE last_seq_delivered["exit"]
           queue == IF new THEN {} ELSE ooo_q["exit"]
           c == [cmd |-> "LINKED",
                 last_seqno_sent |-> MaxOver(legs["exit"], last_seq_sent["exit"]),
                 last_seqno_recv |-> seq]
<1>1. /\ Arrives("exit", l, {"LINK"})
      /\ legs' = [legs EXCEPT !["exit"] = @ \cup {l}]
      /\ last_seq_sent' = [last_seq_sent EXCEPT !["exit"][l] = cell.last_seqno_recv]
      /\ last_seq_recv' = [last_seq_recv EXCEPT !["exit"][l] = cell.last_seqno_sent]
      /\ last_seq_delivered' = [last_seq_delivered EXCEPT !["exit"] = seq]
      /\ ooo_q' = [ooo_q EXCEPT !["exit"] = queue]
      /\ wire' = Taken("exit", l, <<c>>)
      /\ UNCHANGED <<circ, pool, curr_leg, measured, inflight, unacked, sent,
                     delivered, closes>>
  BY DEF ReceiveLink
<1>2. "client" \in End /\ "exit" \in End /\ Other("client") = "exit"
      /\ Other("exit") = "client" /\ \A f \in End : f = "client" \/ f = "exit"
  BY DEF End, Other
<1>3. /\ wire \in WireType /\ circ["exit"][l] = "open"
      /\ 1 \in DOMAIN wire["client"][l] /\ cell = wire["client"][l][1]
      /\ wire["client"][l][1].cmd = "LINK"
  <2>1. wire \in WireType
    BY DEF IInv, FieldTypes, WireType
  <2>2. wire["client"][l] \in Seq(Cell) /\ wire["client"][l] # << >>
    BY <1>1, <1>2, <2>1 DEF WireType, Arrives
  <2> QED
    BY <1>1, <1>2, <2>1, <2>2 DEF Arrives
<1>4. /\ link[l] = NULL /\ l \notin legs["client"] /\ l \notin legs["exit"]
      /\ \A k \in DOMAIN wire["exit"][l] : wire["exit"][l][k].cmd = "DESTROY"
      /\ cell.last_seqno_sent = 0 /\ cell.last_seqno_recv = 0
      /\ \A i \in DOMAIN wire["client"][l] :
           /\ wire["client"][l][i].cmd # "LINKED"
           /\ wire["client"][l][i].cmd = "LINK" => i = 1
  BY <1>3 DEF IInv, LinkCells, LegLinks
<1>5. seq \in Nat
  BY <1>2 DEF IInv, FieldTypes
<1>6. /\ c \in Cell /\ c.cmd = "LINKED" /\ c.last_seqno_recv = seq
      /\ <<c>> \in Seq(Cell)
  <2>1. legs["exit"] \in SUBSET Leg /\ last_seq_sent["exit"] \in [Leg -> Nat]
    BY <1>2 DEF IInv, FieldTypes, TypeOK
  <2>2. MaxOver(legs["exit"], last_seq_sent["exit"]) \in Nat
    BY <2>1, MaxOverLegs
  <2> HIDE DEF seq
  <2>3. c \in Cell
    BY <1>5, <2>2 DEF Cell
  <2> QED
    BY <2>3
<1> HIDE DEF c
<1>7. TakenOff(wire', "exit", l, {"LINK"}, c, <<c>>)
  BY <1>1, <1>2, <1>3, <1>6, TakenCells
<1>8. /\ wire' \in WireType
      /\ \A f \in End, m \in Leg : m # l => wire'[f][m] = wire[f][m]
      /\ \A i \in DOMAIN wire'["client"][l] :
           /\ i \in Nat \ {0} /\ i + 1 \in DOMAIN wire["client"][l]
           /\ wire'["client"][l][i] = wire["client"][l][i + 1]
      /\ \A i \in DOMAIN wire'["exit"][l] :
           \/ /\ i \in DOMAIN wire["exit"][l]
              /\ wire'["exit"][l][i] = wire["exit"][l][i]
           \/ /\ circ["client"][l] = "open" /\ wire'["exit"][l][i] = c
              /\ ~Broken(wire["exit"][l]) /\ i = Len(wire["exit"][l]) + 1
  BY <1>2, <1>7 DEF TakenOff
<1>9. \A i \in DOMAIN wire'["client"][l] :
        wire'["client"][l][i].cmd = "DESTROY"
  <2> SUFFICES ASSUME NEW i \in DOMAIN wire'["client"][l]
               PROVE  wire'["client"][l][i].cmd = "DESTROY"
    OBVIOUS
  <2>1. i + 1 \in DOMAIN wire["client"][l] /\ i + 1 # 1
        /\ wire'["client"][l][i] = wire["client"][l][i + 1]
    BY <1>8
  <2>2. wire["client"][l][i + 1].cmd \notin {"LINK", "LINKED"}
    BY <1>4, <2>1
  <2> QED
    BY <1>2, <1>3, <1>4, <2>1, <2>2 DEF IInv, CellsLinked
<1>10. \A i \in DOMAIN wire'["exit"][l] :
         \/ wire'["exit"][l][i].cmd = "DESTROY"
         \/ circ["client"][l] = "open" /\ wire'["exit"][l][i] = c /\ i = 1
  <2>1. ~Broken(wire["exit"][l]) => Len(wire["exit"][l]) = 0
    <3>1. wire["exit"][l] \in Seq(Cell)
      BY <1>2, <1>3 DEF WireType
    <3>2. DOMAIN wire["exit"][l] = 1..Len(wire["exit"][l])
          /\ Len(wire["exit"][l]) \in Nat
      BY <3>1
    <3> QED
      BY <1>4, <3>2 DEF Broken
  <2> QED
    BY <1>4, <1>8, <2>1
<1>11. /\ legs' \in [End -> SUBSET Leg] /\ legs'["exit"] = legs["exit"] \cup {l}
       /\ legs'["client"] = legs["client"]
  BY <1>1, <1>2 DEF IInv, FieldTypes
<1>12. /\ last_seq_sent' \in [End -> [Leg -> Nat]]
       /\ last_seq_sent'["exit"][l] = 0
       /\ \A f \in End, m \in Leg :
            f # "exit" \/ m # l => last_seq_sent'[f][m] = last_seq_sent[f][m]
       /\ last_seq_recv' \in [End -> [Leg -> Nat]]
       /\ last_seq_recv'["exit"][l] = 0
       /\ \A f \in End, m \in Leg :
            f # "exit" \/ m # l => last_seq_recv'[f][m] = last_seq_recv[f][m]
  BY <1>1, <1>2, <1>4 DEF IInv, TypeOK
<1>13. /\ last_seq_delivered' \in [End -> Nat]
       /\ last_seq_delivered'["client"] = last_seq_delivered["client"]
       /\ last_seq_delivered'["exit"] = seq
  BY <1>1, <1>2, <1>5 DEF IInv, FieldTypes
<1>14. l \in unlinked => seq = 0
  BY <1>2, NothingSentYet
<1>15. circ["client"][l] = "open" => l \in unlinked /\ c.last_seqno_recv = 0
  BY <1>4, <1>6, <1>14 DEF IInv, CircuitsInSets
<1>a. circ' = circ /\ unlinked' = unlinked /\ link' = link
  BY <1>1 DEF pool
<1>16. TypeOK' /\ FieldTypes'
  <2>1. \A f \in End :
          /\ legs'[f] \subseteq {m \in Leg : circ[f][m] = "open"}
          /\ legs[f] \subseteq legs'[f]
    <3>1. legs'["exit"] \subseteq {m \in Leg : circ["exit"][m] = "open"}
      BY <1>2, <1>3, <1>11 DEF IInv, TypeOK
    <3>2. legs'["client"] \subseteq {m \in Leg : circ["client"][m] = "open"}
      BY <1>2, <1>11 DEF IInv, TypeOK
    <3> QED
      BY <1>2, <1>11, <3>1, <3>2
  <2>2. \A f \in End : measured[f] \subseteq legs'[f]
                       /\ curr_leg[f] \in legs'[f] \cup {NULL}
    BY <2>1 DEF IInv, TypeOK
  <2>3. \A counter \in {last_seq_sent, last_seq_recv, inflight, unacked}' :
          counter \in [End -> [Leg -> Nat]]
    <3>1. inflight \in [End -> [Leg -> Nat]] /\ unacked \in [End -> [Leg -> Nat]]
      BY DEF IInv, TypeOK
    <3> QED
      BY <1>1, <1>12, <3>1
  <2>4. TypeOK'
    <3>1. \A f \in End, m \in Leg :
            \A i \in DOMAIN wire'[f][m] : wire'[f][m][i] \in Cell
      BY <1>8, WireCells
    <3> QED
      BY <1>1, <2>1, <2>2, <2>3, <3>1 DEF IInv, TypeOK, pool
  <2>5. /\ ooo_q' \in [End -> SUBSET [seq : Nat, no : Nat]]
        /\ \A f \in End : IsFiniteSet(ooo_q'[f])
    <3>1. queue \in SUBSET [seq : Nat, no : Nat] /\ IsFiniteSet(queue)
      BY <1>2, FS_EmptySet DEF IInv, FieldTypes
    <3> HIDE DEF queue
    <3> QED
      BY <1>1, <3>1 DEF IInv, FieldTypes
  <2>6. FieldTypes'
    BY <1>1, <1>8, <1>11, <1>13, <2>5 DEF IInv, FieldTypes, WireType, pool
  <2> QED
    BY <2>4, <2>6
<1>17. CircuitsInSets'
  <2>1. \A f \in End, m \in Leg :
          circ["client"][m] \in {"none", "building"} => wire'[f][m] = << >>
    BY <1>3, <1>8, NoCells DEF IInv, CircuitsInSets
  <2> QED
    BY <1>1, <1>11, <2>1 DEF IInv, CircuitsInSets, pool
<1>18. LinkCells'
  <2> SUFFICES ASSUME NEW m \in Leg
               PROVE  LegLinks(m)'
    BY DEF LinkCells
  <2>1. CASE m # l
    <3>1. wire'["client"][m] = wire["client"][m] /\ wire'["exit"][m] = wire["exit"][m]
      BY <1>2, <1>8, <2>1
    <3>2. /\ m \in legs'["exit"] <=> m \in legs["exit"]
          /\ m \in legs'["client"] <=> m \in legs["client"]
      BY <1>11, <2>1
    <3>3. LegLinks(m)
      BY DEF IInv, LinkCells
    <3> QED
      BY <1>a, <3>1, <3>2, <3>3 DEF LegLinks
  <2>2. CASE m = l
    <3>1. \A i \in DOMAIN wire'["client"][l] :
            wire'["client"][l][i].cmd \notin {"LINK", "LINKED"}
      BY <1>9
    <3>2. \A i \in DOMAIN wire'["exit"][l] :
            /\ wire'["exit"][l][i].cmd \notin {"LINK", "LINKED_ACK"}
            /\ wire'["exit"][l][i].cmd = "LINKED" =>
                 i = 1 /\ l \in unlinked /\ wire'["exit"][l][i].last_seqno_recv = 0
      BY <1>6, <1>10, <1>15
    <3> QED
      BY <1>a, <1>4, <1>11, <2>2, <3>1, <3>2 DEF LegLinks
  <2> QED
    BY <2>1, <2>2
<1>19. CellsLinked'
  <2>1. ASSUME NEW f \in End, NEW m \in Leg, circ[Other(f)][m] = "open",
               NEW i \in DOMAIN wire'[f][m],
               wire'[f][m][i].cmd \notin {"LINK", "LINKED", "DESTROY"}
        PROVE  m \in legs'[Other(f)]
    <3>1. CASE m # l
      BY <1>2, <1>8, <1>11, <2>1, <3>1 DEF IInv, CellsLinked
    <3>2. CASE m = l /\ f = "client"
      BY <1>9, <2>1, <3>2
    <3>3. CASE m = l /\ f = "exit"
      BY <1>6, <1>10, <2>1, <3>3
    <3> QED
      BY <1>2, <3>1, <3>2, <3>3
  <2>2. ASSUME NEW m \in Leg, circ["exit"][m] = "open"
        PROVE  /\ \A i \in DOMAIN wire'["client"][m] :
                    wire'["client"][m][i].cmd \in {"SWITCH", "DATA", "OTHER"} =>
                      \/ m \in measured["exit"]
                      \/ \E k \in 1..(i - 1) : wire'["client"][m][k].cmd = "LINKED_ACK"
               /\ (m \in legs["client"] \/ link[m] # NULL)
                    /\ ~Broken(wire'["client"][m]) =>
                      \/ m \in measured["exit"]
                      \/ \E k \in DOMAIN wire'["client"][m] :
                           wire'["client"][m][k].cmd = "LINKED_ACK"
    <3>1. CASE m # l
      <4>1. wire'["client"][m] = wire["client"][m]
        BY <1>2, <1>8, <3>1
      <4> QED
        BY <2>2, <4>1 DEF IInv, CellsLinked
    <3>2. CASE m = l
      BY <1>4, <1>9, <3>2
    <3> QED
      BY <3>1, <3>2
  <2> QED
    BY <1>1, <1>a, <1>11, <2>1, <2>2 DEF CellsLinked
<1>20. SendersFirst'
  <2>1. \A f \in End : last_seq_delivered'[Other(f)] > 0 => sent[f] # << >>
    <3>1. last_seq_delivered'["exit"] > 0 => last_seq_delivered["exit"] > 0
      BY <1>13
    <3> QED
      BY <1>2, <1>13, <3>1 DEF IInv, SendersFirst
  <2>2. \A f \in End, m \in Leg : sent[f] = << >> => last_seq_sent'[f][m] = 0
    BY <1>12 DEF IInv, SendersFirst
  <2>3. \A f \in End, m \in Leg : \A i \in DOMAIN wire'[f][m] :
          Multiplexed(wire'[f][m][i]) => sent[f] # << >>
    <3>1. \A i \in DOMAIN wire'["client"][l] : ~Multiplexed(wire'["client"][l][i])
      BY <1>9 DEF Multiplexed
    <3>2. \A i \in DOMAIN wire'["exit"][l] : ~Multiplexed(wire'["exit"][l][i])
      BY <1>6, <1>10 DEF Multiplexed
    <3> QED
      BY <1>2, <1>8, <3>1, <3>2 DEF IInv, SendersFirst
  <2> QED
    BY <1>1, <2>1, <2>2, <2>3 DEF IInv, SendersFirst
<1>21. LegsCounted'
  <2>1. \A f \in End : curr_leg[f] = NULL =>
          \A m \in legs'[f] : last_seq_sent'[f][m] = 0
    <3> SUFFICES ASSUME NEW f \in End, curr_leg[f] = NULL, NEW m \in legs'[f]
                 PROVE  last_seq_sent'[f][m] = 0
      OBVIOUS
    <3>1. m \in Leg /\ (m \in legs[f] \/ (f = "exit" /\ m = l))
      BY <1>2, <1>11
    <3> QED
      BY <1>12, <3>1 DEF IInv, LegsCounted
  <2>2. \A m \in legs'["exit"] : last_seq_recv'["exit"][m] > 0 => m \in measured["exit"]
    <3> SUFFICES ASSUME NEW m \in legs'["exit"], last_seq_recv'["exit"][m] > 0
                 PROVE  m \in measured["exit"]
      OBVIOUS
    <3>1. m # l /\ m \in legs["exit"] /\ m \in Leg
      BY <1>2, <1>11, <1>12
    <3> QED
      BY <1>2, <1>12, <3>1 DEF IInv, LegsCounted
  <2>3. last_seq_delivered'["exit"] > 0 /\ legs'["exit"] # {} =>
          \E m \in legs'["exit"] : last_seq_recv'["exit"][m] > 0
    <3> SUFFICES ASSUME last_seq_delivered'["exit"] > 0
                 PROVE  \E m \in legs'["exit"] : last_seq_recv'["exit"][m] > 0
      OBVIOUS
    <3>1. legs["exit"] # {} /\ last_seq_delivered["exit"] > 0
      BY <1>13
    <3>2. PICK m \in legs["exit"] : last_seq_recv["exit"][m] > 0
      BY <3>1 DEF IInv, LegsCounted
    <3>3. m # l /\ m \in Leg /\ m \in legs'["exit"]
      BY <1>2, <1>4, <1>11
    <3> QED
      BY <1>2, <1>12, <3>2, <3>3
  <2> QED
    BY <1>1, <1>11, <2>1, <2>2, <2>3 DEF IInv, LegsCounted
<1>22. InflightCovers'
  <2>1. {"LINK"} \subseteq {"SWITCH", "LINKED_ACK", "LINKED", "LINK"}
        /\ c.cmd \notin {"DATA", "SENDME"}
    BY <1>6
  <2>2. UNCHANGED <<circ, inflight, unacked>>
    BY <1>1
  <2> QED
    BY <1>1, <1>2, <1>6, <2>1, <2>2, TakenUncounted
<1>23. CurrLegAhead'
  <2> SUFFICES ASSUME NEW f \in End, curr_leg[f] # NULL, NEW m \in legs'[f]
               PROVE  last_seq_sent'[f][curr_leg[f]] - last_seq_sent'[f][m] >= 0
    BY <1>1 DEF CurrLegAhead, RelativeSeq
  <2>1. curr_leg[f] \in legs[f] /\ curr_leg[f] \in Leg
    BY DEF IInv, TypeOK, FieldTypes
  <2>2. last_seq_sent'[f][curr_leg[f]] = last_seq_sent[f][curr_leg[f]]
        /\ last_seq_sent[f][curr_leg[f]] \in Nat
    <3>1. f # "exit" \/ curr_leg[f] # l
      BY <1>4, <2>1
    <3>2. last_seq_sent'[f][curr_leg[f]] = last_seq_sent[f][curr_leg[f]]
      BY <1>12, <2>1, <3>1
    <3>3. last_seq_sent \in [End -> [Leg -> Nat]]
      BY DEF IInv, TypeOK
    <3> QED
      BY <2>1, <3>2, <3>3
  <2>3. CASE m \in legs[f]
    <3>1. m \in Leg /\ last_seq_sent'[f][m] = last_seq_sent[f][m]
      BY <1>4, <1>11, <1>12, <2>3
    <3> QED
      BY <2>2, <2>3, <3>1 DEF IInv, CurrLegAhead, RelativeSeq
  <2>4. CASE m \notin legs[f]
    <3>1. f = "exit" /\ m = l
      BY <1>2, <1>11, <2>4
    <3> QED
      BY <1>12, <2>2, <3>1
  <2> QED
    BY <2>3, <2>4
<1> QED
  BY <1>16, <1>17, <1>18, <1>19, <1>20, <1>21, <1>22, <1>23 DEF IInv

\* LINKED on the last of its unlinked legs makes the client's set.
LEMMA ReceiveLinkedKeeps ==
  ASSUME IInv, NEW l \in Leg, ReceiveLinked(l)
  PROVE  IInv'
<1> DEFINE cell == Head(wire["exit"][l])
           links == [link EXCEPT ![l] = Head(wire["exit"][l])]
           joining == IF Finalizes(l) THEN Joining(l) ELSE {}
           c == [cmd |-> "LINKED_ACK"]
<1>1. /\ Arrives("client", l, {"LINKED"})
      /\ wire' = Taken("client", l, <<c>>)
      /\ legs' = [legs EXCEPT !["client"] = @ \cup joining]
      /\ measured' = [measured EXCEPT !["client"] = @ \cup joining]
      /\ last_seq_sent' = [last_seq_sent EXCEPT !["client"] =
           [m \in Leg |-> IF m \in joining THEN links[m].last_seqno_recv ELSE @[m]]]
      /\ last_seq_recv' = [last_seq_recv EXCEPT !["client"] =
           [m \in Leg |-> IF m \in joining THEN links[m].last_seqno_sent ELSE @[m]]]
      /\ unlinked' = unlinked \ joining
      /\ link' = [m \in Leg |-> IF m \in joining THEN NULL ELSE links[m]]
      /\ num_leg_launch' = IF Finalizes(l) THEN 0 ELSE num_leg_launch
      /\ UNCHANGED <<circ, curr_leg, inflight, unacked, last_seq_delivered, ooo_q,
                     sent, delivered, closes>>
  BY DEF ReceiveLinked, LinkedAck
<1>2. "client" \in End /\ "exit" \in End /\ Other("client") = "exit"
      /\ Other("exit") = "client" /\ \A f \in End : f = "client" \/ f = "exit"
  BY DEF End, Other
<1>3. /\ wire \in WireType /\ circ["client"][l] = "open"
      /\ 1 \in DOMAIN wire["exit"][l] /\ cell = wire["exit"][l][1]
      /\ cell \in Cell /\ cell.cmd = "LINKED"
  <2>1. wire \in WireType
    BY DEF IInv, FieldTypes, WireType
  <2>2. wire["exit"][l] \in Seq(Cell) /\ wire["exit"][l] # << >>
    BY <1>1, <1>2, <2>1 DEF WireType, Arrives
  <2> QED
    BY <1>1, <1>2, <2>1, <2>2 DEF Arrives
<1>4. /\ link[l] = NULL /\ l \in unlinked
      /\ circ["exit"][l] = "open" => l \in legs["exit"]
      /\ cell.last_seqno_recv = 0
      /\ \A i \in DOMAIN wire["exit"][l] :
           /\ wire["exit"][l][i].cmd \notin {"LINK", "LINKED_ACK"}
           /\ wire["exit"][l][i].cmd = "LINKED" => i = 1
      /\ \A i \in DOMAIN wire["client"][l] :
           wire["client"][l][i].cmd \notin {"LINK", "LINKED"}
  <2>1. LegLinks(l)
    BY DEF IInv, LinkCells
  <2>2. cell.cmd # "DESTROY"
    BY <1>3
  <2> QED
    BY <1>3, <2>1, <2>2 DEF LegLinks
<1>5. c \in Cell /\ <<c>> \in Seq(Cell) /\ c.cmd = "LINKED_ACK"
  BY Commands
<1>6. /\ legs["client"] = {} /\ sent["client"] = << >>
      /\ \A f \in End, m \in Leg : last_seq_sent[f][m] = 0
      /\ measured["client"] = {} /\ curr_leg["client"] = NULL
  <2>1. legs["client"] = {} /\ sent["client"] = << >>
        /\ \A f \in End, m \in Leg : last_seq_sent[f][m] = 0
    BY <1>4, NothingSentYet
  <2> QED
    BY <1>2, <2>1 DEF IInv, LegsCounted, TypeOK
<1> HIDE DEF c
<1>7. TakenOff(wire', "client", l, {"LINKED"}, c, <<c>>)
  BY <1>1, <1>2, <1>3, <1>5, TakenCells
<1>8. /\ wire' \in WireType
      /\ \A f \in End, m \in Leg : m # l => wire'[f][m] = wire[f][m]
      /\ \A i \in DOMAIN wire'["exit"][l] :
           /\ i \in Nat \ {0} /\ i + 1 \in DOMAIN wire["exit"][l]
           /\ wire'["exit"][l][i] = wire["exit"][l][i + 1]
      /\ \A i \in DOMAIN wire["client"][l] :
           /\ i \in DOMAIN wire'["client"][l] /\ i \in Nat
           /\ \A k \in 1..i : wire'["client"][l][k] = wire["client"][l][k]
      /\ \A i \in DOMAIN wire'["client"][l] :
           \/ /\ i \in DOMAIN wire["client"][l]
              /\ wire'["client"][l][i] = wire["client"][l][i]
              /\ \A k \in 1..i : wire'["client"][l][k] = wire["client"][l][k]
           \/ /\ circ["exit"][l] = "open" /\ wire'["client"][l][i] = c
      /\ circ["exit"][l] = "open" /\ ~Broken(wire["client"][l]) =>
           \E i \in DOMAIN wire'["client"][l] : wire'["client"][l][i] = c
  BY <1>2, <1>7 DEF TakenOff
<1>9. /\ joining \subseteq unlinked /\ unlinked \subseteq Leg
      /\ \A m \in joining : m = l \/ link[m] # NULL
      /\ joining = {} \/ joining = unlinked
  BY DEF Finalizes, Joining, IInv, TypeOK
<1>10. joining = {} \/ unlinked' = {}
  BY <1>1, <1>9
<1>11. link \in [Leg -> Cell \cup {NULL}] /\ NULL \notin Leg
  BY ConfluxAssumption DEF IInv, FieldTypes
<1>12. /\ links \in [Leg -> Cell \cup {NULL}]
       /\ \A m \in Leg : links[m] = IF m = l THEN cell ELSE link[m]
  BY <1>3, <1>11
<1>13. \A m \in Leg : links[m] # NULL /\ (m = l \/ link[m] # NULL) =>
         links[m].cmd = "LINKED" /\ links[m].last_seqno_recv = 0
  BY <1>3, <1>4, <1>12 DEF IInv, LinkCells, LegLinks
<1> HIDE DEF joining, links, cell
<1>14. /\ link' \in [Leg -> Cell \cup {NULL}]
       /\ \A m \in Leg : link'[m] = IF m \in joining THEN NULL ELSE links[m]
  BY <1>1, <1>12
<1>15. \A m \in joining : /\ m \in Leg /\ circ["client"][m] = "open"
                          /\ links[m].last_seqno_recv = 0
                          /\ links[m].last_seqno_sent \in Nat
  <2> SUFFICES ASSUME NEW m \in joining
               PROVE  /\ m \in Leg /\ circ["client"][m] = "open"
                      /\ links[m].last_seqno_recv = 0
                      /\ links[m].last_seqno_sent \in Nat
    OBVIOUS
  <2>1. m \in Leg /\ m \in unlinked
    BY <1>9
  <2>2. circ["client"][m] = "open"
    BY <1>3, <1>9, <2>1 DEF IInv, CircuitsInSets
  <2>3. links[m] \in Cell
    <3>1. CASE m = l
      BY <1>3, <1>12, <3>1
    <3>2. CASE m # l
      <4>1. link[m] # NULL /\ link[m] \in Cell
        BY <1>9, <1>11, <2>1, <3>2
      <4> QED
        BY <1>12, <2>1, <3>2, <4>1
    <3> QED
      BY <3>1, <3>2
  <2>4. links[m].cmd = "LINKED" /\ links[m].last_seqno_recv = 0
    <3>1. CASE m = l
      BY <1>3, <1>4, <1>12, <3>1
    <3>2. CASE m # l
      <4>1. link[m] # NULL /\ links[m] = link[m]
        BY <1>9, <1>12, <2>1, <3>2
      <4> QED
        BY <2>1, <4>1 DEF IInv, LinkCells, LegLinks
    <3> QED
      BY <3>1, <3>2
  <2>5. links[m].last_seqno_sent \in Nat
    BY <2>3, <2>4 DEF Cell
  <2> QED
    BY <2>1, <2>2, <2>4, <2>5
<1>16. /\ legs' \in [End -> SUBSET Leg] /\ legs'["client"] = joining
       /\ legs'["exit"] = legs["exit"]
       /\ measured' \in [End -> SUBSET Leg] /\ measured'["client"] = joining
       /\ measured'["exit"] = measured["exit"]
  <2>1. joining \in SUBSET Leg
    BY <1>9
  <2> QED
    BY <1>1, <1>2, <1>6, <2>1 DEF IInv, FieldTypes
<1>17. /\ last_seq_sent' \in [End -> [Leg -> Nat]]
       /\ \A f \in End, m \in Leg : last_seq_sent'[f][m] = 0
       /\ last_seq_recv' \in [End -> [Leg -> Nat]]
       /\ last_seq_recv'["exit"] = last_seq_recv["exit"]
  <2>1. /\ last_seq_sent \in [End -> [Leg -> Nat]]
        /\ last_seq_recv \in [End -> [Leg -> Nat]]
    BY DEF IInv, TypeOK
  <2> DEFINE ss == [m \in Leg |-> IF m \in joining THEN links[m].last_seqno_recv
                                  ELSE last_seq_sent["client"][m]]
             rr == [m \in Leg |-> IF m \in joining THEN links[m].last_seqno_sent
                                  ELSE last_seq_recv["client"][m]]
  <2>2. /\ ss \in [Leg -> Nat] /\ \A m \in Leg : ss[m] = 0
        /\ rr \in [Leg -> Nat]
    BY <1>2, <1>6, <1>15, <2>1
  <2>3. last_seq_sent' = [last_seq_sent EXCEPT !["client"] = ss]
        /\ last_seq_recv' = [last_seq_recv EXCEPT !["client"] = rr]
    BY <1>1, <2>1
  <2> HIDE DEF ss, rr
  <2> QED
    BY <1>2, <1>6, <2>1, <2>2, <2>3
<1>18. TypeOK' /\ FieldTypes'
  <2>1. \A f \in End :
          /\ legs'[f] \subseteq {m \in Leg : circ[f][m] = "open"}
          /\ measured'[f] \subseteq legs'[f]
          /\ curr_leg[f] \in legs'[f] \cup {NULL}
    <3>1. /\ legs'["client"] \subseteq {m \in Leg : circ["client"][m] = "open"}
          /\ measured'["client"] \subseteq legs'["client"]
          /\ curr_leg["client"] \in legs'["client"] \cup {NULL}
      BY <1>6, <1>15, <1>16
    <3>2. /\ legs'["exit"] \subseteq {m \in Leg : circ["exit"][m] = "open"}
          /\ measured'["exit"] \subseteq legs'["exit"]
          /\ curr_leg["exit"] \in legs'["exit"] \cup {NULL}
      BY <1>2, <1>16 DEF IInv, TypeOK
    <3> QED
      BY <1>2, <3>1, <3>2
  <2>2. \A counter \in {last_seq_sent, last_seq_recv, inflight, unacked}' :
          counter \in [End -> [Leg -> Nat]]
    BY <1>1, <1>17 DEF IInv, TypeOK
  <2>3. \A m \in Leg : link'[m] # NULL => m \in unlinked' /\ link'[m] \in Cell
    <3> SUFFICES ASSUME NEW m \in Leg, link'[m] # NULL
                 PROVE  m \in unlinked' /\ link'[m] \in Cell
      OBVIOUS
    <3>1. m \notin joining /\ link'[m] = links[m]
      BY <1>14
    <3>2. m \in unlinked
      BY <1>4, <1>12, <3>1 DEF IInv, TypeOK
    <3> QED
      BY <1>1, <1>14, <3>1, <3>2
  <2>4. unlinked' \subseteq Leg /\ num_leg_launch' \in 0..MaxLaunch
    BY <1>1, <1>9, Legs DEF IInv, TypeOK
  <2>5. TypeOK'
    BY <1>1, <1>8, <2>1, <2>2, <2>3, <2>4, WireCells, SMTT(20) DEF IInv, TypeOK
  <2>6. FieldTypes'
    BY <1>1, <1>8, <1>14, <1>16 DEF IInv, FieldTypes, WireType
  <2> QED
    BY <2>5, <2>6
<1>19. CircuitsInSets'
  <2>1. \A f \in End, m \in Leg :
          circ["client"][m] \in {"none", "building"} => wire'[f][m] = << >>
    BY <1>3, <1>8 DEF IInv, CircuitsInSets
  <2>2. \A m \in Leg : circ["client"][m] \in {"none", "building"} =>
          circ["exit"][m] = "none" /\ link'[m] = NULL
    BY <1>3, <1>12, <1>14 DEF IInv, CircuitsInSets
  <2>3. \A m \in Leg :
          /\ circ["client"][m] = "open" => m \in unlinked' \cup legs'["client"]
          /\ circ["client"][m] = "building" => m \in unlinked'
          /\ m \in unlinked' => circ["client"][m] \in {"building", "open"}
    <3>1. unlinked' \subseteq unlinked /\ \A m \in unlinked : m \in unlinked' \/ m \in joining
      BY <1>1
    <3>2. legs["client"] = {}
      BY <1>6
    <3> QED
      BY <1>15, <1>16, <3>1, <3>2 DEF IInv, CircuitsInSets
  <2>4. unlinked' # {} => /\ num_leg_launch' = num_leg_launch
                          /\ legs'["client"] = {} /\ unlinked # {}
    <3>1. CASE Finalizes(l)
      <4>1. unlinked' = {}
        BY <1>1, <3>1 DEF Finalizes, joining
      <4> QED
        BY <4>1
    <3>2. CASE ~Finalizes(l)
      BY <1>1, <1>4, <1>16, <3>2 DEF joining
    <3> QED
      BY <3>1, <3>2
  <2> QED
    BY <1>1, <1>6, <2>1, <2>2, <2>3, <2>4 DEF IInv, CircuitsInSets
<1>20. LinkCells'
  <2> SUFFICES ASSUME NEW m \in Leg
               PROVE  LegLinks(m)'
    BY DEF LinkCells
  <2>1. LegLinks(m)
    BY DEF IInv, LinkCells
  <2>2. (link'[m] # NULL \/ m \in legs'["client"]) => link[m] # NULL \/ m = l
    BY <1>9, <1>12, <1>14, <1>16
  <2>3. m # l /\ link[m] = NULL =>
          link'[m] = NULL /\ m \notin legs'["client"]
          /\ (m \in unlinked => m \in unlinked')
    BY <1>1, <1>9, <1>12, <1>14, <1>16
  <2>4. link'[m] # NULL => link'[m].cmd = "LINKED" /\ link'[m].last_seqno_recv = 0
    <3> SUFFICES ASSUME link'[m] # NULL
                 PROVE  link'[m].cmd = "LINKED" /\ link'[m].last_seqno_recv = 0
      OBVIOUS
    <3>1. link'[m] = links[m]
      BY <1>14
    <3> QED
      BY <1>13, <2>2, <3>1
  <2>5. (link'[m] # NULL \/ m \in legs'["client"]) /\ circ["exit"][m] = "open" =>
          m \in legs["exit"]
    BY <1>4, <2>1, <2>2 DEF LegLinks
  <2>6. CASE m # l
    <3>1. wire'["client"][m] = wire["client"][m] /\ wire'["exit"][m] = wire["exit"][m]
      BY <1>2, <1>8, <2>6
    <3> QED
      BY <1>1, <1>16, <2>1, <2>3, <2>4, <2>5, <2>6, <3>1 DEF LegLinks
  <2>7. CASE m = l
    <3>1. \A i \in DOMAIN wire'["client"][l] :
            wire'["client"][l][i].cmd \notin {"LINK", "LINKED"}
      BY <1>4, <1>5, <1>8
    <3>2. \A i \in DOMAIN wire'["exit"][l] :
            wire'["exit"][l][i].cmd \notin {"LINK", "LINKED_ACK", "LINKED"}
      BY <1>4, <1>8
    <3> QED
      BY <1>1, <1>16, <2>4, <2>5, <2>7, <3>1, <3>2 DEF LegLinks
  <2> QED
    BY <2>6, <2>7
<1>21. CellsLinked'
  <2>1. ASSUME NEW f \in End, NEW m \in Leg, circ[Other(f)][m] = "open",
               NEW i \in DOMAIN wire'[f][m],
               wire'[f][m][i].cmd \notin {"LINK", "LINKED", "DESTROY"}
        PROVE  m \in legs'[Other(f)]
    <3>1. legs[Other(f)] \subseteq legs'[Other(f)]
      BY <1>2, <1>6, <1>16
    <3>2. CASE m # l
      BY <1>2, <1>8, <2>1, <3>1, <3>2 DEF IInv, CellsLinked
    <3>3. CASE m = l /\ f = "client"
      BY <1>2, <1>4, <1>8, <1>16, <2>1, <3>3
    <3>4. CASE m = l /\ f = "exit"
      BY <1>2, <1>8, <2>1, <3>1, <3>4 DEF IInv, CellsLinked
    <3> QED
      BY <1>2, <3>2, <3>3, <3>4
  <2>2. ASSUME NEW m \in Leg, circ["exit"][m] = "open",
               NEW i \in DOMAIN wire'["client"][m],
               wire'["client"][m][i].cmd \in {"SWITCH", "DATA", "OTHER"}
        PROVE  \/ m \in measured["exit"]
               \/ \E k \in 1..(i - 1) : wire'["client"][m][k].cmd = "LINKED_ACK"
    <3>1. CASE m # l
      <4>1. wire'["client"][m] = wire["client"][m]
        BY <1>2, <1>8, <3>1
      <4> QED
        BY <2>2, <4>1 DEF IInv, CellsLinked
    <3>2. CASE m = l
      <4>1. /\ i \in DOMAIN wire["client"][l] /\ wire'["client"][l][i] = wire["client"][l][i]
            /\ \A k \in 1..i : wire'["client"][l][k] = wire["client"][l][k]
        BY <1>5, <1>8, <2>2, <3>2
      <4>2. i \in Nat
        BY <1>8, <4>1
      <4>3. \/ l \in measured["exit"]
            \/ \E k \in 1..(i - 1) : wire["client"][l][k].cmd = "LINKED_ACK"
        BY <2>2, <3>2, <4>1 DEF IInv, CellsLinked
      <4>4. \A k \in 1..(i - 1) : wire'["client"][l][k] = wire["client"][l][k]
        BY <4>1, <4>2
      <4> QED
        BY <3>2, <4>3, <4>4
    <3> QED
      BY <3>1, <3>2
  <2>3. ASSUME NEW m \in Leg, circ["exit"][m] = "open",
               m \in legs'["client"] \/ link'[m] # NULL, ~Broken(wire'["client"][m])
        PROVE  \/ m \in measured["exit"]
               \/ \E k \in DOMAIN wire'["client"][m] :
                    wire'["client"][m][k].cmd = "LINKED_ACK"
    <3>1. CASE m # l
      <4>1. wire'["client"][m] = wire["client"][m]
        BY <1>2, <1>8, <3>1
      <4>2. link[m] # NULL
        BY <1>9, <1>12, <1>14, <1>16, <2>3, <3>1
      <4> QED
        BY <2>3, <4>1, <4>2 DEF IInv, CellsLinked
    <3>2. CASE m = l
      <4>1. \A i \in DOMAIN wire["client"][l] :
              i \in DOMAIN wire'["client"][l] /\ wire'["client"][l][i] = wire["client"][l][i]
        <5>1. \A i \in DOMAIN wire["client"][l] : i \in 1..i
          BY <1>2, <1>3 DEF WireType
        <5> QED
          BY <1>8, <5>1
      <4>2. ~Broken(wire["client"][l])
        BY <2>3, <3>2, <4>1 DEF Broken
      <4> QED
        BY <1>5, <1>8, <2>3, <3>2, <4>2
    <3> QED
      BY <3>1, <3>2
  <2> QED
    BY <1>1, <1>16, <2>1, <2>2, <2>3 DEF CellsLinked
<1>22. SendersFirst'
  <2>1. \A f \in End, m \in Leg : \A i \in DOMAIN wire'[f][m] :
          Multiplexed(wire'[f][m][i]) => sent[f] # << >>
    <3> SUFFICES ASSUME NEW f \in End, NEW m \in Leg, NEW i \in DOMAIN wire'[f][m],
                        Multiplexed(wire'[f][m][i])
                 PROVE  sent[f] # << >>
      OBVIOUS
    <3>1. CASE m # l
      BY <1>8, <3>1 DEF IInv, SendersFirst
    <3>2. CASE m = l /\ f = "exit"
      BY <1>8, <3>2 DEF IInv, SendersFirst
    <3>3. CASE m = l /\ f = "client"
      <4>1. wire'[f][m][i].cmd # "LINKED_ACK"
        BY DEF Multiplexed
      <4> QED
        BY <1>5, <1>8, <3>3, <4>1 DEF IInv, SendersFirst
    <3> QED
      BY <1>2, <3>1, <3>2, <3>3
  <2> QED
    BY <1>1, <1>17, <2>1 DEF IInv, SendersFirst
<1>23. LegsCounted'
  <2>1. \A f \in End : \A m \in legs'[f] : last_seq_sent'[f][m] = 0
    BY <1>16, <1>17
  <2> QED
    BY <1>1, <1>2, <1>16, <1>17, <2>1 DEF IInv, LegsCounted
<1>24. InflightCovers'
  <2>1. {"LINKED"} \subseteq {"SWITCH", "LINKED_ACK", "LINKED", "LINK"}
        /\ c.cmd \notin {"DATA", "SENDME"}
    BY <1>5
  <2>2. UNCHANGED <<circ, inflight, unacked>>
    BY <1>1
  <2> QED
    BY <1>1, <1>2, <1>5, <2>1, <2>2, TakenUncounted
<1>25. CurrLegAhead'
  <2>1. \A f \in End : curr_leg[f] # NULL => curr_leg[f] \in Leg
    BY DEF IInv, FieldTypes
  <2> QED
    BY <1>1, <1>16, <1>17, <2>1 DEF CurrLegAhead, RelativeSeq
<1> QED
  BY <1>18, <1>19, <1>20, <1>21, <1>22, <1>23, <1>24, <1>25 DEF IInv
-----------------------------------------------------------------------------
(* Sending *)

\* One cell more, seen from the wire it joins.
GrownBy(r, w, cells) ==
  /\ r \in Seq(Cell)
  /\ \A i \in DOMAIN w :
       i \in DOMAIN r /\ i \in Nat /\ \A k \in 1..i : r[k] = w[k]
  /\ \A i \in DOMAIN r :
       \/ i \in DOMAIN w /\ r[i] = w[i] /\ \A k \in 1..i : r[k] = w[k]
       \/ i \in Nat /\ i > Len(w) /\ r[i] \in cells

\* Appending one cell makes a wire grow so.
LEMMA Grown ==
  ASSUME NEW w \in Seq(Cell), NEW d \in Cell, NEW cells, d \in cells
  PROVE  GrownBy(w \o <<d>>, w, cells)
<1> DEFINE r == w \o <<d>>
<1>1. /\ r \in Seq(Cell)
      /\ DOMAIN w = 1..Len(w) /\ DOMAIN r = 1..(Len(w) + 1)
      /\ Len(w) \in Nat
      /\ \A i \in 1..Len(w) : r[i] = w[i]
      /\ r[Len(w) + 1] = d
  BY AppendedCell
<1> HIDE DEF r
<1>2. \A i \in DOMAIN w :
        i \in DOMAIN r /\ i \in Nat /\ \A k \in 1..i : r[k] = w[k]
  BY <1>1
<1>3. \A i \in DOMAIN r :
        \/ i \in DOMAIN w /\ r[i] = w[i] /\ \A k \in 1..i : r[k] = w[k]
        \/ i \in Nat /\ i > Len(w) /\ r[i] \in cells
  <2> SUFFICES ASSUME NEW i \in DOMAIN r
               PROVE  \/ i \in DOMAIN w /\ r[i] = w[i] /\ \A k \in 1..i : r[k] = w[k]
                      \/ i \in Nat /\ i > Len(w) /\ r[i] \in cells
    OBVIOUS
  <2>1. CASE i = Len(w) + 1
    BY <1>1, <2>1
  <2>2. CASE i # Len(w) + 1
    <3>1. i \in 1..Len(w)
      BY <1>1, <2>2
    <3> QED
      BY <1>1, <3>1
  <2> QED
    BY <2>1, <2>2
<1> QED
  BY <1>1, <1>2, <1>3 DEF GrownBy, r

\* A cell goes behind the wire, on a change of legs with a SWITCH before it.
LEMMA SentWire ==
  ASSUME NEW w \in Seq(Cell), NEW s \in Cell, NEW d \in Cell,
         NEW cells \in Seq(Cell),
         cells = << >> \o <<d>> \/ cells = <<s>> \o <<d>>, s.cmd = "SWITCH"
  PROVE  /\ GrownBy(w \o cells, w, {s, d})
         /\ \A cmd \in {"DATA", "SENDME"} :
              Count(w \o cells, cmd) = Count(w, cmd) + (IF d.cmd = cmd THEN 1 ELSE 0)
<1>1. <<s>> \in Seq(Cell) /\ <<d>> \in Seq(Cell) /\ << >> \in Seq(Cell)
  BY EmptySeq
<1>2. CASE cells = << >> \o <<d>>
  <2>1. cells = <<d>>
    BY <1>1, <1>2, ConcatEmptySeq
  <2>2. GrownBy(w \o <<d>>, w, {s, d})
    BY Grown
  <2>3. \A cmd \in {"DATA", "SENDME"} :
          Count(w \o <<d>>, cmd) = Count(w, cmd) + (IF d.cmd = cmd THEN 1 ELSE 0)
    BY CountAppended
  <2> QED
    BY <1>1, <2>1, <2>2, <2>3
<1>3. CASE cells = <<s>> \o <<d>>
  <2> DEFINE v == w \o <<s>>
  <2>1. v \in Seq(Cell) /\ w \o cells = v \o <<d>>
    BY <1>1, <1>3, ConcatAssociative
  <2>2. cells \in Seq(Cell)
    BY <1>1, <1>3
  <2>3. GrownBy(v, w, {s, d}) /\ Len(v) = Len(w) + 1 /\ Len(w) \in Nat
    BY Grown, AppendedCell
  <2>4. \A cmd \in {"DATA", "SENDME"} : Count(v, cmd) = Count(w, cmd) + 0
    <3>1. \A cmd \in {"DATA", "SENDME"} :
            Count(v, cmd) = Count(w, cmd) + (IF s.cmd = cmd THEN 1 ELSE 0)
      BY CountAppended
    <3> QED
      BY <3>1
  <2> HIDE DEF v
  <2>5. GrownBy(v \o <<d>>, v, {s, d})
    BY <2>1, Grown
  <2>6. \A cmd \in {"DATA", "SENDME"} :
          Count(v \o <<d>>, cmd) = Count(v, cmd) + (IF d.cmd = cmd THEN 1 ELSE 0)
    BY <2>1, CountAppended
  <2>7. GrownBy(v \o <<d>>, w, {s, d})
    <3> DEFINE r == v \o <<d>>
    <3>1. \A i \in DOMAIN w :
            i \in DOMAIN r /\ i \in Nat /\ \A k \in 1..i : r[k] = w[k]
      <4> SUFFICES ASSUME NEW i \in DOMAIN w
                   PROVE  i \in DOMAIN r /\ i \in Nat /\ \A k \in 1..i : r[k] = w[k]
        OBVIOUS
      <4>1. i \in DOMAIN v /\ i \in Nat /\ \A k \in 1..i : v[k] = w[k]
        BY <2>3 DEF GrownBy
      <4>2. i \in DOMAIN r /\ \A k \in 1..i : r[k] = v[k]
        BY <2>5, <4>1 DEF GrownBy
      <4> QED
        BY <4>1, <4>2
    <3>2. \A i \in DOMAIN r :
            \/ i \in DOMAIN w /\ r[i] = w[i] /\ \A k \in 1..i : r[k] = w[k]
            \/ i \in Nat /\ i > Len(w) /\ r[i] \in {s, d}
      <4> SUFFICES ASSUME NEW i \in DOMAIN r
                   PROVE  \/ /\ i \in DOMAIN w /\ r[i] = w[i]
                             /\ \A k \in 1..i : r[k] = w[k]
                          \/ i \in Nat /\ i > Len(w) /\ r[i] \in {s, d}
        OBVIOUS
      <4>1. CASE i \in Nat /\ i > Len(v) /\ r[i] \in {s, d}
        BY <2>3, <4>1
      <4>2. CASE i \in DOMAIN v /\ r[i] = v[i] /\ \A k \in 1..i : r[k] = v[k]
        <5>1. \/ i \in DOMAIN w /\ v[i] = w[i] /\ \A k \in 1..i : v[k] = w[k]
              \/ i \in Nat /\ i > Len(w) /\ v[i] \in {s, d}
          BY <2>3, <4>2 DEF GrownBy
        <5> QED
          BY <4>2, <5>1
      <4> QED
        BY <2>5, <4>1, <4>2 DEF GrownBy
    <3>3. r \in Seq(Cell)
      BY <2>5 DEF GrownBy
    <3> QED
      BY <3>1, <3>2, <3>3 DEF GrownBy
  <2>8. \A cmd \in {"DATA", "SENDME"} :
          Count(v \o <<d>>, cmd) = Count(w, cmd) + (IF d.cmd = cmd THEN 1 ELSE 0)
    <3>1. \A cmd \in {"DATA", "SENDME"} : Count(w, cmd) \in Nat
      BY CountType
    <3> QED
      BY <2>4, <2>6, <3>1
  <2> QED
    BY <2>1, <2>2, <2>7, <2>8
<1> QED
  BY <1>2, <1>3

\* A cell is sent on a leg that is in both sets, after a SWITCH if the leg is
\* not the one before.
LEMMA SendKeeps ==
  ASSUME IInv, NEW e \in End, NEW cmd \in {"DATA", "OTHER"}, Send(e, cmd)
  PROVE  IInv'
<1> DEFINE o == Other(e)
<1>1. PICK prev \in FirstLegs(e) : \E curr \in NextLegs(e, prev, cmd) :
        /\ curr_leg' = [curr_leg EXCEPT ![e] = curr]
        /\ last_seq_sent' =
             [last_seq_sent EXCEPT ![e][curr] = last_seq_sent[e][prev] + 1]
        /\ wire' = Put(wire, e, curr, Switch(e, prev, curr)
                         \o << [cmd |-> cmd, no |-> Len(sent[e]) + 1] >>)
        /\ inflight' = [inflight EXCEPT ![e][curr] = IF cmd = "DATA" THEN @ + 1 ELSE @]
        /\ sent' = [sent EXCEPT ![e] = Append(@, [leg |-> curr, cmd |-> cmd])]
  BY DEF Send
<1>2. PICK curr \in NextLegs(e, prev, cmd) :
        /\ curr_leg' = [curr_leg EXCEPT ![e] = curr]
        /\ last_seq_sent' =
             [last_seq_sent EXCEPT ![e][curr] = last_seq_sent[e][prev] + 1]
        /\ wire' = Put(wire, e, curr, Switch(e, prev, curr)
                         \o << [cmd |-> cmd, no |-> Len(sent[e]) + 1] >>)
        /\ inflight' = [inflight EXCEPT ![e][curr] = IF cmd = "DATA" THEN @ + 1 ELSE @]
        /\ sent' = [sent EXCEPT ![e] = Append(@, [leg |-> curr, cmd |-> cmd])]
  BY <1>1
<1>3. /\ legs[e] # {} /\ (e = "exit" => last_seq_delivered["exit"] > 0)
      /\ UNCHANGED <<circ, pool, legs, measured, last_seq_recv, unacked,
                     last_seq_delivered, ooo_q, delivered, closes>>
  BY DEF Send, MaySend
<1>a. circ' = circ /\ unlinked' = unlinked /\ link' = link
  BY <1>3 DEF pool
<1>4. /\ o \in End /\ o # e /\ Other(o) = e /\ \A f \in End : f = e \/ f = o
      /\ \/ e = "client" /\ o = "exit"
         \/ e = "exit" /\ o = "client"
      /\ "client" \in End /\ "exit" \in End
  BY Ends DEF End, Other
<1>5. /\ wire \in WireType /\ last_seq_sent \in [End -> [Leg -> Nat]]
      /\ inflight \in [End -> [Leg -> Nat]]
      /\ legs[e] \subseteq Leg /\ measured[e] \subseteq legs[e]
      /\ curr_leg[e] \in legs[e] \cup {NULL}
      /\ sent \in [End -> Seq([leg : Leg, cmd : {"DATA", "OTHER"}])]
      /\ NULL \notin Leg
  BY ConfluxAssumption DEF IInv, FieldTypes, TypeOK, WireType
<1>6. /\ prev \in legs[e] /\ prev \in Leg /\ curr \in legs[e] /\ curr \in Leg
      /\ circ[e][curr] = "open"
  <2>1. prev \in legs[e]
    BY <1>5 DEF FirstLegs
  <2>2. curr \in legs[e]
    BY <1>5, <2>1 DEF NextLegs
  <2> QED
    BY <1>5, <2>1, <2>2 DEF IInv, TypeOK
<1>7. \A l \in legs[e] : last_seq_sent[e][prev] >= last_seq_sent[e][l]
  <2> SUFFICES ASSUME NEW l \in legs[e]
               PROVE  last_seq_sent[e][prev] >= last_seq_sent[e][l]
    OBVIOUS
  <2>1. last_seq_sent[e][prev] \in Nat /\ last_seq_sent[e][l] \in Nat
    BY <1>5, <1>6
  <2>2. CASE curr_leg[e] = NULL
    BY <1>6, <2>1, <2>2 DEF IInv, LegsCounted
  <2>3. CASE curr_leg[e] # NULL
    <3>1. prev = curr_leg[e]
      BY <2>3 DEF FirstLegs
    <3> QED
      BY <2>1, <2>3, <3>1 DEF IInv, CurrLegAhead, RelativeSeq
  <2> QED
    BY <2>2, <2>3
<1> DEFINE s == [cmd |-> "SWITCH", relative_seq |->
                   last_seq_sent[e][prev] - last_seq_sent[e][curr]]
           d == [cmd |-> cmd, no |-> Len(sent[e]) + 1]
           cells == Switch(e, prev, curr) \o <<d>>
<1>8. /\ s \in Cell /\ s.cmd = "SWITCH"
      /\ d \in Cell /\ d.cmd = cmd
  <2>1. last_seq_sent[e][prev] - last_seq_sent[e][curr] \in Nat
    BY <1>5, <1>6, <1>7
  <2>2. Len(sent[e]) + 1 \in Nat
    BY <1>5
  <2> QED
    BY <2>1, <2>2 DEF Cell
<1>9. cells = << >> \o <<d>> \/ cells = <<s>> \o <<d>>
  BY DEF Switch, RelativeSeq
<1>10. wire' = Put(wire, e, curr, cells)
  BY <1>2
<1> HIDE DEF s, d, cells
<1>11. /\ wire[e][curr] \in Seq(Cell) /\ cells \in Seq(Cell)
       /\ GrownBy(wire[e][curr] \o cells, wire[e][curr], {s, d})
       /\ \A x \in {"DATA", "SENDME"} :
            Count(wire[e][curr] \o cells, x) =
              Count(wire[e][curr], x) + (IF cmd = x THEN 1 ELSE 0)
  <2>1. wire[e][curr] \in Seq(Cell)
    BY <1>5, <1>6 DEF WireType
  <2>2. <<s>> \in Seq(Cell) /\ <<d>> \in Seq(Cell)
    BY <1>8
  <2>3. cells \in Seq(Cell)
    <3>1. << >> \o <<d>> = <<d>>
      BY <2>2, ConcatEmptySeq
    <3>2. <<s>> \o <<d>> \in Seq(Cell)
      BY <2>2
    <3> QED
      BY <1>9, <2>2, <3>1, <3>2
  <2> QED
    <3>1. /\ GrownBy(wire[e][curr] \o cells, wire[e][curr], {s, d})
          /\ \A x \in {"DATA", "SENDME"} :
               Count(wire[e][curr] \o cells, x) =
                 Count(wire[e][curr], x) + (IF d.cmd = x THEN 1 ELSE 0)
      BY <1>8, <1>9, <2>1, <2>3, SentWire
    <3> QED
      BY <1>8, <2>1, <2>3, <3>1
<1>12. /\ wire' \in WireType
       /\ \A f \in End, m \in Leg : f # e \/ m # curr => wire'[f][m] = wire[f][m]
       /\ \/ wire'[e][curr] = wire[e][curr]
          \/ /\ circ[o][curr] = "open" /\ ~Broken(wire[e][curr])
             /\ wire'[e][curr] = wire[e][curr] \o cells
  <2>1. wire \in WireType /\ curr \in Leg /\ cells \in Seq(Cell)
    BY <1>5, <1>6, <1>11
  <2>2. /\ Put(wire, e, curr, cells) \in WireType
        /\ \A f \in End, m \in Leg : f # e \/ m # curr =>
             Put(wire, e, curr, cells)[f][m] = wire[f][m]
        /\ \/ Put(wire, e, curr, cells)[e][curr] = wire[e][curr]
           \/ /\ circ[Other(e)][curr] = "open" /\ ~Broken(wire[e][curr])
              /\ Put(wire, e, curr, cells)[e][curr] = wire[e][curr] \o cells
    BY <2>1, PutWire
  <2> QED
    BY <1>10, <2>2
<1>13. /\ \A i \in DOMAIN wire[e][curr] :
            /\ i \in DOMAIN wire'[e][curr] /\ i \in Nat
            /\ \A k \in 1..i : wire'[e][curr][k] = wire[e][curr][k]
       /\ \A i \in DOMAIN wire'[e][curr] :
            \/ /\ i \in DOMAIN wire[e][curr] /\ wire'[e][curr][i] = wire[e][curr][i]
               /\ \A k \in 1..i : wire'[e][curr][k] = wire[e][curr][k]
            \/ /\ circ[o][curr] = "open" /\ ~Broken(wire[e][curr])
               /\ i \in Nat /\ i > Len(wire[e][curr]) /\ wire'[e][curr][i] \in {s, d}
  <2>1. CASE wire'[e][curr] = wire[e][curr]
    <3>1. \A i \in DOMAIN wire[e][curr] : i \in Nat
      BY <1>11
    <3> QED
      BY <2>1, <3>1
  <2>2. CASE /\ circ[o][curr] = "open" /\ ~Broken(wire[e][curr])
             /\ wire'[e][curr] = wire[e][curr] \o cells
    BY <1>11, <2>2 DEF GrownBy
  <2> QED
    BY <1>12, <2>1, <2>2
<1>14. circ[o][curr] = "open" => curr \in legs[o]
  <2>1. CASE e = "client"
    BY <1>4, <1>6, <2>1 DEF IInv, LinkCells, LegLinks
  <2>2. CASE e = "exit"
    <3>1. sent["client"] # << >>
      BY <1>3, <1>4, <2>2, Ends DEF IInv, SendersFirst
    <3> QED
      BY <1>4, <1>6, <2>2, <3>1 DEF IInv, CircuitsInSets
  <2> QED
    BY <2>1, <2>2 DEF End
<1>15. /\ e = "client" => unlinked = {}
       /\ e = "exit" => sent["client"] # << >>
  BY <1>3, <1>4, Ends DEF IInv, CircuitsInSets, SendersFirst
<1>16. /\ sent' \in [End -> Seq([leg : Leg, cmd : {"DATA", "OTHER"}])]
       /\ sent'[e] # << >> /\ sent'[o] = sent[o]
  <2>1. [leg |-> curr, cmd |-> cmd] \in [leg : Leg, cmd : {"DATA", "OTHER"}]
    BY <1>6
  <2> DEFINE x == [leg |-> curr, cmd |-> cmd]
             T == [leg : Leg, cmd : {"DATA", "OTHER"}]
  <2>2. x \in T /\ sent[e] \in Seq(T) /\ sent \in [End -> Seq(T)]
        /\ sent' = [sent EXCEPT ![e] = Append(@, x)]
    BY <1>2, <1>5, <2>1
  <2> HIDE DEF x, T
  <2>3. Append(sent[e], x) \in Seq(T) /\ Append(sent[e], x) # << >>
    BY <2>2
  <2>4. sent' \in [End -> Seq(T)] /\ sent'[e] = Append(sent[e], x) /\ sent'[o] = sent[o]
    BY <1>4, <2>2, <2>3
  <2> QED
    BY <2>3, <2>4 DEF T
<1>17. /\ last_seq_sent' \in [End -> [Leg -> Nat]]
       /\ last_seq_sent'[e][curr] = last_seq_sent[e][prev] + 1
       /\ \A f \in End, m \in Leg :
            f # e \/ m # curr => last_seq_sent'[f][m] = last_seq_sent[f][m]
  BY <1>2, <1>5, <1>6
<1>18. /\ inflight' \in [End -> [Leg -> Nat]]
       /\ inflight'[e][curr] = inflight[e][curr] + (IF cmd = "DATA" THEN 1 ELSE 0)
       /\ \A f \in End, m \in Leg :
            f # e \/ m # curr => inflight'[f][m] = inflight[f][m]
  BY <1>2, <1>5, <1>6
<1>19. /\ curr_leg' \in [End -> Leg \cup {NULL}] /\ curr_leg'[e] = curr
       /\ curr_leg'[o] = curr_leg[o]
  BY <1>2, <1>4, <1>6 DEF IInv, FieldTypes
<1>20. TypeOK' /\ FieldTypes'
  <2>1. \A counter \in {last_seq_sent, last_seq_recv, inflight, unacked}' :
          counter \in [End -> [Leg -> Nat]]
    BY <1>3, <1>17, <1>18 DEF IInv, TypeOK
  <2>2. \A f \in End : curr_leg'[f] \in legs[f] \cup {NULL}
    BY <1>4, <1>6, <1>19 DEF IInv, TypeOK
  <2>3. TypeOK'
    BY <1>3, <1>12, <2>1, <2>2, WireCells DEF IInv, TypeOK, pool
  <2>4. FieldTypes'
    BY <1>3, <1>12, <1>16, <1>19 DEF IInv, FieldTypes, WireType, pool
  <2> QED
    BY <2>3, <2>4
<1>21. CircuitsInSets'
  <2>1. circ["client"][curr] \notin {"none", "building"}
    BY <1>4, <1>6 DEF IInv, CircuitsInSets
  <2>2. \A f \in End, m \in Leg :
          circ["client"][m] \in {"none", "building"} => wire'[f][m] = << >>
    BY <1>12, <2>1 DEF IInv, CircuitsInSets
  <2>3. unlinked # {} => sent'["client"] = << >>
    BY <1>4, <1>15, <1>16 DEF IInv, CircuitsInSets
  <2> QED
    BY <1>3, <1>6, <2>1, <2>2, <2>3 DEF IInv, CircuitsInSets, pool
<1>22. LinkCells'
  <2> SUFFICES ASSUME NEW m \in Leg
               PROVE  LegLinks(m)'
    BY DEF LinkCells
  <2>1. LegLinks(m)
    BY DEF IInv, LinkCells
  <2>2. CASE m # curr
    <3>1. wire'["client"][m] = wire["client"][m] /\ wire'["exit"][m] = wire["exit"][m]
      BY <1>4, <1>12, <2>2
    <3> QED
      BY <1>a, <1>3, <2>1, <3>1 DEF LegLinks
  <2>3. CASE m = curr
    <3>1. \A i \in DOMAIN wire["client"][curr] :
            wire["client"][curr][i].cmd \notin {"LINK", "LINKED"}
      BY <1>4, <1>6, <2>1, <2>3 DEF LegLinks
    <3>2. \A i \in DOMAIN wire'["client"][curr] :
            wire'["client"][curr][i].cmd \notin {"LINK", "LINKED"}
      BY <1>4, <1>6, <1>8, <1>12, <1>13, <3>1
    <3>3. \A i \in DOMAIN wire'["exit"][curr] :
            \/ /\ i \in DOMAIN wire["exit"][curr]
               /\ wire'["exit"][curr][i] = wire["exit"][curr][i]
            \/ wire'["exit"][curr][i].cmd \in {"SWITCH", "DATA", "OTHER"}
      <4>1. CASE e = "client"
        BY <1>4, <1>6, <1>12, <4>1
      <4>2. CASE e = "exit"
        BY <1>8, <1>13, <4>2
      <4> QED
        BY <1>4, <4>1, <4>2
    <3> QED
      BY <1>a, <1>3, <2>1, <2>3, <3>2, <3>3 DEF LegLinks
  <2> QED
    BY <2>2, <2>3
<1>23. CellsLinked'
  <2>1. ASSUME NEW f \in End, NEW m \in Leg, circ[Other(f)][m] = "open",
               NEW i \in DOMAIN wire'[f][m],
               wire'[f][m][i].cmd \notin {"LINK", "LINKED", "DESTROY"}
        PROVE  m \in legs[Other(f)]
    <3>1. CASE f # e \/ m # curr
      BY <1>12, <2>1, <3>1 DEF IInv, CellsLinked
    <3>2. CASE f = e /\ m = curr
      BY <1>14, <2>1, <3>2
    <3> QED
      BY <3>1, <3>2
  <2>2. ASSUME NEW m \in Leg, circ["exit"][m] = "open",
               NEW i \in DOMAIN wire'["client"][m],
               wire'["client"][m][i].cmd \in {"SWITCH", "DATA", "OTHER"}
        PROVE  \/ m \in measured["exit"]
               \/ \E k \in 1..(i - 1) : wire'["client"][m][k].cmd = "LINKED_ACK"
    <3>1. CASE e = "exit" \/ m # curr
      <4>1. wire'["client"][m] = wire["client"][m]
        BY <1>4, <1>12, <3>1
      <4> QED
        BY <2>2, <4>1 DEF IInv, CellsLinked
    <3>2. CASE e = "client" /\ m = curr
      <4>1. CASE /\ i \in DOMAIN wire["client"][m]
                 /\ wire'["client"][m][i] = wire["client"][m][i]
                 /\ \A k \in 1..i : wire'["client"][m][k] = wire["client"][m][k]
        <5>1. i \in Nat
          BY <1>13, <3>2, <4>1
        <5>2. \/ m \in measured["exit"]
              \/ \E k \in 1..(i - 1) : wire["client"][m][k].cmd = "LINKED_ACK"
          BY <2>2, <4>1 DEF IInv, CellsLinked
        <5>3. \A k \in 1..(i - 1) : wire'["client"][m][k] = wire["client"][m][k]
          BY <4>1, <5>1
        <5> QED
          BY <5>2, <5>3
      <4>2. CASE ~Broken(wire["client"][m]) /\ i \in Nat /\ i > Len(wire["client"][m])
        <5>1. \/ m \in measured["exit"]
              \/ \E k \in DOMAIN wire["client"][m] : wire["client"][m][k].cmd = "LINKED_ACK"
          BY <1>6, <2>2, <3>2, <4>2 DEF IInv, CellsLinked
        <5>2. CASE \E k \in DOMAIN wire["client"][m] :
                     wire["client"][m][k].cmd = "LINKED_ACK"
          <6>1. PICK k \in DOMAIN wire["client"][m] :
                  wire["client"][m][k].cmd = "LINKED_ACK"
            BY <5>2
          <6>2. DOMAIN wire["client"][m] = 1..Len(wire["client"][m])
                /\ Len(wire["client"][m]) \in Nat
            BY <1>11, <3>2
          <6>3. k \in 1..(i - 1) /\ k \in 1..k
            BY <4>2, <6>1, <6>2
          <6>4. wire'["client"][m][k] = wire["client"][m][k]
            BY <1>13, <3>2, <6>1, <6>3
          <6> QED
            BY <6>1, <6>3, <6>4
        <5> QED
          BY <5>1, <5>2
      <4> QED
        BY <1>13, <3>2, <4>1, <4>2
    <3> QED
      BY <1>4, <3>1, <3>2
  <2>3. ASSUME NEW m \in Leg, circ["exit"][m] = "open",
               m \in legs["client"] \/ link[m] # NULL, ~Broken(wire'["client"][m])
        PROVE  \/ m \in measured["exit"]
               \/ \E k \in DOMAIN wire'["client"][m] :
                    wire'["client"][m][k].cmd = "LINKED_ACK"
    <3>1. \A k \in DOMAIN wire["client"][m] :
            /\ k \in DOMAIN wire'["client"][m]
            /\ wire'["client"][m][k] = wire["client"][m][k]
      <4>1. CASE e = "exit" \/ m # curr
        BY <1>4, <1>12, <4>1
      <4>2. CASE e = "client" /\ m = curr
        <5>1. \A k \in DOMAIN wire["client"][m] : k \in 1..k
          BY <1>11, <4>2
        <5> QED
          BY <1>13, <4>2, <5>1
      <4> QED
        BY <1>4, <4>1, <4>2
    <3>2. ~Broken(wire["client"][m])
      BY <2>3, <3>1 DEF Broken
    <3> QED
      BY <2>3, <3>1, <3>2 DEF IInv, CellsLinked
  <2> QED
    BY <1>a, <1>3, <2>1, <2>2, <2>3 DEF CellsLinked
<1>24. SendersFirst'
  <2>1. sent'["exit"] # << >> => sent'["client"] # << >>
    BY <1>4, <1>15, <1>16
  <2>2. \A f \in End : sent'[f] = << >> => f = o /\ sent[f] = << >>
    BY <1>4, <1>16
  <2>3. \A f \in End : sent[f] # << >> => sent'[f] # << >>
    BY <1>4, <1>16
  <2>4. \A f \in End : last_seq_delivered[Other(f)] > 0 => sent'[f] # << >>
    BY <2>3 DEF IInv, SendersFirst
  <2>5. \A f \in End, m \in Leg : sent'[f] = << >> => last_seq_sent'[f][m] = 0
    BY <1>4, <1>17, <2>2 DEF IInv, SendersFirst
  <2>6. \A f \in End, m \in Leg : \A i \in DOMAIN wire'[f][m] :
          Multiplexed(wire'[f][m][i]) => sent'[f] # << >>
    BY <1>4, <1>12, <1>16, <2>2 DEF IInv, SendersFirst
  <2> QED
    BY <1>3, <2>1, <2>4, <2>5, <2>6 DEF SendersFirst
<1>25. LegsCounted'
  <2>1. \A f \in End : curr_leg'[f] = NULL => \A m \in legs[f] : last_seq_sent'[f][m] = 0
    <3> SUFFICES ASSUME NEW f \in End, curr_leg'[f] = NULL, NEW m \in legs[f]
                 PROVE  last_seq_sent'[f][m] = 0
      OBVIOUS
    <3>1. f = o /\ curr_leg[f] = NULL
      BY <1>4, <1>5, <1>6, <1>19
    <3>2. m \in Leg
      BY DEF IInv, TypeOK
    <3> QED
      BY <1>4, <1>17, <3>1, <3>2 DEF IInv, LegsCounted
  <2> QED
    BY <1>3, <2>1 DEF IInv, LegsCounted
<1>26. InflightCovers'
  <2>1. /\ Count(wire'[e][curr], "SENDME") = Count(wire[e][curr], "SENDME")
        /\ Count(wire'[e][curr], "DATA") <=
             Count(wire[e][curr], "DATA") + (IF cmd = "DATA" THEN 1 ELSE 0)
        /\ Count(wire'[e][curr], "DATA") \in Nat
        /\ Count(wire[e][curr], "DATA") \in Nat
    <3>1. wire'[e][curr] \in Seq(Cell)
      BY <1>6, <1>12 DEF WireType
    <3>2. /\ Count(wire'[e][curr], "DATA") \in Nat
          /\ Count(wire[e][curr], "DATA") \in Nat
          /\ Count(wire[e][curr], "SENDME") \in Nat
      BY <1>11, <3>1, CountType
    <3>3. CASE wire'[e][curr] = wire[e][curr]
      BY <3>2, <3>3
    <3>4. CASE wire'[e][curr] = wire[e][curr] \o cells
      BY <1>11, <3>2, <3>4
    <3> QED
      BY <1>12, <3>3, <3>4
  <2> SUFFICES ASSUME NEW f \in End, NEW m \in Leg, circ[f][m] # "closed"
               PROVE  inflight'[f][m] >= SendmeInc * Count(wire'[Other(f)][m], "SENDME")
                                + unacked[Other(f)][m] + Count(wire'[f][m], "DATA")
    BY <1>a, <1>3 DEF InflightCovers
  <2>2. CASE m # curr
    <3>1. Other(f) \in End
      BY Ends
    <3>2. /\ wire'[f][m] = wire[f][m] /\ wire'[Other(f)][m] = wire[Other(f)][m]
          /\ inflight'[f][m] = inflight[f][m]
      BY <1>12, <1>18, <2>2, <3>1
    <3> QED
      BY <3>2 DEF IInv, InflightCovers
  <2>3. CASE m = curr /\ f = e
    <3> DEFINE p == SendmeInc * Count(wire[o][curr], "SENDME")
               n == Count(wire[e][curr], "DATA")
               n1 == Count(wire'[e][curr], "DATA")
               x == IF cmd = "DATA" THEN 1 ELSE 0
    <3>1. wire'[o][curr] = wire[o][curr] /\ wire[o][curr] \in Seq(Cell)
      BY <1>4, <1>5, <1>6, <1>12 DEF WireType
    <3>2. inflight[e][curr] >= p + unacked[o][curr] + n
      BY <2>3 DEF IInv, InflightCovers
    <3>3. Count(wire[o][curr], "SENDME") \in Nat /\ SendmeInc \in Nat
      BY <3>1, CountType, ConfluxAssumption
    <3>4. p \in Nat /\ unacked[o][curr] \in Nat /\ inflight[e][curr] \in Nat
      <4>1. p \in Nat
        BY <3>3
      <4>2. unacked[o][curr] \in Nat /\ inflight[e][curr] \in Nat
        BY <1>4, <1>6 DEF IInv, TypeOK
      <4> QED
        BY <4>1, <4>2
    <3>5. n \in Nat /\ n1 \in Nat /\ x \in Nat /\ n1 <= n + x
          /\ inflight'[e][curr] = inflight[e][curr] + x
      BY <1>18, <2>1
    <3>6. inflight'[f][m] >= SendmeInc * Count(wire[o][curr], "SENDME")
                               + unacked[o][curr] + n1
      <4> HIDE DEF p, n, n1, x
      <4>1. inflight'[e][curr] >= p + unacked[o][curr] + n1
        BY <3>2, <3>4, <3>5
      <4> QED
        BY <2>3, <4>1 DEF p
    <3> QED
      BY <2>3, <3>1, <3>6
  <2>4. CASE m = curr /\ f = o
    <3>1. /\ wire'[o][curr] = wire[o][curr] /\ inflight'[o][curr] = inflight[o][curr]
      BY <1>4, <1>6, <1>12, <1>18
    <3> QED
      BY <1>4, <2>1, <2>4, <3>1 DEF IInv, InflightCovers
  <2> QED
    BY <1>4, <2>2, <2>3, <2>4
<1>27. CurrLegAhead'
  <2> SUFFICES ASSUME NEW f \in End, curr_leg'[f] # NULL, NEW m \in legs[f]
               PROVE  last_seq_sent'[f][curr_leg'[f]] - last_seq_sent'[f][m] >= 0
    BY <1>3 DEF CurrLegAhead, RelativeSeq
  <2>1. m \in Leg
    BY DEF IInv, TypeOK
  <2>2. CASE f = e
    <3>1. last_seq_sent[e][prev] \in Nat /\ last_seq_sent[e][m] \in Nat
          /\ last_seq_sent[e][prev] >= last_seq_sent[e][m]
      BY <1>5, <1>6, <1>7, <2>1, <2>2
    <3> QED
      BY <1>17, <1>19, <2>1, <2>2, <3>1
  <2>3. CASE f = o
    <3>1. curr_leg'[f] = curr_leg[f] /\ curr_leg[f] \in Leg /\ curr_leg[f] # NULL
      BY <1>19, <2>3 DEF IInv, FieldTypes
    <3>2. /\ last_seq_sent'[f][m] = last_seq_sent[f][m]
          /\ last_seq_sent'[f][curr_leg[f]] = last_seq_sent[f][curr_leg[f]]
      BY <1>4, <1>17, <2>1, <2>3, <3>1
    <3> QED
      BY <3>1, <3>2 DEF IInv, CurrLegAhead, RelativeSeq
  <2> QED
    BY <1>4, <2>2, <2>3
<1> QED
  BY <1>20, <1>21, <1>22, <1>23, <1>24, <1>25, <1>26, <1>27 DEF IInv
-----------------------------------------------------------------------------
(* Losing legs *)

\* All wires are what they were, some broken.
ShrunkWires(r) ==
  /\ r \in WireType
  /\ \A f \in End, m \in Leg : \A i \in DOMAIN r[f][m] :
       r[f][m][i].cmd # "DESTROY" =>
         /\ i \in Nat /\ i \in DOMAIN wire[f][m] /\ r[f][m][i] = wire[f][m][i]
         /\ \A k \in 1..i : r[f][m][k] = wire[f][m][k]
  /\ \A f \in End, m \in Leg : \A cmd \in {"DATA", "SENDME"} :
       /\ Count(r[f][m], cmd) \in Nat /\ Count(wire[f][m], cmd) \in Nat
       /\ Count(r[f][m], cmd) <= Count(wire[f][m], cmd)

\* Breaking wires one by one makes such wires.
LEMMA Shrinking ==
  ASSUME wire \in WireType, NEW r \in WireType,
         \A f \in End, m \in Leg : Shrunk(r[f][m], wire[f][m])
  PROVE  ShrunkWires(r)
<1>1. \A f \in End, m \in Leg : r[f][m] \in Seq(Cell) /\ wire[f][m] \in Seq(Cell)
  BY DEF WireType
<1>2. ASSUME NEW f \in End, NEW m \in Leg, NEW i \in DOMAIN r[f][m],
             r[f][m][i].cmd # "DESTROY"
      PROVE  /\ i \in Nat /\ i \in DOMAIN wire[f][m] /\ r[f][m][i] = wire[f][m][i]
             /\ \A k \in 1..i : r[f][m][k] = wire[f][m][k]
  <2>1. i \in DOMAIN wire[f][m] /\ \A k \in 1..i : r[f][m][k] = wire[f][m][k]
    BY <1>2 DEF Shrunk
  <2>2. i \in 1..i /\ i \in Nat
    BY <1>1
  <2> QED
    BY <2>1, <2>2
<1>3. ASSUME NEW f \in End, NEW m \in Leg, NEW cmd \in {"DATA", "SENDME"}
      PROVE  /\ Count(r[f][m], cmd) \in Nat /\ Count(wire[f][m], cmd) \in Nat
             /\ Count(r[f][m], cmd) <= Count(wire[f][m], cmd)
  BY <1>1, CountType, CountShrunk
<1> QED
  BY <1>2, <1>3 DEF ShrunkWires

\* Wires of which some broke account for no more DATA and acknowledgements than
\* before.
LEMMA ShrunkCovers ==
  ASSUME IInv, NEW r, ShrunkWires(r), NEW f \in End, NEW m \in Leg,
         circ[f][m] # "closed", NEW u \in Nat, u <= unacked[Other(f)][m]
  PROVE  inflight[f][m] >= SendmeInc * Count(r[Other(f)][m], "SENDME")
                             + u + Count(r[f][m], "DATA")
<1> DEFINE n == Count(wire[Other(f)][m], "SENDME")
           n1 == Count(r[Other(f)][m], "SENDME")
           d == Count(wire[f][m], "DATA")
           d1 == Count(r[f][m], "DATA")
           p == SendmeInc * n
           p1 == SendmeInc * n1
<1>1. Other(f) \in End
  BY Ends
<1>2. n \in Nat /\ n1 \in Nat /\ n1 <= n /\ d \in Nat /\ d1 \in Nat /\ d1 <= d
  BY <1>1 DEF ShrunkWires
<1>3. inflight[f][m] >= p + unacked[Other(f)][m] + d
  BY DEF IInv, InflightCovers
<1>4. inflight[f][m] \in Nat /\ unacked[Other(f)][m] \in Nat
  BY <1>1 DEF IInv, TypeOK
<1>5. SendmeInc \in Nat
  BY ConfluxAssumption
<1> HIDE DEF n, n1, d, d1
<1>6. p \in Nat /\ p1 \in Nat /\ p1 <= p
  BY <1>2, <1>5, TimesMore
<1> HIDE DEF p, p1
<1>7. inflight[f][m] >= p1 + u + d1
  BY <1>2, <1>3, <1>4, <1>6
<1> QED
  BY <1>7 DEF p1, n1, d1

\* A leg breaks in the middle: both ends will get a DESTROY.
LEMMA LegBreaksKeeps ==
  ASSUME IInv, NEW l \in Leg, LegBreaks(l)
  PROVE  IInv'
<1>1. /\ \A e \in End : circ[e][l] = "open" /\ ~Broken(wire[e][l])
      /\ UNCHANGED <<circ, pool, legs, curr_leg, measured, flow>>
  BY DEF LegBreaks
<1>a. circ' = circ /\ unlinked' = unlinked /\ link' = link /\ legs' = legs
      /\ measured' = measured
  BY <1>1 DEF pool
<1>2. PICK keep \in [End -> 0..Max({Len(wire[e][l]) : e \in End})] :
        /\ \A e \in End : keep[e] <= Len(wire[e][l])
        /\ wire' = [e \in End |-> [wire[e] EXCEPT ![l] = Cut(@, keep[e])]]
  BY DEF LegBreaks
<1>3. wire \in WireType /\ \A f \in End, m \in Leg : wire[f][m] \in Seq(Cell)
  BY DEF IInv, FieldTypes, WireType
<1>4. \A f \in End : /\ Cut(wire[f][l], keep[f]) \in Seq(Cell)
                     /\ Shrunk(Cut(wire[f][l], keep[f]), wire[f][l])
                     /\ Broken(Cut(wire[f][l], keep[f]))
  <2> SUFFICES ASSUME NEW f \in End
               PROVE  /\ Cut(wire[f][l], keep[f]) \in Seq(Cell)
                      /\ Shrunk(Cut(wire[f][l], keep[f]), wire[f][l])
                      /\ Broken(Cut(wire[f][l], keep[f]))
    OBVIOUS
  <2> DEFINE most == Max({Len(wire[e][l]) : e \in End})
  <2>1. keep[f] \in 0..most /\ keep[f] <= Len(wire[f][l])
    BY <1>2
  <2> HIDE DEF most
  <2>2. keep[f] \in Nat
    BY <2>1
  <2> QED
    BY <1>3, <2>1, <2>2, CutWire
<1>5. /\ wire' \in WireType
      /\ \A f \in End, m \in Leg :
           wire'[f][m] = IF m = l THEN Cut(wire[f][l], keep[f]) ELSE wire[f][m]
  BY <1>2, <1>3, <1>4 DEF WireType
<1>6. ShrunkWires(wire')
  <2>1. \A f \in End, m \in Leg : Shrunk(wire'[f][m], wire[f][m])
    <3> SUFFICES ASSUME NEW f \in End, NEW m \in Leg
                 PROVE  Shrunk(wire'[f][m], wire[f][m])
      OBVIOUS
    <3>1. CASE m = l
      BY <1>4, <1>5, <3>1
    <3>2. CASE m # l
      BY <1>5, <3>2 DEF Shrunk
    <3> QED
      BY <3>1, <3>2
  <2> QED
    BY <1>3, <1>5, <2>1, Shrinking
<1>7. /\ \A f \in End, m \in Leg : m # l => wire'[f][m] = wire[f][m]
      /\ \A f \in End : Broken(wire'[f][l])
      /\ \A f \in End, m \in Leg : \A i \in DOMAIN wire'[f][m] :
           wire'[f][m][i].cmd # "DESTROY" =>
             /\ i \in Nat /\ i \in DOMAIN wire[f][m] /\ wire'[f][m][i] = wire[f][m][i]
             /\ \A k \in 1..i : wire'[f][m][k] = wire[f][m][k]
  BY <1>4, <1>5, <1>6 DEF ShrunkWires
<1>8. "client" \in End /\ "exit" \in End
  BY DEF End
<1>9. TypeOK' /\ FieldTypes'
  <2>1. TypeOK'
    BY <1>1, <1>5, WireCells DEF IInv, TypeOK, pool, flow
  <2>2. FieldTypes'
    BY <1>1, <1>5 DEF IInv, FieldTypes, WireType, pool, flow
  <2> QED
    BY <2>1, <2>2
<1>10. CircuitsInSets'
  <2>1. circ["client"][l] = "open"
    BY <1>1, <1>8
  <2>2. \A f \in End, m \in Leg :
          circ["client"][m] \in {"none", "building"} => wire'[f][m] = << >>
    BY <1>7, <2>1 DEF IInv, CircuitsInSets
  <2> QED
    BY <1>1, <2>2 DEF IInv, CircuitsInSets, pool, flow
<1>11. LinkCells'
  <2> SUFFICES ASSUME NEW m \in Leg
               PROVE  LegLinks(m)'
    BY DEF LinkCells
  <2>1. LegLinks(m)
    BY DEF IInv, LinkCells
  <2>2. \A i \in DOMAIN wire'["client"][m] :
          wire'["client"][m][i].cmd # "DESTROY" =>
            i \in DOMAIN wire["client"][m] /\ wire'["client"][m][i] = wire["client"][m][i]
    BY <1>7, <1>8
  <2>3. \A i \in DOMAIN wire'["exit"][m] :
          wire'["exit"][m][i].cmd # "DESTROY" =>
            i \in DOMAIN wire["exit"][m] /\ wire'["exit"][m][i] = wire["exit"][m][i]
    BY <1>7, <1>8
  <2> QED
    BY <1>a, <2>1, <2>2, <2>3 DEF LegLinks
<1>12. CellsLinked'
  <2>1. ASSUME NEW f \in End, NEW m \in Leg, circ[Other(f)][m] = "open",
               NEW i \in DOMAIN wire'[f][m],
               wire'[f][m][i].cmd \notin {"LINK", "LINKED", "DESTROY"}
        PROVE  m \in legs[Other(f)]
    <3>1. i \in DOMAIN wire[f][m] /\ wire'[f][m][i] = wire[f][m][i]
      BY <1>7, <2>1
    <3> QED
      BY <2>1, <3>1 DEF IInv, CellsLinked
  <2>2. ASSUME NEW m \in Leg, circ["exit"][m] = "open",
               NEW i \in DOMAIN wire'["client"][m],
               wire'["client"][m][i].cmd \in {"SWITCH", "DATA", "OTHER"}
        PROVE  \/ m \in measured["exit"]
               \/ \E k \in 1..(i - 1) : wire'["client"][m][k].cmd = "LINKED_ACK"
    <3>1. wire'["client"][m][i].cmd # "DESTROY"
      BY <2>2
    <3>2. /\ i \in Nat /\ i \in DOMAIN wire["client"][m]
          /\ wire'["client"][m][i] = wire["client"][m][i]
          /\ \A k \in 1..i : wire'["client"][m][k] = wire["client"][m][k]
      BY <1>7, <1>8, <3>1
    <3>3. \/ m \in measured["exit"]
          \/ \E k \in 1..(i - 1) : wire["client"][m][k].cmd = "LINKED_ACK"
      BY <2>2, <3>2 DEF IInv, CellsLinked
    <3>4. \A k \in 1..(i - 1) : wire'["client"][m][k] = wire["client"][m][k]
      BY <3>2
    <3> QED
      BY <3>3, <3>4
  <2>3. ASSUME NEW m \in Leg, circ["exit"][m] = "open",
               m \in legs["client"] \/ link[m] # NULL, ~Broken(wire'["client"][m])
        PROVE  \/ m \in measured["exit"]
               \/ \E k \in DOMAIN wire'["client"][m] :
                    wire'["client"][m][k].cmd = "LINKED_ACK"
    <3>1. wire'["client"][m] = wire["client"][m]
      BY <1>7, <1>8, <2>3
    <3> QED
      BY <2>3, <3>1 DEF IInv, CellsLinked
  <2> QED
    BY <1>a, <2>1, <2>2, <2>3 DEF CellsLinked
<1>13. SendersFirst'
  <2>1. \A f \in End, m \in Leg : \A i \in DOMAIN wire'[f][m] :
          Multiplexed(wire'[f][m][i]) => sent[f] # << >>
    <3> SUFFICES ASSUME NEW f \in End, NEW m \in Leg, NEW i \in DOMAIN wire'[f][m],
                        Multiplexed(wire'[f][m][i])
                 PROVE  sent[f] # << >>
      OBVIOUS
    <3>1. wire'[f][m][i].cmd # "DESTROY"
      BY DEF Multiplexed
    <3>2. i \in DOMAIN wire[f][m] /\ wire'[f][m][i] = wire[f][m][i]
      BY <1>7, <3>1
    <3> QED
      BY <3>2 DEF IInv, SendersFirst
  <2> QED
    BY <1>1, <2>1 DEF IInv, SendersFirst, flow
<1>14. LegsCounted'
  BY <1>1 DEF IInv, LegsCounted, flow
<1>15. InflightCovers'
  <2>1. \A f \in End, m \in Leg : unacked[Other(f)][m] \in Nat
    BY Ends DEF IInv, TypeOK
  <2>2. \A f \in End, m \in Leg : circ[f][m] # "closed" =>
          inflight[f][m] >= SendmeInc * Count(wire'[Other(f)][m], "SENDME")
                              + unacked[Other(f)][m] + Count(wire'[f][m], "DATA")
    BY <1>6, <2>1, ShrunkCovers
  <2> QED
    BY <1>1, <2>2 DEF InflightCovers, flow
<1>16. CurrLegAhead'
  BY <1>1 DEF IInv, CurrLegAhead, RelativeSeq, flow
<1> QED
  BY <1>9, <1>10, <1>11, <1>12, <1>13, <1>14, <1>15, <1>16 DEF IInv
\* The legs that go are l alone, or l with all the legs of its set.
LEMMA GoingLegs ==
  ASSUME IInv, NEW e \in End, NEW l \in Leg, circ[e][l] \in {"building", "open"}
  PROVE  /\ Going(e, l) \in SUBSET Leg /\ l \in Going(e, l)
         /\ \A m \in Going(e, l) : circ[e][m] \in {"building", "open"}
         /\ Going(e, l) = {l} \/ legs[e] \subseteq Going(e, l)
         /\ curr_leg[e] \in Going(e, l) => legs[e] \subseteq Going(e, l)
         /\ e = "client" => Going(e, l) \cap unlinked \subseteq {l}
<1>1. legs[e] \in SUBSET Leg /\ \A m \in legs[e] : circ[e][m] = "open"
  BY DEF IInv, TypeOK, FieldTypes
<1>2. curr_leg[e] \in legs[e] \cup {NULL} /\ NULL \notin Leg
  BY ConfluxAssumption DEF IInv, TypeOK
<1>3. \/ Going(e, l) = {l} /\ ~FullTeardown(e, l)
      \/ Going(e, l) = {l} \cup legs[e]
  BY DEF Going
<1>4. curr_leg[e] = l => FullTeardown(e, l)
  BY <1>2 DEF FullTeardown
<1>5. unlinked # {} => legs["client"] = {}
  BY DEF IInv, CircuitsInSets
<1> QED
  BY <1>1, <1>2, <1>3, <1>4, <1>5

\* The wires of the legs that go: the other end's is gone with all it carried,
\* and an other end that is still there will get a DESTROY.
Hung(r, e, S) ==
  /\ ShrunkWires(r)
  /\ \A f \in End, m \in Leg : m \notin S => r[f][m] = wire[f][m]
  /\ \A m \in S : r[Other(e)][m] = << >>
  /\ \A m \in S : circ[Other(e)][m] = "open" => Broken(r[e][m])

\* Closing legs leaves such wires, however many cells are kept.
LEMMA HungUpWires ==
  ASSUME wire \in WireType, NEW e \in End, NEW S \in SUBSET Leg,
         NEW keep \in Keeps(e, S)
  PROVE  Hung(HungUp(e, S, keep), e, S)
<1> DEFINE lens == [m \in Leg |-> Len(wire[e][m])]
           most == MaxOver(S, lens)
           r == HungUp(e, S, keep)
<1>1. \A f \in End, m \in Leg : wire[f][m] \in Seq(Cell)
  BY DEF WireType
<1>2. most \in Nat
  <2>1. lens \in [Leg -> Nat]
    BY <1>1
  <2> HIDE DEF lens
  <2> QED
    BY <2>1, MaxOverLegs
<1>3. keep \in [S -> 0..most] /\ \A m \in S : keep[m] <= Len(wire[e][m])
  BY DEF Keeps
<1> HIDE DEF most
<1>4. \A m \in S : keep[m] \in Nat /\ keep[m] <= Len(wire[e][m])
  BY <1>2, <1>3
<1>5. ASSUME NEW m \in S
      PROVE  /\ Cut(wire[e][m], keep[m]) \in Seq(Cell)
             /\ Shrunk(Cut(wire[e][m], keep[m]), wire[e][m])
             /\ Broken(Cut(wire[e][m], keep[m]))
  BY <1>1, <1>4, CutWire
<1>6. \A f \in End, m \in Leg :
        r[f][m] = IF m \notin S THEN wire[f][m]
                  ELSE IF f = e /\ circ[Other(e)][m] = "open"
                       THEN Cut(wire[f][m], keep[m]) ELSE << >>
  BY DEF HungUp
<1>7. r = [f \in End |-> [m \in Leg |-> r[f][m]]]
  BY DEF HungUp
<1> HIDE DEF r
<1>8. ASSUME NEW f \in End, NEW m \in Leg
      PROVE  r[f][m] \in Seq(Cell) /\ Shrunk(r[f][m], wire[f][m])
  <2>1. CASE m \notin S
    BY <1>1, <1>6, <2>1 DEF Shrunk
  <2>2. CASE m \in S /\ f = e /\ circ[Other(e)][m] = "open"
    BY <1>5, <1>6, <2>2
  <2>3. CASE m \in S /\ ~(f = e /\ circ[Other(e)][m] = "open")
    BY <1>6, <2>3, NoCells DEF Shrunk
  <2> QED
    BY <2>1, <2>2, <2>3
<1>9. r \in WireType
  BY <1>7, <1>8 DEF WireType
<1>10. ShrunkWires(r)
  BY <1>8, <1>9, Shrinking
<1>11. \A m \in S : /\ r[Other(e)][m] = << >>
                    /\ circ[Other(e)][m] = "open" => Broken(r[e][m])
  <2>1. Other(e) \in End /\ Other(e) # e
    BY Ends
  <2> QED
    BY <1>5, <1>6, <2>1
<1> QED
  BY <1>6, <1>10, <1>11 DEF Hung, r

\* What a closed circuit does to the unlinked set: the leg leaves it, and the one
\* launched in its place is one that was never there.
Relaunched(e, l, n) ==
  /\ n # NULL => /\ e = "client" /\ n \in Leg /\ circ["client"][n] = "none"
                 /\ n \in unlinked'
  /\ \A m \in unlinked' : m \in unlinked \/ (m = n /\ n # NULL)
  /\ \A m \in unlinked : m # l \/ e = "exit" => m \in unlinked'
  /\ e = "client" => l \notin unlinked'
  /\ unlinked' # {} => unlinked # {}
  /\ unlinked' \in SUBSET Leg /\ num_leg_launch' \in 0..MaxLaunch
  /\ link' \in [Leg -> Cell \cup {NULL}]
  /\ \A m \in Leg : link'[m] = link[m] \/ (link'[m] = NULL /\ m = l)
  /\ \A m \in Leg : unlinked' # {} /\ m > num_leg_launch' =>
       circ["client"][m] = "none" /\ m # n

\* Relaunch, or at the exit nothing, does this.
LEMMA Relaunches ==
  ASSUME IInv, NEW e \in End, NEW l \in Leg, circ[e][l] \in {"building", "open"},
         NEW n \in (num_leg_launch + 1)..MaxLaunch \cup {NULL},
         IF e = "client" THEN Relaunch(l, n) ELSE n = NULL /\ UNCHANGED pool
  PROVE  Relaunched(e, l, n)
<1>1. /\ num_leg_launch \in 0..MaxLaunch /\ MaxLaunch \in Nat /\ NULL \notin Leg
      /\ unlinked \in SUBSET Leg /\ link \in [Leg -> Cell \cup {NULL}]
      /\ \A m \in Leg : m \in Nat \ {0} /\ m <= MaxLaunch
  BY Legs, ConfluxAssumption DEF IInv, TypeOK, FieldTypes, Leg
<1>2. \A m \in Leg : unlinked # {} /\ m > num_leg_launch => circ["client"][m] = "none"
  BY DEF IInv, CircuitsInSets
<1>3. e \in {"client", "exit"}
  BY DEF End
<1>4. CASE e = "client" /\ l \in unlinked
  <2>1. /\ link' = [link EXCEPT ![l] = NULL]
        /\ \/ unlinked = {l} /\ n = NULL /\ unlinked' = {}
              /\ num_leg_launch' = num_leg_launch
           \/ /\ unlinked # {l}
              /\ unlinked' = (unlinked \ {l}) \cup ({n} \ {NULL})
              /\ num_leg_launch' = IF n = NULL THEN MaxLaunch ELSE n
    BY <1>4 DEF Relaunch
  <2>2. n # NULL => /\ n \in Leg /\ n > num_leg_launch /\ n \in Nat
                    /\ circ["client"][n] = "none"
    <3> SUFFICES ASSUME n # NULL
                 PROVE  /\ n \in Leg /\ n > num_leg_launch /\ n \in Nat
                        /\ circ["client"][n] = "none"
      OBVIOUS
    <3>1. n \in (num_leg_launch + 1)..MaxLaunch
      OBVIOUS
    <3>2. n \in Leg /\ n > num_leg_launch /\ n \in Nat
      BY <1>1, <3>1 DEF Leg
    <3> QED
      BY <1>2, <1>4, <3>2
  <2>3. n # l
    BY <1>1, <1>4, <2>2
  <2>4. link' \in [Leg -> Cell \cup {NULL}]
        /\ \A m \in Leg : link'[m] = link[m] \/ (link'[m] = NULL /\ m = l)
    BY <1>1, <2>1
  <2>5. CASE unlinked' = {}
    BY <1>1, <1>4, <2>1, <2>2, <2>3, <2>4, <2>5 DEF Relaunched
  <2>6. CASE unlinked' # {}
    <3>1. /\ unlinked' = (unlinked \ {l}) \cup ({n} \ {NULL})
          /\ num_leg_launch' = IF n = NULL THEN MaxLaunch ELSE n
      BY <2>1, <2>6
    <3>2. num_leg_launch' \in 0..MaxLaunch
      BY <1>1, <2>2, <3>1 DEF Leg
    <3>3. \A m \in Leg : m > num_leg_launch' => circ["client"][m] = "none" /\ m # n
      <4> SUFFICES ASSUME NEW m \in Leg, m > num_leg_launch'
                   PROVE  circ["client"][m] = "none" /\ m # n
        OBVIOUS
      <4>1. CASE n = NULL
        BY <1>1, <3>1, <4>1
      <4>2. CASE n # NULL
        BY <1>1, <1>2, <1>4, <2>2, <3>1, <4>2
      <4> QED
        BY <4>1, <4>2
    <3> QED
      BY <1>1, <1>4, <2>2, <2>3, <2>4, <3>1, <3>2, <3>3 DEF Relaunched
  <2> QED
    BY <2>5, <2>6
<1>5. CASE ~(e = "client" /\ l \in unlinked)
  <2>1. n = NULL /\ UNCHANGED pool
    BY <1>3, <1>5 DEF Relaunch
  <2> QED
    BY <1>1, <1>2, <1>3, <1>5, <2>1 DEF Relaunched, pool
<1> QED
  BY <1>4, <1>5
\* Closing a circuit, with all the legs of its set or without them, keeps the
\* invariant.
LEMMA CloseKeeps ==
  ASSUME IInv, NEW e \in End, NEW l \in Leg, circ[e][l] \in {"building", "open"},
         Close(e, l)
  PROVE  IInv'
<1> DEFINE S == Going(e, l)
           o == Other(e)
<1>1. PICK n \in (num_leg_launch + 1)..MaxLaunch \cup {NULL} :
      \E keep \in Keeps(e, S) :
        /\ IF e = "client" THEN Relaunch(l, n) ELSE n = NULL /\ UNCHANGED pool
        /\ circ' = [circ EXCEPT ![e] = [m \in Leg |->
                      IF m \in S THEN "closed" ELSE IF m = n THEN "building" ELSE @[m]]]
        /\ legs' = [legs EXCEPT ![e] = @ \ S]
        /\ measured' = [measured EXCEPT ![e] = @ \ S]
        /\ curr_leg' = [curr_leg EXCEPT ![e] = IF @ \in S THEN NULL ELSE @]
        /\ last_seq_sent' = Without(last_seq_sent, e, S)
        /\ last_seq_recv' = Without(last_seq_recv, e, S)
        /\ inflight' = Without(inflight, e, S)
        /\ unacked' = Without(unacked, e, S)
        /\ wire' = HungUp(e, S, keep)
        /\ UNCHANGED <<last_seq_delivered, ooo_q, sent, delivered>>
  BY DEF Close
<1>2. PICK keep \in Keeps(e, S) : wire' = HungUp(e, S, keep)
  BY <1>1
<1>3. /\ S \in SUBSET Leg /\ l \in S
      /\ \A m \in S : circ[e][m] \in {"building", "open"}
      /\ S = {l} \/ legs[e] \subseteq S
      /\ curr_leg[e] \in S => legs[e] \subseteq S
      /\ e = "client" => S \cap unlinked \subseteq {l}
  BY GoingLegs
<1>4. Relaunched(e, l, n)
  BY <1>1, Relaunches
<1>5. wire \in WireType /\ \A f \in End, m \in Leg : wire[f][m] \in Seq(Cell)
  BY DEF IInv, FieldTypes, WireType
<1>6. FullTeardown(e, l) => S = {l} \cup legs[e]
  BY DEF Going
<1> HIDE DEF S
<1>7. Hung(wire', e, S)
  BY <1>2, <1>3, <1>5, HungUpWires
<1>8. /\ o \in End /\ o # e /\ \A f \in End : f = e \/ f = o
      /\ "client" \in End /\ "exit" \in End
      /\ e = "client" <=> o = "exit"
      /\ e = "exit" <=> o = "client"
  BY Ends DEF End
<1>9. /\ circ \in [End -> [Leg -> {"none", "building", "open", "closed"}]]
      /\ legs \in [End -> SUBSET Leg] /\ measured \in [End -> SUBSET Leg]
      /\ curr_leg \in [End -> Leg \cup {NULL}]
      /\ last_seq_sent \in [End -> [Leg -> Nat]]
      /\ last_seq_recv \in [End -> [Leg -> Nat]]
      /\ inflight \in [End -> [Leg -> Nat]] /\ unacked \in [End -> [Leg -> Nat]]
  BY DEF IInv, TypeOK, FieldTypes
\* Closed circuits, the one launched, and the rest.
<1> HIDE DEF o
<1>10. /\ circ' \in [End -> [Leg -> {"none", "building", "open", "closed"}]]
       /\ \A m \in Leg : circ'[e][m] = IF m \in S THEN "closed"
                                       ELSE IF m = n THEN "building" ELSE circ[e][m]
       /\ circ'[o] = circ[o]
  BY <1>1, <1>8, <1>9
<1>11. /\ legs' \in [End -> SUBSET Leg] /\ measured' \in [End -> SUBSET Leg]
       /\ curr_leg' \in [End -> Leg \cup {NULL}]
       /\ legs'[e] = legs[e] \ S /\ legs'[o] = legs[o]
       /\ measured'[e] = measured[e] \ S /\ measured'[o] = measured[o]
       /\ curr_leg'[e] = IF curr_leg[e] \in S THEN NULL ELSE curr_leg[e]
       /\ curr_leg'[o] = curr_leg[o]
  BY <1>1, <1>8, <1>9
<1>12. ASSUME NEW c \in [End -> [Leg -> Nat]]
       PROVE  /\ Without(c, e, S) \in [End -> [Leg -> Nat]]
              /\ \A m \in Leg : Without(c, e, S)[e][m] = IF m \in S THEN 0 ELSE c[e][m]
              /\ Without(c, e, S)[o] = c[o]
  BY <1>8 DEF Without
<1>13. /\ last_seq_sent' \in [End -> [Leg -> Nat]]
       /\ \A m \in Leg : last_seq_sent'[e][m] = IF m \in S THEN 0 ELSE last_seq_sent[e][m]
       /\ last_seq_sent'[o] = last_seq_sent[o]
  BY <1>1, <1>9, <1>12
<1>14. /\ last_seq_recv' \in [End -> [Leg -> Nat]]
       /\ \A m \in Leg : last_seq_recv'[e][m] = IF m \in S THEN 0 ELSE last_seq_recv[e][m]
       /\ last_seq_recv'[o] = last_seq_recv[o]
  BY <1>1, <1>9, <1>12
<1>15. /\ inflight' \in [End -> [Leg -> Nat]]
       /\ \A m \in Leg : inflight'[e][m] = IF m \in S THEN 0 ELSE inflight[e][m]
       /\ inflight'[o] = inflight[o]
  BY <1>1, <1>9, <1>12
<1>16. /\ unacked' \in [End -> [Leg -> Nat]]
       /\ \A m \in Leg : unacked'[e][m] = IF m \in S THEN 0 ELSE unacked[e][m]
       /\ unacked'[o] = unacked[o]
  BY <1>1, <1>9, <1>12
<1>17. /\ last_seq_delivered' = last_seq_delivered /\ ooo_q' = ooo_q
       /\ sent' = sent
  BY <1>1
<1>18. /\ wire' \in WireType
       /\ \A f \in End, m \in Leg : m \notin S => wire'[f][m] = wire[f][m]
       /\ \A m \in S : wire'[o][m] = << >>
       /\ \A m \in S : circ[o][m] = "open" => Broken(wire'[e][m])
       /\ \A f \in End, m \in Leg : \A i \in DOMAIN wire'[f][m] :
            wire'[f][m][i].cmd # "DESTROY" =>
              /\ i \in Nat /\ i \in DOMAIN wire[f][m]
              /\ wire'[f][m][i] = wire[f][m][i]
              /\ \A k \in 1..i : wire'[f][m][k] = wire[f][m][k]
  BY <1>7 DEF Hung, ShrunkWires, o
<1>19. \A f \in End, m \in Leg : circ'[f][m] = "open" =>
         circ[f][m] = "open" /\ (f # e \/ m \notin S)
  BY <1>8, <1>10
<1>20. n \notin S /\ (n # NULL => e = "client" /\ n \in Leg /\ circ["client"][n] = "none")
  BY <1>3, <1>4, ConfluxAssumption DEF Relaunched
<1>21. TypeOK'
  <2>1. \A m \in Leg : link'[m] # NULL => m \in unlinked' /\ link'[m] \in Cell
    <3> SUFFICES ASSUME NEW m \in Leg, link'[m] # NULL
                 PROVE  m \in unlinked' /\ link'[m] \in Cell
      OBVIOUS
    <3>1. link'[m] = link[m] /\ m \in unlinked /\ link[m] \in Cell
      BY <1>4 DEF Relaunched, IInv, TypeOK
    <3>2. CASE m # l \/ e = "exit"
      BY <1>4, <3>1, <3>2 DEF Relaunched
    <3>3. CASE m = l /\ e = "client"
      <4>1. Relaunch(l, n)
        BY <1>1, <3>3
      <4>2. link' = [link EXCEPT ![l] = NULL]
        BY <3>1, <3>3, <4>1 DEF Relaunch
      <4>3. link \in [Leg -> Cell \cup {NULL}]
        BY DEF IInv, FieldTypes
      <4> QED
        BY <3>3, <4>2, <4>3
    <3> QED
      BY <3>2, <3>3 DEF End
  <2>2. \A f \in End : /\ legs'[f] \subseteq {m \in Leg : circ'[f][m] = "open"}
                       /\ measured'[f] \subseteq legs'[f]
                       /\ curr_leg'[f] \in legs'[f] \cup {NULL}
    <3> SUFFICES ASSUME NEW f \in End
                 PROVE  /\ legs'[f] \subseteq {m \in Leg : circ'[f][m] = "open"}
                        /\ measured'[f] \subseteq legs'[f]
                        /\ curr_leg'[f] \in legs'[f] \cup {NULL}
      OBVIOUS
    <3>1. /\ legs[f] \subseteq {m \in Leg : circ[f][m] = "open"}
          /\ measured[f] \subseteq legs[f] /\ curr_leg[f] \in legs[f] \cup {NULL}
      BY DEF IInv, TypeOK
    <3>2. CASE f = e
      <4>1. \A m \in legs'[e] : m \in Leg /\ m \notin S /\ circ[e][m] = "open"
        BY <1>11, <3>1, <3>2
      <4>2. \A m \in legs'[e] : m # n
        BY <1>20, <4>1, ConfluxAssumption
      <4>3. \A m \in legs'[e] : m \in Leg /\ circ'[e][m] = "open"
        BY <1>10, <4>1, <4>2
      <4> QED
        BY <1>11, <3>1, <3>2, <4>3
    <3>3. CASE f = o
      BY <1>10, <1>11, <3>1, <3>3
    <3> QED
      BY <1>8, <3>2, <3>3
  <2>3. \A f \in End, m \in Leg : \A i \in DOMAIN wire'[f][m] : wire'[f][m][i] \in Cell
    BY <1>18, WireCells
  <2>4. \A counter \in {last_seq_sent, last_seq_recv, inflight, unacked}' :
          counter \in [End -> [Leg -> Nat]]
    BY <1>13, <1>14, <1>15, <1>16
  <2>5. unlinked' \subseteq Leg /\ num_leg_launch' \in 0..MaxLaunch
    BY <1>4 DEF Relaunched
  <2> QED
    BY <1>10, <2>1, <2>2, <2>3, <2>4, <2>5 DEF TypeOK
<1>22. FieldTypes'
  BY <1>4, <1>11, <1>17, <1>18 DEF IInv, FieldTypes, WireType, Relaunched
<1>23. CircuitsInSets'
  <2>1. ASSUME NEW m \in Leg
        PROVE  /\ circ'["client"][m] = "open" => m \in unlinked' \cup legs'["client"]
               /\ circ'["client"][m] = "building" => m \in unlinked'
    <3>1. /\ circ["client"][m] = "open" => m \in unlinked \cup legs["client"]
          /\ circ["client"][m] = "building" => m \in unlinked
      BY DEF IInv, CircuitsInSets
    <3>2. CASE e = "client"
      <4>1. CASE m = n
        <5>1. n # NULL /\ n \in unlinked'
          BY <1>4, <4>1, ConfluxAssumption DEF Relaunched
        <5> QED
          BY <4>1, <5>1
      <4>2. CASE m # n /\ m \notin S
        BY <1>3, <1>4, <1>10, <1>11, <3>1, <3>2, <4>2 DEF Relaunched
      <4>3. CASE m \in S
        BY <1>10, <3>2, <4>3
      <4> QED
        BY <4>1, <4>2, <4>3
    <3>3. CASE e = "exit"
      BY <1>4, <1>8, <1>10, <1>11, <3>1, <3>3 DEF Relaunched
    <3> QED
      BY <3>2, <3>3 DEF End
  <2>2. ASSUME NEW m \in Leg, m \in unlinked'
        PROVE  circ'["client"][m] \in {"building", "open"}
    <3>1. m \in unlinked \/ (m = n /\ n # NULL)
      BY <1>4, <2>2 DEF Relaunched
    <3>2. CASE m = n /\ n # NULL
      BY <1>10, <1>20, <3>2
    <3>3. CASE m \in unlinked
      <4>1. circ["client"][m] \in {"building", "open"}
        BY <3>3 DEF IInv, CircuitsInSets
      <4>2. CASE e = "client"
        <5>1. m \notin S
          BY <1>3, <1>4, <2>2, <3>3, <4>2 DEF Relaunched
        <5> QED
          BY <1>10, <4>1, <4>2, <5>1
      <4>3. CASE e = "exit"
        BY <1>8, <1>10, <4>1, <4>3
      <4> QED
        BY <4>2, <4>3 DEF End
    <3> QED
      BY <3>1, <3>2, <3>3
  <2>3. ASSUME NEW m \in Leg, circ'["client"][m] \in {"none", "building"}
        PROVE  /\ circ'["exit"][m] = "none" /\ link'[m] = NULL
               /\ \A f \in End : wire'[f][m] = << >>
    <3>1. circ["client"][m] \in {"none", "building"} /\ (e = "exit" \/ m \notin S)
      <4>1. CASE e = "client"
        BY <1>10, <1>20, <2>3, <4>1, ConfluxAssumption
      <4>2. CASE e = "exit"
        BY <1>8, <1>10, <2>3, <4>2
      <4> QED
        BY <4>1, <4>2 DEF End
    <3>2. /\ circ["exit"][m] = "none" /\ link[m] = NULL
          /\ \A f \in End : wire[f][m] = << >>
      BY <3>1 DEF IInv, CircuitsInSets
    <3>3. m \notin S
      BY <1>3, <3>1, <3>2
    <3>4. circ'["exit"][m] = "none"
      <4>1. CASE e = "client"
        BY <1>8, <1>10, <3>2, <4>1
      <4>2. CASE e = "exit"
        BY <1>10, <1>20, <3>2, <3>3, <4>2, ConfluxAssumption
      <4> QED
        BY <4>1, <4>2 DEF End
    <3> QED
      BY <1>4, <1>18, <3>2, <3>3, <3>4 DEF Relaunched
  <2>4. ASSUME NEW m \in Leg, unlinked' # {}, m > num_leg_launch'
        PROVE  circ'["client"][m] = "none"
    <3>1. circ["client"][m] = "none" /\ m # n
      BY <1>4, <2>4 DEF Relaunched
    <3>2. CASE e = "client"
      BY <1>3, <1>10, <3>1, <3>2
    <3>3. CASE e = "exit"
      BY <1>8, <1>10, <3>1, <3>3
    <3> QED
      BY <3>2, <3>3 DEF End
  <2>5. unlinked' # {} => legs'["client"] = {} /\ sent'["client"] = << >>
    <3>1. unlinked' # {} => legs["client"] = {} /\ sent["client"] = << >>
      BY <1>4 DEF IInv, CircuitsInSets, Relaunched
    <3>2. legs'["client"] \subseteq legs["client"]
      BY <1>8, <1>11
    <3> QED
      BY <1>17, <3>1, <3>2
  <2>6. sent'["client"] # << >> => \E m \in Leg : circ'["client"][m] # "none"
    <3> SUFFICES ASSUME sent'["client"] # << >>
                 PROVE  \E m \in Leg : circ'["client"][m] # "none"
      OBVIOUS
    <3>1. PICK m \in Leg : circ["client"][m] # "none"
      BY <1>17 DEF IInv, CircuitsInSets
    <3>2. circ'["client"][m] # "none"
      BY <1>8, <1>10, <3>1
    <3> QED
      BY <3>2
  <2> QED
    BY <2>1, <2>2, <2>3, <2>4, <2>5, <2>6 DEF CircuitsInSets
<1>24. LinkCells'
  <2> SUFFICES ASSUME NEW m \in Leg
               PROVE  LegLinks(m)'
    BY DEF LinkCells
  <2>1. LegLinks(m)
    BY DEF IInv, LinkCells
  <2>2. /\ legs'["client"] \subseteq legs["client"]
        /\ legs'["exit"] \subseteq legs["exit"]
        /\ link'[m] = link[m] \/ link'[m] = NULL
        /\ circ'["exit"][m] = "open" => circ["exit"][m] = "open"
    BY <1>4, <1>8, <1>11, <1>19 DEF Relaunched
  <2>3. \A i \in DOMAIN wire'["client"][m] :
          wire'["client"][m][i].cmd # "DESTROY" =>
            i \in DOMAIN wire["client"][m] /\ wire'["client"][m][i] = wire["client"][m][i]
    BY <1>8, <1>18
  <2>4. \A i \in DOMAIN wire'["exit"][m] :
          wire'["exit"][m][i].cmd # "DESTROY" =>
            i \in DOMAIN wire["exit"][m] /\ wire'["exit"][m][i] = wire["exit"][m][i]
    BY <1>8, <1>18
  <2>5. circ'["exit"][m] = "open" /\ m \in legs["exit"] => m \in legs'["exit"]
    BY <1>8, <1>11, <1>19
  <2>6. \A i \in DOMAIN wire'["exit"][m] : m \in unlinked => m \in unlinked'
    <3>1. CASE m = l /\ e = "client"
      <4>1. wire'["exit"][m] = << >>
        BY <1>3, <1>8, <1>18, <3>1
      <4> QED
        BY <4>1, NoCells
    <3>2. CASE m # l \/ e = "exit"
      BY <1>4, <3>2 DEF Relaunched
    <3> QED
      BY <3>1, <3>2 DEF End
  <2>7. \A i \in DOMAIN wire'["client"][m] :
          /\ wire'["client"][m][i].cmd # "LINKED"
          /\ wire'["client"][m][i].cmd = "LINK" =>
               /\ i = 1 /\ link'[m] = NULL
               /\ m \notin legs'["client"] /\ m \notin legs'["exit"]
               /\ \A k \in DOMAIN wire'["exit"][m] : wire'["exit"][m][k].cmd = "DESTROY"
               /\ wire'["client"][m][i].last_seqno_sent = 0
               /\ wire'["client"][m][i].last_seqno_recv = 0
    BY <2>1, <2>2, <2>3, <2>4 DEF LegLinks
  <2>8. \A i \in DOMAIN wire'["exit"][m] :
          /\ wire'["exit"][m][i].cmd \notin {"LINK", "LINKED_ACK"}
          /\ wire'["exit"][m][i].cmd = "LINKED" =>
               /\ i = 1 /\ link'[m] = NULL /\ m \in unlinked'
               /\ circ'["exit"][m] = "open" => m \in legs'["exit"]
               /\ wire'["exit"][m][i].last_seqno_recv = 0
    BY <2>1, <2>2, <2>4, <2>5, <2>6 DEF LegLinks
  <2>9. /\ link'[m] # NULL => link'[m].cmd = "LINKED" /\ link'[m].last_seqno_recv = 0
        /\ (link'[m] # NULL \/ m \in legs'["client"]) /\ circ'["exit"][m] = "open" =>
             m \in legs'["exit"]
    BY <2>1, <2>2, <2>5 DEF LegLinks
  <2> QED
    BY <2>7, <2>8, <2>9 DEF LegLinks
<1>25. CellsLinked'
  <2>1. ASSUME NEW f \in End, NEW m \in Leg, circ'[Other(f)][m] = "open",
               NEW i \in DOMAIN wire'[f][m],
               wire'[f][m][i].cmd \notin {"LINK", "LINKED", "DESTROY"}
        PROVE  m \in legs'[Other(f)]
    <3>1. i \in DOMAIN wire[f][m] /\ wire'[f][m][i] = wire[f][m][i]
      BY <1>18, <2>1
    <3>2. Other(f) \in End
      BY Ends
    <3>3. circ[Other(f)][m] = "open" /\ (Other(f) # e \/ m \notin S)
      BY <1>19, <2>1, <3>2
    <3>4. m \in legs[Other(f)]
      BY <2>1, <3>1, <3>3 DEF IInv, CellsLinked
    <3> QED
      BY <1>8, <1>11, <3>2, <3>3, <3>4
  <2>2. \A m \in Leg : circ'["exit"][m] = "open" =>
          /\ circ["exit"][m] = "open"
          /\ m \in measured["exit"] => m \in measured'["exit"]
    BY <1>8, <1>11, <1>19
  <2>3. ASSUME NEW m \in Leg, circ'["exit"][m] = "open",
               NEW i \in DOMAIN wire'["client"][m],
               wire'["client"][m][i].cmd \in {"SWITCH", "DATA", "OTHER"}
        PROVE  \/ m \in measured'["exit"]
               \/ \E k \in 1..(i - 1) : wire'["client"][m][k].cmd = "LINKED_ACK"
    <3>1. wire'["client"][m][i].cmd # "DESTROY"
      BY <2>3
    <3>2. /\ i \in Nat /\ i \in DOMAIN wire["client"][m]
          /\ wire'["client"][m][i] = wire["client"][m][i]
          /\ \A k \in 1..i : wire'["client"][m][k] = wire["client"][m][k]
      BY <1>8, <1>18, <3>1
    <3>3. \/ m \in measured["exit"]
          \/ \E k \in 1..(i - 1) : wire["client"][m][k].cmd = "LINKED_ACK"
      BY <2>2, <2>3, <3>2 DEF IInv, CellsLinked
    <3>4. \A k \in 1..(i - 1) : wire'["client"][m][k] = wire["client"][m][k]
      BY <3>2
    <3> QED
      BY <2>2, <2>3, <3>3, <3>4
  <2>4. ASSUME NEW m \in Leg, circ'["exit"][m] = "open",
               m \in legs'["client"] \/ link'[m] # NULL, ~Broken(wire'["client"][m])
        PROVE  \/ m \in measured'["exit"]
               \/ \E k \in DOMAIN wire'["client"][m] :
                    wire'["client"][m][k].cmd = "LINKED_ACK"
    <3>1. m \in legs["client"] \/ link[m] # NULL
      <4>1. link'[m] # NULL => link[m] # NULL
        BY <1>4 DEF Relaunched
      <4>2. m \in legs'["client"] => m \in legs["client"]
        BY <1>8, <1>11
      <4> QED
        BY <2>4, <4>1, <4>2
    <3>2. m \notin S
      <4>1. CASE e = "exit"
        BY <1>8, <1>19, <2>4, <4>1
      <4>2. CASE e = "client"
        BY <1>8, <1>18, <2>2, <2>4, <4>2
      <4> QED
        BY <4>1, <4>2 DEF End
    <3>3. wire'["client"][m] = wire["client"][m]
      BY <1>8, <1>18, <3>2
    <3> QED
      BY <2>2, <2>4, <3>1, <3>3 DEF IInv, CellsLinked
  <2> QED
    BY <2>1, <2>3, <2>4 DEF CellsLinked
<1>26. SendersFirst'
  <2>1. \A f \in End, m \in Leg : \A i \in DOMAIN wire'[f][m] :
          Multiplexed(wire'[f][m][i]) => sent[f] # << >>
    <3> SUFFICES ASSUME NEW f \in End, NEW m \in Leg, NEW i \in DOMAIN wire'[f][m],
                        Multiplexed(wire'[f][m][i])
                 PROVE  sent[f] # << >>
      OBVIOUS
    <3>1. wire'[f][m][i].cmd # "DESTROY"
      BY DEF Multiplexed
    <3>2. i \in DOMAIN wire[f][m] /\ wire'[f][m][i] = wire[f][m][i]
      BY <1>18, <3>1
    <3> QED
      BY <3>2 DEF IInv, SendersFirst
  <2>2. \A f \in End, m \in Leg : sent[f] = << >> => last_seq_sent'[f][m] = 0
    <3>1. \A f \in End, m \in Leg :
            last_seq_sent'[f][m] = last_seq_sent[f][m] \/ last_seq_sent'[f][m] = 0
      BY <1>8, <1>13
    <3> QED
      BY <3>1 DEF IInv, SendersFirst
  <2> QED
    BY <1>17, <2>1, <2>2 DEF IInv, SendersFirst
<1>27. LegsCounted'
  <2>1. ASSUME NEW f \in End, curr_leg'[f] = NULL, NEW m \in legs'[f]
        PROVE  last_seq_sent'[f][m] = 0
    <3>1. m \in Leg
      BY <1>11
    <3>2. CASE f = e
      <4>1. m \notin S /\ m \in legs[e]
        BY <1>11, <3>2
      <4>2. curr_leg[e] = NULL
        BY <1>3, <1>11, <2>1, <3>2, <4>1
      <4> QED
        BY <1>13, <3>1, <3>2, <4>1, <4>2 DEF IInv, LegsCounted
    <3>3. CASE f = o
      BY <1>8, <1>11, <1>13, <2>1, <3>3 DEF IInv, LegsCounted
    <3> QED
      BY <1>8, <3>2, <3>3
  <2>2. measured'["client"] = legs'["client"]
    BY <1>8, <1>11 DEF IInv, LegsCounted
  <2>3. \A m \in legs'["exit"] : last_seq_recv'["exit"][m] > 0 => m \in measured'["exit"]
    <3> SUFFICES ASSUME NEW m \in legs'["exit"], last_seq_recv'["exit"][m] > 0
                 PROVE  m \in measured'["exit"]
      OBVIOUS
    <3>1. m \in Leg
      BY <1>8, <1>11
    <3>2. CASE e = "exit"
      BY <1>11, <1>14, <3>1, <3>2 DEF IInv, LegsCounted
    <3>3. CASE o = "exit"
      BY <1>11, <1>14, <3>1, <3>3 DEF IInv, LegsCounted
    <3> QED
      BY <1>8, <3>2, <3>3
  <2>4. ASSUME last_seq_delivered["exit"] > 0, legs'["exit"] # {}
        PROVE  \E m \in legs'["exit"] : last_seq_recv'["exit"][m] > 0
    <3>1. legs["exit"] # {}
      BY <1>8, <1>11, <2>4
    <3>2. PICK m \in legs["exit"] : last_seq_recv["exit"][m] > 0
      BY <2>4, <3>1 DEF IInv, LegsCounted
    <3>3. m \in Leg
      BY <1>8, <1>9
    <3>4. CASE o = "exit"
      BY <1>11, <1>14, <3>2, <3>4
    <3>5. CASE e = "exit" /\ m \notin S
      BY <1>11, <1>14, <3>2, <3>3, <3>5
    <3>6. CASE e = "exit" /\ m \in S
      <4> DEFINE rest == legs[e] \ {l}
                 most == MaxOver(rest, last_seq_recv[e])
      <4>1. S = {l} /\ m = l
        BY <1>3, <1>11, <2>4, <3>6
      <4>2. ~FullTeardown(e, l)
        BY <1>6, <1>11, <2>4, <3>6
      <4>3. rest # {} /\ rest = legs'[e]
        BY <1>11, <2>4, <3>6, <4>1
      <4>4. ~(most < last_seq_recv[e][l])
        BY <3>2, <3>6, <4>1, <4>2, <4>3 DEF FullTeardown, HadHighestSeq
      <4>5. rest \in SUBSET Leg /\ last_seq_recv[e] \in [Leg -> Nat]
        BY <1>9
      <4> HIDE DEF rest
      <4>6. most \in Nat /\ (most # 0 => \E k \in rest : last_seq_recv[e][k] = most)
        BY <4>5, MaxOverLegs
      <4> HIDE DEF most
      <4>7. last_seq_recv[e][l] \in Nat /\ last_seq_recv[e][l] > 0
        BY <1>9, <3>2, <3>6, <4>1
      <4>8. most > 0
        BY <4>4, <4>6, <4>7
      <4>9. PICK k \in rest : last_seq_recv[e][k] = most
        BY <4>6, <4>8
      <4>10. k \in legs'["exit"] /\ last_seq_recv'["exit"][k] > 0
        BY <1>11, <1>14, <3>6, <4>3, <4>5, <4>8, <4>9
      <4> QED
        BY <4>10
    <3> QED
      BY <1>8, <3>4, <3>5, <3>6
  <2> QED
    BY <1>17, <2>1, <2>2, <2>3, <2>4 DEF LegsCounted
<1>28. InflightCovers'
  <2> SUFFICES ASSUME NEW f \in End, NEW m \in Leg, circ'[f][m] # "closed"
               PROVE  inflight'[f][m] >= SendmeInc * Count(wire'[Other(f)][m], "SENDME")
                                + unacked'[Other(f)][m] + Count(wire'[f][m], "DATA")
    BY DEF InflightCovers
  <2>1. circ[f][m] # "closed" /\ inflight'[f][m] = inflight[f][m]
    <3>1. CASE f = e
      <4>1. m \notin S
        BY <1>10, <3>1
      <4>2. circ[e][m] # "closed"
        BY <1>10, <1>20, <3>1, <4>1, ConfluxAssumption
      <4> QED
        BY <1>15, <3>1, <4>1, <4>2
    <3>2. CASE f = o
      BY <1>10, <1>15, <3>2
    <3> QED
      BY <1>8, <3>1, <3>2
  <2>2. unacked'[Other(f)][m] \in Nat /\ unacked'[Other(f)][m] <= unacked[Other(f)][m]
    <3>1. Other(f) \in End
      BY Ends
    <3>2. CASE Other(f) = e
      <4>1. unacked[e][m] \in Nat /\ (unacked'[e][m] = 0 \/ unacked'[e][m] = unacked[e][m])
        BY <1>9, <1>16
      <4> QED
        BY <3>2, <4>1
    <3>3. CASE Other(f) = o
      <4>1. unacked[o][m] \in Nat /\ unacked'[o][m] = unacked[o][m]
        BY <1>8, <1>9, <1>16
      <4> QED
        BY <3>3, <4>1
    <3> QED
      BY <1>8, <3>1, <3>2, <3>3
  <2>3. ShrunkWires(wire')
    BY <1>7 DEF Hung
  <2> QED
    BY <2>1, <2>2, <2>3, ShrunkCovers
<1>29. CurrLegAhead'
  <2> SUFFICES ASSUME NEW f \in End, curr_leg'[f] # NULL, NEW m \in legs'[f]
               PROVE  last_seq_sent'[f][curr_leg'[f]] - last_seq_sent'[f][m] >= 0
    BY DEF CurrLegAhead, RelativeSeq
  <2>1. /\ curr_leg'[f] = curr_leg[f] /\ curr_leg[f] \in Leg /\ m \in legs[f] /\ m \in Leg
        /\ f = e => curr_leg[f] \notin S /\ m \notin S
    BY <1>8, <1>9, <1>11
  <2>2. /\ last_seq_sent'[f][m] = last_seq_sent[f][m]
        /\ last_seq_sent'[f][curr_leg[f]] = last_seq_sent[f][curr_leg[f]]
    BY <1>8, <1>13, <2>1
  <2> QED
    BY <2>1, <2>2 DEF IInv, CurrLegAhead, RelativeSeq
<1> QED
  BY <1>21, <1>22, <1>23, <1>24, <1>25, <1>26, <1>27, <1>28, <1>29 DEF IInv

\* Closing on one's own account, on a DESTROY, and for want of room.
LEMMA ClosingKeeps ==
  ASSUME IInv, NEW e \in End, NEW l \in Leg,
         MarkForClose(e, l) \/ ReceiveDestroy(e, l) \/ (e = "exit" /\ RefuseLink(l))
  PROVE  IInv'
<1>1. circ[e][l] \in {"building", "open"} /\ Close(e, l)
  BY DEF MarkForClose, ReceiveDestroy, RefuseLink, Arrives
<1> QED
  BY <1>1, CloseKeeps

-----------------------------------------------------------------------------
(* The invariant and what it says *)

\* Nothing is linked at first.
LEMMA InitIInv == Init => IInv
<1> SUFFICES ASSUME Init
             PROVE  IInv
  OBVIOUS
<1> USE DEF Init, AllLegs
<1>1. "client" \in End /\ "exit" \in End /\ \A e \in End : Other(e) \in End
  BY Ends DEF End
<1>2. TypeOK
  <2>1. 0 \in 0..MaxLaunch
    BY Legs
  <2> QED
    BY <2>1, NoCells DEF TypeOK
<1>3. FieldTypes
  <2>1. IsFiniteSet({})
    BY FS_EmptySet
  <2> QED
    BY <2>1, EmptySeq DEF FieldTypes
<1>4. CircuitsInSets
  BY <1>1 DEF CircuitsInSets
<1>5. LinkCells
  BY <1>1, NoCells DEF LinkCells, LegLinks
<1>6. CellsLinked
  BY <1>1, NoCells DEF CellsLinked
<1>7. SendersFirst
  BY <1>1, NoCells DEF SendersFirst
<1>8. LegsCounted
  BY <1>1 DEF LegsCounted
<1>9. InflightCovers
  <2> SUFFICES ASSUME NEW e \in End, NEW l \in Leg
               PROVE  0 >= SendmeInc * Count(<< >>, "SENDME") + 0 + Count(<< >>, "DATA")
    BY <1>1 DEF InflightCovers
  <2>1. Count(<< >>, "SENDME") = 0 /\ Count(<< >>, "DATA") = 0
    BY CountEmpty
  <2>2. SendmeInc * 0 = 0
    BY ConfluxAssumption
  <2> QED
    BY <2>1, <2>2
<1>10. CurrLegAhead
  BY DEF CurrLegAhead
<1> QED
  BY <1>2, <1>3, <1>4, <1>5, <1>6, <1>7, <1>8, <1>9, <1>10 DEF IInv

\* Every step keeps the invariant.
LEMMA NextIInv == IInv /\ [Next]_vars => IInv'
<1> SUFFICES ASSUME IInv, [Next]_vars
             PROVE  IInv'
  OBVIOUS
<1>1. CASE LaunchSet
  BY <1>1, LaunchSetKeeps
<1>2. ASSUME NEW l \in Leg,
             \/ Opened(l) \/ ReceiveLink(l) \/ RefuseLink(l) \/ ReceiveLinked(l)
             \/ ReceiveLinkedAck(l) \/ LegBreaks(l)
      PROVE  IInv'
  <2>1. RefuseLink(l) => IInv'
    BY ClosingKeeps DEF End
  <2> QED
    BY <1>2, <2>1, OpenedKeeps, ReceiveLinkKeeps, ReceiveLinkedKeeps,
       ReceiveLinkedAckKeeps, LegBreaksKeeps
<1>3. ASSUME NEW e \in End, NEW l \in Leg,
             \/ ReceiveSwitch(e, l) \/ ReceiveCell(e, l) \/ ReceiveSendme(e, l)
             \/ ReceiveDestroy(e, l) \/ MarkForClose(e, l)
      PROVE  IInv'
  BY <1>3, ReceiveSwitchKeeps, ReceiveCellKeeps, ReceiveSendmeKeeps,
     ClosingKeeps
<1>4. ASSUME NEW e \in End, NEW cmd \in {"DATA", "OTHER"}, Send(e, cmd)
      PROVE  IInv'
  BY <1>4, SendKeeps
<1>5. CASE UNCHANGED vars
  <2> USE <1>5 DEF vars, pool, flow
  <2>1. TypeOK' /\ FieldTypes'
    BY DEF IInv, TypeOK, FieldTypes
  <2>2. CircuitsInSets' /\ LinkCells' /\ CellsLinked'
    BY DEF IInv, CircuitsInSets, LinkCells, LegLinks, CellsLinked
  <2>3. SendersFirst' /\ LegsCounted' /\ InflightCovers' /\ CurrLegAhead'
    BY DEF IInv, SendersFirst, LegsCounted, InflightCovers, CurrLegAhead,
       RelativeSeq
  <2> QED
    BY <2>1, <2>2, <2>3 DEF IInv
<1> QED
  BY <1>1, <1>2, <1>3, <1>4, <1>5 DEF Next

\* The inductive invariant.
THEOREM ConfluxInvariance == Spec => []IInv
<1>1. Init => IInv
  BY InitIInv
<1>2. IInv /\ [Next]_vars => IInv'
  BY NextIInv
<1> QED
  BY <1>1, <1>2, PTL DEF Spec

\* Sets hold open circuits, only a leg of the set is measured or in use, and no
\* counter goes below zero: a SENDME never takes more cells out of flight than
\* are in it.
THEOREM ConfluxTypes == Spec => []TypeOK
<1>1. IInv => TypeOK
  BY DEF IInv
<1> QED
  BY <1>1, ConfluxInvariance, PTL

\* "cfx->prev_leg->last_seq_sent >= cfx->curr_leg->last_seq_sent": the number a
\* SWITCH carries is never negative.
THEOREM ConfluxCurrLegAhead == Spec => []CurrLegAhead
<1>1. IInv => CurrLegAhead
  BY DEF IInv
<1> QED
  BY <1>1, ConfluxInvariance, PTL

\* The ends agree on the legs: a leg of the client's set whose circuit the exit
\* still has is in the exit's, and a numbered cell arrives on a linked leg only.
THEOREM ConfluxLegsAgree == Spec => []LegsAgree
<1>1. IInv => LegsAgree
  <2> SUFFICES ASSUME IInv
               PROVE  LegsAgree
    OBVIOUS
  <2>1. \A l \in legs["client"] : circ["exit"][l] = "open" => l \in legs["exit"]
    <3>1. legs["client"] \subseteq Leg
      BY DEF IInv, FieldTypes, End
    <3> QED
      BY <3>1 DEF IInv, LinkCells, LegLinks
  <2>2. \A e \in End, l \in Leg :
          /\ circ[Other(e)][l] = "open"
          /\ \E i \in DOMAIN wire[e][l] : Multiplexed(wire[e][l][i])
          => l \in legs[Other(e)]
    BY DEF IInv, CellsLinked, Multiplexed
  <2>3. legs["client"] # {} => unlinked = {}
    BY DEF IInv, CircuitsInSets
  <2> QED
    BY <2>1, <2>2, <2>3 DEF LegsAgree
<1> QED
  BY <1>1, ConfluxInvariance, PTL

\* conflux_pick_first_leg finds a leg with a RTT: the client links with one, and
\* the exit answers a BEGIN, which comes behind a LINKED_ACK.
THEOREM ConfluxFirstLegMeasured == Spec => []FirstLegMeasured
<1>1. IInv => FirstLegMeasured
  <2> SUFFICES ASSUME IInv, NEW e \in End, legs[e] # {},
                      e = "exit" => last_seq_delivered["exit"] > 0
               PROVE  measured[e] # {}
    BY DEF FirstLegMeasured
  <2>1. CASE e = "client"
    BY <2>1 DEF IInv, LegsCounted
  <2>2. CASE e = "exit"
    <3>1. PICK l \in legs["exit"] : last_seq_recv["exit"][l] > 0
      BY <2>2 DEF IInv, LegsCounted
    <3> QED
      BY <2>2, <3>1 DEF IInv, LegsCounted
  <2> QED
    BY <2>1, <2>2 DEF End
<1> QED
  BY <1>1, ConfluxInvariance, PTL
=============================================================================
