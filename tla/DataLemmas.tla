----------------------------- MODULE DataLemmas ------------------------------
(***************************************************************************)
(* Facts about data that the proofs share.                                 *)
(*   Induction over the naturals in a form that first-order provers can    *)
(* use: the property proved is a set of numbers, the step of a definition  *)
(* by recursion is a function.  Both rest on the library's theorem that <  *)
(* is well founded on Nat.                                                 *)
(*   Queues that hold each entry at most once, kept as injective           *)
(* sequences: what appending, taking from the head and removing an entry   *)
(* do to the set of entries and to the length.                             *)
(***************************************************************************)
EXTENDS Integers, SequencesExt, SequenceTheorems, FiniteSetTheorems,
        WellFoundedInduction, TLAPS

-----------------------------------------------------------------------------
(* Induction *)

LessThan == {ss \in Nat \X Nat : ss[1] < ss[2]}

\* The natural numbers are well ordered.
LEMMA LessThanWellFounded == IsWellFoundedOn(LessThan, Nat)
<1>1. OpToRel(<, Nat) = LessThan
  BY Zenon DEF OpToRel, LessThan
<1> QED
  BY <1>1, NatLessThanWellFounded, Zenon

\* Every set of natural numbers that is not empty has a least element.
LEMMA LeastNatural ==
  ASSUME NEW T \in SUBSET Nat, T # {}
  PROVE  \E x \in T : \A y \in T : x <= y
<1>1. PICK x \in T : \A y \in T : ~(<<y, x>> \in LessThan)
  BY LessThanWellFounded, WFMin, Zenon
<1>2. \A y \in Nat : y < x => <<y, x>> \in LessThan
  BY DEF LessThan
<1>3. \A y \in T : y \in Nat /\ ~(y < x)
  BY <1>1, <1>2
<1>4. \A y \in T : x <= y
  BY <1>3
<1> QED
  BY <1>4

\* Induction: a set with zero and the successor of every number in it.
LEMMA SetInduction ==
  ASSUME NEW S, 0 \in S, \A k \in Nat : k \in S => k + 1 \in S
  PROVE  Nat \subseteq S
<1> DEFINE T == Nat \ S
<1> SUFFICES ASSUME T # {}
             PROVE  FALSE
  OBVIOUS
<1>1. PICK x \in T : \A y \in T : x <= y
  BY LeastNatural
<1>2. x \in Nat /\ x # 0 /\ x \notin S
  OBVIOUS
<1>3. x - 1 \in Nat /\ x - 1 \notin T
  BY <1>1, <1>2
<1> QED
  BY <1>2, <1>3

\* The functions on 0..k that start with "first" and go on by "step".
Approximations(V, first, step, k) ==
  {g \in [0..k -> V] : /\ g[0] = first
                       /\ \A i \in 0..(k - 1) : g[i + 1] = step[i + 1][g[i]]}

\* There is one on every initial segment ...
LEMMA ApproximationExists ==
  ASSUME NEW V, NEW first \in V, NEW step \in [Nat -> [V -> V]], NEW k \in Nat
  PROVE  Approximations(V, first, step, k) # {}
<1> DEFINE S == {m \in Nat : Approximations(V, first, step, m) # {}}
<1>1. 0 \in S
  <2>1. [i \in 0..0 |-> first] \in Approximations(V, first, step, 0)
    BY DEF Approximations
  <2> QED
    BY <2>1
<1>2. ASSUME NEW m \in Nat, m \in S
      PROVE  m + 1 \in S
  <2>1. PICK g \in [0..m -> V] :
          g[0] = first /\ \A i \in 0..(m - 1) : g[i + 1] = step[i + 1][g[i]]
    BY <1>2 DEF Approximations
  <2> DEFINE h == [i \in 0..(m + 1) |-> IF i = m + 1 THEN step[m + 1][g[m]]
                                        ELSE g[i]]
  <2>2. g[m] \in V /\ m + 1 \in Nat
    OBVIOUS
  <2>3. h \in [0..(m + 1) -> V] /\ h[0] = first
    BY <2>1, <2>2
  <2>4. ASSUME NEW i \in 0..m
        PROVE  h[i + 1] = step[i + 1][h[i]]
    <3>1. h[i] = g[i] /\ i + 1 \in 0..(m + 1)
      OBVIOUS
    <3>2. CASE i = m
      BY <3>1, <3>2
    <3>3. CASE i # m
      BY <2>1, <3>1, <3>3
    <3> QED
      BY <3>2, <3>3
  <2>5. (m + 1) - 1 = m
    OBVIOUS
  <2> HIDE DEF h
  <2>6. h \in Approximations(V, first, step, m + 1)
    BY <2>3, <2>4, <2>5 DEF Approximations
  <2> QED
    BY <2>6
<1> HIDE DEF S
<1>3. Nat \subseteq S
  BY <1>1, <1>2, SetInduction
<1> QED
  BY <1>3 DEF S

\* ... and any two agree where both are defined.
LEMMA ApproximationsAgree ==
  ASSUME NEW V, NEW first \in V, NEW step \in [Nat -> [V -> V]],
         NEW k \in Nat, NEW g \in Approximations(V, first, step, k),
         NEW m \in Nat, NEW h \in Approximations(V, first, step, m),
         k <= m, NEW i \in 0..k
  PROVE  g[i] = h[i]
<1> DEFINE S == {j \in Nat : j <= k => g[j] = h[j]}
<1>1. 0 \in S
  BY DEF Approximations
<1>2. ASSUME NEW j \in Nat, j \in S
      PROVE  j + 1 \in S
  <2> SUFFICES ASSUME j + 1 <= k
               PROVE  g[j + 1] = h[j + 1]
    OBVIOUS
  <2>1. g[j] = h[j] /\ j \in 0..(k - 1) /\ j \in 0..(m - 1)
    BY <1>2
  <2> QED
    BY <2>1 DEF Approximations
<1> HIDE DEF S
<1>3. Nat \subseteq S
  BY <1>1, <1>2, SetInduction
<1> QED
  BY <1>3 DEF S

\* f starts with "first" and goes on by "step".
Recurs(f, first, step) ==
  f[0] = first /\ \A k \in Nat : f[k + 1] = step[k + 1][f[k]]

\* Definition by primitive recursion.
LEMMA PrimitiveRecursion ==
  ASSUME NEW V, NEW first \in V, NEW step \in [Nat -> [V -> V]]
  PROVE  \E f \in [Nat -> V] : Recurs(f, first, step)
<1> DEFINE G(k) == CHOOSE g \in Approximations(V, first, step, k) : TRUE
           f    == [k \in Nat |-> G(k)[k]]
<1>1. \A k \in Nat : G(k) \in Approximations(V, first, step, k)
  BY ApproximationExists
<1> HIDE DEF G
<1>2. \A k \in Nat : G(k)[k] \in V
  BY <1>1 DEF Approximations
<1>3. f \in [Nat -> V] /\ f[0] = first
  BY <1>1, <1>2 DEF Approximations
<1>4. ASSUME NEW k \in Nat
      PROVE  f[k + 1] = step[k + 1][f[k]]
  <2>1. G(k)[k] = G(k + 1)[k]
    BY <1>1, ApproximationsAgree
  <2>2. G(k + 1)[k + 1] = step[k + 1][G(k + 1)[k]]
    BY <1>1 DEF Approximations
  <2> QED
    BY <2>1, <2>2
<1> QED
  BY <1>3, <1>4 DEF Recurs

-----------------------------------------------------------------------------
(* Queues *)

\* TOR_TAILQ_INSERT_TAIL of a new entry.
LEMMA AppendOnce ==
  ASSUME NEW S, NEW s \in Seq(S), NEW e \in S
  PROVE  /\ Append(s, e) \in Seq(S)
         /\ ToSet(Append(s, e)) = ToSet(s) \cup {e}
         /\ Len(Append(s, e)) = Len(s) + 1
         /\ IsInjective(s) /\ e \notin ToSet(s) => IsInjective(Append(s, e))
<1>1. /\ Append(s, e) \in Seq(S)
      /\ Len(Append(s, e)) = Len(s) + 1
      /\ \A i \in 1 .. Len(s) : Append(s, e)[i] = s[i]
      /\ Append(s, e)[Len(s) + 1] = e
  BY AppendProperties
<1>2. DOMAIN s = 1 .. Len(s) /\ DOMAIN Append(s, e) = 1 .. Len(s) + 1
      /\ Len(s) \in Nat
  BY <1>1
<1>3. ToSet(Append(s, e)) = ToSet(s) \cup {e}
  BY <1>1, <1>2 DEF ToSet
<1>4. IsInjective(s) /\ e \notin ToSet(s) => IsInjective(Append(s, e))
  BY <1>1, <1>2 DEF IsInjective, ToSet
<1> QED
  BY <1>1, <1>3, <1>4

\* Taking the head of a queue.
LEMMA TailOnce ==
  ASSUME NEW S, NEW s \in Seq(S), s # <<>>, IsInjective(s)
  PROVE  /\ Tail(s) \in Seq(S) /\ IsInjective(Tail(s))
         /\ Head(s) \in S /\ Head(s) \in ToSet(s)
         /\ ToSet(Tail(s)) = ToSet(s) \ {Head(s)}
         /\ Len(Tail(s)) = Len(s) - 1
<1>1. /\ Tail(s) \in Seq(S) /\ Len(Tail(s)) = Len(s) - 1
      /\ \A i \in 1 .. Len(Tail(s)) : Tail(s)[i] = s[i + 1]
      /\ Head(s) = s[1] /\ Head(s) \in S
  BY HeadTailProperties
<1>2. /\ DOMAIN s = 1 .. Len(s) /\ DOMAIN Tail(s) = 1 .. Len(s) - 1
      /\ Len(s) \in Nat /\ Len(s) > 0
  BY <1>1
<1>3. Head(s) \in ToSet(s)
  BY <1>1, <1>2 DEF ToSet
<1>4. IsInjective(Tail(s))
  BY <1>1, <1>2 DEF IsInjective
<1>5. ToSet(Tail(s)) \subseteq ToSet(s) \ {Head(s)}
  BY <1>1, <1>2 DEF IsInjective, ToSet
<1>6. ASSUME NEW e \in ToSet(s) \ {Head(s)} PROVE e \in ToSet(Tail(s))
  <2>1. PICK i \in DOMAIN s : s[i] = e
    BY DEF ToSet
  <2>2. i # 1 /\ i - 1 \in 1 .. Len(Tail(s)) /\ Tail(s)[i - 1] = s[i]
    BY <1>1, <1>2, <2>1
  <2> QED
    BY <1>1, <1>2, <2>1, <2>2 DEF ToSet
<1> QED
  BY <1>1, <1>3, <1>4, <1>5, <1>6

\* The first n entries of a queue.
First(s, n) == {s[i] : i \in 1 .. n}

\* Taking away the first n entries.
LEMMA DropFirst ==
  ASSUME NEW S, NEW s \in Seq(S), IsInjective(s), NEW n \in Nat, n <= Len(s)
  PROVE  /\ SubSeq(s, n + 1, Len(s)) \in Seq(S)
         /\ IsInjective(SubSeq(s, n + 1, Len(s)))
         /\ Len(SubSeq(s, n + 1, Len(s))) = Len(s) - n
         /\ ToSet(SubSeq(s, n + 1, Len(s))) = ToSet(s) \ First(s, n)
<1> DEFINE r == SubSeq(s, n + 1, Len(s))
<1>1. Len(s) \in Nat /\ DOMAIN s = 1 .. Len(s)
  BY LenProperties
<1>2. \A i \in 1 .. Len(s) : s[i] \in S
  BY ElementOfSeq
<1>3. /\ r \in Seq(S)
      /\ Len(r) = IF n + 1 <= Len(s) THEN Len(s) - (n + 1) + 1 ELSE 0
      /\ \A i \in 1 .. Len(s) - (n + 1) + 1 : r[i] = s[n + 1 + i - 1]
  <2>1. \A i \in n + 1 .. Len(s) : s[i] \in S
    BY <1>1, <1>2
  <2> QED
    BY <2>1, <1>1, SubSeqProperties
<1>4. Len(r) = Len(s) - n
  <2>1. CASE n + 1 <= Len(s)
    BY <1>3, <1>1, <2>1
  <2>2. CASE ~(n + 1 <= Len(s))
    <3>1. Len(s) \in Nat
      BY LenProperties
    <3>2. n = Len(s)
      BY <3>1, <2>2
    <3> QED
      BY <1>3, <2>2, <3>2
  <2> QED
    BY <2>1, <2>2
<1>5. \A i \in 1 .. Len(s) - n : r[i] = s[i + n]
  <2> SUFFICES ASSUME NEW i \in 1 .. Len(s) - n PROVE r[i] = s[i + n]
    OBVIOUS
  <2>1. i \in 1 .. Len(s) - (n + 1) + 1 /\ n + 1 + i - 1 = i + n
    BY <1>1
  <2> QED
    BY <1>3, <2>1
<1>6. DOMAIN r = 1 .. Len(s) - n
  BY <1>3, <1>4, LenProperties
<1>7. r \in Seq(S)
  BY <1>3
<1> HIDE DEF r
<1>8. IsInjective(r)
  <2> SUFFICES ASSUME NEW i \in 1 .. Len(s) - n, NEW k \in 1 .. Len(s) - n,
                      r[i] = r[k]
               PROVE  i = k
    BY <1>6 DEF IsInjective
  <2>1. s[i + n] = s[k + n] /\ i + n \in DOMAIN s /\ k + n \in DOMAIN s
    BY <1>1, <1>5
  <2>2. i + n = k + n
    BY <2>1 DEF IsInjective
  <2> QED
    BY <2>2
<1>9. ToSet(r) \subseteq ToSet(s) \ First(s, n)
  <2> SUFFICES ASSUME NEW i \in 1 .. Len(s) - n
               PROVE  r[i] \in ToSet(s) \ {s[k] : k \in 1 .. n}
    BY <1>6 DEF ToSet, First
  <2>1. r[i] = s[i + n] /\ i + n \in DOMAIN s
    BY <1>1, <1>5
  <2>2. \A k \in 1 .. n : k \in DOMAIN s /\ k # i + n
    BY <1>1
  <2> QED
    BY <2>1, <2>2 DEF IsInjective, ToSet
<1>10. ASSUME NEW e \in ToSet(s) \ First(s, n) PROVE e \in ToSet(r)
  <2>1. PICK i \in DOMAIN s : s[i] = e
    BY DEF ToSet
  <2>2. i \in 1 .. Len(s) /\ i \notin 1 .. n
    BY <1>1, <2>1 DEF First
  <2>3. i - n \in 1 .. Len(s) - n /\ (i - n) + n = i
    BY <1>1, <2>2
  <2>4. r[i - n] = e
    BY <1>5, <2>1, <2>3
  <2> QED
    BY <1>6, <2>3, <2>4 DEF ToSet
<1> QED
  BY <1>4, <1>7, <1>8, <1>9, <1>10 DEF r

\* TOR_TAILQ_REMOVE of an entry, if the queue has it.
LEMMA RemoveOnce ==
  ASSUME NEW S, NEW s \in Seq(S), IsInjective(s), NEW e
  PROVE  /\ RemoveFirst(s, e) \in Seq(S)
         /\ IsInjective(RemoveFirst(s, e))
         /\ ToSet(RemoveFirst(s, e)) = ToSet(s) \ {e}
         /\ Len(RemoveFirst(s, e)) = IF e \in ToSet(s) THEN Len(s) - 1 ELSE Len(s)
<1>1. Len(s) \in Nat /\ DOMAIN s = 1 .. Len(s) /\ \A i \in 1 .. Len(s) : s[i] \in S
  BY LenProperties, ElementOfSeq
<1>2. CASE e \notin ToSet(s)
  <2>1. RemoveFirst(s, e) = s
    BY <1>1, <1>2 DEF RemoveFirst, ToSet
  <2> QED
    BY <1>2, <2>1
<1>3. CASE e \in ToSet(s)
  <2>1. PICK k \in 1 .. Len(s) : s[k] = e
    BY <1>1, <1>3 DEF ToSet
  <2>2. {i \in 1 .. Len(s) : s[i] = e} = {k}
    BY <1>1, <2>1 DEF IsInjective
  <2>3. SelectInSeq(s, LAMBDA v : v = e) = k
    <3>1. Min({k}) = k
      BY <2>1 DEF Min
    <3> QED
      BY <2>2, <3>1 DEF SelectInSeq
  <2> DEFINE a == SubSeq(s, 1, k - 1)
             b == SubSeq(s, k + 1, Len(s))
             r == a \o b
  <2>4. RemoveFirst(s, e) = r
    BY <2>1, <2>3 DEF RemoveFirst, RemoveAt
  <2>5. /\ a \in Seq(S) /\ Len(a) = k - 1 /\ \A i \in 1 .. k - 1 : a[i] = s[i]
    <3>1. /\ a \in Seq(S)
          /\ Len(a) = IF 1 <= k - 1 THEN k - 1 - 1 + 1 ELSE 0
          /\ \A i \in 1 .. k - 1 - 1 + 1 : a[i] = s[1 + i - 1]
      BY <1>1, <2>1, SubSeqProperties
    <3> QED
      BY <3>1, <2>1
  <2>6. /\ b \in Seq(S) /\ Len(b) = Len(s) - k
        /\ \A i \in 1 .. Len(s) - k : b[i] = s[k + i]
    <3>1. /\ b \in Seq(S)
          /\ Len(b) = IF k + 1 <= Len(s) THEN Len(s) - (k + 1) + 1 ELSE 0
          /\ \A i \in 1 .. Len(s) - (k + 1) + 1 : b[i] = s[k + 1 + i - 1]
      BY <1>1, <2>1, SubSeqProperties
    <3> QED
      BY <3>1, <2>1, <1>1
  <2> HIDE DEF a, b
  <2>7. /\ r \in Seq(S) /\ Len(r) = Len(s) - 1 /\ DOMAIN r = 1 .. Len(s) - 1
        /\ \A i \in 1 .. Len(s) - 1 : r[i] = IF i < k THEN s[i] ELSE s[i + 1]
    <3>1. /\ r \in Seq(S) /\ Len(r) = Len(a) + Len(b)
          /\ \A i \in 1 .. Len(a) + Len(b) :
               r[i] = IF i <= Len(a) THEN a[i] ELSE b[i - Len(a)]
      BY <2>5, <2>6, ConcatProperties
    <3>2. Len(r) = Len(s) - 1
      BY <3>1, <2>5, <2>6, <2>1, <1>1
    <3>3. ASSUME NEW i \in 1 .. Len(s) - 1
          PROVE  r[i] = IF i < k THEN s[i] ELSE s[i + 1]
      BY <3>1, <3>2, <2>5, <2>6, <2>1, <1>1
    <3>4. DOMAIN r = 1 .. Len(r)
      <4> HIDE DEF r
      <4> QED
        BY <3>1, LenProperties
    <3> QED
      BY <3>1, <3>2, <3>3, <3>4
  <2> HIDE DEF r
  <2>8. IsInjective(r)
    <3> SUFFICES ASSUME NEW i \in 1 .. Len(s) - 1, NEW j \in 1 .. Len(s) - 1,
                        r[i] = r[j]
                 PROVE  i = j
      BY <2>7 DEF IsInjective
    <3> DEFINE at(h) == IF h < k THEN h ELSE h + 1
    <3>1. /\ at(i) \in DOMAIN s /\ r[i] = s[at(i)]
          /\ at(j) \in DOMAIN s /\ r[j] = s[at(j)]
      BY <1>1, <2>7
    <3>2. at(i) = at(j)
      <4> HIDE DEF at
      <4> QED
        BY <3>1 DEF IsInjective
    <3> QED
      BY <3>2
  <2>9. ToSet(r) \subseteq ToSet(s) \ {e}
    BY <1>1, <2>1, <2>7 DEF IsInjective, ToSet
  <2>10. ASSUME NEW x \in ToSet(s) \ {e} PROVE x \in ToSet(r)
    <3>1. PICK i \in 1 .. Len(s) : s[i] = x
      BY <1>1 DEF ToSet
    <3>2. CASE i < k
      BY <1>1, <2>1, <2>7, <3>1, <3>2 DEF ToSet
    <3>3. CASE i > k
      <4>1. i - 1 \in 1 .. Len(s) - 1 /\ r[i - 1] = x
        BY <1>1, <2>1, <2>7, <3>1, <3>3
      <4> QED
        BY <4>1, <2>7 DEF ToSet
    <3> QED
      BY <2>1, <3>1, <3>2, <3>3
  <2> QED
    BY <1>3, <2>4, <2>7, <2>8, <2>9, <2>10
<1> QED
  BY <1>2, <1>3

\* The length of a queue is the number of its entries.
LEMMA OnceCardinality ==
  ASSUME NEW S, NEW s \in Seq(S), IsInjective(s)
  PROVE  IsFiniteSet(ToSet(s)) /\ Cardinality(ToSet(s)) = Len(s)
<1>1. Len(s) \in Nat /\ DOMAIN s = 1 .. Len(s)
  BY LenProperties
<1>2. s \in Bijection(1 .. Len(s), ToSet(s))
  <2>1. s \in [1 .. Len(s) -> ToSet(s)]
    BY <1>1, LenProperties DEF ToSet
  <2> QED
    BY <1>1, <2>1 DEF Bijection, Injection, Surjection, IsInjective, ToSet
<1>3. IsFiniteSet(1 .. Len(s)) /\ Cardinality(1 .. Len(s)) = Len(s)
  BY <1>1, FS_Interval
<1> QED
  BY <1>2, <1>3, FS_Bijection DEF ExistsBijection

\* A queue is empty when its length or its set of entries is.
LEMMA EmptyQueue ==
  ASSUME NEW S, NEW s \in Seq(S)
  PROVE  /\ Len(s) \in Nat
         /\ Len(s) > 0 <=> s # <<>>
         /\ ToSet(s) = {} <=> s = <<>>
         /\ ToSet(s) \subseteq S
<1>1. Len(s) \in Nat /\ DOMAIN s = 1 .. Len(s)
  BY LenProperties
<1>2. s = <<>> <=> Len(s) = 0
  BY EmptySeq
<1>3. Len(s) > 0 <=> Len(s) # 0
  BY <1>1
<1>4. ToSet(s) = {} <=> DOMAIN s = {}
  BY DEF ToSet
<1>5. DOMAIN s = {} <=> Len(s) = 0
  <2>1. \A n \in Nat : 1 .. n = {} <=> n = 0
    OBVIOUS
  <2> QED
    BY <1>1, <2>1
<1>6. ToSet(s) \subseteq S
  BY <1>1, ElementOfSeq DEF ToSet
<1> QED
  BY <1>1, <1>2, <1>3, <1>4, <1>5, <1>6

\* The first n entries are n different ones.
LEMMA FirstCardinality ==
  ASSUME NEW S, NEW s \in Seq(S), IsInjective(s), NEW n \in Nat, n <= Len(s)
  PROVE  Cardinality(First(s, n)) = n
<1> DEFINE first == First(s, n)
           rest == ToSet(SubSeq(s, n + 1, Len(s)))
<1>1. /\ IsFiniteSet(ToSet(s)) /\ Cardinality(ToSet(s)) = Len(s)
      /\ IsFiniteSet(rest) /\ Cardinality(rest) = Len(s) - n
  <2>1. /\ SubSeq(s, n + 1, Len(s)) \in Seq(S)
        /\ IsInjective(SubSeq(s, n + 1, Len(s)))
        /\ Len(SubSeq(s, n + 1, Len(s))) = Len(s) - n
    BY DropFirst
  <2>2. IsFiniteSet(rest) /\ Cardinality(rest) = Len(SubSeq(s, n + 1, Len(s)))
    BY <2>1, OnceCardinality
  <2>3. IsFiniteSet(ToSet(s)) /\ Cardinality(ToSet(s)) = Len(s)
    BY OnceCardinality
  <2> QED
    BY <2>1, <2>2, <2>3
<1>2. first \subseteq ToSet(s)
  <2>1. Len(s) \in Nat /\ DOMAIN s = 1 .. Len(s)
    BY LenProperties
  <2>2. \A i \in 1 .. n : i \in DOMAIN s
    BY <2>1
  <2> QED
    BY <2>2 DEF ToSet, First
<1>3. rest = ToSet(s) \ first
  BY DropFirst
<1>4. IsFiniteSet(first) /\ Cardinality(first) \in Nat
  <2> HIDE DEF first, rest
  <2>1. IsFiniteSet(first)
    BY <1>1, <1>2, FS_Subset
  <2> QED
    BY <2>1, FS_CardinalityType
<1> HIDE DEF first, rest
<1>5. ToSet(s) = first \cup rest /\ first \cap rest = {}
  BY <1>2, <1>3
<1>6. Cardinality(ToSet(s)) = Cardinality(first) + Cardinality(rest)
  <2>1. Cardinality(first \cup rest)
          = Cardinality(first) + Cardinality(rest) - Cardinality(first \cap rest)
    BY <1>1, <1>4, FS_Union
  <2>2. Cardinality(first \cap rest) = 0
    BY <1>5, FS_EmptySet
  <2>3. Cardinality(rest) \in Nat
    BY <1>1, FS_CardinalityType
  <2> QED
    BY <2>1, <2>2, <2>3, <1>4, <1>5
<1>7. Len(s) \in Nat
  BY LenProperties
<1>8. Cardinality(first) = n
  BY <1>1, <1>4, <1>6, <1>7
<1> QED
  BY <1>8 DEF first
=============================================================================
