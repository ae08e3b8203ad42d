--------------------------- MODULE HandshakesProofs ---------------------------
(***************************************************************************)
(* Proofs for Handshakes: IInv is an inductive invariant, and the safety   *)
(* properties of the onion queue, the thread pool and the replies follow   *)
(* from it for any number of circuits, threads and key rotations.          *)
(***************************************************************************)
EXTENDS Handshakes, DataLemmas

-----------------------------------------------------------------------------
(* Facts about the operators *)

\* One more handshake, or one less, with the pool.
LEMMA CountOne ==
  ASSUME NEW S, IsFiniteSet(S), NEW A \in SUBSET S, NEW e \in S
  PROVE  /\ IsFiniteSet(A) /\ Cardinality(A) \in Nat
         /\ e \notin A => Cardinality(A \cup {e}) = Cardinality(A) + 1
         /\ e \in A => /\ Cardinality(A \ {e}) = Cardinality(A) - 1
                       /\ Cardinality(A) > 0
<1>1. IsFiniteSet(A) /\ Cardinality(A) \in Nat
  BY FS_Subset, FS_CardinalityType
<1>2. e \notin A => Cardinality(A \cup {e}) = Cardinality(A) + 1
  BY <1>1, FS_AddElement
<1>3. e \in A => Cardinality(A \ {e}) = Cardinality(A) - 1
  BY <1>1, FS_RemoveElement
<1>4. e \in A => Cardinality(A) # 0
  BY <1>1, FS_EmptySet
<1> QED
  BY <1>1, <1>2, <1>3, <1>4

\* Sets with nothing in common.
LEMMA CountDisjoint ==
  ASSUME NEW A, IsFiniteSet(A), NEW B, IsFiniteSet(B), A \cap B = {}
  PROVE  /\ IsFiniteSet(A \cup B)
         /\ Cardinality(A \cup B) = Cardinality(A) + Cardinality(B)
<1>1. /\ IsFiniteSet(A \cup B)
      /\ Cardinality(A \cup B) = Cardinality(A) + Cardinality(B) - Cardinality(A \cap B)
  BY FS_Union
<1>2. Cardinality(A \cap B) = 0
  BY FS_EmptySet
<1>3. Cardinality(A) \in Nat /\ Cardinality(B) \in Nat
  BY FS_CardinalityType
<1> QED
  BY <1>1, <1>2, <1>3

\* tor_cond_signal_one after a job was added: either nobody slept, or one more
\* thread will look for work.
LEMMA QueueWorkInv ==
  ASSUME IInv, NEW j \in Job, ~Busy(j), QueueWork(j)
  PROVE  /\ PoolTypeOK' /\ ThreadsExact' /\ NoIdleWorker'
         /\ IsInjective(work') /\ ToSet(work') = ToSet(work) \cup {j}
         /\ \A t \in Thread : tpc[t] = "alert" => tpc'[t] = "alert"
         /\ UNCHANGED <<tjob, answers, alert>>
<1>1. work \in Seq(Job) /\ IsInjective(work) /\ j \notin ToSet(work)
  BY DEF IInv, TypeOK, PoolTypeOK, PlacesDisjoint, Busy, Pending
<1>2. work' = Append(work, j)
  BY DEF QueueWork
<1>3. /\ work' \in Seq(Job) /\ IsInjective(work')
      /\ ToSet(work') = ToSet(work) \cup {j}
      /\ Len(work') = Len(work) + 1
  BY <1>1, <1>2, AppendOnce
<1>4. UNCHANGED <<generation, update_args, tjob, targ, tgen, tstate, answers, alert>>
  BY DEF QueueWork, replyVars
<1>5. /\ tpc' \in [Thread -> ThreadPc]
      /\ \A t \in Thread : \/ tpc'[t] = tpc[t]
                           \/ tpc[t] = "waiting" /\ tpc'[t] = "ready"
  BY DEF QueueWork, SignalOne, Sleeping, ThreadPc, IInv, TypeOK, PoolTypeOK
<1>6. PoolTypeOK'
  BY <1>3, <1>4, <1>5 DEF IInv, TypeOK, PoolTypeOK
<1>7. ThreadsExact'
  BY <1>4, <1>5 DEF IInv, ThreadsExact, UpToDate
<1>8. NoIdleWorker'
  <2>1. \A t \in Sleeping' : UpToDate(t)'
    BY <1>4, <1>5 DEF IInv, NoIdleWorker, Sleeping, UpToDate
  <2>2. CASE Sleeping = {}
    BY <1>5, <2>1, <2>2 DEF NoIdleWorker, Sleeping
  <2>3. CASE Sleeping # {}
    <3>1. PICK t \in Thread : tpc[t] = "waiting" /\ tpc' = [tpc EXCEPT ![t] = "ready"]
      BY <2>3 DEF QueueWork, SignalOne, Sleeping
    <3>2. Looking' = Looking \cup {t} /\ t \notin Looking
      BY <3>1 DEF Looking, IInv, TypeOK, PoolTypeOK
    <3>3. Cardinality(Looking') = Cardinality(Looking) + 1 /\ Cardinality(Looking) \in Nat
      BY <3>2, CountOne, WorkqueueAssumption DEF Looking
    <3>4. ~(Len(work) > Cardinality(Looking)) /\ Len(work) \in Nat
      BY <2>3, <1>1, LenProperties DEF IInv, NoIdleWorker
    <3> QED
      BY <2>1, <3>3, <3>4, <1>3 DEF NoIdleWorker
  <2> QED
    BY <2>2, <2>3
<1> QED
  BY <1>3, <1>4, <1>5, <1>6, <1>7, <1>8

\* A step of a worker thread that moves no job, and a thread's step in general,
\* leaves the main thread's part of the invariant alone.
LEMMA WorkerFrame ==
  ASSUME IInv, UNCHANGED handshakeVars, PoolTypeOK',
         \A c \in Circ : Busy(c)' <=> Busy(c)
  PROVE  /\ TypeOK' /\ OnionQueueExact' /\ ChannelOfQueued'
         /\ CircuitRefs' /\ TasksExact' /\ TurnCounted' /\ TapTurn'
<1>1. TypeOK'
  BY DEF IInv, TypeOK, handshakeVars, circVars, onionVars, taskVars
<1>2. OnionQueueExact' /\ ChannelOfQueued'
  BY DEF IInv, OnionQueueExact, ChannelOfQueued, Queued, QueueOf, handshakeVars,
         circVars, onionVars
<1>3. CircuitRefs'
  BY DEF IInv, CircuitRefs, Queued, handshakeVars, circVars, onionVars
<1>4. TasksExact'
  <2>1. {c \in Circ : Busy(c)}' = {c \in Circ : Busy(c)}
    OBVIOUS
  <2> QED
    BY <2>1 DEF IInv, TasksExact, handshakeVars, taskVars
<1>5. TurnCounted' /\ TapTurn'
  BY DEF IInv, TurnCounted, TapTurn, handshakeVars, onionVars
<1> QED
  BY <1>1, <1>2, <1>3, <1>4, <1>5

-----------------------------------------------------------------------------
(* One lemma per action of a worker thread *)

\* A thread takes an update: it stays among those about to look for work.
LEMMA TakeUpdateInv ==
  ASSUME IInv, NEW t \in Thread, TakeUpdate(t), UNCHANGED handshakeVars
  PROVE  IInv'
<1>1. PoolTypeOK'
  BY DEF IInv, TypeOK, PoolTypeOK, TakeUpdate, ThreadPc, replyVars
<1>2. UNCHANGED <<work, tjob, answers, alert, generation>>
  BY DEF TakeUpdate, replyVars
<1>3. \A c \in Circ : Busy(c)' <=> Busy(c)
  BY <1>2 DEF Busy, Pending, InHand, Answered
<1>4. ThreadsExact'
  BY DEF IInv, TypeOK, PoolTypeOK, ThreadsExact, UpToDate, TakeUpdate, replyVars
<1>5. PlacesDisjoint'
  BY <1>2 DEF IInv, PlacesDisjoint, Pending, InHand, Answered, handshakeVars, onionVars
<1>6. NoIdleWorker'
  <2>1. Looking' = Looking /\ Sleeping' = Sleeping
    BY DEF Looking, Sleeping, TakeUpdate, IInv, TypeOK, PoolTypeOK
  <2>2. \A u \in Sleeping : UpToDate(u)'
    BY DEF IInv, NoIdleWorker, Sleeping, UpToDate, TakeUpdate, TypeOK, PoolTypeOK
  <2> QED
    BY <1>2, <2>1, <2>2 DEF IInv, NoIdleWorker
<1>7. NoLostAlert'
  BY <1>2 DEF IInv, TypeOK, PoolTypeOK, NoLostAlert, TakeUpdate, handshakeVars
<1> QED
  BY <1>1, <1>3, <1>4, <1>5, <1>6, <1>7, WorkerFrame DEF IInv

\* The update a thread took is that of its generation.
LEMMA RunUpdateInv ==
  ASSUME IInv, NEW t \in Thread, RunUpdate(t), UNCHANGED handshakeVars
  PROVE  IInv'
<1>1. PoolTypeOK'
  BY DEF IInv, TypeOK, PoolTypeOK, ThreadsExact, RunUpdate, ThreadPc, poolVars, replyVars
<1>2. UNCHANGED <<work, tjob, answers, alert, generation, tgen>>
  BY DEF RunUpdate, poolVars, replyVars
<1>3. \A c \in Circ : Busy(c)' <=> Busy(c)
  BY <1>2 DEF Busy, Pending, InHand, Answered
<1>4. ThreadsExact'
  BY DEF IInv, TypeOK, PoolTypeOK, ThreadsExact, UpToDate, RunUpdate, poolVars
<1>5. PlacesDisjoint'
  BY <1>2 DEF IInv, PlacesDisjoint, Pending, InHand, Answered, handshakeVars, onionVars
<1>6. NoIdleWorker'
  <2>1. Looking' = Looking /\ Sleeping' = Sleeping
    BY DEF Looking, Sleeping, RunUpdate, IInv, TypeOK, PoolTypeOK
  <2> QED
    BY <1>2, <2>1 DEF IInv, NoIdleWorker, UpToDate
<1>7. NoLostAlert'
  BY <1>2 DEF IInv, TypeOK, PoolTypeOK, NoLostAlert, RunUpdate, handshakeVars
<1> QED
  BY <1>1, <1>3, <1>4, <1>5, <1>6, <1>7, WorkerFrame DEF IInv

\* A job goes from the head of the queue into a thread's hand: one job and one
\* thread about to look for work less.
LEMMA TakeWorkInv ==
  ASSUME IInv, NEW t \in Thread, TakeWork(t), UNCHANGED handshakeVars
  PROVE  IInv'
<1> DEFINE j == Head(work)
<1>1. /\ work' \in Seq(Job) /\ IsInjective(work')
      /\ j \in Job /\ j \in ToSet(work)
      /\ ToSet(work') = ToSet(work) \ {j}
      /\ Len(work') = Len(work) - 1
  BY TailOnce DEF TakeWork, IInv, TypeOK, PoolTypeOK, PlacesDisjoint
<1>2. /\ tpc[t] = "ready" /\ tjob[t] = NULL /\ j # NULL
      /\ tjob' = [tjob EXCEPT ![t] = j]
      /\ tpc' = [tpc EXCEPT ![t] = "run"]
      /\ UNCHANGED <<generation, update_args, targ, tgen, tstate, answers, alert>>
  BY <1>1, WorkqueueAssumption DEF TakeWork, IInv, ThreadsExact, replyVars
<1> HIDE DEF j
<1>3. PoolTypeOK'
  BY <1>1, <1>2 DEF IInv, TypeOK, PoolTypeOK, ThreadPc
<1>4. ~InHand(j) /\ ~Answered(j)
  BY <1>1 DEF Circ, IInv, PlacesDisjoint, Pending
<1>5. \A c \in Circ : /\ Pending(c)' <=> Pending(c) /\ c # j
                      /\ InHand(c)' <=> InHand(c) \/ c = j
                      /\ Answered(c)' <=> Answered(c)
  BY <1>1, <1>2, WorkqueueAssumption
  DEF Pending, InHand, Answered, Circ, IInv, TypeOK, PoolTypeOK
<1>6. \A c \in Circ : Busy(c)' <=> Busy(c)
  BY <1>1, <1>5 DEF Busy, Pending
<1>7. ThreadsExact'
  BY <1>2, <1>4 DEF IInv, TypeOK, PoolTypeOK, ThreadsExact, UpToDate, InHand
<1>8. PlacesDisjoint'
  BY <1>1, <1>2, <1>4, <1>5 DEF IInv, PlacesDisjoint, handshakeVars, onionVars
<1>9. NoIdleWorker'
  <2>1. Looking' = Looking \ {t} /\ t \in Looking /\ Sleeping' = Sleeping
    BY <1>2 DEF Looking, Sleeping, IInv, TypeOK, PoolTypeOK
  <2>2. Cardinality(Looking') = Cardinality(Looking) - 1 /\ Cardinality(Looking) \in Nat
    BY <2>1, CountOne, WorkqueueAssumption DEF Looking
  <2>3. Len(work) \in Nat
    BY LenProperties DEF IInv, TypeOK, PoolTypeOK
  <2>4. Len(work') > Cardinality(Looking') => Len(work) > Cardinality(Looking)
    BY <1>1, <2>2, <2>3
  <2> QED
    BY <1>2, <2>1, <2>4 DEF IInv, NoIdleWorker, UpToDate
<1>10. NoLostAlert'
  BY <1>2 DEF IInv, TypeOK, PoolTypeOK, NoLostAlert, handshakeVars
<1> QED
  BY <1>3, <1>6, <1>7, <1>8, <1>9, <1>10, WorkerFrame DEF IInv

\* A thread goes to sleep only with nothing queued, and with the latest update.
LEMMA SleepInv ==
  ASSUME IInv, NEW t \in Thread, Sleep(t), UNCHANGED handshakeVars
  PROVE  IInv'
<1>1. PoolTypeOK'
  BY DEF IInv, TypeOK, PoolTypeOK, Sleep, ThreadPc, poolVars, replyVars
<1>2. UNCHANGED <<work, tjob, answers, alert, generation, update_args, targ, tgen, tstate>>
  BY DEF Sleep, poolVars, replyVars
<1>3. \A c \in Circ : Busy(c)' <=> Busy(c)
  BY <1>2 DEF Busy, Pending, InHand, Answered
<1>4. ThreadsExact'
  BY <1>2 DEF IInv, TypeOK, PoolTypeOK, ThreadsExact, UpToDate, Sleep
<1>5. PlacesDisjoint'
  BY <1>2 DEF IInv, PlacesDisjoint, Pending, InHand, Answered, handshakeVars, onionVars
<1>6. NoIdleWorker'
  <2>1. \A u \in Sleeping' : UpToDate(u)'
    BY <1>2 DEF IInv, TypeOK, PoolTypeOK, NoIdleWorker, Sleeping, UpToDate, Sleep
  <2>2. Len(work') = 0
    BY <1>2, EmptySeq DEF Sleep
  <2>3. Cardinality(Looking') \in Nat
    BY FS_Subset, FS_CardinalityType, WorkqueueAssumption DEF Looking
  <2> QED
    BY <2>1, <2>2, <2>3 DEF NoIdleWorker
<1>7. NoLostAlert'
  BY <1>2 DEF IInv, TypeOK, PoolTypeOK, NoLostAlert, Sleep, handshakeVars
<1> QED
  BY <1>1, <1>3, <1>4, <1>5, <1>6, <1>7, WorkerFrame DEF IInv

\* A thread that wakes, with or without a signal, is one more that looks for work.
LEMMA SpuriousWakeInv ==
  ASSUME IInv, NEW t \in Thread, SpuriousWake(t), UNCHANGED handshakeVars
  PROVE  IInv'
<1>1. PoolTypeOK'
  BY DEF IInv, TypeOK, PoolTypeOK, SpuriousWake, ThreadPc, poolVars, replyVars
<1>2. UNCHANGED <<work, tjob, answers, alert, generation, update_args, targ, tgen, tstate>>
  BY DEF SpuriousWake, poolVars, replyVars
<1>3. \A c \in Circ : Busy(c)' <=> Busy(c)
  BY <1>2 DEF Busy, Pending, InHand, Answered
<1>4. ThreadsExact'
  BY <1>2 DEF IInv, TypeOK, PoolTypeOK, ThreadsExact, UpToDate, SpuriousWake
<1>5. PlacesDisjoint'
  BY <1>2 DEF IInv, PlacesDisjoint, Pending, InHand, Answered, handshakeVars, onionVars
<1>6. NoIdleWorker'
  <2>1. Sleeping' \subseteq Sleeping
    BY DEF IInv, TypeOK, PoolTypeOK, Sleeping, SpuriousWake
  <2>2. Looking' = Looking \cup {t} /\ t \notin Looking
    BY DEF Looking, SpuriousWake, IInv, TypeOK, PoolTypeOK
  <2>3. Cardinality(Looking') = Cardinality(Looking) + 1 /\ Cardinality(Looking) \in Nat
    BY <2>2, CountOne, WorkqueueAssumption DEF Looking
  <2>4. Len(work) \in Nat
    BY LenProperties DEF IInv, TypeOK, PoolTypeOK
  <2>5. Len(work') > Cardinality(Looking') => Len(work) > Cardinality(Looking)
    BY <1>2, <2>3, <2>4
  <2> QED
    BY <1>2, <2>1, <2>5 DEF IInv, NoIdleWorker, UpToDate
<1>7. NoLostAlert'
  BY <1>2 DEF IInv, TypeOK, PoolTypeOK, NoLostAlert, SpuriousWake, handshakeVars
<1> QED
  BY <1>1, <1>3, <1>4, <1>5, <1>6, <1>7, WorkerFrame DEF IInv

\* A job goes from a thread's hand to the answers; if there were none the thread
\* is about to send the alert.
LEMMA QueueReplyInv ==
  ASSUME IInv, NEW t \in Thread, QueueReply(t), UNCHANGED handshakeVars
  PROVE  IInv'
<1> DEFINE j == tjob[t]
<1>1. /\ tpc[t] = "run" /\ j \in Job /\ j # NULL
      /\ InHand(j) /\ ~Pending(j) /\ ~Answered(j)
      /\ \A u \in Thread : tjob[u] = j => u = t
  BY WorkqueueAssumption
  DEF QueueReply, IInv, TypeOK, PoolTypeOK, ThreadsExact, PlacesDisjoint, InHand, Circ
<1>2. /\ answers' = Append(answers, j)
      /\ tjob' = [tjob EXCEPT ![t] = NULL]
      /\ tpc' = [tpc EXCEPT ![t] = IF WasEmpty THEN "alert" ELSE "ready"]
      /\ UNCHANGED <<work, generation, update_args, targ, tgen, tstate, alert>>
  BY DEF QueueReply, poolVars
<1>3. /\ answers' \in Seq(Job) /\ IsInjective(answers')
      /\ ToSet(answers') = ToSet(answers) \cup {j}
  BY <1>1, <1>2, AppendOnce DEF IInv, TypeOK, PoolTypeOK, PlacesDisjoint, Answered
<1> HIDE DEF j
<1>4. PoolTypeOK'
  BY <1>2, <1>3 DEF IInv, TypeOK, PoolTypeOK, ThreadPc
<1>5. \A c \in Circ : /\ Pending(c)' <=> Pending(c)
                      /\ InHand(c)' <=> InHand(c) /\ c # j
                      /\ Answered(c)' <=> Answered(c) \/ c = j
  <2>1. \A c \in Circ : InHand(c)' <=> InHand(c) /\ c # j
    <3> SUFFICES ASSUME NEW c \in Circ
                 PROVE  InHand(c)' <=> InHand(c) /\ c # j
      OBVIOUS
    <3>1. c # NULL
      BY WorkqueueAssumption DEF Circ
    <3>2. j = tjob[t] /\ \A u \in Thread : tjob'[u] = IF u = t THEN NULL ELSE tjob[u]
      BY <1>2 DEF j, IInv, TypeOK, PoolTypeOK
    <3> QED
      BY <1>1, <3>1, <3>2 DEF InHand
  <2> QED
    BY <1>2, <1>3, <2>1 DEF Pending, Answered
<1>6. \A c \in Circ : Busy(c)' <=> Busy(c)
  BY <1>1, <1>5 DEF Busy
<1>7. ThreadsExact'
  BY <1>1, <1>2 DEF IInv, TypeOK, PoolTypeOK, ThreadsExact, UpToDate
<1>8. PlacesDisjoint'
  BY <1>1, <1>2, <1>3, <1>5 DEF IInv, PlacesDisjoint, handshakeVars, onionVars
<1>9. NoIdleWorker'
  <2>1. Looking' = IF WasEmpty THEN Looking ELSE Looking \cup {t}
    BY <1>1, <1>2 DEF Looking, IInv, TypeOK, PoolTypeOK
  <2>2. t \notin Looking /\ Sleeping' = Sleeping
    BY <1>1, <1>2 DEF Looking, Sleeping, IInv, TypeOK, PoolTypeOK
  <2>3. /\ Cardinality(Looking) \in Nat
        /\ Cardinality(Looking') = IF WasEmpty THEN Cardinality(Looking)
                                   ELSE Cardinality(Looking) + 1
    <3>1. IsFiniteSet(Thread) /\ Looking \in SUBSET Thread
      BY WorkqueueAssumption DEF Looking
    <3>2. /\ Cardinality(Looking) \in Nat
          /\ Cardinality(Looking \cup {t}) = Cardinality(Looking) + 1
      BY <2>2, <3>1, CountOne
    <3> QED
      BY <2>1, <3>2
  <2>4. Len(work) \in Nat
    BY LenProperties DEF IInv, TypeOK, PoolTypeOK
  <2>5. Len(work') > Cardinality(Looking') => Len(work) > Cardinality(Looking)
    BY <1>2, <2>3, <2>4
  <2> QED
    BY <1>2, <2>2, <2>5 DEF IInv, NoIdleWorker, UpToDate
<1>10. NoLostAlert'
  <2>1. CASE WasEmpty
    BY <1>2, <2>1 DEF NoLostAlert, IInv, TypeOK, PoolTypeOK
  <2>2. CASE ~WasEmpty
    BY <1>1, <1>2, <2>2 DEF WasEmpty, IInv, TypeOK, PoolTypeOK, NoLostAlert, handshakeVars
  <2> QED
    BY <2>1, <2>2
<1> QED
  BY <1>4, <1>6, <1>7, <1>8, <1>9, <1>10, WorkerFrame DEF IInv

\* The alert is sent.
LEMMA SendAlertInv ==
  ASSUME IInv, NEW t \in Thread, SendAlert(t), UNCHANGED handshakeVars
  PROVE  IInv'
<1>1. PoolTypeOK'
  BY DEF IInv, TypeOK, PoolTypeOK, SendAlert, ThreadPc, poolVars
<1>2. UNCHANGED <<work, tjob, answers, generation, update_args, targ, tgen, tstate>>
  BY DEF SendAlert, poolVars
<1>3. \A c \in Circ : Busy(c)' <=> Busy(c)
  BY <1>2 DEF Busy, Pending, InHand, Answered
<1>4. ThreadsExact'
  BY <1>2 DEF IInv, TypeOK, PoolTypeOK, ThreadsExact, UpToDate, SendAlert
<1>5. PlacesDisjoint'
  BY <1>2 DEF IInv, PlacesDisjoint, Pending, InHand, Answered, handshakeVars, onionVars
<1>6. NoIdleWorker'
  <2>1. Sleeping' = Sleeping
    BY DEF IInv, TypeOK, PoolTypeOK, Sleeping, SendAlert
  <2>2. Looking' = Looking \cup {t} /\ t \notin Looking
    BY DEF Looking, SendAlert, IInv, TypeOK, PoolTypeOK
  <2>3. Cardinality(Looking') = Cardinality(Looking) + 1 /\ Cardinality(Looking) \in Nat
    BY <2>2, CountOne, WorkqueueAssumption DEF Looking
  <2>4. Len(work) \in Nat
    BY LenProperties DEF IInv, TypeOK, PoolTypeOK
  <2>5. Len(work') > Cardinality(Looking') => Len(work) > Cardinality(Looking)
    BY <1>2, <2>3, <2>4
  <2> QED
    BY <1>2, <2>1, <2>5 DEF IInv, NoIdleWorker, UpToDate
<1>7. NoLostAlert'
  BY DEF NoLostAlert, SendAlert
<1> QED
  BY <1>1, <1>3, <1>4, <1>5, <1>6, <1>7, WorkerFrame DEF IInv

-----------------------------------------------------------------------------
(* One lemma per action of the main thread *)

\* Key rotation wakes every thread.
LEMMA RotateKeysInv ==
  ASSUME IInv, RotateKeys
  PROVE  IInv'
<1>1. /\ generation < MaxUpdates /\ generation' = generation + 1
      /\ update_args' = [t \in Thread |-> generation + 1]
      /\ tpc' = Wake
      /\ UNCHANGED <<work, tjob, targ, tgen, tstate, answers, alert>>
      /\ UNCHANGED handshakeVars
  BY DEF RotateKeys, QueueUpdate, replyVars, handshakeVars
<1>2. PoolTypeOK'
  <2>1. generation + 1 \in Epoch
    BY <1>1, WorkqueueAssumption DEF IInv, TypeOK, PoolTypeOK, Epoch
  <2> QED
    BY <1>1, <2>1 DEF IInv, TypeOK, PoolTypeOK, Wake, ThreadPc
<1>3. \A c \in Circ : Busy(c)' <=> Busy(c)
  BY <1>1 DEF Busy, Pending, InHand, Answered
<1>4. ThreadsExact'
  BY <1>1 DEF IInv, TypeOK, PoolTypeOK, ThreadsExact, UpToDate, Wake
<1>5. PlacesDisjoint'
  BY <1>1 DEF IInv, PlacesDisjoint, Pending, InHand, Answered, handshakeVars, onionVars
<1>6. NoIdleWorker'
  <2>1. Sleeping' = {}
    BY <1>1 DEF Sleeping, Wake
  <2> QED
    BY <2>1 DEF NoIdleWorker
<1>7. NoLostAlert'
  <2>1. \A t \in Thread : tpc[t] = "alert" => tpc'[t] = "alert"
    BY <1>1 DEF Wake
  <2> QED
    BY <1>1, <2>1 DEF IInv, NoLostAlert, handshakeVars
<1> QED
  BY <1>1, <1>2, <1>3, <1>4, <1>5, <1>6, <1>7, WorkerFrame DEF IInv

\* A handler of the main thread that does not touch the pool.
LEMMA PoolFrame ==
  ASSUME IInv, UNCHANGED wqVars
  PROVE  /\ PoolTypeOK' /\ ThreadsExact' /\ NoIdleWorker'
         /\ IsInjective(work') /\ IsInjective(answers')
         /\ \A c \in Circ : /\ Pending(c)' <=> Pending(c)
                            /\ InHand(c)' <=> InHand(c)
                            /\ Answered(c)' <=> Answered(c)
                            /\ Busy(c)' <=> Busy(c)
         /\ {c \in Circ : Busy(c)}' = {c \in Circ : Busy(c)}
<1> USE DEF wqVars, poolVars, thrVars, replyVars
<1>1. PoolTypeOK' /\ ThreadsExact' /\ NoIdleWorker'
  BY DEF IInv, TypeOK, PoolTypeOK, ThreadsExact, UpToDate, NoIdleWorker, Sleeping, Looking
<1>2. IsInjective(work') /\ IsInjective(answers')
  BY DEF IInv, PlacesDisjoint
<1>3. \A c \in Circ : /\ Pending(c)' <=> Pending(c)
                      /\ InHand(c)' <=> InHand(c)
                      /\ Answered(c)' <=> Answered(c)
                      /\ Busy(c)' <=> Busy(c)
  BY DEF Pending, InHand, Answered, Busy
<1> QED
  BY <1>1, <1>2, <1>3

\* A step of the main thread that leaves the pool, the circuits and the onion
\* queues alone, and answers no reply: what can change is max_pending_tasks, and
\* where the main thread is.
LEMMA MainFrame ==
  ASSUME IInv, UNCHANGED <<wqVars, circVars, onionVars, total_pending_tasks>>,
         consensus' \in DOMAIN TaskLimits, mpc' \in {"idle", "replying", "pumping"},
         NoLostAlert'
  PROVE  IInv'
<1>1. TypeOK'
  BY PoolFrame DEF IInv, TypeOK, circVars, onionVars
<1>2. PlacesDisjoint'
  BY PoolFrame DEF IInv, PlacesDisjoint, onionVars
<1>3. OnionQueueExact' /\ ChannelOfQueued' /\ TurnCounted' /\ TapTurn'
  BY DEF IInv, OnionQueueExact, ChannelOfQueued, Queued, QueueOf, TurnCounted, TapTurn,
         circVars, onionVars
<1>4. CircuitRefs'
  BY PoolFrame DEF IInv, CircuitRefs, Queued, circVars, onionVars
<1>5. TasksExact'
  BY PoolFrame DEF IInv, TasksExact
<1> QED
  BY <1>1, <1>2, <1>3, <1>4, <1>5, PoolFrame DEF IInv

\* max_pending_tasks takes its next value.
LEMMA ConsensusChangedInv ==
  ASSUME IInv, ConsensusChanged
  PROVE  IInv'
<1>1. consensus' \in DOMAIN TaskLimits
  BY HandshakesAssumption, LenProperties DEF ConsensusChanged, IInv, TypeOK
<1>2. NoLostAlert'
  BY DEF ConsensusChanged, IInv, NoLostAlert, wqVars, thrVars, replyVars
<1> QED
  BY <1>1, <1>2, MainFrame DEF ConsensusChanged, IInv, TypeOK

\* replyqueue_process ends with no answer left.
LEMMA RepliesDoneInv ==
  ASSUME IInv, RepliesDone
  PROVE  IInv'
<1>1. NoLostAlert'
  BY DEF RepliesDone, NoLostAlert, wqVars, replyVars
<1> QED
  BY <1>1, MainFrame DEF RepliesDone, IInv, TypeOK, taskVars

\* queue_pending_tasks ends.
LEMMA PumpDoneInv ==
  ASSUME IInv, PumpDone
  PROVE  IInv'
<1>1. NoLostAlert'
  BY DEF PumpDone, NoLostAlert
<1> QED
  BY <1>1, MainFrame DEF PumpDone, IInv, TypeOK, taskVars

\* The alert is drained by the main thread, which then looks at the answers.
LEMMA DrainAlertInv ==
  ASSUME IInv, DrainAlert
  PROVE  IInv'
<1>1. /\ UNCHANGED <<work, answers, tjob, generation, update_args, tpc, targ, tgen, tstate>>
      /\ UNCHANGED <<circVars, onionVars, taskVars>> /\ mpc' = "replying" /\ alert' = FALSE
  BY DEF DrainAlert, poolVars, thrVars
<1>2. \A c \in Circ : /\ Busy(c)' <=> Busy(c)
                      /\ Pending(c)' <=> Pending(c)
                      /\ InHand(c)' <=> InHand(c)
                      /\ Answered(c)' <=> Answered(c)
  BY <1>1 DEF Busy, Pending, InHand, Answered
<1>3. TypeOK'
  BY <1>1 DEF IInv, TypeOK, PoolTypeOK, circVars, onionVars, taskVars
<1>4. ThreadsExact' /\ NoIdleWorker'
  BY <1>1 DEF IInv, ThreadsExact, UpToDate, NoIdleWorker, Sleeping, Looking
<1>5. PlacesDisjoint'
  BY <1>1, <1>2 DEF IInv, PlacesDisjoint, onionVars
<1>6. OnionQueueExact' /\ ChannelOfQueued' /\ TurnCounted' /\ TapTurn'
  BY <1>1 DEF IInv, OnionQueueExact, ChannelOfQueued, Queued, QueueOf, TurnCounted,
              TapTurn, circVars, onionVars
<1>7. CircuitRefs'
  BY <1>1, <1>2 DEF IInv, CircuitRefs, Queued, circVars, onionVars
<1>8. TasksExact'
  <2>1. {c \in Circ : Busy(c)}' = {c \in Circ : Busy(c)}
    BY <1>2
  <2> QED
    BY <1>1, <2>1 DEF IInv, TasksExact, taskVars
<1>9. NoLostAlert'
  BY <1>1 DEF NoLostAlert
<1> QED
  BY <1>3, <1>4, <1>5, <1>6, <1>7, <1>8, <1>9 DEF IInv

\* A handler that changes what is known of circuits but moves none of them: the
\* pool and the onion queues stay.
LEMMA CircuitFrame ==
  ASSUME IInv, UNCHANGED <<wqVars, workqueue_entry, onionVars, taskVars, mpc>>,
         circ' \in [Circ -> {"free", "pending", "marked", "dead"}],
         p_chan' \in [Circ -> BOOLEAN],
         \A d \in Circ : \/ circ'[d] = circ[d]
                         \/ circ[d] \in {"free", "pending"} /\ circ'[d] = "marked",
         \A d \in Circ : circ'[d] = "pending" => p_chan'[d] = p_chan[d]
  PROVE  IInv'
<1>1. TypeOK'
  BY PoolFrame DEF IInv, TypeOK, onionVars, taskVars
<1>2. PlacesDisjoint'
  BY PoolFrame DEF IInv, PlacesDisjoint, onionVars
<1>3. OnionQueueExact'
  <2>1. \A q \in Queue : ToSet(ol_list[q]) \subseteq Circ
    BY EmptyQueue DEF IInv, TypeOK
  <2> QED
    BY <2>1 DEF IInv, OnionQueueExact, QueueOf, onionVars
<1>4. ChannelOfQueued' /\ TurnCounted' /\ TapTurn'
  BY DEF IInv, ChannelOfQueued, Queued, TurnCounted, TapTurn, onionVars
<1>5. CircuitRefs'
  BY PoolFrame DEF IInv, CircuitRefs, Queued, onionVars
<1>6. TasksExact'
  BY PoolFrame DEF IInv, TasksExact, taskVars
<1>7. NoLostAlert'
  BY DEF IInv, NoLostAlert, wqVars, thrVars, replyVars
<1> QED
  BY <1>1, <1>2, <1>3, <1>4, <1>5, <1>6, <1>7, PoolFrame DEF IInv

\* circuit_mark_for_close
LEMMA MarkForCloseInv ==
  ASSUME IInv, NEW c \in Circ, MarkForClose(c)
  PROVE  IInv'
BY CircuitFrame DEF MarkForClose, IInv, TypeOK

\* circuit_unlink_all_from_channel leaves no queued circuit without a channel
\* unmarked.
LEMMA ChannelGoneInv ==
  ASSUME IInv, NEW c \in Circ, ChannelGone(c)
  PROVE  IInv'
<1>1. /\ circ' \in [Circ -> {"free", "pending", "marked", "dead"}]
      /\ p_chan' \in [Circ -> BOOLEAN]
  BY DEF ChannelGone, IInv, TypeOK
<1>2. \A d \in Circ : \/ circ'[d] = circ[d]
                      \/ circ[d] \in {"free", "pending"} /\ circ'[d] = "marked"
  BY DEF ChannelGone, IInv, TypeOK
<1>3. \A d \in Circ : circ'[d] = "pending" => p_chan'[d] = p_chan[d]
  BY DEF ChannelGone, IInv, TypeOK
<1> QED
  BY <1>1, <1>2, <1>3, CircuitFrame DEF ChannelGone

\* have_room_for_onionskin said no.
LEMMA CreateNoRoomInv ==
  ASSUME IInv, NEW c \in Circ, CreateNoRoom(c)
  PROVE  IInv'
<1>1. /\ circ' \in [Circ -> {"free", "pending", "marked", "dead"}]
      /\ p_chan' \in [Circ -> BOOLEAN]
  BY DEF CreateNoRoom, NewCircuit, IInv, TypeOK
<1>2. \A d \in Circ : \/ circ'[d] = circ[d]
                      \/ circ[d] \in {"free", "pending"} /\ circ'[d] = "marked"
  BY DEF CreateNoRoom, NewCircuit, IInv, TypeOK
<1>3. \A d \in Circ : circ'[d] = "pending" => p_chan'[d] = p_chan[d]
  BY DEF CreateNoRoom, NewCircuit, IInv, TypeOK
<1> QED
  BY <1>1, <1>2, <1>3, CircuitFrame DEF CreateNoRoom

\* onion_pending_add: the request joins the queue behind what is left of it after
\* culling; the culled requests' circuits are marked.
LEMMA CreateQueuedInv ==
  ASSUME IInv, NEW c \in Circ, CreateQueued(c)
  PROVE  IInv'
<1> DEFINE q == QueueOf(c)
           s == ol_list[q]
<1>1. PICK k \in 0 .. Len(s) :
        LET culled == First(s, k)
        IN /\ ol_list' = [ol_list EXCEPT ![q] = Append(SubSeq(@, k + 1, Len(@)), c)]
           /\ ol_entries' = [ol_entries EXCEPT ![q] = EntriesLeft(q, culled)]
           /\ circ' = [d \in Circ |-> IF d = c THEN "pending"
                                      ELSE IF d \in culled THEN "marked" ELSE circ[d]]
  BY DEF CreateQueued, First
<1> DEFINE culled == First(s, k)
           rest == SubSeq(s, k + 1, Len(s))
<1>2. /\ UNCHANGED <<wqVars, workqueue_entry, recently_chosen_ntors, ntors_ahead,
                     taskVars, mpc>>
      /\ circ[c] = "free" /\ p_chan' = [p_chan EXCEPT ![c] = TRUE]
  BY DEF CreateQueued, NewCircuit
<1>3. q \in Queue /\ s \in Seq(Circ) /\ IsInjective(s) /\ Len(s) \in Nat
  BY LenProperties DEF QueueOf, Queue, IInv, TypeOK, PlacesDisjoint
<1>4. k \in Nat /\ k <= Len(s)
  BY <1>3
<1>5. /\ rest \in Seq(Circ) /\ IsInjective(rest) /\ Len(rest) = Len(s) - k
      /\ ToSet(rest) = ToSet(s) \ culled
      /\ Cardinality(culled) = k
  <2> HIDE DEF s
  <2>1. /\ rest \in Seq(Circ) /\ IsInjective(rest) /\ Len(rest) = Len(s) - k
        /\ ToSet(rest) = ToSet(s) \ culled
    BY <1>3, <1>4, DropFirst
  <2>2. Cardinality(culled) = k
    BY <1>3, <1>4, FirstCardinality
  <2> QED
    BY <2>1, <2>2
<1>6. \A r \in Queue : ToSet(ol_list[r]) \subseteq Circ
  BY EmptyQueue DEF IInv, TypeOK
<1>7. ~Busy(c) /\ ~Queued(c)
  BY <1>2 DEF IInv, CircuitRefs, OnionQueueExact, Queued
<1>8. c \notin ToSet(rest) /\ culled \subseteq ToSet(s)
  <2>1. DOMAIN s = 1 .. Len(s)
    BY <1>3, LenProperties
  <2>2. \A i \in 1 .. k : i \in DOMAIN s
    BY <2>1, <1>3, <1>4
  <2> QED
    BY <2>2, <1>3, <1>5, <1>7 DEF ToSet, First, Queued
<1>9. \A d \in culled : circ[d] \in {"pending", "marked"} /\ Queued(d) /\ d # c
  BY <1>2, <1>3, <1>8 DEF IInv, OnionQueueExact, Queued
<1>10. /\ ol_list'[q] \in Seq(Circ) /\ IsInjective(ol_list'[q])
       /\ ToSet(ol_list'[q]) = (ToSet(s) \ culled) \cup {c}
       /\ Len(ol_list'[q]) = Len(s) - k + 1
       /\ \A r \in Queue \ {q} : ol_list'[r] = ol_list[r]
  <2>1. /\ Append(rest, c) \in Seq(Circ) /\ IsInjective(Append(rest, c))
        /\ ToSet(Append(rest, c)) = ToSet(rest) \cup {c}
        /\ Len(Append(rest, c)) = Len(rest) + 1
    <3> HIDE DEF rest, s, culled
    <3> QED
      BY <1>5, <1>8, AppendOnce
  <2>2. ol_list'[q] = Append(rest, c) /\ \A r \in Queue \ {q} : ol_list'[r] = ol_list[r]
    BY <1>1, <1>3 DEF IInv, TypeOK
  <2> QED
    BY <1>5, <2>1, <2>2
<1>11. /\ ol_entries'[q] = Len(s) - k + 1
       /\ \A r \in Queue \ {q} : ol_entries'[r] = ol_entries[r]
  <2>1. ol_entries[q] = Len(s)
    BY <1>3 DEF IInv, OnionQueueExact
  <2> QED
    BY <1>1, <1>3, <1>5, <2>1 DEF EntriesLeft, IInv, TypeOK
<1>12. \A d \in Circ : circ'[d] = IF d = c THEN "pending"
                                  ELSE IF d \in culled THEN "marked" ELSE circ[d]
  BY <1>1
<1>13. ol_list' \in [Queue -> Seq(Circ)] /\ ol_entries' \in [Queue -> Nat]
  <2>1. DOMAIN ol_list' = Queue /\ DOMAIN ol_entries' = Queue
    BY <1>1 DEF IInv, TypeOK
  <2>2. ol_list' = [r \in Queue |-> ol_list'[r]] /\ ol_entries' = [r \in Queue |-> ol_entries'[r]]
    BY <1>1, <2>1 DEF IInv, TypeOK
  <2>3. Len(s) - k + 1 \in Nat
    BY <1>3, <1>4
  <2> QED
    BY <1>10, <1>11, <2>2, <2>3 DEF IInv, TypeOK
<1>14. circ' \in [Circ -> {"free", "pending", "marked", "dead"}]
       /\ p_chan' \in [Circ -> BOOLEAN]
  BY <1>1, <1>2 DEF IInv, TypeOK
<1> HIDE DEF q, s, culled, rest
<1>15. TypeOK'
  BY <1>2, <1>13, <1>14, PoolFrame DEF IInv, TypeOK, taskVars
<1>16. PlacesDisjoint'
  BY <1>2, <1>10, PoolFrame DEF IInv, PlacesDisjoint
<1>17. OnionQueueExact'
  <2> SUFFICES ASSUME NEW r \in Queue
               PROVE  /\ ol_entries'[r] = Len(ol_list'[r])
                      /\ ol_entries'[r] = Cardinality(ToSet(ol_list'[r]))
                      /\ \A d \in ToSet(ol_list'[r]) :
                           QueueOf(d) = r /\ circ'[d] \in {"pending", "marked"}
    BY DEF OnionQueueExact, QueueOf
  <2>1. CASE r = q
    <3>1. Cardinality(ToSet(ol_list'[q])) = Len(ol_list'[q])
      BY <1>10, OnceCardinality
    <3>2. \A d \in ToSet(ol_list'[q]) :
            QueueOf(d) = q /\ circ'[d] \in {"pending", "marked"}
      BY <1>3, <1>6, <1>10, <1>12 DEF IInv, OnionQueueExact, q, s
    <3> QED
      BY <2>1, <1>10, <1>11, <3>1, <3>2
  <2>2. CASE r # q
    BY <2>2, <1>6, <1>10, <1>11, <1>12 DEF IInv, OnionQueueExact
  <2> QED
    BY <2>1, <2>2
<1>18. \A d \in Circ : Queued(d)' <=> d = c \/ (Queued(d) /\ d \notin culled)
  <2> SUFFICES ASSUME NEW d \in Circ
               PROVE  Queued(d)' <=> d = c \/ (Queued(d) /\ d \notin culled)
    OBVIOUS
  <2>1. \A r \in Queue \ {q} : \A e \in culled : e \notin ToSet(ol_list[r])
    BY <1>3, <1>8 DEF IInv, OnionQueueExact, s
  <2> QED
    BY <1>3, <1>10, <2>1 DEF Queued, s
<1>19. ChannelOfQueued'
  BY <1>2, <1>12, <1>18 DEF IInv, TypeOK, ChannelOfQueued
<1>20. CircuitRefs'
  BY <1>2, <1>7, <1>9, <1>12, <1>18, PoolFrame DEF IInv, CircuitRefs
<1>21. TasksExact' /\ TurnCounted' /\ TapTurn'
  BY <1>2, PoolFrame DEF IInv, TasksExact, TurnCounted, TapTurn, taskVars
<1>22. NoLostAlert'
  BY <1>2 DEF IInv, NoLostAlert, wqVars, thrVars, replyVars
<1> QED
  BY <1>2, <1>15, <1>16, <1>17, <1>19, <1>20, <1>21, <1>22, PoolFrame DEF IInv

\* circuit_close_all_marked for one circuit: it leaves its onion queue and, unless
\* a thread or the answers have its job, the pool.
LEMMA CloseMarkedInv ==
  ASSUME IInv, NEW c \in Circ, CloseMarked(c)
  PROVE  IInv'
<1> DEFINE left == workqueue_entry[c] /\ ~Pending(c)
<1>1. /\ circ[c] = "marked"
      /\ circ' = [circ EXCEPT ![c] = Freed(left)]
      /\ p_chan' = [p_chan EXCEPT ![c] = FALSE]
      /\ workqueue_entry' = [workqueue_entry EXCEPT ![c] = left]
      /\ total_pending_tasks' = total_pending_tasks - GivenBack(c)
      /\ UNCHANGED <<generation, update_args, tpc, tjob, targ, tgen, tstate, answers,
                     alert, recently_chosen_ntors, consensus, mpc>>
  BY DEF CloseMarked, Cancel, thrVars, replyVars
<1>2. /\ work' \in Seq(Job) /\ IsInjective(work') /\ ToSet(work') = ToSet(work) \ {c}
      /\ Len(work') = IF c \in ToSet(work) THEN Len(work) - 1 ELSE Len(work)
  BY RemoveOnce DEF CloseMarked, Cancel, IInv, TypeOK, PoolTypeOK, PlacesDisjoint
<1>3. \A q \in Queue :
        /\ ol_list'[q] \in Seq(Circ) /\ IsInjective(ol_list'[q])
        /\ ToSet(ol_list'[q]) = ToSet(ol_list[q]) \ {c}
        /\ Len(ol_list'[q]) = IF c \in ToSet(ol_list[q]) THEN Len(ol_list[q]) - 1
                              ELSE Len(ol_list[q])
  BY RemoveOnce DEF CloseMarked, IInv, TypeOK, PlacesDisjoint
<1>4. \A q \in Queue :
        /\ ol_entries'[q] = Len(ol_list'[q]) /\ Len(ol_list'[q]) \in Nat
        /\ Cardinality(ToSet(ol_list'[q])) = Len(ol_list'[q])
  <2> SUFFICES ASSUME NEW q \in Queue
               PROVE  /\ ol_entries'[q] = Len(ol_list'[q]) /\ Len(ol_list'[q]) \in Nat
                      /\ Cardinality(ToSet(ol_list'[q])) = Len(ol_list'[q])
    OBVIOUS
  <2>1. ol_entries'[q] = Len(ol_list'[q])
    BY <1>3 DEF CloseMarked, IInv, OnionQueueExact
  <2>2. Len(ol_list'[q]) \in Nat
    BY <1>3, LenProperties
  <2>3. Cardinality(ToSet(ol_list'[q])) = Len(ol_list'[q])
    BY <1>3, OnceCardinality
  <2> QED
    BY <2>1, <2>2, <2>3
<1>5. ol_list' = [q \in Queue |-> ol_list'[q]] /\ ol_entries' = [q \in Queue |-> ol_entries'[q]]
  BY DEF CloseMarked
<1>6. \A d \in Circ : /\ Pending(d)' <=> Pending(d) /\ d # c
                      /\ InHand(d)' <=> InHand(d)
                      /\ Answered(d)' <=> Answered(d)
                      /\ Queued(d)' <=> Queued(d) /\ d # c
  <2>1. \A d \in Circ : Pending(d)' <=> Pending(d) /\ d # c
    BY <1>2 DEF Pending
  <2>2. \A d \in Circ : (InHand(d)' <=> InHand(d)) /\ (Answered(d)' <=> Answered(d))
    BY <1>1 DEF InHand, Answered
  <2>3. \A d \in Circ : Queued(d)' <=> Queued(d) /\ d # c
    BY <1>3 DEF Queued
  <2> QED
    BY <2>1, <2>2, <2>3
<1>7. left \in BOOLEAN /\ (left <=> Busy(c)')
  BY <1>6 DEF IInv, TypeOK, CircuitRefs, PlacesDisjoint, Busy
<1>8. \A d \in Circ \ {c} : /\ Busy(d)' <=> Busy(d)
                            /\ circ'[d] = circ[d] /\ p_chan'[d] = p_chan[d]
                            /\ workqueue_entry'[d] = workqueue_entry[d]
  BY <1>1, <1>6 DEF Busy, IInv, TypeOK
<1>9. /\ circ'[c] = IF left THEN "dead" ELSE "free"
      /\ workqueue_entry'[c] = left
  BY <1>1 DEF Freed, IInv, TypeOK
<1>10. TasksExact' /\ total_pending_tasks' \in Nat
  <2> DEFINE B == {d \in Circ : Busy(d)}
  <2>1. IsFiniteSet(Circ) /\ B \in SUBSET Circ
    BY WorkqueueAssumption DEF Circ
  <2>2. CASE Pending(c)
    <3>1. B' = B \ {c} /\ c \in B
      BY <1>7, <1>8, <2>2 DEF Busy
    <3>2. /\ Cardinality(B \ {c}) = Cardinality(B) - 1
          /\ Cardinality(B) \in Nat /\ Cardinality(B) > 0
      <4> HIDE DEF B
      <4> QED
        BY <2>1, <3>1, CountOne
    <3> QED
      BY <1>1, <2>2, <3>1, <3>2 DEF IInv, TasksExact, GivenBack
  <2>3. CASE ~Pending(c)
    <3>1. B' = B
      BY <1>6, <1>8, <2>3 DEF Busy
    <3>2. Cardinality(B) \in Nat
      BY <2>1, CountOne, FS_Subset, FS_CardinalityType
    <3> QED
      BY <1>1, <2>3, <3>1, <3>2 DEF IInv, TasksExact, GivenBack
  <2> QED
    BY <2>2, <2>3
<1> HIDE DEF left
<1>11. PoolTypeOK'
  BY <1>1, <1>2 DEF IInv, TypeOK, PoolTypeOK
<1>12. ntors_ahead' = 0 \/ ntors_ahead' = ntors_ahead
  BY DEF CloseMarked
<1>13. TypeOK'
  <2>1. /\ circ' \in [Circ -> {"free", "pending", "marked", "dead"}]
        /\ p_chan' \in [Circ -> BOOLEAN] /\ workqueue_entry' \in [Circ -> BOOLEAN]
    BY <1>1, <1>7 DEF IInv, TypeOK, Freed
  <2>2. ol_list' \in [Queue -> Seq(Circ)] /\ ol_entries' \in [Queue -> Nat]
    BY <1>3, <1>4, <1>5
  <2>3. ntors_ahead' \in Nat
    BY <1>12 DEF IInv, TypeOK
  <2> QED
    BY <1>1, <1>10, <1>11, <2>1, <2>2, <2>3 DEF IInv, TypeOK
<1>14. ThreadsExact'
  BY <1>1 DEF IInv, ThreadsExact, UpToDate
<1>15. PlacesDisjoint'
  BY <1>1, <1>2, <1>3, <1>6 DEF IInv, PlacesDisjoint
<1>16. OnionQueueExact'
  <2>1. \A q \in Queue : \A d \in ToSet(ol_list'[q]) :
          QueueOf(d) = q /\ circ'[d] \in {"pending", "marked"}
    <3>1. \A q \in Queue : ToSet(ol_list'[q]) \subseteq Circ \ {c}
      BY <1>3, EmptyQueue
    <3> QED
      BY <1>3, <1>8, <3>1 DEF IInv, OnionQueueExact
  <2> QED
    BY <1>4, <2>1 DEF OnionQueueExact, QueueOf
<1>17. ChannelOfQueued'
  BY <1>6, <1>8 DEF IInv, ChannelOfQueued
<1>18. CircuitRefs'
  BY <1>6, <1>7, <1>8, <1>9 DEF IInv, CircuitRefs
<1>19. TurnCounted' /\ TapTurn'
  BY <1>1, <1>12, HandshakesAssumption DEF IInv, TypeOK, TurnCounted, TapTurn
<1>20. NoIdleWorker'
  <2>1. Looking' = Looking /\ Sleeping' = Sleeping
    BY <1>1 DEF Looking, Sleeping
  <2>2. Len(work) \in Nat /\ Cardinality(Looking) \in Nat
    BY LenProperties, FS_Subset, FS_CardinalityType, WorkqueueAssumption
    DEF IInv, TypeOK, PoolTypeOK, Looking
  <2>3. Len(work') > Cardinality(Looking) => Len(work) > Cardinality(Looking)
    BY <1>2, <2>2
  <2> QED
    BY <1>1, <2>1, <2>3 DEF IInv, NoIdleWorker, UpToDate
<1>21. NoLostAlert'
  BY <1>1 DEF IInv, NoLostAlert
<1> QED
  BY <1>10, <1>13, <1>14, <1>15, <1>16, <1>17, <1>18, <1>19, <1>20, <1>21 DEF IInv

\* A reply: its circuit leaves the pool, opened, marked or freed.
LEMMA ReplyInv ==
  ASSUME IInv, Reply
  PROVE  IInv'
<1> DEFINE c == Head(answers)
<1>1. /\ answers' \in Seq(Job) /\ IsInjective(answers')
      /\ c \in Circ /\ Answered(c)
      /\ ToSet(answers') = ToSet(answers) \ {c}
  BY TailOnce DEF Reply, IInv, TypeOK, PoolTypeOK, PlacesDisjoint, Answered, Circ
<1>2. /\ workqueue_entry' = [workqueue_entry EXCEPT ![c] = FALSE]
      /\ p_chan' = [p_chan EXCEPT ![c] = (circ'[c] = "marked")]
      /\ total_pending_tasks' = total_pending_tasks - 1
      /\ mpc' = "pumping"
      /\ UNCHANGED <<work, generation, update_args, tpc, tjob, targ, tgen, tstate, alert,
                     ol_list, ol_entries, recently_chosen_ntors, ntors_ahead, consensus>>
  BY DEF Reply, AfterReply, poolVars, thrVars, onionVars
<1>3. PICK s \in {"free", "marked"} : circ' = [circ EXCEPT ![c] = s]
  BY DEF Reply
<1> HIDE DEF c
<1>4. Busy(c) /\ ~Pending(c) /\ ~InHand(c) /\ ~Queued(c)
  BY <1>1 DEF IInv, PlacesDisjoint, CircuitRefs, Busy
<1>5. \A d \in Circ : /\ Pending(d)' <=> Pending(d)
                      /\ InHand(d)' <=> InHand(d)
                      /\ Answered(d)' <=> Answered(d) /\ d # c
                      /\ Queued(d)' <=> Queued(d)
  BY <1>1, <1>2 DEF Pending, InHand, Answered, Queued
<1>6. \A d \in Circ : Busy(d)' <=> Busy(d) /\ d # c
  BY <1>4, <1>5 DEF Busy
<1>7. \A d \in Circ \ {c} : /\ circ'[d] = circ[d] /\ p_chan'[d] = p_chan[d]
                            /\ workqueue_entry'[d] = workqueue_entry[d]
  BY <1>2, <1>3 DEF IInv, TypeOK
<1>8. circ'[c] \in {"free", "marked"} /\ workqueue_entry'[c] = FALSE
  BY <1>1, <1>2, <1>3 DEF IInv, TypeOK
<1>9. TasksExact' /\ total_pending_tasks' \in Nat
  <2> DEFINE B == {d \in Circ : Busy(d)}
  <2>1. IsFiniteSet(Circ) /\ B \in SUBSET Circ
    BY WorkqueueAssumption DEF Circ
  <2>2. B' = B \ {c} /\ c \in B
    BY <1>1, <1>4, <1>6
  <2>3. /\ Cardinality(B \ {c}) = Cardinality(B) - 1
        /\ Cardinality(B) \in Nat /\ Cardinality(B) > 0
    <3> HIDE DEF B
    <3> QED
      BY <1>1, <2>1, <2>2, CountOne
  <2>4. total_pending_tasks = Cardinality(B) /\ (TasksExact' <=> total_pending_tasks' = Cardinality(B'))
    BY DEF IInv, TasksExact
  <2> HIDE DEF B
  <2> QED
    BY <1>2, <2>2, <2>3, <2>4
<1>10. TypeOK'
  <2>1. /\ circ' \in [Circ -> {"free", "pending", "marked", "dead"}]
        /\ p_chan' \in [Circ -> BOOLEAN] /\ workqueue_entry' \in [Circ -> BOOLEAN]
    BY <1>2, <1>3 DEF IInv, TypeOK
  <2> QED
    BY <1>1, <1>2, <1>9, <2>1 DEF IInv, TypeOK, PoolTypeOK
<1>11. ThreadsExact' /\ NoIdleWorker'
  BY <1>2 DEF IInv, ThreadsExact, UpToDate, NoIdleWorker, Looking, Sleeping
<1>12. PlacesDisjoint'
  BY <1>1, <1>2, <1>5 DEF IInv, PlacesDisjoint
<1>13. OnionQueueExact'
  <2>1. \A q \in Queue : ToSet(ol_list[q]) \subseteq Circ \ {c}
    BY <1>4, EmptyQueue DEF Queued, IInv, TypeOK
  <2> QED
    BY <1>2, <1>7, <2>1 DEF IInv, OnionQueueExact, QueueOf
<1>14. ChannelOfQueued'
  BY <1>4, <1>5, <1>7 DEF IInv, ChannelOfQueued
<1>15. CircuitRefs'
  BY <1>4, <1>5, <1>6, <1>7, <1>8 DEF IInv, CircuitRefs
<1>16. TurnCounted' /\ TapTurn' /\ NoLostAlert'
  BY <1>2 DEF IInv, TurnCounted, TapTurn, NoLostAlert
<1> QED
  BY <1>9, <1>10, <1>11, <1>12, <1>13, <1>14, <1>15, <1>16 DEF IInv

\* assign_onionskin_to_cpuworker: one more handshake with the pool.
LEMMA AssignInv ==
  ASSUME IInv, NEW c \in Circ, ~Busy(c), Assign(c)
  PROVE  /\ \A d \in Circ : /\ Pending(d)' <=> Pending(d) \/ d = c
                            /\ InHand(d)' <=> InHand(d)
                            /\ Answered(d)' <=> Answered(d)
                            /\ Busy(d)' <=> Busy(d) \/ d = c
                            /\ workqueue_entry'[d] <=> workqueue_entry[d] \/ d = c
         /\ workqueue_entry' \in [Circ -> BOOLEAN]
         /\ total_pending_tasks' \in Nat
         /\ TasksExact'
<1>1. c \in Job
  BY DEF Circ
<1>2. ToSet(work') = ToSet(work) \cup {c} /\ UNCHANGED <<tjob, answers>>
  BY <1>1, QueueWorkInv DEF Assign
<1>3. \A d \in Circ : /\ Pending(d)' <=> Pending(d) \/ d = c
                      /\ InHand(d)' <=> InHand(d)
                      /\ Answered(d)' <=> Answered(d)
                      /\ Busy(d)' <=> Busy(d) \/ d = c
  BY <1>2 DEF Busy, Pending, InHand, Answered
<1>4. /\ workqueue_entry' \in [Circ -> BOOLEAN]
      /\ \A d \in Circ : workqueue_entry'[d] <=> workqueue_entry[d] \/ d = c
  BY DEF Assign, IInv, TypeOK
<1>5. TasksExact' /\ total_pending_tasks' \in Nat
  <2> DEFINE B == {d \in Circ : Busy(d)}
  <2>1. IsFiniteSet(Circ) /\ B \in SUBSET Circ
    BY WorkqueueAssumption DEF Circ
  <2>2. B' = B \cup {c} /\ c \notin B
    BY <1>3
  <2>3. Cardinality(B \cup {c}) = Cardinality(B) + 1 /\ Cardinality(B) \in Nat
    <3> HIDE DEF B
    <3> QED
      BY <2>1, <2>2, CountOne
  <2>4. total_pending_tasks = Cardinality(B) /\ (TasksExact' <=> total_pending_tasks' = Cardinality(B'))
    BY DEF IInv, TasksExact
  <2>5. total_pending_tasks' = total_pending_tasks + 1
    BY DEF Assign
  <2> HIDE DEF B
  <2> QED
    BY <2>2, <2>3, <2>4, <2>5
<1> QED
  BY <1>3, <1>4, <1>5

\* A CREATE cell whose handshake goes to the pool at once.
LEMMA CreateAssignedInv ==
  ASSUME IInv, NEW c \in Circ, CreateAssigned(c)
  PROVE  IInv'
<1>1. /\ Assign(c) /\ QueueWork(c) /\ c \in Job
      /\ circ[c] = "free" /\ p_chan' = [p_chan EXCEPT ![c] = TRUE]
      /\ circ' = [circ EXCEPT ![c] = "pending"]
      /\ UNCHANGED <<onionVars, consensus, mpc>>
  BY DEF CreateAssigned, NewCircuit, Assign, Circ
<1>2. ~Busy(c) /\ ~Queued(c)
  BY <1>1 DEF IInv, CircuitRefs, OnionQueueExact, Queued
<1>3. /\ PoolTypeOK' /\ ThreadsExact' /\ NoIdleWorker'
      /\ IsInjective(work')
      /\ \A t \in Thread : tpc[t] = "alert" => tpc'[t] = "alert"
      /\ UNCHANGED <<tjob, answers, alert>>
  BY <1>1, <1>2, QueueWorkInv
<1>4. /\ \A d \in Circ : /\ Pending(d)' <=> Pending(d) \/ d = c
                         /\ InHand(d)' <=> InHand(d)
                         /\ Answered(d)' <=> Answered(d)
                         /\ Busy(d)' <=> Busy(d) \/ d = c
                         /\ workqueue_entry'[d] <=> workqueue_entry[d] \/ d = c
      /\ workqueue_entry' \in [Circ -> BOOLEAN]
      /\ total_pending_tasks' \in Nat
      /\ TasksExact'
  BY <1>1, <1>2, AssignInv
<1>5. \A d \in Circ : /\ circ'[d] = IF d = c THEN "pending" ELSE circ[d]
                      /\ p_chan'[d] = IF d = c THEN TRUE ELSE p_chan[d]
                      /\ Queued(d)' <=> Queued(d)
  BY <1>1 DEF IInv, TypeOK, onionVars, Queued
<1>6. TypeOK'
  BY <1>1, <1>3, <1>4 DEF IInv, TypeOK, onionVars
<1>7. PlacesDisjoint'
  BY <1>1, <1>2, <1>3, <1>4 DEF IInv, PlacesDisjoint, Busy, onionVars
<1>8. OnionQueueExact'
  <2>1. \A q \in Queue : ToSet(ol_list[q]) \subseteq Circ \ {c}
    BY <1>2, EmptyQueue DEF Queued, IInv, TypeOK
  <2> QED
    BY <1>1, <1>5, <2>1 DEF IInv, OnionQueueExact, QueueOf, onionVars
<1>9. ChannelOfQueued'
  BY <1>2, <1>5 DEF IInv, ChannelOfQueued
<1>10. CircuitRefs'
  BY <1>2, <1>4, <1>5 DEF IInv, CircuitRefs
<1>11. TurnCounted' /\ TapTurn'
  BY <1>1 DEF IInv, TurnCounted, TapTurn, onionVars
<1>12. NoLostAlert'
  BY <1>1, <1>3 DEF IInv, NoLostAlert
<1> QED
  BY <1>3, <1>4, <1>6, <1>7, <1>8, <1>9, <1>10, <1>11, <1>12 DEF IInv

\* onion_next_task takes a request from the head of its queue.  An ntor request
\* that passes a waiting tap is counted, and only NumNTorsPerTAP of them are.
LEMMA NextTaskInv ==
  ASSUME IInv, NEW c \in Circ, NextTask(c)
  PROVE  /\ ol_list' \in [Queue -> Seq(Circ)] /\ ol_entries' \in [Queue -> Nat]
         /\ recently_chosen_ntors' \in 0 .. NtorsPerTap + 1 /\ ntors_ahead' \in Nat
         /\ \A q \in Queue : /\ IsInjective(ol_list'[q])
                             /\ ToSet(ol_list'[q]) = ToSet(ol_list[q]) \ {c}
                             /\ ol_entries'[q] = Len(ol_list'[q])
                             /\ ol_entries'[q] = Cardinality(ToSet(ol_list'[q]))
         /\ \A d \in Circ : Queued(d)' <=> Queued(d) /\ d # c
         /\ Queued(c) /\ ~Busy(c)
         /\ TurnCounted' /\ TapTurn'
<1> DEFINE q == Chosen
           s == ol_list[q]
<1>1. /\ q \in Queue /\ s \in Seq(Circ) /\ IsInjective(s) /\ s # <<>> /\ c = Head(s)
      /\ ol_entries[q] = Len(s)
  BY DEF NextTask, Chosen, Queue, IInv, TypeOK, PlacesDisjoint, OnionQueueExact
<1>2. /\ ol_list' = [ol_list EXCEPT ![q] = Tail(s)]
      /\ ol_entries' = [ol_entries EXCEPT ![q] = ol_entries[q] - 1]
      /\ recently_chosen_ntors' = RecentlyChosen
      /\ ntors_ahead' = IF ol_list'["tap"] = <<>> \/ q = "tap" THEN 0
                        ELSE ntors_ahead + 1
  BY DEF NextTask
<1> HIDE DEF s
<1>3. /\ Tail(s) \in Seq(Circ) /\ IsInjective(Tail(s))
      /\ c \in ToSet(s) /\ ToSet(Tail(s)) = ToSet(s) \ {c}
      /\ Len(Tail(s)) = Len(s) - 1
  BY <1>1, TailOnce
<1>4. Queued(c) /\ ~Busy(c) /\ q = QueueOf(c)
  BY <1>1, <1>3 DEF Queued, s, IInv, CircuitRefs, OnionQueueExact
<1>5. \A r \in Queue \ {q} : c \notin ToSet(ol_list[r])
  BY <1>4 DEF IInv, OnionQueueExact
<1>6. ol_list' \in [Queue -> Seq(Circ)]
  BY <1>2, <1>3 DEF IInv, TypeOK
<1>7. \A r \in Queue : /\ IsInjective(ol_list'[r])
                       /\ ToSet(ol_list'[r]) = ToSet(ol_list[r]) \ {c}
                       /\ ol_entries'[r] = Len(ol_list'[r])
  <2> SUFFICES ASSUME NEW r \in Queue
               PROVE  /\ IsInjective(ol_list'[r])
                      /\ ToSet(ol_list'[r]) = ToSet(ol_list[r]) \ {c}
                      /\ ol_entries'[r] = Len(ol_list'[r])
    OBVIOUS
  <2>1. CASE r = q
    BY <1>1, <1>2, <1>3, <2>1 DEF s, IInv, TypeOK
  <2>2. CASE r # q
    BY <1>2, <1>5, <2>2 DEF IInv, TypeOK, PlacesDisjoint, OnionQueueExact
  <2> QED
    BY <2>1, <2>2
<1>8. \A r \in Queue : /\ ol_entries'[r] = Cardinality(ToSet(ol_list'[r]))
                       /\ ol_entries'[r] \in Nat
  <2>1. \A r \in Queue : ol_list'[r] \in Seq(Circ)
    BY <1>6
  <2> QED
    BY <1>7, <2>1, OnceCardinality, LenProperties
<1>9. ol_entries' \in [Queue -> Nat]
  <2>1. ol_entries' = [r \in Queue |-> ol_entries'[r]]
    BY <1>2 DEF IInv, TypeOK
  <2> QED
    BY <1>8, <2>1
<1>10. \A d \in Circ : Queued(d)' <=> Queued(d) /\ d # c
  BY <1>7 DEF Queued
<1>11. recently_chosen_ntors' \in 0 .. NtorsPerTap + 1
  BY <1>2, HandshakesAssumption DEF RecentlyChosen, Chosen, IInv, TypeOK
<1>12. ntors_ahead' \in Nat /\ TurnCounted' /\ TapTurn'
  <2>1. CASE ol_list'["tap"] = <<>> \/ q = "tap"
    BY <1>2, <1>11, <2>1, HandshakesAssumption DEF TurnCounted, TapTurn
  <2>2. CASE ~(ol_list'["tap"] = <<>> \/ q = "tap")
    <3>1. q = "ntor" /\ ol_list["tap"] # <<>>
      BY <1>1, <1>2, <2>2 DEF Queue, IInv, TypeOK
    <3>2. Waits("tap") /\ Waits("ntor")
      <4>1. ol_entries["tap"] = Len(ol_list["tap"]) /\ ol_list["tap"] \in Seq(Circ)
        BY DEF Queue, IInv, TypeOK, OnionQueueExact
      <4> QED
        BY <1>1, <3>1, <4>1, EmptyQueue DEF Waits
    <3>3. /\ recently_chosen_ntors + 1 <= NtorsPerTap
          /\ recently_chosen_ntors' = recently_chosen_ntors + 1
      BY <1>2, <3>1, <3>2 DEF Chosen, RecentlyChosen
    <3>4. ntors_ahead' = ntors_ahead + 1
      BY <1>2, <2>2
    <3> QED
      BY <3>3, <3>4, HandshakesAssumption DEF IInv, TypeOK, TurnCounted, TapTurn
  <2> QED
    BY <2>1, <2>2
<1> QED
  BY <1>4, <1>6, <1>7, <1>8, <1>9, <1>10, <1>11, <1>12

\* queue_pending_tasks hands a queued request to the pool.
LEMMA PumpAssignInv ==
  ASSUME IInv, NEW c \in Circ, PumpAssign(c)
  PROVE  IInv'
<1>1. /\ NextTask(c) /\ Assign(c) /\ QueueWork(c) /\ c \in Job
      /\ UNCHANGED <<circ, p_chan, consensus, mpc>>
  BY DEF PumpAssign, Assign, Circ
<1>2. /\ ol_list' \in [Queue -> Seq(Circ)] /\ ol_entries' \in [Queue -> Nat]
      /\ recently_chosen_ntors' \in 0 .. NtorsPerTap + 1 /\ ntors_ahead' \in Nat
      /\ \A q \in Queue : /\ IsInjective(ol_list'[q])
                          /\ ToSet(ol_list'[q]) = ToSet(ol_list[q]) \ {c}
                          /\ ol_entries'[q] = Len(ol_list'[q])
                          /\ ol_entries'[q] = Cardinality(ToSet(ol_list'[q]))
      /\ \A d \in Circ : Queued(d)' <=> Queued(d) /\ d # c
      /\ Queued(c) /\ ~Busy(c)
      /\ TurnCounted' /\ TapTurn'
  BY <1>1, NextTaskInv
<1>3. /\ PoolTypeOK' /\ ThreadsExact' /\ NoIdleWorker'
      /\ IsInjective(work')
      /\ \A t \in Thread : tpc[t] = "alert" => tpc'[t] = "alert"
      /\ UNCHANGED <<tjob, answers, alert>>
  BY <1>1, <1>2, QueueWorkInv
<1>4. /\ \A d \in Circ : /\ Pending(d)' <=> Pending(d) \/ d = c
                         /\ InHand(d)' <=> InHand(d)
                         /\ Answered(d)' <=> Answered(d)
                         /\ Busy(d)' <=> Busy(d) \/ d = c
                         /\ workqueue_entry'[d] <=> workqueue_entry[d] \/ d = c
      /\ workqueue_entry' \in [Circ -> BOOLEAN]
      /\ total_pending_tasks' \in Nat
      /\ TasksExact'
  BY <1>1, <1>2, AssignInv
<1>5. TypeOK'
  BY <1>1, <1>2, <1>3, <1>4 DEF IInv, TypeOK
<1>6. PlacesDisjoint'
  BY <1>1, <1>2, <1>3, <1>4 DEF IInv, PlacesDisjoint, Busy
<1>7. OnionQueueExact'
  BY <1>1, <1>2 DEF IInv, OnionQueueExact, QueueOf
<1>8. ChannelOfQueued'
  BY <1>1, <1>2 DEF IInv, ChannelOfQueued
<1>9. CircuitRefs'
  <2>1. circ[c] \in {"pending", "marked"}
    BY <1>2 DEF Queued, IInv, OnionQueueExact
  <2> QED
    BY <1>1, <1>2, <1>4, <2>1 DEF IInv, CircuitRefs
<1>10. NoLostAlert'
  BY <1>1, <1>3 DEF IInv, NoLostAlert
<1> QED
  BY <1>2, <1>3, <1>4, <1>5, <1>6, <1>7, <1>8, <1>9, <1>10 DEF IInv

\* queue_pending_tasks drops a request whose channel is gone: its circuit is
\* marked, so no pending circuit is left without a place.
LEMMA PumpDropInv ==
  ASSUME IInv, NEW c \in Circ, PumpDrop(c)
  PROVE  IInv'
<1>1. NextTask(c) /\ ~p_chan[c] /\ UNCHANGED <<wqVars, circVars, taskVars, mpc>>
  BY DEF PumpDrop
<1>2. /\ ol_list' \in [Queue -> Seq(Circ)] /\ ol_entries' \in [Queue -> Nat]
      /\ recently_chosen_ntors' \in 0 .. NtorsPerTap + 1 /\ ntors_ahead' \in Nat
      /\ \A q \in Queue : /\ IsInjective(ol_list'[q])
                          /\ ToSet(ol_list'[q]) = ToSet(ol_list[q]) \ {c}
                          /\ ol_entries'[q] = Len(ol_list'[q])
                          /\ ol_entries'[q] = Cardinality(ToSet(ol_list'[q]))
      /\ \A d \in Circ : Queued(d)' <=> Queued(d) /\ d # c
      /\ Queued(c) /\ ~Busy(c)
      /\ TurnCounted' /\ TapTurn'
  BY <1>1, NextTaskInv
<1>3. circ[c] # "pending"
  BY <1>1, <1>2 DEF IInv, ChannelOfQueued
<1>4. TypeOK'
  BY <1>1, <1>2, PoolFrame DEF IInv, TypeOK, circVars, taskVars
<1>5. PlacesDisjoint'
  BY <1>1, <1>2, PoolFrame DEF IInv, PlacesDisjoint
<1>6. OnionQueueExact' /\ ChannelOfQueued'
  BY <1>1, <1>2 DEF IInv, OnionQueueExact, ChannelOfQueued, QueueOf, circVars
<1>7. CircuitRefs'
  BY <1>1, <1>2, <1>3, PoolFrame DEF IInv, CircuitRefs, circVars
<1>8. TasksExact'
  BY <1>1, PoolFrame DEF IInv, TasksExact, taskVars
<1>9. NoLostAlert'
  BY <1>1 DEF IInv, NoLostAlert, wqVars, thrVars, replyVars
<1> QED
  BY <1>1, <1>2, <1>4, <1>5, <1>6, <1>7, <1>8, <1>9, PoolFrame DEF IInv

-----------------------------------------------------------------------------
(* The invariant *)

\* Every initial state satisfies the invariant.
LEMMA InitInv ==
  ASSUME Init
  PROVE  IInv
<1> USE DEF Init, PoolInit
<1>1. TypeOK
  <2>1. PoolTypeOK
    <3>1. work \in Seq(Job) /\ answers \in Seq(Job)
      BY EmptySeq
    <3>2. 0 \in Epoch
      BY WorkqueueAssumption DEF Epoch
    <3> QED
      BY <3>1, <3>2 DEF PoolTypeOK, ThreadPc
  <2>2. consensus \in DOMAIN TaskLimits
    BY HandshakesAssumption, EmptySeq, LenProperties
  <2> QED
    BY <2>1, <2>2, HandshakesAssumption DEF TypeOK
<1>2. ToSet(<<>>) = {} /\ IsInjective(<<>>) /\ Len(<<>>) = 0
  BY DEF ToSet, IsInjective
<1>3. \A c \in Circ : ~Pending(c) /\ ~Answered(c) /\ ~InHand(c) /\ ~Busy(c) /\ ~Queued(c)
  BY <1>2, WorkqueueAssumption DEF Pending, Answered, InHand, Busy, Queued, Circ
<1>4. ThreadsExact
  BY DEF ThreadsExact, UpToDate
<1>5. PlacesDisjoint /\ ChannelOfQueued /\ CircuitRefs
  BY <1>2, <1>3 DEF PlacesDisjoint, ChannelOfQueued, CircuitRefs
<1>6. OnionQueueExact
  BY <1>2, FS_EmptySet DEF OnionQueueExact
<1>7. TasksExact
  <2>1. {c \in Circ : Busy(c)} = {}
    BY <1>3
  <2> QED
    BY <2>1, FS_EmptySet DEF TasksExact
<1>8. TurnCounted /\ TapTurn
  BY HandshakesAssumption DEF TurnCounted, TapTurn
<1>9. NoIdleWorker /\ NoLostAlert
  BY DEF NoIdleWorker, NoLostAlert, Sleeping
<1> QED
  BY <1>1, <1>4, <1>5, <1>6, <1>7, <1>8, <1>9 DEF IInv

\* Every step of the main thread and of the workers preserves it.
LEMMA NextInv ==
  ASSUME IInv, [Next]_vars
  PROVE  IInv'
<1>1. CASE UNCHANGED vars
  <2>1. UNCHANGED <<wqVars, circVars, onionVars, taskVars, mpc>>
    BY <1>1 DEF vars
  <2>2. NoLostAlert'
    BY <2>1 DEF IInv, NoLostAlert, wqVars, thrVars, replyVars
  <2> QED
    BY <2>1, <2>2, MainFrame DEF IInv, TypeOK, taskVars
<1>2. ASSUME NEW c \in Circ,
             \/ CreateAssigned(c) \/ CreateQueued(c) \/ CreateNoRoom(c)
             \/ MarkForClose(c) \/ ChannelGone(c) \/ CloseMarked(c)
      PROVE  IInv'
  BY <1>2, CreateAssignedInv, CreateQueuedInv, CreateNoRoomInv, MarkForCloseInv,
     ChannelGoneInv, CloseMarkedInv
<1>3. CASE RotateKeys \/ ConsensusChanged \/ DrainAlert
  BY <1>3, RotateKeysInv, ConsensusChangedInv, DrainAlertInv
<1>4. CASE MainReply
  BY <1>4, RepliesDoneInv, ReplyInv, PumpDoneInv, PumpAssignInv, PumpDropInv DEF MainReply
<1>5. ASSUME NEW t \in Thread, WorkerStep(t) \/ SpuriousWake(t), UNCHANGED handshakeVars
      PROVE  IInv'
  BY <1>5, TakeUpdateInv, RunUpdateInv, TakeWorkInv, SleepInv, QueueReplyInv,
     SendAlertInv, SpuriousWakeInv DEF WorkerStep
<1> QED
  BY <1>1, <1>2, <1>3, <1>4, <1>5 DEF Next

\* IInv holds in every reachable state.
THEOREM Invariant == Spec => []IInv
<1>1. Init => IInv
  BY InitInv
<1>2. IInv /\ [Next]_vars => IInv'
  BY NextInv
<1> QED
  BY <1>1, <1>2, PTL DEF Spec

-----------------------------------------------------------------------------
(* What follows *)

\* The work queue, the threads' hands and the answers hold every job with the
\* pool once.
LEMMA JobsCounted ==
  ASSUME IInv
  PROVE  Len(work) + Len(answers) + Cardinality({t \in Thread : tjob[t] # NULL})
           = Cardinality({j \in Job : Busy(j)})
<1> DEFINE W == ToSet(work)
           A == ToSet(answers)
           H == {j \in Job : InHand(j)}
           T == {t \in Thread : tjob[t] # NULL}
<1>1. /\ IsFiniteSet(W) /\ Cardinality(W) = Len(work)
      /\ IsFiniteSet(A) /\ Cardinality(A) = Len(answers)
  BY OnceCardinality DEF IInv, TypeOK, PoolTypeOK, PlacesDisjoint
<1>2. IsFiniteSet(T) /\ IsFiniteSet(H)
  BY FS_Subset, WorkqueueAssumption
<1>3. Cardinality(H) = Cardinality(T)
  <2> DEFINE f == [t \in T |-> tjob[t]]
  <2>1. f \in Bijection(T, H)
    <3>1. f \in [T -> H]
      BY DEF InHand, IInv, TypeOK, PoolTypeOK
    <3>2. \A t, u \in T : f[t] = f[u] => t = u
      BY DEF IInv, ThreadsExact
    <3>3. \A j \in H : \E t \in T : f[t] = j
      BY WorkqueueAssumption DEF InHand
    <3> HIDE DEF T, H, f
    <3> QED
      BY <3>1, <3>2, <3>3 DEF Bijection, Injection, Surjection, IsInjective
  <2> HIDE DEF T, H, f
  <2> QED
    BY <2>1, <1>2, FS_Bijection DEF ExistsBijection
<1>4. /\ W \cap A = {} /\ (W \cup A) \cap H = {}
      /\ {j \in Job : Busy(j)} = (W \cup A) \cup H
  <2>1. W \subseteq Job /\ A \subseteq Job
    BY EmptyQueue DEF IInv, TypeOK, PoolTypeOK
  <2> QED
    BY <2>1 DEF IInv, PlacesDisjoint, Pending, Answered, Busy, Circ
<1> HIDE DEF W, A, H, T
<1>5. /\ IsFiniteSet(W \cup A)
      /\ Cardinality(W \cup A) = Cardinality(W) + Cardinality(A)
  BY <1>1, <1>4, CountDisjoint
<1>6. Cardinality((W \cup A) \cup H) = Cardinality(W \cup A) + Cardinality(H)
  BY <1>2, <1>4, <1>5, CountDisjoint
<1> QED
  BY <1>1, <1>3, <1>4, <1>5, <1>6 DEF T

\* A job a thread takes meets the keys of the latest rotation: the thread has
\* run the update of its generation, which is the pool's.
LEMMA TakesFreshKeys ==
  ASSUME IInv, [Next]_vars, NEW t \in Thread, tjob[t] = NULL, tjob'[t] # NULL
  PROVE  tstate[t] = generation
<1> USE DEF poolVars, thrVars, replyVars, wqVars
<1>1. CASE UNCHANGED vars
  BY <1>1 DEF vars
<1>2. ASSUME NEW c \in Circ,
             \/ CreateAssigned(c) \/ CreateQueued(c) \/ CreateNoRoom(c)
             \/ MarkForClose(c) \/ ChannelGone(c) \/ CloseMarked(c)
      PROVE  tjob' = tjob
  BY <1>2 DEF CreateAssigned, Assign, QueueWork, CreateQueued, CreateNoRoom,
              MarkForClose, ChannelGone, CloseMarked, Cancel
<1>3. CASE RotateKeys \/ ConsensusChanged \/ DrainAlert
  BY <1>3 DEF RotateKeys, QueueUpdate, ConsensusChanged, DrainAlert
<1>4. CASE MainReply
  BY <1>4 DEF MainReply, RepliesDone, Reply, PumpDone, PumpAssign, Assign, QueueWork,
              PumpDrop
<1>5. ASSUME NEW u \in Thread, WorkerStep(u) \/ SpuriousWake(u)
      PROVE  tstate[t] = generation
  <2>1. CASE TakeWork(u)
    <3>1. u = t
      BY <2>1 DEF TakeWork, IInv, TypeOK, PoolTypeOK
    <3> QED
      BY <2>1, <3>1 DEF TakeWork, IInv, ThreadsExact, UpToDate
  <2>2. CASE QueueReply(u)
    BY <2>2 DEF QueueReply, IInv, TypeOK, PoolTypeOK
  <2>3. CASE ~TakeWork(u) /\ ~QueueReply(u)
    BY <1>5, <2>3 DEF WorkerStep, TakeUpdate, RunUpdate, Sleep, SendAlert, SpuriousWake
  <2> QED
    BY <2>1, <2>2, <2>3
<1> QED
  BY <1>1, <1>2, <1>3, <1>4, <1>5 DEF Next

\* Every variable of a relay's handshakes and of the thread pool keeps its type;
\* in particular ol_entries and total_pending_tasks never go below zero.
THEOREM TypeCorrect == Spec => []TypeOK
<1>1. IInv => TypeOK
  BY DEF IInv
<1> QED
  BY <1>1, Invariant, PTL

\* The onion queues and their counters agree.
THEOREM OnionQueues == Spec => []OnionQueueExact
<1>1. IInv => OnionQueueExact
  BY DEF IInv
<1> QED
  BY <1>1, Invariant, PTL

\* A waiting tap request is passed by at most NumNTorsPerTAP ntor requests.
THEOREM TapsTurn == Spec => []TapTurn
<1>1. IInv => TapTurn
  BY DEF IInv
<1> QED
  BY <1>1, Invariant, PTL

\* A due handshake is in one place, and no job refers to a freed circuit.
THEOREM JobReferences == Spec => []JobRefsValid
<1>1. IInv => JobRefsValid
  BY JobsCounted DEF IInv, JobRefsValid
<1> QED
  BY <1>1, Invariant, PTL

\* total_pending_tasks is exact in spite of cancelled jobs.
THEOREM TasksCounted == Spec => []TasksExact
<1>1. IInv => TasksExact
  BY DEF IInv
<1> QED
  BY <1>1, Invariant, PTL

\* worker_thread_main loses no signal and no update.
THEOREM WorkersAwake == Spec => []NoIdleWorker
<1>1. IInv => NoIdleWorker
  BY DEF IInv
<1> QED
  BY <1>1, Invariant, PTL

\* queue_reply and replyqueue_process lose no alert.
THEOREM AlertsArrive == Spec => []NoLostAlert
<1>1. IInv => NoLostAlert
  BY DEF IInv
<1> QED
  BY <1>1, Invariant, PTL

\* No job is taken with the keys of an earlier rotation.
THEOREM KeysAreFresh == Spec => KeysFresh
<1>1. IInv /\ [Next]_vars
        => [\A t \in Thread : tjob[t] = NULL /\ tjob'[t] # NULL
                              => tstate[t] = generation]_vars
  BY TakesFreshKeys
<1> QED
  BY <1>1, Invariant, PTL DEF Spec, KeysFresh

=============================================================================
