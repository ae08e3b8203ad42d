---------------------------- MODULE TeardownProofs ----------------------------
(***************************************************************************)
(* Proofs for Teardown: TEARDOWNCIRCUIT, for one circuit or for all, keeps *)
(* BaseInv.  The lemmas about the other handlers are those of              *)
(* CircuitLifecycleProofs, which assume no more than BaseInv; the command  *)
(* breaks DestroyReservesId and NoDeletePending, so IInv cannot be kept.   *)
(***************************************************************************)
EXTENDS Teardown, CircuitLifecycleProofs

\* The DESTROY cells go out while the circuits are still linked: only the flags
\* and the queues change, and every flag set has a DESTROY behind it.
LEMMA SendDestroysReserves ==
  ASSUME BaseInv, NEW S \in SUBSET Circ, SendDestroys(S),
         UNCHANGED <<n, p, chan_circid_map>>
  PROVE  /\ destroy_queue' \in [Slot -> Nat]
         /\ n_delete_pending' \in [Circ -> BOOLEAN]
         /\ p_delete_pending' \in [Circ -> BOOLEAN]
         /\ ReservationHasDestroy'
         /\ FlagsLinked'
<1> DEFINE sent == Sendable(SlotsOf(S))
<1>1. sent \subseteq Slot
  BY DEF Sendable, SlotsOf
<1>2. /\ n_delete_pending' = [c \in Circ |-> IF n[c] \in sent THEN TRUE
                                             ELSE n_delete_pending[c]]
      /\ p_delete_pending' = [c \in Circ |-> IF p[c] \in sent THEN TRUE
                                             ELSE p_delete_pending[c]]
  BY DEF SendDestroys
<1>3. \A l \in Slot : /\ destroy_queue[l] \in Nat
                      /\ destroy_queue'[l] = IF l \in sent
                                             THEN destroy_queue[l] + 1
                                             ELSE destroy_queue[l]
  BY DEF BaseInv, TypeOK, SendDestroys, DestroysQueued
<1>4. destroy_queue' \in [Slot -> Nat]
  BY DEF BaseInv, TypeOK, SendDestroys, DestroysQueued
<1> HIDE DEF sent
<1>5. /\ n_delete_pending' \in [Circ -> BOOLEAN]
      /\ p_delete_pending' \in [Circ -> BOOLEAN]
  BY <1>2, Zenon DEF BaseInv, TypeOK
<1>6. DeletePending' \subseteq DeletePending \cup sent
  BY <1>2 DEF DeletePending
<1>7. DeletePending \subseteq Slot
  BY DEF DeletePending
<1>8. ReservationHasDestroy'
  BY <1>1, <1>3, <1>6, <1>7 DEF BaseInv, ReservationHasDestroy
<1>9. FlagsLinked'
  BY <1>1, <1>2, ConstantsAssumption DEF BaseInv, FlagsLinked
<1> QED
  BY <1>4, <1>5, <1>8, <1>9

\* DestroyAndMark keeps the invariant for circuits that are alive: it marks all
\* of S but the origin circuits pathbias_check_close keeps for a probe.
LEMMA DestroyAndMarkInv ==
  ASSUME BaseInv, NEW S \in SUBSET Live, DestroyAndMark(S)
  PROVE  BaseInv'
<1>1. PICK T \in SUBSET S : MarkForClose(T)
  BY DEF DestroyAndMark
<1>2. S \subseteq Circ /\ T \subseteq Live
  BY DEF Live
<1>3. UNCHANGED <<kind, state, n, p, n_hop, onion, total_pending_tasks,
                  chan_circid_map, cmux, chan_state, circuits_pending_chans,
                  circuits_pending_other_guards>>
  BY DEF DestroyAndMark
<1>4. /\ destroy_queue' \in [Slot -> Nat]
      /\ n_delete_pending' \in [Circ -> BOOLEAN]
      /\ p_delete_pending' \in [Circ -> BOOLEAN]
      /\ ReservationHasDestroy'
      /\ FlagsLinked'
  BY <1>2, <1>3, SendDestroysReserves DEF DestroyAndMark
<1>5. TypeOK'
  <2>1. marked' \in [Circ -> BOOLEAN] /\ circuits_pending_close' \in SUBSET Circ
    BY <1>1, <1>2, Zenon DEF MarkForClose, BaseInv, TypeOK
  <2> QED
    BY <1>3, <1>4, <2>1 DEF BaseInv, TypeOK
<1>6. ListsFollowState'
  BY <1>1, <1>2, <1>3 DEF BaseInv, ListsFollowState, Live, MarkForClose
<1>7. NoLostWait'
  BY <1>1, <1>2, <1>3 DEF BaseInv, NoLostWait, Live, MarkForClose
<1>8. FreedClean'
  BY <1>1, <1>2, <1>3 DEF BaseInv, FreedClean, Live, MarkForClose
<1>9. MapAgrees' /\ MuxAgrees' /\ OnionRefsValid' /\ ChannelRefsValid'
  BY <1>3 DEF BaseInv, MapAgrees, Live, MuxAgrees, OnionRefsValid,
              ChannelRefsValid
<1> QED
  BY <1>4, <1>5, <1>6, <1>7, <1>8, <1>9 DEF BaseInv

\* What a step is: one of the core, or a DestroyAndMark of live circuits.
LEMMA TeardownStep ==
  ASSUME [NormalNext]_vars
  PROVE  [Next]_vars \/ \E S \in SUBSET Live : DestroyAndMark(S)
<1>1. CASE TeardownAll
  BY <1>1 DEF TeardownAll
<1>2. ASSUME NEW c \in Circ, TeardownCircuit(c)
      PROVE  \E S \in SUBSET Live : DestroyAndMark(S)
  <2>1. {c} \in SUBSET Live
    BY <1>2 DEF TeardownCircuit, Active
  <2> QED
    BY <1>2, <2>1 DEF TeardownCircuit
<1> QED
  BY <1>1, <1>2 DEF NormalNext

-----------------------------------------------------------------------------
\* BaseInv holds in every reachable state, for every number of circuits,
\* channels, ids and worker threads and every bound on the queued DESTROY cells.
THEOREM TeardownInvariance == TeardownSpec => []BaseInv
<1>1. Init => BaseInv
  BY InitInv DEF IInv
<1>2. BaseInv /\ [NormalNext]_vars => BaseInv'
  BY TeardownStep, NextBaseInv, DestroyAndMarkInv
<1> QED
  BY <1>1, <1>2, PTL DEF TeardownSpec

\* A placeholder always has a DESTROY behind it, and so has the delete_pending
\* flag of a circuit still linked, although TEARDOWNCIRCUIT may queue a second
\* DESTROY for the id.
THEOREM TeardownReservations == TeardownSpec => []ReservationHasDestroy
<1>1. BaseInv => ReservationHasDestroy
  BY DEF BaseInv
<1> QED
  BY <1>1, TeardownInvariance, PTL

\* Circuits torn down stay on the lists they belong to until they are freed.
THEOREM TeardownLists == TeardownSpec => []ListsKnow
<1>1. BaseInv => ListsKnow
  BY DEF BaseInv, ListsFollowState, ListsKnow
<1> QED
  BY <1>1, TeardownInvariance, PTL

\* ... and attached to the circuitmux of every channel the map has them on.
THEOREM TeardownMux == TeardownSpec => []MuxAgrees
<1>1. BaseInv => MuxAgrees
  BY DEF BaseInv
<1> QED
  BY <1>1, TeardownInvariance, PTL

\* TEARDOWNCIRCUIT leaves no onion queue entry or worker with a freed circuit,
\* no circuit on a channel that is gone, and no circuit waiting for a channel
\* whose fate was announced.
THEOREM TeardownReferences ==
  TeardownSpec => [](OnionRefsValid /\ ChannelRefsValid /\ NoLostWait)
<1>1. BaseInv => OnionRefsValid /\ ChannelRefsValid /\ NoLostWait
  BY DEF BaseInv
<1> QED
  BY <1>1, TeardownInvariance, PTL

\* total_pending_tasks still counts the jobs in flight.
THEOREM TeardownTasks == TeardownSpec => []TasksCounted
<1>1. Init => TasksCounted
  BY TasksCountedInit
<1>2. ASSUME BaseInv, TasksCounted, [NormalNext]_vars
      PROVE  TasksCounted'
  <2>1. CASE [Next]_vars
    BY <1>2, <2>1, TasksCountedStep
  <2>2. ASSUME NEW S \in SUBSET Live, DestroyAndMark(S)
        PROVE  TasksCounted'
    BY <1>2, <2>2 DEF DestroyAndMark, TasksCounted
  <2> QED
    BY <1>2, <2>1, <2>2, TeardownStep
<1> QED
  BY <1>1, <1>2, TeardownInvariance, PTL DEF TeardownSpec

\* Although an id may become free while a DESTROY of it is queued, it still
\* never passes from one circuit, or from a placeholder, to another circuit.
THEOREM TeardownTakesFree == TeardownSpec => [][OnlyFreeTaken]_vars
<1>1. ASSUME BaseInv, [NormalNext]_vars
      PROVE  OnlyFreeTaken
  <2>1. CASE [Next]_vars
    BY <1>1, <2>1, StepTakesFree
  <2>2. ASSUME NEW S \in SUBSET Live, DestroyAndMark(S)
        PROVE  OnlyFreeTaken
    BY <2>2 DEF DestroyAndMark, OnlyFreeTaken
  <2> QED
    BY <1>1, <2>1, <2>2, TeardownStep
<1> QED
  BY <1>1, TeardownInvariance, PTL DEF TeardownSpec

=============================================================================
