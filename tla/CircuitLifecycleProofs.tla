----------------------- MODULE CircuitLifecycleProofs -----------------------
(***************************************************************************)
(* Proofs for CircuitLifecycle: IInv is an inductive invariant, every      *)
(* safety invariant follows from it, and the circuit ids are used as       *)
(* CircIds promises.                                                       *)
(*                                                                         *)
(* BaseInv, the larger part of IInv, is also kept by TEARDOWNCIRCUIT       *)
(* (TeardownProofs).  There is one lemma per action, A => BaseInv          *)
(* preserved, with one step per conjunct that the action can disturb; the  *)
(* conjuncts about variables the action leaves alone follow in the QED     *)
(* step.  OneDestroyStep then adds the rest of IInv.                       *)
(***************************************************************************)
EXTENDS CircuitLifecycle, TLAPS, FiniteSetTheorems

-----------------------------------------------------------------------------
(* Facts about the operators *)

\* A slot without a placeholder has no DESTROY queued: channel_send_destroy is
\* only called for slots that it then reserves.
LEMMA OnlyReservedHaveDestroy ==
  ASSUME IInv, NEW l \in Slot, chan_circid_map[l] # RESERVED
  PROVE  destroy_queue[l] = 0
<1>1. destroy_queue[l] \in Nat
  BY DEF IInv, BaseInv, TypeOK
<1>2. destroy_queue[l] <= 1 /\ destroy_queue[l] # 1
  BY DEF IInv, DestroyReservesId
<1> QED
  BY <1>1, <1>2

\* channel_send_destroy and then circuit_set_circid_chan(0, NULL), for slots
\* that circuits hold: each is left reserved with one DESTROY, or free if its
\* channel is condemned.
LEMMA DrainedSlotsReserved ==
  ASSUME IInv, NEW S \in SUBSET Slot,
         \A l \in S : chan_circid_map[l] \in Circ,
         destroy_queue' = DestroysQueued(S),
         chan_circid_map' = Unlinked(S, DeletePending \cup Sendable(S))
  PROVE  DestroyReservesId'
<1>1. \A l \in S : destroy_queue[l] = 0
  BY ConstantsAssumption, OnlyReservedHaveDestroy
<1>2. DeletePending = {}
  BY DEF IInv, NoDeletePending, DeletePending
<1> SUFFICES ASSUME NEW l \in Slot
             PROVE  /\ destroy_queue'[l] <= 1
                    /\ destroy_queue'[l] = 1 <=> chan_circid_map'[l] = RESERVED
  BY DEF DestroyReservesId
<1>3. CASE l \in Sendable(S)
  BY <1>1, <1>2, <1>3 DEF Sendable, DestroysQueued, Unlinked
<1>4. CASE l \in S /\ l \notin Sendable(S)
  BY <1>1, <1>2, <1>4, ConstantsAssumption DEF DestroysQueued, Unlinked
<1>5. CASE l \notin S
  BY <1>5 DEF IInv, DestroyReservesId, Sendable, DestroysQueued, Unlinked
<1> QED
  BY <1>3, <1>4, <1>5

\* An action that only adds links, on slots without placeholder, and leaves the
\* DESTROY queues and their flags alone.
LEMMA LinksOnlyAdded ==
  ASSUME BaseInv,
         UNCHANGED <<n_delete_pending, p_delete_pending, destroy_queue>>,
         \A c \in Circ : /\ n[c] # NULL => n'[c] = n[c]
                         /\ p[c] # NULL => p'[c] = p[c],
         \A l \in Slot : chan_circid_map'[l] = RESERVED =>
                           chan_circid_map[l] = RESERVED
  PROVE  ReservationHasDestroy' /\ FlagsLinked'
<1>1. DeletePending' \subseteq DeletePending
  BY DEF DeletePending, BaseInv, FlagsLinked
<1> QED
  BY <1>1 DEF BaseInv, ReservationHasDestroy, FlagsLinked

\* channel_send_destroy and then circuit_set_circid_chan(0, NULL) on the slots
\* of S: a placeholder is only left where a DESTROY is queued.
LEMMA DrainedSlotsHaveDestroy ==
  ASSUME BaseInv, NEW S \in SUBSET Slot,
         DeletePending' \subseteq DeletePending,
         destroy_queue' = DestroysQueued(S),
         chan_circid_map' = Unlinked(S, DeletePending \cup Sendable(S))
  PROVE  ReservationHasDestroy'
<1>1. \A l \in Slot : /\ destroy_queue[l] \in Nat
                      /\ destroy_queue'[l] = IF l \in Sendable(S)
                                             THEN destroy_queue[l] + 1
                                             ELSE destroy_queue[l]
  BY DEF BaseInv, TypeOK, DestroysQueued
<1>2. \A l \in Slot : chan_circid_map'[l] = RESERVED =>
        \/ chan_circid_map[l] = RESERVED
        \/ l \in DeletePending \cup Sendable(S)
  BY ConstantsAssumption DEF Unlinked
<1>3. DeletePending \subseteq Slot
  BY DEF DeletePending
<1>4. /\ \A l \in Slot : chan_circid_map[l] = RESERVED => destroy_queue[l] > 0
      /\ \A l \in DeletePending : destroy_queue[l] > 0
  BY DEF BaseInv, ReservationHasDestroy
<1>5. \A l \in Slot : chan_circid_map'[l] = RESERVED => destroy_queue'[l] > 0
  <2>1. \A l \in Slot : chan_circid_map'[l] = RESERVED =>
                          destroy_queue[l] > 0 \/ l \in Sendable(S)
    BY <1>2, <1>4
  <2> QED
    BY <1>1, <2>1
<1>6. \A l \in DeletePending' : destroy_queue'[l] > 0
  BY <1>1, <1>3, <1>4
<1> QED
  BY <1>5, <1>6 DEF ReservationHasDestroy

\* queue_pending_tasks keeps total_pending_tasks an integer: it hands out
\* finitely many tasks.
LEMMA QueuePendingTasksType ==
  ASSUME BaseInv, NEW c \in Circ, QueuePendingTasks(c)
  PROVE  total_pending_tasks' \in Int
<1>1. PICK T \in SUBSET {d \in Circ : onion[d] = "queued"} :
        total_pending_tasks' =
          total_pending_tasks - 1 + Cardinality({d \in T : p[d] # NULL})
  BY DEF QueuePendingTasks
<1>2. IsFiniteSet({d \in T : p[d] # NULL})
  BY ConstantsAssumption, FS_Subset
<1> QED
  BY <1>1, <1>2, FS_CardinalityType DEF BaseInv

-----------------------------------------------------------------------------
(* One lemma per action *)

\* Every initial state satisfies the invariant.
LEMMA InitInv ==
  ASSUME Init
  PROVE  IInv
<1>1. TypeOK
  BY DEF Init, TypeOK, CircState, ChanState
<1>2. MapAgrees /\ MuxAgrees /\ DestroyReservesId
  BY ConstantsAssumption DEF Init, MapAgrees, MuxAgrees, DestroyReservesId
<1>3. ListsFollowState /\ OnionRefsValid /\ NoLostWait /\ FreedClean
  BY DEF Init, ListsFollowState, OnionRefsValid, NoLostWait, FreedClean
<1>4. ChannelRefsValid /\ NoDeletePending
  BY ConstantsAssumption DEF Init, ChannelRefsValid, NoDeletePending
<1>5. ReservationHasDestroy /\ FlagsLinked
  BY ConstantsAssumption
  DEF Init, ReservationHasDestroy, FlagsLinked, DeletePending
<1> QED
  BY <1>1, <1>2, <1>3, <1>4, <1>5 DEF IInv, BaseInv

\* A channel that only starts disturbs what is said of channels and of waits.
LEMMA ChannelLaunchInv ==
  ASSUME BaseInv, NEW ch \in Chan, ChannelLaunch(ch)
  PROVE  BaseInv'
<1>1. TypeOK'
  BY DEF BaseInv, TypeOK, ChanState, ChannelLaunch, circVars, linkVars,
         listVars
<1>2. ChannelRefsValid'
  BY DEF BaseInv, ChannelRefsValid, ChannelLaunch, linkVars
<1>3. NoLostWait'
  BY DEF BaseInv, NoLostWait, Live, ChannelLaunch, circVars
<1> QED
  BY <1>1, <1>2, <1>3
  DEF BaseInv, MapAgrees, MuxAgrees, ReservationHasDestroy, FlagsLinked,
      DeletePending, ListsFollowState, OnionRefsValid, FreedClean, Live,
      ChannelLaunch, circVars, linkVars, listVars

\* circuit_n_chan_done gives each circuit of "got" a slot of its own that was
\* free.  The slot is on a channel that was opening, hence not the channel of
\* the circuit's p side.
LEMMA ChannelOpenInv ==
  ASSUME BaseInv, NEW ch \in Chan, ChannelOpen(ch)
  PROVE  BaseInv'
<1>a. PICK closing \in {{}, {c \in Waiting(ch) : kind[c] = "origin"}} :
        \E got \in SUBSET (Waiting(ch) \ closing) :
        \E id \in [got -> OwnId] : CircuitNChanDone(ch, closing, got, id)
  BY DEF ChannelOpen
<1>b. PICK got \in SUBSET (Waiting(ch) \ closing) :
        \E id \in [got -> OwnId] : CircuitNChanDone(ch, closing, got, id)
  BY <1>a
<1>c. PICK id \in [got -> OwnId] : CircuitNChanDone(ch, closing, got, id)
  BY <1>b
<1>d. got \subseteq Circ /\ \A c \in got : <<ch, id[c]>> \in Slot
  BY DEF Waiting, BaseInv, TypeOK, Slot, Id
<1>e. \A c \in got : /\ c \in Live /\ state[c] = "CHAN_WAIT" /\ n[c] = NULL
                     /\ chan_circid_map[<<ch, id[c]>>] = NULL
  BY <1>c, <1>d DEF CircuitNChanDone, InUse, Waiting, BaseInv, ListsFollowState
<1>f. /\ \A c \in got : /\ chan_circid_map'[<<ch, id[c]>>] = c
                        /\ cmux'[<<ch, id[c]>>] = c
      /\ \A l \in Slot : (\A c \in got : l # <<ch, id[c]>>) =>
           chan_circid_map'[l] = chan_circid_map[l] /\ cmux'[l] = cmux[l]
  BY <1>c, <1>d DEF CircuitNChanDone
<1>1. TypeOK'
  <2>1. marked' \in [Circ -> BOOLEAN] /\ circuits_pending_close' \in SUBSET Circ
    BY <1>c, Zenon DEF BaseInv, TypeOK, CircuitNChanDone, MarkForClose, Waiting
  <2>2. /\ chan_circid_map' \in [Slot -> Circ \cup {RESERVED, NULL}]
        /\ cmux' \in [Slot -> Circ \cup {NULL}]
    BY <1>c, <1>d, <1>f DEF BaseInv, TypeOK, CircuitNChanDone
  <2>3. /\ n' \in [Circ -> Slot \cup {NULL}]
        /\ n_hop' \in [Circ -> Chan \cup {NULL}]
        /\ state' \in [Circ -> CircState]
        /\ circuits_pending_chans' \in SUBSET Circ
    BY <1>c, <1>d DEF BaseInv, TypeOK, CircuitNChanDone, CircState
  <2> QED
    BY <2>1, <2>2, <2>3 DEF BaseInv, TypeOK, ChannelOpen, ChanState
<1>2. MapAgrees'
  <2>1. ASSUME NEW c \in Circ, NEW l \in Slot
        PROVE  chan_circid_map'[l] = c <=> n'[c] = l \/ p'[c] = l
    <3>1. n'[c] = (IF c \in got THEN <<ch, id[c]>> ELSE n[c]) /\ p'[c] = p[c]
      BY <1>c DEF CircuitNChanDone, ChannelOpen
    <3>2. chan_circid_map[l] = c <=> n[c] = l \/ p[c] = l
      BY DEF BaseInv, MapAgrees
    <3>3. CASE \A d \in got : l # <<ch, id[d]>>
      BY <1>e, <1>f, <3>1, <3>2, <3>3, ConstantsAssumption
    <3>4. CASE \E d \in got : l = <<ch, id[d]>>
      BY <1>e, <1>f, <3>1, <3>2, <3>4, ConstantsAssumption
    <3> QED
      BY <3>3, <3>4
  <2>2. \A c \in Circ : n'[c] # NULL /\ p'[c] # NULL => n'[c][1] # p'[c][1]
    <3>1. \A c \in Circ : p[c] # NULL => chan_state[p[c][1]] # "OPENING"
      BY DEF BaseInv, TypeOK, MapAgrees, ChannelRefsValid
    <3>2. \A c \in got : n'[c] = <<ch, id[c]>> /\ (p[c] # NULL => p[c][1] # ch)
      BY <1>c, <1>d, <3>1 DEF CircuitNChanDone, ChannelOpen
    <3> QED
      BY <1>c, <3>2 DEF CircuitNChanDone, ChannelOpen, BaseInv, MapAgrees
  <2> QED
    BY <1>c, <1>e, <2>1, <2>2
    DEF BaseInv, MapAgrees, CircuitNChanDone, ChannelOpen, Live
<1>3. MuxAgrees'
  BY <1>d, <1>f DEF BaseInv, MuxAgrees
<1>4. ReservationHasDestroy' /\ FlagsLinked'
  <2>1. /\ UNCHANGED <<n_delete_pending, p_delete_pending, destroy_queue, p>>
        /\ \A c \in Circ : n[c] # NULL => n'[c] = n[c]
    BY <1>c, <1>e DEF ChannelOpen, CircuitNChanDone
  <2>2. \A l \in Slot : chan_circid_map'[l] = RESERVED =>
                          chan_circid_map[l] = RESERVED
    BY <1>d, <1>f, ConstantsAssumption
  <2> QED
    BY <2>1, <2>2, LinksOnlyAdded
<1>5. ListsFollowState'
  BY <1>c, <1>d, <1>e
  DEF BaseInv, ListsFollowState, ChannelOpen, CircuitNChanDone, MarkForClose,
      Waiting, Live
<1>6. OnionRefsValid'
  BY <1>c, <1>d, <1>e
  DEF BaseInv, OnionRefsValid, ChannelOpen, CircuitNChanDone
<1>7. ChannelRefsValid'
  BY <1>d, <1>f DEF BaseInv, TypeOK, ChannelRefsValid, ChannelOpen
<1>8. NoLostWait'
  BY <1>a, <1>b, <1>c, <1>d, <1>e
  DEF BaseInv, NoLostWait, ListsFollowState, Live, ChannelOpen, CircuitNChanDone,
      MarkForClose, Waiting
<1>9. FreedClean'
  BY <1>c, <1>d, <1>e
  DEF BaseInv, FreedClean, ListsFollowState, Live, ChannelOpen, CircuitNChanDone,
      MarkForClose, Waiting
<1> QED
  BY <1>1, <1>2, <1>3, <1>4, <1>5, <1>6, <1>7, <1>8, <1>9
  DEF BaseInv, ChannelOpen

\* A closing channel keeps its circuits; one that never opened still owes the
\* waiting circuits an answer.
LEMMA ChannelCloseInv ==
  ASSUME BaseInv, NEW ch \in Chan, ChannelClose(ch)
  PROVE  BaseInv'
<1>1. TypeOK'
  BY DEF BaseInv, TypeOK, ChanState, ChannelClose, circVars, linkVars, listVars
<1>2. ChannelRefsValid'
  BY DEF BaseInv, ChannelRefsValid, ChannelClose, linkVars
<1>3. NoLostWait'
  BY DEF BaseInv, NoLostWait, Live, ChannelClose, circVars
<1> QED
  BY <1>1, <1>2, <1>3
  DEF BaseInv, MapAgrees, MuxAgrees, ReservationHasDestroy, FlagsLinked,
      DeletePending, ListsFollowState, OnionRefsValid, FreedClean, Live,
      ChannelClose, circVars, linkVars, listVars

\* channel_closed unlinks what the circuitmux has.  As map and circuitmux agree,
\* no circuit is left behind, and no placeholder is dropped.
LEMMA ChannelClosedInv ==
  ASSUME BaseInv, NEW ch \in Chan, ChannelClosed(ch)
  PROVE  BaseInv'
<1>1. TypeOK'
  BY DEF BaseInv, TypeOK, ChanState, ChannelClosed, Waiting, Unlinked,
         MarkForClose
<1>2. MapAgrees'
  BY ConstantsAssumption DEF BaseInv, MapAgrees, Live, ChannelClosed, Unlinked
<1>3. MuxAgrees'
  BY ConstantsAssumption
  DEF BaseInv, MuxAgrees, MapAgrees, ChannelClosed, SlotsOf, Unlinked
<1>4. ReservationHasDestroy' /\ FlagsLinked'
  <2> DEFINE legs == {l \in SlotsOf({c \in Circ : \E k \in Slot :
                         /\ k[1] = ch /\ cmux[k] # NULL
                         /\ chan_circid_map[k] = c}) : l[1] = ch}
  <2>1. /\ chan_circid_map' = Unlinked(legs, DeletePending)
        /\ destroy_queue' = destroy_queue
        /\ \A c \in Circ :
             /\ n'[c] = IF n[c] \in legs THEN NULL ELSE n[c]
             /\ p'[c] = IF p[c] \in legs THEN NULL ELSE p[c]
             /\ n_delete_pending'[c] <=> n[c] \notin legs /\ n_delete_pending[c]
             /\ p_delete_pending'[c] <=> p[c] \notin legs /\ p_delete_pending[c]
    BY DEF ChannelClosed, BaseInv, TypeOK
  <2> HIDE DEF legs
  <2>2. DeletePending' \subseteq DeletePending
    BY <2>1 DEF DeletePending
  <2>3. \A l \in Slot : chan_circid_map'[l] = RESERVED =>
                          chan_circid_map[l] = RESERVED \/ l \in DeletePending
    BY <2>1, ConstantsAssumption DEF Unlinked
  <2>4. FlagsLinked'
    BY <2>1 DEF BaseInv, FlagsLinked
  <2> QED
    BY <2>1, <2>2, <2>3, <2>4 DEF BaseInv, ReservationHasDestroy
<1>5. ListsFollowState'
  BY ConstantsAssumption
  DEF BaseInv, ListsFollowState, Live, MapAgrees, ChannelClosed, Waiting,
      MarkForClose
<1>6. ChannelRefsValid'
  BY ConstantsAssumption
  DEF BaseInv, ChannelRefsValid, MuxAgrees, MapAgrees, ChannelClosed, SlotsOf,
      Unlinked, DeletePending
<1>7. NoLostWait'
  BY DEF BaseInv, NoLostWait, Live, ListsFollowState, ChannelClosed, Waiting,
         MarkForClose
<1>8. FreedClean'
  BY ConstantsAssumption
  DEF BaseInv, FreedClean, Live, ListsFollowState, MapAgrees, ChannelClosed, Waiting,
      DeletePending, MarkForClose
<1> QED
  BY <1>1, <1>2, <1>3, <1>4, <1>5, <1>6, <1>7, <1>8
  DEF BaseInv, OnionRefsValid, ChannelClosed

\* channel_free frees the ids of the DESTROY cells it discards.  No circuit is
\* linked to a closed channel, so the circuits do not notice.
LEMMA ChannelFreeInv ==
  ASSUME BaseInv, NEW ch \in Chan, ChannelFree(ch)
  PROVE  BaseInv'
<1>a. \A l \in Slot : l[1] = ch => chan_circid_map[l] \notin Circ
  BY DEF BaseInv, ChannelRefsValid, ChannelFree
<1>1. TypeOK'
  BY DEF BaseInv, TypeOK, ChanState, ChannelFree, circVars, listVars
<1>2. MapAgrees'
  BY <1>a, ConstantsAssumption
  DEF BaseInv, ChannelFree, MapAgrees, Live, circVars
<1>3. MuxAgrees'
  BY <1>a DEF BaseInv, ChannelFree, MuxAgrees
<1>4. ReservationHasDestroy' /\ FlagsLinked'
  <2>1. DeletePending' = DeletePending
    BY DEF ChannelFree, circVars, DeletePending
  <2>2. \A l \in DeletePending : l[1] # ch
    BY <1>a DEF DeletePending, BaseInv, MapAgrees
  <2>3. ReservationHasDestroy'
    BY <2>1, <2>2, ConstantsAssumption
    DEF BaseInv, TypeOK, ReservationHasDestroy, ChannelFree, DeletePending
  <2> QED
    BY <2>3 DEF BaseInv, FlagsLinked, ChannelFree, circVars
<1>5. ChannelRefsValid'
  BY ConstantsAssumption
  DEF BaseInv, TypeOK, ChannelRefsValid, ReservationHasDestroy, ChannelFree
<1>6. NoLostWait'
  BY DEF BaseInv, NoLostWait, Live, ChannelFree, circVars
<1> QED
  BY <1>1, <1>2, <1>3, <1>4, <1>5, <1>6
  DEF BaseInv, ListsFollowState, OnionRefsValid, FreedClean, Live,
      ChannelFree, circVars, listVars

\* The lost DESTROY was the only one of its slot, whose placeholder goes.
LEMMA FlushFailsInv ==
  ASSUME BaseInv, NEW l \in Slot, FlushFails(l)
  PROVE  BaseInv'
<1>1. TypeOK'
  <2>1. /\ n_delete_pending' \in [Circ -> BOOLEAN]
        /\ p_delete_pending' \in [Circ -> BOOLEAN]
    BY Zenon DEF BaseInv, TypeOK, FlushFails, DestroyNotPending
  <2>2. /\ destroy_queue' \in [Slot -> Nat]
        /\ chan_state' \in [Chan -> ChanState]
    BY DEF BaseInv, TypeOK, ChanState, FlushFails
  <2>3. chan_circid_map' \in [Slot -> Circ \cup {RESERVED, NULL}]
    BY DEF BaseInv, TypeOK, FlushFails, DestroyNotPending
  <2> QED
    BY <2>1, <2>2, <2>3 DEF BaseInv, TypeOK, FlushFails, listVars
<1>2. MapAgrees'
  BY ConstantsAssumption
  DEF BaseInv, TypeOK, MapAgrees, Live, FlushFails, DestroyNotPending
<1>3. MuxAgrees'
  BY ConstantsAssumption
  DEF BaseInv, TypeOK, MuxAgrees, FlushFails, DestroyNotPending
<1>4. ReservationHasDestroy' /\ FlagsLinked'
  <2>1. l \notin DeletePending' /\ DeletePending' \subseteq DeletePending
    BY ConstantsAssumption DEF FlushFails, DestroyNotPending, DeletePending
  <2>2. chan_circid_map'[l] # RESERVED
    BY ConstantsAssumption DEF FlushFails, DestroyNotPending
  <2>3. \A k \in Slot : k # l => /\ destroy_queue'[k] = destroy_queue[k]
                                /\ chan_circid_map'[k] = chan_circid_map[k]
    BY DEF FlushFails, DestroyNotPending, BaseInv, TypeOK
  <2>4. FlagsLinked'
    BY DEF FlushFails, DestroyNotPending, BaseInv, FlagsLinked
  <2> QED
    BY <2>1, <2>2, <2>3, <2>4
    DEF BaseInv, ReservationHasDestroy, DeletePending
<1>5. ChannelRefsValid'
  BY ConstantsAssumption
  DEF BaseInv, TypeOK, ChannelRefsValid, FlushFails, DestroyNotPending, Slot
<1>6. NoLostWait'
  BY ConstantsAssumption
  DEF BaseInv, TypeOK, NoLostWait, Live, FlushFails, Slot
<1> QED
  BY <1>1, <1>2, <1>3, <1>4, <1>5, <1>6
  DEF BaseInv, ListsFollowState, OnionRefsValid, FreedClean, Live, FlushFails,
      listVars

\* The one DESTROY of a slot leaves, and its placeholder with it.
LEMMA FlushDestroyInv ==
  ASSUME BaseInv, NEW l \in Slot, FlushDestroy(l)
  PROVE  BaseInv'
<1>1. TypeOK'
  <2>1. /\ n_delete_pending' \in [Circ -> BOOLEAN]
        /\ p_delete_pending' \in [Circ -> BOOLEAN]
    BY Zenon DEF BaseInv, TypeOK, FlushDestroy, DestroyNotPending
  <2>2. destroy_queue' \in [Slot -> Nat]
    BY DEF BaseInv, TypeOK, FlushDestroy
  <2>3. chan_circid_map' \in [Slot -> Circ \cup {RESERVED, NULL}]
    BY DEF BaseInv, TypeOK, FlushDestroy, DestroyNotPending
  <2> QED
    BY <2>1, <2>2, <2>3 DEF BaseInv, TypeOK, FlushDestroy, listVars
<1>2. MapAgrees'
  BY ConstantsAssumption
  DEF BaseInv, MapAgrees, Live, FlushDestroy, DestroyNotPending
<1>3. MuxAgrees'
  BY ConstantsAssumption
  DEF BaseInv, MuxAgrees, FlushDestroy, DestroyNotPending
<1>4. ReservationHasDestroy' /\ FlagsLinked'
  <2>1. l \notin DeletePending' /\ DeletePending' \subseteq DeletePending
    BY ConstantsAssumption DEF FlushDestroy, DestroyNotPending, DeletePending
  <2>2. chan_circid_map'[l] # RESERVED
    BY ConstantsAssumption DEF FlushDestroy, DestroyNotPending
  <2>3. \A k \in Slot : k # l => /\ destroy_queue'[k] = destroy_queue[k]
                                /\ chan_circid_map'[k] = chan_circid_map[k]
    BY DEF FlushDestroy, DestroyNotPending, BaseInv, TypeOK
  <2>4. FlagsLinked'
    BY DEF FlushDestroy, DestroyNotPending, BaseInv, FlagsLinked
  <2> QED
    BY <2>1, <2>2, <2>3, <2>4
    DEF BaseInv, ReservationHasDestroy, DeletePending
<1>5. ChannelRefsValid'
  BY DEF BaseInv, ChannelRefsValid, FlushDestroy, DestroyNotPending
<1> QED
  BY <1>1, <1>2, <1>3, <1>4, <1>5
  DEF BaseInv, ListsFollowState, OnionRefsValid, NoLostWait, FreedClean, Live,
      FlushDestroy, listVars

\* A refused CREATE reserves an id that had neither circuit nor DESTROY.
LEMMA CreateRefusedInv ==
  ASSUME BaseInv, NEW l \in Slot, CreateRefused(l)
  PROVE  BaseInv'
<1>1. TypeOK'
  BY DEF BaseInv, TypeOK, CreateRefused, circVars, listVars
<1>2. MapAgrees'
  BY ConstantsAssumption
  DEF BaseInv, MapAgrees, Live, CreateRefused, InUse, circVars
<1>3. MuxAgrees'
  BY ConstantsAssumption DEF BaseInv, MuxAgrees, CreateRefused, InUse
<1>4. ReservationHasDestroy' /\ FlagsLinked'
  <2>1. DeletePending' = DeletePending
    BY DEF CreateRefused, circVars, DeletePending
  <2>2. \A k \in Slot : destroy_queue[k] \in Nat /\ (k # l =>
          destroy_queue'[k] = destroy_queue[k]
          /\ chan_circid_map'[k] = chan_circid_map[k])
    BY DEF CreateRefused, BaseInv, TypeOK
  <2>3. destroy_queue'[l] = destroy_queue[l] + 1
    BY DEF CreateRefused, BaseInv, TypeOK
  <2>4. ReservationHasDestroy'
    BY <2>1, <2>2, <2>3 DEF BaseInv, ReservationHasDestroy, DeletePending
  <2> QED
    BY <2>4 DEF BaseInv, FlagsLinked, CreateRefused, circVars
<1>5. ChannelRefsValid'
  BY DEF BaseInv, ChannelRefsValid, CreateRefused
<1> QED
  BY <1>1, <1>2, <1>3, <1>4, <1>5
  DEF BaseInv, ListsFollowState, OnionRefsValid, NoLostWait, FreedClean, Live,
      CreateRefused, circVars, listVars

\* The side a DESTROY came from is unlinked; no DESTROY goes back.
LEMMA ProcessDestroyInv ==
  ASSUME BaseInv, NEW l \in Slot, ProcessDestroy(l)
  PROVE  BaseInv'
<1>1. TypeOK'
  <2>1. chan_circid_map[l] \in Circ
    BY DEF ProcessDestroy
  <2>2. marked' \in [Circ -> BOOLEAN] /\ circuits_pending_close' \in SUBSET Circ
    BY <2>1, Zenon DEF BaseInv, TypeOK, ProcessDestroy, MarkForClose
  <2>3. /\ n' \in [Circ -> Slot \cup {NULL}]
        /\ p' \in [Circ -> Slot \cup {NULL}]
        /\ n_delete_pending' \in [Circ -> BOOLEAN]
        /\ p_delete_pending' \in [Circ -> BOOLEAN]
    <3>1. /\ n \in [Circ -> Slot \cup {NULL}] /\ p \in [Circ -> Slot \cup {NULL}]
          /\ n_delete_pending \in [Circ -> BOOLEAN]
          /\ p_delete_pending \in [Circ -> BOOLEAN]
      BY DEF BaseInv, TypeOK
    <3> DEFINE c == chan_circid_map[l]
    <3>2. \/ /\ p' = [p EXCEPT ![c] = NULL]
             /\ p_delete_pending' = [p_delete_pending EXCEPT ![c] = FALSE]
             /\ n' = n /\ n_delete_pending' = n_delete_pending
          \/ /\ n' = [n EXCEPT ![c] = NULL]
             /\ n_delete_pending' = [n_delete_pending EXCEPT ![c] = FALSE]
             /\ p' = p /\ p_delete_pending' = p_delete_pending
      BY DEF ProcessDestroy
    <3> QED
      BY <2>1, <3>1, <3>2
  <2>4. /\ chan_circid_map' \in [Slot -> Circ \cup {RESERVED, NULL}]
        /\ cmux' \in [Slot -> Circ \cup {NULL}]
    <3>1. /\ chan_circid_map' = Unlinked({l}, DeletePending)
          /\ cmux' = Detached({l})
      BY DEF ProcessDestroy
    <3>2. /\ chan_circid_map \in [Slot -> Circ \cup {RESERVED, NULL}]
          /\ cmux \in [Slot -> Circ \cup {NULL}]
      BY DEF BaseInv, TypeOK
    <3> QED
      BY <3>1, <3>2 DEF Unlinked, Detached
  <2> QED
    BY <2>2, <2>3, <2>4 DEF BaseInv, TypeOK, ProcessDestroy
<1>2. MapAgrees'
  BY ConstantsAssumption
  DEF BaseInv, TypeOK, MapAgrees, Live, ProcessDestroy, Unlinked
<1>3. MuxAgrees'
  BY ConstantsAssumption
  DEF BaseInv, MuxAgrees, ProcessDestroy, Unlinked, Detached
<1>4. ReservationHasDestroy' /\ FlagsLinked'
  <2> DEFINE c == chan_circid_map[l]
  <2>1. /\ chan_circid_map' = Unlinked({l}, DeletePending)
        /\ destroy_queue' = destroy_queue /\ c \in Circ
        /\ n[c] = l \/ p[c] = l
    BY DEF ProcessDestroy, BaseInv, MapAgrees
  <2>2. \/ /\ p' = [p EXCEPT ![c] = NULL]
           /\ p_delete_pending' = [p_delete_pending EXCEPT ![c] = FALSE]
           /\ n' = n /\ n_delete_pending' = n_delete_pending
        \/ /\ n' = [n EXCEPT ![c] = NULL]
           /\ n_delete_pending' = [n_delete_pending EXCEPT ![c] = FALSE]
           /\ p' = p /\ p_delete_pending' = p_delete_pending
    BY DEF ProcessDestroy
  <2> HIDE DEF c
  <2>3. DeletePending' \subseteq DeletePending /\ FlagsLinked'
    BY <2>1, <2>2, ConstantsAssumption
    DEF DeletePending, BaseInv, TypeOK, FlagsLinked
  <2>4. \A k \in Slot : chan_circid_map'[k] = RESERVED =>
                          chan_circid_map[k] = RESERVED \/ k \in DeletePending
    BY <2>1, ConstantsAssumption DEF Unlinked
  <2> QED
    BY <2>1, <2>3, <2>4 DEF BaseInv, ReservationHasDestroy
<1>5. ListsFollowState'
  BY ConstantsAssumption
  DEF BaseInv, ListsFollowState, Live, MapAgrees, ProcessDestroy, MarkForClose
<1>6. ChannelRefsValid'
  BY DEF BaseInv, ChannelRefsValid, ProcessDestroy, Unlinked
<1>7. NoLostWait'
  BY DEF BaseInv, TypeOK, NoLostWait, Live, ProcessDestroy, MarkForClose
<1>8. FreedClean'
  BY ConstantsAssumption
  DEF BaseInv, FreedClean, Live, MapAgrees, ProcessDestroy, MarkForClose
<1> QED
  BY <1>1, <1>2, <1>3, <1>4, <1>5, <1>6, <1>7, <1>8
  DEF BaseInv, OnionRefsValid, ProcessDestroy

\* or_circuit_new and circuit_mark_for_close in one handler.
LEMMA CreateFailsInv ==
  ASSUME BaseInv, NEW c \in Circ, NEW l \in Slot, CreateFails(c, l)
  PROVE  BaseInv'
<1>1. TypeOK'
  BY DEF BaseInv, TypeOK, CircState, CreateFails, OrCircuitNew, MarkForClose
<1>2. MapAgrees'
  BY ConstantsAssumption
  DEF BaseInv, TypeOK, MapAgrees, Live, CreateFails, OrCircuitNew, InUse
<1>3. MuxAgrees'
  BY DEF BaseInv, TypeOK, MuxAgrees, CreateFails, OrCircuitNew
<1>4. ReservationHasDestroy' /\ FlagsLinked'
  BY LinksOnlyAdded, ConstantsAssumption
  DEF BaseInv, TypeOK, FreedClean, MapAgrees, CreateFails, OrCircuitNew, InUse
<1>5. ListsFollowState'
  BY DEF BaseInv, TypeOK, ListsFollowState, Live, CreateFails, OrCircuitNew,
         MarkForClose
<1>6. OnionRefsValid'
  BY DEF BaseInv, OnionRefsValid, CreateFails, OrCircuitNew
<1>7. ChannelRefsValid'
  BY DEF BaseInv, ChannelRefsValid, CreateFails, OrCircuitNew
<1>8. NoLostWait'
  BY DEF BaseInv, NoLostWait, Live, CreateFails, OrCircuitNew, MarkForClose
<1>9. FreedClean'
  BY DEF BaseInv, TypeOK, FreedClean, Live, CreateFails, OrCircuitNew,
         MarkForClose
<1> QED
  BY <1>1, <1>2, <1>3, <1>4, <1>5, <1>6, <1>7, <1>8, <1>9
  DEF BaseInv, CreateFails, OrCircuitNew

\* CREATE_FAST opens the circuit in place.
LEMMA CreateFastInv ==
  ASSUME BaseInv, NEW c \in Circ, NEW l \in Slot, CreateFast(c, l)
  PROVE  BaseInv'
<1>1. TypeOK'
  BY DEF BaseInv, TypeOK, CircState, CreateFast, OrCircuitNew
<1>2. MapAgrees'
  BY ConstantsAssumption
  DEF BaseInv, TypeOK, MapAgrees, Live, ChannelRefsValid, CreateFast,
      OrCircuitNew, InUse
<1>3. MuxAgrees'
  BY DEF BaseInv, TypeOK, MuxAgrees, CreateFast, OrCircuitNew
<1>4. ReservationHasDestroy' /\ FlagsLinked'
  BY LinksOnlyAdded, ConstantsAssumption
  DEF BaseInv, TypeOK, FreedClean, MapAgrees, CreateFast, OrCircuitNew, InUse
<1>5. ListsFollowState'
  BY DEF BaseInv, ListsFollowState, Live, FreedClean, CreateFast, OrCircuitNew
<1>6. OnionRefsValid'
  BY DEF BaseInv, OnionRefsValid, CreateFast, OrCircuitNew
<1>7. ChannelRefsValid'
  BY DEF BaseInv, ChannelRefsValid, CreateFast, OrCircuitNew
<1>8. NoLostWait'
  BY DEF BaseInv, TypeOK, NoLostWait, Live, CreateFast, OrCircuitNew
<1>9. FreedClean'
  BY DEF BaseInv, TypeOK, FreedClean, Live, CreateFast, OrCircuitNew
<1> QED
  BY <1>1, <1>2, <1>3, <1>4, <1>5, <1>6, <1>7, <1>8, <1>9
  DEF BaseInv, CreateFast, OrCircuitNew

\* The handshake goes to a worker thread.
LEMMA CreateAssignedInv ==
  ASSUME BaseInv, NEW c \in Circ, NEW l \in Slot, CreateAssigned(c, l)
  PROVE  BaseInv'
<1>1. TypeOK'
  BY DEF BaseInv, TypeOK, CircState, CreateAssigned, OrCircuitNew
<1>2. MapAgrees'
  BY ConstantsAssumption
  DEF BaseInv, TypeOK, MapAgrees, Live, ChannelRefsValid, CreateAssigned,
      OrCircuitNew, InUse
<1>3. MuxAgrees'
  BY DEF BaseInv, TypeOK, MuxAgrees, CreateAssigned, OrCircuitNew
<1>4. ReservationHasDestroy' /\ FlagsLinked'
  BY LinksOnlyAdded, ConstantsAssumption
  DEF BaseInv, TypeOK, FreedClean, MapAgrees, CreateAssigned, OrCircuitNew,
      InUse
<1>5. ListsFollowState'
  BY DEF BaseInv, ListsFollowState, Live, FreedClean, CreateAssigned, OrCircuitNew
<1>6. OnionRefsValid'
  BY DEF BaseInv, TypeOK, OnionRefsValid, CreateAssigned, OrCircuitNew
<1>7. ChannelRefsValid'
  BY DEF BaseInv, ChannelRefsValid, CreateAssigned, OrCircuitNew
<1>8. NoLostWait'
  BY DEF BaseInv, TypeOK, NoLostWait, Live, CreateAssigned, OrCircuitNew
<1>9. FreedClean'
  BY DEF BaseInv, TypeOK, FreedClean, Live, CreateAssigned, OrCircuitNew
<1> QED
  BY <1>1, <1>2, <1>3, <1>4, <1>5, <1>6, <1>7, <1>8, <1>9
  DEF BaseInv, CreateAssigned, OrCircuitNew

\* onion_pending_add culls circuits that are live, since the queue only knows
\* live ones.
LEMMA CreateQueuedInv ==
  ASSUME BaseInv, NEW c \in Circ, NEW l \in Slot, CreateQueued(c, l)
  PROVE  BaseInv'
<1>1. TypeOK'
  <2>1. marked' \in [Circ -> BOOLEAN]
    BY Zenon DEF BaseInv, TypeOK, CreateQueued, MarkForClose
  <2>2. onion' \in [Circ -> {"none", "queued", "job"}]
    BY DEF BaseInv, TypeOK, CreateQueued
  <2> QED
    BY <2>1, <2>2
    DEF BaseInv, TypeOK, CreateQueued, OrCircuitNew, MarkForClose, CircState
<1>2. MapAgrees'
  BY ConstantsAssumption
  DEF BaseInv, TypeOK, MapAgrees, Live, CreateQueued, OrCircuitNew, InUse
<1>3. MuxAgrees'
  BY DEF BaseInv, TypeOK, MuxAgrees, CreateQueued, OrCircuitNew
<1>4. ReservationHasDestroy' /\ FlagsLinked'
  BY LinksOnlyAdded, ConstantsAssumption
  DEF BaseInv, TypeOK, FreedClean, MapAgrees, CreateQueued, OrCircuitNew, InUse
<1>5. ListsFollowState'
  BY DEF BaseInv, ListsFollowState, Live, FreedClean, OnionRefsValid, CreateQueued,
         OrCircuitNew, MarkForClose
<1>6. OnionRefsValid'
  BY DEF BaseInv, TypeOK, OnionRefsValid, CreateQueued, OrCircuitNew
<1>7. ChannelRefsValid'
  BY DEF BaseInv, ChannelRefsValid, CreateQueued, OrCircuitNew
<1>8. NoLostWait'
  BY DEF BaseInv, TypeOK, NoLostWait, Live, CreateQueued, OrCircuitNew,
         MarkForClose
<1>9. FreedClean'
  <2> SUFFICES ASSUME NEW d \in Circ, d \notin Live'
               PROVE  state'[d] = "BUILDING" /\ ~marked'[d]
    BY DEF FreedClean
  <2>1. d # c /\ kind'[d] = kind[d] /\ state'[d] = state[d]
    BY DEF BaseInv, TypeOK, CreateQueued, OrCircuitNew, Live
  <2>2. onion[d] # "queued"
    BY <2>1 DEF BaseInv, OnionRefsValid, Live
  <2>3. marked'[d] = marked[d]
    BY <2>2 DEF CreateQueued, MarkForClose
  <2> QED
    BY <2>1, <2>3 DEF BaseInv, FreedClean, Live
<1> QED
  BY <1>1, <1>2, <1>3, <1>4, <1>5, <1>6, <1>7, <1>8, <1>9
  DEF BaseInv, CreateQueued, OrCircuitNew

\* The reply for a dead circuit frees the object; it was in no list and no map.
LEMMA ReplyDeadInv ==
  ASSUME BaseInv, NEW c \in Circ, ReplyDead(c)
  PROVE  BaseInv'
<1>1. TypeOK'
  BY QueuePendingTasksType
  DEF BaseInv, TypeOK, ReplyDead, QueuePendingTasks, linkVars, listVars
<1>2. MapAgrees'
  BY DEF BaseInv, MapAgrees, Live, ReplyDead, linkVars
<1>3. ListsFollowState'
  BY DEF BaseInv, ListsFollowState, Live, ReplyDead, listVars
<1>4. OnionRefsValid'
  BY DEF BaseInv, TypeOK, OnionRefsValid, ReplyDead, QueuePendingTasks
<1>5. NoLostWait'
  BY DEF BaseInv, NoLostWait, Live, ReplyDead
<1>6. FreedClean'
  BY DEF BaseInv, FreedClean, Live, ReplyDead
<1> QED
  BY <1>1, <1>2, <1>3, <1>4, <1>5, <1>6
  DEF BaseInv, MuxAgrees, ReservationHasDestroy, FlagsLinked, DeletePending,
      ChannelRefsValid, ReplyDead, linkVars

\* The reply for a marked circuit changes nothing but the task queue.
LEMMA ReplyMarkedInv ==
  ASSUME BaseInv, NEW c \in Circ, ReplyMarked(c)
  PROVE  BaseInv'
<1>1. TypeOK'
  BY QueuePendingTasksType
  DEF BaseInv, TypeOK, ReplyMarked, QueuePendingTasks, linkVars, listVars
<1>2. OnionRefsValid'
  BY DEF BaseInv, OnionRefsValid, ReplyMarked, QueuePendingTasks
<1> QED
  BY <1>1, <1>2
  DEF BaseInv, MapAgrees, MuxAgrees, ReservationHasDestroy, FlagsLinked,
      DeletePending, ListsFollowState, ChannelRefsValid, NoLostWait, FreedClean,
      Live, ReplyMarked, linkVars, listVars

\* A failed handshake marks the circuit.
LEMMA ReplyFailureInv ==
  ASSUME BaseInv, NEW c \in Circ, ReplyFailure(c)
  PROVE  BaseInv'
<1>1. TypeOK'
  <2>1. marked' \in [Circ -> BOOLEAN]
    BY Zenon DEF BaseInv, TypeOK, ReplyFailure, MarkForClose
  <2>2. onion' \in [Circ -> {"none", "queued", "job"}]
    BY DEF BaseInv, TypeOK, ReplyFailure, QueuePendingTasks
  <2>3. total_pending_tasks' \in Int
    BY QueuePendingTasksType DEF ReplyFailure
  <2> QED
    BY <2>1, <2>2, <2>3
    DEF BaseInv, TypeOK, ReplyFailure, MarkForClose, linkVars
<1>2. ListsFollowState'
  BY DEF BaseInv, ListsFollowState, Live, ReplyFailure, MarkForClose
<1>3. OnionRefsValid'
  BY DEF BaseInv, OnionRefsValid, ReplyFailure, QueuePendingTasks
<1>4. NoLostWait'
  BY DEF BaseInv, NoLostWait, Live, ReplyFailure, MarkForClose
<1>5. FreedClean'
  BY DEF BaseInv, FreedClean, Live, ReplyFailure, MarkForClose
<1> QED
  BY <1>1, <1>2, <1>3, <1>4, <1>5
  DEF BaseInv, MapAgrees, MuxAgrees, ReservationHasDestroy, FlagsLinked,
      DeletePending, ChannelRefsValid, Live, ReplyFailure, linkVars

\* A finished handshake opens a circuit that waited for nothing else.
LEMMA ReplySuccessInv ==
  ASSUME BaseInv, NEW c \in Circ, ReplySuccess(c)
  PROVE  BaseInv'
<1>1. TypeOK'
  BY QueuePendingTasksType
  DEF BaseInv, TypeOK, ReplySuccess, QueuePendingTasks, SetState, CircState,
      linkVars, listVars
<1>2. ListsFollowState'
  BY DEF BaseInv, TypeOK, ListsFollowState, Live, ReplySuccess, SetState
<1>3. OnionRefsValid'
  BY DEF BaseInv, OnionRefsValid, ReplySuccess, QueuePendingTasks, SetState
<1>4. NoLostWait'
  <2>1. state[c] = "ONIONSKIN_PENDING"
    BY DEF BaseInv, OnionRefsValid, ReplySuccess
  <2>2. n_hop[c] = NULL
    BY <2>1 DEF BaseInv, NoLostWait
  <2>3. state' = [state EXCEPT ![c] = "OPEN"]
    BY DEF ReplySuccess, SetState
  <2> QED
    BY <2>1, <2>2, <2>3 DEF BaseInv, NoLostWait, Live, ReplySuccess
<1>5. FreedClean'
  BY DEF BaseInv, FreedClean, Live, ReplySuccess, SetState
<1> QED
  BY <1>1, <1>2, <1>3, <1>4, <1>5
  DEF BaseInv, MapAgrees, MuxAgrees, ReservationHasDestroy, FlagsLinked,
      DeletePending, ChannelRefsValid, Live, ReplySuccess, linkVars

\* The new n side gets a slot nobody has, on another channel than the p side.
LEMMA ExtendOpenChanInv ==
  ASSUME BaseInv, NEW c \in Circ, NEW l \in Slot, ExtendOpenChan(c, l)
  PROVE  BaseInv'
<1>1. TypeOK'
  BY DEF BaseInv, TypeOK, ExtendOpenChan, LinkN, listVars
<1>2. MapAgrees'
  BY ConstantsAssumption
  DEF BaseInv, TypeOK, MapAgrees, Live, ExtendOpenChan, Extendable, RelayCell,
      Unique, InUse, LinkN
<1>3. MuxAgrees'
  BY DEF BaseInv, TypeOK, MuxAgrees, ExtendOpenChan, LinkN
<1>4. ReservationHasDestroy' /\ FlagsLinked'
  BY LinksOnlyAdded, ConstantsAssumption
  DEF BaseInv, TypeOK, MapAgrees, Live, ExtendOpenChan, Extendable, LinkN
<1>5. ChannelRefsValid'
  BY DEF BaseInv, ChannelRefsValid, ExtendOpenChan, LinkN
<1>6. NoLostWait'
  BY DEF BaseInv, NoLostWait, Live, ExtendOpenChan, Extendable, RelayCell,
         LinkN
<1> QED
  BY <1>1, <1>2, <1>3, <1>4, <1>5, <1>6
  DEF BaseInv, ListsFollowState, OnionRefsValid, FreedClean, Live,
      ExtendOpenChan, listVars

\* The same for a new origin circuit.
LEMMA LaunchOpenChanInv ==
  ASSUME BaseInv, NEW c \in Circ, NEW l \in Slot, LaunchOpenChan(c, l)
  PROVE  BaseInv'
<1>1. TypeOK'
  BY DEF BaseInv, TypeOK, CircState, LaunchOpenChan, LinkN, SetState
<1>2. MapAgrees'
  BY ConstantsAssumption
  DEF BaseInv, TypeOK, MapAgrees, Live, LaunchOpenChan, Unique, InUse, LinkN
<1>3. MuxAgrees'
  BY DEF BaseInv, TypeOK, MuxAgrees, LaunchOpenChan, LinkN
<1>4. ReservationHasDestroy' /\ FlagsLinked'
  BY LinksOnlyAdded, ConstantsAssumption
  DEF BaseInv, TypeOK, MapAgrees, Live, LaunchOpenChan, LinkN
<1>5. ListsFollowState'
  BY DEF BaseInv, ListsFollowState, Live, FreedClean, LaunchOpenChan, SetState
<1>6. OnionRefsValid'
  BY DEF BaseInv, OnionRefsValid, LaunchOpenChan, SetState
<1>7. ChannelRefsValid'
  BY DEF BaseInv, ChannelRefsValid, LaunchOpenChan, LinkN
<1>8. NoLostWait'
  BY DEF BaseInv, TypeOK, NoLostWait, Live, LaunchOpenChan, LinkN, SetState
<1>9. FreedClean'
  BY DEF BaseInv, FreedClean, Live, LaunchOpenChan, SetState
<1> QED
  BY <1>1, <1>2, <1>3, <1>4, <1>5, <1>6, <1>7, <1>8, <1>9
  DEF BaseInv, LaunchOpenChan

\* The circuit waits for a channel that is on its way.
LEMMA ExtendWaitInv ==
  ASSUME BaseInv, NEW c \in Circ, NEW ch \in Chan, ExtendWait(c, ch)
  PROVE  BaseInv'
<1>1. TypeOK'
  BY DEF BaseInv, TypeOK, CircState, ChanState, ExtendWait, SetState, linkVars
<1>2. ListsFollowState'
  BY DEF BaseInv, TypeOK, ListsFollowState, Live, ExtendWait, Extendable, RelayCell,
         SetState
<1>3. OnionRefsValid'
  BY DEF BaseInv, OnionRefsValid, ExtendWait, Extendable, RelayCell, SetState
<1>4. ChannelRefsValid'
  BY DEF BaseInv, ChannelRefsValid, ExtendWait, linkVars
<1>5. NoLostWait'
  BY ConstantsAssumption
  DEF BaseInv, TypeOK, NoLostWait, Live, ExtendWait, Extendable, RelayCell,
      SetState
<1>6. FreedClean'
  BY DEF BaseInv, FreedClean, Live, ExtendWait, Extendable, RelayCell, SetState
<1> QED
  BY <1>1, <1>2, <1>3, <1>4, <1>5, <1>6
  DEF BaseInv, MapAgrees, MuxAgrees, ReservationHasDestroy, FlagsLinked,
      DeletePending, Live, ExtendWait, linkVars

\* The connection cannot be made: the circuit waits for nothing, but is marked.
LEMMA ExtendLaunchFailsInv ==
  ASSUME BaseInv, NEW c \in Circ, NEW ch \in Chan, ExtendLaunchFails(c, ch)
  PROVE  BaseInv'
<1>1. TypeOK'
  BY DEF BaseInv, TypeOK, CircState, ExtendLaunchFails, SetState, MarkForClose,
         linkVars
<1>2. ListsFollowState'
  BY DEF BaseInv, TypeOK, ListsFollowState, Live, ExtendLaunchFails, Extendable,
         RelayCell, SetState, MarkForClose
<1>3. OnionRefsValid'
  BY DEF BaseInv, OnionRefsValid, ExtendLaunchFails, Extendable, RelayCell,
         SetState
<1>4. NoLostWait'
  BY DEF BaseInv, TypeOK, NoLostWait, Live, ExtendLaunchFails, Extendable,
         RelayCell, SetState, MarkForClose
<1>5. FreedClean'
  BY DEF BaseInv, FreedClean, Live, ExtendLaunchFails, Extendable, RelayCell,
         SetState, MarkForClose
<1> QED
  BY <1>1, <1>2, <1>3, <1>4, <1>5
  DEF BaseInv, MapAgrees, MuxAgrees, ReservationHasDestroy, FlagsLinked,
      DeletePending, ChannelRefsValid, Live, ExtendLaunchFails, linkVars

\* The same for a new origin circuit.
LEMMA LaunchWaitInv ==
  ASSUME BaseInv, NEW c \in Circ, NEW ch \in Chan, LaunchWait(c, ch)
  PROVE  BaseInv'
<1>1. TypeOK'
  BY DEF BaseInv, TypeOK, CircState, ChanState, LaunchWait, SetState, linkVars
<1>2. MapAgrees'
  BY DEF BaseInv, MapAgrees, Live, LaunchWait, linkVars
<1>3. ListsFollowState'
  BY DEF BaseInv, TypeOK, ListsFollowState, Live, FreedClean, LaunchWait, SetState
<1>4. OnionRefsValid'
  BY DEF BaseInv, OnionRefsValid, LaunchWait, SetState
<1>5. ChannelRefsValid'
  BY DEF BaseInv, ChannelRefsValid, LaunchWait, linkVars
<1>6. NoLostWait'
  BY ConstantsAssumption
  DEF BaseInv, TypeOK, NoLostWait, Live, MapAgrees, LaunchWait, SetState
<1>7. FreedClean'
  BY DEF BaseInv, TypeOK, FreedClean, Live, LaunchWait, SetState
<1> QED
  BY <1>1, <1>2, <1>3, <1>4, <1>5, <1>6, <1>7
  DEF BaseInv, MuxAgrees, ReservationHasDestroy, FlagsLinked, DeletePending,
      LaunchWait, linkVars

\* The same for a new origin circuit that cannot be started.
LEMMA LaunchFailsInv ==
  ASSUME BaseInv, NEW c \in Circ, NEW hop \in Chan \cup {NULL}, LaunchFails(c, hop)
  PROVE  BaseInv'
<1>1. TypeOK'
  BY DEF BaseInv, TypeOK, CircState, LaunchFails, SetState, MarkForClose,
         linkVars
<1>2. MapAgrees'
  BY DEF BaseInv, MapAgrees, Live, LaunchFails, linkVars
<1>3. ListsFollowState'
  BY DEF BaseInv, TypeOK, ListsFollowState, Live, LaunchFails, SetState, MarkForClose
<1>4. OnionRefsValid'
  BY DEF BaseInv, OnionRefsValid, LaunchFails, SetState
<1>5. NoLostWait'
  BY DEF BaseInv, TypeOK, NoLostWait, Live, MapAgrees, LaunchFails, SetState,
         MarkForClose
<1>6. FreedClean'
  BY DEF BaseInv, TypeOK, FreedClean, Live, LaunchFails, SetState, MarkForClose
<1> QED
  BY <1>1, <1>2, <1>3, <1>4, <1>5, <1>6
  DEF BaseInv, MuxAgrees, ReservationHasDestroy, FlagsLinked, DeletePending,
      ChannelRefsValid, LaunchFails, linkVars

\* Origin circuits move between BUILDING, GUARD_WAIT and OPEN.
LEMMA BuildStepInv ==
  ASSUME BaseInv, NEW c \in Circ, NEW st \in CircState, BuildStep(c, st)
  PROVE  BaseInv'
<1>1. TypeOK'
  BY DEF BaseInv, TypeOK, BuildStep, SetState, linkVars
<1>2. ListsFollowState'
  BY DEF BaseInv, TypeOK, ListsFollowState, Live, BuildStep, SetState
<1>3. OnionRefsValid'
  BY DEF BaseInv, OnionRefsValid, BuildStep, SetState
<1>4. NoLostWait'
  BY DEF BaseInv, NoLostWait, Live, BuildStep, SetState
<1>5. FreedClean'
  BY DEF BaseInv, FreedClean, Live, BuildStep, SetState
<1> QED
  BY <1>1, <1>2, <1>3, <1>4, <1>5
  DEF BaseInv, MapAgrees, MuxAgrees, ReservationHasDestroy, FlagsLinked,
      DeletePending, ChannelRefsValid, Live, BuildStep, linkVars

\* TRUNCATE ends a wait.
LEMMA TruncateWaitingInv ==
  ASSUME BaseInv, NEW c \in Circ, TruncateWaiting(c)
  PROVE  BaseInv'
<1>1. TypeOK'
  BY DEF BaseInv, TypeOK, CircState, TruncateWaiting, SetState, linkVars
<1>2. ListsFollowState'
  BY DEF BaseInv, TypeOK, ListsFollowState, Live, TruncateWaiting, SetState
<1>3. OnionRefsValid'
  BY DEF BaseInv, OnionRefsValid, NoLostWait, TruncateWaiting, SetState
<1>4. NoLostWait'
  BY DEF BaseInv, TypeOK, NoLostWait, Live, TruncateWaiting, SetState
<1>5. FreedClean'
  BY DEF BaseInv, FreedClean, Live, TruncateWaiting, RelayCell, SetState
<1> QED
  BY <1>1, <1>2, <1>3, <1>4, <1>5
  DEF BaseInv, MapAgrees, MuxAgrees, ReservationHasDestroy, FlagsLinked,
      DeletePending, ChannelRefsValid, Live, TruncateWaiting, linkVars

\* TRUNCATE gives the n side up and reserves its id in the same step.
LEMMA TruncateExtendedInv ==
  ASSUME BaseInv, NEW c \in Circ, TruncateExtended(c)
  PROVE  BaseInv'
<1>1. TypeOK'
  BY DEF BaseInv, TypeOK, TruncateExtended, DestroysQueued, Unlinked, Detached,
         listVars
<1>2. MapAgrees'
  BY ConstantsAssumption
  DEF BaseInv, TypeOK, MapAgrees, Live, TruncateExtended, Unlinked
<1>3. MuxAgrees'
  BY ConstantsAssumption
  DEF BaseInv, MuxAgrees, TruncateExtended, Unlinked, Detached
<1>4. ReservationHasDestroy' /\ FlagsLinked'
  <2>1. n[c] \in Slot
    BY DEF BaseInv, TypeOK, TruncateExtended
  <2>2. DeletePending' \subseteq DeletePending /\ FlagsLinked'
    BY ConstantsAssumption
    DEF TruncateExtended, DeletePending, BaseInv, TypeOK, FlagsLinked
  <2> QED
    BY <2>1, <2>2, DrainedSlotsHaveDestroy DEF TruncateExtended
<1>5. ChannelRefsValid'
  BY DEF BaseInv, ChannelRefsValid, MapAgrees, TruncateExtended, Unlinked
<1>6. NoLostWait'
  BY DEF BaseInv, NoLostWait, Live, TruncateExtended
<1> QED
  BY <1>1, <1>2, <1>3, <1>4, <1>5, <1>6
  DEF BaseInv, ListsFollowState, OnionRefsValid, FreedClean, Live, TruncateExtended,
      listVars

\* Marking a circuit changes nothing but the mark and the list.
LEMMA CircuitFailsInv ==
  ASSUME BaseInv, NEW c \in Circ, CircuitFails(c)
  PROVE  BaseInv'
<1>1. TypeOK'
  BY DEF BaseInv, TypeOK, CircuitFails, MarkForClose, linkVars
<1>2. ListsFollowState'
  BY DEF BaseInv, ListsFollowState, Live, CircuitFails, MarkForClose
<1>3. NoLostWait'
  BY DEF BaseInv, NoLostWait, Live, CircuitFails, MarkForClose
<1>4. FreedClean'
  BY DEF BaseInv, FreedClean, Live, CircuitFails, MarkForClose
<1> QED
  BY <1>1, <1>2, <1>3, <1>4
  DEF BaseInv, MapAgrees, MuxAgrees, ReservationHasDestroy, FlagsLinked,
      DeletePending, OnionRefsValid, ChannelRefsValid, Live, CircuitFails,
      linkVars

\* circuit_close_all_marked: what circuit_about_to_free and circuit_free undo
\* for each circuit is all that refers to it, and its ids stay reserved.
LEMMA CircuitCloseAllMarkedInv ==
  ASSUME BaseInv, CircuitCloseAllMarked
  PROVE  BaseInv'
<1>1. TypeOK'
  <2>1. kind' \in [Circ -> {"free", "or", "origin", "dead"}]
    BY DEF BaseInv, TypeOK, CircuitCloseAllMarked
  <2>2. onion' \in [Circ -> {"none", "queued", "job"}]
    BY DEF BaseInv, TypeOK, CircuitCloseAllMarked
  <2>3. total_pending_tasks' \in Int
    <3>1. PICK T \in SUBSET Circ :
            total_pending_tasks' = total_pending_tasks - Cardinality(T)
      BY DEF BaseInv, TypeOK, CircuitCloseAllMarked
    <3>2. Cardinality(T) \in Nat
      BY ConstantsAssumption, FS_Subset, FS_CardinalityType
    <3> QED
      BY <3>1, <3>2 DEF BaseInv
  <2>4. destroy_queue' \in [Slot -> Nat]
    BY DEF BaseInv, TypeOK, CircuitCloseAllMarked, DestroysQueued
  <2>5. chan_circid_map' \in [Slot -> Circ \cup {RESERVED, NULL}]
    BY DEF BaseInv, TypeOK, CircuitCloseAllMarked, Unlinked
  <2>6. cmux' \in [Slot -> Circ \cup {NULL}]
    BY DEF BaseInv, TypeOK, CircuitCloseAllMarked, Detached
  <2>7. /\ marked' \in [Circ -> BOOLEAN]
        /\ n_delete_pending' \in [Circ -> BOOLEAN]
        /\ p_delete_pending' \in [Circ -> BOOLEAN]
    BY Zenon DEF BaseInv, TypeOK, CircuitCloseAllMarked
  <2>8. /\ state' \in [Circ -> CircState]
        /\ n' \in [Circ -> Slot \cup {NULL}]
        /\ p' \in [Circ -> Slot \cup {NULL}]
        /\ n_hop' \in [Circ -> Chan \cup {NULL}]
    BY DEF BaseInv, TypeOK, CircuitCloseAllMarked, CircState
  <2> QED
    BY <2>1, <2>2, <2>3, <2>4, <2>5, <2>6, <2>7, <2>8
    DEF BaseInv, TypeOK, CircuitCloseAllMarked
<1>2. MapAgrees'
  BY ConstantsAssumption
  DEF BaseInv, TypeOK, MapAgrees, Live, CircuitCloseAllMarked, SlotsOf,
      Unlinked
<1>3. MuxAgrees'
  BY ConstantsAssumption
  DEF BaseInv, MuxAgrees, CircuitCloseAllMarked, Unlinked, Detached
<1>4. ReservationHasDestroy' /\ FlagsLinked'
  <2>1. SlotsOf(circuits_pending_close) \subseteq Slot
    BY DEF SlotsOf
  <2>2. DeletePending' \subseteq DeletePending /\ FlagsLinked'
    BY DEF CircuitCloseAllMarked, DeletePending, BaseInv, FlagsLinked
  <2> QED
    BY <2>1, <2>2, DrainedSlotsHaveDestroy DEF CircuitCloseAllMarked
<1>5. ListsFollowState'
  BY DEF BaseInv, ListsFollowState, Live, CircuitCloseAllMarked
<1>6. OnionRefsValid'
  BY DEF BaseInv, OnionRefsValid, CircuitCloseAllMarked
<1>7. ChannelRefsValid'
  BY DEF BaseInv, TypeOK, ChannelRefsValid, MapAgrees, CircuitCloseAllMarked,
         SlotsOf, Unlinked
<1>8. NoLostWait'
  BY DEF BaseInv, NoLostWait, Live, CircuitCloseAllMarked
<1>9. FreedClean'
  BY DEF BaseInv, FreedClean, Live, CircuitCloseAllMarked
<1> QED
  BY <1>1, <1>2, <1>3, <1>4, <1>5, <1>6, <1>7, <1>8, <1>9 DEF BaseInv

\* Every step preserves the part that TEARDOWNCIRCUIT keeps as well.
LEMMA NextBaseInv ==
  ASSUME BaseInv, [Next]_vars
  PROVE  BaseInv'
<1>1. CASE ChannelStep
  BY <1>1, ChannelLaunchInv, ChannelOpenInv, ChannelCloseInv, ChannelClosedInv,
     ChannelFreeInv DEF ChannelStep
<1>2. CASE SlotStep
  BY <1>2, FlushDestroyInv, FlushFailsInv, CreateRefusedInv, ProcessDestroyInv
  DEF SlotStep
<1>3. CASE CreateStep
  BY <1>3, CreateFailsInv, CreateFastInv, CreateAssignedInv, CreateQueuedInv
  DEF CreateStep
<1>4. CASE ReplyStep
  BY <1>4, ReplyDeadInv, ReplyMarkedInv, ReplyFailureInv, ReplySuccessInv
  DEF ReplyStep
<1>5. CASE ExtendStep
  BY <1>5, ExtendOpenChanInv, LaunchOpenChanInv, ExtendWaitInv,
     ExtendLaunchFailsInv, LaunchWaitInv, LaunchFailsInv, BuildStepInv,
     TruncateWaitingInv, TruncateExtendedInv, CircuitFailsInv DEF ExtendStep
<1>6. CASE CircuitCloseAllMarked
  BY <1>6, CircuitCloseAllMarkedInv
<1>7. CASE UNCHANGED vars
  BY <1>7
  DEF vars, circVars, linkVars, listVars, BaseInv, TypeOK, MapAgrees,
      MuxAgrees, ReservationHasDestroy, FlagsLinked, DeletePending, ListsFollowState,
      OnionRefsValid, ChannelRefsValid, NoLostWait, FreedClean, Live
<1> QED
  BY <1>1, <1>2, <1>3, <1>4, <1>5, <1>6, <1>7 DEF Next

\* An action that leaves the DESTROY queues, their flags and the placeholders
\* alone.
LEMMA ReservationsKept ==
  ASSUME IInv,
         UNCHANGED <<n_delete_pending, p_delete_pending, destroy_queue>>,
         \A l \in Slot : chan_circid_map'[l] = RESERVED <=>
                           chan_circid_map[l] = RESERVED
  PROVE  DestroyReservesId' /\ NoDeletePending'
  BY DEF IInv, DestroyReservesId, NoDeletePending

\* What the handlers of SlotStep do to the reservations.
LEMMA SlotStepReserves ==
  ASSUME IInv, NEW l \in Slot,
         \/ FlushDestroy(l) \/ FlushFails(l)
         \/ CreateRefused(l) \/ ProcessDestroy(l)
  PROVE  DestroyReservesId' /\ NoDeletePending'
<1>1. CASE FlushDestroy(l)
  BY <1>1, ConstantsAssumption
  DEF IInv, BaseInv, TypeOK, DestroyReservesId, NoDeletePending, FlushDestroy,
      DestroyNotPending
<1>2. CASE FlushFails(l)
  BY <1>2, ConstantsAssumption
  DEF IInv, BaseInv, TypeOK, DestroyReservesId, NoDeletePending, FlushFails,
      DestroyNotPending
<1>3. CASE CreateRefused(l)
  <2>1. destroy_queue[l] = 0
    BY <1>3, ConstantsAssumption, OnlyReservedHaveDestroy
    DEF CreateRefused, InUse
  <2> QED
    BY <1>3, <2>1
    DEF IInv, BaseInv, TypeOK, DestroyReservesId, NoDeletePending,
        CreateRefused, circVars
<1>4. CASE ProcessDestroy(l)
  <2>1. DeletePending = {}
    BY DEF IInv, NoDeletePending, DeletePending
  <2>2. DestroyReservesId'
    BY <1>4, <2>1, ConstantsAssumption
    DEF IInv, DestroyReservesId, ProcessDestroy, Unlinked
  <2>3. NoDeletePending'
    BY <1>4 DEF IInv, BaseInv, TypeOK, NoDeletePending, ProcessDestroy
  <2> QED
    BY <2>2, <2>3
<1> QED
  BY <1>1, <1>2, <1>3, <1>4

\* What the handlers of ChannelStep do to the reservations.
LEMMA ChannelStepReserves ==
  ASSUME IInv, NEW ch \in Chan,
         \/ ChannelLaunch(ch) \/ ChannelOpen(ch) \/ ChannelClose(ch)
         \/ ChannelClosed(ch) \/ ChannelFree(ch)
  PROVE  DestroyReservesId' /\ NoDeletePending'
<1>1. CASE ChannelLaunch(ch) \/ ChannelClose(ch)
  BY <1>1, ReservationsKept DEF ChannelLaunch, ChannelClose, circVars, linkVars
<1>2. CASE ChannelOpen(ch)
  <2>1. PICK closing \in {{}, {c \in Waiting(ch) : kind[c] = "origin"}} :
          \E got \in SUBSET (Waiting(ch) \ closing) :
          \E id \in [got -> OwnId] : CircuitNChanDone(ch, closing, got, id)
    BY <1>2 DEF ChannelOpen
  <2>2. PICK got \in SUBSET (Waiting(ch) \ closing) :
          \E id \in [got -> OwnId] : CircuitNChanDone(ch, closing, got, id)
    BY <2>1
  <2>3. PICK id \in [got -> OwnId] : CircuitNChanDone(ch, closing, got, id)
    BY <2>2
  <2>4. got \subseteq Circ
    BY DEF Waiting, IInv, BaseInv, TypeOK
  <2>5. \A l \in Slot : \/ chan_circid_map'[l] = chan_circid_map[l]
                        \/ /\ chan_circid_map[l] = NULL
                           /\ chan_circid_map'[l] \in Circ
    BY <2>3, <2>4 DEF CircuitNChanDone, InUse
  <2> QED
    BY <1>2, <2>5, ReservationsKept, ConstantsAssumption DEF ChannelOpen
<1>3. CASE ChannelClosed(ch)
  <2>1. DeletePending = {}
    BY DEF IInv, NoDeletePending, DeletePending
  <2>2. DestroyReservesId'
    BY <1>3, <2>1, ConstantsAssumption
    DEF IInv, BaseInv, DestroyReservesId, MapAgrees, ChannelClosed, SlotsOf,
        Unlinked
  <2>3. NoDeletePending'
    BY <1>3 DEF IInv, NoDeletePending, ChannelClosed
  <2> QED
    BY <2>2, <2>3
<1>4. CASE ChannelFree(ch)
  BY <1>4, ConstantsAssumption
  DEF IInv, DestroyReservesId, NoDeletePending, ChannelFree, circVars
<1> QED
  BY <1>1, <1>2, <1>3, <1>4

\* One DESTROY per placeholder, none for a slot still linked: every handler of
\* the core keeps it.
LEMMA OneDestroyStep ==
  ASSUME IInv, [Next]_vars
  PROVE  DestroyReservesId' /\ NoDeletePending'
<1>1. CASE ChannelStep
  BY <1>1, ChannelStepReserves DEF ChannelStep
<1>2. CASE SlotStep
  BY <1>2, SlotStepReserves DEF SlotStep
<1>3. CASE CreateStep
  <2>1. PICK c \in Circ, l \in Slot : OrCircuitNew(c, l)
    BY <1>3
    DEF CreateStep, CreateFails, CreateFast, CreateAssigned, CreateQueued
  <2> QED
    BY <2>1, ReservationsKept, ConstantsAssumption
    DEF IInv, BaseInv, TypeOK, OrCircuitNew, InUse
<1>4. CASE ReplyStep
  BY <1>4, ReservationsKept
  DEF ReplyStep, ReplyDead, ReplyMarked, ReplyFailure, ReplySuccess, linkVars
<1>5. ASSUME NEW c \in Circ, TruncateExtended(c)
      PROVE  DestroyReservesId' /\ NoDeletePending'
  <2>1. n[c] \in Slot /\ chan_circid_map[n[c]] = c
    BY <1>5 DEF IInv, BaseInv, TypeOK, MapAgrees, TruncateExtended
  <2>2. {n[c]} \subseteq Slot /\ \A l \in {n[c]} : chan_circid_map[l] \in Circ
    BY <2>1
  <2>3. DestroyReservesId'
    BY <1>5, <2>2, DrainedSlotsReserved DEF TruncateExtended
  <2>4. NoDeletePending'
    BY <1>5 DEF IInv, NoDeletePending, TruncateExtended
  <2> QED
    BY <2>3, <2>4
<1>6. ASSUME NEW c \in Circ, NEW l \in Slot,
             ExtendOpenChan(c, l) \/ LaunchOpenChan(c, l)
      PROVE  DestroyReservesId' /\ NoDeletePending'
  BY <1>6, ReservationsKept, ConstantsAssumption
  DEF IInv, BaseInv, TypeOK, ExtendOpenChan, LaunchOpenChan, LinkN, Unique,
      InUse
<1>7. CASE ExtendStep
  BY <1>5, <1>6, <1>7, ReservationsKept
  DEF ExtendStep, ExtendWait, ExtendLaunchFails, LaunchWait, LaunchFails,
      BuildStep, TruncateWaiting, CircuitFails, linkVars
<1>8. CASE CircuitCloseAllMarked
  <2>1. \A l \in SlotsOf(circuits_pending_close) : chan_circid_map[l] \in Circ
    BY DEF IInv, BaseInv, TypeOK, MapAgrees, SlotsOf
  <2>2. SlotsOf(circuits_pending_close) \subseteq Slot
    BY DEF SlotsOf
  <2>3. DestroyReservesId'
    BY <1>8, <2>1, <2>2, DrainedSlotsReserved DEF CircuitCloseAllMarked
  <2>4. NoDeletePending'
    BY <1>8 DEF IInv, NoDeletePending, CircuitCloseAllMarked
  <2> QED
    BY <2>3, <2>4
<1>9. CASE UNCHANGED vars
  BY <1>9, ReservationsKept DEF vars, circVars, linkVars
<1> QED
  BY <1>1, <1>2, <1>3, <1>4, <1>7, <1>8, <1>9 DEF Next

\* Every step preserves the invariant.
LEMMA NextInv ==
  ASSUME IInv, [Next]_vars
  PROVE  IInv'
  BY NextBaseInv, OneDestroyStep DEF IInv

-----------------------------------------------------------------------------
(* The safety theorems *)

\* IInv holds in every reachable state, whatever the numbers of circuits,
\* channels, ids and worker threads.
THEOREM Invariance == Spec => []IInv
<1>1. Init => IInv
  BY InitInv
<1>2. IInv /\ [Next]_vars => IInv'
  BY NextInv
<1> QED
  BY <1>1, <1>2, PTL DEF Spec

\* Every variable keeps its type.
THEOREM TypeCorrect == Spec => []TypeOK
<1>1. IInv => TypeOK
  BY DEF IInv, BaseInv
<1> QED
  BY <1>1, Invariance, PTL

\* The (channel, id) map, the circuits' own n and p fields and the circuitmux
\* agree after every handler.
THEOREM LinksAgree == Spec => [](MapAgrees /\ MuxAgrees)
<1>1. IInv => MapAgrees /\ MuxAgrees
  BY DEF IInv, BaseInv
<1> QED
  BY <1>1, Invariance, PTL

\* What is attached to a circuitmux is what is linked to its channel.
THEOREM MuxCorrect == Spec => []MuxAgrees
BY LinksAgree, PTL

\* A circuit id is reserved exactly while its DESTROY is queued.
THEOREM IdsReserved == Spec => []DestroyReservesId
<1>1. IInv => DestroyReservesId
  BY DEF IInv, BaseInv
<1> QED
  BY <1>1, Invariance, PTL

\* No marked or waiting circuit is missing from the list that serves it, and
\* circuit_about_to_free leaves no freed one on any.
THEOREM ListsCorrect == Spec => []ListsKnow
<1>1. IInv => ListsKnow
  BY DEF IInv, BaseInv, ListsFollowState, ListsKnow
<1> QED
  BY <1>1, Invariance, PTL

\* The onion queue and the worker threads never refer to a freed circuit.
THEOREM NoFreedOnionRef == Spec => []OnionRefsValid
<1>1. IInv => OnionRefsValid
  BY DEF IInv, BaseInv
<1> QED
  BY <1>1, Invariance, PTL

\* No circuit is linked to a channel that is gone, and nothing is left of one.
THEOREM NoFreedChannelRef == Spec => []ChannelRefsValid
<1>1. IInv => ChannelRefsValid
  BY DEF IInv, BaseInv
<1> QED
  BY <1>1, Invariance, PTL

\* No circuit waits for a channel whose fate has already been announced.
THEOREM WaitsAreAnswered == Spec => []NoLostWait
<1>1. IInv => NoLostWait
  BY DEF IInv, BaseInv
<1> QED
  BY <1>1, Invariance, PTL

-----------------------------------------------------------------------------
(* total_pending_tasks counts the jobs in flight *)

Jobs == {c \in Circ : onion[c] = "job"}

\* Sets of circuits are finite and have a natural number of elements.
LEMMA JobsFinite ==
  ASSUME NEW T \in SUBSET Circ
  PROVE  IsFiniteSet(T) /\ Cardinality(T) \in Nat
  BY ConstantsAssumption, FS_Subset, FS_CardinalityType

\* queue_pending_tasks: one job comes back, the assigned ones go out.
LEMMA QueuePendingTasksCounted ==
  ASSUME BaseInv, TasksCounted, NEW c \in Circ, onion[c] = "job",
         QueuePendingTasks(c)
  PROVE  TasksCounted'
<1>1. PICK T \in SUBSET {d \in Circ : onion[d] = "queued"} :
        LET assigned == {d \in T : p[d] # NULL}
            after    == total_pending_tasks - 1 + Cardinality(assigned)
        IN
        /\ after <= MaxPendingTasks
        /\ onion' = [d \in Circ |-> IF d \in assigned THEN "job"
                                    ELSE IF d = c \/ d \in T THEN "none"
                                    ELSE onion[d]]
        /\ total_pending_tasks' = after
  BY DEF QueuePendingTasks
<1> DEFINE A == {d \in T : p[d] # NULL}
<1>2. Jobs' = (Jobs \ {c}) \cup A /\ (Jobs \ {c}) \cap A = {}
  BY <1>1 DEF Jobs
<1>3. c \in Jobs /\ Jobs \in SUBSET Circ /\ A \in SUBSET Circ
  BY DEF Jobs
<1>4. Cardinality(Jobs \ {c}) = Cardinality(Jobs) - 1
  BY <1>3, JobsFinite, FS_RemoveElement
<1>5. Cardinality((Jobs \ {c}) \cup A) =
        Cardinality(Jobs \ {c}) + Cardinality(A)
  <2>1. IsFiniteSet(Jobs \ {c}) /\ IsFiniteSet(A)
    BY <1>3, JobsFinite
  <2>2. Cardinality((Jobs \ {c}) \cap A) = 0
    BY <1>2, FS_EmptySet
  <2>3. Cardinality(Jobs \ {c}) \in Nat /\ Cardinality(A) \in Nat
    BY <1>3, JobsFinite
  <2>4. Cardinality((Jobs \ {c}) \cup A) = Cardinality(Jobs \ {c})
          + Cardinality(A) - Cardinality((Jobs \ {c}) \cap A)
    BY <2>1, FS_Union
  <2> QED
    BY <2>2, <2>3, <2>4
<1>6. Cardinality(Jobs) \in Nat /\ Cardinality(A) \in Nat
  BY <1>3, JobsFinite
<1>7. total_pending_tasks = Cardinality(Jobs)
  BY DEF TasksCounted, Jobs
<1>8. total_pending_tasks' = Cardinality(Jobs')
  BY <1>1, <1>2, <1>4, <1>5, <1>6, <1>7
<1> QED
  BY <1>1, <1>8 DEF TasksCounted, Jobs

\* Every step keeps the count.
LEMMA TasksCountedStep ==
  ASSUME BaseInv, TasksCounted, [Next]_vars
  PROVE  TasksCounted'
<1>1. CASE UNCHANGED <<onion, total_pending_tasks>>
  BY <1>1 DEF TasksCounted
<1>2. ASSUME NEW c \in Circ, NEW l \in Slot, CreateAssigned(c, l)
      PROVE  TasksCounted'
  <2>1. Jobs' = Jobs \cup {c} /\ c \notin Jobs /\ Jobs \in SUBSET Circ
    BY <1>2 DEF CreateAssigned, OrCircuitNew, Jobs, BaseInv, TypeOK
  <2>2. Cardinality(Jobs \cup {c}) = Cardinality(Jobs) + 1
    BY <2>1, JobsFinite, FS_AddElement
  <2>3. total_pending_tasks = Cardinality(Jobs)
    BY DEF TasksCounted, Jobs
  <2>4. total_pending_tasks' = Cardinality(Jobs')
    BY <1>2, <2>1, <2>2, <2>3 DEF CreateAssigned
  <2>5. total_pending_tasks' <= MaxPendingTasks
    BY <1>2, ConstantsAssumption DEF CreateAssigned, BaseInv, TypeOK
  <2> QED
    BY <2>4, <2>5 DEF TasksCounted, Jobs
<1>3. ASSUME NEW c \in Circ, NEW l \in Slot, CreateQueued(c, l)
      PROVE  TasksCounted'
  <2>1. Jobs' = Jobs
    BY <1>3 DEF CreateQueued, OrCircuitNew, Jobs, BaseInv
  <2> QED
    BY <1>3, <2>1 DEF CreateQueued, TasksCounted, Jobs
<1>4. CASE ReplyStep
  BY <1>4, QueuePendingTasksCounted
  DEF ReplyStep, ReplyDead, ReplyMarked, ReplyFailure, ReplySuccess
<1>5. CASE CircuitCloseAllMarked
  <2>1. PICK T \in SUBSET {c \in circuits_pending_close : onion[c] = "job"} :
          /\ Jobs' = Jobs \ T
          /\ total_pending_tasks' = total_pending_tasks - Cardinality(T)
    BY <1>5 DEF CircuitCloseAllMarked, Jobs, BaseInv
  <2>2. T \subseteq Jobs /\ Jobs \in SUBSET Circ /\ Jobs \cap T = T
    BY DEF Jobs, BaseInv, TypeOK
  <2>3. Cardinality(Jobs \ T) = Cardinality(Jobs) - Cardinality(T)
    <3>1. IsFiniteSet(Jobs) /\ IsFiniteSet(T)
      BY <2>2, JobsFinite
    <3> QED
      BY <2>2, <3>1, FS_Difference
  <2>4. Cardinality(Jobs) \in Nat /\ Cardinality(T) \in Nat
    BY <2>2, JobsFinite
  <2>5. /\ total_pending_tasks = Cardinality(Jobs)
        /\ total_pending_tasks <= MaxPendingTasks
    BY DEF TasksCounted, Jobs
  <2>6. /\ total_pending_tasks' = Cardinality(Jobs')
        /\ total_pending_tasks' <= MaxPendingTasks
    BY <2>1, <2>3, <2>4, <2>5, ConstantsAssumption
  <2> QED
    BY <2>6 DEF TasksCounted, Jobs
<1>6. CASE ChannelStep
  BY <1>6, <1>1 DEF ChannelStep, ChannelLaunch, ChannelOpen, ChannelClose,
     ChannelClosed, ChannelFree, circVars
<1>7. CASE SlotStep
  BY <1>7, <1>1 DEF SlotStep, FlushDestroy, FlushFails, CreateRefused,
     ProcessDestroy, circVars
<1>8. CASE ExtendStep
  BY <1>8, <1>1 DEF ExtendStep, ExtendOpenChan, LaunchOpenChan, ExtendWait,
     ExtendLaunchFails, LaunchWait, LaunchFails, BuildStep, TruncateWaiting,
     TruncateExtended, CircuitFails
<1>9. CASE CreateStep
  BY <1>9, <1>1, <1>2, <1>3 DEF CreateStep, CreateFails, CreateFast
<1>10. CASE UNCHANGED vars
  BY <1>10, <1>1 DEF vars, circVars
<1> QED
  BY <1>4, <1>5, <1>6, <1>7, <1>8, <1>9, <1>10 DEF Next

\* No task is handed out at the start.
LEMMA TasksCountedInit ==
  ASSUME Init
  PROVE  TasksCounted
<1>1. {c \in Circ : onion[c] = "job"} = {}
  BY DEF Init
<1>2. Cardinality({}) = 0
  BY FS_EmptySet
<1>3. 0 <= MaxPendingTasks
  BY ConstantsAssumption
<1> QED
  BY <1>1, <1>2, <1>3 DEF Init, TasksCounted

\* total_pending_tasks is the number of jobs in flight and never exceeds
\* max_pending_tasks: the assertions around it cannot fail.
THEOREM TasksCorrect == Spec => []TasksCounted
<1>1. Init => TasksCounted
  BY TasksCountedInit
<1>2. IInv /\ TasksCounted /\ [Next]_vars => TasksCounted'
  BY TasksCountedStep DEF IInv
<1> QED
  BY <1>1, <1>2, Invariance, PTL DEF Spec

-----------------------------------------------------------------------------
(* Refinement *)

\* The one fact about steps that the abstract specification needs: a slot only
\* goes to a circuit that had it, or when it was free.
OnlyFreeTaken ==
  \A l \in Slot : chan_circid_map'[l] \in Circ =>
                    chan_circid_map[l] \in {NULL, chan_circid_map'[l]}

\* Every step takes free slots only: each handler that assigns an id checks
\* circuit_id_in_use_on_channel, placeholders included.
LEMMA StepTakesFree ==
  ASSUME BaseInv, [Next]_vars
  PROVE  OnlyFreeTaken
<1>1. CASE UNCHANGED chan_circid_map
  BY <1>1 DEF OnlyFreeTaken
<1>2. CASE ChannelStep
  <2>1. ASSUME NEW ch \in Chan, ChannelOpen(ch) PROVE OnlyFreeTaken
    BY <2>1 DEF ChannelOpen, CircuitNChanDone, InUse, OnlyFreeTaken
  <2>2. ASSUME NEW ch \in Chan, ChannelClosed(ch) PROVE OnlyFreeTaken
    BY <2>2, ConstantsAssumption DEF ChannelClosed, Unlinked, OnlyFreeTaken
  <2>3. ASSUME NEW ch \in Chan, ChannelFree(ch) PROVE OnlyFreeTaken
    BY <2>3, ConstantsAssumption DEF ChannelFree, OnlyFreeTaken
  <2> QED
    BY <1>1, <1>2, <2>1, <2>2, <2>3
    DEF ChannelStep, ChannelLaunch, ChannelClose, linkVars
<1>3. CASE SlotStep
  <2>1. ASSUME NEW l \in Slot, FlushDestroy(l) PROVE OnlyFreeTaken
    BY <2>1, ConstantsAssumption
    DEF FlushDestroy, DestroyNotPending, OnlyFreeTaken
  <2>2. ASSUME NEW l \in Slot, CreateRefused(l) PROVE OnlyFreeTaken
    BY <2>2, ConstantsAssumption
    DEF CreateRefused, OnlyFreeTaken, BaseInv, BaseInv
  <2>3. ASSUME NEW l \in Slot, ProcessDestroy(l) PROVE OnlyFreeTaken
    BY <2>3, ConstantsAssumption DEF ProcessDestroy, Unlinked, OnlyFreeTaken
  <2>4. ASSUME NEW l \in Slot, FlushFails(l) PROVE OnlyFreeTaken
    BY <2>4, ConstantsAssumption
    DEF FlushFails, DestroyNotPending, OnlyFreeTaken
  <2> QED
    BY <1>3, <2>1, <2>2, <2>3, <2>4 DEF SlotStep
<1>4. CASE CreateStep
  BY <1>4
  DEF CreateStep, CreateFails, CreateFast, CreateAssigned, CreateQueued,
      OrCircuitNew, InUse, OnlyFreeTaken, BaseInv, TypeOK
<1>5. CASE ReplyStep
  BY <1>1, <1>5
  DEF ReplyStep, ReplyDead, ReplyMarked, ReplyFailure, ReplySuccess, linkVars
<1>6. CASE ExtendStep
  <2>1. ASSUME NEW c \in Circ, NEW l \in Slot, Unique(l), LinkN(c, l)
        PROVE  OnlyFreeTaken
    BY <2>1 DEF Unique, LinkN, InUse, OnlyFreeTaken, BaseInv
  <2>2. ASSUME NEW c \in Circ, TruncateExtended(c) PROVE OnlyFreeTaken
    BY <2>2, ConstantsAssumption DEF TruncateExtended, Unlinked, OnlyFreeTaken
  <2> QED
    BY <1>1, <1>6, <2>1, <2>2 DEF ExtendStep, ExtendOpenChan, LaunchOpenChan,
       ExtendWait, ExtendLaunchFails, LaunchWait, LaunchFails, BuildStep,
       TruncateWaiting, CircuitFails, linkVars
<1>7. CASE CircuitCloseAllMarked
  BY <1>7, ConstantsAssumption
  DEF CircuitCloseAllMarked, Unlinked, OnlyFreeTaken
<1>8. CASE UNCHANGED vars
  BY <1>1, <1>8 DEF vars, linkVars
<1> QED
  BY <1>2, <1>3, <1>4, <1>5, <1>6, <1>7, <1>8 DEF Next

\* The detailed specification implements CircIds: no circuit ever gets an id
\* whose DESTROY is still unsent, and no id changes hands without being free.
THEOREM Refinement == Spec => CircIdsUsedSafely
<1>1. Init => Ids!Init
  BY DEF Init, Ids!Init
<1>2. IInv /\ IInv' /\ [Next]_vars
        => [Ids!Next]_<<chan_circid_map, {l \in Slot : destroy_queue[l] > 0}>>
  <2> SUFFICES ASSUME IInv, IInv', [Next]_vars
               PROVE  Ids!Next
    OBVIOUS
  <2>1. \A l \in Slot : /\ destroy_queue[l] > 0 <=> chan_circid_map[l] = RESERVED
                        /\ destroy_queue'[l] > 0 <=> chan_circid_map'[l] = RESERVED
    <3>1. \A l \in Slot : destroy_queue[l] \in Nat /\ destroy_queue'[l] \in Nat
      BY DEF IInv, BaseInv, TypeOK
    <3> QED
      BY <3>1 DEF IInv, BaseInv, DestroyReservesId
  <2>2. DOMAIN chan_circid_map' = Slot
    BY DEF IInv, BaseInv, TypeOK
  <2>3. ASSUME NEW l \in Slot
        PROVE  \/ Ids!Acquire(l) \/ Ids!Drain(l) \/ Ids!Drop(l)
               \/ Ids!Release(l) \/ Ids!Keep(l)
    <3>1. /\ chan_circid_map[l] \in Circ \cup {RESERVED, NULL}
          /\ chan_circid_map'[l] \in Circ \cup {RESERVED, NULL}
      BY DEF IInv, BaseInv, TypeOK
    <3>2. chan_circid_map'[l] \in Circ =>
            chan_circid_map[l] \in {NULL, chan_circid_map'[l]}
      BY StepTakesFree DEF OnlyFreeTaken, IInv
    <3> QED
      BY <2>1, <3>1, <3>2, ConstantsAssumption
      DEF Ids!Acquire, Ids!Drain, Ids!Drop, Ids!Release, Ids!Keep
  <2> QED
    BY <2>2, <2>3 DEF Ids!Next
<1> QED
  BY <1>1, <1>2, Invariance, PTL DEF Spec, CircIdsUsedSafely, Ids!Spec

=============================================================================
