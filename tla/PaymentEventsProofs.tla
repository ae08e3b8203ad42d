------------------------- MODULE PaymentEventsProofs -------------------------
(***************************************************************************)
(* Payment events, however worker threads and the main thread interleave:  *)
(* none is left without a flush to come and none is written twice.         *)
(***************************************************************************)
EXTENDS PaymentEvents, TLAPS

\* While the pending flag keeps queue_control_event_string from activating the
\* flush event, that event is active.
PendingIsActive == flush_queued_event_pending => flush_active

\* Only raised events are anywhere, and a thread that is not flushing has none.
EventsRaised ==
  /\ queued_control_events \cup buffered \subseteq raised
  /\ \A a \in Anyone : /\ batch[a] \subseteq raised
                       /\ pc[a] # "flush" => batch[a] = {}

\* The main thread is never between queueing an event and flushing it.
MainPc == pc[Main] \in {"idle", "flush"}

EInv == /\ TypeOK /\ PendingIsActive /\ EventsRaised /\ MainPc
        /\ NoLostEvent /\ ReportedOnce

\* The initial states satisfy the inductive invariant.
LEMMA InitEInv == Init => EInv
BY DEF Init, EInv, TypeOK, PendingIsActive, EventsRaised, MainPc,
     NoLostEvent, ReportedOnce, Anyone

\* queued_events_flush_all's locked half keeps the invariant when the thread had
\* nothing in hand; what it empties cannot be lost.
LEMMA TakeEventsEInv ==
  ASSUME EInv, NEW a \in Anyone, pc[a] # "flush", TakeEvents(a),
         flush_active' \in BOOLEAN
  PROVE  EInv'
<1> USE DEF TakeEvents
<1>1. TypeOK'
  BY DEF EInv, TypeOK
<1>2. PendingIsActive' /\ NoLostEvent'
  BY DEF PendingIsActive, NoLostEvent
<1>3. EventsRaised'
  BY DEF EInv, TypeOK, EventsRaised
<1>4. MainPc'
  BY DEF EInv, TypeOK, MainPc
<1>5. ReportedOnce'
  BY DEF EInv, TypeOK, ReportedOnce, EventsRaised
<1> QED BY <1>1, <1>2, <1>3, <1>4, <1>5 DEF EInv

\* Every step keeps the invariant.
LEMMA NextEInv == EInv /\ [Next]_vars => EInv'
<1> SUFFICES ASSUME EInv, [Next]_vars PROVE EInv' OBVIOUS
<1>1. CASE SetEvents
  BY <1>1 DEF SetEvents, EInv, TypeOK, PendingIsActive, EventsRaised, MainPc,
       NoLostEvent, ReportedOnce
<1>2. CASE MainFlush
  <2>1. flush_active' \in BOOLEAN /\ Main \in Anyone
    BY <1>2 DEF MainFlush, Anyone
  <2> QED BY <1>2, <2>1, TakeEventsEInv DEF MainFlush
<1>3. ASSUME NEW e \in Event, MainEvent(e) PROVE EInv'
  <2> USE <1>3 DEF MainEvent, QueueEvent
  <2>1. TypeOK'
    BY DEF EInv, TypeOK
  <2>2. PendingIsActive' /\ NoLostEvent'
    BY DEF EInv, TypeOK, PendingIsActive, NoLostEvent
  <2>3. EventsRaised' /\ MainPc'
    BY DEF EInv, TypeOK, EventsRaised, MainPc
  <2>4. ReportedOnce'
    BY DEF EInv, TypeOK, EventsRaised, ReportedOnce
  <2> QED BY <2>1, <2>2, <2>3, <2>4 DEF EInv
<1>4. ASSUME NEW t \in Worker, NEW e \in Event, PaymentEvent(t, e) PROVE EInv'
  <2> USE <1>4 DEF PaymentEvent, QueueEvent
  <2>0. t \in Anyone /\ t # Main
    BY DEF Anyone, Worker
  <2>1. TypeOK'
    BY <2>0 DEF EInv, TypeOK
  <2>2. PendingIsActive' /\ NoLostEvent'
    BY <2>0 DEF EInv, TypeOK, PendingIsActive, NoLostEvent
  <2>3. EventsRaised' /\ MainPc'
    BY <2>0 DEF EInv, TypeOK, EventsRaised, MainPc
  <2>4. ReportedOnce'
    BY DEF EInv, TypeOK, EventsRaised, ReportedOnce
  <2> QED BY <2>1, <2>2, <2>3, <2>4 DEF EInv
<1>5. ASSUME NEW t \in Worker, WorkerFlush(t) PROVE EInv'
  <2>1. flush_active' \in BOOLEAN /\ t \in Anyone
    BY <1>5 DEF WorkerFlush, Anyone, Worker, EInv, TypeOK
  <2> QED BY <1>5, <2>1, TakeEventsEInv DEF WorkerFlush
<1>6. ASSUME NEW a \in Anyone, Flushed(a) PROVE EInv'
  <2> USE <1>6 DEF Flushed
  <2>1. TypeOK'
    BY DEF EInv, TypeOK
  <2>2. PendingIsActive'
    BY DEF EInv, PendingIsActive
  <2>3. NoLostEvent'
    BY DEF EInv, TypeOK, NoLostEvent, Anyone
  <2>4. EventsRaised' /\ MainPc'
    BY DEF EInv, TypeOK, EventsRaised, MainPc
  <2>5. ReportedOnce'
    BY DEF EInv, TypeOK, EventsRaised, ReportedOnce
  <2> QED BY <2>1, <2>2, <2>3, <2>4, <2>5 DEF EInv
<1>7. CASE UNCHANGED vars
  BY <1>7 DEF vars, EInv, TypeOK, PendingIsActive, EventsRaised, MainPc,
       NoLostEvent, ReportedOnce
<1> QED BY <1>1, <1>2, <1>3, <1>4, <1>5, <1>6, <1>7 DEF Next

\* The conjunction is an invariant of the specification.
THEOREM EventsInvariant == Spec => []EInv
BY InitEInv, NextEInv, PTL DEF Spec

\* A queued payment event is always followed by a flush
\* (control_event_payment_id_hash_received).
THEOREM EventsFlushed == Spec => []NoLostEvent
BY EventsInvariant, PTL DEF EInv

\* No event is written to the controllers twice (queued_events_flush_all).
THEOREM EventsOnce == Spec => []ReportedOnce
BY EventsInvariant, PTL DEF EInv
=============================================================================
