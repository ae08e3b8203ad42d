---------------------------- MODULE PaymentEvents ----------------------------
(***************************************************************************)
(* How a relay tells its controller of a payment.  The worker thread that  *)
(* decrypts an ntor v3 onionskin with a payhash                            *)
(* (onion_skin_ntor3_server_handshake_part1) raises the control event      *)
(* itself; control_event_payment_id_hash_received queues it and then calls *)
(* queued_events_flush_all, which moves all queued events to the buffers   *)
(* of the control connections.  The main thread does the same from its     *)
(* flush_queued_events_event.  A step is what a thread does under          *)
(* queued_control_events_lock, or between two such regions.                *)
(***************************************************************************)
EXTENDS Integers, FiniteSets

CONSTANTS
  Thread,   \* the threads of the relay
  Main,     \* the main thread; the others are workers
  Event,    \* events that may be raised
  Payment   \* those of paid handshakes; the others are raised on the main thread

Worker == Thread \ {Main}
Anyone == Worker \cup {Main}

VARIABLES
  interesting,            \* a controller has asked for the events
  queued_control_events,
  flush_queued_event_pending,
  flush_active,           \* flush_queued_events_event will run
  pc,                     \* where a thread is
  batch,                  \* the events a thread has taken to write
  buffered,               \* events written to the control connections
  raised                  \* events raised so far, heard or not

vars == <<interesting, queued_control_events, flush_queued_event_pending,
          flush_active, pc, batch, buffered, raised>>

\* idle: not in this code; event: between queue_control_event_string and
\* queued_events_flush_all; flush: writing to the connections' buffers.
TypeOK ==
  /\ interesting \in BOOLEAN
  /\ queued_control_events \in SUBSET Event
  /\ flush_queued_event_pending \in BOOLEAN
  /\ flush_active \in BOOLEAN
  /\ pc \in [Anyone -> {"idle", "event", "flush"}]
  /\ batch \in [Anyone -> SUBSET Event]
  /\ buffered \in SUBSET Event
  /\ raised \in SUBSET Event

Init ==
  /\ interesting \in BOOLEAN
  /\ queued_control_events = {}
  /\ flush_queued_event_pending = FALSE
  /\ flush_active = FALSE
  /\ pc = [a \in Anyone |-> "idle"]
  /\ batch = [a \in Anyone |-> {}]
  /\ buffered = {}
  /\ raised = {}

\* SETEVENTS, or the last controller goes away.
SetEvents ==
  /\ pc[Main] = "idle"
  /\ interesting' = ~interesting
  /\ UNCHANGED <<queued_control_events, flush_queued_event_pending, flush_active,
                 pc, batch, buffered, raised>>

\* queue_control_event_string: an event nobody wants is dropped.
QueueEvent(e) ==
  /\ e \notin raised
  /\ raised' = raised \cup {e}
  /\ queued_control_events' =
       IF interesting THEN queued_control_events \cup {e} ELSE queued_control_events

\* On the main thread the flush event is activated, once.
MainEvent(e) ==
  /\ pc[Main] = "idle" /\ e \in Event \ Payment
  /\ QueueEvent(e)
  /\ flush_queued_event_pending' = (flush_queued_event_pending \/ interesting)
  /\ flush_active' =
       (flush_active \/ (interesting /\ ~flush_queued_event_pending))
  /\ UNCHANGED <<interesting, pc, batch, buffered>>

\* On a worker it is not; control_event_payment_id_hash_received goes on to
\* flush by itself.
PaymentEvent(t, e) ==
  /\ pc[t] = "idle" /\ e \in Event \cap Payment
  /\ QueueEvent(e)
  /\ pc' = [pc EXCEPT ![t] = "event"]
  /\ UNCHANGED <<interesting, flush_queued_event_pending, flush_active, batch, buffered>>

\* queued_events_flush_all takes every event in the queue ...
TakeEvents(a) ==
  /\ batch' = [batch EXCEPT ![a] = queued_control_events]
  /\ queued_control_events' = {}
  /\ flush_queued_event_pending' = FALSE
  /\ pc' = [pc EXCEPT ![a] = "flush"]
  /\ UNCHANGED <<interesting, buffered, raised>>

MainFlush ==
  /\ pc[Main] = "idle" /\ flush_active
  /\ flush_active' = FALSE
  /\ TakeEvents(Main)

WorkerFlush(t) ==
  /\ pc[t] = "event"
  /\ TakeEvents(t)
  /\ UNCHANGED flush_active

\* ... and adds them to the buffers, without the lock.
Flushed(a) ==
  /\ pc[a] = "flush"
  /\ buffered' = buffered \cup batch[a]
  /\ batch' = [batch EXCEPT ![a] = {}]
  /\ pc' = [pc EXCEPT ![a] = "idle"]
  /\ UNCHANGED <<interesting, queued_control_events, flush_queued_event_pending,
                 flush_active, raised>>

Next ==
  \/ SetEvents \/ MainFlush
  \/ \E e \in Event : MainEvent(e)
  \/ \E t \in Worker : WorkerFlush(t) \/ \E e \in Event : PaymentEvent(t, e)
  \/ \E a \in Anyone : Flushed(a)

Spec == Init /\ [][Next]_vars

\* A queued event is followed by a flush, whichever thread raised it and whoever
\* flushes in between: the main loop's event is active, or a worker is on its way
\* (queue_control_event_string leaves flush_queued_event_pending alone off the
\* main thread).
NoLostEvent ==
  queued_control_events # {} =>
    flush_active \/ \E t \in Worker : pc[t] = "event"

\* An event is reported at most once: it is in the queue, in the batch of one
\* thread, or in the buffers, although any thread's flush takes what others
\* have queued.
ReportedOnce ==
  /\ \A a, b \in Anyone : a # b => batch[a] \cap batch[b] = {}
  /\ \A a \in Anyone : batch[a] \cap (queued_control_events \cup buffered) = {}
  /\ queued_control_events \cap buffered = {}

\* control_event_logmsg says: "Don't even think of trying to add stuff to a buffer
\* from a cpuworker thread."  Of what that is to prevent: no worker writes to the
\* control connections while another thread does.
BuffersOwned ==
  \A t \in Worker, a \in Anyone : pc[t] = "flush" /\ pc[a] = "flush" => a = t
=============================================================================
