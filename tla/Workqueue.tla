------------------------------ MODULE Workqueue ------------------------------
(***************************************************************************)
(* The thread pool of lib/evloop/workqueue.c: a queue of work,             *)
(* worker threads that sleep on a condition variable, updates broadcast to *)
(* every thread, and the reply queue that wakes the main thread through an *)
(* alert socket.                                                           *)
(*                                                                         *)
(* A step is what a thread does between acquiring and releasing a lock, or *)
(* between two such regions.  A job is identified with its                 *)
(* workqueue_entry_t: it is `pending' while it is in one of the queues.    *)
(* Work functions return WQ_RPL_REPLY, as all of this program's do.        *)
(***************************************************************************)
EXTENDS Integers, Sequences, FiniteSets, SequencesExt

CONSTANTS
  Thread,      \* worker threads of the pool
  Job,         \* work items; all of the same priority
  MaxUpdates,  \* bound on the calls of threadpool_queue_update
  NULL

Epoch == 0 .. MaxUpdates

ASSUME WorkqueueAssumption ==
  /\ IsFiniteSet(Thread) /\ Thread # {}
  /\ IsFiniteSet(Job)
  /\ MaxUpdates \in Nat
  /\ NULL \notin Job \cup Epoch

VARIABLES
  work,         \* pool->work[WQ_PRI_HIGH]
  generation,   \* pool->generation
  update_args,  \* pool->update_args[thr->index], NULL once taken
  tpc,          \* where each thread is in worker_thread_main
  tjob,         \* the job a thread has taken, or NULL
  targ,         \* the update argument a thread has taken, or NULL
  tgen,         \* thr->generation
  tstate,       \* thr->state: the update last applied to it
  answers,      \* replyqueue->answers
  alert         \* the alert socket is readable

poolVars == <<work, generation, update_args>>
thrVars  == <<tpc, tjob, targ, tgen, tstate>>
replyVars == <<answers, alert>>
wqVars   == <<poolVars, thrVars, replyVars>>

\* ready: at the loop test, waiting for or holding the pool's lock; waiting: in
\* tor_cond_wait; update, run: in update_fn or the work function; alert: about to
\* write to the alert socket.
ThreadPc == {"ready", "waiting", "update", "run", "alert"}

PoolTypeOK ==
  /\ work \in Seq(Job)
  /\ generation \in Epoch
  /\ update_args \in [Thread -> Epoch \cup {NULL}]
  /\ tpc \in [Thread -> ThreadPc]
  /\ tjob \in [Thread -> Job \cup {NULL}]
  /\ targ \in [Thread -> Epoch \cup {NULL}]
  /\ tgen \in [Thread -> Epoch]
  /\ tstate \in [Thread -> Epoch]
  /\ answers \in Seq(Job)
  /\ alert \in BOOLEAN

\* threadpool_new and replyqueue_new
PoolInit ==
  /\ work = <<>>
  /\ generation = 0
  /\ update_args = [t \in Thread |-> NULL]
  /\ tpc = [t \in Thread |-> "ready"]
  /\ tjob = [t \in Thread |-> NULL]
  /\ targ = [t \in Thread |-> NULL]
  /\ tgen = [t \in Thread |-> 0]
  /\ tstate = [t \in Thread |-> 0]
  /\ answers = <<>>
  /\ alert = FALSE

Pending(j) == j \in ToSet(work)
InHand(j)  == \E t \in Thread : tjob[t] = j
Answered(j) == j \in ToSet(answers)

\* The pool or the reply queue still holds j.
Busy(j) == Pending(j) \/ InHand(j) \/ Answered(j)

Sleeping == {t \in Thread : tpc[t] = "waiting"}

-----------------------------------------------------------------------------
(* Called from the main thread.                                            *)

\* Mutant of SignalOne: the signal goes out only when the queue was empty.
SignalIfFirst ==
  IF work # <<>> \/ Sleeping = {} THEN tpc' = tpc
  ELSE \E t \in Sleeping : tpc' = [tpc EXCEPT ![t] = "ready"]

\* tor_cond_signal_one: lost when nobody waits.
SignalOne ==
  \/ Sleeping = {} /\ tpc' = tpc
  \/ \E t \in Sleeping : tpc' = [tpc EXCEPT ![t] = "ready"]

\* threadpool_queue_work_priority
QueueWork(j) ==
  /\ work' = Append(work, j)
  /\ SignalOne
  /\ UNCHANGED <<generation, update_args, tjob, targ, tgen, tstate, replyVars>>

\* workqueue_entry_cancel: j is taken back, or a thread already has it and
\* nothing happens.
Cancel(j) ==
  /\ work' = RemoveFirst(work, j)
  /\ UNCHANGED <<generation, update_args, thrVars, replyVars>>

\* tor_cond_signal_all
Wake == [t \in Thread |-> IF tpc[t] = "waiting" THEN "ready" ELSE tpc[t]]

\* threadpool_queue_update: arguments that were not taken are replaced.
QueueUpdate ==
  /\ generation < MaxUpdates
  /\ generation' = generation + 1
  /\ update_args' = [t \in Thread |-> generation + 1]
  /\ tpc' = Wake
  /\ UNCHANGED <<work, tjob, targ, tgen, tstate, replyVars>>

-----------------------------------------------------------------------------
(* worker_thread_main                                                      *)

UpToDate(t) == tgen[t] = generation

TakeUpdate(t) ==
  /\ tpc[t] = "ready" /\ ~UpToDate(t)
  /\ targ' = [targ EXCEPT ![t] = update_args[t]]
  /\ update_args' = [update_args EXCEPT ![t] = NULL]
  /\ tgen' = [tgen EXCEPT ![t] = generation]
  /\ tpc' = [tpc EXCEPT ![t] = "update"]
  /\ UNCHANGED <<work, generation, tjob, tstate, replyVars>>

\* update_state_threadfn, the only update function: the argument's keys become
\* the thread's.
RunUpdate(t) ==
  /\ tpc[t] = "update"
  /\ tstate' = [tstate EXCEPT ![t] = targ[t]]
  /\ targ' = [targ EXCEPT ![t] = NULL]
  /\ tpc' = [tpc EXCEPT ![t] = "ready"]
  /\ UNCHANGED <<poolVars, tjob, tgen, replyVars>>

\* Mutant of TakeWork: work goes before updates.
TakeWorkFirst(t) ==
  /\ tpc[t] = "ready"
  /\ work # <<>>
  /\ tjob' = [tjob EXCEPT ![t] = Head(work)]
  /\ work' = Tail(work)
  /\ tpc' = [tpc EXCEPT ![t] = "run"]
  /\ UNCHANGED <<generation, update_args, targ, tgen, tstate, replyVars>>

\* worker_thread_extract_next_work
TakeWork(t) ==
  /\ tpc[t] = "ready" /\ UpToDate(t)
  /\ work # <<>>
  /\ tjob' = [tjob EXCEPT ![t] = Head(work)]
  /\ work' = Tail(work)
  /\ tpc' = [tpc EXCEPT ![t] = "run"]
  /\ UNCHANGED <<generation, update_args, targ, tgen, tstate, replyVars>>

\* Nothing to do: the lock is released and the thread asleep in one step.
Sleep(t) ==
  /\ tpc[t] = "ready" /\ UpToDate(t)
  /\ work = <<>>
  /\ tpc' = [tpc EXCEPT ![t] = "waiting"]
  /\ UNCHANGED <<poolVars, tjob, targ, tgen, tstate, replyVars>>

\* A condition variable may wake without a signal.
SpuriousWake(t) ==
  /\ tpc[t] = "waiting"
  /\ tpc' = [tpc EXCEPT ![t] = "ready"]
  /\ UNCHANGED <<poolVars, tjob, targ, tgen, tstate, replyVars>>

\* Mutant of WasEmpty: looked at after the answer was added.
WasEmptyAfter == FALSE

\* queue_reply's test, made under the lock before the answer is added.
WasEmpty == answers = <<>>

\* The work function ends (cpuworker_onion_handshake_threadfn touches nothing but
\* its job) and queue_reply adds the answer ...
QueueReply(t) ==
  /\ tpc[t] = "run"
  /\ answers' = Append(answers, tjob[t])
  /\ tjob' = [tjob EXCEPT ![t] = NULL]
  /\ tpc' = [tpc EXCEPT ![t] = IF WasEmpty THEN "alert" ELSE "ready"]
  /\ UNCHANGED <<poolVars, targ, tgen, tstate, alert>>

\* ... and, with the lock released, alerts the main thread if the queue was empty.
SendAlert(t) ==
  /\ tpc[t] = "alert"
  /\ alert' = TRUE
  /\ tpc' = [tpc EXCEPT ![t] = "ready"]
  /\ UNCHANGED <<poolVars, tjob, targ, tgen, tstate, answers>>

WorkerStep(t) ==
  \/ TakeUpdate(t) \/ RunUpdate(t) \/ TakeWork(t) \/ Sleep(t)
  \/ QueueReply(t) \/ SendAlert(t)
=============================================================================
