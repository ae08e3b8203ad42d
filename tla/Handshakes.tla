------------------------------ MODULE Handshakes ------------------------------
(***************************************************************************)
(* How a relay answers CREATE cells: the onion queue (onion_queue.c), the  *)
(* limit on handshakes handed to the thread pool and the reply that opens  *)
(* a circuit (cpuworker.c), and key rotation.  The thread pool is module   *)
(* Workqueue; a handshake job is identified with its circuit.              *)
(*                                                                         *)
(* The main thread runs one handler at a time, but inside                  *)
(* replyqueue_process and queue_pending_tasks it gives up its locks, and   *)
(* worker threads step in between.                                         *)
(***************************************************************************)
EXTENDS Workqueue

CONSTANTS
  Ntor,          \* circuits whose onionskin goes to the ntor queue
  NtorsPerTap,   \* NumNTorsPerTAP
  AlwaysRoom,    \* entries a queue always has room for (50 in the code)
  TaskLimits,    \* the values max_pending_tasks takes, one after the other
  MaxChanges     \* bound on key rotations and changes of max_pending_tasks

Circ == Job
Queue == {"tap", "ntor"}

ASSUME HandshakesAssumption ==
  /\ Ntor \in SUBSET Circ
  /\ NtorsPerTap \in Nat \ {0} /\ AlwaysRoom \in Nat \ {0}
  /\ TaskLimits \in Seq(Nat \ {0}) /\ TaskLimits # <<>>
  /\ MaxChanges \in Nat

VARIABLES
  circ,                   \* "dead" is DEAD_CIRCUIT_MAGIC; "free" also stands for
                          \* a circuit that is open and done with this module
  p_chan,                 \* circ->p_chan is set
  workqueue_entry,        \* circ->workqueue_entry is set
  ol_list, ol_entries,    \* the onion queues, and their lengths as counted
  recently_chosen_ntors,
  ntors_ahead,            \* ntor requests taken since the first tap has waited
  total_pending_tasks,
  consensus,              \* index into TaskLimits
  mpc                     \* where the main thread is

circVars  == <<circ, p_chan, workqueue_entry>>
onionVars == <<ol_list, ol_entries, recently_chosen_ntors, ntors_ahead>>
taskVars  == <<total_pending_tasks, consensus>>
vars      == <<wqVars, circVars, onionVars, taskVars, mpc>>

\* The type invariant; ol_entries and total_pending_tasks could go below zero.
TypeOK ==
  /\ PoolTypeOK
  /\ circ \in [Circ -> {"free", "pending", "marked", "dead"}]
  /\ p_chan \in [Circ -> BOOLEAN]
  /\ workqueue_entry \in [Circ -> BOOLEAN]
  /\ ol_list \in [Queue -> Seq(Circ)]
  /\ ol_entries \in [Queue -> Nat]
  /\ recently_chosen_ntors \in 0 .. NtorsPerTap + 1
  /\ ntors_ahead \in Nat
  /\ total_pending_tasks \in Nat
  /\ consensus \in DOMAIN TaskLimits
  /\ mpc \in {"idle", "replying", "pumping"}

Init ==
  /\ PoolInit
  /\ circ = [c \in Circ |-> "free"]
  /\ p_chan = [c \in Circ |-> FALSE]
  /\ workqueue_entry = [c \in Circ |-> FALSE]
  /\ ol_list = [q \in Queue |-> <<>>]
  /\ ol_entries = [q \in Queue |-> 0]
  /\ recently_chosen_ntors = 0
  /\ ntors_ahead = 0
  /\ total_pending_tasks = 0
  /\ consensus = 1
  /\ mpc = "idle"

\* onionskin_type_to_queue
QueueOf(c) == IF c \in Ntor THEN "ntor" ELSE "tap"

Queued(c) == \E q \in Queue : c \in ToSet(ol_list[q])

max_pending_tasks == TaskLimits[consensus]

-----------------------------------------------------------------------------
(* A CREATE cell: command_process_create_cell calls                        *)
(* assign_onionskin_to_cpuworker.                                          *)

NewCircuit(c) ==
  /\ mpc = "idle"
  /\ circ[c] = "free"
  /\ p_chan' = [p_chan EXCEPT ![c] = TRUE]

\* The pool takes the job: the common end of assign_onionskin_to_cpuworker.
Assign(c) ==
  /\ total_pending_tasks' = total_pending_tasks + 1
  /\ QueueWork(c)
  /\ workqueue_entry' = [workqueue_entry EXCEPT ![c] = TRUE]

CreateAssigned(c) ==
  /\ NewCircuit(c)
  /\ circ' = [circ EXCEPT ![c] = "pending"]
  /\ total_pending_tasks < max_pending_tasks
  /\ Assign(c)
  /\ UNCHANGED <<onionVars, consensus, mpc>>

\* Mutant of EntriesLeft: the entries culled are not counted out.
EntriesLeftMiscounted(q, culled) == ol_entries[q] + 1

\* ol_entries: one more for the request, one less for each entry culled.
EntriesLeft(q, culled) == ol_entries[q] + 1 - Cardinality(culled)

\* onion_pending_add: the request joins its queue; requests that have waited
\* longer than the cutoff, some first part of the queue, are culled and their
\* circuits marked.
CreateQueued(c) ==
  /\ NewCircuit(c)
  /\ total_pending_tasks >= max_pending_tasks
  /\ \E k \in 0 .. Len(ol_list[QueueOf(c)]) :
       LET q      == QueueOf(c)
           culled == {ol_list[q][i] : i \in 1 .. k}
       IN /\ ol_list' = [ol_list EXCEPT ![q] = Append(SubSeq(@, k + 1, Len(@)), c)]
          /\ ol_entries' = [ol_entries EXCEPT ![q] = EntriesLeft(q, culled)]
          /\ circ' = [d \in Circ |-> IF d = c THEN "pending"
                                     ELSE IF d \in culled THEN "marked" ELSE circ[d]]
  /\ UNCHANGED <<wqVars, workqueue_entry, recently_chosen_ntors, ntors_ahead,
                 taskVars, mpc>>

\* have_room_for_onionskin may say no to a queue that is long enough; the
\* circuit is marked at once.
CreateNoRoom(c) ==
  /\ NewCircuit(c)
  /\ circ' = [circ EXCEPT ![c] = "marked"]
  /\ total_pending_tasks >= max_pending_tasks
  /\ ol_entries[QueueOf(c)] >= AlwaysRoom
  /\ UNCHANGED <<wqVars, workqueue_entry, onionVars, taskVars, mpc>>

-----------------------------------------------------------------------------
(* What else the main thread does between events.                          *)

\* circuit_mark_for_close, for whatever reason.
MarkForClose(c) ==
  /\ mpc = "idle"
  /\ circ[c] = "pending"
  /\ circ' = [circ EXCEPT ![c] = "marked"]
  /\ UNCHANGED <<wqVars, p_chan, workqueue_entry, onionVars, taskVars, mpc>>

\* circuit_unlink_all_from_channel: p_chan goes and the circuit is marked.  Only
\* queue_pending_tasks looks at p_chan again, so elsewhere than in a queue this
\* is MarkForClose.
ChannelGone(c) ==
  /\ mpc = "idle"
  /\ circ[c] \in {"pending", "marked"} /\ p_chan[c] /\ Queued(c)
  /\ circ' = [circ EXCEPT ![c] = "marked"]
  /\ p_chan' = [p_chan EXCEPT ![c] = FALSE]
  /\ UNCHANGED <<wqVars, workqueue_entry, onionVars, taskVars, mpc>>

\* Mutant of GivenBack: a job counts as cancelled when a thread has it already.
GivenBackAlways(c) == IF workqueue_entry[c] THEN 1 ELSE 0

\* What cpuworker_cancel_circ_handshake takes from total_pending_tasks.
GivenBack(c) == IF Pending(c) THEN 1 ELSE 0

\* Mutant of Freed: a job that was not cancelled keeps nothing alive.
FreedAlways(left) == "free"

\* circuit_free_: the object stays, as DEAD, while workqueue_entry is set.
Freed(left) == IF left THEN "dead" ELSE "free"

\* circuit_close_all_marked for one circuit: onion_pending_remove takes it out
\* of its queue and cpuworker_cancel_circ_handshake out of the pool; the object
\* is freed unless a thread or the reply queue has the job.
CloseMarked(c) ==
  /\ mpc = "idle"
  /\ circ[c] = "marked"
  /\ ol_list' = [q \in Queue |-> RemoveFirst(ol_list[q], c)]
  /\ ol_entries' = [q \in Queue |-> IF c \in ToSet(ol_list[q])
                                    THEN ol_entries[q] - 1 ELSE ol_entries[q]]
  /\ ntors_ahead' = IF ol_list'["tap"] = <<>> THEN 0 ELSE ntors_ahead
  /\ Cancel(c)
  /\ LET left == workqueue_entry[c] /\ ~Pending(c) IN
       /\ total_pending_tasks' = total_pending_tasks - GivenBack(c)
       /\ workqueue_entry' = [workqueue_entry EXCEPT ![c] = left]
       /\ circ' = [circ EXCEPT ![c] = Freed(left)]
  /\ p_chan' = [p_chan EXCEPT ![c] = FALSE]
  /\ UNCHANGED <<recently_chosen_ntors, consensus, mpc>>

\* Rotations and consensus changes so far.
Changes == generation + consensus - 1

\* cpuworkers_rotate_keyinfo
RotateKeys ==
  /\ mpc = "idle"
  /\ Changes < MaxChanges
  /\ QueueUpdate
  /\ UNCHANGED <<circVars, onionVars, taskVars, mpc>>

\* cpuworker_consensus_has_changed: nothing is pumped when the limit rises.
ConsensusChanged ==
  /\ mpc = "idle"
  /\ Changes < MaxChanges
  /\ consensus < Len(TaskLimits)
  /\ consensus' = consensus + 1
  /\ UNCHANGED <<wqVars, circVars, onionVars, total_pending_tasks, mpc>>

-----------------------------------------------------------------------------
(* reply_event_cb runs replyqueue_process on the main thread.              *)

\* The alert socket is drained before the queue is looked at.
DrainAlert ==
  /\ mpc = "idle" /\ alert
  /\ alert' = FALSE
  /\ mpc' = "replying"
  /\ UNCHANGED <<poolVars, thrVars, answers, circVars, onionVars, taskVars>>

\* The queue is empty and its lock released: back to the event loop.
RepliesDone ==
  /\ mpc = "replying" /\ answers = <<>>
  /\ mpc' = "idle"
  /\ UNCHANGED <<wqVars, circVars, onionVars, taskVars>>

\* Mutant of AfterReply: queue_pending_tasks is not called.
AfterReplyIdle == "replying"

\* cpuworker_onion_handshake_replyfn ends with queue_pending_tasks.
AfterReply == "pumping"

\* cpuworker_onion_handshake_replyfn: the dead circuit is freed; a marked one
\* stays so; of the others, one whose handshake failed is marked and the rest
\* are opened by onionskin_answer, with which they leave this module.
Reply ==
  /\ mpc = "replying" /\ answers # <<>>
  /\ LET c == Head(answers) IN
       /\ \E s \in {"free", "marked"} :
            /\ circ[c] = "dead" => s = "free"
            /\ circ[c] = "marked" => s = "marked"
            /\ circ' = [circ EXCEPT ![c] = s]
       /\ workqueue_entry' = [workqueue_entry EXCEPT ![c] = FALSE]
       /\ p_chan' = [p_chan EXCEPT ![c] = (circ'[c] = "marked")]
  /\ total_pending_tasks' = total_pending_tasks - 1
  /\ answers' = Tail(answers)
  /\ mpc' = AfterReply
  /\ UNCHANGED <<poolVars, thrVars, alert, onionVars, consensus>>

Waits(q) == ol_entries[q] > 0

\* decide_next_handshake_type
Chosen ==
  IF ~Waits("ntor") THEN "tap"
  ELSE IF ~Waits("tap") THEN "ntor"
  ELSE IF recently_chosen_ntors + 1 <= NtorsPerTap THEN "ntor" ELSE "tap"

\* Mutant of RecentlyChosen: the counter advances only while no tap waits.
RecentlyChosenForgets ==
  IF ~Waits("ntor") THEN recently_chosen_ntors
  ELSE IF ~Waits("tap")
       THEN IF recently_chosen_ntors <= NtorsPerTap
            THEN recently_chosen_ntors + 1 ELSE recently_chosen_ntors
  ELSE IF Chosen = "ntor" THEN recently_chosen_ntors ELSE 0

\* Mutant of RecentlyChosen: the counter is not held while no tap waits.
RecentlyChosenUncapped ==
  IF ~Waits("ntor") THEN recently_chosen_ntors
  ELSE IF Chosen = "ntor" THEN recently_chosen_ntors + 1 ELSE 0

\* What decide_next_handshake_type leaves in its counter.
RecentlyChosen ==
  IF ~Waits("ntor") THEN recently_chosen_ntors
  ELSE IF ~Waits("tap")
       THEN IF recently_chosen_ntors <= NtorsPerTap
            THEN recently_chosen_ntors + 1 ELSE recently_chosen_ntors
  ELSE IF Chosen = "ntor" THEN recently_chosen_ntors + 1 ELSE 0

\* onion_next_task takes the head of the chosen queue ...
NextTask(c) ==
  /\ mpc = "pumping" /\ total_pending_tasks < max_pending_tasks
  /\ ol_list[Chosen] # <<>> /\ c = Head(ol_list[Chosen])
  /\ ol_list' = [ol_list EXCEPT ![Chosen] = Tail(@)]
  /\ ol_entries' = [ol_entries EXCEPT ![Chosen] = @ - 1]
  /\ recently_chosen_ntors' = RecentlyChosen
  /\ ntors_ahead' = IF ol_list'["tap"] = <<>> \/ Chosen = "tap" THEN 0
                    ELSE ntors_ahead + 1

\* ... and assign_onionskin_to_cpuworker gives it to the pool ...
PumpAssign(c) ==
  /\ NextTask(c)
  /\ p_chan[c]
  /\ Assign(c)
  /\ UNCHANGED <<circ, p_chan, consensus, mpc>>

\* ... or drops the onionskin of a circuit whose channel is gone.
PumpDrop(c) ==
  /\ NextTask(c)
  /\ ~p_chan[c]
  /\ UNCHANGED <<wqVars, circVars, taskVars, mpc>>

\* The loop of queue_pending_tasks ends.
PumpDone ==
  /\ mpc = "pumping"
  /\ total_pending_tasks >= max_pending_tasks \/ ol_list[Chosen] = <<>>
  /\ mpc' = "replying"
  /\ UNCHANGED <<wqVars, circVars, onionVars, taskVars>>

-----------------------------------------------------------------------------
MainReply ==
  \/ RepliesDone \/ Reply \/ PumpDone
  \/ \E c \in Circ : PumpAssign(c) \/ PumpDrop(c)

handshakeVars == <<circVars, onionVars, taskVars, mpc>>

Next ==
  \/ \E c \in Circ : \/ CreateAssigned(c) \/ CreateQueued(c) \/ CreateNoRoom(c)
                     \/ MarkForClose(c) \/ ChannelGone(c) \/ CloseMarked(c)
  \/ RotateKeys \/ ConsensusChanged
  \/ DrainAlert \/ MainReply
  \/ \E t \in Thread : (WorkerStep(t) \/ SpuriousWake(t)) /\ UNCHANGED handshakeVars

\* A thread that is not asleep runs on; the main thread finishes the handler it
\* is in; the event loop serves the alert in the end.
Fairness ==
  /\ \A t \in Thread : WF_vars(WorkerStep(t) /\ UNCHANGED handshakeVars)
  /\ WF_vars(MainReply)
  /\ SF_vars(DrainAlert)

Spec == Init /\ [][Next]_vars
FairSpec == Spec /\ Fairness

-----------------------------------------------------------------------------
(* Properties                                                              *)

\* The onion queues and their counters agree through queueing, culling,
\* hand-out and removal in any order (onion_queue.c): ol_entries counts the
\* list, which holds only circuits whose handshake is still due, in the queue
\* of their own handshake type and once.
OnionQueueExact ==
  \A q \in Queue :
    /\ ol_entries[q] = Len(ol_list[q])
    /\ ol_entries[q] = Cardinality(ToSet(ol_list[q]))
    /\ \A c \in ToSet(ol_list[q]) :
         QueueOf(c) = q /\ circ[c] \in {"pending", "marked"}

\* While a tap request waits, decide_next_handshake_type hands out at most
\* NumNTorsPerTAP ntor requests before it, however requests came, were culled
\* or were closed meanwhile.
TapTurn == ntors_ahead <= NtorsPerTap

\* What a circuit's state says of its job and its place in a queue.
CircuitRefs ==
  \A c \in Circ :
    /\ workqueue_entry[c] <=> Busy(c)
    /\ Busy(c) => circ[c] \in {"pending", "marked", "dead"} /\ ~Queued(c)
    /\ circ[c] = "dead" => Busy(c)
    /\ circ[c] = "pending" => Busy(c) \/ Queued(c)

\* A circuit whose handshake is due is in exactly one place: an onion queue, or
\* the thread pool with workqueue_entry set; a job is never in two places, and
\* never refers to a circuit that was freed (circuit_free_ leaves DEAD circuits
\* to the reply).
JobRefsValid ==
  /\ CircuitRefs
  /\ Len(work) + Len(answers)
       + Cardinality({t \in Thread : tjob[t] # NULL})
     = Cardinality({j \in Job : Busy(j)})

\* total_pending_tasks is the number of handshakes with the pool although the
\* cancel of a job races the thread that takes it (cpuworker.c).
TasksExact == total_pending_tasks = Cardinality({c \in Circ : Busy(c)})

\* The threads that are about to look for work.
Looking == {t \in Thread : tpc[t] \in {"ready", "update"}}

\* No wakeup is lost in worker_thread_main: a thread sleeps through no key
\* update, and while jobs outnumber the threads about to look for work no
\* thread sleeps.
NoIdleWorker ==
  /\ \A t \in Sleeping : UpToDate(t)
  /\ Len(work) > Cardinality(Looking) => Sleeping = {}

\* The alert is sent only for a reply queue that was empty, and drained before
\* the queue is read: still no reply is left without a wakeup to come
\* (queue_reply, replyqueue_process).
NoLostAlert ==
  answers # <<>> => \/ alert \/ mpc \in {"replying", "pumping"}
                    \/ \E t \in Thread : tpc[t] = "alert"

\* What holds of a thread between taking a job or an update and being done with it.
ThreadsExact ==
  \A t \in Thread :
    /\ tpc[t] = "run" <=> tjob[t] # NULL
    /\ \A u \in Thread : tjob[t] = tjob[u] /\ tjob[t] # NULL => t = u
    /\ (IF tpc[t] = "update" THEN targ[t] ELSE tstate[t]) = tgen[t]
    /\ ~UpToDate(t) => update_args[t] = generation

\* A job, and a queued onionskin, is in one place and once.
PlacesDisjoint ==
  /\ IsInjective(work) /\ IsInjective(answers)
  /\ \A q \in Queue : IsInjective(ol_list[q])
  /\ \A c \in Circ : /\ ~(Pending(c) /\ Answered(c))
                     /\ InHand(c) => ~Pending(c) /\ ~Answered(c)

\* A circuit that waits in an onion queue without a channel is marked already.
ChannelOfQueued ==
  \A c \in Circ : Queued(c) /\ circ[c] = "pending" => p_chan[c]

\* The counter that decides the turn has seen every ntor request that passed
\* the waiting tap.
TurnCounted == ntors_ahead <= recently_chosen_ntors

\* The inductive invariant behind the properties above.
IInv ==
  /\ TypeOK /\ ThreadsExact /\ PlacesDisjoint
  /\ OnionQueueExact /\ ChannelOfQueued /\ CircuitRefs /\ TasksExact
  /\ TurnCounted /\ TapTurn
  /\ NoIdleWorker /\ NoLostAlert

\* A thread that takes a job has the keys of the latest rotation: whatever is
\* queued after cpuworkers_rotate_keyinfo never meets the old keys.
KeysFresh ==
  [][\A t \in Thread : tjob[t] = NULL /\ tjob'[t] # NULL => tstate[t] = generation]_vars

\* While handshakes are with the pool an answer reaches the main thread in the
\* end, or all of them are cancelled: neither a sleeping thread nor a missed alert
\* stops the relay.  (P ~> Q is []<>Q where Q holds whenever P does not.)
JobsAnswered ==
  []<>(mpc = "pumping" \/ total_pending_tasks = 0)

\* A queued tap request is handed out or given up in spite of the ntor requests
\* that overtake it, as long as some handshake is with the pool: replies alone
\* pump the queue (cpuworker_cancel_circ_handshake does not), so with none left
\* it waits for the next CREATE.
QueueMoves ==
  \A c \in Circ \ Ntor : []<>(~Queued(c) \/ total_pending_tasks = 0)
=============================================================================
