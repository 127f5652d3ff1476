------------------------------ MODULE CpuWorker ------------------------------
(***************************************************************************)
(* Onion handshakes of a relay: a CREATE cell makes a circuit (command.c), *)
(* its onionskin goes to the thread pool or, when that is full, to the     *)
(* onion queue (cpuworker.c, onion_queue.c), and circuits are closed and   *)
(* freed meanwhile (circuitlist.c).  Everything but the worker threads is  *)
(* run by the main thread, one event callback at a time; the callbacks     *)
(* that take the pool's lock several times are split at those points.      *)
(***************************************************************************)
EXTENDS WorkQueue, FiniteSets

CONSTANTS Circ,            \* storage of or_circuit_t objects; a job is named after its circuit
          NtorCirc,        \* the circuits whose CREATE cell is of type ntor; the others are TAP
          Channel,         \* the channel each circuit comes from
          Closers,         \* bound: the circuits that are closed alone; the others go with their channel
          OtherWork,       \* work of the pool's other user, consdiffmgr.c
          High, Low,       \* WQ_PRI_HIGH, WQ_PRI_LOW
          MaxPending,      \* max_pending_tasks
          AlwaysRoom,      \* 50 of have_room_for_onionskin
          NumNTorsPerTAP

ASSUME CpuWorkerAssumption == /\ Entry = Circ \cup OtherWork
                              /\ Circ \cap OtherWork = {}
                              /\ IsFiniteSet(Circ)
                              /\ NtorCirc \subseteq Circ
                              /\ {High, Low} \subseteq Priority
                              /\ MaxPending \in Nat \ {0}
                              /\ NumNTorsPerTAP \in Nat \ {0}

VARIABLES circ,        \* the circuits, see NewCirc
          closing,     \* circuit_close_all_marked is running
          ol_list,     \* the onion queues
          ol_entries,  \* and the number of their entries
          recently_chosen_ntors,
          total_pending_tasks

olvars  == <<ol_list, ol_entries, recently_chosen_ntors>>
cpuvars == <<circ, closing, olvars, total_pending_tasks>>
vars    == <<wqvars, cpuvars>>

Type == {"tap", "ntor"}
TypeOf(c) == IF c \in NtorCirc THEN "ntor" ELSE "tap"

\* or_circuit_new: magic, state == CIRCUIT_STATE_ONIONSKIN_PENDING, p_chan #
\* NULL, marked_for_close, onionqueue_entry # NULL, workqueue_entry # NULL
NewCirc == [magic |-> "or", pending |-> TRUE, p_chan |-> TRUE, marked |-> FALSE,
            oq |-> FALSE, wq |-> FALSE]
NoCirc   == [NewCirc EXCEPT !.magic = "freed"]
DeadCirc == [NewCirc EXCEPT !.magic = "dead"]

\* Once a circuit is marked and has neither a queue entry nor a job, nothing
\* reads its state and channel before circuit_free: they are forgotten.
MarkedCirc == [NewCirc EXCEPT !.marked = TRUE]
Settle(r)  == IF r.marked /\ ~r.oq /\ ~r.wq THEN MarkedCirc ELSE r

CircType == [magic : {"or", "freed", "dead"}, pending : BOOLEAN, p_chan : BOOLEAN,
             marked : BOOLEAN, oq : BOOLEAN, wq : BOOLEAN]

CpuTypeOK ==
    /\ WQTypeOK
    /\ circ \in [Circ -> CircType]
    /\ closing \in BOOLEAN
    /\ ol_list \in [Type -> Seq(Circ)]
    /\ ol_entries \in [Type -> Nat]
    /\ recently_chosen_ntors \in 0..NumNTorsPerTAP + 1
    /\ total_pending_tasks \in 0..MaxPending

CpuInit == /\ WQInit
           /\ circ = [c \in Circ |-> NoCirc]
           /\ closing = FALSE
           /\ ol_list = [ty \in Type |-> <<>>]
           /\ ol_entries = [ty \in Type |-> 0]
           /\ recently_chosen_ntors = 0
           /\ total_pending_tasks = 0

\* The main thread is between two event callbacks.
Idle == main = "loop" /\ ~closing

Live(c)   == circ[c].magic = "or"
Marked(c) == Live(c) /\ circ[c].marked

(***************************************************************************)
(* CREATE cells                                                            *)
(***************************************************************************)

\* A malformed cell, or one the relay has no room for: circuit_mark_for_close.
CreateRefused(c) == circ' = [circ EXCEPT ![c] = MarkedCirc]

\* CREATE_FAST is answered at once.
CreateFast(c) == circ' = [circ EXCEPT ![c] = [NewCirc EXCEPT !.pending = FALSE]]

\* The end of assign_onionskin_to_cpuworker for a circuit that becomes r.
QueueHandshake(c, r) ==
    /\ total_pending_tasks' = total_pending_tasks + 1
    /\ circ' = [circ EXCEPT ![c] = [r EXCEPT !.wq = TRUE]]
    /\ threadpool_queue_work_priority(High, c)

HaveRoomAlways(ty) == ol_entries[ty] < AlwaysRoom

\* Append to the queue, then cull its elderly head: the circuits that have
\* waited for ONIONQUEUE_WAIT_CUTOFF are some prefix of what was there.
onion_pending_add(c) ==
    LET ty == TypeOf(c)
        q  == ol_list[ty]
    IN  \E k \in 0..Len(q) :
          /\ ol_list' = [ol_list EXCEPT ![ty] = Append(SubSeq(q, k + 1, Len(q)), c)]
          /\ ol_entries' = [ol_entries EXCEPT ![ty] = @ + 1 - k]
          /\ circ' = [x \in Circ |->
                         IF x = c THEN [NewCirc EXCEPT !.oq = TRUE]
                         ELSE IF \E i \in 1..k : q[i] = x
                              THEN MarkedCirc
                         ELSE circ[x]]

command_process_create_cell(c) ==
    /\ Idle
    /\ circ[c].magic = "freed"
    /\ \/ /\ CreateRefused(c) \/ CreateFast(c)
          /\ UNCHANGED <<wqvars, total_pending_tasks, ol_list, ol_entries>>
       \/ /\ total_pending_tasks < MaxPending
          /\ QueueHandshake(c, NewCirc)
          /\ UNCHANGED <<ol_list, ol_entries>>
       \/ /\ total_pending_tasks >= MaxPending
          /\ \/ onion_pending_add(c)
             \/ ~HaveRoomAlways(TypeOf(c)) /\ CreateRefused(c) /\ UNCHANGED <<ol_list, ol_entries>>
          /\ UNCHANGED <<wqvars, total_pending_tasks>>
    /\ UNCHANGED <<closing, recently_chosen_ntors>>

(***************************************************************************)
(* Closing circuits                                                        *)
(***************************************************************************)
\* Mutant: the circuits lose their channel and are not marked.
UnlinkUnmarked(cs, keepsChan) ==
    /\ Idle
    /\ circ' = [c \in Circ |-> IF c \in cs THEN [circ[c] EXCEPT !.p_chan = keepsChan] ELSE circ[c]]
    /\ UNCHANGED <<wqvars, closing, olvars, total_pending_tasks>>

circuit_mark_for_close(cs, keepsChan) ==
    /\ Idle
    /\ circ' = [c \in Circ |-> IF c \in cs
                               THEN Settle([circ[c] EXCEPT !.marked = TRUE, !.p_chan = keepsChan])
                               ELSE circ[c]]
    /\ UNCHANGED <<wqvars, closing, olvars, total_pending_tasks>>

Attached(ch) == {c \in Circ : Live(c) /\ circ[c].p_chan /\ Channel[c] = ch}

command_process_destroy_cell(c) ==
    /\ c \in Closers /\ Live(c) /\ circ[c].p_chan /\ ~circ[c].marked
    /\ circuit_mark_for_close({c}, FALSE)

circuit_unlink_all_from_channel(ch) ==
    /\ Attached(ch) # {}
    /\ circuit_mark_for_close(Attached(ch), FALSE)

\* Any other reason, such as circuits_handle_oom: the channel stays.
CloseForOtherReason(c) ==
    /\ c \in Closers /\ Live(c) /\ circ[c].p_chan /\ ~circ[c].marked
    /\ circuit_mark_for_close({c}, TRUE)

postloop_cleanup_cb ==
    /\ Idle
    /\ \E c \in Circ : Marked(c)
    /\ closing' = TRUE
    /\ UNCHANGED <<wqvars, circ, olvars, total_pending_tasks>>

\* Mutant: the entry is unlinked and not counted.
RemoveUncounted(c) ==
    \E i \in 1..Len(ol_list[TypeOf(c)]) :
        /\ ol_list[TypeOf(c)][i] = c
        /\ ol_list' = [ol_list EXCEPT ![TypeOf(c)] = TailqRemove(@, i)]
        /\ UNCHANGED ol_entries

\* onion_queue_entry_remove from wherever in its queue the circuit is
OnionQueueEntryRemove(c) ==
    \E i \in 1..Len(ol_list[TypeOf(c)]) :
        /\ ol_list[TypeOf(c)][i] = c
        /\ ol_list' = [ol_list EXCEPT ![TypeOf(c)] = TailqRemove(@, i)]
        /\ ol_entries' = [ol_entries EXCEPT ![TypeOf(c)] = @ - 1]

\* Mutant: the job in flight is forgotten.
FreeAlways(c, wq) == circ' = [circ EXCEPT ![c] = NoCirc]

\* circuit_free: a circuit whose job could not be cancelled stays allocated,
\* with DEAD_CIRCUIT_MAGIC, for the reply function.
circuit_free(c, wq) == circ' = [circ EXCEPT ![c] = IF wq THEN DeadCirc ELSE NoCirc]

\* Mutant: a cancelled job stays counted.
CancelUncounted(c) ==
    IF circ[c].pending /\ circ[c].wq /\ Pending(c)
    THEN workqueue_entry_cancel(c) /\ circuit_free(c, FALSE) /\ UNCHANGED total_pending_tasks
    ELSE circuit_free(c, circ[c].wq) /\ UNCHANGED <<wqvars, total_pending_tasks>>

cpuworker_cancel_circ_handshake(c) ==
    IF circ[c].pending /\ circ[c].wq /\ Pending(c)
    THEN /\ workqueue_entry_cancel(c)
         /\ total_pending_tasks' = total_pending_tasks - 1
         /\ circuit_free(c, FALSE)
    ELSE /\ circuit_free(c, circ[c].wq)
         /\ UNCHANGED <<wqvars, total_pending_tasks>>

\* circuit_about_to_free and circuit_free of one circuit
CloseMarked(c) ==
    /\ closing
    /\ Marked(c)
    /\ IF circ[c].pending /\ circ[c].oq THEN OnionQueueEntryRemove(c)
                                        ELSE UNCHANGED <<ol_list, ol_entries>>
    /\ cpuworker_cancel_circ_handshake(c)
    /\ closing' = \E x \in Circ \ {c} : Marked(x)
    /\ UNCHANGED recently_chosen_ntors

(***************************************************************************)
(* Replies                                                                 *)
(***************************************************************************)

\* What cpuworker_onion_handshake_replyfn makes of the circuit: freed if it is
\* dead, left alone if it is marked, marked if the handshake or the answer
\* fails, and open otherwise.
Answers(c) ==
    LET r == [circ[c] EXCEPT !.wq = FALSE]
    IN  IF circ[c].magic = "dead" THEN {NoCirc}
        ELSE IF circ[c].marked THEN {MarkedCirc}
        ELSE {[r EXCEPT !.pending = FALSE], MarkedCirc}

cpuworker_onion_handshake_replyfn(c) ==
    /\ TakeAnswer
    /\ replying' = c
    /\ total_pending_tasks' = total_pending_tasks - 1
    /\ \E r \in Answers(c) : circ' = [circ EXCEPT ![c] = r]
    /\ UNCHANGED <<closing, olvars>>

\* The reply functions of consdiffmgr.c do nothing to this state.
OtherReply(o) ==
    /\ TakeAnswer
    /\ replying' = o
    /\ UNCHANGED cpuvars

\* Mutant: TAP is chosen only when no ntor waits.
NtorFirst == IF ol_entries["ntor"] = 0 THEN <<"tap", recently_chosen_ntors>>
             ELSE <<"ntor", recently_chosen_ntors>>

\* The type decide_next_handshake_type returns and its next
\* recently_chosen_ntors
decide_next_handshake_type ==
    LET n == recently_chosen_ntors
    IN  IF ol_entries["ntor"] = 0 THEN <<"tap", n>>
        ELSE IF ol_entries["tap"] = 0
             THEN <<"ntor", IF n <= NumNTorsPerTAP THEN n + 1 ELSE n>>
        ELSE IF n + 1 <= NumNTorsPerTAP THEN <<"ntor", n + 1>>
        ELSE <<"tap", 0>>

HavePendingTask == ol_list[decide_next_handshake_type[1]] # <<>>

\* One turn of the loop in queue_pending_tasks
queue_pending_tasks ==
    LET ty == decide_next_handshake_type[1]
        c  == Head(ol_list[ty])
        r  == [circ[c] EXCEPT !.oq = FALSE]
    IN  /\ main = "reply" /\ replying \in Circ
        /\ total_pending_tasks < MaxPending
        /\ HavePendingTask
        /\ recently_chosen_ntors' = decide_next_handshake_type[2]
        /\ ol_list' = [ol_list EXCEPT ![ty] = Tail(@)]
        /\ ol_entries' = [ol_entries EXCEPT ![ty] = @ - 1]
        /\ IF circ[c].p_chan
           THEN QueueHandshake(c, r)
           ELSE /\ circ' = [circ EXCEPT ![c] = Settle(r)]
                /\ UNCHANGED <<wqvars, total_pending_tasks>>
        /\ UNCHANGED closing

\* Mutant: the reply function queues no waiting circuit.
ReturnAtOnce == ReplyReturns /\ UNCHANGED cpuvars

\* The reply function has nothing more to queue.
Return ==
    /\ replying \in Circ => total_pending_tasks >= MaxPending \/ ~HavePendingTask
    /\ ReplyReturns
    /\ UNCHANGED cpuvars

(***************************************************************************)
(* The other callbacks, and the threads                                    *)
(***************************************************************************)
QueueOtherWork(o) ==
    /\ Idle
    /\ threadpool_queue_work_priority(Low, o)
    /\ UNCHANGED cpuvars

cpuworkers_rotate_keyinfo ==
    /\ Idle
    /\ threadpool_queue_update
    /\ UNCHANGED cpuvars

ReplyEvent  == ~closing /\ reply_event_cb /\ UNCHANGED cpuvars
ProcessDone == ProcessEnds /\ UNCHANGED cpuvars

Worker(t)  == ThreadStep(t) /\ UNCHANGED cpuvars
Stirs(t)   == SpuriousWake(t) /\ UNCHANGED cpuvars

MainStep == \/ ReplyEvent \/ ProcessDone \/ Return \/ queue_pending_tasks
            \/ \E c \in Circ : cpuworker_onion_handshake_replyfn(c) \/ CloseMarked(c)
            \/ \E o \in OtherWork : OtherReply(o)
            \/ postloop_cleanup_cb

CpuNext == \/ \E c \in Circ : \/ command_process_create_cell(c)
                              \/ command_process_destroy_cell(c)
                              \/ CloseForOtherReason(c)
           \/ \E ch \in {Channel[c] : c \in Circ} : circuit_unlink_all_from_channel(ch)
           \/ \E o \in OtherWork : QueueOtherWork(o)
           \/ cpuworkers_rotate_keyinfo
           \/ MainStep
           \/ \E t \in Thread : Worker(t) \/ Stirs(t)

\* The operating system schedules every thread, libevent runs every callback
\* that is activated before it waits for new events, and the random choice of
\* a queue does not pass over the same one for ever.  Nobody promises that a
\* sleeping thread wakes without a signal.
Fairness == /\ WF_vars(MainStep)
            /\ SF_vars(ReplyEvent)
            /\ \A t \in Thread : /\ WF_vars(Worker(t))
                                 /\ \A p \in Priority : SF_vars(TakeWork(t, p) /\ UNCHANGED cpuvars)

CpuSpec == CpuInit /\ [][CpuNext]_vars /\ Fairness

(***************************************************************************)
(* Properties                                                              *)
(***************************************************************************)

\* total_pending_tasks counts the handshakes whose job is queued, running or
\* answered: a cancelled job and a reply each take one off, never both, so the
\* assertions that it is positive hold and the pool's share never leaks away.
InFlight(c) == Pending(c) \/ Running(c) \/ Answered(c)
PendingTasksCounted == total_pending_tasks = Cardinality({c \in Circ : InFlight(c)})

\* A job outlives its circuit only as a dead circuit that the reply function
\* frees, and circ->workqueue_entry never points to an entry that is gone.
JobsHaveCircuits ==
    \A c \in Circ : InFlight(c) <=> circ[c].magic = "dead" \/ (Live(c) /\ circ[c].wq)

\* The onion queues agree with the circuits and the counters: each waiting
\* circuit is live, still pending, on one queue once, and has no job.
OnionQueueConsistent ==
    /\ \A ty \in Type :
          /\ ol_entries[ty] = Len(ol_list[ty])
          /\ \A i, j \in 1..Len(ol_list[ty]) : ol_list[ty][i] = ol_list[ty][j] => i = j
          /\ \A c \in Circ : In(c, ol_list[ty]) <=> circ[c].oq /\ TypeOf(c) = ty
    /\ \A c \in Circ : circ[c].oq => Live(c) /\ circ[c].pending /\ ~circ[c].wq

\* An open or waiting circuit still has the channel onionskin_answer writes to.
AnswerableHaveChannel == \A c \in Circ : Live(c) /\ ~circ[c].marked => circ[c].p_chan

\* Circuits wait on the onion queue while the pool has room only because jobs
\* were cancelled: no other step of the main thread leaves room unused.
Waits(c) == circ[c].oq
RoomUnused == /\ total_pending_tasks < MaxPending
              /\ \E c \in Circ : Waits(c)
              /\ ~(main = "reply" /\ replying \in Circ)

OnlyCancellingWastesRoom ==
    [][~RoomUnused /\ RoomUnused' => closing]_vars

\* Every job comes back or is cancelled, whatever circuits are closed.
JobsComeBack == \A c \in Circ : InFlight(c) ~> ~InFlight(c)

\* Every update reaches every thread.
UpdatesReachThreads ==
    \A t \in Thread : tstate[t] # generation ~> tstate[t] = generation

\* A circuit leaves the onion queue unless cancelling takes away the last job
\* whose reply would serve it: TAP is not starved by ntor, nor the reverse.
Stranded == total_pending_tasks = 0 /\ main = "loop"
WaitingServed == \A c \in Circ : Waits(c) ~> ~Waits(c) \/ Stranded

\* onion_queue.c:50, "5 seconds on the onion queue til we just send back a
\* destroy": a circuit does not stay on the onion queue for ever.
WaitingEnds == \A c \in Circ : Waits(c) ~> ~Waits(c)
=============================================================================
