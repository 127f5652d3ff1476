------------------------------ MODULE WorkQueue ------------------------------
(***************************************************************************)
(* The thread pool of lib/evloop/workqueue.c: worker threads that share    *)
(* queues of work under one lock and one condition variable, and a reply   *)
(* queue, under a lock of its own, that wakes the main thread through an    *)
(* alert socket.  Every critical section is one step; what a thread does   *)
(* between two of them touches only what it owns.  Work functions always   *)
(* return WQ_RPL_REPLY here, so no thread exits.                           *)
(***************************************************************************)
EXTENDS Naturals, Sequences

CONSTANTS Thread,        \* the workerthread_t objects of the pool
          Entry,         \* storage of workqueue_entry_t objects
          Priority,      \* WORKQUEUE_PRIORITY_FIRST .. WORKQUEUE_PRIORITY_LAST
          MaxGeneration, \* bound on the number of updates
          NULL

ASSUME WorkQueueAssumption == /\ Thread # {}
                              /\ NULL \notin Entry
                              /\ MaxGeneration \in Nat

VARIABLES work,        \* pool->work[]: a queue of entries for each priority
          generation,  \* pool->generation
          update_args, \* pool->update_args[]: the generation of the argument, 0 for NULL
          pc,          \* where each thread stands in worker_thread_main
          job,         \* the entry a thread runs, or NULL
          tgen,        \* thread->generation
          targ,        \* the update argument a thread holds, 0 for none
          tstate,      \* thread->state: the generation of the update it comes from
          answers,     \* queue->answers
          alert,       \* the alert socket is readable
          main,        \* where the main thread stands in replyqueue_process
          replying     \* the entry whose reply function runs, or NULL

poolvars   == <<work, generation, update_args>>
threadvars == <<job, tgen, targ, tstate>>
replyvars  == <<answers, alert, main, replying>>
wqvars     == <<poolvars, pc, threadvars, replyvars>>

In(e, s) == \E i \in 1..Len(s) : s[i] = e

\* ent->pending
Pending(e)  == \E p \in Priority : In(e, work[p])
Running(e)  == \E t \in Thread : job[t] = e
Answered(e) == In(e, answers)
Free(e)     == ~(Pending(e) \/ Running(e) \/ Answered(e) \/ replying = e)

WQTypeOK == /\ work \in [Priority -> Seq(Entry)]
            /\ generation \in 0..MaxGeneration
            /\ update_args \in [Thread -> 0..MaxGeneration]
            /\ pc \in [Thread -> {"top", "wait", "update", "work", "alert"}]
            /\ job \in [Thread -> Entry \cup {NULL}]
            /\ tgen \in [Thread -> 0..MaxGeneration]
            /\ targ \in [Thread -> 0..MaxGeneration]
            /\ tstate \in [Thread -> 0..MaxGeneration]
            /\ answers \in Seq(Entry)
            /\ alert \in BOOLEAN
            /\ main \in {"loop", "process", "reply"}
            /\ replying \in Entry \cup {NULL}

\* threadpool_new and replyqueue_new.  The threads cannot run before
\* threadpool_start_threads releases the lock.
WQInit == /\ work = [p \in Priority |-> <<>>]
          /\ generation = 0
          /\ update_args = [t \in Thread |-> 0]
          /\ pc = [t \in Thread |-> "top"]
          /\ job = [t \in Thread |-> NULL]
          /\ tgen = [t \in Thread |-> 0]
          /\ targ = [t \in Thread |-> 0]
          /\ tstate = [t \in Thread |-> 0]
          /\ answers = <<>>
          /\ alert = FALSE
          /\ main = "loop"
          /\ replying = NULL

(***************************************************************************)
(* The main thread.  It calls the pool from event callbacks ("loop") and   *)
(* from reply functions ("reply").                                         *)
(***************************************************************************)
CanCall == main \in {"loop", "reply"}

Waiting == {t \in Thread : pc[t] = "wait"}

\* tor_cond_signal_one and tor_cond_signal_all
SignalOne == \/ Waiting = {} /\ UNCHANGED pc
             \/ \E t \in Waiting : pc' = [pc EXCEPT ![t] = "top"]

SignalAll == pc' = [t \in Thread |-> IF t \in Waiting THEN "top" ELSE pc[t]]

\* TOR_TAILQ_REMOVE of the i-th element
TailqRemove(s, i) == [j \in 1..(Len(s) - 1) |-> IF j < i THEN s[j] ELSE s[j + 1]]

\* Mutant: the condition is not signalled.
QueueUnsignalled(p, e) ==
    /\ CanCall
    /\ Free(e)
    /\ work' = [work EXCEPT ![p] = Append(@, e)]
    /\ UNCHANGED <<generation, update_args, pc, threadvars, replyvars>>

threadpool_queue_work_priority(p, e) ==
    /\ CanCall
    /\ Free(e)
    /\ work' = [work EXCEPT ![p] = Append(@, e)]
    /\ SignalOne
    /\ UNCHANGED <<generation, update_args, threadvars, replyvars>>

\* The case in which the entry is still pending; otherwise nothing changes.
workqueue_entry_cancel(e) ==
    /\ CanCall
    /\ \E p \in Priority : \E i \in 1..Len(work[p]) :
          /\ work[p][i] = e
          /\ work' = [work EXCEPT ![p] = TailqRemove(@, i)]
    /\ UNCHANGED <<generation, update_args, pc, threadvars, replyvars>>

\* Mutant: sleeping threads are not woken for an update.
UpdateUnsignalled ==
    /\ CanCall
    /\ generation < MaxGeneration
    /\ generation' = generation + 1
    /\ update_args' = [t \in Thread |-> generation + 1]
    /\ UNCHANGED <<work, pc, threadvars, replyvars>>

\* The arguments no thread has taken yet are freed, replaced by new ones.
threadpool_queue_update ==
    /\ CanCall
    /\ generation < MaxGeneration
    /\ generation' = generation + 1
    /\ update_args' = [t \in Thread |-> generation + 1]
    /\ SignalAll
    /\ UNCHANGED <<work, threadvars, replyvars>>

\* replyqueue_process drains the socket before it takes the lock.
reply_event_cb ==
    /\ main = "loop"
    /\ alert
    /\ alert' = FALSE
    /\ main' = "process"
    /\ UNCHANGED <<poolvars, pc, threadvars, answers, replying>>

TakeAnswer ==
    /\ main = "process"
    /\ answers # <<>>
    /\ replying' = Head(answers)
    /\ answers' = Tail(answers)
    /\ main' = "reply"
    /\ UNCHANGED <<poolvars, pc, threadvars, alert>>

\* The reply function returns; workqueue_entry_free.
ReplyReturns ==
    /\ main = "reply"
    /\ replying' = NULL
    /\ main' = "process"
    /\ UNCHANGED <<poolvars, pc, threadvars, answers, alert>>

ProcessEnds ==
    /\ main = "process"
    /\ answers = <<>>
    /\ main' = "loop"
    /\ UNCHANGED <<poolvars, pc, threadvars, answers, alert, replying>>

(***************************************************************************)
(* worker_thread_main                                                      *)
(***************************************************************************)
\* Mutant: the argument stays in the array and is freed by the next update.
TakeUpdateShared(t) ==
    /\ pc[t] = "top"
    /\ tgen[t] # generation
    /\ targ' = [targ EXCEPT ![t] = update_args[t]]
    /\ tgen' = [tgen EXCEPT ![t] = generation]
    /\ pc' = [pc EXCEPT ![t] = "update"]
    /\ UNCHANGED <<poolvars, job, tstate, replyvars>>

TakeUpdate(t) ==
    /\ pc[t] = "top"
    /\ tgen[t] # generation
    /\ targ' = [targ EXCEPT ![t] = update_args[t]]
    /\ update_args' = [update_args EXCEPT ![t] = 0]
    /\ tgen' = [tgen EXCEPT ![t] = generation]
    /\ pc' = [pc EXCEPT ![t] = "update"]
    /\ UNCHANGED <<work, generation, job, tstate, replyvars>>

\* update_fn moves the argument's contents into the thread's state
RunUpdate(t) ==
    /\ pc[t] = "update"
    /\ tstate' = [tstate EXCEPT ![t] = targ[t]]
    /\ targ' = [targ EXCEPT ![t] = 0]
    /\ pc' = [pc EXCEPT ![t] = "top"]
    /\ UNCHANGED <<poolvars, job, tgen, replyvars>>

\* Mutant: work is looked for before the generation is compared.
TakeWorkStale(t, p) ==
    /\ pc[t] = "top"
    /\ work[p] # <<>>
    /\ job' = [job EXCEPT ![t] = Head(work[p])]
    /\ work' = [work EXCEPT ![p] = Tail(@)]
    /\ pc' = [pc EXCEPT ![t] = "work"]
    /\ UNCHANGED <<generation, update_args, tgen, targ, tstate, replyvars>>

\* worker_thread_extract_next_work: usually the first queue with work, but by
\* a random choice it may be any later one.
TakeWork(t, p) ==
    /\ pc[t] = "top"
    /\ tgen[t] = generation
    /\ work[p] # <<>>
    /\ job' = [job EXCEPT ![t] = Head(work[p])]
    /\ work' = [work EXCEPT ![p] = Tail(@)]
    /\ pc' = [pc EXCEPT ![t] = "work"]
    /\ UNCHANGED <<generation, update_args, tgen, targ, tstate, replyvars>>

\* Mutant: was_empty is computed after the insertion.
AlertTestedLate(t) ==
    /\ pc[t] = "work"
    /\ answers' = Append(answers, job[t])
    /\ job' = [job EXCEPT ![t] = NULL]
    /\ pc' = [pc EXCEPT ![t] = IF answers' = <<>> THEN "alert" ELSE "top"]
    /\ UNCHANGED <<poolvars, tgen, targ, tstate, alert, main, replying>>

\* Mutant: the reply replaces the ones that wait.
ReplyOverwrites(t) ==
    /\ pc[t] = "work"
    /\ answers' = <<job[t]>>
    /\ job' = [job EXCEPT ![t] = NULL]
    /\ pc' = [pc EXCEPT ![t] = IF answers = <<>> THEN "alert" ELSE "top"]
    /\ UNCHANGED <<poolvars, tgen, targ, tstate, alert, main, replying>>

\* The work function, then the critical section of queue_reply.
queue_reply(t) ==
    /\ pc[t] = "work"
    /\ answers' = Append(answers, job[t])
    /\ job' = [job EXCEPT ![t] = NULL]
    /\ pc' = [pc EXCEPT ![t] = IF answers = <<>> THEN "alert" ELSE "top"]
    /\ UNCHANGED <<poolvars, tgen, targ, tstate, alert, main, replying>>

\* alert_fn, after the lock is released
Alert(t) ==
    /\ pc[t] = "alert"
    /\ alert' = TRUE
    /\ pc' = [pc EXCEPT ![t] = "top"]
    /\ UNCHANGED <<poolvars, threadvars, answers, main, replying>>

\* worker_thread_has_work fails: wait on the condition.
Sleep(t) ==
    /\ pc[t] = "top"
    /\ tgen[t] = generation
    /\ \A p \in Priority : work[p] = <<>>
    /\ pc' = [pc EXCEPT ![t] = "wait"]
    /\ UNCHANGED <<poolvars, threadvars, replyvars>>

\* A wait on a condition may end without a signal.
SpuriousWake(t) ==
    /\ pc[t] = "wait"
    /\ pc' = [pc EXCEPT ![t] = "top"]
    /\ UNCHANGED <<poolvars, threadvars, replyvars>>

ThreadStep(t) == \/ TakeUpdate(t) \/ RunUpdate(t)
                 \/ \E p \in Priority : TakeWork(t, p)
                 \/ queue_reply(t) \/ Alert(t) \/ Sleep(t)

ReplyStep == reply_event_cb \/ TakeAnswer \/ ReplyReturns \/ ProcessEnds

WQNext == \/ \E e \in Entry : \/ \E p \in Priority : threadpool_queue_work_priority(p, e)
                              \/ workqueue_entry_cancel(e)
          \/ threadpool_queue_update
          \/ ReplyStep
          \/ \E t \in Thread : ThreadStep(t) \/ SpuriousWake(t)

WQSpec == WQInit /\ [][WQNext]_wqvars

(***************************************************************************)
(* Properties                                                              *)
(***************************************************************************)

\* An answer never waits for a main thread that nobody will wake: outside
\* replyqueue_process the socket is readable, or the thread whose queue_reply
\* found the queue empty has yet to write to it.
WakeupPending ==
    answers # <<>> /\ main = "loop" => alert \/ \E t \in Thread : pc[t] = "alert"

\* Threads sleep only when there is nothing to do: queued work finds a thread
\* awake, and no thread sleeps through an update.
NoLostSignal ==
    /\ (\E p \in Priority : work[p] # <<>>) => Waiting # Thread
    /\ \A t \in Waiting : tgen[t] = generation

\* An update argument has one owner: a thread that lags behind finds one, the
\* one it runs is no longer in the array threadpool_queue_update frees, and a
\* thread that has caught up has the newest state.
UpdateArgsOwned ==
    \A t \in Thread : /\ (tgen[t] # generation) <=> (update_args[t] # 0)
                      /\ (pc[t] = "update") <=> (targ[t] # 0)
                      /\ targ[t] # 0 => targ[t] # update_args[t]
                      /\ tgen[t] = generation /\ targ[t] = 0 => tstate[t] = generation

\* Work is started only by a thread that has run the newest update, so work
\* queued after cpuworkers_rotate_keyinfo never runs with the old keys.
StartsUpToDate ==
    [][\A t \in Thread : job'[t] # NULL /\ job'[t] # job[t] => tstate[t] = generation]_wqvars

\* The queues, the threads and the reply queue together handle each item as
\* WorkItems says: run once, answered once, cancelled only before it starts.
Status(e) == CASE Pending(e)   -> "queued"
               [] Running(e)   -> "running"
               [] Answered(e)  -> "answered"
               [] replying = e -> "replying"
               [] OTHER        -> "free"

Items == INSTANCE WorkItems WITH status <- [e \in Entry |-> Status(e)]

ImplementsWorkItems == Items!Spec
=============================================================================
