--------------------------- MODULE WorkQueueProofs ---------------------------
(***************************************************************************)
(* Proofs about the thread pool, for any number of threads, entries,       *)
(* priorities and updates, and any calls of the main thread.               *)
(***************************************************************************)
EXTENDS WorkQueue, SequenceTheorems, TLAPS

(* Zenon is the default prover; leaves that need arithmetic, records or    *)
(* sequences cite SMT.                                                     *)
USE Zenon

Distinct(s) == \A i, j \in 1..Len(s) : s[i] = s[j] => i = j

\* An entry is in one place, once.
OnePlace ==
    /\ \A p \in Priority : Distinct(work[p])
    /\ \A p, q \in Priority : \A e \in Entry : In(e, work[p]) /\ In(e, work[q]) => p = q
    /\ Distinct(answers)
    /\ \A t, u \in Thread : job[t] = job[u] /\ job[t] # NULL => t = u

Apart ==
    \A e \in Entry : /\ Pending(e) => ~Running(e) /\ ~Answered(e) /\ replying # e
                     /\ Running(e) => ~Answered(e) /\ replying # e
                     /\ Answered(e) => replying # e

\* A thread has a job exactly while it runs it, and so has the main thread.
JobsAtWork ==
    /\ \A t \in Thread : (job[t] # NULL) <=> (pc[t] = "work")
    /\ (replying # NULL) <=> (main = "reply")

\* Arguments and states of threads are never newer than the pool's generation,
\* and the argument a thread took last is the newest.
Generations ==
    \A t \in Thread : /\ update_args[t] \in {0, generation}
                      /\ targ[t] <= generation
                      /\ tgen[t] <= generation
                      /\ tgen[t] = generation /\ targ[t] # 0 => targ[t] = generation

\* The inductive invariant
WQInv == /\ WQTypeOK
         /\ OnePlace
         /\ Apart
         /\ JobsAtWork
         /\ Generations
         /\ WakeupPending
         /\ NoLostSignal
         /\ UpdateArgsOwned

-----------------------------------------------------------------------------
\* Queues: what an insertion at the tail and a removal do to the members.

LEMMA AppendMembers ==
    ASSUME NEW S, NEW s \in Seq(S), NEW e \in S, ~In(e, s), Distinct(s)
    PROVE  /\ Append(s, e) \in Seq(S)
           /\ Append(s, e) # <<>> /\ Len(Append(s, e)) = Len(s) + 1
           /\ Distinct(Append(s, e))
           /\ \A x : In(x, Append(s, e)) <=> In(x, s) \/ x = e
<1> DEFINE a == Append(s, e)
<1>1. /\ a \in Seq(S) /\ a # <<>> /\ Len(a) = Len(s) + 1 /\ Len(s) \in Nat
      /\ \A i \in 1..Len(s) : a[i] = s[i]
      /\ a[Len(s) + 1] = e
  BY AppendProperties, LenProperties, SMT
<1> HIDE DEF a
<1>2. \A x : In(x, a) <=> In(x, s) \/ x = e
  <2>1. ASSUME NEW x, In(x, a) PROVE In(x, s) \/ x = e
    <3>1. PICK i \in 1..Len(a) : a[i] = x  BY <2>1 DEF In
    <3>2. CASE i = Len(s) + 1  BY <3>1, <3>2, <1>1
    <3>3. CASE i \in 1..Len(s)  BY <3>1, <3>3, <1>1 DEF In
    <3> QED  BY <3>1, <3>2, <3>3, <1>1, SMT
  <2>2. ASSUME NEW x, In(x, s) PROVE In(x, a)
    <3>1. PICK i \in 1..Len(s) : s[i] = x  BY <2>2 DEF In
    <3>2. i \in 1..Len(a) /\ a[i] = x  BY <3>1, <1>1, SMT
    <3> QED  BY <3>2 DEF In
  <2>3. In(e, a)
    <3>1. Len(s) + 1 \in 1..Len(a)  BY <1>1, SMT
    <3> QED  BY <3>1, <1>1 DEF In
  <2> QED  BY <2>1, <2>2, <2>3
<1>3. Distinct(a)
  <2> SUFFICES ASSUME NEW i \in 1..Len(a), NEW j \in 1..Len(a), a[i] = a[j] PROVE i = j
    BY DEF Distinct
  <2>1. CASE i \in 1..Len(s) /\ j \in 1..Len(s)  BY <2>1, <1>1 DEF Distinct
  <2>2. CASE i = Len(s) + 1 /\ j = Len(s) + 1  BY <2>2
  <2>3. CASE i \in 1..Len(s) /\ j = Len(s) + 1
    <3>1. s[i] = e  BY <2>3, <1>1
    <3> QED  BY <3>1, <2>3 DEF In
  <2>4. CASE j \in 1..Len(s) /\ i = Len(s) + 1
    <3>1. s[j] = e  BY <2>4, <1>1
    <3> QED  BY <3>1, <2>4 DEF In
  <2> QED  BY <2>1, <2>2, <2>3, <2>4, <1>1, SMT
<1> QED  BY <1>1, <1>2, <1>3 DEF a

LEMMA TailMembers ==
    ASSUME NEW S, NEW s \in Seq(S), s # <<>>, Distinct(s)
    PROVE  /\ Tail(s) \in Seq(S) /\ Len(Tail(s)) = Len(s) - 1
           /\ Head(s) \in S
           /\ In(Head(s), s)
           /\ Distinct(Tail(s))
           /\ \A x : In(x, Tail(s)) <=> In(x, s) /\ x # Head(s)
<1> DEFINE t == Tail(s)
<1>1. /\ t \in Seq(S) /\ Len(s) \in Nat /\ Len(s) # 0 /\ Len(t) = Len(s) - 1
      /\ \A i \in 1..Len(t) : t[i] = s[i + 1]
      /\ Head(s) = s[1] /\ Head(s) \in S
  BY HeadTailProperties, LenProperties, EmptySeq, SMT
<1> HIDE DEF t
<1>2. In(Head(s), s)
  <2>1. 1 \in 1..Len(s)  BY <1>1, SMT
  <2> QED  BY <2>1, <1>1 DEF In
<1>3. Distinct(t)
  <2> SUFFICES ASSUME NEW i \in 1..Len(t), NEW j \in 1..Len(t), t[i] = t[j] PROVE i = j
    BY DEF Distinct
  <2>1. i + 1 \in 1..Len(s) /\ j + 1 \in 1..Len(s)  BY <1>1, SMT
  <2>2. s[i + 1] = s[j + 1]  BY <1>1
  <2>3. i + 1 = j + 1  BY <2>1, <2>2 DEF Distinct
  <2> QED  BY <2>3, <1>1, SMT
<1>4. ASSUME NEW x, In(x, t) PROVE In(x, s) /\ x # Head(s)
  <2>1. PICK i \in 1..Len(t) : t[i] = x  BY <1>4 DEF In
  <2>2. i + 1 \in 1..Len(s) /\ 1 \in 1..Len(s) /\ i + 1 # 1 /\ s[i + 1] = x  BY <2>1, <1>1, SMT
  <2> QED  BY <2>2, <1>1 DEF In, Distinct
<1>5. ASSUME NEW x, In(x, s), x # Head(s) PROVE In(x, t)
  <2>1. PICK i \in 1..Len(s) : s[i] = x  BY <1>5 DEF In
  <2>2. i # 1  BY <2>1, <1>1, <1>5
  <2>3. i - 1 \in 1..Len(t) /\ (i - 1) + 1 = i  BY <2>1, <2>2, <1>1, SMT
  <2>4. t[i - 1] = x  BY <2>3, <2>1, <1>1
  <2> QED  BY <2>3, <2>4 DEF In
<1> QED  BY <1>1, <1>2, <1>3, <1>4, <1>5 DEF t

LEMMA RemoveMembers ==
    ASSUME NEW S, NEW s \in Seq(S), NEW k \in 1..Len(s), Distinct(s)
    PROVE  /\ TailqRemove(s, k) \in Seq(S) /\ Len(TailqRemove(s, k)) = Len(s) - 1
           /\ Distinct(TailqRemove(s, k))
           /\ \A x : In(x, TailqRemove(s, k)) <=> In(x, s) /\ x # s[k]
<1> DEFINE r == TailqRemove(s, k)
<1>1. Len(s) \in Nat /\ Len(s) - 1 \in Nat /\ \A i \in 1..Len(s) : s[i] \in S
  BY LenProperties, ElementOfSeq, SMT
<1>2. r = [j \in 1..(Len(s) - 1) |-> IF j < k THEN s[j] ELSE s[j + 1]]
  BY DEF TailqRemove
<1>3. \A j \in 1..(Len(s) - 1) : j \in 1..Len(s) /\ j + 1 \in 1..Len(s) /\ j \in Nat
  BY <1>1, SMT
<1>4. \A j \in 1..(Len(s) - 1) : r[j] \in S
  BY <1>1, <1>2, <1>3
<1>5. r \in Seq(S) /\ Len(r) = Len(s) - 1
  <2>1. r \in [1..(Len(s) - 1) -> S]  BY <1>2, <1>4
  <2>2. r \in Seq(S)  BY <2>1, <1>1, SeqDef, SMT
  <2>3. DOMAIN r = 1..(Len(s) - 1)  BY <1>2
  <2> QED  BY <2>2, <2>3, <1>1, LenProperties, SMT
<1>6. /\ \A j \in 1..Len(r) : r[j] = IF j < k THEN s[j] ELSE s[j + 1]
      /\ k \in Nat
  BY <1>2, <1>5, SMT
<1> HIDE DEF r
<1>7. Distinct(r)
  <2> SUFFICES ASSUME NEW i \in 1..Len(r), NEW j \in 1..Len(r), r[i] = r[j] PROVE i = j
    BY DEF Distinct
  <2> DEFINE at(n) == IF n < k THEN n ELSE n + 1
  <2>1. at(i) \in 1..Len(s) /\ at(j) \in 1..Len(s)  BY <1>3, <1>5, <1>6
  <2>2. s[at(i)] = s[at(j)]  BY <1>6
  <2>3. at(i) = at(j)  BY <2>1, <2>2 DEF Distinct
  <2> QED  BY <2>3, <1>3, <1>5, <1>6, SMT
<1>8. ASSUME NEW x, In(x, r) PROVE In(x, s) /\ x # s[k]
  <2>1. PICK j \in 1..Len(r) : r[j] = x  BY <1>8 DEF In
  <2> DEFINE n == IF j < k THEN j ELSE j + 1
  <2>2. n \in 1..Len(s) /\ n # k  BY <1>3, <1>5, <1>6, SMT
  <2>3. s[n] = x  BY <2>1, <1>6
  <2> HIDE DEF n
  <2> QED  BY <2>2, <2>3 DEF In, Distinct
<1>9. ASSUME NEW x, In(x, s), x # s[k] PROVE In(x, r)
  <2>1. PICK i \in 1..Len(s) : s[i] = x  BY <1>9 DEF In
  <2>2. i # k /\ i \in Nat  BY <2>1, <1>9, SMT
  <2>3. CASE i < k
    <3>1. i \in 1..Len(r)  BY <2>3, <1>1, <1>5, <1>6, SMT
    <3>2. r[i] = x  BY <3>1, <2>3, <2>1, <1>6
    <3> QED  BY <3>1, <3>2 DEF In
  <2>4. CASE i > k
    <3>1. i - 1 \in 1..Len(r) /\ ~(i - 1 < k) /\ (i - 1) + 1 = i
      BY <2>4, <2>2, <1>1, <1>5, <1>6, SMT
    <3>2. r[i - 1] = x  BY <3>1, <2>1, <1>6
    <3> QED  BY <3>1, <3>2 DEF In
  <2> QED  BY <2>2, <2>3, <2>4, <1>6, SMT
<1> QED  BY <1>5, <1>7, <1>8, <1>9 DEF r

-----------------------------------------------------------------------------
\* What each action that moves an entry does to the four places.

QueuedOnly(e) == /\ \A x \in Entry : Pending(x)' <=> Pending(x) \/ x = e
                 /\ \A x \in Entry : (Running(x)' <=> Running(x)) /\ (Answered(x)' <=> Answered(x))
                 /\ replying' = replying

LEMMA QueueEffect ==
    ASSUME WQTypeOK, OnePlace, NEW p \in Priority, NEW e \in Entry,
           threadpool_queue_work_priority(p, e)
    PROVE  /\ work' \in [Priority -> Seq(Entry)] /\ work'[p] # <<>>
           /\ OnePlace'
           /\ QueuedOnly(e)
<1>0. /\ work' = [work EXCEPT ![p] = Append(work[p], e)] /\ Free(e)
      /\ UNCHANGED <<job, answers, replying>>
  BY DEF threadpool_queue_work_priority, threadvars, replyvars
<1>1. /\ work \in [Priority -> Seq(Entry)] /\ \A q \in Priority : ~In(e, work[q])
      /\ Distinct(work[p])
  BY <1>0 DEF WQTypeOK, Free, Pending, OnePlace
<1>2. /\ Append(work[p], e) \in Seq(Entry) /\ Append(work[p], e) # <<>>
      /\ Distinct(Append(work[p], e))
      /\ \A x : In(x, Append(work[p], e)) <=> In(x, work[p]) \/ x = e
  BY <1>1, AppendMembers
<1>3. /\ work' \in [Priority -> Seq(Entry)]
      /\ work'[p] = Append(work[p], e)
      /\ \A q \in Priority : q # p => work'[q] = work[q]
  BY <1>0, <1>1, <1>2
<1>4. \A x \in Entry : Pending(x)' <=> Pending(x) \/ x = e
  BY <1>2, <1>3 DEF Pending
<1>5. OnePlace'
  <2>1. \A q \in Priority : Distinct(work'[q])
    BY <1>2, <1>3 DEF OnePlace
  <2>2. \A q, r \in Priority : \A x \in Entry : In(x, work'[q]) /\ In(x, work'[r]) => q = r
    BY <1>1, <1>2, <1>3 DEF OnePlace
  <2> QED  BY <2>1, <2>2, <1>0, SMT DEF OnePlace, Distinct, In
<1> QED  BY <1>0, <1>2, <1>3, <1>4, <1>5 DEF QueuedOnly, Running, Answered

CancelledOnly(e) == /\ Pending(e)
                    /\ \A x \in Entry : Pending(x)' <=> Pending(x) /\ x # e
                    /\ \A x \in Entry : (Running(x)' <=> Running(x)) /\ (Answered(x)' <=> Answered(x))
                    /\ replying' = replying

LEMMA CancelEffect ==
    ASSUME WQTypeOK, OnePlace, NEW e \in Entry, workqueue_entry_cancel(e)
    PROVE  /\ work' \in [Priority -> Seq(Entry)]
           /\ \A q \in Priority : work[q] = <<>> => work'[q] = <<>>
           /\ OnePlace'
           /\ CancelledOnly(e)
<1>p. PICK p \in Priority : \E k \in 1..Len(work[p]) :
         /\ work[p][k] = e
         /\ work' = [work EXCEPT ![p] = TailqRemove(work[p], k)]
  BY DEF workqueue_entry_cancel
<1>0. PICK k \in 1..Len(work[p]) :
         /\ work[p][k] = e
         /\ work' = [work EXCEPT ![p] = TailqRemove(work[p], k)]
  BY <1>p
<1>a. UNCHANGED <<job, answers, replying>>
  BY DEF workqueue_entry_cancel, threadvars, replyvars
<1>1. work \in [Priority -> Seq(Entry)] /\ Distinct(work[p]) /\ In(e, work[p])
  BY <1>0 DEF WQTypeOK, OnePlace, In
<1>2. /\ TailqRemove(work[p], k) \in Seq(Entry)
      /\ Distinct(TailqRemove(work[p], k))
      /\ \A x : In(x, TailqRemove(work[p], k)) <=> In(x, work[p]) /\ x # e
  BY <1>0, <1>1, RemoveMembers
<1>3. /\ work' \in [Priority -> Seq(Entry)]
      /\ work'[p] = TailqRemove(work[p], k)
      /\ \A q \in Priority : q # p => work'[q] = work[q]
  BY <1>0, <1>1, <1>2
<1>4. \A q \in Priority : q # p => ~In(e, work[q])
  BY <1>1 DEF OnePlace
<1>5. /\ Pending(e)
      /\ \A x \in Entry : Pending(x)' <=> Pending(x) /\ x # e
  BY <1>1, <1>2, <1>3, <1>4 DEF Pending
<1>6. OnePlace'
  <2>1. \A q \in Priority : Distinct(work'[q])
    BY <1>2, <1>3 DEF OnePlace
  <2>a. \A q \in Priority : \A x \in Entry : In(x, work'[q]) => In(x, work[q])
    BY <1>2, <1>3
  <2>2. \A q, r \in Priority : \A x \in Entry : In(x, work'[q]) /\ In(x, work'[r]) => q = r
    BY <2>a DEF OnePlace
  <2> QED  BY <2>1, <2>2, <1>a DEF OnePlace, Distinct, In
<1>7. work[p] # <<>>
  BY <1>0, <1>1, EmptySeq, SMT
<1> QED  BY <1>a, <1>3, <1>5, <1>6, <1>7 DEF CancelledOnly, Running, Answered

StartedOnly(e) == /\ Pending(e)
                  /\ \A x \in Entry : Pending(x)' <=> Pending(x) /\ x # e
                  /\ \A x \in Entry : Running(x)' <=> Running(x) \/ x = e
                  /\ \A x \in Entry : Answered(x)' <=> Answered(x)
                  /\ replying' = replying

LEMMA TakeWorkEffect ==
    ASSUME WQTypeOK, OnePlace, Apart, JobsAtWork,
           NEW t \in Thread, NEW p \in Priority, TakeWork(t, p)
    PROVE  /\ work' \in [Priority -> Seq(Entry)]
           /\ \A q \in Priority : work[q] = <<>> => work'[q] = <<>>
           /\ Head(work[p]) \in Entry
           /\ OnePlace'
           /\ StartedOnly(Head(work[p]))
<1> DEFINE e == Head(work[p])
<1>0. /\ work' = [work EXCEPT ![p] = Tail(work[p])] /\ work[p] # <<>>
      /\ job' = [job EXCEPT ![t] = e] /\ pc[t] = "top"
      /\ UNCHANGED <<answers, replying>>
  BY DEF TakeWork, replyvars
<1>1. /\ work \in [Priority -> Seq(Entry)] /\ Distinct(work[p])
      /\ job \in [Thread -> Entry \cup {NULL}] /\ job[t] = NULL
  BY <1>0 DEF WQTypeOK, OnePlace, JobsAtWork
<1>2. /\ Tail(work[p]) \in Seq(Entry) /\ e \in Entry /\ In(e, work[p])
      /\ Distinct(Tail(work[p]))
      /\ \A x : In(x, Tail(work[p])) <=> In(x, work[p]) /\ x # e
  BY <1>0, <1>1, TailMembers
<1> HIDE DEF e
<1>3. /\ work' \in [Priority -> Seq(Entry)]
      /\ work'[p] = Tail(work[p])
      /\ \A q \in Priority : q # p => work'[q] = work[q]
  BY <1>0, <1>1, <1>2
<1>4. \A q \in Priority : q # p => ~In(e, work[q])
  BY <1>2 DEF OnePlace
<1>5. /\ Pending(e)
      /\ \A x \in Entry : Pending(x)' <=> Pending(x) /\ x # e
  BY <1>2, <1>3, <1>4 DEF Pending
<1>6. job'[t] = e /\ \A u \in Thread : u # t => job'[u] = job[u]
  BY <1>0, <1>1
<1>7. \A x \in Entry : Running(x)' <=> Running(x) \/ x = e
  BY <1>6, <1>1, WorkQueueAssumption DEF Running
<1>8. OnePlace'
  <2>1. \A q \in Priority : Distinct(work'[q])
    BY <1>2, <1>3 DEF OnePlace
  <2>a. \A q \in Priority : \A x \in Entry : In(x, work'[q]) => In(x, work[q])
    BY <1>2, <1>3
  <2>2. \A q, r \in Priority : \A x \in Entry : In(x, work'[q]) /\ In(x, work'[r]) => q = r
    BY <2>a DEF OnePlace
  <2>3. \A u \in Thread : job[u] # e
    BY <1>2, <1>5 DEF Apart, Running
  <2>4. \A u, v \in Thread : job'[u] = job'[v] /\ job'[u] # NULL => u = v
    BY <2>3, <1>6 DEF OnePlace
  <2> QED  BY <2>1, <2>2, <2>4, <1>0 DEF OnePlace, Distinct, In
<1> QED  BY <1>0, <1>2, <1>3, <1>5, <1>7, <1>8 DEF StartedOnly, Answered, e

FinishedOnly(e) == /\ Running(e)
                   /\ \A x \in Entry : Pending(x)' <=> Pending(x)
                   /\ \A x \in Entry : Running(x)' <=> Running(x) /\ x # e
                   /\ \A x \in Entry : Answered(x)' <=> Answered(x) \/ x = e
                   /\ replying' = replying

LEMMA QueueReplyEffect ==
    ASSUME WQTypeOK, OnePlace, Apart, JobsAtWork, NEW t \in Thread, queue_reply(t)
    PROVE  /\ answers' \in Seq(Entry) /\ answers' # <<>>
           /\ job[t] \in Entry
           /\ OnePlace'
           /\ FinishedOnly(job[t])
<1> DEFINE e == job[t]
<1>0. /\ answers' = Append(answers, e) /\ pc[t] = "work"
      /\ job' = [job EXCEPT ![t] = NULL]
      /\ UNCHANGED <<work, replying>>
  BY DEF queue_reply, poolvars
<1>1. /\ answers \in Seq(Entry) /\ Distinct(answers)
      /\ job \in [Thread -> Entry \cup {NULL}] /\ e # NULL /\ e \in Entry
  BY <1>0 DEF WQTypeOK, OnePlace, JobsAtWork
<1>2. Running(e) /\ ~In(e, answers)
  BY <1>1 DEF Running, Apart, Answered
<1>3. /\ Append(answers, e) \in Seq(Entry) /\ Append(answers, e) # <<>>
      /\ Distinct(Append(answers, e))
      /\ \A x : In(x, Append(answers, e)) <=> In(x, answers) \/ x = e
  BY <1>1, <1>2, AppendMembers, SMT
<1>4. job'[t] = NULL /\ \A u \in Thread : u # t => job'[u] = job[u]
  BY <1>0, <1>1
<1>5. \A u \in Thread : u # t => job[u] # e
  BY <1>1 DEF OnePlace
<1> HIDE DEF e
<1>6. \A x \in Entry : Running(x)' <=> Running(x) /\ x # e
  BY <1>4, <1>5, WorkQueueAssumption DEF Running, e
<1>7. \A x \in Entry : (Pending(x)' <=> Pending(x)) /\ (Answered(x)' <=> Answered(x) \/ x = e)
  BY <1>0, <1>3 DEF Pending, Answered, In
<1>8. OnePlace'
  <2>1. \A u, v \in Thread : job'[u] = job'[v] /\ job'[u] # NULL => u = v
    BY <1>4 DEF OnePlace
  <2>2. Distinct(answers')
    BY <1>0, <1>3
  <2>3. (\A q \in Priority : Distinct(work[q]))'
    BY <1>0 DEF OnePlace, Distinct
  <2>4. (\A q, r \in Priority : \A x \in Entry : In(x, work[q]) /\ In(x, work[r]) => q = r)'
    BY <1>0 DEF OnePlace, In
  <2> QED  BY <2>1, <2>2, <2>3, <2>4 DEF OnePlace, Distinct
<1> QED  BY <1>0, <1>1, <1>2, <1>3, <1>6, <1>7, <1>8 DEF FinishedOnly, e

RepliedOnly(e) == /\ Answered(e) /\ replying = NULL
                  /\ \A x \in Entry : (Pending(x)' <=> Pending(x)) /\ (Running(x)' <=> Running(x))
                  /\ \A x \in Entry : Answered(x)' <=> Answered(x) /\ x # e
                  /\ replying' = e

LEMMA TakeAnswerEffect ==
    ASSUME WQTypeOK, OnePlace, JobsAtWork, TakeAnswer
    PROVE  /\ answers' \in Seq(Entry)
           /\ Head(answers) \in Entry
           /\ OnePlace'
           /\ RepliedOnly(Head(answers))
<1> DEFINE e == Head(answers)
<1>0. /\ answers' = Tail(answers) /\ answers # <<>> /\ replying' = e
      /\ UNCHANGED <<work, job>> /\ replying = NULL
  BY DEF TakeAnswer, JobsAtWork, poolvars, threadvars
<1>1. answers \in Seq(Entry) /\ Distinct(answers)
  BY DEF WQTypeOK, OnePlace
<1>2. /\ Tail(answers) \in Seq(Entry) /\ e \in Entry /\ In(e, answers)
      /\ Distinct(Tail(answers))
      /\ \A x : In(x, Tail(answers)) <=> In(x, answers) /\ x # e
  BY <1>0, <1>1, TailMembers
<1> HIDE DEF e
<1>3. OnePlace'
  <2>1. Distinct(answers')
    BY <1>0, <1>2
  <2>2. (\A q \in Priority : Distinct(work[q]))'
    BY <1>0 DEF OnePlace, Distinct
  <2>3. (\A q, r \in Priority : \A x \in Entry : In(x, work[q]) /\ In(x, work[r]) => q = r)'
    BY <1>0 DEF OnePlace, In
  <2>4. (\A t, u \in Thread : job[t] = job[u] /\ job[t] # NULL => t = u)'
    BY <1>0 DEF OnePlace
  <2> QED  BY <2>1, <2>2, <2>3, <2>4 DEF OnePlace, Distinct
<1>4. \A x \in Entry : (Pending(x)' <=> Pending(x)) /\ (Running(x)' <=> Running(x))
  BY <1>0 DEF Pending, Running, In
<1>5. Answered(e) /\ \A x \in Entry : Answered(x)' <=> Answered(x) /\ x # e
  BY <1>0, <1>2 DEF Answered
<1> QED  BY <1>0, <1>2, <1>3, <1>4, <1>5 DEF RepliedOnly, e

-----------------------------------------------------------------------------
\* The steps that move no entry

StaysPut == /\ \A x \in Entry : (Pending(x)' <=> Pending(x)) /\ (Running(x)' <=> Running(x))
            /\ \A x \in Entry : Answered(x)' <=> Answered(x)
            /\ replying' = replying

LEMMA UnchangedEffect ==
    ASSUME OnePlace, UNCHANGED <<work, job, answers, replying>>
    PROVE  OnePlace' /\ StaysPut
<1>1. OnePlace'
  BY SMT DEF OnePlace, Distinct, In
<1>2. StaysPut
  BY DEF StaysPut, Pending, Running, Answered, In
<1> QED  BY <1>1, <1>2

\* Any of these effects keeps the places apart, and is a step of WorkItems.
Moves(e) == \/ Free(e) /\ QueuedOnly(e)
            \/ CancelledOnly(e) \/ StartedOnly(e) \/ FinishedOnly(e) \/ RepliedOnly(e)
            \/ /\ replying = e /\ replying' = NULL
               /\ \A x \in Entry : (Pending(x)' <=> Pending(x)) /\ (Running(x)' <=> Running(x))
               /\ \A x \in Entry : Answered(x)' <=> Answered(x)

\* No entry has its reply function running while another one does.
LEMMA MovesKeepApart ==
    ASSUME Apart, NEW e \in Entry, Moves(e)
    PROVE  Apart'
<1>0. NULL \notin Entry
  BY WorkQueueAssumption
<1>1. CASE Free(e) /\ QueuedOnly(e)
  BY <1>1 DEF Apart, Free, QueuedOnly
<1>2. CASE CancelledOnly(e)
  BY <1>2 DEF Apart, CancelledOnly
<1>3. CASE StartedOnly(e)
  BY <1>3 DEF Apart, StartedOnly
<1>4. CASE FinishedOnly(e)
  BY <1>4 DEF Apart, FinishedOnly
<1>5. CASE RepliedOnly(e)
  BY <1>5 DEF Apart, RepliedOnly
<1>6. CASE /\ replying = e /\ replying' = NULL
           /\ \A x \in Entry : (Pending(x)' <=> Pending(x)) /\ (Running(x)' <=> Running(x))
           /\ \A x \in Entry : Answered(x)' <=> Answered(x)
  BY <1>0, <1>6 DEF Apart
<1> QED  BY <1>1, <1>2, <1>3, <1>4, <1>5, <1>6 DEF Moves

\* Every step of the pool moves one entry or none.
LEMMA StepMoves ==
    ASSUME WQTypeOK, OnePlace, Apart, JobsAtWork, [WQNext]_wqvars
    PROVE  /\ OnePlace' /\ Apart'
           /\ StaysPut \/ \E e \in Entry : Moves(e)
<1> DEFINE Goal == OnePlace' /\ (StaysPut \/ \E e \in Entry : Moves(e))
<1>1. ASSUME NEW p \in Priority, NEW e \in Entry, threadpool_queue_work_priority(p, e) PROVE Goal
  <2>1. Free(e)
    BY <1>1 DEF threadpool_queue_work_priority
  <2> QED  BY <1>1, <2>1, QueueEffect DEF Moves
<1>2. ASSUME NEW e \in Entry, workqueue_entry_cancel(e) PROVE Goal
  BY <1>2, CancelEffect DEF Moves
<1>3. ASSUME NEW t \in Thread, NEW p \in Priority, TakeWork(t, p) PROVE Goal
  BY <1>3, TakeWorkEffect DEF Moves
<1>4. ASSUME NEW t \in Thread, queue_reply(t) PROVE Goal
  BY <1>4, QueueReplyEffect DEF Moves
<1>5. ASSUME TakeAnswer PROVE Goal
  BY <1>5, TakeAnswerEffect DEF Moves
<1>6. ASSUME ReplyReturns PROVE Goal
  <2>1. UNCHANGED <<work, job, answers>> /\ replying' = NULL /\ main = "reply"
    BY <1>6 DEF ReplyReturns, poolvars, threadvars
  <2>2. replying \in Entry
    BY <2>1 DEF JobsAtWork, WQTypeOK
  <2>3. /\ \A x \in Entry : (Pending(x)' <=> Pending(x)) /\ (Running(x)' <=> Running(x))
        /\ \A x \in Entry : Answered(x)' <=> Answered(x)
    BY <2>1 DEF Pending, Running, Answered, In
  <2>4. OnePlace'
    BY <2>1, SMT DEF OnePlace, Distinct, In
  <2> QED  BY <2>1, <2>2, <2>3, <2>4 DEF Moves
<1>7. ASSUME NEW t \in Thread, \/ TakeUpdate(t) \/ RunUpdate(t) \/ Alert(t) \/ Sleep(t) \/ SpuriousWake(t)
      PROVE  Goal
  <2>1. UNCHANGED <<work, job, answers, replying>>
    BY <1>7 DEF TakeUpdate, RunUpdate, Alert, Sleep, SpuriousWake, poolvars, threadvars, replyvars
  <2> QED  BY <2>1, UnchangedEffect
<1>8. ASSUME threadpool_queue_update \/ reply_event_cb \/ ProcessEnds \/ UNCHANGED wqvars
      PROVE  Goal
  <2>1. UNCHANGED <<work, job, answers, replying>>
    BY <1>8 DEF threadpool_queue_update, reply_event_cb, ProcessEnds, wqvars, poolvars, threadvars, replyvars
  <2> QED  BY <2>1, UnchangedEffect
<1>9. Goal
  BY <1>1, <1>2, <1>3, <1>4, <1>5, <1>6, <1>7, <1>8 DEF WQNext, ThreadStep, ReplyStep
<1>10. CASE StaysPut
  BY <1>9, <1>10 DEF StaysPut, Apart
<1> QED  BY <1>9, <1>10, MovesKeepApart

-----------------------------------------------------------------------------
\* The remaining conjuncts of the invariant.

LEMMA TypesKept ==
    ASSUME WQTypeOK, OnePlace, Apart, JobsAtWork, [WQNext]_wqvars
    PROVE  WQTypeOK'
<1>1. ASSUME NEW p \in Priority, NEW e \in Entry, threadpool_queue_work_priority(p, e) PROVE WQTypeOK'
  <2>1. work' \in [Priority -> Seq(Entry)]
    BY <1>1, QueueEffect
  <2>2. pc' \in [Thread -> {"top", "wait", "update", "work", "alert"}]
    BY <1>1 DEF threadpool_queue_work_priority, SignalOne, Waiting, WQTypeOK
  <2> QED
    BY <1>1, <2>1, <2>2 DEF threadpool_queue_work_priority, WQTypeOK, threadvars, replyvars
<1>2. ASSUME NEW e \in Entry, workqueue_entry_cancel(e) PROVE WQTypeOK'
  <2>1. work' \in [Priority -> Seq(Entry)]
    BY <1>2, CancelEffect
  <2>2. UNCHANGED <<generation, update_args, pc, threadvars, replyvars>>
    BY <1>2 DEF workqueue_entry_cancel
  <2> QED  BY <2>1, <2>2 DEF WQTypeOK, threadvars, replyvars
<1>3. ASSUME NEW t \in Thread, NEW p \in Priority, TakeWork(t, p) PROVE WQTypeOK'
  <2>1. work' \in [Priority -> Seq(Entry)] /\ Head(work[p]) \in Entry
    BY <1>3, TakeWorkEffect
  <2> QED  BY <1>3, <2>1 DEF TakeWork, WQTypeOK, replyvars
<1>4. ASSUME NEW t \in Thread, queue_reply(t) PROVE WQTypeOK'
  <2>1. answers' \in Seq(Entry)
    BY <1>4, QueueReplyEffect
  <2>2. pc' \in [Thread -> {"top", "wait", "update", "work", "alert"}]
    BY <1>4 DEF queue_reply, WQTypeOK
  <2> QED  BY <1>4, <2>1, <2>2 DEF queue_reply, WQTypeOK, poolvars
<1>5. CASE TakeAnswer
  <2>1. answers' \in Seq(Entry) /\ Head(answers) \in Entry
    BY <1>5, TakeAnswerEffect
  <2> QED  BY <1>5, <2>1 DEF TakeAnswer, WQTypeOK, poolvars, threadvars
<1>6. CASE threadpool_queue_update
  <2>1. /\ generation' \in 0..MaxGeneration
        /\ update_args' \in [Thread -> 0..MaxGeneration]
    BY <1>6, WorkQueueAssumption, SMT DEF threadpool_queue_update, WQTypeOK
  <2>2. pc' \in [Thread -> {"top", "wait", "update", "work", "alert"}]
    BY <1>6 DEF threadpool_queue_update, SignalAll, Waiting, WQTypeOK
  <2> QED  BY <1>6, <2>1, <2>2 DEF threadpool_queue_update, WQTypeOK, threadvars, replyvars
<1>7. ASSUME NEW t \in Thread, TakeUpdate(t) PROVE WQTypeOK'
  BY <1>7, WorkQueueAssumption, SMT DEF TakeUpdate, WQTypeOK, replyvars
<1>8. ASSUME NEW t \in Thread, RunUpdate(t) PROVE WQTypeOK'
  BY <1>8, WorkQueueAssumption, SMT DEF RunUpdate, WQTypeOK, poolvars, replyvars
<1>9. ASSUME NEW t \in Thread, Alert(t) \/ Sleep(t) \/ SpuriousWake(t) PROVE WQTypeOK'
  BY <1>9 DEF Alert, Sleep, SpuriousWake, WQTypeOK, poolvars, threadvars, replyvars
<1>10. CASE reply_event_cb \/ ReplyReturns \/ ProcessEnds
  BY <1>10 DEF reply_event_cb, ReplyReturns, ProcessEnds, WQTypeOK, poolvars, threadvars
<1>11. CASE UNCHANGED wqvars
  BY <1>11 DEF wqvars, WQTypeOK, poolvars, threadvars, replyvars
<1> QED
  BY <1>1, <1>2, <1>3, <1>4, <1>5, <1>6, <1>7, <1>8, <1>9, <1>10, <1>11
  DEF WQNext, ThreadStep, ReplyStep

\* What the steps do to a thread that does not take them.
LEMMA OthersStep ==
    ASSUME WQTypeOK, NEW t \in Thread, ThreadStep(t) \/ SpuriousWake(t), NEW u \in Thread, u # t
    PROVE  /\ pc'[u] = pc[u] /\ job'[u] = job[u] /\ tgen'[u] = tgen[u] /\ targ'[u] = targ[u]
           /\ tstate'[u] = tstate[u] /\ update_args'[u] = update_args[u]
<1>1. CASE TakeUpdate(t)   BY <1>1 DEF TakeUpdate, WQTypeOK
<1>2. CASE RunUpdate(t)    BY <1>2 DEF RunUpdate, WQTypeOK, poolvars
<1>3. ASSUME NEW p \in Priority, TakeWork(t, p)
      PROVE  /\ pc'[u] = pc[u] /\ job'[u] = job[u] /\ tgen'[u] = tgen[u] /\ targ'[u] = targ[u]
             /\ tstate'[u] = tstate[u] /\ update_args'[u] = update_args[u]
  BY <1>3 DEF TakeWork, WQTypeOK
<1>4. CASE queue_reply(t)  BY <1>4 DEF queue_reply, WQTypeOK, poolvars
<1>5. CASE Alert(t) \/ Sleep(t) \/ SpuriousWake(t)
  BY <1>5 DEF Alert, Sleep, SpuriousWake, WQTypeOK, poolvars, threadvars
<1> QED  BY <1>1, <1>2, <1>3, <1>4, <1>5 DEF ThreadStep

\* What the main thread's steps do to the threads.
LEMMA MainStepsThreads ==
    ASSUME WQTypeOK,
           \/ \E p \in Priority, e \in Entry : threadpool_queue_work_priority(p, e)
           \/ \E e \in Entry : workqueue_entry_cancel(e)
           \/ threadpool_queue_update \/ ReplyStep \/ UNCHANGED wqvars
    PROVE  /\ UNCHANGED <<job, tgen, targ, tstate>>
           /\ \A t \in Thread : pc'[t] = pc[t] \/ (pc[t] = "wait" /\ pc'[t] = "top")
<1>1. ASSUME NEW p \in Priority, NEW e \in Entry, threadpool_queue_work_priority(p, e)
      PROVE  /\ UNCHANGED <<job, tgen, targ, tstate>>
             /\ \A t \in Thread : pc'[t] = pc[t] \/ (pc[t] = "wait" /\ pc'[t] = "top")
  BY <1>1 DEF threadpool_queue_work_priority, SignalOne, Waiting, threadvars, WQTypeOK
<1>2. ASSUME NEW e \in Entry, workqueue_entry_cancel(e)
      PROVE  UNCHANGED <<pc, job, tgen, targ, tstate>>
  BY <1>2 DEF workqueue_entry_cancel, threadvars
<1>3. CASE threadpool_queue_update
  BY <1>3 DEF threadpool_queue_update, SignalAll, Waiting, threadvars, WQTypeOK
<1>4. CASE ReplyStep \/ UNCHANGED wqvars
  BY <1>4 DEF ReplyStep, reply_event_cb, TakeAnswer, ReplyReturns, ProcessEnds, threadvars, wqvars
<1> QED  BY <1>1, <1>2, <1>3, <1>4

MainSteps == \/ \E p \in Priority, e \in Entry : threadpool_queue_work_priority(p, e)
             \/ \E e \in Entry : workqueue_entry_cancel(e)
             \/ threadpool_queue_update \/ ReplyStep \/ UNCHANGED wqvars

LEMMA StepCases ==
    ASSUME [WQNext]_wqvars
    PROVE  MainSteps \/ \E t \in Thread : ThreadStep(t) \/ SpuriousWake(t)
BY DEF WQNext, MainSteps

LEMMA JobsAtWorkKept ==
    ASSUME WQTypeOK, JobsAtWork, OnePlace, Apart, [WQNext]_wqvars
    PROVE  JobsAtWork'
<1>0. NULL \notin Entry
  BY WorkQueueAssumption
<1>1. ASSUME MainSteps PROVE JobsAtWork'
  <2>1. \A t \in Thread : (job'[t] # NULL) <=> (pc'[t] = "work")
    BY <1>1, MainStepsThreads DEF MainSteps, JobsAtWork
  <2>2. (replying' # NULL) <=> (main' = "reply")
    <3>1. CASE TakeAnswer
      <4>1. Head(answers) \in Entry  BY <3>1, TakeAnswerEffect
      <4> QED  BY <3>1, <4>1, <1>0 DEF TakeAnswer
    <3>2. CASE ReplyReturns \/ reply_event_cb \/ ProcessEnds
      BY <3>2 DEF ReplyReturns, reply_event_cb, ProcessEnds, JobsAtWork
    <3>3. CASE UNCHANGED <<main, replying>>
      BY <3>3 DEF JobsAtWork
    <3> QED
      BY <1>1, <3>1, <3>2, <3>3
      DEF MainSteps, ReplyStep, threadpool_queue_work_priority, workqueue_entry_cancel,
          threadpool_queue_update, wqvars, replyvars
  <2> QED  BY <2>1, <2>2 DEF JobsAtWork
<1>2. ASSUME NEW t \in Thread, ThreadStep(t) \/ SpuriousWake(t) PROVE JobsAtWork'
  <2>1. \A u \in Thread \ {t} : (job'[u] # NULL) <=> (pc'[u] = "work")
    BY <1>2, OthersStep, SMT DEF JobsAtWork
  <2>2. UNCHANGED <<main, replying>>
    BY <1>2 DEF ThreadStep, TakeUpdate, RunUpdate, TakeWork, queue_reply, Alert, Sleep, SpuriousWake, replyvars
  <2>3. (job'[t] # NULL) <=> (pc'[t] = "work")
    <3>1. ASSUME NEW p \in Priority, TakeWork(t, p) PROVE job'[t] # NULL /\ pc'[t] = "work"
      <4>1. Head(work[p]) \in Entry  BY <3>1, TakeWorkEffect
      <4> QED  BY <3>1, <4>1, <1>0 DEF TakeWork, WQTypeOK
    <3>2. CASE queue_reply(t)
      BY <3>2 DEF queue_reply, WQTypeOK
    <3>3. CASE TakeUpdate(t) \/ RunUpdate(t) \/ Alert(t) \/ Sleep(t) \/ SpuriousWake(t)
      <4>1. job' = job /\ pc[t] # "work" /\ pc'[t] # "work"
        BY <3>3 DEF TakeUpdate, RunUpdate, Alert, Sleep, SpuriousWake, WQTypeOK, threadvars
      <4> QED  BY <4>1 DEF JobsAtWork
    <3> QED  BY <1>2, <3>1, <3>2, <3>3 DEF ThreadStep
  <2> QED  BY <2>1, <2>2, <2>3 DEF JobsAtWork
<1> QED  BY <1>1, <1>2, StepCases

LEMMA UpdatesKept ==
    ASSUME WQTypeOK, Generations, UpdateArgsOwned, [WQNext]_wqvars
    PROVE  Generations' /\ UpdateArgsOwned'
<1> DEFINE Own(t) == /\ update_args[t] \in {0, generation}
                     /\ targ[t] <= generation
                     /\ tgen[t] <= generation
                     /\ tgen[t] = generation /\ targ[t] # 0 => targ[t] = generation
                     /\ (tgen[t] # generation) <=> (update_args[t] # 0)
                     /\ (pc[t] = "update") <=> (targ[t] # 0)
                     /\ targ[t] # 0 => targ[t] # update_args[t]
                     /\ tgen[t] = generation /\ targ[t] = 0 => tstate[t] = generation
<1>0. \A t \in Thread : Own(t)
  BY DEF Generations, UpdateArgsOwned
<1>00. \A t \in Thread : /\ generation \in Nat /\ update_args[t] \in Nat /\ targ[t] \in Nat
                         /\ tgen[t] \in Nat /\ tstate[t] \in Nat
  BY WorkQueueAssumption, SMT DEF WQTypeOK
<1> SUFFICES ASSUME NEW t \in Thread PROVE Own(t)'
  BY DEF Generations, UpdateArgsOwned
<1>1. CASE threadpool_queue_update
  <2>1. /\ generation' = generation + 1 /\ update_args'[t] = generation + 1
        /\ targ' = targ /\ tgen' = tgen /\ tstate' = tstate
        /\ (pc'[t] = "update") <=> (pc[t] = "update")
    BY <1>1 DEF threadpool_queue_update, SignalAll, Waiting, threadvars, WQTypeOK
  <2> QED  BY <2>1, <1>0, <1>00, SMT
<1>2. ASSUME MainSteps, ~threadpool_queue_update PROVE Own(t)'
  <2>1. UNCHANGED <<generation, update_args>>
    BY <1>2 DEF MainSteps, threadpool_queue_work_priority, workqueue_entry_cancel,
                ReplyStep, reply_event_cb, TakeAnswer, ReplyReturns, ProcessEnds, wqvars, poolvars
  <2>2. UNCHANGED <<tgen, targ, tstate>> /\ ((pc'[t] = "update") <=> (pc[t] = "update"))
    BY <1>2, MainStepsThreads DEF MainSteps
  <2> QED  BY <2>1, <2>2, <1>0
<1>3. ASSUME NEW u \in Thread, ThreadStep(u) \/ SpuriousWake(u) PROVE Own(t)'
  <2>1. generation' = generation
    BY <1>3 DEF ThreadStep, TakeUpdate, RunUpdate, TakeWork, queue_reply, Alert, Sleep, SpuriousWake, poolvars
  <2>2. CASE t # u
    BY <1>3, <2>1, <2>2, OthersStep, <1>0, SMT
  <2>3. CASE TakeUpdate(t)
    <3>1. /\ pc[t] = "top" /\ pc'[t] = "update" /\ tgen[t] # generation /\ tgen'[t] = generation
          /\ targ'[t] = update_args[t] /\ update_args'[t] = 0 /\ tstate'[t] = tstate[t]
      BY <2>3 DEF TakeUpdate, WQTypeOK
    <3> QED  BY <3>1, <2>1, <1>0, <1>00, SMT
  <2>4. CASE RunUpdate(t)
    <3>1. /\ pc[t] = "update" /\ pc'[t] = "top" /\ tgen'[t] = tgen[t]
          /\ targ'[t] = 0 /\ update_args'[t] = update_args[t] /\ tstate'[t] = targ[t]
      BY <2>4 DEF RunUpdate, poolvars, WQTypeOK
    <3> QED  BY <3>1, <2>1, <1>0, <1>00, SMT
  <2>5. ASSUME (\E p \in Priority : TakeWork(t, p)) \/ queue_reply(t) \/ Alert(t) \/ Sleep(t) \/ SpuriousWake(t)
        PROVE  Own(t)'
    <3>1. /\ pc[t] # "update" /\ pc'[t] # "update"
          /\ UNCHANGED <<tgen, targ, tstate, update_args>>
      BY <2>5 DEF TakeWork, queue_reply, Alert, Sleep, SpuriousWake, poolvars, threadvars, WQTypeOK
    <3> QED  BY <3>1, <2>1, <1>0
  <2> QED  BY <1>3, <2>2, <2>3, <2>4, <2>5 DEF ThreadStep
<1> QED  BY <1>1, <1>2, <1>3, StepCases

LEMMA WakeupKept ==
    ASSUME WQTypeOK, WakeupPending, [WQNext]_wqvars
    PROVE  WakeupPending'
<1> SUFFICES ASSUME answers' # <<>>, main' = "loop"
             PROVE  alert' \/ \E t \in Thread : pc'[t] = "alert"
  BY DEF WakeupPending
<1>1. ASSUME MainSteps PROVE alert' \/ \E t \in Thread : pc'[t] = "alert"
  <2>1. UNCHANGED <<answers, main, alert>>
    BY <1>1 DEF MainSteps, threadpool_queue_work_priority, workqueue_entry_cancel, threadpool_queue_update,
                ReplyStep, reply_event_cb, TakeAnswer, ReplyReturns, ProcessEnds, wqvars, replyvars
  <2>2. \A t \in Thread : pc[t] = "alert" => pc'[t] = "alert"
    BY <1>1, MainStepsThreads DEF MainSteps
  <2> QED  BY <2>1, <2>2 DEF WakeupPending
<1>2. ASSUME NEW t \in Thread, ThreadStep(t) \/ SpuriousWake(t)
      PROVE  alert' \/ \E u \in Thread : pc'[u] = "alert"
  <2>1. CASE Alert(t)
    BY <2>1 DEF Alert
  <2>2. CASE queue_reply(t) /\ answers = <<>>
    BY <2>2 DEF queue_reply, WQTypeOK
  <2>3. ASSUME ~Alert(t), ~(queue_reply(t) /\ answers = <<>>)
        PROVE  pc[t] # "alert" /\ answers # <<>> /\ alert' = alert /\ main' = main
    BY <1>2, <2>3
    DEF ThreadStep, TakeUpdate, RunUpdate, TakeWork, queue_reply, Sleep, SpuriousWake, replyvars
  <2> QED  BY <1>2, <2>1, <2>2, <2>3, OthersStep DEF WakeupPending
<1> QED  BY <1>1, <1>2, StepCases

LEMMA SignalsKept ==
    ASSUME WQTypeOK, OnePlace, NoLostSignal, [WQNext]_wqvars
    PROVE  NoLostSignal'
<1>1. ASSUME NEW p \in Priority, NEW e \in Entry, threadpool_queue_work_priority(p, e) PROVE NoLostSignal'
  <2>1. UNCHANGED <<generation, tgen>> /\ SignalOne
    BY <1>1 DEF threadpool_queue_work_priority, threadvars
  <2>2. Waiting' # Thread /\ Waiting' \subseteq Waiting
    BY <2>1, WorkQueueAssumption DEF SignalOne, Waiting, WQTypeOK
  <2> QED  BY <2>1, <2>2 DEF NoLostSignal
<1>2. ASSUME NEW e \in Entry, workqueue_entry_cancel(e) PROVE NoLostSignal'
  <2>1. UNCHANGED <<generation, tgen, pc>>
    BY <1>2 DEF workqueue_entry_cancel, threadvars
  <2>2. ASSUME NEW q \in Priority, work'[q] # <<>> PROVE \E p \in Priority : work[p] # <<>>
    <3>1. PICK p \in Priority : \E i \in 1..Len(work[p]) : work[p][i] = e
      BY <1>2 DEF workqueue_entry_cancel
    <3>2. work[p] # <<>>
      BY <3>1, SMT
    <3> QED  BY <3>2
  <2> QED  BY <2>1, <2>2 DEF NoLostSignal, Waiting
<1>3. CASE threadpool_queue_update
  <2>1. Waiting' = {} /\ work' = work
    BY <1>3 DEF threadpool_queue_update, SignalAll, Waiting
  <2> QED  BY <2>1, WorkQueueAssumption DEF NoLostSignal
<1>4. CASE ReplyStep \/ UNCHANGED wqvars
  <2>1. UNCHANGED <<work, pc, generation, tgen>>
    BY <1>4 DEF ReplyStep, reply_event_cb, TakeAnswer, ReplyReturns, ProcessEnds, wqvars, poolvars, threadvars
  <2> QED  BY <2>1 DEF NoLostSignal, Waiting
<1>5. ASSUME NEW t \in Thread, ThreadStep(t) \/ SpuriousWake(t) PROVE NoLostSignal'
  <2>1. generation' = generation
    BY <1>5 DEF ThreadStep, TakeUpdate, RunUpdate, TakeWork, queue_reply, Alert, Sleep, SpuriousWake, poolvars
  <2>2. CASE Sleep(t)
    <3>1. /\ tgen' = tgen /\ work' = work /\ tgen[t] = generation
          /\ \A p \in Priority : work[p] = <<>>
      BY <2>2 DEF Sleep, threadvars, poolvars
    <3> QED  BY <1>5, <2>1, <3>1, OthersStep DEF NoLostSignal, Waiting
  <2>3. ASSUME ~Sleep(t) PROVE pc'[t] # "wait"
    BY <1>5, <2>3 DEF ThreadStep, TakeUpdate, RunUpdate, TakeWork, queue_reply, Alert, SpuriousWake, WQTypeOK
  <2>4. ASSUME ~Sleep(t) PROVE NoLostSignal'
    <3>1. t \notin Waiting'
      BY <2>3, <2>4 DEF Waiting
    <3>2. ASSUME NEW u \in Thread, u \in Waiting' PROVE tgen'[u] = generation'
      <4>1. u # t
        BY <3>1, <3>2
      <4>2. pc'[u] = pc[u] /\ tgen'[u] = tgen[u]
        BY <1>5, <4>1, OthersStep
      <4>3. u \in Waiting
        BY <3>2, <4>2 DEF Waiting
      <4> QED  BY <2>1, <4>2, <4>3 DEF NoLostSignal
    <3> QED  BY <1>5, <3>1, <3>2 DEF NoLostSignal, Waiting
  <2> QED  BY <2>2, <2>4
<1> QED  BY <1>1, <1>2, <1>3, <1>4, <1>5, StepCases DEF MainSteps

LEMMA WQInitEmpty ==
    ASSUME WQInit
    PROVE  /\ \A p \in Priority : Len(work[p]) = 0
           /\ Len(answers) = 0
           /\ \A e : ~In(e, answers)
           /\ \A p \in Priority : \A e : ~In(e, work[p])
           /\ \A e \in Entry : ~Pending(e) /\ ~Running(e) /\ ~Answered(e) /\ replying # e
<1>1. /\ \A p \in Priority : Len(work[p]) = 0
      /\ Len(answers) = 0
  BY DEF WQInit
<1>2. /\ \A e : ~In(e, answers)
      /\ \A p \in Priority : \A e : ~In(e, work[p])
  BY <1>1, SMT DEF In
<1>3. \A e \in Entry : ~Pending(e) /\ ~Answered(e)
  BY <1>2 DEF Pending, Answered
<1>4. \A e \in Entry : ~Running(e) /\ replying # e
  BY WorkQueueAssumption DEF WQInit, Running
<1> QED  BY <1>1, <1>2, <1>3, <1>4

-----------------------------------------------------------------------------
LEMMA WQInitInv ==
    ASSUME WQInit
    PROVE  WQInv
<1>0. work \in [Priority -> Seq(Entry)] /\ answers \in Seq(Entry)
  <2>1. <<>> \in Seq(Entry)  BY SMT
  <2> QED  BY <2>1 DEF WQInit
<1>1. WQTypeOK
  <2>1. 0 \in 0..MaxGeneration  BY WorkQueueAssumption, SMT
  <2> QED  BY <1>0, <2>1 DEF WQInit, WQTypeOK
<1>2. OnePlace /\ Apart
  <2>1. Apart
    BY WQInitEmpty DEF Apart
  <2>2. Distinct(answers) /\ \A p \in Priority : Distinct(work[p])
    BY WQInitEmpty, SMT DEF Distinct
  <2>3. \A t \in Thread : job[t] = NULL
    BY DEF WQInit
  <2> QED  BY <2>1, <2>2, <2>3, WQInitEmpty DEF OnePlace
<1>3. JobsAtWork /\ WakeupPending /\ NoLostSignal
  <2>1. \A t \in Thread : pc[t] # "wait" /\ pc[t] # "work" /\ job[t] = NULL
    BY DEF WQInit
  <2>2. Waiting = {} /\ Thread # {}
    BY <2>1, WorkQueueAssumption DEF Waiting
  <2>3. NoLostSignal
    BY <2>2 DEF NoLostSignal
  <2>4. JobsAtWork
    BY <2>1 DEF WQInit, JobsAtWork
  <2> QED  BY <2>3, <2>4 DEF WQInit, WakeupPending
<1>4. Generations /\ UpdateArgsOwned
  BY SMT DEF WQInit, Generations, UpdateArgsOwned
<1> QED  BY <1>1, <1>2, <1>3, <1>4 DEF WQInv

LEMMA WQStepInv ==
    ASSUME WQInv, [WQNext]_wqvars
    PROVE  WQInv'
BY TypesKept, StepMoves, JobsAtWorkKept, UpdatesKept, WakeupKept, SignalsKept DEF WQInv

\* Whatever calls the main thread makes, each entry of work is in one place
\* (a queue, a thread, the reply queue, the running reply function), no wake-up
\* of the main thread or of a worker is lost, and update arguments have one
\* owner.
THEOREM WorkQueueSafety == WQSpec => []WQInv
BY WQInitInv, WQStepInv, PTL DEF WQSpec

\* queue_reply and replyqueue_process never leave an answer without a wake-up.
THEOREM AnswersWakeMain == WQSpec => []WakeupPending
BY WorkQueueSafety, PTL DEF WQInv

\* A signal is never lost between worker_thread_has_work and tor_cond_wait.
THEOREM SignalsWakeWorkers == WQSpec => []NoLostSignal
BY WorkQueueSafety, PTL DEF WQInv

\* threadpool_queue_update never frees an argument a thread is using.
THEOREM UpdateArgsHaveOneOwner == WQSpec => []UpdateArgsOwned
BY WorkQueueSafety, PTL DEF WQInv

\* No work starts on keys older than the last update.
THEOREM WorkStartsUpToDate == WQSpec => StartsUpToDate
<1> DEFINE Fresh == \A t \in Thread : job'[t] # NULL /\ job'[t] # job[t] => tstate[t] = generation
<1>1. WQInv /\ [WQNext]_wqvars => [Fresh]_wqvars
  <2> SUFFICES ASSUME WQInv, [WQNext]_wqvars, NEW t \in Thread, job'[t] # NULL, job'[t] # job[t]
               PROVE  tstate[t] = generation
    OBVIOUS
  <2>1. ~MainSteps
    BY MainStepsThreads DEF MainSteps, WQInv
  <2>2. PICK u \in Thread : ThreadStep(u) \/ SpuriousWake(u)
    BY <2>1, StepCases
  <2>3. u = t
    BY <2>2, OthersStep DEF WQInv
  <2>4. \E p \in Priority : TakeWork(t, p)
    BY <2>2, <2>3
    DEF ThreadStep, TakeUpdate, RunUpdate, queue_reply, Alert, Sleep, SpuriousWake, threadvars, WQInv, WQTypeOK
  <2>5. pc[t] = "top" /\ tgen[t] = generation
    BY <2>4 DEF TakeWork
  <2> QED  BY <2>5 DEF WQInv, UpdateArgsOwned
<1> QED  BY <1>1, WorkQueueSafety, PTL DEF WQSpec, StartsUpToDate

\* The pool implements WorkItems: the effects of StepMoves are its steps.
statuses == [e \in Entry |-> Status(e)]

LEMMA StaysPutStutters ==
    ASSUME StaysPut
    PROVE  statuses' = statuses
<1>1. ASSUME NEW e \in Entry PROVE Status(e)' = Status(e)
  BY SMT DEF StaysPut, Status
<1> QED  BY <1>1 DEF statuses

LEMMA MoveIsItemStep ==
    ASSUME Apart, Apart', NEW e \in Entry, Moves(e)
    PROVE  Items!Next
<1>0. NULL \notin Entry
  BY WorkQueueAssumption
<1>1. ASSUME NEW x \in Entry, x # e PROVE Status(x)' = Status(x)
  <2>1. /\ Pending(x)' <=> Pending(x)
        /\ Running(x)' <=> Running(x)
        /\ Answered(x)' <=> Answered(x)
        /\ (replying = x)' <=> (replying = x)
    BY <1>0, <1>1, SMT DEF Moves, QueuedOnly, CancelledOnly, StartedOnly, FinishedOnly, RepliedOnly
  <2> QED  BY <2>1, SMT DEF Status
<1>2. \/ Status(e) = "free" /\ Status(e)' = "queued"
      \/ Status(e) = "queued" /\ Status(e)' = "free"
      \/ Status(e) = "queued" /\ Status(e)' = "running"
      \/ Status(e) = "running" /\ Status(e)' = "answered"
      \/ Status(e) = "answered" /\ Status(e)' = "replying"
      \/ Status(e) = "replying" /\ Status(e)' = "free"
  <2>1. CASE Free(e) /\ QueuedOnly(e)
    BY <2>1 DEF Free, QueuedOnly, Status
  <2>2. CASE CancelledOnly(e)
    BY <2>2 DEF Apart, CancelledOnly, Status
  <2>3. CASE StartedOnly(e)
    BY <2>3 DEF Apart, StartedOnly, Status
  <2>4. CASE FinishedOnly(e)
    BY <2>4 DEF Apart, FinishedOnly, Status
  <2>5. CASE RepliedOnly(e)
    BY <2>5 DEF Apart, RepliedOnly, Status
  <2>6. CASE /\ replying = e /\ replying' = NULL
             /\ \A x \in Entry : (Pending(x)' <=> Pending(x)) /\ (Running(x)' <=> Running(x))
             /\ \A x \in Entry : Answered(x)' <=> Answered(x)
    BY <2>6, <1>0 DEF Apart, Status
  <2> QED  BY <2>1, <2>2, <2>3, <2>4, <2>5, <2>6 DEF Moves
<1>3. statuses' = [statuses EXCEPT ![e] = Status(e)']
  BY <1>1 DEF statuses
<1>4. \E from, to : /\ statuses[e] = from /\ statuses' = [statuses EXCEPT ![e] = to]
                   /\ <<from, to>> = <<Status(e), Status(e)'>>
  BY <1>3 DEF statuses
<1> QED
  BY <1>2, <1>3, <1>4 DEF statuses, Items!Next, Items!Queue, Items!Cancel, Items!Start, Items!Finish,
     Items!Reply, Items!Free, Items!Move

\* Every entry is run once and answered once, and cancelled only before it starts:
\* the pool implements WorkItems.
THEOREM PoolImplementsWorkItems == WQSpec => ImplementsWorkItems
<1>1. WQInit => Items!Init
  BY WQInitEmpty DEF Items!Init, Status
<1>2. WQInv /\ WQInv' /\ [WQNext]_wqvars => Items!Next \/ statuses' = statuses
  BY StepMoves, StaysPutStutters, MoveIsItemStep DEF WQInv
<1>3. WQInv /\ WQInv' /\ [WQNext]_wqvars => [Items!Next]_[e \in Entry |-> Status(e)]
  BY <1>2 DEF statuses
<1> QED  BY <1>1, <1>3, WorkQueueSafety, PTL DEF WQSpec, ImplementsWorkItems, Items!Spec
=============================================================================
