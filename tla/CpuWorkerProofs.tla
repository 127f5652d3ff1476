--------------------------- MODULE CpuWorkerProofs ---------------------------
(***************************************************************************)
(* Proofs about the onion handshakes of a relay, for any number of         *)
(* circuits, threads and pending tasks.  What is proved of the thread pool *)
(* holds here because every step of the relay is a step of the pool.       *)
(***************************************************************************)
EXTENDS CpuWorker, WorkQueueProofs, FiniteSetTheorems

(* Zenon is the default prover; leaves that need arithmetic, records or    *)
(* sequences cite SMT.                                                     *)
USE Zenon

\* What JobsHaveCircuits, OnionQueueConsistent and AnswerableHaveChannel say of
\* one circuit, and of the queues
Good(c) == /\ InFlight(c) <=> circ[c].magic = "dead" \/ (circ[c].magic = "or" /\ circ[c].wq)
           /\ circ[c].oq => circ[c].magic = "or" /\ circ[c].pending /\ ~circ[c].wq
           /\ circ[c].magic = "or" /\ ~circ[c].marked => circ[c].p_chan

Queues == \A ty \in Type : /\ ol_entries[ty] = Len(ol_list[ty])
                           /\ Distinct(ol_list[ty])
                           /\ \A c \in Circ : In(c, ol_list[ty]) <=> circ[c].oq /\ TypeOf(c) = ty

CircTypes == /\ circ \in [Circ -> CircType]
             /\ closing \in BOOLEAN
             /\ ol_list \in [Type -> Seq(Circ)]
             /\ ol_entries \in [Type -> Nat]
             /\ recently_chosen_ntors \in 0..NumNTorsPerTAP + 1
             /\ total_pending_tasks \in 0..MaxPending

\* The inductive invariant
CpuInv == /\ WQInv
          /\ CircTypes
          /\ \A c \in Circ : Good(c)
          /\ Queues
          /\ PendingTasksCounted

-----------------------------------------------------------------------------
\* The records of circuits

LEMMA ConstantCircs ==
    /\ NewCirc \in CircType /\ NewCirc.magic = "or" /\ NewCirc.pending /\ NewCirc.p_chan
    /\ ~NewCirc.marked /\ ~NewCirc.oq /\ ~NewCirc.wq
    /\ NoCirc \in CircType /\ NoCirc.magic = "freed" /\ ~NoCirc.oq /\ ~NoCirc.wq
    /\ DeadCirc \in CircType /\ DeadCirc.magic = "dead" /\ ~DeadCirc.oq /\ ~DeadCirc.wq
    /\ MarkedCirc \in CircType /\ MarkedCirc.magic = "or" /\ MarkedCirc.marked
    /\ ~MarkedCirc.oq /\ ~MarkedCirc.wq
BY Zenon DEF NewCirc, NoCirc, DeadCirc, MarkedCirc, CircType

LEMMA ExceptCircs ==
    ASSUME NEW r \in CircType, NEW b \in BOOLEAN
    PROVE  /\ [r EXCEPT !.wq = b] \in CircType
           /\ [r EXCEPT !.wq = b].wq = b
           /\ [r EXCEPT !.wq = b].magic = r.magic
           /\ [r EXCEPT !.wq = b].oq = r.oq
           /\ [r EXCEPT !.wq = b].pending = r.pending
           /\ [r EXCEPT !.wq = b].p_chan = r.p_chan
           /\ [r EXCEPT !.wq = b].marked = r.marked
           /\ [r EXCEPT !.oq = b] \in CircType
           /\ [r EXCEPT !.oq = b].oq = b
           /\ [r EXCEPT !.oq = b].magic = r.magic
           /\ [r EXCEPT !.oq = b].wq = r.wq
           /\ [r EXCEPT !.oq = b].pending = r.pending
           /\ [r EXCEPT !.oq = b].p_chan = r.p_chan
           /\ [r EXCEPT !.oq = b].marked = r.marked
           /\ [r EXCEPT !.pending = b] \in CircType
           /\ [r EXCEPT !.pending = b].magic = r.magic
           /\ [r EXCEPT !.pending = b].oq = r.oq
           /\ [r EXCEPT !.pending = b].wq = r.wq
           /\ [r EXCEPT !.pending = b].p_chan = r.p_chan
           /\ [r EXCEPT !.pending = b].marked = r.marked
           /\ [r EXCEPT !.marked = TRUE, !.p_chan = b] \in CircType
           /\ [r EXCEPT !.marked = TRUE, !.p_chan = b].magic = r.magic
           /\ [r EXCEPT !.marked = TRUE, !.p_chan = b].marked
           /\ [r EXCEPT !.marked = TRUE, !.p_chan = b].oq = r.oq
           /\ [r EXCEPT !.marked = TRUE, !.p_chan = b].wq = r.wq
           /\ [r EXCEPT !.marked = TRUE, !.p_chan = b].pending = r.pending
BY DEF CircType

LEMMA SettledCircs ==
    ASSUME NEW r \in CircType, r.magic = "or"
    PROVE  /\ Settle(r) \in CircType
           /\ Settle(r).magic = "or"
           /\ Settle(r).marked = r.marked
           /\ Settle(r).oq = r.oq
           /\ Settle(r).wq = r.wq
           /\ r.oq \/ r.wq \/ ~r.marked => Settle(r) = r
<1>1. r.marked \in BOOLEAN /\ r.oq \in BOOLEAN /\ r.wq \in BOOLEAN
  BY DEF CircType
<1> QED  BY <1>1, ConstantCircs, Zenon DEF Settle, MarkedCirc, NewCirc

-----------------------------------------------------------------------------
\* What the pool's steps do to the jobs in flight

Fly == {c \in Circ : InFlight(c)}

LEMMA QueueFlies ==
    ASSUME WQInv, NEW p \in Priority, NEW e \in Entry, threadpool_queue_work_priority(p, e)
    PROVE  ~InFlight(e) /\ \A c \in Circ : InFlight(c)' <=> InFlight(c) \/ c = e
<1>0. Circ \subseteq Entry
  BY CpuWorkerAssumption
<1>1. QueuedOnly(e) /\ Free(e)
  BY QueueEffect DEF WQInv, threadpool_queue_work_priority
<1> QED  BY <1>0, <1>1 DEF QueuedOnly, Free, InFlight

LEMMA CancelLands ==
    ASSUME WQInv, NEW e \in Entry, workqueue_entry_cancel(e)
    PROVE  InFlight(e) /\ \A c \in Circ : InFlight(c)' <=> InFlight(c) /\ c # e
<1>0. Circ \subseteq Entry
  BY CpuWorkerAssumption
<1>1. CancelledOnly(e) /\ Apart
  BY CancelEffect DEF WQInv
<1> QED  BY <1>0, <1>1 DEF CancelledOnly, Apart, InFlight

LEMMA ReplyLands ==
    ASSUME WQInv, TakeAnswer
    PROVE  /\ replying' \in Entry /\ InFlight(replying')
           /\ \A c \in Circ : InFlight(c)' <=> InFlight(c) /\ c # replying'
<1>0. Circ \subseteq Entry
  BY CpuWorkerAssumption
<1>1. RepliedOnly(replying') /\ replying' \in Entry /\ Apart
  BY TakeAnswerEffect DEF WQInv, TakeAnswer
<1> QED  BY <1>0, <1>1 DEF RepliedOnly, Apart, InFlight

QuietSteps == \/ \E t \in Thread : ThreadStep(t) \/ SpuriousWake(t)
              \/ threadpool_queue_update \/ reply_event_cb \/ ReplyReturns \/ ProcessEnds
              \/ UNCHANGED wqvars

LEMMA OthersStayInFlight ==
    ASSUME WQInv, QuietSteps
    PROVE  \A c \in Circ : InFlight(c)' <=> InFlight(c)
<1>0. Circ \subseteq Entry
  BY CpuWorkerAssumption
<1>1. ASSUME NEW t \in Thread, NEW p \in Priority, TakeWork(t, p)
      PROVE  \A c \in Circ : InFlight(c)' <=> InFlight(c)
  <2>1. StartedOnly(Head(work[p])) /\ Head(work[p]) \in Entry
    BY <1>1, TakeWorkEffect DEF WQInv
  <2> QED  BY <1>0, <2>1 DEF StartedOnly, InFlight
<1>2. ASSUME NEW t \in Thread, queue_reply(t)
      PROVE  \A c \in Circ : InFlight(c)' <=> InFlight(c)
  <2>1. FinishedOnly(job[t])
    BY <1>2, QueueReplyEffect DEF WQInv
  <2> QED  BY <1>0, <2>1 DEF FinishedOnly, InFlight
<1>3. ASSUME UNCHANGED <<work, job, answers>>
      PROVE  \A c \in Circ : InFlight(c)' <=> InFlight(c)
  BY <1>3 DEF InFlight, Pending, Running, Answered, In
<1>4. ASSUME NEW t \in Thread, TakeUpdate(t) \/ RunUpdate(t) \/ Alert(t) \/ Sleep(t) \/ SpuriousWake(t)
      PROVE  UNCHANGED <<work, job, answers>>
  BY <1>4 DEF TakeUpdate, RunUpdate, Alert, Sleep, SpuriousWake, poolvars, threadvars, replyvars
<1>5. ASSUME threadpool_queue_update \/ reply_event_cb \/ ReplyReturns \/ ProcessEnds \/ UNCHANGED wqvars
      PROVE  UNCHANGED <<work, job, answers>>
  BY <1>5 DEF threadpool_queue_update, reply_event_cb, ReplyReturns, ProcessEnds,
              wqvars, poolvars, threadvars, replyvars
<1> QED  BY <1>1, <1>2, <1>3, <1>4, <1>5 DEF QuietSteps, ThreadStep

LEMMA CountUp ==
    ASSUME PendingTasksCounted, NEW e \in Circ, ~InFlight(e),
           \A c \in Circ : InFlight(c)' <=> InFlight(c) \/ c = e,
           total_pending_tasks' = total_pending_tasks + 1
    PROVE  PendingTasksCounted'
<1>1. Fly' = Fly \cup {e} /\ e \notin Fly
  BY DEF Fly
<1>2. IsFiniteSet(Fly)
  BY CpuWorkerAssumption, FS_Subset DEF Fly
<1>3. Cardinality(Fly') = Cardinality(Fly) + 1
  BY <1>1, <1>2, FS_AddElement
<1> QED  BY <1>3 DEF PendingTasksCounted, Fly

LEMMA CountDown ==
    ASSUME PendingTasksCounted, NEW e \in Circ, InFlight(e),
           \A c \in Circ : InFlight(c)' <=> InFlight(c) /\ c # e,
           total_pending_tasks' = total_pending_tasks - 1
    PROVE  PendingTasksCounted' /\ total_pending_tasks > 0
<1>1. Fly' = Fly \ {e} /\ e \in Fly
  BY DEF Fly
<1>2. IsFiniteSet(Fly)
  BY CpuWorkerAssumption, FS_Subset DEF Fly
<1>3. Cardinality(Fly') = Cardinality(Fly) - 1
  BY <1>1, <1>2, FS_RemoveElement
<1>4. Cardinality(Fly) \in Nat /\ Cardinality(Fly) # 0
  BY <1>1, <1>2, FS_CardinalityType, FS_EmptySet
<1> QED  BY <1>3, <1>4, SMT DEF PendingTasksCounted, Fly

LEMMA CountSame ==
    ASSUME PendingTasksCounted, \A c \in Circ : InFlight(c)' <=> InFlight(c),
           total_pending_tasks' = total_pending_tasks
    PROVE  PendingTasksCounted'
<1>1. {c \in Circ : InFlight(c)}' = {c \in Circ : InFlight(c)}
  OBVIOUS
<1> QED  BY <1>1 DEF PendingTasksCounted

-----------------------------------------------------------------------------
\* The onion queues

LEMMA DropMembers ==
    ASSUME NEW S, NEW s \in Seq(S), NEW k \in 0..Len(s), Distinct(s)
    PROVE  LET r == SubSeq(s, k + 1, Len(s))
           IN  /\ r \in Seq(S) /\ Len(r) = Len(s) - k
               /\ Distinct(r)
               /\ \A x : In(x, r) <=> In(x, s) /\ ~\E i \in 1..k : s[i] = x
<1> DEFINE r == SubSeq(s, k + 1, Len(s))
<1>1. Len(s) \in Nat /\ k \in Nat /\ k <= Len(s) /\ \A i \in 1..Len(s) : s[i] \in S
  BY LenProperties, ElementOfSeq, SMT
<1>2. k + 1 \in Int /\ Len(s) \in Int /\ \A i \in (k + 1)..Len(s) : s[i] \in S
  BY <1>1, SMT
<1>3. /\ r \in Seq(S) /\ Len(r) = (IF k + 1 <= Len(s) THEN Len(s) - (k + 1) + 1 ELSE 0)
      /\ \A i \in 1..(Len(s) - (k + 1) + 1) : r[i] = s[(k + 1) + i - 1]
  BY <1>2, SubSeqProperties, SMT
<1> HIDE DEF r
<1>4. Len(r) = Len(s) - k /\ \A i \in 1..Len(r) : r[i] = s[i + k] /\ i + k \in 1..Len(s)
  BY <1>1, <1>3, SMT
<1>5. Distinct(r)
  <2> SUFFICES ASSUME NEW i \in 1..Len(r), NEW j \in 1..Len(r), r[i] = r[j] PROVE i = j
    BY DEF Distinct
  <2>1. i + k = j + k  BY <1>4 DEF Distinct
  <2> QED  BY <2>1, <1>1, <1>4, SMT
<1>6. ASSUME NEW x, In(x, r) PROVE In(x, s) /\ ~\E i \in 1..k : s[i] = x
  <2>1. PICK j \in 1..Len(r) : r[j] = x  BY <1>6 DEF In
  <2>2. j + k \in 1..Len(s) /\ s[j + k] = x  BY <2>1, <1>4
  <2>3. ASSUME NEW i \in 1..k, s[i] = x PROVE FALSE
    <3>1. i \in 1..Len(s) /\ i # j + k  BY <1>1, <1>4, SMT
    <3> QED  BY <2>2, <2>3, <3>1 DEF Distinct
  <2> QED  BY <2>2, <2>3 DEF In
<1>7. ASSUME NEW x, In(x, s), ~\E i \in 1..k : s[i] = x PROVE In(x, r)
  <2>1. PICK i \in 1..Len(s) : s[i] = x  BY <1>7 DEF In
  <2>2. i \notin 1..k  BY <2>1, <1>7
  <2>3. i - k \in 1..Len(r) /\ (i - k) + k = i  BY <2>2, <1>1, <1>4, SMT
  <2> QED  BY <2>1, <2>3, <1>4, Zenon DEF In
<1> QED  BY <1>3, <1>4, <1>5, <1>6, <1>7 DEF r

LEMMA TypesOfCircs == ASSUME NEW c PROVE TypeOf(c) \in Type
BY DEF TypeOf, Type

\* One queue becomes q, and the circuits of its type know.
LEMMA QueueReplaced ==
    ASSUME CircTypes, Queues, NEW ty \in Type, NEW q \in Seq(Circ), Distinct(q),
           ol_list' = [ol_list EXCEPT ![ty] = q],
           ol_entries' = [ol_entries EXCEPT ![ty] = Len(q)],
           \A x \in Circ : circ'[x].oq <=> IF TypeOf(x) = ty THEN In(x, q) ELSE circ[x].oq,
           \A x \in Circ : In(x, q) => TypeOf(x) = ty
    PROVE  /\ Queues'
           /\ ol_list' \in [Type -> Seq(Circ)]
           /\ ol_entries' \in [Type -> Nat]
<1>1. /\ ol_list \in [Type -> Seq(Circ)] /\ ol_entries \in [Type -> Nat] /\ Len(q) \in Nat
  BY LenProperties DEF CircTypes
<1>2. ol_list' \in [Type -> Seq(Circ)] /\ ol_entries' \in [Type -> Nat]
  BY <1>1
<1>3. /\ ol_list'[ty] = q /\ ol_entries'[ty] = Len(q)
      /\ \A u \in Type \ {ty} : ol_list'[u] = ol_list[u] /\ ol_entries'[u] = ol_entries[u]
  BY <1>1
<1>4. ASSUME NEW u \in Type
      PROVE  /\ ol_entries'[u] = Len(ol_list'[u])
             /\ Distinct(ol_list'[u])
             /\ \A c \in Circ : In(c, ol_list'[u]) <=> circ'[c].oq /\ TypeOf(c) = u
  <2>1. CASE u = ty  BY <2>1, <1>3
  <2>2. CASE u # ty  BY <2>2, <1>3 DEF Queues
  <2> QED  BY <2>1, <2>2
<1> QED  BY <1>2, <1>4 DEF Queues, Distinct, In

LEMMA QueuesUnchanged ==
    ASSUME Queues, UNCHANGED <<ol_list, ol_entries>>, \A x \in Circ : circ'[x].oq <=> circ[x].oq
    PROVE  Queues'
BY SMT DEF Queues, Distinct, In

LEMMA QueueRemoved ==
    ASSUME CircTypes, Queues, NEW c \in Circ, OnionQueueEntryRemove(c),
           \A x \in Circ : circ'[x].oq <=> circ[x].oq /\ x # c
    PROVE  /\ Queues'
           /\ ol_list' \in [Type -> Seq(Circ)]
           /\ ol_entries' \in [Type -> Nat]
<1> DEFINE ty == TypeOf(c)
           s  == ol_list[ty]
<1>0. ty \in Type
  BY TypesOfCircs
<1> HIDE DEF ty
<1>1. PICK i \in 1..Len(s) : /\ s[i] = c
                            /\ ol_list' = [ol_list EXCEPT ![ty] = TailqRemove(s, i)]
                            /\ ol_entries' = [ol_entries EXCEPT ![ty] = ol_entries[ty] - 1]
  BY Zenon DEF OnionQueueEntryRemove, ty
<1>2. s \in Seq(Circ) /\ Distinct(s) /\ ol_entries[ty] = Len(s)
  BY <1>0 DEF CircTypes, Queues
<1> DEFINE q == TailqRemove(s, i)
<1>3. /\ q \in Seq(Circ) /\ Distinct(q) /\ Len(q) = Len(s) - 1
      /\ \A x : In(x, q) <=> In(x, s) /\ x # c
  <2> HIDE DEF s
  <2>1. /\ q \in Seq(Circ) /\ Distinct(q) /\ Len(q) = Len(s) - 1
        /\ \A x : In(x, q) <=> In(x, s) /\ x # s[i]
    BY <1>2, RemoveMembers, SMT
  <2> QED  BY <2>1, <1>1
<1>4. /\ ol_list' = [ol_list EXCEPT ![ty] = q]
      /\ ol_entries' = [ol_entries EXCEPT ![ty] = Len(q)]
  BY <1>1, <1>2, <1>3
<1>5. \A x \in Circ : In(x, s) <=> circ[x].oq /\ TypeOf(x) = ty
  BY <1>0 DEF Queues
<1> HIDE DEF q, s
<1>6. \A x \in Circ : circ'[x].oq <=> IF TypeOf(x) = ty THEN In(x, q) ELSE circ[x].oq
  BY <1>3, <1>5 DEF ty
<1>7. \A x \in Circ : In(x, q) => TypeOf(x) = ty
  BY <1>3, <1>5
<1> QED  BY <1>0, <1>3, <1>4, <1>6, <1>7, QueueReplaced, Zenon

LEMMA QueuePopped ==
    ASSUME CircTypes, Queues, NEW ty \in Type, ol_list[ty] # <<>>,
           ol_list' = [ol_list EXCEPT ![ty] = Tail(@)],
           ol_entries' = [ol_entries EXCEPT ![ty] = @ - 1],
           \A x \in Circ : circ'[x].oq <=> circ[x].oq /\ x # Head(ol_list[ty])
    PROVE  /\ Queues'
           /\ ol_list' \in [Type -> Seq(Circ)]
           /\ ol_entries' \in [Type -> Nat]
<1> DEFINE s == ol_list[ty]
           c == Head(s)
           q == Tail(s)
<1>2. s \in Seq(Circ) /\ Distinct(s) /\ ol_entries[ty] = Len(s)
  BY DEF CircTypes, Queues
<1>3. /\ q \in Seq(Circ) /\ Distinct(q) /\ Len(q) = Len(s) - 1
      /\ \A x : In(x, q) <=> In(x, s) /\ x # c
      /\ In(c, s) /\ c \in Circ
  BY <1>2, TailMembers
<1>4. /\ ol_list' = [ol_list EXCEPT ![ty] = q]
      /\ ol_entries' = [ol_entries EXCEPT ![ty] = Len(q)]
  BY <1>2, <1>3
<1>5. \A x \in Circ : In(x, s) <=> circ[x].oq /\ TypeOf(x) = ty
  BY DEF Queues
<1>a. \A x \in Circ : circ'[x].oq <=> circ[x].oq /\ x # c
  OBVIOUS
<1> HIDE DEF q, s, c
<1>6. \A x \in Circ : circ'[x].oq <=> IF TypeOf(x) = ty THEN In(x, q) ELSE circ[x].oq
  BY <1>a, <1>3, <1>5
<1>7. \A x \in Circ : In(x, q) => TypeOf(x) = ty
  BY <1>3, <1>5
<1> QED  BY <1>3, <1>4, <1>6, <1>7, QueueReplaced, Zenon

LEMMA QueueHead ==
    ASSUME CircTypes, Queues, NEW ty \in Type, ol_list[ty] # <<>>
    PROVE  Head(ol_list[ty]) \in Circ /\ circ[Head(ol_list[ty])].oq
<1>1. ol_list[ty] \in Seq(Circ) /\ Distinct(ol_list[ty])
  BY DEF CircTypes, Queues
<1>2. Head(ol_list[ty]) \in Circ /\ In(Head(ol_list[ty]), ol_list[ty])
  BY <1>1, TailMembers
<1> QED  BY <1>2 DEF Queues

\* onion_pending_add: the circuits in front are culled.
LEMMA QueueAdded ==
    ASSUME CircTypes, Queues, NEW c \in Circ, ~circ[c].oq, onion_pending_add(c)
    PROVE  /\ Queues'
           /\ ol_list' \in [Type -> Seq(Circ)]
           /\ ol_entries' \in [Type -> Nat]
           /\ circ' \in [Circ -> CircType]
           /\ circ'[c] = [NewCirc EXCEPT !.oq = TRUE]
           /\ \A x \in Circ \ {c} : circ'[x] = circ[x] \/ (circ[x].oq /\ circ'[x] = MarkedCirc)
<1> DEFINE ty == TypeOf(c)
           s  == ol_list[ty]
<1>0. ty \in Type
  BY TypesOfCircs
<1>1. PICK k \in 0..Len(s) :
         /\ ol_list' = [ol_list EXCEPT ![ty] = Append(SubSeq(s, k + 1, Len(s)), c)]
         /\ ol_entries' = [ol_entries EXCEPT ![ty] = ol_entries[ty] + 1 - k]
         /\ circ' = [x \in Circ |-> IF x = c THEN [NewCirc EXCEPT !.oq = TRUE]
                                   ELSE IF \E i \in 1..k : s[i] = x THEN MarkedCirc
                                   ELSE circ[x]]
  BY Zenon DEF onion_pending_add
<1> HIDE DEF ty
<1>2. /\ s \in Seq(Circ) /\ Distinct(s) /\ ol_entries[ty] = Len(s) /\ Len(s) \in Nat /\ k \in Nat
      /\ \A x \in Circ : In(x, s) <=> circ[x].oq /\ TypeOf(x) = ty
  BY <1>0, LenProperties, SMT DEF CircTypes, Queues
<1> HIDE DEF s
<1> DEFINE r == SubSeq(s, k + 1, Len(s))
           q == Append(r, c)
<1>3. /\ r \in Seq(Circ) /\ Len(r) = Len(s) - k /\ Distinct(r)
      /\ \A x : In(x, r) <=> In(x, s) /\ ~\E i \in 1..k : s[i] = x
  BY <1>2, DropMembers
<1>4. ol_list' = [ol_list EXCEPT ![ty] = q]
  BY <1>1
<1> HIDE DEF r
<1>5. ~In(c, r)
  BY <1>2, <1>3
<1>6. /\ q \in Seq(Circ) /\ Distinct(q) /\ Len(q) = Len(r) + 1
      /\ \A x : In(x, q) <=> In(x, r) \/ x = c
  BY <1>3, <1>5, AppendMembers
<1>7. ol_entries' = [ol_entries EXCEPT ![ty] = Len(q)]
  <2>1. Len(q) = ol_entries[ty] + 1 - k  BY <1>2, <1>3, <1>6, SMT
  <2> QED  BY <2>1, <1>1
<1> HIDE DEF q
<1>8. \A x \in Circ : (\E i \in 1..k : s[i] = x) => In(x, s)
  BY <1>2, SMT DEF In
<1>9. /\ circ'[c] = [NewCirc EXCEPT !.oq = TRUE]
      /\ \A x \in Circ \ {c} : circ'[x] = IF \E i \in 1..k : s[i] = x THEN MarkedCirc ELSE circ[x]
  BY <1>1
<1>10. circ'[c].oq /\ circ'[c] \in CircType /\ ~MarkedCirc.oq /\ MarkedCirc \in CircType
  <2>1. NewCirc \in CircType /\ TRUE \in BOOLEAN  BY ConstantCircs
  <2>2. [NewCirc EXCEPT !.oq = TRUE] \in CircType /\ [NewCirc EXCEPT !.oq = TRUE].oq = TRUE
    BY <2>1, ExceptCircs, Zenon
  <2> QED  BY <1>9, <2>2, ConstantCircs, Zenon
<1>11. \A x \in Circ : circ'[x].oq <=> IF TypeOf(x) = ty THEN In(x, q) ELSE circ[x].oq
  <2> SUFFICES ASSUME NEW x \in Circ
               PROVE  circ'[x].oq <=> IF TypeOf(x) = ty THEN In(x, q) ELSE circ[x].oq
    OBVIOUS
  <2>1. CASE x = c  BY <2>1, <1>10, <1>6 DEF ty
  <2>2. CASE x # c /\ (\E i \in 1..k : s[i] = x)
    BY <2>2, <1>2, <1>3, <1>6, <1>8, <1>9, <1>10
  <2>3. CASE x # c /\ ~(\E i \in 1..k : s[i] = x)
    BY <2>3, <1>2, <1>3, <1>6, <1>9
  <2> QED  BY <2>1, <2>2, <2>3
<1>12. \A x \in Circ : In(x, q) => TypeOf(x) = ty
  BY <1>2, <1>3, <1>6 DEF ty
<1>13. Queues' /\ ol_list' \in [Type -> Seq(Circ)] /\ ol_entries' \in [Type -> Nat]
  BY <1>0, <1>4, <1>6, <1>7, <1>11, <1>12, QueueReplaced, Zenon
<1>14. circ' \in [Circ -> CircType]
  <2>1. \A x \in Circ : circ'[x] \in CircType
    BY <1>9, <1>10 DEF CircTypes
  <2>2. circ' = [x \in Circ |-> circ'[x]]
    BY <1>1
  <2> QED  BY <2>1, <2>2
<1> QED  BY <1>2, <1>8, <1>9, <1>13, <1>14

-----------------------------------------------------------------------------
\* The steps of the relay.  Each keeps everything but the pool's own invariant,
\* and is a step of the pool.

Kept == /\ CircTypes'
        /\ \A c \in Circ : Good(c)'
        /\ Queues'
        /\ PendingTasksCounted'
        /\ [WQNext]_wqvars

LEMMA GoodKept ==
    ASSUME NEW x \in Circ, Good(x), circ'[x] = circ[x], InFlight(x)' <=> InFlight(x)
    PROVE  Good(x)'
BY SMT DEF Good

\* circ->workqueue_entry is set for a circuit that waits or is new.
LEMMA HandshakeQueued ==
    ASSUME CpuInv, NEW c \in Circ, NEW r \in CircType, total_pending_tasks < MaxPending,
           QueueHandshake(c, r),
           r.magic = "or", ~r.oq, r.marked \/ r.p_chan
    PROVE  /\ circ' \in [Circ -> CircType]
           /\ total_pending_tasks' \in 0..MaxPending
           /\ \A x \in Circ : Good(x)'
           /\ \A x \in Circ : circ'[x].oq <=> circ[x].oq /\ x # c
           /\ PendingTasksCounted'
           /\ WQNext
<1>0. c \in Entry /\ High \in Priority
  BY CpuWorkerAssumption
<1>1. /\ circ' = [circ EXCEPT ![c] = [r EXCEPT !.wq = TRUE]]
      /\ total_pending_tasks' = total_pending_tasks + 1
      /\ threadpool_queue_work_priority(High, c)
  BY DEF QueueHandshake
<1>2. ~InFlight(c) /\ \A x \in Circ : InFlight(x)' <=> InFlight(x) \/ x = c
  BY <1>0, <1>1, QueueFlies DEF CpuInv
<1>3. circ \in [Circ -> CircType] /\ total_pending_tasks \in Nat /\ MaxPending \in Nat
  BY CpuWorkerAssumption, SMT DEF CpuInv, CircTypes
<1>4. /\ [r EXCEPT !.wq = TRUE] \in CircType
      /\ [r EXCEPT !.wq = TRUE].wq
      /\ [r EXCEPT !.wq = TRUE].magic = "or"
      /\ ~[r EXCEPT !.wq = TRUE].oq
      /\ [r EXCEPT !.wq = TRUE].p_chan = r.p_chan
      /\ [r EXCEPT !.wq = TRUE].marked = r.marked
  BY DEF CircType
<1>5. /\ circ' \in [Circ -> CircType]
      /\ circ'[c] = [r EXCEPT !.wq = TRUE]
      /\ \A x \in Circ \ {c} : circ'[x] = circ[x]
  BY <1>1, <1>3, <1>4
<1>6. Good(c)'
  BY <1>2, <1>4, <1>5 DEF Good
<1>7. \A x \in Circ \ {c} : Good(x)'
  BY <1>2, <1>5, GoodKept DEF CpuInv
<1>8. PendingTasksCounted'
  BY <1>1, <1>2, CountUp DEF CpuInv
<1>9. WQNext
  BY <1>0, <1>1 DEF WQNext
<1> QED  BY <1>1, <1>3, <1>4, <1>5, <1>6, <1>7, <1>8, <1>9, SMT

LEMMA CreateKeeps ==
    ASSUME CpuInv, NEW c \in Circ, command_process_create_cell(c)
    PROVE  Kept
<1>0. /\ CircTypes /\ Queues /\ PendingTasksCounted /\ \A x \in Circ : Good(x)
      /\ circ \in [Circ -> CircType]
  BY DEF CpuInv, CircTypes
<1>1. circ[c].magic = "freed" /\ UNCHANGED <<closing, recently_chosen_ntors>>
  BY DEF command_process_create_cell
<1>2. ~InFlight(c) /\ ~circ[c].oq
  BY <1>0, <1>1 DEF Good
<1>3. ASSUME CreateRefused(c) \/ CreateFast(c), UNCHANGED <<wqvars, total_pending_tasks, ol_list, ol_entries>>
      PROVE  Kept
  <2>1. \A x \in Circ : InFlight(x)' <=> InFlight(x)
    BY <1>3, OthersStayInFlight DEF CpuInv, QuietSteps
  <2>2. PICK r \in {MarkedCirc, [NewCirc EXCEPT !.pending = FALSE]} : circ' = [circ EXCEPT ![c] = r]
    BY <1>3 DEF CreateRefused, CreateFast
  <2>3. r \in CircType /\ r.magic = "or" /\ ~r.oq /\ ~r.wq /\ (r.marked \/ r.p_chan)
    BY <2>2, Zenon DEF MarkedCirc, NewCirc, CircType
  <2>4. circ' \in [Circ -> CircType] /\ circ'[c] = r /\ \A x \in Circ \ {c} : circ'[x] = circ[x]
    BY <1>0, <2>2, <2>3
  <2>5. Good(c)'
    BY <1>2, <2>1, <2>3, <2>4 DEF Good
  <2>6. \A x \in Circ \ {c} : Good(x)'
    BY <1>0, <2>1, <2>4, GoodKept
  <2>7. Queues'
    <3>1. \A x \in Circ : circ'[x].oq <=> circ[x].oq  BY <1>2, <2>3, <2>4
    <3> QED  BY <1>0, <1>3, <3>1, QueuesUnchanged
  <2>8. PendingTasksCounted'
    BY <1>0, <1>3, <2>1, CountSame
  <2>9. CircTypes'
    BY <1>0, <1>1, <1>3, <2>4 DEF CircTypes
  <2> QED  BY <1>3, <2>5, <2>6, <2>7, <2>8, <2>9 DEF Kept
<1>4. ASSUME total_pending_tasks < MaxPending, QueueHandshake(c, NewCirc), UNCHANGED <<ol_list, ol_entries>>
      PROVE  Kept
  <2>1. /\ circ' \in [Circ -> CircType] /\ total_pending_tasks' \in 0..MaxPending
        /\ \A x \in Circ : Good(x)'
        /\ \A x \in Circ : circ'[x].oq <=> circ[x].oq /\ x # c
        /\ PendingTasksCounted' /\ WQNext
    BY <1>4, ConstantCircs, HandshakeQueued
  <2>2. \A x \in Circ : circ'[x].oq <=> circ[x].oq
    BY <1>2, <2>1
  <2>3. Queues'
    BY <1>0, <1>4, <2>2, QueuesUnchanged
  <2> QED  BY <1>0, <1>1, <1>4, <2>1, <2>3 DEF Kept, CircTypes
<1>5. ASSUME onion_pending_add(c), UNCHANGED <<wqvars, total_pending_tasks>>
      PROVE  Kept
  <2>1. \A x \in Circ : InFlight(x)' <=> InFlight(x)
    BY <1>5, OthersStayInFlight DEF CpuInv, QuietSteps
  <2>2. /\ Queues' /\ ol_list' \in [Type -> Seq(Circ)] /\ ol_entries' \in [Type -> Nat]
        /\ circ' \in [Circ -> CircType]
        /\ circ'[c] = [NewCirc EXCEPT !.oq = TRUE]
        /\ \A x \in Circ \ {c} : circ'[x] = circ[x] \/ (circ[x].oq /\ circ'[x] = MarkedCirc)
    BY <1>0, <1>2, <1>5, QueueAdded, Zenon
  <2>3. Good(c)'
    <3>1. /\ circ'[c].magic = "or" /\ circ'[c].pending /\ circ'[c].p_chan /\ ~circ'[c].wq
      BY <2>2 DEF NewCirc
    <3> QED  BY <1>2, <2>1, <3>1 DEF Good
  <2>4. ASSUME NEW x \in Circ \ {c} PROVE Good(x)'
    <3>1. CASE circ'[x] = circ[x]
      BY <1>0, <2>1, <3>1, GoodKept
    <3>2. CASE circ[x].oq /\ circ'[x] = MarkedCirc
      BY <1>0, <2>1, <3>2, ConstantCircs DEF Good
    <3> QED  BY <2>2, <3>1, <3>2
  <2>5. PendingTasksCounted'
    BY <1>0, <1>5, <2>1, CountSame
  <2> QED  BY <1>0, <1>1, <1>5, <2>2, <2>3, <2>4, <2>5 DEF Kept, CircTypes
<1> QED  BY <1>3, <1>4, <1>5 DEF command_process_create_cell

LEMMA MarkKeeps ==
    ASSUME CpuInv, NEW cs \in SUBSET Circ, NEW b \in BOOLEAN, circuit_mark_for_close(cs, b),
           \A c \in cs : Live(c)
    PROVE  Kept
<1>0. /\ CircTypes /\ Queues /\ PendingTasksCounted /\ \A x \in Circ : Good(x)
      /\ circ \in [Circ -> CircType]
  BY DEF CpuInv, CircTypes
<1>1. UNCHANGED <<wqvars, closing, olvars, total_pending_tasks>>
  BY Zenon DEF circuit_mark_for_close
<1>2. \A x \in Circ : InFlight(x)' <=> InFlight(x)
  BY <1>1, OthersStayInFlight DEF CpuInv, QuietSteps
<1>3. \A x \in Circ \ cs : circ'[x] = circ[x]
  BY Zenon DEF circuit_mark_for_close
<1>4. ASSUME NEW x \in cs
      PROVE  /\ circ'[x] \in CircType
             /\ circ'[x].magic = "or" /\ circ'[x].marked
             /\ circ'[x].oq = circ[x].oq /\ circ'[x].wq = circ[x].wq
             /\ circ[x].oq => circ'[x].pending = circ[x].pending
  <2> DEFINE r == [circ[x] EXCEPT !.marked = TRUE, !.p_chan = b]
  <2>0. circ[x] \in CircType /\ circ[x].magic = "or"
    BY <1>0 DEF Live
  <2>1. /\ r \in CircType /\ r.magic = "or" /\ r.marked
        /\ r.oq = circ[x].oq /\ r.wq = circ[x].wq /\ r.pending = circ[x].pending
    BY <2>0 DEF CircType
  <2>2. circ'[x] = Settle(r)
    BY Zenon DEF circuit_mark_for_close
  <2> HIDE DEF r
  <2> QED  BY <2>1, <2>2, SettledCircs, SMT
<1>5. ASSUME NEW x \in cs PROVE Good(x)'
  BY <1>0, <1>2, <1>4 DEF Good, Live
<1>6. \A x \in Circ \ cs : Good(x)'
  BY <1>0, <1>2, <1>3, GoodKept
<1>7. Queues'
  <2>1. \A x \in Circ : circ'[x].oq <=> circ[x].oq  BY <1>3, <1>4
  <2> QED  BY <1>0, <1>1, <2>1, QueuesUnchanged DEF olvars
<1>8. PendingTasksCounted'
  BY <1>0, <1>1, <1>2, CountSame
<1>9. circ' \in [Circ -> CircType]
  <2>1. \A x \in Circ : circ'[x] \in CircType  BY <1>0, <1>3, <1>4
  <2>2. circ' = [x \in Circ |-> circ'[x]]  BY Zenon DEF circuit_mark_for_close
  <2> QED  BY <2>1, <2>2
<1> QED  BY <1>0, <1>1, <1>5, <1>6, <1>7, <1>8, <1>9 DEF Kept, CircTypes, olvars

LEMMA CloseKeeps ==
    ASSUME CpuInv, NEW c \in Circ, CloseMarked(c)
    PROVE  Kept
<1>0. /\ CircTypes /\ Queues /\ PendingTasksCounted /\ \A x \in Circ : Good(x)
      /\ circ \in [Circ -> CircType] /\ total_pending_tasks \in 0..MaxPending /\ MaxPending \in Nat
      /\ c \in Entry
  BY CpuWorkerAssumption DEF CpuInv, CircTypes
<1>1. circ[c].magic = "or" /\ closing' \in BOOLEAN /\ UNCHANGED recently_chosen_ntors
  BY DEF CloseMarked, Marked, Live
<1>2. PICK r \in {NoCirc, DeadCirc} : circ' = [circ EXCEPT ![c] = r]
  BY DEF CloseMarked, cpuworker_cancel_circ_handshake, circuit_free
<1>3. r \in CircType /\ ~r.oq /\ ~r.wq /\ r.magic # "or"
  BY <1>2, ConstantCircs
<1>4. circ' \in [Circ -> CircType] /\ circ'[c] = r /\ \A x \in Circ \ {c} : circ'[x] = circ[x]
  BY <1>0, <1>2, <1>3
<1>5. /\ Queues'
      /\ ol_list' \in [Type -> Seq(Circ)] /\ ol_entries' \in [Type -> Nat]
  <2>1. \A x \in Circ : circ'[x].oq <=> circ[x].oq /\ x # c
    BY <1>3, <1>4
  <2>2. CASE circ[c].oq
    <3>1. OnionQueueEntryRemove(c)
      BY <1>0, <2>2 DEF CloseMarked, Good
    <3> QED  BY <1>0, <2>1, <3>1, QueueRemoved
  <2>3. CASE ~circ[c].oq
    <3>1. UNCHANGED <<ol_list, ol_entries>>
      BY <2>3 DEF CloseMarked
    <3>2. \A x \in Circ : circ'[x].oq <=> circ[x].oq
      BY <2>1, <2>3
    <3> QED  BY <1>0, <3>1, <3>2, QueuesUnchanged DEF CircTypes
  <2> QED  BY <2>2, <2>3
<1>6. ASSUME workqueue_entry_cancel(c), total_pending_tasks' = total_pending_tasks - 1, r = NoCirc
      PROVE  /\ \A x \in Circ : Good(x)'
             /\ PendingTasksCounted' /\ total_pending_tasks' \in 0..MaxPending /\ WQNext
  <2>1. InFlight(c) /\ \A x \in Circ : InFlight(x)' <=> InFlight(x) /\ x # c
    BY <1>0, <1>6, CancelLands DEF CpuInv
  <2>2. PendingTasksCounted' /\ total_pending_tasks > 0
    BY <1>0, <1>6, <2>1, CountDown
  <2>3. Good(c)'
    BY <1>4, <1>6, <2>1, ConstantCircs DEF Good
  <2>4. \A x \in Circ \ {c} : Good(x)'
    BY <1>0, <1>4, <2>1, GoodKept
  <2>5. WQNext
    BY <1>0, <1>6 DEF WQNext
  <2> QED  BY <1>0, <1>6, <2>2, <2>3, <2>4, <2>5, SMT
<1>7. ASSUME UNCHANGED <<wqvars, total_pending_tasks>>, r = IF circ[c].wq THEN DeadCirc ELSE NoCirc
      PROVE  /\ \A x \in Circ : Good(x)'
             /\ PendingTasksCounted' /\ total_pending_tasks' \in 0..MaxPending
  <2>1. \A x \in Circ : InFlight(x)' <=> InFlight(x)
    BY <1>7, OthersStayInFlight DEF CpuInv, QuietSteps
  <2>2. Good(c)'
    BY <1>0, <1>1, <1>4, <1>7, <2>1, ConstantCircs DEF Good
  <2>3. \A x \in Circ \ {c} : Good(x)'
    BY <1>0, <1>4, <2>1, GoodKept
  <2>4. PendingTasksCounted'
    BY <1>0, <1>7, <2>1, CountSame
  <2> QED  BY <1>0, <1>7, <2>2, <2>3, <2>4
<1>8. \/ /\ workqueue_entry_cancel(c) /\ total_pending_tasks' = total_pending_tasks - 1
         /\ circ' = [circ EXCEPT ![c] = NoCirc]
      \/ /\ UNCHANGED <<wqvars, total_pending_tasks>>
         /\ circ' = [circ EXCEPT ![c] = IF circ[c].wq THEN DeadCirc ELSE NoCirc]
  BY DEF CloseMarked, cpuworker_cancel_circ_handshake, circuit_free
<1>9. \A s : circ' = [circ EXCEPT ![c] = s] => circ'[c] = s
  BY <1>0
<1>10. /\ \A x \in Circ : Good(x)'
       /\ PendingTasksCounted' /\ total_pending_tasks' \in 0..MaxPending
       /\ [WQNext]_wqvars
  BY <1>4, <1>6, <1>7, <1>8, <1>9
<1> QED  BY <1>1, <1>4, <1>5, <1>10, <1>0 DEF Kept, CircTypes

LEMMA ReplyKeeps ==
    ASSUME CpuInv, NEW c \in Circ, cpuworker_onion_handshake_replyfn(c)
    PROVE  Kept
<1>0. /\ CircTypes /\ Queues /\ PendingTasksCounted /\ \A x \in Circ : Good(x)
      /\ circ \in [Circ -> CircType] /\ total_pending_tasks \in 0..MaxPending /\ MaxPending \in Nat
  BY CpuWorkerAssumption DEF CpuInv, CircTypes
<1>1. /\ TakeAnswer /\ replying' = c /\ total_pending_tasks' = total_pending_tasks - 1
      /\ UNCHANGED <<closing, olvars>>
  BY DEF cpuworker_onion_handshake_replyfn
<1>2. InFlight(c) /\ \A x \in Circ : InFlight(x)' <=> InFlight(x) /\ x # c
  BY <1>1, ReplyLands DEF CpuInv
<1>3. PICK r \in Answers(c) : circ' = [circ EXCEPT ![c] = r]
  BY DEF cpuworker_onion_handshake_replyfn
<1>4. circ[c] \in CircType /\ ~circ[c].oq
  BY <1>0, <1>2 DEF Good
<1>5. r \in CircType /\ ~r.oq /\ ~r.wq /\ r.magic # "dead" /\ (r.magic = "or" /\ ~r.marked => r.p_chan)
  <2> DEFINE o == [[circ[c] EXCEPT !.wq = FALSE] EXCEPT !.pending = FALSE]
  <2>1. CASE circ[c].magic = "dead"
    BY <1>3, <2>1, ConstantCircs DEF Answers
  <2>2. CASE circ[c].magic # "dead" /\ r = MarkedCirc
    BY <2>2, ConstantCircs
  <2>3. CASE circ[c].magic # "dead" /\ ~circ[c].marked /\ r = o
    <3>1. /\ o \in CircType /\ o.oq = circ[c].oq /\ ~o.wq /\ o.magic = circ[c].magic
          /\ o.p_chan = circ[c].p_chan
      BY <1>4 DEF CircType
    <3> HIDE DEF o
    <3> QED  BY <1>0, <1>2, <1>4, <2>3, <3>1 DEF Good
  <2> QED  BY <1>3, <2>1, <2>2, <2>3 DEF Answers
<1>6. circ' \in [Circ -> CircType] /\ circ'[c] = r /\ \A x \in Circ \ {c} : circ'[x] = circ[x]
  BY <1>0, <1>3, <1>5
<1>7. Good(c)'
  BY <1>2, <1>5, <1>6 DEF Good
<1>8. \A x \in Circ \ {c} : Good(x)'
  BY <1>0, <1>2, <1>6, GoodKept
<1>9. Queues'
  <2>1. \A x \in Circ : circ'[x].oq <=> circ[x].oq  BY <1>4, <1>5, <1>6
  <2> QED  BY <1>0, <1>1, <2>1, QueuesUnchanged DEF olvars
<1>10. PendingTasksCounted' /\ total_pending_tasks > 0
  BY <1>0, <1>1, <1>2, CountDown
<1>11. [WQNext]_wqvars
  BY <1>1 DEF WQNext, ReplyStep
<1>12. total_pending_tasks' \in 0..MaxPending
  BY <1>0, <1>1, <1>10, SMT
<1> QED  BY <1>0, <1>1, <1>6, <1>7, <1>8, <1>9, <1>10, <1>11, <1>12, SMT DEF Kept, CircTypes, olvars

LEMMA NextType ==
    ASSUME recently_chosen_ntors \in 0..NumNTorsPerTAP + 1
    PROVE  /\ decide_next_handshake_type[1] \in Type
           /\ decide_next_handshake_type[2] \in 0..NumNTorsPerTAP + 1
<1>1. NumNTorsPerTAP \in Nat
  BY CpuWorkerAssumption
<1> QED  BY <1>1, SMT DEF decide_next_handshake_type, Type

LEMMA QueuePendingKeeps ==
    ASSUME CpuInv, queue_pending_tasks
    PROVE  Kept
<1> DEFINE ty == decide_next_handshake_type[1]
           c  == Head(ol_list[ty])
           r  == [circ[c] EXCEPT !.oq = FALSE]
<1>0. /\ CircTypes /\ Queues /\ PendingTasksCounted /\ \A x \in Circ : Good(x)
      /\ circ \in [Circ -> CircType] /\ total_pending_tasks \in 0..MaxPending
      /\ recently_chosen_ntors \in 0..NumNTorsPerTAP + 1
  BY DEF CpuInv, CircTypes
<1>1. ty \in Type /\ recently_chosen_ntors' \in 0..NumNTorsPerTAP + 1
  BY <1>0, NextType DEF queue_pending_tasks
<1>2. /\ ol_list[ty] # <<>>
      /\ ol_list' = [ol_list EXCEPT ![ty] = Tail(@)]
      /\ ol_entries' = [ol_entries EXCEPT ![ty] = @ - 1]
      /\ total_pending_tasks < MaxPending
      /\ closing' = closing
      /\ \/ circ[c].p_chan /\ QueueHandshake(c, r)
         \/ ~circ[c].p_chan /\ circ' = [circ EXCEPT ![c] = Settle(r)] /\ UNCHANGED <<wqvars, total_pending_tasks>>
  BY DEF queue_pending_tasks, HavePendingTask
<1> HIDE DEF ty
<1>3. c \in Circ /\ circ[c].oq
  BY <1>0, <1>1, <1>2, QueueHead
<1>4. /\ circ[c] \in CircType /\ circ[c].magic = "or" /\ ~circ[c].wq /\ ~InFlight(c)
      /\ circ[c].marked \/ circ[c].p_chan
  BY <1>0, <1>3 DEF Good
<1>5. /\ r \in CircType /\ r.magic = "or" /\ ~r.oq /\ ~r.wq
      /\ r.marked = circ[c].marked /\ r.p_chan = circ[c].p_chan
  BY <1>4, Zenon DEF CircType
<1>6. ASSUME \A x \in Circ : circ'[x].oq <=> circ[x].oq /\ x # c
      PROVE  Queues' /\ ol_list' \in [Type -> Seq(Circ)] /\ ol_entries' \in [Type -> Nat]
  BY <1>0, <1>1, <1>2, <1>6, QueuePopped, Zenon
<1> HIDE DEF r, c
<1>7. ASSUME circ[c].p_chan, QueueHandshake(c, r) PROVE Kept
  <2>1. /\ circ' \in [Circ -> CircType] /\ total_pending_tasks' \in 0..MaxPending
        /\ \A x \in Circ : Good(x)'
        /\ \A x \in Circ : circ'[x].oq <=> circ[x].oq /\ x # c
        /\ PendingTasksCounted' /\ WQNext
    BY <1>2, <1>3, <1>5, <1>7, HandshakeQueued, Zenon
  <2> QED  BY <1>0, <1>1, <1>2, <1>6, <2>1 DEF Kept, CircTypes
<1>8. ASSUME ~circ[c].p_chan, circ' = [circ EXCEPT ![c] = Settle(r)], UNCHANGED <<wqvars, total_pending_tasks>>
      PROVE  Kept
  <2>0. r.marked
    BY <1>4, <1>5, <1>8
  <2>1. /\ Settle(r) \in CircType /\ Settle(r).magic = "or" /\ Settle(r).marked
        /\ ~Settle(r).oq /\ ~Settle(r).wq
    BY <1>5, <2>0, SettledCircs
  <2>2. circ' \in [Circ -> CircType] /\ circ'[c] = Settle(r) /\ \A x \in Circ \ {c} : circ'[x] = circ[x]
    BY <1>0, <1>3, <1>8, <2>1
  <2>3. \A x \in Circ : InFlight(x)' <=> InFlight(x)
    BY <1>8, OthersStayInFlight DEF CpuInv, QuietSteps
  <2>d. PICK d \in Circ : d = c
    BY <1>3
  <2>4. Good(d)'
    BY <1>4, <2>1, <2>2, <2>3, <2>d DEF Good
  <2>5. \A x \in Circ \ {d} : Good(x)'
    BY <1>0, <2>2, <2>3, <2>d, GoodKept
  <2>6. \A x \in Circ : circ'[x].oq <=> circ[x].oq /\ x # c
    BY <2>1, <2>2
  <2>7. PendingTasksCounted'
    BY <1>0, <1>8, <2>3, CountSame
  <2> QED  BY <1>0, <1>1, <1>2, <1>6, <1>8, <2>2, <2>4, <2>5, <2>6, <2>7, SMT DEF Kept, CircTypes
<1> QED  BY <1>2, <1>7, <1>8 DEF c, r

\* The steps that leave circuits and their jobs alone
LEMMA OthersKeep ==
    ASSUME CpuInv, \A x \in Circ : InFlight(x)' <=> InFlight(x),
           UNCHANGED <<circ, olvars, total_pending_tasks>>, closing' \in BOOLEAN, [WQNext]_wqvars
    PROVE  Kept
<1>1. \A x \in Circ : Good(x)'
  BY GoodKept DEF CpuInv
<1>2. Queues'
  BY QueuesUnchanged DEF CpuInv, olvars
<1>3. PendingTasksCounted'
  BY CountSame DEF CpuInv
<1> QED  BY <1>1, <1>2, <1>3 DEF Kept, CpuInv, CircTypes, olvars

LEMMA StepKeeps ==
    ASSUME CpuInv, [CpuNext]_vars
    PROVE  Kept
<1>0. WQInv /\ closing \in BOOLEAN
  BY DEF CpuInv, CircTypes
<1>1. ASSUME NEW c \in Circ, command_process_destroy_cell(c) \/ CloseForOtherReason(c) PROVE Kept
  <2>1. PICK b \in BOOLEAN : circuit_mark_for_close({c}, b)
    BY <1>1, Zenon DEF command_process_destroy_cell, CloseForOtherReason
  <2>2. Live(c)
    BY <1>1, Zenon DEF command_process_destroy_cell, CloseForOtherReason
  <2> QED  BY <2>1, <2>2, MarkKeeps, SMT
<1>2. ASSUME NEW ch, circuit_unlink_all_from_channel(ch) PROVE Kept
  <2>1. circuit_mark_for_close(Attached(ch), FALSE) /\ Attached(ch) \in SUBSET Circ
    BY <1>2, Zenon DEF circuit_unlink_all_from_channel, Attached
  <2>2. \A c \in Attached(ch) : Live(c)
    BY DEF Attached
  <2> QED  BY <2>1, <2>2, MarkKeeps, Zenon
<1>3. ASSUME NEW o \in OtherWork, QueueOtherWork(o) \/ OtherReply(o) PROVE Kept
  <2>0. o \in Entry /\ o \notin Circ /\ Low \in Priority
    BY CpuWorkerAssumption
  <2>1. UNCHANGED cpuvars
    BY <1>3 DEF QueueOtherWork, OtherReply
  <2>2. CASE QueueOtherWork(o)
    <3>1. threadpool_queue_work_priority(Low, o)
      BY <2>2 DEF QueueOtherWork
    <3>2. \A x \in Circ : InFlight(x)' <=> InFlight(x)
      BY <1>0, <2>0, <3>1, QueueFlies
    <3> QED  BY <1>0, <2>0, <2>1, <3>1, <3>2, OthersKeep DEF cpuvars, WQNext
  <2>3. CASE OtherReply(o)
    <3>1. TakeAnswer /\ replying' = o
      BY <2>3 DEF OtherReply
    <3>2. \A x \in Circ : InFlight(x)' <=> InFlight(x)
      BY <1>0, <2>0, <3>1, ReplyLands
    <3> QED  BY <1>0, <2>1, <3>1, <3>2, OthersKeep DEF cpuvars, WQNext, ReplyStep
  <2> QED  BY <1>3, <2>2, <2>3
<1>4. ASSUME QuietSteps, UNCHANGED <<circ, olvars, total_pending_tasks>>, closing' \in BOOLEAN PROVE Kept
  <2>1. \A x \in Circ : InFlight(x)' <=> InFlight(x)
    BY <1>0, <1>4, OthersStayInFlight
  <2>2. [WQNext]_wqvars
    BY <1>4 DEF QuietSteps, WQNext, ReplyStep
  <2> QED  BY <1>4, <2>1, <2>2, OthersKeep
<1>5. ASSUME NEW t \in Thread, Worker(t) \/ Stirs(t) PROVE Kept
  BY <1>0, <1>4, <1>5 DEF Worker, Stirs, QuietSteps, cpuvars
<1>6. CASE ReplyEvent \/ ProcessDone \/ Return \/ cpuworkers_rotate_keyinfo \/ postloop_cleanup_cb
  BY <1>0, <1>4, <1>6
  DEF ReplyEvent, ProcessDone, Return, cpuworkers_rotate_keyinfo, postloop_cleanup_cb, QuietSteps, cpuvars
<1>7. CASE UNCHANGED vars
  BY <1>0, <1>4, <1>7 DEF vars, cpuvars, QuietSteps
<1> QED
  BY <1>1, <1>2, <1>3, <1>5, <1>6, <1>7, CreateKeeps, CloseKeeps, ReplyKeeps, QueuePendingKeeps, SMT
  DEF CpuNext, MainStep

-----------------------------------------------------------------------------
\* The thread pool as the relay uses it, the circuits and the onion queues agree
\* in every state.
THEOREM RelaySafety == CpuSpec => []CpuInv
<1>1. CpuInit => CpuInv
  <2> SUFFICES ASSUME CpuInit PROVE CpuInv
    OBVIOUS
  <2>0. WQInit
    BY DEF CpuInit
  <2>1. WQInv
    BY <2>0, WQInitInv
  <2>2. \A c \in Circ : ~InFlight(c)
    BY <2>0, WQInitEmpty, CpuWorkerAssumption DEF InFlight
  <2>3. \A c \in Circ : Good(c)
    BY <2>2, ConstantCircs DEF CpuInit, Good
  <2>4. Queues
    <3>1. \A ty \in Type : Len(ol_list[ty]) = 0 /\ ol_entries[ty] = 0
      BY DEF CpuInit
    <3>2. \A c \in Circ : ~circ[c].oq
      BY ConstantCircs DEF CpuInit
    <3> QED  BY <3>1, <3>2, SMT DEF Queues, Distinct, In
  <2>5. PendingTasksCounted
    <3>1. {c \in Circ : InFlight(c)} = {}  BY <2>2
    <3> QED  BY <3>1, FS_EmptySet DEF PendingTasksCounted, CpuInit
  <2>6. CircTypes
    <3>1. ol_list \in [Type -> Seq(Circ)]
      <4>1. <<>> \in Seq(Circ)  BY SMT
      <4> QED  BY <4>1 DEF CpuInit
    <3>2. circ \in [Circ -> CircType]
      BY ConstantCircs DEF CpuInit
    <3>3. 0 \in 0..MaxPending /\ 0 \in 0..NumNTorsPerTAP + 1
      BY CpuWorkerAssumption, SMT
    <3>4. ol_entries \in [Type -> Nat]
      BY DEF CpuInit
    <3> QED  BY <3>1, <3>2, <3>3, <3>4, Zenon DEF CpuInit, CircTypes
  <2> QED  BY <2>1, <2>3, <2>4, <2>5, <2>6 DEF CpuInv
<1>2. CpuInv /\ [CpuNext]_vars => CpuInv'
  <2> SUFFICES ASSUME CpuInv, [CpuNext]_vars PROVE CpuInv'
    OBVIOUS
  <2>1. Kept
    BY StepKeeps
  <2>2. WQInv'
    BY <2>1, WQStepInv DEF Kept, CpuInv
  <2> QED  BY <2>1, <2>2 DEF Kept, CpuInv
<1> QED  BY <1>1, <1>2, PTL DEF CpuSpec

\* Every behaviour of the relay is one of the thread pool.
THEOREM RelayUsesPool == CpuSpec => WQSpec
<1>1. CpuInit => WQInit
  BY DEF CpuInit
<1>2. CpuInv /\ [CpuNext]_vars => [WQNext]_wqvars
  BY StepKeeps DEF Kept
<1> QED  BY <1>1, <1>2, RelaySafety, PTL DEF CpuSpec, WQSpec

\* The counters and queues of cpuworker.c and onion_queue.c have their types.
THEOREM RelayTypes == CpuSpec => []CpuTypeOK
<1>1. CpuInv => CpuTypeOK
  BY DEF CpuInv, WQInv, CircTypes, CpuTypeOK
<1> QED  BY <1>1, RelaySafety, PTL

\* total_pending_tasks never leaks and never goes below zero.
THEOREM TasksCounted == CpuSpec => []PendingTasksCounted
<1>1. CpuInv => PendingTasksCounted
  BY DEF CpuInv
<1> QED  BY <1>1, RelaySafety, PTL

\* No job outlives the memory of its circuit.
THEOREM CircuitsOutliveJobs == CpuSpec => []JobsHaveCircuits
<1>1. CpuInv => JobsHaveCircuits
  BY DEF CpuInv, Good, JobsHaveCircuits, Live
<1> QED  BY <1>1, RelaySafety, PTL

\* ol_entries, the queues and circ->onionqueue_entry agree.
THEOREM OnionQueuesAgree == CpuSpec => []OnionQueueConsistent
<1>1. CpuInv => OnionQueueConsistent
  BY DEF CpuInv, Good, Queues, Distinct, OnionQueueConsistent, Live
<1> QED  BY <1>1, RelaySafety, PTL

\* onionskin_answer always finds the channel of the circuit it answers.
THEOREM AnswersFindChannel == CpuSpec => []AnswerableHaveChannel
<1>1. CpuInv => AnswerableHaveChannel
  BY DEF CpuInv, Good, AnswerableHaveChannel, Live
<1> QED  BY <1>1, RelaySafety, PTL

\* Only the cancelling of jobs in circuit_about_to_free leaves room in the pool
\* that no waiting circuit gets.
THEOREM RoomIsUsed == CpuSpec => OnlyCancellingWastesRoom
<1> DEFINE Step == ~RoomUnused /\ RoomUnused' => closing
<1>1. CpuInv /\ [CpuNext]_vars => [Step]_vars
  <2> SUFFICES ASSUME CpuInv, CpuNext, ~closing, RoomUnused' PROVE RoomUnused
    OBVIOUS
  <2>0. /\ CircTypes /\ Queues /\ \A x \in Circ : Good(x)
        /\ circ \in [Circ -> CircType]
        /\ total_pending_tasks \in Nat /\ MaxPending \in Nat
    BY CpuWorkerAssumption, SMT DEF CpuInv, CircTypes
  <2>1. /\ total_pending_tasks' < MaxPending /\ ~(main' = "reply" /\ replying' \in Circ)
    BY DEF RoomUnused
  <2>2. PICK w \in Circ : circ'[w].oq
    BY DEF RoomUnused, Waits
  <2>3. ASSUME NEW c \in Circ, command_process_create_cell(c) PROVE RoomUnused
    <3>1. main = "loop"
      BY <2>3 DEF command_process_create_cell, Idle
    <3>2. total_pending_tasks < MaxPending
      BY <2>0, <2>1, <2>3 DEF command_process_create_cell, QueueHandshake
    <3>3. /\ circ' \in [Circ -> CircType] /\ ~circ'[c].oq /\ \A x \in Circ \ {c} : circ'[x] = circ[x]
      <4>1. PICK r \in {MarkedCirc, [NewCirc EXCEPT !.pending = FALSE], [NewCirc EXCEPT !.wq = TRUE]} :
               circ' = [circ EXCEPT ![c] = r]
        BY <2>0, <2>3, <3>2, SMT DEF command_process_create_cell, QueueHandshake, CreateRefused, CreateFast
      <4>2. r \in CircType /\ ~r.oq
        BY <4>1 DEF MarkedCirc, NewCirc, CircType
      <4> QED  BY <2>0, <4>1, <4>2
    <3>4. circ[w].oq
      BY <2>2, <3>3
    <3> QED  BY <3>1, <3>2, <3>4 DEF RoomUnused, Waits
  <2>4. ASSUME NEW cs \in SUBSET Circ, NEW b \in BOOLEAN, circuit_mark_for_close(cs, b), \A c \in cs : Live(c)
        PROVE  RoomUnused
    <3>1. main = "loop" /\ total_pending_tasks' = total_pending_tasks
      BY <2>4, Zenon DEF circuit_mark_for_close, Idle
    <3>2. circ[w].oq
      <4>1. CASE w \notin cs
        <5>1. circ'[w] = circ[w]  BY <2>4, <4>1, Zenon DEF circuit_mark_for_close
        <5> QED  BY <2>2, <5>1
      <4>2. CASE w \in cs
        <5> DEFINE r == [circ[w] EXCEPT !.marked = TRUE, !.p_chan = b]
        <5>1. circ[w] \in CircType /\ circ[w].magic = "or"
          BY <2>0, <2>4, <4>2 DEF Live
        <5>2. r \in CircType /\ r.magic = "or" /\ r.oq = circ[w].oq
          BY <5>1 DEF CircType
        <5>3. circ'[w] = Settle(r)
          BY <2>4, <4>2, Zenon DEF circuit_mark_for_close
        <5> HIDE DEF r
        <5> QED  BY <2>2, <5>2, <5>3, SettledCircs, SMT
      <4> QED  BY <4>1, <4>2
    <3> QED  BY <2>1, <3>1, <3>2 DEF RoomUnused, Waits
  <2>5. ASSUME NEW c \in Circ, CloseMarked(c) \/ cpuworker_onion_handshake_replyfn(c) PROVE FALSE
    BY <2>1, <2>5, Zenon DEF CloseMarked, cpuworker_onion_handshake_replyfn, TakeAnswer
  <2>6. ~queue_pending_tasks
    <3> SUFFICES ASSUME queue_pending_tasks PROVE FALSE
      OBVIOUS
    <3>1. main = "reply" /\ replying \in Circ
      BY DEF queue_pending_tasks
    <3>2. UNCHANGED <<main, replying>>
      BY DEF queue_pending_tasks, QueueHandshake, threadpool_queue_work_priority, wqvars, replyvars
    <3> QED  BY <2>1, <3>1, <3>2
  <2>7. CASE Return
    <3>1. UNCHANGED cpuvars /\ main = "reply"
      BY <2>7 DEF Return, ReplyReturns
    <3>2. total_pending_tasks < MaxPending /\ circ[w].oq
      BY <2>1, <2>2, <3>1 DEF cpuvars
    <3>3. replying \notin Circ
      <4> SUFFICES ASSUME replying \in Circ PROVE FALSE
        OBVIOUS
      <4>1. ~HavePendingTask
        BY <2>0, <2>7, <3>2, SMT DEF Return
      <4>2. \A ty \in Type : ol_entries[ty] = Len(ol_list[ty]) /\ ol_list[ty] \in Seq(Circ)
        BY <2>0 DEF Queues, CircTypes
      <4>3. \A ty \in Type : ol_entries[ty] = 0 <=> ol_list[ty] = <<>>
        BY <4>2, EmptySeq
      <4>4. "tap" \in Type /\ "ntor" \in Type
        BY DEF Type
      <4>5. ol_list["tap"] = <<>> /\ ol_list["ntor"] = <<>>
        BY <4>1, <4>3, <4>4 DEF HavePendingTask, decide_next_handshake_type
      <4>6. \A ty \in Type : Len(ol_list[ty]) = 0
        BY <4>5, SMT DEF Type
      <4>7. In(w, ol_list[TypeOf(w)]) /\ TypeOf(w) \in Type
        BY <2>0, <3>2, TypesOfCircs DEF Queues
      <4> QED  BY <4>6, <4>7, SMT DEF In
    <3> QED  BY <3>2, <3>3 DEF RoomUnused, Waits
  <2>8. ASSUME UNCHANGED <<circ, total_pending_tasks>>, main # "reply" \/ replying \notin Circ PROVE RoomUnused
    BY <2>1, <2>2, <2>8 DEF RoomUnused, Waits
  <2>9. ASSUME NEW o \in OtherWork, QueueOtherWork(o) \/ OtherReply(o) PROVE RoomUnused
    BY <2>8, <2>9 DEF QueueOtherWork, OtherReply, TakeAnswer, Idle, cpuvars
  <2>10. ASSUME ReplyEvent \/ ProcessDone \/ cpuworkers_rotate_keyinfo \/ postloop_cleanup_cb PROVE RoomUnused
    BY <2>8, <2>10 DEF ReplyEvent, reply_event_cb, ProcessDone, ProcessEnds, cpuworkers_rotate_keyinfo,
                       postloop_cleanup_cb, Idle, cpuvars
  <2>11. ASSUME NEW t \in Thread, Worker(t) \/ Stirs(t) PROVE RoomUnused
    <3>1. UNCHANGED <<main, replying>>
      BY <2>11 DEF Worker, Stirs, ThreadStep, TakeUpdate, RunUpdate, TakeWork, queue_reply, Alert, Sleep,
                   SpuriousWake, replyvars
    <3> QED  BY <2>1, <2>8, <2>11, <3>1 DEF Worker, Stirs, cpuvars
  <2>12. ASSUME NEW c \in Circ, command_process_destroy_cell(c) \/ CloseForOtherReason(c) PROVE RoomUnused
    <3>1. Live(c) /\ {c} \in SUBSET Circ
      BY <2>12, Zenon DEF command_process_destroy_cell, CloseForOtherReason
    <3>2. PICK b \in BOOLEAN : circuit_mark_for_close({c}, b)
      BY <2>12, Zenon DEF command_process_destroy_cell, CloseForOtherReason
    <3> QED  BY <2>4, <3>1, <3>2
  <2>13. ASSUME NEW ch, circuit_unlink_all_from_channel(ch) PROVE RoomUnused
    <3>1. Attached(ch) \in SUBSET Circ /\ \A c \in Attached(ch) : Live(c)
      BY DEF Attached
    <3> QED  BY <2>4, <2>13, <3>1 DEF circuit_unlink_all_from_channel
  <2> QED
    BY <2>3, <2>5, <2>6, <2>7, <2>9, <2>10, <2>11, <2>12, <2>13, Zenon DEF CpuNext, MainStep
<1> QED  BY <1>1, RelaySafety, PTL DEF CpuSpec, OnlyCancellingWastesRoom

\* So what is proved of the thread pool holds of the relay.
THEOREM RelayPoolSafety ==
    CpuSpec => /\ []WakeupPending /\ []NoLostSignal /\ []UpdateArgsOwned
               /\ StartsUpToDate /\ ImplementsWorkItems
BY RelayUsesPool, AnswersWakeMain, SignalsWakeWorkers, UpdateArgsHaveOneOwner,
   WorkStartsUpToDate, PoolImplementsWorkItems, PTL
=============================================================================
