------------------------------ MODULE WorkItems ------------------------------
(***************************************************************************)
(* What the thread pool of lib/evloop/workqueue.c promises its callers: an *)
(* item of work is queued, run by a worker thread and given back to the    *)
(* main thread exactly once, unless it is cancelled before a thread starts *)
(* it.  The storage of an item is free again after its reply function.     *)
(***************************************************************************)
CONSTANT Entry

VARIABLE status

Stages == {"free", "queued", "running", "answered", "replying"}

Init == status = [e \in Entry |-> "free"]

Move(e, from, to) ==
    /\ status[e] = from
    /\ status' = [status EXCEPT ![e] = to]

Queue(e)  == Move(e, "free", "queued")
Cancel(e) == Move(e, "queued", "free")
Start(e)  == Move(e, "queued", "running")
Finish(e) == Move(e, "running", "answered")
Reply(e)  == Move(e, "answered", "replying")
Free(e)   == Move(e, "replying", "free")

Next == \E e \in Entry :
            Queue(e) \/ Cancel(e) \/ Start(e) \/ Finish(e) \/ Reply(e) \/ Free(e)

Spec == Init /\ [][Next]_status
=============================================================================
