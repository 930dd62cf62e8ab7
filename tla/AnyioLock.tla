------------------------------ MODULE AnyioLock ------------------------------
(***************************************************************************)
(* anyio.Lock, as `_JWKSKeySet._refresh` uses it: one owner, and a queue   *)
(* of the tasks suspended in `acquire`.  Releasing hands the lock straight *)
(* to the task that has waited longest, so a task arriving between the     *)
(* release and the wake-up queues behind it.  A task cancelled in `acquire`*)
(* leaves the queue, and passes the lock on when it was already handed it. *)
(***************************************************************************)
EXTENDS OrderedKeys

CONSTANTS
    Tasks,      \* whoever may ask for the lock
    Nobody      \* the owner of a free lock, not a task

Locks == [owner : Tasks \cup {Nobody}, waiters : Seq(Tasks)]

Free == [owner |-> Nobody, waiters |-> <<>>]

Acquire(l, t) ==
    IF l.owner = Nobody
    THEN [l EXCEPT !.owner = t]
    ELSE [l EXCEPT !.waiters = Append(@, t)]

Release(l) ==
    IF l.waiters = <<>>
    THEN Free
    ELSE [owner |-> Head(l.waiters), waiters |-> Tail(l.waiters)]

\* t gives up: as the owner it passes the lock on, as a waiter it leaves.
Abandon(l, t) ==
    IF l.owner = t
    THEN Release(l)
    ELSE [l EXCEPT !.waiters = Without(@, t)]
=============================================================================
