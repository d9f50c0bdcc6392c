------------------------- MODULE NotificationQueue -------------------------
(***************************************************************************)
(* The notification queue of src/src/transport/mod.rs:144-241: its mutex-  *)
(* protected state, the wake-up permit of tokio's Notify, and the loop of  *)
(* pop.  push and close change the state under the mutex and notify after  *)
(* letting it go, so a step of a thread is one of the two.                 *)
(*                                                                         *)
(* One consumer pops at a time, because pop is reached only through        *)
(* wait_for_locked, under the client's request lock; connect and           *)
(* disconnect hold that lock when they clear and reopen the queue.         *)
(***************************************************************************)
EXTENDS Integers, Sequences

CONSTANTS
    Threads,    \* pumps of past and present links
    Capacity,   \* bound of the queue
    MaxPushes   \* bound: entries ever accepted

ASSUME CapacityAssumption == Capacity \in Nat \ {0}
ASSUME PushesAssumption == MaxPushes \in Nat

\* Entries are numbered from 1 in the order of their arrival.
None == 0

VARIABLES
    items,    \* QueueState.items, each entry by its number
    closed,   \* QueueState.closed
    dropped,  \* QueueState.dropped
    permit,   \* Notify: a stored permit
    owes,     \* threads past the mutex that have yet to notify
    at,       \* where the consumer stands in pop
    got,      \* what pop returned last: an entry, or None
    pushed,   \* history: entries accepted
    last,     \* history: last entry returned
    taken,    \* history: entries returned
    cleared   \* history: entries cleared

state   == <<items, closed, dropped>>
counts  == <<pushed, last, taken, cleared>>
vars == <<items, closed, dropped, permit, owes, at, got, pushed, last, taken, cleared>>

Init ==
    /\ items = <<>> /\ closed = FALSE /\ dropped = 0
    /\ permit = FALSE /\ owes = {}
    /\ at = "away" /\ got = None
    /\ pushed = 0 /\ last = 0 /\ taken = 0 /\ cleared = 0

-----------------------------------------------------------------------------
(* push, close, reopen, clear. *)

\* A full queue loses its oldest entry.
Evict_Newest == SubSeq(items, 1, Len(items) - 1)
Evict == Tail(items)
Lost_Backwards == dropped - 1
Lost == dropped + 1

Push(t) ==
    /\ t \notin owes
    /\ ~closed /\ pushed < MaxPushes
    /\ pushed' = pushed + 1
    /\ IF Len(items) >= Capacity
       THEN items' = Append(Evict, pushed + 1) /\ dropped' = Lost
       ELSE items' = Append(items, pushed + 1) /\ UNCHANGED dropped
    /\ owes' = owes \cup {t}
    /\ UNCHANGED <<closed, permit, at, got, last, taken, cleared>>

Close_Silent(t) ==
    /\ t \notin owes
    /\ closed' = TRUE
    /\ UNCHANGED <<items, dropped, permit, owes, at, got, counts>>
Close(t) ==
    /\ t \notin owes
    /\ closed' = TRUE
    /\ owes' = owes \cup {t}
    /\ UNCHANGED <<items, dropped, permit, at, got, counts>>

\* notify_one: wakes the waiting consumer, or stores the permit.
NotifyOne_Forgotten(t) ==
    /\ t \in owes
    /\ owes' = owes \ {t}
    /\ at' = IF at = "waiting" THEN "woken" ELSE at
    /\ UNCHANGED <<state, permit, got, counts>>
NotifyOne(t) ==
    /\ t \in owes
    /\ owes' = owes \ {t}
    /\ IF at = "waiting" THEN at' = "woken" /\ UNCHANGED permit
                         ELSE permit' = TRUE /\ UNCHANGED at
    /\ UNCHANGED <<state, got, counts>>

Reopen ==
    /\ at = "away"
    /\ closed' = FALSE
    /\ UNCHANGED <<items, dropped, permit, owes, at, got, counts>>

Clear ==
    /\ at = "away"
    /\ items' = <<>>
    /\ cleared' = cleared + Len(items)
    /\ UNCHANGED <<closed, dropped, permit, owes, at, got, pushed, last, taken>>

-----------------------------------------------------------------------------
(* pop. *)

Pop ==
    /\ at = "away"
    /\ at' = "check"
    /\ UNCHANGED <<state, permit, owes, got, counts>>

TakeItem ==
    /\ at = "check" /\ items # <<>>
    /\ got' = Head(items)
    /\ items' = Tail(items)
    /\ last' = Head(items) /\ taken' = taken + 1
    /\ at' = "away"
    /\ UNCHANGED <<closed, dropped, permit, owes, pushed, cleared>>

TakeEnd ==
    /\ at = "check" /\ items = <<>> /\ closed
    /\ got' = None
    /\ at' = "away"
    /\ UNCHANGED <<state, permit, owes, counts>>

\* The mutex is let go before notified() is awaited.
FindNothing ==
    /\ at = "check" /\ items = <<>> /\ ~closed
    /\ at' = "register"
    /\ UNCHANGED <<state, permit, owes, got, counts>>

\* A stored permit is taken at once.
Register ==
    /\ at = "register"
    /\ at' = IF permit THEN "check" ELSE "waiting"
    /\ permit' = FALSE
    /\ UNCHANGED <<state, owes, got, counts>>

Wake ==
    /\ at = "woken"
    /\ at' = "check"
    /\ UNCHANGED <<state, permit, owes, got, counts>>

\* The deadline of wait_for_locked drops the wait; a wake-up that was on
\* its way goes back into the permit.
GiveUp ==
    /\ at \in {"waiting", "woken"}
    /\ permit' = (permit \/ at = "woken")
    /\ at' = "away"
    /\ UNCHANGED <<state, owes, got, counts>>

-----------------------------------------------------------------------------
Consume == TakeItem \/ TakeEnd \/ FindNothing \/ Register \/ Wake

Next ==
    \/ \E t \in Threads : Push(t) \/ Close(t) \/ NotifyOne(t)
    \/ Reopen \/ Clear
    \/ Pop \/ Consume \/ GiveUp

Spec == Init /\ [][Next]_vars

\* A thread goes on from the mutex to the notification; the runtime polls
\* the consumer when it is ready.
FairSpec ==
    /\ Spec
    /\ WF_vars(Consume)
    /\ \A t \in Threads : WF_vars(NotifyOne(t))

-----------------------------------------------------------------------------
(* Properties. *)

\* Every variable has its type (transport/mod.rs:149-161).
TypeOK ==
    /\ items \in Seq(Nat)
    /\ closed \in BOOLEAN
    /\ dropped \in Nat
    /\ permit \in BOOLEAN
    /\ owes \subseteq Threads
    /\ at \in {"away", "check", "register", "waiting", "woken"}
    /\ got \in Nat
    /\ pushed \in Nat /\ last \in Nat /\ taken \in Nat /\ cleared \in Nat

Something == items # <<>> \/ closed

\* No wake-up is lost (pop, 219-233): a consumer that waits, or is about to,
\* while there is something for it has a notification coming.
NoLostWakeup ==
    /\ at = "waiting" /\ Something => owes # {}
    /\ at = "register" /\ Something => permit \/ owes # {}

\* The entries of s are the last ones of the first n, in their order.
Latest(s, n) == \A i \in 1..Len(s) : s[i] = n - Len(s) + i

\* The queue is bounded and holds the latest entries in their order, each
\* newer than what was returned; every entry is queued, returned, cleared or
\* counted as dropped.
Accounted ==
    /\ Len(items) <= Capacity
    /\ pushed = Len(items) + taken + cleared + dropped
    /\ Latest(items, pushed)
    /\ last + Len(items) <= pushed

Fifo == INSTANCE BoundedFifo WITH
            Items <- 1..MaxPushes, End <- None,
            asking <- (at # "away")

\* The queue, with its permit and its loop, is a queue whose asker is
\* answered in one step, once there is something to say and always then.
ImplementsFifo == Fifo!FairSpec
=============================================================================
