---------------------------- MODULE BoundedFifo ----------------------------
(***************************************************************************)
(* What the notification queue of src/src/transport/mod.rs promises        *)
(* (144-148, 291-299): a closable queue that loses its oldest entry when   *)
(* full, counts what it lost, and answers whoever asks as soon as there is *)
(* an entry or the queue is closed and drained.  Every operation is one    *)
(* step; nothing is said of how the asker is woken.                        *)
(***************************************************************************)
EXTENDS Integers, Sequences

CONSTANTS Items, Capacity, End

VARIABLES
    items,    \* what is queued, oldest first
    closed,   \* the stream has ended
    dropped,  \* entries lost for being over capacity
    asking,   \* somebody waits for the next entry
    got       \* the last answer: an entry, or End

vars == <<items, closed, dropped, asking, got>>

Init ==
    /\ items = <<>> /\ closed = FALSE /\ dropped = 0
    /\ asking = FALSE /\ got = End

Put_Unbounded(n) ==
    /\ ~closed
    /\ items' = Append(items, n)
    /\ UNCHANGED <<closed, dropped, asking, got>>
Put(n) ==
    /\ ~closed
    /\ IF Len(items) < Capacity
       THEN items' = Append(items, n) /\ UNCHANGED dropped
       ELSE items' = Append(Tail(items), n) /\ dropped' = dropped + 1
    /\ UNCHANGED <<closed, asking, got>>

Close ==
    /\ closed' = TRUE
    /\ UNCHANGED <<items, dropped, asking, got>>

\* The queue is reopened and cleared only while nobody asks.
Reopen ==
    /\ ~asking
    /\ closed' = FALSE
    /\ UNCHANGED <<items, dropped, asking, got>>

Clear ==
    /\ ~asking
    /\ items' = <<>>
    /\ UNCHANGED <<closed, dropped, asking, got>>

Ask ==
    /\ ~asking
    /\ asking' = TRUE
    /\ UNCHANGED <<items, closed, dropped, got>>

GiveUp ==
    /\ asking
    /\ asking' = FALSE
    /\ UNCHANGED <<items, closed, dropped, got>>

Answer ==
    /\ asking
    /\ \/ items # <<>> /\ got' = Head(items) /\ items' = Tail(items)
       \/ items = <<>> /\ closed /\ got' = End /\ UNCHANGED items
    /\ asking' = FALSE
    /\ UNCHANGED <<closed, dropped>>

Next ==
    \/ \E n \in Items : Put(n)
    \/ Close \/ Reopen \/ Clear \/ Ask \/ GiveUp \/ Answer

Spec == Init /\ [][Next]_vars

\* Whoever asks is answered once there is something to say.
FairSpec == Spec /\ WF_vars(Answer)
=============================================================================
