---------------------- MODULE NotificationQueueProofs ----------------------
(* Theorems about NotificationQueue, for every capacity and set of threads. *)
EXTENDS NotificationQueue, TLAPS

Kept == TypeOK /\ NoLostWakeup

\* The tail of a queue of entries is one.
LEMMA TailTyped ==
    ASSUME NEW s \in Seq(Nat), s # <<>>
    PROVE  Tail(s) \in Seq(Nat)
OBVIOUS

\* A queue of entries with one more is one.
LEMMA AppendTyped ==
    ASSUME NEW s \in Seq(Nat), NEW n \in Nat
    PROVE  Append(s, n) \in Seq(Nat)
OBVIOUS

\* Types and wake-ups are kept together: a step between the check of the
\* state and the registration leaves a permit or a thread that owes one.
LEMMA KeptStep == Kept /\ [Next]_vars => Kept'
<1> SUFFICES ASSUME Kept, [Next]_vars PROVE Kept'
  OBVIOUS
<1> USE CapacityAssumption DEF Kept, TypeOK, NoLostWakeup, Something, None
<1>1. ASSUME NEW t \in Threads, Push(t) PROVE Kept'
  <2>1. items \in Seq(Nat) /\ pushed + 1 \in Nat /\ dropped \in Nat
    OBVIOUS
  <2>2. Len(items) >= Capacity => Tail(items) \in Seq(Nat)
    <3>1. Len(items) >= Capacity => items # <<>>
      BY <2>1
    <3>2. QED
      BY <2>1, <3>1, TailTyped, Zenon
  <2>3. items' \in Seq(Nat) /\ dropped' \in Nat
    <3>1. CASE Len(items) >= Capacity
      <4>1. items' = Append(Tail(items), pushed + 1) /\ dropped' = dropped + 1
        BY <1>1, <3>1, Zenon DEF Push, Evict, Lost
      <4>2. PICK s \in Seq(Nat) : s = Tail(items)
        BY <2>2, <3>1, Zenon
      <4>3. Append(s, pushed + 1) \in Seq(Nat)
        BY <2>1, AppendTyped, Zenon
      <4>4. items' \in Seq(Nat)
        BY <4>1, <4>2, <4>3, Zenon
      <4>5. QED
        BY <2>1, <4>1, <4>4
    <3>2. CASE ~(Len(items) >= Capacity)
      BY <1>1, <2>1, <3>2 DEF Push
    <3>3. QED
      BY <3>1, <3>2
  <2>4. owes' = owes \cup {t} /\ pushed' = pushed + 1
        /\ UNCHANGED <<closed, permit, at, got, last, taken, cleared>>
    BY <1>1 DEF Push
  <2>5. QED
    BY <2>3, <2>4
<1>2. ASSUME NEW t \in Threads, Close(t) PROVE Kept'
  BY <1>2 DEF Close, counts
<1>3. ASSUME NEW t \in Threads, NotifyOne(t) PROVE Kept'
  BY <1>3 DEF NotifyOne, state, counts
<1>4. ASSUME Reopen PROVE Kept'
  BY <1>4 DEF Reopen, counts
<1>5. ASSUME Clear PROVE Kept'
  BY <1>5 DEF Clear
<1>6. ASSUME Pop PROVE Kept'
  BY <1>6 DEF Pop, state, counts
<1>7. ASSUME TakeItem PROVE Kept'
  BY <1>7 DEF TakeItem
<1>8. ASSUME TakeEnd PROVE Kept'
  BY <1>8 DEF TakeEnd, state, counts
<1>9. ASSUME FindNothing PROVE Kept'
  BY <1>9 DEF FindNothing, state, counts
<1>10. ASSUME Register PROVE Kept'
  BY <1>10 DEF Register, state, counts
<1>11. ASSUME Wake PROVE Kept'
  BY <1>11 DEF Wake, state, counts
<1>12. ASSUME GiveUp PROVE Kept'
  BY <1>12 DEF GiveUp, state, counts
<1>13. ASSUME UNCHANGED vars PROVE Kept'
  BY <1>13 DEF vars
<1>14. QED
  BY <1>1, <1>2, <1>3, <1>4, <1>5, <1>6, <1>7, <1>8, <1>9, <1>10, <1>11, <1>12, <1>13
  DEF Next, Consume

\* In every behaviour types and wake-ups are kept.
THEOREM KeptInvariant == Spec => []Kept
<1>1. <<>> \in Seq(Nat)
  OBVIOUS
<1>2. Init => TypeOK
  <2>1. Init => items \in Seq(Nat)
    BY <1>1, Zenon DEF Init
  <2>2. Init => owes \subseteq Threads
    BY DEF Init
  <2>3. Init => closed \in BOOLEAN /\ permit \in BOOLEAN
    BY DEF Init
  <2>4. Init => dropped \in Nat /\ got \in Nat
    BY DEF Init, None
  <2>5. Init => pushed \in Nat /\ last \in Nat /\ taken \in Nat /\ cleared \in Nat
    BY DEF Init
  <2>6. Init => at \in {"away", "check", "register", "waiting", "woken"}
    BY DEF Init
  <2>7. QED
    BY <2>1, <2>2, <2>3, <2>4, <2>5, <2>6, Zenon DEF TypeOK
<1>3. Init => NoLostWakeup
  BY DEF Init, NoLostWakeup
<1>4. QED
  BY <1>2, <1>3, KeptStep, PTL DEF Spec, Kept

\* Every variable of the queue keeps its type.
THEOREM TypeCorrect == Spec => []TypeOK
<1>1. Kept => TypeOK
  BY DEF Kept
<1>2. QED
  BY <1>1, KeptInvariant, PTL

\* A waiting consumer with something in the queue, or a closed queue, has a
\* notification coming (transport/mod.rs:179-201, 219-233).
THEOREM WakeupsNotLost == Spec => []NoLostWakeup
<1>1. Kept => NoLostWakeup
  BY DEF Kept
<1>2. QED
  BY <1>1, KeptInvariant, PTL

-----------------------------------------------------------------------------
(* Order and accounting. *)

\* What is left of the latest entries when the first of them goes.
LEMMA LatestTail ==
    ASSUME NEW s \in Seq(Nat), NEW n \in Nat, s # <<>>, Latest(s, n)
    PROVE  /\ Tail(s) \in Seq(Nat) /\ Len(Tail(s)) = Len(s) - 1 /\ Len(s) \in Nat
           /\ Latest(Tail(s), n) /\ Head(s) = n - Len(Tail(s))
<1>1. /\ Tail(s) \in Seq(Nat) /\ Len(Tail(s)) = Len(s) - 1
      /\ Head(s) = s[1] /\ Len(s) \in Nat /\ Len(s) >= 1
      /\ \A i \in 1..(Len(s) - 1) : Tail(s)[i] = s[i + 1]
  OBVIOUS
<1>2. \A i \in 1..Len(s) : s[i] = n - Len(s) + i
  BY DEF Latest
<1>3. \A i \in 1..(Len(s) - 1) : i + 1 \in 1..Len(s) /\ Tail(s)[i] = n - (Len(s) - 1) + i
  BY <1>1, <1>2
<1>4. s[1] = n - (Len(s) - 1)
  BY <1>1, <1>2
<1>5. Latest(Tail(s), n)
  BY <1>1, <1>3 DEF Latest
<1>6. QED
  BY <1>1, <1>4, <1>5

\* The next entry at the end.
LEMMA LatestAppend ==
    ASSUME NEW s \in Seq(Nat), NEW n \in Nat, Latest(s, n)
    PROVE  /\ Append(s, n + 1) \in Seq(Nat) /\ Len(Append(s, n + 1)) = Len(s) + 1
           /\ Latest(Append(s, n + 1), n + 1)
<1>0. PICK t : t = Append(s, n + 1)
  OBVIOUS
<1>1. /\ t \in Seq(Nat) /\ Len(t) = Len(s) + 1 /\ Len(s) \in Nat
      /\ \A i \in 1..Len(s) : t[i] = s[i]
      /\ t[Len(s) + 1] = n + 1
  BY <1>0
<1>2. \A i \in 1..Len(s) : s[i] = n - Len(s) + i
  BY DEF Latest
<1>3. ASSUME NEW i \in 1..Len(t) PROVE t[i] = (n + 1) - Len(t) + i
  <2>1. i \in Int /\ (i \in 1..Len(s) \/ i = Len(s) + 1)
    BY <1>1
  <2>2. i \in 1..Len(s) => t[i] = n - Len(s) + i
    BY <1>1, <1>2
  <2>3. QED
    BY <1>1, <2>1, <2>2
<1>4. Latest(t, n + 1)
  BY <1>3 DEF Latest
<1>5. QED
  BY <1>0, <1>1, <1>4

\* push keeps the account: a full queue loses its oldest entry, counts it,
\* and takes the new one.
LEMMA PushAccounted ==
    ASSUME TypeOK, Accounted, NEW t \in Threads, Push(t)
    PROVE  Accounted'
<1> USE CapacityAssumption
<1>1. /\ items \in Seq(Nat) /\ pushed \in Nat /\ last \in Nat /\ dropped \in Nat
      /\ taken \in Nat /\ cleared \in Nat
      /\ pushed' = pushed + 1 /\ UNCHANGED <<last, taken, cleared>>
  BY DEF TypeOK, Push
<1>2. /\ Len(items) <= Capacity /\ Latest(items, pushed)
      /\ pushed = Len(items) + taken + cleared + dropped
      /\ last + Len(items) <= pushed
  BY DEF Accounted
<1>3. Len(items) \in Nat
  BY <1>1
<1>4. ASSUME Len(items) >= Capacity PROVE Accounted'
  <2>1. Len(items) = Capacity /\ items # <<>>
    BY <1>1, <1>2, <1>4
  <2>2. items' = Append(Tail(items), pushed + 1) /\ dropped' = dropped + 1
    BY <1>4 DEF Push, Evict, Lost
  <2>3. PICK s \in Seq(Nat) :
           s = Tail(items) /\ Len(s) = Len(items) - 1 /\ Latest(s, pushed)
    BY <1>1, <1>2, <2>1, LatestTail
  <2>4. Len(Append(s, pushed + 1)) = Len(s) + 1 /\ Latest(Append(s, pushed + 1), pushed + 1)
    BY <1>1, <2>3, LatestAppend, Zenon
  <2>5. Len(items') = Len(s) + 1 /\ Latest(items', pushed')
    BY <1>1, <2>2, <2>3, <2>4, Zenon
  <2>6. dropped' = dropped + 1
    BY <2>2
  <2>7. /\ Len(items') <= Capacity /\ last' + Len(items') <= pushed'
        /\ pushed' = Len(items') + taken' + cleared' + dropped'
    BY <1>1, <1>2, <1>3, <2>3, <2>5, <2>6
  <2>8. QED
    BY <2>5, <2>7, Zenon DEF Accounted
<1>5. ASSUME ~(Len(items) >= Capacity) PROVE Accounted'
  <2>1. items' = Append(items, pushed + 1) /\ dropped' = dropped
    BY <1>5 DEF Push
  <2>2. Len(items') = Len(items) + 1 /\ Latest(items', pushed')
    BY <1>1, <1>2, <2>1, LatestAppend
  <2>3. dropped' = dropped
    BY <2>1
  <2>4. /\ Len(items') <= Capacity /\ last' + Len(items') <= pushed'
        /\ pushed' = Len(items') + taken' + cleared' + dropped'
    BY <1>1, <1>2, <1>3, <1>5, <2>2, <2>3
  <2>5. QED
    BY <2>2, <2>4, Zenon DEF Accounted
<1>6. QED
  BY <1>4, <1>5

\* Accounted is inductive relative to the types.
LEMMA AccountedStep == TypeOK /\ Accounted /\ [Next]_vars => Accounted'
<1> SUFFICES ASSUME TypeOK, Accounted, [Next]_vars PROVE Accounted'
  OBVIOUS
<1>1. ASSUME NEW t \in Threads, Push(t) PROVE Accounted'
  BY <1>1, PushAccounted
<1>2. ASSUME Clear PROVE Accounted'
  <2>1. items' = <<>> /\ cleared' = cleared + Len(items) /\ UNCHANGED <<pushed, last, taken, dropped>>
    BY <1>2 DEF Clear
  <2>2. Len(items') = 0 /\ Latest(items', pushed')
    BY <2>1 DEF Latest
  <2>3. QED
    BY <2>1, <2>2, CapacityAssumption DEF TypeOK, Accounted
<1>3. ASSUME TakeItem PROVE Accounted'
  <2>1. /\ items \in Seq(Nat) /\ items # <<>> /\ items' = Tail(items)
        /\ last' = Head(items) /\ taken' = taken + 1
        /\ UNCHANGED <<pushed, dropped, cleared>>
    BY <1>3 DEF TakeItem, TypeOK
  <2>2. /\ Len(items') = Len(items) - 1 /\ Len(items) \in Nat
        /\ Latest(items', pushed') /\ last' = pushed - Len(items')
    BY <2>1, LatestTail DEF TypeOK, Accounted
  <2>3. taken' = taken + 1 /\ UNCHANGED <<pushed, dropped, cleared>>
    BY <2>1
  <2>4. QED
    BY <2>2, <2>3, CapacityAssumption DEF TypeOK, Accounted
<1>4. ASSUME UNCHANGED <<items, dropped, counts>> PROVE Accounted'
  BY <1>4 DEF counts, Accounted, Latest
<1>5. QED
  BY <1>1, <1>2, <1>3, <1>4
  DEF Next, Consume, Close, NotifyOne, Reopen, Pop, TakeEnd, FindNothing, Register,
      Wake, GiveUp, state, counts, vars

\* The queue holds the latest entries in order, and each entry is queued,
\* returned, cleared or counted as dropped (transport/mod.rs:146-148).
THEOREM EntriesAccounted == Spec => []Accounted
<1>1. Init => Accounted
  BY CapacityAssumption DEF Init, Accounted, Latest
<1>2. TypeOK /\ Accounted /\ [Next]_vars => Accounted'
  BY AccountedStep
<1>3. QED
  BY <1>1, <1>2, TypeCorrect, PTL DEF Spec

-----------------------------------------------------------------------------
(* Refinement. *)

\* Every step of the queue is a step of the bounded FIFO queue or none.
LEMMA FifoStep == TypeOK /\ [Next]_vars => [Fifo!Next]_Fifo!vars
<1> SUFFICES ASSUME TypeOK, [Next]_vars PROVE [Fifo!Next]_Fifo!vars
  OBVIOUS
<1> USE CapacityAssumption, PushesAssumption
<1>1. ASSUME NEW t \in Threads, Push(t) PROVE Fifo!Next
  <2>1. pushed + 1 \in 1..MaxPushes
    BY <1>1 DEF Push, TypeOK
  <2>2. Fifo!Put(pushed + 1)
    BY <1>1 DEF Push, Evict, Lost, Fifo!Put, TypeOK
  <2>3. QED
    BY <2>1, <2>2 DEF Fifo!Next
<1>2. ASSUME NEW t \in Threads, Close(t) PROVE Fifo!Next
  BY <1>2 DEF Close, Fifo!Close, Fifo!Next
<1>3. ASSUME Reopen PROVE Fifo!Next
  BY <1>3 DEF Reopen, Fifo!Reopen, Fifo!Next
<1>4. ASSUME Clear PROVE Fifo!Next
  BY <1>4 DEF Clear, Fifo!Clear, Fifo!Next
<1>5. ASSUME Pop PROVE Fifo!Next
  BY <1>5 DEF Pop, state, Fifo!Ask, Fifo!Next
<1>6. ASSUME GiveUp PROVE Fifo!Next
  BY <1>6 DEF GiveUp, state, Fifo!GiveUp, Fifo!Next
<1>7. ASSUME TakeItem \/ TakeEnd PROVE Fifo!Next
  BY <1>7 DEF TakeItem, TakeEnd, state, Fifo!Answer, Fifo!Next
<1>8. ASSUME \/ \E t \in Threads : NotifyOne(t)
             \/ FindNothing \/ Register \/ Wake \/ UNCHANGED vars
      PROVE  UNCHANGED Fifo!vars
  BY <1>8 DEF NotifyOne, FindNothing, Register, Wake, state, vars, Fifo!vars
<1>9. QED
  BY <1>1, <1>2, <1>3, <1>4, <1>5, <1>6, <1>7, <1>8 DEF Next, Consume

\* The queue with its permit and its waiting loop implements the safety
\* part of the atomic bounded queue.
THEOREM ImplementsFifoSafety == Spec => Fifo!Spec
<1>1. Init => Fifo!Init
  BY DEF Init, Fifo!Init
<1>2. TypeOK /\ [Next]_vars => [Fifo!Next]_Fifo!vars
  BY FifoStep
<1>3. QED
  BY <1>1, <1>2, TypeCorrect, PTL DEF Spec, Fifo!Spec

=============================================================================
