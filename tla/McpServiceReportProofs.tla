----------------------- MODULE McpServiceReportProofs -----------------------
(***************************************************************************)
(* Theorems about McpService that tell what an answered tool call and a    *)
(* recorded event say of the link, for every set of tasks, calls, tools    *)
(* and slots.                                                              *)
(***************************************************************************)
EXTENDS McpServiceProofs, FiniteSetTheorems

-----------------------------------------------------------------------------
(* The order in which stop_all takes the slots.  That there is one is      *)
(* shown by a least set that has none: the induction theorems of the       *)
(* library take an operator, which the provers cannot instantiate.         *)

\* The enumerations of a set of numbers in ascending order.
Ascending(T) == {s \in [1..Cardinality(T) -> T] : \A i, j \in DOMAIN s : i < j => s[i] < s[j]}

\* A set without its least member, enumerated, is enumerated with it.
LEMMA AscendingGrows ==
    ASSUME NEW T \in SUBSET Nat, IsFiniteSet(T), NEW m \in T, \A t \in T : m <= t,
           Ascending(T \ {m}) # {}
    PROVE  Ascending(T) # {}
<1>1. PICK n \in Nat : Cardinality(T) = n /\ n # 0
  BY FS_CardinalityType, FS_EmptySet
<1>2. Cardinality(T \ {m}) = n - 1
  BY <1>1, FS_RemoveElement
<1>3. PICK e \in [1..(n - 1) -> T \ {m}] : \A i, j \in 1..(n - 1) : i < j => e[i] < e[j]
  BY <1>2 DEF Ascending
<1> DEFINE s == [i \in 1..n |-> IF i = 1 THEN m ELSE e[i - 1]]
<1>4. ASSUME NEW i \in 1..n, i # 1 PROVE i - 1 \in 1..(n - 1) /\ e[i - 1] \in T /\ m < e[i - 1]
  <2>1. i - 1 \in 1..(n - 1)
    BY <1>4
  <2>2. e[i - 1] \in T /\ e[i - 1] # m
    BY <1>3, <2>1
  <2>3. m <= e[i - 1] /\ m \in Nat /\ e[i - 1] \in Nat
    BY <2>2
  <2>4. QED
    BY <2>1, <2>2, <2>3
<1>5. s \in [1..n -> T]
  BY <1>4
<1>6. ASSUME NEW i \in 1..n, NEW j \in 1..n, i < j PROVE s[i] < s[j]
  <2>1. j # 1 /\ j - 1 \in 1..(n - 1) /\ m < e[j - 1]
    BY <1>4, <1>6
  <2>2. CASE i = 1
    BY <2>1, <2>2
  <2>3. CASE i # 1
    <3>1. i - 1 \in 1..(n - 1) /\ i - 1 < j - 1
      BY <1>4, <1>6, <2>3
    <3>2. e[i - 1] < e[j - 1]
      BY <1>3, <2>1, <3>1
    <3>3. QED
      BY <2>1, <2>3, <3>2
  <2>4. QED
    BY <2>2, <2>3
<1>7. s \in Ascending(T)
  <2> HIDE DEF s
  <2>1. DOMAIN s = 1..n
    BY <1>5
  <2>2. QED
    BY <1>1, <1>5, <1>6, <2>1 DEF Ascending
<1>8. QED
  BY <1>7

\* Every finite set of numbers has such an enumeration.
LEMMA AscendingExists ==
    ASSUME NEW T \in SUBSET Nat, IsFiniteSet(T)
    PROVE  Ascending(T) # {}
<1> DEFINE bad == {n \in Nat : \E U \in SUBSET T : Cardinality(U) = n /\ Ascending(U) = {}}
<1>1. SUFFICES ASSUME Ascending(T) = {} PROVE FALSE
  OBVIOUS
<1>2. Cardinality(T) \in bad
  BY <1>1, FS_CardinalityType
<1>3. \E n \in bad : \A k \in bad : n <= k
  <2>1. bad \in SUBSET Nat /\ bad # {}
    BY <1>2
  <2> HIDE DEF bad
  <2>2. QED
    BY <2>1, LeastMember
<1>4. PICK n \in Nat, U \in SUBSET T :
         Cardinality(U) = n /\ Ascending(U) = {} /\ \A k \in bad : n <= k
  BY <1>3
<1>5. IsFiniteSet(U) /\ U \in SUBSET Nat
  BY FS_Subset
<1>6. CASE U = {}
  <2>1. Cardinality(U) = 0 /\ 1..0 = {}
    BY <1>6, FS_EmptySet
  <2>2. [i \in {} |-> 0] \in Ascending(U)
    BY <1>6, <2>1 DEF Ascending
  <2>3. QED
    BY <1>4, <2>2
<1>7. CASE U # {}
  <2>1. PICK m \in U : \A t \in U : m <= t
    BY <1>5, <1>7, LeastMember
  <2>2. Cardinality(U \ {m}) = n - 1 /\ n - 1 \in Nat
    <3>1. IsFiniteSet(U \ {m}) /\ Cardinality(U \ {m}) = n - 1
      BY <1>4, <1>5, FS_RemoveElement
    <3>2. QED
      BY <3>1, FS_CardinalityType
  <2>3. n - 1 \notin bad
    <3> HIDE DEF bad
    <3>1. ~(n <= n - 1)
      OBVIOUS
    <3>2. QED
      BY <1>4, <3>1
  <2>4. Ascending(U \ {m}) # {}
    BY <2>2, <2>3
  <2>5. QED
    BY <1>4, <1>5, <2>1, <2>4, AscendingGrows
<1>8. QED
  BY <1>6, <1>7

\* The slots in the order stop_all takes them: none is left out, none comes
\* twice (tools.rs:1273).
LEMMA SlotOrderComplete ==
    /\ SlotOrder \in [1..Cardinality(Slots) -> Slots]
    /\ Cardinality(Slots) \in Nat /\ Cardinality(Slots) # 0
    /\ \A s \in Slots : \E i \in 1..Cardinality(Slots) : SlotOrder[i] = s
<1> DEFINE n == Cardinality(Slots)
<1>1. Slots \in SUBSET Nat /\ IsFiniteSet(Slots) /\ n \in Nat /\ n # 0
  BY SlotsAssumption, FS_CardinalityType, FS_EmptySet
<1>2. SlotOrder \in Ascending(Slots)
  <2>1. Ascending(Slots) # {}
    BY <1>1, AscendingExists
  <2>2. PICK s \in [1..n -> Slots] : \A i, j \in DOMAIN s : i < j => s[i] < s[j]
    BY <2>1 DEF Ascending
  <2>3. /\ SlotOrder \in [1..n -> Slots]
        /\ \A i, j \in DOMAIN SlotOrder : i < j => SlotOrder[i] < SlotOrder[j]
    BY <2>2, Zenon DEF SlotOrder
  <2>4. QED
    BY <2>3, Zenon DEF Ascending
<1>3. /\ SlotOrder \in [1..n -> Slots]
      /\ \A i, j \in 1..n : i < j => SlotOrder[i] < SlotOrder[j]
  BY <1>2 DEF Ascending
<1>4. ASSUME NEW i \in 1..n, NEW j \in 1..n, SlotOrder[i] = SlotOrder[j] PROVE i = j
  <2>1. SlotOrder[i] \in Nat /\ SlotOrder[j] \in Nat
    BY <1>1, <1>3
  <2>2. ~(i < j) /\ ~(j < i)
    BY <1>3, <1>4, <2>1
  <2>3. QED
    BY <1>1, <2>2
<1>5. SlotOrder \in Injection(1..n, Slots)
  BY <1>3, <1>4 DEF Injection, IsInjective
<1>6. IsFiniteSet(1..n) /\ Cardinality(1..n) = n
  BY <1>1, FS_Interval
<1>7. SlotOrder \in Surjection(1..n, Slots)
  BY <1>1, <1>5, <1>6, FS_Injection
<1>8. QED
  BY <1>1, <1>3, <1>7 DEF Surjection

-----------------------------------------------------------------------------
(* What a call of the client has done to the link.                         *)

\* What a client call that answered well has made of the link: where its
\* loop stands before, and what the link carried after its one frame or its
\* whole sequence.
Effected(c) ==
    /\ call[c].op \in {"start", "stop_acked"} /\ pc[c] \in {"lock", "write"} =>
          todo[c] = Commanded(call[c])
    /\ call[c].op = "stop_acked"
          /\ (pc[c] = "reply" \/ (pc[c] = "done" /\ outcome[c] \in {"ok", "timeout"})) =>
          /\ wire.by = c
          /\ \A s \in Slots : Commanded(call[c]) = {s} => s \in wire.stopped
    /\ call[c].op = "start" /\ pc[c] = "done" /\ outcome[c] = "ok" =>
          /\ wire.by = c
          /\ \A s \in Slots : Commanded(call[c]) = {s} => s \notin wire.stopped
    /\ call[c].op = "send_profile" /\ ~call[c].start
          /\ pc[c] = "done" /\ outcome[c] = "ok" =>
          /\ wire.by = c /\ wire.part = "whole"
          /\ Commanded(call[c]) \subseteq wire.stopped

\* A call begins with its slots to command, or is refused.
LEMMA EnterEffected ==
    ASSUME Core, NEW c \in Callers, NEW k \in Calls, Enter(c, k) \/ Refuse(c, k)
    PROVE  Effected(c)'
<1>1. \/ /\ pc'[c] = "lock" /\ call'[c] = k /\ todo'[c] = Commanded(k)
      \/ /\ pc'[c] = "done" /\ outcome'[c] = "refused"
  BY DEF Enter, Refuse, Core, TypeOK
<1>2. QED
  BY <1>1 DEF Effected, Commanded

\* One step of the call: each frame it writes and each wait it ends.
LEMMA StepEffected ==
    ASSUME Core, ProfileInv, NEW c \in Callers, Effected(c), Step(c), pc[c] # "done"
    PROVE  Effected(c)'
<1>0. /\ pc \in [Callers -> Labels] /\ outcome \in [Callers -> Outcomes]
      /\ todo \in [Callers -> SUBSET Slots]
  BY DEF Core, TypeOK
<1>1. call' = call /\ Commanded(call[c])' = Commanded(call[c])
  BY StepEffect DEF Effect, Commanded
<1>2. [Next]_vars
  BY DEF Next
<1>3. CASE call[c].op = "send_profile"
  <2>1. ASSUME ~call[c].start, pc'[c] = "done", outcome'[c] = "ok"
        PROVE  /\ wire'.by = c /\ wire'.part = "whole"
               /\ Commanded(call[c]) \subseteq wire'.stopped
    <3>1. Reports(c)
      BY <1>3, <2>1 DEF Reports
    <3>2. Honest(c)
      BY <1>2, <3>1, HonestStep
    <3>3. QED
      BY <2>1, <3>2 DEF Honest, Masked
  <2>2. QED
    BY <1>1, <1>3, <2>1 DEF Effected
<1>4. CASE call[c].op \in {"start", "stop_acked"}
  <2>1. pc[c] \in {"lock", "write", "reply"}
    <3>1. pc[c] \notin {"idle", "unlink", "link", "gap", "stop", "stop_ack", "chunk1",
                        "chunk2", "profile_ack", "settle", "start", "start_ack"}
      <4>1. pc[c] # "idle"
        BY DEF Step, Acquire, Return, NextPoll, Unlink, Link, LinkFails,
           WriteAndForget, WriteAndWait, WriteFails, StopMasked, WriteChunk1, WriteChunk2,
           Settled, StartMasked, Receive, Discard, StreamEnds, Deadline, Writing, Waits
      <4>2. QED
        BY <1>4, <4>1 DEF Core, StageInv
    <3>2. QED
      BY <1>0, <3>1 DEF Labels, Writing, Waits
  <2>2. CASE Acquire(c)
    BY <1>0, <1>1, <1>4, <2>2 DEF Acquire, FirstStep, Effected
  <2>3. CASE WriteFails(c)
    BY <1>0, <1>1, <2>3 DEF WriteFails, Finish, Effected
  <2>4. ASSUME NEW s \in Slots, Commanded(call[c]) = {s}, pc[c] = "write"
        PROVE  RequestSlot(c) = s
    <3>1. todo[c] = {s}
      BY <1>4, <2>4 DEF Effected
    <3>2. NextSlot(c) \in todo[c]
      BY <1>0, <3>1, NextSlotChosen
    <3>3. QED
      BY <1>4, <3>1, <3>2 DEF RequestSlot
  <2>5. CASE WriteAndForget(c)
    <3>1. /\ pc[c] = "write" /\ call[c].op = "start" /\ RequestFrame(c) = "Start"
          /\ pc'[c] = "done" /\ Transmit(c, "Start", RequestSlot(c))
      BY <1>0, <1>4, <2>5 DEF WriteAndForget, RequestFrame, Finish
    <3>2. wire'.by = c /\ wire'.stopped = wire.stopped \ {RequestSlot(c)}
      BY <3>1, TransmitWire DEF FrameKinds, Stopped
    <3>3. QED
      BY <1>1, <2>4, <3>1, <3>2 DEF Effected
  <2>6. CASE WriteAndWait(c)
    <3>1. /\ pc[c] = "write" /\ call[c].op = "stop_acked" /\ RequestFrame(c) = "Stop"
          /\ pc'[c] = "reply" /\ Transmit(c, "Stop", RequestSlot(c))
      BY <1>0, <1>4, <2>6 DEF WriteAndWait, RequestFrame, Stay
    <3>2. wire'.by = c /\ wire'.stopped = wire.stopped \cup {RequestSlot(c)}
      BY <3>1, TransmitWire DEF FrameKinds, Stopped
    <3>3. QED
      BY <1>1, <2>4, <3>1, <3>2 DEF Effected
  <2>7. CASE Receive(c) \/ StreamEnds(c) \/ Deadline(c)
    <3>1. pc[c] = "reply" /\ UNCHANGED wire
      BY <2>1, <2>7 DEF Receive, StreamEnds, Deadline, Waits
    <3>2. PICK how, n : ConcludeReply(c, how, n)
      BY <2>7, <3>1 DEF Receive, StreamEnds, Deadline, Conclude, ConcludeStop,
         ConcludeStart,
         ConcludeProfile
    <3>3. pc'[c] \in {"gap", "done"}
      BY <1>0, <3>2 DEF ConcludeReply, Finish
    <3>4. call[c].op = "stop_acked"
      BY <1>4, <3>1 DEF Core, StageInv
    <3>5. QED
      BY <1>1, <3>1, <3>3, <3>4 DEF Effected
  <2>8. CASE Discard(c)
    BY <1>1, <2>8 DEF Discard, tasks, history, Effected
  <2>9. Acquire(c) \/ WriteFails(c) \/ WriteAndForget(c) \/ WriteAndWait(c)
           \/ Receive(c) \/ StreamEnds(c) \/ Deadline(c) \/ Discard(c)
    BY <2>1 DEF Step, Return, NextPoll, Unlink, Link, LinkFails, StopMasked, WriteChunk1,
       WriteChunk2, Settled, StartMasked
  <2>10. QED
    BY <2>2, <2>3, <2>5, <2>6, <2>7, <2>8, <2>9
<1>5. CASE call[c].op \notin {"start", "stop_acked", "send_profile"}
  BY <1>1, <1>5 DEF Effected
<1>6. QED
  BY <1>3, <1>4, <1>5

-----------------------------------------------------------------------------
(* What a handler has left to do.                                          *)

\* What the rest of a script consists of, and that it has a stop for every
\* slot not stopped yet.
OnlyCall(s, k) == \A i \in DOMAIN s : s[i] = k
StopsOnly(s) == \A i \in DOMAIN s : \E x \in Slots : s[i] = Client("stop_acked", {x})
Covered(s, stopped) ==
    \A x \in Slots : x \in stopped \/ \E i \in DOMAIN s : s[i].slots = {x}

\* What is left of a handler's script: of stop_all, the slots that have no
\* stop on the link yet.
Scripted(c) ==
    script[c] # <<>> =>
       /\ Permitted(tool[c])
       /\ tool[c].name = "stop_all" =>
             StopsOnly(script[c]) /\ Covered(script[c], wire.stopped)
       /\ tool[c].name = "charger.start" =>
             OnlyCall(script[c], Client("start", tool[c].slots))
       /\ tool[c].name = "charger.apply_profile" =>
             OnlyCall(script[c], Client("send_profile", tool[c].slots))

\* A handler starts with every slot to stop, or its one call.
LEMMA ScriptBegins ==
    ASSUME NEW t
    PROVE  /\ t.name = "stop_all" =>
                 StopsOnly(Script(t)) /\ \A stopped : Covered(Script(t), stopped)
           /\ t.name = "charger.start" => OnlyCall(Script(t), Client("start", t.slots))
           /\ t.name = "charger.apply_profile" =>
                 OnlyCall(Script(t), Client("send_profile", t.slots))
<1>1. ASSUME t.name = "charger.start" PROVE OnlyCall(Script(t), Client("start", t.slots))
  <2>1. Script(t) = <<Client("start", t.slots)>>
    BY <1>1, Zenon DEF Script
  <2>2. QED
    BY <2>1, OneCall DEF OnlyCall
<1>2. ASSUME t.name = "charger.apply_profile"
      PROVE  OnlyCall(Script(t), Client("send_profile", t.slots))
  <2>1. Script(t) = <<Client("send_profile", t.slots)>>
    BY <1>2, Zenon DEF Script
  <2>2. QED
    BY <2>1, OneCall DEF OnlyCall
<1>3. ASSUME t.name = "stop_all"
      PROVE  StopsOnly(Script(t)) /\ \A stopped : Covered(Script(t), stopped)
  <2>1. Script(t) = [i \in 1..Cardinality(Slots) |-> Client("stop_acked", {SlotOrder[i]})]
    BY <1>3, Zenon DEF Script
  <2>2. DOMAIN Script(t) = 1..Cardinality(Slots)
    BY <2>1
  <2>3. \A i \in 1..Cardinality(Slots) : Script(t)[i] = Client("stop_acked", {SlotOrder[i]})
    BY <2>1
  <2>4. StopsOnly(Script(t))
    BY <2>2, <2>3, SlotOrderComplete DEF StopsOnly
  <2>5. ASSUME NEW x \in Slots PROVE \E i \in DOMAIN Script(t) : Script(t)[i].slots = {x}
    <3>1. PICK i \in 1..Cardinality(Slots) : SlotOrder[i] = x
      BY SlotOrderComplete
    <3>2. Script(t)[i] = Client("stop_acked", {x})
      BY <2>3, <3>1
    <3>3. Script(t)[i].slots = {x}
      BY <3>2, ClientIs
    <3>4. QED
      BY <2>2, <3>3
  <2>6. QED
    BY <2>4, <2>5 DEF Covered
<1>4. QED
  BY <1>1, <1>2, <1>3

\* When the first call of a script has ended and did its part, so does the
\* rest of the script its part.
LEMMA TailScripted ==
    ASSUME NEW s \in Seq(Calls), s # <<>>
    PROVE  /\ \A k : OnlyCall(s, k) => OnlyCall(Tail(s), k) /\ Head(s) = k
           /\ StopsOnly(s) => /\ StopsOnly(Tail(s))
                              /\ \E x \in Slots : Head(s) = Client("stop_acked", {x})
           /\ \A stopped : Covered(s, stopped) /\ Head(s).slots \subseteq stopped =>
                 Covered(Tail(s), stopped)
<1>1. \A i \in DOMAIN Tail(s) : i + 1 \in DOMAIN s /\ Tail(s)[i] = s[i + 1]
  OBVIOUS
<1>2. 1 \in DOMAIN s /\ Head(s) = s[1]
  OBVIOUS
<1>3. ASSUME NEW k, OnlyCall(s, k) PROVE OnlyCall(Tail(s), k) /\ Head(s) = k
  BY <1>1, <1>2, <1>3 DEF OnlyCall
<1>4. ASSUME StopsOnly(s)
      PROVE  StopsOnly(Tail(s)) /\ \E x \in Slots : Head(s) = Client("stop_acked", {x})
  BY <1>1, <1>2, <1>4 DEF StopsOnly
<1>5. ASSUME NEW stopped, Covered(s, stopped), Head(s).slots \subseteq stopped
      PROVE  Covered(Tail(s), stopped)
  <2>1. ASSUME NEW x \in Slots, x \notin stopped
        PROVE  \E i \in DOMAIN Tail(s) : Tail(s)[i].slots = {x}
    <3>1. PICK i \in DOMAIN s : s[i].slots = {x}
      BY <1>5, <2>1 DEF Covered
    <3>2. i # 1
      BY <1>2, <1>5, <2>1, <3>1
    <3>3. i - 1 \in DOMAIN Tail(s) /\ Tail(s)[i - 1] = s[i]
      BY <3>2
    <3>4. QED
      BY <3>1, <3>3
  <2>2. QED
    BY <2>1 DEF Covered
<1>6. QED
  BY <1>3, <1>4, <1>5

\* A stop call takes no slot out of those stopped.
LEMMA StopsGrow ==
    ASSUME Core, NEW c \in Callers, call[c].op = "stop_acked", Step(c)
    PROVE  wire.stopped \subseteq wire'.stopped
<1>1. CASE UNCHANGED wire
  BY <1>1
<1>2. CASE WriteAndWait(c)
  <2>1. RequestFrame(c) = "Stop" /\ Transmit(c, RequestFrame(c), RequestSlot(c))
    BY <1>2 DEF WriteAndWait, RequestFrame
  <2>2. QED
    BY <2>1, TransmitWire DEF FrameKinds, Stopped
<1>3. UNCHANGED wire \/ WriteAndWait(c)
  BY DEF Step, Acquire, Return, NextPoll, Unlink, Link, LinkFails,
     WriteAndForget, WriteFails, StopMasked, WriteChunk1, WriteChunk2, Settled,
     StartMasked, Receive, Discard, StreamEnds, Deadline, history, Core, StageInv
<1>4. QED
  BY <1>1, <1>2, <1>3

\* What is covered stays covered.
LEMMA CoverKept ==
    ASSUME NEW s, NEW before, NEW after, Covered(s, before), before \subseteq after
    PROVE  Covered(s, after)
BY DEF Covered

\* The slot of the stop that the handler has waited for is stopped.
LEMMA StopDone ==
    ASSUME McpTypeOK, GateInv, ScriptsFit, NEW c \in Callers, Effected(c), Scripted(c),
           pc[c] = "done", Bearable(c), tool[c].name = "stop_all"
    PROVE  /\ script[c] # <<>> /\ Head(script[c]).slots \subseteq wire.stopped
           /\ wire.by = c
<1>1. script[c] # <<>> /\ script[c] \in Seq(Calls) /\ call[c] = Head(script[c])
  BY DEF GateInv, ScriptsFit, McpTypeOK
<1>2. PICK x \in Slots : call[c] = Client("stop_acked", {x})
  BY <1>1, TailScripted DEF Scripted
<1>3. call[c].op = "stop_acked" /\ call[c].slots = {x}
  BY <1>2, ClientIs
<1>4. Commanded(call[c]) = {x}
  BY <1>3 DEF Commanded
<1>5. outcome[c] \in {"ok", "timeout"}
  BY DEF Bearable
<1>6. QED
  BY <1>1, <1>3, <1>4, <1>5 DEF Effected

\* What every handler has done and has left to do.
ReportInv == \A c \in Callers : Effected(c) /\ Scripted(c)

-----------------------------------------------------------------------------
(* Both are kept by every step of the service.                             *)

\* Nobody but the owner of the operation lock has anything to keep.
LEMMA IdleReported ==
    ASSUME NEW d \in Callers, pc'[d] = "idle", script'[d] = <<>>
    PROVE  (Effected(d) /\ Scripted(d))'
BY DEF Effected, Scripted

\* The moves of the service that leave the client and the scripts alone.
LEMMA ReportKept ==
    ASSUME ReportInv, UNCHANGED <<pc, call, todo, outcome, wire, script>>,
           \A d \in Callers : script[d] # <<>> => tool'[d] = tool[d]
    PROVE  ReportInv'
<1>1. ASSUME NEW d \in Callers PROVE Effected(d)'
  BY DEF ReportInv, Effected, Commanded
<1>2. ASSUME NEW d \in Callers, script[d] # <<>> PROVE Scripted(d)'
  <2>1. Permitted(tool[d])' = Permitted(tool[d])
    BY <1>2
  <2>2. QED
    BY <1>2, <2>1 DEF ReportInv, Scripted
<1>3. ASSUME NEW d \in Callers, script[d] = <<>> PROVE Scripted(d)'
  BY <1>3 DEF Scripted
<1>4. QED
  BY <1>1, <1>2, <1>3 DEF ReportInv

\* ReportInv is inductive relative to the other invariants.
LEMMA ReportStep ==
    McpTypeOK /\ Core /\ ProfileInv /\ GateInv /\ ScriptsFit /\ ReportInv
       /\ [McpNext]_mcpVars => ReportInv'
<1> SUFFICES ASSUME McpTypeOK, Core, ProfileInv, GateInv, ScriptsFit, ReportInv,
                    [McpNext]_mcpVars
             PROVE  ReportInv'
  OBVIOUS
<1> USE CallersAssumption
<1>0. /\ pc \in [Callers -> Labels] /\ script \in [Callers -> Seq(Calls)]
      /\ tool \in [Callers -> Tools \cup {NoTool}]
  BY DEF Core, TypeOK, McpTypeOK
<1>1. ASSUME NEW c \in Callers, NEW t \in Tools, Dispatch(c, t) PROVE ReportInv'
  <2>1. tool[c] = NoTool /\ tool' = [tool EXCEPT ![c] = t] /\ UNCHANGED <<vars, script>>
    BY <1>1 DEF Dispatch
  <2>2. script[c] = <<>>
    BY <2>1 DEF ScriptsFit
  <2>3. \A d \in Callers : script[d] # <<>> => tool'[d] = tool[d]
    BY <1>0, <2>1, <2>2
  <2>4. QED
    BY <2>1, <2>3, ReportKept DEF vars
<1>2. ASSUME NEW c \in Callers, Begin(c) PROVE ReportInv'
  <2>1. /\ opHolder = NoCaller /\ UNCHANGED <<vars, tool>> /\ Permitted(tool[c])
        /\ script' = [script EXCEPT ![c] = Script(tool[c])]
    BY <1>2 DEF Begin, Granted, OpLockFree
  <2>2. \A d \in Callers : script[d] = <<>> /\ pc[d] = "idle"
    BY <2>1 DEF GateInv
  <2>3. script'[c] = Script(tool[c]) /\ \A d \in Callers : d # c => script'[d] = <<>>
    BY <1>0, <2>1, <2>2
  <2>4. Scripted(c)'
    BY <2>1, <2>3, ScriptBegins DEF vars, Scripted
  <2>5. Effected(c)'
    BY <2>1, <2>2 DEF vars, Effected
  <2>6. UNCHANGED pc
    BY <2>1 DEF vars
  <2>7. ASSUME NEW d \in Callers, d # c PROVE (Effected(d) /\ Scripted(d))'
    BY <2>2, <2>3, <2>6, <2>7, IdleReported
  <2>8. QED
    BY <2>4, <2>5, <2>7 DEF ReportInv
<1>3. ASSUME NEW c \in Callers, Decline(c) PROVE ReportInv'
  <2>1. opHolder = NoCaller /\ UNCHANGED <<vars, script>>
    BY <1>3 DEF Decline, Granted, OpLockFree
  <2>2. \A d \in Callers : script[d] = <<>>
    BY <2>1 DEF GateInv
  <2>3. QED
    BY <2>1, <2>2, ReportKept DEF vars
<1>4. ASSUME NEW c \in Callers, CallClient(c) PROVE ReportInv'
  <2>1. script[c] # <<>> /\ UNCHANGED <<script, tool>>
    BY <1>4 DEF CallClient, service
  <2>2. Head(script[c]) \in Calls
    BY <1>0, <2>1, ScriptTail
  <2>3. Effected(c)'
    BY <1>4, <2>2, EnterEffected DEF CallClient
  <2>4. UNCHANGED wire /\ \A d \in Callers : d # c => pc'[d] = pc[d]
    BY <1>0, <1>4 DEF CallClient, Enter, Refuse, history
  <2>5. Scripted(c)'
    BY <2>1, <2>4 DEF ReportInv, Scripted
  <2>6. ASSUME NEW d \in Callers, d # c PROVE (Effected(d) /\ Scripted(d))'
    BY <2>1, <2>4, <2>6, Alone, IdleReported
  <2>7. QED
    BY <2>3, <2>5, <2>6 DEF ReportInv
<1>5. ASSUME NEW c \in Callers, InClient(c) PROVE ReportInv'
  <2>1. pc[c] # "idle" /\ pc[c] # "done" /\ Step(c) /\ UNCHANGED <<script, tool>>
    BY <1>5 DEF InClient, service, Step, Acquire, Return, NextPoll, Unlink, Link, LinkFails,
         WriteAndForget, WriteAndWait, WriteFails, StopMasked, WriteChunk1, WriteChunk2,
         Settled, StartMasked, Receive, Discard, StreamEnds, Deadline, Writing, Waits
  <2>2. script[c] # <<>> /\ call[c] = Head(script[c])
    BY <2>1 DEF GateInv, ScriptsFit
  <2>3. Effected(c)'
    BY <2>1, StepEffected DEF ReportInv
  <2>4. Scripted(c)'
    <3>1. ASSUME tool[c].name = "stop_all"
          PROVE  Covered(script[c], wire'.stopped)
      <4>1. StopsOnly(script[c]) /\ Covered(script[c], wire.stopped)
        BY <2>2, <3>1 DEF ReportInv, Scripted
      <4>2. PICK x \in Slots : call[c] = Client("stop_acked", {x})
        BY <1>0, <2>2, <4>1, TailScripted
      <4>3. call[c].op = "stop_acked"
        BY <4>2, ClientIs
      <4>4. QED
        BY <2>1, <4>1, <4>3, StopsGrow, CoverKept
    <3>2. QED
      BY <2>1, <2>2, <3>1 DEF ReportInv, Scripted
  <2>5. pc' = [pc EXCEPT ![c] = pc'[c]]
    BY <2>1, StepEffect DEF Effect
  <2>6. ASSUME NEW d \in Callers, d # c PROVE (Effected(d) /\ Scripted(d))'
    <3>1. pc[d] = "idle" /\ script[d] = <<>>
      BY <2>2, <2>6, Alone
    <3>2. pc'[d] = "idle" /\ script'[d] = <<>>
      BY <1>0, <2>1, <2>5, <2>6, <3>1
    <3>3. QED
      BY <3>2, IdleReported
  <2>7. QED
    BY <2>3, <2>4, <2>6 DEF ReportInv
<1>6. ASSUME NEW c \in Callers, GoOn(c) \/ Respond(c) PROVE ReportInv'
  <2>1. /\ pc[c] = "done" /\ pc'[c] = "idle" /\ UNCHANGED wire
        /\ \A d \in Callers : d # c => pc'[d] = pc[d]
    BY <1>0, <1>6 DEF GoOn, Respond, Return, history
  <2>2. script[c] # <<>> /\ \A d \in Callers : d # c => script[d] = <<>> /\ pc[d] = "idle"
    BY <2>1, Alone DEF GateInv
  <2>3. ASSUME NEW d \in Callers, d # c PROVE (Effected(d) /\ Scripted(d))'
    <3>1. script'[d] = <<>>
      BY <1>0, <1>6, <2>2, <2>3 DEF GoOn, Respond
    <3>2. QED
      BY <2>1, <2>2, <2>3, <3>1, IdleReported
  <2>4. CASE GoOn(c)
    <3>1. tool' = tool /\ script'[c] = Tail(script[c]) /\ Bearable(c)
      BY <1>0, <2>4 DEF GoOn
    <3>2. script[c] \in Seq(Calls)
      BY <1>0
    <3>3. ASSUME tool[c].name = "stop_all"
          PROVE  StopsOnly(Tail(script[c])) /\ Covered(Tail(script[c]), wire.stopped)
      <4>1. StopsOnly(script[c]) /\ Covered(script[c], wire.stopped)
        BY <2>2, <3>3 DEF ReportInv, Scripted
      <4>2. Head(script[c]).slots \subseteq wire.stopped
        BY <2>1, <3>1, <3>3, StopDone DEF ReportInv
      <4>3. QED
        BY <2>2, <3>2, <4>1, <4>2, TailScripted
    <3>4. ASSUME NEW k, OnlyCall(script[c], k) PROVE OnlyCall(Tail(script[c]), k)
      BY <2>2, <3>2, <3>4, TailScripted
    <3>5. Scripted(c)'
      BY <2>1, <2>2, <3>1, <3>3, <3>4 DEF ReportInv, Scripted
    <3>6. Effected(c)'
      BY <2>1 DEF Effected
    <3>7. QED
      BY <2>3, <3>5, <3>6 DEF ReportInv
  <2>5. CASE Respond(c)
    <3>1. script'[c] = <<>>
      BY <1>0, <2>5 DEF Respond
    <3>2. (Effected(c) /\ Scripted(c))'
      BY <2>1, <3>1, IdleReported
    <3>3. QED
      BY <2>3, <3>2 DEF ReportInv
  <2>6. QED
    BY <1>6, <2>4, <2>5
<1>7. ASSUME NEW c \in Callers, FindNoCharger(c) PROVE ReportInv'
  <2>1. opHolder = c /\ pc[c] = "idle" /\ UNCHANGED vars
        /\ script' = [script EXCEPT ![c] = <<>>]
    BY <1>7 DEF FindNoCharger
  <2>2. ASSUME NEW d \in Callers PROVE pc'[d] = "idle" /\ script'[d] = <<>>
    BY <1>0, <2>1, Alone DEF vars
  <2>3. QED
    BY <2>2, IdleReported DEF ReportInv
<1>8. ASSUME Surroundings \/ UNCHANGED mcpVars PROVE ReportInv'
  <2>1. UNCHANGED <<pc, call, todo, outcome, wire, script, tool>>
    BY <1>8 DEF Surroundings, Deliver, LoseLink, EndStream, tasks, history, service,
       mcpVars, vars
  <2>2. QED
    BY <2>1, ReportKept
<1>9. QED
  BY <1>1, <1>2, <1>3, <1>4, <1>5, <1>6, <1>7, <1>8 DEF McpNext, Handle

\* What the handlers may rely upon when they answer: the frames of their
\* calls are on the link, with nothing of another tool call after them.
THEOREM HandlersEffective == McpSpec => [](GateInv /\ ScriptsFit /\ ReportInv)
<1>1. McpInit => GateInv /\ ScriptsFit /\ ReportInv
  BY DEF McpInit, Init, GateInv, ReadOnlyRespected, FreshWire, ScriptsFit, ReportInv,
     Effected, Scripted
<1>2. McpTypeOK /\ Core /\ GateInv /\ [McpNext]_mcpVars => GateInv'
  BY GateStep
<1>3. McpTypeOK /\ Core /\ GateInv /\ ScriptsFit /\ [McpNext]_mcpVars => ScriptsFit'
  BY FitStep
<1>4. McpTypeOK /\ Core /\ ProfileInv /\ GateInv /\ ScriptsFit /\ ReportInv
         /\ [McpNext]_mcpVars => ReportInv'
  BY ReportStep
<1>5. McpSpec => []Core /\ []ProfileInv
  BY ServiceImplementsClient, CoreInvariant, ProfileInvariant DEF ImplementsClient
<1>6. QED
  BY <1>1, <1>2, <1>3, <1>4, <1>5, ServiceTypeCorrect, PTL DEF McpSpec

-----------------------------------------------------------------------------
(* What is answered and recorded.                                          *)

\* A tool call is answered by one of three steps of its own handler.
LEMMA AnsweredBy ==
    ASSUME McpTypeOK, [McpNext]_mcpVars, NEW c \in Callers,
           answer[c] = "none", answer'[c] # "none"
    PROVE  Decline(c) \/ Respond(c) \/ FindNoCharger(c)
<1>0. answer \in [Callers -> {"none", "ok", "error"}]
  BY DEF McpTypeOK
<1>1. ASSUME NEW d \in Callers, NEW t \in Tools, Dispatch(d, t) PROVE FALSE
  BY <1>0, <1>1 DEF Dispatch
<1>2. ASSUME NEW d \in Callers, Begin(d) \/ GoOn(d) PROVE FALSE
  BY <1>2 DEF Begin, GoOn
<1>3. ASSUME NEW d \in Callers, CallClient(d) \/ InClient(d) PROVE FALSE
  BY <1>3 DEF CallClient, InClient, service
<1>4. ASSUME NEW d \in Callers, d # c, Decline(d) \/ Respond(d) \/ FindNoCharger(d) PROVE FALSE
  BY <1>0, <1>4 DEF Decline, Respond, FindNoCharger, Answered
<1>5. ASSUME Surroundings \/ UNCHANGED mcpVars PROVE FALSE
  BY <1>5 DEF Surroundings, service, mcpVars
<1>6. QED
  BY <1>1, <1>2, <1>3, <1>4, <1>5 DEF McpNext, Handle

\* An answer is ok, and recorded, only at the end of a script whose calls all
\* ended well enough, or from a handler that needs none.
LEMMA AnsweredOk ==
    ASSUME McpTypeOK, GateInv, NEW c \in Callers,
           Decline(c) \/ Respond(c) \/ FindNoCharger(c),
           answer'[c] = "ok" \/ log' # log
    PROVE  /\ Answered(c, "ok") /\ UNCHANGED wire
           /\ \/ AnswersAtOnce(tool[c])
              \/ /\ pc[c] = "done" /\ script[c] # <<>> /\ Len(script[c]) = 1
                 /\ Bearable(c)
<1>0. answer \in [Callers -> {"none", "ok", "error"}] /\ script \in [Callers -> Seq(Calls)]
  BY DEF McpTypeOK
<1>1. ASSUME Answered(c, "error") PROVE FALSE
  BY <1>0, <1>1 DEF Answered
<1>2. CASE Decline(c)
  BY <1>1, <1>2 DEF Decline, vars
<1>3. CASE Respond(c)
  <2>1. Bearable(c) /\ ~Untimely(c) /\ Answered(c, "ok")
    BY <1>1, <1>3 DEF Respond
  <2>2. Len(script[c]) = 1 /\ pc[c] = "done" /\ UNCHANGED wire
    BY <1>3, <2>1 DEF Respond, Return, history
  <2>3. script[c] # <<>>
    BY <2>2 DEF GateInv
  <2>4. QED
    BY <2>1, <2>2, <2>3
<1>4. CASE FindNoCharger(c)
  BY <1>1, <1>4 DEF FindNoCharger
<1>5. QED
  BY <1>2, <1>3, <1>4

\* When the last stop of stop_all was waited for, every slot is stopped.
LEMMA AllStopped ==
    ASSUME McpTypeOK, GateInv, ScriptsFit, ReportInv, NEW c \in Callers,
           pc[c] = "done", script[c] # <<>>, Len(script[c]) = 1, Bearable(c),
           tool[c].name = "stop_all"
    PROVE  Slots \subseteq wire.stopped /\ wire.by = c
<1>1. script[c] \in Seq(Calls)
  BY DEF McpTypeOK
<1>2. Head(script[c]).slots \subseteq wire.stopped /\ wire.by = c
  BY StopDone DEF ReportInv
<1>3. Covered(script[c], wire.stopped)
  BY DEF ReportInv, Scripted
<1>4. ASSUME NEW x \in Slots, NEW i \in DOMAIN script[c], script[c][i].slots = {x}
      PROVE  x \in wire.stopped
  <2>1. i = 1 /\ Head(script[c]) = script[c][1]
    BY <1>1
  <2>2. QED
    BY <1>2, <1>4, <2>1
<1>5. QED
  BY <1>2, <1>3, <1>4 DEF Covered

\* charger.stop_all answers ok only when every slot has a stop on the link
\* and no start after it, whatever was lost or late (tools.rs:1269-1297).
THEOREM StopAllReachesEverySlot == McpSpec => StopAllStopsAll
<1>1. McpTypeOK /\ GateInv /\ ScriptsFit /\ ReportInv /\ [McpNext]_mcpVars =>
         [\A c \in Callers :
            tool[c].name = "stop_all" /\ answer[c] = "none" /\ answer'[c] = "ok" =>
               Slots \subseteq wire'.stopped]_mcpVars
  <2>1. ASSUME McpTypeOK, GateInv, ScriptsFit, ReportInv, [McpNext]_mcpVars, NEW c \in Callers,
               tool[c].name = "stop_all", answer[c] = "none", answer'[c] = "ok"
        PROVE  Slots \subseteq wire'.stopped
    <3>1. Decline(c) \/ Respond(c) \/ FindNoCharger(c)
      BY <2>1, AnsweredBy
    <3>2. UNCHANGED wire /\ ~AnswersAtOnce(tool[c])
      BY <2>1, <3>1, AnsweredOk DEF AnswersAtOnce, DryRun, Applies
    <3>3. pc[c] = "done" /\ script[c] # <<>> /\ Len(script[c]) = 1 /\ Bearable(c)
      BY <2>1, <3>1, <3>2, AnsweredOk
    <3>4. QED
      BY <2>1, <3>2, <3>3, AllStopped
  <2>2. QED
    BY <2>1
<1>2. QED
  BY <1>1, ServiceTypeCorrect, HandlersEffective, PTL DEF McpSpec, StopAllStopsAll

\* The event of an answered tool call says what the link has carried.
Truthful(c, e) ==
    /\ e.did \in {"applied", "started", "stopped"} => wire'.by = c
    /\ e.did = "applied" =>
          wire'.part = "whole" /\ (e.slots \cap Slots) \subseteq wire'.stopped
    /\ e.did = "started" => e.slots \cap wire'.stopped = {}
    /\ e.did = "stopped" => e.slots \subseteq wire'.stopped

\* At the end of its script, or where it needs none, a handler may record
\* its event.
LEMMA EventTruthful ==
    ASSUME McpTypeOK, GateInv, ScriptsFit, ReportInv, NEW c \in Callers, UNCHANGED wire,
           tool[c].name \in Logged,
           \/ AnswersAtOnce(tool[c])
           \/ /\ pc[c] = "done" /\ script[c] # <<>> /\ Len(script[c]) = 1
              /\ Bearable(c)
    PROVE  Truthful(c, EventOf(tool[c]))
<1> DEFINE t == tool[c]
           e == EventOf(t)
<1>0. e.did = Did(t) /\ e.slots = IF t.name = "stop_all" THEN Slots ELSE t.slots
  BY DEF EventOf
<1>1. CASE AnswersAtOnce(t)
  <2>1. Did(t) \in {"validated", "refused", "dry_run"}
    BY <1>1 DEF AnswersAtOnce, Did, DryRun, Applies
  <2>2. QED
    BY <1>0, <2>1 DEF Truthful
<1>2. ASSUME pc[c] = "done", script[c] # <<>>, Len(script[c]) = 1, Bearable(c)
      PROVE  Truthful(c, e)
  <2>0. /\ script[c] \in Seq(Calls) /\ call[c] = Head(script[c]) /\ call[c] \in Calls
        /\ Permitted(t) /\ Effected(c) /\ Scripted(c)
    <3>1. script[c] \in Seq(Calls) /\ call[c] = Head(script[c])
      BY <1>2 DEF McpTypeOK, ScriptsFit
    <3>2. Effected(c) /\ Scripted(c)
      BY DEF ReportInv
    <3>3. QED
      BY <1>2, <3>1, <3>2, ScriptTail DEF Scripted
  <2>1. CASE t.name = "stop_all"
    <3>1. Did(t) = "stopped"
      BY <2>1 DEF Did
    <3>2. Slots \subseteq wire.stopped /\ wire.by = c
      BY <1>2, <2>1, AllStopped
    <3>3. QED
      BY <1>0, <2>1, <3>1, <3>2 DEF Truthful
  <2>2. CASE t.name = "charger.start"
    <3>1. Did(t) = "started" /\ outcome[c] = "ok"
      BY <1>2, <2>2 DEF Did, Bearable
    <3>2. call[c] = Client("start", t.slots)
      BY <1>2, <2>0, <2>2, TailScripted DEF Scripted
    <3>3. call[c].op = "start" /\ call[c].slots = t.slots
      BY <3>2, ClientIs
    <3>4. t.slots = {t.token.slot} /\ t.slots \cap Slots # {}
      BY <2>0, <2>2, <3>3, CallsAssumption DEF Permitted, Confirmed, Starts
    <3>5. Commanded(call[c]) = {t.token.slot} /\ t.token.slot \in Slots
      BY <3>3, <3>4 DEF Commanded
    <3>6. wire.by = c /\ t.token.slot \notin wire.stopped
      BY <1>2, <2>0, <3>1, <3>3, <3>5 DEF Effected
    <3>7. QED
      BY <1>0, <2>2, <3>1, <3>4, <3>6 DEF Truthful
  <2>3. CASE t.name = "charger.apply_profile"
    <3>1. Did(t) \in {"refused", "dry_run", "applied"} /\ outcome[c] = "ok"
      BY <1>2, <2>3 DEF Did, Bearable
    <3>2. call[c] = Client("send_profile", t.slots)
      BY <1>2, <2>0, <2>3, TailScripted DEF Scripted
    <3>3. call[c].op = "send_profile" /\ call[c].slots = t.slots /\ ~call[c].start
      BY <3>2, ClientIs
    <3>4. /\ wire.by = c /\ wire.part = "whole"
          /\ (t.slots \cap Slots) \subseteq wire.stopped
      BY <1>2, <2>0, <3>1, <3>3 DEF Effected, Commanded
    <3>5. QED
      BY <1>0, <2>3, <3>1, <3>4 DEF Truthful
  <2>4. CASE t.name = "charger.validate_profile"
    BY <1>0, <2>4 DEF Did, Truthful
  <2>5. QED
    BY <2>1, <2>2, <2>3, <2>4 DEF Logged
<1>3. QED
  BY <1>1, <1>2

\* A recorded event is the last one of the log.
LEMMA RecordedLast ==
    ASSUME McpTypeOK, NEW e, log' = Recorded(e), log' # log
    PROVE  log'[Len(log')] = e
<1>1. log \in Seq(Event) /\ LogCapacity # 0
  BY DEF McpTypeOK, Recorded
<1>2. PICK s \in Seq(Event) : log' = Append(s, e)
  <2>1. CASE Len(log) >= LogCapacity
    <3>1. log # <<>>
      BY <1>1, <2>1, LogAssumption
    <3>2. Tail(log) \in Seq(Event)
      BY <1>1, <3>1
    <3>3. log' = Append(Tail(log), e)
      BY <1>1, <2>1, Zenon DEF Recorded
    <3>4. QED
      BY <3>2, <3>3
  <2>2. CASE ~(Len(log) >= LogCapacity)
    <3>1. log' = Append(log, e)
      BY <1>1, <2>2, Zenon DEF Recorded
    <3>2. QED
      BY <1>1, <3>1
  <2>3. QED
    BY <2>1, <2>2
<1>3. QED
  BY <1>2

\* The log never tells of a slot written to, started or stopped before the
\* link has carried just that (tools.rs:1216-1254, 1293-1296).
THEOREM LogTruthful == McpSpec => LogHonest
<1>1. McpTypeOK /\ GateInv /\ ScriptsFit /\ ReportInv /\ [McpNext]_mcpVars =>
         \A c \in Callers : answer[c] = "none" /\ answer'[c] # "none" /\ log' # log =>
            Truthful(c, log'[Len(log')])
  <2>1. ASSUME McpTypeOK, GateInv, ScriptsFit, ReportInv, [McpNext]_mcpVars, NEW c \in Callers,
               answer[c] = "none", answer'[c] # "none", log' # log
        PROVE  Truthful(c, log'[Len(log')])
    <3>1. Decline(c) \/ Respond(c) \/ FindNoCharger(c)
      BY <2>1, AnsweredBy
    <3>2. /\ Answered(c, "ok") /\ UNCHANGED wire
          /\ \/ AnswersAtOnce(tool[c])
             \/ /\ pc[c] = "done" /\ script[c] # <<>> /\ Len(script[c]) = 1
                /\ Bearable(c)
      BY <2>1, <3>1, AnsweredOk
    <3>3. tool[c].name \in Logged /\ log' = Recorded(EventOf(tool[c]))
      BY <2>1, <3>2 DEF Answered
    <3>4. log'[Len(log')] = EventOf(tool[c])
      BY <2>1, <3>3, RecordedLast
    <3>5. Truthful(c, EventOf(tool[c]))
      BY <2>1, <3>2, <3>3, EventTruthful
    <3>6. QED
      BY <3>4, <3>5
  <2>2. QED
    BY <2>1
<1>2. McpTypeOK /\ GateInv /\ ScriptsFit /\ ReportInv /\ [McpNext]_mcpVars =>
         [\A c \in Callers :
            answer[c] = "none" /\ answer'[c] # "none" /\ log' # log =>
               LET e == log'[Len(log')]
               IN  /\ e.did \in {"applied", "started", "stopped"} => wire'.by = c
                   /\ e.did = "applied" =>
                         wire'.part = "whole" /\ (e.slots \cap Slots) \subseteq wire'.stopped
                   /\ e.did = "started" => e.slots \cap wire'.stopped = {}
                   /\ e.did = "stopped" => e.slots \subseteq wire'.stopped]_mcpVars
  BY <1>1 DEF Truthful
<1>3. QED
  BY <1>2, ServiceTypeCorrect, HandlersEffective, PTL DEF McpSpec, LogHonest
=============================================================================
