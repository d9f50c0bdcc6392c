----------------------- MODULE ChargerClientProofs -------------------------
(* Theorems about ChargerClient for every set of tasks, calls and slots. *)
EXTENDS ChargerClient, WellFoundedInduction, TLAPS

\* Numbers, if there are any, have a least one among them.
LEMMA LeastMember ==
    ASSUME NEW T \in SUBSET Nat, T # {}
    PROVE  \E m \in T : \A t \in T : m <= t
<1>1. PICK m \in T : \A t \in T : <<t, m>> \notin OpToRel(<, Nat)
  BY NatLessThanWellFounded, WFMin
<1>2. \A t \in T : t < m => <<t, m>> \in OpToRel(<, Nat)
  BY Zenon DEF OpToRel
<1>3. \A t \in T : ~(t < m)
  BY <1>1, <1>2, Zenon
<1>4. QED
  BY <1>3

\* A loop over the slots finds its next one among those left.
LEMMA NextSlotChosen ==
    ASSUME NEW c \in Callers, todo[c] \subseteq Slots, todo[c] # {}
    PROVE  NextSlot(c) \in todo[c]
<1>1. \E s \in todo[c] : \A t \in todo[c] : s <= t
  BY SlotsAssumption, LeastMember
<1>2. QED
  BY <1>1 DEF NextSlot

-----------------------------------------------------------------------------
\* What a written frame does to the types of the link's variables.
LEMMA TransmitType ==
    ASSUME TypeOK, NEW c \in Callers, NEW f \in FrameKinds, NEW s \in Nat,
           Transmit(c, f, s)
    PROVE  up /\ air' \in Seq(Notification) /\ wire' \in Wire
<1>1. PICK heard \in BOOLEAN, answers \in BOOLEAN, ok \in BOOLEAN :
          /\ answers => heard /\ f # "Chunk1" /\ Len(air) < MaxAir
          /\ air' = IF answers
                    THEN Append(air, [kind |-> Answer(f), ok |-> ok, by |-> c,
                                      slot |-> s, link |-> link])
                    ELSE air
          /\ wire' = [stopped |-> Stopped(f, s), part |-> Part(c, f), by |-> c,
                      wrote |-> wire.wrote \/ f \in WriteClass, heard |-> heard]
  BY DEF Transmit
<1>2. air' \in Seq(Notification)
  <2>1. CASE ~answers
    BY <1>1, <2>1 DEF TypeOK
  <2>2. CASE answers
    <3>1. Answer(f) \in NotificationKinds
      BY <1>1, <2>2 DEF Answer, FrameKinds, NotificationKinds
    <3>2. [kind |-> Answer(f), ok |-> ok, by |-> c, slot |-> s, link |-> link]
             \in Notification
      BY <3>1 DEF TypeOK, Notification
    <3>3. QED
      BY <1>1, <2>2, <3>2 DEF TypeOK
  <2>3. QED
    BY <2>1, <2>2
<1>3. wire' \in Wire
  <2>1. Stopped(f, s) \in SUBSET Nat
    BY DEF Stopped, TypeOK, Wire
  <2>2. Part(c, f) \in {"none", "half", "whole"}
    BY DEF Part
  <2>3. QED
    BY <1>1, <2>1, <2>2 DEF TypeOK, Wire
<1>4. QED
  BY <1>2, <1>3 DEF Transmit

\* The types, the lock, the stage of every call and the link, each step of
\* which the others rest on.
Core == TypeOK /\ RequestsSerialized /\ StageInv /\ LinkInv

\* A request writes a frame of a known kind, for a slot the loops have chosen.
LEMMA FrameAndSlot ==
    ASSUME Core, NEW c \in Callers
    PROVE  /\ pc[c] \in {"stop", "start"} => NextSlot(c) \in Nat
           /\ pc[c] = "write" => RequestFrame(c) \in FrameKinds /\ RequestSlot(c) \in Nat
<1>1. todo[c] # {} => NextSlot(c) \in Nat
  BY NextSlotChosen, SlotsAssumption DEF Core, TypeOK
<1>2. ASSUME pc[c] \in {"stop", "start"} PROVE NextSlot(c) \in Nat
  BY <1>1, <1>2 DEF Core, StageInv
<1>3. ASSUME pc[c] = "write" PROVE RequestSlot(c) \in Nat
  BY <1>1, <1>3 DEF Core, StageInv, RequestSlot
<1>4. ASSUME pc[c] = "write" PROVE RequestFrame(c) \in FrameKinds
  <2>1. call[c].frame \in FrameKinds
    BY <1>4, CallsAssumption DEF Core, StageInv, Call
  <2>2. QED
    BY <2>1, Zenon DEF RequestFrame, FrameKinds
<1>5. QED
  BY <1>2, <1>3, <1>4

\* However a wait ends, its task keeps its types, its stage and the lock
\* discipline: the call either goes on under the lock or lets it go.
LEMMA ConcludeCore ==
    ASSUME Core, NEW c \in Callers, NEW how \in {"ok", "timeout", "not_connected"},
           NEW n \in Notification \cup {NoReply}, Conclude(c, how, n),
           UNCHANGED <<waiting, call, model, up, closed, link, linkModel, wire>>
    PROVE  /\ holder' \in Callers \cup {NoCaller}
           /\ pc' \in [Callers -> Labels]
           /\ todo' \in [Callers -> SUBSET Slots]
           /\ outcome' \in [Callers -> Outcomes]
           /\ reply' \in [Callers -> Notification \cup {NoReply}]
           /\ profileAcks' \in {"unknown", "yes", "no"}
           /\ RequestsSerialized' /\ StageInv'
<1> USE CallersAssumption DEF Core
<1> DEFINE s == NextSlot(c)
<1> HIDE DEF s
<1>1. CASE ConcludeReply(c, how, n)
  <2>1. CASE call[c].op = "poll_all_status" /\ how = "ok" /\ ~LastSlot(c)
    <3>1. /\ pc[c] = "reply" /\ todo' = [todo EXCEPT ![c] = @ \ {s}] /\ todo[c] # {s}
          /\ pc' = [pc EXCEPT ![c] = "gap"] /\ holder' = NoCaller
          /\ UNCHANGED <<outcome, reply, profileAcks>>
      BY <1>1, <2>1 DEF ConcludeReply, LastSlot, s
    <3>2. RequestsSerialized'
      BY <3>1 DEF RequestsSerialized, TypeOK, Held, Writing, Waits
    <3>3. StageInv'
      BY <2>1, <3>1 DEF StageInv, TypeOK, SlotOps
    <3>4. QED
      BY <3>1, <3>2, <3>3 DEF TypeOK, Labels
  <2>2. CASE ~(call[c].op = "poll_all_status" /\ how = "ok" /\ ~LastSlot(c))
    <3>1. PICK how2 \in Outcomes : pc[c] = "reply" /\ Finish(c, how2, n)
                                   /\ UNCHANGED <<todo, profileAcks>>
      BY <1>1, <2>2 DEF ConcludeReply, Outcomes
    <3>2. RequestsSerialized'
      BY <3>1 DEF RequestsSerialized, TypeOK, Held, Writing, Waits, Finish
    <3>3. StageInv'
      BY <3>1 DEF StageInv, TypeOK, Finish
    <3>4. QED
      BY <3>1, <3>2, <3>3 DEF TypeOK, Labels, Finish
  <2>3. QED
    BY <2>1, <2>2
<1>2. CASE ConcludeStop(c)
  <2>1. PICK label \in {"chunk1", "stop"} :
           /\ pc[c] = "stop_ack" /\ todo' = [todo EXCEPT ![c] = @ \ {s}]
           /\ (label = "chunk1") <=> (todo[c] = {s})
           /\ Stay(c, label) /\ UNCHANGED profileAcks
    BY <1>2 DEF ConcludeStop, LastSlot, s
  <2>2. RequestsSerialized'
    BY <2>1 DEF RequestsSerialized, TypeOK, Held, Writing, Waits, Stay
  <2>3. StageInv'
    BY <2>1 DEF StageInv, TypeOK, Stay
  <2>4. QED
    BY <2>1, <2>2, <2>3 DEF TypeOK, Labels, Stay, Writing
<1>3. CASE ConcludeStart(c)
  <2>1. /\ pc[c] = "start_ack" /\ todo' = [todo EXCEPT ![c] = @ \ {s}]
        /\ IF todo[c] = {s} THEN Finish(c, "ok", NoReply) ELSE Stay(c, "start")
        /\ UNCHANGED profileAcks
    BY <1>3 DEF ConcludeStart, LastSlot, s
  <2>2. RequestsSerialized'
    <3>1. \/ pc' = [pc EXCEPT ![c] = "done"] /\ holder' = NoCaller
          \/ pc' = [pc EXCEPT ![c] = "start"] /\ UNCHANGED holder
      BY <2>1 DEF Finish, Stay
    <3>2. QED
      BY <2>1, <3>1 DEF RequestsSerialized, TypeOK, Held, Writing, Waits
  <2>3. StageInv'
    BY <2>1 DEF StageInv, TypeOK, Finish, Stay
  <2>4. QED
    BY <2>1, <2>2, <2>3 DEF TypeOK, Labels, Finish, Stay, Outcomes, Writing
<1>4. CASE ConcludeProfile(c, how)
  <2>1. RequestsSerialized'
    BY <1>4 DEF ConcludeProfile, RequestsSerialized, TypeOK, Held, Writing, Waits, Finish,
       Stay
  <2>2. StageInv'
    BY <1>4 DEF ConcludeProfile, StageInv, TypeOK, Finish, Stay
  <2>3. QED
    BY <1>4, <2>1, <2>2 DEF ConcludeProfile, TypeOK, Labels, Finish, Stay, Outcomes
<1>5. QED
  BY <1>1, <1>2, <1>3, <1>4 DEF Conclude

\* Core is inductive: one step per action of the client and of its link.
LEMMA CoreStep == Core /\ [Next]_vars => Core'
<1> SUFFICES ASSUME Core, [Next]_vars PROVE Core'
  OBVIOUS
<1> USE CallersAssumption, SlotsAssumption, CallsAssumption, BoundsAssumption DEF Core
<1>0. <<>> \in Seq(Notification)
  OBVIOUS
<1>1. ASSUME NEW c \in Callers, NEW k \in Calls, Enter(c, k) PROVE Core'
  <2>1. TypeOK'
    BY <1>0, <1>1 DEF Enter, client, transport, history, WritesAllowed, Gated, Commanded,
       TypeOK, Call, NoCall, NoReply, Ops, Models, NoModel, FrameKinds, Labels, Outcomes,
       Writing, Waits
  <2>2. RequestsSerialized'
    BY <1>1 DEF Enter, client, transport, history, WritesAllowed, Gated, Commanded, TypeOK,
       RequestsSerialized, Held, Writing, Waits
  <2>3. StageInv'
    BY <1>1 DEF Enter, client, transport, history, WritesAllowed, Gated, Commanded, TypeOK,
       RequestsSerialized, StageInv, SlotOps, Held, Writing, Waits, LinkInv, NoCall
  <2>4. LinkInv'
    BY <1>1 DEF Enter, client, transport, history, WritesAllowed, Gated, Commanded, TypeOK,
       RequestsSerialized, StageInv, LinkInv
  <2>5. QED
    BY <2>1, <2>2, <2>3, <2>4
<1>2. ASSUME NEW c \in Callers, NEW k \in Calls, Refuse(c, k) PROVE Core'
  <2>1. TypeOK'
    BY <1>0, <1>2 DEF Refuse, client, transport, history, WritesAllowed, Gated, TypeOK,
       Call, NoCall, NoReply, Ops, Models, NoModel, FrameKinds, Labels, Outcomes, Writing,
       Waits
  <2>2. RequestsSerialized'
    BY <1>2 DEF Refuse, client, transport, history, WritesAllowed, Gated, TypeOK,
       RequestsSerialized, Held, Writing, Waits
  <2>3. StageInv'
    BY <1>2 DEF Refuse, client, transport, history, WritesAllowed, Gated, TypeOK,
       RequestsSerialized, StageInv, SlotOps, Held, Writing, Waits, LinkInv, NoCall
  <2>4. LinkInv'
    BY <1>2 DEF Refuse, client, transport, history, WritesAllowed, Gated, TypeOK,
       RequestsSerialized, StageInv, LinkInv
  <2>5. QED
    BY <2>1, <2>2, <2>3, <2>4
<1>3. ASSUME NEW c \in Callers, Acquire(c) PROVE Core'
  <2>1. TypeOK'
    BY <1>0, <1>3 DEF Acquire, transport, history, LockFree, FirstStep, TypeOK, Call,
       NoCall, NoReply, Ops, Models, NoModel, FrameKinds, Labels, Outcomes, Writing, Waits
  <2>2. RequestsSerialized'
    BY <1>3 DEF Acquire, transport, history, LockFree, FirstStep, TypeOK,
       RequestsSerialized, Held, Writing, Waits
  <2>3. StageInv'
    BY <1>3 DEF Acquire, transport, history, LockFree, FirstStep, TypeOK,
       RequestsSerialized, StageInv, SlotOps, Held, Writing, Waits, LinkInv, NoCall, Call,
       Ops
  <2>4. LinkInv'
    BY <1>3 DEF Acquire, transport, history, LockFree, FirstStep, TypeOK,
       RequestsSerialized, StageInv, LinkInv
  <2>5. QED
    BY <2>1, <2>2, <2>3, <2>4
<1>4. ASSUME NEW c \in Callers, Return(c) PROVE Core'
  <2>1. TypeOK'
    BY <1>0, <1>4 DEF Return, client, transport, history, TypeOK, Call, NoCall, NoReply,
       Ops, Models, NoModel, FrameKinds, Labels, Outcomes, Writing, Waits
  <2>2. RequestsSerialized'
    BY <1>4 DEF Return, client, transport, history, TypeOK, RequestsSerialized, Held,
       Writing, Waits
  <2>3. StageInv'
    BY <1>4 DEF Return, client, transport, history, TypeOK, RequestsSerialized, StageInv,
       SlotOps, Held, Writing, Waits, LinkInv, NoCall
  <2>4. LinkInv'
    BY <1>4 DEF Return, client, transport, history, TypeOK, RequestsSerialized, StageInv,
       LinkInv
  <2>5. QED
    BY <2>1, <2>2, <2>3, <2>4
<1>5. ASSUME NEW c \in Callers, NextPoll(c) PROVE Core'
  <2>1. TypeOK'
    BY <1>0, <1>5 DEF NextPoll, transport, history, TypeOK, Call, NoCall, NoReply, Ops,
       Models, NoModel, FrameKinds, Labels, Outcomes, Writing, Waits
  <2>2. RequestsSerialized'
    BY <1>5 DEF NextPoll, transport, history, TypeOK, RequestsSerialized, Held, Writing,
       Waits
  <2>3. StageInv'
    BY <1>5 DEF NextPoll, transport, history, TypeOK, RequestsSerialized, StageInv,
       SlotOps, Held, Writing, Waits, LinkInv, NoCall
  <2>4. LinkInv'
    BY <1>5 DEF NextPoll, transport, history, TypeOK, RequestsSerialized, StageInv, LinkInv
  <2>5. QED
    BY <2>1, <2>2, <2>3, <2>4
<1>6. ASSUME NEW c \in Callers, Unlink(c) PROVE Core'
  <2>1. TypeOK'
    <3>1. /\ pc' \in [Callers -> Labels]
          /\ outcome' \in [Callers -> Outcomes]
      BY <1>6 DEF Unlink, Stay, Finish, TypeOK, Labels, Outcomes
    <3>2. /\ reply' \in [Callers -> Notification \cup {NoReply}]
          /\ holder' \in Callers \cup {NoCaller}
      BY <1>6 DEF Unlink, Stay, Finish, TypeOK
    <3>3. wire' \in Wire
      BY <1>6 DEF Unlink, FreshWire, Wire
    <3>4. /\ queue' \in Seq(Notification) /\ air' \in Seq(Notification)
          /\ model' = NoModel /\ linkModel' = NoModel
          /\ up' \in BOOLEAN /\ closed' \in BOOLEAN
          /\ UNCHANGED <<waiting, call, todo, profileAcks, link, orphans>>
      BY <1>0, <1>6 DEF Unlink, DropPending
    <3>5. QED
      BY <3>1, <3>2, <3>3, <3>4 DEF TypeOK
  <2>2. RequestsSerialized'
    BY <1>6 DEF Unlink, DropPending, Stay, Finish, FreshWire, Wire, TypeOK,
       RequestsSerialized, Held, Writing, Waits
  <2>3. StageInv'
    BY <1>6 DEF Unlink, DropPending, Stay, Finish, FreshWire, Wire, TypeOK,
       RequestsSerialized, StageInv, SlotOps, Held, Writing, Waits, LinkInv, NoCall
  <2>4. LinkInv'
    BY <1>6 DEF Unlink, DropPending, Stay, Finish, FreshWire, Wire, TypeOK,
       RequestsSerialized, StageInv, LinkInv
  <2>5. QED
    BY <2>1, <2>2, <2>3, <2>4
<1>7. ASSUME NEW c \in Callers, Link(c) PROVE Core'
  <2>1. TypeOK'
    <3>1. call[c].model \in Models
      BY <1>7 DEF Link, StageInv
    <3>2. link + 1 \in Nat
      BY DEF TypeOK
    <3>3. QED
      BY <1>0, <1>7, <3>1, <3>2 DEF Link, DropPending, Finish, TypeOK, Labels, Outcomes
  <2>2. RequestsSerialized'
    BY <1>7 DEF Link, DropPending, Finish, TypeOK, RequestsSerialized, Held, Writing, Waits
  <2>3. StageInv'
    BY <1>7 DEF Link, DropPending, Finish, TypeOK, RequestsSerialized, StageInv, SlotOps,
       Held, Writing, Waits, LinkInv, NoCall
  <2>4. LinkInv'
    BY <1>7 DEF Link, DropPending, Finish, TypeOK, RequestsSerialized, StageInv, LinkInv
  <2>5. QED
    BY <2>1, <2>2, <2>3, <2>4
<1>8. ASSUME NEW c \in Callers, LinkFails(c) PROVE Core'
  <2>1. TypeOK'
    BY <1>0, <1>8 DEF LinkFails, Finish, transport, history, TypeOK, Call, NoCall, NoReply,
       Ops, Models, NoModel, FrameKinds, Labels, Outcomes, Writing, Waits
  <2>2. RequestsSerialized'
    BY <1>8 DEF LinkFails, Finish, transport, history, TypeOK, RequestsSerialized, Held,
       Writing, Waits
  <2>3. StageInv'
    BY <1>8 DEF LinkFails, Finish, transport, history, TypeOK, RequestsSerialized,
       StageInv, SlotOps, Held, Writing, Waits, LinkInv, NoCall
  <2>4. LinkInv'
    BY <1>8 DEF LinkFails, Finish, transport, history, TypeOK, RequestsSerialized,
       StageInv, LinkInv
  <2>5. QED
    BY <2>1, <2>2, <2>3, <2>4
<1>9. ASSUME NEW c \in Callers, WriteAndForget(c) PROVE Core'
  <2>1. up /\ air' \in Seq(Notification) /\ wire' \in Wire
    <3>1. RequestFrame(c) \in FrameKinds /\ RequestSlot(c) \in Nat
      BY <1>9, FrameAndSlot DEF WriteAndForget, FrameKinds
    <3>2. Transmit(c, RequestFrame(c), RequestSlot(c))
      BY <1>9 DEF WriteAndForget
    <3>3. QED
      BY <3>1, <3>2, TransmitType
  <2>2. TypeOK'
    BY <1>9, <2>1 DEF WriteAndForget, Finish, TypeOK, Labels, Outcomes, Waits, Writing,
       Unawaited
  <2>3. RequestsSerialized'
    BY <1>9 DEF WriteAndForget, Finish, TypeOK, RequestsSerialized, Held, Writing, Waits
  <2>4. StageInv'
    BY <1>9 DEF WriteAndForget, Finish, TypeOK, RequestsSerialized, StageInv, SlotOps,
       Held, Writing, Waits
  <2>5. LinkInv'
    BY <1>9, <2>1 DEF WriteAndForget, Finish, LinkInv
  <2>6. QED
    BY <2>2, <2>3, <2>4, <2>5
<1>10. ASSUME NEW c \in Callers, WriteAndWait(c) PROVE Core'
  <2>1. up /\ air' \in Seq(Notification) /\ wire' \in Wire
    <3>1. RequestFrame(c) \in FrameKinds /\ RequestSlot(c) \in Nat
      BY <1>10, FrameAndSlot DEF WriteAndWait, FrameKinds
    <3>2. Transmit(c, RequestFrame(c), RequestSlot(c))
      BY <1>10 DEF WriteAndWait
    <3>3. QED
      BY <3>1, <3>2, TransmitType
  <2>2. TypeOK'
    BY <1>10, <2>1 DEF WriteAndWait, Stay, TypeOK, Labels, Outcomes, Waits, Writing,
       Unawaited, Stay
  <2>3. RequestsSerialized'
    BY <1>10 DEF WriteAndWait, Stay, TypeOK, RequestsSerialized, Held, Writing, Waits
  <2>4. StageInv'
    BY <1>10 DEF WriteAndWait, Stay, TypeOK, RequestsSerialized, StageInv, SlotOps, Held,
       Writing, Waits
  <2>5. LinkInv'
    BY <1>10, <2>1 DEF WriteAndWait, Stay, LinkInv
  <2>6. QED
    BY <2>2, <2>3, <2>4, <2>5
<1>11. ASSUME NEW c \in Callers, WriteFails(c) PROVE Core'
  <2>1. TypeOK'
    BY <1>0, <1>11 DEF WriteFails, Finish, transport, history, TypeOK, Call, NoCall,
       NoReply, Ops, Models, NoModel, FrameKinds, Labels, Outcomes, Writing, Waits
  <2>2. RequestsSerialized'
    BY <1>11 DEF WriteFails, Finish, transport, history, TypeOK, RequestsSerialized, Held,
       Writing, Waits
  <2>3. StageInv'
    BY <1>11 DEF WriteFails, Finish, transport, history, TypeOK, RequestsSerialized,
       StageInv, SlotOps, Held, Writing, Waits, LinkInv, NoCall
  <2>4. LinkInv'
    BY <1>11 DEF WriteFails, Finish, transport, history, TypeOK, RequestsSerialized,
       StageInv, LinkInv
  <2>5. QED
    BY <2>1, <2>2, <2>3, <2>4
<1>12. ASSUME NEW c \in Callers, StopMasked(c) PROVE Core'
  <2>1. up /\ air' \in Seq(Notification) /\ wire' \in Wire
    <3>1. "Stop" \in FrameKinds /\ NextSlot(c) \in Nat
      BY <1>12, FrameAndSlot DEF StopMasked, FrameKinds
    <3>2. Transmit(c, "Stop", NextSlot(c))
      BY <1>12 DEF StopMasked
    <3>3. QED
      BY <3>1, <3>2, TransmitType
  <2>2. TypeOK'
    BY <1>12, <2>1 DEF StopMasked, Stay, TypeOK, Labels, Outcomes, Waits, Writing,
       Unawaited, Stay
  <2>3. RequestsSerialized'
    BY <1>12 DEF StopMasked, Stay, TypeOK, RequestsSerialized, Held, Writing, Waits
  <2>4. StageInv'
    BY <1>12 DEF StopMasked, Stay, TypeOK, RequestsSerialized, StageInv, SlotOps, Held,
       Writing, Waits
  <2>5. LinkInv'
    BY <1>12, <2>1 DEF StopMasked, Stay, LinkInv
  <2>6. QED
    BY <2>2, <2>3, <2>4, <2>5
<1>13. ASSUME NEW c \in Callers, WriteChunk1(c) PROVE Core'
  <2>1. up /\ air' \in Seq(Notification) /\ wire' \in Wire
    <3>1. "Chunk1" \in FrameKinds /\ 0 \in Nat
      BY <1>13, FrameAndSlot DEF WriteChunk1, FrameKinds
    <3>2. Transmit(c, "Chunk1", 0)
      BY <1>13 DEF WriteChunk1
    <3>3. QED
      BY <3>1, <3>2, TransmitType
  <2>2. TypeOK'
    BY <1>13, <2>1 DEF WriteChunk1, Stay, TypeOK, Labels, Outcomes, Waits, Writing,
       Unawaited, Stay
  <2>3. RequestsSerialized'
    BY <1>13 DEF WriteChunk1, Stay, TypeOK, RequestsSerialized, Held, Writing, Waits
  <2>4. StageInv'
    BY <1>13 DEF WriteChunk1, Stay, TypeOK, RequestsSerialized, StageInv, SlotOps, Held,
       Writing, Waits
  <2>5. LinkInv'
    BY <1>13, <2>1 DEF WriteChunk1, Stay, LinkInv
  <2>6. QED
    BY <2>2, <2>3, <2>4, <2>5
<1>14. ASSUME NEW c \in Callers, WriteChunk2(c) PROVE Core'
  <2>1. up /\ air' \in Seq(Notification) /\ wire' \in Wire
    <3>1. "Chunk2" \in FrameKinds /\ 0 \in Nat
      BY <1>14, FrameAndSlot DEF WriteChunk2, FrameKinds
    <3>2. Transmit(c, "Chunk2", 0)
      BY <1>14 DEF WriteChunk2
    <3>3. QED
      BY <3>1, <3>2, TransmitType
  <2>2. TypeOK'
    <3>1. pc' \in [Callers -> Labels] /\ orphans' \in BOOLEAN
      BY <1>14 DEF WriteChunk2, Stay, TypeOK, Labels, Waits, Unawaited
    <3>2. UNCHANGED <<holder, waiting, call, todo, outcome, reply, model, profileAcks,
                      up, closed, queue, link, linkModel>>
      BY <1>14 DEF WriteChunk2, Stay
    <3>3. QED
      BY <2>1, <3>1, <3>2 DEF TypeOK
  <2>3. RequestsSerialized'
    BY <1>14 DEF WriteChunk2, Stay, TypeOK, RequestsSerialized, Held, Writing, Waits
  <2>4. StageInv'
    BY <1>14 DEF WriteChunk2, Stay, TypeOK, RequestsSerialized, StageInv, SlotOps, Held,
       Writing, Waits
  <2>5. LinkInv'
    BY <1>14, <2>1 DEF WriteChunk2, Stay, LinkInv
  <2>6. QED
    BY <2>2, <2>3, <2>4, <2>5
<1>15. ASSUME NEW c \in Callers, Settled(c) PROVE Core'
  <2>1. TypeOK'
    <3>1. todo' \in [Callers -> SUBSET Slots]
      BY <1>15 DEF Settled, Commanded, TypeOK
    <3>2. /\ pc' \in [Callers -> Labels]
          /\ outcome' \in [Callers -> Outcomes]
      BY <1>15 DEF Settled, Stay, Finish, TypeOK, Labels, Outcomes, Writing
    <3>3. /\ reply' \in [Callers -> Notification \cup {NoReply}]
          /\ holder' \in Callers \cup {NoCaller}
      BY <1>15 DEF Settled, Stay, Finish, TypeOK
    <3>4. UNCHANGED <<waiting, call, model, profileAcks, transport, history>>
      BY <1>15 DEF Settled
    <3>5. QED
      BY <3>1, <3>2, <3>3, <3>4 DEF transport, history, TypeOK
  <2>2. RequestsSerialized'
    BY <1>15 DEF Settled, Stay, Finish, transport, history, Commanded, TypeOK,
       RequestsSerialized, Held, Writing, Waits
  <2>3. StageInv'
    BY <1>15 DEF Settled, Stay, Finish, transport, history, Commanded, TypeOK,
       RequestsSerialized, StageInv, SlotOps, Held, Writing, Waits, LinkInv, NoCall
  <2>4. LinkInv'
    BY <1>15 DEF Settled, Stay, Finish, transport, history, Commanded, TypeOK,
       RequestsSerialized, StageInv, LinkInv
  <2>5. QED
    BY <2>1, <2>2, <2>3, <2>4
<1>16. ASSUME NEW c \in Callers, StartMasked(c) PROVE Core'
  <2>1. up /\ air' \in Seq(Notification) /\ wire' \in Wire
    <3>1. "Start" \in FrameKinds /\ NextSlot(c) \in Nat
      BY <1>16, FrameAndSlot DEF StartMasked, FrameKinds
    <3>2. Transmit(c, "Start", NextSlot(c))
      BY <1>16 DEF StartMasked
    <3>3. QED
      BY <3>1, <3>2, TransmitType
  <2>2. TypeOK'
    BY <1>16, <2>1 DEF StartMasked, Stay, TypeOK, Labels, Outcomes, Waits, Writing,
       Unawaited, Stay
  <2>3. RequestsSerialized'
    BY <1>16 DEF StartMasked, Stay, TypeOK, RequestsSerialized, Held, Writing, Waits
  <2>4. StageInv'
    BY <1>16 DEF StartMasked, Stay, TypeOK, RequestsSerialized, StageInv, SlotOps, Held,
       Writing, Waits
  <2>5. LinkInv'
    BY <1>16, <2>1 DEF StartMasked, Stay, LinkInv
  <2>6. QED
    BY <2>2, <2>3, <2>4, <2>5
<1>17. ASSUME NEW c \in Callers, Receive(c) PROVE Core'
  <2>1. Conclude(c, "ok", Head(queue))
    BY <1>17 DEF Receive
  <2>2. Head(queue) \in Notification /\ queue' \in Seq(Notification)
    BY <1>17 DEF Receive, TypeOK
  <2>3. UNCHANGED <<waiting, call, model, up, closed, link, linkModel, wire, air>>
    BY <1>17 DEF Receive, transport
  <2>4. orphans' \in BOOLEAN
    BY <1>17 DEF Receive, TypeOK
  <2>5. TypeOK' /\ RequestsSerialized' /\ StageInv'
    BY <2>1, <2>2, <2>3, <2>4, ConcludeCore DEF TypeOK
  <2>6. LinkInv'
    BY <2>3 DEF LinkInv
  <2>7. QED
    BY <2>5, <2>6
<1>18. ASSUME NEW c \in Callers, Discard(c) PROVE Core'
  <2>1. TypeOK'
    BY <1>0, <1>18 DEF Discard, client, tasks, history, TypeOK, Call, NoCall, NoReply, Ops,
       Models, NoModel, FrameKinds, Labels, Outcomes, Writing, Waits
  <2>2. RequestsSerialized'
    BY <1>18 DEF Discard, client, tasks, history, TypeOK, RequestsSerialized, Held,
       Writing, Waits
  <2>3. StageInv'
    BY <1>18 DEF Discard, client, tasks, history, TypeOK, RequestsSerialized, StageInv,
       SlotOps, Held, Writing, Waits, LinkInv, NoCall
  <2>4. LinkInv'
    BY <1>18 DEF Discard, client, tasks, history, TypeOK, RequestsSerialized, StageInv,
       LinkInv
  <2>5. QED
    BY <2>1, <2>2, <2>3, <2>4
<1>19. ASSUME NEW c \in Callers, StreamEnds(c) PROVE Core'
  <2>1. Conclude(c, "not_connected", NoReply)
    BY <1>19 DEF StreamEnds
  <2>2. NoReply \in Notification \cup {NoReply} /\ queue' \in Seq(Notification)
    BY <1>19 DEF StreamEnds, transport, TypeOK
  <2>3. UNCHANGED <<waiting, call, model, up, closed, link, linkModel, wire, air>>
    BY <1>19 DEF StreamEnds, transport
  <2>4. orphans' \in BOOLEAN
    BY <1>19 DEF StreamEnds, TypeOK
  <2>5. TypeOK' /\ RequestsSerialized' /\ StageInv'
    BY <2>1, <2>2, <2>3, <2>4, ConcludeCore DEF TypeOK
  <2>6. LinkInv'
    BY <2>3 DEF LinkInv
  <2>7. QED
    BY <2>5, <2>6
<1>20. ASSUME NEW c \in Callers, Deadline(c) PROVE Core'
  <2>1. Conclude(c, "timeout", NoReply)
    BY <1>20 DEF Deadline
  <2>2. NoReply \in Notification \cup {NoReply} /\ queue' \in Seq(Notification)
    BY <1>20 DEF Deadline, transport, TypeOK
  <2>3. UNCHANGED <<waiting, call, model, up, closed, link, linkModel, wire, air>>
    BY <1>20 DEF Deadline, transport
  <2>4. orphans' \in BOOLEAN
    BY <1>20 DEF Deadline, TypeOK
  <2>5. TypeOK' /\ RequestsSerialized' /\ StageInv'
    BY <2>1, <2>2, <2>3, <2>4, ConcludeCore DEF TypeOK
  <2>6. LinkInv'
    BY <2>3 DEF LinkInv
  <2>7. QED
    BY <2>5, <2>6
<1>21. ASSUME Deliver PROVE Core'
  <2>1. TypeOK'
    BY <1>0, <1>21 DEF Deliver, client, tasks, history, TypeOK, Call, NoCall, NoReply, Ops,
       Models, NoModel, FrameKinds, Labels, Outcomes, Writing, Waits
  <2>2. RequestsSerialized'
    BY <1>21 DEF Deliver, client, tasks, history, TypeOK, RequestsSerialized, Held,
       Writing, Waits
  <2>3. StageInv'
    BY <1>21 DEF Deliver, client, tasks, history, TypeOK, RequestsSerialized, StageInv,
       SlotOps, Held, Writing, Waits, LinkInv, NoCall
  <2>4. LinkInv'
    BY <1>21 DEF Deliver, client, tasks, history, TypeOK, RequestsSerialized, StageInv,
       LinkInv
  <2>5. QED
    BY <2>1, <2>2, <2>3, <2>4
<1>22. ASSUME LoseLink PROVE Core'
  <2>1. TypeOK'
    BY <1>0, <1>22 DEF LoseLink, client, tasks, history, TypeOK
  <2>2. RequestsSerialized'
    BY <1>22 DEF LoseLink, client, tasks, history, TypeOK, RequestsSerialized, Held,
       Writing, Waits
  <2>3. StageInv'
    BY <1>22 DEF LoseLink, client, tasks, history, TypeOK, RequestsSerialized, StageInv,
       SlotOps, Held, Writing, Waits, LinkInv, NoCall
  <2>4. LinkInv'
    BY <1>22 DEF LoseLink, client, tasks, history, TypeOK, RequestsSerialized, StageInv,
       LinkInv
  <2>5. QED
    BY <2>1, <2>2, <2>3, <2>4
<1>23. ASSUME EndStream PROVE Core'
  <2>1. TypeOK'
    BY <1>0, <1>23 DEF EndStream, client, tasks, history, TypeOK, Call, NoCall, NoReply,
       Ops, Models, NoModel, FrameKinds, Labels, Outcomes, Writing, Waits
  <2>2. RequestsSerialized'
    BY <1>23 DEF EndStream, client, tasks, history, TypeOK, RequestsSerialized, Held,
       Writing, Waits
  <2>3. StageInv'
    BY <1>23 DEF EndStream, client, tasks, history, TypeOK, RequestsSerialized, StageInv,
       SlotOps, Held, Writing, Waits, LinkInv, NoCall
  <2>4. LinkInv'
    BY <1>23 DEF EndStream, client, tasks, history, TypeOK, RequestsSerialized, StageInv,
       LinkInv
  <2>5. QED
    BY <2>1, <2>2, <2>3, <2>4
<1>24. ASSUME UNCHANGED vars PROVE Core'
  BY <1>24 DEF vars, TypeOK, RequestsSerialized, StageInv, LinkInv
<1>25. QED
  BY <1>1, <1>2, <1>3, <1>4, <1>5, <1>6, <1>7, <1>8, <1>9, <1>10, <1>11, <1>12, <1>13,
     <1>14, <1>15, <1>16, <1>17, <1>18, <1>19, <1>20, <1>21, <1>22, <1>23, <1>24 DEF Next,
     Step

\* Core holds before the first call.
LEMMA CoreInit == Init => Core
<1> SUFFICES ASSUME Init PROVE Core
  OBVIOUS
<1> USE CallersAssumption DEF Init
<1>1. TypeOK
  <2>1. waiting \in Seq(Callers) /\ queue \in Seq(Notification) /\ air \in Seq(Notification)
    OBVIOUS
  <2>2. wire \in Wire
    BY DEF FreshWire, Wire
  <2>3. QED
    BY <2>1, <2>2 DEF TypeOK, Labels, Outcomes, Models
<1>2. RequestsSerialized
  BY DEF RequestsSerialized, Held, Writing, Waits
<1>3. StageInv
  BY DEF StageInv
<1>4. LinkInv
  BY DEF LinkInv
<1>5. QED
  BY <1>1, <1>2, <1>3, <1>4 DEF Core

\* Types, lock, stages and link keep together in every behaviour.
THEOREM CoreInvariant == Spec => []Core
<1>1. Init => Core
  BY CoreInit
<1>2. Core /\ [Next]_vars => Core'
  BY CoreStep
<1>3. QED
  BY <1>1, <1>2, PTL DEF Spec

\* Every variable keeps its type, whatever the calls.
THEOREM TypeCorrect == Spec => []TypeOK
<1>1. Core => TypeOK
  BY DEF Core
<1>2. QED
  BY <1>1, CoreInvariant, PTL

\* The request lock serializes the client (client.rs:112-116): exactly its
\* owner is inside a call.
THEOREM Serialized == Spec => []RequestsSerialized
<1>1. Core => RequestsSerialized
  BY DEF Core
<1>2. QED
  BY <1>1, CoreInvariant, PTL

-----------------------------------------------------------------------------
(* The profile write.  Its facts are stated for one task at a time: a step *)
(* of the lock's owner cannot disturb those of a task outside the lock.    *)

Progress(c) ==
    /\ pc[c] = "lock" /\ call[c].op = "send_profile" => todo[c] = Masked(c)
    /\ pc[c] \in {"stop", "stop_ack"} => Masked(c) \ todo[c] \subseteq wire.stopped
    /\ pc[c] = "stop_ack" => NextSlot(c) \in wire.stopped
    /\ pc[c] \in {"chunk1", "chunk2", "profile_ack", "settle"} =>
          Masked(c) \subseteq wire.stopped
    /\ pc[c] = "chunk2" => wire.part = "half" /\ wire.by = c
    /\ pc[c] \in {"profile_ack", "settle", "start", "start_ack"} =>
          wire.part = "whole" /\ wire.by = c
    /\ pc[c] \in {"start", "start_ack"} => (Masked(c) \ todo[c]) \cap wire.stopped = {}
    /\ pc[c] = "start_ack" => NextSlot(c) \notin wire.stopped

ProfileInv == \A c \in Callers : Progress(c)

\* The facts of all tasks together are the properties and ProgressInv.
LEMMA ProfileInvMeans ==
    ProfileInv <=> ProgressInv /\ ProfileUnbroken /\ MaskedSlotsStopped
BY DEF ProfileInv, Progress, ProgressInv, ProfileUnbroken, MaskedSlotsStopped

\* A task that does not move keeps its facts while the wire stays as it is,
\* or while another task owns the lock.
LEMMA ProgressKept ==
    ASSUME Core, ProfileInv, NEW d \in Callers,
           pc'[d] = pc[d], call'[d] = call[d], todo'[d] = todo[d],
           wire' = wire \/ holder # d
    PROVE  Progress(d)'
<1>1. NextSlot(d)' = NextSlot(d)
  BY DEF NextSlot
<1>2. Masked(d)' = Masked(d)
  BY DEF Masked, Commanded
<1>3. CASE wire' = wire
  BY <1>1, <1>2, <1>3 DEF ProfileInv, Progress
<1>4. CASE holder # d
  <2>1. pc[d] \notin Held
    BY <1>4 DEF Core, RequestsSerialized
  <2>2. QED
    BY <1>2, <2>1 DEF ProfileInv, Progress, Held, Writing, Waits
<1>5. QED
  BY <1>3, <1>4


\* The end of a wait of send_profile (client.rs:504-511, 520-535, 546-552)
\* leaves what the link carried alone.
LEMMA ProfileConclude ==
    ASSUME Core, ProfileInv, NEW c \in Callers, NEW how, NEW n,
           Conclude(c, how, n), UNCHANGED <<call, wire>>
    PROVE  ProfileInv'
<1>1. ASSUME NEW d \in Callers, d # c PROVE Progress(d)'
  BY <1>1, ProgressKept DEF Conclude, ConcludeReply, ConcludeStop, ConcludeStart,
     ConcludeProfile, Stay, Finish, Core, TypeOK
<1>2. Masked(c)' = Masked(c)
  BY DEF Masked, Commanded
<1>3. Progress(c)'
  <2>1. CASE ConcludeReply(c, how, n)
    BY <2>1 DEF ConcludeReply, Finish, Progress, Core, TypeOK
  <2>2. CASE ConcludeStop(c)
    BY <1>2, <2>2 DEF ConcludeStop, LastSlot, Stay, ProfileInv, Progress, Core, TypeOK
  <2>3. CASE ConcludeStart(c)
    BY <1>2, <2>3 DEF ConcludeStart, LastSlot, Stay, Finish, ProfileInv, Progress, Core,
       TypeOK
  <2>4. CASE ConcludeProfile(c, how)
    BY <1>2, <2>4 DEF ConcludeProfile, Stay, Finish, ProfileInv, Progress, Core, TypeOK
  <2>5. QED
    BY <2>1, <2>2, <2>3, <2>4 DEF Conclude
<1>4. QED
  BY <1>1, <1>3 DEF ProfileInv

\* What a written frame adds to the record of the link.
LEMMA TransmitWire ==
    ASSUME NEW c \in Callers, NEW f \in FrameKinds, NEW s, Transmit(c, f, s)
    PROVE  /\ wire'.stopped = Stopped(f, s) /\ wire'.part = Part(c, f)
           /\ wire'.by = c
BY DEF Transmit

\* ProfileInv is inductive relative to Core.
LEMMA ProfileStep == Core /\ ProfileInv /\ [Next]_vars => ProfileInv'
<1> SUFFICES ASSUME Core, ProfileInv, [Next]_vars PROVE ProfileInv'
  OBVIOUS
<1>1. ASSUME NEW c \in Callers, NEW k \in Calls, Enter(c, k) PROVE ProfileInv'
  <2>1. ASSUME NEW d \in Callers, d # c PROVE Progress(d)'
    BY <1>1, <2>1, ProgressKept DEF Enter, Stay, Finish, tasks, history, client, Core,
       TypeOK
  <2>2. Progress(c)'
    BY <1>1 DEF Enter, Commanded, Masked, ProfileInv, Progress, Core, TypeOK, history, tasks
  <2>3. QED
    BY <2>1, <2>2 DEF ProfileInv
<1>2. ASSUME NEW c \in Callers, NEW k \in Calls, Refuse(c, k) PROVE ProfileInv'
  <2>1. ASSUME NEW d \in Callers, d # c PROVE Progress(d)'
    BY <1>2, <2>1, ProgressKept DEF Refuse, Stay, Finish, tasks, history, client, Core,
       TypeOK
  <2>2. Progress(c)'
    BY <1>2 DEF Refuse, ProfileInv, Progress, Core, TypeOK, history, tasks
  <2>3. QED
    BY <2>1, <2>2 DEF ProfileInv
<1>3. ASSUME NEW c \in Callers, Acquire(c) PROVE ProfileInv'
  <2>1. ASSUME NEW d \in Callers, d # c PROVE Progress(d)'
    BY <1>3, <2>1, ProgressKept DEF Acquire, Stay, Finish, tasks, history, client, Core,
       TypeOK
  <2>2. Progress(c)'
    BY <1>3 DEF Acquire, FirstStep, Masked, ProfileInv, Progress, Core, TypeOK, history,
       tasks
  <2>3. QED
    BY <2>1, <2>2 DEF ProfileInv
<1>4. ASSUME NEW c \in Callers, Return(c) PROVE ProfileInv'
  <2>1. ASSUME NEW d \in Callers, d # c PROVE Progress(d)'
    BY <1>4, <2>1, ProgressKept DEF Return, Stay, Finish, tasks, history, client, Core,
       TypeOK
  <2>2. Progress(c)'
    BY <1>4 DEF Return, ProfileInv, Progress, Core, TypeOK, history, tasks
  <2>3. QED
    BY <2>1, <2>2 DEF ProfileInv
<1>5. ASSUME NEW c \in Callers, NextPoll(c) PROVE ProfileInv'
  <2>1. ASSUME NEW d \in Callers, d # c PROVE Progress(d)'
    BY <1>5, <2>1, ProgressKept DEF NextPoll, Stay, Finish, tasks, history, client, Core,
       TypeOK
  <2>2. Progress(c)'
    BY <1>5 DEF NextPoll, StageInv, ProfileInv, Progress, Core, TypeOK, history, tasks
  <2>3. QED
    BY <2>1, <2>2 DEF ProfileInv
<1>6. ASSUME NEW c \in Callers, Unlink(c) PROVE ProfileInv'
  <2>1. ASSUME NEW d \in Callers, d # c PROVE Progress(d)'
    <3>1. holder = c
      BY <1>6 DEF Unlink, Core, RequestsSerialized, Held, Writing
    <3>2. QED
      BY <1>6, <2>1, <3>1, ProgressKept DEF Unlink, Stay, Finish, Core, TypeOK
  <2>2. Progress(c)'
    BY <1>6 DEF Unlink, Stay, Finish, ProfileInv, Progress, Core, TypeOK, history, tasks
  <2>3. QED
    BY <2>1, <2>2 DEF ProfileInv
<1>7. ASSUME NEW c \in Callers, Link(c) PROVE ProfileInv'
  <2>1. ASSUME NEW d \in Callers, d # c PROVE Progress(d)'
    BY <1>7, <2>1, ProgressKept DEF Link, Stay, Finish, tasks, history, client, Core, TypeOK
  <2>2. Progress(c)'
    BY <1>7 DEF Link, Finish, ProfileInv, Progress, Core, TypeOK, history, tasks
  <2>3. QED
    BY <2>1, <2>2 DEF ProfileInv
<1>8. ASSUME NEW c \in Callers, LinkFails(c) PROVE ProfileInv'
  <2>1. ASSUME NEW d \in Callers, d # c PROVE Progress(d)'
    BY <1>8, <2>1, ProgressKept DEF LinkFails, Stay, Finish, tasks, history, client, Core,
       TypeOK
  <2>2. Progress(c)'
    BY <1>8 DEF LinkFails, Finish, ProfileInv, Progress, Core, TypeOK, history, tasks
  <2>3. QED
    BY <2>1, <2>2 DEF ProfileInv
<1>9. ASSUME NEW c \in Callers, WriteAndForget(c) PROVE ProfileInv'
  <2>1. ASSUME NEW d \in Callers, d # c PROVE Progress(d)'
    <3>1. holder = c
      BY <1>9 DEF WriteAndForget, Core, RequestsSerialized, Held, Writing
    <3>2. QED
      BY <1>9, <2>1, <3>1, ProgressKept DEF WriteAndForget, Stay, Finish, Core, TypeOK
  <2>2. Progress(c)'
    BY <1>9 DEF WriteAndForget, Finish, ProfileInv, Progress, Core, TypeOK, history, tasks
  <2>3. QED
    BY <2>1, <2>2 DEF ProfileInv
<1>10. ASSUME NEW c \in Callers, WriteAndWait(c) PROVE ProfileInv'
  <2>1. ASSUME NEW d \in Callers, d # c PROVE Progress(d)'
    <3>1. holder = c
      BY <1>10 DEF WriteAndWait, Core, RequestsSerialized, Held, Writing
    <3>2. QED
      BY <1>10, <2>1, <3>1, ProgressKept DEF WriteAndWait, Stay, Finish, Core, TypeOK
  <2>2. Progress(c)'
    BY <1>10 DEF WriteAndWait, Stay, ProfileInv, Progress, Core, TypeOK, history, tasks
  <2>3. QED
    BY <2>1, <2>2 DEF ProfileInv
<1>11. ASSUME NEW c \in Callers, WriteFails(c) PROVE ProfileInv'
  <2>1. ASSUME NEW d \in Callers, d # c PROVE Progress(d)'
    BY <1>11, <2>1, ProgressKept DEF WriteFails, Stay, Finish, tasks, history, client,
       Core, TypeOK
  <2>2. Progress(c)'
    BY <1>11 DEF WriteFails, Finish, ProfileInv, Progress, Core, TypeOK, history, tasks
  <2>3. QED
    BY <2>1, <2>2 DEF ProfileInv
<1>12. ASSUME NEW c \in Callers, StopMasked(c) PROVE ProfileInv'
  <2>1. ASSUME NEW d \in Callers, d # c PROVE Progress(d)'
    <3>1. holder = c
      BY <1>12 DEF StopMasked, Core, RequestsSerialized, Held, Writing
    <3>2. QED
      BY <1>12, <2>1, <3>1, ProgressKept DEF StopMasked, Stay, Finish, Core, TypeOK
  <2>2. Progress(c)'
    <3>1. /\ wire'.stopped = Stopped("Stop", NextSlot(c)) /\ wire'.part = Part(c, "Stop")
          /\ wire'.by = c
      BY <1>12, TransmitWire DEF StopMasked, FrameKinds
    <3>2. NextSlot(c)' = NextSlot(c) /\ Masked(c)' = Masked(c)
      BY <1>12 DEF StopMasked, NextSlot, Masked, Commanded
    <3>3. QED
      BY <1>12, <3>1, <3>2 DEF StopMasked, Stay, ProfileInv, Progress, Stopped, Part, Core,
         TypeOK
  <2>3. QED
    BY <2>1, <2>2 DEF ProfileInv
<1>13. ASSUME NEW c \in Callers, WriteChunk1(c) PROVE ProfileInv'
  <2>1. ASSUME NEW d \in Callers, d # c PROVE Progress(d)'
    <3>1. holder = c
      BY <1>13 DEF WriteChunk1, Core, RequestsSerialized, Held, Writing
    <3>2. QED
      BY <1>13, <2>1, <3>1, ProgressKept DEF WriteChunk1, Stay, Finish, Core, TypeOK
  <2>2. Progress(c)'
    <3>1. /\ wire'.stopped = Stopped("Chunk1", 0) /\ wire'.part = Part(c, "Chunk1")
          /\ wire'.by = c
      BY <1>13, TransmitWire DEF WriteChunk1, FrameKinds
    <3>2. NextSlot(c)' = NextSlot(c) /\ Masked(c)' = Masked(c)
      BY <1>13 DEF WriteChunk1, NextSlot, Masked, Commanded
    <3>3. QED
      BY <1>13, <3>1, <3>2 DEF WriteChunk1, Stay, ProfileInv, Progress, Stopped, Part,
         Core, TypeOK
  <2>3. QED
    BY <2>1, <2>2 DEF ProfileInv
<1>14. ASSUME NEW c \in Callers, WriteChunk2(c) PROVE ProfileInv'
  <2>1. ASSUME NEW d \in Callers, d # c PROVE Progress(d)'
    <3>1. holder = c
      BY <1>14 DEF WriteChunk2, Core, RequestsSerialized, Held, Writing
    <3>2. QED
      BY <1>14, <2>1, <3>1, ProgressKept DEF WriteChunk2, Stay, Finish, Core, TypeOK
  <2>2. Progress(c)'
    <3>1. /\ wire'.stopped = Stopped("Chunk2", 0) /\ wire'.part = Part(c, "Chunk2")
          /\ wire'.by = c
      BY <1>14, TransmitWire DEF WriteChunk2, FrameKinds
    <3>2. NextSlot(c)' = NextSlot(c) /\ Masked(c)' = Masked(c)
      BY <1>14 DEF WriteChunk2, NextSlot, Masked, Commanded
    <3>3. QED
      BY <1>14, <3>1, <3>2 DEF WriteChunk2, Stay, ProfileInv, Progress, Stopped, Part,
         Core, TypeOK
  <2>3. QED
    BY <2>1, <2>2 DEF ProfileInv
<1>15. ASSUME NEW c \in Callers, Settled(c) PROVE ProfileInv'
  <2>1. ASSUME NEW d \in Callers, d # c PROVE Progress(d)'
    BY <1>15, <2>1, ProgressKept DEF Settled, Stay, Finish, tasks, history, client, Core,
       TypeOK
  <2>2. Progress(c)'
    BY <1>15 DEF Settled, Stay, Finish, Masked, ProfileInv, Progress, Core, TypeOK,
       history, tasks
  <2>3. QED
    BY <2>1, <2>2 DEF ProfileInv
<1>16. ASSUME NEW c \in Callers, StartMasked(c) PROVE ProfileInv'
  <2>1. ASSUME NEW d \in Callers, d # c PROVE Progress(d)'
    <3>1. holder = c
      BY <1>16 DEF StartMasked, Core, RequestsSerialized, Held, Writing
    <3>2. QED
      BY <1>16, <2>1, <3>1, ProgressKept DEF StartMasked, Stay, Finish, Core, TypeOK
  <2>2. Progress(c)'
    <3>1. /\ wire'.stopped = Stopped("Start", NextSlot(c)) /\ wire'.part = Part(c, "Start")
          /\ wire'.by = c
      BY <1>16, TransmitWire DEF StartMasked, FrameKinds
    <3>2. NextSlot(c)' = NextSlot(c) /\ Masked(c)' = Masked(c)
      BY <1>16 DEF StartMasked, NextSlot, Masked, Commanded
    <3>3. QED
      BY <1>16, <3>1, <3>2 DEF StartMasked, Stay, ProfileInv, Progress, Stopped, Part,
         Core, TypeOK
  <2>3. QED
    BY <2>1, <2>2 DEF ProfileInv
<1>17. ASSUME NEW c \in Callers, Receive(c) PROVE ProfileInv'
  <2>1. Conclude(c, "ok", Head(queue)) /\ UNCHANGED <<call, wire>>
    BY <1>17 DEF Receive
  <2>2. QED
    BY <2>1, ProfileConclude
<1>18. ASSUME NEW c \in Callers, Discard(c) PROVE ProfileInv'
  BY <1>18, ProgressKept DEF Discard, tasks, history, ProfileInv
<1>19. ASSUME NEW c \in Callers, StreamEnds(c) PROVE ProfileInv'
  <2>1. Conclude(c, "not_connected", NoReply) /\ UNCHANGED <<call, wire>>
    BY <1>19 DEF StreamEnds
  <2>2. QED
    BY <2>1, ProfileConclude
<1>20. ASSUME NEW c \in Callers, Deadline(c) PROVE ProfileInv'
  <2>1. Conclude(c, "timeout", NoReply) /\ UNCHANGED <<call, wire>>
    BY <1>20 DEF Deadline
  <2>2. QED
    BY <2>1, ProfileConclude
<1>21. ASSUME Deliver PROVE ProfileInv'
  BY <1>21, ProgressKept DEF Deliver, tasks, history, ProfileInv
<1>22. ASSUME LoseLink PROVE ProfileInv'
  BY <1>22, ProgressKept DEF LoseLink, tasks, history, ProfileInv
<1>23. ASSUME EndStream PROVE ProfileInv'
  BY <1>23, ProgressKept DEF EndStream, tasks, history, ProfileInv
<1>24. ASSUME UNCHANGED vars PROVE ProfileInv'
  BY <1>24, ProgressKept DEF vars, ProfileInv
<1>25. QED
  BY <1>1, <1>2, <1>3, <1>4, <1>5, <1>6, <1>7, <1>8, <1>9, <1>10, <1>11, <1>12, <1>13,
     <1>14, <1>15, <1>16, <1>17, <1>18, <1>19, <1>20, <1>21, <1>22, <1>23, <1>24 DEF Next,
     Step

\* The progress of every send_profile matches what its link carried.
THEOREM ProfileInvariant == Spec => []ProfileInv
<1>1. Init => ProfileInv
  BY DEF Init, ProfileInv, Progress
<1>2. Core /\ ProfileInv /\ [Next]_vars => ProfileInv'
  BY ProfileStep
<1>3. QED
  BY <1>1, <1>2, CoreInvariant, PTL DEF Spec

\* The two chunks of a profile go over the link back to back, and nothing
\* but the profile's own starts follows until send_profile returns.
THEOREM ProfileStaysUnbroken == Spec => []ProfileUnbroken
<1>1. ProfileInv => ProfileUnbroken
  BY ProfileInvMeans
<1>2. QED
  BY <1>1, ProfileInvariant, PTL

\* No profile is written while a slot of its mask may be running.
THEOREM StopsPrecedeProfile == Spec => []MaskedSlotsStopped
<1>1. ProfileInv => MaskedSlotsStopped
  BY ProfileInvMeans
<1>2. QED
  BY <1>1, ProfileInvariant, PTL

\* What a send_profile that has reported ok may be relied upon for.
Honest(c) ==
    /\ wire'.part = "whole" /\ wire'.by = c
    /\ IF call[c].start THEN Masked(c) \cap wire'.stopped = {}
                        ELSE Masked(c) \subseteq wire'.stopped

Reports(c) == /\ call[c].op = "send_profile" /\ pc[c] # "done"
              /\ pc'[c] = "done" /\ outcome'[c] = "ok"

\* The two ends of send_profile after its last wait (client.rs:520-556):
\* the acknowledgement with no start to come, and the last start.
LEMMA ConcludeHonest ==
    ASSUME Core, ProfileInv, NEW c \in Callers, NEW how, NEW n, Conclude(c, how, n),
           UNCHANGED <<call, wire>>, Reports(c)
    PROVE  Honest(c)
<1>1. CASE ConcludeReply(c, how, n)
  BY <1>1 DEF ConcludeReply, Core, StageInv, Reports
<1>2. CASE ConcludeStop(c)
  BY <1>2 DEF ConcludeStop, Stay, Core, TypeOK, Reports
<1>3. CASE ConcludeStart(c)
  <2>1. pc[c] = "start_ack" /\ todo[c] = {NextSlot(c)} /\ call[c].start
    BY <1>3 DEF ConcludeStart, LastSlot, Stay, Core, TypeOK, StageInv, Reports
  <2>2. /\ (Masked(c) \ todo[c]) \cap wire.stopped = {} /\ NextSlot(c) \notin wire.stopped
        /\ wire.part = "whole" /\ wire.by = c
    BY <2>1 DEF ProfileInv, Progress
  <2>3. QED
    BY <2>1, <2>2 DEF Honest
<1>4. CASE ConcludeProfile(c, how)
  <2>1. pc[c] = "profile_ack" /\ ~call[c].start
    BY <1>4 DEF ConcludeProfile, Stay, Core, TypeOK, Reports
  <2>2. QED
    BY <2>1 DEF ProfileInv, Progress, Honest
<1>5. QED
  BY <1>1, <1>2, <1>3, <1>4 DEF Conclude

\* No other step makes a send_profile report ok.
LEMMA HonestStep ==
    ASSUME Core, ProfileInv, [Next]_vars, NEW c \in Callers, Reports(c)
    PROVE  Honest(c)
<1>1. ASSUME NEW d \in Callers, NEW k \in Calls, Enter(d, k) PROVE FALSE
  BY <1>1 DEF Enter, Finish, Stay, Core, TypeOK, StageInv, SlotOps, Reports
<1>2. ASSUME NEW d \in Callers, NEW k \in Calls, Refuse(d, k) PROVE FALSE
  BY <1>2 DEF Refuse, Finish, Stay, Core, TypeOK, StageInv, SlotOps, Reports
<1>3. ASSUME NEW d \in Callers, Acquire(d) PROVE FALSE
  BY <1>3 DEF Acquire, FirstStep, Finish, Stay, Core, TypeOK, StageInv, SlotOps, Reports
<1>4. ASSUME NEW d \in Callers, Return(d) PROVE FALSE
  BY <1>4 DEF Return, Finish, Stay, Core, TypeOK, StageInv, SlotOps, Reports
<1>5. ASSUME NEW d \in Callers, NextPoll(d) PROVE FALSE
  BY <1>5 DEF NextPoll, Finish, Stay, Core, TypeOK, StageInv, SlotOps, Reports
<1>6. ASSUME NEW d \in Callers, Unlink(d) PROVE FALSE
  BY <1>6 DEF Unlink, Finish, Stay, Core, TypeOK, StageInv, SlotOps, Reports
<1>7. ASSUME NEW d \in Callers, Link(d) PROVE FALSE
  BY <1>7 DEF Link, Finish, Stay, Core, TypeOK, StageInv, SlotOps, Reports
<1>8. ASSUME NEW d \in Callers, LinkFails(d) PROVE FALSE
  BY <1>8 DEF LinkFails, Finish, Stay, Core, TypeOK, StageInv, SlotOps, Reports
<1>9. ASSUME NEW d \in Callers, WriteAndForget(d) PROVE FALSE
  BY <1>9 DEF WriteAndForget, Finish, Stay, Core, TypeOK, StageInv, SlotOps, Reports
<1>10. ASSUME NEW d \in Callers, WriteAndWait(d) PROVE FALSE
  BY <1>10 DEF WriteAndWait, Finish, Stay, Core, TypeOK, StageInv, SlotOps, Reports
<1>11. ASSUME NEW d \in Callers, WriteFails(d) PROVE FALSE
  BY <1>11 DEF WriteFails, Finish, Stay, Core, TypeOK, StageInv, SlotOps, Reports
<1>12. ASSUME NEW d \in Callers, StopMasked(d) PROVE FALSE
  BY <1>12 DEF StopMasked, Finish, Stay, Core, TypeOK, StageInv, SlotOps, Reports
<1>13. ASSUME NEW d \in Callers, WriteChunk1(d) PROVE FALSE
  BY <1>13 DEF WriteChunk1, Finish, Stay, Core, TypeOK, StageInv, SlotOps, Reports
<1>14. ASSUME NEW d \in Callers, WriteChunk2(d) PROVE FALSE
  BY <1>14 DEF WriteChunk2, Finish, Stay, Core, TypeOK, StageInv, SlotOps, Reports
<1>15. ASSUME NEW d \in Callers, Settled(d) PROVE Honest(c)
  <2>1. d = c
    BY <1>15 DEF Settled, Finish, Stay, Core, TypeOK, Reports
  <2>2. /\ pc[c] = "settle" /\ UNCHANGED wire
        /\ call[c].start => Commanded(call[c]) = {}
    BY <1>15, <2>1 DEF Settled, Stay, history, Core, TypeOK, Reports
  <2>3. QED
    BY <2>2 DEF Masked, ProfileInv, Progress, Honest
<1>16. ASSUME NEW d \in Callers, StartMasked(d) PROVE FALSE
  BY <1>16 DEF StartMasked, Finish, Stay, Core, TypeOK, StageInv, SlotOps, Reports
<1>17. ASSUME NEW d \in Callers, Receive(d) PROVE Honest(c)
  <2>1. Conclude(d, "ok", Head(queue)) /\ UNCHANGED <<call, wire>>
    BY <1>17 DEF Receive
  <2>2. d = c
    BY <2>1 DEF Conclude, ConcludeReply, ConcludeStop, ConcludeStart,
       ConcludeProfile, Stay, Finish, Core, TypeOK, Reports
  <2>3. QED
    BY <2>1, <2>2, ConcludeHonest
<1>18. ASSUME NEW d \in Callers, Discard(d) PROVE FALSE
  BY <1>18 DEF Discard, tasks, Reports
<1>19. ASSUME NEW d \in Callers, StreamEnds(d) PROVE Honest(c)
  <2>1. Conclude(d, "not_connected", NoReply) /\ UNCHANGED <<call, wire>>
    BY <1>19 DEF StreamEnds
  <2>2. d = c
    BY <2>1 DEF Conclude, ConcludeReply, ConcludeStop, ConcludeStart,
       ConcludeProfile, Stay, Finish, Core, TypeOK, Reports
  <2>3. QED
    BY <2>1, <2>2, ConcludeHonest
<1>20. ASSUME NEW d \in Callers, Deadline(d) PROVE Honest(c)
  <2>1. Conclude(d, "timeout", NoReply) /\ UNCHANGED <<call, wire>>
    BY <1>20 DEF Deadline
  <2>2. d = c
    BY <2>1 DEF Conclude, ConcludeReply, ConcludeStop, ConcludeStart,
       ConcludeProfile, Stay, Finish, Core, TypeOK, Reports
  <2>3. QED
    BY <2>1, <2>2, ConcludeHonest
<1>21. ASSUME Deliver PROVE FALSE
  BY <1>21 DEF Deliver, tasks, Reports
<1>22. ASSUME LoseLink PROVE FALSE
  BY <1>22 DEF LoseLink, tasks, Reports
<1>23. ASSUME EndStream PROVE FALSE
  BY <1>23 DEF EndStream, tasks, Reports
<1>24. ASSUME UNCHANGED vars PROVE FALSE
  BY <1>24 DEF vars, Reports
<1>25. QED
  BY <1>1, <1>2, <1>3, <1>4, <1>5, <1>6, <1>7, <1>8, <1>9, <1>10, <1>11, <1>12, <1>13,
     <1>14, <1>15, <1>16, <1>17, <1>18, <1>19, <1>20, <1>21, <1>22, <1>23, <1>24 DEF Next,
     Step

\* send_profile reports ok only for a whole sequence, sent over one link with
\* nothing between, its slots stopped before and started exactly if asked.
THEOREM ProfileReportedHonestly == Spec => ProfileReportHonest
<1>1. Core /\ ProfileInv /\ [Next]_vars =>
         \A c \in Callers : Reports(c) => Honest(c)
  BY HonestStep
<1>2. Core /\ ProfileInv /\ [Next]_vars =>
         [\A c \in Callers :
            call[c].op = "send_profile" /\ pc[c] # "done"
               /\ pc'[c] = "done" /\ outcome'[c] = "ok" =>
               /\ wire'.part = "whole" /\ wire'.by = c
               /\ IF call[c].start THEN Masked(c) \cap wire'.stopped = {}
                                   ELSE Masked(c) \subseteq wire'.stopped]_vars
  BY <1>1 DEF Reports, Honest
<1>3. QED
  BY <1>2, CoreInvariant, ProfileInvariant, PTL DEF Spec, ProfileReportHonest

-----------------------------------------------------------------------------
(* Notifications. *)

\* A written frame adds at most one answer, to itself, at the end.
LEMMA TransmitAnswer ==
    ASSUME NEW c \in Callers, NEW f \in FrameKinds, NEW s, Transmit(c, f, s)
    PROVE  \/ air' = air
           \/ \E ok \in BOOLEAN :
                 /\ air' = Append(air, [kind |-> Answer(f), ok |-> ok, by |-> c,
                                        slot |-> s, link |-> link])
                 /\ wire'.heard /\ wire'.by = c
<1>1. PICK heard \in BOOLEAN, answers \in BOOLEAN, ok \in BOOLEAN :
          /\ answers => heard
          /\ air' = IF answers
                    THEN Append(air, [kind |-> Answer(f), ok |-> ok, by |-> c,
                                      slot |-> s, link |-> link])
                    ELSE air
          /\ wire' = [stopped |-> Stopped(f, s), part |-> Part(c, f), by |-> c,
                      wrote |-> wire.wrote \/ f \in WriteClass, heard |-> heard]
  BY DEF Transmit
<1>2. QED
  BY <1>1

\* The answer to a written frame belongs to the current link.
LEMMA TransmitFresh ==
    ASSUME TypeOK, NoStaleNotification, NEW c \in Callers, NEW f \in FrameKinds,
           NEW s, Transmit(c, f, s), UNCHANGED <<queue, link>>
    PROVE  NoStaleNotification'
<1>1. CASE air' = air
  BY <1>1 DEF NoStaleNotification
<1>2. ASSUME NEW ok \in BOOLEAN,
             air' = Append(air, [kind |-> Answer(f), ok |-> ok, by |-> c,
                                 slot |-> s, link |-> link])
      PROVE  NoStaleNotification'
  <2>1. \A i \in DOMAIN air' : air'[i].link = link
    BY <1>2 DEF NoStaleNotification, TypeOK
  <2>2. QED
    BY <2>1 DEF NoStaleNotification
<1>3. QED
  BY <1>1, <1>2, TransmitAnswer

\* NoStaleNotification is inductive relative to Core: a link is made only
\* with nothing queued or coming (client.rs:200-210).
LEMMA FreshStep == Core /\ NoStaleNotification /\ [Next]_vars => NoStaleNotification'
<1> SUFFICES ASSUME Core, NoStaleNotification, [Next]_vars PROVE NoStaleNotification'
  OBVIOUS
<1>1. ASSUME NEW c \in Callers, NEW k \in Calls, Enter(c, k) PROVE NoStaleNotification'
  BY <1>1 DEF Enter, transport, history, DropPending, NoStaleNotification
<1>2. ASSUME NEW c \in Callers, NEW k \in Calls, Refuse(c, k) PROVE NoStaleNotification'
  BY <1>2 DEF Refuse, transport, history, DropPending, NoStaleNotification
<1>3. ASSUME NEW c \in Callers, Acquire(c) PROVE NoStaleNotification'
  BY <1>3 DEF Acquire, transport, history, DropPending, NoStaleNotification
<1>4. ASSUME NEW c \in Callers, Return(c) PROVE NoStaleNotification'
  BY <1>4 DEF Return, transport, history, DropPending, NoStaleNotification
<1>5. ASSUME NEW c \in Callers, NextPoll(c) PROVE NoStaleNotification'
  BY <1>5 DEF NextPoll, transport, history, DropPending, NoStaleNotification
<1>6. ASSUME NEW c \in Callers, Unlink(c) PROVE NoStaleNotification'
  BY <1>6 DEF Unlink, transport, history, DropPending, NoStaleNotification
<1>7. ASSUME NEW c \in Callers, Link(c) PROVE NoStaleNotification'
  <2>1. air = <<>>
    BY <1>7 DEF Link, Core, StageInv, LinkInv
  <2>2. QED
    BY <1>7, <2>1 DEF Link, DropPending, NoStaleNotification
<1>8. ASSUME NEW c \in Callers, LinkFails(c) PROVE NoStaleNotification'
  BY <1>8 DEF LinkFails, transport, history, DropPending, NoStaleNotification
<1>9. ASSUME NEW c \in Callers, WriteAndForget(c) PROVE NoStaleNotification'
  <2>1. RequestFrame(c) \in FrameKinds /\ Transmit(c, RequestFrame(c), RequestSlot(c))
    BY <1>9, FrameAndSlot DEF WriteAndForget, FrameKinds
  <2>2. UNCHANGED <<queue, link>>
    BY <1>9 DEF WriteAndForget
  <2>3. QED
    BY <2>1, <2>2, TransmitFresh DEF Core
<1>10. ASSUME NEW c \in Callers, WriteAndWait(c) PROVE NoStaleNotification'
  <2>1. RequestFrame(c) \in FrameKinds /\ Transmit(c, RequestFrame(c), RequestSlot(c))
    BY <1>10, FrameAndSlot DEF WriteAndWait, FrameKinds
  <2>2. UNCHANGED <<queue, link>>
    BY <1>10 DEF WriteAndWait
  <2>3. QED
    BY <2>1, <2>2, TransmitFresh DEF Core
<1>11. ASSUME NEW c \in Callers, WriteFails(c) PROVE NoStaleNotification'
  BY <1>11 DEF WriteFails, transport, history, DropPending, NoStaleNotification
<1>12. ASSUME NEW c \in Callers, StopMasked(c) PROVE NoStaleNotification'
  <2>1. "Stop" \in FrameKinds /\ Transmit(c, "Stop", NextSlot(c))
    BY <1>12, FrameAndSlot DEF StopMasked, FrameKinds
  <2>2. UNCHANGED <<queue, link>>
    BY <1>12 DEF StopMasked
  <2>3. QED
    BY <2>1, <2>2, TransmitFresh DEF Core
<1>13. ASSUME NEW c \in Callers, WriteChunk1(c) PROVE NoStaleNotification'
  <2>1. "Chunk1" \in FrameKinds /\ Transmit(c, "Chunk1", 0)
    BY <1>13, FrameAndSlot DEF WriteChunk1, FrameKinds
  <2>2. UNCHANGED <<queue, link>>
    BY <1>13 DEF WriteChunk1
  <2>3. QED
    BY <2>1, <2>2, TransmitFresh DEF Core
<1>14. ASSUME NEW c \in Callers, WriteChunk2(c) PROVE NoStaleNotification'
  <2>1. "Chunk2" \in FrameKinds /\ Transmit(c, "Chunk2", 0)
    BY <1>14, FrameAndSlot DEF WriteChunk2, FrameKinds
  <2>2. UNCHANGED <<queue, link>>
    BY <1>14 DEF WriteChunk2
  <2>3. QED
    BY <2>1, <2>2, TransmitFresh DEF Core
<1>15. ASSUME NEW c \in Callers, Settled(c) PROVE NoStaleNotification'
  BY <1>15 DEF Settled, transport, history, DropPending, NoStaleNotification
<1>16. ASSUME NEW c \in Callers, StartMasked(c) PROVE NoStaleNotification'
  <2>1. "Start" \in FrameKinds /\ Transmit(c, "Start", NextSlot(c))
    BY <1>16, FrameAndSlot DEF StartMasked, FrameKinds
  <2>2. UNCHANGED <<queue, link>>
    BY <1>16 DEF StartMasked
  <2>3. QED
    BY <2>1, <2>2, TransmitFresh DEF Core
<1>17. ASSUME NEW c \in Callers, Receive(c) PROVE NoStaleNotification'
  <2>1. queue # <<>> /\ queue' = Tail(queue) /\ UNCHANGED <<air, link>>
    BY <1>17 DEF Receive, history
  <2>2. QED
    BY <2>1 DEF NoStaleNotification, Core, TypeOK
<1>18. ASSUME NEW c \in Callers, Discard(c) PROVE NoStaleNotification'
  <2>1. queue # <<>> /\ queue' = Tail(queue) /\ UNCHANGED <<air, link>>
    BY <1>18 DEF Discard, history
  <2>2. QED
    BY <2>1 DEF NoStaleNotification, Core, TypeOK
<1>19. ASSUME NEW c \in Callers, StreamEnds(c) PROVE NoStaleNotification'
  BY <1>19 DEF StreamEnds, transport, history, DropPending, NoStaleNotification
<1>20. ASSUME NEW c \in Callers, Deadline(c) PROVE NoStaleNotification'
  BY <1>20 DEF Deadline, transport, history, DropPending, NoStaleNotification
<1>21. ASSUME Deliver PROVE NoStaleNotification'
  <2>1. /\ air # <<>> /\ air' = Tail(air) /\ UNCHANGED link
        /\ \/ queue' = queue \/ queue' = Append(queue, Head(air))
           \/ queue # <<>> /\ queue' = Append(Tail(queue), Head(air))
    BY <1>21, BoundsAssumption DEF Deliver, history, Core, TypeOK
  <2>2. Head(air).link = link /\ \A i \in DOMAIN air' : air'[i].link = link
    BY <2>1 DEF NoStaleNotification, Core, TypeOK
  <2>3. \A i \in DOMAIN queue' : queue'[i].link = link
    <3>1. CASE queue' = queue
      BY <3>1 DEF NoStaleNotification
    <3>2. CASE queue' = Append(queue, Head(air))
      BY <2>2, <3>2 DEF NoStaleNotification, Core, TypeOK
    <3>3. CASE queue # <<>> /\ queue' = Append(Tail(queue), Head(air))
      <4>1. Tail(queue) \in Seq(Notification) /\ \A i \in DOMAIN Tail(queue) : Tail(queue)[i].link = link
        BY <3>3 DEF NoStaleNotification, Core, TypeOK
      <4>2. QED
        BY <2>2, <3>3, <4>1
    <3>4. QED
      BY <2>1, <3>1, <3>2, <3>3
  <2>4. QED
    BY <2>1, <2>2, <2>3 DEF NoStaleNotification
<1>22. ASSUME LoseLink PROVE NoStaleNotification'
  BY <1>22 DEF LoseLink, transport, history, DropPending, NoStaleNotification
<1>23. ASSUME EndStream PROVE NoStaleNotification'
  BY <1>23 DEF EndStream, transport, history, DropPending, NoStaleNotification
<1>24. ASSUME UNCHANGED vars PROVE NoStaleNotification'
  BY <1>24 DEF vars, NoStaleNotification
<1>25. QED
  BY <1>1, <1>2, <1>3, <1>4, <1>5, <1>6, <1>7, <1>8, <1>9, <1>10, <1>11, <1>12, <1>13,
     <1>14, <1>15, <1>16, <1>17, <1>18, <1>19, <1>20, <1>21, <1>22, <1>23, <1>24 DEF Next,
     Step

\* No notification outlives the link it was sent over (client.rs:187-190).
THEOREM NotificationsFresh == Spec => []NoStaleNotification
<1>1. Init => NoStaleNotification
  BY DEF Init, NoStaleNotification
<1>2. Core /\ NoStaleNotification /\ [Next]_vars => NoStaleNotification'
  BY FreshStep
<1>3. QED
  BY <1>1, <1>2, CoreInvariant, PTL DEF Spec

=============================================================================
