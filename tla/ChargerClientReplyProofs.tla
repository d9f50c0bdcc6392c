---------------------- MODULE ChargerClientReplyProofs ----------------------
(***************************************************************************)
(* Theorems about ChargerClient that tell whose reply a waiting call       *)
(* takes, for every set of tasks, calls and slots.                         *)
(***************************************************************************)
EXTENDS ChargerClientProofs, SequenceTheorems

-----------------------------------------------------------------------------
(* Which reply a waiting call takes.                                       *)

\* While no reply is orphaned, only a call at a wait has one coming.
LEMMA NothingPending ==
    ASSUME Core, RepliesAttributed, ~orphans, holder \in Callers => pc[holder] \notin Waits
    PROVE  queue = <<>> /\ air = <<>>
<1>1. ASSUME NEW n \in Notification, AnswersLastFrame(n) PROVE FALSE
  BY <1>1, CallersAssumption DEF AnswersLastFrame, Notification
<1>2. queue \in Seq(Notification) /\ air \in Seq(Notification)
  BY DEF Core, TypeOK
<1>3. ASSUME queue # <<>> PROVE FALSE
  <2>1. queue[1] \in Notification
    BY <1>2, <1>3
  <2>2. QED
    BY <1>1, <1>3, <2>1 DEF RepliesAttributed
<1>4. ASSUME air # <<>> PROVE FALSE
  <2>1. air[1] \in Notification
    BY <1>2, <1>4
  <2>2. QED
    BY <1>1, <1>4, <2>1 DEF RepliesAttributed
<1>5. QED
  BY <1>3, <1>4

\* With nothing queued and nothing coming, no reply can go astray.
LEMMA PendingGone ==
    ASSUME queue' = <<>>, air' = <<>>
    PROVE  RepliesAttributed'
BY DEF RepliesAttributed

\* A step that leaves the replies, the link and the call they are for alone.
LEMMA PendingKept ==
    ASSUME Core, RepliesAttributed,
           UNCHANGED <<queue, air, wire>>, ~orphans' => ~orphans,
           \A d \in Callers : holder = d /\ pc[d] \in Waits =>
              /\ holder' = holder /\ pc'[d] = pc[d]
              /\ call'[d] = call[d] /\ todo'[d] = todo[d]
    PROVE  RepliesAttributed'
<1>1. ASSUME NEW n \in Notification, AnswersLastFrame(n) PROVE AnswersLastFrame(n)'
  <2>1. n.by \in Callers
    BY DEF Notification
  <2>2. /\ pc[n.by] \in Waits /\ holder = n.by
        /\ holder' = holder /\ pc'[n.by] = pc[n.by]
        /\ call'[n.by] = call[n.by] /\ todo'[n.by] = todo[n.by]
    BY <1>1, <2>1 DEF AnswersLastFrame
  <2>3. Matches(n.by, n)' /\ NextSlot(n.by)' = NextSlot(n.by)
    BY <1>1, <2>2 DEF AnswersLastFrame, Matches, Expected, NextSlot
  <2>4. QED
    BY <1>1, <2>2, <2>3 DEF AnswersLastFrame
<1>2. queue # <<>> => queue[1] \in Notification
  BY DEF Core, TypeOK
<1>3. air # <<>> => air[1] \in Notification
  BY DEF Core, TypeOK
<1>4. ASSUME queue # <<>>, AnswersLastFrame(queue[1]) PROVE AnswersLastFrame(queue[1])'
  BY <1>1, <1>2, <1>4
<1>5. ASSUME air # <<>>, AnswersLastFrame(air[1]) PROVE AnswersLastFrame(air[1])'
  BY <1>1, <1>3, <1>5
<1>6. QED
  BY <1>4, <1>5 DEF RepliesAttributed

\* A frame is written with nothing pending and its task goes on to wait for
\* the answer.
LEMMA AnswerAwaited ==
    ASSUME Core, RepliesAttributed, NEW c \in Callers, NEW f \in FrameKinds, NEW s \in Nat,
           Transmit(c, f, s), holder = c, pc[c] \notin Waits,
           UNCHANGED <<queue, holder, orphans>>,
           pc'[c] \in Waits, Answer(f) \in Expected(c)',
           s = IF todo'[c] = {} THEN 0 ELSE NextSlot(c)'
    PROVE  RepliesAttributed'
<1>1. CASE orphans
  BY <1>1 DEF RepliesAttributed
<1>2. CASE ~orphans
  <2>1. queue = <<>> /\ air = <<>>
    BY <1>2, NothingPending
  <2>2. CASE air' = air
    BY <2>1, <2>2, PendingGone
  <2>3. ASSUME NEW n, n.kind = Answer(f), n.by = c, n.slot = s,
               air' = Append(air, n), wire'.heard, wire'.by = c
        PROVE  RepliesAttributed'
    <3>1. air' = <<n>> /\ queue' = <<>>
      BY <2>1, <2>3
    <3>2. (n.kind \in Expected(n.by))'
      BY <2>3 DEF Expected
    <3>3. AnswersLastFrame(n)'
      BY <2>3, <3>2 DEF AnswersLastFrame, Matches
    <3>4. air'[1] = n /\ Len(air') = 1 /\ Len(queue') = 0
      BY <3>1
    <3>5. AnswersLastFrame(air[1])'
      BY <3>3, <3>4
    <3>6. QED
      BY <3>1, <3>4, <3>5 DEF RepliesAttributed
  <2>4. CASE \E ok \in BOOLEAN :
               /\ air' = Append(air, [kind |-> Answer(f), ok |-> ok, by |-> c,
                                      slot |-> s, link |-> link])
               /\ wire'.heard /\ wire'.by = c
    BY <2>3, <2>4
  <2>5. QED
    BY <2>2, <2>4, TransmitAnswer
<1>3. QED
  BY <1>1, <1>2

\* A frame whose answer nobody waits for: an answer makes an orphan of it.
LEMMA AnswerForgotten ==
    ASSUME Core, RepliesAttributed, NEW c \in Callers, holder = c, pc[c] \notin Waits,
           Unawaited, UNCHANGED queue
    PROVE  RepliesAttributed'
<1>1. CASE orphans'
  BY <1>1 DEF RepliesAttributed
<1>2. CASE ~orphans'
  <2>1. ~orphans /\ air' = air
    BY <1>2 DEF Unawaited
  <2>2. QED
    BY <2>1, NothingPending, PendingGone
<1>3. QED
  BY <1>1, <1>2

\* The one reply is taken, or thrown away.
LEMMA ReplyTaken ==
    ASSUME Core, RepliesAttributed, queue # <<>>, queue' = Tail(queue),
           UNCHANGED <<air, orphans>>
    PROVE  RepliesAttributed'
<1>1. CASE orphans
  BY <1>1 DEF RepliesAttributed
<1>2. CASE ~orphans
  <2>1. Len(queue) + Len(air) <= 1 /\ queue \in Seq(Notification) /\ air \in Seq(Notification)
    BY <1>2 DEF RepliesAttributed, Core, TypeOK
  <2>2. queue' = <<>> /\ air' = <<>>
    BY <2>1
  <2>3. QED
    BY <2>2, PendingGone
<1>3. QED
  BY <1>1, <1>2

\* RepliesAttributed is inductive relative to Core: what Core says of the
\* lock tells which task the one outstanding reply can be for.
LEMMA RepliesStep == Core /\ RepliesAttributed /\ [Next]_vars => RepliesAttributed'
<1> SUFFICES ASSUME Core, RepliesAttributed, [Next]_vars PROVE RepliesAttributed'
  OBVIOUS
<1> USE CallersAssumption
<1>1. ASSUME NEW c \in Callers, NEW k \in Calls, Enter(c, k) PROVE RepliesAttributed'
  <2>1. ASSUME NEW d \in Callers, holder = d, pc[d] \in Waits
        PROVE  /\ holder' = holder /\ pc'[d] = pc[d]
               /\ call'[d] = call[d] /\ todo'[d] = todo[d]
    BY <1>1, <2>1 DEF Enter, client, tasks, transport, history, Core, TypeOK,
       RequestsSerialized, Held, Writing, Waits
  <2>2. UNCHANGED <<queue, air, wire, orphans>>
    BY <1>1 DEF Enter, client, tasks, transport, history
  <2>3. QED
    BY <2>1, <2>2, PendingKept
<1>2. ASSUME NEW c \in Callers, NEW k \in Calls, Refuse(c, k) PROVE RepliesAttributed'
  <2>1. ASSUME NEW d \in Callers, holder = d, pc[d] \in Waits
        PROVE  /\ holder' = holder /\ pc'[d] = pc[d]
               /\ call'[d] = call[d] /\ todo'[d] = todo[d]
    BY <1>2, <2>1 DEF Refuse, client, tasks, transport, history, Core, TypeOK,
       RequestsSerialized, Held, Writing, Waits
  <2>2. UNCHANGED <<queue, air, wire, orphans>>
    BY <1>2 DEF Refuse, client, tasks, transport, history
  <2>3. QED
    BY <2>1, <2>2, PendingKept
<1>3. ASSUME NEW c \in Callers, Acquire(c) PROVE RepliesAttributed'
  <2>1. ASSUME NEW d \in Callers, holder = d, pc[d] \in Waits
        PROVE  /\ holder' = holder /\ pc'[d] = pc[d]
               /\ call'[d] = call[d] /\ todo'[d] = todo[d]
    BY <1>3, <2>1 DEF Acquire, client, tasks, transport, history, LockFree, Core, TypeOK,
       RequestsSerialized, Held, Writing, Waits
  <2>2. UNCHANGED <<queue, air, wire, orphans>>
    BY <1>3 DEF Acquire, client, tasks, transport, history, LockFree
  <2>3. QED
    BY <2>1, <2>2, PendingKept
<1>4. ASSUME NEW c \in Callers, Return(c) PROVE RepliesAttributed'
  <2>1. ASSUME NEW d \in Callers, holder = d, pc[d] \in Waits
        PROVE  /\ holder' = holder /\ pc'[d] = pc[d]
               /\ call'[d] = call[d] /\ todo'[d] = todo[d]
    BY <1>4, <2>1 DEF Return, client, tasks, transport, history, Core, TypeOK,
       RequestsSerialized, Held, Writing, Waits
  <2>2. UNCHANGED <<queue, air, wire, orphans>>
    BY <1>4 DEF Return, client, tasks, transport, history
  <2>3. QED
    BY <2>1, <2>2, PendingKept
<1>5. ASSUME NEW c \in Callers, NextPoll(c) PROVE RepliesAttributed'
  <2>1. ASSUME NEW d \in Callers, holder = d, pc[d] \in Waits
        PROVE  /\ holder' = holder /\ pc'[d] = pc[d]
               /\ call'[d] = call[d] /\ todo'[d] = todo[d]
    BY <1>5, <2>1 DEF NextPoll, client, tasks, transport, history, Core, TypeOK,
       RequestsSerialized, Held, Writing, Waits
  <2>2. UNCHANGED <<queue, air, wire, orphans>>
    BY <1>5 DEF NextPoll, client, tasks, transport, history
  <2>3. QED
    BY <2>1, <2>2, PendingKept
<1>6. ASSUME NEW c \in Callers, Unlink(c) PROVE RepliesAttributed'
  BY <1>6, PendingGone DEF Unlink, DropPending
<1>7. ASSUME NEW c \in Callers, Link(c) PROVE RepliesAttributed'
  <2>1. air = <<>>
    BY <1>7 DEF Link, Core, StageInv, LinkInv
  <2>2. QED
    BY <1>7, <2>1, PendingGone DEF Link, DropPending
<1>8. ASSUME NEW c \in Callers, LinkFails(c) PROVE RepliesAttributed'
  <2>1. ASSUME NEW d \in Callers, holder = d, pc[d] \in Waits
        PROVE  /\ holder' = holder /\ pc'[d] = pc[d]
               /\ call'[d] = call[d] /\ todo'[d] = todo[d]
    BY <1>8, <2>1 DEF LinkFails, client, tasks, transport, history, Finish, Core, TypeOK,
       RequestsSerialized, Held, Writing, Waits
  <2>2. UNCHANGED <<queue, air, wire, orphans>>
    BY <1>8 DEF LinkFails, client, tasks, transport, history, Finish
  <2>3. QED
    BY <2>1, <2>2, PendingKept
<1>9. ASSUME NEW c \in Callers, WriteAndForget(c) PROVE RepliesAttributed'
  <2>1. holder = c /\ pc[c] \notin Waits
    BY <1>9 DEF WriteAndForget, Core, RequestsSerialized, Held, Writing, Waits
  <2>2. QED
    BY <1>9, <2>1, AnswerForgotten DEF WriteAndForget
<1>10. ASSUME NEW c \in Callers, WriteAndWait(c) PROVE RepliesAttributed'
  <2>1. /\ pc[c] = "write" /\ holder = c /\ pc[c] \notin Waits
        /\ RequestFrame(c) \in FrameKinds /\ RequestSlot(c) \in Nat
    BY <1>10, FrameAndSlot DEF WriteAndWait, Core, RequestsSerialized, Held, Writing, Waits
  <2>2. /\ pc'[c] = "reply" /\ pc'[c] \in Waits /\ call'[c] = call[c] /\ todo' = todo
        /\ UNCHANGED <<queue, holder, orphans>>
    BY <1>10 DEF WriteAndWait, Stay, Waits, Core, TypeOK
  <2>3. Answer(RequestFrame(c)) \in Expected(c)'
    BY <1>10, <2>2 DEF WriteAndWait, RequestFrame, Answer, Expected, NotificationKinds
  <2>4. RequestSlot(c) = IF todo'[c] = {} THEN 0 ELSE NextSlot(c)'
    <3>1. NextSlot(c)' = NextSlot(c)
      BY <2>2 DEF NextSlot
    <3>2. call[c].op # "set_basic" => todo[c] # {}
      BY <1>10, <2>1 DEF WriteAndWait, Core, StageInv, SlotOps
    <3>3. call[c].op = "set_basic" => todo[c] = {}
      BY <2>1 DEF Core, StageInv
    <3>4. QED
      BY <2>2, <3>1, <3>2, <3>3 DEF RequestSlot
  <2>5. Transmit(c, RequestFrame(c), RequestSlot(c))
    BY <1>10 DEF WriteAndWait
  <2>6. QED
    BY <2>1, <2>2, <2>3, <2>4, <2>5, AnswerAwaited
<1>11. ASSUME NEW c \in Callers, WriteFails(c) PROVE RepliesAttributed'
  <2>1. ASSUME NEW d \in Callers, holder = d, pc[d] \in Waits
        PROVE  /\ holder' = holder /\ pc'[d] = pc[d]
               /\ call'[d] = call[d] /\ todo'[d] = todo[d]
    BY <1>11, <2>1 DEF WriteFails, client, tasks, transport, history, Finish, Core, TypeOK,
       RequestsSerialized, Held, Writing, Waits
  <2>2. UNCHANGED <<queue, air, wire, orphans>>
    BY <1>11 DEF WriteFails, client, tasks, transport, history, Finish
  <2>3. QED
    BY <2>1, <2>2, PendingKept
<1>12. ASSUME NEW c \in Callers, StopMasked(c) PROVE RepliesAttributed'
  <2>1. holder = c /\ pc[c] \notin Waits /\ todo[c] # {} /\ NextSlot(c) \in Nat
    BY <1>12, FrameAndSlot DEF StopMasked, Core, StageInv, RequestsSerialized, Held,
       Writing, Waits
  <2>2. /\ pc'[c] = "stop_ack" /\ pc'[c] \in Waits /\ todo' = todo
        /\ UNCHANGED <<queue, holder, orphans>>
    BY <1>12 DEF StopMasked, Stay, Waits, Core, TypeOK
  <2>3. Answer("Stop") \in Expected(c)'
    BY <2>2 DEF Answer, Expected
  <2>4. NextSlot(c) = IF todo'[c] = {} THEN 0 ELSE NextSlot(c)'
    BY <2>1, <2>2 DEF NextSlot
  <2>5. "Stop" \in FrameKinds /\ Transmit(c, "Stop", NextSlot(c))
    BY <1>12 DEF StopMasked, FrameKinds
  <2>6. QED
    BY <2>1, <2>2, <2>3, <2>4, <2>5, AnswerAwaited
<1>13. ASSUME NEW c \in Callers, WriteChunk1(c) PROVE RepliesAttributed'
  <2>1. holder = c /\ pc[c] \notin Waits
    BY <1>13 DEF WriteChunk1, Core, RequestsSerialized, Held, Writing, Waits
  <2>2. UNCHANGED <<queue, air, orphans>>
    BY <1>13 DEF WriteChunk1, Transmit
  <2>3. CASE orphans
    BY <2>2, <2>3 DEF RepliesAttributed
  <2>4. CASE ~orphans
    BY <2>1, <2>2, <2>4, NothingPending, PendingGone
  <2>5. QED
    BY <2>3, <2>4
<1>14. ASSUME NEW c \in Callers, WriteChunk2(c) PROVE RepliesAttributed'
  <2>1. holder = c /\ pc[c] \notin Waits /\ todo[c] = {}
    BY <1>14 DEF WriteChunk2, Core, StageInv, RequestsSerialized, Held, Writing, Waits
  <2>2. CASE Unawaited
    BY <1>14, <2>1, <2>2, AnswerForgotten DEF WriteChunk2
  <2>3. CASE Stay(c, "profile_ack") /\ UNCHANGED orphans
    <3>1. /\ pc'[c] = "profile_ack" /\ pc'[c] \in Waits /\ todo' = todo
          /\ UNCHANGED <<queue, holder, orphans>>
      BY <1>14, <2>3 DEF WriteChunk2, Stay, Waits, Core, TypeOK
    <3>2. Answer("Chunk2") \in Expected(c)'
      BY <3>1 DEF Answer, Expected
    <3>3. "Chunk2" \in FrameKinds /\ Transmit(c, "Chunk2", 0) /\ 0 \in Nat
      BY <1>14 DEF WriteChunk2, FrameKinds
    <3>4. QED
      BY <2>1, <3>1, <3>2, <3>3, AnswerAwaited
  <2>4. QED
    BY <1>14, <2>2, <2>3 DEF WriteChunk2
<1>15. ASSUME NEW c \in Callers, Settled(c) PROVE RepliesAttributed'
  <2>1. ASSUME NEW d \in Callers, holder = d, pc[d] \in Waits
        PROVE  /\ holder' = holder /\ pc'[d] = pc[d]
               /\ call'[d] = call[d] /\ todo'[d] = todo[d]
    BY <1>15, <2>1 DEF Settled, client, tasks, transport, history, Finish, Stay, Core,
       TypeOK, RequestsSerialized, Held, Writing, Waits
  <2>2. UNCHANGED <<queue, air, wire, orphans>>
    BY <1>15 DEF Settled, client, tasks, transport, history, Finish, Stay
  <2>3. QED
    BY <2>1, <2>2, PendingKept
<1>16. ASSUME NEW c \in Callers, StartMasked(c) PROVE RepliesAttributed'
  <2>1. holder = c /\ pc[c] \notin Waits /\ todo[c] # {} /\ NextSlot(c) \in Nat
    BY <1>16, FrameAndSlot DEF StartMasked, Core, StageInv, RequestsSerialized, Held,
       Writing, Waits
  <2>2. /\ pc'[c] = "start_ack" /\ pc'[c] \in Waits /\ todo' = todo
        /\ UNCHANGED <<queue, holder, orphans>>
    BY <1>16 DEF StartMasked, Stay, Waits, Core, TypeOK
  <2>3. Answer("Start") \in Expected(c)'
    BY <2>2 DEF Answer, Expected
  <2>4. NextSlot(c) = IF todo'[c] = {} THEN 0 ELSE NextSlot(c)'
    BY <2>1, <2>2 DEF NextSlot
  <2>5. "Start" \in FrameKinds /\ Transmit(c, "Start", NextSlot(c))
    BY <1>16 DEF StartMasked, FrameKinds
  <2>6. QED
    BY <2>1, <2>2, <2>3, <2>4, <2>5, AnswerAwaited
<1>17. ASSUME NEW c \in Callers, Receive(c) PROVE RepliesAttributed'
  BY <1>17, ReplyTaken DEF Receive
<1>18. ASSUME NEW c \in Callers, Discard(c) PROVE RepliesAttributed'
  BY <1>18, ReplyTaken DEF Discard, history
<1>19. ASSUME NEW c \in Callers, StreamEnds(c) PROVE RepliesAttributed'
  <2>1. queue = <<>> /\ air = <<>>
    BY <1>19 DEF StreamEnds, Core, LinkInv
  <2>2. QED
    BY <1>19, <2>1, PendingGone DEF StreamEnds, transport
<1>20. ASSUME NEW c \in Callers, Deadline(c) PROVE RepliesAttributed'
  BY <1>20 DEF Deadline, RepliesAttributed
<1>21. ASSUME Deliver PROVE RepliesAttributed'
  <2>1. CASE orphans
    BY <1>21, <2>1 DEF Deliver, history, RepliesAttributed
  <2>2. ASSUME ~orphans, NEW n \in Notification, n = air[1] PROVE RepliesAttributed'
    <3>1. /\ Len(queue) + Len(air) <= 1 /\ queue \in Seq(Notification)
          /\ air \in Seq(Notification) /\ air # <<>> /\ AnswersLastFrame(n)
      BY <1>21, <2>2 DEF Deliver, RepliesAttributed, Core, TypeOK
    <3>2. queue = <<>> /\ Len(air) = 1
      BY <3>1
    <3>3. air' = <<>> /\ (queue' = <<>> \/ queue' = <<n>>)
      BY <1>21, <2>2, <3>1, <3>2, BoundsAssumption DEF Deliver
    <3>4. AnswersLastFrame(n)'
      BY <1>21, <3>1 DEF Deliver, client, tasks, history, AnswersLastFrame,
         Matches, Expected, NextSlot
    <3>5. CASE queue' = <<n>>
      <4>1. queue'[1] = n /\ Len(queue') = 1 /\ Len(air') = 0
        BY <3>3, <3>5
      <4>2. AnswersLastFrame(queue[1])'
        BY <3>4, <4>1
      <4>3. QED
        BY <3>3, <4>1, <4>2 DEF RepliesAttributed
    <3>6. QED
      BY <3>3, <3>5, PendingGone
  <2>3. air[1] \in Notification
    BY <1>21 DEF Deliver, Core, TypeOK
  <2>4. QED
    BY <2>1, <2>2, <2>3
<1>22. ASSUME LoseLink PROVE RepliesAttributed'
  <2>1. CASE air = <<>>
    BY <1>22, <2>1, PendingKept DEF LoseLink, client, tasks, history
  <2>2. CASE orphans
    BY <1>22, <2>2 DEF LoseLink, history, RepliesAttributed
  <2>3. CASE air # <<>> /\ ~orphans
    <3>1. /\ Len(queue) + Len(air) <= 1 /\ queue \in Seq(Notification)
          /\ air \in Seq(Notification)
      BY <2>3 DEF RepliesAttributed, Core, TypeOK
    <3>2. queue = <<>>
      BY <2>3, <3>1
    <3>3. QED
      BY <1>22, <3>2, PendingGone DEF LoseLink
  <2>4. QED
    BY <2>1, <2>2, <2>3
<1>23. ASSUME EndStream PROVE RepliesAttributed'
  BY <1>23, PendingKept DEF EndStream, client, tasks, history
<1>24. ASSUME UNCHANGED vars PROVE RepliesAttributed'
  BY <1>24, PendingKept DEF vars
<1>25. QED
  BY <1>1, <1>2, <1>3, <1>4, <1>5, <1>6, <1>7, <1>8, <1>9, <1>10, <1>11, <1>12, <1>13,
     <1>14, <1>15, <1>16, <1>17, <1>18, <1>19, <1>20, <1>21, <1>22, <1>23, <1>24 DEF Next,
     Step

\* While every frame of the link is waited for until its reply comes, at most
\* one reply is outstanding, and the call that takes it wrote the frame it
\* answers (client.rs:112-116, 307-350).
THEOREM RepliesInOrder == Spec => []RepliesAttributed
<1>1. Init => RepliesAttributed
  BY DEF Init, RepliesAttributed
<1>2. Core /\ RepliesAttributed /\ [Next]_vars => RepliesAttributed'
  BY RepliesStep
<1>3. QED
  BY <1>1, <1>2, CoreInvariant, PTL DEF Spec

\* Everything the runs check of the client holds of it with any number of
\* tasks, calls and slots.
THEOREM InvHolds == Spec => []Inv
<1>1. Core => TypeOK /\ RequestsSerialized /\ StageInv /\ LinkInv
  BY DEF Core
<1>2. TypeOK /\ RequestsSerialized /\ StageInv /\ LinkInv /\ NoStaleNotification
         /\ ProgressInv /\ ProfileUnbroken /\ MaskedSlotsStopped /\ RepliesAttributed
         => Inv
  BY DEF Inv
<1>3. ProfileInv => ProgressInv
  BY ProfileInvMeans
<1>4. QED
  BY <1>1, <1>2, <1>3, CoreInvariant, ProfileInvariant, ProfileStaysUnbroken,
     StopsPrecedeProfile, NotificationsFresh, RepliesInOrder, PTL

-----------------------------------------------------------------------------
(* Profile acknowledgements.  They carry no slot: that one is the awaited  *)
(* one follows only from there being one at most.                          *)

\* Replies on their way to the client, oldest first.
Coming == queue \o air

\* No profile acknowledgement is in s.
NoAcks(s) == \A i \in DOMAIN s : s[i].kind # "SetProfile"

\* At most one profile acknowledgement is in s, for a task that waits for it.
OneAck(s, at) ==
    \A i \in DOMAIN s : s[i].kind = "SetProfile" =>
       /\ at[s[i].by] = "profile_ack"
       /\ \A j \in DOMAIN s : s[j].kind = "SetProfile" => i = j

\* They are notifications.
LEMMA ComingTyped == ASSUME TypeOK PROVE Coming \in Seq(Notification)
BY DEF TypeOK, Coming

\* Taking the head of the queue takes the oldest reply.
LEMMA ComingTaken ==
    ASSUME TypeOK, queue # <<>>, queue' = Tail(queue), UNCHANGED air
    PROVE  Coming # <<>> /\ Coming' = Tail(Coming) /\ Head(Coming) = Head(queue)
<1>1. queue \in Seq(Notification) /\ air \in Seq(Notification)
  BY DEF TypeOK
<1>2. QED
  BY <1>1 DEF Coming

\* An answer to a written frame is the newest one.
LEMMA ComingWritten ==
    ASSUME TypeOK, NEW n, UNCHANGED queue, air' = Append(air, n)
    PROVE  Coming' = Append(Coming, n)
<1>1. queue \in Seq(Notification) /\ air \in Seq(Notification)
  BY DEF TypeOK
<1>2. QED
  BY <1>1 DEF Coming

\* What passes from the front of one sequence to the back of another before
\* it keeps its place.
LEMMA HeadMoved ==
    ASSUME NEW q \in Seq(Notification), NEW a \in Seq(Notification), a # <<>>
    PROVE  Append(q, Head(a)) \o Tail(a) = q \o a
<1> DEFINE l == Append(q, Head(a)) \o Tail(a)
           r == q \o a
<1>1. l \in Seq(Notification) /\ r \in Seq(Notification)
  OBVIOUS
<1>2. Len(l) = Len(r)
  OBVIOUS
<1>3. ASSUME NEW i \in 1..Len(l) PROVE l[i] = r[i]
  OBVIOUS
<1> HIDE DEF l, r
<1>4. l = r
  BY <1>1, <1>2, <1>3, SeqEqual
<1>5. QED
  BY <1>4 DEF l, r

\* Delivery reorders nothing; a full queue loses the oldest reply
\* (mod.rs:179-191).
LEMMA ComingDelivered ==
    ASSUME Core, Deliver
    PROVE  Coming' = Coming \/ (Coming # <<>> /\ Coming' = Tail(Coming))
<1>1. /\ queue \in Seq(Notification) /\ air \in Seq(Notification) /\ air # <<>>
      /\ ~closed /\ air' = Tail(air)
  BY DEF Deliver, Core, TypeOK, LinkInv
<1>2. CASE Len(queue) >= Capacity
  <2>1. queue # <<>> /\ queue' = Append(Tail(queue), Head(air))
    BY <1>1, <1>2, BoundsAssumption DEF Deliver
  <2>2. QED
    BY <1>1, <2>1 DEF Coming
<1>3. CASE ~(Len(queue) >= Capacity)
  <2>1. queue' = Append(queue, Head(air))
    BY <1>1, <1>3 DEF Deliver
  <2>2. QED
    BY <1>1, <2>1, HeadMoved DEF Coming
<1>4. QED
  BY <1>2, <1>3

\* Of a sequence with one acknowledgement at most, the rest has one at most,
\* and none once that one is taken.
LEMMA OneAckTail ==
    ASSUME NEW s \in Seq(Notification), NEW at, OneAck(s, at), s # <<>>
    PROVE  /\ OneAck(Tail(s), at)
           /\ Head(s).kind = "SetProfile" => NoAcks(Tail(s))
<1>1. \A i \in DOMAIN Tail(s) : i \in Nat /\ i + 1 \in DOMAIN s /\ Tail(s)[i] = s[i + 1]
  OBVIOUS
<1>2. 1 \in DOMAIN s /\ Head(s) = s[1]
  OBVIOUS
<1>3. QED
  BY <1>1, <1>2 DEF OneAck, NoAcks

\* The first acknowledgement is the only one.
LEMMA OneAckWritten ==
    ASSUME NEW s \in Seq(Notification), NEW at, NoAcks(s), NEW n \in Notification,
           n.kind = "SetProfile" => at[n.by] = "profile_ack"
    PROVE  OneAck(Append(s, n), at)
BY DEF OneAck, NoAcks

\* What is lost at the end adds none.
LEMMA OneAckPrefix ==
    ASSUME NEW q \in Seq(Notification), NEW a \in Seq(Notification), NEW at, OneAck(q \o a, at)
    PROVE  OneAck(q, at)
<1>1. \A i \in DOMAIN q : i \in DOMAIN (q \o a) /\ (q \o a)[i] = q[i]
  OBVIOUS
<1>2. QED
  BY <1>1 DEF OneAck

\* Tasks that wait for it still do.
LEMMA OneAckMoved ==
    ASSUME NEW s \in Seq(Notification), NEW at, NEW to, OneAck(s, at),
           \A d \in Callers : at[d] = "profile_ack" => to[d] = "profile_ack"
    PROVE  OneAck(s, to)
<1>1. \A i \in DOMAIN s : s[i].by \in Callers
  <2>1. ASSUME NEW i \in DOMAIN s PROVE s[i].by \in Callers
    <3>1. s[i] \in Notification
      OBVIOUS
    <3>2. QED
      BY <3>1 DEF Notification
  <2>2. QED
    BY <2>1
<1>2. QED
  BY <1>1 DEF OneAck

\* None is at most one.
LEMMA NoAcksIsOne == ASSUME NEW s, NEW at, NoAcks(s) PROVE OneAck(s, at)
BY DEF NoAcks, OneAck

\* No caller writes raw frames, which could be the second chunk of a profile.
NoRawWrites == \A k \in Calls : k.op # "write"

\* While the firmware is not known to leave profiles unacknowledged, the one
\* acknowledgement there may be is for the send_profile that waits for it.
AckInv ==
    /\ \A c \in Callers : pc[c] = "profile_ack" => profileAcks # "no"
    /\ NoRawWrites /\ profileAcks # "no" => OneAck(Coming, pc)

\* With nobody at that wait there is no acknowledgement to come.
LEMMA NobodyWaits ==
    ASSUME Core, AckInv, NoRawWrites, profileAcks # "no",
           \A d \in Callers : pc[d] # "profile_ack"
    PROVE  NoAcks(Coming)
<1>1. OneAck(Coming, pc) /\ Coming \in Seq(Notification)
  BY ComingTyped DEF AckInv, Core
<1>2. ASSUME NEW i \in DOMAIN Coming PROVE Coming[i].by \in Callers
  <2>1. Coming[i] \in Notification
    BY <1>1
  <2>2. QED
    BY <2>1 DEF Notification
<1>3. QED
  BY <1>1, <1>2 DEF OneAck, NoAcks

\* A step that writes no frame and moves nobody to or from that wait.
LEMMA AckKept ==
    ASSUME Core, AckInv, UNCHANGED profileAcks,
           \/ Coming' = Coming
           \/ Coming # <<>> /\ Coming' = Tail(Coming)
           \/ Coming' = queue
           \/ Coming' = <<>>,
           \A d \in Callers : pc'[d] = "profile_ack" <=> pc[d] = "profile_ack"
    PROVE  AckInv'
<1>1. ASSUME NoRawWrites, profileAcks # "no" PROVE OneAck(Coming', pc')
  <2>1. OneAck(Coming, pc) /\ Coming \in Seq(Notification)
    BY <1>1, ComingTyped DEF AckInv, Core
  <2>2. OneAck(Coming', pc) /\ Coming' \in Seq(Notification)
    <3>1. CASE Coming' = Coming
      BY <2>1, <3>1
    <3>2. CASE Coming # <<>> /\ Coming' = Tail(Coming)
      <4>1. Tail(Coming) \in Seq(Notification)
        BY <2>1, <3>2
      <4>2. QED
        BY <2>1, <3>2, <4>1, OneAckTail
    <3>3. CASE Coming' = queue
      <4>1. queue \in Seq(Notification) /\ air \in Seq(Notification)
        BY DEF Core, TypeOK
      <4>2. QED
        BY <2>1, <3>3, <4>1, OneAckPrefix DEF Coming
    <3>4. CASE Coming' = <<>>
      BY <3>4 DEF OneAck
    <3>5. QED
      BY <3>1, <3>2, <3>3, <3>4
  <2>3. QED
    BY <2>2, OneAckMoved
<1>2. \A d \in Callers : pc'[d] = "profile_ack" => profileAcks' # "no"
  BY DEF AckInv
<1>3. QED
  BY <1>1, <1>2 DEF AckInv, NoRawWrites, OneAck

\* The lock's owner writes a frame: of a profile it then waits for the
\* acknowledgement, of any other frame the answer is none.
LEMMA AckWritten ==
    ASSUME Core, AckInv, NEW c \in Callers, holder = c, pc[c] # "profile_ack",
           NEW f \in FrameKinds, NEW s \in Nat, Transmit(c, f, s),
           UNCHANGED <<queue, profileAcks>>,
           NoRawWrites /\ f = "Chunk2" /\ profileAcks # "no" => pc'[c] = "profile_ack",
           pc'[c] = "profile_ack" => profileAcks # "no",
           \A d \in Callers : d # c => pc'[d] = pc[d]
    PROVE  AckInv'
<1>1. \A d \in Callers : pc[d] # "profile_ack"
  BY DEF Core, RequestsSerialized, Held, Waits
<1>2. \A d \in Callers : pc'[d] = "profile_ack" => profileAcks' # "no"
  BY <1>1
<1>3. ASSUME NoRawWrites, profileAcks # "no" PROVE OneAck(Coming', pc')
  <2>1. NoAcks(Coming) /\ Coming \in Seq(Notification)
    BY <1>1, <1>3, NobodyWaits, ComingTyped DEF Core
  <2>2. CASE air' = air
    <3>1. Coming' = Coming
      BY <2>2 DEF Coming
    <3>2. QED
      BY <2>1, <3>1, NoAcksIsOne
  <2>3. ASSUME NEW n \in Notification, n.kind = Answer(f), n.by = c, air' = Append(air, n)
        PROVE  OneAck(Coming', pc')
    <3>1. Coming' = Append(Coming, n)
      BY <2>3, ComingWritten DEF Core
    <3>2. n.kind = "SetProfile" => pc'[n.by] = "profile_ack"
      BY <1>3, <2>3 DEF Answer, FrameKinds
    <3>3. QED
      BY <2>1, <3>1, <3>2, OneAckWritten
  <2>4. ASSUME NEW ok \in BOOLEAN,
               air' = Append(air, [kind |-> Answer(f), ok |-> ok, by |-> c,
                                   slot |-> s, link |-> link])
        PROVE  OneAck(Coming', pc')
    <3>1. Answer(f) \in NotificationKinds
      <4>1. f # "Chunk1"
        <5>1. air' # air
          BY <2>4 DEF Core, TypeOK
        <5>2. QED
          BY <5>1 DEF Transmit
      <4>2. QED
        BY <4>1 DEF Answer, FrameKinds, NotificationKinds
    <3>2. [kind |-> Answer(f), ok |-> ok, by |-> c, slot |-> s, link |-> link]
             \in Notification
      BY <3>1 DEF Core, TypeOK, Notification
    <3>3. QED
      BY <2>3, <2>4, <3>2
  <2>5. QED
    BY <2>2, <2>4, TransmitAnswer
<1>4. QED
  BY <1>2, <1>3 DEF AckInv, NoRawWrites, OneAck

\* A wait ends without the acknowledgement: the client remembers for good
\* that this firmware sends none.
LEMMA AckMissed ==
    ASSUME Core, AckInv, NEW c \in Callers, NEW how \in {"timeout", "not_connected"},
           NEW n, Conclude(c, how, n), UNCHANGED <<queue, air>>
    PROVE  AckInv'
<1>1. CASE pc[c] = "profile_ack"
  <2>1. profileAcks' = "no" /\ pc' = [pc EXCEPT ![c] = "settle"] /\ holder = c
    BY <1>1 DEF Conclude, ConcludeReply, ConcludeStop, ConcludeStart, ConcludeProfile,
       Stay, Core, RequestsSerialized, Held, Waits
  <2>2. \A d \in Callers : pc'[d] # "profile_ack"
    BY <2>1 DEF Core, TypeOK, RequestsSerialized, Held, Waits
  <2>3. QED
    BY <2>1, <2>2 DEF AckInv
<1>2. CASE pc[c] # "profile_ack"
  <2>1. UNCHANGED profileAcks
    BY <1>2 DEF Conclude, ConcludeReply, ConcludeStop, ConcludeStart, ConcludeProfile
  <2>2. \A d \in Callers : pc'[d] = "profile_ack" <=> pc[d] = "profile_ack"
    BY <1>2 DEF Conclude, ConcludeReply, ConcludeStop, ConcludeStart, ConcludeProfile,
       Stay, Finish, Core, TypeOK
  <2>3. Coming' = Coming
    BY DEF Coming
  <2>4. QED
    BY <2>1, <2>2, <2>3, AckKept
<1>3. QED
  BY <1>1, <1>2

\* AckInv is inductive relative to Core.
LEMMA AckStep == Core /\ AckInv /\ [Next]_vars => AckInv'
<1> SUFFICES ASSUME Core, AckInv, [Next]_vars PROVE AckInv'
  OBVIOUS
<1>1. ASSUME NEW c \in Callers, NEW k \in Calls, Enter(c, k) PROVE AckInv'
  <2>1. \A d \in Callers : pc'[d] = "profile_ack" <=> pc[d] = "profile_ack"
    BY <1>1 DEF Enter, client, tasks, transport, history, Finish, Stay, Core, TypeOK,
       Writing
  <2>2. UNCHANGED profileAcks /\ Coming' = Coming
    BY <1>1 DEF Enter, client, tasks, transport, history, Finish, Stay, Coming
  <2>3. QED
    BY <2>1, <2>2, AckKept
<1>2. ASSUME NEW c \in Callers, NEW k \in Calls, Refuse(c, k) PROVE AckInv'
  <2>1. \A d \in Callers : pc'[d] = "profile_ack" <=> pc[d] = "profile_ack"
    BY <1>2 DEF Refuse, client, tasks, transport, history, Finish, Stay, Core, TypeOK,
       Writing
  <2>2. UNCHANGED profileAcks /\ Coming' = Coming
    BY <1>2 DEF Refuse, client, tasks, transport, history, Finish, Stay, Coming
  <2>3. QED
    BY <2>1, <2>2, AckKept
<1>3. ASSUME NEW c \in Callers, Acquire(c) PROVE AckInv'
  <2>1. \A d \in Callers : pc'[d] = "profile_ack" <=> pc[d] = "profile_ack"
    BY <1>3 DEF Acquire, client, tasks, transport, history, Finish, Stay, FirstStep, Core,
       TypeOK, Writing
  <2>2. UNCHANGED profileAcks /\ Coming' = Coming
    BY <1>3 DEF Acquire, client, tasks, transport, history, Finish, Stay, Coming
  <2>3. QED
    BY <2>1, <2>2, AckKept
<1>4. ASSUME NEW c \in Callers, Return(c) PROVE AckInv'
  <2>1. \A d \in Callers : pc'[d] = "profile_ack" <=> pc[d] = "profile_ack"
    BY <1>4 DEF Return, client, tasks, transport, history, Finish, Stay, Core, TypeOK,
       Writing
  <2>2. UNCHANGED profileAcks /\ Coming' = Coming
    BY <1>4 DEF Return, client, tasks, transport, history, Finish, Stay, Coming
  <2>3. QED
    BY <2>1, <2>2, AckKept
<1>5. ASSUME NEW c \in Callers, NextPoll(c) PROVE AckInv'
  <2>1. \A d \in Callers : pc'[d] = "profile_ack" <=> pc[d] = "profile_ack"
    BY <1>5 DEF NextPoll, client, tasks, transport, history, Finish, Stay, Core, TypeOK,
       Writing
  <2>2. UNCHANGED profileAcks /\ Coming' = Coming
    BY <1>5 DEF NextPoll, client, tasks, transport, history, Finish, Stay, Coming
  <2>3. QED
    BY <2>1, <2>2, AckKept
<1>6. ASSUME NEW c \in Callers, Unlink(c) PROVE AckInv'
  <2>1. air' = <<>>
    BY <1>6 DEF Unlink
  <2>2. \A d \in Callers : pc'[d] = "profile_ack" <=> pc[d] = "profile_ack"
    BY <1>6 DEF Unlink, Stay, Finish, Core, TypeOK
  <2>3. UNCHANGED profileAcks /\ Coming' = <<>>
    BY <1>6, <2>1 DEF Unlink, DropPending, Coming
  <2>4. QED
    BY <2>2, <2>3, AckKept
<1>7. ASSUME NEW c \in Callers, Link(c) PROVE AckInv'
  <2>1. air' = <<>>
    BY <1>7 DEF Link, Core, StageInv, LinkInv
  <2>2. \A d \in Callers : pc'[d] = "profile_ack" <=> pc[d] = "profile_ack"
    BY <1>7 DEF Link, Stay, Finish, Core, TypeOK
  <2>3. UNCHANGED profileAcks /\ Coming' = <<>>
    BY <1>7, <2>1 DEF Link, DropPending, Coming
  <2>4. QED
    BY <2>2, <2>3, AckKept
<1>8. ASSUME NEW c \in Callers, LinkFails(c) PROVE AckInv'
  <2>1. \A d \in Callers : pc'[d] = "profile_ack" <=> pc[d] = "profile_ack"
    BY <1>8 DEF LinkFails, client, tasks, transport, history, Finish, Stay, Core, TypeOK,
       Writing
  <2>2. UNCHANGED profileAcks /\ Coming' = Coming
    BY <1>8 DEF LinkFails, client, tasks, transport, history, Finish, Stay, Coming
  <2>3. QED
    BY <2>1, <2>2, AckKept
<1>9. ASSUME NEW c \in Callers, WriteAndForget(c) PROVE AckInv'
  <2>1. holder = c /\ pc[c] # "profile_ack" /\ UNCHANGED <<queue, profileAcks>>
    BY <1>9 DEF WriteAndForget, Core, RequestsSerialized, Held, Writing
  <2>2. pc'[c] # "profile_ack" /\ \A d \in Callers : d # c => pc'[d] = pc[d]
    BY <1>9 DEF WriteAndForget, Stay, Finish, Core, TypeOK
  <2>3. RequestFrame(c) \in FrameKinds /\ RequestSlot(c) \in Nat
    BY <1>9, FrameAndSlot DEF WriteAndForget, FrameKinds
  <2>4. NoRawWrites => RequestFrame(c) # "Chunk2"
    <3>1. call[c] \in Calls
      BY <1>9 DEF WriteAndForget, Core, StageInv
    <3>2. QED
      BY <1>9, <3>1 DEF WriteAndForget, NoRawWrites, RequestFrame
  <2>5. Transmit(c, RequestFrame(c), RequestSlot(c))
    BY <1>9 DEF WriteAndForget
  <2>6. QED
    BY <2>1, <2>2, <2>3, <2>4, <2>5, AckWritten
<1>10. ASSUME NEW c \in Callers, WriteAndWait(c) PROVE AckInv'
  <2>1. holder = c /\ pc[c] # "profile_ack" /\ UNCHANGED <<queue, profileAcks>>
    BY <1>10 DEF WriteAndWait, Core, RequestsSerialized, Held, Writing
  <2>2. pc'[c] # "profile_ack" /\ \A d \in Callers : d # c => pc'[d] = pc[d]
    BY <1>10 DEF WriteAndWait, Stay, Finish, Core, TypeOK
  <2>3. RequestFrame(c) \in FrameKinds /\ RequestSlot(c) \in Nat
    BY <1>10, FrameAndSlot DEF WriteAndWait, FrameKinds
  <2>4. NoRawWrites => RequestFrame(c) # "Chunk2"
    <3>1. call[c] \in Calls
      BY <1>10 DEF WriteAndWait, Core, StageInv
    <3>2. QED
      BY <1>10, <3>1 DEF WriteAndWait, NoRawWrites, RequestFrame
  <2>5. Transmit(c, RequestFrame(c), RequestSlot(c))
    BY <1>10 DEF WriteAndWait
  <2>6. QED
    BY <2>1, <2>2, <2>3, <2>4, <2>5, AckWritten
<1>11. ASSUME NEW c \in Callers, WriteFails(c) PROVE AckInv'
  <2>1. \A d \in Callers : pc'[d] = "profile_ack" <=> pc[d] = "profile_ack"
    BY <1>11 DEF WriteFails, client, tasks, transport, history, Finish, Stay, Core, TypeOK,
       Writing
  <2>2. UNCHANGED profileAcks /\ Coming' = Coming
    BY <1>11 DEF WriteFails, client, tasks, transport, history, Finish, Stay, Coming
  <2>3. QED
    BY <2>1, <2>2, AckKept
<1>12. ASSUME NEW c \in Callers, StopMasked(c) PROVE AckInv'
  <2>1. holder = c /\ pc[c] # "profile_ack" /\ UNCHANGED <<queue, profileAcks>>
    BY <1>12 DEF StopMasked, Core, RequestsSerialized, Held, Writing
  <2>2. pc'[c] # "profile_ack" /\ \A d \in Callers : d # c => pc'[d] = pc[d]
    BY <1>12 DEF StopMasked, Stay, Finish, Core, TypeOK
  <2>3. "Stop" \in FrameKinds /\ NextSlot(c) \in Nat /\ Transmit(c, "Stop", NextSlot(c))
    BY <1>12, FrameAndSlot DEF StopMasked, FrameKinds
  <2>4. QED
    BY <2>1, <2>2, <2>3, AckWritten
<1>13. ASSUME NEW c \in Callers, WriteChunk1(c) PROVE AckInv'
  <2>1. holder = c /\ pc[c] # "profile_ack" /\ UNCHANGED <<queue, profileAcks>>
    BY <1>13 DEF WriteChunk1, Core, RequestsSerialized, Held, Writing
  <2>2. pc'[c] # "profile_ack" /\ \A d \in Callers : d # c => pc'[d] = pc[d]
    BY <1>13 DEF WriteChunk1, Stay, Finish, Core, TypeOK
  <2>3. "Chunk1" \in FrameKinds /\ 0 \in Nat /\ Transmit(c, "Chunk1", 0)
    BY <1>13, FrameAndSlot DEF WriteChunk1, FrameKinds
  <2>4. QED
    BY <2>1, <2>2, <2>3, AckWritten
<1>14. ASSUME NEW c \in Callers, WriteChunk2(c) PROVE AckInv'
  <2>1. holder = c /\ pc[c] # "profile_ack" /\ UNCHANGED <<queue, profileAcks>>
    BY <1>14 DEF WriteChunk2, Core, RequestsSerialized, Held, Writing
  <2>2. /\ pc'[c] = "profile_ack" <=> profileAcks # "no"
        /\ \A d \in Callers : d # c => pc'[d] = pc[d]
    BY <1>14 DEF WriteChunk2, Stay, Core, TypeOK
  <2>3. "Chunk2" \in FrameKinds /\ 0 \in Nat /\ Transmit(c, "Chunk2", 0)
    BY <1>14 DEF WriteChunk2, FrameKinds
  <2>4. QED
    BY <2>1, <2>2, <2>3, AckWritten
<1>15. ASSUME NEW c \in Callers, Settled(c) PROVE AckInv'
  <2>1. \A d \in Callers : pc'[d] = "profile_ack" <=> pc[d] = "profile_ack"
    BY <1>15 DEF Settled, client, tasks, transport, history, Finish, Stay, Core, TypeOK,
       Writing
  <2>2. UNCHANGED profileAcks /\ Coming' = Coming
    BY <1>15 DEF Settled, client, tasks, transport, history, Finish, Stay, Coming
  <2>3. QED
    BY <2>1, <2>2, AckKept
<1>16. ASSUME NEW c \in Callers, StartMasked(c) PROVE AckInv'
  <2>1. holder = c /\ pc[c] # "profile_ack" /\ UNCHANGED <<queue, profileAcks>>
    BY <1>16 DEF StartMasked, Core, RequestsSerialized, Held, Writing
  <2>2. pc'[c] # "profile_ack" /\ \A d \in Callers : d # c => pc'[d] = pc[d]
    BY <1>16 DEF StartMasked, Stay, Finish, Core, TypeOK
  <2>3. "Start" \in FrameKinds /\ NextSlot(c) \in Nat /\ Transmit(c, "Start", NextSlot(c))
    BY <1>16, FrameAndSlot DEF StartMasked, FrameKinds
  <2>4. QED
    BY <2>1, <2>2, <2>3, AckWritten
<1>17. ASSUME NEW c \in Callers, Receive(c) PROVE AckInv'
  <2>1. Coming # <<>> /\ Coming' = Tail(Coming) /\ Head(Coming) = Head(queue)
    BY <1>17, ComingTaken DEF Receive, Core
  <2>2. Conclude(c, "ok", Head(queue))
    BY <1>17 DEF Receive
  <2>3. CASE pc[c] = "profile_ack"
    <3>1. \A d \in Callers : pc'[d] # "profile_ack"
      BY <2>2, <2>3 DEF Conclude, ConcludeReply, ConcludeStop, ConcludeStart,
         ConcludeProfile, Stay, Finish, Core, TypeOK, RequestsSerialized, Held, Waits
    <3>2. profileAcks # "no" /\ Head(Coming).kind = "SetProfile"
      BY <1>17, <2>1, <2>3 DEF Receive, Matches, Expected, AckInv
    <3>3. NoRawWrites => OneAck(Coming, pc) /\ Coming \in Seq(Notification)
      BY <3>2, ComingTyped DEF AckInv, Core
    <3>4. NoRawWrites => NoAcks(Coming')
      BY <2>1, <3>2, <3>3, OneAckTail
    <3>5. NoRawWrites => OneAck(Coming', pc')
      BY <3>4, NoAcksIsOne
    <3>6. QED
      BY <3>1, <3>5 DEF AckInv, NoRawWrites, OneAck
  <2>4. CASE pc[c] # "profile_ack"
    <3>1. UNCHANGED profileAcks
      BY <2>2, <2>4 DEF Conclude, ConcludeReply, ConcludeStop, ConcludeStart,
         ConcludeProfile
    <3>2. \A d \in Callers : pc'[d] = "profile_ack" <=> pc[d] = "profile_ack"
      BY <2>2, <2>4 DEF Conclude, ConcludeReply, ConcludeStop, ConcludeStart,
         ConcludeProfile, Stay, Finish, Core, TypeOK
    <3>3. QED
      BY <2>1, <3>1, <3>2, AckKept
  <2>5. QED
    BY <2>3, <2>4
<1>18. ASSUME NEW c \in Callers, Discard(c) PROVE AckInv'
  <2>1. Coming # <<>> /\ Coming' = Tail(Coming)
    BY <1>18, ComingTaken DEF Discard, Core
  <2>2. UNCHANGED <<pc, profileAcks>>
    BY <1>18 DEF Discard, client, tasks
  <2>3. QED
    BY <2>1, <2>2, AckKept
<1>19. ASSUME NEW c \in Callers, StreamEnds(c) PROVE AckInv'
  BY <1>19, AckMissed DEF StreamEnds, transport
<1>20. ASSUME NEW c \in Callers, Deadline(c) PROVE AckInv'
  BY <1>20, AckMissed DEF Deadline, transport
<1>21. ASSUME Deliver PROVE AckInv'
  <2>1. UNCHANGED <<pc, profileAcks>>
    BY <1>21 DEF Deliver, client, tasks
  <2>2. QED
    BY <1>21, <2>1, ComingDelivered, AckKept
<1>22. ASSUME LoseLink PROVE AckInv'
  <2>1. queue \in Seq(Notification) /\ UNCHANGED <<pc, profileAcks>>
    BY <1>22 DEF LoseLink, client, tasks, Core, TypeOK
  <2>2. Coming' = queue
    BY <1>22, <2>1 DEF LoseLink, Coming
  <2>3. QED
    BY <2>1, <2>2, AckKept
<1>23. ASSUME EndStream PROVE AckInv'
  BY <1>23, AckKept DEF EndStream, client, tasks, Coming
<1>24. ASSUME UNCHANGED vars PROVE AckInv'
  BY <1>24, AckKept DEF vars, Coming
<1>25. QED
  BY <1>1, <1>2, <1>3, <1>4, <1>5, <1>6, <1>7, <1>8, <1>9, <1>10, <1>11, <1>12, <1>13,
     <1>14, <1>15, <1>16, <1>17, <1>18, <1>19, <1>20, <1>21, <1>22, <1>23, <1>24 DEF Next,
     Step

\* A task waits for a profile acknowledgement only while the client does not
\* know that there will be none, and then the one acknowledgement that may
\* be coming is its own, not that of an earlier profile (client.rs:516-550).
THEOREM AcknowledgementsOwned == Spec => []AckInv
<1>1. Init => AckInv
  BY DEF Init, AckInv, Coming, OneAck
<1>2. Core /\ AckInv /\ [Next]_vars => AckInv'
  BY AckStep
<1>3. QED
  BY <1>1, <1>2, CoreInvariant, PTL DEF Spec

\* The acknowledgement that ends a profile_ack wait is that of its chunks.
LEMMA OwnAck ==
    ASSUME Core, NoStaleNotification, AckInv, NoRawWrites, NEW c \in Callers,
           pc[c] = "profile_ack", queue # <<>>, Matches(c, Head(queue))
    PROVE  /\ Head(queue).kind = "SetProfile"
           /\ Head(queue).by = c /\ Head(queue).link = link
<1>1. Head(queue).kind = "SetProfile"
  BY DEF Matches, Expected
<1>2. queue \in Seq(Notification) /\ air \in Seq(Notification)
  BY DEF Core, TypeOK
<1>3. 1 \in DOMAIN Coming /\ Coming[1] = Head(queue) /\ queue[1] = Head(queue)
  BY <1>2 DEF Coming
<1>4. Head(queue) \in Notification
  BY <1>2
<1>5. Head(queue).by \in Callers
  BY <1>4 DEF Notification
<1>6. pc[Head(queue).by] = "profile_ack"
  BY <1>1, <1>3 DEF AckInv, OneAck
<1>7. Head(queue).by = c
  BY <1>5, <1>6 DEF Core, RequestsSerialized, Held, Waits
<1>8. Head(queue).link = link
  BY <1>2, <1>3 DEF NoStaleNotification
<1>9. QED
  BY <1>1, <1>7, <1>8

\* A step takes the task from that wait and not into the settle delay.
Leaves(c) == pc[c] = "profile_ack" /\ pc'[c] \notin {"profile_ack", "settle"}

\* Only Receive leaves that wait for anything but the settle delay.
LEMMA AckLeft ==
    ASSUME Core, [Next]_vars, NEW c \in Callers, Leaves(c)
    PROVE  Receive(c) /\ ~call[c].start
<1>1. ASSUME NEW d \in Callers, NEW k \in Calls, Enter(d, k) PROVE FALSE
  BY <1>1 DEF Enter, Finish, Stay, Core, TypeOK, Writing, Leaves
<1>2. ASSUME NEW d \in Callers, NEW k \in Calls, Refuse(d, k) PROVE FALSE
  BY <1>2 DEF Refuse, Finish, Stay, Core, TypeOK, Writing, Leaves
<1>3. ASSUME NEW d \in Callers, Acquire(d) PROVE FALSE
  BY <1>3 DEF Acquire, Finish, Stay, Core, TypeOK, Writing, Leaves
<1>4. ASSUME NEW d \in Callers, Return(d) PROVE FALSE
  BY <1>4 DEF Return, Finish, Stay, Core, TypeOK, Writing, Leaves
<1>5. ASSUME NEW d \in Callers, NextPoll(d) PROVE FALSE
  BY <1>5 DEF NextPoll, Finish, Stay, Core, TypeOK, Writing, Leaves
<1>6. ASSUME NEW d \in Callers, Unlink(d) PROVE FALSE
  BY <1>6 DEF Unlink, Finish, Stay, Core, TypeOK, Writing, Leaves
<1>7. ASSUME NEW d \in Callers, Link(d) PROVE FALSE
  BY <1>7 DEF Link, Finish, Stay, Core, TypeOK, Writing, Leaves
<1>8. ASSUME NEW d \in Callers, LinkFails(d) PROVE FALSE
  BY <1>8 DEF LinkFails, Finish, Stay, Core, TypeOK, Writing, Leaves
<1>9. ASSUME NEW d \in Callers, WriteAndForget(d) PROVE FALSE
  BY <1>9 DEF WriteAndForget, Finish, Stay, Core, TypeOK, Writing, Leaves
<1>10. ASSUME NEW d \in Callers, WriteAndWait(d) PROVE FALSE
  BY <1>10 DEF WriteAndWait, Finish, Stay, Core, TypeOK, Writing, Leaves
<1>11. ASSUME NEW d \in Callers, WriteFails(d) PROVE FALSE
  BY <1>11 DEF WriteFails, Finish, Stay, Core, TypeOK, Writing, Leaves
<1>12. ASSUME NEW d \in Callers, StopMasked(d) PROVE FALSE
  BY <1>12 DEF StopMasked, Finish, Stay, Core, TypeOK, Writing, Leaves
<1>13. ASSUME NEW d \in Callers, WriteChunk1(d) PROVE FALSE
  BY <1>13 DEF WriteChunk1, Finish, Stay, Core, TypeOK, Writing, Leaves
<1>14. ASSUME NEW d \in Callers, WriteChunk2(d) PROVE FALSE
  BY <1>14 DEF WriteChunk2, Finish, Stay, Core, TypeOK, Writing, Leaves
<1>15. ASSUME NEW d \in Callers, Settled(d) PROVE FALSE
  BY <1>15 DEF Settled, Finish, Stay, Core, TypeOK, Writing, Leaves
<1>16. ASSUME NEW d \in Callers, StartMasked(d) PROVE FALSE
  BY <1>16 DEF StartMasked, Finish, Stay, Core, TypeOK, Writing, Leaves
<1>17. ASSUME NEW d \in Callers, Receive(d) PROVE Receive(c) /\ ~call[c].start
  <2>1. Conclude(d, "ok", Head(queue))
    BY <1>17 DEF Receive
  <2>2. d = c /\ ~call[c].start
    BY <2>1 DEF Conclude, ConcludeReply, ConcludeStop, ConcludeStart,
       ConcludeProfile, Stay, Finish, Core, TypeOK, Leaves
  <2>3. QED
    BY <1>17, <2>2
<1>18. ASSUME NEW d \in Callers, Discard(d) PROVE FALSE
  BY <1>18 DEF Discard, tasks, Leaves
<1>19. ASSUME NEW d \in Callers, StreamEnds(d) PROVE FALSE
  <2>1. Conclude(d, "not_connected", NoReply)
    BY <1>19 DEF StreamEnds
  <2>2. QED
    BY <2>1 DEF Conclude, ConcludeReply, ConcludeStop, ConcludeStart,
       ConcludeProfile, Stay, Finish, Core, TypeOK, Leaves
<1>20. ASSUME NEW d \in Callers, Deadline(d) PROVE FALSE
  <2>1. Conclude(d, "timeout", NoReply)
    BY <1>20 DEF Deadline
  <2>2. QED
    BY <2>1 DEF Conclude, ConcludeReply, ConcludeStop, ConcludeStart,
       ConcludeProfile, Stay, Finish, Core, TypeOK, Leaves
<1>21. ASSUME Deliver PROVE FALSE
  BY <1>21 DEF Deliver, tasks, Leaves
<1>22. ASSUME LoseLink PROVE FALSE
  BY <1>22 DEF LoseLink, tasks, Leaves
<1>23. ASSUME EndStream PROVE FALSE
  BY <1>23 DEF EndStream, tasks, Leaves
<1>24. ASSUME UNCHANGED vars PROVE FALSE
  BY <1>24 DEF vars, Leaves
<1>25. QED
  BY <1>1, <1>2, <1>3, <1>4, <1>5, <1>6, <1>7, <1>8, <1>9, <1>10, <1>11, <1>12, <1>13,
     <1>14, <1>15, <1>16, <1>17, <1>18, <1>19, <1>20, <1>21, <1>22, <1>23, <1>24 DEF Next,
     Step

\* Whatever profile_acks has cached, send_profile goes on after the settle
\* delay or, with no start to come, on the acknowledgement of its own chunks
\* over the current link (client.rs:516-550).
THEOREM ProfileSettlesOnOwnAck == Spec => ProfileSettles
<1>1. Core /\ NoStaleNotification /\ AckInv /\ [Next]_vars =>
         \A c \in Callers : Leaves(c) /\ NoRawWrites =>
            /\ ~call[c].start
            /\ queue # <<>> /\ Head(queue).kind = "SetProfile"
            /\ Head(queue).by = c /\ Head(queue).link = link
  <2>1. ASSUME Core, NoStaleNotification, AckInv, [Next]_vars, NEW c \in Callers,
               Leaves(c), NoRawWrites
        PROVE  /\ ~call[c].start
               /\ queue # <<>> /\ Head(queue).kind = "SetProfile"
               /\ Head(queue).by = c /\ Head(queue).link = link
    <3>1. Receive(c) /\ ~call[c].start
      BY <2>1, AckLeft
    <3>2. pc[c] = "profile_ack" /\ queue # <<>> /\ Matches(c, Head(queue))
      BY <2>1, <3>1 DEF Receive, Leaves
    <3>3. QED
      BY <2>1, <3>1, <3>2, OwnAck
  <2>2. QED
    BY <2>1
<1>2. Core /\ NoStaleNotification /\ AckInv /\ [Next]_vars =>
         [\A c \in Callers :
            pc[c] = "profile_ack" /\ pc'[c] \notin {"profile_ack", "settle"}
               /\ (\A k \in Calls : k.op # "write") =>
               /\ ~call[c].start
               /\ queue # <<>> /\ Head(queue).kind = "SetProfile"
               /\ Head(queue).by = c /\ Head(queue).link = link]_vars
  BY <1>1 DEF Leaves, NoRawWrites
<1>3. QED
  BY <1>2, CoreInvariant, NotificationsFresh, AcknowledgementsOwned, PTL DEF Spec,
     ProfileSettles
=============================================================================
