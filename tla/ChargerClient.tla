--------------------------- MODULE ChargerClient ---------------------------
(***************************************************************************)
(* The charger client of src/src/client.rs: the operations that tasks call *)
(* on one shared ChargerClient, their request lock, the model gate, the    *)
(* acknowledgement waits and the two-chunk profile write, over one link.   *)
(*                                                                         *)
(* A step of a caller is the code between two awaits.  The transport is    *)
(* the contract of the Transport trait as FakeTransport keeps it; what the *)
(* BLE backend adds is BleTransport's business.  The voltage curve, which  *)
(* shares the waiting loop, is left to CurveReassembly: no call below asks *)
(* for a curve, so the curve buffer stays empty and every notification is  *)
(* parsed on its own.                                                      *)
(*                                                                         *)
(* A definition named X_Y, next to the definition X, is X with a mistake   *)
(* the code could have had; nothing uses it but the check that a property  *)
(* notices the mistake.                                                    *)
(***************************************************************************)
EXTENDS Integers, Sequences, FiniteSets

CONSTANTS
    Callers,    \* tasks that share the client
    NoCaller,   \* nobody holds the request lock
    Slots,      \* slots the firmware has (0..3)
    Calls,      \* the calls the tasks make
    Capacity,   \* bound of the notification queue
    MaxAir,     \* bound: replies on their way at once
    MaxLinks    \* bound: links ever established

NoModel == "none"
Models == {"Mc3000", "Mc5000"}

Ops == {"connect", "disconnect", "write", "start", "stop", "stop_acked",
        "status", "poll_all_status", "set_basic", "wait_for", "send_profile"}

\* A call names its slots (a mask may have bits no slot has), whether a
\* profile is to be started, the frame of a raw write and the model of a
\* connect; the fields an operation does not read have any value.
FrameKinds == {"Start", "Stop", "Status", "SetBasic", "Chunk1", "Chunk2"}
Call == [op : Ops, slots : SUBSET Nat, start : BOOLEAN,
         frame : FrameKinds, model : Models \cup {NoModel}]

NoCall == [op |-> "none", slots |-> {}, start |-> FALSE,
           frame |-> "Status", model |-> NoModel]

ASSUME CallersAssumption == NoCaller \notin Callers
ASSUME SlotsAssumption == Slots \subseteq Nat /\ IsFiniteSet(Slots) /\ Slots # {}
ASSUME CallsAssumption ==
    /\ Calls \subseteq Call
    /\ \A k \in Calls :
          /\ k.op = "connect" => k.model \in Models
          /\ k.op \in {"write", "start", "stop", "stop_acked", "status"} =>
                k.slots \cap Slots # {}
          /\ k.op = "poll_all_status" => k.slots = Slots
          /\ k.op \in {"set_basic", "wait_for"} => k.slots = {}
ASSUME BoundsAssumption ==
    Capacity \in Nat \ {0} /\ MaxAir \in Nat /\ MaxLinks \in Nat

VARIABLES
    holder,       \* request_lock: its owner
    waiting,      \* request_lock: tasks queued for it, oldest first
    pc,           \* per task: the await it stands at
    call,         \* per task: the call it makes
    todo,         \* per task: slots its loop has still to command
    outcome,      \* per task: how its call ended
    reply,        \* per task: the notification its call returned
    model,        \* ClientState.model
    profileAcks,  \* ClientState.profile_acks
    up,           \* the link exists
    closed,       \* NotificationQueue.closed
    queue,        \* NotificationQueue.items
    air,          \* replies the charger has sent and the host not received
    link,         \* history: number of the current or last link
    linkModel,    \* history: model the current link was connected for
    wire,         \* history: what the link has carried
    orphans       \* history: a reply may come that nobody waits for

client    == <<holder, waiting, model, profileAcks>>
tasks     == <<pc, call, todo, outcome, reply>>
transport == <<up, closed, queue, air>>
history   == <<link, linkModel, wire, orphans>>
vars == <<holder, waiting, pc, call, todo, outcome, reply, model, profileAcks,
          up, closed, queue, air, link, linkModel, wire, orphans>>

-----------------------------------------------------------------------------
(* Frames and notifications. *)

\* What the charger answers, by whom and for which slot the answered frame
\* was written: the code sees the kind and the result byte, never the rest.
NotificationKinds == {"Start", "Stop", "Status", "SetBasic", "SetProfile"}
Notification == [kind : NotificationKinds, ok : BOOLEAN,
                 by : Callers, slot : Nat, link : Nat]
NoReply == [kind |-> "none", ok |-> FALSE, by |-> NoCaller, slot |-> 0, link |-> 0]

Answer(f) == IF f = "Chunk2" THEN "SetProfile" ELSE f

\* The opcode each await accepts: wait_for without an opcode takes any.
Expected(c) ==
    CASE pc[c] = "stop_ack"    -> {"Stop"}
      [] pc[c] = "profile_ack" -> {"SetProfile"}
      [] pc[c] = "start_ack"   -> {"Start"}
      [] pc[c] = "reply" ->
            CASE call[c].op = "stop_acked" -> {"Stop"}
              [] call[c].op \in {"status", "poll_all_status"} -> {"Status"}
              [] call[c].op = "set_basic" -> {"SetBasic"}
              [] OTHER -> NotificationKinds
      [] OTHER -> {}

Matches(c, n) == n.kind \in Expected(c)

\* The loops of the code run over the slots in ascending order.
NextSlot(c) == CHOOSE s \in todo[c] : \A t \in todo[c] : s <= t
LastSlot_Early(c) == TRUE
LastSlot(c) == todo[c] = {NextSlot(c)}

\* Mask bits that name no slot are passed over.
Commanded_Unchecked(k) == k.slots
Commanded(k) == k.slots \cap Slots

-----------------------------------------------------------------------------
(* What the link carried, frame by frame: the slots stopped and not started *)
(* since, how far the profile of which task got without another frame      *)
(* between, whether a write-class frame passed, and whether the charger    *)
(* heard the last frame.                                                   *)

WriteClass == FrameKinds \ {"Status"}

Wire == [stopped : SUBSET Nat, part : {"none", "half", "whole"},
         by : Callers \cup {NoCaller}, wrote : BOOLEAN, heard : BOOLEAN]
FreshWire == [stopped |-> {}, part |-> "none", by |-> NoCaller,
              wrote |-> FALSE, heard |-> TRUE]

Stopped(f, s) == IF f = "Stop" THEN wire.stopped \cup {s}
                 ELSE IF f = "Start" THEN wire.stopped \ {s}
                 ELSE wire.stopped
Part(c, f) ==
    IF f = "Chunk1" THEN "half"
    ELSE IF \/ f = "Chunk2" /\ wire.part = "half" /\ wire.by = c
            \/ f = "Start" /\ wire.part = "whole" /\ wire.by = c
         THEN "whole" ELSE "none"

-----------------------------------------------------------------------------
(* Shared pieces of the actions. *)

\* Dropping the guard of the request lock as the call returns.
Finish(c, how, n) ==
    /\ holder' = NoCaller
    /\ pc' = [pc EXCEPT ![c] = "done"]
    /\ outcome' = [outcome EXCEPT ![c] = how]
    /\ reply' = [reply EXCEPT ![c] = n]

Stay(c, label) ==
    /\ pc' = [pc EXCEPT ![c] = label]
    /\ UNCHANGED <<holder, outcome, reply>>

DropPending_Kept == UNCHANGED queue
DropPending == queue' = <<>>

\* Transport::write on a live link.  The charger may miss the frame, and it
\* may hear it without answering (chunk 1 has no answer, firmware 1.13
\* never answers a profile, an answer may be lost).
Transmit(c, f, s) ==
    /\ up
    /\ \E heard \in BOOLEAN, answers \in BOOLEAN, ok \in BOOLEAN :
          /\ answers => heard /\ f # "Chunk1" /\ Len(air) < MaxAir
          /\ ~ok => answers /\ f = "SetBasic"
          /\ air' = IF answers
                    THEN Append(air, [kind |-> Answer(f), ok |-> ok, by |-> c,
                                      slot |-> s, link |-> link])
                    ELSE air
          /\ wire' = [stopped |-> Stopped(f, s), part |-> Part(c, f), by |-> c,
                      wrote |-> wire.wrote \/ f \in WriteClass, heard |-> heard]

\* A frame whose reply the code never waits for.
Unawaited == orphans' = (orphans \/ air' # air)

-----------------------------------------------------------------------------
Init ==
    /\ holder = NoCaller
    /\ waiting = <<>>
    /\ pc = [c \in Callers |-> "idle"]
    /\ call = [c \in Callers |-> NoCall]
    /\ todo = [c \in Callers |-> {}]
    /\ outcome = [c \in Callers |-> "none"]
    /\ reply = [c \in Callers |-> NoReply]
    /\ model = NoModel
    /\ profileAcks = "unknown"
    /\ up = FALSE
    /\ closed = FALSE
    /\ queue = <<>>
    /\ air = <<>>
    /\ link = 0
    /\ linkModel = NoModel
    /\ wire = FreshWire
    /\ orphans = FALSE

-----------------------------------------------------------------------------
(* Entering a call: the model gate, then the queue of the request lock.  No *)
(* await stands between the two, and the gate is not looked at again.      *)

Gated == {"write", "start", "stop", "stop_acked", "set_basic", "send_profile"}
WritesAllowed == model = "Mc3000"

Refuse(c, k) ==
    /\ pc[c] = "idle"
    /\ k.op \in Gated /\ ~WritesAllowed
    /\ call' = [call EXCEPT ![c] = k]
    /\ pc' = [pc EXCEPT ![c] = "done"]
    /\ outcome' = [outcome EXCEPT ![c] = "refused"]
    /\ UNCHANGED <<client, todo, reply, transport, history>>

Enter(c, k) ==
    /\ pc[c] = "idle"
    /\ k.op \in Gated => WritesAllowed
    /\ call' = [call EXCEPT ![c] = k]
    /\ todo' = [todo EXCEPT ![c] = Commanded(k)]
    /\ pc' = [pc EXCEPT ![c] = "lock"]
    /\ waiting' = Append(waiting, c)
    /\ UNCHANGED <<holder, outcome, reply, model, profileAcks, transport, history>>

\* tokio's mutex is fair: it is granted in the order it was asked for.
FirstStep(c) ==
    CASE call[c].op \in {"connect", "disconnect"} -> "unlink"
      [] call[c].op = "wait_for" -> "reply"
      [] call[c].op = "send_profile" -> IF todo[c] = {} THEN "chunk1" ELSE "stop"
      [] OTHER -> "write"

LockFree_Ignored == TRUE
LockFree == holder = NoCaller

Acquire(c) ==
    /\ pc[c] = "lock"
    /\ LockFree
    /\ waiting # <<>> /\ Head(waiting) = c
    /\ holder' = c
    /\ waiting' = Tail(waiting)
    /\ pc' = [pc EXCEPT ![c] = FirstStep(c)]
    /\ UNCHANGED <<call, todo, outcome, reply, model, profileAcks, transport, history>>

\* The task goes on with the result of its call.
Return(c) ==
    /\ pc[c] = "done"
    /\ pc' = [pc EXCEPT ![c] = "idle"]
    /\ call' = [call EXCEPT ![c] = NoCall]
    /\ todo' = [todo EXCEPT ![c] = {}]
    /\ outcome' = [outcome EXCEPT ![c] = "none"]
    /\ reply' = [reply EXCEPT ![c] = NoReply]
    /\ UNCHANGED <<client, transport, history>>

-----------------------------------------------------------------------------
(* connect and disconnect. *)

\* Both drop the link and the pending state first; profile_acks stays.
Unlink(c) ==
    /\ pc[c] = "unlink"
    /\ up' = FALSE
    /\ closed' = TRUE
    /\ DropPending
    /\ air' = <<>>
    /\ model' = NoModel
    /\ linkModel' = NoModel
    /\ wire' = FreshWire
    /\ IF call[c].op = "connect" THEN Stay(c, "link")
                                 ELSE Finish(c, "ok", NoReply)
    /\ UNCHANGED <<waiting, call, todo, profileAcks, link, orphans>>

Link(c) ==
    /\ pc[c] = "link"
    /\ link < MaxLinks
    /\ up' = TRUE
    /\ closed' = FALSE
    /\ DropPending
    /\ model' = call[c].model
    /\ link' = link + 1
    /\ linkModel' = call[c].model
    /\ orphans' = FALSE
    /\ Finish(c, "ok", NoReply)
    /\ UNCHANGED <<waiting, call, todo, profileAcks, air, wire>>

LinkFails(c) ==
    /\ pc[c] = "link"
    /\ Finish(c, "failed", NoReply)
    /\ UNCHANGED <<waiting, call, todo, model, profileAcks, transport, history>>

-----------------------------------------------------------------------------
(* Writing a frame. *)

Writing == {"write", "stop", "chunk1", "chunk2", "start"}

\* Transport::write fails, for want of a link or in the backend: the call
\* ends where it stands.
WriteFails_Swallowed(c) ==
    /\ pc[c] \in Writing
    /\ Finish(c, IF pc[c] = "write" THEN "failed" ELSE "ok", NoReply)
    /\ UNCHANGED <<waiting, call, todo, model, profileAcks, transport, history>>
WriteFails(c) ==
    /\ pc[c] \in Writing
    /\ Finish(c, "failed", NoReply)
    /\ UNCHANGED <<waiting, call, todo, model, profileAcks, transport, history>>

RequestFrame(c) ==
    CASE call[c].op = "write" -> call[c].frame
      [] call[c].op = "start" -> "Start"
      [] call[c].op \in {"stop", "stop_acked"} -> "Stop"
      [] call[c].op = "set_basic" -> "SetBasic"
      [] OTHER -> "Status"

RequestSlot(c) == IF call[c].op = "set_basic" THEN 0 ELSE NextSlot(c)

\* write, start and stop return once the frame is written.
WriteAndForget(c) ==
    /\ pc[c] = "write"
    /\ call[c].op \in {"write", "start", "stop"}
    /\ Transmit(c, RequestFrame(c), RequestSlot(c))
    /\ Unawaited
    /\ Finish(c, "ok", NoReply)
    /\ UNCHANGED <<waiting, call, todo, model, profileAcks, up, closed, queue,
                   link, linkModel>>

\* request and stop_acked go on to wait, still holding the lock.
WriteAndWait_Unawaited(c) ==
    /\ pc[c] = "write"
    /\ call[c].op \in {"stop_acked", "status", "poll_all_status", "set_basic"}
    /\ Transmit(c, RequestFrame(c), RequestSlot(c))
    /\ Finish(c, "ok", NoReply)
    /\ UNCHANGED <<waiting, call, todo, model, profileAcks, up, closed, queue,
                   link, linkModel, orphans>>
WriteAndWait(c) ==
    /\ pc[c] = "write"
    /\ call[c].op \in {"stop_acked", "status", "poll_all_status", "set_basic"}
    /\ Transmit(c, RequestFrame(c), RequestSlot(c))
    /\ Stay(c, "reply")
    /\ UNCHANGED <<waiting, call, todo, model, profileAcks, up, closed, queue,
                   link, linkModel, orphans>>

\* send_profile: a stop for each masked slot, each waited for, ...
StopMasked(c) ==
    /\ pc[c] = "stop"
    /\ Transmit(c, "Stop", NextSlot(c))
    /\ Stay(c, "stop_ack")
    /\ UNCHANGED <<waiting, call, todo, model, profileAcks, up, closed, queue,
                   link, linkModel, orphans>>

\* ... the first chunk and, after the gap, the second.
WriteChunk1_Unlocked(c) ==
    /\ pc[c] = "chunk1"
    /\ Transmit(c, "Chunk1", 0)
    /\ pc' = [pc EXCEPT ![c] = "chunk2"]
    /\ holder' = NoCaller
    /\ UNCHANGED <<waiting, call, todo, outcome, reply, model, profileAcks, up,
                   closed, queue, link, linkModel, orphans>>
WriteChunk1(c) ==
    /\ pc[c] = "chunk1"
    /\ Transmit(c, "Chunk1", 0)
    /\ Stay(c, "chunk2")
    /\ UNCHANGED <<waiting, call, todo, model, profileAcks, up, closed, queue,
                   link, linkModel, orphans>>

\* A firmware known not to acknowledge profiles is not waited for.
WriteChunk2(c) ==
    /\ pc[c] = "chunk2"
    /\ Transmit(c, "Chunk2", 0)
    /\ IF profileAcks = "no"
       THEN Stay(c, "settle") /\ Unawaited
       ELSE Stay(c, "profile_ack") /\ UNCHANGED orphans
    /\ UNCHANGED <<waiting, call, todo, model, profileAcks, up, closed, queue,
                   link, linkModel>>

\* The settle delay is over: the masked slots are started, if asked.
Settled(c) ==
    /\ pc[c] = "settle"
    /\ LET started == IF call[c].start THEN Commanded(call[c]) ELSE {}
       IN  /\ todo' = [todo EXCEPT ![c] = started]
           /\ IF started = {} THEN Finish(c, "ok", NoReply) ELSE Stay(c, "start")
    /\ UNCHANGED <<waiting, call, model, profileAcks, transport, history>>

StartMasked(c) ==
    /\ pc[c] = "start"
    /\ Transmit(c, "Start", NextSlot(c))
    /\ Stay(c, "start_ack")
    /\ UNCHANGED <<waiting, call, todo, model, profileAcks, up, closed, queue,
                   link, linkModel, orphans>>

-----------------------------------------------------------------------------
(* wait_for_locked: the loop that every await of a reply runs, and what the *)
(* caller of the loop makes of its result.                                 *)

Waits == {"reply", "stop_ack", "profile_ack", "start_ack"}

\* request, stop_acked and wait_for return the result; set_basic turns a
\* zero result byte into an error; poll_all_status lets the lock go and
\* polls the next slot.
ConcludeReply(c, how, n) ==
    /\ pc[c] = "reply"
    /\ IF call[c].op = "poll_all_status" /\ how = "ok" /\ ~LastSlot(c)
       THEN /\ todo' = [todo EXCEPT ![c] = @ \ {NextSlot(c)}]
            /\ pc' = [pc EXCEPT ![c] = "gap"]
            /\ holder' = NoCaller
            /\ UNCHANGED <<outcome, reply>>
       ELSE /\ Finish(c, IF call[c].op = "set_basic" /\ how = "ok" /\ ~n.ok
                         THEN "rejected" ELSE how, n)
            /\ UNCHANGED todo
    /\ UNCHANGED profileAcks

\* send_profile goes on whatever became of a stop or start acknowledgement.
ConcludeStop(c) ==
    /\ pc[c] = "stop_ack"
    /\ todo' = [todo EXCEPT ![c] = @ \ {NextSlot(c)}]
    /\ Stay(c, IF LastSlot(c) THEN "chunk1" ELSE "stop")
    /\ UNCHANGED profileAcks

ConcludeStart(c) ==
    /\ pc[c] = "start_ack"
    /\ todo' = [todo EXCEPT ![c] = @ \ {NextSlot(c)}]
    /\ IF LastSlot(c) THEN Finish(c, "ok", NoReply) ELSE Stay(c, "start")
    /\ UNCHANGED profileAcks

\* Any error of the wait counts as a firmware that does not acknowledge.
ConcludeProfile_Uncached(c, how) ==
    /\ pc[c] = "profile_ack"
    /\ profileAcks' = IF how = "ok" THEN "yes" ELSE profileAcks
    /\ IF how = "ok" /\ ~call[c].start
       THEN Finish(c, "ok", NoReply) ELSE Stay(c, "settle")
    /\ UNCHANGED todo
ConcludeProfile(c, how) ==
    /\ pc[c] = "profile_ack"
    /\ profileAcks' = IF how = "ok" THEN "yes" ELSE "no"
    /\ IF how = "ok" /\ ~call[c].start
       THEN Finish(c, "ok", NoReply) ELSE Stay(c, "settle")
    /\ UNCHANGED todo

Conclude(c, how, n) ==
    \/ ConcludeReply(c, how, n)
    \/ ConcludeStop(c)
    \/ ConcludeStart(c)
    \/ ConcludeProfile(c, how)

\* The head of the queue is what the call waits for.
Receive(c) ==
    /\ pc[c] \in Waits
    /\ queue # <<>> /\ Matches(c, Head(queue))
    /\ queue' = Tail(queue)
    /\ Conclude(c, "ok", Head(queue))
    /\ UNCHANGED <<waiting, call, model, up, closed, air,
                   link, linkModel, wire, orphans>>

\* It is something else, and is thrown away.
Discard(c) ==
    /\ pc[c] \in Waits
    /\ queue # <<>> /\ ~Matches(c, Head(queue))
    /\ queue' = Tail(queue)
    /\ UNCHANGED <<client, tasks, up, closed, air, history>>

\* The queue is closed and drained: the link is gone.
StreamEnds(c) ==
    /\ pc[c] \in Waits
    /\ queue = <<>> /\ closed
    /\ Conclude(c, "not_connected", NoReply)
    /\ UNCHANGED <<waiting, call, model, transport, link, linkModel, wire, orphans>>

\* The deadline passes, over an empty queue or between two notifications.
Deadline_Never(c) == FALSE
Deadline(c) ==
    /\ pc[c] \in Waits
    /\ Conclude(c, "timeout", NoReply)
    /\ orphans' = TRUE
    /\ UNCHANGED <<waiting, call, model, transport, link, linkModel, wire>>

\* poll_all_status asks for the lock again after the poll gap.
NextPoll(c) ==
    /\ pc[c] = "gap"
    /\ pc' = [pc EXCEPT ![c] = "lock"]
    /\ waiting' = Append(waiting, c)
    /\ UNCHANGED <<holder, call, todo, outcome, reply, model, profileAcks,
                   transport, history>>

-----------------------------------------------------------------------------
(* The link: notifications arrive in the order sent, the link may be lost,  *)
(* and the notification stream ends some time after it.                    *)

\* NotificationQueue::push: a full queue loses its oldest entry.
Deliver ==
    /\ air # <<>>
    /\ air' = Tail(air)
    /\ queue' = IF closed THEN queue
                ELSE Append(IF Len(queue) >= Capacity THEN Tail(queue) ELSE queue,
                            Head(air))
    /\ UNCHANGED <<client, tasks, up, closed, history>>

LoseLink ==
    /\ up
    /\ up' = FALSE
    /\ air' = <<>>
    /\ UNCHANGED <<client, tasks, closed, queue, history>>

EndStream ==
    /\ ~up /\ ~closed /\ link > 0
    /\ closed' = TRUE
    /\ UNCHANGED <<client, tasks, up, queue, air, history>>

-----------------------------------------------------------------------------
\* What a task does once it is inside a call.
Step(c) ==
    \/ Acquire(c) \/ Return(c) \/ NextPoll(c)
    \/ Unlink(c) \/ Link(c) \/ LinkFails(c)
    \/ WriteAndForget(c) \/ WriteAndWait(c) \/ WriteFails(c)
    \/ StopMasked(c) \/ WriteChunk1(c) \/ WriteChunk2(c)
    \/ Settled(c) \/ StartMasked(c)
    \/ Receive(c) \/ Discard(c) \/ StreamEnds(c) \/ Deadline(c)

Next ==
    \/ \E c \in Callers :
          \/ \E k \in Calls : Enter(c, k) \/ Refuse(c, k)
          \/ Step(c)
    \/ Deliver \/ LoseLink \/ EndStream

Spec == Init /\ [][Next]_vars

\* The runtime polls every task that can go on, timers fire, and the
\* transport answers each of its calls.
FairSpec == Spec /\ \A c \in Callers : WF_vars(Step(c))

-----------------------------------------------------------------------------
(* Properties. *)

Labels == {"idle", "lock", "unlink", "link", "gap", "settle", "done"}
             \cup Writing \cup Waits
Outcomes == {"none", "ok", "failed", "refused", "rejected", "timeout", "not_connected"}

\* Every variable has its type: the client state of client.rs:102-123, the
\* queue of transport/mod.rs:150-162 and the history.
TypeOK ==
    /\ holder \in Callers \cup {NoCaller}
    /\ waiting \in Seq(Callers)
    /\ pc \in [Callers -> Labels]
    /\ call \in [Callers -> Call \cup {NoCall}]
    /\ todo \in [Callers -> SUBSET Slots]
    /\ outcome \in [Callers -> Outcomes]
    /\ reply \in [Callers -> Notification \cup {NoReply}]
    /\ model \in Models \cup {NoModel}
    /\ profileAcks \in {"unknown", "yes", "no"}
    /\ up \in BOOLEAN
    /\ closed \in BOOLEAN
    /\ queue \in Seq(Notification)
    /\ air \in Seq(Notification)
    /\ link \in Nat
    /\ linkModel \in Models \cup {NoModel}
    /\ wire \in Wire
    /\ orphans \in BOOLEAN

\* The awaits at which a call holds the request lock.
Held == {"unlink", "link", "settle"} \cup Writing \cup Waits

\* The request lock serializes the client: exactly its owner is inside a
\* call, so no other task writes or takes a notification meanwhile.
RequestsSerialized == \A c \in Callers : pc[c] \in Held <=> holder = c

Masked(c) == Commanded(call[c])

\* While send_profile waits between its chunks the link carries chunk 1 and
\* nothing else after it; from chunk 2 on, the two chunks back to back and
\* only its own starts after them.
ProfileUnbroken ==
    \A c \in Callers :
       /\ pc[c] = "chunk2" => wire.part = "half" /\ wire.by = c
       /\ pc[c] \in {"profile_ack", "settle", "start", "start_ack"} =>
             wire.part = "whole" /\ wire.by = c

\* Every masked slot has been stopped on this link, and not started since,
\* before chunk 1 is written and until send_profile itself starts it.
MaskedSlotsStopped ==
    \A c \in Callers :
       pc[c] \in {"chunk1", "chunk2", "profile_ack", "settle"} =>
          Masked(c) \subseteq wire.stopped

\* Notifications never outlive their link: all that is queued or coming was
\* sent over the current one.
NoStaleNotification ==
    /\ \A i \in DOMAIN queue : queue[i].link = link
    /\ \A i \in DOMAIN air : air[i].link = link

\* The task that wrote the last frame, which the charger heard, still waits
\* for n, the answer to it.
AnswersLastFrame(n) ==
    /\ n.by = holder /\ n.by = wire.by /\ wire.heard
    /\ pc[n.by] \in Waits /\ Matches(n.by, n)
    /\ n.slot = IF todo[n.by] = {} THEN 0 ELSE NextSlot(n.by)

\* As long as every frame of the link was waited for until its reply came,
\* at most one reply is outstanding, and it answers the last frame.
RepliesAttributed ==
    ~orphans =>
       /\ Len(queue) + Len(air) <= 1
       /\ queue # <<>> => AnswersLastFrame(queue[1])
       /\ air # <<>> => AnswersLastFrame(air[1])

\* send_profile reports ok only when the whole sequence went over one link
\* with nothing between: chunks back to back after the stops, and every
\* masked slot started exactly if that was asked for.
ProfileReportHonest ==
    [][\A c \in Callers :
          call[c].op = "send_profile" /\ pc[c] # "done"
             /\ pc'[c] = "done" /\ outcome'[c] = "ok" =>
             /\ wire'.part = "whole" /\ wire'.by = c
             /\ IF call[c].start THEN Masked(c) \cap wire'.stopped = {}
                                 ELSE Masked(c) \subseteq wire'.stopped]_vars

\* What profile_acks has cached, over reconnects and lost links too, costs a
\* profile nothing but time: send_profile goes on after the settle delay or,
\* with no start to come, on the acknowledgement of its own chunks, never on
\* that of an earlier profile (client.rs:516-550).  Raw writes of a chunk
\* apart, whose acknowledgement anyone may take.
ProfileSettles ==
    [][\A c \in Callers :
          pc[c] = "profile_ack" /\ pc'[c] \notin {"profile_ack", "settle"}
             /\ (\A k \in Calls : k.op # "write") =>
             /\ ~call[c].start
             /\ queue # <<>> /\ Head(queue).kind = "SetProfile"
             /\ Head(queue).by = c /\ Head(queue).link = link]_vars

\* Write-class frames never reach a charger that was connected as read-only.
\* Holds while the calls come one at a time (docs/safety-model.md:16).
ReadOnlyRespected == wire.wrote => linkModel = "Mc3000"

\* Every call that asked for the lock returns: the emergency stop is never
\* starved, whatever is lost, late or refused.
CallsReturn == \A c \in Callers : pc[c] = "lock" ~> pc[c] = "done"

-----------------------------------------------------------------------------
(* The invariants the proofs use beside those above. *)

SlotOps == {"write", "start", "stop", "stop_acked", "status", "poll_all_status"}

\* Where a call can be, by its operation, and what is left of its loop.
StageInv ==
    \A c \in Callers :
       /\ pc[c] = "idle" \/ call[c] \in Calls
       /\ pc[c] \in {"unlink", "link"} => call[c].op \in {"connect", "disconnect"}
       /\ pc[c] = "link" => call[c].op = "connect" /\ ~up
       /\ pc[c] = "write" => call[c].op \in SlotOps \cup {"set_basic"}
       /\ pc[c] = "reply" =>
             call[c].op \in {"stop_acked", "status", "poll_all_status", "set_basic", "wait_for"}
       /\ pc[c] = "gap" => call[c].op = "poll_all_status"
       /\ pc[c] \in {"stop", "stop_ack", "chunk1", "chunk2", "profile_ack",
                     "settle", "start", "start_ack"} => call[c].op = "send_profile"
       /\ pc[c] \in {"lock", "write", "reply", "gap"} /\ call[c].op \in SlotOps =>
             todo[c] # {}
       /\ pc[c] \in {"lock", "write", "reply"} /\ call[c].op \in {"set_basic", "wait_for"} =>
             todo[c] = {}
       /\ pc[c] \in {"chunk1", "chunk2", "profile_ack", "settle"} => todo[c] = {}
       /\ pc[c] \in {"stop", "stop_ack", "start", "start_ack"} => todo[c] # {}
       /\ pc[c] \in {"start", "start_ack"} => call[c].start

\* Replies come only over a live link, and a live link's queue is open.
LinkInv == (up => ~closed) /\ (air # <<>> => up)

\* How far the stops, and the starts, of send_profile have got.
ProgressInv ==
    \A c \in Callers :
       /\ pc[c] = "lock" /\ call[c].op = "send_profile" => todo[c] = Masked(c)
       /\ pc[c] \in {"stop", "stop_ack"} => Masked(c) \ todo[c] \subseteq wire.stopped
       /\ pc[c] = "stop_ack" => NextSlot(c) \in wire.stopped
       /\ pc[c] \in {"start", "start_ack"} => (Masked(c) \ todo[c]) \cap wire.stopped = {}
       /\ pc[c] = "start_ack" => NextSlot(c) \notin wire.stopped

Inv ==
    /\ TypeOK /\ RequestsSerialized /\ StageInv /\ LinkInv
    /\ NoStaleNotification
    /\ ProgressInv /\ ProfileUnbroken /\ MaskedSlotsStopped
    /\ RepliesAttributed
=============================================================================
