-------------------------- MODULE McpServiceProofs --------------------------
(* Theorems about McpService for every set of tasks, slots and tool calls. *)
EXTENDS McpService, ChargerClientProofs

-----------------------------------------------------------------------------
(* Types. *)

\* The tail of a script is a script.
LEMMA ScriptTail ==
    ASSUME NEW s \in Seq(Calls), s # <<>>
    PROVE  /\ Head(s) \in Calls /\ Tail(s) \in Seq(Calls)
           /\ Len(s) > 1 => Tail(s) # <<>>
OBVIOUS

\* What is left of a log when its first event goes.
LEMMA LogTail ==
    ASSUME NEW s \in Seq(Event), s # <<>>
    PROVE  Tail(s) \in Seq(Event) /\ Len(Tail(s)) = Len(s) - 1
OBVIOUS

\* A recorded event leaves a log within its bound.
LEMMA RecordedTyped ==
    ASSUME McpTypeOK, NEW e \in Event
    PROVE  Recorded(e) \in Seq(Event) /\ Len(Recorded(e)) <= LogCapacity
<1> USE LogAssumption
<1>1. log \in Seq(Event) /\ Len(log) <= LogCapacity /\ Len(log) \in Nat
  BY DEF McpTypeOK
<1>2. CASE LogCapacity = 0
  BY <1>1, <1>2 DEF Recorded
<1>3. CASE LogCapacity # 0 /\ Len(log) >= LogCapacity
  <2>1. log # <<>>
    BY <1>1, <1>3
  <2>2. PICK s \in Seq(Event) : s = Tail(log) /\ Len(s) = Len(log) - 1
    BY <1>1, <2>1, LogTail
  <2>3. Append(s, e) \in Seq(Event) /\ Len(Append(s, e)) = Len(s) + 1
    OBVIOUS
  <2>4. Recorded(e) = Append(s, e)
    BY <1>3, <2>2, Zenon DEF Recorded
  <2>5. Recorded(e) \in Seq(Event) /\ Len(Recorded(e)) = Len(s) + 1
    BY <2>3, <2>4, Zenon
  <2>6. Len(s) = Len(log) - 1
    BY <2>2
  <2>7. QED
    BY <1>1, <2>5, <2>6
<1>4. CASE LogCapacity # 0 /\ ~(Len(log) >= LogCapacity)
  <2>1. Recorded(e) = Append(log, e)
    BY <1>4, Zenon DEF Recorded
  <2>2. Append(log, e) \in Seq(Event) /\ Len(Append(log, e)) = Len(log) + 1
    BY <1>1
  <2>3. QED
    BY <1>1, <1>4, <2>1, <2>2
<1>5. QED
  BY <1>2, <1>3, <1>4

\* A handler's answer keeps the types of what it writes.
LEMMA AnsweredTyped ==
    ASSUME McpTypeOK, NEW c \in Callers, NEW how \in {"ok", "error"}, Answered(c, how)
    PROVE  /\ tool' \in [Callers -> Tools \cup {NoTool}]
           /\ answer' \in [Callers -> {"none", "ok", "error"}]
           /\ log' \in Seq(Event) /\ Len(log') <= LogCapacity
<1>1. tool' \in [Callers -> Tools \cup {NoTool}]
  BY DEF Answered, McpTypeOK
<1>2. answer' \in [Callers -> {"none", "ok", "error"}]
  BY DEF Answered, McpTypeOK
<1>3. ASSUME how = "ok" /\ tool[c].name \in Logged
      PROVE  log' \in Seq(Event) /\ Len(log') <= LogCapacity
  <2>1. tool[c] \in Tools
    BY <1>3 DEF McpTypeOK, NoTool, Logged
  <2>2. tool[c].name \in ToolNames /\ tool[c].slots \in SUBSET Nat
    BY <2>1, ToolsAssumption DEF Tool
  <2>3. Did(tool[c]) \in {"validated", "refused", "dry_run", "applied", "started", "stopped"}
    BY DEF Did
  <2>4. EventOf(tool[c]) \in Event
    BY <2>2, <2>3, SlotsAssumption DEF EventOf, Event
  <2>5. log' = Recorded(EventOf(tool[c]))
    BY <1>3 DEF Answered
  <2>6. QED
    BY <2>4, <2>5, RecordedTyped
<1>4. ASSUME ~(how = "ok" /\ tool[c].name \in Logged)
      PROVE  log' \in Seq(Event) /\ Len(log') <= LogCapacity
  BY <1>4 DEF Answered, McpTypeOK
<1>5. QED
  BY <1>1, <1>2, <1>3, <1>4

\* A handler that passed its checks has a script of client calls.
LEMMA ScriptTyped ==
    ASSUME NEW t \in Tools, Permitted(t)
    PROVE  Script(t) \in Seq(Calls)
BY ToolsAssumption DEF Permitted

\* The types are inductive.
LEMMA ServiceTypesStep == McpTypeOK /\ [McpNext]_mcpVars => McpTypeOK'
<1> SUFFICES ASSUME McpTypeOK, [McpNext]_mcpVars PROVE McpTypeOK'
  OBVIOUS
<1> USE CallersAssumption
<1>0. <<>> \in Seq(Calls)
  OBVIOUS
<1>1. ASSUME NEW c \in Callers, NEW t \in Tools, Dispatch(c, t) PROVE McpTypeOK'
  BY <1>1 DEF Dispatch, McpTypeOK
<1>2. ASSUME NEW c \in Callers, Begin(c) PROVE McpTypeOK'
  <2>1. tool[c] \in Tools
    BY <1>0, <1>2 DEF Begin, McpTypeOK, NoTool, Script
  <2>2. Script(tool[c]) \in Seq(Calls)
    BY <1>2, <2>1, ScriptTyped DEF Begin
  <2>3. opWaiting' \in Seq(Callers)
    BY <1>2 DEF Begin, Granted, McpTypeOK
  <2>4. QED
    BY <1>2, <2>2, <2>3 DEF Begin, McpTypeOK
<1>3. ASSUME NEW c \in Callers, Decline(c) PROVE McpTypeOK'
  <2>1. opWaiting' \in Seq(Callers)
    BY <1>3 DEF Decline, Granted, McpTypeOK
  <2>2. PICK how \in {"ok", "error"} : Answered(c, how)
    BY <1>3 DEF Decline
  <2>3. UNCHANGED <<opHolder, script>>
    BY <1>3 DEF Decline
  <2>4. QED
    BY <2>1, <2>2, <2>3, AnsweredTyped DEF McpTypeOK
<1>4. ASSUME NEW c \in Callers, GoOn(c) PROVE McpTypeOK'
  <2>1. script[c] \in Seq(Calls) /\ script[c] # <<>>
    BY <1>4 DEF GoOn, McpTypeOK
  <2>2. Tail(script[c]) \in Seq(Calls)
    BY <2>1, ScriptTail
  <2>3. QED
    BY <1>4, <2>2 DEF GoOn, McpTypeOK
<1>5. ASSUME NEW c \in Callers, Respond(c) PROVE McpTypeOK'
  <2>1. PICK how \in {"ok", "error"} : Answered(c, how)
    BY <1>5 DEF Respond
  <2>2. opHolder' = NoCaller /\ script' = [script EXCEPT ![c] = <<>>] /\ UNCHANGED opWaiting
    BY <1>5 DEF Respond
  <2>3. QED
    BY <1>0, <2>1, <2>2, AnsweredTyped DEF McpTypeOK
<1>6. ASSUME NEW c \in Callers, FindNoCharger(c) PROVE McpTypeOK'
  <2>1. Answered(c, "error")
    BY <1>6 DEF FindNoCharger
  <2>2. opHolder' = NoCaller /\ script' = [script EXCEPT ![c] = <<>>] /\ UNCHANGED opWaiting
    BY <1>6 DEF FindNoCharger
  <2>3. QED
    BY <1>0, <2>1, <2>2, AnsweredTyped DEF McpTypeOK
<1>7. ASSUME UNCHANGED service PROVE McpTypeOK'
  BY <1>7 DEF service, McpTypeOK
<1>8. QED
  BY <1>1, <1>2, <1>3, <1>4, <1>5, <1>6, <1>7
  DEF McpNext, Handle, CallClient, InClient, Surroundings, mcpVars

\* Every variable of the service keeps its type, the log its bound
\* (mod.rs:104-110, session.rs:59-73).
THEOREM ServiceTypeCorrect == McpSpec => []McpTypeOK
<1>1. McpInit => McpTypeOK
  <2> SUFFICES ASSUME McpInit PROVE McpTypeOK
    OBVIOUS
  <2>1. /\ <<>> \in Seq(Callers) /\ <<>> \in Seq(Calls) /\ <<>> \in Seq(Event)
        /\ Len(<<>>) = 0
    OBVIOUS
  <2>2. opWaiting \in Seq(Callers) /\ log \in Seq(Event)
    BY <2>1, Zenon DEF McpInit
  <2>3. Len(log) <= LogCapacity
    BY LogAssumption DEF McpInit
  <2>4. script \in [Callers -> Seq(Calls)]
    BY <2>1 DEF McpInit
  <2>5. /\ opHolder \in Callers \cup {NoCaller}
        /\ tool \in [Callers -> Tools \cup {NoTool}]
        /\ answer \in [Callers -> {"none", "ok", "error"}]
    BY DEF McpInit
  <2>6. QED
    BY <2>2, <2>3, <2>4, <2>5 DEF McpTypeOK
<1>2. McpTypeOK /\ [McpNext]_mcpVars => McpTypeOK'
  BY ServiceTypesStep
<1>3. QED
  BY <1>1, <1>2, PTL DEF McpSpec

-----------------------------------------------------------------------------
(* The service drives the client as its specification allows. *)

\* Every step of the service is a step of the client or none.
LEMMA ClientStepOrNone == McpTypeOK /\ [McpNext]_mcpVars => [Next]_vars
<1> SUFFICES ASSUME McpTypeOK, [McpNext]_mcpVars PROVE [Next]_vars
  OBVIOUS
<1>1. ASSUME NEW c \in Callers, CallClient(c) PROVE Next
  <2>1. Head(script[c]) \in Calls
    BY <1>1, ScriptTail DEF CallClient, McpTypeOK
  <2>2. QED
    BY <1>1, <2>1 DEF CallClient, Next
<1>2. ASSUME NEW c \in Callers, InClient(c) \/ GoOn(c) \/ Respond(c) PROVE Next
  BY <1>2 DEF InClient, GoOn, Respond, Step, Next
<1>3. ASSUME Surroundings PROVE Next
  BY <1>3 DEF Surroundings, Next
<1>4. ASSUME NEW c \in Callers, NEW t \in Tools, Dispatch(c, t) PROVE UNCHANGED vars
  BY <1>4, Zenon DEF Dispatch
<1>5. ASSUME NEW c \in Callers, Begin(c) \/ Decline(c) \/ FindNoCharger(c)
      PROVE  UNCHANGED vars
  BY <1>5, Zenon DEF Begin, Decline, FindNoCharger
<1>6. ASSUME UNCHANGED mcpVars PROVE UNCHANGED vars
  BY <1>6, Zenon DEF mcpVars
<1>7. QED
  BY <1>1, <1>2, <1>3, <1>4, <1>5, <1>6, Zenon DEF McpNext, Handle

\* The service with its tools implements the specification of the client
\* (mcp/mod.rs:157-178, mcp/tools.rs): what holds of the client under any
\* use holds under the tools.
THEOREM ServiceImplementsClient == McpSpec => ImplementsClient
<1>1. McpInit => Init
  BY DEF McpInit
<1>2. McpTypeOK /\ [McpNext]_mcpVars => [Next]_vars
  BY ClientStepOrNone
<1>3. QED
  BY <1>1, <1>2, ServiceTypeCorrect, PTL DEF McpSpec, Spec, ImplementsClient

-----------------------------------------------------------------------------
(* The model gate under the operation lock. *)

\* What the steps of one call do to the task, the model and the link: they
\* write a write-class frame only for an operation that passed the gate,
\* and change the model only for one that needs none.
Effect(c) ==
    /\ pc' = [pc EXCEPT ![c] = pc'[c]] /\ call' = call
    /\ \/ /\ UNCHANGED <<model, linkModel>> /\ pc'[c] # "link"
          /\ wire'.wrote => wire.wrote \/ call[c].op \in Gated
       \/ /\ model' = NoModel /\ linkModel' = NoModel /\ wire' = FreshWire
          /\ call[c].op \notin Gated
       \/ /\ pc[c] = "link" /\ pc'[c] = "done" /\ model' = linkModel'
          /\ wire' = wire /\ call[c].op \notin Gated

\* A frame that is not write-class leaves the record of writes alone.
LEMMA TransmitWrote ==
    ASSUME NEW c \in Callers, NEW f, NEW s, Transmit(c, f, s)
    PROVE  wire'.wrote => wire.wrote \/ f \in WriteClass
<1>1. PICK heard : wire' = [stopped |-> Stopped(f, s), part |-> Part(c, f), by |-> c,
                            wrote |-> wire.wrote \/ f \in WriteClass, heard |-> heard]
  BY Zenon DEF Transmit
<1>2. wire'.wrote = (wire.wrote \/ f \in WriteClass)
  BY <1>1, Zenon
<1>3. QED
  BY <1>2, Zenon

\* What a wait concludes moves its caller only, and never to "link".
LEMMA ConcludeMoves ==
    ASSUME Core, NEW c \in Callers, NEW how, NEW n, Conclude(c, how, n)
    PROVE  pc' = [pc EXCEPT ![c] = pc'[c]] /\ pc'[c] # "link"
<1> USE DEF Core, TypeOK
<1>1. CASE ConcludeReply(c, how, n)
  BY <1>1 DEF ConcludeReply, Finish
<1>2. CASE ConcludeStop(c)
  BY <1>2 DEF ConcludeStop, Stay
<1>3. CASE ConcludeStart(c)
  BY <1>3 DEF ConcludeStart, Stay, Finish
<1>4. CASE ConcludeProfile(c, how)
  BY <1>4 DEF ConcludeProfile, Stay, Finish
<1>5. QED
  BY <1>1, <1>2, <1>3, <1>4 DEF Conclude

\* Every step inside a call has such an effect.
LEMMA StepEffect ==
    ASSUME Core, NEW c \in Callers, Step(c), pc[c] # "done"
    PROVE  Effect(c)
<1>0. pc \in [Callers -> Labels]
  BY DEF Core, TypeOK
<1>1. CASE Acquire(c)
  BY <1>0, <1>1 DEF Acquire, FirstStep, Effect, history, transport
<1>2. CASE NextPoll(c)
  BY <1>0, <1>2 DEF NextPoll, Effect, history, transport
<1>3. CASE Unlink(c)
  <2>1. call[c].op \notin Gated
    BY <1>3 DEF Unlink, Core, StageInv, Gated
  <2>2. pc' = [pc EXCEPT ![c] = pc'[c]]
    BY <1>0, <1>3 DEF Unlink, Stay, Finish
  <2>3. QED
    BY <1>3, <2>1, <2>2 DEF Unlink, Effect
<1>4. CASE Link(c)
  <2>1. call[c].op \notin Gated
    BY <1>4 DEF Link, Core, StageInv, Gated
  <2>2. QED
    BY <1>0, <1>4, <2>1 DEF Link, Finish, Effect
<1>5. CASE LinkFails(c)
  BY <1>0, <1>5 DEF LinkFails, Finish, Effect, history, transport
<1>6. CASE WriteFails(c)
  BY <1>0, <1>6 DEF WriteFails, Finish, Effect, history, transport
<1>7. CASE WriteAndForget(c)
  <2>1. call[c].op \in Gated
    BY <1>7 DEF WriteAndForget, Gated
  <2>2. QED
    BY <1>0, <1>7, <2>1 DEF WriteAndForget, Finish, Effect
<1>8. CASE WriteAndWait(c)
  <2>1. wire'.wrote => wire.wrote \/ RequestFrame(c) \in WriteClass
    BY <1>8, TransmitWrote DEF WriteAndWait
  <2>2. RequestFrame(c) \in WriteClass => call[c].op \in Gated
    BY <1>8 DEF WriteAndWait, RequestFrame, WriteClass, FrameKinds, Gated
  <2>3. pc' = [pc EXCEPT ![c] = pc'[c]] /\ pc'[c] # "link" /\ call' = call
        /\ UNCHANGED <<model, linkModel>>
    BY <1>0, <1>8 DEF WriteAndWait, Stay
  <2>4. QED
    BY <2>1, <2>2, <2>3 DEF Effect
<1>9. CASE StopMasked(c) \/ WriteChunk1(c) \/ WriteChunk2(c) \/ StartMasked(c)
  <2>1. call[c].op \in Gated
    BY <1>9 DEF StopMasked, WriteChunk1, WriteChunk2, StartMasked, Core, StageInv, Gated
  <2>2. call' = call /\ UNCHANGED <<model, linkModel>>
    BY <1>9 DEF StopMasked, WriteChunk1, WriteChunk2, StartMasked
  <2>3. pc' = [pc EXCEPT ![c] = pc'[c]] /\ pc'[c] # "link"
    BY <1>0, <1>9 DEF StopMasked, WriteChunk1, WriteChunk2, StartMasked, Stay, Finish
  <2>4. QED
    BY <2>1, <2>2, <2>3 DEF Effect
<1>10. CASE Settled(c)
  BY <1>0, <1>10 DEF Settled, Stay, Finish, Effect, history, transport
<1>11. CASE Receive(c) \/ StreamEnds(c) \/ Deadline(c)
  <2>1. PICK how, n : Conclude(c, how, n)
    BY <1>11 DEF Receive, StreamEnds, Deadline
  <2>2. call' = call /\ UNCHANGED <<model, linkModel, wire>>
    BY <1>11 DEF Receive, StreamEnds, Deadline
  <2>3. QED
    BY <2>1, <2>2, ConcludeMoves DEF Effect
<1>12. CASE Discard(c)
  <2>1. pc' = pc /\ call' = call /\ UNCHANGED <<model, linkModel, wire>> /\ pc[c] # "link"
    BY <1>12 DEF Discard, client, tasks, history, Waits
  <2>2. QED
    BY <1>0, <2>1 DEF Effect
<1>13. QED
  BY <1>1, <1>2, <1>3, <1>4, <1>5, <1>6, <1>7, <1>8, <1>9, <1>10, <1>11, <1>12
  DEF Step, Return

\* The owner of the operation lock is alone with the client.
LEMMA Alone ==
    ASSUME GateInv, NEW c \in Callers, script[c] # <<>> \/ opHolder = c,
           NEW d \in Callers, d # c
    PROVE  pc[d] = "idle" /\ script[d] = <<>>
BY DEF GateInv

\* GateInv is inductive relative to the types of the service and the
\* invariant of the client.
LEMMA GateStep == McpTypeOK /\ Core /\ GateInv /\ [McpNext]_mcpVars => GateInv'
<1> SUFFICES ASSUME McpTypeOK, Core, GateInv, [McpNext]_mcpVars PROVE GateInv'
  OBVIOUS
<1> USE CallersAssumption
<1>0. /\ pc \in [Callers -> Labels] /\ call \in [Callers -> Call \cup {NoCall}]
      /\ script \in [Callers -> Seq(Calls)]
  BY DEF Core, TypeOK, McpTypeOK
<1>1. ASSUME NEW c \in Callers, NEW t \in Tools, Dispatch(c, t) PROVE GateInv'
  BY <1>1 DEF Dispatch, vars, GateInv, WritesAllowed, ReadOnlyRespected
<1>2. ASSUME NEW c \in Callers, Begin(c) PROVE GateInv'
  <2>1. opHolder = NoCaller /\ opHolder' = c /\ UNCHANGED vars
        /\ script' = [script EXCEPT ![c] = Script(tool[c])] /\ Script(tool[c]) # <<>>
    BY <1>2 DEF Begin, Granted, OpLockFree
  <2>2. \A d \in Callers : script[d] = <<>> /\ pc[d] = "idle"
    BY <2>1 DEF GateInv
  <2>3. \A d \in Callers : script'[d] # <<>> => d = c
    BY <1>0, <2>1, <2>2
  <2>4. QED
    BY <2>1, <2>2, <2>3 DEF vars, GateInv, WritesAllowed, ReadOnlyRespected
<1>3. ASSUME NEW c \in Callers, Decline(c) PROVE GateInv'
  BY <1>3 DEF Decline, vars, GateInv, WritesAllowed, ReadOnlyRespected
<1>4. ASSUME NEW c \in Callers, CallClient(c) PROVE GateInv'
  <2>1. script[c] # <<>> /\ script' = script /\ opHolder' = opHolder
    BY <1>4 DEF CallClient, service
  <2>2. PICK k : Enter(c, k) \/ Refuse(c, k)
    BY <1>4 DEF CallClient
  <2>3. /\ UNCHANGED <<model, linkModel, wire>>
        /\ \A d \in Callers : d # c => pc'[d] = pc[d] /\ call'[d] = call[d]
        /\ pc'[c] \in {"lock", "done"} /\ call'[c] = k
        /\ pc'[c] = "lock" /\ k.op \in Gated => WritesAllowed
    BY <1>0, <2>2 DEF Enter, Refuse, client, history
  <2>4. QED
    BY <2>1, <2>3 DEF GateInv, WritesAllowed, ReadOnlyRespected
<1>5. ASSUME NEW c \in Callers, InClient(c) PROVE GateInv'
  <2>1. pc[c] # "idle"
    BY <1>5 DEF InClient, Step, Acquire, Return, NextPoll, Unlink, Link, LinkFails,
         WriteAndForget, WriteAndWait, WriteFails, StopMasked, WriteChunk1, WriteChunk2,
         Settled, StartMasked, Receive, Discard, StreamEnds, Deadline, Writing, Waits
  <2>2. script[c] # <<>> /\ pc[c] # "done" /\ script' = script /\ opHolder' = opHolder
    BY <1>5, <2>1 DEF InClient, service, GateInv
  <2>3. Effect(c)
    BY <1>5, StepEffect DEF InClient
  <2>4. \A d \in Callers : d # c => pc[d] = "idle" /\ pc'[d] = "idle"
    BY <1>0, <2>2, <2>3, Alone DEF Effect
  <2>5. call[c].op \in Gated => WritesAllowed
    BY <2>1, <2>2 DEF GateInv
  <2>6. CASE /\ UNCHANGED <<model, linkModel>> /\ pc'[c] # "link"
             /\ wire'.wrote => wire.wrote \/ call[c].op \in Gated
    BY <2>2, <2>3, <2>4, <2>5, <2>6 DEF Effect, GateInv, WritesAllowed, ReadOnlyRespected
  <2>7. CASE /\ model' = NoModel /\ linkModel' = NoModel /\ wire' = FreshWire
             /\ call[c].op \notin Gated
    BY <2>2, <2>3, <2>4, <2>7 DEF Effect, GateInv, ReadOnlyRespected, FreshWire
  <2>8. CASE /\ pc[c] = "link" /\ pc'[c] = "done" /\ model' = linkModel'
             /\ wire' = wire /\ call[c].op \notin Gated
    <3>1. ~wire.wrote
      BY <2>8 DEF GateInv, ReadOnlyRespected, NoModel
    <3>2. QED
      BY <2>2, <2>3, <2>4, <2>8, <3>1 DEF Effect, GateInv, ReadOnlyRespected
  <2>9. QED
    BY <2>3, <2>6, <2>7, <2>8 DEF Effect
<1>6. ASSUME NEW c \in Callers, GoOn(c) \/ Respond(c) PROVE GateInv'
  <2>1. Return(c)
    BY <1>6 DEF GoOn, Respond
  <2>2. /\ UNCHANGED <<model, linkModel, wire>> /\ pc[c] = "done" /\ pc'[c] = "idle"
        /\ \A d \in Callers : d # c => pc'[d] = pc[d]
    BY <1>0, <2>1 DEF Return, client, history
  <2>3. script[c] # <<>> /\ opHolder = c
    BY <2>2 DEF GateInv
  <2>4. \A d \in Callers : d # c => pc[d] = "idle" /\ script[d] = <<>> /\ script'[d] = <<>>
    BY <1>0, <1>6, <2>3, Alone DEF GoOn, Respond
  <2>5. script'[c] # <<>> => opHolder' = c
    BY <1>0, <1>6, <2>3 DEF GoOn, Respond
  <2>6. QED
    BY <2>2, <2>4, <2>5 DEF GateInv, ReadOnlyRespected
<1>7. ASSUME NEW c \in Callers, FindNoCharger(c) PROVE GateInv'
  <2>1. opHolder = c /\ pc[c] = "idle" /\ UNCHANGED vars
        /\ script' = [script EXCEPT ![c] = <<>>]
    BY <1>7 DEF FindNoCharger
  <2>2. \A d \in Callers : script'[d] = <<>> /\ pc[d] = "idle"
    BY <1>0, <2>1, Alone
  <2>3. QED
    BY <2>1, <2>2 DEF vars, GateInv, ReadOnlyRespected
<1>8. ASSUME Surroundings \/ UNCHANGED mcpVars PROVE GateInv'
  <2>1. UNCHANGED <<model, linkModel, wire, pc, call, script, opHolder>>
    BY <1>8 DEF Surroundings, Deliver, LoseLink, EndStream, client, tasks, history,
         service, mcpVars, vars
  <2>2. QED
    BY <2>1 DEF GateInv, WritesAllowed, ReadOnlyRespected
<1>9. QED
  BY <1>1, <1>2, <1>3, <1>4, <1>5, <1>6, <1>7, <1>8 DEF McpNext, Handle

\* Under the tools no write-class frame reaches a charger that was connected
\* as read-only, however tool calls are pipelined (docs/safety-model.md:16);
\* on the bare client this fails.
THEOREM ToolsRespectReadOnly == McpSpec => []ReadOnlyRespected
<1>1. McpInit => GateInv
  BY DEF McpInit, Init, GateInv, ReadOnlyRespected, FreshWire
<1>2. McpTypeOK /\ Core /\ GateInv /\ [McpNext]_mcpVars => GateInv'
  BY GateStep
<1>3. GateInv => ReadOnlyRespected
  BY DEF GateInv
<1>4. McpSpec => []Core
  <2>1. McpSpec => Spec
    BY ServiceImplementsClient DEF ImplementsClient
  <2>2. QED
    BY <2>1, CoreInvariant
<1>5. QED
  BY <1>1, <1>2, <1>3, <1>4, ServiceTypeCorrect, PTL DEF McpSpec

-----------------------------------------------------------------------------
(* Confirmation. *)

\* The fields of a client call that Fits looks at.
LEMMA ClientIs ==
    ASSUME NEW op, NEW slots, NEW k, k = Client(op, slots)
    PROVE  k.op = op /\ k.slots = slots /\ ~k.start
BY DEF Client, NoCall

LEMMA OneCall == ASSUME NEW k PROVE \A i \in DOMAIN <<k>> : <<k>>[i] = k
OBVIOUS

LEMMA TwoCalls ==
    ASSUME NEW k, NEW l PROVE \A i \in DOMAIN <<k, l>> : <<k, l>>[i] \in {k, l}
OBVIOUS

\* The script of a tool call that passed its checks fits its token.
LEMMA ScriptFits ==
    ASSUME NEW t \in Tools, Permitted(t)
    PROVE  \A i \in DOMAIN Script(t) : Fits(t, Script(t)[i])
<1> DEFINE harmless == {"connect", "disconnect", "poll_all_status", "status", "stop",
                        "stop_acked", "wait_for"}
<1>0. ASSUME NEW k, k.op \in harmless PROVE Fits(t, k)
  BY <1>0 DEF Fits
<1>1. ASSUME t.name \notin Starts \cup Applies \cup {"mc3000_set_basic", "mc3000_send_raw"}
      PROVE  \A i \in DOMAIN Script(t) : Script(t)[i].op \in harmless
  <2>1. CASE t.name = "connect"
    <3> DEFINE k == [Client("connect", {}) EXCEPT !.model = t.model]
    <3>1. Script(t) = <<k>>
      BY <2>1, Zenon DEF Script
    <3>2. k.op = "connect"
      BY DEF Client, NoCall
    <3> HIDE DEF k
    <3>3. \A i \in DOMAIN Script(t) : Script(t)[i] = k
      BY <3>1, OneCall, Zenon
    <3>4. QED
      BY <3>2, <3>3
  <2>2. ASSUME NEW op, NEW slots, op \in harmless, Script(t) = <<Client(op, slots)>>
        PROVE  \A i \in DOMAIN Script(t) : Script(t)[i].op \in harmless
    <3>1. \A i \in DOMAIN Script(t) : Script(t)[i] = Client(op, slots)
      BY <2>2, OneCall, Zenon
    <3>2. Client(op, slots).op = op
      BY ClientIs
    <3>3. QED
      BY <2>2, <3>1, <3>2, Zenon
  <2>3. CASE t.name = "disconnect"
    <3>1. Script(t) = <<Client("disconnect", {})>>
      BY <2>3, Zenon DEF Script
    <3>2. QED
      BY <2>2, <3>1
  <2>4. CASE t.name = "status"
    <3>1. Script(t) = <<Client("poll_all_status", Slots)>>
          \/ Script(t) = <<Client("status", t.slots)>>
      BY <2>4, Zenon DEF Script
    <3>2. QED
      BY <2>2, <3>1
  <2>5. CASE t.name = "stop"
    <3>1. Script(t) = <<Client("stop", t.slots)>>
      BY <2>5, Zenon DEF Script
    <3>2. QED
      BY <2>2, <3>1
  <2>6. CASE t.name = "stop_all"
    <3>1. Script(t) = [i \in 1..Cardinality(Slots) |-> Client("stop_acked", {SlotOrder[i]})]
      BY <2>6, Zenon DEF Script
    <3>2. \A i \in DOMAIN Script(t) : Script(t)[i] = Client("stop_acked", {SlotOrder[i]})
      BY <3>1, Zenon
    <3>3. \A i \in DOMAIN Script(t) : Client("stop_acked", {SlotOrder[i]}).op = "stop_acked"
      BY ClientIs
    <3>4. \A i \in DOMAIN Script(t) : Script(t)[i].op = "stop_acked"
      BY <3>2, <3>3, Zenon
    <3>5. QED
      BY <3>4
  <2>7. CASE t.name = "charger.validate_profile"
    <3>1. Script(t) = <<>>
      BY <2>7, Zenon DEF Script
    <3>2. QED
      BY <3>1
  <2>8. QED
    BY <1>1, <2>1, <2>3, <2>4, <2>5, <2>6, <2>7, ToolsAssumption
    DEF Tool, ToolNames, Starts, Applies
<1>2. ASSUME t.name \in Starts PROVE \A i \in DOMAIN Script(t) : Fits(t, Script(t)[i])
  <2>1. Script(t) = <<Client("start", t.slots)>>
    BY <1>2, Zenon DEF Script, Starts
  <2>2. t.token.is = "START_SLOT" /\ t.slots = {t.token.slot}
    <3>1. Confirmed(t)
      BY Zenon DEF Permitted
    <3>2. t.name \notin Applies \cup {"mc3000_set_basic", "mc3000_send_raw"}
      BY <1>2 DEF Starts, Applies
    <3>3. QED
      BY <1>2, <3>1, <3>2, Zenon DEF Confirmed
  <2>3. \A i \in DOMAIN Script(t) : Script(t)[i] = Client("start", t.slots)
    BY <2>1, OneCall, Zenon
  <2>4. Fits(t, Client("start", t.slots))
    <3> DEFINE k == Client("start", t.slots)
    <3>1. k.op = "start" /\ k.slots = t.slots
      BY ClientIs
    <3> HIDE DEF k
    <3>2. Fits(t, k)
      BY <2>2, <3>1 DEF Fits
    <3>3. QED
      BY <3>2 DEF k
  <2>5. QED
    BY <2>3, <2>4, Zenon
<1>3. ASSUME t.name \in Applies PROVE \A i \in DOMAIN Script(t) : Fits(t, Script(t)[i])
  <2>1. Script(t) = <<Client("send_profile", t.slots)>>
    BY <1>3, Zenon DEF Script, Applies
  <2>2. t.live /\ Confirmed(t)
    BY <1>3, Zenon DEF Permitted, DryRun
  <2>3. t.token.is = "APPLY_PROFILE_SLOT" /\ t.slots = {t.token.slot}
    <3>1. t.name \notin Starts \cup {"mc3000_set_basic", "mc3000_send_raw"}
      BY <1>3 DEF Starts, Applies
    <3>2. QED
      BY <1>3, <2>2, <3>1, Zenon DEF Confirmed
  <2>4. \A i \in DOMAIN Script(t) : Script(t)[i] = Client("send_profile", t.slots)
    BY <2>1, OneCall, Zenon
  <2>5. Fits(t, Client("send_profile", t.slots))
    <3> DEFINE k == Client("send_profile", t.slots)
    <3>1. k.op = "send_profile" /\ k.slots = t.slots /\ k.start = FALSE
      BY ClientIs
    <3> HIDE DEF k
    <3>2. Fits(t, k)
      BY <2>2, <2>3, <3>1 DEF Fits
    <3>3. QED
      BY <3>2 DEF k
  <2>6. QED
    BY <2>4, <2>5, Zenon
<1>4. ASSUME t.name = "mc3000_set_basic" PROVE \A i \in DOMAIN Script(t) : Fits(t, Script(t)[i])
  <2>1. Script(t) = <<Client("set_basic", {})>>
    BY <1>4, Zenon DEF Script
  <2>2. t.token.is = "SET_BASIC"
    BY <1>4, Zenon DEF Permitted, Confirmed, Starts, Applies
  <2>3. \A i \in DOMAIN Script(t) : Script(t)[i] = Client("set_basic", {})
    BY <2>1, OneCall, Zenon
  <2>4. Fits(t, Client("set_basic", {}))
    BY <2>2, ClientIs DEF Fits
  <2>5. QED
    BY <2>3, <2>4, Zenon
<1>5. ASSUME t.name = "mc3000_send_raw" PROVE \A i \in DOMAIN Script(t) : Fits(t, Script(t)[i])
  <2> DEFINE k == RawWrite(t)
             l == Client("wait_for", {})
  <2>1. Script(t) = <<k, l>> \/ Script(t) = <<k>>
    BY <1>5, Zenon DEF Script
  <2>2. t.token.is = "SEND_RAW"
    BY <1>5, Zenon DEF Permitted, Confirmed, Starts, Applies
  <2>3. k.op = "write" /\ l.op = "wait_for"
    BY DEF RawWrite, Client, NoCall
  <2> HIDE DEF k, l
  <2>4. Fits(t, k) /\ Fits(t, l)
    BY <2>2, <2>3 DEF Fits
  <2>5. \A i \in DOMAIN Script(t) : Script(t)[i] \in {k, l}
    <3>1. k \in {k, l}
      OBVIOUS
    <3>2. QED
      BY <2>1, <3>1, OneCall, TwoCalls, Zenon
  <2>6. QED
    BY <2>4, <2>5
<1> HIDE DEF harmless
<1>6. QED
  BY <1>0, <1>1, <1>2, <1>3, <1>4, <1>5

\* What is left of a script that fits fits.
LEMMA FitsTail ==
    ASSUME NEW t, NEW s \in Seq(Calls), s # <<>>, \A i \in DOMAIN s : Fits(t, s[i])
    PROVE  \A i \in DOMAIN Tail(s) : Fits(t, Tail(s)[i])
<1>1. \A i \in DOMAIN Tail(s) : i + 1 \in DOMAIN s /\ Tail(s)[i] = s[i + 1]
  OBVIOUS
<1>2. QED
  BY <1>1

\* ScriptsFit is inductive relative to the other invariants.
LEMMA FitStep ==
    McpTypeOK /\ Core /\ GateInv /\ ScriptsFit /\ [McpNext]_mcpVars => ScriptsFit'
<1> SUFFICES ASSUME McpTypeOK, Core, GateInv, ScriptsFit, [McpNext]_mcpVars
             PROVE  ScriptsFit'
  OBVIOUS
<1> USE CallersAssumption
<1>0. /\ pc \in [Callers -> Labels] /\ call \in [Callers -> Call \cup {NoCall}]
      /\ script \in [Callers -> Seq(Calls)] /\ tool \in [Callers -> Tools \cup {NoTool}]
  BY DEF Core, TypeOK, McpTypeOK
<1>1. ASSUME NEW c \in Callers, NEW t \in Tools, Dispatch(c, t) PROVE ScriptsFit'
  <2>1. tool[c] = NoTool /\ tool' = [tool EXCEPT ![c] = t] /\ UNCHANGED <<vars, script>>
    BY <1>1 DEF Dispatch
  <2>2. script[c] = <<>> /\ pc[c] = "idle"
    BY <2>1 DEF ScriptsFit, GateInv
  <2>3. \A d \in Callers : d # c => tool'[d] = tool[d]
    BY <1>0, <2>1
  <2>4. QED
    BY <2>1, <2>2, <2>3 DEF vars, ScriptsFit
<1>2. ASSUME NEW c \in Callers, Begin(c) PROVE ScriptsFit'
  <2>1. /\ opHolder = NoCaller /\ UNCHANGED <<vars, tool>> /\ Permitted(tool[c])
        /\ script' = [script EXCEPT ![c] = Script(tool[c])] /\ Script(tool[c]) # <<>>
    BY <1>2 DEF Begin, Granted, OpLockFree
  <2>2. pc[c] = "idle"
    BY <2>1 DEF GateInv
  <2>3. tool[c] # NoTool
    <3>1. Script(NoTool) = <<>>
      BY Zenon DEF Script, NoTool
    <3>2. QED
      BY <2>1, <3>1
  <2>4. \A i \in DOMAIN Script(tool[c]) : Fits(tool[c], Script(tool[c])[i])
    BY <1>0, <2>1, <2>3, ScriptFits
  <2>5. script'[c] = Script(tool[c]) /\ \A d \in Callers : d # c => script'[d] = script[d]
    BY <1>0, <2>1
  <2>6. UNCHANGED <<pc, call, tool>>
    BY <2>1 DEF vars
  <2>7. QED
    BY <2>2, <2>3, <2>4, <2>5, <2>6 DEF ScriptsFit
<1>3. ASSUME NEW c \in Callers, Decline(c) PROVE ScriptsFit'
  <2>1. /\ opHolder = NoCaller /\ UNCHANGED <<vars, script>>
        /\ tool' = [tool EXCEPT ![c] = NoTool]
    BY <1>3 DEF Decline, Granted, OpLockFree, Answered
  <2>2. \A d \in Callers : script[d] = <<>> /\ pc[d] = "idle"
    BY <2>1 DEF GateInv
  <2>3. QED
    BY <2>1, <2>2 DEF vars, ScriptsFit
<1>4. ASSUME NEW c \in Callers, CallClient(c) PROVE ScriptsFit'
  <2>1. script[c] # <<>> /\ UNCHANGED <<script, tool>>
    BY <1>4 DEF CallClient, service
  <2>2. call' = [call EXCEPT ![c] = Head(script[c])]
    BY <1>4 DEF CallClient, Enter, Refuse
  <2>3. \A d \in Callers : d # c => pc'[d] = pc[d]
    BY <1>0, <1>4 DEF CallClient, Enter, Refuse
  <2>4. call'[c] = Head(script[c]) /\ \A d \in Callers : d # c => call'[d] = call[d]
    BY <1>0, <2>2
  <2>5. QED
    BY <2>1, <2>3, <2>4 DEF ScriptsFit
<1>5. ASSUME NEW c \in Callers, InClient(c) PROVE ScriptsFit'
  <2>1. pc[c] # "idle"
    BY <1>5 DEF InClient, Step, Acquire, Return, NextPoll, Unlink, Link, LinkFails,
         WriteAndForget, WriteAndWait, WriteFails, StopMasked, WriteChunk1, WriteChunk2,
         Settled, StartMasked, Receive, Discard, StreamEnds, Deadline, Writing, Waits
  <2>2. UNCHANGED <<script, tool>> /\ Effect(c)
    BY <1>5, StepEffect DEF InClient, service
  <2>3. call' = call /\ \A d \in Callers : d # c => pc'[d] = pc[d]
    BY <1>0, <2>2 DEF Effect
  <2>4. QED
    BY <2>1, <2>2, <2>3 DEF ScriptsFit
<1>6. ASSUME NEW c \in Callers, GoOn(c) \/ Respond(c) PROVE ScriptsFit'
  <2>1. /\ pc[c] = "done" /\ pc'[c] = "idle"
        /\ \A d \in Callers : d # c => pc'[d] = pc[d] /\ call'[d] = call[d]
    BY <1>0, <1>6 DEF GoOn, Respond, Return
  <2>2. script[c] # <<>> /\ \A d \in Callers : d # c => script[d] = <<>> /\ pc[d] = "idle"
    BY <2>1, Alone DEF GateInv
  <2>3. CASE GoOn(c)
    <3>1. tool' = tool /\ script' = [script EXCEPT ![c] = Tail(script[c])]
      BY <2>3 DEF GoOn
    <3>2. \A i \in DOMAIN Tail(script[c]) : Fits(tool[c], Tail(script[c])[i])
      BY <1>0, <2>2, FitsTail DEF ScriptsFit
    <3>3. script'[c] = Tail(script[c]) /\ \A d \in Callers : d # c => script'[d] = script[d]
      BY <1>0, <3>1
    <3>4. tool[c] # NoTool
      BY <2>2 DEF ScriptsFit
    <3>5. QED
      BY <2>1, <2>2, <3>1, <3>2, <3>3, <3>4 DEF ScriptsFit
  <2>4. CASE Respond(c)
    <3>1. script' = [script EXCEPT ![c] = <<>>]
      BY <2>4 DEF Respond
    <3>2. \A d \in Callers : script'[d] = <<>> /\ pc'[d] = "idle"
      BY <1>0, <2>1, <2>2, <3>1
    <3>3. QED
      BY <3>2 DEF ScriptsFit
  <2>5. QED
    BY <1>6, <2>3, <2>4
<1>7. ASSUME NEW c \in Callers, FindNoCharger(c) PROVE ScriptsFit'
  <2>1. opHolder = c /\ pc[c] = "idle" /\ UNCHANGED vars
        /\ script' = [script EXCEPT ![c] = <<>>]
    BY <1>7 DEF FindNoCharger
  <2>2. \A d \in Callers : script'[d] = <<>> /\ pc'[d] = "idle"
    BY <1>0, <2>1, Alone DEF vars
  <2>3. QED
    BY <2>2 DEF ScriptsFit
<1>8. ASSUME Surroundings \/ UNCHANGED mcpVars PROVE ScriptsFit'
  <2>1. UNCHANGED <<pc, call, script, tool>>
    BY <1>8 DEF Surroundings, Deliver, LoseLink, EndStream, tasks, service, mcpVars, vars
  <2>2. QED
    BY <2>1 DEF ScriptsFit
<1>9. QED
  BY <1>1, <1>2, <1>3, <1>4, <1>5, <1>6, <1>7, <1>8 DEF McpNext, Handle

\* A frame goes out only under the operation lock and in a call that the
\* token of its tool allows for its slot (docs/safety-model.md:10-14).
THEOREM OnlyConfirmedWrites == McpSpec => []WritesConfirmed
<1>1. McpInit => ScriptsFit /\ GateInv
  BY DEF McpInit, Init, ScriptsFit, GateInv, ReadOnlyRespected, FreshWire
<1>2. McpTypeOK /\ Core /\ GateInv /\ ScriptsFit /\ [McpNext]_mcpVars => ScriptsFit'
  BY FitStep
<1>3. McpTypeOK /\ Core /\ GateInv /\ [McpNext]_mcpVars => GateInv'
  BY GateStep
<1>4. McpTypeOK /\ GateInv /\ ScriptsFit => WritesConfirmed
  <2> SUFFICES ASSUME McpTypeOK, GateInv, ScriptsFit, NEW c \in Callers, pc[c] \in Writing
               PROVE  opHolder = c /\ Fits(tool[c], call[c])
    BY DEF WritesConfirmed
  <2>1. script[c] # <<>> /\ opHolder = c /\ call[c] = Head(script[c])
    BY DEF Writing, GateInv, ScriptsFit
  <2>2. script[c] \in Seq(Calls)
    BY DEF McpTypeOK
  <2>3. 1 \in DOMAIN script[c] /\ Head(script[c]) = script[c][1]
    BY <2>1, <2>2
  <2>4. QED
    BY <2>1, <2>3 DEF ScriptsFit
<1>5. McpSpec => []Core
  <2>1. McpSpec => Spec
    BY ServiceImplementsClient DEF ImplementsClient
  <2>2. QED
    BY <2>1, CoreInvariant
<1>6. QED
  BY <1>1, <1>2, <1>3, <1>4, <1>5, ServiceTypeCorrect, PTL DEF McpSpec

=============================================================================
