----------------------------- MODULE McpService -----------------------------
(***************************************************************************)
(* The MCP service of src/src/mcp/mod.rs and the tool handlers of          *)
(* src/src/mcp/tools.rs over the charger client.  A task is one tool call: *)
(* it queues for the operation lock, runs its handler under it, and the    *)
(* handler makes client calls, each of them steps of ChargerClient.  The   *)
(* session log is the part of src/src/session.rs the handlers write to.    *)
(*                                                                         *)
(* A tool that reads device data (status, version, basic settings) makes   *)
(* one call that writes nothing; scans, builders and exports make none and *)
(* are left out.                                                           *)
(***************************************************************************)
EXTENDS ChargerClient

CONSTANTS
    Tools,        \* the tool calls the peer makes
    LogCapacity   \* bound of the session log

ToolNames == {"connect", "disconnect", "status", "stop", "stop_all",
              "mc3000_start", "charger.start", "mc3000_set_basic",
              "mc3000_apply_profile", "charger.apply_profile",
              "charger.validate_profile", "mc3000_send_raw"}

\* A confirmation token, and the slot in its name if it has one.
Token == [is : {"none", "START_SLOT", "APPLY_PROFILE_SLOT", "SET_BASIC", "SEND_RAW"},
          slot : Nat]

\* The arguments of a tool call; those a tool does not have have any value.
\* A profile is safe, refused by the safety limits, or no frame at all; a
\* connect has an address or scans for one; a raw write is a frame of the
\* client or a restore, and may wait, with a timeout that is one or not.
Tool == [name : ToolNames, slots : SUBSET Nat, token : Token, live : BOOLEAN,
         profile : {"safe", "unsafe", "malformed"}, address : BOOLEAN,
         raw : FrameKinds \cup {"Restore"}, wait : BOOLEAN, timely : BOOLEAN,
         model : Models \cup {NoModel}]

NoTool == [name |-> "none", slots |-> {}, token |-> [is |-> "none", slot |-> 0],
           live |-> FALSE, profile |-> "malformed", address |-> FALSE,
           raw |-> "Status", wait |-> FALSE, timely |-> FALSE, model |-> NoModel]

VARIABLES
    opHolder,   \* operation_lock: its owner
    opWaiting,  \* operation_lock: tasks queued for it, oldest first
    tool,       \* per task: the tool call it runs
    script,     \* per task: client calls its handler has still to make
    answer,     \* per task: how its last tool call ended
    log         \* SessionLog.events

service == <<opHolder, opWaiting, tool, script, answer, log>>
mcpVars == <<vars, service>>

-----------------------------------------------------------------------------
(* The client calls of a handler, in order. *)

Client(op, slots) == [NoCall EXCEPT !.op = op, !.slots = slots]

SlotOrder == CHOOSE s \in [1..Cardinality(Slots) -> Slots] :
                \A i, j \in DOMAIN s : i < j => s[i] < s[j]

RawWrite(t) == [Client("write", {}) EXCEPT !.frame = t.raw, !.slots = t.slots]

Script(t) ==
    CASE t.name = "connect" -> <<[Client("connect", {}) EXCEPT !.model = t.model]>>
      [] t.name = "disconnect" -> <<Client("disconnect", {})>>
      [] t.name = "status" ->
            IF t.slots = {} THEN <<Client("poll_all_status", Slots)>>
                            ELSE <<Client("status", t.slots)>>
      [] t.name = "stop" -> <<Client("stop", t.slots)>>
      [] t.name = "stop_all" ->
            [i \in 1..Cardinality(Slots) |-> Client("stop_acked", {SlotOrder[i]})]
      [] t.name \in {"mc3000_start", "charger.start"} -> <<Client("start", t.slots)>>
      [] t.name = "mc3000_set_basic" -> <<Client("set_basic", {})>>
      [] t.name \in {"mc3000_apply_profile", "charger.apply_profile"} ->
            <<Client("send_profile", t.slots)>>
      [] t.name = "mc3000_send_raw" ->
            IF t.wait THEN <<RawWrite(t), Client("wait_for", {})>> ELSE <<RawWrite(t)>>
      [] OTHER -> <<>>

ASSUME ToolsAssumption ==
    /\ Tools \subseteq Tool
    /\ \A t \in Tools :
          \/ t.name = "mc3000_send_raw" /\ t.raw = "Restore"
          \/ Script(t) \in Seq(Calls)
ASSUME LogAssumption == LogCapacity \in Nat

-----------------------------------------------------------------------------
(* What a handler checks before its first client call. *)

Applies == {"mc3000_apply_profile", "charger.apply_profile"}
Starts == {"mc3000_start", "charger.start"}

\* require_token: the exact token of the tool and of its slot.
Confirmed_AnySlot(t) ==
    CASE t.name \in Starts -> t.token.is = "START_SLOT"
      [] t.name \in Applies -> t.token.is = "APPLY_PROFILE_SLOT"
      [] t.name = "mc3000_set_basic" -> t.token.is = "SET_BASIC"
      [] t.name = "mc3000_send_raw" -> t.token.is = "SEND_RAW"
      [] OTHER -> TRUE
Confirmed(t) ==
    CASE t.name \in Starts ->
            t.token.is = "START_SLOT" /\ t.slots = {t.token.slot}
      [] t.name \in Applies ->
            t.token.is = "APPLY_PROFILE_SLOT" /\ t.slots = {t.token.slot}
      [] t.name = "mc3000_set_basic" -> t.token.is = "SET_BASIC"
      [] t.name = "mc3000_send_raw" -> t.token.is = "SEND_RAW"
      [] OTHER -> TRUE

\* The profile of a call that may not be written: charger.apply_profile
\* asks the safety limits, both tools need a frame, the legacy one a mask of
\* exactly one bit.
Unwritable(t) ==
    \/ t.name \in Applies /\ t.profile = "malformed"
    \/ t.name = "charger.apply_profile" /\ t.profile = "unsafe"
    \/ t.name = "mc3000_apply_profile" /\ Cardinality(t.slots) # 1

DryRun(t) == t.name \in Applies /\ ~t.live

\* Only then the handler goes on to the client.
Permitted(t) ==
    /\ ~Unwritable(t) /\ ~DryRun(t) /\ Confirmed(t)
    /\ t.name = "mc3000_send_raw" => t.raw # "Restore"

\* A handler that makes no call still answers: an unsafe profile is a result
\* of charger.apply_profile, as is a dry run that got that far.
AnswersAtOnce(t) ==
    \/ t.name = "charger.validate_profile"
    \/ t.name = "charger.apply_profile" /\ t.profile = "unsafe"
    \/ DryRun(t) /\ ~Unwritable(t)

-----------------------------------------------------------------------------
(* The session log. *)

Event == [tool : ToolNames, slots : SUBSET Nat,
          did : {"validated", "refused", "dry_run", "applied", "started", "stopped"}]

\* The tools whose results are recorded.
Logged == {"charger.validate_profile", "charger.apply_profile", "charger.start", "stop_all"}

Did(t) ==
    CASE t.name = "charger.validate_profile" -> "validated"
      [] t.name = "charger.start" -> "started"
      [] t.name = "stop_all" -> "stopped"
      [] OTHER -> IF t.profile = "unsafe" THEN "refused"
                  ELSE IF DryRun(t) THEN "dry_run" ELSE "applied"

\* record: the oldest event goes when the log is full; a log without
\* capacity keeps nothing.
Recorded_OneMore(e) ==
    IF LogCapacity = 0 THEN log
    ELSE Append(IF Len(log) > LogCapacity THEN Tail(log) ELSE log, e)
Recorded(e) ==
    IF LogCapacity = 0 THEN log
    ELSE Append(IF Len(log) >= LogCapacity THEN Tail(log) ELSE log, e)

EventOf(t) == [tool |-> t.name, did |-> Did(t),
               slots |-> IF t.name = "stop_all" THEN Slots ELSE t.slots]

\* The handler's result, recorded before it is returned.
Answered_Unchecked(c, how) ==
    /\ tool' = [tool EXCEPT ![c] = NoTool]
    /\ answer' = [answer EXCEPT ![c] = how]
    /\ log' = IF tool[c].name \in Logged THEN Recorded(EventOf(tool[c])) ELSE log
Answered(c, how) ==
    /\ tool' = [tool EXCEPT ![c] = NoTool]
    /\ answer' = [answer EXCEPT ![c] = how]
    /\ log' = IF how = "ok" /\ tool[c].name \in Logged
              THEN Recorded(EventOf(tool[c])) ELSE log

-----------------------------------------------------------------------------
McpInit ==
    /\ Init
    /\ opHolder = NoCaller
    /\ opWaiting = <<>>
    /\ tool = [c \in Callers |-> NoTool]
    /\ script = [c \in Callers |-> <<>>]
    /\ answer = [c \in Callers |-> "none"]
    /\ log = <<>>

\* call_tool: the peer may pipeline requests; each waits for the lock.
Dispatch(c, t) ==
    /\ tool[c] = NoTool
    /\ tool' = [tool EXCEPT ![c] = t]
    /\ opWaiting' = Append(opWaiting, c)
    /\ answer' = [answer EXCEPT ![c] = "none"]
    /\ UNCHANGED <<vars, opHolder, script, log>>

OpLockFree_Ignored == TRUE
OpLockFree == opHolder = NoCaller

Granted(c) ==
    /\ OpLockFree
    /\ opWaiting # <<>> /\ Head(opWaiting) = c
    /\ opWaiting' = Tail(opWaiting)

\* The handler runs up to its first client call, ...
Begin(c) ==
    /\ Granted(c)
    /\ Permitted(tool[c]) /\ Script(tool[c]) # <<>>
    /\ opHolder' = c
    /\ script' = [script EXCEPT ![c] = Script(tool[c])]
    /\ UNCHANGED <<vars, tool, answer, log>>

\* ... or returns without one.
Decline(c) ==
    /\ Granted(c)
    /\ ~Permitted(tool[c]) \/ Script(tool[c]) = <<>>
    /\ Answered(c, IF AnswersAtOnce(tool[c]) THEN "ok" ELSE "error")
    /\ UNCHANGED <<vars, opHolder, script>>

\* The handler makes its next client call, ...
CallClient_Unlocked(c) ==
    /\ script[c] # <<>>
    /\ \/ Refuse(c, Head(script[c])) /\ UNCHANGED service
       \/ /\ Head(script[c]).op = "stop" /\ pc[c] = "idle" /\ WritesAllowed
          /\ call' = [call EXCEPT ![c] = Head(script[c])]
          /\ todo' = [todo EXCEPT ![c] = Commanded(Head(script[c]))]
          /\ pc' = [pc EXCEPT ![c] = "write"]
          /\ UNCHANGED <<client, outcome, reply, transport, history, service>>
       \/ Head(script[c]).op # "stop" /\ Enter(c, Head(script[c])) /\ UNCHANGED service
CallClient(c) ==
    /\ script[c] # <<>>
    /\ Enter(c, Head(script[c])) \/ Refuse(c, Head(script[c]))
    /\ UNCHANGED service

InClient(c) ==
    /\ pc[c] # "done"
    /\ Step(c)
    /\ UNCHANGED service

\* ... which returned well enough to go on: stop_all passes over a stop
\* that was not acknowledged, and over no other error.
Bearable_AnyError(c) == outcome[c] = "ok" \/ tool[c].name = "stop_all"
Bearable(c) ==
    \/ outcome[c] = "ok"
    \/ tool[c].name = "stop_all" /\ outcome[c] = "timeout"

\* The timeout of a raw write's wait is looked at after the write.
Untimely(c) ==
    tool[c].name = "mc3000_send_raw" /\ call[c].op = "write"
       /\ tool[c].wait /\ ~tool[c].timely

GoOn_Retry(c) ==
    /\ Return(c)
    /\ Bearable(c) /\ ~Untimely(c) /\ Len(script[c]) > 1
    /\ script' = [script EXCEPT ![c] = IF outcome[c] = "ok" THEN Tail(@) ELSE @]
    /\ UNCHANGED <<opHolder, opWaiting, tool, answer, log>>
GoOn(c) ==
    /\ Return(c)
    /\ Bearable(c) /\ ~Untimely(c) /\ Len(script[c]) > 1
    /\ script' = [script EXCEPT ![c] = Tail(@)]
    /\ UNCHANGED <<opHolder, opWaiting, tool, answer, log>>

\* The handler returns, and with it the guard of the operation lock.
Respond(c) ==
    /\ Return(c)
    /\ ~Bearable(c) \/ Untimely(c) \/ Len(script[c]) = 1
    /\ Answered(c, IF Bearable(c) /\ ~Untimely(c) THEN "ok" ELSE "error")
    /\ opHolder' = NoCaller
    /\ script' = [script EXCEPT ![c] = <<>>]
    /\ UNCHANGED opWaiting

\* find_and_connect without an address: the scan fails or finds no charger.
FindNoCharger(c) ==
    /\ opHolder = c /\ pc[c] = "idle"
    /\ tool[c].name = "connect" /\ ~tool[c].address
    /\ Answered(c, "error")
    /\ opHolder' = NoCaller
    /\ script' = [script EXCEPT ![c] = <<>>]
    /\ UNCHANGED <<vars, opWaiting>>

-----------------------------------------------------------------------------
Handle(c) ==
    \/ Begin(c) \/ Decline(c) \/ CallClient(c) \/ InClient(c)
    \/ GoOn(c) \/ Respond(c) \/ FindNoCharger(c)

Surroundings == (Deliver \/ LoseLink \/ EndStream) /\ UNCHANGED service

McpNext ==
    \/ \E c \in Callers :
          \/ \E t \in Tools : Dispatch(c, t)
          \/ Handle(c)
    \/ Surroundings

McpSpec == McpInit /\ [][McpNext]_mcpVars

\* As for the client: the runtime polls every handler that can go on, and
\* the operation lock is granted in the order it was asked for.
McpFairSpec == McpSpec /\ \A c \in Callers : WF_mcpVars(Handle(c))

-----------------------------------------------------------------------------
(* Properties. *)

\* Every variable the service adds has its type (mod.rs:104-110,
\* session.rs:38-45): among them the bound of the log.
McpTypeOK ==
    /\ opHolder \in Callers \cup {NoCaller}
    /\ opWaiting \in Seq(Callers)
    /\ tool \in [Callers -> Tools \cup {NoTool}]
    /\ script \in [Callers -> Seq(Calls)]
    /\ answer \in [Callers -> {"none", "ok", "error"}]
    /\ log \in Seq(Event) /\ Len(log) <= LogCapacity

\* A client call is what the token of its tool call allows: a start or a
\* profile for the slot in the token's name, settings and raw frames under
\* their own tokens, no profile from a dry run and none that starts.
Fits(t, k) ==
    /\ k.op = "start" => t.token.is = "START_SLOT" /\ k.slots = {t.token.slot}
    /\ k.op = "set_basic" => t.token.is = "SET_BASIC"
    /\ k.op = "write" => t.token.is = "SEND_RAW"
    /\ k.op = "send_profile" =>
          /\ t.live /\ ~k.start
          /\ t.token.is = "APPLY_PROFILE_SLOT" /\ k.slots = {t.token.slot}

\* A frame is about to be written only by the owner of the operation lock,
\* and only in a call its tool's token allows (docs/safety-model.md:10-14).
WritesConfirmed ==
    \A c \in Callers : pc[c] \in Writing => opHolder = c /\ Fits(tool[c], call[c])

\* charger.stop_all answers ok only when a stop of every slot went out on the
\* link and none of them was started since (tools.rs:1269-1297).
StopAllStopsAll ==
    [][\A c \in Callers :
          tool[c].name = "stop_all" /\ answer[c] = "none" /\ answer'[c] = "ok" =>
             Slots \subseteq wire'.stopped]_mcpVars

\* An event that says a slot was written to, started or stopped is recorded
\* only once the link has carried just that, whole, and nothing of another
\* tool call after it (tools.rs:1216-1254, 1293-1296).
LogHonest ==
    [][\A c \in Callers :
          answer[c] = "none" /\ answer'[c] # "none" /\ log' # log =>
             LET e == log'[Len(log')]
             IN  /\ e.did \in {"applied", "started", "stopped"} => wire'.by = c
                 /\ e.did = "applied" =>
                       wire'.part = "whole" /\ (e.slots \cap Slots) \subseteq wire'.stopped
                 /\ e.did = "started" => e.slots \cap wire'.stopped = {}
                 /\ e.did = "stopped" => e.slots \subseteq wire'.stopped]_mcpVars

\* The service drives the client as ChargerClient says tasks do.
ImplementsClient == Spec

\* Every tool call is answered, emergency stops included, whatever else was
\* pipelined and however little the charger answers.
ToolsAnswer == \A c \in Callers : tool[c] # NoTool ~> tool[c] = NoTool

-----------------------------------------------------------------------------
(* The invariants behind ReadOnlyRespected and WritesConfirmed. *)

\* Only the owner of the operation lock has client calls to make or under
\* way; so nobody reconnects between a call's look at the model and its
\* frames, and what was written suits the model the link was made for.
GateInv ==
    /\ \A c \in Callers : script[c] # <<>> => opHolder = c
    /\ \A c \in Callers : pc[c] # "idle" => script[c] # <<>>
    /\ model = linkModel
    /\ \A c \in Callers :
          /\ pc[c] \notin {"idle", "done"} /\ call[c].op \in Gated => WritesAllowed
          /\ pc[c] = "link" => model = NoModel
    /\ ReadOnlyRespected

\* The calls a handler has still to make are allowed by its tool call, and
\* the one under way is the first of them.
ScriptsFit ==
    \A c \in Callers :
       /\ \A i \in DOMAIN script[c] : Fits(tool[c], script[c][i])
       /\ script[c] # <<>> => tool[c] # NoTool
       /\ pc[c] # "idle" => call[c] = Head(script[c])

-----------------------------------------------------------------------------
(* What the documentation says and the code does not keep. *)

\* docs/ble-protocol-notes.md:74-76 and docs/profile-schema.md:5: profiles
\* are validated before any live write.
OnlySafeProfiles ==
    \A c \in Callers :
       pc[c] \in {"chunk1", "chunk2"} => tool[c].profile = "safe"

=============================================================================
