---------------------------- MODULE BleTransport ----------------------------
(***************************************************************************)
(* The BLE backend of src/src/transport/ble.rs: connect and disconnect     *)
(* with their awaits, the pump task that connect spawns and disconnect     *)
(* aborts, and the links of the operating system, which outlive what the   *)
(* transport remembers of them.  The notification queue is BoundedFifo,    *)
(* which NotificationQueue implements; an entry is the link it came from.  *)
(*                                                                         *)
(* The runtime is multi-threaded (main.rs:66), so a pump runs between any  *)
(* two steps of connect.  connect, disconnect and next_notification come   *)
(* one at a time, under the request lock of the client.  Links are         *)
(* numbered as their streams are opened.                                   *)
(***************************************************************************)
EXTENDS BoundedFifo

CONSTANTS
    Addresses,  \* the chargers in reach
    NoAddress,
    MaxLinks,   \* bound: streams ever opened
    MaxSent     \* bound: notifications ever sent

Links == 1..MaxLinks
NoLink == 0

ASSUME AddressAssumption == NoAddress \notin Addresses
ASSUME BleBoundsAssumption == MaxLinks \in Nat /\ MaxSent \in Nat
ASSUME QueueAssumption == Capacity \in Nat \ {0} /\ Items = Links /\ End = NoLink

VARIABLES
    step,    \* where connect or disconnect stands
    target,  \* the address connect is to reach; none for disconnect
    old,     \* the address of the peripheral that disconnect took
    link,    \* BleState: the link of its peripheral, characteristics, pump
    pump,    \* per link: its pump task
    opened,  \* streams opened so far
    addr,    \* per link: the address it leads to
    up,      \* addresses the operating system has a link to
    stream,  \* per link: notifications its stream still holds
    broken,  \* links that ended: their stream ends after what it holds
    sent,    \* history: notifications ever sent
    leaked,  \* history: addresses whose link the transport let go alive
    stale    \* history: an aborted pump touched the queue of this link

caller == <<step, target, old>>
links  == <<opened, addr, up, broken, leaked>>
pumps  == <<pump, stream, sent, stale>>
ble == <<caller, link, links, pumps>>
bleVars == <<vars, ble>>

AddressOf(l) == IF l = NoLink THEN NoAddress ELSE addr[l]
LinksTo(a) == {l \in 1..opened : addr[l] = a}

BleInit ==
    /\ Init
    /\ step = "away" /\ target = NoAddress /\ old = NoAddress
    /\ link = NoLink
    /\ opened = 0 /\ addr = [l \in Links |-> NoAddress]
    /\ up = {} /\ broken = {} /\ leaked = {}
    /\ pump = [l \in Links |-> "none"] /\ stream = [l \in Links |-> 0]
    /\ sent = 0 /\ stale = FALSE

\* The locals of connect and disconnect go with the call.
Goto(here, there) ==
    /\ step = here /\ step' = there
    /\ target' = IF there = "away" THEN NoAddress ELSE target
    /\ old' = IF here = "teardown" THEN NoAddress ELSE old

-----------------------------------------------------------------------------
(* disconnect, which connect begins with. *)

\* The state is taken and its pump aborted: no longer that of the stored
\* link, it goes on only to its next await.
TakeState_Untaken(a) ==
    /\ step = "away" /\ ~asking
    /\ step' = "teardown" /\ target' = a
    /\ old' = NoAddress
    /\ link' = NoLink
    /\ UNCHANGED <<vars, links, pumps>>
TakeState(a) ==
    /\ step = "away" /\ ~asking
    /\ step' = "teardown" /\ target' = a
    /\ old' = AddressOf(link)
    /\ link' = NoLink
    /\ UNCHANGED <<vars, links, pumps>>

\* An address loses its link.
Unlinked(a) ==
    /\ up' = up \ {a}
    /\ leaked' = leaked \ {a}
    /\ broken' = broken \cup LinksTo(a)

\* The peripheral is disconnected if it is connected; a failure of that is
\* suppressed.
Teardown ==
    /\ Goto("teardown", "clear")
    /\ \/ old \notin up /\ UNCHANGED <<up, leaked, broken>>
       \/ old \in up /\ Unlinked(old)
       \/ old \in up /\ leaked' = leaked \cup {old} /\ UNCHANGED <<up, broken>>
    /\ UNCHANGED <<vars, link, opened, addr, pumps>>

ClearOld == Goto("clear", "close") /\ Clear /\ UNCHANGED <<link, links, pumps>>
CloseOld ==
    /\ Goto("close", IF target = NoAddress THEN "away" ELSE "dial")
    /\ Close
    /\ UNCHANGED <<link, links, pumps>>

-----------------------------------------------------------------------------
(* The rest of connect. *)

\* The charger is found and peripheral.connect() succeeds.
Dial ==
    /\ Goto("dial", "setup")
    /\ up' = up \cup {target}
    /\ leaked' = leaked \ {target}
    /\ UNCHANGED <<vars, link, opened, addr, broken, pumps>>

\* No adapter, no charger found, or peripheral.connect() fails.
DialFails == Goto("dial", "away") /\ UNCHANGED <<vars, link, links, pumps>>

\* Services, characteristic and subscription are as they should be, and the
\* stream is opened.
Setup ==
    /\ Goto("setup", "open")
    /\ target \in up /\ opened < MaxLinks
    /\ opened' = opened + 1
    /\ addr' = [addr EXCEPT ![opened + 1] = target]
    /\ UNCHANGED <<vars, link, up, broken, leaked, pumps>>

\* One of them is not, and connect returns: the link stays as it is.
SetupFails ==
    /\ Goto("setup", "away")
    /\ leaked' = leaked \cup (up \cap {target})
    /\ UNCHANGED <<vars, link, opened, addr, up, broken, pumps>>

ClearNew == Goto("open", "reopen") /\ Clear /\ UNCHANGED <<link, links, pumps>>

ReopenNew_Forgotten ==
    /\ Goto("reopen", "spawn")
    /\ stale' = FALSE
    /\ UNCHANGED <<vars, link, links, pump, stream, sent>>
ReopenNew ==
    /\ Goto("reopen", "spawn")
    /\ Reopen
    /\ stale' = FALSE
    /\ UNCHANGED <<link, links, pump, stream, sent>>

\* The pump is spawned and the state stored, with no await between.
Spawn ==
    /\ Goto("spawn", "away")
    /\ pump' = [pump EXCEPT ![opened] = "idle"]
    /\ link' = opened
    /\ UNCHANGED <<vars, links, stream, sent, stale>>

-----------------------------------------------------------------------------
(* The pump.  It is aborted once it is not that of the stored link. *)

Aborted(l) == l # link

\* The runtime polls an idle pump that has something to do, unless aborted.
Poll(l) ==
    /\ pump[l] = "idle" /\ ~Aborted(l)
    /\ stream[l] > 0 \/ l \in broken
    /\ pump' = [pump EXCEPT ![l] = "running"]
    /\ UNCHANGED <<vars, caller, link, links, stream, sent, stale>>

\* A closed queue ignores the push.
Forward(l) ==
    /\ pump[l] = "running"
    /\ stream[l] > 0
    /\ stream' = [stream EXCEPT ![l] = @ - 1]
    /\ IF closed THEN UNCHANGED <<vars, stale>>
                 ELSE Put(l) /\ stale' = (stale \/ Aborted(l))
    /\ UNCHANGED <<caller, link, links, pump, sent>>

\* The stream ended.
StreamEnds_Quietly(l) ==
    /\ pump[l] = "running"
    /\ stream[l] = 0 /\ l \in broken
    /\ pump' = [pump EXCEPT ![l] = "over"]
    /\ UNCHANGED <<vars, caller, link, links, stream, sent, stale>>
StreamEnds(l) ==
    /\ pump[l] = "running"
    /\ stream[l] = 0 /\ l \in broken
    /\ Close
    /\ pump' = [pump EXCEPT ![l] = "over"]
    /\ stale' = (stale \/ Aborted(l))
    /\ UNCHANGED <<caller, link, links, stream, sent>>

\* The await of the next notification: nothing is there, or the task is
\* aborted and the runtime ends its turn.
Yield(l) ==
    /\ pump[l] = "running"
    /\ Aborted(l) \/ (stream[l] = 0 /\ l \notin broken)
    /\ pump' = [pump EXCEPT ![l] = IF Aborted(l) THEN "over" ELSE "idle"]
    /\ UNCHANGED <<vars, caller, link, links, stream, sent, stale>>

Pump(l) == Poll(l) \/ Forward(l) \/ StreamEnds(l) \/ Yield(l)

-----------------------------------------------------------------------------
(* next_notification and clear_pending, and the air. *)

Consumer ==
    /\ step = "away"
    /\ Ask \/ GiveUp \/ Answer \/ Clear
    /\ UNCHANGED ble

\* A notification reaches the stream of a link.
Notify(l) ==
    /\ l <= opened /\ l \notin broken
    /\ sent < MaxSent
    /\ sent' = sent + 1
    /\ stream' = [stream EXCEPT ![l] = @ + 1]
    /\ UNCHANGED <<vars, caller, link, links, pump, stale>>

LoseLink(a) ==
    /\ a \in up
    /\ Unlinked(a)
    /\ UNCHANGED <<vars, caller, link, opened, addr, pumps>>

-----------------------------------------------------------------------------
Calling ==
    \/ Teardown \/ ClearOld \/ CloseOld
    \/ Dial \/ DialFails \/ Setup \/ SetupFails
    \/ ClearNew \/ ReopenNew \/ Spawn

BleNext ==
    \/ \E a \in Addresses \cup {NoAddress} : TakeState(a)
    \/ Calling
    \/ \E l \in Links : Pump(l) \/ Notify(l)
    \/ Consumer
    \/ \E a \in Addresses : LoseLink(a)

BleSpec == BleInit /\ [][BleNext]_bleVars

\* The runtime polls the pumps; who waits on the queue is answered, as
\* NotificationQueue does.
BleFairSpec ==
    /\ BleSpec
    /\ \A l \in Links : WF_bleVars(Pump(l))
    /\ WF_bleVars(Answer /\ Consumer)

-----------------------------------------------------------------------------
(* Properties. *)

\* Every variable has its type (ble.rs:30-48).
BleTypeOK ==
    /\ step \in {"away", "teardown", "clear", "close", "dial", "setup", "open",
                 "reopen", "spawn"}
    /\ target \in Addresses \cup {NoAddress} /\ old \in Addresses \cup {NoAddress}
    /\ link \in 0..opened
    /\ pump \in [Links -> {"none", "idle", "running", "over"}]
    /\ opened \in 0..MaxLinks
    /\ addr \in [Links -> Addresses \cup {NoAddress}]
    /\ up \subseteq Addresses /\ leaked \subseteq Addresses
    /\ stream \in [Links -> Nat] /\ broken \subseteq 1..opened
    /\ sent \in 0..MaxSent /\ stale \in BOOLEAN
    /\ items \in Seq(Links) /\ Len(items) <= Capacity
    /\ closed \in BOOLEAN /\ dropped \in Nat /\ asking \in BOOLEAN
    /\ got \in Links \cup {End}

\* A link of the operating system is that of the stored peripheral, is being
\* made or taken down, or was let go by a connect that failed half-way or a
\* disconnect that failed (mod.rs:4, ble.rs:244-286, 328-330).
LinksOwned ==
    up \subseteq leaked \cup {AddressOf(link)}
                 \cup (IF step = "teardown" THEN {old} ELSE {})
                 \cup (IF step \in {"setup", "open", "reopen", "spawn"} THEN {target} ELSE {})

\* Unless a pump that connect aborted was running and got in between, the
\* queue of a stored link is open until that link has ended and all it had
\* to say is queued, and holds notifications of that link alone
\* (ble.rs:287-309).
QueueIsOfLink ==
    link # NoLink /\ ~stale =>
       /\ closed => link \in broken /\ stream[link] = 0
       /\ \A i \in DOMAIN items : items[i] = link

\* Whoever waits for a notification of a link that has ended is told, with
\* no deadline of its own (ble.rs:301-302).
LossIsTold == asking /\ link \in broken ~> ~asking
=============================================================================
