# Formal model of mc3000-mcp

TLA+ models of the MC3000 charger client and server under `src/src`, the TLC
runs that check them on small instances and the theorems that TLAPS proves
about them for every value of the constants. Paths below are relative to the
repository, which lies in `src/`: `client.rs` is `src/src/client.rs`.

## The system

A charger is reached over one Bluetooth LE link. Frames are written to one
characteristic without response; everything the charger says arrives as
notifications on the same characteristic, with no request id. The program is a
stack of five stateful parts and some pure ones.

| Part | State it keeps | Operations | Talks to |
|---|---|---|---|
| MCP service (`mcp/mod.rs`, `mcp/tools.rs`) | the operation lock; shared client and log | one handler per tool | client, safety layer, session log |
| Session log (`session.rs`) | bounded queue of redacted events | `record`, `events` | - |
| Charger client (`client.rs`) | model, address, curve buffer, `profile_acks`; the request lock | `connect`, `disconnect`, `write`, `start`, `stop`, `stop_acked`, `request` and the requests built on it, `wait_for`, `send_profile` | transport |
| Notification queue (`transport/mod.rs`) | items, closed flag, dropped count; a wake-up permit | `push`, `pop`, `close`, `reopen`, `clear` | pump task, client |
| BLE transport (`transport/ble.rs`) | peripheral, characteristics, pump task | `scan`, `connect`, `disconnect`, `write` | Bluetooth stack, queue |
| Fake transport (`transport/fake.rs`) | the contract of the `Transport` trait, scripted | the same | queue |
| Safety layer (`safety.rs`) | none | `validate_profile`, `profile_to_mc3000_args` | profile builder |
| Profile builder (`profile.rs`) | none | `build_profile` | codec |
| Protocol codec (`protocol.rs`) | none | `command_*`, `parse_notification`, `split_profile` | - |

What is hard about it:

* replies carry no request id, may be lost, late or never sent (chunk 1 of a
  profile has no answer, firmware 1.13 never acknowledges a profile), so what a
  wait returns depends on what earlier calls left behind;
* tasks share one client: each call is several awaits long, and every await is
  a point where another task may run;
* the link may vanish between any two steps, and its notification stream ends
  some time later;
* a profile takes up to eleven frames (stops, two chunks, starts) and must not
  be broken into, nor written to a slot that still runs.

What makes each part correct: the client serializes its calls, attributes
replies to the call that waits, never breaks a profile, never writes to a
read-only charger and always comes back; the queue loses only its oldest
entries, never a wake-up; the transport never mixes two links, but for a pump
caught running as it is aborted, and loses track of none, but in a call that
fails half-way (both below, under `BleTransport`); the service runs
one tool at a time, asks for a token before it writes, and refuses an unsafe
profile; the log is bounded and redacted.

## Modules

| Module | Models |
|---|---|
| `ChargerClient` | `client.rs` over the contract of the `Transport` trait |
| `ChargerClientProofs` | theorems about `ChargerClient`: types, lock, profiles, links |
| `ChargerClientReplyProofs` | theorems about `ChargerClient`: whose reply a wait takes |
| `MCChargerClient` | instances of `ChargerClient` for TLC |
| `BoundedFifo` | what the notification queue promises: a closable bounded queue whose asker is answered in one step |
| `NotificationQueue` | `NotificationQueue` of `transport/mod.rs`, with its mutex, its wake-up permit and the loop of `pop`; shown to implement `BoundedFifo` |
| `NotificationQueueProofs` | theorems about `NotificationQueue` |
| `CurveReassembly` | the `curve_buffer` of `client.rs`: what `wait_for_locked` makes of curves that come in fragments |
| `CurveReassemblyProofs` | theorems about `CurveReassembly` |
| `MCCurveReassembly` | instances of `CurveReassembly` for TLC |
| `BleTransport` | `connect`, `disconnect` and the pump of `transport/ble.rs`, over `BoundedFifo` |
| `BleTransportProofs` | theorems about `BleTransport` |
| `MCBleTransport` | the instance of `BleTransport` for TLC |
| `MCNotificationQueue` | the instance of `NotificationQueue` for TLC |
| `McpService` | `mcp/mod.rs`, the handlers of `mcp/tools.rs` and `SessionLog`, over `ChargerClient`, whose specification it implements |
| `McpServiceProofs` | theorems about `McpService`: the client it drives, gates and tokens |
| `McpServiceReportProofs` | theorems about `McpService`: what answers and the log say |
| `MCMcpService` | instances of `McpService` for TLC |
| `ProfileSafety` | `safety.rs` and the builder of `profile.rs`: from a profile to the fields of its frame |
| `ProfileSafetyProofs` | theorems about `ProfileSafety` |
| `MCProfileSafety` | the profiles and parameters for TLC |

`McpService` extends `ChargerClient`: its tasks are the client's tasks, and the
steps inside a call are the client's own. `ChargerClient` is written against the
contract of the queue (put, evict, end, take), which `NotificationQueue`
implements. `BleTransport` extends that queue and shows what keeps its side of
the contract: who puts, closes, clears and reopens. `CurveReassembly` is the part
of `wait_for_locked` that `ChargerClient` leaves out, over calls that come one at
a time, which `Serialized` says they do. `ProfileSafety` stands alone: it computes what `McpService` only
calls a safe profile, an unsafe one or no frame.

### ChargerClient

A task (`Callers`) is at one await at a time, named by `pc`; a step is the code
from that await to the next. `Enter` and `Refuse` are a call up to the request
lock: the model gate and the enqueueing have no await between them and are one
step. `Acquire` is the grant of the lock, which tokio's mutex gives in the order
it was asked for. The steps of the operations are:

| Step | Code |
|---|---|
| `Unlink`, `Link`, `LinkFails` | `connect`, `disconnect` |
| `WriteAndForget` | `write`, `start`, `stop` |
| `WriteAndWait` | `stop_acked`, `request` (here `status`, `poll_all_status`, `set_basic`) |
| `StopMasked`, `WriteChunk1`, `WriteChunk2`, `Settled`, `StartMasked` | `send_profile` |
| `Receive`, `Discard`, `StreamEnds`, `Deadline` | `wait_for_locked`, with `Conclude` as what each caller makes of its result |
| `NextPoll` | the poll gap of `poll_all_status` |
| `Deliver`, `LoseLink`, `EndStream` | the pump, the air, the end of the stream |

`model` and `profileAcks` are the fields of `ClientState`, `holder` and
`waiting` the request lock, `queue` and `closed` the notification queue. `air`
holds the answers the charger has sent and the host has not received. The
charger may miss a frame, hear it without answering, or answer it late; a wait
may end by its deadline at any moment.

History variables record what the program cannot see and the properties speak
of: the number of the link, the model it was connected for, what the link
carried (`wire`), and whether an answer may come that nobody waits for
(`orphans`). No guard reads them.

Abstracted: a frame is its kind and its slot, a notification its kind, its
result byte and (as history) whom it answers. A call whose arguments a codec
rejects returns before the lock and is left out. `connect` keeps the
transport's `connect` and the assignment after it in one step, since the task
holds the lock and no reader of the model looks at the link. The last poll gap
of `poll_all_status` is merged with its return. Nothing in the program cancels
a client call, so cancellation is not modelled. The voltage curve is not among
the calls: with no curve the buffer stays empty, and `CurveReassembly` is about
what happens when it does not.

`profile_acks` outlives its connection, although its comment speaks of "this
connection", and a wait takes the late reply to an earlier call for its own, since
replies of one kind are never told apart. The model does the same. The properties
that hold ask that neither breaks a profile or shortens its settle delay;
`RepliesAttributed` speaks only of links on which every frame was waited for until
its reply came, so it excludes late replies. What a late one may do remains: an
acknowledgement of one stop confirms another that the charger never heard, and a
status answers the poll of another slot.

### CurveReassembly

A curve has 245 bytes and comes in notifications of 20. `wait_for_locked`
collects them in `curve_buffer`: one whose second byte reads as the curve's
opcode empties the buffer first (`Starts`, `Kept`), any other goes into a buffer
that is not empty (`Buffered`), and a buffer of 245 bytes or more is parsed and
emptied (`Complete`, `Fill`). Everything else is parsed as it is. `Conclude` is
the match with what is waited for.

| Step | Code |
|---|---|
| `Connect`, `Disconnect` | both clear the queue and the buffer |
| `Request`, `RequestFails` | `request`, as `curve`, `status` and `stop_acked` use it |
| `Take` | one round of the loop of `wait_for_locked` |
| `Deadline`, `StreamEnds` | its two errors |
| `Lose`, `LoseLink` | a notification lost by the radio or evicted by the queue; a link lost with what was on its way |

A notification is an opcode, a length and, as history, the request and the part
of the answer it is. Which opcode the second byte of a later fragment reads as is
up to the measured voltage, hence `Disguises`; it is the high byte of a number of
millivolts, so it is never the curve's own. A wait is one step short: the write
and the begin of the wait are `Request`, and nothing else touches the buffer
between them, since the lock is held. `swallowed` counts the awaited replies that
went into the buffer, `damaged` the requests whose answer lost a part.

A buffer left over by a curve that timed out does swallow the replies of later
calls; `SwallowingEnds` says for how long, `CurveResidue` shows the first.

### BleTransport

`connect` and `disconnect` are one caller's steps, from await to await (`step`);
`target` and `old` are their locals.

| Step | Code |
|---|---|
| `TakeState`, `Teardown`, `ClearOld`, `CloseOld` | `disconnect`, which `connect` begins with |
| `Dial`, `DialFails` | adapters, discovery, `peripheral.connect()` |
| `Setup`, `SetupFails` | services, characteristic, subscription, stream |
| `ClearNew`, `ReopenNew`, `Spawn` | the queue's clear and reopen, the pump, the stored state |
| `Poll`, `Forward`, `StreamEnds`, `Yield` | the pump: polled, pushing, closing the queue at the end of its stream, back at its await |
| `Consumer` | `next_notification` and `clear_pending` |
| `Notify`, `LoseLink` | the air |

`clear`, `close` and `reopen` have no await between them and what comes next, but
pumps run on other threads, so each is a step of its own. `abort` takes effect at
an await: a pump that is idle never runs again, one that runs goes on to its next
await (`Aborted`). `up` is what the operating system has a link to, `link` what
the transport remembers; `leaked` is history, the links let go while alive by a
connect that failed after `peripheral.connect()` or a `disconnect` whose failure
was suppressed. `stale` says that an aborted pump was caught running after the
queue was reopened: the one case in which the queue of a new link may hold a
notification of the old one or be closed at once.

The caller is alone: the client's request lock is held around `connect`,
`disconnect` and every wait. `find_and_connect`, scanning and the mapping of
backend errors appear only as success or failure.

### NotificationQueue and BoundedFifo

`push` and `close` change the state under a mutex and notify after letting it
go: `Push` and `Close` are the first half, `NotifyOne` the second, and `owes`
says which threads are between them. `pop` takes the mutex, lets it go, and only
then awaits `notified()`: `Pop`, then `TakeItem`, `TakeEnd` or `FindNothing`,
then `Register`, which finds a stored permit or waits, then `Wake`. `GiveUp` is
the deadline of `wait_for_locked` dropping the future of `pop`; tokio forwards a
wake-up that had reached it, which is the permit being set again.

There is one consumer. `pop` is reached only through `wait_for_locked`, under
the request lock, and `connect` and `disconnect` hold that lock when they clear
and reopen the queue. With two consumers the model would not do, nor would the
code: `close` notifies one. Several threads push and close: the pump of an old
link may still be running when that of the new one starts.

Entries are numbers in the order of their arrival. `pushed`, `last`, `taken`
and `cleared` are history. `BoundedFifo` knows neither permit nor mutex; its
`asking` is `at # "away"`, and its weak fairness of `Answer` is what a lost
wake-up would break.

### McpService

A task is one tool call. `Dispatch` is its arrival (the server runs pipelined
requests concurrently); `Granted` is `operation_lock.lock().await`.

| Step | Code |
|---|---|
| `Begin` | a handler from the lock to its first client call: arguments, profile, mask, token, dry run, as `Permitted` |
| `Decline` | a handler that returns without a client call, with a result (`AnswersAtOnce`) or an error |
| `CallClient` | the handler makes its next client call (`Enter` or `Refuse` of `ChargerClient`) |
| `InClient` | a step inside that call |
| `GoOn` | the call returned and the handler has another to make: `stop_all`, or a raw write that waits |
| `Respond` | the handler records its result and returns, and the lock is free |
| `FindNoCharger` | `find_and_connect` without an address: its scan fails |

`Script` lists the client calls a handler makes, in order. `Bearable` says
after which results it goes on, `Untimely` that a raw write looks at its timeout
only after the frame is out. `Begin` and `CallClient` are separate although no
await lies between them; that allows more interleavings than the code has.

Abstracted: an argument is what the checks make of it (a profile is safe,
unsafe or no frame; a token has a kind and a slot). The requests rejected for
`start: true` or for a malformed argument return before anything else and are
left out. Tools that read one value (version, basic settings) have the steps of
`status`; so have the curve tools, as far as locks and log go. Redaction is not modelled.

### ProfileSafety

The safety layer and the builder keep no state; the variables are the results
of one call so far. `Submit` is a profile as `charger.apply_profile` gets it,
`SubmitParams` the fields that `mc3000_build_profile` and
`mc3000_apply_profile` give to the builder without any limit. `Validate` is
`validate_profile` (`Accepted`), `Convert` `profile_to_mc3000_args`
(`ParamsOf`), `Build` `build_profile` (`Resolved`, `Buildable`).

A number that JSON may leave out is a set of at most one integer, and the
Python idiom "or" of the source is `Or` and `Truthy`. A null is a number left
out, except for `negative_delta_mv`, whose null is a zero. `wellFormed` stands
for the checks of the other fields. `Low` is `lo8`, in two's complement `% 256`.
A frame is the record of its fields: where each lies and the checksum are
codec. The charge limit of one C is the capacity itself. Integers are not cut to
64 bits: beyond a word a frame is refused anyway, and the only arithmetic on
unchecked numbers (the nominal voltage) is compared with at once.

`safety_limits` publishes the limits a second time and gives LiFe those of LiIon;
nothing in the program reads them back, so they are not part of the model.

The charge voltage has a property of its own. Validation looks at it only if it is
given, and not for a break-in; the builder fills in one default for all lithium
cells. `WithinLimits` therefore leaves it out, `VoltageGapsKnown` names every way
it gets out of its range, and `SafetyVoltage` holds what remains against the
documentation. A discharge charges nothing, so none of them looks at
its charge voltage.

### Mutants

Definitions called `X_Y` next to a definition `X` are `X` with a mistake the
code could have had; they serve only to show that a property notices it.

## Runs

Properties that hold:

| Run | Instance | Shows |
|---|---|---|
| `ClientProfile` | 2 tasks, slots 0 and 1, profiles with masks {0,1} (no start) and {0,4} (start), a start, a reconnect; queue 1, one answer in the air, two links | `TypeOK`; the lock serializes calls (`RequestsSerialized`); the chunks and starts of a profile are contiguous on the link (`ProfileUnbroken`) and come after the stops (`MaskedSlotsStopped`); no notification survives its link (`NoStaleNotification`); an `ok` of `send_profile` means that the whole sequence was written on one link (`ProfileReportHonest`); whatever `profile_acks` has cached, over a reconnect too, a profile goes on only after the settle delay or its own acknowledgement (`ProfileSettles`) |
| `ClientRequests` | 2 tasks: connects, polls of both slots, a stop that is awaited and one that is not; queue 1, one link | with no answer orphaned, at most one is outstanding and it belongs to the task that waits (`RepliesAttributed`); every call that asked for the lock returns (`CallsReturn`) |
| `QueueWakeups` | 2 pumps, queue of 2, 4 entries | a consumer that waits while there is something for it is notified (`NoLostWakeup`); no entry disappears uncounted or out of order (`Accounted`); the queue answers as `BoundedFifo` does, fairness included (`ImplementsFifo`) |
| `CurveReplies` | curves of 5 bytes in fragments of 2, 2 and 1, replies of 2; 4 requests, 2 links | types, with the buffer below a curve's length (`TypeOK`); the buffer is one curve's (`BufferHoldsOneCurve`) and one link's (`NothingOutlivesLink`); a curve returned is one whole answer unless that answer itself lost a part (`LossSpoilsOwnCurve`); what a leftover swallows is bounded (`SwallowingEnds`), and without a loss no wait misses its reply (`RepliesGetThrough`) |
| `BleLinks` | 2 chargers, 2 streams, queue of 2, 3 notifications | types and the capacity of the queue (`BleTypeOK`); the transport loses track of a link only in a call that fails half-way (`LinksOwned`); the queue of a stored link is its own, and open until that link has ended and all it said is queued, but for a pump caught running (`QueueIsOfLink`); who waits on a link that ended is told (`LossIsTold`) |
| `McpGate` | 2 tasks; reconnects as either model, a start, a stop, polls, `stop_all` | the client looks at the model before it awaits its lock and never again, and the operation lock closes that gap (`ReadOnlyRespected`); an `ok` of `stop_all` means a stop of every slot went out and nothing was started since (`StopAllStopsAll`); an event is recorded only for what the link carried, with nothing of another tool call after it (`LogHonest`) |
| `McpTokens` | 1 task; tokens right, wrong, missing and of another slot, dry runs, unsafe and malformed profiles, raw frames | a frame is written only in a call its tool's token, slot and dry-run flag allow (`WritesConfirmed`); the handlers drive the client as its specification says (`ImplementsClient`); the log of one event keeps its bound (`McpTypeOK`) and says applied only of a whole profile (`LogHonest`) |
| `McpLiveness` | 2 tasks: a connect, polls, `stop_all` | every dispatched tool call is answered (`ToolsAnswer`) |
| `SafetyProfiles` | profiles of 9 chemistries and 6 operations, with and without a charge voltage, each field in turn at and around its limits, break-ins with a cycle mode they can be built with; parameters of 10 battery codes and 6 modes | a frame is bytes and words (`TypeOK`) within the limits of the profile's chemistry (`WithinLimits`), its charge voltage but for a break-in that gives one and for a storage or LiFe profile that gives none (`VoltageGapsKnown`); an accepted profile has a frame but for known reasons (`FailuresKnown`); nickel cells get no lithium voltage by default (`NickelDefaultsSuit`) |

Statements of the documentation that the code does not keep, each with the
counterexample TLC finds:

| Run | Property | Disagreement |
|---|---|---|
| `CurveResidue` | `TimeoutMeansNoReply` | a wait may time out with its reply received: a curve that lost a fragment swallows it |
| `McpUnsafe` | `OnlySafeProfiles` | `mc3000_apply_profile` never asks the safety limits |
| `SafetyVoltage` | `ChargeVoltageEnforced` | a charge voltage that a break-in gives is never looked at, and written; one that is left out becomes 4200 mV, for LiFe and for storage too |

Bounds. Two tasks are enough for every interleaving the properties speak of:
they relate the owner of the lock to one other task. Two links let state of the
first meet the second. Two slots, and a mask with a bit that names none, let
the loops run zero, one and two rounds; a queue of one overflows, and one of
two does not. `MaxAir` bounds the answers under way and `MaxLinks` the links;
they appear in the guards of `Transmit` and `Link` and nowhere else.
`MaxPushes`, in the guard of `Push`, is twice the capacity of the queue, so
that a full queue loses every entry it first held. The model has two of the
charger's four slots: `stop_all` goes round its loop for each. A curve of three
fragments has a first, a middle and a short last one; a leftover of any length
meets a reply that fits, one that fills it and one that goes beyond. `MaxAsks`
and its own `MaxLinks` bound the requests and links of `CurveReassembly`, in the
guards of `Request` and `Connect`; four requests are a curve that goes wrong, one
that is swallowed, one that ends the swallowing and one after it. In
`BleTransport`, `MaxLinks` bounds the streams (`Setup`) and `MaxSent` the
notifications (`Notify`): one of the old link more than the queue holds. One task is
enough for `McpTokens`, whose question is what a handler lets through; two
tasks contend for the operation lock in the other runs. `SafetyProfiles` takes a
profile that passes for each chemistry and operation and moves one field at a
time: the checks look at one field each, but for the charge current and the
nominal voltage, and the theorems cover every combination.

Deadlock is checked in every run: a task can always make another call, and the
transport's caller another `connect` or `disconnect`.

Fairness. `FairSpec` has weak fairness of the steps of every task that is
inside a call: the runtime polls what is ready, timers fire (so `Deadline` or
something better happens), the transport answers its calls, and the mutex is
FIFO, so the grant needs no strong fairness. Nothing is assumed of the air: no
reply need ever arrive. Nor has a task to make calls. `McpFairSpec` says the
same of the steps of every handler, and needs nothing stronger since both locks
are FIFO. The queue's `FairSpec` has weak fairness of the consumer's steps and of
each thread's notification, which follows its mutex with no await between; a
pump need neither push nor close. `BleFairSpec` has weak fairness of each pump,
which the runtime polls until it is over, and of the answer to who waits, which
is what `QueueWakeups` shows of the queue; calls need not be made, notifications
need not come, and `connect` need not get on.

## Proofs

`ChargerClientProofs` holds for every set of tasks, finite set of slots, set of
calls and bounds that the named assumptions of `ChargerClient` allow.

The invariant everything rests on is `Core`: types, `RequestsSerialized`,
`StageInv` (where a call can be, by its operation, and what is left of its
loop) and `LinkInv` (answers are under way only over a live link, whose queue
is open). None of the four is inductive alone: that a step keeps the types
needs to know that its loop has a slot left, which is `StageInv`, which needs
the lock. On `Core` rest

* `TypeCorrect` and `Serialized`, its parts;
* `ProfileStaysUnbroken` and `StopsPrecedeProfile`, by `ProfileInv`: for each
  task, what the link carried agrees with how far its profile has got. A step
  of the lock's owner cannot disturb the facts of a task outside the lock
  (`ProgressKept`), so each action has one case to look at;
* `ProfileReportedHonestly`: the last step of a profile finds `ProfileInv` at the
  end of the sequence (`ConcludeHonest`), and no other step reports one
  (`HonestStep`);
* `NotificationsFresh`: a link is made only with nothing queued or coming.

`ChargerClientReplyProofs` holds for the same constants.

* `RepliesInOrder`: `RepliesAttributed` is inductive on `Core`, which says that
  only the owner of the lock is at a wait. Two facts carry it: while no reply is
  orphaned nothing is queued or coming unless a task waits (`NothingPending`),
  so the answer to the next frame is alone (`AnswerAwaited`); and a frame whose
  answer nobody waits for makes an orphan of that answer (`AnswerForgotten`).
* `InvHolds`: what the runs check of the client as invariants, in one theorem.
* `ProfileSettlesOnOwnAck` by `AckInv` (`AcknowledgementsOwned`): unless
  `profile_acks` is known to be no, there is one profile acknowledgement at most
  on its way, and the task it is for waits for it. `ProfileSettles` looks at the
  step that ends the wait; that it cannot be the acknowledgement of an earlier
  profile follows only from what was on its way before. A wait that ends without
  one settles the matter for good (`AckMissed`), so that a late one is never
  taken for the next profile's. Delivery and eviction leave the order of what
  comes alone (`ComingDelivered`). As in the property, no caller writes raw
  frames: one with the opcode of a second chunk could be acknowledged too.

`NotificationQueueProofs` holds for every set of threads, capacity and bound on
the entries.

* `WakeupsNotLost` rests on `KeptInvariant`: types and `NoLostWakeup` together
  are inductive. Two facts carry it: a thread that changes the state owes a
  notification until it has given it, and `Register` consumes a permit only to
  look at the queue again.
* `EntriesAccounted`: `Accounted` is inductive on the types. That the queue
  holds the latest entries in order (`Latest`) is what makes eviction at the
  head lose the oldest; `LatestTail` and `LatestAppend` say how it is kept.
* `ImplementsFifoSafety`: each step of the queue is a step of `BoundedFifo` or
  none (`FifoStep`). Its fairness is checked by TLC.

`McpServiceProofs` holds for every set of tasks and tool calls that the named
assumptions allow, and every capacity of the log.

* `ServiceTypeCorrect`: types, with the bound of the log.
* `ServiceImplementsClient`: each step is a step of `ChargerClient` or leaves
  its variables alone. Every theorem of `ChargerClientProofs` therefore holds
  under the tools, and `Core` may be used below.
* `ToolsRespectReadOnly` by `GateInv`: only the owner of the operation lock has
  client calls to make, so nobody else is inside the client (`Alone`), the
  model is that of the link, and it allows writes from the gate to the last
  frame. `ReadOnlyRespected` alone is not inductive: it says nothing of a call
  past the gate whose frame is still to come. `StepEffect` says what a step of
  the client can do to the model, the link and the gate.
* `OnlyConfirmedWrites` by `ScriptsFit`: what is left of a script fits the token
  of its tool call (`ScriptFits`, `FitsTail`), and the call under way is its
  head.

`McpServiceReportProofs` holds for the same constants.

* `HandlersEffective` by `ReportInv`: `Effected` says what the call under way has
  made of the link, and `Scripted` what the handler has left to do: of `stop_all`,
  a stop for every slot not stopped yet. Neither `StopAllStopsAll` nor `LogHonest`
  says anything before the answer is given, so the rounds of the loop need it.
  It is inductive on `GateInv`, `ScriptsFit`, `Core` and `ProfileInv`: that
  no other tool call has the client (`Alone`) is what keeps a stopped slot
  stopped, and `HonestStep` gives the part of `send_profile`.
* `SlotOrderComplete`: the script of `stop_all` names every slot. That a finite set
  of numbers can be enumerated in ascending order is shown from a least set
  that cannot (`LeastMember`, `AscendingGrows`), in place of an induction.
* `StopAllReachesEverySlot`: at the last call of the script, every slot is covered
  by it or stopped already (`AllStopped`), and that call has ended with an
  acknowledgement or without, which leaves its stop on the link either way.
* `LogTruthful`: of the three steps that answer a tool call, those that record an
  event find the call it tells of at its end (`EventTruthful`).

`CurveReassemblyProofs` holds for every length of a curve, of its fragments and
of a reply, and every number of fragments that makes up the curve.

* `TypeCorrect` and `OneCurveBuffered`: the invariant is `Core`, the types with
  what the buffer is and how notifications are cut (`Shaped`: only a first
  fragment reads as a curve). Types alone do not say that a partial curve stays
  short; that a buffer is emptied when full and not before does. `TakeFacts`
  says what a step of the wait does, `RequestFacts` and `LoseFacts` the others.
* `LinksDoNotMix` on `Core`: both `connect` and `disconnect` empty the queue and
  the buffer, and nothing is sent without a link.
* `CurvesAreWhole` and `RepliesReachWaits` by `Together`: what the host still has
  of an answer that lost nothing lies together, in its order, across the buffer
  and what is coming (`Linked`), and a buffer that such an answer began holds
  nothing else (`BufferIntact`). `LossSpoilsOwnCurve` looks at the result alone
  and is not inductive. `LinkedRemove`, `LinkedPrefix`, `LinkedSuffix` and
  `LinkedAppend` say what a loss, a lost link, a taken notification and a new
  answer do to `Linked`; `NextFits` says that after the buffer of an intact curve
  comes its next fragment, and `IntactLength` that it fills the buffer with the
  last one and not before.
* `PartialCurveFills` by `SwallowedFit`, that the first fragment and what was
  swallowed since are in the buffer: `SwallowingEnds` forgets the length of the
  buffer and is not inductive.

`BleTransportProofs` holds for every set of addresses, capacity and bound.

* `BleTypeCorrect` by `BleInv`: types, with the target and its address noted while
  a link is being made, and no stored link during a call.
* `LinksStayOwned`: `LinksOwned` is inductive on the types.
* `QueueStaysOfLink` by `QueueInv`: from `disconnect` to the reopening the queue is
  closed, and empty once cleared, so that only the new pump puts into it, or an
  aborted one caught running, which `stale` notes. The queue of a stored link is
  then open until that link has ended and all it had to say is queued.
* `NobodyAsksMeanwhile`: what `BoundedFifo` demands of whoever clears or reopens
  it never blocks `connect`. That each step is one operation of `BoundedFifo` or
  none is how `BleTransport` is written and not a result.

`ProfileSafetyProofs` holds for every set of profiles and parameters.

* `SafetyTypeCorrect`: the builder makes bytes and words. On the way,
  `ParamsTyped` and `FrameTyped` give the type of each conversion.
* `FramesWithinLimits` rests on `Traced`, that each stage is the work of the one
  before, for an accepted profile (`FrameTraced`): types alone say nothing of where
  a frame came from. `FrameWithin` is the fact about the two conversions.
* `VoltageGaps` from the same and `VoltageWritten`: a charge voltage may be absent,
  zero or given, and which range it was held against depends on the operation.
* `AcceptedIsBuilt` by `FailureCause`: an accepted number fits its word unless
  no limit looks at it, and only break-in profiles meet the short table of cycle
  modes (`BreakInAsked`).
* `NickelDefaults`, for parameters no limit was applied to as well.

Every invariant and every safety action property the passing runs check is a
theorem. TLC only: the liveness properties `CallsReturn`, `ToolsAnswer`,
`LossIsTold` and the fairness part of `ImplementsFifo`. They rest on fairness and
on which actions are enabled, which is out of the prover's reach.

## Plan

In this order; each part with its run, its mutants and its theorems:

1. the client, 2. the notification queue, 3. the MCP service, 4. the safety
layer and the profile builder, 5. the reassembly of voltage curves, 6. the BLE
transport: above;
7. theorems for the action properties and for `RepliesAttributed`: above.

## Not modelled

The layout of frames and JSON, argument parsing, scanning, resources and
prompts: pure conversions or reads, tested by fixtures and without state.
