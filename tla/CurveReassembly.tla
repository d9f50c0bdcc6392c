-------------------------- MODULE CurveReassembly --------------------------
(***************************************************************************)
(* The reassembly of voltage curves in src/src/client.rs: what             *)
(* wait_for_locked (559-611) does with the curve_buffer of ClientState,    *)
(* over calls that come one at a time, as the request lock has them        *)
(* (Serialized in ChargerClientProofs).  ChargerClient has the lock and    *)
(* every other call; there the buffer stays empty.                         *)
(*                                                                         *)
(* A notification is the opcode its second byte reads as and its length.   *)
(* Which request and which part of the answer it is, the code cannot see.  *)
(***************************************************************************)
EXTENDS Integers, Sequences, SequencesExt

CONSTANTS
    CurveLen,     \* protocol.CURVE_LEN: length of a curve
    FragmentLen,  \* length of the notifications the charger cuts it into
    Pieces,       \* how many these are; the last may be short
    ReplyLen,     \* length of any other reply
    Disguises,    \* what the second byte of a later fragment may read as
    MaxAsks,      \* bound: requests ever made
    MaxLinks      \* bound: links ever made

Ops == {"curve", "status", "stop"}

ASSUME LengthsAssumption ==
    /\ CurveLen \in Nat /\ ReplyLen \in Nat \ {0}
    /\ FragmentLen \in 1..CurveLen /\ Pieces \in Nat \ {0}
    /\ (Pieces - 1) * FragmentLen < CurveLen /\ CurveLen <= Pieces * FragmentLen
\* That byte is the high byte of a voltage in mV, and 0x56 would be 22 V.
ASSUME DisguisesAssumption == "curve" \notin Disguises
ASSUME BoundsAssumption == MaxAsks \in Nat /\ MaxLinks \in Nat

VARIABLES
    up,        \* the link exists
    coming,    \* notifications sent and not yet taken, oldest first
    filled,    \* length of ClientState.curve_buffer
    wait,      \* the opcode the call under way waits for, or "none"
    result,    \* what the last call returned
    buffer,    \* history: the notifications in the buffer
    met,       \* history: the wait took a reply it was there for
    swallowed, \* history: replies, waited for, that the buffer took in a row
    asked,     \* history: requests made
    link,      \* history: number of the current or last link
    damaged    \* history: requests whose answer lost a notification

vars == <<up, coming, filled, wait, result, buffer, met, swallowed, asked,
          link, damaged>>

-----------------------------------------------------------------------------
(* Notifications. *)

SizeOf(part) == IF part < Pieces THEN FragmentLen ELSE CurveLen - (Pieces - 1) * FragmentLen

Fragment(op, part) == [op |-> op, size |-> SizeOf(part), part |-> part,
                       ask |-> asked + 1, link |-> link]

\* What the charger may answer to a request.
Answers(op) ==
    IF op = "curve"
    THEN {[part \in 1..Pieces |-> Fragment(IF part = 1 THEN "curve" ELSE d, part)] :
             d \in Disguises}
    ELSE {<<[op |-> op, size |-> ReplyLen, part |-> 0, ask |-> asked + 1, link |-> link]>>}

IsReply(n) == n.part = 0

\* A result: of which kind, and made of which notifications.
Result(is, of) == [is |-> is, of |-> of]
NoResult == Result("none", <<>>)

-----------------------------------------------------------------------------
Init ==
    /\ up = FALSE /\ coming = <<>>
    /\ filled = 0 /\ buffer = <<>>
    /\ wait = "none" /\ result = NoResult
    /\ met = FALSE /\ swallowed = 0
    /\ asked = 0 /\ link = 0 /\ damaged = {}

buffering == <<filled, buffer, swallowed>>

ClearBuffer_Forgotten == UNCHANGED buffering
ClearBuffer == filled' = 0 /\ buffer' = <<>> /\ swallowed' = 0

-----------------------------------------------------------------------------
(* connect and disconnect: the old link, what is queued and the partial     *)
(* curve go first, whatever becomes of the new link.                       *)

Connect ==
    /\ wait = "none" /\ link < MaxLinks
    /\ coming' = <<>>
    /\ ClearBuffer
    /\ up' \in BOOLEAN
    /\ link' = IF up' THEN link + 1 ELSE link
    /\ result' = Result(IF up' THEN "connected" ELSE "failed", <<>>)
    /\ UNCHANGED <<wait, met, asked, damaged>>

Disconnect ==
    /\ wait = "none"
    /\ up' = FALSE /\ coming' = <<>>
    /\ ClearBuffer
    /\ result' = NoResult
    /\ UNCHANGED <<wait, met, asked, link, damaged>>

-----------------------------------------------------------------------------
(* request, as curve, status and stop_acked call it. *)

\* The frame is written; the charger may miss it.  The buffer is left as
\* the call before left it.
Request(op) ==
    /\ wait = "none" /\ up /\ asked < MaxAsks
    /\ asked' = asked + 1
    /\ wait' = op
    /\ met' = FALSE
    /\ result' = NoResult
    /\ \/ UNCHANGED coming
       \/ \E a \in Answers(op) : coming' = coming \o a
    /\ UNCHANGED <<up, buffering, link, damaged>>

\* Transport::write fails.
RequestFails ==
    /\ wait = "none" /\ asked < MaxAsks
    /\ asked' = asked + 1
    /\ result' = Result("failed", <<>>)
    /\ UNCHANGED <<up, coming, buffering, wait, met, link, damaged>>

-----------------------------------------------------------------------------
(* wait_for_locked. *)

Finish(is, of) == wait' = "none" /\ result' = Result(is, of)
KeepOn == UNCHANGED <<wait, result>>

\* What the parser makes of a notification, or of a full buffer, is known by
\* the second byte of the first; anything but what is waited for is thrown away.
Conclude(of) == IF of[1].op = wait THEN Finish(wait, of) ELSE KeepOn

\* The data goes into the buffer if it starts a curve, dropping what was
\* there, or if a curve is under way.
Starts(n) == n.op = "curve"
Buffered(n) == Starts(n) \/ filled # 0

Kept_Residue(n) == [size |-> filled, of |-> buffer]
Kept(n) == IF Starts(n) THEN [size |-> 0, of |-> <<>>]
                        ELSE [size |-> filled, of |-> buffer]

Complete_Early(size) == size + FragmentLen > CurveLen
Complete(size) == size >= CurveLen

\* complete_curve: a full buffer is parsed and cleared.
Fill_Unemptied(n) ==
    LET size == Kept(n).size + n.size
        of   == Append(Kept(n).of, n)
    IN  /\ filled' = size /\ buffer' = of
        /\ IF Complete(size) THEN Conclude(of) ELSE KeepOn
Fill(n) ==
    LET size == Kept(n).size + n.size
        of   == Append(Kept(n).of, n)
    IN  IF Complete(size) THEN filled' = 0 /\ buffer' = <<>> /\ Conclude(of)
                          ELSE filled' = size /\ buffer' = of /\ KeepOn

Awaited(n) == IsReply(n) /\ n.op = wait

Take ==
    /\ wait # "none" /\ coming # <<>>
    /\ coming' = Tail(coming)
    /\ LET n == Head(coming)
       IN  /\ IF Buffered(n) THEN Fill(n)
                             ELSE Conclude(<<n>>) /\ UNCHANGED <<filled, buffer>>
           /\ met' = (met \/ Awaited(n))
           /\ swallowed' = IF Buffered(n) /\ Awaited(n) THEN swallowed + 1
                           ELSE IF Starts(n) \/ Awaited(n) THEN 0
                           ELSE swallowed
    /\ UNCHANGED <<up, asked, link, damaged>>

\* The deadline passes: what has been buffered stays.
Deadline ==
    /\ wait # "none"
    /\ Finish("timeout", <<>>)
    /\ UNCHANGED <<up, coming, buffering, met, asked, link, damaged>>

\* The queue is closed and drained.
StreamEnds ==
    /\ wait # "none" /\ ~up /\ coming = <<>>
    /\ Finish("not_connected", <<>>)
    /\ UNCHANGED <<up, coming, buffering, met, asked, link, damaged>>

-----------------------------------------------------------------------------
(* The link. *)

\* A notification is lost: by the radio, or by the queue when nobody pops.
Lose ==
    /\ up
    /\ \E i \in DOMAIN coming :
          /\ coming' = RemoveAt(coming, i)
          /\ damaged' = damaged \cup {coming[i].ask}
    /\ UNCHANGED <<up, buffering, wait, result, met, asked, link>>

\* The link goes, and with it what the host has not received.
LoseLink ==
    /\ up
    /\ up' = FALSE
    /\ \E i \in 0..Len(coming) : coming' = SubSeq(coming, 1, i)
    /\ UNCHANGED <<buffering, wait, result, met, asked, link, damaged>>

-----------------------------------------------------------------------------
Next ==
    \/ Connect \/ Disconnect
    \/ \E op \in Ops : Request(op)
    \/ RequestFails
    \/ Take \/ Deadline \/ StreamEnds
    \/ Lose \/ LoseLink

Spec == Init /\ [][Next]_vars

-----------------------------------------------------------------------------
(* Properties. *)

Notification == [op : Ops \cup Disguises, size : Nat \ {0}, part : 0..Pieces,
                 ask : 1..MaxAsks, link : Nat]
Results == [is : Ops \cup {"none", "connected", "failed", "timeout", "not_connected"},
            of : Seq(Notification)]

\* Every variable has its type (client.rs:102-110), and a partial curve is
\* shorter than a curve.
TypeOK ==
    /\ up \in BOOLEAN
    /\ coming \in Seq(Notification)
    /\ filled \in 0..(CurveLen - 1)
    /\ wait \in Ops \cup {"none"}
    /\ result \in Results
    /\ buffer \in Seq(Notification)
    /\ met \in BOOLEAN /\ swallowed \in Nat
    /\ asked \in 0..MaxAsks /\ link \in 0..MaxLinks
    /\ damaged \subseteq 1..MaxAsks

\* The buffer starts with the first fragment of a curve and has no other in
\* it; so a full one parses as a curve, never as anything else.
BufferHoldsOneCurve ==
    /\ filled = 0 <=> buffer = <<>>
    /\ \A i \in DOMAIN buffer : buffer[i].op = "curve" <=> i = 1

\* Nothing of an earlier link is read on a later one, curves included.
NothingOutlivesLink ==
    /\ \A i \in DOMAIN coming : coming[i].link = link
    /\ \A i \in DOMAIN buffer : buffer[i].link = link

\* A sequence of notifications is the answer to one request, whole.
Whole(of) ==
    /\ Len(of) = Pieces
    /\ \A i \in DOMAIN of : of[i].part = i /\ of[i].ask = of[1].ask

\* A lost notification spoils no curve but its own: a curve returned is the
\* whole answer to one request, unless a fragment of that answer was lost.
LossSpoilsOwnCurve ==
    result.is = "curve" => Whole(result.of) \/ result.of[1].ask \in damaged

\* A partial curve swallows the replies of later calls, but only until they
\* fill it: then the replies get through again.  With 245, 20 and 20 bytes
\* a fragment left over costs at most twelve replies.
SwallowingEnds ==
    swallowed # 0 => (swallowed - 1) * ReplyLen + FragmentLen < CurveLen

\* Without that fault a wait that meets its reply returns it.
RepliesGetThrough ==
    result.is = "timeout" /\ met => damaged # {}

-----------------------------------------------------------------------------
(* What the documentation says and the code does not keep. *)

\* client.rs:333-334, of request: it times out when no matching reply arrives.
TimeoutMeansNoReply == result.is = "timeout" => ~met
=============================================================================
