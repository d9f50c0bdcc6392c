------------------------- MODULE BleTransportProofs -------------------------
(***************************************************************************)
(* Proofs about BleTransport, for every set of addresses and every bound.  *)
(***************************************************************************)
EXTENDS BleTransport, TLAPS

USE AddressAssumption, BleBoundsAssumption, QueueAssumption

\* What Put and Answer do to the queue.
LEMMA PutStep ==
    ASSUME BleTypeOK, NEW l \in Links, Put(l)
    PROVE  /\ items' \in Seq(Links) /\ Len(items') <= Capacity
           /\ dropped' \in Nat /\ UNCHANGED <<closed, asking, got>>
           /\ \A i \in DOMAIN items' :
                 items'[i] = l \/ \E j \in DOMAIN items : items'[i] = items[j]
<1>1. CASE Len(items) < Capacity
  <2>1. items' = Append(items, l) /\ UNCHANGED <<closed, asking, got, dropped>>
    BY <1>1 DEF Put
  <2>2. ASSUME NEW i \in DOMAIN items'
        PROVE  items'[i] = l \/ (items'[i] = items[i] /\ i \in DOMAIN items)
    BY <2>1 DEF BleTypeOK
  <2> QED BY <1>1, <2>1, <2>2 DEF BleTypeOK
<1>2. CASE ~(Len(items) < Capacity)
  <2>1. items' = Append(Tail(items), l) /\ dropped' = dropped + 1
           /\ UNCHANGED <<closed, asking, got>>
    BY <1>2 DEF Put
  <2>2. items # <<>> /\ Len(items) = Capacity
    BY <1>2 DEF BleTypeOK
  <2>3. ASSUME NEW i \in DOMAIN items'
        PROVE  items'[i] = l \/ (items'[i] = items[i + 1] /\ i + 1 \in DOMAIN items)
    BY <2>1, <2>2 DEF BleTypeOK
  <2> QED BY <2>1, <2>2, <2>3 DEF BleTypeOK
<1> QED BY <1>1, <1>2

LEMMA AnswerStep ==
    ASSUME BleTypeOK, Answer
    PROVE  /\ items' \in Seq(Links) /\ Len(items') <= Capacity
           /\ got' \in Links \cup {End} /\ asking' \in BOOLEAN
           /\ UNCHANGED <<closed, dropped>>
           /\ \A i \in DOMAIN items' : \E j \in DOMAIN items : items'[i] = items[j]
<1>1. CASE items # <<>> /\ got' = Head(items) /\ items' = Tail(items)
  <2>1. ASSUME NEW i \in DOMAIN items'
        PROVE  items'[i] = items[i + 1] /\ i + 1 \in DOMAIN items
    BY <1>1 DEF BleTypeOK
  <2>2. items' \in Seq(Links) /\ Len(items') <= Capacity /\ got' \in Links
    BY <1>1 DEF BleTypeOK
  <2> QED BY <2>1, <2>2 DEF Answer
<1>2. CASE items = <<>> /\ closed /\ got' = End /\ UNCHANGED items
  BY <1>2 DEF Answer, BleTypeOK
<1> QED BY <1>1, <1>2 DEF Answer

-----------------------------------------------------------------------------
(* Types, and where the address of a link being made is noted. *)

BleInv ==
    /\ BleTypeOK
    /\ step \in {"dial", "setup", "open", "reopen", "spawn"} => target \in Addresses
    /\ step \in {"open", "reopen", "spawn"} => opened # 0 /\ addr[opened] = target
    /\ link # NoLink => step = "away"

LEMMA BleInvInit == BleInit => BleInv
<1> SUFFICES ASSUME BleInit PROVE BleInv
  OBVIOUS
<1>1. /\ items = <<>> /\ closed = FALSE /\ asking = FALSE /\ dropped = 0
      /\ got = End
  BY DEF BleInit, Init
<1>2. /\ opened \in 0..MaxLinks /\ link \in 0..opened /\ sent \in 0..MaxSent
      /\ broken \subseteq 1..opened /\ up \subseteq Addresses /\ leaked \subseteq Addresses
  BY DEF BleInit, NoLink
<1>3. /\ addr \in [Links -> Addresses \cup {NoAddress}]
      /\ pump \in [Links -> {"none", "idle", "running", "over"}]
      /\ stream \in [Links -> Nat]
  BY DEF BleInit
<1>4. items \in Seq(Links) /\ Len(items) <= Capacity
  BY <1>1
<1> QED BY <1>1, <1>2, <1>3, <1>4 DEF BleInit, BleInv, BleTypeOK

LEMMA BleInvStep == BleInv /\ [BleNext]_bleVars => BleInv'
<1> SUFFICES ASSUME BleInv, [BleNext]_bleVars PROVE BleInv'
  OBVIOUS
<1> USE DEF BleInv, NoLink
<1>0. BleTypeOK
  OBVIOUS
<1>1. ASSUME NEW a \in Addresses \cup {NoAddress}, TakeState(a) PROVE BleInv'
  BY <1>1 DEF TakeState, BleTypeOK, AddressOf, vars, links, pumps, Links
<1>2. CASE Teardown
  BY <1>2 DEF Teardown, Goto, Unlinked, LinksTo, BleTypeOK, vars, pumps, Links
<1>3. CASE ClearOld
  BY <1>3 DEF ClearOld, Clear, Goto, BleTypeOK, links, pumps, Links
<1>4. CASE CloseOld
  BY <1>4 DEF CloseOld, Close, Goto, BleTypeOK, links, pumps, Links
<1>5. CASE Dial
  BY <1>5 DEF Dial, Goto, BleTypeOK, vars, pumps, Links
<1>6. CASE DialFails
  BY <1>6 DEF DialFails, Goto, BleTypeOK, vars, links, pumps, Links
<1>7. CASE Setup
  <2>1. opened + 1 \in Links /\ addr' = [addr EXCEPT ![opened + 1] = target]
           /\ opened' = opened + 1
    BY <1>7 DEF Setup, BleTypeOK, Links
  <2>2. addr' \in [Links -> Addresses \cup {NoAddress}] /\ addr'[opened'] = target
    BY <2>1 DEF BleTypeOK
  <2> QED BY <1>7, <2>1, <2>2 DEF Setup, Goto, BleTypeOK, vars, pumps, Links
<1>8. CASE SetupFails
  BY <1>8 DEF SetupFails, Goto, BleTypeOK, vars, pumps, Links
<1>9. CASE ClearNew
  BY <1>9 DEF ClearNew, Clear, Goto, BleTypeOK, links, pumps, Links
<1>10. CASE ReopenNew
  BY <1>10 DEF ReopenNew, Reopen, Goto, BleTypeOK, links, Links
<1>11. CASE Spawn
  BY <1>11 DEF Spawn, Goto, BleTypeOK, vars, links, Links
<1>12. ASSUME NEW l \in Links, Pump(l) PROVE BleInv'
  <2>1. CASE Poll(l)
    BY <2>1 DEF Poll, BleTypeOK, vars, caller, links
  <2>2. CASE Forward(l)
    <3>1. stream' \in [Links -> Nat]
      BY <2>2 DEF Forward, BleTypeOK
    <3>2. CASE closed
      BY <2>2, <3>1, <3>2 DEF Forward, BleTypeOK, vars, caller, links
    <3>3. CASE ~closed
      <4>1. Put(l) /\ stale' \in BOOLEAN
        BY <2>2, <3>3 DEF Forward, BleTypeOK, Aborted
      <4>2. /\ items' \in Seq(Links) /\ Len(items') <= Capacity
            /\ dropped' \in Nat /\ UNCHANGED <<closed, asking, got>>
        BY <1>0, <4>1, PutStep
      <4> QED BY <2>2, <3>1, <4>1, <4>2 DEF Forward, BleTypeOK, caller, links
    <3> QED BY <3>2, <3>3
  <2>3. CASE StreamEnds(l)
    BY <2>3 DEF StreamEnds, Close, BleTypeOK, caller, links, Aborted
  <2>4. CASE Yield(l)
    BY <2>4 DEF Yield, BleTypeOK, vars, caller, links
  <2> QED BY <1>12, <2>1, <2>2, <2>3, <2>4 DEF Pump
<1>13. ASSUME NEW l \in Links, Notify(l) PROVE BleInv'
  <2>1. stream' \in [Links -> Nat] /\ sent' \in 0..MaxSent
    BY <1>13 DEF Notify, BleTypeOK
  <2> QED BY <1>13, <2>1 DEF Notify, BleTypeOK, vars, caller, links
<1>14. CASE Consumer
  <2>1. CASE Ask
    BY <1>14, <2>1 DEF Consumer, Ask, BleTypeOK, ble, caller, links, pumps
  <2>2. CASE GiveUp
    BY <1>14, <2>2 DEF Consumer, GiveUp, BleTypeOK, ble, caller, links, pumps
  <2>3. CASE Answer
    <3>1. /\ items' \in Seq(Links) /\ Len(items') <= Capacity
          /\ got' \in Links \cup {End} /\ asking' \in BOOLEAN
          /\ UNCHANGED <<closed, dropped>>
      BY <1>0, <2>3, AnswerStep
    <3> QED BY <1>14, <3>1 DEF Consumer, BleTypeOK, ble, caller, links, pumps
  <2>4. CASE Clear
    BY <1>14, <2>4 DEF Consumer, Clear, BleTypeOK, ble, caller, links, pumps
  <2> QED BY <1>14, <2>1, <2>2, <2>3, <2>4 DEF Consumer
<1>15. ASSUME NEW a \in Addresses, LoseLink(a) PROVE BleInv'
  BY <1>15 DEF LoseLink, Unlinked, LinksTo, BleTypeOK, vars, caller, pumps, Links
<1>16. CASE UNCHANGED bleVars
  BY <1>16 DEF bleVars, vars, ble, caller, links, pumps, BleTypeOK
<1> QED BY <1>1, <1>2, <1>3, <1>4, <1>5, <1>6, <1>7, <1>8, <1>9, <1>10, <1>11,
           <1>12, <1>13, <1>14, <1>15, <1>16 DEF BleNext, Calling

\* Every variable keeps its type, for every set of addresses and every bound.
THEOREM BleTypeCorrect == BleSpec => []BleTypeOK
<1>1. BleInv => BleTypeOK
  BY DEF BleInv
<1> QED BY <1>1, BleInvInit, BleInvStep, PTL DEF BleSpec

LEMMA BleInvHolds == BleSpec => []BleInv
  BY BleInvInit, BleInvStep, PTL DEF BleSpec

-----------------------------------------------------------------------------
(* The links of the operating system. *)

\* No link is ever without an owner but those that were let go: the stored
\* peripheral's, that of the call under way (ble.rs:221-344).
THEOREM LinksStayOwned == BleSpec => []LinksOwned
<1>1. BleInit => LinksOwned
  BY DEF BleInit, LinksOwned
<1>2. BleInv /\ LinksOwned /\ [BleNext]_bleVars => LinksOwned'
  <2> SUFFICES ASSUME BleInv, LinksOwned, [BleNext]_bleVars PROVE LinksOwned'
    OBVIOUS
  <2> USE DEF LinksOwned, BleInv, NoLink, AddressOf
  <2>1. ASSUME NEW a \in Addresses \cup {NoAddress}, TakeState(a) PROVE LinksOwned'
    BY <2>1 DEF TakeState, links
  <2>2. CASE Teardown
    BY <2>2 DEF Teardown, Goto, Unlinked
  <2>3. CASE ClearOld
    BY <2>3 DEF ClearOld, Goto, links
  <2>4. CASE CloseOld
    BY <2>4 DEF CloseOld, Goto, links
  <2>5. CASE Dial
    BY <2>5 DEF Dial, Goto
  <2>6. CASE DialFails
    BY <2>6 DEF DialFails, Goto, links
  <2>7. CASE Setup
    BY <2>7 DEF Setup, Goto
  <2>8. CASE SetupFails
    BY <2>8 DEF SetupFails, Goto
  <2>9. CASE ClearNew
    BY <2>9 DEF ClearNew, Goto, links
  <2>10. CASE ReopenNew
    BY <2>10 DEF ReopenNew, Goto, links
  <2>11. CASE Spawn
    <3>1. link' = opened /\ opened # 0 /\ addr' = addr /\ addr[opened] = target
      BY <2>11 DEF Spawn, Goto, links
    <3>2. up' = up /\ leaked' = leaked /\ up \subseteq leaked \cup {AddressOf(link), target}
      BY <2>11 DEF Spawn, Goto, links
    <3>3. AddressOf(link) = NoAddress
      BY <2>11 DEF Spawn, Goto
    <3>4. NoAddress \notin up
      BY DEF BleTypeOK
    <3> QED BY <3>1, <3>2, <3>3, <3>4
  <2>12. ASSUME NEW l \in Links, Pump(l) PROVE LinksOwned'
    BY <2>12 DEF Pump, Poll, Forward, StreamEnds, Yield, caller, links
  <2>13. ASSUME NEW l \in Links, Notify(l) PROVE LinksOwned'
    BY <2>13 DEF Notify, caller, links
  <2>14. CASE Consumer
    BY <2>14 DEF Consumer, ble, caller, links
  <2>15. ASSUME NEW a \in Addresses, LoseLink(a) PROVE LinksOwned'
    BY <2>15 DEF LoseLink, Unlinked, caller
  <2>16. CASE UNCHANGED bleVars
    BY <2>16 DEF bleVars, ble, caller, links
  <2> QED BY <2>1, <2>2, <2>3, <2>4, <2>5, <2>6, <2>7, <2>8, <2>9, <2>10, <2>11,
             <2>12, <2>13, <2>14, <2>15, <2>16 DEF BleNext, Calling
<1> QED BY <1>1, <1>2, BleInvHolds, PTL DEF BleSpec

-----------------------------------------------------------------------------
(* The queue of a stored link.  A closed queue ignores the pumps, so what   *)
(* connect cleared stays empty until it reopens it; from then on only an   *)
(* aborted pump could come before the new one, and that would be noted.    *)

QueueInv ==
    /\ step \in {"dial", "setup", "open", "reopen"} => closed
    /\ step = "reopen" => items = <<>>
    /\ step = "spawn" /\ ~stale => items = <<>> /\ ~closed
    /\ QueueIsOfLink

LEMMA QueueInvStep == BleInv /\ QueueInv /\ [BleNext]_bleVars => QueueInv'
<1> SUFFICES ASSUME BleInv, QueueInv, [BleNext]_bleVars PROVE QueueInv'
  OBVIOUS
<1> USE DEF BleInv, QueueInv, QueueIsOfLink, NoLink
<1>0. BleTypeOK
  OBVIOUS
<1>1. ASSUME NEW a \in Addresses \cup {NoAddress}, TakeState(a) PROVE QueueInv'
  BY <1>1 DEF TakeState
<1>2. CASE Teardown
  BY <1>2 DEF Teardown, Goto
<1>3. CASE ClearOld
  BY <1>3 DEF ClearOld, Goto
<1>4. CASE CloseOld
  BY <1>4 DEF CloseOld, Close, Goto
<1>5. CASE Dial
  BY <1>5 DEF Dial, Goto, vars
<1>6. CASE DialFails
  BY <1>6 DEF DialFails, Goto, vars
<1>7. CASE Setup
  BY <1>7 DEF Setup, Goto, vars
<1>8. CASE SetupFails
  BY <1>8 DEF SetupFails, Goto, vars
<1>9. CASE ClearNew
  BY <1>9 DEF ClearNew, Clear, Goto
<1>10. CASE ReopenNew
  BY <1>10 DEF ReopenNew, Reopen, Goto
<1>11. CASE Spawn
  BY <1>11 DEF Spawn, Goto, vars
<1>12. ASSUME NEW l \in Links, Pump(l) PROVE QueueInv'
  <2>1. CASE Poll(l)
    BY <2>1 DEF Poll, vars, caller, links
  <2>2. CASE Forward(l)
    <3>1. CASE closed
      <4>1. /\ UNCHANGED <<vars, stale, step, link, broken>>
            /\ stream[l] > 0 /\ stream' = [stream EXCEPT ![l] = @ - 1]
        BY <2>2, <3>1 DEF Forward, caller, links
      <4>2. link # NoLink /\ ~stale => l # link /\ stream'[link] = stream[link]
        BY <1>0, <3>1, <4>1 DEF BleTypeOK
      <4> QED BY <4>1, <4>2 DEF vars
    <3>2. CASE ~closed /\ Aborted(l)
      BY <2>2, <3>2 DEF Forward, Put, caller, links
    <3>3. CASE ~closed /\ ~Aborted(l)
      <4>1. link = l /\ step = "away" /\ UNCHANGED <<step, link, broken>>
              /\ stale' = (stale \/ Aborted(l)) /\ Put(l)
        BY <2>2, <3>3 DEF Forward, Aborted, caller, links, Links
      <4>2. /\ closed' = closed
            /\ \A i \in DOMAIN items' :
                  items'[i] = l \/ \E j \in DOMAIN items : items'[i] = items[j]
        BY <1>0, <4>1, PutStep
      <4> QED BY <3>3, <4>1, <4>2
    <3> QED BY <3>1, <3>2, <3>3
  <2>3. CASE StreamEnds(l)
    <3>1. /\ UNCHANGED <<items, step, link, broken, stream>>
          /\ closed' = TRUE /\ l \in broken /\ stream[l] = 0
          /\ stale' = (stale \/ l # link)
      BY <2>3 DEF StreamEnds, Close, caller, links, Aborted
    <3>2. CASE l # link
      <4>1. stale'
        BY <3>1, <3>2
      <4> QED BY <3>1, <4>1
    <3>3. CASE l = link
      <4>1. step = "away"
        BY <3>3 DEF Links
      <4> QED BY <3>1, <3>3, <4>1
    <3> QED BY <3>2, <3>3
  <2>4. CASE Yield(l)
    BY <2>4 DEF Yield, vars, caller, links
  <2> QED BY <1>12, <2>1, <2>2, <2>3, <2>4 DEF Pump
<1>13. ASSUME NEW l \in Links, Notify(l) PROVE QueueInv'
  <2>1. /\ UNCHANGED <<vars, stale, step, link, broken>>
        /\ l \notin broken /\ stream' = [stream EXCEPT ![l] = @ + 1]
    BY <1>13 DEF Notify, caller, links
  <2>2. link # NoLink /\ ~stale /\ closed => l # link /\ stream'[link] = stream[link]
    BY <1>0, <2>1 DEF BleTypeOK
  <2> QED BY <2>1, <2>2 DEF vars
<1>14. CASE Consumer
  <2>1. CASE Ask
    BY <1>14, <2>1 DEF Consumer, Ask, ble, caller, links, pumps
  <2>2. CASE GiveUp
    BY <1>14, <2>2 DEF Consumer, GiveUp, ble, caller, links, pumps
  <2>3. CASE Answer
    <3>1. /\ closed' = closed
          /\ \A i \in DOMAIN items' : \E j \in DOMAIN items : items'[i] = items[j]
      BY <1>0, <2>3, AnswerStep
    <3> QED BY <1>14, <3>1 DEF Consumer, ble, caller, links, pumps
  <2>4. CASE Clear
    BY <1>14, <2>4 DEF Consumer, Clear, ble, caller, links, pumps
  <2> QED BY <1>14, <2>1, <2>2, <2>3, <2>4 DEF Consumer
<1>15. ASSUME NEW a \in Addresses, LoseLink(a) PROVE QueueInv'
  BY <1>15 DEF LoseLink, Unlinked, vars, caller, pumps
<1>16. CASE UNCHANGED bleVars
  BY <1>16 DEF bleVars, vars, ble, caller, links, pumps
<1> QED BY <1>1, <1>2, <1>3, <1>4, <1>5, <1>6, <1>7, <1>8, <1>9, <1>10, <1>11,
           <1>12, <1>13, <1>14, <1>15, <1>16 DEF BleNext, Calling

\* The queue of a stored link holds that link's notifications alone, and is
\* open until the link has ended and all it said is queued, unless an
\* aborted pump was caught running after the queue was reopened
\* (ble.rs:287-309).
THEOREM QueueStaysOfLink == BleSpec => []QueueIsOfLink
<1>1. BleInit => QueueInv
  BY DEF BleInit, QueueInv, QueueIsOfLink
<1>2. QueueInv => QueueIsOfLink
  BY DEF QueueInv
<1> QED BY <1>1, <1>2, BleInvHolds, QueueInvStep, PTL DEF BleSpec

-----------------------------------------------------------------------------
(* Who asks the queue, and when.                                            *)

\* Nobody waits for a notification while connect or disconnect is under way,
\* as BoundedFifo asks of whoever clears or reopens the queue: that condition
\* never holds connect up (ble.rs:291-295, 331-336).
THEOREM NobodyAsksMeanwhile == BleSpec => [](step # "away" => ~asking)
<1>1. BleInit => (step # "away" => ~asking)
  BY DEF BleInit
<1>2. (step # "away" => ~asking) /\ [BleNext]_bleVars => (step # "away" => ~asking)'
  <2> SUFFICES ASSUME step # "away" => ~asking, [BleNext]_bleVars
               PROVE  (step # "away" => ~asking)'
    OBVIOUS
  <2>1. ASSUME NEW a \in Addresses \cup {NoAddress}, TakeState(a) PROVE ~asking'
    BY <2>1 DEF TakeState, vars
  <2>2. CASE Calling
    BY <2>2 DEF Calling, Teardown, ClearOld, CloseOld, Dial, DialFails, Setup, SetupFails,
       ClearNew, ReopenNew, Spawn, Goto, Clear, Close, Reopen, vars
  <2>3. ASSUME NEW l \in Links, Pump(l) \/ Notify(l) PROVE step' = step /\ asking' = asking
    BY <2>3 DEF Pump, Poll, Forward, StreamEnds, Yield, Notify, Put, Close, caller, vars
  <2>4. CASE Consumer
    BY <2>4 DEF Consumer, ble, caller
  <2>5. ASSUME NEW a \in Addresses, LoseLink(a) PROVE step' = step /\ asking' = asking
    BY <2>5 DEF LoseLink, caller, vars
  <2>6. CASE UNCHANGED bleVars
    BY <2>6 DEF bleVars, ble, caller, vars
  <2> QED BY <2>1, <2>2, <2>3, <2>4, <2>5, <2>6 DEF BleNext
<1> QED BY <1>1, <1>2, PTL DEF BleSpec
=============================================================================
