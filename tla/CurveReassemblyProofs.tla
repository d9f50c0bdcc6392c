----------------------- MODULE CurveReassemblyProofs -----------------------
(***************************************************************************)
(* Theorems about CurveReassembly, for every length of a curve, of its     *)
(* fragments and of a reply, and every bound.                              *)
(***************************************************************************)
EXTENDS CurveReassembly, SequenceTheorems, TLAPS

-----------------------------------------------------------------------------
(* Lengths. *)

\* The product that the lengths of a curve are compared with.
Span(k) == k * FragmentLen

LEMMA SpanFacts ==
    /\ \A k \in Nat : Span(k) \in Nat /\ Span(k + 1) = Span(k) + FragmentLen
    /\ \A j, k \in Nat : j <= k => Span(j) <= Span(k)
    /\ Span(0) = 0 /\ Span(1) = FragmentLen
    /\ Span(Pieces - 1) < CurveLen /\ CurveLen <= Span(Pieces)
<1> USE LengthsAssumption DEF Span
<1>1. \A k \in Nat : Span(k) \in Nat /\ Span(k + 1) = Span(k) + FragmentLen
  OBVIOUS
<1>2. ASSUME NEW j \in Nat, NEW k \in Nat, j <= k PROVE Span(j) <= Span(k)
  <2>1. PICK d \in Nat : k = j + d
    <3>1. k - j \in Nat /\ k = j + (k - j)
      BY <1>2
    <3> QED BY <3>1
  <2>2. Span(k) = Span(j) + d * FragmentLen /\ d * FragmentLen \in Nat
    BY <2>1
  <2> QED BY <2>2
<1> QED BY <1>1, <1>2

LEMMA Sizes ==
    ASSUME NEW part \in 1..Pieces
    PROVE  /\ SizeOf(part) \in 1..FragmentLen
           /\ part < Pieces => SizeOf(part) = FragmentLen
           /\ SizeOf(Pieces) = CurveLen - Span(Pieces - 1)
<1>1. Span(Pieces) = Span(Pieces - 1) + FragmentLen
  BY SpanFacts, LengthsAssumption
<1>2. SizeOf(Pieces) = CurveLen - Span(Pieces - 1)
  BY LengthsAssumption DEF SizeOf, Span
<1>3. Span(Pieces - 1) \in Nat
  BY SpanFacts, LengthsAssumption
<1>4. SizeOf(Pieces) \in 1..FragmentLen
  <2>1. CurveLen \in Nat /\ FragmentLen \in Nat
    BY LengthsAssumption
  <2>2. Span(Pieces - 1) < CurveLen /\ CurveLen <= Span(Pieces)
    BY SpanFacts
  <2> QED BY <1>1, <1>2, <1>3, <2>1, <2>2
<1>5. part < Pieces => SizeOf(part) = FragmentLen
  BY DEF SizeOf
<1> QED BY <1>2, <1>4, <1>5, LengthsAssumption

-----------------------------------------------------------------------------
(* What a notification looks like, and what is taken from the stream. *)

Shaped(n) ==
    /\ n.size = IF n.part = 0 THEN ReplyLen ELSE SizeOf(n.part)
    /\ n.op = "curve" <=> n.part = 1

LEMMA AnswerShape ==
    ASSUME NEW op \in Ops, asked \in 0..MaxAsks, asked < MaxAsks, link \in Nat,
           NEW a \in Answers(op)
    PROVE  /\ a \in Seq(Notification) /\ a # <<>>
           /\ \A i \in DOMAIN a :
                 Shaped(a[i]) /\ a[i].link = link /\ a[i].ask = asked + 1
           /\ \/ Len(a) = Pieces /\ \A i \in DOMAIN a : a[i].part = i
              \/ Len(a) = 1 /\ a[1].part = 0
<1> USE BoundsAssumption, LengthsAssumption
<1>1. asked + 1 \in 1..MaxAsks
  OBVIOUS
<1>2. CASE op = "curve"
  <2>1. PICK d \in Disguises :
           a = [part \in 1..Pieces |-> Fragment(IF part = 1 THEN "curve" ELSE d, part)]
    BY <1>2 DEF Answers
  <2>2. ASSUME NEW part \in 1..Pieces
        PROVE  LET n == Fragment(IF part = 1 THEN "curve" ELSE d, part)
               IN  /\ n \in Notification /\ Shaped(n)
                   /\ n.link = link /\ n.ask = asked + 1 /\ n.part = part
    <3>1. SizeOf(part) \in Nat \ {0}
      BY Sizes
    <3>2. part \in 0..Pieces /\ part # 0
      OBVIOUS
    <3>3. d # "curve"
      BY DisguisesAssumption
    <3> QED BY <1>1, <3>1, <3>2, <3>3 DEF Fragment, Notification, Shaped, Ops
  <2>3. a \in Seq(Notification) /\ Len(a) = Pieces
    <3> DEFINE e(part) == Fragment(IF part = 1 THEN "curve" ELSE d, part)
    <3>1. \A part \in 1..Pieces : e(part) \in Notification
      BY <2>2
    <3>2. a = [part \in 1..Pieces |-> e(part)]
      BY <2>1
    <3> HIDE DEF e
    <3>3. a \in [1..Pieces -> Notification]
      BY <3>1, <3>2
    <3> QED BY <3>3
  <2>4. DOMAIN a = 1..Pieces
    BY <2>1
  <2> QED BY <2>1, <2>2, <2>3, <2>4
<1>3. CASE op # "curve"
  <2> DEFINE n == [op |-> op, size |-> ReplyLen, part |-> 0, ask |-> asked + 1, link |-> link]
  <2>1. a = <<n>>
    BY <1>3 DEF Answers
  <2>2. n \in Notification /\ Shaped(n)
    BY <1>1, <1>3 DEF Notification, Shaped
  <2>3. n.link = link /\ n.ask = asked + 1 /\ n.part = 0
    OBVIOUS
  <2> HIDE DEF n
  <2> QED BY <2>1, <2>2, <2>3
<1> QED BY <1>2, <1>3

\* Removing an entry leaves the others in their order.
LEMMA RemoveAtProperties ==
    ASSUME NEW S, NEW s \in Seq(S), NEW i \in 1..Len(s)
    PROVE  /\ RemoveAt(s, i) \in Seq(S) /\ Len(RemoveAt(s, i)) = Len(s) - 1
           /\ \A j \in 1..(Len(s) - 1) : RemoveAt(s, i)[j] = IF j < i THEN s[j] ELSE s[j + 1]
<1> DEFINE t == SubSeq(s, 1, i - 1)
           u == SubSeq(s, i + 1, Len(s))
<1>1. /\ t \in Seq(S) /\ Len(t) = i - 1
      /\ \A j \in 1..(i - 1) : t[j] = s[j]
  <2>1. \A j \in 1..(i - 1) : s[j] \in S
    OBVIOUS
  <2>2. /\ t \in Seq(S) /\ Len(t) = IF 1 <= i - 1 THEN (i - 1) - 1 + 1 ELSE 0
        /\ \A j \in 1..((i - 1) - 1 + 1) : t[j] = s[1 + j - 1]
    BY <2>1, SubSeqProperties
  <2> QED BY <2>2
<1>2. /\ u \in Seq(S) /\ Len(u) = Len(s) - i
      /\ \A j \in 1..(Len(s) - i) : u[j] = s[i + j]
  <2>1. \A j \in (i + 1)..Len(s) : s[j] \in S
    OBVIOUS
  <2>2. /\ u \in Seq(S)
        /\ Len(u) = IF i + 1 <= Len(s) THEN Len(s) - (i + 1) + 1 ELSE 0
        /\ \A j \in 1..(Len(s) - (i + 1) + 1) : u[j] = s[(i + 1) + j - 1]
    BY <2>1, SubSeqProperties
  <2> QED BY <2>2
<1>3. RemoveAt(s, i) = t \o u
  BY DEF RemoveAt
<1> HIDE DEF t, u
<1>4. /\ t \o u \in Seq(S) /\ Len(t \o u) = Len(t) + Len(u)
      /\ \A j \in 1..(Len(t) + Len(u)) : (t \o u)[j] = IF j <= Len(t) THEN t[j] ELSE u[j - Len(t)]
  BY <1>1, <1>2, ConcatProperties
<1>5. ASSUME NEW j \in 1..(Len(s) - 1)
      PROVE  RemoveAt(s, i)[j] = IF j < i THEN s[j] ELSE s[j + 1]
  <2>1. CASE j < i
    BY <1>1, <1>2, <1>3, <1>4, <2>1
  <2>2. CASE ~(j < i)
    <3>1. j - Len(t) \in 1..(Len(s) - i) /\ i + (j - Len(t)) = j + 1
      BY <1>1, <2>2
    <3>2. u[j - Len(t)] = s[i + (j - Len(t))]
      BY <1>2, <3>1
    <3>3. j \in 1..(Len(t) + Len(u)) /\ ~(j <= Len(t))
      BY <1>1, <1>2, <2>2
    <3>4. (t \o u)[j] = u[j - Len(t)]
      BY <1>4, <3>3
    <3> QED BY <1>3, <2>2, <3>1, <3>2, <3>4
  <2> QED BY <2>1, <2>2
<1> QED BY <1>1, <1>2, <1>3, <1>4, <1>5

\* The first entries of a sequence.
LEMMA PrefixProperties ==
    ASSUME NEW S, NEW s \in Seq(S), NEW k \in 0..Len(s)
    PROVE  /\ SubSeq(s, 1, k) \in Seq(S) /\ Len(SubSeq(s, 1, k)) = k
           /\ \A j \in 1..k : SubSeq(s, 1, k)[j] = s[j]
<1>1. \A j \in 1..k : s[j] \in S
  OBVIOUS
<1>2. /\ SubSeq(s, 1, k) \in Seq(S)
      /\ Len(SubSeq(s, 1, k)) = IF 1 <= k THEN k - 1 + 1 ELSE 0
      /\ \A j \in 1..(k - 1 + 1) : SubSeq(s, 1, k)[j] = s[1 + j - 1]
  BY <1>1, SubSeqProperties
<1> QED BY <1>2

-----------------------------------------------------------------------------
(* Types, with what the buffer holds and how notifications are cut.         *)

Core ==
    /\ TypeOK /\ BufferHoldsOneCurve
    /\ \A i \in DOMAIN coming : Shaped(coming[i])
    /\ \A i \in DOMAIN buffer : Shaped(buffer[i])

\* A notification went into the buffer and filled it, or did not.
Into(of, size) ==
    \/ size >= CurveLen /\ filled' = 0 /\ buffer' = <<>> /\ Conclude(of)
    \/ size < CurveLen /\ filled' = size /\ buffer' = of /\ KeepOn

LEMMA TakeFacts ==
    ASSUME Core, Take, NEW n, n = Head(coming)
    PROVE  /\ n \in Notification /\ Shaped(n) /\ n.size \in Nat \ {0}
           /\ coming # <<>> /\ n = coming[1]
           /\ coming' \in Seq(Notification) /\ Len(coming') = Len(coming) - 1
           /\ \A i \in 1..Len(coming') : coming'[i] = coming[i + 1]
           /\ \/ Starts(n) /\ Into(<<n>>, n.size)
              \/ ~Starts(n) /\ filled # 0 /\ Into(Append(buffer, n), filled + n.size)
              \/ ~Starts(n) /\ filled = 0 /\ Conclude(<<n>>) /\ UNCHANGED <<filled, buffer>>
<1>1. coming \in Seq(Notification) /\ coming # <<>> /\ coming' = Tail(coming)
  BY DEF Core, TypeOK, Take
<1>2. n = coming[1] /\ 1 \in DOMAIN coming /\ n \in Notification
  BY <1>1
<1>3. Shaped(n) /\ n.size \in Nat \ {0}
  BY <1>2 DEF Core, Notification
<1>4. /\ coming' \in Seq(Notification) /\ Len(coming') = Len(coming) - 1
      /\ \A i \in 1..Len(coming') : coming'[i] = coming[i + 1]
  BY <1>1, HeadTailProperties
<1>5. IF Buffered(n) THEN Fill(n) ELSE Conclude(<<n>>) /\ UNCHANGED <<filled, buffer>>
  BY DEF Take
<1>6. CASE Starts(n)
  <2>1. Kept(n) = [size |-> 0, of |-> <<>>] /\ Fill(n)
    BY <1>5, <1>6 DEF Kept, Buffered
  <2>2. Kept(n).size + n.size = n.size /\ Append(Kept(n).of, n) = <<n>>
    <3>1. Kept(n).size = 0 /\ Kept(n).of = <<>>
      BY <2>1
    <3>2. 0 + n.size = n.size /\ Append(<<>>, n) = <<n>>
      BY <1>3
    <3> QED BY <3>1, <3>2, Zenon
  <2>3. Into(<<n>>, n.size)
    <3>1. IF Complete(n.size) THEN filled' = 0 /\ buffer' = <<>> /\ Conclude(<<n>>)
                              ELSE filled' = n.size /\ buffer' = <<n>> /\ KeepOn
      BY <2>1, <2>2 DEF Fill
    <3> QED BY <1>3, <3>1, LengthsAssumption DEF Into, Complete
  <2> QED BY <1>1, <1>2, <1>3, <1>4, <1>6, <2>3
<1>7. CASE ~Starts(n) /\ filled # 0
  <2>1. Kept(n).size = filled /\ Kept(n).of = buffer /\ Fill(n)
    BY <1>5, <1>7 DEF Kept, Buffered
  <2>2. Into(Append(buffer, n), filled + n.size)
    <3>1. IF Complete(filled + n.size)
          THEN filled' = 0 /\ buffer' = <<>> /\ Conclude(Append(buffer, n))
          ELSE filled' = filled + n.size /\ buffer' = Append(buffer, n) /\ KeepOn
      BY <2>1 DEF Fill
    <3>2. filled + n.size \in Nat
      BY <1>3, LengthsAssumption DEF Core, TypeOK
    <3> QED BY <3>1, <3>2, LengthsAssumption DEF Into, Complete
  <2> QED BY <1>1, <1>2, <1>3, <1>4, <1>7, <2>2
<1>8. CASE ~Starts(n) /\ filled = 0
  BY <1>1, <1>2, <1>3, <1>4, <1>5, <1>8 DEF Buffered
<1> QED BY <1>6, <1>7, <1>8

\* What Request, Lose and LoseLink do to what is coming.
LEMMA RequestFacts ==
    ASSUME Core, NEW op \in Ops, Request(op), ~UNCHANGED coming
    PROVE  \E a \in Seq(Notification) :
              /\ a # <<>>
              /\ \A i \in DOMAIN a :
                    Shaped(a[i]) /\ a[i].link = link /\ a[i].ask = asked + 1
              /\ \/ Len(a) = Pieces /\ \A i \in DOMAIN a : a[i].part = i
                 \/ Len(a) = 1 /\ a[1].part = 0
              /\ coming' \in Seq(Notification) /\ Len(coming') = Len(coming) + Len(a)
              /\ \A i \in 1..Len(coming) : coming'[i] = coming[i]
              /\ \A i \in DOMAIN a : coming'[Len(coming) + i] = a[i]
<1>1. PICK a \in Answers(op) : coming' = coming \o a
  BY DEF Request
<1>2. coming \in Seq(Notification) /\ asked \in 0..MaxAsks /\ asked < MaxAsks /\ link \in Nat
  BY BoundsAssumption DEF Core, TypeOK, Request
<1>3. /\ a \in Seq(Notification) /\ a # <<>>
      /\ \A i \in DOMAIN a :
            Shaped(a[i]) /\ a[i].link = link /\ a[i].ask = asked + 1
      /\ \/ Len(a) = Pieces /\ \A i \in DOMAIN a : a[i].part = i
         \/ Len(a) = 1 /\ a[1].part = 0
  BY <1>2, AnswerShape
<1>4. /\ coming' \in Seq(Notification) /\ Len(coming') = Len(coming) + Len(a)
      /\ \A i \in 1..(Len(coming) + Len(a)) : coming'[i] =
            IF i <= Len(coming) THEN coming[i] ELSE a[i - Len(coming)]
  BY <1>1, <1>2, <1>3, ConcatProperties
<1>5. ASSUME NEW i \in DOMAIN a PROVE coming'[Len(coming) + i] = a[i]
  <2>1. i \in 1..Len(a) /\ Len(coming) \in Nat /\ Len(a) \in Nat
    BY <1>2, <1>3
  <2>2. /\ Len(coming) + i \in 1..(Len(coming) + Len(a)) /\ ~(Len(coming) + i <= Len(coming))
        /\ Len(coming) + i - Len(coming) = i
    BY <2>1
  <2> QED BY <1>4, <2>2
<1>6. \A i \in 1..Len(coming) : coming'[i] = coming[i]
  BY <1>2, <1>3, <1>4
<1> QED BY <1>3, <1>4, <1>5, <1>6

LEMMA LoseFacts ==
    ASSUME Core, Lose
    PROVE  \E k \in 1..Len(coming) :
              /\ coming[k].ask \in 1..MaxAsks /\ damaged' = damaged \cup {coming[k].ask}
              /\ coming' \in Seq(Notification) /\ Len(coming') = Len(coming) - 1
              /\ \A i \in 1..Len(coming') :
                    coming'[i] = IF i < k THEN coming[i] ELSE coming[i + 1]
<1>1. PICK k \in DOMAIN coming :
         coming' = RemoveAt(coming, k) /\ damaged' = damaged \cup {coming[k].ask}
  BY DEF Lose
<1>2. coming \in Seq(Notification) /\ k \in 1..Len(coming)
  BY DEF Core, TypeOK
<1>3. coming[k].ask \in 1..MaxAsks
  <2>1. coming[k] \in Notification
    BY <1>2
  <2> QED BY <2>1 DEF Notification
<1>4. /\ coming' \in Seq(Notification) /\ Len(coming') = Len(coming) - 1
      /\ \A j \in 1..(Len(coming) - 1) : coming'[j] = IF j < k THEN coming[j] ELSE coming[j + 1]
  BY <1>1, <1>2, RemoveAtProperties
<1> QED BY <1>1, <1>2, <1>3, <1>4

LEMMA LoseLinkFacts ==
    ASSUME Core, LoseLink
    PROVE  \E k \in 0..Len(coming) :
              /\ coming' \in Seq(Notification) /\ Len(coming') = k
              /\ \A i \in 1..k : coming'[i] = coming[i]
<1>1. PICK k \in 0..Len(coming) : coming' = SubSeq(coming, 1, k)
  BY DEF LoseLink
<1>2. coming \in Seq(Notification)
  BY DEF Core, TypeOK
<1> QED BY <1>1, <1>2, PrefixProperties

LEMMA ResultTyped ==
    /\ \A is \in Ops, of \in Seq(Notification) : Result(is, of) \in Results
    /\ \A is \in {"none", "connected", "failed", "timeout", "not_connected"} :
          Result(is, <<>>) \in Results
    /\ NoResult \in Results
<1>1. <<>> \in Seq(Notification)
  OBVIOUS
<1> QED BY <1>1 DEF Result, NoResult, Results

LEMMA ConcludeTypes ==
    ASSUME Core, wait \in Ops, NEW of \in Seq(Notification), Conclude(of)
    PROVE  /\ wait' \in Ops \cup {"none"}
           /\ result' \in Results
BY ResultTyped DEF Core, TypeOK, Conclude, Finish, KeepOn

LEMMA CoreInit == Init => Core
<1> SUFFICES ASSUME Init PROVE Core
  OBVIOUS
<1>1. filled \in 0..(CurveLen - 1)
  BY LengthsAssumption DEF Init
<1>2. asked \in 0..MaxAsks /\ link \in 0..MaxLinks
  BY BoundsAssumption DEF Init
<1>3. <<>> \in Seq(Notification)
  OBVIOUS
<1>4. result \in Results
  BY ResultTyped DEF Init
<1>5. TypeOK
  BY <1>1, <1>2, <1>3, <1>4 DEF Init, TypeOK
<1> QED BY <1>5 DEF Init, Core, BufferHoldsOneCurve

LEMMA CoreStep == Core /\ [Next]_vars => Core'
<1> SUFFICES ASSUME Core, [Next]_vars PROVE Core'
  OBVIOUS
<1> USE DEF Core
<1>0. /\ 0 \in 0..(CurveLen - 1) /\ MaxAsks \in Nat /\ MaxLinks \in Nat
      /\ TypeOK /\ BufferHoldsOneCurve
  BY LengthsAssumption, BoundsAssumption
<1>1. CASE Connect
  <2>1. link' \in 0..MaxLinks
    BY <1>0, <1>1 DEF Connect, TypeOK
  <2> QED BY <1>0, <1>1, <2>1, ResultTyped DEF Connect, ClearBuffer, TypeOK, BufferHoldsOneCurve
<1>2. CASE Disconnect
  <2>1. result' \in Results
    BY <1>2, ResultTyped DEF Disconnect
  <2>2. coming' = <<>> /\ buffer' = <<>> /\ filled' = 0 /\ swallowed' = 0 /\ up' = FALSE
    BY <1>2 DEF Disconnect, ClearBuffer
  <2>3. coming' \in Seq(Notification) /\ buffer' \in Seq(Notification)
    BY <2>2
  <2>4. UNCHANGED <<wait, met, asked, link, damaged>>
    BY <1>2 DEF Disconnect
  <2>5. TypeOK'
    BY <1>0, <2>1, <2>2, <2>3, <2>4 DEF TypeOK
  <2> QED BY <2>2, <2>5 DEF BufferHoldsOneCurve
<1>3. ASSUME NEW op \in Ops, Request(op) PROVE Core'
  <2>1. asked' \in 0..MaxAsks
    BY <1>0, <1>3 DEF Request, TypeOK
  <2>2. coming' \in Seq(Notification) /\ \A i \in DOMAIN coming' : Shaped(coming'[i])
    <3>1. CASE UNCHANGED coming
      BY <1>0, <3>1 DEF TypeOK
    <3>2. CASE ~UNCHANGED coming
      <4>1. PICK a \in Seq(Notification) :
               /\ \A i \in DOMAIN a : Shaped(a[i])
               /\ coming' \in Seq(Notification) /\ Len(coming') = Len(coming) + Len(a)
               /\ \A i \in 1..Len(coming) : coming'[i] = coming[i]
               /\ \A i \in DOMAIN a : coming'[Len(coming) + i] = a[i]
        BY <1>3, <3>2, RequestFacts
      <4>2. coming \in Seq(Notification)
        BY <1>0 DEF TypeOK
      <4>3. ASSUME NEW i \in DOMAIN coming' PROVE Shaped(coming'[i])
        <5>1. CASE i <= Len(coming)
          BY <4>1, <4>2, <5>1
        <5>2. CASE ~(i <= Len(coming))
          <6>1. i - Len(coming) \in DOMAIN a /\ Len(coming) + (i - Len(coming)) = i
            BY <4>1, <4>2, <5>2
          <6> QED BY <4>1, <6>1
        <5> QED BY <5>1, <5>2
      <4> QED BY <4>1, <4>3
    <3> QED BY <3>1, <3>2
  <2> QED BY <1>0, <1>3, <2>1, <2>2, ResultTyped DEF Request, TypeOK, BufferHoldsOneCurve, buffering
<1>4. CASE RequestFails
  <2>1. asked' \in 0..MaxAsks
    BY <1>0, <1>4 DEF RequestFails, TypeOK
  <2> QED BY <1>0, <1>4, <2>1, ResultTyped DEF RequestFails, TypeOK, BufferHoldsOneCurve, buffering
<1>5. CASE Take
  <2> DEFINE n == Head(coming)
  <2>1. /\ n \in Notification /\ Shaped(n) /\ n.size \in Nat \ {0}
        /\ coming # <<>> /\ n = coming[1]
        /\ coming' \in Seq(Notification) /\ Len(coming') = Len(coming) - 1
        /\ \A i \in 1..Len(coming') : coming'[i] = coming[i + 1]
    BY <1>5, TakeFacts
  <2>2. \/ Starts(n) /\ Into(<<n>>, n.size)
        \/ ~Starts(n) /\ filled # 0 /\ Into(Append(buffer, n), filled + n.size)
        \/ ~Starts(n) /\ filled = 0 /\ Conclude(<<n>>) /\ UNCHANGED <<filled, buffer>>
    BY <1>5, TakeFacts
  <2>3. ASSUME NEW i \in DOMAIN coming' PROVE Shaped(coming'[i])
    <3>1. i + 1 \in DOMAIN coming /\ coming'[i] = coming[i + 1]
      BY <1>0, <2>1 DEF TypeOK
    <3> QED BY <3>1
  <2>4. swallowed' \in Nat /\ met' \in BOOLEAN /\ wait \in Ops
    BY <1>0, <1>5 DEF Take, TypeOK
  <2>5. UNCHANGED <<up, asked, link, damaged>>
    BY <1>5 DEF Take
  <2> HIDE DEF n
  <2>6. buffer \in Seq(Notification) /\ filled \in 0..(CurveLen - 1)
    BY <1>0 DEF TypeOK
  <2>7. ASSUME NEW of \in Seq(Notification), NEW size \in Nat \ {0}, Into(of, size), of # <<>>,
               \A i \in DOMAIN of : Shaped(of[i]) /\ (of[i].op = "curve" <=> i = 1)
        PROVE  Core'
    <3>1. CASE size >= CurveLen /\ filled' = 0 /\ buffer' = <<>> /\ Conclude(of)
      BY <1>0, <2>1, <2>3, <2>4, <2>5, <2>7, <3>1, ConcludeTypes DEF TypeOK, BufferHoldsOneCurve
    <3>2. CASE size < CurveLen /\ filled' = size /\ buffer' = of /\ KeepOn
      <4>1. filled' \in 0..(CurveLen - 1)
        BY <3>2, LengthsAssumption
      <4> QED BY <1>0, <2>1, <2>3, <2>4, <2>5, <2>7, <3>2, <4>1 DEF TypeOK, BufferHoldsOneCurve, KeepOn
    <3> QED BY <2>7, <3>1, <3>2 DEF Into
  <2>8. CASE Starts(n) /\ Into(<<n>>, n.size)
    <3>1. <<n>> \in Seq(Notification) /\ <<n>> # <<>>
      BY <2>1
    <3>2. \A i \in DOMAIN <<n>> : Shaped(<<n>>[i]) /\ (<<n>>[i].op = "curve" <=> i = 1)
      BY <2>1, <2>8 DEF Starts
    <3> QED BY <2>1, <2>7, <2>8, <3>1, <3>2
  <2>9. CASE ~Starts(n) /\ filled # 0 /\ Into(Append(buffer, n), filled + n.size)
    <3>1. Append(buffer, n) \in Seq(Notification) /\ Append(buffer, n) # <<>>
      BY <2>1, <2>6
    <3>2. filled + n.size \in Nat \ {0} /\ buffer # <<>>
      BY <1>0, <2>1, <2>6, <2>9, LengthsAssumption DEF BufferHoldsOneCurve
    <3>3. ASSUME NEW i \in DOMAIN Append(buffer, n)
          PROVE  Shaped(Append(buffer, n)[i]) /\ (Append(buffer, n)[i].op = "curve" <=> i = 1)
      <4>1. CASE i \in DOMAIN buffer
        <5>1. Append(buffer, n)[i] = buffer[i]
          BY <2>1, <2>6, <4>1
        <5> QED BY <1>0, <4>1, <5>1 DEF BufferHoldsOneCurve
      <4>2. CASE i \notin DOMAIN buffer
        <5>1. Append(buffer, n)[i] = n /\ i # 1
          BY <2>1, <2>6, <3>2, <4>2
        <5> QED BY <2>1, <2>9, <5>1 DEF Starts
      <4> QED BY <4>1, <4>2
    <3> QED BY <2>7, <2>9, <3>1, <3>2, <3>3
  <2>10. CASE ~Starts(n) /\ filled = 0 /\ Conclude(<<n>>) /\ UNCHANGED <<filled, buffer>>
    <3>1. <<n>> \in Seq(Notification)
      BY <2>1
    <3>2. /\ wait' \in Ops \cup {"none"}
          /\ result' \in Results
      BY <2>4, <2>10, <3>1, ConcludeTypes
    <3> QED BY <1>0, <2>1, <2>3, <2>4, <2>5, <2>10, <3>2 DEF TypeOK, BufferHoldsOneCurve
  <2> QED BY <2>2, <2>8, <2>9, <2>10
<1>6. CASE Deadline
  BY <1>0, <1>6, ResultTyped DEF Deadline, Finish, TypeOK, BufferHoldsOneCurve, buffering
<1>7. CASE StreamEnds
  BY <1>0, <1>7, ResultTyped DEF StreamEnds, Finish, TypeOK, BufferHoldsOneCurve, buffering
<1>8. CASE Lose
  <2>1. PICK k \in 1..Len(coming) :
           /\ coming[k].ask \in 1..MaxAsks /\ damaged' = damaged \cup {coming[k].ask}
           /\ coming' \in Seq(Notification) /\ Len(coming') = Len(coming) - 1
           /\ \A i \in 1..Len(coming') :
                 coming'[i] = IF i < k THEN coming[i] ELSE coming[i + 1]
    BY <1>8, LoseFacts
  <2>2. coming \in Seq(Notification)
    BY <1>0 DEF TypeOK
  <2>3. ASSUME NEW j \in DOMAIN coming' PROVE Shaped(coming'[j])
    BY <2>1, <2>2
  <2> QED BY <1>0, <1>8, <2>1, <2>3 DEF Lose, TypeOK, BufferHoldsOneCurve, buffering
<1>9. CASE LoseLink
  <2>1. PICK k \in 0..Len(coming) :
           /\ coming' \in Seq(Notification) /\ Len(coming') = k
           /\ \A i \in 1..k : coming'[i] = coming[i]
    BY <1>9, LoseLinkFacts
  <2>2. ASSUME NEW j \in DOMAIN coming' PROVE Shaped(coming'[j])
    BY <1>0, <2>1 DEF TypeOK
  <2> QED BY <1>0, <1>9, <2>1, <2>2 DEF LoseLink, TypeOK, BufferHoldsOneCurve, buffering
<1>10. CASE UNCHANGED vars
  BY <1>0, <1>10 DEF vars, TypeOK, BufferHoldsOneCurve
<1> QED BY <1>1, <1>2, <1>3, <1>4, <1>5, <1>6, <1>7, <1>8, <1>9, <1>10 DEF Next

LEMMA CoreHolds == Spec => []Core
  BY CoreInit, CoreStep, PTL DEF Spec

\* Every variable keeps its type, and a partial curve is shorter than one.
THEOREM TypeCorrect == Spec => []TypeOK
<1>1. Core => TypeOK
  BY DEF Core
<1> QED BY <1>1, CoreHolds, PTL

\* What complete_curve parses starts with the first fragment of a curve and
\* has no other in it (client.rs:587-601).
THEOREM OneCurveBuffered == Spec => []BufferHoldsOneCurve
<1>1. Core => BufferHoldsOneCurve
  BY DEF Core
<1> QED BY <1>1, CoreHolds, PTL

-----------------------------------------------------------------------------
(* Links. *)

\* Nothing of an earlier link is queued or buffered (client.rs:203-208).
THEOREM LinksDoNotMix == Spec => []NothingOutlivesLink
<1>1. Init => NothingOutlivesLink
  BY DEF Init, NothingOutlivesLink
<1>2. Core /\ NothingOutlivesLink /\ [Next]_vars => NothingOutlivesLink'
  <2> SUFFICES ASSUME Core, NothingOutlivesLink, [Next]_vars PROVE NothingOutlivesLink'
    OBVIOUS
  <2> USE DEF NothingOutlivesLink
  <2>0. coming \in Seq(Notification) /\ buffer \in Seq(Notification)
    BY DEF Core, TypeOK
  <2>1. CASE Connect
    BY <2>1 DEF Connect, ClearBuffer
  <2>2. CASE Disconnect
    BY <2>2 DEF Disconnect, ClearBuffer
  <2>3. ASSUME NEW op \in Ops, Request(op) PROVE NothingOutlivesLink'
    <3>1. CASE UNCHANGED coming
      BY <2>3, <3>1 DEF Request, buffering
    <3>2. CASE ~UNCHANGED coming
      <4>1. PICK a \in Seq(Notification) :
               /\ \A i \in DOMAIN a : a[i].link = link
               /\ coming' \in Seq(Notification) /\ Len(coming') = Len(coming) + Len(a)
               /\ \A i \in 1..Len(coming) : coming'[i] = coming[i]
               /\ \A i \in DOMAIN a : coming'[Len(coming) + i] = a[i]
        BY <2>3, <3>2, RequestFacts
      <4>2. ASSUME NEW i \in DOMAIN coming' PROVE coming'[i].link = link
        <5>1. CASE i <= Len(coming)
          BY <2>0, <4>1, <5>1
        <5>2. CASE ~(i <= Len(coming))
          <6>1. i - Len(coming) \in DOMAIN a /\ Len(coming) + (i - Len(coming)) = i
            BY <2>0, <4>1, <5>2
          <6> QED BY <4>1, <6>1
        <5> QED BY <5>1, <5>2
      <4> QED BY <2>3, <4>2 DEF Request, buffering
    <3> QED BY <3>1, <3>2
  <2>4. CASE RequestFails
    BY <2>4 DEF RequestFails, buffering
  <2>5. CASE Take
    <3> DEFINE n == Head(coming)
    <3>1. /\ n = coming[1] /\ coming # <<>> /\ n \in Notification
          /\ coming' \in Seq(Notification) /\ Len(coming') = Len(coming) - 1
          /\ \A i \in 1..Len(coming') : coming'[i] = coming[i + 1]
          /\ \/ Starts(n) /\ Into(<<n>>, n.size)
             \/ ~Starts(n) /\ filled # 0 /\ Into(Append(buffer, n), filled + n.size)
             \/ ~Starts(n) /\ filled = 0 /\ Conclude(<<n>>) /\ UNCHANGED <<filled, buffer>>
      BY <2>5, TakeFacts
    <3> HIDE DEF n
    <3>2. n.link = link /\ link' = link
      BY <2>0, <2>5, <3>1 DEF Take
    <3>3. ASSUME NEW i \in DOMAIN coming' PROVE coming'[i].link = link
      <4>1. i + 1 \in DOMAIN coming /\ coming'[i] = coming[i + 1]
        BY <2>0, <3>1
      <4> QED BY <4>1
    <3>4. buffer' \in {<<>>, <<n>>, Append(buffer, n), buffer}
      BY <3>1 DEF Into
    <3>5. ASSUME NEW i \in DOMAIN buffer' PROVE buffer'[i].link = link
      <4>1. CASE buffer' = Append(buffer, n)
        <5>1. i \in DOMAIN buffer => buffer'[i] = buffer[i]
          BY <2>0, <3>1, <4>1
        <5>2. i \notin DOMAIN buffer => buffer'[i] = n
          BY <2>0, <3>1, <4>1
        <5> QED BY <3>2, <5>1, <5>2
      <4>2. CASE buffer' \in {<<>>, <<n>>, buffer}
        BY <3>2, <4>2
      <4> QED BY <3>4, <4>1, <4>2
    <3> QED BY <3>2, <3>3, <3>5
  <2>6. CASE Deadline
    BY <2>6 DEF Deadline, buffering
  <2>7. CASE StreamEnds
    BY <2>7 DEF StreamEnds, buffering
  <2>8. CASE Lose
    <3>1. PICK k \in 1..Len(coming) :
             /\ coming' \in Seq(Notification) /\ Len(coming') = Len(coming) - 1
             /\ \A i \in 1..Len(coming') :
                   coming'[i] = IF i < k THEN coming[i] ELSE coming[i + 1]
      BY <2>8, LoseFacts
    <3>2. ASSUME NEW i \in DOMAIN coming' PROVE coming'[i].link = link
      <4>1. i \in 1..Len(coming') /\ i \in DOMAIN coming /\ i + 1 \in DOMAIN coming
        BY <2>0, <3>1
      <4>2. coming'[i] = coming[i] \/ coming'[i] = coming[i + 1]
        BY <3>1, <4>1
      <4> QED BY <4>1, <4>2
    <3> QED BY <2>8, <3>2 DEF Lose, buffering
  <2>9. CASE LoseLink
    <3>1. PICK k \in 0..Len(coming) :
             /\ coming' \in Seq(Notification) /\ Len(coming') = k
             /\ \A i \in 1..k : coming'[i] = coming[i]
      BY <2>9, LoseLinkFacts
    <3>2. ASSUME NEW i \in DOMAIN coming' PROVE coming'[i].link = link
      BY <2>0, <3>1
    <3> QED BY <2>9, <3>2 DEF LoseLink, buffering
  <2>10. CASE UNCHANGED vars
    BY <2>10 DEF vars
  <2> QED BY <2>1, <2>2, <2>3, <2>4, <2>5, <2>6, <2>7, <2>8, <2>9, <2>10 DEF Next
<1> QED BY <1>1, <1>2, CoreHolds, PTL DEF Spec

-----------------------------------------------------------------------------
(* Swallowed replies. *)

\* The length of that many replies.
Worth(k) == k * ReplyLen

LEMMA WorthFacts ==
    /\ \A k \in Nat : Worth(k) \in Nat /\ Worth(k + 1) = Worth(k) + ReplyLen
    /\ Worth(0) = 0
BY LengthsAssumption DEF Worth

\* A swallowed reply is in the buffer, or was the one that filled it.
SwallowedFit ==
    /\ filled # 0 => Worth(swallowed) + FragmentLen <= filled
    /\ swallowed # 0 => Worth(swallowed - 1) + FragmentLen < CurveLen

LEMMA SwallowedFitTake ==
    ASSUME Core, SwallowedFit, Take
    PROVE  SwallowedFit'
<1> DEFINE n == Head(coming)
<1>1. /\ n \in Notification /\ Shaped(n) /\ n.size \in Nat \ {0}
      /\ \/ Starts(n) /\ Into(<<n>>, n.size)
         \/ ~Starts(n) /\ filled # 0 /\ Into(Append(buffer, n), filled + n.size)
         \/ ~Starts(n) /\ filled = 0 /\ Conclude(<<n>>) /\ UNCHANGED <<filled, buffer>>
  BY TakeFacts
<1>2. swallowed' = IF Buffered(n) /\ Awaited(n) THEN swallowed + 1
                   ELSE IF Starts(n) \/ Awaited(n) THEN 0
                   ELSE swallowed
  BY DEF Take
<1> HIDE DEF n
<1>3. /\ CurveLen \in Nat /\ FragmentLen \in Nat \ {0} /\ ReplyLen \in Nat
      /\ filled \in 0..(CurveLen - 1) /\ swallowed \in Nat
  BY LengthsAssumption DEF Core, TypeOK
<1>4. Worth(swallowed) \in Nat /\ Worth(swallowed + 1) = Worth(swallowed) + ReplyLen /\ Worth(0) = 0
  BY <1>3, WorthFacts
<1>5. CASE Starts(n)
  <2>1. swallowed' = 0 /\ n.part = 1
    BY <1>1, <1>2, <1>5 DEF Shaped, Starts, Awaited, IsReply
  <2>2. Into(<<n>>, n.size) /\ n.size = SizeOf(1)
    BY <1>1, <1>5, <2>1 DEF Shaped
  <2>3. SizeOf(1) >= FragmentLen \/ SizeOf(1) >= CurveLen
    <3>1. CASE Pieces = 1
      BY <3>1, LengthsAssumption DEF SizeOf
    <3>2. CASE Pieces # 1
      <4>1. 1 \in 1..Pieces /\ 1 < Pieces
        BY <3>2, LengthsAssumption
      <4>2. SizeOf(1) = FragmentLen
        BY <4>1, Sizes
      <4> QED BY <1>3, <4>2
    <3> QED BY <3>1, <3>2
  <2>4. filled' # 0 => filled' = n.size /\ n.size < CurveLen
    BY <1>1, <2>2 DEF Into
  <2> QED BY <1>1, <1>3, <1>4, <2>1, <2>2, <2>3, <2>4 DEF SwallowedFit
<1>6. CASE ~Starts(n) /\ filled # 0
  <2>1. filled' # 0 => filled' = filled + n.size
    BY <1>1, <1>6 DEF Into
  <2>2. Worth(swallowed) + FragmentLen <= filled
    BY <1>6 DEF SwallowedFit
  <2>3. CASE Awaited(n)
    <3>1. swallowed' = swallowed + 1 /\ n.size = ReplyLen
      BY <1>1, <1>2, <1>6, <2>3 DEF Buffered, Awaited, IsReply, Shaped
    <3>2. Worth(swallowed') = Worth(swallowed) + ReplyLen /\ swallowed' - 1 = swallowed
      BY <1>3, <1>4, <3>1
    <3> QED BY <1>3, <1>4, <2>1, <2>2, <3>1, <3>2 DEF SwallowedFit
  <2>4. CASE ~Awaited(n)
    <3>1. swallowed' = swallowed
      BY <1>2, <1>6, <2>4
    <3> QED BY <1>1, <1>3, <1>4, <2>1, <2>2, <3>1 DEF SwallowedFit
  <2> QED BY <2>3, <2>4
<1>7. CASE ~Starts(n) /\ filled = 0
  <2>1. filled' = 0 /\ swallowed' \in {0, swallowed}
    BY <1>1, <1>2, <1>7 DEF Buffered
  <2> QED BY <2>1 DEF SwallowedFit
<1> QED BY <1>5, <1>6, <1>7

\* A partial curve swallows no more replies than it takes to fill it
\* (client.rs:594-600, 674-684).
THEOREM PartialCurveFills == Spec => []SwallowingEnds
<1>1. Init => SwallowedFit
  BY DEF Init, SwallowedFit
<1>2. Core /\ SwallowedFit /\ [Next]_vars => SwallowedFit'
  <2> SUFFICES ASSUME Core, SwallowedFit, [Next]_vars PROVE SwallowedFit'
    OBVIOUS
  <2>1. CASE Take
    BY <2>1, SwallowedFitTake
  <2>2. CASE Connect \/ Disconnect
    BY <2>2 DEF Connect, Disconnect, ClearBuffer, SwallowedFit
  <2>3. CASE UNCHANGED buffering
    BY <2>3 DEF buffering, SwallowedFit
  <2>4. CASE ~Take /\ ~Connect /\ ~Disconnect
    <3>1. UNCHANGED buffering
      BY <2>4 DEF Next, Request, RequestFails, Deadline, StreamEnds, Lose, LoseLink, vars, buffering
    <3> QED BY <2>3, <3>1
  <2> QED BY <2>1, <2>2, <2>4
<1>3. SwallowedFit => SwallowingEnds
  BY DEF SwallowedFit, SwallowingEnds, Worth
<1> QED BY <1>1, <1>2, <1>3, CoreHolds, PTL DEF Spec

-----------------------------------------------------------------------------
(* What the host still has of an answer that lost nothing lies together, in *)
(* its order, across the buffer and what is coming.                        *)

Intact(n) == n.ask \notin damaged
Precedes(n, m) == m.ask = n.ask /\ m.part = n.part + 1
Stream == buffer \o coming

\* A later fragment comes right after the one before, an earlier one right
\* before the next unless the link was lost between them.
Linked(s, live, lost) ==
    \A i \in 1..Len(s) :
       /\ s[i].ask \notin lost /\ s[i].part > 1 => i > 1 /\ Precedes(s[i - 1], s[i])
       /\ s[i].ask \notin lost /\ s[i].part \in 1..(Pieces - 1) =>
             \/ i = Len(s) /\ ~live
             \/ i < Len(s) /\ Precedes(s[i], s[i + 1])

\* The buffer of an intact curve is its first fragments, and as long as
\* these; no other intact fragment is in a buffer.
BufferIntact ==
    /\ buffer # <<>> /\ Intact(buffer[1]) =>
          /\ filled = Span(Len(buffer)) /\ Len(buffer) < Pieces
          /\ \A i \in DOMAIN buffer : buffer[i].part = i /\ buffer[i].ask = buffer[1].ask
    /\ \A i \in DOMAIN buffer :
          Intact(buffer[i]) /\ buffer[i].part > 0 => buffer[i].ask = buffer[1].ask

Together == Linked(Stream, up, damaged) /\ BufferIntact

LEMMA LinkedRemove ==
    ASSUME NEW s \in Seq(Notification), NEW t \in Seq(Notification), NEW k \in 1..Len(s),
           NEW lost, Linked(s, TRUE, lost), Len(t) = Len(s) - 1,
           \A i \in 1..Len(t) : t[i] = IF i < k THEN s[i] ELSE s[i + 1]
    PROVE  Linked(t, TRUE, lost \cup {s[k].ask})
<1> SUFFICES ASSUME NEW i \in 1..Len(t), t[i].ask \notin lost \cup {s[k].ask}
             PROVE  /\ t[i].part > 1 => i > 1 /\ Precedes(t[i - 1], t[i])
                    /\ t[i].part \in 1..(Pieces - 1) => i < Len(t) /\ Precedes(t[i], t[i + 1])
  BY DEF Linked
<1>1. CASE i < k
  <2>1. t[i] = s[i] /\ i \in 1..Len(s) /\ i + 1 \in 1..Len(s)
    BY <1>1
  <2>2. ASSUME t[i].part > 1 PROVE i > 1 /\ Precedes(t[i - 1], t[i])
    <3>1. i > 1 /\ Precedes(s[i - 1], s[i])
      BY <2>1, <2>2 DEF Linked
    <3>2. t[i - 1] = s[i - 1]
      BY <1>1, <3>1
    <3> QED BY <2>1, <3>1, <3>2
  <2>3. ASSUME t[i].part \in 1..(Pieces - 1) PROVE i < Len(t) /\ Precedes(t[i], t[i + 1])
    <3>1. Precedes(s[i], s[i + 1])
      BY <2>1, <2>3 DEF Linked
    <3>2. i + 1 # k
      BY <2>1, <3>1 DEF Precedes
    <3>3. i + 1 \in 1..Len(t) /\ t[i + 1] = s[i + 1]
      BY <1>1, <3>2
    <3> QED BY <2>1, <3>1, <3>3
  <2> QED BY <2>2, <2>3
<1>2. CASE ~(i < k)
  <2>1. t[i] = s[i + 1] /\ i + 1 \in 1..Len(s)
    BY <1>2
  <2>2. ASSUME t[i].part > 1 PROVE i > 1 /\ Precedes(t[i - 1], t[i])
    <3>1. Precedes(s[i], s[i + 1])
      <4>1. Precedes(s[(i + 1) - 1], s[i + 1])
        BY <2>1, <2>2 DEF Linked
      <4>2. (i + 1) - 1 = i
        OBVIOUS
      <4> QED BY <4>1, <4>2
    <3>2. i # k
      BY <2>1, <3>1 DEF Precedes
    <3>3. i - 1 \in 1..Len(t) /\ ~(i - 1 < k) /\ (i - 1) + 1 = i
      BY <1>2, <3>2
    <3>4. t[i - 1] = s[i]
      BY <3>3
    <3> QED BY <2>1, <3>1, <3>3, <3>4
  <2>3. ASSUME t[i].part \in 1..(Pieces - 1) PROVE i < Len(t) /\ Precedes(t[i], t[i + 1])
    <3>1. i + 1 < Len(s) /\ Precedes(s[i + 1], s[(i + 1) + 1])
      BY <2>1, <2>3 DEF Linked
    <3>2. i + 1 \in 1..Len(t) /\ t[i + 1] = s[(i + 1) + 1]
      BY <1>2, <3>1
    <3> QED BY <2>1, <3>1, <3>2
  <2> QED BY <2>2, <2>3
<1> QED BY <1>1, <1>2

LEMMA LinkedPrefix ==
    ASSUME NEW s \in Seq(Notification), NEW t \in Seq(Notification), NEW k \in 0..Len(s),
           NEW lost, NEW live \in BOOLEAN, Linked(s, live, lost), Len(t) = k,
           \A i \in 1..k : t[i] = s[i]
    PROVE  Linked(t, FALSE, lost)
<1> SUFFICES ASSUME NEW i \in 1..k, t[i].ask \notin lost
             PROVE  /\ t[i].part > 1 => i > 1 /\ Precedes(t[i - 1], t[i])
                    /\ t[i].part \in 1..(Pieces - 1) =>
                          i = Len(t) \/ (i < Len(t) /\ Precedes(t[i], t[i + 1]))
  BY DEF Linked
<1>1. t[i] = s[i] /\ i \in 1..Len(s)
  OBVIOUS
<1>2. ASSUME t[i].part > 1 PROVE i > 1 /\ Precedes(t[i - 1], t[i])
  <2>1. i > 1 /\ Precedes(s[i - 1], s[i])
    BY <1>1, <1>2 DEF Linked
  <2>2. t[i - 1] = s[i - 1]
    BY <2>1
  <2> QED BY <1>1, <2>1, <2>2
<1>3. ASSUME t[i].part \in 1..(Pieces - 1), i # k PROVE i < Len(t) /\ Precedes(t[i], t[i + 1])
  <2>1. i < Len(s) /\ i + 1 \in 1..k /\ i < Len(t)
    BY <1>3
  <2>2. Precedes(s[i], s[i + 1])
    BY <1>1, <1>3, <2>1 DEF Linked
  <2>3. t[i + 1] = s[i + 1]
    BY <2>1
  <2> QED BY <1>1, <2>1, <2>2, <2>3
<1> QED BY <1>2, <1>3

\* t is what is left of s after its first d entries; it begins with no later
\* fragment of an intact answer.
LeftAfter(t, s, d) == Len(t) = Len(s) - d /\ \A i \in 1..Len(t) : t[i] = s[d + i]
BeginsWell(t, lost) == Len(t) > 0 => t[1].ask \in lost \/ ~(t[1].part > 1)

\* Dropping what comes before is fine, but before a later fragment.
LEMMA LinkedSuffix ==
    ASSUME NEW s \in Seq(Notification), NEW t \in Seq(Notification), NEW d \in 0..Len(s),
           NEW lost, NEW live \in BOOLEAN, Linked(s, live, lost),
           LeftAfter(t, s, d), BeginsWell(t, lost)
    PROVE  Linked(t, live, lost)
<1> USE DEF LeftAfter, BeginsWell
<1> SUFFICES ASSUME NEW i \in 1..Len(t), t[i].ask \notin lost
             PROVE  /\ t[i].part > 1 => i > 1 /\ Precedes(t[i - 1], t[i])
                    /\ t[i].part \in 1..(Pieces - 1) =>
                          \/ i = Len(t) /\ ~live
                          \/ i < Len(t) /\ Precedes(t[i], t[i + 1])
  BY DEF Linked
<1>1. t[i] = s[d + i] /\ d + i \in 1..Len(s)
  OBVIOUS
<1>2. ASSUME t[i].part > 1 PROVE i > 1 /\ Precedes(t[i - 1], t[i])
  <2>1. i > 1
    BY <1>2
  <2>2. Precedes(s[(d + i) - 1], s[d + i])
    BY <1>1, <1>2 DEF Linked
  <2>3. i - 1 \in 1..Len(t) /\ (d + i) - 1 = d + (i - 1)
    BY <2>1
  <2>4. t[i - 1] = s[d + (i - 1)]
    BY <2>3
  <2> QED BY <1>1, <2>1, <2>2, <2>3, <2>4
<1>3. ASSUME t[i].part \in 1..(Pieces - 1)
      PROVE  (i = Len(t) /\ ~live) \/ (i < Len(t) /\ Precedes(t[i], t[i + 1]))
  <2>1. \/ d + i = Len(s) /\ ~live
        \/ d + i < Len(s) /\ Precedes(s[d + i], s[(d + i) + 1])
    BY <1>1, <1>3 DEF Linked
  <2>2. CASE d + i = Len(s) /\ ~live
    <3>1. i = Len(t)
      <4>1. ASSUME NEW k \in Nat, NEW l \in Nat, d + i = k, l = k - d PROVE i = l
        BY <4>1
      <4>2. Len(s) \in Nat /\ Len(t) \in Nat /\ Len(t) = Len(s) - d
        OBVIOUS
      <4>3. d + i = Len(s)
        BY <2>2
      <4> QED BY <4>1, <4>2, <4>3
    <3>2. ~live
      BY <2>2
    <3> QED BY <3>1, <3>2
  <2>3. CASE d + i < Len(s) /\ Precedes(s[d + i], s[(d + i) + 1])
    <3>0. d \in Int /\ i \in Int /\ Len(s) \in Int /\ Len(t) \in Int
      OBVIOUS
    <3>1. d + i < Len(s)
      BY <2>3, Zenon
    <3>2. i + 1 \in 1..Len(t) /\ (d + i) + 1 = d + (i + 1) /\ i < Len(t)
      BY <3>0, <3>1
    <3>3. t[i + 1] = s[(d + i) + 1]
      BY <3>2
    <3>4. Precedes(t[i], t[i + 1])
      BY <1>1, <2>3, <3>3
    <3> QED BY <3>2, <3>4
  <2> QED BY <2>1, <2>2, <2>3
<1> QED BY <1>2, <1>3

LEMMA LinkedAppend ==
    ASSUME NEW s \in Seq(Notification), NEW a \in Seq(Notification), NEW t \in Seq(Notification),
           NEW lost, Linked(s, TRUE, lost), Len(t) = Len(s) + Len(a),
           \A i \in 1..Len(s) : t[i] = s[i],
           \A i \in DOMAIN a : t[Len(s) + i] = a[i],
           \A i, j \in DOMAIN a : a[i].ask = a[j].ask,
           \/ Len(a) = Pieces /\ \A i \in DOMAIN a : a[i].part = i
           \/ Len(a) = 1 /\ a[1].part = 0
    PROVE  Linked(t, TRUE, lost)
<1> SUFFICES ASSUME NEW i \in 1..Len(t), t[i].ask \notin lost
             PROVE  /\ t[i].part > 1 => i > 1 /\ Precedes(t[i - 1], t[i])
                    /\ t[i].part \in 1..(Pieces - 1) => i < Len(t) /\ Precedes(t[i], t[i + 1])
  BY DEF Linked
<1>1. CASE i <= Len(s)
  <2>1. i \in 1..Len(s) /\ t[i] = s[i]
    BY <1>1
  <2>2. ASSUME t[i].part > 1 PROVE i > 1 /\ Precedes(t[i - 1], t[i])
    <3>1. i > 1 /\ Precedes(s[i - 1], s[i])
      BY <2>1, <2>2 DEF Linked
    <3>2. t[i - 1] = s[i - 1]
      BY <2>1, <3>1
    <3> QED BY <2>1, <3>1, <3>2
  <2>3. ASSUME t[i].part \in 1..(Pieces - 1) PROVE i < Len(t) /\ Precedes(t[i], t[i + 1])
    <3>1. i < Len(s) /\ Precedes(s[i], s[i + 1])
      BY <2>1, <2>3 DEF Linked
    <3>2. t[i + 1] = s[i + 1]
      BY <2>1, <3>1
    <3> QED BY <2>1, <3>1, <3>2
  <2> QED BY <2>2, <2>3
<1>2. CASE ~(i <= Len(s))
  <2> DEFINE j == i - Len(s)
  <2>1. j \in 1..Len(a) /\ i = Len(s) + j
    BY <1>2
  <2>2. t[i] = a[j]
    BY <2>1
  <2> HIDE DEF j
  <2>3. CASE Len(a) = 1 /\ a[1].part = 0
    BY <2>1, <2>2, <2>3
  <2>4. CASE Len(a) = Pieces /\ \A x \in DOMAIN a : a[x].part = x
    <3>1. t[i].part = j
      BY <2>1, <2>2, <2>4
    <3>2. ASSUME j > 1 PROVE i > 1 /\ Precedes(t[i - 1], t[i])
      <4>1. j - 1 \in DOMAIN a /\ i - 1 = Len(s) + (j - 1)
        BY <2>1, <3>2
      <4>2. t[i - 1] = a[j - 1]
        BY <4>1
      <4>3. j \in DOMAIN a /\ j \in Int
        BY <2>1
      <4>4. a[j].part = j /\ a[j - 1].part = j - 1
        BY <2>4, <4>1, <4>3
      <4>5. a[j].ask = a[j - 1].ask
        BY <4>1, <4>3
      <4>6. i > 1 /\ j = (j - 1) + 1
        BY <2>1, <3>2, <4>3
      <4>7. Precedes(a[j - 1], a[j])
        BY <4>4, <4>5, <4>6 DEF Precedes
      <4> QED BY <2>2, <4>2, <4>6, <4>7
    <3>3. ASSUME j \in 1..(Pieces - 1) PROVE i < Len(t) /\ Precedes(t[i], t[i + 1])
      <4>1. j + 1 \in DOMAIN a /\ i + 1 = Len(s) + (j + 1) /\ i + 1 <= Len(t)
        BY <2>1, <2>4, <3>3
      <4>2. t[i + 1] = a[j + 1]
        BY <4>1
      <4>3. j \in DOMAIN a
        BY <2>1
      <4>4. a[j + 1].part = j + 1 /\ a[j].part = j
        BY <2>4, <4>1, <4>3
      <4>5. a[j].ask = a[j + 1].ask
        BY <4>1, <4>3
      <4>6. Precedes(a[j], a[j + 1])
        BY <4>4, <4>5 DEF Precedes
      <4>7. i < Len(t)
        BY <2>1, <4>1
      <4> QED BY <2>2, <4>2, <4>6, <4>7
    <3> QED BY <3>1, <3>2, <3>3
  <2> QED BY <2>3, <2>4
<1> QED BY <1>1, <1>2

LEMMA StreamFacts ==
    ASSUME NEW b \in Seq(Notification), NEW c \in Seq(Notification)
    PROVE  /\ b \o c \in Seq(Notification) /\ Len(b \o c) = Len(b) + Len(c)
           /\ \A i \in 1..Len(b) : (b \o c)[i] = b[i]
           /\ \A i \in 1..Len(c) : (b \o c)[Len(b) + i] = c[i]
<1>1. /\ b \o c \in Seq(Notification) /\ Len(b \o c) = Len(b) + Len(c)
      /\ \A i \in 1..(Len(b) + Len(c)) :
            (b \o c)[i] = IF i <= Len(b) THEN b[i] ELSE c[i - Len(b)]
  BY ConcatProperties
<1>2. ASSUME NEW i \in 1..Len(b) PROVE (b \o c)[i] = b[i]
  <2>1. i \in 1..(Len(b) + Len(c)) /\ i <= Len(b)
    OBVIOUS
  <2> QED BY <1>1, <2>1
<1>3. ASSUME NEW i \in 1..Len(c) PROVE (b \o c)[Len(b) + i] = c[i]
  <2>1. /\ Len(b) + i \in 1..(Len(b) + Len(c)) /\ ~(Len(b) + i <= Len(b))
        /\ Len(b) + i - Len(b) = i
    OBVIOUS
  <2> QED BY <1>1, <2>1
<1> QED BY <1>1, <1>2, <1>3

\* After the buffer of an intact curve comes its next fragment; an intact
\* later fragment comes after the one before.
LEMMA NextFits ==
    ASSUME Core, Together, coming # <<>>, NEW n, n = coming[1]
    PROVE  /\ buffer # <<>> /\ Intact(buffer[1]) =>
                 /\ n.ask = buffer[1].ask /\ n.part = Len(buffer) + 1
                 /\ filled = Span(Len(buffer)) /\ Len(buffer) \in 1..(Pieces - 1)
           /\ Intact(n) /\ n.part > 1 =>
                 buffer # <<>> /\ Intact(buffer[1]) /\ n.ask = buffer[1].ask
<1>1. buffer \in Seq(Notification) /\ coming \in Seq(Notification)
  BY DEF Core, TypeOK
<1> DEFINE k == Len(buffer)
<1>2. /\ Stream \in Seq(Notification) /\ Len(Stream) = k + Len(coming)
      /\ \A i \in 1..k : Stream[i] = buffer[i]
      /\ Stream[k + 1] = n
  <2>1. 1 \in 1..Len(coming)
    BY <1>1
  <2> QED BY <1>1, <2>1, StreamFacts DEF Stream
<1>3. k \in Nat /\ k + 1 \in 1..Len(Stream) /\ k < Len(Stream) /\ Pieces \in Nat
  BY <1>1, <1>2, LengthsAssumption
<1>4. buffer # <<>> => k \in 1..k /\ k \in 1..Len(Stream) /\ Stream[k] = buffer[k]
                        /\ k \in DOMAIN buffer /\ 1 \in DOMAIN buffer
  BY <1>1, <1>2, <1>3
<1>5. n \in Notification /\ n.part \in Nat
  <2>1. n \in Notification
    BY <1>1
  <2>2. n.part \in 0..Pieces
    BY <2>1 DEF Notification
  <2> QED BY <2>1, <2>2
<1> HIDE DEF k
<1>6. ASSUME buffer # <<>>, Intact(buffer[1])
      PROVE  /\ n.ask = buffer[1].ask /\ n.part = k + 1
             /\ filled = Span(k) /\ k \in 1..(Pieces - 1)
  <2>1. /\ filled = Span(k) /\ k < Pieces
        /\ buffer[k].part = k /\ buffer[k].ask = buffer[1].ask
    BY <1>4, <1>6 DEF Together, BufferIntact, k
  <2>2. k \in 1..(Pieces - 1)
    <3>1. k \in 1..k /\ k < Pieces
      BY <1>4, <1>6, <2>1
    <3> QED BY <1>3, <3>1
  <2>3. Stream[k].ask \notin damaged /\ Stream[k].part = k
    BY <1>4, <1>6, <2>1 DEF Intact
  <2>4. Precedes(Stream[k], Stream[k + 1])
    <3>1. \/ k = Len(Stream) /\ ~up
          \/ k < Len(Stream) /\ Precedes(Stream[k], Stream[k + 1])
      BY <1>4, <1>6, <2>2, <2>3 DEF Together, Linked
    <3>2. k # Len(Stream)
      BY <1>2, <1>3
    <3> QED BY <3>1, <3>2
  <2> QED BY <1>2, <1>4, <1>6, <2>1, <2>2, <2>3, <2>4 DEF Precedes
<1>7. ASSUME Intact(n), n.part > 1
      PROVE  buffer # <<>> /\ Intact(buffer[1]) /\ n.ask = buffer[1].ask
  <2>1. k + 1 > 1 /\ Precedes(Stream[(k + 1) - 1], Stream[k + 1])
    BY <1>2, <1>3, <1>7 DEF Together, Linked, Intact
  <2>2. (k + 1) - 1 = k
    BY <1>3
  <2>3. buffer # <<>>
    BY <2>1, <1>3 DEF k
  <2>4. n.ask = buffer[k].ask /\ n.part = buffer[k].part + 1
    BY <1>2, <1>4, <2>1, <2>2, <2>3 DEF Precedes
  <2>5. buffer[k].part \in Nat
    <3>1. buffer[k] \in Notification
      BY <1>1, <1>4, <2>3
    <3> QED BY <3>1, LengthsAssumption DEF Notification
  <2>6. buffer[k].part > 0 /\ Intact(buffer[k])
    BY <1>7, <2>4, <2>5 DEF Intact
  <2>7. buffer[k].ask = buffer[1].ask
    BY <1>4, <2>3, <2>6 DEF Together, BufferIntact
  <2> QED BY <2>3, <2>4, <2>6, <2>7 DEF Intact
<1> QED BY <1>6, <1>7 DEF k

\* An intact curve is as long as its fragments, so the buffer is full with
\* the last of them and not before.
LEMMA IntactLength ==
    ASSUME NEW k \in 1..(Pieces - 1), NEW n, Shaped(n), n.part = k + 1
    PROVE  /\ k + 1 < Pieces => Span(k) + n.size = Span(k + 1) /\ Span(k) + n.size < CurveLen
           /\ k + 1 = Pieces => Span(k) + n.size = CurveLen
<1>1. /\ k \in Nat /\ Pieces \in Nat /\ k + 1 \in 1..Pieces /\ k + 1 # 0
      /\ CurveLen \in Nat /\ FragmentLen \in Nat
  BY LengthsAssumption
<1>2. n.size = SizeOf(k + 1)
  <2>1. n.part # 0
    BY <1>1
  <2> QED BY <2>1 DEF Shaped
<1>3. Span(k) \in Nat /\ Span(k + 1) = Span(k) + FragmentLen /\ Span(k + 1) \in Nat
  <2>1. k + 1 \in Nat
    BY <1>1
  <2> QED BY <1>1, <2>1, SpanFacts
<1>4. ASSUME k + 1 < Pieces
      PROVE  Span(k) + n.size = Span(k + 1) /\ Span(k) + n.size < CurveLen
  <2>1. n.size = FragmentLen
    BY <1>1, <1>2, <1>4, Sizes
  <2>2. Span(k + 1) <= Span(Pieces - 1)
    <3>1. Pieces - 1 \in Nat /\ k + 1 \in Nat /\ k + 1 <= Pieces - 1
      BY <1>1, <1>4
    <3> QED BY <3>1, SpanFacts
  <2>3. Span(Pieces - 1) < CurveLen /\ Span(Pieces - 1) \in Nat
    <3>1. Pieces - 1 \in Nat
      BY LengthsAssumption
    <3> QED BY <3>1, SpanFacts
  <2> QED BY <1>1, <1>3, <2>1, <2>2, <2>3
<1>5. ASSUME k + 1 = Pieces PROVE Span(k) + n.size = CurveLen
  <2>1. k = Pieces - 1
    BY <1>1, <1>5
  <2>2. n.size = CurveLen - Span(k)
    BY <1>1, <1>2, <1>5, <2>1, Sizes
  <2> QED BY <1>1, <1>3, <2>2
<1> QED BY <1>4, <1>5

LEMMA FirstLength ==
    ASSUME NEW n, Shaped(n), n.part = 1
    PROVE  /\ n.size < CurveLen <=> Pieces > 1
           /\ Pieces > 1 => n.size = Span(1)
<1>1. n.size = SizeOf(1) /\ 1 \in 1..Pieces /\ CurveLen \in Nat /\ FragmentLen \in Nat
  BY LengthsAssumption DEF Shaped
<1>2. CASE Pieces > 1
  <2>1. n.size = FragmentLen /\ Span(1) = FragmentLen
    BY <1>1, <1>2, Sizes, SpanFacts
  <2>2. Span(1) <= Span(Pieces - 1) /\ Span(Pieces - 1) < CurveLen /\ Span(Pieces - 1) \in Nat
    <3>1. Pieces - 1 \in Nat /\ 1 <= Pieces - 1
      BY <1>2, LengthsAssumption
    <3> QED BY <3>1, SpanFacts
  <2> QED BY <1>1, <1>2, <2>1, <2>2
<1>3. CASE ~(Pieces > 1)
  <2>1. Pieces = 1 /\ Pieces - 1 = 0
    BY <1>3, LengthsAssumption
  <2>2. n.size = CurveLen
    BY <1>1, <2>1, Sizes, SpanFacts
  <2> QED BY <1>1, <2>1, <2>2
<1> QED BY <1>2, <1>3

\* The rest of the stream begins with no later fragment of an intact answer,
\* so it is linked if the stream was.
LEMMA RestLinked ==
    ASSUME Core, Together, NEW d \in 0..(Len(buffer) + Len(coming)),
           NEW t \in Seq(Notification), LeftAfter(t, Stream, d), BeginsWell(t, damaged)
    PROVE  Linked(t, up, damaged)
<1>1. /\ buffer \in Seq(Notification) /\ coming \in Seq(Notification) /\ up \in BOOLEAN
  BY DEF Core, TypeOK
<1>2. /\ Stream \in Seq(Notification) /\ Len(Stream) = Len(buffer) + Len(coming)
  BY <1>1, StreamFacts DEF Stream
<1>3. d \in 0..Len(Stream) /\ Linked(Stream, up, damaged)
  BY <1>2 DEF Together
<1> QED BY <1>1, <1>2, <1>3, LinkedSuffix, Zenon

\* What the stream is when a notification is taken: nothing buffered is
\* left, or that notification alone, or it after the others.
LEMMA StreamTaken ==
    ASSUME Core, coming # <<>>, NEW c \in Seq(Notification), LeftAfter(c, coming, 1)
    PROVE  /\ LeftAfter(c, Stream, Len(buffer) + 1)
           /\ LeftAfter(<<coming[1]>> \o c, Stream, Len(buffer))
           /\ LeftAfter(Append(buffer, coming[1]) \o c, Stream, 0)
           /\ <<coming[1]>> \o c \in Seq(Notification) /\ Len(<<coming[1]>> \o c) > 0
           /\ (<<coming[1]>> \o c)[1] = coming[1]
           /\ Append(buffer, coming[1]) \o c \in Seq(Notification)
<1> DEFINE n == coming[1]
           k == Len(buffer)
<1>1. /\ buffer \in Seq(Notification) /\ coming \in Seq(Notification)
      /\ k \in Nat /\ Len(coming) \in Nat /\ Len(c) \in Nat /\ Len(coming) >= 1
  BY DEF Core, TypeOK
<1>2. /\ Len(c) = Len(coming) - 1 /\ \A i \in 1..Len(c) : c[i] = coming[1 + i]
      /\ n \in Notification /\ <<n>> \in Seq(Notification) /\ Len(<<n>>) = 1 /\ <<n>>[1] = n
  BY <1>1 DEF LeftAfter
<1>3. /\ Append(buffer, n) \in Seq(Notification) /\ Len(Append(buffer, n)) = k + 1
      /\ \A i \in 1..k : Append(buffer, n)[i] = buffer[i]
      /\ Append(buffer, n)[k + 1] = n
  BY <1>1, <1>2
<1>4. /\ Len(Stream) = k + Len(coming)
      /\ \A i \in 1..k : Stream[i] = buffer[i]
      /\ \A i \in 1..Len(coming) : Stream[k + i] = coming[i]
  BY <1>1, StreamFacts DEF Stream
<1>5. /\ <<n>> \o c \in Seq(Notification) /\ Len(<<n>> \o c) = 1 + Len(c)
      /\ \A i \in 1..1 : (<<n>> \o c)[i] = <<n>>[i]
      /\ \A i \in 1..Len(c) : (<<n>> \o c)[1 + i] = c[i]
  BY <1>2, StreamFacts
<1>6. /\ Append(buffer, n) \o c \in Seq(Notification)
      /\ Len(Append(buffer, n) \o c) = (k + 1) + Len(c)
      /\ \A i \in 1..(k + 1) : (Append(buffer, n) \o c)[i] = Append(buffer, n)[i]
      /\ \A i \in 1..Len(c) : (Append(buffer, n) \o c)[(k + 1) + i] = c[i]
  BY <1>3, StreamFacts
<1> HIDE DEF n, k
<1>7. LeftAfter(c, Stream, k + 1)
  <2>1. Len(c) = Len(Stream) - (k + 1)
    BY <1>1, <1>2, <1>4
  <2>2. ASSUME NEW i \in 1..Len(c) PROVE c[i] = Stream[(k + 1) + i]
    <3>1. 1 + i \in 1..Len(coming) /\ (k + 1) + i = k + (1 + i)
      BY <1>1, <1>2
    <3> QED BY <1>2, <1>4, <3>1
  <2> QED BY <2>1, <2>2 DEF LeftAfter
<1>8. LeftAfter(<<n>> \o c, Stream, k)
  <2> DEFINE t == <<n>> \o c
  <2> HIDE DEF t
  <2>1. Len(t) = Len(Stream) - k
    BY <1>1, <1>2, <1>4, <1>5 DEF t
  <2>2. ASSUME NEW i \in 1..Len(t) PROVE t[i] = Stream[k + i]
    <3>1. CASE i = 1
      <4>1. t[1] = n
        BY <1>2, <1>5 DEF t
      <4>2. Stream[k + 1] = coming[1]
        BY <1>1, <1>4
      <4> QED BY <3>1, <4>1, <4>2 DEF n
    <3>2. CASE i # 1
      <4>1. i - 1 \in 1..Len(c) /\ 1 + (i - 1) = i /\ i \in 1..Len(coming)
        BY <1>1, <1>2, <1>5, <3>2 DEF t
      <4>2. t[i] = c[i - 1]
        <5>1. t[1 + (i - 1)] = c[i - 1]
          BY <1>5, <4>1 DEF t
        <5> QED BY <4>1, <5>1
      <4>3. c[i - 1] = coming[i]
        BY <1>2, <4>1
      <4> QED BY <1>4, <4>1, <4>2, <4>3
    <3> QED BY <3>1, <3>2
  <2> QED BY <2>1, <2>2 DEF LeftAfter, t
<1>9. LeftAfter(Append(buffer, n) \o c, Stream, 0)
  <2> DEFINE t == Append(buffer, n) \o c
  <2> HIDE DEF t
  <2>1. Len(t) = Len(Stream) /\ Len(t) \in Nat
    BY <1>1, <1>2, <1>4, <1>6 DEF t
  <2>2. ASSUME NEW i \in 1..Len(t) PROVE t[i] = Stream[i]
    <3>1. CASE i <= k
      <4>1. i \in 1..k /\ i \in 1..(k + 1)
        BY <1>1, <2>1, <3>1
      <4> QED BY <1>3, <1>4, <1>6, <4>1 DEF t
    <3>2. CASE i = k + 1
      <4>1. t[i] = n
        BY <1>1, <1>3, <1>6, <3>2 DEF t
      <4>2. Stream[k + 1] = coming[1]
        BY <1>1, <1>4
      <4> QED BY <3>2, <4>1, <4>2 DEF n
    <3>3. CASE i > k + 1
      <4> DEFINE j == i - (k + 1)
      <4>1. /\ j \in 1..Len(c) /\ (k + 1) + j = i /\ 1 + j \in 1..Len(coming)
            /\ k + (1 + j) = i
        BY <1>1, <1>2, <1>6, <3>3 DEF t
      <4> HIDE DEF j
      <4>2. t[(k + 1) + j] = c[j] /\ c[j] = coming[1 + j]
        BY <1>2, <1>6, <4>1 DEF t
      <4>3. Stream[k + (1 + j)] = coming[1 + j]
        BY <1>4, <4>1
      <4> QED BY <4>1, <4>2, <4>3
    <3> QED BY <1>1, <2>1, <3>1, <3>2, <3>3
  <2>3. \A i \in 1..Len(t) : t[i] = Stream[0 + i]
    BY <2>1, <2>2
  <2>4. Len(t) = Len(Stream) - 0
    BY <2>1
  <2> QED BY <2>3, <2>4 DEF LeftAfter, t
<1>10. Len(<<n>> \o c) > 0 /\ (<<n>> \o c)[1] = n
  BY <1>1, <1>2, <1>5
<1> QED BY <1>5, <1>6, <1>7, <1>8, <1>9, <1>10 DEF n, k

\* An intact later fragment comes right after the notification taken.
LEMMA NextButOne ==
    ASSUME Core, Together, coming # <<>>, NEW c \in Seq(Notification), LeftAfter(c, coming, 1),
           NEW n, n = coming[1], Len(c) > 0, Intact(c[1]), c[1].part > 1
    PROVE  Intact(n) /\ n.part + 1 = c[1].part /\ n.part \in 1..(Pieces - 1)
<1> DEFINE k == Len(buffer)
           m == c[1]
<1>1. /\ buffer \in Seq(Notification) /\ coming \in Seq(Notification)
      /\ k \in Nat /\ Len(coming) \in Nat /\ Len(c) \in Nat
  BY DEF Core, TypeOK
<1>2. 1 \in 1..Len(c) /\ 1 \in 1..Len(coming) /\ 2 \in 1..Len(coming) /\ c[1] = coming[2]
  BY <1>1 DEF LeftAfter
<1>3. /\ Len(Stream) = k + Len(coming)
      /\ Stream[k + 1] = n /\ Stream[k + 2] = m
  BY <1>1, <1>2, StreamFacts DEF Stream
<1>4. n.part \in 0..Pieces /\ m.part \in 0..Pieces
  <2>1. n \in Notification /\ m \in Notification
    BY <1>1, <1>2
  <2> HIDE DEF m
  <2> QED BY <2>1 DEF Notification
<1> HIDE DEF k, m
<1>5. k + 2 \in 1..Len(Stream) /\ (k + 2) - 1 = k + 1
  BY <1>1, <1>2, <1>3
<1>6. Precedes(Stream[(k + 2) - 1], Stream[k + 2])
  BY <1>3, <1>5 DEF Together, Linked, Intact, m
<1>7. m.ask = n.ask /\ m.part = n.part + 1
  BY <1>3, <1>5, <1>6 DEF Precedes
<1>8. n.part \in Int /\ m.part \in Int /\ Pieces \in Int /\ m.part > 1 /\ m.part <= Pieces
  BY <1>4, LengthsAssumption DEF m
<1>9. n.part \in 1..(Pieces - 1)
  BY <1>7, <1>8
<1> QED BY <1>7, <1>9 DEF Intact, m

LEMMA TogetherTake == Core /\ Together /\ Take => Together'
<1> SUFFICES ASSUME Core, Together, Take PROVE Together'
  OBVIOUS
<1> DEFINE n == Head(coming)
           c == coming'
           k == Len(buffer)
<1>1. /\ n \in Notification /\ Shaped(n) /\ n.size \in Nat \ {0}
      /\ coming # <<>> /\ n = coming[1]
      /\ c \in Seq(Notification) /\ Len(c) = Len(coming) - 1
      /\ \A i \in 1..Len(c) : c[i] = coming[i + 1]
      /\ \/ Starts(n) /\ Into(<<n>>, n.size)
         \/ ~Starts(n) /\ filled # 0 /\ Into(Append(buffer, n), filled + n.size)
         \/ ~Starts(n) /\ filled = 0 /\ Conclude(<<n>>) /\ UNCHANGED <<filled, buffer>>
  BY TakeFacts
<1>2. /\ buffer \in Seq(Notification) /\ coming \in Seq(Notification)
      /\ k \in Nat /\ Len(coming) \in Nat \ {0} /\ Len(c) \in Nat
      /\ filled \in 0..(CurveLen - 1) /\ (filled = 0 <=> buffer = <<>>)
  BY <1>1 DEF Core, TypeOK, BufferHoldsOneCurve
<1>3. LeftAfter(c, coming, 1)
  BY <1>1, <1>2 DEF LeftAfter
<1>4. up' = up /\ damaged' = damaged /\ Stream' = buffer' \o c
  BY DEF Take, Stream
<1>5. n.part \in 0..Pieces /\ (Starts(n) <=> n.part = 1)
  BY <1>1 DEF Notification, Shaped, Starts
<1>6. \A d \in 0..(k + Len(coming)) : \A t \in Seq(Notification) :
         LeftAfter(t, Stream, d) /\ BeginsWell(t, damaged) => Linked(t, up, damaged)
  BY RestLinked
<1>7. /\ LeftAfter(c, Stream, k + 1)
      /\ LeftAfter(<<n>> \o c, Stream, k)
      /\ LeftAfter(Append(buffer, n) \o c, Stream, 0)
      /\ <<n>> \o c \in Seq(Notification) /\ (<<n>> \o c)[1] = n
      /\ Append(buffer, n) \o c \in Seq(Notification)
  BY <1>1, <1>3, StreamTaken
<1>8. ASSUME Len(c) > 0, Intact(c[1]), c[1].part > 1
      PROVE  Intact(n) /\ n.part + 1 = c[1].part /\ n.part \in 1..(Pieces - 1) /\ c[1].part <= Pieces
  <2>1. Intact(n) /\ n.part + 1 = c[1].part /\ n.part \in 1..(Pieces - 1)
    BY <1>1, <1>3, <1>8, NextButOne
  <2> QED BY <2>1, LengthsAssumption
<1>9. /\ buffer # <<>> /\ Intact(buffer[1]) =>
            /\ n.ask = buffer[1].ask /\ n.part = k + 1
            /\ filled = Span(k) /\ k \in 1..(Pieces - 1)
      /\ Intact(n) /\ n.part > 1 =>
            buffer # <<>> /\ Intact(buffer[1]) /\ n.ask = buffer[1].ask
  BY <1>1, NextFits
<1>10. buffer' = <<>> => BufferIntact'
  BY DEF BufferIntact
<1>11. k \in 0..(k + Len(coming)) /\ k + 1 \in 0..(k + Len(coming)) /\ 0 \in 0..(k + Len(coming))
  BY <1>2
<1>12. <<>> \o c = c
  BY <1>1
<1> HIDE DEF n, c, k
<1>13. ASSUME BeginsWell(c, damaged), buffer' = <<>> PROVE Together'
  <2>1. Linked(c, up, damaged)
    BY <1>1, <1>6, <1>7, <1>11, <1>13
  <2>2. Stream' = c
    BY <1>4, <1>12, <1>13
  <2> QED BY <1>4, <1>10, <1>13, <2>1, <2>2 DEF Together
<1>14. CASE Starts(n) /\ Into(<<n>>, n.size)
  <2>1. n.part = 1
    BY <1>5, <1>14
  <2>2. CASE n.size < CurveLen
    <3>1. buffer' = <<n>> /\ filled' = n.size
      BY <1>1, <1>14, <2>2, LengthsAssumption DEF Into
    <3>2. BeginsWell(<<n>> \o c, damaged)
      BY <1>7, <2>1 DEF BeginsWell
    <3>3. Linked(<<n>> \o c, up, damaged)
      BY <1>6, <1>7, <1>11, <3>2
    <3>4. BufferIntact'
      <4>1. Pieces > 1 /\ filled' = Span(1)
        BY <1>1, <2>1, <2>2, <3>1, FirstLength
      <4>2. DOMAIN buffer' = {1} /\ Len(buffer') = 1 /\ buffer'[1] = n
        BY <3>1
      <4> QED BY <2>1, <4>1, <4>2 DEF BufferIntact
    <3> QED BY <1>4, <3>1, <3>3, <3>4 DEF Together
  <2>3. CASE ~(n.size < CurveLen)
    <3>1. buffer' = <<>>
      BY <1>1, <1>14, <2>3, LengthsAssumption DEF Into
    <3>2. ~(Pieces > 1)
      BY <1>1, <2>1, <2>3, FirstLength
    <3>3. BeginsWell(c, damaged)
      BY <1>8, <3>2, LengthsAssumption DEF BeginsWell, Intact
    <3> QED BY <1>13, <3>1, <3>3
  <2> QED BY <2>2, <2>3
<1>15. CASE ~Starts(n) /\ filled # 0 /\ Into(Append(buffer, n), filled + n.size)
  <2>1. n.part # 1 /\ buffer # <<>> /\ filled + n.size \in Nat /\ CurveLen \in Nat
    BY <1>1, <1>2, <1>5, <1>15, LengthsAssumption
  <2>2. ASSUME Intact(buffer[1])
        PROVE  /\ k + 1 < Pieces => filled + n.size = Span(k + 1) /\ filled + n.size < CurveLen
               /\ k + 1 = Pieces => filled + n.size = CurveLen
    BY <1>1, <1>9, <2>1, <2>2, IntactLength
  <2>3. CASE filled + n.size < CurveLen
    <3>1. buffer' = Append(buffer, n) /\ filled' = filled + n.size
      BY <1>15, <2>1, <2>3 DEF Into
    <3>2. BeginsWell(Append(buffer, n) \o c, damaged)
      <4> DEFINE t == Append(buffer, n) \o c
      <4> HIDE DEF t
      <4>1. Stream \in Seq(Notification) /\ Len(Stream) \in Nat
        BY <1>2, StreamFacts DEF Stream
      <4>2. Len(t) > 0 => t[1] = Stream[1] /\ 1 \in 1..Len(Stream)
        BY <1>7, <4>1 DEF LeftAfter, t
      <4>3. ASSUME 1 \in 1..Len(Stream), Intact(Stream[1]), Stream[1].part > 1 PROVE FALSE
        BY <4>3 DEF Together, Linked, Intact
      <4> QED BY <4>2, <4>3 DEF BeginsWell, Intact, t
    <3>3. Linked(Append(buffer, n) \o c, up, damaged)
      BY <1>6, <1>7, <1>11, <3>2
    <3>4. BufferIntact'
      <4>1. /\ buffer' \in Seq(Notification) /\ Len(buffer') = k + 1
            /\ \A i \in 1..k : buffer'[i] = buffer[i]
            /\ buffer'[k + 1] = n /\ DOMAIN buffer' = 1..(k + 1) /\ DOMAIN buffer = 1..k
            /\ 1 \in 1..k
        BY <1>1, <1>2, <2>1, <3>1 DEF k
      <4>2. ASSUME Intact(buffer[1])
            PROVE  /\ filled' = Span(k + 1) /\ k + 1 < Pieces
                   /\ n.part = k + 1 /\ n.ask = buffer[1].ask
                   /\ \A i \in 1..k : buffer[i].part = i /\ buffer[i].ask = buffer[1].ask
        <5>1. k \in 1..(Pieces - 1) /\ n.part = k + 1 /\ n.ask = buffer[1].ask
          BY <1>9, <2>1, <4>2
        <5>2. k + 1 < Pieces
          BY <2>1, <2>2, <2>3, <4>2, <5>1, LengthsAssumption
        <5>3. \A i \in 1..k : buffer[i].part = i /\ buffer[i].ask = buffer[1].ask
          BY <2>1, <4>1, <4>2 DEF Together, BufferIntact
        <5> QED BY <2>2, <3>1, <4>2, <5>1, <5>2, <5>3
      <4>3. ASSUME NEW i \in 1..(k + 1), Intact(buffer'[i]), buffer'[i].part > 0
            PROVE  buffer'[i].ask = buffer[1].ask
        <5>1. CASE i \in 1..k
          BY <4>1, <4>3, <5>1 DEF Together, BufferIntact
        <5>2. CASE i = k + 1
          BY <1>5, <1>9, <2>1, <4>1, <4>3, <5>2
        <5> QED BY <1>2, <5>1, <5>2 DEF k
      <4>4. buffer'[1] = buffer[1] /\ k \in Nat
        BY <1>2, <4>1 DEF k
      <4>5. ASSUME Intact(buffer[1]), NEW i \in 1..(k + 1)
            PROVE  buffer'[i].part = i /\ buffer'[i].ask = buffer[1].ask
        <5>1. CASE i \in 1..k
          BY <4>1, <4>2, <4>5, <5>1
        <5>2. CASE i = k + 1
          BY <4>1, <4>2, <4>5, <5>2
        <5> QED BY <4>4, <5>1, <5>2
      <4> QED BY <1>4, <4>1, <4>2, <4>3, <4>4, <4>5 DEF BufferIntact, Intact
    <3> QED BY <1>4, <3>1, <3>3, <3>4 DEF Together
  <2>4. CASE ~(filled + n.size < CurveLen)
    <3>1. buffer' = <<>>
      BY <1>15, <2>1, <2>4 DEF Into
    <3>2. ASSUME Len(c) > 0, Intact(c[1]), c[1].part > 1 PROVE FALSE
      <4>1. Intact(n) /\ n.part + 1 = c[1].part /\ n.part > 1 /\ c[1].part <= Pieces
        BY <1>8, <2>1, <3>2, LengthsAssumption
      <4>2. Intact(buffer[1]) /\ n.part = k + 1
        BY <1>9, <2>1, <4>1
      <4>3. k + 1 < Pieces
        BY <1>5, <4>1, <4>2, LengthsAssumption
      <4> QED BY <2>2, <2>4, <4>2, <4>3
    <3>3. BeginsWell(c, damaged)
      BY <3>2 DEF BeginsWell, Intact
    <3> QED BY <1>13, <3>1, <3>3
  <2> QED BY <2>3, <2>4
<1>16. CASE ~Starts(n) /\ filled = 0 /\ UNCHANGED <<filled, buffer>>
  <2>1. n.part # 1 /\ buffer = <<>> /\ buffer' = <<>>
    BY <1>2, <1>5, <1>16
  <2>2. ASSUME Len(c) > 0, Intact(c[1]), c[1].part > 1 PROVE FALSE
    <3>1. Intact(n) /\ n.part > 1
      BY <1>8, <2>1, <2>2, LengthsAssumption
    <3> QED BY <1>9, <2>1, <3>1
  <2>3. BeginsWell(c, damaged)
    BY <2>2 DEF BeginsWell, Intact
  <2> QED BY <1>13, <2>1, <2>3
<1> QED BY <1>1, <1>14, <1>15, <1>16

LEMMA TogetherStep == Core /\ Together /\ [Next]_vars => Together'
<1> SUFFICES ASSUME Core, Together, [Next]_vars PROVE Together'
  OBVIOUS
<1>1. /\ buffer \in Seq(Notification) /\ coming \in Seq(Notification)
      /\ Stream \in Seq(Notification) /\ Len(Stream) = Len(buffer) + Len(coming)
      /\ \A i \in 1..Len(buffer) : Stream[i] = buffer[i]
      /\ \A i \in 1..Len(coming) : Stream[Len(buffer) + i] = coming[i]
      /\ Len(buffer) \in Nat /\ Len(coming) \in Nat
  BY StreamFacts DEF Core, TypeOK, Stream
<1>2. ASSUME UNCHANGED <<filled, buffer>>, damaged \subseteq damaged' PROVE BufferIntact'
  BY <1>2 DEF Together, BufferIntact, Intact
<1>3. ASSUME UNCHANGED <<filled, buffer>>, coming' \in Seq(Notification)
      PROVE  /\ Stream' \in Seq(Notification) /\ Len(Stream') = Len(buffer) + Len(coming')
             /\ \A i \in 1..Len(buffer) : Stream'[i] = buffer[i]
             /\ \A i \in 1..Len(coming') : Stream'[Len(buffer) + i] = coming'[i]
             /\ Len(coming') \in Nat
  BY <1>1, <1>3, StreamFacts DEF Stream
<1>4. CASE Take
  BY <1>4, TogetherTake
<1>5. CASE Connect \/ Disconnect
  <2>1. buffer' = <<>> /\ coming' = <<>>
    BY <1>5 DEF Connect, Disconnect, ClearBuffer
  <2>2. Len(Stream') = 0
    BY <2>1 DEF Stream
  <2> QED BY <2>1, <2>2 DEF Together, Linked, BufferIntact
<1>6. ASSUME NEW op \in Ops, Request(op) PROVE Together'
  <2>1. UNCHANGED <<filled, buffer>> /\ up = TRUE /\ up' = TRUE /\ damaged' = damaged
    BY <1>6 DEF Core, TypeOK, Request, buffering
  <2>2. CASE UNCHANGED coming
    BY <1>2, <2>1, <2>2 DEF Together, Stream
  <2>3. CASE ~UNCHANGED coming
    <3>1. PICK a \in Seq(Notification) :
             /\ \A i \in DOMAIN a : a[i].ask = asked + 1
             /\ \/ Len(a) = Pieces /\ \A i \in DOMAIN a : a[i].part = i
                \/ Len(a) = 1 /\ a[1].part = 0
             /\ coming' \in Seq(Notification) /\ Len(coming') = Len(coming) + Len(a)
             /\ \A i \in 1..Len(coming) : coming'[i] = coming[i]
             /\ \A i \in DOMAIN a : coming'[Len(coming) + i] = a[i]
      BY <1>6, <2>3, RequestFacts
    <3> DEFINE s == Stream
               t == Stream'
    <3>2. /\ t \in Seq(Notification) /\ Len(t) = Len(buffer) + Len(coming')
          /\ \A i \in 1..Len(buffer) : t[i] = buffer[i]
          /\ \A i \in 1..Len(coming') : t[Len(buffer) + i] = coming'[i]
      BY <1>3, <2>1, <3>1
    <3>3. /\ s \in Seq(Notification) /\ Len(s) = Len(buffer) + Len(coming)
          /\ \A i \in 1..Len(buffer) : s[i] = buffer[i]
          /\ \A i \in 1..Len(coming) : s[Len(buffer) + i] = coming[i]
          /\ Linked(s, TRUE, damaged)
      BY <1>1, <2>1 DEF Together
    <3> HIDE DEF s, t
    <3>4. Len(t) = Len(s) + Len(a)
      BY <1>1, <3>1, <3>2, <3>3
    <3>5. ASSUME NEW i \in 1..Len(s) PROVE t[i] = s[i]
      <4>1. CASE i <= Len(buffer)
        BY <1>1, <3>2, <3>3, <4>1
      <4>2. CASE ~(i <= Len(buffer))
        <5> DEFINE j == i - Len(buffer)
        <5>1. j \in 1..Len(coming) /\ j \in 1..Len(coming') /\ Len(buffer) + j = i
          BY <1>1, <3>1, <3>3, <4>2
        <5> HIDE DEF j
        <5>2. s[Len(buffer) + j] = coming[j] /\ t[Len(buffer) + j] = coming'[j]
              /\ coming'[j] = coming[j]
          BY <3>1, <3>2, <3>3, <5>1
        <5> QED BY <5>1, <5>2
      <4> QED BY <4>1, <4>2
    <3>6. ASSUME NEW i \in DOMAIN a PROVE t[Len(s) + i] = a[i]
      <4>1. /\ Len(coming) + i \in 1..Len(coming')
            /\ Len(buffer) + (Len(coming) + i) = Len(s) + i
        BY <1>1, <3>1, <3>3
      <4>2. t[Len(buffer) + (Len(coming) + i)] = coming'[Len(coming) + i]
        BY <3>2, <4>1
      <4> QED BY <3>1, <4>1, <4>2
    <3>7. \A i, j \in DOMAIN a : a[i].ask = a[j].ask
      BY <3>1
    <3>8. Linked(t, TRUE, damaged)
      BY <3>1, <3>2, <3>3, <3>4, <3>5, <3>6, <3>7, LinkedAppend
    <3> QED BY <1>2, <2>1, <3>8 DEF Together, t
  <2> QED BY <2>2, <2>3
<1>7. CASE Lose
  <2>1. PICK k \in 1..Len(coming) :
           /\ damaged' = damaged \cup {coming[k].ask}
           /\ coming' \in Seq(Notification) /\ Len(coming') = Len(coming) - 1
           /\ \A i \in 1..Len(coming') :
                 coming'[i] = IF i < k THEN coming[i] ELSE coming[i + 1]
    BY <1>7, LoseFacts
  <2>2. UNCHANGED <<filled, buffer>> /\ up = TRUE /\ up' = TRUE
    BY <1>7 DEF Core, TypeOK, Lose, buffering
  <2> DEFINE s == Stream
             t == Stream'
             p == Len(buffer) + k
  <2>3. /\ t \in Seq(Notification) /\ Len(t) = Len(buffer) + Len(coming')
        /\ \A i \in 1..Len(buffer) : t[i] = buffer[i]
        /\ \A i \in 1..Len(coming') : t[Len(buffer) + i] = coming'[i]
    BY <1>3, <2>1, <2>2
  <2>4. /\ s \in Seq(Notification) /\ Len(s) = Len(buffer) + Len(coming)
        /\ \A i \in 1..Len(buffer) : s[i] = buffer[i]
        /\ \A i \in 1..Len(coming) : s[Len(buffer) + i] = coming[i]
        /\ Linked(s, TRUE, damaged)
    BY <1>1, <2>2 DEF Together
  <2>5. p \in 1..Len(s) /\ s[p] = coming[k] /\ k = p - Len(buffer) /\ p \in Int /\ k \in Int
    BY <1>1, <2>1, <2>4
  <2> HIDE DEF s, t, p
  <2>6. Len(t) = Len(s) - 1
    BY <1>1, <2>1, <2>3, <2>4
  <2>7. ASSUME NEW i \in 1..Len(t) PROVE t[i] = IF i < p THEN s[i] ELSE s[i + 1]
    <3>1. CASE i <= Len(buffer)
      <4>1. i \in 1..Len(buffer) /\ i < p
        BY <1>1, <2>1, <2>5, <3>1
      <4> QED BY <2>3, <2>4, <4>1
    <3>2. CASE ~(i <= Len(buffer))
      <4> DEFINE j == i - Len(buffer)
      <4>1. /\ j \in 1..Len(coming') /\ Len(buffer) + j = i
            /\ j \in 1..Len(coming) /\ j + 1 \in 1..Len(coming)
            /\ Len(buffer) + (j + 1) = i + 1 /\ (j < k <=> i < p)
        BY <1>1, <2>1, <2>3, <2>5, <3>2
      <4> HIDE DEF j
      <4>2. t[Len(buffer) + j] = coming'[j]
        BY <2>3, <4>1
      <4>3. s[Len(buffer) + j] = coming[j] /\ s[Len(buffer) + (j + 1)] = coming[j + 1]
        BY <2>4, <4>1
      <4> QED BY <2>1, <4>1, <4>2, <4>3
    <3> QED BY <3>1, <3>2
  <2>8. Linked(t, TRUE, damaged \cup {s[p].ask})
    BY <2>3, <2>4, <2>5, <2>6, <2>7, LinkedRemove
  <2>9. Linked(t, TRUE, damaged')
    BY <2>1, <2>5, <2>8
  <2> QED BY <1>2, <2>1, <2>2, <2>9 DEF Together, t
<1>8. CASE LoseLink
  <2>1. PICK k \in 0..Len(coming) :
           /\ coming' \in Seq(Notification) /\ Len(coming') = k
           /\ \A i \in 1..k : coming'[i] = coming[i]
    BY <1>8, LoseLinkFacts
  <2>2. UNCHANGED <<filled, buffer, damaged>> /\ up = TRUE /\ up' = FALSE
    BY <1>8 DEF Core, TypeOK, LoseLink, buffering
  <2> DEFINE s == Stream
             t == Stream'
             p == Len(buffer) + k
  <2>3. /\ t \in Seq(Notification) /\ Len(t) = p
        /\ \A i \in 1..Len(buffer) : t[i] = buffer[i]
        /\ \A i \in 1..k : t[Len(buffer) + i] = coming'[i]
    BY <1>3, <2>1, <2>2
  <2>4. /\ s \in Seq(Notification) /\ Len(s) = Len(buffer) + Len(coming)
        /\ \A i \in 1..Len(buffer) : s[i] = buffer[i]
        /\ \A i \in 1..Len(coming) : s[Len(buffer) + i] = coming[i]
        /\ Linked(s, TRUE, damaged)
    BY <1>1, <2>2 DEF Together
  <2>5. p \in 0..Len(s) /\ k = p - Len(buffer) /\ p \in Int /\ k \in Int
    BY <1>1, <2>1, <2>4
  <2> HIDE DEF s, t, p
  <2>6. ASSUME NEW i \in 1..p PROVE t[i] = s[i]
    <3>1. CASE i <= Len(buffer)
      BY <1>1, <2>3, <2>4, <2>5, <3>1
    <3>2. CASE ~(i <= Len(buffer))
      <4> DEFINE j == i - Len(buffer)
      <4>1. j \in 1..k /\ j \in 1..Len(coming) /\ Len(buffer) + j = i
        BY <1>1, <2>1, <2>5, <3>2
      <4> HIDE DEF j
      <4> QED BY <2>1, <2>3, <2>4, <4>1
    <3> QED BY <3>1, <3>2
  <2>7. Linked(t, FALSE, damaged)
    BY <2>3, <2>4, <2>5, <2>6, LinkedPrefix
  <2> QED BY <1>2, <2>2, <2>7 DEF Together, t
<1>9. CASE RequestFails \/ Deadline \/ StreamEnds \/ UNCHANGED vars
  <2>1. UNCHANGED <<up, coming, filled, buffer, damaged>>
    BY <1>9 DEF RequestFails, Deadline, StreamEnds, vars, buffering
  <2> QED BY <1>2, <2>1 DEF Together, Stream
<1> QED BY <1>4, <1>5, <1>6, <1>7, <1>8, <1>9 DEF Next

LEMMA TogetherHolds == Spec => [](Core /\ Together)
<1>1. Init => Together
  BY DEF Init, Together, Linked, BufferIntact, Stream
<1> QED BY <1>1, TogetherStep, CoreHolds, PTL DEF Spec

\* A lost notification spoils no curve but its own: a curve the client
\* returns is the whole answer to one request, unless a fragment of that
\* answer was lost (client.rs:594-608, 674-684).
THEOREM CurvesAreWhole == Spec => []LossSpoilsOwnCurve
<1>1. Init => LossSpoilsOwnCurve
  BY DEF Init, LossSpoilsOwnCurve, NoResult, Result
<1>2. Core /\ Together /\ LossSpoilsOwnCurve /\ [Next]_vars => LossSpoilsOwnCurve'
  <2> SUFFICES ASSUME Core, Together, LossSpoilsOwnCurve, [Next]_vars PROVE LossSpoilsOwnCurve'
    OBVIOUS
  <2>1. ASSUME UNCHANGED result, damaged \subseteq damaged' PROVE LossSpoilsOwnCurve'
    BY <2>1 DEF LossSpoilsOwnCurve, Whole
  <2>2. CASE Take
    <3> DEFINE n == Head(coming)
               k == Len(buffer)
    <3>1. /\ n \in Notification /\ Shaped(n) /\ n.size \in Nat \ {0}
          /\ coming # <<>> /\ n = coming[1]
          /\ \/ Starts(n) /\ Into(<<n>>, n.size)
             \/ ~Starts(n) /\ filled # 0 /\ Into(Append(buffer, n), filled + n.size)
             \/ ~Starts(n) /\ filled = 0 /\ Conclude(<<n>>) /\ UNCHANGED <<filled, buffer>>
      BY <2>2, TakeFacts
    <3>2. /\ buffer \in Seq(Notification) /\ k \in Nat /\ filled \in Nat /\ CurveLen \in Nat
          /\ (filled = 0 <=> buffer = <<>>) /\ filled + n.size \in Nat
      BY <3>1, LengthsAssumption DEF Core, TypeOK, BufferHoldsOneCurve
    <3>3. damaged' = damaged
      BY <2>2 DEF Take
    <3>4. /\ buffer # <<>> /\ Intact(buffer[1]) =>
                /\ n.ask = buffer[1].ask /\ n.part = k + 1
                /\ filled = Span(k) /\ k \in 1..(Pieces - 1)
          /\ \A i \in DOMAIN buffer : buffer # <<>> /\ Intact(buffer[1]) =>
                buffer[i].part = i /\ buffer[i].ask = buffer[1].ask
      BY <3>1, NextFits DEF Together, BufferIntact
    <3> HIDE DEF n
    <3>5. ASSUME NEW of, Conclude(of),
                 of[1].op = "curve" => Whole(of) \/ of[1].ask \in damaged
          PROVE  LossSpoilsOwnCurve'
      <4>1. CASE of[1].op = wait
        BY <3>3, <3>5, <4>1 DEF Conclude, Finish, Result, LossSpoilsOwnCurve, Whole
      <4>2. CASE of[1].op # wait
        BY <2>1, <3>3, <3>5, <4>2 DEF Conclude, KeepOn
      <4> QED BY <4>1, <4>2
    <3>6. CASE Starts(n) /\ Into(<<n>>, n.size)
      <4>1. CASE n.size < CurveLen
        BY <2>1, <3>1, <3>2, <3>3, <3>6, <4>1 DEF Into, KeepOn
      <4>2. CASE ~(n.size < CurveLen)
        <5>1. n.part = 1 /\ Conclude(<<n>>)
          BY <3>1, <3>2, <3>6, <4>2 DEF Into, Shaped, Starts
        <5>2. Pieces = 1
          BY <3>1, <4>2, <5>1, FirstLength, LengthsAssumption
        <5>3. Whole(<<n>>)
          BY <5>1, <5>2 DEF Whole
        <5> QED BY <3>5, <5>1, <5>3
      <4> QED BY <4>1, <4>2
    <3>7. CASE ~Starts(n) /\ filled # 0 /\ Into(Append(buffer, n), filled + n.size)
      <4>1. CASE filled + n.size < CurveLen
        BY <2>1, <3>2, <3>3, <3>7, <4>1 DEF Into, KeepOn
      <4>2. CASE ~(filled + n.size < CurveLen)
        <5> DEFINE of == Append(buffer, n)
        <5>1. Conclude(of)
          BY <3>2, <3>7, <4>2 DEF Into
        <5>2. /\ Len(of) = k + 1 /\ DOMAIN of = 1..(k + 1) /\ DOMAIN buffer = 1..k
              /\ \A i \in 1..k : of[i] = buffer[i]
              /\ of[k + 1] = n /\ 1 \in 1..k /\ buffer # <<>>
          BY <3>1, <3>2, <3>7
        <5> HIDE DEF of, k
        <5>3. ASSUME Intact(of[1]) PROVE Whole(of)
          <6>1. /\ n.ask = buffer[1].ask /\ n.part = k + 1
                /\ filled = Span(k) /\ k \in 1..(Pieces - 1)
            BY <3>4, <5>2, <5>3
          <6>2. ~(k + 1 < Pieces)
            BY <3>1, <4>2, <6>1, IntactLength
          <6>3. k + 1 = Pieces
            BY <6>1, <6>2, LengthsAssumption
          <6>4. ASSUME NEW i \in 1..(k + 1) PROVE of[i].part = i /\ of[i].ask = of[1].ask
            <7>1. CASE i \in 1..k
              BY <3>4, <5>2, <5>3, <7>1
            <7>2. CASE i = k + 1
              BY <5>2, <6>1, <7>2
            <7> QED BY <3>2, <7>1, <7>2 DEF k
          <6> QED BY <5>2, <6>3, <6>4 DEF Whole
        <5> QED BY <3>5, <5>1, <5>3 DEF Intact
      <4> QED BY <4>1, <4>2
    <3>8. CASE ~Starts(n) /\ Conclude(<<n>>)
      BY <3>5, <3>8 DEF Starts
    <3> QED BY <3>1, <3>6, <3>7, <3>8
  <2>3. CASE Lose \/ LoseLink \/ UNCHANGED vars
    BY <2>1, <2>3 DEF Lose, LoseLink, vars
  <2>4. CASE ~Take /\ ~Lose /\ ~LoseLink /\ ~UNCHANGED vars
    <3>1. result'.is # "curve"
      BY <2>4 DEF Next, Connect, Disconnect, Request, RequestFails, Deadline, StreamEnds,
                  Finish, Result, NoResult
    <3> QED BY <3>1 DEF LossSpoilsOwnCurve
  <2> QED BY <2>2, <2>3, <2>4
<1> QED BY <1>1, <1>2, TogetherHolds, PTL DEF Spec

\* While it waits, the client has met its reply only if something was lost.
Unheard ==
    /\ wait # "none" => result = NoResult
    /\ wait # "none" /\ met => damaged # {}

\* As long as no notification is lost, a wait that meets its reply returns
\* it (client.rs:594-608).
THEOREM RepliesReachWaits == Spec => []RepliesGetThrough
<1> DEFINE Inv == Unheard /\ RepliesGetThrough
<1>1. Init => Inv
  BY DEF Init, Unheard, RepliesGetThrough, NoResult, Result
<1>2. Core /\ Together /\ Inv /\ [Next]_vars => Inv'
  <2> SUFFICES ASSUME Core, Together, Inv, [Next]_vars PROVE Inv'
    OBVIOUS
  <2>1. CASE Take
    <3> DEFINE n == Head(coming)
    <3>1. /\ n \in Notification /\ Shaped(n)
          /\ coming # <<>> /\ n = coming[1]
          /\ \/ Starts(n) /\ Into(<<n>>, n.size)
             \/ ~Starts(n) /\ filled # 0 /\ Into(Append(buffer, n), filled + n.size)
             \/ ~Starts(n) /\ filled = 0 /\ Conclude(<<n>>)
      BY <2>1, TakeFacts
    <3>2. /\ wait \in Ops /\ result = NoResult /\ damaged' = damaged
          /\ (met' <=> met \/ Awaited(n)) /\ (met => damaged # {})
          /\ (filled = 0 <=> buffer = <<>>)
      BY <2>1 DEF Core, TypeOK, BufferHoldsOneCurve, Take, Unheard
    <3>3. /\ buffer # <<>> /\ Intact(buffer[1]) => n.part = Len(buffer) + 1
          /\ Len(buffer) \in Nat
      BY <3>1, NextFits DEF Core, TypeOK
    <3> HIDE DEF n
    <3>4. /\ wait' # "none" => result' = NoResult
          /\ result'.is # "timeout"
      <4>1. ASSUME KeepOn PROVE wait' = wait /\ result' = NoResult /\ result'.is # "timeout"
        BY <3>2, <4>1 DEF KeepOn, NoResult, Result
      <4>2. ASSUME NEW of, Finish(wait, of) PROVE wait' = "none" /\ result'.is # "timeout"
        BY <3>2, <4>2 DEF Finish, Result, Ops
      <4> QED BY <3>1, <4>1, <4>2 DEF Into, Conclude
    <3>5. ASSUME Awaited(n), damaged = {} PROVE wait' = "none"
      <4>1. n.part = 0 /\ n.op = wait /\ ~Starts(n)
        BY <3>1, <3>5 DEF Awaited, IsReply, Shaped, Starts
      <4>2. filled = 0
        BY <3>2, <3>3, <3>5, <4>1 DEF Intact
      <4>3. Conclude(<<n>>)
        BY <3>1, <4>1, <4>2
      <4> QED BY <4>1, <4>3 DEF Conclude, Finish
    <3> QED BY <3>2, <3>4, <3>5 DEF Unheard, RepliesGetThrough
  <2>2. CASE Lose
    <3>1. PICK k \in 1..Len(coming) : damaged' = damaged \cup {coming[k].ask}
      BY <2>2, LoseFacts
    <3>2. damaged' # {} /\ UNCHANGED <<wait, result, met>>
      BY <2>2, <3>1 DEF Lose
    <3> QED BY <3>2 DEF Unheard, RepliesGetThrough, NoResult
  <2>3. CASE Deadline
    BY <2>3 DEF Deadline, Finish, Result, Unheard, RepliesGetThrough
  <2>4. CASE LoseLink \/ UNCHANGED vars
    BY <2>4 DEF LoseLink, vars, Unheard, RepliesGetThrough, NoResult
  <2>5. CASE ~Take /\ ~Lose /\ ~Deadline /\ ~LoseLink /\ ~UNCHANGED vars
    BY <2>5 DEF Next, Connect, Disconnect, Request, RequestFails, StreamEnds,
                Finish, Result, NoResult, Unheard, RepliesGetThrough
  <2> QED BY <2>1, <2>2, <2>3, <2>4, <2>5
<1>3. Inv => RepliesGetThrough
  OBVIOUS
<1> QED BY <1>1, <1>2, <1>3, TogetherHolds, PTL DEF Spec

=============================================================================
