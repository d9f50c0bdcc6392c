------------------------ MODULE ProfileSafetyProofs ------------------------
(* Theorems about ProfileSafety, for every profile and every parameter. *)
EXTENDS ProfileSafety, TLAPS

-----------------------------------------------------------------------------
(* Numbers that may be left out. *)

LEMMA OrGiven ==
    ASSUME NEW o, NEW d, o # {}
    PROVE  Or(o, d) \in o
BY DEF Or

LEMMA OrLeftOut ==
    ASSUME NEW d
    PROVE  Or({}, d) = d
BY DEF Or

LEMMA OrSingle ==
    ASSUME NEW n, NEW d
    PROVE  Or({n}, d) = n
<1>1. Or({n}, d) \in {n}
  BY OrGiven
<1>2. QED
  BY <1>1

\* A number in its range, or its default.
LEMMA OrRange ==
    ASSUME NEW o, NEW d, NEW range, o \subseteq range, o # {} \/ d \in range
    PROVE  Or(o, d) \in range
<1>1. CASE o = {}
  BY <1>1, OrLeftOut
<1>2. CASE o # {}
  BY <1>2, OrGiven
<1>3. QED
  BY <1>1, <1>2

-----------------------------------------------------------------------------
(* The frame of an accepted profile. *)

\* The voltage the builder falls back to, for the chemistries with limits.
LEMMA DefaultVoltages ==
    /\ \A b \in NickelCodes :
          VoltageDefaults(b) = [charge |-> 1650, discharge |-> 1000, current |-> 50, keep |-> 1000]
    /\ VoltageDefaults(0) = [charge |-> 4200, discharge |-> 3000, current |-> 100, keep |-> 4150]
BY DEF VoltageDefaults, NickelCodes

LEMMA Codes ==
    /\ \A c \in Nickel : Code(c) \in NickelCodes
    /\ Code("LiIon") = 0
<1>1. Code("NiMH") = 3 /\ Code("NiCd") = 4 /\ Code("Eneloop") = 6 /\ Code("LiIon") = 0
  BY Zenon DEF Code
<1>2. QED
  BY <1>1 DEF Nickel, NickelCodes

\* A temperature cutoff the limits allow fits its byte.
LEMMA LowKeeps ==
    ASSUME NEW n \in 0..255
    PROVE  Low(n) = n
BY DEF Low

\* What the parameters of an accepted profile say.
LEMMA ParamsFields ==
    ASSUME NEW p
    PROVE  /\ ParamsOf(p).battery = Code(p.chemistry)
           /\ ParamsOf(p).mode = Mode(p.operation)
           /\ ParamsOf(p).capacity = Or(p.capacity, 0)
           /\ ParamsOf(p).charge = p.charge
           /\ ParamsOf(p).discharge = p.discharge
           /\ ParamsOf(p).chargeStop = Truthy(p.voltage)
           /\ ParamsOf(p).dischargeStop = p.cutoff
           /\ ParamsOf(p).dischargeStopCurrent = p.discharge
           /\ ParamsOf(p).temperature = Or(p.temperature, 0)
           /\ ParamsOf(p).timeout = {Or(p.timeout, 0)}
BY DEF ParamsOf

\* How the builder resolves them.
LEMMA ResolvedFields ==
    ASSUME NEW q
    PROVE  LET m == ModeDefaults(q.mode, q.capacity, BreakIn(q))
               v == VoltageDefaults(q.battery)
           IN  /\ Resolved(q).battery = q.battery /\ Resolved(q).mode = q.mode
               /\ Resolved(q).capacity = q.capacity
               /\ Resolved(q).charge = Or(q.charge, m.charge)
               /\ Resolved(q).discharge = Or(q.discharge, m.discharge)
               /\ Resolved(q).dischargeStopCurrent =
                     Or(q.dischargeStopCurrent, Or(q.discharge, m.discharge))
               /\ Resolved(q).chargeStop = Or(q.chargeStop, v.charge)
               /\ Resolved(q).dischargeStop = Or(q.dischargeStop, v.discharge)
               /\ Resolved(q).keep = Or(q.keep, v.keep)
               /\ Resolved(q).temperature = Low(q.temperature)
               /\ Resolved(q).timeout = IF BreakIn(q) THEN 0 ELSE Or(q.timeout, 0)
BY DEF Resolved

\* The charge voltage of an accepted profile, given or not.
LEMMA VoltageWritten ==
    ASSUME NEW p \in Profile, Accepted(p), Charging(p),
           NEW v, v = Or(Truthy(p.voltage), VoltageDefaults(Code(p.chemistry)).charge),
           v \notin ChargeRange(p)
    PROVE  \/ p.operation = "break_in" /\ v \in p.voltage
           \/ (p.operation = "storage" \/ p.chemistry = "LiFe") /\ p.voltage = {} /\ v = 4200
<1> DEFINE default == VoltageDefaults(Code(p.chemistry)).charge
<1>1. /\ p.chemistry \in Limited /\ p.operation \in Limits(p.chemistry).operations
      /\ VoltageFits(p, Limits(p.chemistry)) /\ p.operation \in Operations
  BY DEF Accepted, Profile
<1>2. p.operation # "break_in" => p.voltage \subseteq ChargeRange(p)
  BY <1>1 DEF VoltageFits, ChargeRange, Charging, Operations
<1>3. 0 \notin Limits(p.chemistry).voltage /\ 0 \notin Limits(p.chemistry).storage
  BY DEF Limits, NickelLimits, LiIonLimits, LiFeLimits
<1>4. p.chemistry \in Nickel => default = 1650 /\ p.operation # "storage"
  BY <1>1, DefaultVoltages, Codes DEF Limits, NickelLimits
<1>5. p.chemistry \notin Nickel => default = 4200 /\ p.operation # "break_in"
  <2>1. Code("LiIon") = 0 /\ Code("LiFe") = 1
    BY Zenon DEF Code
  <2>2. VoltageDefaults(0).charge = 4200 /\ VoltageDefaults(1).charge = 4200
    BY DEF VoltageDefaults, NickelCodes
  <2>3. QED
    BY <1>1, <2>1, <2>2 DEF Limited, Limits, LiIonLimits, LiFeLimits
<1>6. p.chemistry \in Nickel => default \in ChargeRange(p)
  BY <1>4 DEF ChargeRange, Limits, NickelLimits
<1>7. p.chemistry = "LiIon" /\ p.operation # "storage" => default \in ChargeRange(p)
  BY <1>5 DEF ChargeRange, Limits, LiIonLimits, Nickel
<1>8. CASE Truthy(p.voltage) = {}
  <2>1. v = default
    BY <1>8, OrLeftOut
  <2>2. p.chemistry \notin Nickel /\ (p.operation = "storage" \/ p.chemistry = "LiFe")
    BY <1>1, <1>6, <1>7, <2>1 DEF Limited
  <2>3. p.voltage = {}
    BY <1>2, <1>3, <1>5, <1>8, <2>2 DEF Truthy, ChargeRange
  <2>4. QED
    BY <1>5, <2>1, <2>2, <2>3
<1>9. CASE Truthy(p.voltage) # {}
  <2>1. v \in p.voltage
    BY <1>9, OrGiven DEF Truthy
  <2>2. QED
    BY <1>2, <2>1
<1>10. QED
  BY <1>8, <1>9

\* What an accepted profile is written as.
LEMMA FrameWithin ==
    ASSUME NEW p \in Profile, Accepted(p), NEW f, f = Resolved(ParamsOf(p))
    PROVE  /\ p.operation \in Limits(p.chemistry).operations
           /\ f.battery = Code(p.chemistry) /\ f.mode = Mode(p.operation)
           /\ f.charge \in LeastCharge..f.capacity
           /\ {f.discharge, f.dischargeStopCurrent} \subseteq DischargeLimits
           /\ f.dischargeStop \in Limits(p.chemistry).cutoff
           /\ f.temperature \in Limits(p.chemistry).temperature
           /\ f.timeout \in TimeoutLimits
           /\ f.chargeStop =
                 Or(Truthy(p.voltage), VoltageDefaults(Code(p.chemistry)).charge)
<1> DEFINE q == ParamsOf(p)
           m == ModeDefaults(q.mode, q.capacity, BreakIn(q))
           v == VoltageDefaults(q.battery)
<1>1. /\ f.battery = q.battery /\ f.mode = q.mode /\ f.capacity = q.capacity
      /\ f.charge = Or(q.charge, m.charge)
      /\ f.discharge = Or(q.discharge, m.discharge)
      /\ f.dischargeStopCurrent = Or(q.dischargeStopCurrent, Or(q.discharge, m.discharge))
      /\ f.chargeStop = Or(q.chargeStop, v.charge)
      /\ f.dischargeStop = Or(q.dischargeStop, v.discharge)
      /\ f.temperature = Low(q.temperature)
      /\ f.timeout = IF BreakIn(q) THEN 0 ELSE Or(q.timeout, 0)
  BY ResolvedFields
<1>2. /\ q.battery = Code(p.chemistry) /\ q.mode = Mode(p.operation)
      /\ q.capacity = Or(p.capacity, 0)
      /\ q.charge = p.charge /\ q.discharge = p.discharge
      /\ q.chargeStop = Truthy(p.voltage) /\ q.dischargeStop = p.cutoff
      /\ q.dischargeStopCurrent = p.discharge
      /\ q.temperature = Or(p.temperature, 0)
      /\ q.timeout = {Or(p.timeout, 0)}
  BY ParamsFields
<1>3. /\ p.operation \in Limits(p.chemistry).operations
      /\ Required(p.charge, LeastCharge..Or(p.capacity, 0))
      /\ Required(p.discharge, DischargeLimits)
      /\ Required(p.cutoff, Limits(p.chemistry).cutoff)
      /\ Required(p.temperature, Limits(p.chemistry).temperature)
      /\ p.timeout \subseteq TimeoutLimits
  BY DEF Accepted, ChargeFits
<1> HIDE DEF q, m, v
<1>4. f.battery = Code(p.chemistry) /\ f.mode = Mode(p.operation)
  BY <1>1, <1>2
<1>5. f.charge \in LeastCharge..f.capacity
  <2>1. f.charge \in p.charge
    BY <1>1, <1>2, <1>3, OrGiven DEF Required
  <2>2. f.capacity = Or(p.capacity, 0)
    BY <1>1, <1>2
  <2>3. QED
    BY <1>3, <2>1, <2>2 DEF Required
<1>6. {f.discharge, f.dischargeStopCurrent} \subseteq DischargeLimits
  <2>1. f.discharge \in p.discharge /\ f.dischargeStopCurrent \in p.discharge
    BY <1>1, <1>2, <1>3, OrGiven DEF Required
  <2>2. QED
    BY <1>3, <2>1 DEF Required
<1>7. f.dischargeStop \in Limits(p.chemistry).cutoff
  <2>1. f.dischargeStop \in p.cutoff
    BY <1>1, <1>2, <1>3, OrGiven DEF Required
  <2>2. QED
    BY <1>3, <2>1 DEF Required
<1>8. f.temperature \in Limits(p.chemistry).temperature
  <2>1. q.temperature \in p.temperature
    BY <1>2, <1>3, OrGiven DEF Required
  <2>2. q.temperature \in Limits(p.chemistry).temperature
    BY <1>3, <2>1 DEF Required
  <2>3. Limits(p.chemistry).temperature \subseteq 0..255
    BY DEF Limits, NickelLimits, LiIonLimits, LiFeLimits
  <2>4. Low(q.temperature) = q.temperature
    BY <2>2, <2>3, LowKeeps
  <2>5. QED
    BY <1>1, <2>2, <2>4
<1>9. f.timeout \in TimeoutLimits
  <2>1. Or(p.timeout, 0) \in TimeoutLimits
    <3>1. 0 \in TimeoutLimits
      BY DEF TimeoutLimits
    <3>2. QED
      BY <1>3, <3>1, OrRange
  <2>2. Or(q.timeout, 0) = Or(p.timeout, 0)
    BY <1>2, OrSingle
  <2>3. QED
    BY <1>1, <2>1, <2>2 DEF TimeoutLimits
<1>10. f.chargeStop = Or(Truthy(p.voltage), VoltageDefaults(Code(p.chemistry)).charge)
  BY <1>1, <1>2 DEF v
<1>11. QED
  BY <1>3, <1>4, <1>5, <1>6, <1>7, <1>8, <1>9, <1>10

-----------------------------------------------------------------------------
(* Types. *)

LEMMA Options ==
    /\ {} \in Option
    /\ \A n \in Int : {n} \in Option
    /\ \A o \in Option : o \subseteq Int /\ Truthy(o) \in Option
BY DEF Option, AtMostOne, Truthy

LEMMA CodesTyped ==
    /\ \A c \in Limited : Code(c) \in 0..255
    /\ \A o \in Operations : Mode(o) \in 0..255
<1>1. /\ Code("NiMH") = 3 /\ Code("NiCd") = 4 /\ Code("Eneloop") = 6
      /\ Code("LiIon") = 0 /\ Code("LiFe") = 1
  BY Zenon DEF Code
<1>2. /\ Mode("charge") = 0 /\ Mode("refresh") = 1 /\ Mode("break_in") = 2
      /\ Mode("storage") = 2 /\ Mode("discharge") = 3 /\ Mode("cycle") = 4
  BY Zenon DEF Mode
<1>3. \A c \in Limited : Code(c) \in 0..255
  BY <1>1 DEF Limited, Nickel
<1>4. \A o \in Operations : Mode(o) \in 0..255
  BY <1>2 DEF Operations
<1>5. QED
  BY <1>3, <1>4

LEMMA OrInt ==
    ASSUME NEW o \in Option, NEW d \in Int
    PROVE  Or(o, d) \in Int
<1>1. o \subseteq Int
  BY Options
<1>2. QED
  BY <1>1, OrRange, Zenon

LEMMA ParamsTyped ==
    ASSUME NEW p \in Profile, Accepted(p), Convertible(p)
    PROVE  ParamsOf(p) \in Params
<1>1. p.chemistry \in Limited
  BY DEF Accepted
<1>2. /\ p.operation \in Operations /\ p.cycleMode \in CycleMode
      /\ p.capacity \in Option /\ p.charge \in Option /\ p.discharge \in Option
      /\ p.voltage \in Option /\ p.cutoff \in Option /\ p.temperature \in Option
      /\ p.timeout \in Option /\ p.cycles \in Option /\ p.delta \in Option
      /\ p.trickle \in Option
  BY DEF Profile
<1>3. Code(p.chemistry) \in 0..255 /\ Mode(p.operation) \in 0..255
  BY <1>1, <1>2, CodesTyped
<1>4. Truthy(p.voltage) \in Option /\ Truthy(p.cycles) \in Option
  BY <1>2, Options
<1>5. /\ Or(p.capacity, 0) \in Int /\ Or(p.temperature, 0) \in Int
      /\ Or(p.delta, 3) \in Int /\ Or(p.trickle, 0) \in Int
      /\ Or(p.timeout, 0) \in Int /\ Or(Truthy(p.cycles), 1) \in Int
  <2>1. 0 \in Int /\ 1 \in Int /\ 3 \in Int
    OBVIOUS
  <2>2. QED
    BY <1>2, <1>4, <2>1, OrInt, Zenon
<1>6. /\ {Or(p.delta, 3)} \in Option /\ {Or(p.trickle, 0)} \in Option
      /\ {Or(p.timeout, 0)} \in Option /\ {Or(Truthy(p.cycles), 1)} \in Option
      /\ {} \in Option
  BY <1>5, Options
<1>7. (IF p.cycleMode.is = "absent" THEN [is |-> "D>C", code |-> 0] ELSE p.cycleMode)
         \in KnownCycleMode
  BY <1>2 DEF CycleMode, KnownCycleMode, CycleLabels, Convertible
<1>8. (p.operation = "break_in") \in BOOLEAN
  OBVIOUS
<1>9. QED
  BY <1>2, <1>3, <1>4, <1>5, <1>6, <1>7, <1>8, Zenon DEF ParamsOf, Params

LEMMA LowTyped ==
    ASSUME NEW n \in Int
    PROVE  Low(n) \in Byte
BY DEF Low, Byte

LEMMA CycleCodeTyped ==
    ASSUME NEW c \in CycleMode, NEW breakin \in BOOLEAN
    PROVE  Or(CycleCode(c, breakin), 0) \in Byte
<1>1. c.is \in CycleLabels \cup {"absent", "unknown", "code"} /\ c.code \in Int
  BY DEF CycleMode
<1>2. 0 \in Byte /\ 1 \in Byte /\ 2 \in Byte /\ 3 \in Byte /\ Low(c.code) \in Byte
  BY <1>1, LowTyped DEF Byte
<1>3. CycleCode(c, breakin) \subseteq Byte
  <2>1. CASE c.is = "C>D"
    BY <1>2, <2>1, Zenon DEF CycleCode
  <2>2. CASE c.is = "C>D>C"
    BY <1>2, <2>2, Zenon DEF CycleCode
  <2>3. CASE c.is = "D>C"
    BY <1>2, <2>3, Zenon DEF CycleCode
  <2>4. CASE c.is = "D>C>D"
    BY <1>2, <2>4, Zenon DEF CycleCode
  <2>5. CASE c.is = "code"
    BY <1>2, <2>5, Zenon DEF CycleCode
  <2>6. CASE c.is \in {"absent", "unknown"}
    BY <1>2, <2>6, Zenon DEF CycleCode
  <2>7. QED
    BY <1>1, <2>1, <2>2, <2>3, <2>4, <2>5, <2>6 DEF CycleLabels
<1>4. QED
  BY <1>2, <1>3, OrRange, Zenon

LEMMA DefaultsTyped ==
    ASSUME NEW mode \in Int, NEW capacity \in Int, NEW breakin \in BOOLEAN, NEW battery \in Int
    PROVE  /\ ModeDefaults(mode, capacity, breakin).rest \in Int
           /\ ModeDefaults(mode, capacity, breakin).after \in Int
BY DEF ModeDefaults

LEMMA FrameTyped ==
    ASSUME NEW q \in Params, Buildable(q)
    PROVE  Resolved(q) \in Frame
<1> DEFINE f == Resolved(q)
           m == ModeDefaults(q.mode, q.capacity, BreakIn(q))
           n == q.battery \in NickelCodes
<1>1. /\ q.battery \in Byte /\ q.mode \in Byte /\ q.mode \in Int /\ q.battery \in Int
      /\ q.capacity \in Int /\ q.temperature \in Int /\ q.cycleMode \in CycleMode
      /\ q.chargeRest \in Option /\ q.dischargeRest \in Option /\ q.cycles \in Option
      /\ q.delta \in Option /\ q.trickle \in Option /\ q.breakin \in BOOLEAN
  BY DEF Params, KnownCycleMode, CycleMode, Byte
<1>2. BreakIn(q) \in BOOLEAN
  BY <1>1 DEF BreakIn
<1>3. m.rest \in Int /\ m.after \in Int
  BY <1>1, <1>2, DefaultsTyped
<1>4. Low(Or(q.chargeRest, m.rest)) \in Byte /\ Low(Or(q.dischargeRest, m.after)) \in Byte
  BY <1>1, <1>3, OrInt, LowTyped
<1>5. Low(Or(q.cycles, 1)) \in Byte /\ Low(q.temperature) \in Byte
  BY <1>1, OrInt, LowTyped
<1>6. Low(Or(q.delta, IF n THEN 3 ELSE 0)) \in Byte
  BY <1>1, OrInt, LowTyped
<1>7. Low(Or(q.trickle, IF n THEN 10 ELSE 0) \div 10) \in Byte
  <2>1. Or(q.trickle, IF n THEN 10 ELSE 0) \in Int
    BY <1>1, OrInt
  <2>2. (Or(q.trickle, IF n THEN 10 ELSE 0) \div 10) \in Int
    BY <2>1
  <2>3. QED
    BY <2>2, LowTyped
<1>8. Or(CycleCode(q.cycleMode, BreakIn(q)), 0) \in Byte
  BY <1>1, <1>2, CycleCodeTyped
<1>9. /\ f.capacity \in Word /\ f.charge \in Word /\ f.discharge \in Word
      /\ f.chargeStop \in Word /\ f.dischargeStop \in Word
      /\ f.chargeStopCurrent \in Word /\ f.dischargeStopCurrent \in Word
      /\ f.keep \in Word /\ f.timeout \in Word
  BY Zenon DEF Buildable, Words
<1>10. f = [battery |-> q.battery, mode |-> q.mode, capacity |-> f.capacity,
            charge |-> f.charge, discharge |-> f.discharge, chargeStop |-> f.chargeStop,
            dischargeStop |-> f.dischargeStop, chargeStopCurrent |-> f.chargeStopCurrent,
            dischargeStopCurrent |-> f.dischargeStopCurrent,
            chargeRest |-> Low(Or(q.chargeRest, m.rest)),
            dischargeRest |-> Low(Or(q.dischargeRest, m.after)),
            cycles |-> Low(Or(q.cycles, 1)),
            cycleMode |-> Or(CycleCode(q.cycleMode, BreakIn(q)), 0),
            delta |-> Low(Or(q.delta, IF n THEN 3 ELSE 0)),
            trickle |-> Low(Or(q.trickle, IF n THEN 10 ELSE 0) \div 10),
            keep |-> f.keep, temperature |-> Low(q.temperature), timeout |-> f.timeout]
  BY DEF Resolved
<1> HIDE DEF f, m, n
<1>11. f \in Frame
  BY <1>1, <1>4, <1>5, <1>6, <1>7, <1>8, <1>9, <1>10 DEF Frame
<1>12. QED
  BY <1>11 DEF f

-----------------------------------------------------------------------------
(* Why an accepted profile cannot be built. *)

LEMMA MoreFields ==
    ASSUME NEW p, NEW q, q = ParamsOf(p)
    PROVE  /\ q.breakin = (p.operation = "break_in")
           /\ q.chargeStopCurrent = {} /\ q.keep = {}
           /\ q.cycleMode = IF p.cycleMode.is = "absent" THEN [is |-> "D>C", code |-> 0]
                                                        ELSE p.cycleMode
           /\ Resolved(q).keep = Or({}, VoltageDefaults(q.battery).keep)
           /\ Resolved(q).chargeStopCurrent =
                 Or({}, IF q.mode \in {1, 4} THEN Resolved(q).charge
                                             ELSE VoltageDefaults(q.battery).current)
BY DEF ParamsOf, Resolved

\* Only a storage or a break-in has the mode of a break-in, and nickel cells
\* have no storage.
LEMMA BreakInAsked ==
    ASSUME NEW p \in Profile, Accepted(p)
    PROVE  BreakIn(ParamsOf(p)) => p.operation = "break_in"
<1> SUFFICES ASSUME BreakIn(ParamsOf(p)), p.operation # "break_in"
             PROVE  FALSE
  OBVIOUS
<1>1. /\ Code(p.chemistry) \in NickelCodes /\ Mode(p.operation) = 2
  BY ParamsFields, MoreFields DEF BreakIn
<1>2. /\ Code("LiIon") = 0 /\ Code("LiFe") = 1
      /\ Mode("charge") = 0 /\ Mode("refresh") = 1
      /\ Mode("discharge") = 3 /\ Mode("cycle") = 4
  BY Zenon DEF Code, Mode
<1>3. p.chemistry \in Nickel
  BY <1>1, <1>2 DEF Accepted, Limited, NickelCodes
<1>4. p.operation \in NickelLimits.operations
  BY <1>3 DEF Accepted, Limits
<1>5. QED
  BY <1>1, <1>2, <1>4 DEF NickelLimits

LEMMA CycleModeKnown ==
    ASSUME NEW c \in CycleMode, NEW breakin \in BOOLEAN, CycleCode(c, breakin) = {}
    PROVE  breakin /\ c.is \in {"C>D", "D>C"}
<1>1. c.is \in CycleLabels \cup {"absent", "unknown", "code"}
  BY DEF CycleMode
<1>2. c.is = "C>D" => breakin
  BY Zenon DEF CycleCode
<1>3. c.is = "D>C" => breakin
  BY Zenon DEF CycleCode
<1>4. c.is # "C>D>C"
  BY Zenon DEF CycleCode
<1>5. c.is # "D>C>D"
  BY Zenon DEF CycleCode
<1>6. c.is # "code"
  BY Zenon DEF CycleCode
<1>7. c.is \notin {"absent", "unknown"}
  BY Zenon DEF CycleCode
<1>8. QED
  BY <1>1, <1>2, <1>3, <1>4, <1>5, <1>6, <1>7 DEF CycleLabels

LEMMA WordHolds == WordMax \in Int /\ WordMax >= 5000
BY DEF WordMax

\* The defaults fit their words.
LEMMA DefaultsFit ==
    ASSUME NEW b
    PROVE  /\ VoltageDefaults(b).charge \in Word
           /\ VoltageDefaults(b).keep \in Word
           /\ VoltageDefaults(b).current \in Word
BY WordHolds DEF VoltageDefaults, Word

LEMMA LimitsFit ==
    ASSUME NEW c
    PROVE  /\ Limits(c).voltage \subseteq Word
           /\ Limits(c).cutoff \subseteq Word
           /\ Limits(c).storage \subseteq Word
           /\ DischargeLimits \subseteq Word /\ TimeoutLimits \subseteq Word
<1>1. /\ NickelLimits.voltage \subseteq Word /\ NickelLimits.cutoff \subseteq Word
      /\ NickelLimits.storage \subseteq Word
  BY WordHolds DEF NickelLimits, Word
<1>2. /\ LiIonLimits.voltage \subseteq Word /\ LiIonLimits.cutoff \subseteq Word
      /\ LiIonLimits.storage \subseteq Word
  BY WordHolds DEF LiIonLimits, Word
<1>3. /\ LiFeLimits.voltage \subseteq Word /\ LiFeLimits.cutoff \subseteq Word
      /\ LiFeLimits.storage \subseteq Word
  BY WordHolds DEF LiFeLimits, Word
<1>4. DischargeLimits \subseteq Word
  BY WordHolds DEF DischargeLimits, Word
<1>5. TimeoutLimits \subseteq Word
  BY WordHolds DEF TimeoutLimits, Word
<1>6. QED
  BY <1>1, <1>2, <1>3, <1>4, <1>5 DEF Limits

LEMMA FailureCause ==
    ASSUME NEW p \in Profile, Accepted(p), Convertible(p), ~Buildable(ParamsOf(p))
    PROVE  \/ p.operation = "break_in" /\ p.cycleMode.is \in {"absent", "C>D", "D>C"}
           \/ \E n \in p.capacity : n \notin Word
           \/ /\ p.operation \in {"break_in", "discharge"}
              /\ \E n \in p.voltage : n \notin Word
<1> DEFINE q == ParamsOf(p)
           f == Resolved(q)
<1>1. CASE CycleCode(q.cycleMode, BreakIn(q)) = {}
  <2>1. p.operation \in Operations /\ p.cycleMode \in CycleMode
    BY DEF Profile
  <2>2. q \in Params
    BY ParamsTyped
  <2>3. BreakIn(q) \in BOOLEAN /\ q.cycleMode \in CycleMode
    BY <2>2 DEF BreakIn, Params, KnownCycleMode, CycleMode
  <2>4. BreakIn(q) /\ q.cycleMode.is \in {"C>D", "D>C"}
    BY <1>1, <2>3, CycleModeKnown
  <2>5. p.operation = "break_in"
    BY <2>4, BreakInAsked
  <2>6. p.cycleMode.is \in {"absent", "C>D", "D>C"}
    BY <2>4, MoreFields
  <2>7. QED
    BY <2>5, <2>6
<1>2. ASSUME p.capacity \subseteq Word, p.operation \in {"break_in", "discharge"} => p.voltage \subseteq Word
      PROVE  Words(f) \subseteq Word
  <2>1. /\ f.charge \in LeastCharge..f.capacity
        /\ {f.discharge, f.dischargeStopCurrent} \subseteq DischargeLimits
        /\ f.dischargeStop \in Limits(p.chemistry).cutoff
        /\ f.timeout \in TimeoutLimits
    BY FrameWithin
  <2>2. f.capacity = Or(p.capacity, 0) /\ p.capacity # {}
    BY ResolvedFields, ParamsFields DEF Accepted, Required
  <2>3. /\ f.keep = Or({}, VoltageDefaults(q.battery).keep)
        /\ f.chargeStopCurrent = Or({}, IF q.mode \in {1, 4} THEN f.charge
                                        ELSE VoltageDefaults(q.battery).current)
    BY MoreFields
  <2>4. f.chargeStop = Or(Truthy(p.voltage), VoltageDefaults(q.battery).charge)
    BY ResolvedFields, ParamsFields
  <2> HIDE DEF f, q
  <2>5. f.capacity \in Word
    BY <1>2, <2>2, OrGiven
  <2>6. f.charge \in Word
    BY <2>1, <2>5, WordHolds DEF LeastCharge, Word
  <2>7. f.discharge \in Word /\ f.dischargeStopCurrent \in Word
    BY <2>1, LimitsFit
  <2>8. f.dischargeStop \in Word
    BY <2>1, LimitsFit
  <2>9. f.timeout \in Word
    BY <2>1, LimitsFit
  <2>10. f.keep \in Word
    BY <2>3, OrLeftOut, DefaultsFit
  <2>11. f.chargeStopCurrent \in Word
    <3>1. f.chargeStopCurrent = IF q.mode \in {1, 4} THEN f.charge
                                ELSE VoltageDefaults(q.battery).current
      BY <2>3, OrLeftOut
    <3>2. VoltageDefaults(q.battery).current \in Word
      BY DefaultsFit
    <3>3. QED
      BY <2>6, <3>1, <3>2
  <2>12. f.chargeStop \in Word
    <3>1. p.voltage \subseteq Word
      <4>1. p.operation \in Operations /\ VoltageFits(p, Limits(p.chemistry))
        BY DEF Accepted, Profile
      <4>2. Limits(p.chemistry).voltage \subseteq Word /\ Limits(p.chemistry).storage \subseteq Word
        BY LimitsFit
      <4>3. QED
        BY <1>2, <4>1, <4>2 DEF VoltageFits, Operations
    <3>2. Truthy(p.voltage) \subseteq Word /\ VoltageDefaults(q.battery).charge \in Word
      BY <3>1, DefaultsFit DEF Truthy
    <3>3. QED
      BY <2>4, <3>2, OrRange
  <2>13. QED
    BY <2>5, <2>6, <2>7, <2>8, <2>9, <2>10, <2>11, <2>12 DEF Words
<1>3. QED
  BY <1>1, <1>2 DEF Buildable

-----------------------------------------------------------------------------
(* The steps. *)

IInv == TypeOK /\ Traced

LEMMA InitOK == Init => IInv
BY DEF Init, IInv, TypeOK, Traced, AtMostOne

\* A frame comes from an accepted profile.
LEMMA FrameTraced ==
    ASSUME IInv, NEW p \in profile, NEW f \in frame
    PROVE  p \in Profile /\ Accepted(p) /\ f = Resolved(ParamsOf(p))
<1>1. p \in Profile /\ stage = "built"
  BY DEF IInv, TypeOK, Traced
<1>2. Accepted(p)
  BY <1>1 DEF IInv, Traced
<1>3. f = Resolved(ParamsOf(p))
  BY DEF IInv, Traced
<1>4. QED
  BY <1>1, <1>2, <1>3

LEMMA NextOK == IInv /\ [Next]_vars => IInv'
<1> SUFFICES ASSUME IInv, [Next]_vars
             PROVE  IInv'
  OBVIOUS
<1> USE DEF IInv
<1>1. ASSUME NEW p \in Profiles, Submit(p)
      PROVE  IInv'
  <2>1. p \in Profile
    BY ProfilesAssumption
  <2>2. QED
    BY <1>1, <2>1 DEF Submit, TypeOK, Traced, AtMostOne
<1>2. ASSUME NEW q \in ParamLists, SubmitParams(q)
      PROVE  IInv'
  <2>1. q \in Params
    BY ParamsAssumption
  <2>2. QED
    BY <1>2, <2>1 DEF SubmitParams, TypeOK, Traced, AtMostOne
<1>3. CASE Validate
  BY <1>3 DEF Validate, TypeOK, Traced, AtMostOne
<1>4. CASE Convert
  <2>1. PICK p \in profile :
           IF Convertible(p) THEN stage' = "converted" /\ params' = {ParamsOf(p)}
                             ELSE stage' = "failed" /\ UNCHANGED params
    BY <1>4 DEF Convert
  <2>2. p \in Profile /\ profile = {p} /\ Accepted(p) /\ params = {} /\ frame = {}
    BY <1>4 DEF Convert, TypeOK, Traced, AtMostOne
  <2>3. Convertible(p) => ParamsOf(p) \in Params
    BY <2>2, ParamsTyped
  <2>4. QED
    BY <1>4, <2>1, <2>2, <2>3 DEF Convert, TypeOK, Traced, AtMostOne
<1>5. CASE Build
  <2>1. PICK q \in params :
           IF Buildable(q) THEN stage' = "built" /\ frame' = {Resolved(q)}
                           ELSE stage' = "failed" /\ UNCHANGED frame
    BY <1>5 DEF Build
  <2>2. q \in Params /\ params = {q} /\ frame = {}
    BY <1>5 DEF Build, TypeOK, Traced, AtMostOne
  <2>3. Buildable(q) => Resolved(q) \in Frame
    BY <2>2, FrameTyped
  <2>4. QED
    BY <1>5, <2>1, <2>2, <2>3 DEF Build, TypeOK, Traced, AtMostOne
<1>6. CASE Return
  BY <1>6 DEF Return, TypeOK, Traced, AtMostOne
<1>7. CASE UNCHANGED vars
  BY <1>7 DEF vars, TypeOK, Traced, AtMostOne
<1>8. QED
  BY <1>1, <1>2, <1>3, <1>4, <1>5, <1>6, <1>7 DEF Next

LEMMA AlwaysIInv == Spec => []IInv
<1>1. QED
  BY InitOK, NextOK, PTL DEF Spec

\* The type invariant, for every profile and every parameter list
\* (safety.rs:284-294, profile.rs:138-179): a frame is bytes and words.
THEOREM SafetyTypeCorrect == Spec => []TypeOK
<1>1. IInv => TypeOK
  BY DEF IInv
<1>2. QED
  BY AlwaysIInv, <1>1, PTL

\* Whatever the profile, the frame written for it is inside the limits of
\* its chemistry: operation, currents, cutoff, temperature and time
\* (safety.rs:319-420, profile.rs:261-309).
THEOREM FramesWithinLimits == Spec => []WithinLimits
<1>1. IInv => WithinLimits
  BY FrameTraced, FrameWithin DEF WithinLimits
<1>2. QED
  BY AlwaysIInv, <1>1, PTL

\* Whatever the profile, its charge voltage is inside the range of its
\* chemistry unless a break-in gives it, or a storage or LiFe profile leaves
\* it out (safety.rs:371-395, profile.rs:614-650).
THEOREM VoltageGaps == Spec => []VoltageGapsKnown
<1>1. IInv => VoltageGapsKnown
  <2> SUFFICES ASSUME IInv, NEW p \in profile, NEW f \in frame,
                      Charging(p), f.chargeStop \notin ChargeRange(p)
               PROVE  \/ p.operation = "break_in" /\ f.chargeStop \in p.voltage
                      \/ /\ p.operation = "storage" \/ p.chemistry = "LiFe"
                         /\ p.voltage = {} /\ f.chargeStop = 4200
    BY DEF VoltageGapsKnown
  <2>1. p \in Profile /\ Accepted(p) /\ f = Resolved(ParamsOf(p))
    BY FrameTraced
  <2>2. f.chargeStop = Or(Truthy(p.voltage), VoltageDefaults(Code(p.chemistry)).charge)
    BY <2>1, FrameWithin
  <2>3. QED
    BY <2>1, <2>2, VoltageWritten
<1>2. QED
  BY AlwaysIInv, <1>1, PTL

\* An accepted profile becomes a frame, but for the reasons named
\* (safety.rs:522-592, profile.rs:49-121, 261-309).
THEOREM AcceptedIsBuilt == Spec => []FailuresKnown
<1>1. IInv => FailuresKnown
  <2> SUFFICES ASSUME IInv, stage = "failed", NEW p \in profile, p.cycleMode.is # "unknown"
               PROVE  \/ p.operation = "break_in" /\ p.cycleMode.is \in {"absent", "C>D", "D>C"}
                      \/ \E n \in p.capacity : n \notin Word
                      \/ /\ p.operation \in {"break_in", "discharge"}
                         /\ \E n \in p.voltage : n \notin Word
    BY DEF FailuresKnown
  <2>1. p \in Profile /\ Accepted(p) /\ Convertible(p) /\ ~Buildable(ParamsOf(p))
    BY DEF IInv, TypeOK, Traced, Convertible
  <2>2. QED
    BY <2>1, FailureCause
<1>2. QED
  BY AlwaysIInv, <1>1, PTL

\* For every parameter list, of a profile or of a caller of the builder
\* (profile.rs:612-618).
THEOREM NickelDefaults == Spec => []NickelDefaultsSuit
<1>1. IInv => NickelDefaultsSuit
  <2> SUFFICES ASSUME IInv, NEW q \in params, NEW f \in frame,
                      q.battery \in {Code(c) : c \in Nickel}
               PROVE  /\ q.chargeStop = {} => f.chargeStop \in NickelLimits.voltage
                      /\ q.dischargeStop = {} => f.dischargeStop \in NickelLimits.cutoff
                      /\ q.keep = {} => f.keep \in NickelLimits.cutoff
    BY DEF NickelDefaultsSuit
  <2>1. f = Resolved(q)
    BY DEF IInv, TypeOK, Traced, AtMostOne
  <2>2. q.battery \in NickelCodes
    BY Codes
  <2>3. /\ VoltageDefaults(q.battery).charge = 1650
        /\ VoltageDefaults(q.battery).discharge = 1000
        /\ VoltageDefaults(q.battery).keep = 1000
    BY <2>2, DefaultVoltages
  <2>4. /\ q.chargeStop = {} => f.chargeStop = 1650
        /\ q.dischargeStop = {} => f.dischargeStop = 1000
        /\ q.keep = {} => f.keep = 1000
    <3>1. /\ f.chargeStop = Or(q.chargeStop, VoltageDefaults(q.battery).charge)
          /\ f.dischargeStop = Or(q.dischargeStop, VoltageDefaults(q.battery).discharge)
          /\ f.keep = Or(q.keep, VoltageDefaults(q.battery).keep)
      BY <2>1, ResolvedFields
    <3>2. QED
      BY <2>3, <3>1, OrLeftOut
  <2>5. QED
    BY <2>4 DEF NickelLimits
<1>2. QED
  BY AlwaysIInv, <1>1, PTL
=============================================================================
