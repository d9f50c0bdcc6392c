--------------------------- MODULE ProfileSafety ---------------------------
(***************************************************************************)
(* From a battery profile to the frame written to the charger: the safety  *)
(* limits and the validation of src/src/safety.rs, the conversion into     *)
(* parameters, and the builder of src/src/profile.rs with its defaults.    *)
(* charger.apply_profile takes the whole way; mc3000_build_profile and     *)
(* mc3000_apply_profile give the builder parameters of their own.          *)
(*                                                                         *)
(* A number a profile or a parameter list may leave out is a set: empty,   *)
(* or of one value.  A frame is its fields, before the checksum.           *)
(***************************************************************************)
EXTENDS Integers

CONSTANTS
    Profiles,    \* the profiles handed to the safety layer
    ParamLists   \* the parameters handed to the builder directly

AtMostOne(o) == \A v, w \in o : v = w
Option == {o \in SUBSET Int : AtMostOne(o)}
Or(o, default) == IF o = {} THEN default ELSE CHOOSE v \in o : TRUE
Truthy(o) == o \ {0}

Nickel == {"NiMH", "NiCd", "Eneloop"}
Limited == Nickel \cup {"LiIon", "LiFe"}
Chemistries == Limited \cup {"LiIo4.35", "NiZn", "RAM", "LTO"}
Operations == {"charge", "refresh", "break_in", "storage", "discharge", "cycle"}

Code(chemistry) ==
    CASE chemistry = "LiIon" -> 0 [] chemistry = "LiFe" -> 1 [] chemistry = "LiIo4.35" -> 2
      [] chemistry = "NiMH" -> 3 [] chemistry = "NiCd" -> 4 [] chemistry = "NiZn" -> 5
      [] chemistry = "Eneloop" -> 6 [] chemistry = "RAM" -> 7 [] chemistry = "LTO" -> 8
Mode(operation) ==
    CASE operation = "charge" -> 0 [] operation = "refresh" -> 1
      [] operation \in {"break_in", "storage"} -> 2
      [] operation = "discharge" -> 3 [] operation = "cycle" -> 4

\* A cycle mode is left out, one of the four labels, another text or no text
\* at all (unknown), or a number.
CycleLabels == {"C>D", "C>D>C", "D>C", "D>C>D"}
CycleMode == [is : CycleLabels \cup {"absent", "unknown", "code"}, code : Int]
KnownCycleMode == [is : CycleLabels \cup {"absent", "code"}, code : Int]

\* wellFormed: the fields that are not numbers are there, the identifier is
\* one, and whatever is read as a number is one.
Profile == [wellFormed : BOOLEAN, chemistry : Chemistries, operation : Operations,
            capacity : Option, cells : Option, nominal : Option, charge : Option,
            discharge : Option, voltage : Option, cutoff : Option, temperature : Option,
            timeout : Option, cycles : Option, cycleMode : CycleMode, delta : Option,
            trickle : Option]

Params == [battery : 0..255, mode : 0..255, capacity : Int, charge : Option,
           discharge : Option, chargeStop : Option, dischargeStop : Option,
           chargeStopCurrent : Option, dischargeStopCurrent : Option,
           chargeRest : Option, dischargeRest : Option, cycles : Option,
           cycleMode : KnownCycleMode, delta : Option, trickle : Option, keep : Option,
           temperature : Int, timeout : Option, breakin : BOOLEAN]

ASSUME ProfilesAssumption == Profiles \subseteq Profile
ASSUME ParamsAssumption == ParamLists \subseteq Params

-----------------------------------------------------------------------------
(* The limits, as ranges; the charge current is bounded by the capacity. *)

NickelLimits == [nominal |-> 1200, voltage |-> 1400..1800, cutoff |-> 900..1100,
                 storage |-> {}, temperature |-> 20..60,
                 operations |-> {"charge", "refresh", "break_in", "discharge", "cycle"}]
LiIonLimits == [nominal |-> 3700, voltage |-> 4100..4200, cutoff |-> 2800..3300,
                storage |-> 3700..3900, temperature |-> 20..55,
                operations |-> {"charge", "storage", "discharge"}]
LiFeLimits == [nominal |-> 3200, voltage |-> 3500..3600, cutoff |-> 2400..2900,
               storage |-> 3200..3400, temperature |-> 20..55,
               operations |-> {"charge", "storage", "discharge"}]
DischargeLimits == 50..2000
TimeoutLimits == 0..1440
LeastCharge == 50

\* limits_for.
Limits(chemistry) ==
    IF chemistry \in Nickel THEN NickelLimits
    ELSE IF chemistry = "LiFe" THEN LiFeLimits ELSE LiIonLimits

-----------------------------------------------------------------------------
(* validate_profile. *)

\* A required number is there and in its range; an optional one is not or is.
Required(o, range) == o # {} /\ o \subseteq range

NominalFits(p, l) ==
    LET cells    == Or(Truthy(p.cells), 1)
        expected == l.nominal * cells
        allowed  == IF expected \div 10 > 150 THEN expected \div 10 ELSE 150
    IN  \A n \in p.nominal : n - expected <= allowed /\ expected - n <= allowed

\* The charge voltage is looked at only if it is given, and only for these.
VoltageFits_OneRange(p, l) ==
    p.operation \in {"charge", "refresh", "cycle", "storage"} => p.voltage \subseteq l.voltage
VoltageFits(p, l) ==
    /\ p.operation \in {"charge", "refresh", "cycle"} => p.voltage \subseteq l.voltage
    /\ p.operation = "storage" => p.voltage \subseteq l.storage

ChargeFits_Uncapped(p) == Required(p.charge, LeastCharge..65535)
ChargeFits(p) == Required(p.charge, LeastCharge..Or(p.capacity, 0))

Accepted(p) ==
    /\ p.wellFormed /\ p.chemistry \in Limited
    /\ LET l == Limits(p.chemistry)
       IN  /\ p.operation \in l.operations
           /\ Required(p.capacity, Nat \ {0}) /\ Required(p.cells, 1..1)
           /\ NominalFits(p, l) /\ ChargeFits(p)
           /\ Required(p.discharge, DischargeLimits)
           /\ VoltageFits(p, l)
           /\ Required(p.cutoff, l.cutoff) /\ Required(p.temperature, l.temperature)
           /\ p.timeout \subseteq TimeoutLimits

-----------------------------------------------------------------------------
(* profile_to_mc3000_args. *)

Convertible(p) == p.cycleMode.is # "unknown"

ParamsOf(p) ==
    [battery |-> Code(p.chemistry), mode |-> Mode(p.operation),
     capacity |-> Or(p.capacity, 0), charge |-> p.charge, discharge |-> p.discharge,
     chargeStop |-> Truthy(p.voltage), dischargeStop |-> p.cutoff,
     chargeStopCurrent |-> {}, dischargeStopCurrent |-> p.discharge,
     chargeRest |-> {}, dischargeRest |-> {},
     cycles |-> {Or(Truthy(p.cycles), 1)},
     cycleMode |-> IF p.cycleMode.is = "absent" THEN [is |-> "D>C", code |-> 0]
                                                ELSE p.cycleMode,
     delta |-> {Or(p.delta, 3)}, trickle |-> {Or(p.trickle, 0)}, keep |-> {},
     temperature |-> Or(p.temperature, 0), timeout |-> {Or(p.timeout, 0)},
     breakin |-> p.operation = "break_in"]

-----------------------------------------------------------------------------
(* build_profile. *)

Byte == 0..255
WordMax == 65535
Word == 0..WordMax
Low_Uncut(n) == n
Low(n) == n % 256

NickelCodes_NoEneloop == {3, 4}
NickelCodes == {3, 4, 6}

\* mode_defaults and voltage_defaults: what a parameter left out becomes.
Clamp(n, lo, hi) == IF n < lo THEN lo ELSE IF n > hi THEN hi ELSE n

ModeDefaults(mode, capacity, breakin) ==
    IF breakin
    THEN [charge |-> Clamp(capacity \div 10, 10, 3000),
          discharge |-> Clamp(capacity \div 5, 10, 2000), rest |-> 60, after |-> 60]
    ELSE [charge |-> 1000, discharge |-> 500,
          rest  |-> IF mode = 1 THEN 30 ELSE IF mode = 4 THEN 20 ELSE 0,
          after |-> IF mode = 1 THEN 60 ELSE IF mode = 4 THEN 10 ELSE 0]

VoltageDefaults(battery) ==
    IF battery \in NickelCodes
    THEN [charge |-> 1650, discharge |-> 1000, current |-> 50, keep |-> 1000]
    ELSE IF battery \in {5, 7}
    THEN [charge |-> IF battery = 5 THEN 1900 ELSE 1650,
          discharge |-> IF battery = 5 THEN 1500 ELSE 900, current |-> 50, keep |-> 1200]
    ELSE [charge |-> 4200, discharge |-> 3000, current |-> 100, keep |-> 4150]

\* to_code: the break-in table knows two of the labels.
CycleCode_OneTable(m, breakin) ==
    CASE m.is = "C>D>C" -> {0} [] m.is = "D>C>D" -> {1}
      [] m.is = "code" -> {Low(m.code)} [] OTHER -> {}
CycleCode(m, breakin) ==
    CASE m.is = "C>D" -> IF breakin THEN {} ELSE {0}
      [] m.is = "C>D>C" -> IF breakin THEN {0} ELSE {1}
      [] m.is = "D>C" -> IF breakin THEN {} ELSE {2}
      [] m.is = "D>C>D" -> IF breakin THEN {1} ELSE {3}
      [] m.is = "code" -> {Low(m.code)}
      [] OTHER -> {0}

BreakIn(q) == q.breakin \/ (q.battery \in NickelCodes /\ q.mode = 2)

Resolved(q) ==
    LET m == ModeDefaults(q.mode, q.capacity, BreakIn(q))
        v == VoltageDefaults(q.battery)
        nickel == q.battery \in NickelCodes
        charge == Or(q.charge, m.charge)
        discharge == Or(q.discharge, m.discharge)
    IN  [battery |-> q.battery, mode |-> q.mode, capacity |-> q.capacity,
         charge |-> charge, discharge |-> discharge,
         chargeStop |-> Or(q.chargeStop, v.charge),
         dischargeStop |-> Or(q.dischargeStop, v.discharge),
         chargeStopCurrent |-> Or(q.chargeStopCurrent,
                                  IF q.mode \in {1, 4} THEN charge ELSE v.current),
         dischargeStopCurrent |-> Or(q.dischargeStopCurrent, discharge),
         chargeRest |-> Low(Or(q.chargeRest, m.rest)),
         dischargeRest |-> Low(Or(q.dischargeRest, m.after)),
         cycles |-> Low(Or(q.cycles, 1)),
         cycleMode |-> Or(CycleCode(q.cycleMode, BreakIn(q)), 0),
         delta |-> Low(Or(q.delta, IF nickel THEN 3 ELSE 0)),
         trickle |-> Low(Or(q.trickle, IF nickel THEN 10 ELSE 0) \div 10),
         keep |-> Or(q.keep, v.keep),
         temperature |-> Low(q.temperature),
         timeout |-> IF BreakIn(q) THEN 0 ELSE Or(q.timeout, 0)]

Frame == [battery : Byte, mode : Byte, capacity : Word, charge : Word, discharge : Word,
          chargeStop : Word, dischargeStop : Word, chargeStopCurrent : Word,
          dischargeStopCurrent : Word, chargeRest : Byte, dischargeRest : Byte,
          cycles : Byte, cycleMode : Byte, delta : Byte, trickle : Byte, keep : Word,
          temperature : Byte, timeout : Word]

\* The fields of two bytes are checked, those of one are cut.
Words(f) == {f.capacity, f.charge, f.discharge, f.chargeStop, f.dischargeStop,
             f.chargeStopCurrent, f.dischargeStopCurrent, f.keep, f.timeout}

Buildable(q) ==
    CycleCode(q.cycleMode, BreakIn(q)) # {} /\ Words(Resolved(q)) \subseteq Word

-----------------------------------------------------------------------------
VARIABLES
    stage,     \* how far the call has got
    profile,   \* the profile it was given, if any
    params,    \* ProfileParams, once there are any
    frame      \* the frame, once it is built

vars == <<stage, profile, params, frame>>

Init == stage = "idle" /\ profile = {} /\ params = {} /\ frame = {}

Submit(p) ==
    /\ stage = "idle"
    /\ stage' = "given" /\ profile' = {p}
    /\ UNCHANGED <<params, frame>>

SubmitParams(q) ==
    /\ stage = "idle"
    /\ stage' = "converted" /\ params' = {q}
    /\ UNCHANGED <<profile, frame>>

Validate ==
    /\ stage = "given"
    /\ stage' = IF \A p \in profile : Accepted(p) THEN "accepted" ELSE "refused"
    /\ UNCHANGED <<profile, params, frame>>

Convert ==
    /\ stage = "accepted"
    /\ \E p \in profile :
          IF Convertible(p) THEN stage' = "converted" /\ params' = {ParamsOf(p)}
                            ELSE stage' = "failed" /\ UNCHANGED params
    /\ UNCHANGED <<profile, frame>>

Build ==
    /\ stage = "converted"
    /\ \E q \in params :
          IF Buildable(q) THEN stage' = "built" /\ frame' = {Resolved(q)}
                          ELSE stage' = "failed" /\ UNCHANGED frame
    /\ UNCHANGED <<profile, params>>

Return ==
    /\ stage \in {"refused", "failed", "built"}
    /\ stage' = "idle" /\ profile' = {} /\ params' = {} /\ frame' = {}

Next ==
    \/ \E p \in Profiles : Submit(p)
    \/ \E q \in ParamLists : SubmitParams(q)
    \/ Validate \/ Convert \/ Build \/ Return

Spec == Init /\ [][Next]_vars

-----------------------------------------------------------------------------
(* Properties. *)

\* Every variable has its type (safety.rs:284-294, profile.rs:138-179): a
\* frame is bytes and words.
TypeOK ==
    /\ stage \in {"idle", "given", "accepted", "refused", "converted", "failed", "built"}
    /\ profile \subseteq Profile /\ AtMostOne(profile)
    /\ params \subseteq Params /\ AtMostOne(params)
    /\ frame \subseteq Frame /\ AtMostOne(frame)

\* What is written for a profile stays inside the limits of its chemistry,
\* after every default and every cut to a byte (safety.rs:319-420,
\* profile.rs:261-309): the operation, the currents, the discharge cutoff,
\* the temperature and the time.  Of the charge voltage see below.
WithinLimits ==
    \A p \in profile, f \in frame :
       LET l == Limits(p.chemistry)
       IN  /\ p.operation \in l.operations
           /\ f.battery = Code(p.chemistry) /\ f.mode = Mode(p.operation)
           /\ f.charge \in LeastCharge..f.capacity
           /\ {f.discharge, f.dischargeStopCurrent} \subseteq DischargeLimits
           /\ f.dischargeStop \in l.cutoff
           /\ f.temperature \in l.temperature
           /\ f.timeout \in TimeoutLimits

\* The charge voltages that suit what a profile does; a discharge charges
\* nothing.
Charging(p) == p.operation # "discharge"
ChargeRange(p) ==
    IF p.operation = "storage" THEN Limits(p.chemistry).storage
                               ELSE Limits(p.chemistry).voltage

\* A charge voltage outside the range of its chemistry is written in these
\* cases only: a break-in that gives one, which validation does not look at
\* (safety.rs:371-395) and the builder takes as it is; a storage, or a LiFe
\* profile, that gives none and gets the 4200 mV of a LiIon charge
\* (profile.rs:614-650).
VoltageGapsKnown ==
    \A p \in profile, f \in frame :
       Charging(p) /\ f.chargeStop \notin ChargeRange(p) =>
          \/ p.operation = "break_in" /\ f.chargeStop \in p.voltage
          \/ /\ p.operation = "storage" \/ p.chemistry = "LiFe"
             /\ p.voltage = {} /\ f.chargeStop = 4200

\* A profile that was accepted fails to become a frame for these reasons
\* only: its cycle mode, or a number no limit looks at and no word holds.
FailuresKnown ==
    stage = "failed" =>
       \A p \in profile :
          \/ p.cycleMode.is = "unknown"
          \/ p.operation = "break_in" /\ p.cycleMode.is \in {"absent", "C>D", "D>C"}
          \/ \E n \in p.capacity : n \notin Word
          \/ p.operation \in {"break_in", "discharge"} /\ \E n \in p.voltage : n \notin Word

\* Nickel cells are never given the voltages of lithium cells, or none, for
\* a voltage that was left out (profile.rs:612-618).
NickelDefaultsSuit ==
    \A q \in params, f \in frame :
       q.battery \in {Code(c) : c \in Nickel} =>
          /\ q.chargeStop = {} => f.chargeStop \in NickelLimits.voltage
          /\ q.dischargeStop = {} => f.dischargeStop \in NickelLimits.cutoff
          /\ q.keep = {} => f.keep \in NickelLimits.cutoff

-----------------------------------------------------------------------------
(* The invariant behind them: each stage is the work of the one before. *)

Traced ==
    /\ stage \in {"accepted", "converted", "failed", "built"} =>
          \A p \in profile : Accepted(p)
    /\ stage \in {"idle", "given", "accepted"} => params = {}
    /\ stage # "built" => frame = {}
    /\ \A p \in profile, q \in params : Convertible(p) /\ q = ParamsOf(p)
    /\ \A f \in frame : \E q \in params : Buildable(q) /\ f = Resolved(q)
    /\ stage = "failed" =>
          \A p \in profile : ~Convertible(p) \/ ~Buildable(ParamsOf(p))
    /\ stage = "idle" => profile = {}
    /\ stage = "converted" => params # {}

-----------------------------------------------------------------------------
(* What the documentation says and the code does not keep. *)

\* docs/safety-model.md:9: chemistry-specific voltage limits are enforced, for
\* whatever charges a cell.  safety.rs:371-395 does not look at a voltage that
\* is left out, which profile.rs:614-650 fills in, nor at that of a break-in.
ChargeVoltageEnforced ==
    \A p \in profile, f \in frame : Charging(p) => f.chargeStop \in ChargeRange(p)
=============================================================================
