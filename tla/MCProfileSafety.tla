-------------------------- MODULE MCProfileSafety --------------------------
(* Profiles and parameters for TLC: at, inside and past every limit. *)
EXTENDS ProfileSafety

Cycle(is) == [is |-> is, code |-> 258]

\* A profile that suits its chemistry, with nothing optional; a break-in needs
\* one of the two cycle modes its table has.
Plain(chemistry, operation) ==
    [wellFormed |-> TRUE, chemistry |-> chemistry, operation |-> operation,
     capacity |-> {2000}, cells |-> {1}, nominal |-> {}, charge |-> {500},
     discharge |-> {500}, voltage |-> {}, cutoff |-> {CASE chemistry = "LiIon" -> 3000
        [] chemistry = "LiFe" -> 2500 [] OTHER -> 1000},
     temperature |-> {45}, timeout |-> {}, cycles |-> {},
     cycleMode |-> Cycle(IF operation = "break_in" THEN "D>C>D" ELSE "absent"),
     delta |-> {}, trickle |-> {}]

Voltages == {{}, {0}, {1400}, {1801}, {3200}, {3401}, {3600}, {3601}, {3700}, {3901},
             {4100}, {4200}, {4201}, {70000}}

Suitable(c, o) ==
    CASE c = "LiIon" -> IF o = "storage" THEN 3800 ELSE 4200
      [] c = "LiFe" -> IF o = "storage" THEN 3300 ELSE 3600
      [] OTHER -> 1650
Plains == UNION {{Plain(c, o), [Plain(c, o) EXCEPT !.voltage = {Suitable(c, o)}]} :
                    c \in Chemistries, o \in Operations}

\* One field of p at and around its limits.
Varied(p) ==
    {[p EXCEPT !.voltage = v] : v \in Voltages}
    \cup {[p EXCEPT !.wellFormed = FALSE]}
    \cup {[p EXCEPT !.capacity = n] : n \in {{}, {0}, {49}, {70000}}}
    \cup {[p EXCEPT !.cells = n] : n \in {{}, {0}, {2}}}
    \cup {[p EXCEPT !.nominal = n] : n \in {{1200}, {3350}, {3351}, {4070}, {4071}}}
    \cup {[p EXCEPT !.charge = n] : n \in {{}, {49}, {50}, {2000}, {2001}}}
    \cup {[p EXCEPT !.discharge = n] : n \in {{}, {49}, {2000}, {2001}}}
    \cup {[p EXCEPT !.cutoff = n] : n \in {{}, {900}, {1101}, {2399}, {2900}, {2901}, {3301}}}
    \cup {[p EXCEPT !.temperature = n] : n \in {{}, {19}, {55}, {60}, {61}, {301}}}
    \cup {[p EXCEPT !.timeout = n] : n \in {{-1}, {0}, {1440}, {1441}}}
    \cup {[p EXCEPT !.cycles = n] : n \in {{0}, {256}}}
    \cup {[p EXCEPT !.cycleMode = Cycle(m)] : m \in CycleLabels \cup {"absent", "unknown", "code"}}
    \cup {[p EXCEPT !.delta = n] : n \in {{0}, {20}}}
    \cup {[p EXCEPT !.trickle = n] : n \in {{-10}, {300}, {30000}}}

SomeProfiles == UNION {Varied(p) : p \in Plains}

\* Parameters as mc3000_build_profile takes them: everything left out, or
\* one field given.
Bare == {[battery |-> b, mode |-> m, capacity |-> 2000, charge |-> {}, discharge |-> {},
          chargeStop |-> {}, dischargeStop |-> {}, chargeStopCurrent |-> {},
          dischargeStopCurrent |-> {}, chargeRest |-> {}, dischargeRest |-> {},
          cycles |-> {}, cycleMode |-> Cycle("absent"), delta |-> {}, trickle |-> {},
          keep |-> {}, temperature |-> 45, timeout |-> {}, breakin |-> FALSE] :
             b \in 0..9, m \in 0..5}
SomeParams ==
    UNION {{q, [q EXCEPT !.breakin = TRUE], [q EXCEPT !.capacity = -1],
            [q EXCEPT !.chargeStop = {0}], [q EXCEPT !.keep = {65536}],
            [q EXCEPT !.temperature = 300], [q EXCEPT !.chargeRest = {256}],
            [q EXCEPT !.timeout = {120}], [q EXCEPT !.cycleMode = Cycle("C>D")]} :
              q \in Bare}
=============================================================================
