-------------------------- MODULE MCChargerClient --------------------------
(* Instances of ChargerClient for TLC: two slots, the calls of each run. *)
EXTENDS ChargerClient, TLC

CallOf(op, slots) == [op |-> op, slots |-> slots, start |-> FALSE,
                      frame |-> "Status", model |-> NoModel]
Profile(slots, start) == [CallOf("send_profile", slots) EXCEPT !.start = start]
ConnectAs(m) == [CallOf("connect", {}) EXCEPT !.model = m]

TwoSlots == {0, 1}

\* Profiles, with and without start, against each other, a single start and
\* a reconnect of another task.
ProfileCalls ==
    {Profile({0, 1}, FALSE), Profile({0, 4}, TRUE),
     CallOf("start", {0}), ConnectAs("Mc3000")}

\* What waits for one reply, against a stop that waits for none, behind
\* polls and reconnects.
RequestCalls ==
    {ConnectAs("Mc3000"), CallOf("stop_acked", {0}), CallOf("stop", {1}),
     CallOf("poll_all_status", TwoSlots)}

CallerSymmetry == Permutations(Callers)
=============================================================================
