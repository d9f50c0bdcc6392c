---------------------------- MODULE MCMcpService ----------------------------
(* Instances of McpService for TLC: two slots, the tool calls of each run. *)
EXTENDS McpService, TLC

TwoSlots == {0, 1}

Of(name, slots) == [NoTool EXCEPT !.name = name, !.slots = slots]
Allowed(t, is, slot) == [t EXCEPT !.token = [is |-> is, slot |-> slot]]
Connect(m) == [Of("connect", {}) EXCEPT !.model = m]
Apply(name, slots, profile) ==
    [Of(name, slots) EXCEPT !.profile = profile, !.live = TRUE]
SendRaw(f, timely) ==
    [Allowed(Of("mc3000_send_raw", {0}), "SEND_RAW", 0)
        EXCEPT !.raw = f, !.wait = TRUE, !.timely = timely]

ClientCallsOf(tools) ==
    UNION {{Script(t)[i] : i \in DOMAIN Script(t)} :
              t \in {u \in tools : u.raw # "Restore"}}

\* Reconnects as either model among writes and an emergency stop.
GateTools ==
    {Connect("Mc3000"), [Connect("Mc5000") EXCEPT !.address = TRUE],
     Of("stop_all", {}), Of("stop", {1}), Of("status", {}),
     Allowed(Of("charger.start", {0}), "START_SLOT", 0)}
GateCalls == ClientCallsOf(GateTools)

\* Tokens right, wrong and missing, dry runs, unsafe and malformed profiles.
TokenTools ==
    {Connect("Mc3000"), Of("disconnect", {}), Of("stop", {0}),
     Of("status", {0}), Of("charger.validate_profile", {}),
     Allowed(Of("mc3000_start", {0}), "START_SLOT", 1),
     Allowed(Of("charger.start", {1}), "START_SLOT", 1),
     Allowed(Of("mc3000_set_basic", {}), "SET_BASIC", 0),
     Of("mc3000_set_basic", {}),
     Allowed(Apply("charger.apply_profile", {0}, "safe"), "APPLY_PROFILE_SLOT", 0),
     Allowed(Apply("charger.apply_profile", {0}, "unsafe"), "APPLY_PROFILE_SLOT", 0),
     [Apply("charger.apply_profile", {0}, "safe") EXCEPT !.live = FALSE],
     Allowed(Apply("mc3000_apply_profile", {0, 1}, "safe"), "APPLY_PROFILE_SLOT", 0),
     Allowed(Apply("mc3000_apply_profile", {1}, "malformed"), "APPLY_PROFILE_SLOT", 1),
     SendRaw("Start", TRUE), SendRaw("Stop", FALSE), SendRaw("Restore", TRUE)}
TokenCalls == ClientCallsOf(TokenTools)

\* The emergency stop among polls and reconnects.
LiveTools == {Connect("Mc3000"), Of("status", {}), Of("stop_all", {})}
LiveCalls == ClientCallsOf(LiveTools)

\* A profile no safety limit has seen.
UnsafeTools ==
    {Connect("Mc3000"),
     Allowed(Apply("mc3000_apply_profile", {0}, "unsafe"), "APPLY_PROFILE_SLOT", 0)}
UnsafeCalls == ClientCallsOf(UnsafeTools)

TaskSymmetry == Permutations(Callers)
=============================================================================
