----------------------------- MODULE RelayLimits -----------------------------
(***************************************************************************)
(* The limits of one relay bearer: its lifetime against the wall clock and *)
(* CLOCK_BOOTTIME, and the rate and budget counters the broker keeps in    *)
(* RAM (secrets-engine/src/broker/decide.rs, broker/mod.rs, clamp_ttl in   *)
(* broker/policy.rs, and the callers in lib.rs).                           *)
(*                                                                         *)
(* `time` is the time that really passes; the program sees the wall clock, *)
(* which can be stepped, and the uptime, which a reboot starts again.  A   *)
(* tick stands for some milliseconds, Sec ticks for a second.  What a swap *)
(* asks for (host, path, method, peer, presence) is one choice.            *)
(***************************************************************************)
EXTENDS Integers, Sequences, FiniteSetsExt

CONSTANTS
    Thread,            \* the callers that may be inside the engine at once
    Sec,               \* ticks per second
    Window,            \* the rate window, 60 s
    ClockSkew,         \* CLOCK_SKEW_MS
    MaxTtl,            \* MAX_BEARER_TTL_SECS
    PolicyTtl,         \* policy_ttl_secs
    Requested,         \* the lifetimes asked of mint, in seconds
    Bytes,             \* the sizes of request bodies
    Settings,          \* the policies and environments to start from
    MaxTime            \* bound: time stops here

ASSUME ThreadAssumption == Thread # {}
ASSUME ClockAssumption == {Sec, Window, MaxTtl} \subseteq Nat \ {0} /\ ClockSkew \in Nat
ASSUME PolicyAssumption == PolicyTtl \in Int
ASSUME InputAssumption == Requested \subseteq Int /\ Bytes \subseteq Nat
ASSUME SettingsAssumption ==
    \A s \in Settings :
        /\ {s.rate, s.requests, s.bytes, s.callers, s.swaps, s.probes} \subseteq Nat
        /\ s.steps \subseteq Int
        /\ s.faults \subseteq {"restart", "reboot"}
ASSUME BoundAssumption == MaxTime \in Nat \ {0}

VARIABLES
    setting,           \* rate_per_min and both quotas of the policy; how many swaps may overlap, by
                       \* how much the wall clock may be stepped, the faults, bounds on swaps and probes
    time,              \* real time
    offset,            \* how far the wall clock is from it
    bootAt,            \* real time of the last boot
    bearer,            \* the row's issued_at, issued_boottime and expires_at (durable)
    counters,          \* BearerCounters of the bearer (memory)
    sample,            \* the clocks each swap has read, or NoSample
    last,              \* the verdict of the latest swap and what it was based on
    dieAt,             \* history: when the granted lifetime really ends
    moved,             \* history: the wall clock was stepped since the mint
    rebooted,          \* history: the machine was rebooted since the mint
    sent,              \* history: when each swap that was allowed went out
    used,              \* history: requests and bytes allowed since the daemon started
    started            \* how many swaps have been started

vars == <<setting, time, offset, bootAt, bearer, counters, sample, last,
          dieAt, moved, rebooted, sent, used, started>>
world == <<setting, time, offset, bootAt>>
history == <<dieAt, moved, rebooted, sent, used>>

Wall == time + offset
Uptime == time - bootAt
Floor == 0                                   \* META_ISSUANCE_FLOOR_MS, set by init_vault
NoBearer == [issued |-> 0, boot |-> 0, expires |-> 0]
NoCounters == [start |-> 0, inWindow |-> 0, requests |-> 0, bytes |-> 0]
NoSample == [wall |-> 0, boot |-> 0, at |-> -1]

Init ==
    /\ setting \in Settings
    /\ time = 1
    /\ offset = 0
    /\ bootAt = 0
    /\ bearer = NoBearer
    /\ counters = NoCounters
    /\ sample = [t \in Thread |-> NoSample]
    /\ last = [verdict |-> "none", at |-> 0]
    /\ dieAt = 0
    /\ moved = FALSE
    /\ rebooted = FALSE
    /\ sent = <<>>
    /\ used = [requests |-> 0, bytes |-> 0]
    /\ started = 0
-----------------------------------------------------------------------------
(* clamp_ttl, in whole seconds of the wall clock; a lifetime that is not   *)
(* positive is refused.                                                    *)
Ttl(requested) == Min({requested, PolicyTtl, MaxTtl})
Expiry(requested) == (Wall \div Sec + Ttl(requested)) * Sec

(* mint_bearer_core, as far as the clocks go; the bearer is minted once.   *)
Mint ==
    /\ bearer = NoBearer
    /\ \E r \in Requested :
         /\ Ttl(r) > 0
         /\ bearer' = [issued |-> Wall, boot |-> Uptime, expires |-> Expiry(r)]
         /\ dieAt' = time + Ttl(r) * Sec
    /\ UNCHANGED <<world, counters, sample, last, moved, rebooted, sent, used, started>>

(* relay_swap_prepare reads both clocks first; the store and the presence  *)
(* probe are between that and the counters.                                *)
ReadClocks(t) ==
    /\ bearer # NoBearer
    /\ sample[t] = NoSample
    /\ started < setting.swaps
    /\ Cardinality({u \in Thread : sample[u] # NoSample}) < setting.callers
    /\ started' = started + 1
    /\ sample' = [sample EXCEPT ![t] = [wall |-> Wall, boot |-> Uptime, at |-> time]]
    /\ UNCHANGED <<world, bearer, counters, last, history>>

(* Broker::bump.                                                           *)
Bump(c, now, bytes) ==
    LET fresh == c.start = 0 \/ now - c.start >= Window
    IN [start    |-> IF fresh THEN now ELSE c.start,
        inWindow |-> IF fresh THEN 1 ELSE c.inWindow + 1,
        requests |-> c.requests + 1,
        bytes    |-> c.bytes + bytes]

(* The checks of decide() that are about clocks and counters.              *)
Expired(s) == s.wall >= bearer.expires \/ s.wall >= bearer.issued + PolicyTtl * Sec
OverBudgetBefore(c) == c.requests - 1 > setting.requests \/ c.bytes > setting.bytes  \* mutant
OverBudget(c) == c.requests > setting.requests \/ c.bytes > setting.bytes
RateLimitedPast(c) == c.inWindow > setting.rate                                         \* mutant
RateLimited(c) == c.inWindow >= setting.rate
RolledBack(s) ==
    LET elapsed == s.boot - bearer.boot
        drift == s.wall - bearer.issued - elapsed
    IN \/ s.wall < Floor \/ s.wall < bearer.issued
       \/ elapsed < 0
       \/ drift > ClockSkew \/ -drift > ClockSkew
DeadByUptimeNever(s) == FALSE                                         \* mutant
DeadByUptime(s) == s.boot - bearer.boot >= bearer.expires - bearer.issued

(* decide(): the first failing check names the denial; of checks 7 to 12   *)
(* (scope) and 16 (gate) only the place in the order is kept.              *)
Verdict(s, c, denial) ==
    IF Expired(s) THEN "expired"
    ELSE IF denial = "scope" THEN "outOfScope"
    ELSE IF OverBudget(c) THEN "overBudget"
    ELSE IF RateLimited(c) THEN "rateLimited"
    ELSE IF denial = "gate" THEN "gateAbsent"
    ELSE IF RolledBack(s) \/ DeadByUptime(s) THEN "clock"
    ELSE "allow"

(* The counters are bumped for every swap that gets this far, under the    *)
(* broker's write lock; the decision is made of the values they had then.  *)
Decide(t) ==
    /\ sample[t] # NoSample
    /\ \E bytes \in Bytes, denial \in {"none", "scope", "gate"} :
         LET c == Bump(counters, sample[t].wall, bytes)
             v == Verdict(sample[t], c, denial)
         IN /\ counters' = c
            /\ last' = [verdict |-> v, at |-> sample[t].at]
            /\ sent' = IF v = "allow" THEN Append(sent, time) ELSE sent
            /\ used' = IF v = "allow"
                         THEN [requests |-> used.requests + 1, bytes |-> used.bytes + bytes]
                         ELSE used
    /\ sample' = [sample EXCEPT ![t] = NoSample]
    /\ UNCHANGED <<world, bearer, dieAt, moved, rebooted, started>>
-----------------------------------------------------------------------------
Tick ==
    /\ time < MaxTime
    /\ time' = time + 1
    /\ UNCHANGED <<setting, offset, bootAt, bearer, counters, sample, last, history, started>>

(* The wall clock is set, by NTP or by hand.                               *)
StepWall ==
    /\ \E d \in setting.steps \ {offset} : offset' = d
    /\ moved' = (bearer # NoBearer)
    /\ UNCHANGED <<setting, time, bootAt, bearer, counters, sample, last, dieAt, rebooted, sent, used, started>>

(* The counters live in the daemon's memory only.                          *)
Restart ==
    /\ counters' = NoCounters
    /\ sample' = [t \in Thread |-> NoSample]
    /\ used' = [requests |-> 0, bytes |-> 0]
    /\ \/ "restart" \in setting.faults /\ UNCHANGED <<bootAt, rebooted>>
       \/ "reboot" \in setting.faults /\ bootAt' = time /\ rebooted' = (bearer # NoBearer)
    /\ UNCHANGED <<setting, time, offset, bearer, last, dieAt, moved, sent, started>>

(* The bound on time is reached and no swap is running.                    *)
Finished ==
    /\ time = MaxTime
    /\ \A t \in Thread : sample[t] = NoSample
    /\ UNCHANGED vars

Next ==
    \/ Mint
    \/ \E t \in Thread : ReadClocks(t) \/ Decide(t)
    \/ Tick
    \/ StepWall
    \/ Restart
    \/ Finished

Spec == Init /\ [][Next]_vars
-----------------------------------------------------------------------------
Verdicts == {"none", "allow", "expired", "outOfScope", "overBudget", "rateLimited", "gateAbsent", "clock"}

(* Every variable has its type, and nothing is dated after the present.    *)
TypeOK ==
    /\ setting \in Settings
    /\ time \in 1 .. MaxTime
    /\ offset \in setting.steps \cup {0}
    /\ bootAt \in 0 .. time
    /\ bearer \in [issued : Int, boot : Nat, expires : Int]
    /\ counters \in [start : Int, inWindow : Nat, requests : Nat, bytes : Nat]
    /\ sample \in [Thread -> [wall : Int, boot : Nat, at : 0 .. time] \cup {NoSample}]
    /\ last \in [verdict : Verdicts, at : 0 .. time]
    /\ dieAt \in Nat /\ moved \in BOOLEAN /\ rebooted \in BOOLEAN
    /\ sent \in Seq(1 .. time)
    /\ used \in [requests : Nat, bytes : Nat]
    /\ started \in 0 .. setting.swaps

(* No swap whose clocks were read once the granted lifetime had really     *)
(* passed is allowed, through restarts, however the wall clock is stepped  *)
(* (decide(), OI-6), and through reboots while it is not: neither clock    *)
(* alone may bring a bearer back.                                          *)
NoUseAfterExpiry == last.verdict = "allow" /\ ~(moved /\ rebooted) => last.at < dieAt

(* Within one life of the daemon a bearer is never allowed more requests   *)
(* or bytes than its budget, whatever swaps overlap.                       *)
WithinBudget == used.requests <= setting.requests /\ used.bytes <= setting.bytes

(* The counters have counted every swap that was allowed since the daemon  *)
(* started (Broker::bump).                                                 *)
UsedIsCounted == used.requests <= counters.requests /\ used.bytes <= counters.bytes

(* The row's lifetime ends no later than the granted one, by either clock  *)
(* that has not been set back since the mint, and a running swap has read  *)
(* both of them at one moment.                                             *)
LifetimeIsKept ==
    /\ bearer = NoBearer => last.verdict # "allow" /\ \A t \in Thread : sample[t] = NoSample
    /\ bearer # NoBearer /\ ~moved => bearer.expires <= dieAt + offset
    /\ bearer # NoBearer /\ ~rebooted
         => bearer.expires - bearer.issued <= dieAt - (bearer.boot + bootAt)
    /\ \A t \in Thread : sample[t] # NoSample =>
         /\ ~moved => sample[t].wall = sample[t].at + offset
         /\ ~rebooted => sample[t].boot = sample[t].at - bootAt

(* The inductive invariant behind NoUseAfterExpiry and WithinBudget, for   *)
(* any callers, clocks, lifetimes and policies (decide, Broker::bump).     *)
LimitsInv == UsedIsCounted /\ WithinBudget /\ LifetimeIsKept /\ NoUseAfterExpiry

OneCallerTrueClocks == setting.callers = 1 /\ setting.steps = {0} /\ setting.faults = {}

(* The count includes the swap being decided, so a window admits one less  *)
(* than the rate, and none at a rate of 0 or 1.                            *)
PerWindow == IF setting.rate = 0 THEN 0 ELSE setting.rate - 1

(* In any 60 s at most two tumbling windows' worth of swaps goes out,      *)
(* while one caller swaps at a time and the clocks run true (Broker::bump):*)
(* the swap that follows so many others goes out a window after the first. *)
TwoWindowsWorth ==
    OneCallerTrueClocks =>
        \A n, m \in 1 .. Len(sent) : m - n = 2 * PerWindow => sent[m] - sent[n] >= Window

(* The inductive invariant behind it.  All but the current window's worth  *)
(* went out before that window began, and all but two windows' worth a     *)
(* whole window earlier; while a swap runs, no other goes out.             *)
Counted == Min({counters.inWindow, PerWindow})
OneSwapAtATime ==
    \A t \in Thread : sample[t] # NoSample =>
        /\ sample[t].wall = sample[t].at /\ sample[t].at > 0
        /\ \A u \in Thread : sample[u] # NoSample => u = t
        /\ \A n \in 1 .. Len(sent) : sent[n] <= sample[t].at
RateInv ==
    OneCallerTrueClocks =>
        /\ offset = 0
        /\ counters.start \in 0 .. time
        /\ counters.start = 0 => sent = <<>>
        /\ \A n \in 1 .. Len(sent) - Counted : sent[n] <= counters.start
        /\ \A n \in 1 .. Len(sent) - (PerWindow + Counted) : sent[n] <= counters.start - Window
        /\ OneSwapAtATime
        /\ TwoWindowsWorth
=============================================================================
