--------------------------- MODULE RelayLimitsProofs ---------------------------
(***************************************************************************)
(* Proofs about RelayLimits and the presence gate beside it, for any       *)
(* callers, policies, lifetimes and steps of the wall clock: no use past   *)
(* the granted lifetime, none past the budget, and presence answered for a *)
(* factor seen within one TTL.                                             *)
(***************************************************************************)
EXTENDS PresenceGate, FiniteSetTheorems, TLAPS

IInv == TypeOK /\ LimitsInv

(* What the assumptions say of the setting in force.                       *)
LEMMA SettingType ==
    ASSUME setting \in Settings
    PROVE  /\ setting.requests \in Nat /\ setting.bytes \in Nat
           /\ setting.swaps \in Nat /\ setting.probes \in Nat
           /\ setting.steps \subseteq Int
  BY SettingsAssumption

(* clamp_ttl gives one of the three lifetimes.                             *)
LEMMA TtlType ==
    ASSUME NEW r \in Int
    PROVE  Ttl(r) \in Int
<1> DEFINE S == {r, PolicyTtl, MaxTtl}
<1>1. S \subseteq Int
  BY PolicyAssumption, ClockAssumption
<1>2. \E x \in S : \A y \in S : x <= y
  <2>1. r \in Int /\ PolicyTtl \in Int /\ MaxTtl \in Int
    BY <1>1
  <2>2. CASE r <= PolicyTtl /\ r <= MaxTtl
    BY <2>1, <2>2
  <2>3. CASE PolicyTtl <= r /\ PolicyTtl <= MaxTtl
    BY <2>1, <2>3
  <2>4. CASE MaxTtl <= r /\ MaxTtl <= PolicyTtl
    BY <2>1, <2>4
  <2>5. QED
    BY <2>1, <2>2, <2>3, <2>4
<1> HIDE DEF S
<1>3. (CHOOSE x \in S : \A y \in S : x <= y) \in S
  BY <1>2
<1>4. QED
  BY <1>1, <1>3 DEF Ttl, Min, S

(* An expiry in whole seconds is no later than the lifetime asked for.     *)
LEMMA WholeSeconds ==
    ASSUME NEW w \in Int, NEW n \in Int
    PROVE  /\ (w \div Sec + n) * Sec \in Int
           /\ (w \div Sec + n) * Sec <= w + n * Sec
<1>1. Sec \in Nat \ {0}
  BY ClockAssumption
<1>2. w \div Sec \in Int
  BY <1>1
<1>3. (w \div Sec) * Sec <= w
  BY <1>1
<1>4. (w \div Sec + n) * Sec = (w \div Sec) * Sec + n * Sec
  BY <1>1, <1>2
<1>5. QED
  BY <1>1, <1>2, <1>3, <1>4

LEMMA ClocksType ==
    ASSUME TypeOK
    PROVE  /\ time \in Nat /\ bootAt \in Nat /\ offset \in Int
           /\ Wall \in Int /\ Uptime \in Nat
<1>1. time \in Nat /\ bootAt \in Nat /\ bootAt <= time
  BY BoundAssumption DEF TypeOK
<1>2. offset \in Int
  <2>1. setting.steps \subseteq Int
    BY SettingType DEF TypeOK
  <2>2. QED
    BY <2>1 DEF TypeOK
<1>3. QED
  BY <1>1, <1>2 DEF Wall, Uptime

(* A swap that runs is told from none by the time it read.                 *)
LEMMA SampleType ==
    ASSUME TypeOK, NEW t \in Thread, sample[t] # NoSample
    PROVE  sample[t] \in [wall : Int, boot : Nat, at : 0 .. time]
  BY DEF TypeOK
-----------------------------------------------------------------------------
LEMMA InitHolds == Init => IInv
<1> SUFFICES ASSUME Init
             PROVE  IInv
  OBVIOUS
<1>1. TypeOK
  <2>1. setting \in Settings /\ time = 1 /\ offset = 0 /\ bootAt = 0
    BY DEF Init
  <2>2. bearer \in [issued : Int, boot : Nat, expires : Int]
    BY DEF Init, NoBearer
  <2>3. counters \in [start : Int, inWindow : Nat, requests : Nat, bytes : Nat]
    BY DEF Init, NoCounters
  <2>4. sample \in [Thread -> [wall : Int, boot : Nat, at : 0 .. time] \cup {NoSample}]
    BY DEF Init
  <2>5. last \in [verdict : Verdicts, at : 0 .. time]
    BY <2>1 DEF Init, Verdicts
  <2>6. dieAt \in Nat /\ moved \in BOOLEAN /\ rebooted \in BOOLEAN
    BY DEF Init
  <2>7. sent \in Seq(1 .. time) /\ used \in [requests : Nat, bytes : Nat]
    BY DEF Init
  <2>8. started \in 0 .. setting.swaps
    BY <2>1, SettingType DEF Init
  <2>9. QED
    BY <2>1, <2>2, <2>3, <2>4, <2>5, <2>6, <2>7, <2>8, BoundAssumption DEF TypeOK
<1>2. LimitsInv
  <2>1. setting.requests \in Nat /\ setting.bytes \in Nat
    BY SettingType DEF Init
  <2>2. UsedIsCounted /\ WithinBudget
    BY <2>1 DEF Init, UsedIsCounted, WithinBudget, NoCounters
  <2>3. LifetimeIsKept /\ NoUseAfterExpiry
    BY DEF Init, LifetimeIsKept, NoUseAfterExpiry
  <2>4. QED
    BY <2>2, <2>3 DEF LimitsInv
<1>3. QED
  BY <1>1, <1>2 DEF IInv

LEMMA MintHolds ==
    ASSUME IInv, Mint
    PROVE  IInv'
<1>1. PICK r \in Requested :
        /\ Ttl(r) > 0
        /\ bearer' = [issued |-> Wall, boot |-> Uptime, expires |-> Expiry(r)]
        /\ dieAt' = time + Ttl(r) * Sec
  BY DEF Mint
<1>2. Ttl(r) \in Int /\ Ttl(r) * Sec \in Nat
  BY <1>1, TtlType, InputAssumption, ClockAssumption
<1>3. /\ time \in Nat /\ bootAt \in Nat /\ offset \in Int
      /\ Wall \in Int /\ Uptime \in Nat
  BY ClocksType DEF IInv
<1>4. Expiry(r) \in Int /\ Expiry(r) <= Wall + Ttl(r) * Sec
  BY <1>2, <1>3, WholeSeconds DEF Expiry
<1>5. /\ setting' = setting /\ time' = time /\ offset' = offset /\ bootAt' = bootAt
      /\ counters' = counters /\ sample' = sample /\ last' = last
      /\ moved' = moved /\ rebooted' = rebooted /\ sent' = sent /\ used' = used
      /\ started' = started
  BY DEF Mint, world
<1>6. TypeOK'
  <2>1. bearer' \in [issued : Int, boot : Nat, expires : Int] /\ dieAt' \in Nat
    BY <1>1, <1>2, <1>3, <1>4
  <2>2. QED
    BY <1>5, <2>1 DEF IInv, TypeOK
<1>7. last.verdict # "allow" /\ \A t \in Thread : sample[t] = NoSample
  BY DEF Mint, IInv, LimitsInv, LifetimeIsKept
<1>8. LifetimeIsKept'
  <2>1. bearer'.expires <= dieAt' + offset'
    BY <1>1, <1>2, <1>3, <1>4, <1>5 DEF Wall
  <2>2. bearer'.expires - bearer'.issued <= dieAt' - (bearer'.boot + bootAt')
    BY <1>1, <1>2, <1>3, <1>4, <1>5 DEF Uptime
  <2>3. QED
    BY <1>5, <1>7, <2>1, <2>2 DEF LifetimeIsKept
<1>9. (UsedIsCounted /\ WithinBudget /\ NoUseAfterExpiry)'
  BY <1>5, <1>7 DEF IInv, LimitsInv, UsedIsCounted, WithinBudget, NoUseAfterExpiry
<1>10. QED
  BY <1>6, <1>8, <1>9 DEF IInv, LimitsInv

LEMMA ReadHolds ==
    ASSUME IInv, NEW t \in Thread, ReadClocks(t)
    PROVE  IInv'
<1>1. /\ setting' = setting /\ time' = time /\ offset' = offset /\ bootAt' = bootAt
      /\ bearer' = bearer /\ counters' = counters /\ last' = last /\ dieAt' = dieAt
      /\ moved' = moved /\ rebooted' = rebooted /\ sent' = sent /\ used' = used
  BY DEF ReadClocks, world, history
<1>2. /\ started' = started + 1 /\ started < setting.swaps
      /\ sample' = [sample EXCEPT ![t] = [wall |-> Wall, boot |-> Uptime, at |-> time]]
      /\ bearer # NoBearer
  BY DEF ReadClocks
<1>3. /\ time \in Nat /\ bootAt \in Nat /\ offset \in Int
      /\ Wall \in Int /\ Uptime \in Nat
  BY ClocksType DEF IInv
<1>4. TypeOK'
  <2>1. started' \in 0 .. setting.swaps
    <3>1. setting.swaps \in Nat /\ started \in 0 .. setting.swaps
      BY SettingType DEF IInv, TypeOK
    <3>2. QED
      BY <1>2, <3>1
  <2>2. sample' \in [Thread -> [wall : Int, boot : Nat, at : 0 .. time] \cup {NoSample}]
    <3>1. [wall |-> Wall, boot |-> Uptime, at |-> time] \in [wall : Int, boot : Nat, at : 0 .. time]
      BY <1>3
    <3>2. sample \in [Thread -> [wall : Int, boot : Nat, at : 0 .. time] \cup {NoSample}]
      BY DEF IInv, TypeOK
    <3>3. QED
      BY <1>2, <3>1, <3>2
  <2>3. QED
    BY <1>1, <2>1, <2>2 DEF IInv, TypeOK
<1>5. LifetimeIsKept'
  <2>1. ASSUME NEW u \in Thread, sample'[u] # NoSample
        PROVE  /\ ~moved => sample'[u].wall = sample'[u].at + offset
               /\ ~rebooted => sample'[u].boot = sample'[u].at - bootAt
    <3>1. CASE u = t
      <4>1. sample'[u] = [wall |-> Wall, boot |-> Uptime, at |-> time]
        BY <1>2, <3>1 DEF IInv, TypeOK
      <4>2. QED
        BY <1>3, <4>1 DEF Wall, Uptime
    <3>2. CASE u # t
      <4>1. sample'[u] = sample[u]
        BY <1>2, <3>2 DEF IInv, TypeOK
      <4>2. QED
        BY <2>1, <4>1 DEF IInv, LimitsInv, LifetimeIsKept
    <3>3. QED
      BY <3>1, <3>2
  <2>2. QED
    BY <1>1, <1>2, <2>1 DEF IInv, LimitsInv, LifetimeIsKept
<1>6. (UsedIsCounted /\ WithinBudget /\ NoUseAfterExpiry)'
  BY <1>1 DEF IInv, LimitsInv, UsedIsCounted, WithinBudget, NoUseAfterExpiry
<1>7. QED
  BY <1>4, <1>5, <1>6 DEF IInv, LimitsInv

(* The counters count each swap and its bytes.                             *)
LEMMA BumpCounts ==
    ASSUME NEW c \in [start : Int, inWindow : Nat, requests : Nat, bytes : Nat],
           NEW now \in Int, NEW b \in Nat
    PROVE  /\ Bump(c, now, b) \in [start : Int, inWindow : Nat, requests : Nat, bytes : Nat]
           /\ Bump(c, now, b).requests = c.requests + 1
           /\ Bump(c, now, b).bytes = c.bytes + b
<1> DEFINE fresh == c.start = 0 \/ now - c.start >= Window
<1>1. CASE fresh
  BY <1>1 DEF Bump
<1>2. CASE ~fresh
  BY <1>2 DEF Bump
<1>3. QED
  BY <1>1, <1>2

LEMMA VerdictCases ==
    ASSUME NEW s, NEW c, NEW denial
    PROVE  /\ Verdict(s, c, denial) \in Verdicts
           /\ Verdict(s, c, denial) = "allow" =>
                ~Expired(s) /\ ~OverBudget(c) /\ ~DeadByUptime(s)
<1> HIDE DEF Expired, OverBudget, RateLimited, RolledBack, DeadByUptime
<1>1. QED
  BY DEF Verdict, Verdicts

LEMMA VerdictRate ==
    ASSUME NEW s, NEW c, NEW denial \in {"none", "scope", "gate"}
    PROVE  Verdict(s, c, denial) = "allow" => ~RateLimited(c)
<1> HIDE DEF Expired, OverBudget, RateLimited, RolledBack, DeadByUptime
<1>1. QED
  BY DEF Verdict

LEMMA DecideHolds ==
    ASSUME IInv, NEW t \in Thread, Decide(t)
    PROVE  IInv'
<1>1. PICK bytes \in Bytes, denial \in {"none", "scope", "gate"} :
        LET c == Bump(counters, sample[t].wall, bytes)
            v == Verdict(sample[t], c, denial)
        IN /\ counters' = c
           /\ last' = [verdict |-> v, at |-> sample[t].at]
           /\ sent' = IF v = "allow" THEN Append(sent, time) ELSE sent
           /\ used' = IF v = "allow"
                        THEN [requests |-> used.requests + 1, bytes |-> used.bytes + bytes]
                        ELSE used
  BY DEF Decide
<1> DEFINE s == sample[t]
           c == Bump(counters, s.wall, bytes)
           v == Verdict(s, c, denial)
<1>2. /\ counters' = c
      /\ last' = [verdict |-> v, at |-> s.at]
      /\ sent' = IF v = "allow" THEN Append(sent, time) ELSE sent
      /\ used' = IF v = "allow"
                   THEN [requests |-> used.requests + 1, bytes |-> used.bytes + bytes]
                   ELSE used
  BY <1>1
<1>3. /\ setting' = setting /\ time' = time /\ offset' = offset /\ bootAt' = bootAt
      /\ bearer' = bearer /\ dieAt' = dieAt
      /\ moved' = moved /\ rebooted' = rebooted /\ started' = started
      /\ sample' = [sample EXCEPT ![t] = NoSample] /\ sample[t] # NoSample
  BY DEF Decide, world
<1>4. s \in [wall : Int, boot : Nat, at : 0 .. time]
  BY <1>3, SampleType DEF IInv
<1>5. bytes \in Nat
  BY InputAssumption
<1>6. counters \in [start : Int, inWindow : Nat, requests : Nat, bytes : Nat]
  BY DEF IInv, TypeOK
<1>7. /\ c \in [start : Int, inWindow : Nat, requests : Nat, bytes : Nat]
      /\ c.requests = counters.requests + 1 /\ c.bytes = counters.bytes + bytes
  BY <1>4, <1>5, <1>6, BumpCounts
<1>8. /\ v \in Verdicts
      /\ v = "allow" => ~Expired(s) /\ ~OverBudget(c) /\ ~DeadByUptime(s)
  BY VerdictCases
<1> HIDE DEF s, c, v
<1>9. used \in [requests : Nat, bytes : Nat]
      /\ setting.requests \in Nat /\ setting.bytes \in Nat
  BY SettingType DEF IInv, TypeOK
<1>10. used' \in [requests : Nat, bytes : Nat] /\ UsedIsCounted' /\ WithinBudget'
  <2>1. UsedIsCounted /\ WithinBudget
    BY DEF IInv, LimitsInv
  <2>2. CASE v = "allow"
    <3>1. used' = [requests |-> used.requests + 1, bytes |-> used.bytes + bytes]
      BY <1>2, <2>2
    <3>2. c.requests <= setting.requests /\ c.bytes <= setting.bytes
      BY <1>7, <1>8, <1>9, <2>2 DEF OverBudget
    <3>3. used.requests <= counters.requests /\ used.bytes <= counters.bytes
      BY <2>1 DEF UsedIsCounted
    <3>4. used'.requests <= c.requests /\ used'.bytes <= c.bytes
      BY <1>5, <1>6, <1>7, <1>9, <3>1, <3>3
    <3>5. used' \in [requests : Nat, bytes : Nat]
      BY <1>5, <1>9, <3>1
    <3>6. used'.requests <= setting.requests /\ used'.bytes <= setting.bytes
      BY <1>7, <1>9, <3>2, <3>4, <3>5
    <3>7. QED
      BY <1>2, <1>3, <3>4, <3>5, <3>6 DEF UsedIsCounted, WithinBudget
  <2>3. CASE v # "allow"
    <3>1. used' = used
      BY <1>2, <2>3
    <3>2. QED
      BY <1>2, <1>3, <1>5, <1>6, <1>7, <1>9, <2>1, <3>1 DEF UsedIsCounted, WithinBudget
  <2>4. QED
    BY <2>2, <2>3
<1>11. TypeOK'
  <2>1. last' \in [verdict : Verdicts, at : 0 .. time]
    BY <1>2, <1>4, <1>8
  <2>2. sent' \in Seq(1 .. time)
    <3>1. time \in 1 .. time /\ sent \in Seq(1 .. time)
      BY BoundAssumption DEF IInv, TypeOK
    <3>2. CASE v = "allow"
      BY <1>2, <3>1, <3>2
    <3>3. CASE v # "allow"
      BY <1>2, <3>1, <3>3
    <3>4. QED
      BY <3>2, <3>3
  <2>3. sample' \in [Thread -> [wall : Int, boot : Nat, at : 0 .. time] \cup {NoSample}]
    BY <1>3 DEF IInv, TypeOK
  <2>4. QED
    BY <1>2, <1>3, <1>7, <1>10, <2>1, <2>2, <2>3 DEF IInv, TypeOK
<1>12. \A u \in Thread : sample'[u] # NoSample => sample'[u] = sample[u] /\ sample[u] # NoSample
  BY <1>3 DEF IInv, TypeOK
<1>13. bearer # NoBearer
  BY <1>3 DEF IInv, LimitsInv, LifetimeIsKept
<1>14. LifetimeIsKept'
  BY <1>3, <1>12, <1>13 DEF IInv, LimitsInv, LifetimeIsKept
<1>15. NoUseAfterExpiry'
  <2>1. SUFFICES ASSUME v = "allow", ~moved \/ ~rebooted
                 PROVE  s.at < dieAt
    BY <1>2, <1>3 DEF NoUseAfterExpiry
  <2>2. /\ bearer \in [issued : Int, boot : Nat, expires : Int] /\ dieAt \in Nat
        /\ offset \in Int /\ bootAt \in Nat
    BY ClocksType DEF IInv, TypeOK
  <2>3. s.wall < bearer.expires /\ s.boot - bearer.boot < bearer.expires - bearer.issued
    BY <1>4, <1>8, <2>1, <2>2 DEF Expired, DeadByUptime
  <2>4. CASE ~moved
    <3>1. s.wall = s.at + offset /\ bearer.expires <= dieAt + offset
      BY <1>3, <1>13, <2>4 DEF IInv, LimitsInv, LifetimeIsKept, s
    <3>2. QED
      BY <1>4, <2>2, <2>3, <3>1
  <2>5. CASE ~rebooted
    <3>1. s.boot = s.at - bootAt /\ bearer.expires - bearer.issued <= dieAt - (bearer.boot + bootAt)
      BY <1>3, <1>13, <2>5 DEF IInv, LimitsInv, LifetimeIsKept, s
    <3>2. QED
      BY <1>4, <2>2, <2>3, <3>1
  <2>6. QED
    BY <2>1, <2>4, <2>5
<1>16. QED
  BY <1>10, <1>11, <1>14, <1>15 DEF IInv, LimitsInv

(* Time passing or a reboot leaves the samples' types as they are.         *)
LEMMA TickHolds ==
    ASSUME IInv, Tick
    PROVE  IInv'
<1>1. /\ setting' = setting /\ offset' = offset /\ bootAt' = bootAt
      /\ bearer' = bearer /\ counters' = counters /\ sample' = sample /\ last' = last
      /\ dieAt' = dieAt /\ moved' = moved /\ rebooted' = rebooted /\ sent' = sent
      /\ used' = used /\ started' = started
      /\ time' = time + 1 /\ time < MaxTime
  BY DEF Tick, history
<1>2. TypeOK'
  <2>1. time \in 1 .. MaxTime /\ bootAt \in 0 .. time
    BY DEF IInv, TypeOK
  <2>2. time' \in 1 .. MaxTime /\ 0 .. time \subseteq 0 .. time'
    BY <1>1, <2>1, BoundAssumption
  <2>3. last \in [verdict : Verdicts, at : 0 .. time']
    <3>1. last \in [verdict : Verdicts, at : 0 .. time]
      BY DEF IInv, TypeOK
    <3>2. QED
      BY <2>2, <3>1
  <2>4. sample \in [Thread -> [wall : Int, boot : Nat, at : 0 .. time'] \cup {NoSample}]
    <3>1. [wall : Int, boot : Nat, at : 0 .. time] \subseteq [wall : Int, boot : Nat, at : 0 .. time']
      BY <2>2
    <3>2. sample \in [Thread -> [wall : Int, boot : Nat, at : 0 .. time] \cup {NoSample}]
      BY DEF IInv, TypeOK
    <3>3. QED
      BY <3>1, <3>2
  <2>5. bootAt \in 0 .. time'
    BY <2>1, <2>2
  <2>6. sent' \in Seq(1 .. time')
    <3>1. sent \in Seq(1 .. time) /\ 1 .. time \subseteq 1 .. time'
      BY <1>1, <2>1 DEF IInv, TypeOK
    <3>2. \A S : \A T : S \subseteq T => Seq(S) \subseteq Seq(T)
      OBVIOUS
    <3>3. QED
      BY <1>1, <3>1, <3>2
  <2>7. QED
    BY <1>1, <2>2, <2>3, <2>4, <2>5, <2>6 DEF IInv, TypeOK
<1>3. LimitsInv'
  BY <1>1 DEF IInv, LimitsInv, UsedIsCounted, WithinBudget, LifetimeIsKept, NoUseAfterExpiry
<1>4. QED
  BY <1>2, <1>3 DEF IInv

LEMMA StepWallHolds ==
    ASSUME IInv, StepWall
    PROVE  IInv'
<1>1. /\ setting' = setting /\ time' = time /\ bootAt' = bootAt
      /\ bearer' = bearer /\ counters' = counters /\ sample' = sample /\ last' = last
      /\ dieAt' = dieAt /\ rebooted' = rebooted /\ sent' = sent
      /\ used' = used /\ started' = started
      /\ moved' = (bearer # NoBearer) /\ offset' \in setting.steps
  BY DEF StepWall
<1>2. moved' \in BOOLEAN
  BY <1>1
<1>3. TypeOK'
  BY <1>1, <1>2 DEF IInv, TypeOK
<1>4. LifetimeIsKept'
  <2>1. CASE bearer = NoBearer
    BY <1>1, <2>1 DEF IInv, LimitsInv, LifetimeIsKept
  <2>2. CASE bearer # NoBearer
    BY <1>1, <2>2 DEF IInv, LimitsInv, LifetimeIsKept
  <2>3. QED
    BY <2>1, <2>2
<1>5. NoUseAfterExpiry'
  <2>1. CASE bearer = NoBearer
    BY <1>1, <2>1 DEF IInv, LimitsInv, LifetimeIsKept, NoUseAfterExpiry
  <2>2. CASE bearer # NoBearer
    BY <1>1, <2>2 DEF IInv, LimitsInv, NoUseAfterExpiry
  <2>3. QED
    BY <2>1, <2>2
<1>6. (UsedIsCounted /\ WithinBudget)'
  BY <1>1 DEF IInv, LimitsInv, UsedIsCounted, WithinBudget
<1>7. QED
  BY <1>3, <1>4, <1>5, <1>6 DEF IInv, LimitsInv

LEMMA RestartHolds ==
    ASSUME IInv, Restart
    PROVE  IInv'
<1>1. /\ setting' = setting /\ time' = time /\ offset' = offset
      /\ bearer' = bearer /\ last' = last /\ dieAt' = dieAt /\ moved' = moved
      /\ sent' = sent /\ started' = started
      /\ counters' = NoCounters /\ sample' = [t \in Thread |-> NoSample]
      /\ used' = [requests |-> 0, bytes |-> 0]
  BY DEF Restart
<1>2. \/ bootAt' = bootAt /\ rebooted' = rebooted
      \/ bootAt' = time /\ rebooted' = (bearer # NoBearer)
  BY DEF Restart
<1>3. bootAt' \in 0 .. time /\ rebooted' \in BOOLEAN
  <2>1. time \in 1 .. MaxTime /\ bootAt \in 0 .. time /\ rebooted \in BOOLEAN
    BY DEF IInv, TypeOK
  <2>2. time \in 0 .. time
    BY <2>1, BoundAssumption
  <2>3. bootAt' \in 0 .. time
    BY <1>2, <2>1, <2>2
  <2>4. rebooted' \in BOOLEAN
    <3>1. (bearer # NoBearer) \in BOOLEAN
      OBVIOUS
    <3>2. CASE rebooted' = rebooted
      BY <2>1, <3>2
    <3>3. CASE rebooted' = (bearer # NoBearer)
      BY <3>1, <3>3
    <3>4. QED
      BY <1>2, <3>2, <3>3
  <2>5. QED
    BY <2>3, <2>4
<1>4. TypeOK'
  <2>1. counters' \in [start : Int, inWindow : Nat, requests : Nat, bytes : Nat]
    BY <1>1 DEF NoCounters
  <2>2. sample' \in [Thread -> [wall : Int, boot : Nat, at : 0 .. time] \cup {NoSample}]
    BY <1>1
  <2>3. used' \in [requests : Nat, bytes : Nat]
    BY <1>1
  <2>4. QED
    BY <1>1, <1>3, <2>1, <2>2, <2>3 DEF IInv, TypeOK
<1>5. \/ bootAt' = bootAt /\ rebooted' = rebooted
      \/ bearer # NoBearer /\ rebooted' = TRUE
      \/ bearer = NoBearer
  BY <1>2
<1>6. LifetimeIsKept'
  BY <1>1, <1>5 DEF IInv, LimitsInv, LifetimeIsKept
<1>7. NoUseAfterExpiry'
  <2>1. CASE bearer = NoBearer
    BY <1>1, <2>1 DEF IInv, LimitsInv, LifetimeIsKept, NoUseAfterExpiry
  <2>2. CASE bearer # NoBearer
    BY <1>1, <1>5, <2>2 DEF IInv, LimitsInv, NoUseAfterExpiry
  <2>3. QED
    BY <2>1, <2>2
<1>8. (UsedIsCounted /\ WithinBudget)'
  <2>1. setting.requests \in Nat /\ setting.bytes \in Nat
    BY SettingType DEF IInv, TypeOK
  <2>2. QED
    BY <1>1, <2>1 DEF UsedIsCounted, WithinBudget, NoCounters
<1>9. QED
  BY <1>4, <1>6, <1>7, <1>8 DEF IInv, LimitsInv

LEMMA StutterHolds ==
    ASSUME IInv, UNCHANGED vars
    PROVE  IInv'
<1>1. /\ setting' = setting /\ time' = time /\ offset' = offset /\ bootAt' = bootAt
      /\ bearer' = bearer /\ counters' = counters /\ sample' = sample /\ last' = last
      /\ dieAt' = dieAt /\ moved' = moved /\ rebooted' = rebooted /\ sent' = sent
      /\ used' = used /\ started' = started
  BY DEF vars
<1>2. TypeOK'
  BY <1>1 DEF IInv, TypeOK
<1>3. LimitsInv'
  BY <1>1 DEF IInv, LimitsInv, UsedIsCounted, WithinBudget, LifetimeIsKept, NoUseAfterExpiry
<1>4. QED
  BY <1>2, <1>3 DEF IInv

LEMMA NextHolds == IInv /\ [Next]_vars => IInv'
<1> SUFFICES ASSUME IInv, [Next]_vars
             PROVE  IInv'
  OBVIOUS
<1>1. CASE Mint
  BY <1>1, MintHolds
<1>2. ASSUME NEW t \in Thread, ReadClocks(t)
      PROVE  IInv'
  BY <1>2, ReadHolds
<1>3. ASSUME NEW t \in Thread, Decide(t)
      PROVE  IInv'
  BY <1>3, DecideHolds
<1>4. CASE Tick
  BY <1>4, TickHolds
<1>5. CASE StepWall
  BY <1>5, StepWallHolds
<1>6. CASE Restart
  BY <1>6, RestartHolds
<1>7. CASE Finished \/ UNCHANGED vars
  BY <1>7, StutterHolds DEF Finished
<1>8. QED
  BY <1>1, <1>2, <1>3, <1>4, <1>5, <1>6, <1>7 DEF Next
-----------------------------------------------------------------------------
(* The rate.                                                               *)

(* One caller and true clocks are a matter of the setting, which stays.    *)
LEMMA SettingStays == [Next]_vars => setting' = setting
  BY DEF Next, Mint, ReadClocks, Decide, Tick, StepWall, Restart, Finished, world, vars

LEMMA PerWindowType ==
    ASSUME setting \in Settings
    PROVE  PerWindow \in Nat /\ setting.rate \in Nat /\ PerWindow <= setting.rate
<1>1. setting.rate \in Nat
  BY SettingsAssumption
<1>2. QED
  BY <1>1 DEF PerWindow

(* How much of what went out the current window may account for.           *)
LEMMA CountedIs ==
    ASSUME TypeOK
    PROVE  /\ counters.inWindow <= PerWindow => Counted = counters.inWindow
           /\ counters.inWindow > PerWindow => Counted = PerWindow
           /\ Counted \in Nat /\ Counted <= PerWindow /\ Counted <= counters.inWindow
<1>1. counters.inWindow \in Nat /\ PerWindow \in Nat
  BY PerWindowType DEF TypeOK
<1> DEFINE a == counters.inWindow
           S == {a, PerWindow}
<1>2. Counted = CHOOSE x \in S : \A y \in S : x <= y
  BY DEF Counted, Min
<1>3. a \in Nat /\ PerWindow \in Nat
  BY <1>1
<1> HIDE DEF a
<1>4. \E x \in S : \A y \in S : x <= y
  BY <1>3
<1>5. Counted \in S /\ \A y \in S : Counted <= y
  BY <1>2, <1>4
<1>6. QED
  BY <1>3, <1>5 DEF a

(* The same of the state after a step.                                     *)
LEMMA CountedIsNext ==
    TypeOK' => (/\ counters.inWindow <= PerWindow => Counted = counters.inWindow
                /\ counters.inWindow > PerWindow => Counted = PerWindow
                /\ Counted \in Nat /\ Counted <= PerWindow /\ Counted <= counters.inWindow)'
<1>1. TypeOK => (/\ counters.inWindow <= PerWindow => Counted = counters.inWindow
                 /\ counters.inWindow > PerWindow => Counted = PerWindow
                 /\ Counted \in Nat /\ Counted <= PerWindow /\ Counted <= counters.inWindow)
  BY CountedIs
<1>2. QED
  BY <1>1, PTL

(* What a step does that lets no swap go out and starts none.              *)
LEMMA RateFrame ==
    ASSUME TypeOK, RateInv, setting' = setting, offset' = offset, time' \in Nat, time <= time',
           counters' = counters, sample' = sample, sent' = sent
    PROVE  RateInv'
<1>1. time \in Nat
  BY BoundAssumption DEF TypeOK
<1>2. counters.start \in 0 .. time => counters.start \in 0 .. time'
  BY <1>1
<1>3. OneCallerTrueClocks' = OneCallerTrueClocks /\ Counted' = Counted /\ PerWindow' = PerWindow
  BY DEF OneCallerTrueClocks, Counted, PerWindow
<1>4. OneSwapAtATime' = OneSwapAtATime /\ TwoWindowsWorth' = TwoWindowsWorth
  BY <1>3 DEF OneSwapAtATime, TwoWindowsWorth
<1>5. QED
  BY <1>2, <1>3, <1>4 DEF RateInv

LEMMA RateInit == Init => RateInv
<1> SUFFICES ASSUME Init
             PROVE  RateInv
  OBVIOUS
<1>1. sent = <<>> /\ Len(sent) = 0 /\ offset = 0 /\ counters.start = 0 /\ time = 1
  BY DEF Init, NoCounters
<1>2. TypeOK
  BY InitHolds DEF IInv
<1>3. PerWindow \in Nat /\ Counted \in Nat
  BY <1>2, PerWindowType, CountedIs DEF TypeOK
<1>4. \A t \in Thread : sample[t] = NoSample
  BY DEF Init
<1>5. OneSwapAtATime
  BY <1>4 DEF OneSwapAtATime
<1>6. TwoWindowsWorth
  BY <1>1 DEF TwoWindowsWorth
<1>7. \A k \in Nat : 1 .. Len(sent) - k = {}
  BY <1>1
<1>8. 1 .. Len(sent) - Counted = {} /\ 1 .. Len(sent) - (PerWindow + Counted) = {}
  BY <1>3, <1>7
<1>9. QED
  BY <1>1, <1>5, <1>6, <1>8 DEF RateInv

(* The caller that comes in finds no other there.                          *)
LEMMA RateRead ==
    ASSUME TypeOK, RateInv, NEW t \in Thread, ReadClocks(t)
    PROVE  RateInv'
<1>1. /\ setting' = setting /\ time' = time /\ offset' = offset
      /\ counters' = counters /\ sent' = sent
      /\ sample' = [sample EXCEPT ![t] = [wall |-> Wall, boot |-> Uptime, at |-> time]]
      /\ Cardinality({u \in Thread : sample[u] # NoSample}) < setting.callers
  BY DEF ReadClocks, world, history
<1>2. OneCallerTrueClocks' = OneCallerTrueClocks /\ Counted' = Counted /\ PerWindow' = PerWindow
  BY <1>1 DEF OneCallerTrueClocks, Counted, PerWindow
<1>3. TwoWindowsWorth' = TwoWindowsWorth
  BY <1>1, <1>2 DEF TwoWindowsWorth
<1>4. SUFFICES ASSUME OneCallerTrueClocks
               PROVE  OneSwapAtATime'
  BY <1>1, <1>2, <1>3 DEF RateInv
<1>5. OneSwapAtATime /\ offset = 0
  BY <1>4 DEF RateInv
<1>6. \A u \in Thread : sample[u] = NoSample
  <2>1. SUFFICES ASSUME NEW u \in Thread, sample[u] # NoSample
                 PROVE  FALSE
    OBVIOUS
  <2>2. {w \in Thread : sample[w] # NoSample} = {u}
    BY <1>5, <2>1 DEF OneSwapAtATime
  <2>3. Cardinality({u}) = 1
    BY FS_Singleton
  <2>4. QED
    BY <1>1, <1>4, <2>2, <2>3 DEF OneCallerTrueClocks
<1>7. /\ sample'[t] = [wall |-> Wall, boot |-> Uptime, at |-> time]
      /\ \A u \in Thread : u # t => sample'[u] = NoSample
  BY <1>1, <1>6 DEF TypeOK
<1>8. sample'[t].wall = time /\ sample'[t].at = time /\ time > 0
  BY <1>5, <1>7, ClocksType DEF Wall, TypeOK
<1>9. \A n \in 1 .. Len(sent) : sent[n] <= time
  <2>1. sent \in Seq(1 .. time) /\ time \in Nat
    BY ClocksType DEF TypeOK
  <2>2. \A T : \A q \in Seq(T) : \A n \in 1 .. Len(q) : q[n] \in T
    OBVIOUS
  <2>3. \A n \in 1 .. Len(sent) : sent[n] \in 1 .. time
    BY <2>1, <2>2
  <2>4. QED
    BY <2>1, <2>3
<1>10. QED
  BY <1>1, <1>7, <1>8, <1>9 DEF OneSwapAtATime

(* Of L swaps all but k went out by start, all but P more a window before. *)
TwoWindowsDeep(f, L, P, k, start) ==
    /\ \A n \in 1 .. L - k : f[n] <= start
    /\ \A n \in 1 .. L - (P + k) : f[n] <= start - Window

(* k is how many of the swaps counted in the window it may have let out.   *)
Least(k, inWindow, P) ==
    /\ k \in Nat /\ P \in Nat /\ inWindow \in Nat
    /\ k <= P /\ k <= inWindow
    /\ inWindow <= P => k = inWindow
    /\ inWindow > P => k = P

(* The next swap is decided in the window of its clocks; more is 1 when it *)
(* is let out.                                                             *)
NextDecided(f, g, L, more, now, P, start, inWindow, nextStart, nextIn) ==
    /\ now \in Nat /\ L \in Nat /\ start \in Nat /\ nextStart \in Nat /\ more \in {0, 1}
    /\ \A n \in 1 .. L : f[n] \in Int /\ g[n] = f[n] /\ f[n] <= now
    /\ more = 1 => nextIn <= P
    /\ \/ nextStart = start /\ nextIn = inWindow + 1
       \/ nextStart = now /\ nextIn = 1 /\ (start = 0 \/ now - start >= Window)
    /\ start = 0 => L = 0

(* A swap that is decided counts before the decision is made, in the       *)
(* window its own clocks put it in.                                        *)
LEMMA WindowsMoveOn ==
    ASSUME NEW now, NEW L, NEW P, NEW k, NEW kk, NEW start, NEW inWindow, NEW nextStart,
           NEW nextIn, NEW f, NEW g, NEW more,
           Least(k, inWindow, P), Least(kk, nextIn, P), TwoWindowsDeep(f, L, P, k, start),
           NextDecided(f, g, L, more, now, P, start, inWindow, nextStart, nextIn)
    PROVE  TwoWindowsDeep(g, L + more, P, kk, nextStart)
<1>1. /\ now \in Nat /\ L \in Nat /\ start \in Nat /\ nextStart \in Nat /\ more \in {0, 1}
      /\ k \in Nat /\ P \in Nat /\ inWindow \in Nat /\ kk \in Nat /\ nextIn \in Nat
      /\ k <= P /\ k <= inWindow /\ kk <= P /\ kk <= nextIn
      /\ inWindow <= P => k = inWindow
      /\ nextIn <= P => kk = nextIn
      /\ nextIn > P => kk = P
      /\ more = 1 => nextIn <= P
      /\ start = 0 => L = 0
  BY DEF Least, NextDecided
<1>2. \A n \in 1 .. L : f[n] \in Int /\ g[n] = f[n] /\ f[n] <= now
  BY DEF NextDecided
<1>3. /\ \A n \in 1 .. L - k : f[n] <= start
      /\ \A n \in 1 .. L - (P + k) : f[n] <= start - Window
  BY DEF TwoWindowsDeep
<1>4. \/ nextStart = start /\ nextIn = inWindow + 1
      \/ nextStart = now /\ nextIn = 1 /\ (start = 0 \/ now - start >= Window)
  BY DEF NextDecided
<1>5. SUFFICES /\ \A n \in 1 .. (L + more) - kk : g[n] <= nextStart
               /\ \A n \in 1 .. (L + more) - (P + kk) : g[n] <= nextStart - Window
  BY Zenon DEF TwoWindowsDeep
<1>6. Window \in Nat \ {0}
  BY ClockAssumption
<1>7. more <= kk /\ (nextIn = 1 => kk <= 1) /\ (nextIn = inWindow + 1 => kk >= k + more)
  BY <1>1, <1>4
<1>8. CASE nextStart = start /\ nextIn = inWindow + 1
  <2>1. (L + more) - kk <= L - k
    BY <1>1, <1>7, <1>8
  <2>2. ASSUME NEW n \in 1 .. (L + more) - kk
        PROVE  g[n] <= nextStart
    <3>1. n \in 1 .. L - k /\ n \in 1 .. L
      BY <1>1, <1>6, <1>7, <1>8, <2>1
    <3>2. QED
      BY <1>1, <1>6, <1>2, <1>3, <1>8, <3>1
  <2>3. ASSUME NEW n \in 1 .. (L + more) - (P + kk)
        PROVE  g[n] <= nextStart - Window
    <3>1. n \in 1 .. L - (P + k) /\ n \in 1 .. L
      BY <1>1, <1>6, <1>7, <1>8, <2>1
    <3>2. QED
      BY <1>1, <1>6, <1>2, <1>3, <1>8, <3>1
  <2>4. QED
    BY <2>2, <2>3
<1>9. CASE nextStart = now /\ nextIn = 1 /\ (start = 0 \/ now - start >= Window)
  <2>1. ASSUME NEW n \in 1 .. (L + more) - kk
        PROVE  g[n] <= nextStart
    <3>1. n \in 1 .. L
      BY <1>1, <1>7, <1>9
    <3>2. QED
      BY <1>1, <1>2, <1>9, <3>1
  <2>2. ASSUME NEW n \in 1 .. (L + more) - (P + kk)
        PROVE  g[n] <= nextStart - Window
    <3>1. n \in 1 .. L - k /\ n \in 1 .. L
      BY <1>1, <1>7, <1>9
    <3>2. start # 0
      BY <1>1, <3>1
    <3>3. f[n] <= start /\ g[n] = f[n] /\ f[n] \in Int
      BY <1>2, <1>3, <3>1
    <3>4. QED
      BY <1>1, <1>6, <1>9, <3>2, <3>3
  <2>3. QED
    BY <2>1, <2>2
<1>10. QED
  BY <1>4, <1>8, <1>9

LEMMA RateDecide ==
    ASSUME IInv, RateInv, NEW t \in Thread, Decide(t)
    PROVE  RateInv'
<1> DEFINE s == sample[t]
           L == Len(sent)
           start == counters.start
<1>1. PICK bytes \in Bytes, denial \in {"none", "scope", "gate"} :
        LET c == Bump(counters, sample[t].wall, bytes)
            v == Verdict(sample[t], c, denial)
        IN /\ counters' = c
           /\ sent' = IF v = "allow" THEN Append(sent, time) ELSE sent
  BY DEF Decide
<1> DEFINE c == Bump(counters, s.wall, bytes)
           v == Verdict(s, c, denial)
<1>2. counters' = c /\ sent' = IF v = "allow" THEN Append(sent, time) ELSE sent
  BY <1>1
<1>3. /\ setting' = setting /\ time' = time /\ offset' = offset
      /\ sample' = [sample EXCEPT ![t] = NoSample] /\ sample[t] # NoSample
  BY DEF Decide, world
<1>4. s \in [wall : Int, boot : Nat, at : 0 .. time]
  BY <1>3, SampleType DEF IInv
<1>5. bytes \in Nat
  BY InputAssumption
<1>6. counters \in [start : Int, inWindow : Nat, requests : Nat, bytes : Nat]
  BY DEF IInv, TypeOK
<1>7. /\ c.start \in Int
      /\ \/ c.start = start /\ c.inWindow = counters.inWindow + 1
         \/ c.start = s.wall /\ c.inWindow = 1 /\ (start = 0 \/ s.wall - start >= Window)
      /\ start # 0 \/ c.start = s.wall
  BY <1>4, <1>6 DEF Bump
<1>8. v = "allow" => ~RateLimited(c)
  BY VerdictRate
<1>9. TypeOK /\ TypeOK'
  BY DecideHolds DEF IInv
<1>10. OneCallerTrueClocks' = OneCallerTrueClocks /\ PerWindow' = PerWindow
  BY <1>3 DEF OneCallerTrueClocks, PerWindow
<1>11. SUFFICES ASSUME OneCallerTrueClocks
                PROVE  RateInv'
  BY <1>10 DEF RateInv
<1>12. /\ offset = 0 /\ start \in 0 .. time
       /\ start = 0 => sent = <<>>
       /\ \A n \in 1 .. L - Counted : sent[n] <= start
       /\ \A n \in 1 .. L - (PerWindow + Counted) : sent[n] <= start - Window
       /\ TwoWindowsWorth /\ OneSwapAtATime
  BY <1>11 DEF RateInv
<1>13. /\ s.wall = s.at /\ s.at > 0
       /\ \A u \in Thread : sample[u] # NoSample => u = t
       /\ \A n \in 1 .. L : sent[n] <= s.at
  BY <1>3, <1>12 DEF OneSwapAtATime
<1>14. time \in Nat /\ s.at \in Nat /\ s.at <= time /\ start \in Nat
  BY <1>4, <1>9, <1>12, ClocksType
<1>15. PerWindow \in Nat /\ setting.rate \in Nat
  BY <1>9, PerWindowType DEF TypeOK
<1>16. c.inWindow \in Nat \ {0} /\ counters.inWindow \in Nat
  BY <1>6, <1>7
<1>17. v = "allow" => c.inWindow <= PerWindow
  BY <1>8, <1>15, <1>16 DEF RateLimited, PerWindow
<1>18. /\ Counted \in Nat /\ Counted <= PerWindow /\ Counted <= counters.inWindow
       /\ counters.inWindow <= PerWindow => Counted = counters.inWindow
       /\ counters.inWindow > PerWindow => Counted = PerWindow
  BY <1>9, CountedIs
<1>19. PICK counted : counted = Counted'
  OBVIOUS
<1>20. /\ counted \in Nat /\ counted <= PerWindow /\ counted <= c.inWindow
       /\ c.inWindow <= PerWindow => counted = c.inWindow
       /\ c.inWindow > PerWindow => counted = PerWindow
  <2>1. /\ counters'.inWindow <= PerWindow' => Counted' = counters'.inWindow
        /\ counters'.inWindow > PerWindow' => Counted' = PerWindow'
        /\ Counted' \in Nat /\ Counted' <= PerWindow' /\ Counted' <= counters'.inWindow
    BY <1>9, CountedIsNext
  <2>2. QED
    BY <1>2, <1>10, <1>19, <2>1
<1>21. sent \in Seq(1 .. time) /\ L \in Nat /\ \A n \in 1 .. L : sent[n] \in 1 .. time
  <2>1. sent \in Seq(1 .. time)
    BY <1>9 DEF TypeOK
  <2>2. \A T : \A q \in Seq(T) : Len(q) \in Nat /\ \A n \in 1 .. Len(q) : q[n] \in T
    OBVIOUS
  <2>3. QED
    BY <2>1, <2>2
<1> DEFINE more == IF v = "allow" THEN 1 ELSE 0
<1>22. /\ Len(sent') = L + more
       /\ \A n \in 1 .. L : sent'[n] = sent[n]
       /\ v = "allow" => sent'[L + 1] = time
  BY <1>2, <1>21
<1>23. more \in {0, 1} /\ (more = 1 => v = "allow")
  OBVIOUS
<1>24. c.start \in 0 .. time /\ c.start # 0
  <2>1. CASE c.start = s.wall
    BY <1>13, <1>14, <2>1
  <2>2. CASE c.start # s.wall
    <3>1. c.start = start /\ start # 0
      BY <1>7, <2>2
    <3>2. QED
      BY <1>12, <3>1
  <2>3. QED
    BY <2>1, <2>2
<1> HIDE DEF s, c, v, L, start, more
<1>25. TwoWindowsDeep(sent', L + more, PerWindow, counted, c.start)
  <2>1. \A n \in 1 .. L : sent[n] \in Int /\ sent'[n] = sent[n] /\ sent[n] <= s.at
    BY <1>13, <1>14, <1>21, <1>22
  <2>2. start = 0 => L = 0
    BY <1>12 DEF L
  <2>3. \/ c.start = start /\ c.inWindow = counters.inWindow + 1
        \/ c.start = s.at /\ c.inWindow = 1 /\ (start = 0 \/ s.at - start >= Window)
    BY <1>7, <1>13
  <2>4. c.start \in Nat /\ c.inWindow \in Nat /\ (more = 1 => c.inWindow <= PerWindow)
    BY <1>14, <1>16, <1>17, <1>23, <1>24
  <2>5. QED
    <3>1. Least(Counted, counters.inWindow, PerWindow) /\ Least(counted, c.inWindow, PerWindow)
      BY <1>15, <1>16, <1>18, <1>20 DEF Least
    <3>2. TwoWindowsDeep(sent, L, PerWindow, Counted, start)
      BY <1>12 DEF TwoWindowsDeep
    <3>3. NextDecided(sent, sent', L, more, s.at, PerWindow, start, counters.inWindow,
                      c.start, c.inWindow)
      BY <1>14, <1>21, <1>23, <2>1, <2>2, <2>3, <2>4 DEF NextDecided
    <3>4. QED
      BY <3>1, <3>2, <3>3, WindowsMoveOn
<1>26. TwoWindowsWorth'
  <2>1. SUFFICES ASSUME NEW n \in 1 .. L + more, NEW m \in 1 .. L + more, m - n = 2 * PerWindow
                 PROVE  sent'[m] - sent'[n] >= Window
    BY <1>10, <1>22 DEF TwoWindowsWorth
  <2>2. CASE m \in 1 .. L
    <3>1. n \in 1 .. L
      BY <1>15, <1>21, <2>1, <2>2
    <3>2. sent[m] - sent[n] >= Window
      BY <1>11, <1>12, <2>1, <2>2, <3>1 DEF TwoWindowsWorth, L
    <3>3. QED
      BY <1>22, <2>2, <3>1, <3>2
  <2>3. CASE m \notin 1 .. L
    <3>1. more = 1 /\ m = L + 1
      BY <1>21, <1>23, <2>1, <2>3
    <3>2. v = "allow" /\ c.inWindow <= PerWindow /\ PerWindow >= 1
      BY <1>15, <1>16, <1>17, <1>23, <3>1
    <3>3. n \in 1 .. (L + more) - (PerWindow + counted) /\ n \in 1 .. L
      <4>1. L + 1 - n = 2 * PerWindow /\ n \in Nat /\ n >= 1
        BY <1>21, <2>1, <3>1
      <4>2. n <= L /\ n <= L + 1 - (PerWindow + counted)
        BY <1>15, <1>20, <1>21, <3>2, <4>1
      <4>3. QED
        BY <1>15, <1>20, <1>21, <3>1, <4>1, <4>2
    <3>4. sent'[n] <= c.start - Window /\ sent'[m] = time /\ sent'[n] \in 1 .. time
      <4>1. sent'[n] <= c.start - Window
        BY <1>25, <3>3, Zenon DEF TwoWindowsDeep
      <4>2. sent'[m] = time
        BY <1>22, <3>1, <3>2
      <4>3. sent'[n] \in 1 .. time
        BY <1>21, <1>22, <3>3, Zenon
      <4>4. QED
        BY <4>1, <4>2, <4>3
    <3>5. QED
      BY <1>14, <1>24, <3>4, ClockAssumption
  <2>4. QED
    BY <2>2, <2>3
<1>27. OneSwapAtATime'
  <2>1. \A u \in Thread : sample'[u] = NoSample
    BY <1>3, <1>9, <1>13 DEF TypeOK
  <2>2. QED
    BY <2>1 DEF OneSwapAtATime
<1>28. /\ \A n \in 1 .. Len(sent') - counted : sent'[n] <= counters'.start
       /\ \A n \in 1 .. Len(sent') - (PerWindow' + counted) : sent'[n] <= counters'.start - Window
  <2>1. Len(sent') = L + more /\ counters'.start = c.start /\ PerWindow' = PerWindow
    BY <1>2, <1>10, <1>22
  <2>2. QED
    BY <1>25, <2>1 DEF TwoWindowsDeep
<1>29. offset' = 0 /\ counters'.start \in 0 .. time' /\ counters'.start # 0
  BY <1>2, <1>3, <1>12, <1>24
<1> HIDE DEF TwoWindowsWorth, OneSwapAtATime, Counted, PerWindow
<1>30. QED
  BY <1>19, <1>26, <1>27, <1>28, <1>29 DEF RateInv

LEMMA RateStep == IInv /\ RateInv /\ [Next]_vars => RateInv'
<1> SUFFICES ASSUME IInv, RateInv, [Next]_vars
             PROVE  RateInv'
  OBVIOUS
<1>1. TypeOK /\ time \in Nat /\ setting' = setting
  BY ClocksType, SettingStays DEF IInv
<1>2. CASE Mint \/ Finished \/ UNCHANGED vars
  <2>1. /\ time' = time /\ offset' = offset /\ counters' = counters
        /\ sample' = sample /\ sent' = sent
    BY <1>2 DEF Mint, Finished, vars, world
  <2>2. QED
    BY <1>1, <2>1, RateFrame
<1>3. ASSUME NEW t \in Thread, ReadClocks(t)
      PROVE  RateInv'
  BY <1>1, <1>3, RateRead
<1>4. ASSUME NEW t \in Thread, Decide(t)
      PROVE  RateInv'
  BY <1>4, RateDecide
<1>5. CASE Tick
  <2>1. /\ time' = time + 1 /\ offset' = offset /\ counters' = counters
        /\ sample' = sample /\ sent' = sent
    BY <1>5 DEF Tick, history
  <2>2. QED
    BY <1>1, <2>1, RateFrame
<1>6. CASE StepWall \/ Restart
  <2>1. ~OneCallerTrueClocks
    <3>1. SUFFICES ASSUME OneCallerTrueClocks
                   PROVE  FALSE
      OBVIOUS
    <3>2. offset = 0 /\ setting.steps = {0} /\ setting.faults = {}
      BY <3>1 DEF RateInv, OneCallerTrueClocks
    <3>3. QED
      BY <1>6, <3>2 DEF StepWall, Restart
  <2>2. QED
    BY <1>1, <2>1 DEF RateInv, OneCallerTrueClocks
<1>7. QED
  BY <1>2, <1>3, <1>4, <1>5, <1>6 DEF Next

-----------------------------------------------------------------------------
(* Types hold, no request or byte past the budget is allowed, and no swap  *)
(* past the granted lifetime (mint_bearer_core, decide, Broker::bump).     *)
THEOREM LimitsCorrect == Spec => []IInv
  BY InitHolds, NextHolds, PTL DEF Spec

(* Every variable keeps its type and nothing is dated after the present.   *)
THEOREM TypeCorrect == Spec => []TypeOK
  BY LimitsCorrect, PTL DEF IInv

(* Within one life of the daemon a bearer never gets more than its budget  *)
(* (decide() check 13, Broker::bump).                                      *)
THEOREM BudgetKept == Spec => []WithinBudget
  BY LimitsCorrect, PTL DEF IInv, LimitsInv

(* One caller with true clocks sends at most two windows' worth in any     *)
(* window, whatever the rate and the times of its swaps (Broker::bump,     *)
(* decide() check 15).                                                     *)
THEOREM TwoWindowsAtMost == Spec => []TwoWindowsWorth
<1>1. RateInv => TwoWindowsWorth
  BY DEF RateInv, TwoWindowsWorth
<1>2. QED
  BY <1>1, RateInit, RateStep, LimitsCorrect, PTL DEF Spec

(* Setting the wall clock alone, or rebooting alone, brings no bearer back *)
(* after its lifetime (decide(), OI-6).                                    *)
THEOREM ExpiryKept == Spec => []NoUseAfterExpiry
  BY LimitsCorrect, PTL DEF IInv, LimitsInv
-----------------------------------------------------------------------------
(* The gate beside the limits.                                             *)

(* The gate's steps leave the limits alone, and the others are theirs.     *)
THEOREM LimitsOverGate == GateSpec => Spec
<1>1. LimitsInit => Init
  BY DEF LimitsInit
<1>2. [GateNext]_<<vars, gateVars>> => [Next]_vars
  BY DEF GateNext, GateTick, GateRestart, Elsewhere, Next
<1>3. QED
  BY <1>1, <1>2, PTL DEF GateSpec, Spec

GInv == GateTypeOK /\ GateInv

LEMMA GateInitHolds == LimitsInit /\ IInv => GInv
<1> SUFFICES ASSUME LimitsInit, IInv
             PROVE  GInv
  OBVIOUS
<1>1. GateTypeOK
  <2>1. time = 1 /\ seenAt = time
    BY DEF LimitsInit, Init, GateInit
  <2>2. presence \in [proven : BOOLEAN, at : Int, known : BOOLEAN]
    BY DEF LimitsInit, GateInit, NoAnswer
  <2>3. answer \in [proven : BOOLEAN, began : 0 .. time, seen : 0 .. time]
    BY <2>1 DEF LimitsInit, GateInit
  <2>4. 0 \in 0 .. setting.probes
    BY SettingType DEF IInv, TypeOK
  <2>5. QED
    BY <2>1, <2>2, <2>3, <2>4 DEF LimitsInit, GateInit, GateTypeOK
<1>2. GateInv
  <2>1. seenAt <= time
    BY DEF LimitsInit, Init, GateInit
  <2>2. QED
    BY <2>1 DEF LimitsInit, GateInit, GateInv, NoAnswer, NoProbe
<1>3. QED
  BY <1>1, <1>2 DEF GInv

(* With no step of the wall clock in the setting, it shows the time.       *)
LEMMA WallIsTime ==
    ASSUME IInv, setting.steps = {0}
    PROVE  Wall = time
<1>1. offset = 0 /\ time \in Nat
  BY ClocksType DEF IInv, TypeOK
<1>2. QED
  BY <1>1 DEF Wall

ProbeType(p) == p \in [now : Int, began : 0 .. time, state : {"asked", "unproven", "present"}]

LEMMA ProbeKnown ==
    ASSUME GateTypeOK, NEW t \in Thread, probe[t] # NoProbe
    PROVE  ProbeType(probe[t])
  BY DEF GateTypeOK, ProbeType

LEMMA AskHolds ==
    ASSUME IInv, GInv, PresenceIsRecent, NEW t \in Thread, AskCache(t), UNCHANGED vars
    PROVE  GInv' /\ PresenceIsRecent'
<1>1. /\ here' = here /\ presence' = presence /\ seenAt' = seenAt /\ time' = time
      /\ setting' = setting /\ probes' = probes + 1 /\ probes < setting.probes
  BY DEF AskCache, vars
<1>2. /\ time \in Nat /\ Wall \in Int /\ seenAt \in 0 .. time
      /\ presence \in [proven : BOOLEAN, at : Int, known : BOOLEAN]
  BY ClocksType DEF IInv, GInv, GateTypeOK
<1>3. probes' \in 0 .. setting.probes
  <2>1. setting.probes \in Nat /\ probes \in 0 .. setting.probes
    BY SettingType DEF IInv, TypeOK, GInv, GateTypeOK
  <2>2. QED
    BY <1>1, <2>1
<1>4. CASE Fresh /\ Answered(presence.proven, time) /\ UNCHANGED probe
  <2>1. answer' = [proven |-> presence.proven, began |-> time, seen |-> seenAt] /\ probe' = probe
    BY <1>4 DEF Answered
  <2>2. answer' \in [proven : BOOLEAN, began : 0 .. time, seen : 0 .. time]
    BY <1>2, <2>1
  <2>3. GateTypeOK'
    BY <1>1, <1>3, <2>1, <2>2 DEF GInv, GateTypeOK
  <2>4. GateInv'
    BY <1>1, <2>1 DEF GInv, GateInv
  <2>5. PresenceIsRecent'
    <3>1. SUFFICES ASSUME setting.steps = {0}, presence.proven
                   PROVE  seenAt > time - GateTtl
      BY <1>1, <2>1 DEF PresenceIsRecent
    <3>2. presence.at <= seenAt
      BY <3>1 DEF GInv, GateInv
    <3>3. Wall = time
      BY <3>1, WallIsTime
    <3>4. time - presence.at < GateTtl
      BY <1>4, <3>3 DEF Fresh
    <3>5. QED
      BY <1>2, <3>2, <3>4, GateTtlAssumption
  <2>6. QED
    BY <2>3, <2>4, <2>5 DEF GInv
<1>5. CASE /\ probe' = [probe EXCEPT ![t] = [now |-> Wall, began |-> time, state |-> "asked"]]
           /\ UNCHANGED answer
  <2> DEFINE asked == [now |-> Wall, began |-> time, state |-> "asked"]
  <2>1. asked \in [now : Int, began : 0 .. time, state : {"asked", "unproven", "present"}]
    BY <1>2
  <2>2. asked.now = Wall /\ asked.began = time /\ asked.state = "asked"
    OBVIOUS
  <2>3. probe' = [probe EXCEPT ![t] = asked] /\ answer' = answer
    BY <1>5
  <2> HIDE DEF asked
  <2>4. GateTypeOK'
    BY <1>1, <1>3, <2>1, <2>3 DEF GInv, GateTypeOK
  <2>5. \A u \in Thread : probe'[u] = IF u = t THEN asked ELSE probe[u]
    BY <2>3 DEF GInv, GateTypeOK
  <2>6. GateInv'
    <3>1. SUFFICES ASSUME setting.steps = {0}
                   PROVE  GateInv'
      BY <1>1 DEF GateInv
    <3>2. asked.now = asked.began /\ asked.state # "present"
      BY <2>2, <3>1, WallIsTime
    <3>3. QED
      BY <1>1, <2>5, <3>1, <3>2 DEF GInv, GateInv
  <2>7. PresenceIsRecent'
    BY <1>1, <2>3 DEF PresenceIsRecent
  <2>8. QED
    BY <2>4, <2>6, <2>7 DEF GInv
<1>6. QED
  BY <1>4, <1>5 DEF AskCache

LEMMA ResolveHolds ==
    ASSUME IInv, GInv, PresenceIsRecent, NEW t \in Thread, Resolve(t), UNCHANGED vars
    PROVE  GInv' /\ PresenceIsRecent'
<1>1. /\ here' = here /\ presence' = presence /\ seenAt' = seenAt /\ time' = time
      /\ setting' = setting /\ probes' = probes /\ answer' = answer
      /\ probe[t].state = "asked"
  BY DEF Resolve, vars
<1>2. PICK state \in {"unproven"} \cup (IF here THEN {"present"} ELSE {}) :
        probe' = [probe EXCEPT ![t].state = state]
  BY DEF Resolve
<1>3. ProbeType(probe[t])
  BY <1>1, ProbeKnown DEF GInv, NoProbe
<1> DEFINE told == [probe[t] EXCEPT !.state = state]
<1>4. /\ told \in [now : Int, began : 0 .. time, state : {"asked", "unproven", "present"}]
      /\ told.now = probe[t].now /\ told.began = probe[t].began /\ told.state = state
  BY <1>2, <1>3 DEF ProbeType
<1>5. probe' = [probe EXCEPT ![t] = told]
  BY <1>2
<1> HIDE DEF told
<1>6. GateTypeOK'
  BY <1>1, <1>4, <1>5 DEF GInv, GateTypeOK
<1>7. \A u \in Thread : probe'[u] = IF u = t THEN told ELSE probe[u]
  BY <1>5 DEF GInv, GateTypeOK
<1>8. GateInv'
  <2>1. SUFFICES ASSUME setting.steps = {0}
                 PROVE  GateInv'
    BY <1>1 DEF GateInv
  <2>2. told.now = told.began
    BY <1>1, <1>4, <2>1 DEF GInv, GateInv, NoProbe
  <2>3. told.state = "present" => told.began <= seenAt
    <3>1. SUFFICES ASSUME here
                   PROVE  told.began <= seenAt
      BY <1>2, <1>4
    <3>2. seenAt = time
      BY <2>1, <3>1 DEF GInv, GateInv
    <3>3. told.began \in 0 .. time
      BY <1>4
    <3>4. QED
      BY <3>2, <3>3
  <2>4. QED
    BY <1>1, <1>7, <2>1, <2>2, <2>3 DEF GInv, GateInv
<1>9. PresenceIsRecent'
  BY <1>1 DEF PresenceIsRecent
<1>10. QED
  BY <1>6, <1>8, <1>9 DEF GInv

LEMMA KeepHolds ==
    ASSUME IInv, GInv, PresenceIsRecent, NEW t \in Thread, KeepAnswer(t), UNCHANGED vars
    PROVE  GInv' /\ PresenceIsRecent'
<1> DEFINE proven == probe[t].state = "present"
<1>1. /\ here' = here /\ seenAt' = seenAt /\ time' = time
      /\ setting' = setting /\ probes' = probes
      /\ probe[t].state \in {"unproven", "present"}
      /\ presence' = [proven |-> proven, at |-> probe[t].now, known |-> TRUE]
      /\ answer' = [proven |-> proven, began |-> probe[t].began, seen |-> seenAt]
      /\ probe' = [probe EXCEPT ![t] = NoProbe]
  BY DEF KeepAnswer, Answered, vars
<1>2. ProbeType(probe[t])
  BY <1>1, ProbeKnown DEF GInv, NoProbe
<1>3. proven \in BOOLEAN
  OBVIOUS
<1>4. presence'.proven = proven /\ presence'.at = probe[t].now /\ presence'.known = TRUE
  BY <1>1
<1>5. setting.steps = {0} => probe[t].now = probe[t].began /\ (proven => probe[t].began <= seenAt)
  BY <1>1 DEF GInv, GateInv, NoProbe
<1> HIDE DEF proven
<1>6. GateTypeOK'
  <2>1. probe[t].now \in Int /\ probe[t].began \in 0 .. time /\ seenAt \in 0 .. time
    BY <1>2 DEF ProbeType, GInv, GateTypeOK
  <2>2. presence' \in [proven : BOOLEAN, at : Int, known : BOOLEAN]
    BY <1>1, <1>3, <2>1
  <2>3. answer' \in [proven : BOOLEAN, began : 0 .. time, seen : 0 .. time]
    BY <1>1, <1>3, <2>1
  <2>4. QED
    BY <1>1, <2>2, <2>3 DEF GInv, GateTypeOK
<1>7. \A u \in Thread : probe'[u] = IF u = t THEN NoProbe ELSE probe[u]
  BY <1>1 DEF GInv, GateTypeOK
<1>8. GateInv'
  <2>1. SUFFICES ASSUME setting.steps = {0}
                 PROVE  GateInv'
    BY <1>1 DEF GateInv
  <2>2. \A u \in Thread : probe'[u] # NoProbe => probe'[u] = probe[u] /\ probe[u] # NoProbe
    BY <1>7
  <2>3. \A u \in Thread : probe'[u].state = "present" => probe'[u] = probe[u]
    BY <1>7 DEF NoProbe
  <2>4. presence'.proven => presence'.known /\ presence'.at <= seenAt
    BY <1>4, <1>5, <2>1
  <2>5. QED
    BY <1>1, <2>1, <2>2, <2>3, <2>4 DEF GInv, GateInv
<1>9. PresenceIsRecent'
  <2>1. SUFFICES ASSUME setting.steps = {0}, proven
                 PROVE  seenAt > probe[t].began - GateTtl
    BY <1>1 DEF PresenceIsRecent
  <2>2. probe[t].began <= seenAt /\ probe[t].began \in 0 .. time /\ seenAt \in 0 .. time
    BY <1>2, <1>5, <2>1 DEF ProbeType, GInv, GateTypeOK
  <2>3. time \in Nat
    BY ClocksType DEF IInv
  <2>4. QED
    BY <2>2, <2>3, GateTtlAssumption
<1>10. QED
  BY <1>6, <1>8, <1>9 DEF GInv

LEMMA ComeOrGoHolds ==
    ASSUME IInv, GInv, PresenceIsRecent, ComeOrGo, UNCHANGED vars
    PROVE  GInv' /\ PresenceIsRecent'
<1>1. /\ presence' = presence /\ probe' = probe /\ answer' = answer /\ probes' = probes
      /\ time' = time /\ setting' = setting
      /\ here' = ~here /\ seenAt' = IF here' THEN time ELSE seenAt
  BY DEF ComeOrGo, vars
<1>2. time \in Nat /\ seenAt \in 0 .. time
  BY ClocksType DEF IInv, GInv, GateTypeOK
<1>3. seenAt' \in 0 .. time /\ seenAt <= seenAt' /\ (here' => seenAt' = time)
  BY <1>1, <1>2
<1>4. here' \in BOOLEAN
  BY <1>1
<1>5. GateTypeOK'
  BY <1>1, <1>3, <1>4 DEF GInv, GateTypeOK
<1>6. GateInv'
  <2>1. SUFFICES ASSUME setting.steps = {0}
                 PROVE  GateInv'
    BY <1>1 DEF GateInv
  <2>2. \A t \in Thread : probe[t].state = "present" => probe[t].began <= seenAt'
    <3>1. SUFFICES ASSUME NEW t \in Thread, probe[t].state = "present"
                   PROVE  probe[t].began <= seenAt'
      OBVIOUS
    <3>2. probe[t].began \in 0 .. time
      BY <3>1, ProbeKnown DEF GInv, NoProbe, ProbeType
    <3>3. probe[t].began <= seenAt
      BY <2>1, <3>1 DEF GInv, GateInv
    <3>4. QED
      BY <1>2, <1>3, <3>2, <3>3
  <2>3. presence.proven => presence.known /\ presence.at <= seenAt'
    <3>1. presence.at \in Int
      BY DEF GInv, GateTypeOK
    <3>2. QED
      BY <1>2, <1>3, <2>1, <3>1 DEF GInv, GateInv
  <2>4. seenAt' <= time
    BY <1>2, <1>3
  <2>5. QED
    BY <1>1, <1>3, <2>1, <2>2, <2>3, <2>4 DEF GInv, GateInv
<1>7. PresenceIsRecent'
  BY <1>1 DEF PresenceIsRecent
<1>8. QED
  BY <1>5, <1>6, <1>7 DEF GInv

LEMMA GateTickHolds ==
    ASSUME IInv, GInv, PresenceIsRecent, GateTick
    PROVE  GInv' /\ PresenceIsRecent'
<1>1. /\ presence' = presence /\ probe' = probe /\ answer' = answer /\ probes' = probes
      /\ here' = here /\ setting' = setting
      /\ time' = time + 1 /\ seenAt' = IF here THEN time' ELSE seenAt
  BY DEF GateTick, Tick
<1>2. time \in Nat /\ seenAt \in 0 .. time
  BY ClocksType DEF IInv, GInv, GateTypeOK
<1>3. /\ seenAt' \in 0 .. time' /\ seenAt <= seenAt' /\ seenAt' <= time'
      /\ 0 .. time \subseteq 0 .. time'
  BY <1>1, <1>2
<1>4. GateTypeOK'
  <2>1. [now : Int, began : 0 .. time, state : {"asked", "unproven", "present"}]
          \subseteq [now : Int, began : 0 .. time', state : {"asked", "unproven", "present"}]
    BY <1>3
  <2>2. probe \in [Thread -> [now : Int, began : 0 .. time', state : {"asked", "unproven", "present"}]
                               \cup {NoProbe}]
    BY <2>1 DEF GInv, GateTypeOK
  <2>3. answer \in [proven : BOOLEAN, began : 0 .. time', seen : 0 .. time']
    BY <1>3 DEF GInv, GateTypeOK
  <2>4. QED
    BY <1>1, <1>3, <2>2, <2>3 DEF GInv, GateTypeOK
<1>5. GateInv'
  <2>1. SUFFICES ASSUME setting.steps = {0}
                 PROVE  GateInv'
    BY <1>1 DEF GateInv
  <2>2. \A t \in Thread : probe[t].state = "present" => probe[t].began <= seenAt'
    <3>1. SUFFICES ASSUME NEW t \in Thread, probe[t].state = "present"
                   PROVE  probe[t].began <= seenAt'
      OBVIOUS
    <3>2. probe[t].began \in 0 .. time
      BY <3>1, ProbeKnown DEF GInv, NoProbe, ProbeType
    <3>3. probe[t].began <= seenAt
      BY <2>1, <3>1 DEF GInv, GateInv
    <3>4. QED
      BY <1>2, <1>3, <3>2, <3>3
  <2>3. presence.proven => presence.known /\ presence.at <= seenAt'
    <3>1. presence.at \in Int
      BY DEF GInv, GateTypeOK
    <3>2. QED
      BY <1>2, <1>3, <2>1, <3>1 DEF GInv, GateInv
  <2>4. QED
    BY <1>1, <1>3, <2>1, <2>2, <2>3 DEF GInv, GateInv
<1>6. PresenceIsRecent'
  BY <1>1 DEF PresenceIsRecent
<1>7. QED
  BY <1>4, <1>5, <1>6 DEF GInv

LEMMA GateRestartHolds ==
    ASSUME IInv, GInv, PresenceIsRecent, GateRestart
    PROVE  GInv' /\ PresenceIsRecent'
<1>1. /\ presence' = NoAnswer /\ probe' = [t \in Thread |-> NoProbe] /\ answer' = answer
      /\ probes' = probes /\ here' = here /\ seenAt' = seenAt
      /\ time' = time /\ setting' = setting
  BY DEF GateRestart, Restart
<1>2. presence' \in [proven : BOOLEAN, at : Int, known : BOOLEAN] /\ ~presence'.proven
  BY <1>1 DEF NoAnswer
<1>3. GateTypeOK'
  BY <1>1, <1>2 DEF GInv, GateTypeOK
<1>4. \A t \in Thread : probe'[t] = NoProbe /\ probe'[t].state # "present"
  BY <1>1 DEF NoProbe
<1>5. GateInv'
  BY <1>1, <1>2, <1>4 DEF GInv, GateInv
<1>6. PresenceIsRecent'
  BY <1>1 DEF PresenceIsRecent
<1>7. QED
  BY <1>3, <1>5, <1>6 DEF GInv

(* A step of the limits that leaves the gate alone passes no time, except  *)
(* the ticks above.                                                        *)
LEMMA ElsewhereHolds ==
    ASSUME IInv, GInv, PresenceIsRecent, UNCHANGED gateVars, setting' = setting, time' = time
    PROVE  GInv' /\ PresenceIsRecent'
<1>1. /\ presence' = presence /\ probe' = probe /\ answer' = answer /\ probes' = probes
      /\ here' = here /\ seenAt' = seenAt
  BY DEF gateVars
<1>2. GInv'
  BY <1>1 DEF GInv, GateTypeOK, GateInv
<1>3. PresenceIsRecent'
  BY <1>1 DEF PresenceIsRecent
<1>4. QED
  BY <1>2, <1>3

LEMMA GateNextHolds ==
    IInv /\ GInv /\ PresenceIsRecent /\ [GateNext]_<<vars, gateVars>> => GInv' /\ PresenceIsRecent'
<1> SUFFICES ASSUME IInv, GInv, PresenceIsRecent, [GateNext]_<<vars, gateVars>>
             PROVE  GInv' /\ PresenceIsRecent'
  OBVIOUS
<1>1. CASE GateStep /\ UNCHANGED vars
  BY <1>1, AskHolds, ResolveHolds, KeepHolds DEF GateStep
<1>2. CASE ComeOrGo /\ UNCHANGED vars
  BY <1>2, ComeOrGoHolds
<1>3. CASE GateTick
  BY <1>3, GateTickHolds
<1>4. CASE GateRestart
  BY <1>4, GateRestartHolds
<1>5. CASE Elsewhere
  <2>1. setting' = setting /\ time' = time
    BY <1>5 DEF Elsewhere, Mint, ReadClocks, Decide, StepWall, Finished, world, vars
  <2>2. QED
    BY <1>5, <2>1, ElsewhereHolds DEF Elsewhere
<1>6. CASE UNCHANGED <<vars, gateVars>>
  BY <1>6, ElsewhereHolds DEF vars
<1>7. QED
  BY <1>1, <1>2, <1>3, <1>4, <1>5, <1>6 DEF GateNext

(* While the wall clock is not stepped, presence is answered only for a    *)
(* factor that could sign during the call or within one TTL before it,     *)
(* whatever probes overlap and end late (seed_presence_cached).            *)
THEOREM PresenceRecent == GateSpec => []PresenceIsRecent
<1>1. LimitsInit /\ IInv => GInv /\ PresenceIsRecent
  <2>1. LimitsInit => PresenceIsRecent
    BY DEF LimitsInit, GateInit, PresenceIsRecent
  <2>2. QED
    BY <2>1, GateInitHolds
<1>2. GateSpec => []IInv
  BY LimitsOverGate, LimitsCorrect, PTL
<1>3. QED
  BY <1>1, <1>2, GateNextHolds, PTL DEF GateSpec
=============================================================================
