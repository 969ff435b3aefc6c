----------------------------- MODULE PresenceGate -----------------------------
(***************************************************************************)
(* The presence gate of the relay paths (secrets-engine/src/lib.rs,        *)
(* presence_proven and seed_presence_cached; broker/gate.rs): a factor on  *)
(* the network proves itself by signing a fresh challenge, slowly, and the *)
(* answer is kept for a while.  Each caller takes the time before it looks *)
(* at the cache, and probes without holding it.  The vault has a USB       *)
(* keyslot; without one there is nothing to prove.                         *)
(*                                                                         *)
(* What a decision makes of the answer is in RelayLimits, whose clocks     *)
(* this module uses.                                                       *)
(***************************************************************************)
EXTENDS RelayLimits

CONSTANT GateTtl       \* PRESENCE_GATE_TTL_MS

ASSUME GateTtlAssumption == GateTtl \in Nat \ {0}

VARIABLES
    here,              \* whether the factor can sign
    presence,          \* presence_cache: the answer, when its probe began, or NoAnswer
    probe,             \* what each caller knows: when it began, what the factor said
    answer,            \* history: the latest answer, its age limit and what was true of it
    seenAt,            \* history: when the factor could last sign
    probes             \* how many calls have been made

gateVars == <<here, presence, probe, answer, seenAt, probes>>
NoAnswer == [proven |-> FALSE, at |-> 0, known |-> FALSE]
NoProbe == [now |-> 0, began |-> -1, state |-> "none"]

GateInit ==
    /\ here = TRUE
    /\ presence = NoAnswer
    /\ probe = [t \in Thread |-> NoProbe]
    /\ answer = [proven |-> FALSE, began |-> 0, seen |-> 0]
    /\ seenAt = time
    /\ probes = 0

Answered(proven, began) == answer' = [proven |-> proven, began |-> began, seen |-> seenAt]

(* The cache is good for one TTL by the wall clock.                        *)
Fresh == presence.known /\ Wall - presence.at < GateTtl

AskCache(t) ==
    /\ probe[t] = NoProbe
    /\ probes < setting.probes
    /\ probes' = probes + 1
    /\ IF Fresh
         THEN Answered(presence.proven, time) /\ UNCHANGED probe
         ELSE /\ probe' = [probe EXCEPT ![t] = [now |-> Wall, began |-> time, state |-> "asked"]]
              /\ UNCHANGED answer
    /\ UNCHANGED <<here, presence, seenAt>>

(* SeedPresenceGate::resolve: a signature over a fresh nonce that verifies *)
(* under the pinned key, or Unproven, whatever went wrong.                 *)
Resolve(t) ==
    /\ probe[t].state = "asked"
    /\ \E state \in {"unproven"} \cup (IF here THEN {"present"} ELSE {}) :
         probe' = [probe EXCEPT ![t].state = state]
    /\ UNCHANGED <<here, presence, answer, seenAt, probes>>

(* The answer is kept with the time its probe began, in whatever order the *)
(* probes end.                                                             *)
KeepAnswerLate(t) ==                                                    \* mutant
    /\ probe[t].state \in {"unproven", "present"}
    /\ LET proven == probe[t].state = "present"
       IN /\ presence' = [proven |-> proven, at |-> Wall, known |-> TRUE]
          /\ Answered(proven, probe[t].began)
    /\ probe' = [probe EXCEPT ![t] = NoProbe]
    /\ UNCHANGED <<here, seenAt, probes>>
KeepAnswer(t) ==
    /\ probe[t].state \in {"unproven", "present"}
    /\ LET proven == probe[t].state = "present"
       IN /\ presence' = [proven |-> proven, at |-> probe[t].now, known |-> TRUE]
          /\ Answered(proven, probe[t].began)
    /\ probe' = [probe EXCEPT ![t] = NoProbe]
    /\ UNCHANGED <<here, seenAt, probes>>

GateStep == \E t \in Thread : AskCache(t) \/ Resolve(t) \/ KeepAnswer(t)

(* The factor is taken away or comes back; time passes; a new daemon       *)
(* starts with an empty cache.                                             *)
ComeOrGo ==
    /\ setting.probes > 0
    /\ here' = ~here
    /\ seenAt' = IF here' THEN time ELSE seenAt
    /\ UNCHANGED <<presence, probe, answer, probes>>

GateTick ==
    /\ Tick
    /\ seenAt' = IF here THEN time' ELSE seenAt
    /\ UNCHANGED <<here, presence, probe, answer, probes>>

GateRestart ==
    /\ Restart
    /\ presence' = NoAnswer
    /\ probe' = [t \in Thread |-> NoProbe]
    /\ UNCHANGED <<here, answer, seenAt, probes>>

Elsewhere ==
    /\ Mint \/ (\E t \in Thread : ReadClocks(t) \/ Decide(t)) \/ StepWall \/ Finished
    /\ UNCHANGED gateVars

LimitsInit == Init /\ GateInit

GateNext ==
    \/ (GateStep \/ ComeOrGo) /\ UNCHANGED vars
    \/ GateTick
    \/ GateRestart
    \/ Elsewhere

GateSpec == LimitsInit /\ [][GateNext]_<<vars, gateVars>>
-----------------------------------------------------------------------------
(* Presence is answered for a factor that could sign during the call or    *)
(* within one TTL before it, whichever probe ended last and kept its       *)
(* answer, as long as the wall clock is not stepped (seed_presence_cached).*)
PresenceIsRecent ==
    setting.steps = {0} /\ answer.proven => answer.seen > answer.began - GateTtl

(* What the gate knows is dated by when its probe began, and a factor that *)
(* has answered was there at that time or later.                           *)
GateInv ==
    setting.steps = {0} =>
        /\ here => seenAt = time
        /\ seenAt <= time
        /\ \A t \in Thread : probe[t] # NoProbe => probe[t].now = probe[t].began
        /\ \A t \in Thread : probe[t].state = "present" => probe[t].began <= seenAt
        /\ presence.proven => presence.known /\ presence.at <= seenAt

(* Every variable has its type, and no probe began in the future.          *)
GateTypeOK ==
    /\ here \in BOOLEAN
    /\ presence \in [proven : BOOLEAN, at : Int, known : BOOLEAN]
    /\ probe \in [Thread -> [now : Int, began : 0 .. time, state : {"asked", "unproven", "present"}]
                              \cup {NoProbe}]
    /\ answer \in [proven : BOOLEAN, began : 0 .. time, seen : 0 .. time]
    /\ seenAt \in 0 .. time
    /\ probes \in 0 .. setting.probes
=============================================================================
