---------------------------- MODULE AgentSyncProofs ----------------------------
(***************************************************************************)
(* Proofs about AgentSync, for every set of sources, names and agents and  *)
(* every bound: types, that the hash cache never misleads a sync, and that *)
(* the lock keeps what the config asks for.                                *)
(***************************************************************************)
EXTENDS AgentSync, FiniteSetTheorems, TLAPS

(* The first of some agents is one of them.                                *)
LEMMA FirstIsMember ==
    ASSUME NEW some \in SUBSET Target, some # {}
    PROVE  Min(some) \in some
  BY TargetAssumption DEF Min

LEMMA TargetsAreTargets ==
    ASSUME NEW some \in SUBSET Target, NEW k \in Kind
    PROVE  /\ TargetsOf(k, some) \subseteq Target
           /\ Destinations(some) \subseteq Target /\ Destinations(some) # {}
           /\ Recorded(k, some) \subseteq Target
<1>1. Min(Target) \in Target
  BY FirstIsMember, TargetAssumption
<1>2. Destinations(some) \subseteq Target /\ Destinations(some) # {}
  BY <1>1 DEF Destinations
<1>3. Min(Destinations(some)) \in Target
  BY <1>2, FirstIsMember
<1>4. QED
  BY <1>2, <1>3 DEF TargetsOf, Recorded

(* Contents are told apart by their second component.                      *)
LEMMA ContentsDiffer ==
    /\ Absent \in Content /\ Torn \in Content /\ User \in Content /\ Hash \subseteq Content
    /\ Absent \notin Hash /\ Torn \notin Hash /\ User \notin Hash
    /\ Absent # Torn /\ Absent # User /\ Torn # User
<1>1. \A h \in Hash : h[2] # 0
  BY DEF Hash
<1>2. Absent[2] = 0 /\ Torn[2] = 0 /\ User[2] = 0
  BY DEF Absent, Torn, User
<1>3. Absent[1] # Torn[1] /\ Absent[1] # User[1] /\ Torn[1] # User[1]
  BY DEF Absent, Torn, User
<1>4. QED
  BY <1>1, <1>2, <1>3 DEF Content

LEMMA AtIsPlace ==
    ASSUME NEW a \in Asset, NEW t \in Target
    PROVE  At(a, t) \in Place /\ At(a, t).kind = a.kind /\ At(a, t).name = a.name
  BY DEF Asset, Place, At, Kind

(* The lock stays a lock.                                                  *)
LEMMA EmptyIsLock == IsLock(EmptyLock) /\ DOMAIN EmptyLock = {}
  BY DEF IsLock, EmptyLock

LEMMA WithoutIsLock ==
    ASSUME NEW l, IsLock(l), NEW gone
    PROVE  IsLock(Without(l, gone)) /\ DOMAIN Without(l, gone) = DOMAIN l \ gone
  BY DEF IsLock, Without

LEMMA WithEntryIsLock ==
    ASSUME NEW l, IsLock(l), NEW a \in Asset, NEW e \in Entry
    PROVE  IsLock(WithEntry(l, a, e)) /\ DOMAIN WithEntry(l, a, e) = DOMAIN l \cup {a}
  BY DEF IsLock, WithEntry
-----------------------------------------------------------------------------
(* What a run keeps between its steps: the cache only lives in the skills' *)
(* section, the lock in memory only in a run, and every copy still to be   *)
(* made is of the section and of an asset the prune keeps.                 *)
JobInv ==
    /\ phase # "skill" => cache = Rest
    /\ phase = "idle" => lock = EmptyLock /\ pending = {} /\ todo = {}
    /\ phase \in Kind /\ todo # {} => TargetsOf(phase, agents) # {}
    /\ phase \notin Kind => pending = {}
    /\ \A c \in pending : c.asset.kind = phase /\ c.asset \in desired
    /\ ~run.apply => pending = {}

(* Unless something has failed, whatever the lock has that the config asks *)
(* for is still to be planned, kept, or was not in its source's answer.    *)
Accounted ==
    phase \in Kind /\ ~failed /\ TargetsOf(phase, agents) # {} =>
        \A a \in DOMAIN lock : a.kind = phase /\ Asked(a) =>
            \/ a.source \in todo \/ a \in desired
            \/ a.source \in answered /\ Offered(a.source) = 0

IInv == TypeOK /\ JobInv /\ CacheNeverWrong /\ Accounted
-----------------------------------------------------------------------------
LEMMA UnreadCache ==
    /\ Rest \in [SkillPlace -> Content \cup {Unread}]
    /\ \A p \in SkillPlace : Rest[p] = Unread
  BY DEF Rest

LEMMA AskedIsListed ==
    ASSUME NEW a \in Asset, Asked(a)
    PROVE  a.source \in Listed(config, a.kind)
<1>1. a.source \in Source /\ a.kind \in Kind
  BY DEF Asset
<1>2. CASE a.source \in Wild
  BY <1>2 DEF Asked
<1>3. CASE a.source \notin Wild
  BY <1>1, <1>3 DEF Asked, Listed
<1>4. QED
  BY <1>2, <1>3

(* Entering a section establishes everything but the types of the lock.    *)
LEMMA EnterInv ==
    ASSUME NEW k \in Kind, Enter(k), agents' = agents, IsLock(lock')
    PROVE  /\ JobInv' /\ CacheNeverWrong' /\ Accounted'
           /\ phase' \in Phase /\ cache' \in [SkillPlace -> Content \cup {Unread}]
           /\ todo' \subseteq Source /\ pending' = {} /\ desired' = {} /\ answered' = {}
<1>1. /\ phase' = k /\ cache' = Rest /\ pending' = {} /\ desired' = {} /\ answered' = {}
      /\ todo' = IF TargetsOf(k, agents) = {} THEN {} ELSE Listed(config', k)
  BY DEF Enter, Rest
<1>2. k # "idle" /\ k \in Phase
  BY DEF Kind, Phase
<1>3. JobInv'
  BY <1>1, <1>2 DEF JobInv, Rest
<1>4. CacheNeverWrong'
  BY <1>1, UnreadCache DEF CacheNeverWrong
<1>5. Accounted'
  <2> SUFFICES ASSUME phase' \in Kind, TargetsOf(phase', agents') # {},
                      NEW a \in DOMAIN lock', a.kind = phase', Asked(a)'
               PROVE  a.source \in todo'
    BY DEF Accounted
  <2>1. a \in Asset
    BY DEF IsLock
  <2>2. a.source \in Listed(config', a.kind)
    BY <2>1 DEF Asked, Listed, Asset
  <2>3. QED
    BY <1>1, <2>2
<1>6. todo' \subseteq Source
  BY <1>1 DEF Listed
<1>7. QED
  BY <1>1, <1>2, <1>3, <1>4, <1>5, <1>6, UnreadCache

(* Between runs nothing but the types is at stake.                         *)
LEMMA IdleInv ==
    ASSUME IInv, phase = "idle", UNCHANGED <<phase, job>>
    PROVE  /\ JobInv' /\ CacheNeverWrong' /\ Accounted'
           /\ IsLock(lock') /\ phase' \in Phase
<1>1. cache' = Rest /\ lock' = EmptyLock /\ pending' = {} /\ todo' = {} /\ phase' = "idle"
  BY DEF IInv, JobInv, job
<1>2. CacheNeverWrong'
  BY <1>1, UnreadCache DEF CacheNeverWrong
<1>3. "idle" \notin Kind
  BY DEF Kind
<1>4. JobInv'
  BY <1>1, <1>3 DEF JobInv, Rest
<1>5. QED
  BY <1>1, <1>2, <1>3, <1>4, EmptyIsLock DEF Accounted, Phase
-----------------------------------------------------------------------------
(* The types, in the groups the actions change.                            *)
WorldTypes ==
    /\ config \subseteq Asset /\ agents \subseteq Target
    /\ label \in [Source -> Label] /\ upstream \in [Source -> 0 .. MaxRev]
FileTypes == disk \in [Place -> Content] /\ IsLock(lockFile)
RunTypes ==
    /\ run \in [mode : {"plain", "update", "locked"}, apply : BOOLEAN]
    /\ failed \in BOOLEAN /\ broken \in BOOLEAN
SectionTypes ==
    /\ phase \in Phase /\ cache \in [SkillPlace -> Content \cup {Unread}]
    /\ todo \subseteq Source /\ desired \subseteq Asset /\ answered \subseteq Source
BoundTypes == bound \in [changes : 0 .. MaxChanges, faults : 0 .. MaxFaults] /\ calm \in 0 .. 2

LEMMA TypeParts ==
    TypeOK <=> /\ WorldTypes /\ FileTypes /\ RunTypes /\ SectionTypes /\ BoundTypes
               /\ IsLock(lock) /\ pending \subseteq CopyJob
  BY DEF TypeOK, WorldTypes, FileTypes, RunTypes, SectionTypes, BoundTypes, CopyJob

LEMMA TypePartsAfter ==
    TypeOK' <=> /\ WorldTypes' /\ FileTypes' /\ RunTypes' /\ SectionTypes' /\ BoundTypes'
                /\ IsLock(lock') /\ pending' \subseteq CopyJob
  BY DEF TypeOK, WorldTypes, FileTypes, RunTypes, SectionTypes, BoundTypes, CopyJob

LEMMA OneFaultLess ==
    ASSUME BoundTypes, bound.faults > 0, bound' = [bound EXCEPT !.faults = @ - 1]
    PROVE  bound' \in [changes : 0 .. MaxChanges, faults : 0 .. MaxFaults]
  BY BoundAssumption DEF BoundTypes

LEMMA ChangesSpent ==
    ASSUME BoundTypes, NEW n \in Nat, Spend(n)
    PROVE  BoundTypes'
  BY BoundAssumption DEF BoundTypes, Spend

(* An addition edits some of three lists.                                  *)
LEMMA EditsCount ==
    ASSUME NEW sel
    PROVE  Cardinality(Edited(sel)) \in Nat
<1>1. IsFiniteSet((({} \cup {"skill"}) \cup {"command"}) \cup {"mcp"})
  BY FS_EmptySet, FS_AddElement
<1>2. Edited(sel) \subseteq (({} \cup {"skill"}) \cup {"command"}) \cup {"mcp"}
  BY DEF Edited, Kind
<1>3. QED
  BY <1>1, <1>2, FS_Subset, FS_CardinalityType

LEMMA InitInv == Init => IInv
<1> SUFFICES ASSUME Init
             PROVE  IInv
  OBVIOUS
<1>1. WorldTypes
  BY RevAssumption DEF Init, WorldTypes, Label
<1>2. FileTypes
  BY ContentsDiffer, EmptyIsLock DEF Init, FileTypes
<1>3. RunTypes /\ BoundTypes
  <2>1. RunTypes
    BY Zenon DEF Init, RunTypes
  <2>2. BoundTypes
    BY BoundAssumption DEF Init, BoundTypes
  <2>3. QED
    BY <2>1, <2>2
<1>4. cache = Rest
  BY DEF Init, Rest
<1>5. SectionTypes
  BY <1>4, UnreadCache DEF Init, SectionTypes, Phase
<1>6. IsLock(lock) /\ pending \subseteq CopyJob
  BY EmptyIsLock DEF Init
<1>7. JobInv /\ Accounted
  BY <1>4 DEF Init, JobInv, Accounted, Kind
<1>8. CacheNeverWrong
  BY <1>4, UnreadCache DEF CacheNeverWrong
<1>9. QED
  BY <1>1, <1>2, <1>3, <1>5, <1>6, <1>7, <1>8, TypeParts DEF IInv

(* A run that starts, whichever verb starts it.                            *)
LEMMA StartInv ==
    ASSUME IInv, NEW mode \in {"plain", "update", "locked"}, NEW apply \in BOOLEAN,
           StartSync(mode, apply), config' \subseteq Asset, BoundTypes'
    PROVE  IInv'
<1> USE DEF IInv
<1>1. Enter("skill") /\ "skill" \in Kind /\ agents' = agents /\ lock' = lockFile
  BY DEF StartSync, Kind
<1>2. IsLock(lock')
  BY <1>1, TypeParts DEF FileTypes
<1>3. WorldTypes' /\ FileTypes' /\ RunTypes'
  BY TypeParts DEF StartSync, WorldTypes, FileTypes, RunTypes, files
<1>4. SectionTypes' /\ pending' = {} /\ JobInv' /\ CacheNeverWrong' /\ Accounted'
  <2> HIDE DEF IInv
  <2>1. QED
    BY <1>1, <1>2, EnterInv DEF SectionTypes
<1>5. TypeOK'
  BY <1>2, <1>3, <1>4, TypePartsAfter
<1>6. QED
  BY <1>4, <1>5
-----------------------------------------------------------------------------
(* The verbs and the outside, between runs.                                *)
LEMMA QuietInv ==
    ASSUME IInv, NEW n \in Nat, Spend(n), UNCHANGED <<phase, job>>, WorldTypes', FileTypes'
    PROVE  IInv'
<1>1. phase = "idle"
  BY DEF Spend
<1>2. JobInv' /\ CacheNeverWrong' /\ Accounted' /\ IsLock(lock')
  BY <1>1, IdleInv
<1>3. BoundTypes'
  BY ChangesSpent, TypeParts DEF IInv
<1>4. RunTypes' /\ SectionTypes' /\ pending' \subseteq CopyJob
  BY TypeParts DEF IInv, RunTypes, SectionTypes, job
<1>5. QED
  BY <1>2, <1>3, <1>4, TypePartsAfter DEF IInv

LEMMA OfferedType ==
    ASSUME WorldTypes, NEW s \in Source
    PROVE  /\ Offered(s) \in 0 .. MaxRev
           /\ Offered(s) # 0 => <<s, Offered(s)>> \in Hash
<1>1. Offered(s) \in 0 .. MaxRev
  BY RevAssumption DEF WorldTypes, Offered
<1>2. QED
  BY <1>1, RevAssumption DEF Hash

LEMMA EmptiedType ==
    ASSUME FileTypes, NEW places
    PROVE  Emptied(places) \in [Place -> Content]
  BY ContentsDiffer DEF FileTypes, Emptied

LEMMA RebuiltIsLock ==
    ASSUME IInv, \A s \in Listed(config, "skill") \ Wild : Offered(s) # 0
    PROVE  IsLock(Rebuilt)
<1>1. WorldTypes /\ IsLock(lockFile)
  BY TypeParts DEF IInv, FileTypes
<1> DEFINE wild(s) == IF Offered(s) = 0 THEN {} ELSE [kind : {"skill"}, source : {s}, name : Name]
           named(s) == {a \in config : a.kind = "skill" /\ a.source = s}
           skills == UNION {IF s \in Wild THEN wild(s) ELSE named(s) : s \in Listed(config, "skill")}
           others == {a \in DOMAIN lockFile : a.kind # "skill"}
<1>2. DOMAIN Rebuilt = skills \cup others
  BY DEF Rebuilt
<1>3. ASSUME NEW a \in skills
      PROVE  a \in Asset /\ Offered(a.source) # 0
  <2>1. PICK s \in Listed(config, "skill") : a \in IF s \in Wild THEN wild(s) ELSE named(s)
    OBVIOUS
  <2>2. s \in Source
    BY DEF Listed
  <2>3. CASE s \in Wild
    BY <2>1, <2>2, <2>3 DEF Asset, Kind
  <2>4. CASE s \notin Wild
    BY <1>1, <2>1, <2>2, <2>4 DEF WorldTypes
  <2>5. QED
    BY <2>3, <2>4
<1>4. ASSUME NEW a \in skills
      PROVE  Rebuilt[a] \in Entry
  <2>1. a.source \in Source /\ "skill" \in Kind
    BY <1>3 DEF Asset, Kind
  <2>2. <<a.source, Offered(a.source)>> \in Hash /\ label[a.source] \in Label
    BY <1>1, <1>3, <2>1, OfferedType DEF WorldTypes
  <2>3. Recorded("skill", agents) \subseteq Target
    BY <1>1, <2>1, TargetsAreTargets DEF WorldTypes
  <2>4. Rebuilt[a] = [hash |-> <<a.source, Offered(a.source)>>, label |-> label[a.source],
                      at |-> Recorded("skill", agents)]
    BY <1>2 DEF Rebuilt
  <2>5. QED
    BY <2>2, <2>3, <2>4 DEF Entry
<1>5. ASSUME NEW a \in others, a \notin skills
      PROVE  Rebuilt[a] \in Entry
  <2>1. a.source \in Source /\ lockFile[a] \in Entry
    BY <1>1 DEF IsLock, Asset
  <2>2. Rebuilt[a] = [lockFile[a] EXCEPT !.label =
            IF a.source \in Listed(config, "mcp") \cup Listed(config, "command")
            THEN label[a.source] ELSE @]
    BY <1>2, <1>5 DEF Rebuilt
  <2>3. label[a.source] \in Label
    BY <1>1, <2>1 DEF WorldTypes
  <2>4. QED
    BY <2>1, <2>2, <2>3 DEF Entry
<1>6. \A a \in others : a \in Asset
  BY <1>1 DEF IsLock
<1>7. QED
  BY <1>2, <1>3, <1>4, <1>5, <1>6 DEF IsLock

LEMMA VerbInv ==
    ASSUME IInv, Verb
    PROVE  IInv'
<1>1. WorldTypes /\ FileTypes /\ BoundTypes
  BY TypeParts DEF IInv
<1>2. ASSUME NEW s \in Source, AgentAdd(s) \/ AgentRemove(s)
      PROVE  IInv'
  <2>1. PICK n \in Nat : Spend(n)
    BY <1>2, EditsCount DEF AgentAdd, AgentRemove, Changes
  <2>2. config' \subseteq Asset /\ BoundTypes'
    BY <1>1, <1>2, <2>1, ChangesSpent
    DEF AgentAdd, AgentRemove, WorldTypes, Inserted, Removed, Selected
  <2>3. ASSUME NEW mode \in {"plain", "update", "locked"}, StartSync(mode, TRUE)
        PROVE  IInv'
    BY <2>2, <2>3, StartInv
  <2>4. ASSUME UNCHANGED <<agents, label, upstream, files, phase, job>>
        PROVE  IInv'
    <3>1. WorldTypes' /\ FileTypes' /\ UNCHANGED <<phase, job>>
      BY <1>1, <2>2, <2>4 DEF WorldTypes, FileTypes, files
    <3>2. QED
      BY <2>1, <3>1, QuietInv
  <2>5. QED
    BY <1>2, <2>3, <2>4 DEF AgentAdd, AgentRemove, SyncAfter
<1>3. CASE AgentLock
  <2>1. WorldTypes' /\ FileTypes'
    BY <1>1, <1>3, RebuiltIsLock DEF AgentLock, WorldTypes, FileTypes, world
  <2>2. QED
    BY <1>3, <2>1, QuietInv DEF AgentLock, Changes
<1>4. CASE AgentClean
  <2>1. WorldTypes' /\ FileTypes'
    BY <1>1, <1>4, EmptiedType, EmptyIsLock DEF AgentClean, WorldTypes, FileTypes, world
  <2>2. QED
    BY <1>4, <2>1, QuietInv DEF AgentClean, Changes
<1>5. QED
  BY <1>2, <1>3, <1>4 DEF Verb

LEMMA OutsideInv ==
    ASSUME IInv, Outside
    PROVE  IInv'
<1>1. WorldTypes /\ FileTypes
  BY TypeParts DEF IInv
<1>2. Changes /\ UNCHANGED <<phase, job>>
  BY DEF Outside, Repin, Rename, UserEdit, Publish
<1>3. WorldTypes' /\ FileTypes'
  <2>1. CASE Repin
    BY <1>1, <2>1 DEF Repin, WorldTypes, FileTypes, files
  <2>2. CASE Rename
    BY <1>1, <2>2 DEF Rename, WorldTypes, FileTypes, files
  <2>3. CASE UserEdit
    BY <1>1, <2>3, ContentsDiffer DEF UserEdit, WorldTypes, FileTypes, world
  <2>4. CASE Publish
    BY <1>1, <2>4 DEF Publish, WorldTypes, FileTypes, files
  <2>5. QED
    BY <2>1, <2>2, <2>3, <2>4 DEF Outside
<1>4. QED
  BY <1>2, <1>3, QuietInv DEF Changes
-----------------------------------------------------------------------------
(* Planning a source.                                                      *)
LEMMA DesiredAreAssets ==
    ASSUME WorldTypes, IsLock(lock), NEW k \in Kind, NEW s \in Source
    PROVE  /\ Desired(config, lock, k, s) \subseteq Asset
           /\ \A a \in Desired(config, lock, k, s) : a.kind = k /\ a.source = s
           /\ Named(k, s) \subseteq Asset
           /\ \A a \in Named(k, s) : a.kind = k /\ a.source = s
<1>1. /\ Desired(config, lock, k, s) \subseteq Asset
      /\ \A a \in Desired(config, lock, k, s) : a.kind = k /\ a.source = s
  BY DEF WorldTypes, IsLock, Desired, Tracked
<1>2. [kind : {k}, source : {s}, name : Name] \subseteq Asset
  BY DEF Asset
<1>3. QED
  BY <1>1, <1>2 DEF Named

(* What the config asks of a source, a fetch looks for and the lock keeps. *)
LEMMA AskedIsPlanned ==
    ASSUME NEW k \in Kind, NEW a \in DOMAIN lock, a \in Asset, a.kind = k, Asked(a)
    PROVE  a \in Named(k, a.source) /\ a \in Desired(config, lock, k, a.source)
<1>1. CASE a.source \in Wild
  BY <1>1 DEF Asset, Named, Desired, Tracked
<1>2. CASE a.source \notin Wild
  BY <1>2 DEF Asked, Named, Desired
<1>3. QED
  BY <1>1, <1>2

LEMMA QueueType ==
    ASSUME pending \subseteq CopyJob, NEW copies, copies \subseteq CopyJob, Queue(copies)
    PROVE  pending' \subseteq CopyJob /\ pending' \subseteq pending \cup copies
  BY DEF Queue

LEMMA FetchedInv ==
    ASSUME TypeOK, NEW k \in Kind, NEW s \in Source, TargetsOf(k, agents) # {}, Fetched(k, s)
    PROVE  /\ pending' \subseteq CopyJob /\ desired' \subseteq Asset
           /\ answered' = answered \cup {s}
           /\ \A c \in pending' \ pending : c.asset.kind = k /\ c.asset \in desired'
           /\ desired' = desired \cup Found(k, s)
<1>1. WorldTypes /\ IsLock(lock) /\ pending \subseteq CopyJob /\ desired \subseteq Asset
  BY TypeParts DEF SectionTypes
<1>2. Found(k, s) \subseteq Asset /\ \A a \in Found(k, s) : a.kind = k /\ a.source = s
  BY <1>1, DesiredAreAssets DEF Found
<1>3. Found(k, s) # {} => <<s, Offered(s)>> \in Hash
  BY <1>1, OfferedType DEF Found
<1>4. TargetsOf(k, agents) \in {some \in SUBSET Target : some # {}}
  <2>1. TargetsOf(k, agents) \subseteq Target
    BY <1>1, TargetsAreTargets DEF WorldTypes
  <2>2. QED
    BY <2>1
<1> DEFINE hash == <<s, Offered(s)>>
           news == {a \in Found(k, s) : ~IsUnchanged(lock, agents, Sees, a, hash)}
           copies == {Copy(a, hash, FALSE, TargetsOf(k, agents)) : a \in news}
<1>5. Queue(copies) /\ desired' = desired \cup Found(k, s) /\ answered' = answered \cup {s}
  BY DEF Fetched
<1>6. ASSUME NEW a \in news
      PROVE  /\ Copy(a, hash, FALSE, TargetsOf(k, agents)) \in CopyJob
             /\ Copy(a, hash, FALSE, TargetsOf(k, agents)).asset = a
  <2>1. a \in Asset /\ label[a.source] \in Label /\ hash \in Hash
    BY <1>1, <1>2, <1>3 DEF WorldTypes
  <2>2. QED
    BY <2>1, <1>4 DEF Copy, CopyJob
<1>7. copies \subseteq CopyJob /\ \A c \in copies : c.asset \in Found(k, s)
  BY <1>6
<1>8. pending' \subseteq CopyJob /\ pending' \subseteq pending \cup copies
  BY <1>1, <1>5, <1>7, QueueType
<1>9. QED
  BY <1>1, <1>2, <1>5, <1>7, <1>8

LEMMA FromLockInv ==
    ASSUME TypeOK, NEW k \in Kind, NEW s \in Source, FromLock(k, s),
           Desired(config, lock, k, s) \subseteq DOMAIN lock
    PROVE  /\ pending' \subseteq CopyJob /\ desired' \subseteq Asset
           /\ \A c \in pending' \ pending : c.asset.kind = k /\ c.asset \in desired'
           /\ desired' = desired \cup Desired(config, lock, k, s)
<1>1. WorldTypes /\ IsLock(lock) /\ pending \subseteq CopyJob /\ desired \subseteq Asset
  BY TypeParts DEF SectionTypes
<1>2. /\ Desired(config, lock, k, s) \subseteq Asset
      /\ \A a \in Desired(config, lock, k, s) : a.kind = k /\ a.source = s
  BY <1>1, DesiredAreAssets
<1> DEFINE wanted == Desired(config, lock, k, s)
           worn == {a \in wanted : k = "skill" /\ Worn(a) # {}}
           copies == {Copy(a, lock[a].hash, TRUE, Redone(a)) : a \in worn}
<1>3. Queue(copies) /\ desired' = desired \cup wanted
  BY DEF FromLock
<1>4. ASSUME NEW a \in worn
      PROVE  /\ Copy(a, lock[a].hash, TRUE, Redone(a)) \in CopyJob
             /\ Copy(a, lock[a].hash, TRUE, Redone(a)).asset = a
  <2>1. a \in Asset /\ label[a.source] \in Label /\ lock[a].hash \in Hash
    BY <1>1, <1>2 DEF WorldTypes, IsLock, Entry
  <2>2. Redone(a) \in {some \in SUBSET Target : some # {}}
    <3>1. Destinations(agents) \subseteq Target
      BY <1>1, TargetsAreTargets DEF WorldTypes
    <3>2. Redone(a) \subseteq Target /\ Redone(a) # {}
      BY <3>1 DEF Redone, Worn
    <3>3. QED
      BY <3>2
  <2>3. QED
    BY <2>1, <2>2 DEF Copy, CopyJob
<1>5. copies \subseteq CopyJob /\ \A c \in copies : c.asset \in wanted
  BY <1>4
<1>6. pending' \subseteq CopyJob /\ pending' \subseteq pending \cup copies
  BY <1>1, <1>3, <1>5, QueueType
<1>7. QED
  BY <1>1, <1>2, <1>3, <1>5, <1>6
-----------------------------------------------------------------------------
(* A planned source: refused, failed, fetched or taken from the lock.      *)
LEMMA PlanInv ==
    ASSUME IInv, NEW k \in Kind, NEW s \in Source, NEW isBroken \in BOOLEAN, Plan(k, s, isBroken),
           cache' \in [SkillPlace -> Content \cup {Unread}], CacheNeverWrong',
           k # "skill" => cache' = cache
    PROVE  IInv'
<1>1. /\ WorldTypes /\ FileTypes /\ RunTypes /\ SectionTypes /\ BoundTypes
      /\ IsLock(lock) /\ pending \subseteq CopyJob /\ TypeOK
  BY TypeParts DEF IInv
<1>2. phase = k /\ s \in todo /\ TargetsOf(k, agents) # {}
  BY DEF Plan, IInv, JobInv
<1>3. /\ phase' = k /\ todo' = todo \ {s} /\ lock' = lock /\ run' = run /\ calm' = calm
      /\ UNCHANGED world /\ UNCHANGED files
  BY <1>2 DEF Plan
<1> DEFINE fetch == \/ run.mode = "update"
                    \/ NeedsFetch(config, lock, label, agents, Sees, k, s)
<1>4. \/ Refuse /\ broken' = broken
      \/ FetchFails
      \/ Fetched(k, s) /\ broken' = (broken \/ isBroken)
      \/ ~fetch /\ FromLock(k, s)
  BY DEF Plan, Refuse
<1>5. WorldTypes' /\ FileTypes' /\ IsLock(lock')
  BY <1>1, <1>3 DEF WorldTypes, FileTypes, world, files
<1>6. RunTypes' /\ BoundTypes'
  <2>1. CASE Refuse
    BY <1>1, <1>3, <2>1 DEF Refuse, RunTypes, BoundTypes
  <2>2. CASE FetchFails
    <3>1. bound' \in [changes : 0 .. MaxChanges, faults : 0 .. MaxFaults]
      BY <1>1, <2>2, OneFaultLess DEF FetchFails
    <3>2. QED
      BY <1>1, <1>3, <2>2, <3>1 DEF FetchFails, RunTypes, BoundTypes
  <2>3. CASE Fetched(k, s) /\ broken' = (broken \/ isBroken)
    <3>1. broken' \in BOOLEAN
      BY <1>1, <2>3 DEF RunTypes
    <3>2. QED
      BY <1>1, <1>3, <2>3, <3>1 DEF Fetched, RunTypes, BoundTypes
  <2>4. CASE FromLock(k, s)
    BY <1>1, <1>3, <2>4 DEF FromLock, RunTypes, BoundTypes
  <2>5. QED
    BY <1>4, <2>1, <2>2, <2>3, <2>4
<1>7. ~fetch => Desired(config, lock, k, s) \subseteq DOMAIN lock
  BY DEF NeedsFetch
<1>8. /\ pending' \subseteq CopyJob /\ desired' \subseteq Asset /\ answered' \subseteq Source
      /\ desired \subseteq desired' /\ answered \subseteq answered'
      /\ \A c \in pending' \ pending : c.asset.kind = k /\ c.asset \in desired'
  <2>1. CASE Refuse \/ FetchFails
    BY <1>1, <2>1 DEF Refuse, FetchFails, SectionTypes
  <2>2. CASE Fetched(k, s)
    BY <1>1, <1>2, <2>2, FetchedInv DEF SectionTypes
  <2>3. CASE ~fetch /\ FromLock(k, s)
    <3>1. answered' = answered
      BY <2>3 DEF FromLock
    <3>2. QED
      BY <1>1, <1>7, <2>3, <3>1, FromLockInv DEF SectionTypes
  <2>4. QED
    BY <1>4, <2>1, <2>2, <2>3
<1>9. TypeOK'
  <2>1. SectionTypes'
    BY <1>1, <1>3, <1>8 DEF SectionTypes, Phase, Kind
  <2>2. QED
    BY <1>5, <1>6, <1>8, <2>1, TypePartsAfter
<1>10. JobInv'
  <2>1. agents' = agents /\ phase' = phase /\ phase # "idle"
    BY <1>2, <1>3 DEF world, Kind
  <2>2. phase' # "skill" => cache' = Rest
    BY <1>2, <2>1 DEF IInv, JobInv
  <2>3. \A c \in pending' : c.asset.kind = phase' /\ c.asset \in desired'
    BY <1>2, <1>8, <2>1 DEF IInv, JobInv
  <2>4. ~run'.apply => pending' = {}
    BY <1>3, <1>4 DEF Refuse, FetchFails, Fetched, FromLock, Queue, IInv, JobInv
  <2>5. QED
    BY <1>2, <2>1, <2>2, <2>3, <2>4 DEF JobInv, Rest
<1>11. Accounted'
  <2> SUFFICES ASSUME ~failed', NEW a \in DOMAIN lock', a.kind = k, Asked(a)'
               PROVE  \/ a.source \in todo' \/ a \in desired'
                      \/ a.source \in answered' /\ Offered(a.source)' = 0
    BY <1>2, <1>3 DEF Accounted
  <2>1. a \in DOMAIN lock /\ a \in Asset /\ Asked(a) /\ Offered(a.source)' = Offered(a.source)
    BY <1>1, <1>3 DEF IsLock, Asked, Listed, Offered, world
  <2>2. failed' = failed
    BY <1>1, <1>4 DEF Refuse, FetchFails, Fetched, FromLock, RunTypes
  <2>3. \/ a.source \in todo \/ a \in desired
        \/ a.source \in answered /\ Offered(a.source) = 0
    BY <1>2, <2>1, <2>2 DEF IInv, Accounted
  <2>4. CASE a.source # s
    BY <1>3, <1>8, <2>1, <2>3, <2>4
  <2>5. CASE a.source = s
    <3>1. a \in Named(k, s) /\ a \in Desired(config, lock, k, s)
      BY <2>1, <2>5, AskedIsPlanned
    <3>2. CASE Fetched(k, s)
      <4>1. desired' = desired \cup Found(k, s) /\ answered' = answered \cup {s}
        BY <1>1, <1>2, <3>2, FetchedInv
      <4>2. QED
        BY <2>1, <2>5, <3>1, <4>1 DEF Found
    <3>3. CASE ~fetch /\ FromLock(k, s)
      BY <1>1, <1>7, <3>1, <3>3, FromLockInv
    <3>4. ~Refuse /\ ~FetchFails
      BY DEF Refuse, FetchFails
    <3>5. QED
      BY <1>4, <3>2, <3>3, <3>4
  <2>6. QED
    BY <2>4, <2>5
<1>12. QED
  BY <1>9, <1>10, <1>11 DEF IInv

LEMMA SeesIsContent ==
    ASSUME TypeOK, CacheNeverWrong, NEW p \in SkillPlace
    PROVE  Sees[p] \in Content /\ Sees[p] \in {Absent, disk[p]}
<1>1. p \in Place /\ disk[p] \in Content /\ cache[p] \in Content \cup {Unread}
  BY TypeParts DEF FileTypes, SectionTypes, SkillPlace
<1>2. QED
  BY <1>1 DEF Sees, CacheNeverWrong

LEMMA PlanStepInv ==
    ASSUME IInv, NEW s \in Source, PlanSkills(s) \/ PlanCommands(s) \/ PlanPacks(s)
    PROVE  IInv'
<1>1. cache \in [SkillPlace -> Content \cup {Unread}]
  BY TypeParts DEF IInv, SectionTypes
<1>2. CASE PlanSkills(s)
  <2>1. Plan("skill", s, s \notin Wild /\ Found("skill", s) = {}) /\ disk' = disk
    BY <1>2 DEF PlanSkills, Plan, files
  <2>2. cache' = Looked(Desired(config, lock, "skill", s))
    BY <1>2 DEF PlanSkills
  <2>3. ASSUME NEW p \in SkillPlace
        PROVE  cache'[p] \in Content \cup {Unread} /\ cache'[p] \in {Unread, Absent, disk[p]}
    <3>1. cache'[p] \in {Sees[p], cache[p]}
      BY <2>2 DEF Looked
    <3>2. QED
      BY <1>1, <3>1, SeesIsContent DEF IInv, CacheNeverWrong
  <2>4. cache' \in [SkillPlace -> Content \cup {Unread}] /\ CacheNeverWrong'
    BY <2>1, <2>2, <2>3 DEF CacheNeverWrong, Looked
  <2>5. QED
    BY <2>1, <2>4, PlanInv DEF Kind
<1>3. CASE PlanCommands(s)
  <2>1. /\ Plan("command", s, Found("command", s) = {}) /\ cache' = cache /\ disk' = disk
    BY <1>3 DEF PlanCommands, Plan, files
  <2>2. CacheNeverWrong'
    BY <2>1 DEF IInv, CacheNeverWrong
  <2>3. QED
    BY <1>1, <2>1, <2>2, PlanInv DEF Kind
<1>4. CASE PlanPacks(s)
  <2>1. /\ Plan("mcp", s, Found("mcp", s) = {}) /\ cache' = cache /\ disk' = disk
    BY <1>4 DEF PlanPacks, Plan, files
  <2>2. CacheNeverWrong'
    BY <2>1 DEF IInv, CacheNeverWrong
  <2>3. QED
    BY <1>1, <2>1, <2>2, PlanInv DEF Kind
<1>5. QED
  BY <1>2, <1>3, <1>4
-----------------------------------------------------------------------------
(* The copies.                                                             *)
LEMMA TurnFacts ==
    ASSUME IInv, NEW k, NEW c \in pending, NEW t \in Target, Turn(k, c, t)
    PROVE  /\ phase = k /\ k \in Kind /\ c \in CopyJob /\ c.asset.kind = k /\ c.asset \in desired
           /\ t \in c.left /\ At(c.asset, t) \in Place /\ At(c.asset, t).kind = k
<1>1. c \in CopyJob
  BY TypeParts DEF IInv
<1>2. t \in c.left
  BY <1>1, FirstIsMember DEF Turn, CopyJob
<1>3. phase = k /\ c.asset.kind = k /\ c.asset \in desired
  BY DEF Turn, IInv, JobInv
<1>4. c.asset \in Asset
  BY <1>1 DEF CopyJob
<1>5. k \in Kind
  BY <1>3, <1>4 DEF Asset
<1>6. QED
  BY <1>1, <1>2, <1>3, <1>4, <1>5, AtIsPlace

LEMMA TickedType ==
    ASSUME pending \subseteq CopyJob, NEW c \in pending, NEW t \in c.left
    PROVE  /\ Ticked(c, t) \subseteq CopyJob
           /\ \A d \in Ticked(c, t) : \E e \in pending : d.asset = e.asset
<1> DEFINE rest == [c EXCEPT !.left = @ \ {t}]
<1>1. c \in CopyJob
  OBVIOUS
<1>2. c.left # {t} => rest \in CopyJob
  <2>1. c.left # {t} => c.left \ {t} \in {some \in SUBSET Target : some # {}}
    BY <1>1 DEF CopyJob
  <2>2. QED
    BY <1>1, <2>1 DEF CopyJob
<1>3. rest.asset = c.asset
  BY <1>1 DEF CopyJob
<1>4. QED
  BY <1>2, <1>3 DEF Ticked

LEMMA RecordType ==
    ASSUME WorldTypes, IsLock(lock), NEW c \in CopyJob, NEW t
    PROVE  IsLock(Record(c, t)) /\ DOMAIN Record(c, t) \subseteq DOMAIN lock \cup {c.asset}
<1> DEFINE e == [hash |-> c.hash, label |-> c.label, at |-> Recorded(c.asset.kind, agents)]
<1>1. c.asset \in Asset /\ c.asset.kind \in Kind /\ c.hash \in Hash /\ c.label \in Label
  BY DEF CopyJob, Asset
<1>2. e \in Entry
  BY <1>1, TargetsAreTargets DEF WorldTypes, Entry
<1>3. IsLock(WithEntry(lock, c.asset, e)) /\ DOMAIN WithEntry(lock, c.asset, e) = DOMAIN lock \cup {c.asset}
  BY <1>1, <1>2, WithEntryIsLock
<1>4. QED
  BY <1>3 DEF Record

(* What the copies have in common: they go through the pending ones and    *)
(* record only what is desired.                                            *)
LEMMA CopyInv ==
    ASSUME IInv, phase \in Kind, UNCHANGED <<world, phase, run, todo, desired, answered, broken, calm>>,
           FileTypes', BoundTypes', failed' \in BOOLEAN, failed' \/ failed' = failed,
           IsLock(lock'), DOMAIN lock' \subseteq DOMAIN lock \cup desired,
           pending' \subseteq CopyJob, \A d \in pending' : \E e \in pending : d.asset = e.asset,
           cache' \in [SkillPlace -> Content \cup {Unread}], CacheNeverWrong',
           phase # "skill" => cache' = cache
    PROVE  IInv'
<1>1. /\ WorldTypes /\ RunTypes /\ SectionTypes
  BY TypeParts DEF IInv
<1>2. WorldTypes' /\ RunTypes' /\ SectionTypes'
  BY <1>1 DEF WorldTypes, RunTypes, SectionTypes, world
<1>3. TypeOK'
  BY <1>2, TypePartsAfter
<1>4. JobInv'
  <2>1. agents' = agents /\ phase # "idle"
    BY DEF world, Kind
  <2>2. phase # "skill" => cache' = Rest
    BY DEF IInv, JobInv
  <2>3. \A d \in pending' : d.asset.kind = phase /\ d.asset \in desired
    BY DEF IInv, JobInv
  <2>4. QED
    BY <2>1, <2>2, <2>3 DEF IInv, JobInv, Rest
<1>5. Accounted'
  <2> SUFFICES ASSUME ~failed', TargetsOf(phase, agents) # {},
                      NEW a \in DOMAIN lock', a.kind = phase, Asked(a)'
               PROVE  \/ a.source \in todo \/ a \in desired
                      \/ a.source \in answered /\ Offered(a.source)' = 0
    BY DEF Accounted, world
  <2>1. Asked(a) /\ Offered(a.source)' = Offered(a.source)
    BY DEF Asked, Listed, Offered, world
  <2>2. a \in DOMAIN lock \/ a \in desired
    OBVIOUS
  <2>3. ~failed
    OBVIOUS
  <2>4. QED
    BY <2>1, <2>2, <2>3 DEF IInv, Accounted
<1>6. QED
  BY <1>3, <1>4, <1>5 DEF IInv

LEMMA SkillPlaces == \A p \in Place : p \in SkillPlace <=> p.kind = "skill"
  BY DEF SkillPlace

LEMMA CopyStepInv ==
    ASSUME IInv, NEW c \in pending, NEW t \in Target,
           CopySkill(c, t) \/ WriteCommand(c, t) \/ MergePack(c, t) \/ CopyFails(c, t)
    PROVE  IInv'
<1> DEFINE p == At(c.asset, t)
<1>1. /\ WorldTypes /\ FileTypes /\ RunTypes /\ SectionTypes /\ BoundTypes
      /\ IsLock(lock) /\ pending \subseteq CopyJob
  BY TypeParts DEF IInv
<1>2. Turn(phase, c, t)
  BY DEF CopySkill, WriteCommand, MergePack, CopyFails, Turn
<1>3. /\ phase \in Kind /\ c \in CopyJob /\ c.asset \in desired /\ t \in c.left
      /\ p \in Place /\ p.kind = phase
  BY <1>2, TurnFacts
<1>4. /\ Ticked(c, t) \subseteq CopyJob
      /\ \A d \in Ticked(c, t) : \E e \in pending : d.asset = e.asset
  BY <1>1, <1>3, TickedType
<1>5. IsLock(Record(c, t)) /\ DOMAIN Record(c, t) \subseteq DOMAIN lock \cup desired
  BY <1>1, <1>3, RecordType
<1>6. c.hash \in Content /\ Torn \in Content /\ Absent \in Content
  BY <1>3, ContentsDiffer DEF CopyJob
<1>7. cache \in [SkillPlace -> Content \cup {Unread}] /\ disk \in [Place -> Content] /\ IsLock(lockFile)
  BY <1>1 DEF SectionTypes, FileTypes
<1>8. CASE CopySkill(c, t)
  <2>1. /\ UNCHANGED <<world, phase, run, todo, desired, answered, broken, calm>>
        /\ lockFile' = lockFile /\ bound' = bound /\ failed' = failed /\ calm' = calm
        /\ pending' = Ticked(c, t) /\ lock' \in {lock, Record(c, t)}
        /\ disk' = [disk EXCEPT ![p] = c.hash] /\ cache' = [cache EXCEPT ![p] = c.hash] /\ phase = "skill"
    BY <1>8 DEF CopySkill, Copying, Turn
  <2>2. FileTypes' /\ BoundTypes' /\ failed' \in BOOLEAN
    BY <1>1, <1>6, <1>7, <2>1 DEF FileTypes, BoundTypes, RunTypes
  <2>3. cache' \in [SkillPlace -> Content \cup {Unread}]
    BY <1>6, <1>7, <2>1
  <2>4. CacheNeverWrong'
    BY <1>3, <1>7, <2>1, SkillPlaces DEF IInv, CacheNeverWrong, SkillPlace
  <2>5. IsLock(lock') /\ DOMAIN lock' \subseteq DOMAIN lock \cup desired
    BY <1>1, <1>5, <2>1
  <2>6. QED
    BY <1>3, <1>4, <2>1, <2>2, <2>3, <2>4, <2>5, CopyInv
<1>9. CASE WriteCommand(c, t) \/ MergePack(c, t)
  <2>1. /\ UNCHANGED <<world, phase, run, todo, desired, answered, broken, calm>>
        /\ lockFile' = lockFile /\ bound' = bound /\ failed' = failed /\ calm' = calm
        /\ pending' = Ticked(c, t) /\ lock' = Record(c, t) /\ cache' = cache /\ phase # "skill"
    BY <1>9 DEF WriteCommand, MergePack, Copying, Turn
  <2>2. \E x \in Content : disk' = [disk EXCEPT ![p] = x]
    BY <1>3, <1>6, <1>7, <1>9 DEF WriteCommand, MergePack, Merged
  <2>3. FileTypes' /\ BoundTypes' /\ failed' \in BOOLEAN
    BY <1>1, <1>7, <2>1, <2>2 DEF FileTypes, BoundTypes, RunTypes
  <2>4. CacheNeverWrong'
    BY <1>3, <1>7, <2>1, <2>2, SkillPlaces DEF IInv, CacheNeverWrong, SkillPlace
  <2>5. QED
    BY <1>3, <1>4, <1>5, <1>7, <2>1, <2>3, <2>4, CopyInv
<1>10. CASE CopyFails(c, t)
  <2>1. /\ UNCHANGED <<world, phase, run, todo, desired, answered, broken, calm>>
        /\ lockFile' = lockFile /\ failed' = TRUE /\ lock' = lock /\ pending' = pending \ {c}
        /\ cache' = Invalidate(p)
    BY <1>10 DEF CopyFails
  <2>2. disk' = disk \/ Tear(p)
    BY <1>10 DEF CopyFails
  <2>3. bound' = bound \/ (bound.faults > 0 /\ bound' = [bound EXCEPT !.faults = @ - 1])
    BY <1>10 DEF CopyFails
  <2>4. disk' \in [Place -> Content] /\ \A q \in Place : q.kind # p.kind => disk'[q] = disk[q]
    BY <1>6, <1>7, <2>2 DEF Tear
  <2>5. p.kind = "skill" => \A q \in Place : q # p => disk'[q] = disk[q]
    BY <1>7, <2>2 DEF Tear
  <2>6. FileTypes' /\ BoundTypes'
    <3>1. bound' \in [changes : 0 .. MaxChanges, faults : 0 .. MaxFaults]
      BY <1>1, <2>3, OneFaultLess DEF BoundTypes
    <3>2. QED
      BY <1>1, <1>7, <2>1, <2>4, <3>1 DEF FileTypes, BoundTypes
  <2>7. cache' \in [SkillPlace -> Content \cup {Unread}] /\ (phase # "skill" => cache' = cache)
    BY <1>6, <1>7, <2>1 DEF Invalidate
  <2>8. CacheNeverWrong'
    BY <1>3, <1>7, <2>1, <2>4, <2>5, SkillPlaces DEF IInv, CacheNeverWrong, Invalidate, SkillPlace
  <2>9. QED
    BY <1>1, <1>3, <2>1, <2>6, <2>7, <2>8, CopyInv
<1>11. QED
  BY <1>8, <1>9, <1>10
-----------------------------------------------------------------------------
(* The prunes, and the ends of a run.                                      *)
LEMMA PruneTypes ==
    ASSUME IInv, NEW k \in Kind, NEW vacated, RemoveStale(k, vacated)
    PROVE  /\ WorldTypes' /\ FileTypes' /\ RunTypes' /\ BoundTypes' /\ IsLock(lock')
           /\ agents' = agents /\ phase = k
<1>1. WorldTypes /\ FileTypes /\ RunTypes /\ BoundTypes /\ IsLock(lock)
  BY TypeParts DEF IInv
<1>2. disk' \in [Place -> Content] /\ IsLock(lock')
  <2>1. CASE run.apply
    <3>1. disk' = Emptied(vacated) /\ lock' = Without(lock, Stale(k))
      BY <2>1 DEF RemoveStale
    <3>2. Emptied(vacated) \in [Place -> Content]
      BY <1>1, EmptiedType
    <3>3. IsLock(Without(lock, Stale(k)))
      BY <1>1, WithoutIsLock
    <3>4. QED
      BY <3>1, <3>2, <3>3
  <2>2. CASE ~run.apply
    BY <1>1, <2>2 DEF RemoveStale, FileTypes
  <2>3. QED
    BY <2>1, <2>2
<1>3. QED
  BY <1>1, <1>2 DEF RemoveStale, WorldTypes, FileTypes, RunTypes, BoundTypes, world

LEMMA PruneInv ==
    ASSUME IInv, PruneSkills \/ PruneCommands \/ PrunePacks
    PROVE  IInv'
<1>1. CASE PruneSkills \/ PruneCommands
  <2>1. PICK k \in {"command", "mcp"}, j \in Kind : Enter(k) /\ \E v : RemoveStale(j, v)
    BY <1>1, Zenon DEF PruneSkills, PruneCommands, Kind
  <2>2. k \in Kind
    BY <2>1 DEF Kind
  <2>3. WorldTypes' /\ FileTypes' /\ RunTypes' /\ BoundTypes' /\ IsLock(lock') /\ agents' = agents
    BY <2>1, PruneTypes
  <2>4. SectionTypes' /\ pending' = {} /\ JobInv' /\ CacheNeverWrong' /\ Accounted'
    BY <2>1, <2>2, <2>3, EnterInv DEF SectionTypes
  <2>5. QED
    BY <2>3, <2>4, TypePartsAfter DEF IInv
<1>2. CASE PrunePacks
  <2>1. "mcp" \in Kind /\ "save" \notin Kind /\ "save" \in Phase /\ "save" # "idle" /\ "save" # "skill"
    BY DEF Kind, Phase
  <2>2. PICK v : RemoveStale("mcp", v)
    BY <1>2 DEF PrunePacks
  <2>3. WorldTypes' /\ FileTypes' /\ RunTypes' /\ BoundTypes' /\ IsLock(lock') /\ phase = "mcp"
    BY <2>1, <2>2, PruneTypes
  <2>4. /\ phase' = "save" /\ cache' = cache /\ todo' = todo /\ pending' = pending
        /\ desired' = desired /\ answered' = answered /\ pending = {}
    BY <1>2 DEF PrunePacks, RemoveStale
  <2>5. cache' = Rest
    BY <2>3, <2>4 DEF IInv, JobInv
  <2>6. SectionTypes'
    BY <2>1, <2>4, TypeParts DEF IInv, SectionTypes
  <2>7. JobInv' /\ Accounted'
    BY <2>1, <2>4, <2>5 DEF JobInv, Accounted, Rest
  <2>8. CacheNeverWrong'
    BY <2>5, UnreadCache DEF CacheNeverWrong
  <2>9. QED
    BY <2>3, <2>4, <2>6, <2>7, <2>8, TypePartsAfter DEF IInv
<1>3. QED
  BY <1>1, <1>2

LEMMA ForgetInv ==
    ASSUME IInv, Forget, UNCHANGED world, FileTypes', BoundTypes'
    PROVE  IInv'
<1>1. /\ phase' = "idle" /\ lock' = EmptyLock /\ cache' = Rest /\ todo' = {} /\ pending' = {}
      /\ desired' = {} /\ answered' = {}
  BY DEF Forget
<1>2. RunTypes'
  BY Zenon DEF Forget, RunTypes
<1>3. WorldTypes'
  BY TypeParts DEF IInv, WorldTypes, world
<1>4. SectionTypes'
  BY <1>1, UnreadCache DEF SectionTypes, Phase
<1>5. JobInv' /\ Accounted'
  BY <1>1 DEF JobInv, Accounted, Kind, Rest
<1>6. CacheNeverWrong'
  BY <1>1, UnreadCache DEF CacheNeverWrong
<1>7. QED
  BY <1>1, <1>2, <1>3, <1>4, <1>5, <1>6, EmptyIsLock, TypePartsAfter DEF IInv

LEMMA EndInv ==
    ASSUME IInv, Finish \/ Crash
    PROVE  IInv'
<1>1. FileTypes /\ BoundTypes /\ IsLock(lock)
  BY TypeParts DEF IInv
<1>2. CASE Finish
  <2>1. Min({calm + 1, 2}) \in 0 .. 2
    <3>1. calm \in 0 .. 2
      BY <1>1 DEF BoundTypes
    <3>2. \E m \in {calm + 1, 2} : \A n \in {calm + 1, 2} : m <= n
      <4>1. CASE calm + 1 <= 2
        BY <3>1, <4>1
      <4>2. CASE ~(calm + 1 <= 2)
        BY <3>1, <4>2
      <4>3. QED
        BY <4>1, <4>2
    <3>3. Min({calm + 1, 2}) \in {calm + 1, 2} /\ Min({calm + 1, 2}) <= 2
      BY <3>1, <3>2 DEF Min
    <3>4. QED
      BY <3>1, <3>3
  <2>2. FileTypes' /\ BoundTypes'
    BY <1>1, <1>2, <2>1 DEF Finish, FileTypes, BoundTypes
  <2>3. QED
    BY <1>2, <2>2, ForgetInv DEF Finish
<1>3. CASE Crash
  <2>1. BoundTypes'
    BY <1>1, <1>3, OneFaultLess DEF Crash, BoundTypes
  <2>2. FileTypes'
    BY <1>1, <1>3, ContentsDiffer, EmptyIsLock DEF Crash, FileTypes, Tear, files
  <2>3. QED
    BY <1>3, <2>1, <2>2, ForgetInv DEF Crash
<1>4. QED
  BY <1>2, <1>3

LEMMA StepInv == IInv /\ [Next]_vars => IInv'
<1> SUFFICES ASSUME IInv, [Next]_vars
             PROVE  IInv'
  OBVIOUS
<1>1. CASE Sync
  <2>1. config' \subseteq Asset /\ BoundTypes'
    BY <1>1, TypeParts DEF Sync, IInv, WorldTypes, BoundTypes
  <2>2. QED
    BY <1>1, <2>1, StartInv DEF Sync
<1>2. CASE Section
  BY <1>2, PlanStepInv, CopyStepInv, PruneInv DEF Section
<1>3. CASE Finish \/ Crash
  BY <1>3, EndInv
<1>4. CASE Verb
  BY <1>4, VerbInv
<1>5. CASE Outside
  BY <1>5, OutsideInv
<1>6. CASE UNCHANGED vars
  <2> USE DEF vars, world, files, job
  <2>1. TypeOK'
    BY <1>6 DEF IInv, TypeOK
  <2>2. JobInv' /\ CacheNeverWrong'
    BY <1>6 DEF IInv, JobInv, CacheNeverWrong, Rest
  <2>3. Accounted'
    BY <1>6 DEF IInv, Accounted, Asked, Listed, Offered
  <2>4. QED
    BY <2>1, <2>2, <2>3 DEF IInv
<1>7. QED
  BY <1>1, <1>2, <1>3, <1>4, <1>5, <1>6 DEF Next

LEMMA Inductive == Spec => []IInv
  BY InitInv, StepInv, PTL DEF Spec

(* Every variable keeps its type: the lock holds only assets of sources,   *)
(* with a hash a source once had, whatever a sync was interrupted by.      *)
THEOREM TypeCorrect == Spec => []TypeOK
  BY Inductive, PTL DEF IInv

(* HashCache never claims a skill directory holds what it does not.        *)
THEOREM CacheTruthful == Spec => []CacheNeverWrong
  BY Inductive, PTL DEF IInv
-----------------------------------------------------------------------------
(* Which steps touch the files of a preview, a server of the user, the     *)
(* lock in memory.                                                         *)
LEMMA PreviewStep ==
    ASSUME IInv, [Next]_vars, phase # "idle", ~run.apply
    PROVE  UNCHANGED files
<1>1. pending = {}
  BY DEF IInv, JobInv
<1>2. CASE Sync \/ Verb \/ Outside
  <2>1. phase = "idle"
    BY <1>2 DEF Sync, StartSync, Verb, AgentAdd, AgentRemove, AgentLock, AgentClean, Changes, Spend,
                Outside, Repin, Rename, UserEdit, Publish
  <2>2. QED
    BY <2>1
<1>3. CASE Section
  <2>1. CASE \E s \in Source : PlanSkills(s) \/ PlanCommands(s) \/ PlanPacks(s)
    BY <2>1 DEF PlanSkills, PlanCommands, PlanPacks, Plan
  <2>2. CASE PruneSkills \/ PruneCommands \/ PrunePacks
    BY <2>2 DEF PruneSkills, PruneCommands, PrunePacks, RemoveStale, files
  <2>3. QED
    BY <1>1, <1>3, <2>1, <2>2 DEF Section
<1>4. CASE Finish
  BY <1>4 DEF Finish, files
<1>5. CASE Crash
  BY <1>1, <1>5 DEF Crash
<1>6. CASE UNCHANGED vars
  BY <1>6 DEF vars
<1>7. QED
  BY <1>2, <1>3, <1>4, <1>5, <1>6 DEF Next

(* A preview never writes: neither an installed file nor the lock file.    *)
THEOREM PreviewIsPure == Spec => PreviewWritesNothing
<1>1. IInv /\ [Next]_vars => [phase # "idle" /\ ~run.apply => UNCHANGED files]_vars
  BY PreviewStep
<1>2. QED
  BY <1>1, Inductive, PTL DEF Spec, PreviewWritesNothing

(* The lock in memory only grows, but for the prune of a section.          *)
LEMMA LockShrinks ==
    ASSUME IInv, [Next]_vars, phase' # "idle", NEW a \in DOMAIN lock, a \notin DOMAIN lock'
    PROVE  /\ a \in Stale(phase) /\ phase \in Kind /\ todo = {}
<1>1. IsLock(lock) /\ WorldTypes /\ pending \subseteq CopyJob
  BY TypeParts DEF IInv
<1>2. phase # "idle"
  BY EmptyIsLock DEF IInv, JobInv
<1>3. CASE Sync \/ Verb \/ Outside
  <2>1. phase = "idle"
    BY <1>3 DEF Sync, StartSync, Verb, AgentAdd, AgentRemove, AgentLock, AgentClean, Changes, Spend,
                Outside, Repin, Rename, UserEdit, Publish
  <2>2. QED
    BY <1>2, <2>1
<1>4. CASE Section
  <2>1. CASE \E s \in Source : PlanSkills(s) \/ PlanCommands(s) \/ PlanPacks(s)
    BY <2>1 DEF PlanSkills, PlanCommands, PlanPacks, Plan
  <2>2. ASSUME NEW c \in pending, NEW t \in Target,
               CopySkill(c, t) \/ WriteCommand(c, t) \/ MergePack(c, t) \/ CopyFails(c, t)
        PROVE  FALSE
    <3>1. lock' \in {lock, Record(c, t)}
      BY <2>2 DEF CopySkill, WriteCommand, MergePack, CopyFails
    <3>2. DOMAIN lock \subseteq DOMAIN Record(c, t)
      BY DEF Record, WithEntry
    <3>3. QED
      BY <3>1, <3>2
  <2>3. ASSUME NEW k \in Kind, NEW v, RemoveStale(k, v)
        PROVE  a \in Stale(phase) /\ phase \in Kind /\ todo = {}
    <3>1. phase = k /\ todo = {} /\ lock' \in {lock, Without(lock, Stale(k))}
      BY <2>3 DEF RemoveStale
    <3>2. QED
      BY <1>1, <3>1, WithoutIsLock
  <2>4. CASE PruneSkills \/ PruneCommands \/ PrunePacks
    BY <2>3, <2>4 DEF PruneSkills, PruneCommands, PrunePacks, Kind
  <2>5. QED
    BY <1>4, <2>1, <2>2, <2>4 DEF Section
<1>5. CASE Finish \/ Crash
  BY <1>5 DEF Finish, Crash, Forget
<1>6. CASE UNCHANGED vars
  BY <1>6 DEF vars, job
<1>7. QED
  BY <1>3, <1>4, <1>5, <1>6 DEF Next

LEMMA KeptStep ==
    ASSUME IInv, [Next]_vars, phase' # "idle", NEW a \in DOMAIN lock \ DOMAIN lock', Asked(a)
    PROVE  \/ a.source \in answered /\ Offered(a.source) = 0
           \/ a.kind = "mcp" /\ agents = {}
<1>1. a \in Stale(phase) /\ phase \in Kind /\ todo = {}
  BY LockShrinks
<1>2. a.kind = phase /\ a \notin desired /\ Prunes(phase)
  BY <1>1 DEF Stale
<1>3. a \in Asset /\ agents \subseteq Target
  BY TypeParts DEF IInv, IsLock, WorldTypes
<1>4. Listed(config, phase) # {}
  BY <1>2, <1>3, AskedIsListed
<1>5. CASE ~failed /\ TargetsOf(phase, agents) # {}
  BY <1>1, <1>2, <1>5 DEF IInv, Accounted
<1>6. CASE failed
  BY <1>2, <1>4, <1>6 DEF Prunes
<1>7. CASE TargetsOf(phase, agents) = {}
  <2>1. phase # "skill" /\ agents = {}
    BY <1>1, <1>3, <1>7, TargetsAreTargets DEF TargetsOf
  <2>2. QED
    BY <1>2, <1>4, <2>1 DEF Prunes
<1>8. QED
  BY <1>5, <1>6, <1>7

(* The prune takes nothing the config asks for out of the lock but on its  *)
(* source's own answer, however many other sources failed.                 *)
THEOREM AskedIsKept == Spec => KeptWhileAsked
<1> DEFINE Kept == phase' # "idle" => \A a \in DOMAIN lock \ DOMAIN lock' :
         Asked(a) => \/ a.source \in answered /\ Offered(a.source) = 0
                     \/ a.kind = "mcp" /\ agents = {}
<1>1. IInv /\ [Next]_vars => [Kept]_vars
  BY KeptStep
<1>2. QED
  BY <1>1, Inductive, PTL DEF Spec, KeptWhileAsked
-----------------------------------------------------------------------------
(* What may happen to a server the user added: nothing, a torn file, or    *)
(* the removal of a tracked pack that provides the name.                   *)
Taken(p) == /\ disk'[p] = Absent
            /\ \E a \in DOMAIN lock \cup DOMAIN lockFile : a.kind = "mcp" /\ a.name = p.name

LEMMA PrunedServers ==
    ASSUME IInv, NEW k \in Kind, NEW v, RemoveStale(k, v), NEW p \in Place, p.kind = "mcp",
           disk[p] = User, disk'[p] \notin {User, Torn},
           \A q \in v : \E a \in Stale(k), t \in Target : q = At(a, t)
    PROVE  Taken(p)
<1>1. IsLock(lock)
  BY TypeParts DEF IInv
<1>2. disk' = Emptied(v) /\ p \in v /\ disk'[p] = Absent
  BY DEF RemoveStale, Emptied
<1>3. PICK a \in Stale(k), t \in Target : p = At(a, t)
  BY <1>2
<1>4. a \in DOMAIN lock /\ a \in Asset
  BY <1>1 DEF Stale, IsLock
<1>5. a.kind = "mcp" /\ a.name = p.name
  BY <1>3, <1>4, AtIsPlace
<1>6. QED
  BY <1>2, <1>4, <1>5 DEF Taken

LEMMA RecordedInTargets ==
    ASSUME IInv, NEW as, as \subseteq DOMAIN lock
    PROVE  \A q \in RecordedPlaces(as) : \E a \in as, t \in Target : q = At(a, t)
<1>1. \A a \in as : lock[a].at \subseteq Target
  BY TypeParts DEF IInv, IsLock, Entry
<1>2. QED
  BY <1>1 DEF RecordedPlaces

LEMMA ServersInTargets ==
    ASSUME NEW as, NEW among \in SUBSET Target
    PROVE  \A q \in ServerPlaces(as, among) : \E a \in as, t \in Target : q = At(a, t)
  BY DEF ServerPlaces

LEMMA LostStep ==
    ASSUME IInv, [Next]_vars, NEW p \in Place, p.kind = "mcp",
           disk[p] = User, disk'[p] \notin {User, Torn}
    PROVE  Taken(p)
<1>1. /\ WorldTypes /\ IsLock(lock) /\ IsLock(lockFile) /\ disk \in [Place -> Content]
      /\ pending \subseteq CopyJob
  BY TypeParts DEF IInv, FileTypes
<1>2. disk' # disk
  OBVIOUS
<1>3. ASSUME NEW c \in pending, NEW t \in Target,
             CopySkill(c, t) \/ WriteCommand(c, t) \/ MergePack(c, t) \/ CopyFails(c, t)
      PROVE  FALSE
  <2> DEFINE q == At(c.asset, t)
  <2>1. Turn(phase, c, t)
    BY <1>3 DEF CopySkill, WriteCommand, MergePack, CopyFails, Turn
  <2>2. q \in Place /\ q.kind = phase
    BY <2>1, TurnFacts
  <2>3. CASE CopySkill(c, t) \/ WriteCommand(c, t)
    BY <1>1, <2>2, <2>3 DEF CopySkill, WriteCommand, Turn
  <2>4. CASE MergePack(c, t)
    BY <1>1, <2>2, <2>4, ContentsDiffer DEF MergePack, Merged
  <2>5. CASE CopyFails(c, t)
    BY <1>1, <2>2, <2>5 DEF CopyFails, Tear
  <2>6. QED
    BY <1>3, <2>3, <2>4, <2>5
<1>4. CASE PruneSkills \/ PruneCommands \/ PrunePacks
  <2>1. \A k \in Kind : Stale(k) \subseteq DOMAIN lock
    BY DEF Stale
  <2>2. (IF agents = {} THEN Target ELSE agents) \in SUBSET Target
    BY <1>1 DEF WorldTypes
  <2>3. CASE PruneSkills
    BY <2>1, <2>3, PrunedServers, RecordedInTargets DEF PruneSkills, Kind
  <2>4. CASE PruneCommands
    BY <2>1, <2>4, PrunedServers, RecordedInTargets DEF PruneCommands, Kind
  <2>5. CASE PrunePacks
    BY <2>2, <2>5, PrunedServers, ServersInTargets DEF PrunePacks, Kind
  <2>6. QED
    BY <1>4, <2>3, <2>4, <2>5
<1>5. CASE Section
  <2>1. CASE \E s \in Source : PlanSkills(s) \/ PlanCommands(s) \/ PlanPacks(s)
    BY <1>2, <2>1 DEF PlanSkills, PlanCommands, PlanPacks, Plan, files
  <2>2. QED
    BY <1>3, <1>4, <1>5, <2>1 DEF Section
<1>6. CASE Crash
  <2>1. ASSUME NEW q, Tear(q)
        PROVE  FALSE
    BY <1>1, <2>1 DEF Tear
  <2>2. QED
    BY <1>2, <1>6, <2>1 DEF Crash, files
<1>7. CASE AgentClean
  <2> DEFINE packs == {a \in DOMAIN lockFile : a.kind = "mcp"}
             paths == UNION {{At(a, t) : t \in lockFile[a].at} : a \in DOMAIN lockFile \ packs}
  <2>1. disk' = Emptied(paths \cup ServerPlaces(packs, Target))
    BY <1>7 DEF AgentClean, Removals
  <2>2. p \in paths \cup ServerPlaces(packs, Target) /\ disk'[p] = Absent
    BY <2>1 DEF Emptied
  <2>3. p \notin paths
    <3>1. ASSUME NEW a \in DOMAIN lockFile \ packs, NEW t \in lockFile[a].at, p = At(a, t)
          PROVE  FALSE
      <4>1. a \in Asset /\ t \in Target
        BY <1>1 DEF IsLock, Entry
      <4>2. QED
        BY <3>1, <4>1, AtIsPlace
    <3>2. QED
      BY <3>1
  <2>4. PICK a \in packs, t \in Target : p = At(a, t)
    BY <2>2, <2>3, ServersInTargets
  <2>5. a \in Asset
    BY <1>1 DEF IsLock
  <2>6. a.kind = "mcp" /\ a.name = p.name
    BY <2>4, <2>5, AtIsPlace
  <2>7. QED
    BY <2>2, <2>6 DEF Taken
<1>8. CASE UserEdit
  <2>1. PICK q \in Place, x \in {Absent, User} :
            (q.kind = "mcp" => x = User /\ disk[q] = Absent) /\ disk' = [disk EXCEPT ![q] = x]
    BY <1>8 DEF UserEdit
  <2>2. p # q
    BY <2>1, ContentsDiffer
  <2>3. QED
    BY <1>1, <2>1, <2>2
<1>9. CASE Finish
  BY <1>2, <1>9 DEF Finish
<1>10. CASE \/ Sync \/ AgentLock \/ Repin \/ Rename \/ Publish
            \/ \E s \in Source : AgentAdd(s) \/ AgentRemove(s)
  BY <1>2, <1>10 DEF Sync, StartSync, AgentLock, Repin, Rename, Publish, AgentAdd, AgentRemove,
                    SyncAfter, files
<1>11. CASE UNCHANGED vars
  BY <1>2, <1>11 DEF vars, files
<1>12. QED
  BY <1>5, <1>6, <1>7, <1>8, <1>9, <1>10, <1>11 DEF Next, Verb, Outside

(* A server the user added is lost only to a torn file or under a name     *)
(* that a tracked pack provides.                                           *)
THEOREM ServersLostOnlyIfTracked == Spec => LostOnlyIfTracked
<1> DEFINE Lost == \A p \in Place : p.kind = "mcp" /\ disk[p] = User /\ disk'[p] \notin {User, Torn} =>
         /\ disk'[p] = Absent
         /\ \E a \in DOMAIN lock \cup DOMAIN lockFile : a.kind = "mcp" /\ a.name = p.name
<1>1. IInv /\ [Next]_vars => [Lost]_vars
  BY LostStep DEF Taken
<1>2. QED
  BY <1>1, Inductive, PTL DEF Spec, LostOnlyIfTracked
-----------------------------------------------------------------------------
(* Two clean syncs.                                                        *)

SettledFiles == \A a \in config : Alone(a) => Settled(a, lockFile)

LEMMA SettleParts ==
    SettleInv <=> /\ PlannedOnce /\ NoStrays /\ SecondSync
                  /\ calm = 2 /\ (phase = "idle" \/ ~run.apply) => SettledFiles
  BY DEF SettleInv, SettledFiles

LEMMA SettlePartsAfter ==
    SettleInv' <=> /\ PlannedOnce' /\ NoStrays' /\ SecondSync'
                   /\ calm' = 2 /\ (phase' = "idle" \/ ~run'.apply) => SettledFiles'
  BY DEF SettleInv, SettledFiles

(* What is asked depends on the config only, and what is settled on the    *)
(* agents, the places of the asset and its entry.                          *)
LEMMA SameConfig ==
    ASSUME config' = config
    PROVE  /\ \A a : Asked(a)' <=> Asked(a)
           /\ \A a : Alone(a)' <=> Alone(a)
<1>1. \A a : Asked(a)' <=> Asked(a)
  BY DEF Asked, Listed
<1>2. \A a : Rivals(a)' = Rivals(a)
  BY <1>1 DEF Rivals
<1>3. QED
  BY <1>1, <1>2 DEF Alone

LEMMA SettledStays ==
    ASSUME NEW a, agents' = agents, Settled(a, lock),
           a \in DOMAIN lock' <=> a \in DOMAIN lock,
           a \in DOMAIN lock => lock'[a].hash = lock[a].hash,
           \A t \in TargetsOf(a.kind, agents) : disk'[At(a, t)] = disk[At(a, t)]
    PROVE  Settled(a, lock)'
  BY DEF Settled

LEMMA SettledFilesStay ==
    ASSUME SettledFiles, config' = config, agents' = agents, disk' = disk, lockFile' = lockFile
    PROVE  SettledFiles'
<1>1. \A a : Alone(a)' <=> Alone(a)
  BY SameConfig
<1>2. \A a : Settled(a, lockFile)' <=> Settled(a, lockFile)
  BY DEF Settled
<1>3. QED
  BY <1>1, <1>2 DEF SettledFiles

LEMMA StraysStay ==
    ASSUME config' = config, agents' = agents
    PROVE  /\ lockFile' = lockFile => Strays(lockFile)' = Strays(lockFile)
           /\ lock' = lock => Strays(lock)' = Strays(lock)
           /\ lock' = lockFile => Strays(lock)' = Strays(lockFile)
           /\ lockFile' = lock => Strays(lockFile)' = Strays(lock)
  BY SameConfig DEF Strays

LEMMA AloneIsAsked ==
    ASSUME NEW a, Alone(a), config \subseteq Asset
    PROVE  a \in Asset /\ a \in config /\ a.source \notin Wild /\ Asked(a)
  BY DEF Alone, Asked

(* An asset that stands alone shares its place with no other that is asked.*)
LEMMA AloneInPlace ==
    ASSUME NEW a \in Asset, Alone(a), NEW b \in Asset, Asked(b), b # a, NEW t, NEW u
    PROVE  At(a, t) # At(b, u)
<1>1. b.kind # a.kind \/ b.name # a.name
  BY DEF Alone, Rivals
<1>2. QED
  BY <1>1 DEF At

LEMMA SettleAtStart == Init => SettleInv
<1> SUFFICES ASSUME Init
             PROVE  SettleInv
  OBVIOUS
<1>1. /\ phase = "idle" /\ calm = 0 /\ ~run.apply /\ pending = {} /\ "idle" \notin Kind
  BY DEF Init, Kind
<1>2. PlannedOnce /\ NoStrays /\ SecondSync
  BY <1>1 DEF PlannedOnce, NoStrays, SecondSync
<1>3. QED
  BY <1>1, <1>2, SettleParts

LEMMA SettleStart ==
    ASSUME IInv, SettleInv, NEW mode, NEW apply \in BOOLEAN, StartSync(mode, apply),
           calm' = 0 \/ (config' = config /\ calm' = calm), calm \in 0 .. 2
    PROVE  SettleInv'
<1>1. /\ phase = "idle" /\ phase' = "skill" /\ pending' = {} /\ desired' = {}
      /\ todo' = IF TargetsOf("skill", agents) = {} THEN {} ELSE Listed(config', "skill")
      /\ lock' = lockFile /\ agents' = agents /\ disk' = disk /\ lockFile' = lockFile
      /\ run'.apply = apply
  BY DEF StartSync, Enter, files
<1>2. "skill" \in Kind
  BY DEF Kind
<1>3. PlannedOnce'
  BY <1>1 DEF PlannedOnce
<1>4. \A k : ~Behind(k)'
  BY <1>1 DEF Behind
<1>5. calm' >= 1 => config' = config /\ calm' = calm
  OBVIOUS
<1>6. NoStrays'
  <2>1. CASE calm' = 0
    BY <1>4, <2>1 DEF NoStrays
  <2>2. CASE calm' # 0
    <3>1. calm >= 1 /\ config' = config /\ calm' = calm
      BY <2>2
    <3>2. Strays(lockFile) = {}
      BY <3>1, SettleParts DEF NoStrays
    <3>3. Strays(lockFile)' = {} /\ Strays(lock)' = {}
      BY <1>1, <3>1, <3>2, StraysStay
    <3>4. QED
      BY <3>3 DEF NoStrays
  <2>3. QED
    BY <2>1, <2>2
<1>7. SecondSync'
  <2>1. ASSUME NEW a \in config', a.kind = "skill", TargetsOf("skill", agents) # {},
               calm' >= 1
        PROVE  a.source \in todo'
    <3>1. a.source \in Source
      BY <1>5, <2>1, TypeParts DEF IInv, WorldTypes, Asset
    <3>2. QED
      BY <1>1, <2>1, <3>1 DEF Listed
  <2>2. QED
    BY <1>1, <1>4, <2>1 DEF SecondSync, InHand
<1>8. calm' = 2 => SettledFiles'
  BY <1>1, <1>5, SettleParts, SettledFilesStay
<1>9. QED
  BY <1>3, <1>6, <1>7, <1>8, SettlePartsAfter

(* Anything else that happens between runs ends the calm.                  *)
LEMMA SettleQuiet ==
    ASSUME IInv, SettleInv, phase = "idle", calm' = 0, UNCHANGED <<phase, job>>
    PROVE  SettleInv'
<1>1. /\ phase' = "idle" /\ pending' = {} /\ lock' = EmptyLock /\ "idle" \notin Kind
  BY DEF IInv, JobInv, job, Kind
<1>2. PlannedOnce'
  BY <1>1 DEF PlannedOnce
<1>3. Strays(lock)' = {}
  BY <1>1, EmptyIsLock DEF Strays
<1>4. NoStrays' /\ SecondSync'
  BY <1>3 DEF NoStrays, SecondSync
<1>5. QED
  BY <1>2, <1>4, SettlePartsAfter

LEMMA SettleStutter ==
    ASSUME SettleInv, UNCHANGED vars
    PROVE  SettleInv'
<1>1. /\ config' = config /\ agents' = agents /\ disk' = disk /\ lockFile' = lockFile
      /\ lock' = lock /\ phase' = phase /\ todo' = todo /\ pending' = pending
      /\ desired' = desired /\ run' = run /\ failed' = failed /\ broken' = broken /\ calm' = calm
  BY DEF vars, world, files, job
<1>2. \A a : (Alone(a)' <=> Alone(a)) /\ (Asked(a)' <=> Asked(a))
  BY <1>1, SameConfig
<1>3. PlannedOnce'
  BY <1>1, <1>2, SettleParts DEF PlannedOnce, Listed
<1>4. NoStrays'
  BY <1>1, StraysStay, SettleParts DEF NoStrays, Behind
<1>5. \A a : Settled(a, lock)' <=> Settled(a, lock)
  BY <1>1 DEF Settled
<1>6. SecondSync'
  BY <1>1, <1>2, <1>5, SettleParts DEF SecondSync, Behind, InHand, Underway
<1>7. calm' = 2 /\ (phase' = "idle" \/ ~run'.apply) => SettledFiles'
  BY <1>1, SettleParts, SettledFilesStay
<1>8. QED
  BY <1>3, <1>4, <1>6, <1>7, SettlePartsAfter

(* A run that ends.                                                        *)
LEMMA SettleForget ==
    ASSUME Forget, calm' >= 1 => Strays(lockFile)' = {}, calm' = 2 => SettledFiles'
    PROVE  SettleInv'
<1>1. phase' = "idle" /\ pending' = {} /\ ~run'.apply /\ "idle" \notin Kind
  BY DEF Forget, Kind
<1>2. PlannedOnce' /\ NoStrays' /\ SecondSync'
  BY <1>1 DEF PlannedOnce, NoStrays, SecondSync
<1>3. QED
  BY <1>2, SettlePartsAfter

LEMMA SettleEnd ==
    ASSUME IInv, SettleInv, Finish \/ Crash
    PROVE  SettleInv'
<1>1. calm \in 0 .. 2
  BY TypeParts DEF IInv, BoundTypes
<1>2. CASE Crash
  BY <1>2, SettleForget DEF Crash
<1>3. CASE Finish
  <2>1. /\ phase = "save" /\ Forget /\ disk' = disk /\ config' = config /\ agents' = agents
        /\ lockFile' = IF run.apply THEN lock ELSE lockFile
        /\ calm' = IF ~run.apply THEN calm
                   ELSE IF failed \/ broken THEN 0 ELSE Min({calm + 1, 2})
    BY <1>3 DEF Finish, world
  <2>2. CASE ~run.apply
    <3>1. calm' = calm /\ lockFile' = lockFile
      BY <2>1, <2>2
    <3>2. calm' >= 1 => Strays(lockFile)' = {}
      BY <2>1, <3>1, StraysStay, SettleParts DEF NoStrays
    <3>3. calm' = 2 => SettledFiles'
      BY <2>1, <2>2, <3>1, SettleParts, SettledFilesStay
    <3>4. QED
      BY <2>1, <3>2, <3>3, SettleForget
  <2>3. CASE run.apply /\ (failed \/ broken)
    <3>1. calm' = 0
      BY <2>1, <2>3
    <3>2. QED
      BY <2>1, <3>1, SettleForget
  <2>4. CASE run.apply /\ ~failed /\ ~broken
    <3>1. lockFile' = lock /\ calm' = Min({calm + 1, 2})
      BY <2>1, <2>4
    <3>2. calm' = 2 => calm >= 1
      <4>1. calm = 0 => {calm + 1, 2} = {1, 2}
        OBVIOUS
      <4>2. Min({1, 2}) = 1
        BY DEF Min
      <4>3. calm = 0 => calm' = 1
        BY <3>1, <4>1, <4>2
      <4>4. QED
        BY <1>1, <4>3
    <3>3. \A k : Behind(k)
      BY <2>1 DEF Behind
    <3>4. Strays(lock) = {}
      BY <2>4, <3>3, SettleParts DEF NoStrays
    <3>5. Strays(lockFile)' = {}
      BY <2>1, <3>1, <3>4, StraysStay
    <3>6. ASSUME calm' = 2
          PROVE  SettledFiles'
      <4>1. \A a \in config : Alone(a) => Settled(a, lock)
        BY <2>4, <3>2, <3>3, <3>6, SettleParts DEF SecondSync
      <4>2. \A a : Settled(a, lockFile)' <=> Settled(a, lock)
        BY <2>1, <3>1 DEF Settled
      <4>3. QED
        BY <2>1, <4>1, <4>2, SameConfig DEF SettledFiles
    <3>7. QED
      BY <2>1, <3>5, <3>6, SettleForget
  <2>5. QED
    BY <2>2, <2>3, <2>4
<1>4. QED
  BY <1>2, <1>3
-----------------------------------------------------------------------------
(* A source that is planned.                                               *)

(* What a sync believes to be in place is, by the hash or by presence.     *)
LEMMA SeenIsThere ==
    ASSUME IInv, NEW a \in Asset, NEW t \in Target, NEW h \in Hash,
           Intact(a.kind, h, Sees[At(a, t)])
    PROVE  Intact(a.kind, h, disk[At(a, t)])
<1>1. At(a, t) \in Place /\ At(a, t).kind = a.kind
  BY AtIsPlace
<1>2. CASE a.kind = "skill"
  <2>1. At(a, t) \in SkillPlace
    BY <1>1, <1>2, SkillPlaces
  <2>2. Sees[At(a, t)] \in {Absent, disk[At(a, t)]}
    BY <2>1, SeesIsContent DEF IInv
  <2>3. QED
    BY <1>2, <2>2, ContentsDiffer DEF Intact, SkillThere
<1>3. CASE a.kind # "skill"
  <2>1. Sees[At(a, t)] = disk[At(a, t)]
    BY <1>1, <1>3, SkillPlaces DEF Sees
  <2>2. QED
    BY <2>1
<1>4. QED
  BY <1>2, <1>3

(* The copies a source adds, each of an asset of its own.                  *)
Added(s, copies) ==
    /\ pending' \subseteq pending \cup copies
    /\ \A c \in copies : c.asset.source = s /\ \A d \in copies : d.asset = c.asset => d = c

LEMMA PlannedOnceStays ==
    ASSUME IInv, SettleInv, phase \in Kind, phase' = phase, UNCHANGED world,
           NEW s \in todo, todo' = todo \ {s}, NEW copies, Added(s, copies),
           desired' \subseteq desired \cup Named(phase, s) \cup Desired(config, lock, phase, s)
    PROVE  PlannedOnce'
<1>1. /\ config' = config
      /\ todo \subseteq Listed(config, phase)
      /\ \A a \in desired : a.kind = phase /\ Asked(a)
  BY SettleParts DEF world, PlannedOnce
<1>2. s \in Source /\ s \in Listed(config, phase)
  BY <1>1 DEF Listed
<1>3. ASSUME NEW a \in Named(phase, s) \cup Desired(config, lock, phase, s)
      PROVE  a.kind = phase /\ Asked(a)
  <2>1. a.kind = phase /\ a.source = s
    BY <1>2, DesiredAreAssets, TypeParts DEF IInv
  <2>2. CASE s \in Wild
    BY <1>2, <2>1, <2>2 DEF Asked
  <2>3. CASE s \notin Wild
    BY <2>1, <2>3 DEF Asked, Named, Desired
  <2>4. QED
    BY <2>2, <2>3
<1>4. \A a : Asked(a)' <=> Asked(a)
  BY <1>1, SameConfig
<1>5. \A a \in desired' : a.kind = phase /\ Asked(a)
  BY <1>1, <1>3
<1>6. todo' \subseteq Listed(config', phase')
  BY <1>1
<1>7. ASSUME NEW c \in pending'
      PROVE  c.asset.source \notin todo' /\ \A d \in pending' : d.asset = c.asset => d = c
  <2>1. \A d \in pending' : d \in pending \/ d \in copies
    BY DEF Added
  <2>2. \A d \in pending : d.asset.source \notin todo
    BY SettleParts DEF PlannedOnce
  <2>3. \A d \in copies : d.asset.source = s
    BY DEF Added
  <2>4. CASE c \in pending
    BY <2>1, <2>2, <2>3, <2>4, SettleParts DEF PlannedOnce
  <2>5. CASE c \in copies
    BY <2>1, <2>2, <2>3, <2>5 DEF Added
  <2>6. QED
    BY <2>1, <2>4, <2>5
<1>8. QED
  BY <1>4, <1>5, <1>6, <1>7 DEF PlannedOnce

(* What a fetch queues: nothing is left of an asset of the list, or a copy *)
(* that has reached no target yet.                                         *)
Handled(k, s) ==
    /\ \A a \in config : Alone(a) /\ a.kind = k /\ a.source = s =>
         a \in desired' /\ (Settled(a, lock) \/ \E c \in pending' : c.asset = a)
    /\ \A c \in pending' \ pending : Underway(c)

LEMMA FetchHandles ==
    ASSUME IInv, NEW k \in Kind, NEW s \in Source, TargetsOf(k, agents) # {}, Fetched(k, s)
    PROVE  /\ \E copies : Added(s, copies)
           /\ desired' \subseteq desired \cup Named(k, s)
           /\ run.apply /\ (s \notin Wild => Found(k, s) # {}) => Handled(k, s)
<1>1. TypeOK /\ WorldTypes /\ IsLock(lock)
  BY TypeParts DEF IInv
<1>2. Found(k, s) \subseteq Asset /\ \A a \in Found(k, s) : a.kind = k /\ a.source = s
  BY <1>1, DesiredAreAssets DEF Found
<1> DEFINE hash == <<s, Offered(s)>>
           news == {a \in Found(k, s) : ~IsUnchanged(lock, agents, Sees, a, hash)}
           copies == {Copy(a, hash, FALSE, TargetsOf(k, agents)) : a \in news}
<1>3. Queue(copies) /\ desired' = desired \cup Found(k, s)
  BY DEF Fetched
<1>4. \A a : /\ Copy(a, hash, FALSE, TargetsOf(k, agents)).asset = a
             /\ Copy(a, hash, FALSE, TargetsOf(k, agents)).left = TargetsOf(k, agents)
             /\ ~Copy(a, hash, FALSE, TargetsOf(k, agents)).repair
  BY DEF Copy
<1>5. Added(s, copies)
  <2>1. pending' \subseteq pending \cup copies
    BY <1>3 DEF Queue
  <2>2. \A c \in copies : c.asset \in news /\ c = Copy(c.asset, hash, FALSE, TargetsOf(k, agents))
    BY <1>4
  <2>3. \A c \in copies : c.asset.source = s
    BY <1>2, <2>2
  <2>4. \A c, d \in copies : d.asset = c.asset => d = c
    BY <2>2, Zenon
  <2>5. QED
    BY <2>1, <2>3, <2>4 DEF Added
<1>6. desired' \subseteq desired \cup Named(k, s)
  BY <1>3 DEF Found
<1>7. ASSUME run.apply, s \notin Wild => Found(k, s) # {}
      PROVE  Handled(k, s)
  <2>1. pending' = pending \cup copies
    BY <1>3, <1>7 DEF Queue
  <2>2. \A c \in copies : Underway(c)
    <3>1. SUFFICES ASSUME NEW a \in news
                   PROVE  Underway(Copy(a, hash, FALSE, TargetsOf(k, agents)))
      OBVIOUS
    <3> DEFINE c == Copy(a, hash, FALSE, TargetsOf(k, agents))
    <3>2. c.asset.kind = k /\ c.left = TargetsOf(k, agents) /\ ~c.repair
      BY <1>2, <1>4
    <3> HIDE DEF c
    <3>3. Underway(c)
      BY <3>2 DEF Underway
    <3>4. QED
      BY <3>3 DEF c
  <2>3. ASSUME NEW a \in config, Alone(a), a.kind = k, a.source = s
        PROVE  a \in desired' /\ (Settled(a, lock) \/ \E c \in pending' : c.asset = a)
    <3>1. s \notin Wild /\ Offered(s) # 0 /\ a \in Found(k, s)
      BY <1>7, <2>3 DEF Alone, Found, Named, Desired
    <3>2. hash \in Hash /\ a \in Asset
      BY <1>1, <1>2, <3>1, OfferedType
    <3>3. CASE a \in news
      BY <1>3, <1>4, <2>1, <3>1, <3>3
    <3>4. CASE a \notin news
      <4>1. IsUnchanged(lock, agents, Sees, a, hash)
        BY <3>1, <3>4
      <4>2. /\ a \in DOMAIN lock /\ lock[a].hash = hash
            /\ \A t \in TargetsOf(a.kind, agents) : Intact(a.kind, hash, Sees[At(a, t)])
        BY <4>1 DEF IsUnchanged
      <4>3. TargetsOf(a.kind, agents) \subseteq Target
        BY <1>1, <2>3, TargetsAreTargets DEF WorldTypes
      <4>4. \A t \in TargetsOf(a.kind, agents) : Intact(a.kind, hash, disk[At(a, t)])
        BY <3>2, <4>2, <4>3, SeenIsThere
      <4>5. Settled(a, lock)
        BY <4>2, <4>4 DEF Settled
      <4>6. QED
        BY <1>3, <3>1, <4>5
    <3>5. QED
      BY <3>3, <3>4
  <2>4. QED
    BY <2>1, <2>2, <2>3 DEF Handled
<1>8. QED
  BY <1>5, <1>6, <1>7

LEMMA LockHandles ==
    ASSUME IInv, NEW k \in Kind, NEW s \in Source, FromLock(k, s),
           ~NeedsFetch(config, lock, label, agents, Sees, k, s)
    PROVE  /\ \E copies : Added(s, copies)
           /\ desired' \subseteq desired \cup Desired(config, lock, k, s)
           /\ run.apply => Handled(k, s)
<1>1. TypeOK /\ WorldTypes /\ IsLock(lock)
  BY TypeParts DEF IInv
<1> DEFINE wanted == Desired(config, lock, k, s)
           worn == {a \in wanted : k = "skill" /\ Worn(a) # {}}
           copies == {Copy(a, lock[a].hash, TRUE, Redone(a)) : a \in worn}
<1>2. Queue(copies) /\ desired' = desired \cup wanted
  BY DEF FromLock
<1>3. wanted \subseteq Asset /\ \A a \in wanted : a.kind = k /\ a.source = s
  BY <1>1, DesiredAreAssets
<1>4. \A a \in wanted : a \in DOMAIN lock /\ ~Missing(a, lock[a], agents, Sees)
  BY DEF NeedsFetch
<1>5. \A a : /\ Copy(a, lock[a].hash, TRUE, Redone(a)).asset = a
             /\ Copy(a, lock[a].hash, TRUE, Redone(a)).left = Redone(a)
             /\ Copy(a, lock[a].hash, TRUE, Redone(a)).hash = lock[a].hash
  BY DEF Copy
<1>6. Added(s, copies)
  <2>1. pending' \subseteq pending \cup copies
    BY <1>2 DEF Queue
  <2>2. \A c \in copies :
           c.asset \in worn /\ c = Copy(c.asset, lock[c.asset].hash, TRUE, Redone(c.asset))
    BY <1>5
  <2>3. \A c \in copies : c.asset.source = s
    BY <1>3, <2>2
  <2>4. \A c, d \in copies : d.asset = c.asset => d = c
    BY <2>2, Zenon
  <2>5. QED
    BY <2>1, <2>3, <2>4 DEF Added
<1>7. TargetsOf(k, agents) \subseteq Target
  BY <1>1, TargetsAreTargets DEF WorldTypes
<1>8. ASSUME NEW a \in wanted, NEW t \in TargetsOf(k, agents), k = "skill" => t \notin Worn(a)
      PROVE  Intact(k, lock[a].hash, disk[At(a, t)])
  <2>1. a \in Asset /\ a.kind = k /\ a \in DOMAIN lock /\ lock[a].hash \in Hash /\ t \in Target
    BY <1>1, <1>3, <1>4, <1>7 DEF IsLock, Entry
  <2>2. Intact(k, lock[a].hash, Sees[At(a, t)])
    <3>1. CASE k = "skill"
      BY <1>8, <3>1 DEF Worn, TargetsOf, Intact
    <3>2. CASE k = "command"
      BY <1>4, <2>1, <3>2 DEF Missing, CommandMissing, TargetsOf, Intact
    <3>3. CASE k = "mcp"
      BY <1>4, <2>1, <3>3 DEF Missing, ServerMissing, TargetsOf, Intact
    <3>4. QED
      BY <3>1, <3>2, <3>3 DEF Kind
  <2>3. QED
    BY <2>1, <2>2, SeenIsThere
<1>9. ASSUME run.apply
      PROVE  Handled(k, s)
  <2>1. pending' = pending \cup copies
    BY <1>2, <1>9 DEF Queue
  <2>2. \A c \in copies : Underway(c)
    <3>1. SUFFICES ASSUME NEW a \in worn
                   PROVE  Underway(Copy(a, lock[a].hash, TRUE, Redone(a)))
      OBVIOUS
    <3>2. a.kind = k /\ a \in DOMAIN lock
      BY <1>3, <1>4
    <3>3. \A t \in TargetsOf(k, agents) \ Redone(a) : Intact(k, lock[a].hash, disk[At(a, t)])
      BY <1>8 DEF Redone, Worn
    <3>4. QED
      BY <1>5, <3>2, <3>3 DEF Underway
  <2>3. ASSUME NEW a \in config, Alone(a), a.kind = k, a.source = s
        PROVE  a \in desired' /\ (Settled(a, lock) \/ \E c \in pending' : c.asset = a)
    <3>1. a \in wanted
      BY <2>3 DEF Alone, Desired
    <3>2. CASE a \in worn
      BY <1>2, <1>5, <2>1, <3>1, <3>2
    <3>3. CASE a \notin worn
      <4>1. \A t \in TargetsOf(k, agents) : Intact(k, lock[a].hash, disk[At(a, t)])
        BY <1>8, <3>1, <3>3
      <4>2. Settled(a, lock)
        BY <1>4, <2>3, <3>1, <4>1 DEF Settled
      <4>3. QED
        BY <1>2, <3>1, <4>2
    <3>4. QED
      BY <3>2, <3>3
  <2>4. QED
    BY <2>1, <2>2, <2>3 DEF Handled
<1>10. QED
  BY <1>2, <1>6, <1>9

LEMMA SettlePlan ==
    ASSUME IInv, SettleInv, NEW k \in Kind, NEW s \in Source, NEW isBroken \in BOOLEAN,
           Plan(k, s, isBroken), s \notin Wild /\ Found(k, s) = {} => isBroken
    PROVE  SettleInv'
<1>1. /\ phase = k /\ s \in todo /\ phase' = phase /\ todo' = todo \ {s}
      /\ lock' = lock /\ run' = run /\ calm' = calm /\ UNCHANGED world
      /\ config' = config /\ agents' = agents /\ disk' = disk /\ lockFile' = lockFile
  BY DEF Plan, world, files
<1>2. TargetsOf(k, agents) # {} /\ k \notin {"idle", "save"} /\ failed \in BOOLEAN /\ broken \in BOOLEAN
  BY <1>1, TypeParts DEF IInv, JobInv, Kind, RunTypes
<1> DEFINE fetch == \/ run.mode = "update"
                    \/ NeedsFetch(config, lock, label, agents, Sees, k, s)
<1>3. \/ Refuse \/ FetchFails
      \/ Fetched(k, s) /\ broken' = (broken \/ isBroken)
      \/ ~fetch /\ FromLock(k, s)
  BY DEF Plan
<1>4. /\ \E copies : Added(s, copies)
      /\ desired' \subseteq desired \cup Named(k, s) \cup Desired(config, lock, k, s)
      /\ desired \subseteq desired' /\ pending \subseteq pending'
      /\ \/ failed'
         \/ failed' = failed /\ (broken' = broken \/ broken' = TRUE) /\ (run.apply => Handled(k, s))
         \/ failed' = failed /\ broken'
  <2>1. CASE Refuse \/ FetchFails
    <3>1. pending' = pending /\ desired' = desired /\ failed' = TRUE
      BY <2>1 DEF Refuse, FetchFails
    <3>2. Added(s, {})
      BY <3>1 DEF Added
    <3>3. QED
      BY <3>1, <3>2
  <2>2. CASE Fetched(k, s) /\ broken' = (broken \/ isBroken)
    <3>1. /\ \E copies : Added(s, copies)
          /\ desired' \subseteq desired \cup Named(k, s)
          /\ run.apply /\ (s \notin Wild => Found(k, s) # {}) => Handled(k, s)
      BY <1>2, <2>2, FetchHandles
    <3>2. desired \subseteq desired' /\ pending \subseteq pending' /\ failed' = failed
      BY <2>2 DEF Fetched, Queue
    <3>3. broken' = broken \/ broken' = TRUE
      BY <1>2, <2>2
    <3>4. s \notin Wild /\ Found(k, s) = {} => broken'
      BY <1>2, <2>2
    <3>5. QED
      BY <3>1, <3>2, <3>3, <3>4
  <2>3. CASE ~fetch /\ FromLock(k, s)
    <3>1. desired \subseteq desired' /\ pending \subseteq pending' /\ failed' = failed /\ broken' = broken
      BY <2>3 DEF FromLock, Queue
    <3>2. QED
      BY <2>3, <3>1, LockHandles
  <2>4. QED
    BY <1>3, <2>1, <2>2, <2>3
<1>5. PlannedOnce'
  <2>1. PICK copies : Added(s, copies)
    BY <1>4
  <2>2. QED
    BY <1>1, <1>4, <2>1, PlannedOnceStays
<1>6. \A a : Alone(a)' <=> Alone(a)
  BY <1>1, SameConfig
<1>7. \A j : Behind(j)' <=> Behind(j)
  BY <1>1 DEF Behind
<1>8. NoStrays'
  <2>1. Strays(lockFile)' = Strays(lockFile) /\ Strays(lock)' = Strays(lock)
    BY <1>1, StraysStay
  <2>2. ~failed' => ~failed
    BY <1>4
  <2>3. QED
    BY <1>1, <1>7, <2>1, <2>2, SettleParts DEF NoStrays
<1>9. SecondSync'
  <2>1. SUFFICES ASSUME calm >= 1, run.apply, ~failed', ~broken'
                 PROVE  /\ \A a \in config : Alone(a) /\ Behind(a.kind) => Settled(a, lock)'
                        /\ \A a \in config : Alone(a) /\ a.kind = k => InHand(a)'
                        /\ \A c \in pending' : Alone(c.asset) => Underway(c)'
    BY <1>1, <1>6, <1>7 DEF SecondSync
  <2>2. ~failed /\ ~broken /\ Handled(k, s)
    BY <1>4, <2>1
  <2>3. /\ \A a \in config : Alone(a) /\ Behind(a.kind) => Settled(a, lock)
        /\ \A a \in config : Alone(a) /\ a.kind = k => InHand(a)
        /\ \A c \in pending : Alone(c.asset) => Underway(c)
    BY <1>1, <1>2, <2>1, <2>2, SettleParts DEF SecondSync
  <2>4. \A a : Settled(a, lock)' <=> Settled(a, lock)
    BY <1>1 DEF Settled
  <2>5. \A c : Underway(c)' <=> Underway(c)
    BY <1>1 DEF Underway
  <2>6. \A c \in pending' : Alone(c.asset) => Underway(c)
    BY <2>2, <2>3 DEF Handled
  <2>7. ASSUME NEW a \in config, Alone(a), a.kind = k
        PROVE  InHand(a)'
    <3>1. CASE a.source = s
      <4>1. a \in desired' /\ (Settled(a, lock) \/ \E c \in pending' : c.asset = a)
        BY <2>2, <2>7, <3>1 DEF Handled
      <4>2. QED
        BY <2>4, <4>1 DEF InHand
    <3>2. CASE a.source # s
      BY <1>1, <1>4, <2>3, <2>4, <2>7, <3>2 DEF InHand
    <3>3. QED
      BY <3>1, <3>2
  <2>8. QED
    BY <2>3, <2>4, <2>5, <2>6, <2>7
<1>10. calm' = 2 /\ (phase' = "idle" \/ ~run'.apply) => SettledFiles'
  BY <1>1, SettleParts, SettledFilesStay
<1>11. QED
  BY <1>5, <1>8, <1>9, <1>10, SettlePartsAfter

LEMMA SettlePlanStep ==
    ASSUME IInv, SettleInv, NEW s \in Source, PlanSkills(s) \/ PlanCommands(s) \/ PlanPacks(s)
    PROVE  SettleInv'
<1>1. PICK k \in Kind, isBroken \in BOOLEAN :
        Plan(k, s, isBroken) /\ (s \notin Wild /\ Found(k, s) = {} => isBroken)
  <2>1. CASE PlanSkills(s)
    BY <2>1 DEF PlanSkills, Kind
  <2>2. CASE PlanCommands(s)
    BY <2>2 DEF PlanCommands, Kind
  <2>3. CASE PlanPacks(s)
    BY <2>3 DEF PlanPacks, Kind
  <2>4. QED
    BY <2>1, <2>2, <2>3
<1>2. QED
  BY <1>1, SettlePlan
-----------------------------------------------------------------------------
(* A copy that succeeds brings its asset one target further.               *)
LEMMA TickedParts ==
    ASSUME pending \subseteq CopyJob, NEW c \in pending, NEW t
    PROVE  LET rest == [c EXCEPT !.left = @ \ {t}]
           IN /\ rest.asset = c.asset /\ rest.hash = c.hash /\ rest.repair = c.repair
              /\ rest.left = c.left \ {t}
              /\ \A d \in pending \ {c} : d \in Ticked(c, t)
              /\ \A d \in Ticked(c, t) : d \in pending \ {c} \/ (c.left # {t} /\ d = rest)
              /\ c.left # {t} => rest \in Ticked(c, t)
<1>1. c \in CopyJob
  OBVIOUS
<1>2. QED
  BY <1>1 DEF CopyJob, Ticked

LEMMA RecordParts ==
    ASSUME IsLock(lock), NEW c, NEW t
    PROVE  /\ c.left # {t} => Record(c, t) = lock
           /\ \A a \in DOMAIN lock : a \in DOMAIN Record(c, t)
           /\ \A a : a # c.asset => /\ a \in DOMAIN Record(c, t) <=> a \in DOMAIN lock
                                    /\ a \in DOMAIN lock => Record(c, t)[a] = lock[a]
           /\ c.left = {t} => /\ c.asset \in DOMAIN Record(c, t)
                              /\ Record(c, t)[c.asset].hash = c.hash
  BY DEF Record, WithEntry

LEMMA SettleCopy ==
    ASSUME IInv, SettleInv, NEW k, NEW c \in pending, NEW t \in Target, Turn(k, c, t),
           Copying, pending' = Ticked(c, t), lock' \in {lock, Record(c, t)},
           lock' = Record(c, t) \/ c.repair,
           NEW x, disk' = [disk EXCEPT ![At(c.asset, t)] = x], Intact(k, c.hash, x)
    PROVE  SettleInv'
<1> DEFINE a == c.asset
           p == At(c.asset, t)
<1>1. /\ phase' = phase /\ todo' = todo /\ desired' = desired /\ run' = run /\ calm' = calm
      /\ failed' = failed /\ broken' = broken /\ lockFile' = lockFile
      /\ config' = config /\ agents' = agents
  BY DEF Copying, world
<1>2. /\ phase = k /\ k \in Kind /\ c \in CopyJob /\ a.kind = k /\ a \in desired
      /\ t \in c.left /\ p \in Place
  BY TurnFacts
<1>3. /\ WorldTypes /\ IsLock(lock) /\ disk \in [Place -> Content] /\ pending \subseteq CopyJob
      /\ config \subseteq Asset /\ a \in Asset
  BY <1>2, TypeParts DEF IInv, FileTypes, WorldTypes, CopyJob
<1>4. Asked(a) /\ run.apply /\ phase # "idle" /\ ~Behind(k)
  BY <1>2, SettleParts DEF PlannedOnce, IInv, JobInv, Kind, Behind
<1>5. \A b : (Alone(b)' <=> Alone(b)) /\ (Asked(b)' <=> Asked(b))
  BY <1>1, SameConfig
<1> DEFINE rest == [c EXCEPT !.left = @ \ {t}]
<1>6. /\ rest.asset = a /\ rest.hash = c.hash /\ rest.repair = c.repair /\ rest.left = c.left \ {t}
      /\ \A d \in pending \ {c} : d \in pending'
      /\ \A d \in pending' : d \in pending \ {c} \/ (c.left # {t} /\ d = rest)
      /\ c.left # {t} => rest \in pending'
  BY <1>3, TickedParts
<1>7. \A d \in pending \ {c} : d.asset # a
  BY SettleParts DEF PlannedOnce
<1> HIDE DEF rest
<1>8. PlannedOnce'
  <2>1. \A d \in pending' : d.asset.source \notin todo'
    BY <1>1, <1>6, SettleParts DEF PlannedOnce
  <2>2. \A d, e \in pending' : e.asset = d.asset => e = d
    BY <1>6, <1>7, SettleParts DEF PlannedOnce
  <2>3. todo' \subseteq Listed(config', phase')
    BY <1>1, <1>2, SettleParts DEF PlannedOnce
  <2>4. \A b \in desired' : b.kind = phase' /\ Asked(b)'
    BY <1>1, <1>2, <1>5, SettleParts DEF PlannedOnce
  <2>5. QED
    BY <2>1, <2>2, <2>3, <2>4 DEF PlannedOnce
<1>9. /\ c.left # {t} => lock' = lock
      /\ \A b : b # a => /\ b \in DOMAIN lock' <=> b \in DOMAIN lock
                         /\ b \in DOMAIN lock => lock'[b] = lock[b]
      /\ c.left = {t} /\ ~c.repair => a \in DOMAIN lock' /\ lock'[a].hash = c.hash
      /\ c.left = {t} => lock' = lock \/ (a \in DOMAIN lock' /\ lock'[a].hash = c.hash)
  <2>1. /\ c.left # {t} => Record(c, t) = lock
        /\ \A b : b # a => /\ b \in DOMAIN Record(c, t) <=> b \in DOMAIN lock
                           /\ b \in DOMAIN lock => Record(c, t)[b] = lock[b]
        /\ c.left = {t} => a \in DOMAIN Record(c, t) /\ Record(c, t)[a].hash = c.hash
    BY <1>3, RecordParts
  <2>2. CASE lock' = lock
    BY <2>1, <2>2
  <2>3. CASE lock' = Record(c, t)
    BY <2>1, <2>3
  <2>4. QED
    BY <2>2, <2>3
<1>10. NoStrays'
  <2>1. Strays(lockFile)' = Strays(lockFile)
    BY <1>1, StraysStay
  <2>2. ASSUME NEW b \in Strays(lock)'
        PROVE  b \in Strays(lock)
    <3>1. b \in DOMAIN lock' /\ TargetsOf(b.kind, agents) # {} /\ ~Asked(b)
      BY <1>1, <1>5, <2>2 DEF Strays
    <3>2. b \in DOMAIN lock
      BY <1>4, <1>9, <3>1
    <3>3. QED
      BY <3>1, <3>2 DEF Strays
  <2>3. \A j : Behind(j)' <=> Behind(j)
    BY <1>1 DEF Behind
  <2>4. QED
    BY <1>1, <2>1, <2>2, <2>3, SettleParts DEF NoStrays
<1>11. ASSUME NEW b, Alone(b), b # a, NEW u
       PROVE  disk'[At(b, u)] = disk[At(b, u)]
  <2>1. b \in Asset
    BY <1>3, <1>11, AloneIsAsked
  <2>2. At(b, u) # p
    BY <1>3, <1>4, <1>11, <2>1, AloneInPlace
  <2>3. QED
    BY <1>3, <2>2
<1>12. ASSUME NEW b, Alone(b), b # a
       PROVE  Settled(b, lock) => Settled(b, lock)'
  BY <1>1, <1>9, <1>11, <1>12, SettledStays
<1>13. ASSUME Underway(c)
       PROVE  /\ c.left = {t} => Settled(a, lock)'
              /\ c.left # {t} => Underway(rest)'
  <2>1. \A u \in TargetsOf(k, agents) \ (c.left \ {t}) : Intact(k, c.hash, disk'[At(a, u)])
    <3>1. SUFFICES ASSUME NEW u \in TargetsOf(k, agents), u \notin c.left \/ u = t
                   PROVE  Intact(k, c.hash, disk'[At(a, u)])
      OBVIOUS
    <3>2. CASE At(a, u) = p
      BY <1>2, <1>3, <3>2
    <3>3. CASE At(a, u) # p
      <4>1. u \notin c.left /\ disk'[At(a, u)] = disk[At(a, u)]
        BY <1>3, <3>1, <3>3
      <4>2. QED
        BY <1>2, <1>13, <4>1 DEF Underway
    <3>4. QED
      BY <3>2, <3>3
  <2>2. CASE c.left = {t}
    <3>1. a \in DOMAIN lock' /\ lock'[a].hash = c.hash
      BY <1>9, <1>13, <2>2 DEF Underway
    <3>2. \A u \in TargetsOf(k, agents) : Intact(k, c.hash, disk'[At(a, u)])
      BY <2>1, <2>2
    <3>3. QED
      BY <1>1, <1>2, <2>2, <3>1, <3>2 DEF Settled
  <2>3. CASE c.left # {t}
    <3>1. lock' = lock
      BY <1>9, <2>3
    <3>2. c.repair => a \in DOMAIN lock /\ lock[a].hash = c.hash
      BY <1>13 DEF Underway
    <3>3. QED
      BY <1>1, <1>2, <1>6, <2>1, <2>3, <3>1, <3>2 DEF Underway
  <2>4. QED
    BY <2>2, <2>3
<1>14. SecondSync'
  <2>1. SUFFICES ASSUME calm >= 1, ~failed, ~broken
                 PROVE  /\ \A b \in config : Alone(b) /\ Behind(b.kind) => Settled(b, lock)'
                        /\ \A b \in config : Alone(b) /\ b.kind = k /\ TargetsOf(k, agents) # {} => InHand(b)'
                        /\ \A d \in pending' : Alone(d.asset) => Underway(d)'
    <3>1. \A j : Behind(j)' <=> Behind(j)
      BY <1>1 DEF Behind
    <3>2. QED
      BY <1>1, <1>2, <1>5, <3>1 DEF SecondSync
  <2>2. /\ \A b \in config : Alone(b) /\ Behind(b.kind) => Settled(b, lock)
        /\ \A b \in config : Alone(b) /\ b.kind = k /\ TargetsOf(k, agents) # {} => InHand(b)
        /\ \A d \in pending : Alone(d.asset) => Underway(d)
    BY <1>2, <1>4, <2>1, SettleParts DEF SecondSync
  <2>3. ASSUME NEW b \in config, Alone(b), Behind(b.kind)
        PROVE  Settled(b, lock)'
    BY <1>2, <1>4, <1>12, <2>2, <2>3
  <2>4. ASSUME NEW b \in config, Alone(b), b.kind = k, TargetsOf(k, agents) # {}
        PROVE  InHand(b)'
    <3>1. CASE b = a
      <4>1. Underway(c)
        BY <2>2, <2>4, <3>1
      <4>2. Settled(b, lock)' \/ \E d \in pending' : d.asset = b
        BY <1>6, <1>13, <3>1, <4>1
      <4>3. b \in desired'
        BY <1>1, <1>2, <3>1
      <4>4. QED
        BY <4>2, <4>3 DEF InHand
    <3>2. CASE b # a
      <4>1. CASE b.source \in todo
        BY <1>1, <4>1 DEF InHand
      <4>2. CASE b.source \notin todo
        <5>1. b \in desired /\ (Settled(b, lock) \/ \E d \in pending : d.asset = b)
          BY <2>2, <2>4, <4>2 DEF InHand
        <5>2. Settled(b, lock)' \/ \E d \in pending' : d.asset = b
          BY <1>6, <1>12, <2>4, <3>2, <5>1
        <5>3. QED
          BY <1>1, <5>1, <5>2 DEF InHand
      <4>3. QED
        BY <4>1, <4>2
    <3>3. QED
      BY <3>1, <3>2
  <2>5. ASSUME NEW d \in pending', Alone(d.asset)
        PROVE  Underway(d)'
    <3>1. CASE d \in pending \ {c}
      <4>1. Underway(d) /\ d.asset # a
        BY <1>7, <2>2, <2>5, <3>1
      <4>2. \A u : disk'[At(d.asset, u)] = disk[At(d.asset, u)]
        BY <1>11, <2>5, <4>1
      <4>3. /\ d.asset \in DOMAIN lock' <=> d.asset \in DOMAIN lock
            /\ d.asset \in DOMAIN lock => lock'[d.asset] = lock[d.asset]
        BY <1>9, <4>1
      <4>4. QED
        BY <1>1, <4>1, <4>2, <4>3 DEF Underway
    <3>2. CASE c.left # {t} /\ d = rest
      BY <1>6, <1>13, <2>2, <2>5, <3>2
    <3>3. QED
      BY <1>6, <2>5, <3>1, <3>2
  <2>6. QED
    BY <2>3, <2>4, <2>5
<1>15. QED
  BY <1>1, <1>4, <1>8, <1>10, <1>14, SettlePartsAfter

(* A copy that fails ends the clean sync.                                  *)
LEMMA SettleFails ==
    ASSUME IInv, SettleInv, NEW c \in pending, NEW t \in Target, CopyFails(c, t)
    PROVE  SettleInv'
<1>1. /\ phase' = phase /\ todo' = todo /\ desired' = desired /\ run' = run /\ calm' = calm
      /\ failed' = TRUE /\ lockFile' = lockFile /\ config' = config /\ agents' = agents
      /\ pending' \subseteq pending
  BY DEF CopyFails, world
<1>2. phase \in Kind /\ run.apply /\ phase # "idle"
  BY TurnFacts DEF CopyFails, IInv, JobInv, Kind
<1>3. \A b : Asked(b)' <=> Asked(b)
  BY <1>1, SameConfig
<1>4. PlannedOnce'
  BY <1>1, <1>2, <1>3, SettleParts DEF PlannedOnce
<1>5. NoStrays'
  BY <1>1, StraysStay, SettleParts DEF NoStrays
<1>6. SecondSync'
  BY <1>1 DEF SecondSync
<1>7. QED
  BY <1>1, <1>2, <1>4, <1>5, <1>6, SettlePartsAfter

LEMMA SettleCopyStep ==
    ASSUME IInv, SettleInv, NEW c \in pending, NEW t \in Target,
           CopySkill(c, t) \/ WriteCommand(c, t) \/ MergePack(c, t) \/ CopyFails(c, t)
    PROVE  SettleInv'
<1>1. c \in CopyJob
  BY TypeParts DEF IInv
<1>2. c.hash \in Hash
  BY <1>1 DEF CopyJob
<1>3. CASE CopySkill(c, t)
  <2>1. /\ Turn("skill", c, t) /\ Copying /\ pending' = Ticked(c, t)
        /\ lock' \in {lock, Record(c, t)} /\ (lock' = Record(c, t) \/ c.repair)
        /\ disk' = [disk EXCEPT ![At(c.asset, t)] = c.hash]
    BY <1>3 DEF CopySkill
  <2>2. Intact("skill", c.hash, c.hash)
    BY DEF Intact, SkillThere
  <2>3. QED
    BY <2>1, <2>2, SettleCopy
<1>4. CASE WriteCommand(c, t)
  <2>1. /\ Turn("command", c, t) /\ Copying /\ pending' = Ticked(c, t)
        /\ lock' \in {lock, Record(c, t)} /\ (lock' = Record(c, t) \/ c.repair)
        /\ disk' = [disk EXCEPT ![At(c.asset, t)] = c.hash]
    BY <1>4 DEF WriteCommand
  <2>2. Intact("command", c.hash, c.hash)
    BY <1>2, ContentsDiffer DEF Intact, CommandThere
  <2>3. QED
    BY <2>1, <2>2, SettleCopy
<1>5. CASE MergePack(c, t)
  <2>1. /\ Turn("mcp", c, t) /\ Copying /\ pending' = Ticked(c, t)
        /\ lock' \in {lock, Record(c, t)} /\ (lock' = Record(c, t) \/ c.repair)
        /\ disk' = [disk EXCEPT ![At(c.asset, t)] = Merged(c, t)]
        /\ disk[At(c.asset, t)] # Torn
    BY <1>5 DEF MergePack
  <2>2. Intact("mcp", c.hash, Merged(c, t))
    BY <1>2, <2>1, ContentsDiffer DEF Intact, ServerThere, Merged
  <2>3. QED
    BY <2>1, <2>2, SettleCopy
<1>6. CASE CopyFails(c, t)
  BY <1>6, SettleFails
<1>7. QED
  BY <1>3, <1>4, <1>5, <1>6
-----------------------------------------------------------------------------
(* The prune of a section: the places it empties are those of the assets   *)
(* it drops, and of those that are asked for none stands alone.            *)
Emptying(k, v) == \A q \in v : \E b \in Stale(k), t \in Target : q = At(b, t)
Opened(k) ==
    /\ pending' = {}
    /\ phase' \in Kind =>
         /\ desired' = {}
         /\ todo' = IF TargetsOf(phase', agents) = {} THEN {} ELSE Listed(config', phase')
    /\ phase' # "idle"
    /\ \A j \in Kind : Behind(j)' => j = k \/ Behind(j)

LEMMA PruneKeepsAlone ==
    ASSUME IInv, NEW k \in Kind, NEW v, RemoveStale(k, v), Emptying(k, v), run.apply,
           NEW a \in Asset, Alone(a), Settled(a, lock),
           a.kind = k => a \in desired /\ \A b \in DOMAIN lock : b.kind = k => Asked(b)
    PROVE  Settled(a, lock)'
<1>1. /\ WorldTypes /\ IsLock(lock) /\ disk \in [Place -> Content]
      /\ disk' = Emptied(v) /\ lock' = Without(lock, Stale(k)) /\ agents' = agents
  BY TypeParts DEF IInv, FileTypes, RemoveStale, world
<1>2. a \notin Stale(k)
  BY DEF Stale
<1>3. /\ a \in DOMAIN lock' <=> a \in DOMAIN lock
      /\ a \in DOMAIN lock => lock'[a].hash = lock[a].hash
  BY <1>1, <1>2 DEF Without
<1>4. ASSUME NEW t \in TargetsOf(a.kind, agents)
      PROVE  disk'[At(a, t)] = disk[At(a, t)]
  <2>1. t \in Target
    BY <1>1, <1>4, TargetsAreTargets DEF WorldTypes, Asset
  <2>2. At(a, t) \in Place
    BY <2>1, AtIsPlace
  <2>3. ASSUME At(a, t) \in v
        PROVE  FALSE
    <3>1. PICK b \in Stale(k), u \in Target : At(a, t) = At(b, u)
      BY <2>3 DEF Emptying
    <3>2. b \in DOMAIN lock /\ b.kind = k /\ b \in Asset /\ a.kind = k
      BY <1>1, <2>1, <3>1, AtIsPlace DEF Stale, IsLock
    <3>3. b # a /\ Asked(b)
      BY <1>2, <3>1, <3>2
    <3>4. QED
      BY <3>1, <3>2, <3>3, AloneInPlace
  <2>4. QED
    BY <1>1, <2>2, <2>3 DEF Emptied
<1>5. QED
  BY <1>1, <1>3, <1>4, SettledStays

LEMMA SettlePrune ==
    ASSUME IInv, SettleInv, NEW k \in Kind, NEW v, RemoveStale(k, v), Emptying(k, v), Opened(k)
    PROVE  SettleInv'
<1>1. /\ phase = k /\ todo = {} /\ pending = {} /\ WorldTypes /\ IsLock(lock)
      /\ config' = config /\ agents' = agents /\ lockFile' = lockFile /\ run' = run
      /\ failed' = failed /\ broken' = broken /\ calm' = calm
  BY TypeParts DEF IInv, RemoveStale, world
<1>2. \A a : (Alone(a)' <=> Alone(a)) /\ (Asked(a)' <=> Asked(a))
  BY <1>1, SameConfig
<1>3. PlannedOnce'
  BY DEF Opened, PlannedOnce
<1>4. Strays(lockFile)' = Strays(lockFile)
  BY <1>1, StraysStay
<1>5. CASE ~run.apply
  <2>1. disk' = disk
    BY <1>5 DEF RemoveStale
  <2>2. calm' = 2 => SettledFiles'
    BY <1>1, <1>5, <2>1, SettleParts, SettledFilesStay
  <2>3. NoStrays' /\ SecondSync'
    BY <1>1, <1>4, <1>5, SettleParts DEF NoStrays, SecondSync
  <2>4. QED
    BY <1>3, <2>2, <2>3, SettlePartsAfter
<1>6. CASE run.apply
  <2>1. lock' = Without(lock, Stale(k))
    BY <1>6 DEF RemoveStale
  <2>2. ~failed /\ TargetsOf(k, agents) # {} => Prunes(k)
    BY DEF Prunes, Kind, TargetsOf
  <2>3. \A a \in desired : Asked(a)
    BY <1>1, SettleParts DEF PlannedOnce
  <2>4. NoStrays'
    <3>1. ASSUME ~failed, NEW b \in Strays(lock)'
          PROVE  calm = 0 /\ ~Behind(b.kind)'
      <4>1. b \in DOMAIN lock /\ b \notin Stale(k) /\ TargetsOf(b.kind, agents) # {} /\ ~Asked(b)
        BY <1>1, <1>2, <2>1, <3>1 DEF Strays, Without
      <4>2. calm = 0 /\ ~Behind(b.kind)
        BY <1>6, <3>1, <4>1, SettleParts DEF NoStrays, Strays
      <4>3. b.kind # k
        BY <2>2, <2>3, <3>1, <4>1 DEF Stale
      <4>4. b.kind \in Kind
        BY <1>1, <4>1 DEF IsLock, Asset
      <4>5. QED
        BY <4>2, <4>3, <4>4 DEF Opened
    <3>2. QED
      BY <1>1, <1>4, <3>1, SettleParts DEF NoStrays
  <2>5. SecondSync'
    <3>1. SUFFICES ASSUME calm >= 1, ~failed, ~broken
                   PROVE  /\ \A a \in config : Alone(a) /\ Behind(a.kind)' => Settled(a, lock)'
                          /\ \A a \in config :
                                Alone(a) /\ a.kind = phase' /\ TargetsOf(phase', agents) # {}
                                  => InHand(a)'
      BY <1>1, <1>2 DEF SecondSync, Opened
    <3>2. \A b \in DOMAIN lock : TargetsOf(b.kind, agents) # {} => Asked(b)
      BY <1>6, <3>1, SettleParts DEF NoStrays, Strays
    <3>3. /\ \A a \in config : Alone(a) /\ Behind(a.kind) => Settled(a, lock)
          /\ \A a \in config : Alone(a) /\ a.kind = phase /\ TargetsOf(phase, agents) # {} => InHand(a)
      BY <1>6, <3>1, SettleParts DEF SecondSync
    <3>4. ASSUME NEW a \in config, Alone(a), Behind(a.kind)'
          PROVE  Settled(a, lock)'
      <4>1. a \in Asset /\ a.kind \in Kind
        BY <1>1 DEF WorldTypes, Asset
      <4>2. CASE a.kind = k /\ TargetsOf(k, agents) = {}
        <5>1. k # "skill"
          BY <1>1, <4>2, TargetsAreTargets DEF WorldTypes, TargetsOf
        <5>2. QED
          BY <1>1, <4>2, <5>1 DEF Settled
      <4>3. CASE a.kind = k /\ TargetsOf(k, agents) # {}
        <5>1. Settled(a, lock) /\ a \in desired
          BY <1>1, <3>3, <3>4, <4>3 DEF InHand
        <5>2. \A b \in DOMAIN lock : b.kind = k => Asked(b)
          BY <3>2, <4>3
        <5>3. QED
          BY <1>6, <3>4, <4>1, <5>1, <5>2, PruneKeepsAlone
      <4>4. CASE a.kind # k
        <5>1. Settled(a, lock)
          BY <3>3, <3>4, <4>1, <4>4 DEF Opened
        <5>2. QED
          BY <1>6, <3>4, <4>1, <4>4, <5>1, PruneKeepsAlone
      <4>5. QED
        BY <4>2, <4>3, <4>4
    <3>5. ASSUME NEW a \in config, a.kind = phase', TargetsOf(phase', agents) # {}
          PROVE  InHand(a)'
      <4>1. a.source \in Source /\ phase' \in Kind
        BY <1>1, <3>5 DEF WorldTypes, Asset
      <4>2. a.source \in todo'
        BY <1>1, <3>5, <4>1 DEF Opened, Listed
      <4>3. QED
        BY <4>2 DEF InHand
    <3>6. \A a \in config : Alone(a) /\ Behind(a.kind)' => Settled(a, lock)'
      BY <3>4
    <3>7. \A a \in config : Alone(a) /\ a.kind = phase' /\ TargetsOf(phase', agents) # {} => InHand(a)'
      BY <3>5
    <3>8. QED
      BY <3>6, <3>7
  <2>6. QED
    BY <1>1, <1>3, <1>6, <2>4, <2>5, SettlePartsAfter DEF Opened
<1>7. QED
  BY <1>5, <1>6
LEMMA SettlePruneStep ==
    ASSUME IInv, SettleInv, PruneSkills \/ PruneCommands \/ PrunePacks
    PROVE  SettleInv'
<1>1. /\ \A k \in Kind : Stale(k) \subseteq DOMAIN lock
      /\ (IF agents = {} THEN Target ELSE agents) \in SUBSET Target
  BY TypeParts DEF IInv, WorldTypes, Stale
<1>2. CASE PruneSkills
  <2> DEFINE v == RecordedPlaces(Stale("skill"))
  <2>1. "skill" \in Kind /\ "command" \in Kind /\ RemoveStale("skill", v) /\ Enter("command")
    BY <1>2 DEF PruneSkills, Kind
  <2>2. Emptying("skill", v)
    BY <1>1, <2>1, RecordedInTargets DEF Emptying
  <2>3. Opened("skill")
    BY <2>1 DEF Opened, Enter, RemoveStale, Behind, world
  <2>4. QED
    BY <2>1, <2>2, <2>3, SettlePrune
<1>3. CASE PruneCommands
  <2> DEFINE v == RecordedPlaces(Stale("command"))
  <2>1. "command" \in Kind /\ "mcp" \in Kind /\ RemoveStale("command", v) /\ Enter("mcp")
    BY <1>3 DEF PruneCommands, Kind
  <2>2. Emptying("command", v)
    BY <1>1, <2>1, RecordedInTargets DEF Emptying
  <2>3. Opened("command")
    BY <2>1 DEF Opened, Enter, RemoveStale, Behind, Kind, world
  <2>4. QED
    BY <2>1, <2>2, <2>3, SettlePrune
<1>4. CASE PrunePacks
  <2> DEFINE v == ServerPlaces(Stale("mcp"), IF agents = {} THEN Target ELSE agents)
  <2>1. "mcp" \in Kind /\ RemoveStale("mcp", v) /\ phase' = "save"
    BY <1>4 DEF PrunePacks, Kind
  <2>2. Emptying("mcp", v)
    BY <1>1, ServersInTargets DEF Emptying
  <2>3. Opened("mcp")
    BY <1>4, <2>1 DEF Opened, PrunePacks, RemoveStale, Behind, Kind
  <2>4. QED
    BY <2>1, <2>2, <2>3, SettlePrune
<1>5. QED
  BY <1>2, <1>3, <1>4
-----------------------------------------------------------------------------
(* The verbs and the outside end the calm, whether a sync follows or not.  *)
LEMMA SettleVerb ==
    ASSUME IInv, SettleInv, Verb \/ Outside
    PROVE  SettleInv'
<1>1. calm \in 0 .. 2
  BY TypeParts DEF IInv, BoundTypes
<1>2. phase = "idle" /\ calm' = 0
  BY DEF Verb, Outside, AgentLock, AgentClean, AgentAdd, AgentRemove, Repin, Rename, UserEdit,
         Publish, Changes, Spend
<1>3. \/ UNCHANGED <<phase, job>>
      \/ \E mode : StartSync(mode, TRUE)
  <2>1. CASE Outside
    BY <2>1 DEF Outside, Repin, Rename, UserEdit, Publish
  <2>2. CASE AgentLock \/ AgentClean
    BY <2>2 DEF AgentLock, AgentClean
  <2>3. CASE \E s \in Source : AgentAdd(s) \/ AgentRemove(s)
    BY <2>3, Zenon DEF AgentAdd, AgentRemove, SyncAfter
  <2>4. QED
    BY <2>1, <2>2, <2>3 DEF Verb
<1>4. CASE UNCHANGED <<phase, job>>
  BY <1>2, <1>4, SettleQuiet
<1>5. CASE \E mode : StartSync(mode, TRUE)
  BY <1>1, <1>2, <1>5, SettleStart
<1>6. QED
  BY <1>3, <1>4, <1>5

LEMMA SettleStep == IInv /\ SettleInv /\ [Next]_vars => SettleInv'
<1> SUFFICES ASSUME IInv, SettleInv, [Next]_vars
             PROVE  SettleInv'
  OBVIOUS
<1>1. CASE Sync
  <2>1. calm \in 0 .. 2 /\ config' = config /\ calm' = calm
    BY <1>1, TypeParts DEF IInv, BoundTypes, Sync
  <2>2. PICK mode \in {"plain", "update", "locked"}, apply \in BOOLEAN : StartSync(mode, apply)
    BY <1>1 DEF Sync
  <2>3. QED
    BY <2>1, <2>2, SettleStart
<1>2. CASE Section
  BY <1>2, SettlePlanStep, SettleCopyStep, SettlePruneStep DEF Section
<1>3. CASE Finish \/ Crash
  BY <1>3, SettleEnd
<1>4. CASE Verb \/ Outside
  BY <1>4, SettleVerb
<1>5. CASE UNCHANGED vars
  BY <1>5, SettleStutter
<1>6. QED
  BY <1>1, <1>2, <1>3, <1>4, <1>5 DEF Next

(* Two clean syncs in a row leave every asset that the config asks for by  *)
(* name, and no other source claims, installed for every agent as the lock *)
(* says, and its skills tracked: the second sync finds no stray left in    *)
(* the lock whose prune could take away what it installs (remove_stale).   *)
THEOREM TwoSyncsSettle == Spec => []TwoCleanSyncsSettle
<1>1. SettleInv => TwoCleanSyncsSettle
  BY DEF SettleInv, TwoCleanSyncsSettle
<1>2. QED
  BY <1>1, SettleAtStart, SettleStep, Inductive, PTL DEF Spec
================================================================================
