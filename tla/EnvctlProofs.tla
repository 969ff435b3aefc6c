---------------------------- MODULE EnvctlProofs ----------------------------
(***************************************************************************)
(* Proofs about AddRepo over Wiring and about Desktop, after the lemmas on *)
(* natural numbers and folds that both need.                               *)
(*                                                                         *)
(* Of AddRepo, for every crew, menu of wirings, set of repositories, slugs *)
(* and names, and every bound on runs and faults: types, that the user's   *)
(* files and commands outlive envctl, that what is built is what was asked *)
(* for, that no step goes beyond its mandate, and that what apply and      *)
(* revert report is what they left.                                        *)
(*                                                                         *)
(* Of Desktop, for every registry and any number of buttons pressed:       *)
(* types, that the rows are honest - a busy one has work coming, and when  *)
(* all is quiet they show the host - and that the sampler sleeps neither   *)
(* on an old cadence nor through a stop.                                   *)
(***************************************************************************)
EXTENDS AddRepo, Desktop, FiniteSetTheorems, WellFoundedInduction, TLAPS

(* What holds of 0 and of the successor of each number it holds of.        *)
LEMMA Inducted ==
    ASSUME NEW P \in SUBSET Nat, 0 \in P, \A k \in P : k + 1 \in P
    PROVE  P = Nat
<1> SUFFICES ASSUME Nat \ P # {}
             PROVE  FALSE
  OBVIOUS
<1>1. PICK n \in Nat \ P : \A m \in Nat \ P : <<m, n>> \notin OpToRel(<, Nat)
  BY NatLessThanWellFounded, WFMin
<1>2. \A m \in Nat \ P : ~(m < n)
  BY <1>1 DEF OpToRel
<1>3. n \in Nat /\ n # 0
  OBVIOUS
<1>4. n - 1 \in Nat /\ n - 1 < n
  BY <1>3
<1>5. n - 1 \in P
  BY <1>2, <1>4
<1>6. (n - 1) + 1 \in P
  BY <1>5
<1>7. (n - 1) + 1 = n
  BY <1>3
<1>8. QED
  BY <1>6, <1>7

LEMMA MaxOfSome ==
    ASSUME NEW n \in Nat, NEW T \in SUBSET (1 .. n), T # {}
    PROVE  Max(T) \in T /\ \A i \in T : Max(T) >= i
<1> DEFINE P == {k \in Nat : \A U \in SUBSET (1 .. k) : U # {} => \E m \in U : \A i \in U : m >= i}
<1>1. 0 \in P
  BY 1 .. 0 = {}
<1>2. ASSUME NEW k \in P PROVE k + 1 \in P
  <2> SUFFICES ASSUME NEW U \in SUBSET (1 .. k + 1), U # {}
               PROVE  \E m \in U : \A i \in U : m >= i
    BY k + 1 \in Nat
  <2>1. CASE k + 1 \in U
    <3>1. \A i \in U : k + 1 >= i
      OBVIOUS
    <3>2. QED
      BY <2>1, <3>1
  <2>2. CASE k + 1 \notin U
    <3>1. U \in SUBSET (1 .. k)
      BY <2>2
    <3>2. QED
      BY <3>1
  <2>3. QED
    BY <2>1, <2>2
<1>3. P = Nat
  <2> HIDE DEF P
  <2>1. P \in SUBSET Nat
    BY DEF P
  <2>2. QED
    BY <1>1, <1>2, <2>1, Inducted
<1>4. \E m \in T : \A i \in T : m >= i
  BY <1>3
<1>5. QED
  BY <1>4 DEF Max

LEMMA MaxOfRange == ASSUME NEW k \in Nat PROVE Max(1 .. k + 1) = k + 1
<1>1. k + 1 \in 1 .. k + 1 /\ k + 1 \in Nat
  OBVIOUS
<1> DEFINE T == 1 .. k + 1
<1>2. Max(T) \in T /\ Max(T) >= k + 1
  <2>1. T \in SUBSET (1 .. k + 1) /\ T # {} /\ k + 1 \in T
    BY <1>1
  <2> HIDE DEF T
  <2>2. QED
    BY <1>1, <2>1, MaxOfSome
<1>3. QED
  BY <1>2

(* A fold over the indices up to n has a value, whatever it does with each *)
FoldTable(f, base, n, g) ==
    f = [T \in SUBSET (1 .. n) |-> IF T = {} THEN base ELSE g[Max(T)][f[T \ {Max(T)}]]]

LEMMA FoldExists ==
    ASSUME NEW X, NEW base \in X, NEW n \in Nat, NEW g \in [1 .. n -> [X -> X]]
    PROVE  \E f \in [SUBSET (1 .. n) -> X] : FoldTable(f, base, n, g)
<1> DEFINE Folds(f, k) == \A T \in SUBSET (1 .. k) :
                f[T] = IF T = {} THEN base ELSE g[Max(T)][f[T \ {Max(T)}]]
           P == {k \in Nat : k <= n => \E f \in [SUBSET (1 .. k) -> X] : Folds(f, k)}
<1>1. 0 \in P
  <2>1. SUBSET (1 .. 0) = {{}}
    OBVIOUS
  <2> DEFINE h == [T \in {{}} |-> base]
  <2>2. h \in [SUBSET (1 .. 0) -> X] /\ h[{}] = base
    BY <2>1
  <2> HIDE DEF h
  <2>3. Folds(h, 0)
    BY <2>1, <2>2
  <2>4. QED
    BY <2>2, <2>3
<1>2. ASSUME NEW k \in P PROVE k + 1 \in P
  <2> SUFFICES ASSUME k + 1 <= n
               PROVE  \E f \in [SUBSET (1 .. k + 1) -> X] : Folds(f, k + 1)
    BY k + 1 \in Nat
  <2>0. k <= n /\ k \in Nat
    OBVIOUS
  <2>1. PICK f \in [SUBSET (1 .. k) -> X] : Folds(f, k)
    BY <2>0
  <2> DEFINE h == [T \in SUBSET (1 .. k + 1) |->
                     IF k + 1 \in T THEN g[k + 1][f[T \ {k + 1}]] ELSE f[T]]
  <2>2. ASSUME NEW T \in SUBSET (1 .. k + 1)
        PROVE  /\ k + 1 \notin T => T \in SUBSET (1 .. k)
               /\ T \ {k + 1} \in SUBSET (1 .. k)
    <3>1. \A i \in 1 .. k + 1 : i = k + 1 \/ i \in 1 .. k
      BY <2>0
    <3>2. QED
      BY <3>1
  <2>3. h \in [SUBSET (1 .. k + 1) -> X]
    <3>1. k + 1 \in 1 .. n
      OBVIOUS
    <3>2. ASSUME NEW T \in SUBSET (1 .. k + 1)
          PROVE  (IF k + 1 \in T THEN g[k + 1][f[T \ {k + 1}]] ELSE f[T]) \in X
      <4>1. CASE k + 1 \in T
        <5>1. f[T \ {k + 1}] \in X /\ g[k + 1] \in [X -> X]
          BY <2>1, <2>2, <3>1
        <5>2. QED
          BY <4>1, <5>1
      <4>2. CASE k + 1 \notin T
        BY <2>1, <2>2, <4>2
      <4>3. QED
        BY <4>1, <4>2
    <3> HIDE DEF Folds, P
    <3>3. QED
      BY <3>2
  <2>4. ASSUME NEW T \in SUBSET (1 .. k + 1), T # {}
        PROVE  h[T] = g[Max(T)][h[T \ {Max(T)}]]
    <3>0. Max(T) \in T /\ \A i \in T : Max(T) >= i
      BY k + 1 \in Nat, <2>4, MaxOfSome
    <3>1. CASE k + 1 \in T
      <4>1. Max(T) = k + 1
        <5>1. Max(T) >= k + 1 /\ Max(T) \in 1 .. k + 1
          BY <3>0, <3>1
        <5>2. QED
          BY <2>0, <5>1
      <4>2. h[T] = g[k + 1][f[T \ {k + 1}]] /\ h[T \ {k + 1}] = f[T \ {k + 1}]
        BY <3>1
      <4>3. QED
        BY <4>1, <4>2
    <3>2. CASE k + 1 \notin T
      <4>1. T \in SUBSET (1 .. k) /\ h[T] = f[T] /\ h[T \ {Max(T)}] = f[T \ {Max(T)}]
        BY <2>2, <3>2
      <4>2. QED
        BY <2>1, <2>4, <4>1
    <3>3. QED
      BY <3>1, <3>2
  <2>5. h[{}] = base
    <3>1. {} \in SUBSET (1 .. k) /\ k + 1 \notin {} /\ {} \in SUBSET (1 .. k + 1)
      OBVIOUS
    <3>2. QED
      BY <2>1, <3>1
  <2>6. Folds(h, k + 1)
    <3> HIDE DEF h
    <3>1. QED
      BY <2>4, <2>5
  <2>7. QED
    BY <2>3, <2>6
<1>3. P = Nat
  <2> HIDE DEF P
  <2>1. P \in SUBSET Nat
    BY DEF P
  <2>2. QED
    BY <1>1, <1>2, <2>1, Inducted
<1>4. PICK f \in [SUBSET (1 .. n) -> X] : Folds(f, n)
  <2>0. n \in Nat /\ n <= n
    OBVIOUS
  <2> HIDE DEF P
  <2>1. n \in P
    BY <1>3, <2>0
  <2> USE DEF P
  <2>2. QED
    BY <2>0, <2>1
<1>5. FoldTable(f, base, n, g)
  BY <1>4 DEF FoldTable
<1>6. QED
  BY <1>5

(* Those of a sequence that are in a set, turn by turn.                    *)
Turns(t, seq, set) ==
    /\ t[0] = <<>>
    /\ \A k \in 0 .. Len(seq) - 1 :
         t[k + 1] = IF seq[k + 1] \in set THEN Append(t[k], seq[k + 1]) ELSE t[k]
    /\ t[Len(seq)] = Filtered(seq, set)

LEMMA FilteredTurns ==
    ASSUME NEW D, NEW seq \in Seq(D), NEW set
    PROVE  \E t \in [0 .. Len(seq) -> Seq(D \cap set)] : Turns(t, seq, set)
<1> DEFINE X == Seq(D \cap set)
           n == Len(seq)
           g == [i \in 1 .. n |-> [v \in X |-> IF seq[i] \in set THEN Append(v, seq[i]) ELSE v]]
           Value(f) == [T \in SUBSET (1 .. n) |->
                          IF T = {} THEN <<>>
                          ELSE IF seq[Max(T)] \in set THEN Append(f[T \ {Max(T)}], seq[Max(T)])
                                                     ELSE f[T \ {Max(T)}]]
<1>1. g \in [1 .. n -> [X -> X]] /\ n \in Nat /\ <<>> \in X /\ DOMAIN seq = 1 .. n
  OBVIOUS
<1>2. PICK f \in [SUBSET (1 .. n) -> X] : FoldTable(f, <<>>, n, g)
  <2> HIDE DEF X, n, g
  <2>1. QED
    BY <1>1, FoldExists
<1>3. f = Value(f)
  <2>1. ASSUME NEW T \in SUBSET (1 .. n), T # {}
        PROVE  g[Max(T)][f[T \ {Max(T)}]]
                 = IF seq[Max(T)] \in set THEN Append(f[T \ {Max(T)}], seq[Max(T)]) ELSE f[T \ {Max(T)}]
    <3>1. Max(T) \in 1 .. n /\ T \ {Max(T)} \in SUBSET (1 .. n)
      BY <1>1, <2>1, MaxOfSome
    <3>2. f[T \ {Max(T)}] \in X
      BY <1>2, <3>1
    <3> HIDE DEF X, n
    <3>3. QED
      BY <3>1, <3>2
  <2> HIDE DEF X, n, g
  <2>2. QED
    BY <1>2, <2>1 DEF FoldTable
<1> DEFINE r == CHOOSE h : h = Value(h)
<1>4. Filtered(seq, set) = r[1 .. n]
  BY <1>1 DEF Filtered, FoldLeft, MapThenFoldSet
<1>5. r = Value(r)
  <2> HIDE DEF Value
  <2>1. QED
    BY <1>3
<1>6. r[{}] = <<>>
  <2>1. {} \in SUBSET (1 .. n)
    OBVIOUS
  <2> HIDE DEF r
  <2>2. QED
    BY <1>5, <2>1
<1>7. ASSUME NEW k \in 0 .. n - 1
      PROVE  r[1 .. k + 1] = IF seq[k + 1] \in set THEN Append(r[1 .. k], seq[k + 1]) ELSE r[1 .. k]
  <2>1. 1 .. k + 1 \in SUBSET (1 .. n) /\ 1 .. k + 1 # {} /\ (1 .. k + 1) \ {k + 1} = 1 .. k /\ k \in Nat
    BY <1>1
  <2>2. Max(1 .. k + 1) = k + 1
    BY <2>1, MaxOfRange
  <2> HIDE DEF r
  <2>3. QED
    BY <1>5, <2>1, <2>2
<1> DEFINE P == {k \in Nat : k <= n => r[1 .. k] \in X}
<1> HIDE DEF r
<1>8. 0 \in P
  BY <1>1, <1>6, 1 .. 0 = {}
<1>9. ASSUME NEW k \in P PROVE k + 1 \in P
  <2> SUFFICES ASSUME k + 1 <= n
               PROVE  r[1 .. k + 1] \in X
    BY k + 1 \in Nat
  <2>1. k \in 0 .. n - 1 /\ r[1 .. k] \in X /\ seq[k + 1] \in D
    BY <1>1
  <2>2. seq[k + 1] \in set => Append(r[1 .. k], seq[k + 1]) \in X
    BY <2>1
  <2>3. r[1 .. k + 1] = IF seq[k + 1] \in set THEN Append(r[1 .. k], seq[k + 1]) ELSE r[1 .. k]
    BY <1>7, <2>1
  <2> HIDE DEF X
  <2>4. QED
    BY <2>1, <2>2, <2>3
<1>10. P = Nat
  <2>1. P \in SUBSET Nat
    OBVIOUS
  <2> HIDE DEF P
  <2>2. QED
    BY <1>8, <1>9, <2>1, Inducted
<1>11. \A k \in 0 .. n : r[1 .. k] \in X
  BY <1>1, <1>10
<1> DEFINE t == [k \in 0 .. n |-> r[1 .. k]]
<1>12. t \in [0 .. n -> X]
  BY <1>11
<1>13. t[0] = <<>> /\ t[n] = Filtered(seq, set)
  <2>1. 0 \in 0 .. n /\ n \in 0 .. n /\ 1 .. 0 = {}
    BY <1>1
  <2> HIDE DEF n
  <2>2. QED
    BY <1>4, <1>6, <2>1
<1>14. ASSUME NEW k \in 0 .. n - 1
       PROVE  t[k + 1] = IF seq[k + 1] \in set THEN Append(t[k], seq[k + 1]) ELSE t[k]
  <2>1. k \in 0 .. n /\ k + 1 \in 0 .. n
    BY <1>1
  <2> HIDE DEF n
  <2>2. QED
    BY <1>7, <2>1
<1>15. QED
  BY <1>12, <1>13, <1>14 DEF Turns

(* They make a sequence of them.                                           *)
LEMMA FilteredFits ==
    ASSUME NEW D, NEW seq \in Seq(D), NEW set
    PROVE  Filtered(seq, set) \in Seq(D \cap set)
<1>1. PICK t \in [0 .. Len(seq) -> Seq(D \cap set)] : Turns(t, seq, set)
  BY FilteredTurns
<1>2. Len(seq) \in 0 .. Len(seq)
  OBVIOUS
<1>3. QED
  BY <1>1, <1>2 DEF Turns
-----------------------------------------------------------------------------
(* The files the user may have written to, by hand or before envctl came.  *)
UserFile == {"rc", "desktop", "unit", "list", "nix", "config", "data"}

(* What a process carries, and where it may stand with it: only at rest it *)
(* is bare, between the steps of a piece there is one, and the text it     *)
(* will write back without a block is one with the block.                  *)
MeType ==
    [at : Labels, mode : {"none", "apply", "revert"}, comp : Component \cup {"none"},
     todo : Seq(Piece), text : Seq(Line), bad : BOOLEAN, dirty : BOOLEAN, mute : SUBSET Piece,
     keep : BOOLEAN, purge : BOOLEAN]

MarkerIn(m) == IF Head(m.todo) = "path" THEN "PATH" ELSE m.comp
Placed(m) ==
    /\ m.at = "idle" => m = Idle
    /\ m.at # "idle" => m.comp \in Component /\ m.mode # "none"
    /\ m.at \notin {"idle", "check"} => m.todo # <<>> /\ Head(m.todo) # "restart"
    /\ m.at \in {"save", "edit", "fill"} /\ m.mode = "revert" /\ Head(m.todo) \in Blocks
         => HasBlock(m.text, MarkerIn(m))
Crew == me \in [Proc -> MeType] /\ \A p \in Proc : Placed(me[p])
Files == file \in [File -> Seq(Line)] /\ bak \in [File -> SUBSET Line] /\ loaded \in Seq(Line)
Counts ==
    /\ lost \subseteq File /\ blind \subseteq Component \cup {"PATH"} /\ wrote \subseteq UserFile
    /\ runs \in 0 .. scene.runs /\ faults \in 0 .. scene.faults
HostTypes == scene \in Scenes /\ Crew /\ Files /\ Counts

LEMMA IdleFits == Idle \in MeType /\ Placed(Idle)
  BY DEF Idle, MeType, Placed, Labels

LEMMA LinesFit ==
    /\ Gone \in Line /\ Mine \in Line /\ Part \in Line
    /\ \A c \in Component \cup {"PATH"} : Ours(c) \in Line /\ Begin(c) \in Line /\ Body(c) \in Line /\ End(c) \in Line
  BY DEF Line, Gone, Mine, Part, Ours, Begin, Body, End

LEMMA HostImplies == HostTypes => TypeOK
<1> SUFFICES ASSUME HostTypes
             PROVE  TypeOK
  OBVIOUS
<1>1. \A f \in File : Range(file[f]) \subseteq Line /\ bak[f] \subseteq Line
  BY DEF HostTypes, Files, Range
<1>2. ASSUME NEW p \in Proc
      PROVE  /\ me[p].at \in Labels /\ (me[p].at = "idle" <=> me[p] = Idle)
             /\ me[p].mute \subseteq Piece /\ Range(me[p].todo) \subseteq Piece
  <2>1. me[p] \in MeType /\ Placed(me[p]) /\ Idle.at = "idle"
    BY DEF HostTypes, Crew, Idle
  <2>2. me[p].at \in Labels /\ me[p].mute \subseteq Piece /\ me[p].todo \in Seq(Piece)
    BY <2>1 DEF MeType
  <2>3. Range(me[p].todo) \subseteq Piece
    BY <2>2 DEF Range
  <2>4. QED
    BY <2>1, <2>2, <2>3 DEF Placed
<1>3. UserFile \subseteq File
  BY DEF UserFile, File
<1>4. QED
  BY <1>1, <1>2, <1>3 DEF HostTypes, Counts, TypeOK

(* One process goes on with what fits; the others stay as they are.        *)
Alone(p) == \A q \in Proc \ {p} : me'[q] = me[q]

LEMMA CrewStep ==
    ASSUME Crew, NEW p \in Proc, NEW m \in MeType, Placed(m), me' = [me EXCEPT ![p] = m]
    PROVE  Crew' /\ Alone(p)
  BY DEF Crew, Alone

LEMMA AfterFailureFits ==
    ASSUME NEW todo \in Seq(Piece), todo # <<>>
    PROVE  AfterFailure(todo) \in Seq(Piece)
<1> DEFINE set == {q \in Piece : \A pair \in Together : ~({Head(todo), q} \subseteq pair)}
<1>1. Tail(todo) \in Seq(Piece)
  OBVIOUS
<1>2. Filtered(Tail(todo), set) \in Seq(Piece \cap set)
  <2> HIDE DEF set
  <2>1. QED
    BY <1>1, FilteredFits
<1>3. Seq(Piece \cap set) \subseteq Seq(Piece)
  OBVIOUS
<1>4. QED
  BY <1>2, <1>3 DEF AfterFailure

(* The ways out of a piece.                                                *)
LEMMA LeaveFits ==
    ASSUME Crew, NEW p \in Proc, me[p].at # "idle", me[p].todo # <<>>, Leave(p) \/ Mute(p) \/ Fails(p)
    PROVE  Crew' /\ Alone(p)
<1>1. me[p] \in MeType /\ Placed(me[p])
  BY DEF Crew
<1>2. Tail(me[p].todo) \in Seq(Piece) /\ AfterFailure(me[p].todo) \in Seq(Piece) /\ PieceOf(p) \in Piece
  BY <1>1, AfterFailureFits DEF MeType, PieceOf
<1>3. CASE Leave(p)
  <2>1. me' = [me EXCEPT ![p] = [me[p] EXCEPT !.at = "check", !.todo = Tail(me[p].todo)]]
    BY <1>3 DEF Leave
  <2>2. /\ [me[p] EXCEPT !.at = "check", !.todo = Tail(me[p].todo)] \in MeType
        /\ Placed([me[p] EXCEPT !.at = "check", !.todo = Tail(me[p].todo)])
    BY <1>1, <1>2 DEF MeType, Placed, Labels
  <2>3. QED
    BY <2>1, <2>2, CrewStep
<1>4. CASE Mute(p)
  <2>1. me' = [me EXCEPT ![p] = [me[p] EXCEPT !.at = "check", !.todo = Tail(me[p].todo),
                                               !.mute = me[p].mute \cup {PieceOf(p)}]]
    BY <1>4 DEF Mute, PieceOf
  <2>2. /\ [me[p] EXCEPT !.at = "check", !.todo = Tail(me[p].todo),
                         !.mute = me[p].mute \cup {PieceOf(p)}] \in MeType
        /\ Placed([me[p] EXCEPT !.at = "check", !.todo = Tail(me[p].todo),
                         !.mute = me[p].mute \cup {PieceOf(p)}])
    BY <1>1, <1>2 DEF MeType, Placed, Labels
  <2>3. QED
    BY <2>1, <2>2, CrewStep
<1>5. CASE Fails(p)
  <2>1. me' = [me EXCEPT ![p] = [me[p] EXCEPT !.at = "check", !.todo = AfterFailure(me[p].todo), !.bad = TRUE]]
    BY <1>5 DEF Fails
  <2>2. /\ [me[p] EXCEPT !.at = "check", !.todo = AfterFailure(me[p].todo), !.bad = TRUE] \in MeType
        /\ Placed([me[p] EXCEPT !.at = "check", !.todo = AfterFailure(me[p].todo), !.bad = TRUE])
    BY <1>1, <1>2 DEF MeType, Placed, Labels
  <2>3. QED
    BY <2>1, <2>2, CrewStep
<1>6. QED
  BY <1>3, <1>4, <1>5

LEMMA DiesFits == ASSUME Crew, NEW p \in Proc, Dies(p) PROVE Crew' /\ Alone(p)
  BY IdleFits, CrewStep DEF Dies

(* Going on with a piece, with a block in hand where one is taken out.     *)
LEMMA GoFits ==
    ASSUME Crew, NEW p \in Proc, NEW label \in Labels \ {"idle"}, me[p].at # "idle",
           me[p].todo # <<>>, PieceOf(p) # "restart", Go(p, label),
           me[p].mode = "revert" /\ PieceOf(p) \in Blocks => HasBlock(me[p].text, Marker(p))
    PROVE  Crew' /\ Alone(p)
<1>1. me[p] \in MeType /\ Placed(me[p])
  BY DEF Crew
<1>2. me' = [me EXCEPT ![p] = [me[p] EXCEPT !.at = label]]
  BY DEF Go
<1>3. /\ [me[p] EXCEPT !.at = label] \in MeType
      /\ Placed([me[p] EXCEPT !.at = label])
  BY <1>1 DEF MeType, Placed, MarkerIn, Marker, PieceOf
<1>4. QED
  BY <1>2, <1>3, CrewStep
-----------------------------------------------------------------------------
LEMMA MinOfSome ==
    ASSUME NEW n \in Nat, NEW T \in SUBSET (1 .. n), T # {}
    PROVE  Min(T) \in T /\ \A i \in T : Min(T) <= i
<1>1. T \in SUBSET Nat
  OBVIOUS
<1>2. PICK m \in T : \A k \in T : <<k, m>> \notin OpToRel(<, Nat)
  BY <1>1, NatLessThanWellFounded, WFMin
<1>3. ASSUME NEW k \in T PROVE m <= k
  <2>1. m \in Nat /\ k \in Nat /\ ~(k < m)
    BY <1>1, <1>2 DEF OpToRel
  <2>2. QED
    BY <2>1
<1>4. QED
  BY <1>3 DEF Min

(* The first line of a kind in a text.                                     *)
FirstAt(text, wanted) == SelectInSeq(text, LAMBDA line : line = wanted)

LEMMA FirstLine ==
    ASSUME NEW text \in Seq(Line), NEW wanted
    PROVE  /\ FirstAt(text, wanted) \in 0 .. Len(text)
           /\ FirstAt(text, wanted) = 0 <=> ~Contains(text, wanted)
           /\ FirstAt(text, wanted) # 0 =>
                /\ text[FirstAt(text, wanted)] = wanted
                /\ \A j \in 1 .. FirstAt(text, wanted) - 1 : text[j] # wanted
<1> DEFINE I == {j \in 1 .. Len(text) : text[j] = wanted}
           i == FirstAt(text, wanted)
<1>1. i = IF I # {} THEN Min(I) ELSE 0
  BY DEF FirstAt, SelectInSeq
<1>2. I = {} <=> ~Contains(text, wanted)
  BY DEF Contains
<1>3. Len(text) \in Nat /\ I \in SUBSET (1 .. Len(text))
  OBVIOUS
<1>4. I # {} => Min(I) \in I /\ \A j \in I : Min(I) <= j
  <2> HIDE DEF I
  <2>1. QED
    BY <1>3, MinOfSome
<1> HIDE DEF i
<1>5. CASE I = {}
  <2>1. i = 0
    BY <1>1, <1>5
  <2>2. QED
    BY <1>2, <1>3, <1>5, <2>1 DEF i
<1>6. CASE I # {}
  <2>1. i \in I /\ \A j \in I : i <= j
    BY <1>1, <1>4, <1>6
  <2>2. i \in 1 .. Len(text) /\ text[i] = wanted
    BY <2>1
  <2>3. ASSUME NEW j \in 1 .. i - 1 PROVE text[j] # wanted
    <3>1. j \in 1 .. Len(text) /\ ~(i <= j)
      BY <1>3, <2>2
    <3>2. QED
      BY <2>1, <3>1
  <2>4. i \in 0 .. Len(text) /\ i # 0 /\ Contains(text, wanted)
    BY <1>2, <1>3, <1>6, <2>2
  <2>5. QED
    BY <2>2, <2>3, <2>4 DEF i
<1>7. QED
  BY <1>5, <1>6

LEMMA BlockPlaces ==
    ASSUME NEW text \in Seq(Line), NEW m, HasBlock(text, m)
    PROVE  /\ BeginsAt(text, m) \in 1 .. Len(text) /\ text[BeginsAt(text, m)] = Begin(m)
           /\ \A j \in 1 .. BeginsAt(text, m) - 1 : text[j] # Begin(m)
           /\ EndsAt(text, m) \in {0} \cup BeginsAt(text, m) .. Len(text)
           /\ EndsAt(text, m) # 0 =>
                /\ text[EndsAt(text, m)] = End(m)
                /\ \A j \in BeginsAt(text, m) .. EndsAt(text, m) - 1 : text[j] # End(m)
<1> DEFINE b == BeginsAt(text, m)
           rest == SubSeq(text, b, Len(text))
           n == FirstAt(rest, End(m))
<1>0. b = FirstAt(text, Begin(m))
  BY DEF BeginsAt, FirstAt, SelectInSeq
<1>1. b \in 1 .. Len(text) /\ text[b] = Begin(m) /\ \A j \in 1 .. b - 1 : text[j] # Begin(m)
  <2> HIDE DEF b
  <2>1. Len(text) \in Nat
    OBVIOUS
  <2>2. QED
    BY <1>0, <2>1, FirstLine DEF HasBlock
<1> HIDE DEF b
<1>2. /\ rest \in Seq(Line) /\ Len(rest) = Len(text) - b + 1
      /\ \A j \in 1 .. Len(rest) : rest[j] = text[b + j - 1]
  BY <1>1
<1> HIDE DEF rest
<1>3. /\ n \in 0 .. Len(rest)
      /\ n # 0 => rest[n] = End(m) /\ \A j \in 1 .. n - 1 : rest[j] # End(m)
  BY <1>2, FirstLine
<1>4. EndsAt(text, m) = IF n = 0 THEN 0 ELSE b + n - 1
  BY DEF EndsAt, b, rest, FirstAt, SelectInSeq
<1> HIDE DEF n
<1>5. CASE n = 0
  BY <1>1, <1>4, <1>5 DEF b
<1>6. CASE n # 0
  <2>1. b + n - 1 \in b .. Len(text) /\ text[b + n - 1] = End(m) /\ b + n - 1 # 0
    BY <1>1, <1>2, <1>3, <1>6
  <2>2. ASSUME NEW j \in b .. b + n - 2
        PROVE  text[j] # End(m)
    <3>1. j - b + 1 \in 1 .. n - 1 /\ b + (j - b + 1) - 1 = j
      BY <1>1, <1>2, <1>3
    <3>2. QED
      BY <1>2, <1>3, <1>6, <3>1
  <2>3. (b + n - 1) - 1 = b + n - 2
    BY <1>1, <1>3
  <2>4. QED
    BY <1>1, <1>4, <1>6, <2>1, <2>2, <2>3 DEF b
<1>7. QED
  BY <1>5, <1>6

LEMMA ExcisedFits ==
    ASSUME NEW text \in Seq(Line), NEW m, HasBlock(text, m)
    PROVE  Excised(text, m) \in Seq(Line)
<1>1. BeginsAt(text, m) \in 1 .. Len(text) /\ EndsAt(text, m) \in {0} \cup BeginsAt(text, m) .. Len(text)
  BY BlockPlaces
<1>2. SubSeq(text, 1, BeginsAt(text, m) - 1) \in Seq(Line)
  BY <1>1
<1>3. EndsAt(text, m) # 0 => After(text, m) \in Seq(Line)
  BY <1>1 DEF After
<1>4. QED
  BY <1>2, <1>3 DEF Excised

LEMMA PutFits ==
    ASSUME Files, NEW f \in File, NEW text \in Seq(Line), file' = [file EXCEPT ![f] = text],
           UNCHANGED <<bak, loaded>>
    PROVE  Files'
  BY DEF Files
-----------------------------------------------------------------------------
LEMMA Stands ==
    ASSUME HostTypes, NEW p \in Proc
    PROVE  /\ me[p] \in MeType /\ Placed(me[p])
           /\ me[p].at # "idle" => me[p].comp \in Component
           /\ me[p].todo # <<>> => PieceOf(p) \in Piece /\ (PieceOf(p) # "restart" => FileOf(p) \in File)
           /\ Marker(p) = MarkerIn(me[p])
<1>1. me[p] \in MeType /\ Placed(me[p])
  BY DEF HostTypes, Crew
<1>2. me[p].todo # <<>> => PieceOf(p) \in Piece
  BY <1>1 DEF MeType, PieceOf
<1>3. QED
  BY <1>1, <1>2 DEF Placed, FileOf, Piece, File, Marker, MarkerIn, PieceOf

(* What a step of a piece makes of its process.                            *)
Ends(p) == Leave(p) \/ Mute(p) \/ Fails(p) \/ Dies(p)
Dirties(p) == me' = [me EXCEPT ![p].at = "check", ![p].todo = Tail(@), ![p].dirty = TRUE]
Reads(p) ==
    \E text \in Seq(Line) :
        /\ me' = [me EXCEPT ![p].at = "save", ![p].text = text]
        /\ PieceOf(p) \in Blocks => HasBlock(text, Marker(p))
Proceeds(p) ==
    \E label \in Labels \ {"idle"} :
        /\ Go(p, label)
        /\ me[p].mode = "revert" /\ PieceOf(p) \in Blocks => HasBlock(me[p].text, Marker(p))

Gropes(p) ==
    /\ me[p].mode = "apply"
    /\ me' = [me EXCEPT ![p].at = "save", ![p].mute = @ \cup {PieceOf(p)}]

LEMMA MoveFits ==
    ASSUME HostTypes, NEW p \in Proc, me[p].at # "idle", me[p].todo # <<>>,
           \/ Ends(p)
           \/ PieceOf(p) # "restart" /\ (Dirties(p) \/ Reads(p) \/ Proceeds(p) \/ Gropes(p))
    PROVE  Crew' /\ Alone(p)
<1>0. Crew /\ me[p] \in MeType /\ Placed(me[p])
  BY Stands DEF HostTypes
<1>1. CASE Ends(p)
  BY <1>0, <1>1, LeaveFits, DiesFits DEF Ends
<1>2. CASE Dirties(p)
  <2>1. me' = [me EXCEPT ![p] = [me[p] EXCEPT !.at = "check", !.todo = Tail(me[p].todo), !.dirty = TRUE]]
    BY <1>2 DEF Dirties
  <2>2. Tail(me[p].todo) \in Seq(Piece)
    BY <1>0 DEF MeType
  <2>3. /\ [me[p] EXCEPT !.at = "check", !.todo = Tail(me[p].todo), !.dirty = TRUE] \in MeType
        /\ Placed([me[p] EXCEPT !.at = "check", !.todo = Tail(me[p].todo), !.dirty = TRUE])
    BY <1>0, <2>2 DEF MeType, Placed, Labels
  <2>4. QED
    BY <1>0, <2>1, <2>3, CrewStep
<1>3. CASE PieceOf(p) # "restart" /\ Reads(p)
  <2>1. PICK text \in Seq(Line) :
          /\ me' = [me EXCEPT ![p] = [me[p] EXCEPT !.at = "save", !.text = text]]
          /\ PieceOf(p) \in Blocks => HasBlock(text, Marker(p))
    BY <1>3 DEF Reads
  <2>2. /\ [me[p] EXCEPT !.at = "save", !.text = text] \in MeType
        /\ Placed([me[p] EXCEPT !.at = "save", !.text = text])
    BY <1>0, <1>3, <2>1 DEF MeType, Placed, Labels, MarkerIn, Marker, PieceOf
  <2>3. QED
    BY <1>0, <2>1, <2>2, CrewStep
<1>4. CASE PieceOf(p) # "restart" /\ Proceeds(p)
  BY <1>0, <1>4, GoFits DEF Proceeds
<1>5. CASE PieceOf(p) # "restart" /\ Gropes(p)
  <2>1. PieceOf(p) \in Piece
    BY <1>0, Stands
  <2>2. me' = [me EXCEPT ![p] = [me[p] EXCEPT !.at = "save", !.mute = me[p].mute \cup {PieceOf(p)}]]
    BY <1>5 DEF Gropes
  <2>3. /\ [me[p] EXCEPT !.at = "save", !.mute = me[p].mute \cup {PieceOf(p)}] \in MeType
        /\ Placed([me[p] EXCEPT !.at = "save", !.mute = me[p].mute \cup {PieceOf(p)}])
    BY <1>0, <1>5, <2>1 DEF MeType, Placed, Labels, PieceOf, Gropes
  <2>4. QED
    BY <1>0, <2>2, <2>3, CrewStep
<1>6. QED
  BY <1>1, <1>2, <1>3, <1>4, <1>5

LEMMA EditsCrew ==
    ASSUME HostTypes, NEW p \in Proc, Edits(p)
    PROVE  Crew' /\ Alone(p)
<1> USE DEF At, Ends
<1>0. me[p] \in MeType /\ Placed(me[p]) /\ Marker(p) = MarkerIn(me[p])
  BY Stands
<1>1. CASE Save(p)
  <2>1. me[p].at = "save" /\ (Fails(p) \/ Go(p, "edit"))
    BY <1>1 DEF Save
  <2>2. /\ me[p].todo # <<>> /\ PieceOf(p) # "restart"
        /\ me[p].mode = "revert" /\ PieceOf(p) \in Blocks => HasBlock(me[p].text, Marker(p))
    BY <1>0, <2>1 DEF Placed, PieceOf
  <2>3. Fails(p) \/ Proceeds(p)
    BY <2>1, <2>2 DEF Proceeds, Labels
  <2>4. QED
    BY <2>1, <2>2, <2>3, MoveFits
<1>2. CASE CheckBlock(p) \/ AppendBlock(p)
  <2>1. /\ me[p].at # "idle" /\ me[p].todo # <<>> /\ PieceOf(p) # "restart" /\ me[p].mode = "apply"
        /\ Ends(p) \/ Go(p, "save") \/ Go(p, "edit") \/ Gropes(p)
    BY <1>2 DEF CheckBlock, AppendBlock, Tears, Blocks, Gropes
  <2>2. Ends(p) \/ Proceeds(p) \/ Gropes(p)
    BY <2>1 DEF Proceeds, Labels
  <2>3. QED
    BY <2>1, <2>2, MoveFits
<1>3. CASE ReadBlock(p)
  <2>1. me[p].at # "idle" /\ me[p].todo # <<>> /\ PieceOf(p) \in Blocks
    BY <1>3 DEF ReadBlock
  <2>2. file["rc"] \in Seq(Line)
    BY DEF HostTypes, Files, File
  <2>3. Ends(p) \/ Reads(p)
    BY <1>3, <2>2 DEF ReadBlock, Reads
  <2>4. QED
    BY <2>1, <2>3, MoveFits DEF Blocks
<1>4. CASE Truncate(p) \/ Fill(p)
  <2>1. /\ me[p].at \in {"edit", "fill"} /\ me[p].mode = "revert" /\ me[p].todo # <<>> /\ PieceOf(p) \in Blocks
        /\ Ends(p) \/ Go(p, "fill")
    BY <1>4 DEF Truncate, Fill
  <2>2. HasBlock(me[p].text, Marker(p))
    BY <1>0, <2>1 DEF Placed, PieceOf
  <2>3. Ends(p) \/ Proceeds(p)
    BY <2>1, <2>2 DEF Proceeds, Labels
  <2>4. QED
    BY <2>1, <2>3, MoveFits DEF Blocks
<1>5. CASE CheckFile(p) \/ WriteFile(p) \/ CheckRemoval(p) \/ RemoveFile(p)
  <2>1. /\ me[p].at # "idle" /\ me[p].todo # <<>> /\ PieceOf(p) \in Owned \cup Removed
        /\ Ends(p) \/ Go(p, "save") \/ Go(p, "edit")
    BY <1>5 DEF CheckFile, WriteFile, CheckRemoval, RemoveFile, Tears
  <2>2. PieceOf(p) # "restart" /\ PieceOf(p) \notin Blocks
    BY <2>1 DEF Owned, Removed, Blocks
  <2>3. Ends(p) \/ Proceeds(p)
    BY <2>1, <2>2 DEF Proceeds, Labels
  <2>4. QED
    BY <2>1, <2>2, <2>3, MoveFits
<1>6. CASE Systemctl(p) \/ ChmodKey(p) \/ Restart(p) \/ GenerateCdi(p) \/ InstallAlternative(p)
             \/ RemoveAlternative(p) \/ MoveConfig(p) \/ PurgeData(p)
  <2>1. me[p].at # "idle" /\ me[p].todo # <<>> /\ Ends(p)
    BY <1>6 DEF Systemctl, ChmodKey, Restart, GenerateCdi, InstallAlternative, RemoveAlternative,
                MoveConfig, PurgeData
  <2>2. QED
    BY <2>1, MoveFits
<1>7. CASE FetchKey(p) \/ CheckLine(p)
  <2>1. /\ me[p].at # "idle" /\ me[p].todo # <<>> /\ PieceOf(p) # "restart" /\ me[p].mode = "apply"
        /\ Ends(p) \/ Go(p, "save") \/ Go(p, "chmod")
    BY <1>7 DEF FetchKey, CheckLine, Tears
  <2>2. Ends(p) \/ Proceeds(p)
    BY <2>1 DEF Proceeds, Labels
  <2>3. QED
    BY <2>1, <2>2, MoveFits
<1>8. CASE AppendLine(p) \/ ReadLines(p) \/ WriteLines(p)
  <2>1. /\ me[p].at # "idle" /\ me[p].todo # <<>> /\ PieceOf(p) = "nix"
        /\ Ends(p) \/ Dirties(p) \/ me' = [me EXCEPT ![p].at = "save", ![p].text = file["nix"]]
    BY <1>8 DEF AppendLine, ReadLines, WriteLines, Tears, Dirties
  <2>2. file["nix"] \in Seq(Line)
    BY DEF HostTypes, Files, File
  <2>3. Ends(p) \/ Dirties(p) \/ Reads(p)
    BY <2>1, <2>2 DEF Reads, Blocks
  <2>4. QED
    BY <2>1, <2>3, MoveFits
<1>9. QED
  BY <1>1, <1>2, <1>3, <1>4, <1>5, <1>6, <1>7, <1>8 DEF Edits, Sighted

LEMMA TextsFit ==
    ASSUME NEW text \in Seq(Line), NEW line \in Line
    PROVE  Append(text, line) \in Seq(Line) /\ Range(text) \in SUBSET Line /\ <<line>> \in Seq(Line)
  BY DEF Range

LEMMA StartsFit ==
    ASSUME NEW D, NEW s \in Seq(D), NEW n \in Nat, n <= Len(s)
    PROVE  SubSeq(s, 1, n) \in Seq(D)
  OBVIOUS

LEMMA AppendsFit ==
    ASSUME NEW text \in Seq(Line), NEW c \in Component, NEW m \in Component \cup {"PATH"}, NEW n \in 0 .. 2
    PROVE  text \o Block(m, c) \in Seq(Line) /\ text \o SubSeq(Block(m, c), 1, n) \in Seq(Line)
<1>1. Begin(m) \in Line /\ Body(c) \in Line /\ End(m) \in Line
  BY LinesFit
<1>2. Block(m, c) \in Seq(Line) /\ Len(Block(m, c)) = 3
  BY <1>1 DEF Block
<1>3. SubSeq(Block(m, c), 1, n) \in Seq(Line)
  <2>1. n \in Nat /\ n <= 3
    OBVIOUS
  <2>2. QED
    BY <1>2, <2>1, StartsFit
<1>4. QED
  BY <1>2, <1>3

(* What the edit of a piece writes, and to which file.                     *)
Writes(p, f) ==
    \/ UNCHANGED hostVars
    \/ \E text \in Seq(Line) : file' = [file EXCEPT ![f] = text] /\ UNCHANGED <<bak, loaded>>

LEMMA WritesFit == ASSUME Files, NEW p, NEW f \in File, Writes(p, f) PROVE Files'
<1>1. CASE UNCHANGED hostVars
  BY <1>1 DEF Files, hostVars
<1>2. CASE ~UNCHANGED hostVars
  BY <1>2, PutFits DEF Writes
<1>3. QED
  BY <1>1, <1>2

LEMMA EditsFiles ==
    ASSUME HostTypes, NEW p \in Proc, Edits(p)
    PROVE  Files'
<1> USE DEF At, Put, Same, Tears
<1>0. /\ me[p] \in MeType /\ Placed(me[p]) /\ Files
      /\ \A f \in File : file[f] \in Seq(Line)
  BY Stands DEF HostTypes, Files
<1>1. CASE Save(p)
  <2>1. FileOf(p) \in File
    <3>1. me[p].todo # <<>> /\ PieceOf(p) # "restart"
      BY <1>0, <1>1 DEF Save, Placed, PieceOf
    <3>2. QED
      BY <3>1, Stands
  <2>2. Range(file[FileOf(p)]) \in SUBSET Line
    BY <1>0, <2>1, TextsFit, LinesFit
  <2>3. /\ file' = file /\ loaded' = loaded
        /\ bak' = bak \/ bak' = [bak EXCEPT ![FileOf(p)] = @ \cup Range(file[FileOf(p)])]
    BY <1>1 DEF Save, hostVars
  <2>4. bak' \in [File -> SUBSET Line]
    BY <1>0, <2>1, <2>2, <2>3 DEF Files
  <2>5. QED
    BY <1>0, <2>3, <2>4 DEF Files
<1>2. CASE AppendBlock(p)
  <2> DEFINE text == IF Exists("rc") THEN file["rc"] ELSE <<>>
             block == Block(Marker(p), me[p].comp)
  <2>1. text \in Seq(Line) /\ me[p].comp \in Component /\ Marker(p) \in Component \cup {"PATH"}
    <3>1. text \in Seq(Line)
      BY <1>0 DEF File
    <3>2. me[p].comp \in Component
      BY <1>2, Stands DEF AppendBlock
    <3>3. QED
      BY <3>1, <3>2 DEF Marker
  <2>2. /\ text \o block \in Seq(Line)
        /\ \A n \in 0 .. 2 : text \o SubSeq(block, 1, n) \in Seq(Line)
    <3> HIDE DEF text
    <3>1. QED
      BY <2>1, AppendsFit
  <2>3. Writes(p, "rc")
    BY <1>2, <2>2 DEF AppendBlock, Writes
  <2>4. QED
    BY <1>0, <2>3, WritesFit DEF File
<1>3. CASE Truncate(p) \/ Fill(p)
  <2>1. me[p].todo # <<>> /\ PieceOf(p) \in Blocks /\ me[p].mode = "revert" /\ me[p].at \in {"edit", "fill"}
    BY <1>3 DEF Truncate, Fill
  <2>2. HasBlock(me[p].text, Marker(p)) /\ me[p].text \in Seq(Line)
    BY <1>0, <2>1, Stands DEF Placed, PieceOf, MeType
  <2>3. Excised(me[p].text, Marker(p)) \in Seq(Line) /\ <<>> \in Seq(Line)
    BY <2>2, ExcisedFits
  <2>4. Writes(p, "rc")
    BY <1>3, <2>3 DEF Truncate, Fill, Writes
  <2>5. QED
    BY <1>0, <2>4, WritesFit DEF File
<1>4. CASE WriteFile(p) \/ RemoveFile(p)
  <2>1. me[p].todo # <<>> /\ PieceOf(p) \in Owned \cup Removed /\ me[p].at = "edit"
    BY <1>4 DEF WriteFile, RemoveFile
  <2>2. FileOf(p) \in File /\ me[p].comp \in Component
    BY <2>1, Stands DEF Owned, Removed
  <2>3. <<Ours(me[p].comp)>> \in Seq(Line) /\ <<Part>> \in Seq(Line) /\ Absent \in Seq(Line)
    BY <2>2, LinesFit, TextsFit DEF Absent
  <2>4. file[FileOf(p)] \in Seq(Line)
    BY <1>0, <2>2
  <2>5. Writes(p, FileOf(p))
    BY <1>4, <2>3, <2>4 DEF WriteFile, RemoveFile, Writes
  <2>6. QED
    BY <1>0, <2>2, <2>5, WritesFit
<1>5. CASE Systemctl(p) \/ FetchKey(p) \/ GenerateCdi(p) \/ InstallAlternative(p) \/ RemoveAlternative(p)
  <2>1. me[p].comp \in Component
    BY <1>5, Stands DEF Systemctl, FetchKey, GenerateCdi, InstallAlternative, RemoveAlternative
  <2>2. <<Ours(me[p].comp)>> \in Seq(Line) /\ <<Part>> \in Seq(Line) /\ Absent \in Seq(Line)
    BY <2>1, LinesFit, TextsFit DEF Absent
  <2>3. \E f \in {"service", "key", "cdi", "alt"} : Writes(p, f)
    BY <1>5, <2>2 DEF Systemctl, FetchKey, GenerateCdi, InstallAlternative, RemoveAlternative, Writes, hostVars
  <2>4. QED
    BY <1>0, <2>3, WritesFit DEF File
<1>6. CASE CheckLine(p) \/ AppendLine(p) \/ WriteLines(p)
  <2>1. me[p].comp \in Component /\ file["nix"] \in Seq(Line) /\ me[p].text \in Seq(Line)
    BY <1>0, <1>6, Stands DEF CheckLine, AppendLine, WriteLines, File, MeType
  <2>2. /\ Append(file["nix"], Ours(me[p].comp)) \in Seq(Line)
        /\ Append(file["nix"], Part) \in Seq(Line) /\ <<>> \in Seq(Line)
    BY <2>1, LinesFit, TextsFit
  <2>3. Filtered(me[p].text, Range(me[p].text) \ {Ours(me[p].comp)}) \in Seq(Line)
    <3> DEFINE set == Range(me[p].text) \ {Ours(me[p].comp)}
    <3>1. Filtered(me[p].text, set) \in Seq(Line \cap set)
      <4> HIDE DEF set
      <4>1. QED
        BY <2>1, FilteredFits
    <3>2. Seq(Line \cap set) \subseteq Seq(Line)
      OBVIOUS
    <3>3. QED
      BY <3>1, <3>2
  <2>4. Writes(p, "nix")
    <3>1. CASE CheckLine(p)
      BY <2>1, <2>2, <3>1 DEF CheckLine, Writes, hostVars
    <3>2. CASE AppendLine(p)
      BY <2>1, <2>2, <3>2 DEF AppendLine, Writes
    <3>3. CASE WriteLines(p)
      BY <2>1, <2>2, <2>3, <3>3 DEF WriteLines, Writes
    <3>4. QED
      BY <1>6, <3>1, <3>2, <3>3
  <2>5. QED
    BY <1>0, <2>4, WritesFit DEF File
<1>7. CASE Restart(p)
  BY <1>0, <1>7 DEF Restart, Files, File
<1>8. CASE MoveConfig(p) \/ PurgeData(p)
  <2>1. UNCHANGED hostVars \/ \E f \in File : Rename(f)
    BY <1>8 DEF MoveConfig, PurgeData, hostVars, File
  <2>2. CASE UNCHANGED hostVars
    BY <1>0, <2>2 DEF Files, hostVars
  <2>3. ASSUME NEW f \in File, Rename(f) PROVE Files'
    <3>1. Range(file[f]) \in SUBSET Line /\ Absent \in Seq(Line)
      BY <1>0, LinesFit, TextsFit DEF Absent
    <3>2. QED
      BY <1>0, <2>3, <3>1 DEF Rename, Files
  <2>4. QED
    BY <2>1, <2>2, <2>3
<1>9. CASE CheckBlock(p) \/ ReadBlock(p) \/ CheckFile(p) \/ CheckRemoval(p) \/ ChmodKey(p) \/ ReadLines(p)
  BY <1>0, <1>9 DEF CheckBlock, ReadBlock, CheckFile, CheckRemoval, ChmodKey, ReadLines, Files, hostVars
<1>10. QED
  BY <1>1, <1>2, <1>3, <1>4, <1>5, <1>6, <1>7, <1>8, <1>9 DEF Edits, Sighted

LEMMA SceneFits ==
    ASSUME scene \in Scenes
    PROVE  /\ scene.crew \subseteq Proc /\ scene.runs \in Nat /\ scene.faults \in Nat
           /\ scene.declares \in [Component -> SUBSET Piece]
  BY ScenesAssumption

LEMMA FaultFits ==
    ASSUME scene \in Scenes, scene' = scene, faults \in 0 .. scene.faults, Works \/ Fault
    PROVE  (faults \in 0 .. scene.faults)'
  BY SceneFits DEF Works, Fault

LEMMA EditsCounts ==
    ASSUME HostTypes, NEW p \in Proc, EditStep(p)
    PROVE  Counts'
<1> USE DEF At, Put, Same, Tears, EditStep
<1>1. Works \/ Fault
  <2> USE DEF Works
  <2>1. CASE Save(p)
    BY <2>1 DEF Save
  <2>2. CASE CheckBlock(p) \/ AppendBlock(p) \/ ReadBlock(p) \/ Truncate(p) \/ Fill(p)
    BY <2>2 DEF CheckBlock, AppendBlock, ReadBlock, Truncate, Fill
  <2>3. CASE CheckFile(p) \/ WriteFile(p) \/ CheckRemoval(p) \/ RemoveFile(p) \/ Systemctl(p) \/ FetchKey(p) \/ ChmodKey(p)
    BY <2>3 DEF CheckFile, WriteFile, CheckRemoval, RemoveFile, Systemctl, FetchKey, ChmodKey
  <2>4. CASE CheckLine(p) \/ AppendLine(p) \/ ReadLines(p) \/ WriteLines(p) \/ Restart(p)
    BY <2>4 DEF CheckLine, AppendLine, ReadLines, WriteLines, Restart
  <2>5. CASE GenerateCdi(p) \/ InstallAlternative(p) \/ RemoveAlternative(p) \/ MoveConfig(p) \/ PurgeData(p)
    BY <2>5 DEF GenerateCdi, InstallAlternative, RemoveAlternative, MoveConfig, PurgeData
  <2>6. QED
    BY <2>1, <2>2, <2>3, <2>4, <2>5 DEF Edits, Sighted
<1>2. lost' \subseteq File
  <2>1. CASE Save(p)
    <3>1. FileOf(p) \in File
      <4>1. me[p].todo # <<>> /\ PieceOf(p) # "restart"
        BY <2>1, Stands DEF Save, Placed, PieceOf
      <4>2. QED
        BY <4>1, Stands
    <3>2. QED
      BY <2>1, <3>1 DEF Save, HostTypes, Counts
  <2>2. CASE ~Save(p)
    <3>1. lost' = lost
      <4>1. CASE CheckBlock(p) \/ AppendBlock(p) \/ ReadBlock(p) \/ Truncate(p) \/ Fill(p)
        BY <4>1 DEF CheckBlock, AppendBlock, ReadBlock, Truncate, Fill
      <4>2. CASE CheckFile(p) \/ WriteFile(p) \/ CheckRemoval(p) \/ RemoveFile(p) \/ Systemctl(p) \/ FetchKey(p) \/ ChmodKey(p)
        BY <4>2 DEF CheckFile, WriteFile, CheckRemoval, RemoveFile, Systemctl, FetchKey, ChmodKey
      <4>3. CASE CheckLine(p) \/ AppendLine(p) \/ ReadLines(p) \/ WriteLines(p) \/ Restart(p)
        BY <4>3 DEF CheckLine, AppendLine, ReadLines, WriteLines, Restart
      <4>4. CASE GenerateCdi(p) \/ InstallAlternative(p) \/ RemoveAlternative(p) \/ MoveConfig(p) \/ PurgeData(p)
        BY <4>4 DEF GenerateCdi, InstallAlternative, RemoveAlternative, MoveConfig, PurgeData, Rename
      <4>5. QED
        BY <2>2, <4>1, <4>2, <4>3, <4>4 DEF Edits, Sighted
    <3>2. QED
      BY <3>1 DEF HostTypes, Counts
  <2>3. QED
    BY <2>1, <2>2
<1>3. (faults \in 0 .. scene.faults)'
  BY <1>1, FaultFits DEF HostTypes, Counts
<1>4. blind' \subseteq Component \cup {"PATH"}
  <2>1. CASE CheckBlock(p)
    <3>1. me[p].comp \in Component
      BY <2>1, Stands DEF CheckBlock
    <3>2. QED
      BY <2>1, <3>1 DEF CheckBlock, Marker, HostTypes, Counts
  <2>2. QED
    BY <2>1 DEF Edits, HostTypes, Counts
<1>5. QED
  BY <1>2, <1>3, <1>4 DEF HostTypes, Counts

LEMMA EditTypes == ASSUME HostTypes, NEW p \in Proc, EditStep(p) PROVE HostTypes'
  BY EditsCrew, EditsFiles, EditsCounts DEF EditStep, HostTypes
-----------------------------------------------------------------------------
(* A call sets out with the pieces its component declares.                 *)
LEMMA EnterFits ==
    ASSUME Crew, NEW p \in Proc, NEW mode \in {"apply", "revert"}, NEW c \in Component,
           NEW pieces \in Seq(Piece), NEW keep \in BOOLEAN, NEW purge \in BOOLEAN,
           Enter(p, mode, c, pieces, keep, purge)
    PROVE  Crew' /\ Alone(p)
<1> DEFINE m == [Idle EXCEPT !.at = "check", !.mode = mode, !.comp = c,
                             !.todo = pieces, !.keep = keep, !.purge = purge]
<1>1. m \in MeType /\ Placed(m)
  <2>1. Idle \in MeType /\ "check" \in Labels
    BY IdleFits DEF Labels
  <2>2. m \in MeType
    BY <2>1 DEF MeType
  <2>3. m.at = "check" /\ m.comp = c /\ m.mode = mode
    BY <2>1 DEF MeType
  <2> HIDE DEF m
  <2>4. QED
    BY <2>2, <2>3 DEF Placed
<1>2. me' = [me EXCEPT ![p] = m]
  BY DEF Enter
<1> HIDE DEF m
<1>3. QED
  BY <1>1, <1>2, CrewStep

LEMMA DeclaredFits ==
    ASSUME NEW c \in Component, NEW order \in {ApplyOrder, RevertOrder}
    PROVE  DeclaredIn(c, order) \in Seq(Piece)
<1> DEFINE set == {q \in Piece : (IF q = "restart" THEN "nix" ELSE q) \in scene.declares[c]}
<1>1. order \in Seq(Piece)
  <2>1. ApplyOrder \in Seq(Piece)
    BY DEF ApplyOrder, Piece
  <2>2. RevertOrder \in Seq(Piece)
    BY DEF RevertOrder, Piece
  <2>3. QED
    BY <2>1, <2>2
<1>2. Filtered(order, set) \in Seq(Piece \cap set)
  <2> HIDE DEF set
  <2>1. QED
    BY <1>1, FilteredFits
<1>3. Seq(Piece \cap set) \subseteq Seq(Piece)
  OBVIOUS
<1>4. QED
  BY <1>2, <1>3 DEF DeclaredIn

LEMMA CallCrew == ASSUME HostTypes, NEW p \in Proc, Apply(p) \/ Revert(p) PROVE Crew' /\ Alone(p)
<1>1. CASE Apply(p)
  <2>1. PICK c \in Component : Enter(p, "apply", c, DeclaredIn(c, ApplyOrder), FALSE, FALSE)
    BY <1>1 DEF Apply
  <2>2. QED
    BY <2>1, DeclaredFits, EnterFits DEF HostTypes
<1>2. CASE Revert(p)
  <2>1. PICK c \in Component, keep, purge \in BOOLEAN : Enter(p, "revert", c, DeclaredIn(c, RevertOrder), keep, purge)
    BY <1>2 DEF Revert
  <2>2. QED
    BY <2>1, DeclaredFits, EnterFits DEF HostTypes
<1>3. QED
  BY <1>1, <1>2

LEMMA RunFits ==
    ASSUME scene \in Scenes, scene' = scene, runs \in 0 .. scene.runs, NewRun
    PROVE  (runs \in 0 .. scene.runs)'
  BY SceneFits DEF NewRun

LEMMA CallTypes == ASSUME HostTypes, NEW p \in Proc, CallStep(p) PROVE HostTypes'
<1>1. Crew' /\ (runs \in 0 .. scene.runs)'
  BY CallCrew, RunFits DEF CallStep, HostTypes, Counts
<1>2. QED
  BY <1>1 DEF CallStep, HostTypes, Counts, Files, hostVars, histVars

LEMMA EndTypes == ASSUME HostTypes, NEW p \in Proc, EndStep(p) PROVE HostTypes'
<1>1. Dies(p) /\ UNCHANGED <<hostVars, lost>> /\ (faults' = faults \/ Fault)
  BY DEF EndStep, Return, Crash, Same
<1>2. Crew' /\ (faults \in 0 .. scene.faults)'
  <2>1. faults \in 0 .. scene.faults /\ scene' = scene
    BY DEF HostTypes, Counts, EndStep
  <2>2. QED
    BY <1>1, <2>1, DiesFits, FaultFits DEF HostTypes, Works
<1>3. QED
  BY <1>1, <1>2 DEF EndStep, HostTypes, Counts, Files, hostVars

LEMMA UserTypes == ASSUME HostTypes, UserWrites PROVE HostTypes'
<1>1. PICK f \in {"rc", "desktop", "unit", "list", "nix"} :
        /\ Put(f, IF f \in {"rc", "nix"} /\ Exists(f) THEN Append(file[f], Mine) ELSE <<Mine>>)
        /\ wrote' = wrote \cup {f}
  BY DEF UserWrites
<1>2. f \in File /\ f \in UserFile /\ file[f] \in Seq(Line) /\ Mine \in Line
  BY LinesFit DEF File, UserFile, HostTypes, Files
<1>3. Append(file[f], Mine) \in Seq(Line) /\ <<Mine>> \in Seq(Line)
  BY <1>2
<1>4. Files'
  <2>1. \E text \in Seq(Line) : file' = [file EXCEPT ![f] = text] /\ UNCHANGED <<bak, loaded>>
    BY <1>1, <1>3 DEF Put
  <2>2. QED
    BY <1>2, <2>1, PutFits DEF HostTypes
<1>5. Crew' /\ Counts' /\ scene' = scene
  BY <1>1, <1>2 DEF UserWrites, HostTypes, Counts, Crew, Put
<1>6. QED
  BY <1>4, <1>5 DEF HostTypes
-----------------------------------------------------------------------------
(* What add-repo keeps: clones, drop-ins and jobs.                         *)
CloneType ==
    [git : {"none", "cut", "whole"}, origin : Url \cup {"none"}, branch : Commit, head : Commit,
     patched : BOOLEAN, built : Commit]
DropinType ==
    [slug : Slug, url : Url, bins : (SUBSET Name) \ {{}}, ref : BOOLEAN, local : BOOLEAN,
     patch : BOOLEAN, build : BOOLEAN, force : BOOLEAN, sha : Commit, targets : SUBSET Name]
JobType ==
    [at : Stage, kind : {"none", "add", "connect", "rebuild", "reset"},
     spec : {NoSpec} \cup AddRepoSpec \cup DropinType, todo : SUBSET Name, got : SUBSET Name,
     sha : Commit, bad : BOOLEAN]

CloneFits(c) ==
    /\ c \in CloneType
    /\ c.git = "none" => c = NoClone
    /\ c.git # "none" => c.origin \in Url
JobFits(j) ==
    /\ j \in JobType
    /\ j.at = "idle" => j = NoJob
    /\ j.at # "idle" => j.kind # "none"
    /\ j.at = "link" => j.todo # {}
    /\ j.kind \in {"add", "connect"} => j.spec \in AddRepoSpec
    /\ j.kind \in {"rebuild", "reset"} => j.spec \in DropinType

Clones == DOMAIN clone = Slug /\ \A s \in Slug : CloneFits(clone[s])
Dropins ==
    DOMAIN dropin = Slug /\ \A s \in Slug : Registered(s) => dropin[s] \in DropinType /\ dropin[s].slug = s
Jobs == DOMAIN job = Proc /\ \A p \in Proc : JobFits(job[p])
OneThing == \A p \in Proc : job[p].at \notin {"idle", "wire"} => me[p] = Idle
AddTypes ==
    /\ tip \in [Url -> 1 .. MaxCommits]
    /\ Clones /\ Dropins /\ Jobs /\ OneThing
    /\ bin \in [Name -> Slug \cup {Free, Foreign}]

LEMMA NothingFits ==
    /\ NoCommit \in Commit /\ CloneFits(NoClone) /\ NoClone.git = "none"
    /\ JobFits(NoJob) /\ NoJob.at = "idle" /\ NoJob.kind = "none"
  BY DEF NoCommit, Commit, CloneFits, NoClone, CloneType, JobFits, NoJob, JobType, Stage, NoSpec

LEMMA AddImplies == HostTypes /\ AddTypes => AddTypeOK
<1> SUFFICES ASSUME HostTypes, AddTypes
             PROVE  AddTypeOK
  OBVIOUS
<1>1. ASSUME NEW s \in Slug
      PROVE  /\ clone[s].git \in {"none", "cut", "whole"}
             /\ {clone[s].branch, clone[s].head, clone[s].built} \subseteq Commit
             /\ clone[s].git = "none" <=> clone[s] = NoClone
  BY NothingFits DEF AddTypes, Clones, CloneFits, CloneType
<1>2. ASSUME NEW p \in Proc
      PROVE  /\ job[p].at \in Stage
             /\ job[p].at = "idle" <=> job[p] = NoJob
             /\ job[p].todo \subseteq Name /\ job[p].got \subseteq Name
             /\ job[p].at \notin {"idle", "wire"} => me[p] = Idle
  BY NothingFits DEF AddTypes, Jobs, JobFits, JobType, OneThing
<1>3. QED
  BY <1>1, <1>2 DEF AddTypes, AddTypeOK

LEMMA JobStep ==
    ASSUME Jobs, NEW p \in Proc, NEW j, JobFits(j), job' = [job EXCEPT ![p] = j]
    PROVE  Jobs'
  BY DEF Jobs

LEMMA CloneStep ==
    ASSUME Clones, NEW s \in Slug, NEW c, CloneFits(c), clone' = [clone EXCEPT ![s] = c]
    PROVE  Clones'
  BY DEF Clones

LEMMA Asks ==
    ASSUME Jobs, NEW p \in Proc, job[p].at # "idle"
    PROVE  /\ JobFits(job[p]) /\ S(p) \in AddRepoSpec \cup DropinType
           /\ S(p).slug \in Slug /\ S(p).url \in Url /\ S(p).bins \in SUBSET Name
           /\ job[p].kind = "add" => S(p) \in AddRepoSpec
           /\ job[p].kind = "rebuild" => S(p).sha \in Commit
<1>1. JobFits(job[p])
  BY DEF Jobs
<1>2. S(p) \in AddRepoSpec \cup DropinType
  BY <1>1 DEF JobFits, JobType, S
<1>3. /\ job[p].kind = "add" => S(p) \in AddRepoSpec
      /\ job[p].kind = "rebuild" => S(p).sha \in Commit
  BY <1>1 DEF JobFits, DropinType, S
<1>4. CASE S(p) \in AddRepoSpec
  <2>1. S(p).slug \in Slug /\ S(p).url \in Url /\ S(p).bins \in SUBSET Name
    BY <1>4 DEF AddRepoSpec
  <2>2. QED
    BY <1>1, <1>2, <1>3, <2>1
<1>5. CASE S(p) \in DropinType
  <2>1. S(p).slug \in Slug /\ S(p).url \in Url /\ S(p).bins \in SUBSET Name
    BY <1>5 DEF DropinType
  <2>2. QED
    BY <1>1, <1>2, <1>3, <2>1
<1>6. QED
  BY <1>2, <1>4, <1>5

(* How a stage moves its job on: what it is about stays.              *)
MovedOn(p, label, todo, got, sha, bad) ==
    [job[p] EXCEPT !.at = label, !.todo = todo, !.got = got, !.sha = sha, !.bad = bad]

LEMMA MovedOnFits ==
    ASSUME Jobs, NEW p \in Proc, job[p].at # "idle", NEW label \in Stage \ {"idle"},
           NEW todo \in SUBSET Name, NEW got \in SUBSET Name, NEW sha \in Commit, NEW bad \in BOOLEAN,
           label = "link" => todo # {},
           job' = [job EXCEPT ![p] = MovedOn(p, label, todo, got, sha, bad)]
    PROVE  Jobs'
<1> DEFINE j == MovedOn(p, label, todo, got, sha, bad)
<1>1. JobFits(job[p])
  BY DEF Jobs
<1>2. j \in JobType /\ j.at = label /\ j.todo = todo /\ j.kind = job[p].kind /\ j.spec = job[p].spec
  BY <1>1 DEF JobFits, JobType, MovedOn
<1> HIDE DEF j
<1>3. JobFits(j)
  BY <1>1, <1>2 DEF JobFits
<1>4. QED
  BY <1>3, JobStep DEF j

ToRefactor(p) == job' = [job EXCEPT ![p].at = "refactor"]       \* the rebuild hook, whatever it has fetched
LEMMA MovesOn ==
    ASSUME Jobs, NEW p \in Proc, job[p].at # "idle",
           \/ \E label \in Stage \ {"idle", "link"} : To(p, label)
           \/ ToRefactor(p) \/ Quit(p) \/ Breaks(p)
           \/ job[p].todo # {} /\ ToLink(p)
           \/ \E got \in SUBSET Name, bad \in BOOLEAN : NextName(p, got, bad)
           \/ job[p].at # "link" /\ job' = [job EXCEPT ![p].todo = @ \ {NameOf(p)}]
           \/ \E sha \in Commit : job' = [job EXCEPT ![p].at = "refactor", ![p].sha = sha]
           \/ job' = [job EXCEPT ![p].at = "target", ![p].todo = S(p).bins]
    PROVE  Jobs'
<1>1. /\ job[p].at \in Stage \ {"idle"} /\ job[p].todo \in SUBSET Name /\ job[p].got \in SUBSET Name
      /\ job[p].sha \in Commit /\ job[p].bad \in BOOLEAN
  BY DEF Jobs, JobFits, JobType
<1>2. DOMAIN job = Proc /\ DOMAIN job[p] = {"at", "kind", "spec", "todo", "got", "sha", "bad"}
  BY DEF Jobs, JobFits, JobType
<1>3. S(p).bins \in SUBSET Name
  BY Asks
<1>4. "refactor" \in Stage \ {"idle"} /\ "target" \in Stage \ {"idle"} /\ "link" \in Stage \ {"idle"}
  BY DEF Stage
<1>5. CASE ToRefactor(p) \/ \E label \in Stage \ {"idle", "link"} : To(p, label)
  <2>1. PICK label \in Stage \ {"idle", "link"} : job' = [job EXCEPT ![p].at = label]
    BY <1>4, <1>5 DEF To, ToRefactor
  <2>2. job' = [job EXCEPT ![p] = MovedOn(p, label, job[p].todo, job[p].got, job[p].sha, job[p].bad)]
    <3>1. [job[p] EXCEPT !.at = label] = MovedOn(p, label, job[p].todo, job[p].got, job[p].sha, job[p].bad)
      BY <1>2 DEF MovedOn
    <3>2. job' = [job EXCEPT ![p] = [job[p] EXCEPT !.at = label]]
      BY <2>1
    <3>3. QED
      BY <3>1, <3>2
  <2>3. QED
    BY <1>1, <2>2, MovedOnFits
<1>6. CASE Quit(p) \/ Breaks(p)
  BY <1>6, JobStep, NothingFits DEF Quit, Breaks
<1>7. CASE job[p].todo # {} /\ ToLink(p)
  <2>1. job' = [job EXCEPT ![p] = MovedOn(p, "link", job[p].todo, job[p].got, job[p].sha, job[p].bad)]
    BY <1>2, <1>7 DEF MovedOn, ToLink
  <2>2. QED
    BY <1>1, <1>4, <1>7, <2>1, MovedOnFits
<1>8. ASSUME NEW got \in SUBSET Name, NEW bad \in BOOLEAN, NextName(p, got, bad) PROVE Jobs'
  <2> DEFINE b == job[p].bad \/ bad
  <2>1. job' = [job EXCEPT ![p].at = "target", ![p].todo = job[p].todo \ {NameOf(p)},
                           ![p].got = job[p].got \cup got, ![p].bad = b]
    BY <1>8 DEF NextName
  <2>2. b \in BOOLEAN
    OBVIOUS
  <2> HIDE DEF b
  <2>3. job' = [job EXCEPT ![p] = MovedOn(p, "target", job[p].todo \ {NameOf(p)}, job[p].got \cup got,
                                          job[p].sha, b)]
    <3> DEFINE t == job[p].todo \ {NameOf(p)}
               w == job[p].got \cup got
    <3>1. job' = [job EXCEPT ![p] = [job[p] EXCEPT !.at = "target", !.todo = t, !.got = w, !.bad = b]]
      BY <1>2, <2>1
    <3> HIDE DEF t, w
    <3>2. [job[p] EXCEPT !.at = "target", !.todo = t, !.got = w, !.bad = b]
            = MovedOn(p, "target", t, w, job[p].sha, b)
      BY <1>2 DEF MovedOn
    <3>3. job' = [job EXCEPT ![p] = MovedOn(p, "target", t, w, job[p].sha, b)]
      BY <3>1, <3>2
    <3>4. QED
      BY <3>3 DEF t, w
  <2>4. job[p].todo \ {NameOf(p)} \in SUBSET Name /\ job[p].got \cup got \in SUBSET Name
    BY <1>1
  <2>5. QED
    BY <1>1, <1>4, <2>2, <2>3, <2>4, MovedOnFits
<1>9. CASE job[p].at # "link" /\ job' = [job EXCEPT ![p].todo = @ \ {NameOf(p)}]
  <2>0. job[p].at # "link"
    BY <1>9
  <2>1. job' = [job EXCEPT ![p] = MovedOn(p, job[p].at, job[p].todo \ {NameOf(p)}, job[p].got,
                                          job[p].sha, job[p].bad)]
    BY <1>2, <1>9 DEF MovedOn
  <2>2. job[p].todo \ {NameOf(p)} \in SUBSET Name
    BY <1>1
  <2>3. QED
    BY <1>1, <2>0, <2>1, <2>2, MovedOnFits
<1>10. ASSUME NEW sha \in Commit, job' = [job EXCEPT ![p].at = "refactor", ![p].sha = sha] PROVE Jobs'
  <2>1. job' = [job EXCEPT ![p] = MovedOn(p, "refactor", job[p].todo, job[p].got, sha, job[p].bad)]
    BY <1>2, <1>10 DEF MovedOn
  <2>2. QED
    BY <1>1, <1>4, <2>1, MovedOnFits
<1>11. CASE job' = [job EXCEPT ![p].at = "target", ![p].todo = S(p).bins]
  <2>1. job' = [job EXCEPT ![p] = MovedOn(p, "target", S(p).bins, job[p].got, job[p].sha, job[p].bad)]
    BY <1>2, <1>11 DEF MovedOn
  <2>2. QED
    BY <1>1, <1>3, <1>4, <2>1, MovedOnFits
<1>12. QED
  BY <1>5, <1>6, <1>7, <1>8, <1>9, <1>10, <1>11

(* Every clone a stage puts in the store is one.                           *)
LEMMA TipFits == ASSUME AddTypes, NEW u \in Url PROVE Tip(u) \in Commit /\ Tip(u)[1] = u
<1>1. tip[u] \in 1 .. MaxCommits
  BY DEF AddTypes
<1>2. QED
  BY <1>1 DEF Tip, Commit

LEMMA FreshFits ==
    ASSUME AddTypes, NEW p \in Proc, job[p].at # "idle"
    PROVE  CloneFits(FreshClone(p)) /\ CloneFits(CutClone(p))
<1>1. S(p).url \in Url /\ Tip(S(p).url) \in Commit
  BY Asks, TipFits DEF AddTypes
<1>2. NoClone \in CloneType
  BY NothingFits DEF CloneFits
<1>3. FreshClone(p) \in CloneType /\ FreshClone(p).git = "whole" /\ FreshClone(p).origin = S(p).url
  BY <1>1, <1>2 DEF FreshClone, CloneType
<1>4. CutClone(p) \in CloneType /\ CutClone(p).git = "cut" /\ CutClone(p).origin = S(p).url
  BY <1>1, <1>2 DEF CutClone, CloneType
<1>5. QED
  BY <1>1, <1>3, <1>4 DEF CloneFits

LEMMA OnBranchFits ==
    ASSUME AddTypes, NEW c, CloneFits(c), c.git # "none"
    PROVE  CloneFits(OnBranch(c))
<1> DEFINE at == IF c.branch = NoCommit THEN Tip(c.origin) ELSE c.branch
<1>1. c \in CloneType /\ c.origin \in Url
  BY DEF CloneFits
<1>2. at \in Commit
  <2>1. c.branch \in Commit /\ Tip(c.origin) \in Commit
    BY <1>1, TipFits DEF CloneType
  <2>2. QED
    BY <2>1
<1>3. OnBranch(c) = [c EXCEPT !.branch = at, !.head = at]
  BY DEF OnBranch
<1> HIDE DEF at
<1>4. OnBranch(c) \in CloneType /\ OnBranch(c).git = c.git /\ OnBranch(c).origin = c.origin
  BY <1>1, <1>2, <1>3 DEF CloneType
<1>5. QED
  BY <1>1, <1>4 DEF CloneFits

LEMMA EditedFits ==
    ASSUME NEW c, CloneFits(c), c.git # "none", NEW sha \in Commit, NEW u \in Url
    PROVE  /\ CloneFits([c EXCEPT !.patched = TRUE]) /\ CloneFits([c EXCEPT !.built = c.head])
           /\ CloneFits([c EXCEPT !.head = sha])
           /\ CloneFits([c EXCEPT !.origin = u]) /\ [c EXCEPT !.origin = u].git # "none"
<1>1. c \in CloneType
  BY DEF CloneFits
<1>2. /\ [c EXCEPT !.patched = TRUE] \in CloneType /\ [c EXCEPT !.built = c.head] \in CloneType
      /\ [c EXCEPT !.head = sha] \in CloneType /\ [c EXCEPT !.origin = u] \in CloneType
  BY <1>1 DEF CloneType
<1>3. /\ [c EXCEPT !.patched = TRUE].git = c.git /\ [c EXCEPT !.built = c.head].git = c.git
      /\ [c EXCEPT !.head = sha].git = c.git /\ [c EXCEPT !.origin = u].git = c.git
  BY <1>1 DEF CloneType
<1>4. /\ [c EXCEPT !.patched = TRUE].origin = c.origin /\ [c EXCEPT !.built = c.head].origin = c.origin
      /\ [c EXCEPT !.head = sha].origin = c.origin /\ [c EXCEPT !.origin = u].origin = u
  BY <1>1 DEF CloneType
<1>5. QED
  BY <1>2, <1>3, <1>4 DEF CloneFits

LEMMA PinnedFits ==
    ASSUME AddTypes, NEW p \in Proc, job[p].at # "idle", job[p].kind = "rebuild", NEW c \in Reached(p)
    PROVE  CloneFits(c) /\ CloneFits(Pinned(p, c))
<1>1. S(p).slug \in Slug /\ S(p).url \in Url /\ S(p).sha \in Commit /\ CloneFits(Clone(p))
  BY Asks DEF AddTypes, Clones, Clone
<1>2. CloneFits(c) /\ c.git # "none"
  <2>1. CASE Cloned(p)
    <3>1. c = Clone(p) \/ c = [Clone(p) EXCEPT !.origin = S(p).url]
      BY <2>1 DEF Reached
    <3>2. QED
      BY <1>1, <2>1, <3>1, EditedFits DEF Cloned
  <2>2. CASE ~Cloned(p)
    <3>1. c = FreshClone(p) /\ FreshClone(p).git = "whole"
      BY <2>2 DEF Reached, FreshClone, NoClone
    <3>2. QED
      BY <2>2, <3>1, FreshFits
  <2>3. QED
    BY <2>1, <2>2
<1>3. CloneFits(OnBranch(c)) /\ CloneFits([c EXCEPT !.head = S(p).sha])
  BY <1>1, <1>2, OnBranchFits, EditedFits
<1>4. QED
  BY <1>2, <1>3 DEF Pinned

LEMMA UpdFits ==
    ASSUME AddTypes, NEW p \in Proc, job[p].at # "idle", NEW c, CloneFits(c), Upd(p, c)
    PROVE  Clones'
  BY Asks, CloneStep DEF AddTypes, Upd

LEMMA RegisterFits ==
    ASSUME AddTypes, NEW p \in Proc, job[p].at # "idle", job[p].kind = "add"
    PROVE  RegisterSpec(p) \in DropinType /\ RegisterSpec(p).slug = S(p).slug
           /\ RegisterSpec(p).targets = job[p].got
<1>1. S(p) \in AddRepoSpec /\ job[p].sha \in Commit /\ job[p].got \in SUBSET Name
  BY Asks DEF AddTypes, Jobs, JobFits, JobType
<1>2. DOMAIN S(p) = {"slug", "url", "bins", "ref", "local", "patch", "build", "force"}
  BY <1>1 DEF AddRepoSpec
<1>5. RegisterSpec(p) = [slug |-> S(p).slug, url |-> S(p).url, bins |-> S(p).bins, ref |-> S(p).ref,
                         local |-> S(p).local, patch |-> S(p).patch, build |-> S(p).build,
                         force |-> S(p).force, sha |-> job[p].sha, targets |-> job[p].got]
  BY <1>2 DEF RegisterSpec
<1>6. QED
  BY <1>1, <1>5 DEF AddRepoSpec, DropinType
-----------------------------------------------------------------------------
LEMMA InitTypes == HostInit => HostTypes /\ AddTypes
<1> SUFFICES ASSUME HostInit
             PROVE  HostTypes /\ AddTypes
  OBVIOUS
<1> USE DEF HostInit, Init, AddInit
<1>1. Files
  <2>1. <<Mine>> \in Seq(Line) /\ <<>> \in Seq(Line) /\ Absent \in Seq(Line)
    BY LinesFit, TextsFit DEF Absent
  <2>2. file \in [File -> Seq(Line)]
    BY <2>1
  <2>3. bak \in [File -> SUBSET Line] /\ loaded \in Seq(Line)
    BY <2>1
  <2>4. QED
    BY <2>2, <2>3 DEF Files
<1>2. Crew
  BY IdleFits DEF Crew
<1>3. Counts
  <2>1. wrote \subseteq UserFile /\ lost \subseteq File
    BY DEF UserFile, File
  <2>2. runs \in 0 .. scene.runs /\ faults \in 0 .. scene.faults
    BY SceneFits
  <2>3. QED
    BY <2>1, <2>2 DEF Counts
<1>4. Clones /\ Dropins /\ Jobs /\ OneThing
  BY NothingFits DEF Clones, Dropins, Jobs, OneThing, Registered
<1>5. tip \in [Url -> 1 .. MaxCommits] /\ bin \in [Name -> Slug \cup {Free, Foreign}]
  <2>1. 1 \in 1 .. MaxCommits
    BY CommitsAssumption
  <2>2. QED
    BY <2>1
<1>6. QED
  BY <1>1, <1>2, <1>3, <1>4, <1>5 DEF HostTypes, AddTypes

(* Where a stage takes the store and its job.                              *)
Pipeline(p) ==
    \/ SkipAcquire(p) \/ ReuseClone(p) \/ MakeClone(p) \/ Connect(p) \/ Session(p) \/ Checkout(p)
    \/ HookCheckout(p) \/ Refactor(p) \/ Detect(p) \/ Build(p) \/ EndPreview(p) \/ Locate(p)
Installs(p) == Target(p) \/ Link(p) \/ Register(p) \/ Relink(p) \/ Excise(p) \/ DropClone(p)

LEMMA StageAt ==
    ASSUME NEW p, Stages(p)
    PROVE  job[p].at \notin {"idle", "wire"}
<1> USE DEF In
<1>1. CASE SkipAcquire(p) \/ ReuseClone(p) \/ MakeClone(p) \/ Connect(p) \/ Session(p) \/ Checkout(p)
  BY <1>1 DEF SkipAcquire, ReuseClone, MakeClone, Connect, Session, Checkout
<1>2. CASE HookCheckout(p) \/ Refactor(p) \/ Detect(p) \/ Build(p) \/ EndPreview(p) \/ Locate(p)
  BY <1>2 DEF HookCheckout, Checked, Refactor, Detect, Build, EndPreview, Locate
<1>3. CASE Target(p) \/ Link(p) \/ Register(p) \/ Relink(p) \/ Excise(p) \/ DropClone(p)
  BY <1>3 DEF Target, Link, Register, Relink, Excise, DropClone
<1>4. QED
  BY <1>1, <1>2, <1>3 DEF Stages, Steady

LEMMA ChecksOut ==
    ASSUME AddTypes, NEW p \in Proc, job[p].at # "idle"
    PROVE  /\ CloneFits(Clone(p)) /\ Clone(p).head \in Commit
           /\ LET c == IF S(p).ref /\ Cloned(p) THEN OnBranch(Clone(p)) ELSE Clone(p)
              IN  CloneFits(c) /\ c.head \in Commit
<1>1. CloneFits(Clone(p))
  BY Asks DEF AddTypes, Clones, Clone
<1>2. Cloned(p) => CloneFits(OnBranch(Clone(p)))
  BY <1>1, OnBranchFits DEF Cloned
<1>3. ASSUME NEW c, CloneFits(c) PROVE c.head \in Commit
  BY <1>3 DEF CloneFits, CloneType
<1>4. QED
  BY <1>1, <1>2, <1>3

LEMMA StageJobs ==
    ASSUME AddTypes, NEW p \in Proc, Stages(p)
    PROVE  Jobs'
<1> USE DEF In
<1>0. Jobs /\ job[p].at # "idle"
  BY StageAt DEF AddTypes
<1>l. {"checkout", "refactor", "session", "detect", "build", "locate", "relink", "unwire", "target"}
        \subseteq Stage \ {"idle", "link"}
  BY DEF Stage
<1>1. CASE Checkout(p)
  <2> DEFINE c == IF S(p).ref /\ Cloned(p) THEN OnBranch(Clone(p)) ELSE Clone(p)
  <2>1. c.head \in Commit
    BY <1>0, ChecksOut
  <2>2. job' = [job EXCEPT ![p].at = "refactor", ![p].sha = c.head] \/ Breaks(p)
    BY <1>1 DEF Checkout
  <2> HIDE DEF c
  <2>3. QED
    BY <1>0, <2>1, <2>2, MovesOn
<1>2. CASE Target(p) \/ Link(p)
  <2>1. (job[p].todo # {} /\ ToLink(p)) \/ \E got \in SUBSET Name, bad \in BOOLEAN : NextName(p, got, bad)
    <3>1. CASE Target(p)
      BY <1>2, <3>1 DEF Target
    <3>2. CASE Link(p)
      <4>1. job[p].todo \in SUBSET Name /\ job[p].todo # {}
        BY <1>0, <3>2 DEF Jobs, JobFits, JobType, Link
      <4>2. NextName(p, {NameOf(p)}, FALSE) \/ NextName(p, {}, TRUE)
        BY <3>2 DEF Link
      <4>3. {NameOf(p)} \in SUBSET Name /\ {} \in SUBSET Name
        BY <4>1 DEF NameOf
      <4>4. QED
        BY <4>2, <4>3
    <3>3. QED
      BY <1>2, <3>1, <3>2
  <2>2. QED
    BY <1>0, <2>1, MovesOn
<1>3. CASE SkipAcquire(p) \/ ReuseClone(p) \/ MakeClone(p) \/ Connect(p) \/ Session(p)
  <2>1. To(p, "refactor") \/ To(p, "checkout") \/ To(p, "session") \/ Quit(p) \/ Breaks(p)
    BY <1>3 DEF SkipAcquire, ReuseClone, MakeClone, Connect, Session
  <2>2. QED
    BY <1>0, <1>l, <2>1, MovesOn
<1>4. CASE HookCheckout(p) \/ Refactor(p) \/ Detect(p) \/ Build(p) \/ EndPreview(p)
  <2>1. To(p, "refactor") \/ To(p, "detect") \/ To(p, "build") \/ To(p, "locate") \/ To(p, "relink")
          \/ Quit(p) \/ Breaks(p) \/ ToRefactor(p)
    <3>1. CASE Build(p)
      BY <3>1 DEF Build
    <3>2. CASE ~Build(p)
      BY <1>4, <3>2 DEF HookCheckout, Checked, ToRefactor, Refactor, Detect, EndPreview
    <3>3. QED
      BY <3>1, <3>2
  <2>2. QED
    BY <1>0, <1>l, <2>1, MovesOn
<1>5. CASE Locate(p)
  <2>1. Quit(p) \/ job' = [job EXCEPT ![p].at = "target", ![p].todo = S(p).bins]
    BY <1>5 DEF Locate, Chosen
  <2>2. QED
    BY <1>0, <2>1, MovesOn
<1>6. CASE Register(p) \/ Relink(p) \/ Excise(p) \/ DropClone(p)
  <2>1. job[p].at # "link"
    BY <1>6 DEF Register, Relink, Excise, DropClone
  <2>2. Quit(p) \/ Breaks(p) \/ To(p, "unwire") \/ job' = [job EXCEPT ![p].todo = @ \ {NameOf(p)}]
    BY <1>6 DEF Register, Relink, Excise, DropClone
  <2>3. QED
    BY <1>0, <1>l, <2>1, <2>2, MovesOn
<1>7. QED
  BY <1>1, <1>2, <1>3, <1>4, <1>5, <1>6 DEF Stages, Steady

LEMMA StageClones ==
    ASSUME AddTypes, NEW p \in Proc, Stages(p)
    PROVE  Clones'
<1> USE DEF In
<1>0. job[p].at # "idle" /\ Clones
  BY StageAt DEF AddTypes
<1>1. UNCHANGED clone => Clones'
  BY <1>0 DEF Clones
<1>2. ASSUME NEW c, CloneFits(c), Upd(p, c) PROVE Clones'
  BY <1>0, <1>2, UpdFits
<1>3. CASE MakeClone(p) \/ Connect(p)
  <2>1. UNCHANGED clone \/ Upd(p, FreshClone(p)) \/ Upd(p, CutClone(p))
    BY <1>3 DEF MakeClone, Connect
  <2>2. QED
    BY <1>0, <1>1, <1>2, <2>1, FreshFits
<1>4. CASE Session(p) \/ Refactor(p) \/ Build(p)
  <2>1. \/ UNCHANGED clone
        \/ Cloned(p) /\ Upd(p, [Clone(p) EXCEPT !.patched = TRUE])
        \/ Cloned(p) /\ Upd(p, [Clone(p) EXCEPT !.built = Clone(p).head])
    BY <1>4 DEF Session, Refactor, Build
  <2>2. Cloned(p) => /\ CloneFits([Clone(p) EXCEPT !.patched = TRUE])
                     /\ CloneFits([Clone(p) EXCEPT !.built = Clone(p).head])
    BY <1>0, ChecksOut, Asks, EditedFits DEF Cloned, AddTypes
  <2>3. QED
    BY <1>1, <1>2, <2>1, <2>2
<1>5. CASE Checkout(p)
  <2> DEFINE c == IF S(p).ref /\ Cloned(p) THEN OnBranch(Clone(p)) ELSE Clone(p)
  <2>1. CloneFits(c)
    BY <1>0, ChecksOut
  <2>2. Upd(p, c) \/ UNCHANGED clone
    BY <1>5 DEF Checkout
  <2> HIDE DEF c
  <2>3. QED
    BY <1>1, <1>2, <2>1, <2>2
<1>6. CASE HookCheckout(p)
  <2>1. /\ job[p].kind = "rebuild"
        /\ \/ UNCHANGED clone \/ Upd(p, CutClone(p))
           \/ \E c \in Reached(p) : Upd(p, c) \/ Upd(p, Pinned(p, c))
    BY <1>6 DEF HookCheckout, Checked
  <2>2. QED
    BY <1>0, <1>1, <1>2, <2>1, PinnedFits, FreshFits
<1>7. CASE DropClone(p)
  BY <1>2, <1>7, NothingFits DEF DropClone
<1>8. CASE SkipAcquire(p) \/ ReuseClone(p) \/ Detect(p) \/ EndPreview(p) \/ Locate(p)
  BY <1>1, <1>8 DEF SkipAcquire, ReuseClone, Detect, EndPreview, Locate
<1>9. CASE Target(p) \/ Link(p) \/ Register(p) \/ Relink(p) \/ Excise(p)
  BY <1>1, <1>9 DEF Target, Link, Register, Relink, Excise
<1>10. QED
  BY <1>3, <1>4, <1>5, <1>6, <1>7, <1>8, <1>9 DEF Stages, Steady

LEMMA StageStores ==
    ASSUME AddTypes, NEW p \in Proc, Stages(p)
    PROVE  Dropins' /\ (bin \in [Name -> Slug \cup {Free, Foreign}])'
<1> USE DEF In
<1>0. job[p].at # "idle" /\ Dropins /\ S(p).slug \in Slug /\ bin \in [Name -> Slug \cup {Free, Foreign}]
  BY StageAt, Asks DEF AddTypes
<1>1. UNCHANGED dropin => Dropins'
  BY <1>0 DEF Dropins, Registered
<1>2. (UNCHANGED bin \/ Owner(p, Free) \/ Owner(p, S(p).slug))
        => (bin \in [Name -> Slug \cup {Free, Foreign}])'
  BY <1>0 DEF Owner
<1>3. CASE Pipeline(p)
  <2>1. UNCHANGED <<dropin, bin>>
    <3>1. CASE SkipAcquire(p) \/ ReuseClone(p) \/ MakeClone(p) \/ Connect(p) \/ Session(p) \/ Checkout(p)
      BY <3>1 DEF SkipAcquire, ReuseClone, MakeClone, Connect, Session, Checkout, SameStore
    <3>2. CASE HookCheckout(p) \/ Refactor(p) \/ Detect(p) \/ Build(p) \/ EndPreview(p) \/ Locate(p)
      BY <3>2 DEF HookCheckout, Checked, Refactor, Detect, Build, EndPreview, Locate, SameStore
    <3>3. QED
      BY <1>3, <3>1, <3>2 DEF Pipeline
  <2>2. QED
    BY <1>1, <1>2, <2>1
<1>4. CASE Register(p)
  <2>1. UNCHANGED bin /\ (UNCHANGED dropin \/ dropin' = [dropin EXCEPT ![S(p).slug] = RegisterSpec(p)])
    BY <1>4 DEF Register, WriteDropin
  <2>2. RegisterSpec(p) \in DropinType /\ RegisterSpec(p).slug = S(p).slug
    BY <1>0, <1>4, RegisterFits DEF Register
  <2>3. CASE dropin' = [dropin EXCEPT ![S(p).slug] = RegisterSpec(p)]
    BY <1>0, <1>2, <2>1, <2>2, <2>3 DEF Dropins, Registered
  <2>4. QED
    BY <1>1, <1>2, <2>1, <2>3
<1>5. CASE Target(p) \/ Link(p)
  <2>1. UNCHANGED dropin /\ (UNCHANGED bin \/ Owner(p, Free) \/ Owner(p, S(p).slug))
    BY <1>5 DEF Target, Link
  <2>2. QED
    BY <1>1, <1>2, <2>1
<1>6. CASE Relink(p) \/ Excise(p) \/ DropClone(p)
  <2>1. UNCHANGED dropin /\ (UNCHANGED bin \/ Owner(p, Free) \/ Owner(p, S(p).slug))
    BY <1>6 DEF Relink, Excise, DropClone, SameStore
  <2>2. QED
    BY <1>1, <1>2, <2>1
<1>7. QED
  BY <1>3, <1>4, <1>5, <1>6 DEF Stages, Steady, Pipeline

LEMMA StageWorks ==
    ASSUME NEW p, Stages(p)
    PROVE  Works \/ Fault
<1>1. CASE SkipAcquire(p) \/ ReuseClone(p) \/ MakeClone(p) \/ Connect(p) \/ Session(p) \/ Checkout(p)
  BY <1>1 DEF SkipAcquire, ReuseClone, MakeClone, Connect, Session, Checkout, To, Quit, Breaks
<1>2. CASE HookCheckout(p) \/ Refactor(p) \/ Detect(p) \/ Build(p) \/ EndPreview(p) \/ Locate(p)
  BY <1>2 DEF HookCheckout, Checked, Refactor, Detect, Build, EndPreview, Locate, To, Quit, Breaks
<1>3. CASE Target(p) \/ Link(p)
  BY <1>3 DEF Target, Link
<1>4. CASE Register(p) \/ Relink(p) \/ Excise(p) \/ DropClone(p)
  BY <1>4 DEF Register, Relink, Excise, DropClone, To, Quit, Breaks
<1>5. QED
  BY <1>1, <1>2, <1>3, <1>4 DEF Stages, Steady

(* A step is of one process.                                               *)
Single(p) == \A q \in Proc \ {p} : job'[q] = job[q]

LEMMA StageSingle ==
    ASSUME Jobs, NEW p \in Proc, Stages(p)
    PROVE  Single(p)
<1> USE DEF To, Quit, Breaks
<1>0. DOMAIN job = Proc
  BY DEF Jobs
<1>1. CASE SkipAcquire(p) \/ ReuseClone(p) \/ MakeClone(p) \/ Connect(p) \/ Session(p)
  <2>1. (\E j : job' = [job EXCEPT ![p].at = j]) \/ job' = [job EXCEPT ![p] = NoJob]
    BY <1>1 DEF SkipAcquire, ReuseClone, MakeClone, Connect, Session
  <2>2. QED
    BY <1>0, <2>1 DEF Single
<1>2. CASE HookCheckout(p) \/ Refactor(p) \/ Detect(p) \/ Build(p) \/ EndPreview(p) \/ Register(p) \/ DropClone(p)
  <2>1. (\E j : job' = [job EXCEPT ![p].at = j]) \/ job' = [job EXCEPT ![p] = NoJob]
    <3>1. CASE Build(p)
      BY <3>1 DEF Build
    <3>2. CASE HookCheckout(p) \/ Refactor(p) \/ Detect(p) \/ EndPreview(p)
      BY <3>2 DEF HookCheckout, Checked, Refactor, Detect, EndPreview
    <3>3. CASE Register(p) \/ DropClone(p)
      BY <3>3 DEF Register, DropClone
    <3>4. QED
      BY <1>2, <3>1, <3>2, <3>3
  <2>2. QED
    BY <1>0, <2>1 DEF Single
<1>3. CASE Checkout(p)
  <2>1. \/ \E sha : job' = [job EXCEPT ![p].at = "refactor", ![p].sha = sha]
        \/ job' = [job EXCEPT ![p] = NoJob]
    BY <1>3 DEF Checkout
  <2>2. QED
    BY <1>0, <2>1 DEF Single
<1>4. CASE Locate(p)
  <2>1. job' = [job EXCEPT ![p].at = "target", ![p].todo = Chosen(p)] \/ job' = [job EXCEPT ![p] = NoJob]
    BY <1>4 DEF Locate
  <2>2. QED
    BY <1>0, <2>1 DEF Single
<1>5. CASE Target(p) \/ Link(p)
  <2>1. ToLink(p) \/ \E got, bad : NextName(p, got, bad)
    BY <1>5 DEF Target, Link
  <2>2. CASE ToLink(p)
    BY <1>0, <2>2 DEF Single, ToLink
  <2>3. ASSUME NEW got, NEW bad, NextName(p, got, bad) PROVE Single(p)
    <3>1. \E j : job' = [job EXCEPT ![p] = j]
      BY <2>3 DEF NextName
    <3>2. QED
      BY <1>0, <3>1 DEF Single
  <2>4. QED
    BY <2>1, <2>2, <2>3
<1>6. CASE Relink(p) \/ Excise(p)
  <2>1. \/ \E todo : job' = [job EXCEPT ![p].todo = todo]
        \/ job' = [job EXCEPT ![p] = NoJob]
    BY <1>6 DEF Relink, Excise
  <2>2. QED
    BY <1>0, <2>1 DEF Single
<1>7. QED
  BY <1>1, <1>2, <1>3, <1>4, <1>5, <1>6 DEF Stages, Steady

LEMMA StageTypes ==
    ASSUME HostTypes, AddTypes, NEW p \in Proc, StageStep(p)
    PROVE  HostTypes' /\ AddTypes'
<1>1. Stages(p) /\ UNCHANGED <<scene, file, bak, loaded, me, wrote, lost, blind, runs, tip, own>>
  BY DEF StageStep, hostVars, histVars
<1>2. HostTypes'
  <2>1. (faults \in 0 .. scene.faults)'
    BY <1>1, StageWorks, FaultFits DEF HostTypes, Counts
  <2>2. QED
    BY <1>1, <2>1 DEF HostTypes, Counts, Crew, Files
<1>3. Jobs' /\ Clones' /\ Dropins' /\ (bin \in [Name -> Slug \cup {Free, Foreign}])'
  BY <1>1, StageJobs, StageClones, StageStores
<1>4. OneThing'
  <2>1. job[p].at \notin {"idle", "wire"} /\ Single(p)
    BY <1>1, StageAt, StageSingle DEF AddTypes
  <2>2. me[p] = Idle
    BY <2>1 DEF AddTypes, OneThing
  <2>3. QED
    BY <1>1, <2>1, <2>2 DEF AddTypes, OneThing, Single
<1>5. QED
  BY <1>1, <1>2, <1>3, <1>4 DEF AddTypes

LEMMA BeginsFits ==
    ASSUME Jobs, NEW p \in Proc, NEW kind \in {"add", "connect", "rebuild", "reset"}, NEW spec,
           NEW label \in {"acquire", "excise"}, NEW todo \in SUBSET Name, Begins(p, kind, spec, label, todo),
           kind \in {"add", "connect"} => spec \in AddRepoSpec,
           kind \in {"rebuild", "reset"} => spec \in DropinType
    PROVE  Jobs' /\ Single(p)
<1> DEFINE j == [NoJob EXCEPT !.at = label, !.kind = kind, !.spec = spec, !.todo = todo]
<1>1. NoJob \in JobType /\ label \in Stage
  BY NothingFits DEF JobFits, Stage
<1>2. j \in JobType /\ j.at = label /\ j.kind = kind /\ j.spec = spec
  BY <1>1 DEF JobType
<1>3. job' = [job EXCEPT ![p] = j]
  BY DEF Begins
<1> HIDE DEF j
<1>4. JobFits(j)
  BY <1>2 DEF JobFits
<1>5. QED
  BY <1>3, <1>4, JobStep DEF Jobs, Single

LEMMA StartingFits ==
    ASSUME AddTypes, scene \in Scenes, NEW p \in Proc, Starts(p)
    PROVE  Jobs' /\ Single(p)
<1>1. PICK kind \in scene.calls :
          \/ \E spec \in scene.specs : /\ kind \in {"add", "connect"}
                                       /\ kind = "add" => ~Registered(spec.slug)
                                       /\ Begins(p, kind, spec, "acquire", {})
          \/ \E s \in Slug : /\ Registered(s)
                             /\ \/ kind = "rebuild" /\ Begins(p, kind, dropin[s], "acquire", dropin[s].bins)
                                \/ kind = "reset" /\ Begins(p, kind, dropin[s], "excise", dropin[s].targets)
  BY DEF Starts
<1>2. scene.specs \subseteq AddRepoSpec
  BY AddScenesAssumption
<1>3. ASSUME NEW spec \in scene.specs, kind \in {"add", "connect"}, Begins(p, kind, spec, "acquire", {})
      PROVE  Jobs' /\ Single(p)
  <2>1. spec \in AddRepoSpec /\ {} \in SUBSET Name /\ kind \notin {"rebuild", "reset"}
    BY <1>2, <1>3
  <2>2. QED
    BY <1>3, <2>1, BeginsFits DEF AddTypes
<1>4. ASSUME NEW s \in Slug, Registered(s),
             \/ kind = "rebuild" /\ Begins(p, kind, dropin[s], "acquire", dropin[s].bins)
             \/ kind = "reset" /\ Begins(p, kind, dropin[s], "excise", dropin[s].targets)
      PROVE  Jobs' /\ Single(p)
  <2>1. dropin[s] \in DropinType
    BY <1>4 DEF AddTypes, Dropins
  <2>2. dropin[s].bins \in SUBSET Name /\ dropin[s].targets \in SUBSET Name
    BY <2>1 DEF DropinType
  <2>3. CASE kind = "rebuild" /\ Begins(p, kind, dropin[s], "acquire", dropin[s].bins)
    BY <2>1, <2>2, <2>3, BeginsFits DEF AddTypes
  <2>4. CASE kind = "reset" /\ Begins(p, kind, dropin[s], "excise", dropin[s].targets)
    BY <2>1, <2>2, <2>4, BeginsFits DEF AddTypes
  <2>5. QED
    BY <1>4, <2>3, <2>4
<1>5. CASE \E spec \in scene.specs : kind \in {"add", "connect"} /\ Begins(p, kind, spec, "acquire", {})
  BY <1>3, <1>5
<1>6. CASE \E s \in Slug :
             /\ Registered(s)
             /\ \/ kind = "rebuild" /\ Begins(p, kind, dropin[s], "acquire", dropin[s].bins)
                \/ kind = "reset" /\ Begins(p, kind, dropin[s], "excise", dropin[s].targets)
  BY <1>4, <1>6
<1>7. QED
  BY <1>1, <1>5, <1>6

LEMMA StartTypes ==
    ASSUME HostTypes, AddTypes, NEW p \in Proc, StartStep(p)
    PROVE  HostTypes' /\ AddTypes'
<1>1. /\ Starts(p) /\ NewRun
      /\ UNCHANGED <<scene, file, bak, loaded, me, wrote, lost, blind, tip, own, clone, bin, dropin, faults>>
  BY DEF StartStep, hostVars, histVars, Starts, SameStore, Works
<1>2. HostTypes'
  <2>1. (runs \in 0 .. scene.runs)'
    BY <1>1, RunFits DEF HostTypes, Counts
  <2>2. QED
    BY <1>1, <2>1 DEF HostTypes, Counts, Crew, Files
<1>3. Jobs' /\ Single(p)
  <2>1. scene \in Scenes
    BY DEF HostTypes
  <2>2. QED
    BY <1>1, <2>1, StartingFits
<1>4. me[p] = Idle
  BY <1>1, Stands DEF Starts, Placed
<1>5. QED
  BY <1>1, <1>2, <1>3, <1>4 DEF AddTypes, Clones, Dropins, Registered, OneThing, Single

LEMMA WireCrew ==
    ASSUME HostTypes, AddTypes, NEW p \in Proc, Wire(p)
    PROVE  Crew' /\ Alone(p)
<1>1. S(p).slug \in Component
  <2>1. S(p).slug \in Slug
    BY Asks DEF AddTypes, Wire
  <2>2. QED
    BY <2>1, SlugAssumption
<1>2. <<"path">> \in Seq(Piece)
  BY DEF Piece
<1>3. (IF job[p].kind = "reset" THEN "revert" ELSE "apply") \in {"apply", "revert"}
  OBVIOUS
<1> DEFINE mode == IF job[p].kind = "reset" THEN "revert" ELSE "apply"
<1>4. Enter(p, mode, S(p).slug, <<"path">>, FALSE, FALSE)
  BY DEF Wire
<1> HIDE DEF mode
<1>5. QED
  BY <1>1, <1>2, <1>3, <1>4, EnterFits DEF HostTypes, mode

LEMMA WiredJobs ==
    ASSUME HostTypes, AddTypes, NEW p \in Proc, Wired(p)
    PROVE  Jobs' /\ Single(p)
<1>1. JobFits(job[p]) /\ job[p].at = "wire"
  BY DEF AddTypes, Jobs, Wired
<1>2. JobFits(Resumed(p))
  <2> DEFINE b == job[p].bad \/ me[p].bad
  <2>1. Resumed(p) = [job[p] EXCEPT !.at = "register", !.bad = b]
    BY DEF Resumed
  <2>2. b \in BOOLEAN
    OBVIOUS
  <2> HIDE DEF b
  <2>3. Resumed(p) \in JobType /\ Resumed(p).at = "register" /\ Resumed(p).kind = job[p].kind
          /\ Resumed(p).spec = job[p].spec
    BY <1>1, <2>1, <2>2 DEF JobFits, JobType, Stage
  <2>4. QED
    BY <1>1, <2>3 DEF JobFits
<1>3. job' = [job EXCEPT ![p] = IF job[p].kind = "add" THEN Resumed(p) ELSE NoJob]
  BY DEF Wired
<1>4. JobFits(IF job[p].kind = "add" THEN Resumed(p) ELSE NoJob)
  BY <1>2, NothingFits
<1>5. QED
  BY <1>3, <1>4, JobStep DEF AddTypes, Jobs, Single

LEMMA WireTypes ==
    ASSUME HostTypes, AddTypes, NEW p \in Proc, WireStep(p)
    PROVE  HostTypes' /\ AddTypes'
<1>1. UNCHANGED <<scene, wrote, blind, runs, tip, clone, own, dropin, saved, late, strange, bin, file, bak, loaded, lost, faults>>
  BY DEF WireStep, hostVars, Wired, Return
<1>2. Crew' /\ Alone(p) /\ Jobs' /\ Single(p)
  <2>1. CASE Wire(p)
    <3>1. job[p].at \in {"target", "relink", "unwire"} /\ job' = [job EXCEPT ![p].at = "wire"]
      BY <2>1 DEF Wire
    <3>2. JobFits(job[p])
      BY DEF AddTypes, Jobs
    <3>3. [job[p] EXCEPT !.at = "wire"] \in JobType
      BY <3>2 DEF JobFits, JobType, Stage
    <3>4. JobFits([job[p] EXCEPT !.at = "wire"])
      BY <3>1, <3>2, <3>3 DEF JobFits, JobType
    <3>5. Jobs' /\ Single(p)
      BY <3>1, <3>4, JobStep DEF AddTypes, Jobs, Single
    <3>6. QED
      BY <2>1, <3>5, WireCrew
  <2>2. CASE Wired(p)
    BY <2>2, WiredJobs, DiesFits DEF Wired, Return, HostTypes
  <2>3. QED
    BY <2>1, <2>2 DEF WireStep
<1>3. HostTypes'
  BY <1>1, <1>2 DEF HostTypes, Files, Counts
<1>4. OneThing'
  <2>1. job'[p].at = "wire" \/ me'[p] = Idle
    <3>1. CASE Wire(p)
      BY <3>1 DEF Wire, AddTypes, Jobs, JobFits, JobType
    <3>2. CASE Wired(p)
      BY <3>2 DEF Wired, Return, Dies, HostTypes, Crew
    <3>3. QED
      BY <3>1, <3>2 DEF WireStep
  <2>2. QED
    BY <1>2, <2>1 DEF AddTypes, OneThing, Alone, Single
<1>5. QED
  BY <1>1, <1>2, <1>3, <1>4 DEF AddTypes, Clones, Dropins, Registered

LEMMA EditsAt == ASSUME NEW p, Edits(p) PROVE me[p].at # "idle"
<1> USE DEF At
<1>1. CASE Save(p) \/ CheckBlock(p) \/ AppendBlock(p) \/ ReadBlock(p) \/ Truncate(p) \/ Fill(p)
  BY <1>1 DEF Save, CheckBlock, AppendBlock, ReadBlock, Truncate, Fill
<1>2. CASE CheckFile(p) \/ WriteFile(p) \/ CheckRemoval(p) \/ RemoveFile(p) \/ Systemctl(p) \/ FetchKey(p) \/ ChmodKey(p)
  BY <1>2 DEF CheckFile, WriteFile, CheckRemoval, RemoveFile, Systemctl, FetchKey, ChmodKey
<1>3. CASE CheckLine(p) \/ AppendLine(p) \/ ReadLines(p) \/ WriteLines(p) \/ Restart(p)
  BY <1>3 DEF CheckLine, AppendLine, ReadLines, WriteLines, Restart
<1>4. CASE GenerateCdi(p) \/ InstallAlternative(p) \/ RemoveAlternative(p) \/ MoveConfig(p) \/ PurgeData(p)
  BY <1>4 DEF GenerateCdi, InstallAlternative, RemoveAlternative, MoveConfig, PurgeData
<1>5. QED
  BY <1>1, <1>2, <1>3, <1>4 DEF Edits, Sighted

LEMMA WiringTypes ==
    ASSUME HostTypes, AddTypes, NEW p \in Proc, WiringStep(p)
    PROVE  HostTypes' /\ AddTypes'
<1>1. UNCHANGED <<tip, clone, bin, dropin, job>> /\ job[p].at \in {"idle", "wire"} /\ Alone(p) /\ HostTypes'
  <2>1. UNCHANGED <<tip, clone, bin, dropin, job>>
    BY DEF WiringStep, addVars
  <2>2. CASE EditStep(p)
    <3>1. Edits(p) /\ me[p] # Idle
      <4>1. Edits(p)
        BY <2>2 DEF EditStep
      <4>2. me[p].at # "idle"
        BY <4>1, EditsAt
      <4>3. QED
        BY <4>1, <4>2 DEF Idle
    <3>2. job[p].at \in {"idle", "wire"}
      BY <3>1 DEF AddTypes, OneThing
    <3>3. QED
      BY <2>1, <2>2, <3>1, <3>2, EditTypes, EditsCrew
  <2>3. CASE job[p].at = "idle" /\ CallStep(p)
    BY <2>1, <2>3, CallTypes, CallCrew DEF CallStep
  <2>4. CASE job[p].at = "idle" /\ EndStep(p)
    <3>1. Dies(p)
      BY <2>4 DEF EndStep, Return, Crash
    <3>2. QED
      BY <2>1, <2>4, <3>1, EndTypes, DiesFits DEF HostTypes
  <2>5. QED
    BY <2>2, <2>3, <2>4 DEF WiringStep
<1>2. OneThing'
  BY <1>1 DEF AddTypes, OneThing, Alone
<1>3. QED
  BY <1>1, <1>2 DEF AddTypes, Clones, Dropins, Registered, Jobs

LEMMA KillTypes ==
    ASSUME HostTypes, AddTypes, NEW p \in Proc, KillStep(p)
    PROVE  HostTypes' /\ AddTypes'
<1>1. /\ UNCHANGED <<scene, file, bak, loaded, wrote, lost, blind, runs, tip, clone, bin, dropin>>
      /\ Fault /\ job' = [job EXCEPT ![p] = NoJob] /\ Dies(p)
  BY DEF KillStep, Killed, hostVars, histVars, Dies
<1>2. Crew' /\ Alone(p) /\ Jobs'
  BY <1>1, DiesFits, JobStep, NothingFits DEF HostTypes, AddTypes
<1>3. (faults \in 0 .. scene.faults)'
  BY <1>1, FaultFits DEF HostTypes, Counts
<1>4. HostTypes'
  BY <1>1, <1>2, <1>3 DEF HostTypes, Files, Counts
<1>5. OneThing'
  BY <1>1, <1>2, NothingFits DEF AddTypes, OneThing, Alone, Jobs
<1>6. QED
  BY <1>1, <1>2, <1>4, <1>5 DEF AddTypes, Clones, Dropins, Registered

LEMMA OutsideTypes ==
    ASSUME HostTypes, AddTypes, Outside
    PROVE  HostTypes' /\ AddTypes'
<1>1. CASE UserWrites /\ UNCHANGED addVars
  BY <1>1, UserTypes DEF AddTypes, addVars, Clones, Dropins, Registered, Jobs, OneThing, UserWrites
<1>2. CASE UserCommand /\ UNCHANGED vars
  <2>1. UNCHANGED <<tip, clone, dropin, job>> /\ \E n : bin' = [bin EXCEPT ![n] = Foreign]
    BY <1>2 DEF UserCommand
  <2>2. (bin \in [Name -> Slug \cup {Free, Foreign}])'
    BY <2>1 DEF AddTypes
  <2>3. QED
    BY <1>2, <2>1, <2>2 DEF AddTypes, vars, Clones, Dropins, Registered, Jobs, OneThing, HostTypes, Crew, Files, Counts
<1>3. CASE Commits /\ UNCHANGED vars
  <2>1. UNCHANGED <<clone, bin, dropin, job>> /\ \E u : tip[u] < MaxCommits /\ tip' = [tip EXCEPT ![u] = @ + 1]
    BY <1>3 DEF Commits
  <2>2. (tip \in [Url -> 1 .. MaxCommits])'
    <3>1. PICK u : tip[u] < MaxCommits /\ tip' = [tip EXCEPT ![u] = tip[u] + 1]
      BY <2>1
    <3>2. ASSUME u \in Url PROVE tip[u] + 1 \in 1 .. MaxCommits
      BY <3>1, <3>2, CommitsAssumption DEF AddTypes
    <3>3. QED
      BY <3>1, <3>2 DEF AddTypes
  <2>3. QED
    BY <1>3, <2>1, <2>2 DEF AddTypes, vars, Clones, Dropins, Registered, Jobs, OneThing, HostTypes, Crew, Files, Counts
<1>4. QED
  BY <1>1, <1>2, <1>3 DEF Outside

LEMMA StepTypes == HostTypes /\ AddTypes /\ [AddNext]_allVars => HostTypes' /\ AddTypes'
<1> SUFFICES ASSUME HostTypes, AddTypes, [AddNext]_allVars
             PROVE  HostTypes' /\ AddTypes'
  OBVIOUS
<1>1. CASE UNCHANGED allVars
  BY <1>1 DEF allVars, vars, addVars, HostTypes, Crew, Files, Counts, AddTypes, Clones, Dropins, Registered, Jobs, OneThing
<1>2. ASSUME NEW p \in scene.crew,
             StageStep(p) \/ StartStep(p) \/ WireStep(p) \/ WiringStep(p) \/ KillStep(p)
      PROVE  HostTypes' /\ AddTypes'
  <2>1. p \in Proc
    BY SceneFits DEF HostTypes
  <2>2. QED
    BY <1>2, <2>1, StageTypes, StartTypes, WireTypes, WiringTypes, KillTypes
<1>3. QED
  BY <1>1, <1>2, OutsideTypes DEF AddNext

(* Every file, copy, clone, drop-in, link and process has its type.        *)
THEOREM HostTypesHold == AddSpec => []AllTypesOK
<1>1. HostTypes /\ AddTypes => AllTypesOK
  BY HostImplies, AddImplies DEF AllTypesOK
<1>2. QED
  BY <1>1, InitTypes, StepTypes, PTL DEF AddSpec
-----------------------------------------------------------------------------
(* What a process carries from step to step, and the host's shape.         *)
Fields == {"at", "mode", "comp", "todo", "text", "bad", "dirty", "mute", "keep", "purge"}
Shaped(m) == DOMAIN m = Proc /\ \A p \in Proc : DOMAIN m[p] = Fields
HostShape == scene \in Scenes /\ DOMAIN file = File /\ DOMAIN bak = File /\ Shaped(me)

(* Whoever is about to clobber a file has a copy of the user's text in it, *)
(* or there was none, unless the copy was lost.                            *)
Writing == {"edit", "fill"}
Backed(f) == f \in wrote \ lost => Mine \in bak[f]
EditIsBacked == \A p \in Proc : me[p].at \in Writing => Backed(FileOf(p))

KeptInv == HostShape /\ wrote \subseteq UserFile /\ UserTextKept /\ EditIsBacked

LEMMA IdleShape == DOMAIN Idle = Fields /\ Idle.at = "idle"
  BY DEF Idle, Fields

(* What the ways to leave a piece do to the processes.                     *)
LEMMA LeaveShape ==
    ASSUME Shaped(me), NEW p \in Proc, Leave(p) \/ Mute(p) \/ Fails(p) \/ Dies(p)
    PROVE  /\ Shaped(me)' /\ me'[p].at \notin Writing
           /\ \A q \in Proc \ {p} : me'[q] = me[q]
  BY IdleShape DEF Shaped, Leave, Mute, Fails, Dies, Fields, Writing

LEMMA GoShape ==
    ASSUME Shaped(me), NEW p \in Proc, NEW label, Go(p, label)
    PROVE  /\ Shaped(me)' /\ me'[p].at = label /\ me'[p].todo = me[p].todo
           /\ \A q \in Proc \ {p} : me'[q] = me[q]
  BY DEF Shaped, Go, Fields

(* A step of one process that leaves the user's text where it is, or       *)
(* clobbers only what it has backed.                                       *)
LEMMA StepKeeps ==
    ASSUME KeptInv, NEW p \in Proc, UNCHANGED <<scene, wrote>>, lost \subseteq lost',
           DOMAIN file' = File, DOMAIN bak' = File, Shaped(me)',
           \A q \in Proc \ {p} : me'[q] = me[q],
           \A f \in UserFile : bak[f] \subseteq bak'[f],
           \A f \in wrote : \/ Mine \in Range(file[f]) => Mine \in Range(file'[f]) \cup bak'[f]
                            \/ me[p].at \in Writing /\ f = FileOf(p),
           me'[p].at \in Writing => Backed(FileOf(p))'
    PROVE  KeptInv'
<1>1. HostShape' /\ wrote' \subseteq UserFile
  BY DEF KeptInv, HostShape
<1>2. UserTextKept'
  <2> SUFFICES ASSUME NEW f \in wrote \ lost'
               PROVE  Mine \in Range(file'[f]) \cup bak'[f]
    BY DEF UserTextKept
  <2>1. Mine \in Range(file[f]) \cup bak[f] /\ f \in UserFile /\ bak[f] \subseteq bak'[f]
    BY DEF KeptInv, UserTextKept
  <2>2. CASE me[p].at \in Writing /\ f = FileOf(p)
    BY <2>1, <2>2 DEF KeptInv, EditIsBacked, Backed
  <2>3. QED
    BY <2>1, <2>2
<1>3. EditIsBacked'
  <2> SUFFICES ASSUME NEW q \in Proc \ {p}, me'[q].at \in Writing
               PROVE  Backed(FileOf(q))'
    BY DEF EditIsBacked
  <2>1. me[q].at \in Writing /\ FileOf(q)' = FileOf(q)
    BY DEF FileOf, PieceOf
  <2>2. Backed(FileOf(q))
    BY <2>1 DEF KeptInv, EditIsBacked
  <2>3. QED
    BY <2>1, <2>2 DEF Backed, KeptInv
<1>4. QED
  BY <1>1, <1>2, <1>3 DEF KeptInv

(* A step that writes what it has backed, or nothing.                      *)
LEMMA WriteKeeps ==
    ASSUME KeptInv, NEW p \in Proc, UNCHANGED <<scene, wrote, bak, lost>>, me[p].at \in Writing,
           file' = file \/ \E text : file' = [file EXCEPT ![FileOf(p)] = text],
           Shaped(me)', \A q \in Proc \ {p} : me'[q] = me[q],
           me'[p].at \in Writing => me'[p].todo = me[p].todo
    PROVE  KeptInv'
<1>1. DOMAIN file' = File /\ \A f \in File : f # FileOf(p) => file'[f] = file[f]
  BY DEF KeptInv, HostShape
<1>2. me'[p].at \in Writing => Backed(FileOf(p))'
  BY DEF KeptInv, EditIsBacked, Backed, FileOf, PieceOf
<1>3. DOMAIN bak' = File /\ wrote \subseteq File
  BY DEF KeptInv, HostShape, UserFile, File
<1>4. QED
  BY <1>1, <1>2, <1>3, StepKeeps

(* A step that touches no file of the user, or only appends to it.         *)
LEMMA LookKeeps ==
    ASSUME KeptInv, NEW p \in Proc, UNCHANGED <<scene, wrote, bak, lost>>, DOMAIN file' = File,
           \A f \in wrote : Mine \in Range(file[f]) => Mine \in Range(file'[f]),
           Shaped(me)', \A q \in Proc \ {p} : me'[q] = me[q],
           me'[p].at \in Writing => Mine \notin Range(file[FileOf(p)']) \/ Backed(FileOf(p)')
    PROVE  KeptInv'
<1>1. me'[p].at \in Writing => Backed(FileOf(p))'
  BY DEF KeptInv, UserTextKept, Backed
<1>2. DOMAIN bak' = File
  BY DEF KeptInv, HostShape
<1>3. QED
  BY <1>1, <1>2, StepKeeps
-----------------------------------------------------------------------------
(* The edits, each of the file its piece is about.                         *)
BlockEdit(p) == AppendBlock(p) \/ Truncate(p) \/ Fill(p)
FileEdit(p) == WriteFile(p) \/ RemoveFile(p) \/ AppendLine(p) \/ WriteLines(p)

LEMMA EditsKeep ==
    ASSUME KeptInv, NEW p \in Proc, UNCHANGED <<scene, wrote>>, BlockEdit(p) \/ FileEdit(p)
    PROVE  KeptInv'
<1> USE DEF Put, Tears, Same, hostVars, At, Writing
<1>0. Shaped(me)
  BY DEF KeptInv, HostShape
<1>1. me[p].at \in Writing /\ UNCHANGED <<bak, lost>>
  BY DEF BlockEdit, FileEdit, AppendBlock, Truncate, Fill, WriteFile, RemoveFile, AppendLine, WriteLines
<1>2. file' = file \/ \E text : file' = [file EXCEPT ![FileOf(p)] = text]
  <2>1. CASE BlockEdit(p)
    <3>1. FileOf(p) = "rc"
      BY <2>1 DEF BlockEdit, AppendBlock, Truncate, Fill, FileOf, Blocks
    <3>2. QED
      BY <2>1, <3>1 DEF BlockEdit, AppendBlock, Truncate, Fill
  <2>2. CASE AppendLine(p) \/ WriteLines(p)
    <3>1. FileOf(p) = "nix"
      BY <2>2 DEF AppendLine, WriteLines, FileOf
    <3>2. QED
      BY <2>2, <3>1 DEF AppendLine, WriteLines
  <2>3. CASE WriteFile(p) \/ RemoveFile(p)
    BY <2>3 DEF WriteFile, RemoveFile
  <2>4. QED
    BY <2>1, <2>2, <2>3 DEF FileEdit
<1>3. \/ Leave(p) \/ Fails(p) \/ Dies(p) \/ Go(p, "fill")
      \/ me' = [me EXCEPT ![p].at = "check", ![p].todo = Tail(@), ![p].dirty = TRUE]
  BY DEF BlockEdit, FileEdit, AppendBlock, Truncate, Fill, WriteFile, RemoveFile, AppendLine, WriteLines
<1>4. /\ Shaped(me)' /\ \A q \in Proc \ {p} : me'[q] = me[q]
      /\ me'[p].at \in Writing => me'[p].todo = me[p].todo
  <2>1. CASE me' = [me EXCEPT ![p].at = "check", ![p].todo = Tail(@), ![p].dirty = TRUE]
    BY <1>0, <2>1 DEF Shaped, Fields
  <2>2. QED
    BY <1>0, <1>3, <2>1, LeaveShape, GoShape
<1>5. QED
  BY <1>1, <1>2, <1>4, WriteKeeps

(* A look at a file before an edit: the file is as it was, and without it  *)
(* the edit needs no copy.                                                 *)
Look(p) ==
    \/ CheckBlock(p) \/ ReadBlock(p) \/ CheckFile(p) \/ CheckRemoval(p) \/ ReadLines(p)
    \/ ChmodKey(p)

LEMMA LooksKeep ==
    ASSUME KeptInv, NEW p \in Proc, UNCHANGED <<scene, wrote>>, Look(p)
    PROVE  KeptInv'
<1> USE DEF Same, hostVars, At, Writing
<1>0. Shaped(me) /\ DOMAIN file = File
  BY DEF KeptInv, HostShape
<1>1. UNCHANGED <<file, bak, lost>>
  BY DEF Look, CheckBlock, ReadBlock, CheckFile, CheckRemoval, ReadLines, ChmodKey
<1>2. \/ Leave(p) \/ Fails(p) \/ Mute(p) \/ Go(p, "save") \/ Gropes(p)
      \/ ~Exists(FileOf(p)) /\ Go(p, "edit")
      \/ \E text : me' = [me EXCEPT ![p].at = "save", ![p].text = text]
  <2>1. CASE CheckBlock(p)
    <3>1. FileOf(p) = "rc"
      BY <2>1 DEF CheckBlock, FileOf, Blocks
    <3>2. QED
      BY <2>1, <3>1 DEF CheckBlock, Gropes
  <2>2. CASE ~CheckBlock(p)
    BY <2>2 DEF Look, ReadBlock, CheckFile, CheckRemoval, ReadLines, ChmodKey
  <2>3. QED
    BY <2>1, <2>2
<1>3. /\ Shaped(me)' /\ \A q \in Proc \ {p} : me'[q] = me[q]
      /\ me'[p].at \in Writing => ~Exists(FileOf(p)) /\ me'[p].todo = me[p].todo
  <2>1. CASE \E text : me' = [me EXCEPT ![p].at = "save", ![p].text = text]
    BY <1>0, <2>1 DEF Shaped, Fields
  <2>2. CASE Leave(p) \/ Fails(p) \/ Mute(p)
    BY <1>0, <2>2, LeaveShape
  <2>3. CASE Go(p, "save")
    BY <1>0, <2>3, GoShape
  <2>4. CASE ~Exists(FileOf(p)) /\ Go(p, "edit")
    BY <1>0, <2>4, GoShape
  <2>5. CASE Gropes(p)
    BY <1>0, <2>5 DEF Gropes, Shaped, Fields
  <2>6. QED
    BY <1>2, <2>1, <2>2, <2>3, <2>4, <2>5
<1>4. me'[p].at \in Writing => Mine \notin Range(file[FileOf(p)'])
  <2> SUFFICES ASSUME me'[p].at \in Writing
               PROVE  Mine \notin Range(file[FileOf(p)'])
    OBVIOUS
  <2>1. FileOf(p)' = FileOf(p) /\ file[FileOf(p)] = <<Gone>>
    BY <1>3 DEF FileOf, PieceOf, Exists, Absent
  <2>2. Range(<<Gone>>) = {Gone} /\ Mine # Gone
    BY DEF Range, Gone, Mine
  <2>3. QED
    BY <2>1, <2>2
<1>5. QED
  BY <1>0, <1>1, <1>3, <1>4, LookKeeps

(* Pieces that are about no file of the user.                              *)
Elsewhere(p) ==
    Systemctl(p) \/ FetchKey(p) \/ GenerateCdi(p) \/ InstallAlternative(p) \/ RemoveAlternative(p)

LEMMA ElsewhereKeeps ==
    ASSUME KeptInv, NEW p \in Proc, UNCHANGED <<scene, wrote>>, Elsewhere(p)
    PROVE  KeptInv'
<1> USE DEF Same, hostVars, At, Writing, Put, Tears
<1>0. Shaped(me) /\ DOMAIN file = File /\ wrote \subseteq UserFile
  BY DEF KeptInv, HostShape
<1>1. UNCHANGED <<bak, lost>>
  BY DEF Elsewhere, Systemctl, FetchKey, GenerateCdi, InstallAlternative, RemoveAlternative
<1>2. DOMAIN file' = File /\ \A f \in UserFile : file'[f] = file[f]
  <2>1. file' = file \/ \E f \in {"service", "key", "cdi", "alt"} : \E text : file' = [file EXCEPT ![f] = text]
    BY DEF Elsewhere, Systemctl, FetchKey, GenerateCdi, InstallAlternative, RemoveAlternative
  <2>2. QED
    BY <1>0, <2>1 DEF UserFile, File
<1>3. Leave(p) \/ Mute(p) \/ Fails(p) \/ Dies(p) \/ Go(p, "chmod")
  BY DEF Elsewhere, Systemctl, FetchKey, GenerateCdi, InstallAlternative, RemoveAlternative
<1>4. Shaped(me)' /\ (\A q \in Proc \ {p} : me'[q] = me[q]) /\ me'[p].at \notin Writing
  BY <1>0, <1>3, LeaveShape, GoShape
<1>5. QED
  BY <1>0, <1>1, <1>2, <1>4, LookKeeps

(* `sudo cat` of the configuration that is not there makes an empty one.   *)
LEMMA LinesKeep ==
    ASSUME KeptInv, NEW p \in Proc, UNCHANGED <<scene, wrote>>, CheckLine(p)
    PROVE  KeptInv'
<1>0. Shaped(me) /\ DOMAIN file = File
  BY DEF KeptInv, HostShape
<1>1. UNCHANGED <<bak, lost>>
  BY DEF CheckLine, Put, Same, hostVars
<1>2. file' = file \/ file' = [file EXCEPT !["nix"] = IF Exists("nix") THEN file["nix"] ELSE <<>>]
  BY DEF CheckLine, Put, Same, hostVars
<1>3. Leave(p) \/ Fails(p) \/ Go(p, "save")
  BY DEF CheckLine
<1>4. Shaped(me)' /\ (\A q \in Proc \ {p} : me'[q] = me[q]) /\ me'[p].at \notin Writing
  <2>1. CASE Go(p, "save")
    BY <1>0, <2>1, GoShape DEF Writing
  <2>2. QED
    BY <1>0, <1>3, <2>1, LeaveShape
<1>5. Mine \notin Range(Absent)
  BY DEF Range, Gone, Mine, Absent
<1>6. DOMAIN file' = File /\ \A f \in File : Mine \in Range(file[f]) => Mine \in Range(file'[f])
  <2>1. CASE file' = file
    BY <1>0, <2>1
  <2>2. CASE file' = [file EXCEPT !["nix"] = IF Exists("nix") THEN file["nix"] ELSE <<>>]
    BY <1>0, <1>5, <2>2 DEF Exists
  <2>3. QED
    BY <1>2, <2>1, <2>2
<1>7. wrote \subseteq File
  BY DEF KeptInv, UserFile, File
<1>8. QED
  BY <1>0, <1>1, <1>4, <1>6, <1>7, LookKeeps

(* A copy before the edit: if it fails and the edit goes on, it is lost.   *)
LEMMA SavesKeep ==
    ASSUME KeptInv, NEW p \in Proc, UNCHANGED <<scene, wrote>>, Save(p)
    PROVE  KeptInv'
<1>0. Shaped(me) /\ DOMAIN bak = File /\ DOMAIN file = File
  BY DEF KeptInv, HostShape
<1>1. file' = file /\ lost \subseteq lost'
  BY DEF Save, Same, hostVars
<1>2. Go(p, "edit") \/ Fails(p)
  BY DEF Save
<1>3. /\ Shaped(me)' /\ \A q \in Proc \ {p} : me'[q] = me[q]
      /\ me'[p].at \in Writing => Go(p, "edit") /\ me'[p].todo = me[p].todo
  <2>1. CASE Fails(p)
    BY <1>0, <2>1, LeaveShape
  <2>2. CASE Go(p, "edit")
    BY <1>0, <2>2, GoShape
  <2>3. QED
    BY <1>2, <2>1, <2>2
<1>4. \/ bak' = bak
      \/ bak' = [bak EXCEPT ![FileOf(p)] = @ \cup Range(file[FileOf(p)])]
  BY DEF Save, Same, hostVars
<1>5. DOMAIN bak' = File /\ \A f \in File : bak[f] \subseteq bak'[f]
  BY <1>0, <1>4
<1>6. me'[p].at \in Writing => Backed(FileOf(p))'
  <2> SUFFICES ASSUME me'[p].at \in Writing, FileOf(p) \in wrote \ lost'
               PROVE  Mine \in bak'[FileOf(p)]
    BY <1>3 DEF Backed, FileOf, PieceOf
  <2>1. FileOf(p) \in File /\ Mine \in Range(file[FileOf(p)]) \cup bak[FileOf(p)]
    BY <1>1 DEF KeptInv, UserTextKept, UserFile, File
  <2>2. CASE Exists(FileOf(p))
    <3>1. bak' = [bak EXCEPT ![FileOf(p)] = @ \cup Range(file[FileOf(p)])]
      BY <1>0, <1>1, <1>3, <2>2, LeaveShape DEF Save
    <3>2. QED
      BY <1>0, <2>1, <3>1
  <2>3. CASE ~Exists(FileOf(p))
    <3>1. Mine \notin Range(file[FileOf(p)])
      BY <2>3 DEF Exists, Absent, Range, Gone, Mine
    <3>2. QED
      BY <1>5, <2>1, <3>1
  <2>4. QED
    BY <2>2, <2>3
<1>7. UserFile \subseteq File
  BY DEF UserFile, File
<1>8. QED
  BY <1>0, <1>1, <1>3, <1>5, <1>6, <1>7, StepKeeps

(* The paths of the user are moved away whole.                             *)
LEMMA MovesKeep ==
    ASSUME KeptInv, NEW p \in Proc, UNCHANGED <<scene, wrote>>, MoveConfig(p) \/ PurgeData(p)
    PROVE  KeptInv'
<1>0. Shaped(me) /\ DOMAIN bak = File /\ DOMAIN file = File /\ UserFile \subseteq File /\ wrote \subseteq UserFile
  BY DEF KeptInv, HostShape, UserFile, File
<1>1. Leave(p) \/ Fails(p)
  BY DEF MoveConfig, PurgeData
<1>2. Shaped(me)' /\ (\A q \in Proc \ {p} : me'[q] = me[q]) /\ me'[p].at \notin Writing
  BY <1>0, <1>1, LeaveShape
<1>3. lost' = lost /\ (UNCHANGED <<file, bak>> \/ \E g \in File : Rename(g))
  BY DEF MoveConfig, PurgeData, Same, hostVars, Rename, File
<1>4. /\ DOMAIN file' = File /\ DOMAIN bak' = File
      /\ \A f \in File : /\ bak[f] \subseteq bak'[f]
                         /\ Mine \in Range(file[f]) => Mine \in Range(file'[f]) \cup bak'[f]
  <2>1. CASE UNCHANGED <<file, bak>>
    BY <1>0, <2>1
  <2>2. ASSUME NEW g \in File, Rename(g)
        PROVE  /\ DOMAIN file' = File /\ DOMAIN bak' = File
               /\ \A f \in File : /\ bak[f] \subseteq bak'[f]
                                  /\ Mine \in Range(file[f]) => Mine \in Range(file'[f]) \cup bak'[f]
    <3>1. DOMAIN file' = File /\ \A f \in File : f # g => file'[f] = file[f]
      BY <1>0, <2>2 DEF Rename
    <3>2. /\ DOMAIN bak' = File /\ bak'[g] = bak[g] \cup Range(file[g])
          /\ \A f \in File : f # g => bak'[f] = bak[f]
      BY <1>0, <2>2 DEF Rename
    <3>3. QED
      BY <3>1, <3>2
  <2>3. QED
    BY <1>3, <2>1, <2>2
<1>5. QED
  BY <1>0, <1>2, <1>3, <1>4, StepKeeps

LEMMA RestartKeeps ==
    ASSUME KeptInv, NEW p \in Proc, UNCHANGED <<scene, wrote>>, Restart(p)
    PROVE  KeptInv'
<1>0. Shaped(me) /\ DOMAIN file = File
  BY DEF KeptInv, HostShape
<1>1. UNCHANGED <<file, bak, lost>> /\ (Leave(p) \/ Mute(p))
  BY DEF Restart
<1>2. Shaped(me)' /\ (\A q \in Proc \ {p} : me'[q] = me[q]) /\ me'[p].at \notin Writing
  BY <1>0, <1>1, LeaveShape
<1>3. QED
  BY <1>0, <1>1, <1>2, LookKeeps

LEMMA EditStepKeeps == ASSUME KeptInv, NEW p \in Proc, EditStep(p) PROVE KeptInv'
<1>1. UNCHANGED <<scene, wrote>> /\ Edits(p)
  BY DEF EditStep
<1>2. \/ BlockEdit(p) \/ FileEdit(p) \/ Look(p) \/ Elsewhere(p) \/ CheckLine(p) \/ Save(p)
      \/ MoveConfig(p) \/ PurgeData(p) \/ Restart(p)
  BY <1>1 DEF Edits, Sighted, BlockEdit, FileEdit, Look, Elsewhere
<1>3. QED
  BY <1>1, <1>2, EditsKeep, LooksKeep, ElsewhereKeeps, LinesKeep, SavesKeep, MovesKeep, RestartKeeps

(* A step that is about no file: a process sets out, or comes to rest.     *)
LEMMA RestKeeps ==
    ASSUME KeptInv, NEW p \in Proc, UNCHANGED <<scene, wrote, file, bak, lost>>,
           Dies(p) \/ \E mode, c, pieces, keep, purge : Enter(p, mode, c, pieces, keep, purge)
    PROVE  KeptInv'
<1>0. Shaped(me) /\ DOMAIN file = File
  BY DEF KeptInv, HostShape
<1>1. Shaped(me)' /\ (\A q \in Proc \ {p} : me'[q] = me[q]) /\ me'[p].at \notin Writing
  <2>1. CASE Dies(p)
    BY <1>0, <2>1, LeaveShape
  <2>2. ASSUME NEW mode, NEW c, NEW pieces, NEW keep, NEW purge, Enter(p, mode, c, pieces, keep, purge)
        PROVE  Shaped(me)' /\ (\A q \in Proc \ {p} : me'[q] = me[q]) /\ me'[p].at \notin Writing
    <3> DEFINE m == [Idle EXCEPT !.at = "check", !.mode = mode, !.comp = c,
                                 !.todo = pieces, !.keep = keep, !.purge = purge]
    <3>1. me' = [me EXCEPT ![p] = m]
      BY <2>2 DEF Enter
    <3>2. DOMAIN m = Fields /\ m.at = "check"
      BY IdleShape DEF Fields
    <3> HIDE DEF m
    <3>3. QED
      BY <1>0, <3>1, <3>2 DEF Shaped, Writing
  <2>3. QED
    BY <2>1, <2>2
<1>2. QED
  BY <1>0, <1>1, LookKeeps

LEMMA UserKeeps == ASSUME KeptInv, HostTypes, UserWrites PROVE KeptInv'
<1>1. PICK f \in {"rc", "desktop", "unit", "list", "nix"} :
        /\ ~Rewriting(f)
        /\ file' = [file EXCEPT ![f] = IF f \in {"rc", "nix"} /\ Exists(f) THEN Append(file[f], Mine) ELSE <<Mine>>]
        /\ wrote' = wrote \cup {f}
  BY DEF UserWrites, Put
<1>2. UNCHANGED <<scene, me, bak, lost>>
  BY DEF UserWrites, Put
<1>3. f \in File /\ f \in UserFile /\ file[f] \in Seq(Line) /\ DOMAIN file = File
  BY DEF File, UserFile, HostTypes, Files
<1>4. Mine \in Range(file'[f]) /\ DOMAIN file' = File /\ \A g \in File : g # f => file'[g] = file[g]
  <2>1. Append(file[f], Mine)[Len(file[f]) + 1] = Mine /\ Len(file[f]) + 1 \in DOMAIN Append(file[f], Mine)
    BY <1>3
  <2>2. Mine \in Range(Append(file[f], Mine))
    BY <2>1 DEF Range
  <2>3. Mine \in Range(<<Mine>>)
    BY DEF Range
  <2>4. QED
    BY <1>1, <1>3, <2>2, <2>3
<1>5. UserTextKept'
  <2>1. wrote \subseteq File /\ wrote' = wrote \cup {f}
    BY <1>1 DEF KeptInv, UserFile, File
  <2>2. QED
    BY <1>2, <1>4, <2>1 DEF KeptInv, UserTextKept
<1>6. EditIsBacked'
  <2> SUFFICES ASSUME NEW q \in Proc, me[q].at \in Writing
               PROVE  Backed(FileOf(q))'
    BY <1>2 DEF EditIsBacked
  <2>1. FileOf(q) # f /\ FileOf(q)' = FileOf(q)
    BY <1>1, <1>2 DEF Rewriting, Writing, FileOf, PieceOf
  <2>2. Backed(FileOf(q))
    BY DEF KeptInv, EditIsBacked
  <2>3. QED
    BY <1>1, <1>2, <2>1, <2>2 DEF Backed
<1>7. HostShape' /\ wrote' \subseteq UserFile
  BY <1>1, <1>2, <1>3, <1>4 DEF KeptInv, HostShape, Shaped
<1>8. QED
  BY <1>5, <1>6, <1>7 DEF KeptInv

LEMMA TypesShape == HostTypes => HostShape
<1> SUFFICES ASSUME HostTypes
             PROVE  HostShape
  OBVIOUS
<1>1. DOMAIN file = File /\ DOMAIN bak = File /\ DOMAIN me = Proc
  BY DEF HostTypes, Files, Crew
<1>2. ASSUME NEW p \in Proc PROVE DOMAIN me[p] = Fields
  <2>1. me[p] \in MeType
    BY DEF HostTypes, Crew
  <2>2. QED
    BY <2>1 DEF MeType, Fields
<1>3. QED
  BY <1>1, <1>2 DEF HostTypes, HostShape, Shaped

LEMMA InitKept == HostInit => KeptInv
<1> SUFFICES ASSUME HostInit
             PROVE  KeptInv
  OBVIOUS
<1>1. HostShape
  BY InitTypes, TypesShape
<1>2. wrote \subseteq UserFile /\ \A f \in wrote : file[f] = <<Mine>>
  BY DEF HostInit, Init, UserFile, File
<1>3. Mine \in Range(<<Mine>>)
  BY DEF Range
<1>4. \A p \in Proc : me[p].at = "idle"
  BY DEF HostInit, Init, Idle
<1>5. QED
  BY <1>1, <1>2, <1>3, <1>4 DEF KeptInv, UserTextKept, EditIsBacked, Writing

(* The user's own commands: what is neither in place nor in a copy came    *)
(* between the look and the link.                                          *)
LEMMA OwnKept ==
    ASSUME ForeignKept, own' = own, saved \subseteq saved', late \subseteq late',
           bin' = bin \/ \E n \in DOMAIN bin : /\ \E o : bin' = [bin EXCEPT ![n] = o]
                                               /\ bin[n] = Foreign => n \in saved' \cup late'
    PROVE  ForeignKept'
<1> SUFFICES ASSUME NEW k \in own \ late'
             PROVE  bin'[k] = Foreign \/ k \in saved'
  BY DEF ForeignKept
<1>1. bin[k] = Foreign \/ k \in saved'
  BY DEF ForeignKept
<1>2. CASE bin' = bin
  BY <1>1, <1>2
<1>3. ASSUME NEW n \in DOMAIN bin, NEW o, bin' = [bin EXCEPT ![n] = o], bin[n] = Foreign => n \in saved' \cup late'
      PROVE  bin'[k] = Foreign \/ k \in saved'
  <2>1. k # n => bin'[k] = bin[k]
    BY <1>3
  <2>2. k = n /\ bin[n] = Foreign => k \in saved'
    BY <1>3
  <2>3. QED
    BY <1>1, <2>1, <2>2
<1>4. QED
  BY <1>2, <1>3

LEMMA StageKept ==
    ASSUME ForeignKept, AddTypes, NEW p \in Proc, Stages(p), own' = own
    PROVE  ForeignKept'
<1>0. job[p].at # "idle" /\ S(p).slug # Foreign /\ DOMAIN bin = Name
  BY StageAt, Asks, SlugAssumption DEF AddTypes
<1>1. CASE Pipeline(p) \/ Register(p) \/ DropClone(p)
  <2>1. UNCHANGED <<bin, saved, late>>
    <3>1. CASE SkipAcquire(p) \/ ReuseClone(p) \/ MakeClone(p) \/ Connect(p) \/ Session(p) \/ Checkout(p)
      BY <3>1 DEF SkipAcquire, ReuseClone, MakeClone, Connect, Session, Checkout, SameStore
    <3>2. CASE HookCheckout(p) \/ Refactor(p) \/ Detect(p) \/ Build(p) \/ EndPreview(p) \/ Locate(p)
      BY <3>2 DEF HookCheckout, Checked, Refactor, Detect, Build, EndPreview, Locate, SameStore
    <3>3. CASE Register(p) \/ DropClone(p)
      BY <3>3 DEF Register, DropClone, SameStore
    <3>4. QED
      BY <1>1, <3>1, <3>2, <3>3 DEF Pipeline
  <2>2. QED
    BY <2>1, OwnKept
<1> DEFINE n == NameOf(p)
<1>2. job[p].todo # {} => n \in Name
  BY DEF AddTypes, Jobs, JobFits, JobType, NameOf
<1>3. CASE Target(p)
  <2>1. late' = late /\ saved \subseteq saved' /\ n \in Name
    BY <1>2, <1>3 DEF Target
  <2>2. bin' = bin \/ (Owner(p, Free) /\ (bin[n] = S(p).slug \/ (bin[n] = Foreign => n \in saved')))
    BY <1>3 DEF Target, Managed
  <2>3. Owner(p, Free) => bin' = [bin EXCEPT ![n] = Free]
    BY DEF Owner
  <2> HIDE DEF n
  <2>4. QED
    BY <1>0, <2>1, <2>2, <2>3, OwnKept
<1>4. CASE Link(p) \/ Relink(p)
  <2>1. saved' = saved /\ late \subseteq late' /\ job[p].todo # {}
    <3>1. CASE Link(p)
      <4>1. job[p].todo # {}
        BY <3>1 DEF Link, In, AddTypes, Jobs, JobFits
      <4>2. QED
        BY <3>1, <4>1 DEF Link
    <3>2. CASE Relink(p)
      BY <3>2 DEF Relink
    <3>3. QED
      BY <1>4, <3>1, <3>2
  <2>2. bin' = bin \/ ((Owner(p, Free) \/ Owner(p, S(p).slug)) /\ (bin[n] = Foreign => n \in late'))
    BY <1>4 DEF Link, Relink
  <2>3. Owner(p, Free) \/ Owner(p, S(p).slug) => \E o : bin' = [bin EXCEPT ![n] = o]
    BY DEF Owner
  <2> HIDE DEF n
  <2>4. QED
    BY <1>0, <1>2, <2>1, <2>2, <2>3, OwnKept
<1>5. CASE Excise(p)
  <2>1. saved' = saved /\ late' = late /\ job[p].todo # {}
    BY <1>5 DEF Excise
  <2>2. bin' = bin \/ (Owner(p, Free) /\ Greps(p, bin[n]))
    BY <1>5 DEF Excise
  <2>3. ~Greps(p, Foreign)
    BY <1>0, SlugAssumption DEF Greps
  <2>4. Owner(p, Free) => bin' = [bin EXCEPT ![n] = Free]
    BY DEF Owner
  <2>5. Greps(p, bin[n]) => bin[n] # Foreign
    BY <2>3
  <2> HIDE DEF n
  <2>6. QED
    BY <1>0, <1>2, <2>1, <2>2, <2>4, <2>5, OwnKept
<1>6. QED
  BY <1>1, <1>3, <1>4, <1>5 DEF Stages, Steady, Pipeline
-----------------------------------------------------------------------------
KeptAll == HostTypes /\ AddTypes /\ KeptInv /\ ForeignKept

LEMMA StepKept == KeptAll /\ [AddNext]_allVars => KeptInv' /\ ForeignKept'
<1> SUFFICES ASSUME KeptAll, [AddNext]_allVars
             PROVE  KeptInv' /\ ForeignKept'
  OBVIOUS
<1> USE DEF KeptAll
<1>1. CASE UNCHANGED allVars
  BY <1>1 DEF allVars, vars, addVars, KeptInv, HostShape, Shaped, UserTextKept, EditIsBacked, Backed,
              FileOf, PieceOf, ForeignKept
<1>2. UNCHANGED <<scene, file, bak, me, wrote, lost>> => KeptInv'
  BY DEF KeptInv, HostShape, Shaped, UserTextKept, EditIsBacked, Backed, FileOf, PieceOf
<1>3. UNCHANGED <<bin, own, saved, late>> => ForeignKept'
  BY DEF ForeignKept
<1>4. ASSUME NEW p \in scene.crew,
             StageStep(p) \/ StartStep(p) \/ WireStep(p) \/ WiringStep(p) \/ KillStep(p)
      PROVE  KeptInv' /\ ForeignKept'
  <2>0. p \in Proc
    BY SceneFits DEF HostTypes
  <2>1. CASE StageStep(p)
    BY <1>2, <2>0, <2>1, StageKept DEF StageStep, hostVars, histVars
  <2>2. CASE StartStep(p)
    BY <1>2, <1>3, <2>2 DEF StartStep, Starts, SameStore, hostVars, histVars
  <2>3. CASE WireStep(p)
    <3>1. UNCHANGED <<scene, wrote, file, bak, lost, bin, own, saved, late>>
      BY <2>3 DEF WireStep, Wired, Return, hostVars
    <3>2. Dies(p) \/ \E mode, c, pieces, keep, purge : Enter(p, mode, c, pieces, keep, purge)
      <4>1. CASE Wire(p)
        <5> DEFINE mode == IF job[p].kind = "reset" THEN "revert" ELSE "apply"
        <5>1. Enter(p, mode, S(p).slug, <<"path">>, FALSE, FALSE)
          BY <4>1 DEF Wire
        <5> HIDE DEF mode
        <5>2. QED
          BY <5>1
      <4>2. CASE Wired(p)
        BY <4>2 DEF Wired, Return
      <4>3. QED
        BY <2>3, <4>1, <4>2 DEF WireStep
    <3>3. QED
      BY <1>3, <2>0, <3>1, <3>2, RestKeeps
  <2>4. CASE WiringStep(p)
    <3>1. UNCHANGED <<bin, own, saved, late>>
      BY <2>4 DEF WiringStep, addVars
    <3>2. CASE EditStep(p)
      BY <1>3, <2>0, <3>1, <3>2, EditStepKeeps
    <3>3. CASE CallStep(p)
      <4>1. UNCHANGED <<scene, wrote, file, bak, lost>> /\ (Apply(p) \/ Revert(p))
        BY <3>3 DEF CallStep, hostVars, histVars
      <4>2. \E mode, c, pieces, keep, purge : Enter(p, mode, c, pieces, keep, purge)
        BY <4>1 DEF Apply, Revert
      <4>3. QED
        BY <1>3, <2>0, <3>1, <4>1, <4>2, RestKeeps
    <3>4. CASE EndStep(p)
      <4>1. UNCHANGED <<scene, wrote, file, bak, lost>> /\ Dies(p)
        BY <3>4 DEF EndStep, Return, Crash, Same, hostVars
      <4>2. QED
        BY <1>3, <2>0, <3>1, <4>1, RestKeeps
    <3>5. QED
      BY <2>4, <3>2, <3>3, <3>4 DEF WiringStep
  <2>5. CASE KillStep(p)
    <3>1. UNCHANGED <<scene, wrote, file, bak, lost, bin, own, saved, late>> /\ Dies(p)
      BY <2>5 DEF KillStep, Killed, Dies, hostVars, histVars
    <3>2. QED
      BY <1>3, <2>0, <3>1, RestKeeps
  <2>6. QED
    BY <1>4, <2>1, <2>2, <2>3, <2>4, <2>5
<1>5. CASE Outside
  <2>1. CASE UserWrites /\ UNCHANGED addVars
    BY <1>3, <2>1, UserKeeps DEF addVars
  <2>2. CASE Commits /\ UNCHANGED vars
    BY <1>2, <1>3, <2>2 DEF Commits, vars
  <2>3. CASE UserCommand /\ UNCHANGED vars
    <3>1. PICK n : bin' = [bin EXCEPT ![n] = Foreign] /\ own' = own \cup {n} /\ UNCHANGED <<saved, late>> /\ bin[n] = Free
                   /\ n \in UNION {spec.bins : spec \in scene.specs}
      BY <2>3 DEF UserCommand
    <3>2. n \in Name
      BY <3>1, AddScenesAssumption DEF HostTypes, AddRepoSpec
    <3>3. ForeignKept'
      BY <3>1, <3>2 DEF ForeignKept, AddTypes
    <3>4. QED
      BY <1>2, <2>3, <3>3 DEF vars
  <2>4. QED
    BY <1>5, <2>1, <2>2, <2>3 DEF Outside
<1>6. QED
  BY <1>1, <1>4, <1>5 DEF AddNext

(* What the user has written into a file, and the commands of his own, are *)
(* in place or in a copy, through crashes, failures and other processes.   *)
THEOREM UserIsKept == AddSpec => []UserKept
<1>1. HostInit => KeptAll
  BY InitTypes, InitKept DEF KeptAll, ForeignKept, HostInit, AddInit
<1>2. KeptAll /\ [AddNext]_allVars => KeptAll'
  BY StepTypes, StepKept DEF KeptAll
<1>3. KeptAll => UserKept
  BY DEF KeptAll, KeptInv, UserKept
<1>4. QED
  BY <1>1, <1>2, <1>3, PTL DEF AddSpec
-----------------------------------------------------------------------------
(* Until a repository is registered its clone holds commits of its origin  *)
(* only; a hook's component is registered; and who is not of the crew asks *)
(* for nothing.                                                            *)
OwnCommits(c) == \A k \in {c.branch, c.head} : k # NoCommit => k[1] = c.origin
Unmixed == \A s \in Slug : ~Registered(s) => OwnCommits(clone[s])
HookedOnly == \A p \in Proc : job[p].kind \in {"rebuild", "reset"} => Registered(S(p).slug)
Bystanders == \A p \in Proc \ scene.crew : job[p] = NoJob
PreviewStands == \A p \in Proc : Preview(p) => job[p].at \in {"acquire", "refactor", "detect", "build"}

(* Of one process at a time: an add is of what is not registered, works on *)
(* a clone of the repository asked for, and owns the links it has made; a  *)
(* rebuild whose fetch went through works on the commit recorded.          *)
Recorded(p) == job[p].kind = "rebuild" /\ ~S(p).ref /\ S(p).sha # NoCommit /\ p \notin adrift
OnAsked(p) ==
    /\ job[p].at \in {"checkout", "refactor", "detect", "build"} /\ ~S(p).local
         => Cloned(p) /\ Clone(p).origin = S(p).url
    /\ job[p].at = "build" => Clone(p).head # NoCommit
LinksSoFar(p) ==
    /\ job[p].at \notin {"target", "link", "wire", "register"} => job[p].got = {}
    /\ \A n \in job[p].got : bin[n] = S(p).slug /\ n \notin job[p].todo
OnRecorded(p) ==
    /\ job[p].at \in {"refactor", "detect", "build"} => Clone(p).head = S(p).sha
    /\ job[p].at = "relink" => Clone(p).built = S(p).sha
Asked(p) ==
    /\ job[p].kind = "add" => ~Registered(S(p).slug) /\ LinksSoFar(p) /\ (~Preview(p) => OnAsked(p))
    /\ Recorded(p) => OnRecorded(p)
AskedInv == Solo => strange = {} /\ \A p \in Proc : Asked(p)

BuildsInv == Unmixed /\ HookedOnly /\ Bystanders /\ PreviewStands /\ AskedInv

LEMMA BuildsImplies == AddTypes /\ BuildsInv => BuildsAsAsked
  BY DEF BuildsInv, AskedInv, BuildsAsAsked, NoForeignBuild, RebuildsRecorded, Asked, Recorded, OnRecorded, In

(* What a move makes of the job.                                           *)
Keeps(p) == job'[p].kind = job[p].kind /\ job'[p].spec = job[p].spec
LEMMA ToGives ==
    ASSUME Jobs, NEW p \in Proc, NEW label, To(p, label)
    PROVE  job'[p].at = label /\ Keeps(p) /\ job'[p].todo = job[p].todo /\ job'[p].got = job[p].got
<1>1. job[p] \in JobType /\ DOMAIN job = Proc
  BY DEF Jobs, JobFits
<1>2. job'[p] = [job[p] EXCEPT !.at = label]
  BY <1>1 DEF To
<1>3. QED
  BY <1>1, <1>2 DEF JobType, Keeps

LEMMA RestGives ==
    ASSUME Jobs, NEW p \in Proc, Quit(p) \/ Breaks(p)
    PROVE  job'[p] = NoJob
  BY DEF Jobs, Quit, Breaks

LEMMA NextGives ==
    ASSUME Jobs, NEW p \in Proc, NEW got, NEW bad, NextName(p, got, bad)
    PROVE  /\ job'[p].at = "target" /\ Keeps(p)
           /\ job'[p].todo = job[p].todo \ {NameOf(p)} /\ job'[p].got = job[p].got \cup got
<1> DEFINE b == job[p].bad \/ bad
<1>1. job[p] \in JobType /\ DOMAIN job = Proc
  BY DEF Jobs, JobFits
<1>2. job' = [job EXCEPT ![p].at = "target", ![p].todo = job[p].todo \ {NameOf(p)},
                         ![p].got = job[p].got \cup got, ![p].bad = b]
  BY DEF NextName
<1> HIDE DEF b
<1>3. QED
  BY <1>1, <1>2 DEF JobType, Keeps

LEMMA MoreGives ==
    ASSUME Jobs, NEW p \in Proc
    PROVE  /\ ToLink(p) => job'[p].at = "link" /\ Keeps(p) /\ job'[p].todo = job[p].todo /\ job'[p].got = job[p].got
           /\ \A sha : job' = [job EXCEPT ![p].at = "refactor", ![p].sha = sha]
                => job'[p].at = "refactor" /\ Keeps(p) /\ job'[p].todo = job[p].todo /\ job'[p].got = job[p].got
           /\ ToRefactor(p)
                => job'[p].at = "refactor" /\ Keeps(p) /\ job'[p].todo = job[p].todo /\ job'[p].got = job[p].got
           /\ \A todo : job' = [job EXCEPT ![p].at = "target", ![p].todo = todo]
                => job'[p].at = "target" /\ Keeps(p) /\ job'[p].todo = todo /\ job'[p].got = job[p].got
           /\ \A todo : job' = [job EXCEPT ![p].todo = todo]
                => job'[p].at = job[p].at /\ Keeps(p) /\ job'[p].todo = todo /\ job'[p].got = job[p].got
<1>1. job[p] \in JobType /\ DOMAIN job = Proc
  BY DEF Jobs, JobFits
<1>2. QED
  BY <1>1 DEF JobType, Keeps, ToLink, ToRefactor

(* Whatever a stage does, its job is about the same, or over.              *)
LEMMA StageJob ==
    ASSUME AddTypes, NEW p \in Proc, Stages(p)
    PROVE  job'[p] = NoJob \/ (Keeps(p) /\ job'[p].at # "idle")
<1> USE DEF In
<1>0. Jobs
  BY DEF AddTypes
<1>1. CASE SkipAcquire(p) \/ ReuseClone(p) \/ MakeClone(p) \/ Connect(p) \/ Session(p)
  <2>1. To(p, "refactor") \/ To(p, "checkout") \/ To(p, "session") \/ Quit(p) \/ Breaks(p)
    BY <1>1 DEF SkipAcquire, ReuseClone, MakeClone, Connect, Session
  <2>2. QED
    BY <1>0, <2>1, ToGives, RestGives
<1>2. CASE HookCheckout(p) \/ Refactor(p) \/ Detect(p) \/ Build(p) \/ EndPreview(p)
  <2>1. To(p, "refactor") \/ To(p, "detect") \/ To(p, "build") \/ To(p, "locate") \/ To(p, "relink")
          \/ Quit(p) \/ Breaks(p) \/ ToRefactor(p)
    <3>1. CASE Build(p)
      BY <3>1 DEF Build
    <3>2. CASE ~Build(p)
      BY <1>2, <3>2 DEF HookCheckout, Checked, ToRefactor, Refactor, Detect, EndPreview
    <3>3. QED
      BY <3>1, <3>2
  <2>2. CASE ToRefactor(p)
    BY <1>0, <2>2, MoreGives
  <2>3. CASE ~ToRefactor(p)
    BY <1>0, <2>1, <2>3, ToGives, RestGives
  <2>4. QED
    BY <2>2, <2>3
<1>3. CASE Checkout(p)
  <2>1. (\E sha : job' = [job EXCEPT ![p].at = "refactor", ![p].sha = sha]) \/ Breaks(p)
    BY <1>3 DEF Checkout
  <2>2. QED
    BY <1>0, <2>1, MoreGives, RestGives
<1>4. CASE Locate(p)
  <2>1. (\E todo : job' = [job EXCEPT ![p].at = "target", ![p].todo = todo]) \/ Quit(p)
    BY <1>4 DEF Locate
  <2>2. QED
    BY <1>0, <2>1, MoreGives, RestGives
<1>5. CASE Target(p) \/ Link(p)
  <2>1. ToLink(p) \/ \E got, bad : NextName(p, got, bad)
    BY <1>5 DEF Target, Link
  <2>2. QED
    BY <1>0, <2>1, MoreGives, NextGives
<1>6. CASE Register(p) \/ DropClone(p)
  <2>1. Quit(p) \/ Breaks(p) \/ To(p, "unwire")
    BY <1>6 DEF Register, DropClone
  <2>2. QED
    BY <1>0, <2>1, ToGives, RestGives
<1>7. CASE Relink(p) \/ Excise(p)
  <2>1. (\E todo : job' = [job EXCEPT ![p].todo = todo]) \/ Breaks(p)
    BY <1>7 DEF Relink, Excise
  <2>2. job[p].at # "idle"
    BY <1>7 DEF Relink, Excise
  <2>3. QED
    BY <1>0, <2>1, <2>2, MoreGives, RestGives
<1>8. QED
  BY <1>1, <1>2, <1>3, <1>4, <1>5, <1>6, <1>7 DEF Stages, Steady

LEMMA StageRegistered ==
    ASSUME AddTypes, NEW p \in Proc, Stages(p), NEW s \in Slug
    PROVE  /\ Registered(s) => dropin'[s] # NoDropin
           /\ dropin'[s] # NoDropin /\ ~Registered(s) => Register(p)
<1>0. job[p].at # "idle" /\ DOMAIN dropin = Slug
  BY StageAt DEF AddTypes, Dropins
<1>1. CASE Register(p)
  <2>1. UNCHANGED dropin \/ dropin' = [dropin EXCEPT ![S(p).slug] = RegisterSpec(p)]
    BY <1>1 DEF Register, WriteDropin
  <2>2. RegisterSpec(p) \in DropinType
    BY <1>0, <1>1, RegisterFits DEF Register, In
  <2>3. RegisterSpec(p) # NoDropin
    <3>1. DOMAIN NoDropin = {"url"} /\ "sha" \in DOMAIN RegisterSpec(p)
      BY <2>2 DEF NoDropin, DropinType
    <3>2. QED
      BY <3>1
  <2>4. QED
    BY <1>0, <1>1, <2>1, <2>3 DEF Registered
<1>2. CASE ~Register(p)
  <2>1. UNCHANGED dropin
    <3>1. CASE SkipAcquire(p) \/ ReuseClone(p) \/ MakeClone(p) \/ Connect(p) \/ Session(p) \/ Checkout(p)
      BY <3>1 DEF SkipAcquire, ReuseClone, MakeClone, Connect, Session, Checkout, SameStore
    <3>2. CASE HookCheckout(p) \/ Refactor(p) \/ Detect(p) \/ Build(p) \/ EndPreview(p) \/ Locate(p)
      BY <3>2 DEF HookCheckout, Checked, Refactor, Detect, Build, EndPreview, Locate, SameStore
    <3>3. CASE Target(p) \/ Link(p) \/ Relink(p) \/ Excise(p) \/ DropClone(p)
      BY <3>3 DEF Target, Link, Relink, Excise, DropClone, SameStore
    <3>4. QED
      BY <1>2, <3>1, <3>2, <3>3 DEF Stages, Steady
  <2>2. QED
    BY <2>1 DEF Registered
<1>3. QED
  BY <1>1, <1>2

(* What becomes of a clone's fields.                                       *)
LEMMA CloneGives ==
    ASSUME NEW c, CloneFits(c), NEW sha, NEW u
    PROVE  /\ [c EXCEPT !.patched = TRUE].git = c.git /\ [c EXCEPT !.patched = TRUE].origin = c.origin
           /\ [c EXCEPT !.patched = TRUE].head = c.head /\ [c EXCEPT !.patched = TRUE].branch = c.branch
           /\ [c EXCEPT !.built = c.head].git = c.git /\ [c EXCEPT !.built = c.head].origin = c.origin
           /\ [c EXCEPT !.built = c.head].head = c.head /\ [c EXCEPT !.built = c.head].branch = c.branch
           /\ [c EXCEPT !.built = c.head].built = c.head
           /\ [c EXCEPT !.head = sha].head = sha
           /\ OnBranch(c).git = c.git /\ OnBranch(c).origin = c.origin
           /\ OnBranch(c).head = OnBranch(c).branch
           /\ OnBranch(c).branch = c.branch \/ OnBranch(c).branch = Tip(c.origin)
<1>1. DOMAIN c = {"git", "origin", "branch", "head", "patched", "built"}
  BY DEF CloneFits, CloneType
<1>2. QED
  BY <1>1 DEF OnBranch

LEMMA FreshGives ==
    ASSUME NEW p
    PROVE  /\ FreshClone(p).git = "whole" /\ FreshClone(p).origin = S(p).url
           /\ FreshClone(p).branch = Tip(S(p).url) /\ FreshClone(p).head = Tip(S(p).url)
           /\ CutClone(p).branch = NoCommit /\ CutClone(p).head = NoCommit
  BY DEF FreshClone, CutClone, NoClone

LEMMA UpdGives ==
    ASSUME AddTypes, NEW p \in Proc, job[p].at # "idle", NEW c, Upd(p, c)
    PROVE  clone'[S(p).slug] = c /\ \A s \in Slug \ {S(p).slug} : clone'[s] = clone[s]
  BY Asks DEF AddTypes, Clones, Upd

LEMMA OnBranchOwn ==
    ASSUME AddTypes, NEW c, CloneFits(c), c.git # "none", OwnCommits(c)
    PROVE  OwnCommits(OnBranch(c))
<1>1. c.origin \in Url
  BY DEF CloneFits
<1>2. Tip(c.origin)[1] = c.origin
  BY <1>1, TipFits
<1>3. QED
  BY <1>2, CloneGives DEF OwnCommits

(* Only the hook of what is registered mixes a clone's commits.            *)
LEMMA StageOwn ==
    ASSUME AddTypes, NEW p \in Proc, Stages(p), ~HookCheckout(p), OwnCommits(Clone(p))
    PROVE  OwnCommits(clone'[S(p).slug])
<1> USE DEF In
<1>0. job[p].at # "idle" /\ CloneFits(Clone(p)) /\ S(p).url \in Url
  BY StageAt, ChecksOut, Asks DEF AddTypes
<1>1. UNCHANGED clone => OwnCommits(clone'[S(p).slug])
  BY DEF Clone
<1>2. ASSUME NEW c, OwnCommits(c), Upd(p, c) PROVE OwnCommits(clone'[S(p).slug])
  BY <1>0, <1>2, UpdGives
<1>3. CASE MakeClone(p) \/ Connect(p)
  <2>1. UNCHANGED clone \/ Upd(p, FreshClone(p)) \/ Upd(p, CutClone(p))
    BY <1>3 DEF MakeClone, Connect
  <2>2. OwnCommits(FreshClone(p)) /\ OwnCommits(CutClone(p))
    <3>1. Tip(S(p).url)[1] = S(p).url
      BY <1>0, TipFits
    <3>2. QED
      BY <3>1, FreshGives DEF OwnCommits
  <2>3. QED
    BY <1>1, <1>2, <2>1, <2>2
<1>4. CASE Session(p) \/ Refactor(p) \/ Build(p)
  <2>1. \/ UNCHANGED clone
        \/ Upd(p, [Clone(p) EXCEPT !.patched = TRUE])
        \/ Upd(p, [Clone(p) EXCEPT !.built = Clone(p).head])
    BY <1>4 DEF Session, Refactor, Build
  <2>2. OwnCommits([Clone(p) EXCEPT !.patched = TRUE]) /\ OwnCommits([Clone(p) EXCEPT !.built = Clone(p).head])
    BY <1>0, CloneGives DEF OwnCommits
  <2>3. QED
    BY <1>1, <1>2, <2>1, <2>2
<1>5. CASE Checkout(p)
  <2> DEFINE c == IF S(p).ref /\ Cloned(p) THEN OnBranch(Clone(p)) ELSE Clone(p)
  <2>1. OwnCommits(c)
    BY <1>0, OnBranchOwn DEF Cloned
  <2>2. Upd(p, c) \/ UNCHANGED clone
    BY <1>5 DEF Checkout
  <2> HIDE DEF c
  <2>3. QED
    BY <1>1, <1>2, <2>1, <2>2
<1>6. CASE DropClone(p)
  <2>1. OwnCommits(NoClone)
    BY DEF OwnCommits, NoClone
  <2>2. QED
    BY <1>2, <1>6, <2>1 DEF DropClone
<1>7. CASE SkipAcquire(p) \/ ReuseClone(p) \/ Detect(p) \/ EndPreview(p) \/ Locate(p)
  BY <1>1, <1>7 DEF SkipAcquire, ReuseClone, Detect, EndPreview, Locate
<1>8. CASE Target(p) \/ Link(p) \/ Register(p) \/ Relink(p) \/ Excise(p)
  BY <1>1, <1>8 DEF Target, Link, Register, Relink, Excise
<1>9. QED
  BY <1>3, <1>4, <1>5, <1>6, <1>7, <1>8 DEF Stages, Steady

LEMMA StageAway ==
    ASSUME AddTypes, NEW p \in Proc, Stages(p), NEW s \in Slug, s # S(p).slug
    PROVE  clone'[s] = clone[s]
<1>0. job[p].at # "idle"
  BY StageAt
<1>1. UNCHANGED clone \/ \E c : Upd(p, c)
  <2>1. CASE SkipAcquire(p) \/ ReuseClone(p) \/ MakeClone(p) \/ Connect(p) \/ Session(p) \/ Checkout(p)
    BY <2>1 DEF SkipAcquire, ReuseClone, MakeClone, Connect, Session, Checkout
  <2>2. CASE HookCheckout(p) \/ Refactor(p) \/ Detect(p) \/ Build(p) \/ EndPreview(p) \/ Locate(p)
    BY <2>2 DEF HookCheckout, Checked, Refactor, Detect, Build, EndPreview, Locate
  <2>3. CASE Target(p) \/ Link(p) \/ Register(p) \/ Relink(p) \/ Excise(p) \/ DropClone(p)
    BY <2>3 DEF Target, Link, Register, Relink, Excise, DropClone
  <2>4. QED
    BY <2>1, <2>2, <2>3 DEF Stages, Steady
<1>2. QED
  BY <1>0, <1>1, UpdGives

LEMMA StageUnmixed ==
    ASSUME AddTypes, BuildsInv, NEW p \in Proc, Stages(p)
    PROVE  Unmixed'
<1> SUFFICES ASSUME NEW s \in Slug, ~Registered(s)'
             PROVE  OwnCommits(clone'[s])
  BY DEF Unmixed
<1>1. ~Registered(s) /\ OwnCommits(clone[s])
  BY StageRegistered DEF BuildsInv, Unmixed, Registered
<1>2. CASE s # S(p).slug
  BY <1>1, <1>2, StageAway
<1>3. CASE s = S(p).slug
  <2>1. ~HookCheckout(p)
    BY <1>1, <1>3 DEF BuildsInv, HookedOnly, HookCheckout, In
  <2>2. QED
    BY <1>1, <1>3, <2>1, StageOwn DEF Clone
<1>4. QED
  BY <1>2, <1>3

LEMMA StagePreview ==
    ASSUME AddTypes, BuildsInv, NEW p \in Proc, Stages(p)
    PROVE  PreviewStands'
<1> USE DEF In
<1>0. Jobs /\ Single(p)
  BY StageSingle DEF AddTypes
<1>1. ASSUME NEW q \in Proc \ {p}, Preview(q)' PROVE job'[q].at \in {"acquire", "refactor", "detect", "build"}
  BY <1>0, <1>1 DEF Single, Preview, S, BuildsInv, PreviewStands
<1>2. ASSUME Preview(p)' PROVE job'[p].at \in {"acquire", "refactor", "detect", "build"}
  <2>1. job'[p] # NoJob
    BY <1>2, NothingFits DEF Preview
  <2>2. Keeps(p)
    BY <2>1, StageJob
  <2>3. Preview(p) /\ job[p].at \in {"acquire", "refactor", "detect", "build"}
    BY <1>2, <2>2 DEF Keeps, Preview, S, BuildsInv, PreviewStands
  <2>4. ~Quit(p) /\ ~Breaks(p)
    BY <1>0, <2>1, RestGives
  <2>5. To(p, "refactor") \/ To(p, "detect") \/ To(p, "build") \/ ToRefactor(p)
    <3>1. CASE SkipAcquire(p) \/ ReuseClone(p) \/ MakeClone(p) \/ Connect(p) \/ Session(p) \/ Checkout(p)
      BY <2>3, <3>1 DEF SkipAcquire, ReuseClone, MakeClone, Connect, Session, Checkout, Preview
    <3>2. CASE HookCheckout(p) \/ Refactor(p) \/ Detect(p) \/ Build(p) \/ EndPreview(p) \/ Locate(p)
      BY <2>3, <2>4, <3>2 DEF HookCheckout, Checked, ToRefactor, Refactor, Detect, Build, EndPreview, Locate
    <3>3. CASE Target(p) \/ Link(p) \/ Register(p) \/ Relink(p) \/ Excise(p) \/ DropClone(p)
      BY <2>3, <3>3 DEF Target, Link, Register, Relink, Excise, DropClone
    <3>4. QED
      BY <3>1, <3>2, <3>3 DEF Stages, Steady
  <2>6. QED
    BY <1>0, <2>5, ToGives, MoreGives
<1>3. QED
  BY <1>1, <1>2 DEF PreviewStands

LEMMA StageHooked ==
    ASSUME AddTypes, BuildsInv, NEW p \in Proc, Stages(p)
    PROVE  HookedOnly'
<1>1. ASSUME NEW q \in Proc, job'[q].kind \in {"rebuild", "reset"} PROVE dropin'[job'[q].spec.slug] # NoDropin
  <2>1. job'[q].kind = job[q].kind /\ job'[q].spec = job[q].spec /\ job[q].at # "idle"
    <3>1. CASE q = p
      BY <1>1, <3>1, StageJob, StageAt, NothingFits DEF Keeps
    <3>2. CASE q # p
      <4>1. job'[q] = job[q]
        BY <3>2, StageSingle DEF AddTypes, Single
      <4>2. QED
        BY <1>1, <4>1, NothingFits DEF AddTypes, Jobs, JobFits
    <3>3. QED
      BY <3>1, <3>2
  <2>2. Registered(S(q).slug) /\ S(q).slug \in Slug
    BY <1>1, <2>1, Asks DEF BuildsInv, HookedOnly, AddTypes
  <2>3. dropin'[S(q).slug] # NoDropin
    BY <2>2, StageRegistered
  <2>4. QED
    BY <2>1, <2>3 DEF S
<1>2. QED
  BY <1>1 DEF HookedOnly, S, Registered

(* One process at a time: what is built is what was asked for.             *)
LEMMA StageStrange ==
    ASSUME AddTypes, BuildsInv, Solo, NEW p \in Proc, Stages(p)
    PROVE  strange' = {}
<1>1. strange = {} /\ Asked(p)
  BY DEF BuildsInv, AskedInv
<1>2. CASE ~Build(p)
  <2>1. UNCHANGED strange
    <3>1. CASE SkipAcquire(p) \/ ReuseClone(p) \/ MakeClone(p) \/ Connect(p) \/ Session(p) \/ Checkout(p)
      BY <3>1 DEF SkipAcquire, ReuseClone, MakeClone, Connect, Session, Checkout, SameStore
    <3>2. CASE HookCheckout(p) \/ Refactor(p) \/ Detect(p) \/ EndPreview(p) \/ Locate(p)
      BY <3>2 DEF HookCheckout, Checked, Refactor, Detect, EndPreview, Locate, SameStore
    <3>3. CASE Target(p) \/ Link(p) \/ Register(p) \/ Relink(p) \/ Excise(p) \/ DropClone(p)
      BY <3>3 DEF Target, Link, Register, Relink, Excise, DropClone, SameStore
    <3>4. QED
      BY <1>2, <3>1, <3>2, <3>3 DEF Stages, Steady
  <2>2. QED
    BY <1>1, <2>1
<1>3. CASE Build(p)
  <2>1. job[p].at = "build" /\ ~Preview(p)
    BY <1>3 DEF Build, In
  <2>2. job[p].kind = "add" /\ ~S(p).local => Clone(p).head[1] = S(p).url
    <3>1. S(p).slug \in Slug
      BY <2>1, Asks DEF AddTypes
    <3>2. SUFFICES ASSUME job[p].kind = "add", ~S(p).local
                   PROVE  Clone(p).head[1] = S(p).url
      OBVIOUS
    <3>3. ~Registered(S(p).slug) /\ Clone(p).origin = S(p).url /\ Clone(p).head # NoCommit
      BY <1>1, <2>1, <3>2 DEF Asked, OnAsked
    <3>4. OwnCommits(Clone(p))
      BY <3>1, <3>3 DEF BuildsInv, Unmixed, Clone
    <3>5. QED
      BY <3>3, <3>4 DEF OwnCommits
  <2>3. QED
    BY <1>1, <1>3, <2>2 DEF Build
<1>4. QED
  BY <1>2, <1>3

LEMMA StageOpen ==
    ASSUME AddTypes, NEW p \in Proc, Stages(p), ~Registered(S(p).slug)
    PROVE  job'[p] = NoJob \/ dropin'[S(p).slug] = NoDropin
<1>1. S(p).slug \in Slug /\ Jobs
  BY StageAt, Asks DEF AddTypes
<1>2. CASE Register(p)
  <2>1. Quit(p) \/ Breaks(p)
    BY <1>2 DEF Register
  <2>2. QED
    BY <1>1, <2>1, RestGives
<1>3. CASE ~Register(p)
  BY <1>1, <1>3, StageRegistered
<1>4. QED
  BY <1>2, <1>3

LEMMA NextKeeps ==
    ASSUME Jobs, NEW p \in Proc, NEW bad, NextName(p, {}, bad)
    PROVE  /\ job'[p].at = "target" /\ Keeps(p)
           /\ job'[p].todo = job[p].todo \ {NameOf(p)} /\ job'[p].got = job[p].got
<1>1. /\ job'[p].at = "target" /\ Keeps(p) /\ job'[p].todo = job[p].todo \ {NameOf(p)}
      /\ job'[p].got = job[p].got \cup {}
  BY NextGives
<1>2. QED
  BY <1>1

LEMMA StageLinks ==
    ASSUME AddTypes, NEW p \in Proc, Stages(p), job[p].kind = "add", LinksSoFar(p)
    PROVE  job'[p] = NoJob \/ LinksSoFar(p)'
<1> USE DEF In
<1>0. Jobs /\ S(p).slug \in Slug /\ DOMAIN bin = Name /\ job[p].todo \in SUBSET Name /\ job[p].got \in SUBSET Name
  BY StageAt, Asks DEF AddTypes, Jobs, JobFits, JobType
<1>1. CASE Pipeline(p)
  <2>1. job[p].got = {}
    <3>1. job[p].at \notin {"target", "link", "wire", "register"}
      <4>1. CASE SkipAcquire(p) \/ ReuseClone(p) \/ MakeClone(p) \/ Connect(p) \/ Session(p) \/ Checkout(p)
        BY <4>1 DEF SkipAcquire, ReuseClone, MakeClone, Connect, Session, Checkout
      <4>2. CASE HookCheckout(p) \/ Refactor(p) \/ Detect(p) \/ Build(p) \/ EndPreview(p) \/ Locate(p)
        BY <4>2 DEF HookCheckout, Checked, Refactor, Detect, Build, EndPreview, Locate
      <4>3. QED
        BY <1>1, <4>1, <4>2 DEF Pipeline
    <3>2. QED
      BY <3>1 DEF LinksSoFar
  <2>2. job'[p] = NoJob \/ job'[p].got = job[p].got
    <3>1. CASE SkipAcquire(p) \/ ReuseClone(p) \/ MakeClone(p) \/ Connect(p) \/ Session(p)
      <4>1. To(p, "refactor") \/ To(p, "checkout") \/ To(p, "session") \/ Quit(p) \/ Breaks(p)
        BY <3>1 DEF SkipAcquire, ReuseClone, MakeClone, Connect, Session
      <4>2. QED
        BY <1>0, <4>1, ToGives, RestGives
    <3>2. CASE HookCheckout(p) \/ Refactor(p) \/ Detect(p) \/ Build(p) \/ EndPreview(p)
      <4>1. (\E label : To(p, label)) \/ Quit(p) \/ Breaks(p) \/ ToRefactor(p)
        <5>1. CASE Build(p)
          BY <5>1 DEF Build
        <5>2. CASE ~Build(p)
          BY <3>2, <5>2 DEF HookCheckout, Checked, ToRefactor, Refactor, Detect, EndPreview
        <5>3. QED
          BY <5>1, <5>2
      <4>2. QED
        BY <1>0, <4>1, ToGives, MoreGives, RestGives
    <3>3. CASE Checkout(p)
      <4>1. (\E sha : job' = [job EXCEPT ![p].at = "refactor", ![p].sha = sha]) \/ Breaks(p)
        BY <3>3 DEF Checkout
      <4>2. QED
        BY <1>0, <4>1, MoreGives, RestGives
    <3>4. CASE Locate(p)
      <4>1. (\E todo : job' = [job EXCEPT ![p].at = "target", ![p].todo = todo]) \/ Quit(p)
        BY <3>4 DEF Locate
      <4>2. QED
        BY <1>0, <4>1, MoreGives, RestGives
    <3>5. QED
      BY <1>1, <3>1, <3>2, <3>3, <3>4 DEF Pipeline
  <2>3. QED
    BY <2>1, <2>2 DEF LinksSoFar
<1> DEFINE n == NameOf(p)
<1>2. CASE Target(p)
  <2>1. n \in job[p].todo
    BY <1>2 DEF Target, NameOf
  <2>2. bin' = bin \/ bin' = [bin EXCEPT ![n] = Free]
    BY <1>2 DEF Target, Owner
  <2>3. NextName(p, {}, TRUE) \/ NextName(p, {}, FALSE) \/ ToLink(p)
    BY <1>2 DEF Target
  <2>4. /\ job'[p].at \in {"target", "link"} /\ Keeps(p) /\ job'[p].got = job[p].got
        /\ job'[p].todo \subseteq job[p].todo
    <3>1. CASE ToLink(p)
      BY <1>0, <3>1, MoreGives
    <3>2. ASSUME NEW bad, NextName(p, {}, bad)
          PROVE  /\ job'[p].at \in {"target", "link"} /\ Keeps(p) /\ job'[p].got = job[p].got
                 /\ job'[p].todo \subseteq job[p].todo
      BY <1>0, <3>2, NextKeeps
    <3>3. QED
      BY <2>3, <3>1, <3>2
  <2> HIDE DEF n
  <2>5. \A k \in job[p].got : k # n /\ bin'[k] = bin[k]
    BY <1>0, <2>1, <2>2 DEF LinksSoFar
  <2>6. QED
    BY <2>4, <2>5 DEF LinksSoFar, Keeps, S
<1>3. CASE Link(p)
  <2>1. n \in job[p].todo
    BY <1>3 DEF Link, NameOf, AddTypes, Jobs, JobFits
  <2>2. \/ bin' = [bin EXCEPT ![n] = S(p).slug] /\ NextName(p, {n}, FALSE)
        \/ bin' = [bin EXCEPT ![n] = Free] /\ NextName(p, {}, TRUE)
    BY <1>3 DEF Link, Owner
  <2>3. /\ job'[p].at = "target" /\ Keeps(p) /\ job'[p].todo = job[p].todo \ {n}
        /\ job'[p].got = job[p].got \/ (job'[p].got = job[p].got \cup {n} /\ bin' = [bin EXCEPT ![n] = S(p).slug])
    <3>1. ASSUME NEW bad, NextName(p, {}, bad)
          PROVE  job'[p].at = "target" /\ Keeps(p) /\ job'[p].todo = job[p].todo \ {n} /\ job'[p].got = job[p].got
      BY <1>0, <3>1, NextKeeps
    <3>2. CASE bin' = [bin EXCEPT ![n] = S(p).slug] /\ NextName(p, {n}, FALSE)
      <4>1. NextName(p, {n}, FALSE)
        BY <3>2
      <4>2. job'[p].at = "target" /\ Keeps(p) /\ job'[p].todo = job[p].todo \ {n} /\ job'[p].got = job[p].got \cup {n}
        BY <1>0, <4>1, NextGives
      <4>3. QED
        BY <3>2, <4>2
    <3>3. QED
      BY <2>2, <3>1, <3>2
  <2> HIDE DEF n
  <2>4. \A k \in job[p].got : k # n /\ bin'[k] = bin[k]
    BY <1>0, <2>1, <2>2 DEF LinksSoFar
  <2>5. bin' = [bin EXCEPT ![n] = S(p).slug] => bin'[n] = S(p).slug
    BY <1>0, <2>1
  <2>6. QED
    BY <2>3, <2>4, <2>5 DEF LinksSoFar, Keeps, S
<1>4. CASE Register(p)
  <2>1. Quit(p) \/ Breaks(p)
    BY <1>4 DEF Register
  <2>2. QED
    BY <1>0, <2>1, RestGives
<1>5. CASE Relink(p) \/ Excise(p) \/ DropClone(p)
  BY <1>5 DEF Relink, Excise, DropClone
<1>6. QED
  BY <1>1, <1>2, <1>3, <1>4, <1>5 DEF Stages, Steady, Pipeline

(* An add that is no preview works on a clone of the repository asked for. *)
LEMMA StageOnAsked ==
    ASSUME AddTypes, NEW p \in Proc, Stages(p), job[p].kind = "add", ~Preview(p), OnAsked(p)
    PROVE  job'[p] = NoJob \/ OnAsked(p)'
<1> USE DEF In
<1> DEFINE s == S(p).slug
           here == clone'[s]
           Goal == /\ job'[p].at \in {"checkout", "refactor", "detect", "build"} /\ ~S(p).local
                        => here.git # "none" /\ here.origin = S(p).url
                   /\ job'[p].at = "build" => here.head # NoCommit
<1>0. /\ Jobs /\ job[p].at # "idle" /\ s \in Slug /\ CloneFits(Clone(p)) /\ Clone(p) = clone[s]
  BY StageAt, Asks, ChecksOut DEF AddTypes, Clone
<1>1. ASSUME Keeps(p), Goal PROVE OnAsked(p)'
  BY <1>1 DEF Keeps, OnAsked, Cloned, Clone, S
<1>2. SUFFICES ASSUME job'[p] # NoJob, Keeps(p)
               PROVE  Goal
  BY <1>1, StageJob
<1>3. ~Quit(p) /\ ~Breaks(p)
  BY <1>0, <1>2, RestGives
<1>4. \A label : To(p, label) => job'[p].at = label
  BY <1>0, ToGives
<1>5. \A c : Upd(p, c) => here = c
  BY <1>0, UpdGives
<1>6. CASE ReuseClone(p)
  <2>1. UNCHANGED clone /\ OriginAsAsked(p) /\ To(p, "checkout") /\ Cloned(p)
    BY <1>3, <1>6 DEF ReuseClone
  <2>2. QED
    BY <1>0, <1>4, <2>1 DEF OriginAsAsked, Cloned
<1>7. CASE MakeClone(p)
  <2>1. Upd(p, FreshClone(p)) /\ To(p, "checkout")
    BY <1>3, <1>7 DEF MakeClone
  <2>2. QED
    BY <1>4, <1>5, <2>1, FreshGives
<1>8. CASE Checkout(p)
  <2> DEFINE c == IF S(p).ref /\ Cloned(p) THEN OnBranch(Clone(p)) ELSE Clone(p)
  <2>1. Upd(p, c) /\ job' = [job EXCEPT ![p].at = "refactor", ![p].sha = c.head]
    BY <1>3, <1>8 DEF Checkout
  <2>2. c.git = Clone(p).git /\ c.origin = Clone(p).origin
    BY <1>0, CloneGives
  <2> HIDE DEF c
  <2>3. job'[p].at = "refactor"
    BY <1>0, <2>1, MoreGives
  <2>4. ~S(p).local => Clone(p).git # "none" /\ Clone(p).origin = S(p).url
    BY <1>8 DEF Checkout, OnAsked, Cloned
  <2>5. QED
    BY <1>5, <2>1, <2>2, <2>3, <2>4
<1>9. CASE Refactor(p)
  <2>1. To(p, "detect") /\ (UNCHANGED clone \/ Upd(p, [Clone(p) EXCEPT !.patched = TRUE]))
    BY <1>3, <1>9 DEF Refactor
  <2>2. here.git = Clone(p).git /\ here.origin = Clone(p).origin
    BY <1>0, <1>5, <2>1, CloneGives
  <2>3. ~S(p).local => Clone(p).git # "none" /\ Clone(p).origin = S(p).url
    BY <1>9 DEF Refactor, OnAsked, Cloned
  <2>4. QED
    BY <1>4, <2>1, <2>2, <2>3
<1>10. CASE Detect(p)
  <2>1. UNCHANGED clone /\ To(p, "build") /\ Clone(p).head # NoCommit
    BY <1>3, <1>10 DEF Detect, Detects
  <2>2. ~S(p).local => Clone(p).git # "none" /\ Clone(p).origin = S(p).url
    BY <1>10 DEF Detect, OnAsked, Cloned
  <2>3. QED
    BY <1>0, <1>4, <2>1, <2>2
<1>11. CASE Build(p)
  <2>1. To(p, "locate")
    BY <1>3, <1>11 DEF Build
  <2>2. QED
    BY <1>4, <2>1
<1>12. CASE Locate(p) \/ Target(p) \/ Link(p)
  <2>1. job'[p].at \in {"target", "link"}
    <3>1. \/ ToLink(p) \/ (\E got, bad : NextName(p, got, bad))
          \/ \E todo : job' = [job EXCEPT ![p].at = "target", ![p].todo = todo]
      BY <1>3, <1>12 DEF Locate, Target, Link
    <3>2. QED
      BY <1>0, <3>1, MoreGives, NextGives
  <2>2. QED
    BY <2>1
<1>13. CASE SkipAcquire(p) \/ Connect(p) \/ Session(p) \/ HookCheckout(p) \/ EndPreview(p)
  BY <1>13 DEF SkipAcquire, Connect, Session, HookCheckout, Checked, EndPreview
<1>14. CASE Register(p) \/ Relink(p) \/ Excise(p) \/ DropClone(p)
  BY <1>3, <1>14 DEF Register, Relink, Excise, DropClone
<1>15. QED
  BY <1>6, <1>7, <1>8, <1>9, <1>10, <1>11, <1>12, <1>13, <1>14 DEF Stages, Steady

(* A rebuild of a recorded commit has that commit under it.                *)
LEMMA StageOnRecorded ==
    ASSUME AddTypes, NEW p \in Proc, Stages(p), job[p].kind = "rebuild", ~S(p).ref, S(p).sha # NoCommit,
           p \notin adrift', p \notin adrift => OnRecorded(p)
    PROVE  job'[p] = NoJob \/ OnRecorded(p)'
<1> USE DEF In
<1> DEFINE s == S(p).slug
           here == clone'[s]
           Goal == /\ job'[p].at \in {"refactor", "detect", "build"} => here.head = S(p).sha
                   /\ job'[p].at = "relink" => here.built = S(p).sha
<1>0. /\ Jobs /\ job[p].at # "idle" /\ s \in Slug /\ CloneFits(Clone(p)) /\ Clone(p) = clone[s]
  BY StageAt, Asks, ChecksOut DEF AddTypes, Clone
<1>1. ASSUME Keeps(p), Goal PROVE OnRecorded(p)'
  BY <1>1 DEF Keeps, OnRecorded, Clone, S
<1>2. SUFFICES ASSUME job'[p] # NoJob, Keeps(p)
               PROVE  Goal
  BY <1>1, StageJob
<1>3. ~Quit(p) /\ ~Breaks(p)
  BY <1>0, <1>2, RestGives
<1>4. \A label : To(p, label) => job'[p].at = label
  BY <1>0, ToGives
<1>5. \A c : Upd(p, c) => here = c
  BY <1>0, UpdGives
<1>6. job[p].at # "acquire" => OnRecorded(p)
  BY DEF Stages, HookCheckout
<1>7. CASE HookCheckout(p)
  <2>1. PICK c \in Reached(p), ok \in BOOLEAN : Checked(p, c, ok)
    BY <1>3, <1>7 DEF HookCheckout
  <2>2. ok /\ S(p).sha[1] = c.origin
    BY <2>1 DEF Checked, Fetches
  <2>3. Upd(p, Pinned(p, c)) /\ ToRefactor(p)
    BY <2>1, <2>2 DEF Checked, ToRefactor
  <2>4. Pinned(p, c) = [c EXCEPT !.head = S(p).sha] /\ CloneFits(c)
    BY <1>0, PinnedFits DEF Pinned
  <2>5. Pinned(p, c).head = S(p).sha
    BY <2>4, CloneGives
  <2>6. here.head = S(p).sha /\ job'[p].at = "refactor"
    BY <1>0, <1>5, <2>3, <2>5, MoreGives
  <2>7. QED
    BY <2>6
<1>8. CASE Refactor(p)
  <2>1. To(p, "detect") /\ (UNCHANGED clone \/ Upd(p, [Clone(p) EXCEPT !.patched = TRUE]))
    BY <1>3, <1>8 DEF Refactor
  <2>2. here.head = Clone(p).head
    <3> DEFINE c == Clone(p)
    <3>1. CloneFits(c) /\ (here = c \/ here = [c EXCEPT !.patched = TRUE])
      <4>1. CASE UNCHANGED clone
        BY <1>0, <4>1
      <4>2. CASE Upd(p, [Clone(p) EXCEPT !.patched = TRUE])
        BY <1>0, <1>5, <4>2
      <4>3. QED
        BY <2>1, <4>1, <4>2
    <3> HIDE DEF c, here
    <3>2. [c EXCEPT !.patched = TRUE].head = c.head
      BY <3>1, CloneGives
    <3>3. here.head = c.head
      BY <3>1, <3>2
    <3>4. QED
      BY <3>3 DEF c
  <2>3. Clone(p).head = S(p).sha
    BY <1>6, <1>8 DEF Refactor, OnRecorded
  <2>4. QED
    BY <1>4, <2>1, <2>2, <2>3
<1>9. CASE Detect(p)
  <2>1. UNCHANGED clone /\ To(p, "build")
    BY <1>3, <1>9 DEF Detect
  <2>2. Clone(p).head = S(p).sha
    BY <1>6, <1>9 DEF Detect, OnRecorded
  <2>3. here = Clone(p) /\ job'[p].at = "build"
    BY <1>0, <1>4, <2>1
  <2> HIDE DEF here
  <2>4. QED
    BY <2>2, <2>3
<1>10. CASE Build(p)
  <2>1. To(p, "relink") /\ Upd(p, [Clone(p) EXCEPT !.built = Clone(p).head])
    BY <1>3, <1>10 DEF Build
  <2>2. here.built = Clone(p).head
    <3> DEFINE c == Clone(p)
    <3>1. CloneFits(c) /\ here = [c EXCEPT !.built = c.head]
      BY <1>0, <1>5, <2>1
    <3> HIDE DEF c, here
    <3>2. here.built = c.head
      BY <3>1, CloneGives
    <3>3. QED
      BY <3>2 DEF c
  <2>3. Clone(p).head = S(p).sha
    BY <1>6, <1>10 DEF Build, OnRecorded
  <2>4. QED
    BY <1>4, <2>1, <2>2, <2>3
<1>11. CASE Relink(p)
  <2>1. UNCHANGED clone /\ \E todo : job' = [job EXCEPT ![p].todo = todo]
    BY <1>3, <1>11 DEF Relink
  <2>2. job'[p].at = job[p].at
    BY <1>0, <2>1, MoreGives
  <2>3. QED
    BY <1>0, <1>6, <1>11, <2>1, <2>2 DEF Relink, OnRecorded
<1>12. CASE SkipAcquire(p) \/ ReuseClone(p) \/ MakeClone(p) \/ Connect(p) \/ Session(p) \/ Checkout(p)
  BY <1>12 DEF SkipAcquire, ReuseClone, MakeClone, Connect, Session, Checkout
<1>13. CASE EndPreview(p) \/ Locate(p) \/ Target(p) \/ Link(p) \/ Register(p) \/ Excise(p) \/ DropClone(p)
  BY <1>13 DEF EndPreview, Locate, Target, Link, Register, Excise, DropClone
<1>14. QED
  BY <1>7, <1>8, <1>9, <1>10, <1>11, <1>12, <1>13 DEF Stages, Steady

LEMMA NothingAsked ==
    ASSUME NEW q, job'[q] = NoJob
    PROVE  Asked(q)' /\ ~Preview(q)' /\ job'[q].kind = "none"
<1>1. job'[q].kind = "none"
  BY NothingFits
<1>2. QED
  BY <1>1 DEF Asked, Recorded, Preview

LEMMA AloneAsks ==
    ASSUME Bystanders, Solo, NEW p \in scene.crew, scene' = scene, Single(p), strange' = {}, Asked(p)'
    PROVE  AskedInv'
<1>1. ASSUME NEW q \in Proc PROVE Asked(q)'
  <2>1. CASE q \in scene.crew
    <3>1. q = p
      BY <2>1 DEF Solo
    <3>2. QED
      BY <3>1
  <2>2. CASE q \notin scene.crew
    <3>1. job'[q] = NoJob
      BY <2>2 DEF Bystanders, Single
    <3>2. QED
      BY <3>1, NothingAsked
  <2>3. QED
    BY <2>1, <2>2
<1>2. QED
  BY <1>1 DEF AskedInv

LEMMA BystandersStand ==
    ASSUME Bystanders, NEW p \in scene.crew, scene' = scene, Single(p)
    PROVE  Bystanders'
  BY DEF Bystanders, Single

LEMMA StageAsked ==
    ASSUME AddTypes, BuildsInv, NEW p \in Proc, p \in scene.crew, scene' = scene, Stages(p)
    PROVE  AskedInv'
<1>1. Single(p) /\ Bystanders
  BY StageSingle DEF AddTypes, BuildsInv
<1>2. CASE ~Solo
  BY <1>2 DEF AskedInv, Solo
<1>3. CASE Solo
  <2>1. Asked(p) /\ strange' = {}
    BY <1>3, StageStrange DEF BuildsInv, AskedInv
  <2>2. CASE job'[p] = NoJob
    BY <1>1, <1>3, <2>1, <2>2, NothingAsked, AloneAsks
  <2>3. CASE job'[p] # NoJob
    <3>1. Keeps(p)
      BY <2>3, StageJob
    <3>2. job[p].kind = "add" => dropin'[S(p).slug] = NoDropin /\ LinksSoFar(p)'
      BY <2>1, <2>3, StageOpen, StageLinks DEF Asked
    <3>3. job[p].kind = "add" /\ ~Preview(p) => OnAsked(p)'
      BY <2>1, <2>3, StageOnAsked DEF Asked
    <3>4. Recorded(p)' => OnRecorded(p)'
      <4>1. SUFFICES ASSUME Recorded(p)' PROVE OnRecorded(p)'
        OBVIOUS
      <4>2. job[p].kind = "rebuild" /\ ~S(p).ref /\ S(p).sha # NoCommit /\ p \notin adrift'
        BY <3>1, <4>1 DEF Recorded, Keeps, S
      <4>3. p \notin adrift => OnRecorded(p)
        BY <2>1, <4>2 DEF Asked, Recorded
      <4>4. QED
        BY <2>3, <4>2, <4>3, StageOnRecorded
    <3>5. Asked(p)'
      BY <3>1, <3>2, <3>3, <3>4 DEF Asked, Keeps, Preview, S, Registered
    <3>6. QED
      BY <1>1, <1>3, <2>1, <3>5, AloneAsks
  <2>4. QED
    BY <2>2, <2>3
<1>4. QED
  BY <1>2, <1>3

LEMMA StageBuilds ==
    ASSUME AddTypes, BuildsInv, NEW p \in Proc, p \in scene.crew, StageStep(p)
    PROVE  BuildsInv'
<1>1. Stages(p) /\ scene' = scene
  BY DEF StageStep
<1>2. Single(p)
  BY <1>1, StageSingle DEF AddTypes
<1>3. Unmixed' /\ PreviewStands' /\ HookedOnly' /\ AskedInv'
  BY <1>1, StageUnmixed, StagePreview, StageHooked, StageAsked
<1>4. Bystanders'
  BY <1>1, <1>2, BystandersStand DEF BuildsInv
<1>5. QED
  BY <1>3, <1>4 DEF BuildsInv

(* A step that changes but what one process is at.                         *)
LEMMA QuietBuilds ==
    ASSUME BuildsInv, NEW p \in Proc, p \in scene.crew, Single(p),
           UNCHANGED <<scene, clone, bin, dropin, strange>>,
           job'[p].kind \in {"rebuild", "reset"} => Registered(job'[p].spec.slug),
           Preview(p)' => job'[p].at \in {"acquire", "refactor", "detect", "build"},
           Solo => Asked(p)'
    PROVE  BuildsInv'
<1>1. Unmixed'
  BY DEF BuildsInv, Unmixed, Registered
<1>2. HookedOnly'
  <2>1. ASSUME NEW q \in Proc, job'[q].kind \in {"rebuild", "reset"} PROVE dropin[job'[q].spec.slug] # NoDropin
    <3>1. CASE q = p
      BY <2>1, <3>1 DEF Registered
    <3>2. CASE q # p
      <4>1. job'[q] = job[q]
        BY <3>2 DEF Single
      <4>2. QED
        BY <2>1, <4>1 DEF BuildsInv, HookedOnly, S, Registered
    <3>3. QED
      BY <3>1, <3>2
  <2>2. QED
    BY <2>1 DEF HookedOnly, S, Registered
<1>3. Bystanders'
  BY BystandersStand DEF BuildsInv
<1>4. PreviewStands'
  <2>1. ASSUME NEW q \in Proc, q # p, Preview(q)' PROVE job'[q].at \in {"acquire", "refactor", "detect", "build"}
    <3>1. job'[q] = job[q]
      BY <2>1 DEF Single
    <3>2. QED
      BY <2>1, <3>1 DEF BuildsInv, PreviewStands, Preview, S
  <2>2. QED
    BY <2>1 DEF PreviewStands
<1>5. AskedInv'
  <2>1. CASE Solo
    BY <2>1, AloneAsks DEF BuildsInv, AskedInv
  <2>2. CASE ~Solo
    BY <2>2 DEF AskedInv, Solo
  <2>3. QED
    BY <2>1, <2>2
<1>6. QED
  BY <1>1, <1>2, <1>3, <1>4, <1>5 DEF BuildsInv

LEMMA BeginsGives ==
    ASSUME Jobs, NEW p \in Proc, NEW kind, NEW spec, NEW label, NEW todo, Begins(p, kind, spec, label, todo)
    PROVE  /\ job'[p].at = label /\ job'[p].kind = kind /\ job'[p].spec = spec
           /\ job'[p].todo = todo /\ job'[p].got = {}
  BY DEF Jobs, Begins, NoJob

LEMMA StartBuilds ==
    ASSUME HostTypes, AddTypes, BuildsInv, NEW p \in Proc, p \in scene.crew, StartStep(p)
    PROVE  BuildsInv'
<1>1. Starts(p) /\ UNCHANGED <<scene, clone, bin, dropin, strange>>
  BY DEF StartStep, Starts, SameStore
<1>2. Jobs /\ Single(p)
  BY <1>1, StartingFits DEF HostTypes, AddTypes
<1>3. PICK kind \in scene.calls :
          \/ \E spec \in scene.specs : /\ kind \in {"add", "connect"}
                                       /\ kind = "add" => ~Registered(spec.slug)
                                       /\ Begins(p, kind, spec, "acquire", {})
          \/ \E s \in Slug : /\ Registered(s)
                             /\ \/ kind = "rebuild" /\ Begins(p, kind, dropin[s], "acquire", dropin[s].bins)
                                \/ kind = "reset" /\ Begins(p, kind, dropin[s], "excise", dropin[s].targets)
  BY <1>1 DEF Starts
<1>4. /\ job'[p].kind = kind /\ job'[p].got = {} /\ job'[p].at \in {"acquire", "excise"}
      /\ job'[p].at = "excise" => kind = "reset"
      /\ kind = "add" => ~Registered(job'[p].spec.slug)
      /\ kind \in {"rebuild", "reset"} => Registered(job'[p].spec.slug)
  <2>1. CASE \E spec \in scene.specs : /\ kind \in {"add", "connect"}
                                       /\ kind = "add" => ~Registered(spec.slug)
                                       /\ Begins(p, kind, spec, "acquire", {})
    BY <1>2, <2>1, BeginsGives
  <2>2. ASSUME NEW s \in Slug, Registered(s),
               \/ kind = "rebuild" /\ Begins(p, kind, dropin[s], "acquire", dropin[s].bins)
               \/ kind = "reset" /\ Begins(p, kind, dropin[s], "excise", dropin[s].targets)
        PROVE  /\ job'[p].kind = kind /\ job'[p].got = {} /\ job'[p].at \in {"acquire", "excise"}
               /\ job'[p].at = "excise" => kind = "reset"
               /\ kind = "add" => ~Registered(job'[p].spec.slug)
               /\ kind \in {"rebuild", "reset"} => Registered(job'[p].spec.slug)
    <3>1. dropin[s].slug = s
      BY <2>2 DEF AddTypes, Dropins
    <3>2. job'[p].kind = kind /\ job'[p].got = {} /\ job'[p].spec = dropin[s]
      BY <1>2, <2>2, BeginsGives
    <3>3. (kind = "rebuild" /\ job'[p].at = "acquire") \/ (kind = "reset" /\ job'[p].at = "excise")
      BY <1>2, <2>2, BeginsGives
    <3>4. QED
      BY <2>2, <3>1, <3>2, <3>3
  <2>3. QED
    BY <1>3, <2>1, <2>2
<1>5. Asked(p)'
  BY <1>1, <1>4 DEF Asked, LinksSoFar, OnAsked, OnRecorded, Registered, S
<1>6. Preview(p)' => job'[p].at = "acquire"
  BY <1>4 DEF Preview
<1>7. QED
  BY <1>1, <1>2, <1>4, <1>5, <1>6, QuietBuilds

LEMMA WireBuilds ==
    ASSUME AddTypes, BuildsInv, NEW p \in Proc, p \in scene.crew, WireStep(p)
    PROVE  BuildsInv'
<1>1. UNCHANGED <<scene, clone, bin, dropin, strange>>
  BY DEF WireStep, Wire, Wired
<1>2. Jobs /\ job[p] \in JobType
  BY DEF AddTypes, Jobs, JobFits
<1>3. Single(p)
  BY <1>2 DEF WireStep, Wire, Wired, Single, Jobs
<1>4. CASE job'[p] = NoJob
  BY <1>1, <1>3, <1>4, NothingAsked, QuietBuilds
<1>5. CASE job'[p] # NoJob
  <2>1. /\ Keeps(p) /\ job'[p].todo = job[p].todo /\ job'[p].got = job[p].got
        /\ job'[p].at \in {"wire", "register"} /\ job[p].at \in {"target", "relink", "unwire", "wire"}
    <3>1. CASE Wire(p)
      BY <1>2, <3>1 DEF Wire, Jobs, JobType, Keeps
    <3>2. CASE Wired(p)
      <4>1. job' = [job EXCEPT ![p] = Resumed(p)] /\ job[p].at = "wire"
        BY <1>2, <1>5, <3>2 DEF Wired, Jobs
      <4>2. /\ Resumed(p).kind = job[p].kind /\ Resumed(p).spec = job[p].spec /\ Resumed(p).at = "register"
            /\ Resumed(p).todo = job[p].todo /\ Resumed(p).got = job[p].got
        BY <1>2 DEF Resumed, JobType
      <4>3. QED
        BY <1>2, <4>1, <4>2 DEF Keeps, Jobs
    <3>3. QED
      BY <3>1, <3>2 DEF WireStep
  <2>2. ~Preview(p)'
    BY <2>1 DEF Keeps, Preview, S, BuildsInv, PreviewStands
  <2>3. job'[p].kind \in {"rebuild", "reset"} => Registered(job'[p].spec.slug)
    BY <2>1 DEF Keeps, S, BuildsInv, HookedOnly
  <2>4. Solo => Asked(p)'
    <3>1. SUFFICES ASSUME Solo PROVE Asked(p)'
      OBVIOUS
    <3>2. Asked(p)
      BY <3>1 DEF BuildsInv, AskedInv
    <3>3. job[p].kind = "add" => LinksSoFar(p)'
      BY <1>1, <2>1, <3>2 DEF Asked, LinksSoFar, Keeps, S
    <3>4. OnAsked(p)' /\ OnRecorded(p)'
      BY <2>1 DEF OnAsked, OnRecorded
    <3>5. QED
      BY <1>1, <2>1, <3>2, <3>3, <3>4 DEF Asked, Keeps, S, Registered
  <2>5. QED
    BY <1>1, <1>3, <2>2, <2>3, <2>4, QuietBuilds
<1>6. QED
  BY <1>4, <1>5

LEMMA KillBuilds ==
    ASSUME AddTypes, BuildsInv, NEW p \in Proc, p \in scene.crew, KillStep(p)
    PROVE  BuildsInv'
<1>1. UNCHANGED <<scene, clone, bin, dropin, strange>> /\ job' = [job EXCEPT ![p] = NoJob]
  BY DEF KillStep, Killed
<1>2. Single(p) /\ job'[p] = NoJob
  BY <1>1 DEF AddTypes, Jobs, Single
<1>3. QED
  BY <1>1, <1>2, NothingAsked, QuietBuilds

(* What neither a clone, a drop-in nor a job sees.                         *)
LEMMA ElseBuilds ==
    ASSUME BuildsInv, UNCHANGED <<scene, clone, dropin, job, strange, adrift>>,
           \A n \in Name : bin[n] \in Slug => bin'[n] = bin[n], AddTypes
    PROVE  BuildsInv'
<1>1. Unmixed' /\ HookedOnly' /\ Bystanders' /\ PreviewStands'
  BY DEF BuildsInv, Unmixed, HookedOnly, Bystanders, PreviewStands, Registered, S, Preview
<1>2. ASSUME NEW p \in Proc, Asked(p) PROVE Asked(p)'
  <2>1. job[p].kind = "add" => S(p).slug \in Slug /\ job[p].got \subseteq Name
    BY Asks, NothingFits DEF AddTypes, Jobs, JobFits, JobType
  <2>2. job[p].kind = "add" => LinksSoFar(p)'
    BY <1>2, <2>1 DEF Asked, LinksSoFar, S
  <2>3. (job[p].kind = "add" /\ ~Preview(p) => OnAsked(p)') /\ (Preview(p)' <=> Preview(p))
    BY <1>2 DEF Asked, OnAsked, Preview, S, Clone, Cloned
  <2>4. Recorded(p)' => OnRecorded(p)'
    BY <1>2 DEF Asked, Recorded, OnRecorded, S, Clone
  <2>5. QED
    BY <1>2, <2>2, <2>3, <2>4 DEF Asked, S, Registered
<1>3. AskedInv'
  BY <1>2 DEF BuildsInv, AskedInv, Solo
<1>4. QED
  BY <1>1, <1>3 DEF BuildsInv

LEMMA OutsideBuilds == ASSUME AddTypes, BuildsInv, Outside PROVE BuildsInv'
<1>1. UNCHANGED <<scene, clone, dropin, job, strange, adrift>>
  BY DEF Outside, UserWrites, addVars, vars, UserCommand, Commits
<1>2. bin' = bin \/ \E n : bin[n] = Free /\ bin' = [bin EXCEPT ![n] = Foreign]
  BY DEF Outside, addVars, UserCommand, Commits
<1>3. \A n \in Name : bin[n] \in Slug => bin'[n] = bin[n]
  BY <1>2, SlugAssumption DEF AddTypes
<1>4. QED
  BY <1>1, <1>3, ElseBuilds

LEMMA WiringBuilds == ASSUME AddTypes, BuildsInv, NEW p \in Proc, WiringStep(p) PROVE BuildsInv'
<1>1. UNCHANGED addVars /\ scene' = scene
  BY DEF WiringStep, EditStep, CallStep, EndStep
<1>2. QED
  BY <1>1, ElseBuilds DEF addVars

LEMMA InitBuilds == HostInit => BuildsInv
<1> SUFFICES ASSUME HostInit PROVE BuildsInv
  OBVIOUS
<1>1. clone = [s \in Slug |-> NoClone] /\ job = [p \in Proc |-> NoJob] /\ strange = {}
  BY DEF HostInit, AddInit
<1>2. OwnCommits(NoClone)
  BY DEF OwnCommits, NoClone
<1>3. QED
  BY <1>1, <1>2, NothingFits DEF BuildsInv, Unmixed, HookedOnly, Bystanders, PreviewStands, AskedInv, Asked, Recorded, Preview, S

LEMMA StepBuilds == HostTypes /\ AddTypes /\ BuildsInv /\ [AddNext]_allVars => BuildsInv'
<1> SUFFICES ASSUME HostTypes, AddTypes, BuildsInv, [AddNext]_allVars
             PROVE  BuildsInv'
  OBVIOUS
<1>1. CASE UNCHANGED allVars
  BY <1>1, ElseBuilds DEF allVars, vars, addVars
<1>2. ASSUME NEW p \in scene.crew,
             StageStep(p) \/ StartStep(p) \/ WireStep(p) \/ WiringStep(p) \/ KillStep(p)
      PROVE  BuildsInv'
  <2>1. p \in Proc
    BY SceneFits DEF HostTypes
  <2>2. QED
    BY <1>2, <2>1, StageBuilds, StartBuilds, WireBuilds, WiringBuilds, KillBuilds
<1>3. QED
  BY <1>1, <1>2, OutsideBuilds DEF AddNext

(* What is built is of the repository asked for, and a rebuild is of the   *)
(* commit recorded, for any repositories, names and calls of one process.  *)
THEOREM BuildsAreAsked == AddSpec => []BuildsAsAsked
<1> DEFINE Inv == HostTypes /\ AddTypes /\ BuildsInv
<1>1. HostInit => Inv
  BY InitTypes, InitBuilds
<1>2. Inv /\ [AddNext]_allVars => Inv'
  BY StepTypes, StepBuilds
<1>3. Inv => BuildsAsAsked
  BY BuildsImplies
<1>4. QED
  BY <1>1, <1>2, <1>3, PTL DEF AddSpec
-----------------------------------------------------------------------------
(* The texts one envctl at a time makes of the shell's start-up file: what *)
(* ends a block stands right behind its beginning and its body, however    *)
(* many were torn, and no block begins twice but one appended blindly.     *)
Once(text, set) ==
    \A i, j \in 1 .. Len(text) : text[i][1] = "begin" /\ text[i][2] \notin set /\ text[i] = text[j] => i = j
Paired(text) ==
    \A j \in 1 .. Len(text) : text[j][1] = "end" =>
        j - 2 \in 1 .. Len(text) /\ text[j - 2] = Begin(text[j][2]) /\ text[j - 1][1] = "body"
Orderly(text, set) == Once(text, set) /\ Paired(text)

(* Who is at a block has looked: it is not there to be put in, unless he   *)
(* could not see, or it is the only one of its name to be taken out.       *)
OnBlock(p) == me[p].at \in {"save", "edit", "fill"} /\ PieceOf(p) \in Blocks
Prepared(p) ==
    OnBlock(p) => /\ me[p].mode = "apply" => ~HasBlock(file["rc"], Marker(p)) \/ Marker(p) \in blind
                  /\ me[p].mode = "revert" => Orderly(me[p].text, blind) /\ Excisable(me[p].text, Marker(p))
BlocksInv ==
    /\ \A p \in Proc \ scene.crew : me[p] = Idle
    /\ Solo => Orderly(file["rc"], blind) /\ \A p \in Proc : Prepared(p)

LEMMA Kinds ==
    \A m : /\ Begin(m)[1] = "begin" /\ Body(m)[1] = "body" /\ End(m)[1] = "end"
           /\ Begin(m)[2] = m /\ End(m)[2] = m
           /\ Mine[1] = "mine" /\ Gone[1] = "gone"
  BY DEF Begin, Body, End, Mine, Gone

LEMMA LittleOrderly == \A set : Orderly(<<>>, set) /\ Orderly(<<Mine>>, set) /\ Orderly(<<Gone>>, set)
  BY DEF Orderly, Once, Paired, Mine, Gone

LEMMA StaysOrderly ==
    ASSUME NEW text, NEW set, Orderly(text, set), NEW more, set \subseteq more
    PROVE  Orderly(text, more)
  BY DEF Orderly, Once

(* A block, or a torn one, behind a text that has none of its name, or of  *)
(* a name that is passed over.                                             *)
LEMMA LongerOrderly ==
    ASSUME NEW set, NEW text \in Seq(Line), Orderly(text, set),
           NEW m, ~HasBlock(text, m) \/ m \in set, NEW c, NEW n \in 0 .. 3,
           NEW longer \in Seq(Line), Len(longer) = Len(text) + n,
           \A i \in 1 .. Len(text) : longer[i] = text[i],
           n >= 1 => longer[Len(text) + 1] = Begin(m),
           n >= 2 => longer[Len(text) + 2] = Body(c),
           n >= 3 => longer[Len(text) + 3] = End(m)
    PROVE  Orderly(longer, set)
<1> DEFINE L == Len(text)
<1>0. L \in Nat
  OBVIOUS
<1>1. m \notin set => \A i \in 1 .. L : text[i] # Begin(m)
  BY DEF HasBlock, Contains
<1>2. \A i \in 1 .. Len(longer) : i \in 1 .. L \/ (i = L + 1 /\ n >= 1) \/ (i = L + 2 /\ n >= 2) \/ (i = L + 3 /\ n >= 3)
  BY <1>0
<1>3. \A i \in 1 .. Len(longer) : longer[i][1] = "begin" => i \in 1 .. L \/ (i = L + 1 /\ n >= 1)
  <2>1. "body" # "begin" /\ "end" # "begin"
    OBVIOUS
  <2>2. QED
    BY <1>2, <2>1, Kinds
<1>4. Once(longer, set)
  <2> SUFFICES ASSUME NEW i \in 1 .. Len(longer), NEW j \in 1 .. Len(longer), longer[i][1] = "begin",
                      longer[i][2] \notin set, longer[i] = longer[j]
               PROVE  i = j
    BY DEF Once
  <2>1. longer[j][1] = "begin"
    OBVIOUS
  <2>2. CASE i \in 1 .. L /\ j \in 1 .. L
    BY <2>2 DEF Orderly, Once
  <2>3. CASE i = L + 1 /\ n >= 1 /\ j \in 1 .. L
    BY <1>1, <2>3, Kinds
  <2>4. CASE j = L + 1 /\ n >= 1 /\ i \in 1 .. L
    BY <1>1, <2>4, Kinds
  <2>5. QED
    BY <1>3, <2>1, <2>2, <2>3, <2>4
<1>5. Paired(longer)
  <2> SUFFICES ASSUME NEW j \in 1 .. Len(longer), longer[j][1] = "end"
               PROVE  j - 2 \in 1 .. Len(longer) /\ longer[j - 2] = Begin(longer[j][2]) /\ longer[j - 1][1] = "body"
    BY DEF Paired
  <2>1. CASE j \in 1 .. L
    <3>1. j - 2 \in 1 .. L /\ text[j - 2] = Begin(text[j][2]) /\ text[j - 1][1] = "body"
      BY <2>1 DEF Orderly, Paired
    <3>2. j - 1 \in 1 .. L /\ j - 2 \in 1 .. Len(longer)
      BY <1>0, <2>1, <3>1
    <3>3. QED
      BY <2>1, <3>1, <3>2
  <2>2. CASE j = L + 3 /\ n >= 3
    <3>1. j - 2 = L + 1 /\ j - 1 = L + 2 /\ j - 2 \in 1 .. Len(longer) /\ n >= 1 /\ n >= 2
      BY <1>0, <2>2
    <3>2. longer[j] = End(m) /\ longer[j - 2] = Begin(m) /\ longer[j - 1] = Body(c)
      BY <2>2, <3>1
    <3>3. QED
      BY <3>1, <3>2, Kinds
  <2>3. j # L + 1 \/ ~(n >= 1)
    <3>1. "begin" # "end"
      OBVIOUS
    <3>2. QED
      BY <3>1, Kinds
  <2>4. j # L + 2 \/ ~(n >= 2)
    <3>1. "body" # "end"
      OBVIOUS
    <3>2. QED
      BY <3>1, Kinds
  <2>5. QED
    BY <1>2, <2>1, <2>2, <2>3, <2>4
<1>6. QED
  BY <1>4, <1>5 DEF Orderly

LEMMA Joined ==
    ASSUME NEW front \in Seq(Line), NEW back \in Seq(Line)
    PROVE  /\ front \o back \in Seq(Line) /\ Len(front \o back) = Len(front) + Len(back)
           /\ \A i \in 1 .. Len(front) : (front \o back)[i] = front[i]
           /\ \A i \in 1 .. Len(back) : (front \o back)[Len(front) + i] = back[i]
<1>1. front \o back \in Seq(Line) /\ Len(front \o back) = Len(front) + Len(back)
  OBVIOUS
<1>2. \A i \in 1 .. Len(front) : (front \o back)[i] = front[i]
  OBVIOUS
<1>3. ASSUME NEW i \in 1 .. Len(back) PROVE (front \o back)[Len(front) + i] = back[i]
  <2>1. Len(front) \in Nat /\ Len(back) \in Nat
    OBVIOUS
  <2>2. Len(front) + i \in 1 .. Len(front) + Len(back) /\ (Len(front) + i) - Len(front) = i /\ ~(Len(front) + i <= Len(front))
    BY <2>1
  <2>3. QED
    BY <2>2
<1>4. QED
  BY <1>1, <1>2, <1>3

LEMMA BlockOrderly ==
    ASSUME NEW set, NEW text \in Seq(Line), Orderly(text, set), NEW m \in Component \cup {"PATH"},
           ~HasBlock(text, m) \/ m \in set, NEW c \in Component
    PROVE  /\ Orderly(text \o Block(m, c), set)
           /\ \A n \in 0 .. 2 : Orderly(text \o SubSeq(Block(m, c), 1, n), set)
<1>1. Begin(m) \in Line /\ Body(c) \in Line /\ End(m) \in Line
  BY LinesFit
<1>2. /\ Block(m, c) \in Seq(Line) /\ Len(Block(m, c)) = 3
      /\ Block(m, c)[1] = Begin(m) /\ Block(m, c)[2] = Body(c) /\ Block(m, c)[3] = End(m)
  BY <1>1 DEF Block
<1>3. Orderly(text \o Block(m, c), set)
  <2> DEFINE longer == text \o Block(m, c)
  <2>1. /\ longer \in Seq(Line) /\ Len(longer) = Len(text) + 3
        /\ \A i \in 1 .. Len(text) : longer[i] = text[i]
        /\ longer[Len(text) + 1] = Begin(m) /\ longer[Len(text) + 2] = Body(c) /\ longer[Len(text) + 3] = End(m)
    <3> DEFINE s == Block(m, c)
    <3>1. s \in Seq(Line) /\ Len(s) = 3 /\ s[1] = Begin(m) /\ s[2] = Body(c) /\ s[3] = End(m)
      BY <1>2
    <3> HIDE DEF s
    <3>2. /\ text \o s \in Seq(Line) /\ Len(text \o s) = Len(text) + Len(s)
          /\ \A i \in 1 .. Len(text) : (text \o s)[i] = text[i]
          /\ \A i \in 1 .. Len(s) : (text \o s)[Len(text) + i] = s[i]
      <4>1. s \in Seq(Line)
        BY <3>1
      <4>2. QED
        BY ONLY text \in Seq(Line), <4>1, Joined
    <3>3. QED
      BY <3>1, <3>2 DEF s
  <2> HIDE DEF longer
  <2>2. Orderly(longer, set)
    BY <2>1, LongerOrderly
  <2>3. QED
    BY <2>2 DEF longer
<1>4. ASSUME NEW n \in 0 .. 2 PROVE Orderly(text \o SubSeq(Block(m, c), 1, n), set)
  <2> DEFINE torn == SubSeq(Block(m, c), 1, n)
             longer == text \o torn
  <2>1. /\ torn \in Seq(Line) /\ Len(torn) = n
        /\ n >= 1 => torn[1] = Begin(m)
        /\ n >= 2 => torn[2] = Body(c)
    <3>1. n \in Nat /\ n <= 3
      OBVIOUS
    <3>2. torn \in Seq(Line)
      BY <1>2, <3>1, StartsFit
    <3>3. QED
      BY <1>2, <3>1, <3>2
  <2> HIDE DEF torn
  <2>2. /\ longer \in Seq(Line) /\ Len(longer) = Len(text) + n
        /\ \A i \in 1 .. Len(text) : longer[i] = text[i]
        /\ n >= 1 => longer[Len(text) + 1] = Begin(m)
        /\ n >= 2 => longer[Len(text) + 2] = Body(c)
    BY <2>1
  <2> HIDE DEF longer
  <2>3. n \in 0 .. 3 /\ ~(n >= 3)
    OBVIOUS
  <2>4. Orderly(longer, set)
    BY <2>2, <2>3, LongerOrderly
  <2>5. QED
    BY <2>4 DEF longer, torn
<1>5. QED
  BY <1>3, <1>4

(* The user's line behind a text.                                          *)
LEMMA TypedOrderly ==
    ASSUME NEW set, NEW text \in Seq(Line), Orderly(text, set)
    PROVE  Orderly(Append(text, Mine), set)
<1> DEFINE longer == Append(text, Mine)
<1>1. /\ Len(text) \in Nat /\ Len(longer) = Len(text) + 1
      /\ \A i \in 1 .. Len(text) : longer[i] = text[i]
      /\ longer[Len(text) + 1][1] = "mine"
  BY Kinds
<1> HIDE DEF longer
<1>2. \A i \in 1 .. Len(longer) : longer[i][1] \in {"begin", "end"} => i \in 1 .. Len(text)
  BY <1>1
<1>3. Once(longer, set)
  BY <1>1, <1>2 DEF Orderly, Once
<1>4. Paired(longer)
  <2> SUFFICES ASSUME NEW j \in 1 .. Len(longer), longer[j][1] = "end"
               PROVE  j - 2 \in 1 .. Len(longer) /\ longer[j - 2] = Begin(longer[j][2]) /\ longer[j - 1][1] = "body"
    BY DEF Paired
  <2>1. j \in 1 .. Len(text) /\ longer[j] = text[j]
    BY <1>1, <1>2
  <2>2. j - 2 \in 1 .. Len(text) /\ text[j - 2] = Begin(text[j][2]) /\ text[j - 1][1] = "body"
    BY <2>1 DEF Orderly, Paired
  <2>3. j - 1 \in 1 .. Len(text) /\ j - 2 \in 1 .. Len(longer)
    BY <1>1, <2>1, <2>2
  <2>4. QED
    BY <1>1, <2>1, <2>2, <2>3
<1>5. QED
  BY <1>3, <1>4 DEF Orderly, longer

(* A block that is taken out of an orderly text is three lines of envctl's,*)
(* unless its name is passed over.                                         *)
LEMMA OneBlock ==
    ASSUME NEW set, NEW text \in Seq(Line), Orderly(text, set), NEW m, m \notin set,
           HasBlock(text, m), Excisable(text, m)
    PROVE  LET b == BeginsAt(text, m) IN
           /\ b \in 1 .. Len(text) - 2 /\ EndsAt(text, m) = b + 2
           /\ text[b] = Begin(m) /\ text[b + 1][1] = "body" /\ text[b + 2] = End(m)
<1> DEFINE b == BeginsAt(text, m)
           e == EndsAt(text, m)
<1>1. /\ b \in 1 .. Len(text) /\ text[b] = Begin(m)
      /\ e # 0 /\ e \in b .. Len(text) /\ text[e] = End(m)
  BY BlockPlaces DEF Excisable
<1> HIDE DEF b, e
<1>2. text[e][1] = "end" /\ text[e][2] = m
  BY <1>1, Kinds
<1>3. e \in 1 .. Len(text)
  BY <1>1
<1>4. e - 2 \in 1 .. Len(text) /\ text[e - 2] = Begin(m) /\ text[e - 1][1] = "body"
  BY <1>2, <1>3 DEF Orderly, Paired
<1>5. text[e - 2][1] = "begin" /\ text[e - 2][2] \notin set
  BY <1>4, Kinds
<1>6. e - 2 = b
  BY <1>1, <1>4, <1>5 DEF Orderly, Once
<1>7. e = b + 2 /\ e - 1 = b + 1
  BY <1>1, <1>6
<1>8. QED
  BY <1>1, <1>4, <1>7 DEF b, e

(* What is left of a text: its lines before the block, then those behind.  *)
LEMMA ShorterLines ==
    ASSUME NEW text \in Seq(Line), NEW m, HasBlock(text, m), Excisable(text, m)
    PROVE  LET b == BeginsAt(text, m)
               e == EndsAt(text, m)
               x == Excised(text, m)
           IN  /\ Len(x) = Len(text) - (e + 1 - b)
               /\ \A k \in 1 .. Len(x) : x[k] = text[IF k < b THEN k ELSE k + (e + 1 - b)]
<1> DEFINE b == BeginsAt(text, m)
           e == EndsAt(text, m)
<1>1. b \in 1 .. Len(text) /\ e \in b .. Len(text) /\ e # 0
  BY BlockPlaces DEF Excisable
<1>4. Excised(text, m) = SubSeq(text, 1, b - 1) \o SubSeq(text, e + 1, Len(text))
  BY <1>1 DEF Excised, After
<1> HIDE DEF b, e
<1> DEFINE front == SubSeq(text, 1, b - 1)
           back == SubSeq(text, e + 1, Len(text))
<1>5. front \in Seq(Line) /\ Len(front) = b - 1 /\ \A k \in 1 .. b - 1 : front[k] = text[k]
  BY <1>1
<1>6. back \in Seq(Line) /\ Len(back) = Len(text) - e /\ \A k \in 1 .. Len(back) : back[k] = text[k + e]
  <2>1. e + 1 \in 1 .. Len(text) + 1 /\ Len(text) \in Nat /\ e \in Nat
    BY <1>1
  <2>2. back \in Seq(Line) /\ Len(back) = Len(text) - (e + 1) + 1
    BY <2>1
  <2>3. ASSUME NEW k \in 1 .. Len(back) PROVE back[k] = text[k + e]
    <3>1. back[k] = text[(e + 1) + k - 1]
      BY <2>1, <2>2
    <3>2. (e + 1) + k - 1 = k + e
      BY <2>1, <2>2
    <3>3. QED
      BY <3>1, <3>2
  <2>4. Len(text) - (e + 1) + 1 = Len(text) - e
    BY <2>1
  <2>5. QED
    BY <2>2, <2>3, <2>4
<1> HIDE DEF front, back
<1>7. /\ Len(front \o back) = Len(front) + Len(back)
      /\ \A k \in 1 .. Len(front) : (front \o back)[k] = front[k]
      /\ \A k \in 1 .. Len(back) : (front \o back)[Len(front) + k] = back[k]
  BY <1>5, <1>6, Joined
<1>8. Len(front \o back) = Len(text) - (e + 1 - b) /\ Len(text) \in Nat
  BY <1>1, <1>5, <1>6, <1>7
<1>9. ASSUME NEW k \in 1 .. Len(front \o back)
      PROVE  (front \o back)[k] = text[IF k < b THEN k ELSE k + (e + 1 - b)]
  <2>1. CASE k < b
    <3>1. k \in 1 .. b - 1 /\ k \in 1 .. Len(front)
      BY <1>1, <1>5, <2>1
    <3>2. QED
      BY <1>5, <1>7, <2>1, <3>1
  <2>2. CASE ~(k < b)
    <3> DEFINE l == k - (b - 1)
    <3>1. l \in 1 .. Len(back) /\ Len(front) + l = k /\ l + e = k + (e + 1 - b)
      BY <1>1, <1>5, <1>6, <1>8, <2>2
    <3> HIDE DEF l
    <3>2. (front \o back)[k] = back[l] /\ back[l] = text[l + e]
      BY <1>6, <1>7, <3>1
    <3>3. QED
      BY <2>2, <3>1, <3>2
  <2>3. QED
    BY <2>1, <2>2
<1>10. QED
  BY <1>4, <1>8, <1>9 DEF b, e, front, back

LEMMA ShorterOrderly ==
    ASSUME NEW set, NEW text \in Seq(Line), Orderly(text, set), NEW m, HasBlock(text, m), Excisable(text, m)
    PROVE  /\ Orderly(Excised(text, m), set)
           /\ m \notin set /\ Mine \in Range(text) => Mine \in Range(Excised(text, m))
<1> DEFINE b == BeginsAt(text, m)
           e == EndsAt(text, m)
           x == Excised(text, m)
           d == e + 1 - b
           Was(k) == IF k < b THEN k ELSE k + d
<1>1. /\ b \in 1 .. Len(text) /\ e \in b .. Len(text) /\ Len(text) \in Nat
      /\ text[b] = Begin(m) /\ text[e] = End(m)
  BY BlockPlaces DEF Excisable
<1>2. Len(x) = Len(text) - d /\ \A k \in 1 .. Len(x) : x[k] = text[Was(k)]
  BY ShorterLines
<1>3. x \in Seq(Line)
  BY ExcisedFits
<1>0. m \notin set => /\ b \in 1 .. Len(text) - 2 /\ e = b + 2
                      /\ text[b + 1][1] = "body" /\ text[b + 2] = End(m)
  BY OneBlock
<1> HIDE DEF b, e, x
<1>4. \A k \in 1 .. Len(x) : Was(k) \in 1 .. Len(text) /\ Was(k) \notin b .. e
  BY <1>1, <1>2
<1>5. \A k, l \in 1 .. Len(x) : Was(k) = Was(l) => k = l
  BY <1>1, <1>2
<1>6. Once(x, set)
  <2> SUFFICES ASSUME NEW i \in 1 .. Len(x), NEW j \in 1 .. Len(x), x[i][1] = "begin", x[i][2] \notin set, x[i] = x[j]
               PROVE  i = j
    BY DEF Once
  <2> HIDE DEF Was
  <2>1. text[Was(i)][1] = "begin" /\ text[Was(i)][2] \notin set /\ text[Was(i)] = text[Was(j)]
    BY <1>2
  <2>2. Was(i) = Was(j)
    BY <1>4, <2>1 DEF Orderly, Once
  <2>3. QED
    BY <1>5, <2>2
<1>7. Paired(x)
  <2> SUFFICES ASSUME NEW j \in 1 .. Len(x), x[j][1] = "end"
               PROVE  j - 2 \in 1 .. Len(x) /\ x[j - 2] = Begin(x[j][2]) /\ x[j - 1][1] = "body"
    BY DEF Paired
  <2> DEFINE w == Was(j)
  <2>1. w \in 1 .. Len(text) /\ w \notin b .. e /\ text[w] = x[j]
    BY <1>2, <1>4
  <2>2. w = IF j < b THEN j ELSE j + d
    OBVIOUS
  <2> HIDE DEF w
  <2>3. w - 2 \in 1 .. Len(text) /\ text[w - 2] = Begin(text[w][2]) /\ text[w - 1][1] = "body"
    BY <2>1 DEF Orderly, Paired
  <2>4. w - 2 # e
    <3>1. text[e][1] = "end" /\ text[w - 2][1] = "begin" /\ "end" # "begin"
      BY <1>1, <2>3, Kinds
    <3>2. QED
      BY <3>1
  <2>5. w - 1 # e
    <3>1. text[e][1] = "end" /\ "end" # "body"
      BY <1>1, Kinds
    <3>2. QED
      BY <2>3, <3>1
  <2>6. w < b \/ w - 2 > e
    BY <1>1, <2>1, <2>3, <2>4, <2>5
  <2>7. j - 2 \in 1 .. Len(x) /\ j - 1 \in 1 .. Len(x) /\ Was(j - 2) = w - 2 /\ Was(j - 1) = w - 1
    <3>1. CASE w < b
      BY <1>1, <1>2, <2>1, <2>2, <2>3, <3>1
    <3>2. CASE w - 2 > e
      BY <1>1, <1>2, <2>1, <2>2, <2>3, <3>2
    <3>3. QED
      BY <2>6, <3>1, <3>2
  <2>8. x[j - 2] = text[w - 2] /\ x[j - 1] = text[w - 1]
    <3> HIDE DEF Was
    <3>1. QED
      BY <1>2, <2>7
  <2>9. QED
    BY <2>1, <2>3, <2>7, <2>8
<1>8. ASSUME m \notin set, Mine \in Range(text) PROVE Mine \in Range(x)
  <2>1. PICK k \in 1 .. Len(text) : text[k] = Mine
    BY <1>8 DEF Range
  <2>2. k # b /\ k # b + 1 /\ k # b + 2
    <3>1. "mine" # "begin" /\ "mine" # "body" /\ "mine" # "end"
      OBVIOUS
    <3>2. QED
      BY <1>0, <1>1, <1>8, <2>1, <3>1, Kinds
  <2>3. d = 3
    BY <1>0, <1>1, <1>8
  <2> DEFINE l == IF k < b THEN k ELSE k - 3
  <2>4. l \in 1 .. Len(x) /\ Was(l) = k
    <3>1. b \in Nat /\ k \in Nat /\ 1 <= b /\ b <= Len(text) - 2 /\ 1 <= k /\ k <= Len(text)
      BY <1>0, <1>1, <1>8
    <3>2. Len(x) = Len(text) - 3 /\ Len(text) \in Nat
      BY <1>1, <1>2, <2>3
    <3> HIDE DEF d
    <3>3. CASE k < b
      BY <2>3, <3>1, <3>2, <3>3
    <3>4. CASE k > b + 2
      BY <2>3, <3>1, <3>2, <3>4
    <3>5. QED
      BY <2>2, <3>1, <3>3, <3>4
  <2> HIDE DEF l, Was
  <2>5. x[l] = Mine
    BY <1>2, <2>1, <2>4
  <2>6. QED
    BY <1>3, <2>4, <2>5 DEF Range
<1>9. QED
  BY <1>6, <1>7, <1>8 DEF Orderly, x

(* Where a step of a piece leaves its process.                             *)
LEMMA EndsRest ==
    ASSUME HostTypes, NEW p \in Proc, Ends(p) \/ Dirties(p)
    PROVE  me'[p].at \in {"idle", "check"} /\ ~OnBlock(p)'
<1>1. DOMAIN me = Proc /\ me[p] \in MeType
  BY DEF HostTypes, Crew
<1>2. me'[p].at \in {"idle", "check"}
  BY <1>1, IdleShape DEF Ends, Leave, Mute, Fails, Dies, Dirties, MeType
<1>3. QED
  BY <1>2 DEF OnBlock

LEMMA GoMoves ==
    ASSUME HostTypes, NEW p \in Proc
    PROVE  /\ \A label : Go(p, label) => /\ me'[p].at = label /\ me'[p].mode = me[p].mode
                                         /\ me'[p].todo = me[p].todo /\ me'[p].comp = me[p].comp
                                         /\ me'[p].text = me[p].text
           /\ \A text : me' = [me EXCEPT ![p].at = "save", ![p].text = text]
                => /\ me'[p].at = "save" /\ me'[p].mode = me[p].mode
                   /\ me'[p].todo = me[p].todo /\ me'[p].comp = me[p].comp
                   /\ me'[p].text = text
<1>1. DOMAIN me = Proc /\ me[p] \in MeType
  BY DEF HostTypes, Crew
<1>2. QED
  BY <1>1 DEF Go, MeType

LEMMA GropesMoves ==
    ASSUME HostTypes, NEW p \in Proc, Gropes(p)
    PROVE  /\ me'[p].at = "save" /\ me'[p].mode = me[p].mode /\ me'[p].todo = me[p].todo
           /\ me'[p].comp = me[p].comp /\ me'[p].bad = me[p].bad
           /\ me'[p].mute = me[p].mute \cup {PieceOf(p)}
<1>1. DOMAIN me = Proc /\ me[p] \in MeType
  BY DEF HostTypes, Crew
<1>2. QED
  BY <1>1 DEF Gropes, MeType

(* No edit but that of a block is of the start-up file.                    *)
LEMMA OffRc ==
    ASSUME HostTypes, NEW p \in Proc, Edits(p), ~BlockEdit(p)
    PROVE  file'["rc"] = file["rc"]
<1> USE DEF At, Put, Same, Tears, hostVars
<1>0. DOMAIN file = File /\ "rc" \in File
  BY DEF HostTypes, Files, File
<1>1. CASE Save(p) \/ CheckBlock(p) \/ ReadBlock(p) \/ CheckFile(p) \/ CheckRemoval(p) \/ ReadLines(p) \/ ChmodKey(p) \/ Restart(p)
  BY <1>1 DEF Save, CheckBlock, ReadBlock, CheckFile, CheckRemoval, ReadLines, ChmodKey, Restart
<1>2. CASE WriteFile(p) \/ RemoveFile(p)
  <2>1. FileOf(p) # "rc"
    BY <1>2 DEF WriteFile, RemoveFile, FileOf, Owned, Removed
  <2>2. file' = file \/ \E text : file' = [file EXCEPT ![FileOf(p)] = text]
    BY <1>2 DEF WriteFile, RemoveFile
  <2>3. QED
    BY <1>0, <2>1, <2>2
<1>3. CASE AppendLine(p) \/ WriteLines(p) \/ CheckLine(p)
  <2>1. file' = file \/ \E text : file' = [file EXCEPT !["nix"] = text]
    BY <1>3 DEF AppendLine, WriteLines, CheckLine
  <2>2. QED
    BY <1>0, <2>1
<1>4. CASE Systemctl(p) \/ FetchKey(p) \/ GenerateCdi(p) \/ InstallAlternative(p) \/ RemoveAlternative(p)
  <2>1. file' = file \/ \E f \in {"service", "key", "cdi", "alt"} : \E text : file' = [file EXCEPT ![f] = text]
    BY <1>4 DEF Systemctl, FetchKey, GenerateCdi, InstallAlternative, RemoveAlternative
  <2>2. QED
    BY <1>0, <2>1
<1>5. CASE MoveConfig(p) \/ PurgeData(p)
  <2>1. file' = file \/ \E f \in {"config", "data"} : file' = [file EXCEPT ![f] = Absent]
    BY <1>5 DEF MoveConfig, PurgeData, Rename
  <2>2. QED
    BY <1>0, <2>1
<1>6. QED
  BY <1>1, <1>2, <1>3, <1>4, <1>5 DEF Edits, Sighted, BlockEdit

(* The steps that take a process to a block, or on with one.               *)
LEMMA OffBlock ==
    ASSUME HostTypes, NEW p \in Proc, Edits(p), ~CheckBlock(p), ~ReadBlock(p), ~Save(p), ~Truncate(p)
    PROVE  ~OnBlock(p)'
<1> USE DEF At, Put, Same, Tears, hostVars
<1>1. CASE AppendBlock(p) \/ Fill(p) \/ WriteFile(p) \/ RemoveFile(p) \/ AppendLine(p) \/ WriteLines(p)
  <2>1. Ends(p) \/ Dirties(p)
    BY <1>1 DEF AppendBlock, Fill, WriteFile, RemoveFile, AppendLine, WriteLines, Ends, Dirties
  <2>2. QED
    BY <2>1, EndsRest
<1>2. CASE Systemctl(p) \/ GenerateCdi(p) \/ InstallAlternative(p) \/ RemoveAlternative(p) \/ MoveConfig(p) \/ PurgeData(p) \/ Restart(p) \/ ChmodKey(p)
  <2>1. Ends(p)
    BY <1>2 DEF Systemctl, GenerateCdi, InstallAlternative, RemoveAlternative, MoveConfig, PurgeData, Restart, ChmodKey, Ends
  <2>2. QED
    BY <2>1, EndsRest
<1>3. CASE CheckFile(p) \/ CheckRemoval(p) \/ FetchKey(p) \/ CheckLine(p) \/ ReadLines(p)
  <2>1. PieceOf(p) \notin Blocks
    BY <1>3 DEF CheckFile, CheckRemoval, FetchKey, CheckLine, ReadLines, Owned, Removed, Blocks
  <2>2. \/ Ends(p) \/ (\E label : Go(p, label))
        \/ \E text : me' = [me EXCEPT ![p].at = "save", ![p].text = text]
    BY <1>3 DEF CheckFile, CheckRemoval, FetchKey, CheckLine, ReadLines, Ends
  <2>3. Ends(p) \/ me'[p].todo = me[p].todo
    BY <2>2, GoMoves
  <2>4. QED
    BY <2>1, <2>3, EndsRest DEF OnBlock, PieceOf
<1>4. QED
  BY <1>1, <1>2, <1>3 DEF Edits, Sighted

(* What has been appended blindly stays so.                                *)
LEMMA BlindGrows == ASSUME NEW p \in Proc, Edits(p) PROVE blind \subseteq blind' /\ (~CheckBlock(p) => blind' = blind)
  BY DEF Edits, CheckBlock

LEMMA EditOrderly ==
    ASSUME HostTypes, NEW p \in Proc, Edits(p), Orderly(file["rc"], blind), Prepared(p)
    PROVE  Orderly(file'["rc"], blind')
<1>0. /\ file["rc"] \in Seq(Line) /\ DOMAIN file = File /\ "rc" \in File
      /\ me[p] \in MeType /\ Placed(me[p]) /\ Marker(p) = MarkerIn(me[p])
  BY Stands DEF HostTypes, Files, File
<1>1. CASE ~BlockEdit(p)
  <2>1. file'["rc"] = file["rc"]
    BY <1>1, OffRc
  <2>2. QED
    BY <2>1, BlindGrows, StaysOrderly
<1>2. CASE AppendBlock(p)
  <2> DEFINE text == IF Exists("rc") THEN file["rc"] ELSE <<>>
  <2>1. /\ me[p].at = "edit" /\ me[p].mode = "apply" /\ PieceOf(p) \in Blocks
        /\ \/ file' = [file EXCEPT !["rc"] = text \o Block(Marker(p), me[p].comp)]
           \/ \E n \in 0 .. 2 : file' = [file EXCEPT !["rc"] = text \o SubSeq(Block(Marker(p), me[p].comp), 1, n)]
    BY <1>2 DEF AppendBlock, At, Put, Tears
  <2>2. /\ ~HasBlock(file["rc"], Marker(p)) \/ Marker(p) \in blind
        /\ me[p].comp \in Component /\ Marker(p) \in Component \cup {"PATH"}
    BY <1>0, <2>1 DEF Prepared, OnBlock, Placed, MarkerIn
  <2>3. text \in Seq(Line) /\ Orderly(text, blind) /\ (~HasBlock(text, Marker(p)) \/ Marker(p) \in blind)
    <3>1. <<>> \in Seq(Line) /\ ~HasBlock(<<>>, Marker(p))
      BY DEF HasBlock, Contains
    <3>2. QED
      BY <1>0, <2>2, <3>1, LittleOrderly
  <2> HIDE DEF text
  <2>4. /\ Orderly(text \o Block(Marker(p), me[p].comp), blind)
        /\ \A n \in 0 .. 2 : Orderly(text \o SubSeq(Block(Marker(p), me[p].comp), 1, n), blind)
    BY <2>2, <2>3, BlockOrderly
  <2>5. Orderly(file'["rc"], blind)
    BY <1>0, <2>1, <2>4
  <2>6. QED
    BY <2>5, BlindGrows, StaysOrderly
<1>3. CASE Truncate(p)
  <2>1. file' = file \/ file' = [file EXCEPT !["rc"] = <<>>]
    BY <1>3 DEF Truncate, Put, Same, hostVars
  <2>2. Orderly(file'["rc"], blind)
    BY <1>0, <2>1, LittleOrderly
  <2>3. QED
    BY <2>2, BlindGrows, StaysOrderly
<1>4. CASE Fill(p)
  <2>1. /\ me[p].at = "fill" /\ me[p].mode = "revert" /\ PieceOf(p) \in Blocks
        /\ file' = file \/ file' = [file EXCEPT !["rc"] = Excised(me[p].text, Marker(p))]
    BY <1>4 DEF Fill, At, Put, Same, hostVars
  <2>2. me[p].text \in Seq(Line) /\ HasBlock(me[p].text, Marker(p))
    BY <1>0, <2>1 DEF MeType, Placed, PieceOf
  <2>3. Orderly(me[p].text, blind) /\ Excisable(me[p].text, Marker(p))
    BY <2>1 DEF Prepared, OnBlock
  <2>4. Orderly(Excised(me[p].text, Marker(p)), blind)
    BY <2>2, <2>3, ShorterOrderly
  <2>5. Orderly(file'["rc"], blind)
    BY <1>0, <2>1, <2>4
  <2>6. QED
    BY <2>5, BlindGrows, StaysOrderly
<1>5. QED
  BY <1>1, <1>2, <1>3, <1>4 DEF BlockEdit

LEMMA EditPrepared ==
    ASSUME HostTypes, NEW p \in Proc, Edits(p), Orderly(file["rc"], blind), Prepared(p)
    PROVE  Prepared(p)'
<1> USE DEF At, Same, hostVars
<1>0. ~CheckBlock(p) => blind' = blind
  BY BlindGrows
<1>1. CASE CheckBlock(p)
  <2>1. /\ me[p].mode = "apply" /\ file' = file
        /\ \/ Ends(p)
           \/ ~HasBlock(file["rc"], Marker(p)) /\ \E label : Go(p, label)
           \/ /\ Gropes(p)
              /\ ~HasBlock(file["rc"], Marker(p)) \/ Marker(p) \in blind'
    <3>1. ~Exists("rc") => ~HasBlock(file["rc"], Marker(p))
      BY Kinds DEF Exists, Absent, HasBlock, Contains
    <3>2. QED
      BY <1>1, <3>1 DEF CheckBlock, Ends, Gropes
  <2>2. CASE Ends(p)
    BY <2>2, EndsRest DEF Prepared
  <2>3. CASE ~HasBlock(file["rc"], Marker(p)) /\ \E label : Go(p, label)
    <3>1. me'[p].mode = "apply" /\ Marker(p)' = Marker(p)
      BY <2>1, <2>3, GoMoves DEF Marker, PieceOf
    <3>2. QED
      BY <2>1, <2>3, <3>1 DEF Prepared
  <2>4. CASE Gropes(p) /\ (~HasBlock(file["rc"], Marker(p)) \/ Marker(p) \in blind')
    <3>1. me'[p].mode = "apply" /\ Marker(p)' = Marker(p)
      BY <2>1, <2>4, GropesMoves DEF Marker, PieceOf
    <3>2. QED
      BY <2>1, <2>4, <3>1 DEF Prepared
  <2>5. QED
    BY <2>1, <2>2, <2>3, <2>4
<1>2. CASE ReadBlock(p)
  <2>1. /\ me[p].mode = "revert" /\ file' = file
        /\ \/ Ends(p)
           \/ /\ Excisable(file["rc"], Marker(p))
              /\ me' = [me EXCEPT ![p].at = "save", ![p].text = file["rc"]]
    BY <1>2 DEF ReadBlock, Ends
  <2>2. CASE Ends(p)
    BY <2>2, EndsRest DEF Prepared
  <2>3. CASE /\ Excisable(file["rc"], Marker(p))
             /\ me' = [me EXCEPT ![p].at = "save", ![p].text = file["rc"]]
    <3>1. me'[p].mode = "revert" /\ me'[p].text = file["rc"] /\ Marker(p)' = Marker(p)
      <4>1. /\ me'[p].mode = me[p].mode /\ me'[p].todo = me[p].todo
            /\ me'[p].comp = me[p].comp /\ me'[p].text = file["rc"]
        BY <2>3, GoMoves
      <4>2. QED
        BY <2>1, <4>1 DEF Marker, PieceOf
    <3>2. Excisable(me'[p].text, Marker(p)') /\ Orderly(me'[p].text, blind')
      BY <1>0, <1>2, <2>3, <3>1 DEF CheckBlock, ReadBlock
    <3>3. me'[p].mode # "apply"
      BY <3>1
    <3>4. QED
      BY <3>2, <3>3 DEF Prepared
  <2>4. QED
    BY <2>1, <2>2, <2>3
<1>3. CASE Save(p) \/ Truncate(p)
  <2>0. blind' = blind
    BY <1>0, <1>3 DEF CheckBlock, Save, Truncate
  <2>1. /\ me[p].at \in {"save", "edit"}
        /\ Ends(p) \/ \E label : Go(p, label)
        /\ me[p].at = "save" => file' = file
        /\ me[p].at = "edit" => me[p].mode = "revert"
    BY <1>3 DEF Save, Truncate, Ends
  <2>2. CASE Ends(p)
    BY <2>2, EndsRest DEF Prepared
  <2>3. CASE \E label : Go(p, label)
    <3>1. /\ me'[p].mode = me[p].mode /\ me'[p].text = me[p].text
          /\ me'[p].comp = me[p].comp /\ me'[p].todo = me[p].todo
      BY <2>3, GoMoves
    <3>2. OnBlock(p)' => OnBlock(p)
      BY <2>1, <3>1 DEF OnBlock, PieceOf
    <3>3. Marker(p)' = Marker(p)
      BY <3>1 DEF Marker, PieceOf
    <3>4. CASE me[p].at = "save"
      BY <2>1, <2>0, <3>1, <3>2, <3>3, <3>4 DEF Prepared
    <3>5. CASE me[p].at = "edit"
      BY <2>1, <2>0, <3>1, <3>2, <3>3, <3>5 DEF Prepared
    <3>6. QED
      BY <2>1, <3>4, <3>5
  <2>4. QED
    BY <2>1, <2>2, <2>3
<1>4. CASE ~CheckBlock(p) /\ ~ReadBlock(p) /\ ~Save(p) /\ ~Truncate(p)
  BY <1>4, OffBlock DEF Prepared
<1>5. QED
  BY <1>1, <1>2, <1>3, <1>4

(* Whatever one process does, the others of one envctl are at rest.        *)
LEMMA BlocksStep ==
    ASSUME BlocksInv, NEW p \in Proc, p \in scene.crew, scene' = scene, Alone(p),
           Solo => Orderly(file'["rc"], blind') /\ Prepared(p)'
    PROVE  BlocksInv'
<1>1. \A q \in Proc \ scene.crew : me'[q] = Idle
  BY DEF BlocksInv, Alone
<1>2. ASSUME Solo, NEW q \in Proc PROVE Prepared(q)'
  <2>1. CASE q \in scene.crew
    <3>1. q = p
      BY <1>2, <2>1 DEF Solo
    <3>2. QED
      BY <1>2, <3>1
  <2>2. CASE q \notin scene.crew
    <3>1. me'[q].at = "idle"
      BY <1>1, <2>2, IdleShape
    <3>2. QED
      BY <3>1 DEF Prepared, OnBlock
  <2>3. QED
    BY <2>1, <2>2
<1>3. QED
  BY <1>1, <1>2 DEF BlocksInv, Solo

LEMMA BlocksElse ==
    ASSUME BlocksInv, UNCHANGED <<scene, me, blind>>, file'["rc"] = file["rc"]
    PROVE  BlocksInv'
  BY DEF BlocksInv, Prepared, OnBlock, Solo, Marker, PieceOf

(* A process that sets out or comes to rest is at no block.                *)
LEMMA BlocksRest ==
    ASSUME BlocksInv, NEW p \in Proc, p \in scene.crew, UNCHANGED <<scene, file, blind>>, Alone(p),
           me'[p].at \in {"idle", "check"}
    PROVE  BlocksInv'
<1>1. Prepared(p)'
  BY DEF Prepared, OnBlock
<1>2. QED
  BY <1>1, BlocksStep DEF BlocksInv

LEMMA EnterRest ==
    ASSUME HostTypes, NEW p \in Proc, NEW mode, NEW c, NEW pieces, NEW keep, NEW purge,
           Enter(p, mode, c, pieces, keep, purge)
    PROVE  me'[p].at = "check"
<1>1. DOMAIN me = Proc
  BY DEF HostTypes, Crew
<1>2. QED
  BY <1>1 DEF Enter, Idle

LEMMA DiesRest == ASSUME HostTypes, NEW p \in Proc, Dies(p) PROVE me'[p].at = "idle" /\ Alone(p)
<1>1. DOMAIN me = Proc
  BY DEF HostTypes, Crew
<1>2. QED
  BY <1>1, IdleShape DEF Dies, Alone

LEMMA WiringBlocks ==
    ASSUME HostTypes, BlocksInv, NEW p \in Proc, p \in scene.crew, WiringStep(p)
    PROVE  BlocksInv'
<1>1. CASE EditStep(p)
  <2>1. Edits(p) /\ scene' = scene
    BY <1>1 DEF EditStep
  <2>2. Alone(p)
    BY <2>1, EditsCrew
  <2>3. Solo => Orderly(file'["rc"], blind') /\ Prepared(p)'
    BY <2>1, EditOrderly, EditPrepared DEF BlocksInv
  <2>4. QED
    BY <2>1, <2>2, <2>3, BlocksStep
<1>2. CASE CallStep(p)
  <2>1. UNCHANGED <<scene, file, blind>> /\ (Apply(p) \/ Revert(p))
    BY <1>2 DEF CallStep, hostVars, histVars
  <2>2. Alone(p)
    BY <2>1, CallCrew
  <2>3. \E mode, c, pieces, keep, purge : Enter(p, mode, c, pieces, keep, purge)
    BY <2>1 DEF Apply, Revert
  <2>4. me'[p].at = "check"
    BY <2>3, EnterRest
  <2>5. QED
    BY <2>1, <2>2, <2>4, BlocksRest
<1>3. CASE EndStep(p)
  <2>1. Dies(p) /\ UNCHANGED <<scene, file, blind>>
    BY <1>3 DEF EndStep, Return, Crash, Same, hostVars
  <2>2. QED
    BY <2>1, DiesRest, BlocksRest
<1>4. QED
  BY <1>1, <1>2, <1>3 DEF WiringStep

LEMMA WireBlocks ==
    ASSUME HostTypes, AddTypes, BlocksInv, NEW p \in Proc, p \in scene.crew, WireStep(p)
    PROVE  BlocksInv'
<1>1. UNCHANGED <<scene, file, blind>>
  BY DEF WireStep, Wired, Return, hostVars
<1>2. CASE Wire(p)
  <2>1. Alone(p)
    BY <1>2, WireCrew
  <2>2. me'[p].at = "check"
    BY <1>2, EnterRest DEF Wire
  <2>3. QED
    BY <1>1, <2>1, <2>2, BlocksRest
<1>3. CASE Wired(p)
  BY <1>1, <1>3, DiesRest, BlocksRest DEF Wired, Return
<1>4. QED
  BY <1>2, <1>3 DEF WireStep

LEMMA KillBlocks ==
    ASSUME HostTypes, BlocksInv, NEW p \in Proc, p \in scene.crew, KillStep(p)
    PROVE  BlocksInv'
<1>1. Dies(p) /\ UNCHANGED <<scene, file, blind>>
  BY DEF KillStep, Killed, Dies, hostVars, histVars
<1>2. QED
  BY <1>1, DiesRest, BlocksRest

LEMMA UserBlocks == ASSUME HostTypes, BlocksInv, UserWrites PROVE BlocksInv'
<1>0. file["rc"] \in Seq(Line) /\ DOMAIN file = File /\ "rc" \in File
  BY DEF HostTypes, Files, File
<1>1. PICK f \in {"rc", "desktop", "unit", "list", "nix"} :
        /\ ~Rewriting(f)
        /\ file' = [file EXCEPT ![f] = IF f \in {"rc", "nix"} /\ Exists(f) THEN Append(file[f], Mine) ELSE <<Mine>>]
  BY DEF UserWrites, Put
<1>2. UNCHANGED <<scene, me, blind>>
  BY DEF UserWrites
<1>3. CASE f # "rc"
  <2>1. file'["rc"] = file["rc"]
    BY <1>0, <1>1, <1>3
  <2>2. QED
    BY <1>2, <2>1, BlocksElse
<1>4. CASE f = "rc"
  <2>1. \A p \in Proc : ~OnBlock(p)
    BY <1>1, <1>4 DEF Rewriting, OnBlock, FileOf, Blocks
  <2>2. \A p \in Proc : ~OnBlock(p)'
    BY <1>2, <2>1 DEF OnBlock, PieceOf
  <2>3. Orderly(file["rc"], blind) => Orderly(file'["rc"], blind)
    BY <1>0, <1>1, <1>4, TypedOrderly, LittleOrderly
  <2>4. QED
    BY <1>2, <2>2, <2>3 DEF BlocksInv, Prepared, Solo
<1>5. QED
  BY <1>3, <1>4

LEMMA InitBlocks == HostInit => BlocksInv
<1> SUFFICES ASSUME HostInit PROVE BlocksInv
  OBVIOUS
<1>1. /\ me = [p \in Proc |-> Idle]
      /\ file = [f \in File |-> IF f \in wrote THEN <<Mine>> ELSE IF f = "rc" THEN <<>> ELSE Absent]
  BY DEF HostInit, Init
<1>2. file["rc"] = <<Mine>> \/ file["rc"] = <<>>
  BY <1>1 DEF File
<1>3. Orderly(file["rc"], blind)
  BY <1>2, LittleOrderly
<1>4. \A p \in Proc : Prepared(p)
  BY <1>1, IdleShape DEF Prepared, OnBlock
<1>5. QED
  BY <1>1, <1>3, <1>4 DEF BlocksInv

LEMMA StepBlocks == HostTypes /\ AddTypes /\ BlocksInv /\ [AddNext]_allVars => BlocksInv'
<1> SUFFICES ASSUME HostTypes, AddTypes, BlocksInv, [AddNext]_allVars
             PROVE  BlocksInv'
  OBVIOUS
<1>1. CASE UNCHANGED allVars
  BY <1>1, BlocksElse DEF allVars, vars, histVars
<1>2. ASSUME NEW p \in scene.crew,
             StageStep(p) \/ StartStep(p) \/ WireStep(p) \/ WiringStep(p) \/ KillStep(p)
      PROVE  BlocksInv'
  <2>1. p \in Proc
    BY SceneFits DEF HostTypes
  <2>2. CASE StageStep(p) \/ StartStep(p)
    <3>1. UNCHANGED <<scene, me, blind, file>>
      BY <2>2 DEF StageStep, StartStep, hostVars, histVars
    <3>2. QED
      BY <3>1, BlocksElse
  <2>3. QED
    BY <1>2, <2>1, <2>2, WireBlocks, WiringBlocks, KillBlocks
<1>3. CASE Outside
  <2>1. UserWrites \/ UNCHANGED vars
    BY <1>3 DEF Outside
  <2>2. QED
    BY <2>1, UserBlocks, BlocksElse DEF vars
<1>4. QED
  BY <1>1, <1>2, <1>3 DEF AddNext
-----------------------------------------------------------------------------
(* The three mandates, step by step.                                       *)
MandateInv == HostTypes /\ AddTypes /\ BuildsInv /\ BlocksInv

LEMMA ExcisionStep ==
    ASSUME MandateInv, AddNext, NEW p \in Proc, Solo, me[p].at = "fill", me'[p].at # "fill", faults' = faults,
           Marker(p) \notin blind, Mine \in Range(me[p].text)
    PROVE  Mine \in Range(file'["rc"])
<1>0. HostTypes /\ AddTypes /\ me[p] # Idle /\ DOMAIN me = Proc
  BY IdleShape DEF MandateInv, HostTypes, Crew
<1>1. p \in scene.crew
  BY <1>0 DEF MandateInv, BlocksInv
<1>2. ~Outside
  BY DEF Outside, UserWrites, UserCommand, Commits, vars
<1>3. PICK q \in scene.crew : StageStep(q) \/ StartStep(q) \/ WireStep(q) \/ WiringStep(q) \/ KillStep(q)
  BY <1>2 DEF AddNext
<1>4. q = p
  BY <1>1, <1>3 DEF Solo
<1>5. ~StageStep(p) /\ ~StartStep(p)
  BY DEF StageStep, StartStep
<1>6. faults \in Nat
  BY <1>0 DEF HostTypes, Counts
<1>7. ~KillStep(p) /\ ~Crash(p)
  BY <1>6 DEF KillStep, Killed, Crash, Fault
<1>8. ~WireStep(p)
  <2>1. CASE Wire(p)
    BY <1>0, <2>1 DEF Wire, AddTypes, OneThing
  <2>2. CASE Wired(p)
    BY <2>2 DEF Wired, Return
  <2>3. QED
    BY <2>1, <2>2 DEF WireStep
<1>9. Edits(p)
  BY <1>3, <1>4, <1>5, <1>7, <1>8 DEF WiringStep, EditStep, CallStep, EndStep, Return
<1>10. Fill(p)
  <2> USE DEF At
  <2>1. CASE Save(p) \/ CheckBlock(p) \/ AppendBlock(p) \/ ReadBlock(p) \/ Truncate(p)
    BY <2>1 DEF Save, CheckBlock, AppendBlock, ReadBlock, Truncate
  <2>2. CASE CheckFile(p) \/ WriteFile(p) \/ CheckRemoval(p) \/ RemoveFile(p) \/ Systemctl(p) \/ FetchKey(p) \/ ChmodKey(p)
    BY <2>2 DEF CheckFile, WriteFile, CheckRemoval, RemoveFile, Systemctl, FetchKey, ChmodKey
  <2>3. CASE CheckLine(p) \/ AppendLine(p) \/ ReadLines(p) \/ WriteLines(p) \/ Restart(p)
    BY <2>3 DEF CheckLine, AppendLine, ReadLines, WriteLines, Restart
  <2>4. CASE GenerateCdi(p) \/ InstallAlternative(p) \/ RemoveAlternative(p) \/ MoveConfig(p) \/ PurgeData(p)
    BY <2>4 DEF GenerateCdi, InstallAlternative, RemoveAlternative, MoveConfig, PurgeData
  <2>5. QED
    BY <1>9, <2>1, <2>2, <2>3, <2>4 DEF Edits, Sighted
<1>11. /\ me[p].mode = "revert" /\ PieceOf(p) \in Blocks
       /\ file' = [file EXCEPT !["rc"] = Excised(me[p].text, Marker(p))]
  BY <1>6, <1>10 DEF Fill, At, Put, Fault
<1>12. /\ me[p] \in MeType /\ Placed(me[p]) /\ Marker(p) = MarkerIn(me[p])
       /\ DOMAIN file = File /\ "rc" \in File
  BY <1>0, Stands DEF HostTypes, Files, File
<1>13. me[p].text \in Seq(Line) /\ HasBlock(me[p].text, Marker(p))
  BY <1>11, <1>12 DEF MeType, Placed, PieceOf
<1>14. Orderly(me[p].text, blind) /\ Excisable(me[p].text, Marker(p))
  BY <1>11 DEF MandateInv, BlocksInv, Prepared, OnBlock
<1>15. QED
  BY <1>11, <1>12, <1>13, <1>14, ShorterOrderly

LEMMA RegistrationStep ==
    ASSUME MandateInv, AddNext, Solo, NEW s \in Slug, dropin'[s] # dropin[s]
    PROVE  \E n \in dropin'[s].targets : bin[n] = s
<1>0. HostTypes /\ AddTypes
  BY DEF MandateInv
<1>1. PICK p \in scene.crew : StageStep(p)
  BY DEF AddNext, StartStep, Starts, SameStore, WireStep, WiringStep, addVars, KillStep, Outside, UserCommand, Commits
<1>2. p \in Proc /\ Stages(p)
  BY <1>0, <1>1, SceneFits DEF HostTypes, StageStep
<1>3. Register(p)
  <2>1. CASE SkipAcquire(p) \/ ReuseClone(p) \/ MakeClone(p) \/ Connect(p) \/ Session(p) \/ Checkout(p)
    BY <2>1 DEF SkipAcquire, ReuseClone, MakeClone, Connect, Session, Checkout, SameStore
  <2>2. CASE HookCheckout(p) \/ Refactor(p) \/ Detect(p) \/ Build(p) \/ EndPreview(p) \/ Locate(p)
    BY <2>2 DEF HookCheckout, Checked, Refactor, Detect, Build, EndPreview, Locate, SameStore
  <2>3. CASE Target(p) \/ Link(p) \/ Relink(p) \/ Excise(p) \/ DropClone(p)
    BY <2>3 DEF Target, Link, Relink, Excise, DropClone, SameStore
  <2>4. QED
    BY <1>2, <2>1, <2>2, <2>3 DEF Stages, Steady
<1>4. job[p].kind = "add" /\ job[p].at = "register" /\ job[p].got # {}
      /\ dropin' = [dropin EXCEPT ![S(p).slug] = RegisterSpec(p)]
  BY <1>3 DEF Register, In, Registers, WriteDropin
<1>5. s = S(p).slug /\ dropin'[s] = RegisterSpec(p)
  BY <1>0, <1>4 DEF AddTypes, Dropins
<1>6. dropin'[s].targets = job[p].got
  BY <1>0, <1>2, <1>4, <1>5, RegisterFits
<1>7. \A n \in job[p].got : bin[n] = s
  BY <1>2, <1>4, <1>5 DEF MandateInv, BuildsInv, AskedInv, Asked, LinksSoFar
<1>8. QED
  BY <1>4, <1>6, <1>7

LEMMA PreviewStep ==
    ASSUME MandateInv, AddNext, NEW p \in Proc, Preview(p), job'[p] # job[p]
    PROVE  UNCHANGED <<clone, bin, dropin, file>>
<1>0. HostTypes /\ AddTypes /\ Jobs
  BY DEF MandateInv, AddTypes
<1>1. job[p].kind = "add" /\ job[p].at \in {"acquire", "refactor", "detect", "build"}
  BY DEF MandateInv, BuildsInv, PreviewStands, Preview
<1>2. PICK q \in scene.crew : StageStep(q) \/ StartStep(q) \/ WireStep(q) \/ KillStep(q)
  BY DEF AddNext, WiringStep, addVars, Outside, UserCommand, Commits
<1>3. q \in Proc
  BY <1>0, SceneFits DEF HostTypes
<1>4. CASE StageStep(q)
  <2>1. Stages(q) /\ file' = file
    BY <1>4 DEF StageStep, hostVars
  <2>2. q = p
    BY <1>0, <1>3, <2>1, StageSingle DEF Single
  <2>3. CASE SkipAcquire(p) \/ ReuseClone(p) \/ MakeClone(p) \/ Connect(p) \/ Session(p) \/ Checkout(p)
    BY <1>1, <2>1, <2>3 DEF SkipAcquire, ReuseClone, MakeClone, Connect, Session, Checkout, In, SameStore
  <2>4. CASE HookCheckout(p) \/ Refactor(p) \/ Detect(p) \/ Build(p) \/ EndPreview(p) \/ Locate(p)
    BY <1>1, <2>1, <2>4 DEF HookCheckout, Checked, Refactor, SkipsRefactor, Detect, Build, EndPreview, Locate, In, SameStore
  <2>5. CASE Target(p) \/ Link(p) \/ Register(p) \/ Relink(p) \/ Excise(p) \/ DropClone(p)
    BY <1>1, <2>5 DEF Target, Link, Register, Relink, Excise, DropClone, In
  <2>6. QED
    BY <2>1, <2>2, <2>3, <2>4, <2>5 DEF Stages, Steady
<1>5. CASE StartStep(q) \/ KillStep(q)
  BY <1>5 DEF StartStep, Starts, SameStore, KillStep, hostVars
<1>6. CASE WireStep(q)
  <2>1. job[q].at \in {"target", "relink", "unwire", "wire"} /\ \A r \in Proc \ {q} : job'[r] = job[r]
    BY <1>0, <1>6 DEF WireStep, Wire, Wired, Jobs
  <2>2. QED
    BY <1>1, <1>3, <2>1
<1>7. QED
  BY <1>2, <1>4, <1>5, <1>6

(* No step goes beyond its mandate: an excision of a block that was never  *)
(* appended blindly leaves the user's lines, a registration has its link,  *)
(* a preview changes nothing - for any crew, scenes, slugs, names, bounds. *)
THEOREM StepsKeepMandate == AddSpec => NoStepOversteps
<1>1. HostInit => MandateInv
  BY InitTypes, InitBuilds, InitBlocks DEF MandateInv
<1>2. MandateInv /\ [AddNext]_allVars => MandateInv'
  BY StepTypes, StepBuilds, StepBlocks DEF MandateInv
<1>3. MandateInv /\ [AddNext]_allVars =>
        [\A p \in Proc : /\ Solo /\ me[p].at = "fill" /\ me'[p].at # "fill" /\ faults' = faults
                         /\ Marker(p) \notin blind
            => (Mine \in Range(me[p].text) => Mine \in Range(file'["rc"]))]_vars
  BY ExcisionStep DEF allVars
<1>4. MandateInv /\ [AddNext]_allVars =>
        [Solo => \A s \in Slug : dropin'[s] # dropin[s] => \E n \in dropin'[s].targets : bin[n] = s]_allVars
  BY RegistrationStep
<1>5. MandateInv /\ [AddNext]_allVars =>
        [\A p \in Proc : Preview(p) /\ job'[p] # job[p] => UNCHANGED <<clone, bin, dropin, file>>]_allVars
  BY PreviewStep
<1>6. QED
  BY <1>1, <1>2, <1>3, <1>4, <1>5, PTL
     DEF AddSpec, NoStepOversteps, ExcisesOnlyItsOwn, RegisteredHasALink, PreviewTouchesNothing
-----------------------------------------------------------------------------
(* What is in a sequence stays, in its order, when others are left out.    *)
Before(x, y, todo) == \A i, j \in 1 .. Len(todo) : i < j => ~(todo[i] = y /\ todo[j] = x)

LEMMA Appended ==
    ASSUME NEW D, NEW seq \in Seq(D), NEW e \in D
    PROVE  /\ Append(seq, e) \in Seq(D) /\ Len(Append(seq, e)) = Len(seq) + 1
           /\ \A i \in 1 .. Len(seq) : Append(seq, e)[i] = seq[i]
           /\ Append(seq, e)[Len(seq) + 1] = e
           /\ \A x : Contains(Append(seq, e), x) <=> Contains(seq, x) \/ x = e
<1>1. /\ Append(seq, e) \in Seq(D) /\ Len(Append(seq, e)) = Len(seq) + 1 /\ Len(seq) \in Nat
      /\ \A i \in 1 .. Len(seq) : Append(seq, e)[i] = seq[i]
      /\ Append(seq, e)[Len(seq) + 1] = e
  OBVIOUS
<1> DEFINE longer == Append(seq, e)
<1>2. ASSUME NEW x PROVE Contains(longer, x) <=> Contains(seq, x) \/ x = e
  <2> HIDE DEF longer
  <2>1. /\ Len(longer) = Len(seq) + 1 /\ \A i \in 1 .. Len(seq) : longer[i] = seq[i]
        /\ longer[Len(seq) + 1] = e
    BY <1>1 DEF longer
  <2>2. \A i \in 1 .. Len(longer) : i \in 1 .. Len(seq) \/ i = Len(seq) + 1
    BY <1>1, <2>1
  <2>3. \A i \in 1 .. Len(seq) : i \in 1 .. Len(longer)
    BY <1>1, <2>1
  <2>4. Len(seq) + 1 \in 1 .. Len(longer)
    BY <1>1, <2>1
  <2>5. QED
    BY <2>1, <2>2, <2>3, <2>4 DEF Contains
<1>3. QED
  BY <1>1, <1>2

LEMMA FilteredKeeps ==
    ASSUME NEW D, NEW seq \in Seq(D), NEW set
    PROVE  /\ \A x : Contains(Filtered(seq, set), x) <=> Contains(seq, x) /\ x \in set
           /\ \A x, y : Before(x, y, seq) => Before(x, y, Filtered(seq, set))
<1> DEFINE n == Len(seq)
           Seen(x, k) == \E i \in 1 .. k : seq[i] = x
<1>1. PICK t \in [0 .. n -> Seq(D \cap set)] : Turns(t, seq, set)
  BY FilteredTurns
<1>0. n \in Nat
  OBVIOUS
<1> DEFINE Agree(k) == /\ \A x : Contains(t[k], x) <=> Seen(x, k) /\ x \in set
                      /\ \A x, y : Before(x, y, seq) => Before(x, y, t[k])
           P == {k \in Nat : k <= n => Agree(k)}
<1>2. 0 \in P
  <2>1. t[0] = <<>> /\ 1 .. 0 = {} /\ Len(<<>>) = 0
    BY <1>1 DEF Turns
  <2>2. QED
    BY <2>1 DEF Contains, Before
<1>3. ASSUME NEW k \in P PROVE k + 1 \in P
  <2> SUFFICES ASSUME k + 1 <= n
               PROVE  Agree(k + 1)
    BY k + 1 \in Nat
  <2>1. k \in Nat /\ k \in 0 .. n /\ k \in 0 .. n - 1 /\ k + 1 \in 1 .. n /\ Agree(k)
    BY <1>0
  <2>2. t[k + 1] = IF seq[k + 1] \in set THEN Append(t[k], seq[k + 1]) ELSE t[k]
    BY <1>1, <2>1 DEF Turns
  <2>3. t[k] \in Seq(D \cap set) /\ seq[k + 1] \in D
    BY <1>1, <2>1
  <2>4. \A x : Seen(x, k + 1) <=> Seen(x, k) \/ x = seq[k + 1]
    <3>1. \A i \in 1 .. k + 1 : i \in 1 .. k \/ i = k + 1
      BY <2>1
    <3>2. \A i \in 1 .. k : i \in 1 .. k + 1
      BY <2>1
    <3>3. k + 1 \in 1 .. k + 1
      BY <2>1
    <3>4. QED
      BY <3>1, <3>2, <3>3
  <2>5. CASE seq[k + 1] \notin set
    <3>1. t[k + 1] = t[k]
      BY <2>2, <2>5
    <3> HIDE DEF Seen
    <3>2. QED
      BY <2>1, <2>4, <2>5, <3>1
  <2>6. CASE seq[k + 1] \in set
    <3>1. /\ Len(t[k + 1]) = Len(t[k]) + 1 /\ Len(t[k]) \in Nat
          /\ \A i \in 1 .. Len(t[k]) : t[k + 1][i] = t[k][i]
          /\ t[k + 1][Len(t[k]) + 1] = seq[k + 1]
          /\ \A x : Contains(t[k + 1], x) <=> Contains(t[k], x) \/ x = seq[k + 1]
      BY <2>2, <2>3, <2>6, Appended
    <3>2. \A x : Contains(t[k + 1], x) <=> Seen(x, k + 1) /\ x \in set
      <4> HIDE DEF Seen
      <4>1. QED
        BY <2>1, <2>4, <2>6, <3>1
    <3>3. ASSUME NEW x, NEW y, Before(x, y, seq) PROVE Before(x, y, t[k + 1])
      <4> SUFFICES ASSUME NEW i \in 1 .. Len(t[k + 1]), NEW j \in 1 .. Len(t[k + 1]), i < j,
                          t[k + 1][i] = y, t[k + 1][j] = x
                   PROVE  FALSE
        BY DEF Before
      <4>1. i \in 1 .. Len(t[k]) /\ (j \in 1 .. Len(t[k]) \/ j = Len(t[k]) + 1)
        BY <3>1
      <4>2. CASE j \in 1 .. Len(t[k])
        <5>1. Before(x, y, t[k])
          BY <2>1, <3>3
        <5>2. t[k][i] = y /\ t[k][j] = x
          BY <3>1, <4>1, <4>2
        <5>3. QED
          BY <4>1, <4>2, <5>1, <5>2 DEF Before
      <4>3. CASE j = Len(t[k]) + 1
        <5>1. x = seq[k + 1] /\ Contains(t[k], y)
          BY <3>1, <4>1, <4>3 DEF Contains
        <5>2. PICK l \in 1 .. k : seq[l] = y
          BY <2>1, <5>1
        <5>3. l \in 1 .. n /\ l < k + 1
          BY <2>1
        <5>4. QED
          BY <2>1, <3>3, <5>1, <5>2, <5>3 DEF Before
      <4>4. QED
        BY <4>1, <4>2, <4>3
    <3>4. QED
      BY <3>2, <3>3
  <2>7. QED
    BY <2>5, <2>6
<1>4. P = Nat
  <2>1. P \in SUBSET Nat
    OBVIOUS
  <2> HIDE DEF P
  <2>2. QED
    BY <1>2, <1>3, <2>1, Inducted
<1>5. Agree(n)
  <2> HIDE DEF Agree
  <2>1. n \in P /\ n <= n
    BY <1>0, <1>4
  <2>2. QED
    BY <2>1
<1>6. t[n] = Filtered(seq, set)
  BY <1>1 DEF Turns
<1>7. \A x : Seen(x, n) <=> Contains(seq, x)
  BY DEF Contains
<1>8. QED
  <2> HIDE DEF Seen
  <2>1. QED
    BY <1>5, <1>6, <1>7

LEMMA TailKeeps ==
    ASSUME NEW D, NEW seq \in Seq(D), seq # <<>>
    PROVE  /\ \A x : Contains(seq, x) <=> x = Head(seq) \/ Contains(Tail(seq), x)
           /\ \A x, y : Before(x, y, seq) => Before(x, y, Tail(seq))
           /\ \A x, y : Before(x, y, seq) /\ Head(seq) = y => ~Contains(Tail(seq), x)
<1> DEFINE t == Tail(seq)
<1>1. /\ Len(seq) \in Nat /\ Len(seq) >= 1 /\ Len(t) = Len(seq) - 1
      /\ \A i \in 1 .. Len(t) : t[i] = seq[i + 1]
      /\ Head(seq) = seq[1]
  OBVIOUS
<1> HIDE DEF t
<1>2. /\ \A i \in 1 .. Len(t) : i + 1 \in 1 .. Len(seq) /\ i + 1 > 1
      /\ \A i \in 1 .. Len(seq) : i = 1 \/ (i - 1 \in 1 .. Len(t) /\ (i - 1) + 1 = i)
      /\ 1 \in 1 .. Len(seq)
  BY <1>1
<1>3. ASSUME NEW x PROVE Contains(seq, x) <=> x = Head(seq) \/ Contains(t, x)
  <2>1. ASSUME Contains(seq, x) PROVE x = Head(seq) \/ Contains(t, x)
    <3>1. PICK i \in 1 .. Len(seq) : seq[i] = x
      BY <2>1 DEF Contains
    <3>2. CASE i = 1
      BY <1>1, <3>1, <3>2
    <3>3. CASE i # 1
      <4>1. i - 1 \in 1 .. Len(t) /\ t[i - 1] = x
        BY <1>1, <1>2, <3>1, <3>3
      <4>2. QED
        BY <4>1 DEF Contains
    <3>4. QED
      BY <3>2, <3>3
  <2>2. ASSUME x = Head(seq) \/ Contains(t, x) PROVE Contains(seq, x)
    BY <1>1, <1>2, <2>2 DEF Contains
  <2>3. QED
    BY <2>1, <2>2
<1>4. ASSUME NEW x, NEW y, Before(x, y, seq) PROVE Before(x, y, t)
  <2> SUFFICES ASSUME NEW i \in 1 .. Len(t), NEW j \in 1 .. Len(t), i < j, t[i] = y, t[j] = x
               PROVE  FALSE
    BY DEF Before
  <2>1. i + 1 < j + 1 /\ seq[i + 1] = y /\ seq[j + 1] = x
    BY <1>1
  <2>2. QED
    BY <1>2, <1>4, <2>1 DEF Before
<1>5. ASSUME NEW x, NEW y, Before(x, y, seq), Head(seq) = y PROVE ~Contains(t, x)
  <2> SUFFICES ASSUME NEW i \in 1 .. Len(t), t[i] = x
               PROVE  FALSE
    BY DEF Contains
  <2>1. 1 < i + 1 /\ seq[1] = y /\ seq[i + 1] = x
    BY <1>1, <1>5
  <2>2. QED
    BY <1>2, <1>5, <2>1 DEF Before
<1>6. QED
  BY <1>3, <1>4, <1>5 DEF t

(* What goes on after a failure: the pair of the piece does not.           *)
LEMMA AfterFailureKeeps ==
    ASSUME NEW todo \in Seq(Piece), todo # <<>>
    PROVE  /\ \A x, y : Before(x, y, todo) => Before(x, y, AfterFailure(todo))
           /\ Head(todo) \in {"key", "list"}
                => ~Contains(AfterFailure(todo), "key") /\ ~Contains(AfterFailure(todo), "list")
           /\ Head(todo) \notin {"key", "list"}
                => \A x \in {"key", "list"} : Contains(AfterFailure(todo), x) <=> Contains(todo, x)
<1> DEFINE set == {q \in Piece : \A pair \in Together : ~({Head(todo), q} \subseteq pair)}
<1>1. Tail(todo) \in Seq(Piece)
  OBVIOUS
<1>2. AfterFailure(todo) = Filtered(Tail(todo), set)
  BY DEF AfterFailure
<1>3. /\ Head(todo) \in {"key", "list"} => "key" \notin set /\ "list" \notin set
      /\ Head(todo) \notin {"key", "list"} => "key" \in set /\ "list" \in set
  BY DEF Together, Piece
<1> DEFINE rest == Tail(todo)
<1> HIDE DEF set, rest
<1>0. rest \in Seq(Piece)
  BY <1>1 DEF rest
<1>9. /\ \A x : Contains(Filtered(rest, set), x) <=> Contains(rest, x) /\ x \in set
      /\ \A x, y : Before(x, y, rest) => Before(x, y, Filtered(rest, set))
  BY <1>0, FilteredKeeps
<1>4. /\ \A x : Contains(AfterFailure(todo), x) <=> Contains(Tail(todo), x) /\ x \in set
      /\ \A x, y : Before(x, y, Tail(todo)) => Before(x, y, AfterFailure(todo))
  BY <1>2, <1>9 DEF rest
<1>5. /\ \A x : Contains(todo, x) <=> x = Head(todo) \/ Contains(Tail(todo), x)
      /\ \A x, y : Before(x, y, todo) => Before(x, y, Tail(todo))
  BY TailKeeps
<1>6. QED
  BY <1>3, <1>4, <1>5
-----------------------------------------------------------------------------
(* What wiring_present and a full removal ask of the files, piece by piece.*)
Sought == Blocks \cup Removed \cup {"service", "nix", "alt"}
MarkOf(q, c) == IF q = "path" THEN "PATH" ELSE c
Home(q) == IF q = "path" THEN "rc" ELSE q
There(files, q, c) ==
    /\ q \in Blocks => Contains(files["rc"], Begin(MarkOf(q, c)))
    /\ q = "nix" => Contains(files["nix"], Ours(c))
    /\ q \in {"list", "cdi", "alt"} => files[q] # Absent
Lacking(files, q, c) ==
    q \in Sought => ~Contains(files[Home(q)], Begin(MarkOf(q, c))) /\ ~Contains(files[Home(q)], Ours(c))

(* Lines keep to their files: a block's to the start-up file, a component's *)
(* own to the others; and so do those of a text read to be written back.    *)
NoKind(text, kind) == \A i \in 1 .. Len(text) : text[i][1] # kind
Rewrites(p) == me[p].mode = "revert" /\ me[p].at \in {"save", "edit", "fill"}
Sorted(p) ==
    /\ NoKind(file["rc"], "ours")
    /\ \A f \in File \ {"rc"} : NoKind(file[f], "begin")
    /\ Rewrites(p) /\ PieceOf(p) \in Blocks => NoKind(me[p].text, "ours")
    /\ Rewrites(p) /\ PieceOf(p) = "nix" => NoKind(me[p].text, "begin")

(* What a process is through with is there, or gone, unless it has failed; *)
(* also from a text that is to be written back.                            *)
Behind(p) == {q \in scene.declares[me[p].comp] : ~Contains(me[p].todo, q) /\ q \notin me[p].mute}
Told(p) ==
    me[p].at # "idle" /\ ~me[p].bad =>
        \A q \in Behind(p) :
            /\ me[p].mode = "apply" => There(file, q, me[p].comp)
            /\ me[p].mode = "revert" =>
                 /\ Lacking(file, q, me[p].comp)
                 /\ OnBlock(p) /\ q \in Blocks => ~Contains(me[p].text, Begin(MarkOf(q, me[p].comp)))

(* The key and the list of a repository, in the order of the work.          *)
Unlisted == file["list"] \in {Absent, <<Mine>>}
Keyed(p) ==
    /\ me[p].mode = "apply" =>
         /\ Before("key", "list", me[p].todo)
         /\ Contains(me[p].todo, "list") /\ ~Contains(me[p].todo, "key") => Exists("key")
    /\ me[p].mode = "revert" =>
         /\ Before("list", "key", me[p].todo)
         /\ Contains(me[p].todo, "key") /\ ~Contains(me[p].todo, "list") => Unlisted
    /\ me[p].at = "chmod" => Exists("key")

ReportInv ==
    Solo => (Unlisted \/ Exists("key")) /\ \A p \in Proc : Sorted(p) /\ Told(p) /\ Keyed(p)

LEMMA ReportImplies == HostTypes /\ ReportInv => ReportsAreTrue
<1> SUFFICES ASSUME HostTypes, ReportInv, Solo
             PROVE  ReportsAreTrue
  BY DEF ReportsAreTrue, ListHasKey, OkMeansWired, OkMeansUnwired
<1>1. ListHasKey
  BY DEF ReportInv, Unlisted, ListHasKey
<1>2. ASSUME NEW p \in Proc, me[p].at = "check", me[p].todo = <<>>, ~me[p].bad,
             NEW q \in scene.declares[me[p].comp] \ me[p].mute
      PROVE  /\ me[p].mode = "apply" => There(file, q, me[p].comp)
             /\ me[p].mode = "revert" => Lacking(file, q, me[p].comp)
  <2>1. q \in Behind(p)
    BY <1>2 DEF Behind, Contains
  <2>2. QED
    BY <1>2, <2>1 DEF ReportInv, Told
<1>3. ASSUME NEW f, NEW x, x # Gone, Contains(file[f], x)
      PROVE  Exists(f)
  BY <1>3 DEF Exists, Absent, Contains
<1>4. OkMeansWired
  <2> SUFFICES ASSUME NEW p \in Proc, Finished(p, "apply"),
                      NEW q \in scene.declares[me[p].comp] \ me[p].mute
               PROVE  PieceIsThere(q, me[p].comp)
    BY DEF OkMeansWired
  <2>1. There(file, q, me[p].comp)
    BY <1>2 DEF Finished
  <2>2. \A m : Begin(m) # Gone /\ Ours(m) # Gone
    BY DEF Begin, Ours, Gone
  <2>3. CASE q \in {"path", "rc", "nix"}
    BY <1>3, <2>1, <2>2, <2>3 DEF There, PieceIsThere, HasBlock, MarkOf, Blocks
  <2>4. CASE q \notin {"path", "rc", "nix"}
    BY <2>1, <2>4 DEF There, PieceIsThere, Exists
  <2>5. QED
    BY <2>3, <2>4
<1>5. OkMeansUnwired
  <2> SUFFICES ASSUME NEW p \in Proc, Finished(p, "revert"),
                      NEW q \in scene.declares[me[p].comp] \ me[p].mute, q \in Sought
               PROVE  {Begin(MarkOf(q, me[p].comp)), Ours(me[p].comp)} \cap Range(file[Home(q)]) = {}
    BY DEF OkMeansUnwired, Sought, MarkOf, Home
  <2>1. Lacking(file, q, me[p].comp)
    BY <1>2 DEF Finished
  <2>2. file[Home(q)] \in Seq(Line)
    BY DEF HostTypes, Files, Home, Sought, Blocks, Removed, File
  <2>3. \A x : x \in Range(file[Home(q)]) <=> Contains(file[Home(q)], x)
    BY <2>2 DEF Range, Contains
  <2>4. QED
    BY <2>1, <2>3 DEF Lacking
<1>6. QED
  BY <1>1, <1>4, <1>5 DEF ReportsAreTrue
-----------------------------------------------------------------------------
(* Texts, by the lines they contain.                                       *)
LEMMA KindsOf == ASSUME NEW text, NEW kind PROVE NoKind(text, kind) <=> \A x : Contains(text, x) => x[1] # kind
  BY DEF NoKind, Contains

LEMMA NoKindLacks ==
    ASSUME NEW text
    PROVE  /\ NoKind(text, "begin") => \A m : ~Contains(text, Begin(m))
           /\ NoKind(text, "ours") => \A c : ~Contains(text, Ours(c))
  BY KindsOf DEF Begin, Ours

LEMMA LittleLines ==
    /\ \A x : ~Contains(<<>>, x)
    /\ \A x, y : Contains(<<x>>, y) <=> x = y
    /\ \A c : Ours(c)[1] = "ours" /\ Ours(c) # Mine /\ Ours(c) # Gone /\ Ours(c) # Part
    /\ \A m : Begin(m) # Mine /\ Begin(m) # Gone /\ Begin(m) # Part
    /\ \A c, m : Ours(c) # Begin(m)
    /\ Mine # Gone /\ Part # Gone /\ Part[1] = "part"
<1>1. \A x : ~Contains(<<>>, x)
  BY DEF Contains
<1>2. ASSUME NEW x, NEW y PROVE Contains(<<x>>, y) <=> x = y
  BY DEF Contains
<1>3. QED
  BY <1>1, <1>2 DEF Ours, Begin, Mine, Gone, Part

LEMMA NothingLacks ==
    /\ \A c : ~Contains(Absent, Ours(c))
    /\ \A m : ~Contains(Absent, Begin(m))
  BY LittleLines DEF Absent

LEMMA LittleKinds ==
    \A kind \in {"begin", "ours"} :
        NoKind(<<>>, kind) /\ NoKind(<<Mine>>, kind) /\ NoKind(<<Part>>, kind) /\ NoKind(Absent, kind)
  BY DEF NoKind, Mine, Part, Absent, Gone

LEMMA OursBegins == \A c : NoKind(<<Ours(c)>>, "begin")
  BY DEF NoKind, Ours

LEMMA AppendKinds ==
    ASSUME NEW text \in Seq(Line), NEW line \in Line, NEW kind, NoKind(text, kind), line[1] # kind
    PROVE  NoKind(Append(text, line), kind)
<1>1. \A x : Contains(Append(text, line), x) <=> Contains(text, x) \/ x = line
  BY Appended
<1>2. QED
  BY <1>1, KindsOf

(* A text with a block, whole or torn, behind it.                          *)
LEMMA JoinedLines ==
    ASSUME NEW front \in Seq(Line), NEW back \in Seq(Line)
    PROVE  \A x : Contains(front \o back, x) <=> Contains(front, x) \/ Contains(back, x)
<1> DEFINE whole == front \o back
<1>1. /\ Len(whole) = Len(front) + Len(back) /\ Len(front) \in Nat /\ Len(back) \in Nat
      /\ \A i \in 1 .. Len(front) : whole[i] = front[i]
      /\ \A i \in 1 .. Len(back) : whole[Len(front) + i] = back[i]
  BY Joined
<1> HIDE DEF whole
<1>2. /\ \A i \in 1 .. Len(front) : i \in 1 .. Len(whole)
      /\ \A i \in 1 .. Len(back) : Len(front) + i \in 1 .. Len(whole)
      /\ \A i \in 1 .. Len(whole) : \/ i \in 1 .. Len(front)
                                    \/ i - Len(front) \in 1 .. Len(back) /\ Len(front) + (i - Len(front)) = i
  BY <1>1
<1>3. ASSUME NEW x, Contains(whole, x) PROVE Contains(front, x) \/ Contains(back, x)
  <2>1. PICK i \in 1 .. Len(whole) : whole[i] = x
    BY <1>3 DEF Contains
  <2>2. CASE i \in 1 .. Len(front)
    BY <1>1, <2>1, <2>2 DEF Contains
  <2>3. CASE i \notin 1 .. Len(front)
    <3>1. i - Len(front) \in 1 .. Len(back) /\ Len(front) + (i - Len(front)) = i
      BY <1>2, <2>3
    <3>2. back[i - Len(front)] = x
      BY <1>1, <2>1, <3>1
    <3>3. QED
      BY <3>1, <3>2 DEF Contains
  <2>4. QED
    BY <2>2, <2>3
<1>4. ASSUME NEW x, Contains(front, x) \/ Contains(back, x) PROVE Contains(whole, x)
  BY <1>1, <1>2, <1>4 DEF Contains
<1>5. QED
  BY <1>3, <1>4 DEF whole

LEMMA BlockLines ==
    ASSUME NEW text \in Seq(Line), NEW m \in Component \cup {"PATH"}, NEW c \in Component
    PROVE  /\ Contains(text \o Block(m, c), Begin(m))
           /\ \A x : Contains(text, x) => Contains(text \o Block(m, c), x)
           /\ NoKind(text, "ours") =>
                /\ NoKind(text \o Block(m, c), "ours")
                /\ \A n \in 0 .. 2 : NoKind(text \o SubSeq(Block(m, c), 1, n), "ours")
<1> DEFINE s == Block(m, c)
<1>1. Begin(m) \in Line /\ Body(c) \in Line /\ End(m) \in Line
  BY LinesFit
<1>2. /\ s \in Seq(Line) /\ Len(s) = 3
      /\ s[1] = Begin(m) /\ s[2] = Body(c) /\ s[3] = End(m)
  BY <1>1 DEF Block
<1>3. \A i \in 1 .. 3 : s[i][1] # "ours"
  <2>1. \A i \in 1 .. 3 : i = 1 \/ i = 2 \/ i = 3
    OBVIOUS
  <2> HIDE DEF s
  <2>2. QED
    BY <1>2, <2>1, Kinds
<1> HIDE DEF s
<1>4. NoKind(s, "ours")
  BY <1>2, <1>3 DEF NoKind
<1>5. ASSUME NEW n \in 0 .. 2
      PROVE  SubSeq(s, 1, n) \in Seq(Line) /\ NoKind(SubSeq(s, 1, n), "ours")
  <2>1. n \in Nat /\ n <= 3
    OBVIOUS
  <2>2. SubSeq(s, 1, n) \in Seq(Line)
    BY <1>2, <2>1, StartsFit
  <2>3. Len(SubSeq(s, 1, n)) = n /\ \A i \in 1 .. n : SubSeq(s, 1, n)[i] = s[i]
    BY <1>2, <2>1
  <2>4. \A i \in 1 .. n : i \in 1 .. 3
    BY <2>1
  <2>5. QED
    BY <1>3, <2>2, <2>3, <2>4 DEF NoKind
<1>6. Contains(s, Begin(m))
  BY <1>2 DEF Contains
<1>7. Contains(text \o s, Begin(m)) /\ \A x : Contains(text, x) => Contains(text \o s, x)
  BY <1>2, <1>6, JoinedLines
<1>8. ASSUME NoKind(text, "ours"), NEW back \in Seq(Line), NoKind(back, "ours")
      PROVE  NoKind(text \o back, "ours")
  <2>1. \A x : Contains(text \o back, x) => Contains(text, x) \/ Contains(back, x)
    BY <1>8, JoinedLines
  <2>2. QED
    BY <1>8, <2>1, KindsOf
<1>9. NoKind(text, "ours") => NoKind(text \o s, "ours") /\ \A n \in 0 .. 2 : NoKind(text \o SubSeq(s, 1, n), "ours")
  BY <1>2, <1>4, <1>5, <1>8
<1>10. QED
  BY <1>7, <1>9 DEF s

(* A text without a block: nothing comes in, and the block is gone.        *)
LEMMA ExcisedLines ==
    ASSUME NEW text \in Seq(Line), NEW m, HasBlock(text, m), Excisable(text, m)
    PROVE  /\ \A x : Contains(Excised(text, m), x) => Contains(text, x)
           /\ ~Contains(Excised(text, m), Begin(m))
<1> DEFINE b == BeginsAt(text, m)
           e == EndsAt(text, m)
           x == Excised(text, m)
<1>1. /\ b \in 1 .. Len(text) /\ e \in b .. Len(text) /\ Len(text) \in Nat
      /\ \A j \in 1 .. b - 1 : text[j] # Begin(m)
  BY BlockPlaces DEF Excisable
<1>2. /\ Len(x) = Len(text) - (e + 1 - b)
      /\ \A k \in 1 .. Len(x) : x[k] = text[IF k < b THEN k ELSE k + (e + 1 - b)]
  BY ShorterLines
<1>3. \A j \in e + 1 .. Len(text) : text[j] # Begin(m)
  <2> DEFINE rest == SubSeq(text, e + 1, Len(text))
  <2>1. ~Contains(rest, Begin(m))
    BY DEF Excisable, HasBlock, After
  <2> HIDE DEF b, x
  <2>2. e \in Nat /\ e <= Len(text)
    BY <1>1
  <2> HIDE DEF e
  <2>3. Len(rest) = Len(text) - e /\ \A i \in 1 .. Len(rest) : rest[i] = text[e + i]
    BY <1>1, <2>2
  <2> HIDE DEF rest
  <2>4. ASSUME NEW j \in e + 1 .. Len(text) PROVE text[j] # Begin(m)
    <3>1. j - e \in 1 .. Len(rest) /\ e + (j - e) = j
      BY <1>1, <2>2, <2>3
    <3>2. rest[j - e] = text[j]
      BY <2>3, <3>1
    <3>3. QED
      BY <2>1, <3>1, <3>2 DEF Contains
  <2>5. QED
    BY <2>4
<1> HIDE DEF b, e, x
<1>4. ASSUME NEW k \in 1 .. Len(x)
      PROVE  \E i \in 1 .. Len(text) : (i < b \/ i > e) /\ x[k] = text[i]
  <2>1. CASE k < b
    <3>1. k \in 1 .. Len(text) /\ x[k] = text[k]
      BY <1>1, <1>2, <2>1
    <3>2. QED
      BY <2>1, <3>1
  <2>2. CASE ~(k < b)
    <3> DEFINE i == k + (e + 1 - b)
    <3>1. i \in 1 .. Len(text) /\ i > e /\ x[k] = text[i]
      BY <1>1, <1>2, <2>2
    <3> HIDE DEF i
    <3>2. QED
      BY <3>1
  <2>3. QED
    BY <2>1, <2>2
<1>5. \A y : Contains(x, y) => Contains(text, y)
  BY <1>4 DEF Contains
<1>6. ~Contains(x, Begin(m))
  <2> SUFFICES ASSUME NEW k \in 1 .. Len(x), x[k] = Begin(m)
               PROVE  FALSE
    BY DEF Contains
  <2>1. PICK i \in 1 .. Len(text) : (i < b \/ i > e) /\ x[k] = text[i]
    BY <1>4
  <2>2. i \in 1 .. b - 1 \/ i \in e + 1 .. Len(text)
    BY <1>1, <2>1
  <2>3. QED
    BY <1>1, <1>3, <2>1, <2>2
<1>7. QED
  BY <1>5, <1>6 DEF x
-----------------------------------------------------------------------------
(* What an edit makes of its piece: it is given up, or it is passed over,  *)
(* or it is done - there or gone, as it should be - or it goes on.         *)
Done(p) ==
    /\ me[p].mode = "apply" => There(file', PieceOf(p), me[p].comp) /\ (PieceOf(p) = "key" => Exists("key")')
    /\ me[p].mode = "revert" => Lacking(file', PieceOf(p), me[p].comp) /\ (PieceOf(p) = "list" => Unlisted')
Finishes(p) == (Leave(p) \/ Dirties(p)) /\ Done(p)
Passes(p) == Mute(p) /\ PieceOf(p) \notin {"key", "list"}
GoesOn(p) ==
    \E label \in {"save", "edit", "fill", "chmod"} :
        /\ Go(p, label)
        /\ label = "chmod" => Exists("key")'
        /\ PieceOf(p) \in Blocks => \/ file'["rc"] = file["rc"]
                                    \/ me[p].mode = "revert" /\ file'["rc"] = <<>>
        /\ Rewrites(p) \/ me[p].mode = "apply" \/ PieceOf(p) \notin Blocks \cup {"nix"}
ReadsIt(p) ==
    /\ me' = [me EXCEPT ![p].at = "save", ![p].text = file[FileOf(p)]]
    /\ file' = file
GropesOn(p) == Gropes(p) /\ file' = file
Outcome(p) == Fails(p) \/ Dies(p) \/ Passes(p) \/ Finishes(p) \/ GoesOn(p) \/ ReadsIt(p) \/ GropesOn(p)

LEMMA ElsewhereStays ==
    ASSUME HostTypes, NEW p \in Proc, Edits(p)
    PROVE  \A f \in File : f # FileOf(p) => file'[f] = file[f]
<1> USE DEF At, Put, Same, Tears, hostVars
<1>0. DOMAIN file = File
  BY DEF HostTypes, Files
<1>1. CASE Save(p) \/ CheckBlock(p) \/ ReadBlock(p) \/ CheckFile(p) \/ CheckRemoval(p) \/ ReadLines(p) \/ ChmodKey(p) \/ Restart(p)
  BY <1>1 DEF Save, CheckBlock, ReadBlock, CheckFile, CheckRemoval, ReadLines, ChmodKey, Restart
<1>2. CASE AppendBlock(p) \/ Truncate(p) \/ Fill(p)
  <2>1. FileOf(p) = "rc" /\ (file' = file \/ \E text : file' = [file EXCEPT !["rc"] = text])
    BY <1>2 DEF AppendBlock, Truncate, Fill, FileOf, Blocks
  <2>2. QED
    BY <1>0, <2>1
<1>3. CASE WriteFile(p) \/ RemoveFile(p)
  <2>1. file' = file \/ \E text : file' = [file EXCEPT ![FileOf(p)] = text]
    BY <1>3 DEF WriteFile, RemoveFile
  <2>2. QED
    BY <1>0, <2>1
<1>4. CASE AppendLine(p) \/ WriteLines(p) \/ CheckLine(p)
  <2>1. FileOf(p) = "nix" /\ (file' = file \/ \E text : file' = [file EXCEPT !["nix"] = text])
    BY <1>4 DEF AppendLine, WriteLines, CheckLine, FileOf
  <2>2. QED
    BY <1>0, <2>1
<1>5. CASE Systemctl(p) \/ FetchKey(p) \/ GenerateCdi(p) \/ InstallAlternative(p) \/ RemoveAlternative(p)
  <2>1. file' = file \/ \E text : file' = [file EXCEPT ![FileOf(p)] = text]
    BY <1>5 DEF Systemctl, FetchKey, GenerateCdi, InstallAlternative, RemoveAlternative, FileOf
  <2>2. QED
    BY <1>0, <2>1
<1>6. CASE MoveConfig(p) \/ PurgeData(p)
  <2>1. file' = file \/ file' = [file EXCEPT ![FileOf(p)] = Absent]
    BY <1>6 DEF MoveConfig, PurgeData, Rename, FileOf
  <2>2. QED
    BY <1>0, <2>1
<1>7. QED
  BY <1>1, <1>2, <1>3, <1>4, <1>5, <1>6 DEF Edits, Sighted

LEMMA BlockOutcome ==
    ASSUME HostTypes, NEW p \in Proc, Sorted(p), Prepared(p),
           CheckBlock(p) \/ AppendBlock(p) \/ ReadBlock(p) \/ Truncate(p) \/ Fill(p)
    PROVE  Outcome(p)
<1> USE DEF At, Put, Same, Tears, hostVars, Outcome
<1>0. /\ file["rc"] \in Seq(Line) /\ DOMAIN file = File /\ "rc" \in File
      /\ me[p] \in MeType /\ Placed(me[p]) /\ Marker(p) = MarkerIn(me[p])
  BY Stands DEF HostTypes, Files, File
<1>1. /\ PieceOf(p) \in Blocks /\ FileOf(p) = "rc" /\ Home(PieceOf(p)) = "rc"
      /\ MarkOf(PieceOf(p), me[p].comp) = Marker(p)
      /\ PieceOf(p) \notin {"key", "list", "nix", "cdi", "alt"}
  <2>1. PieceOf(p) \in Blocks
    BY DEF CheckBlock, AppendBlock, ReadBlock, Truncate, Fill
  <2>2. QED
    BY <2>1 DEF Blocks, FileOf, Home, MarkOf, Marker
<1>2. ASSUME me[p].mode = "apply", Leave(p), Contains(file'["rc"], Begin(Marker(p)))
      PROVE  Outcome(p)
  BY <1>1, <1>2 DEF Finishes, Done, There
<1>3. ASSUME me[p].mode = "revert", Leave(p), ~Contains(file'["rc"], Begin(Marker(p))),
             NoKind(file'["rc"], "ours")
      PROVE  Outcome(p)
  <2>1. ~Contains(file'["rc"], Ours(me[p].comp))
    BY <1>3, NoKindLacks
  <2>2. QED
    BY <1>1, <1>3, <2>1 DEF Finishes, Done, Lacking
<1>4. ASSUME NEW label \in {"save", "edit"}, Go(p, label), file' = file, me[p].mode = "apply"
      PROVE  Outcome(p)
  <2>1. GoesOn(p)
    BY <1>4 DEF GoesOn
  <2>2. QED
    BY <2>1
<1>5. CASE CheckBlock(p)
  <2>1. me[p].mode = "apply" /\ file' = file
    BY <1>5 DEF CheckBlock
  <2>2. CASE HasBlock(file["rc"], Marker(p)) /\ Leave(p)
    BY <1>2, <2>1, <2>2 DEF HasBlock
  <2>3. CASE Go(p, "save") \/ Go(p, "edit")
    BY <1>4, <2>1, <2>3
  <2>4. CASE Gropes(p)
    BY <2>1, <2>4 DEF GropesOn
  <2>5. QED
    BY <1>5, <2>2, <2>3, <2>4 DEF CheckBlock, Gropes
<1>6. CASE AppendBlock(p)
  <2> DEFINE text == IF Exists("rc") THEN file["rc"] ELSE <<>>
  <2>1. me[p].at = "edit" /\ me[p].mode = "apply" /\ me[p].comp \in Component
    BY <1>0, <1>6 DEF AppendBlock, Placed
  <2>2. CASE file' = [file EXCEPT !["rc"] = text \o Block(Marker(p), me[p].comp)] /\ Leave(p)
    <3>1. text \in Seq(Line) /\ Marker(p) \in Component \cup {"PATH"}
      BY <1>0, <2>1 DEF MarkerIn
    <3> HIDE DEF text
    <3>2. Contains(text \o Block(Marker(p), me[p].comp), Begin(Marker(p)))
      BY <2>1, <3>1, BlockLines
    <3>3. file'["rc"] = text \o Block(Marker(p), me[p].comp)
      BY <1>0, <2>2
    <3>4. QED
      BY <1>2, <2>1, <2>2, <3>2, <3>3
  <2>3. CASE Fails(p) \/ Dies(p)
    BY <2>3
  <2>4. QED
    BY <1>6, <2>2, <2>3 DEF AppendBlock
<1>7. CASE ReadBlock(p)
  <2>1. me[p].mode = "revert" /\ file' = file
    BY <1>7 DEF ReadBlock
  <2>2. CASE (~Exists("rc") \/ ~HasBlock(file["rc"], Marker(p))) /\ Leave(p)
    <3>1. ~Contains(file["rc"], Begin(Marker(p)))
      BY <2>2, NothingLacks DEF Exists, HasBlock
    <3>2. QED
      BY <1>3, <2>1, <2>2, <3>1 DEF Sorted
  <2>3. CASE me' = [me EXCEPT ![p].at = "save", ![p].text = file["rc"]]
    BY <1>1, <2>1, <2>3 DEF ReadsIt
  <2>4. CASE Mute(p)
    BY <1>1, <2>4 DEF Passes
  <2>5. QED
    BY <1>7, <2>2, <2>3, <2>4 DEF ReadBlock
<1>8. CASE Truncate(p)
  <2>1. CASE file' = [file EXCEPT !["rc"] = <<>>] /\ Go(p, "fill")
    <3>1. file'["rc"] = <<>> /\ me[p].mode = "revert" /\ Rewrites(p)
      BY <1>0, <1>8, <2>1 DEF Truncate, Rewrites
    <3>2. GoesOn(p)
      BY <2>1, <3>1 DEF GoesOn
    <3>3. QED
      BY <3>2
  <2>2. QED
    BY <1>8, <2>1 DEF Truncate
<1>9. CASE Fill(p)
  <2> DEFINE x == Excised(me[p].text, Marker(p))
  <2>1. CASE file' = [file EXCEPT !["rc"] = x] /\ Leave(p)
    <3>1. me[p].at = "fill" /\ me[p].mode = "revert"
      BY <1>9 DEF Fill
    <3>2. me[p].text \in Seq(Line) /\ HasBlock(me[p].text, Marker(p))
      BY <1>0, <1>1, <3>1 DEF MeType, Placed, PieceOf
    <3>3. Excisable(me[p].text, Marker(p)) /\ NoKind(me[p].text, "ours")
      BY <1>1, <3>1 DEF Prepared, OnBlock, Sorted, Rewrites
    <3>4. (\A y : Contains(x, y) => Contains(me[p].text, y)) /\ ~Contains(x, Begin(Marker(p)))
      BY <3>2, <3>3, ExcisedLines
    <3>5. file'["rc"] = x
      BY <1>0, <2>1
    <3> HIDE DEF x
    <3>6. NoKind(x, "ours")
      BY <3>3, <3>4, KindsOf
    <3>7. QED
      BY <1>3, <2>1, <3>1, <3>4, <3>5, <3>6
  <2>2. QED
    BY <1>9, <2>1 DEF Fill
<1>10. QED
  BY <1>5, <1>6, <1>7, <1>8, <1>9

(* A file of its own: there with the declared line, gone when absent.      *)
LEMMA WholeFiles ==
    ASSUME NEW files, NEW q \in Piece \ {"path", "rc", "restart", "config", "data"}, NEW c
    PROVE  /\ files[q] = <<Ours(c)>> => There(files, q, c)
           /\ files[q] = Absent => Lacking(files, q, c)
<1>1. q \notin Blocks /\ Home(q) = q
  BY DEF Blocks, Home
<1>2. <<Ours(c)>> # Absent /\ Contains(<<Ours(c)>>, Ours(c))
  <2>1. Contains(<<Ours(c)>>, Ours(c))
    BY LittleLines
  <2>2. QED
    BY <2>1, NothingLacks
<1>3. QED
  BY <1>1, <1>2, NothingLacks DEF There, Lacking

LEMMA FileOutcome ==
    ASSUME HostTypes, NEW p \in Proc, Sorted(p), Keyed(p),
           \/ Save(p) \/ CheckFile(p) \/ WriteFile(p) \/ CheckRemoval(p) \/ RemoveFile(p)
           \/ Systemctl(p) \/ FetchKey(p) \/ ChmodKey(p)
    PROVE  Outcome(p)
<1> USE DEF At, Put, Same, Tears, hostVars, Outcome
<1>0. DOMAIN file = File /\ me[p] \in MeType /\ Placed(me[p])
  BY Stands DEF HostTypes, Files
<1>1. ASSUME Leave(p), Done(p) PROVE Outcome(p)
  BY <1>1 DEF Finishes
<1>2. ASSUME NEW label \in {"save", "edit"}, Go(p, label), file' = file,
             Rewrites(p) \/ me[p].mode = "apply" \/ PieceOf(p) \notin Blocks \cup {"nix"}
      PROVE  Outcome(p)
  <2>1. GoesOn(p)
    BY <1>2 DEF GoesOn
  <2>2. QED
    BY <2>1
<1>3. CASE Save(p)
  <2>1. Rewrites(p) \/ me[p].mode = "apply"
    BY <1>0, <1>3 DEF Save, Rewrites, MeType, Placed
  <2>2. QED
    BY <1>2, <1>3, <2>1 DEF Save
<1>4. CASE CheckFile(p) \/ WriteFile(p)
  <2>1. me[p].mode = "apply" /\ PieceOf(p) \in Owned
    BY <1>4 DEF CheckFile, WriteFile
  <2>2. /\ PieceOf(p) \in Piece \ {"path", "rc", "restart", "config", "data"}
        /\ FileOf(p) = PieceOf(p) /\ PieceOf(p) # "key" /\ PieceOf(p) \in File
    BY <2>1 DEF Owned, Piece, FileOf, File
  <2>3. CASE Leave(p) /\ file'[FileOf(p)] = <<Ours(me[p].comp)>>
    <3>1. There(file', PieceOf(p), me[p].comp)
      BY <2>2, <2>3, WholeFiles
    <3>2. QED
      BY <1>1, <2>1, <2>2, <2>3, <3>1 DEF Done
  <2>4. CASE CheckFile(p)
    BY <1>2, <2>3, <2>4 DEF CheckFile
  <2>5. CASE WriteFile(p)
    BY <1>0, <2>2, <2>3, <2>5 DEF WriteFile
  <2>6. QED
    BY <1>4, <2>4, <2>5
<1>5. CASE CheckRemoval(p) \/ RemoveFile(p)
  <2>1. me[p].mode = "revert" /\ PieceOf(p) \in Removed
    BY <1>5 DEF CheckRemoval, RemoveFile
  <2>2. /\ PieceOf(p) \in Piece \ {"path", "rc", "restart", "config", "data"}
        /\ FileOf(p) = PieceOf(p) /\ PieceOf(p) \in File
    BY <2>1 DEF Removed, Piece, FileOf, File
  <2>3. CASE Leave(p) /\ file'[FileOf(p)] = Absent
    <3>1. Lacking(file', PieceOf(p), me[p].comp)
      BY <2>2, <2>3, WholeFiles
    <3>2. PieceOf(p) = "list" => Unlisted'
      BY <2>2, <2>3 DEF Unlisted
    <3>3. QED
      BY <1>1, <2>1, <2>3, <3>1, <3>2 DEF Done
  <2>4. CASE CheckRemoval(p)
    BY <1>2, <2>2, <2>3, <2>4 DEF CheckRemoval, Exists, Removed, Blocks
  <2>5. CASE RemoveFile(p)
    BY <1>0, <2>2, <2>3, <2>5 DEF RemoveFile
  <2>6. QED
    BY <1>5, <2>4, <2>5
<1>6. CASE Systemctl(p)
  <2>1. PieceOf(p) = "service" /\ me[p].at # "idle"
    BY <1>6 DEF Systemctl
  <2>2. me[p].mode \in {"apply", "revert"}
    BY <1>0, <2>1 DEF MeType, Placed
  <2>3. CASE Leave(p) /\ file'["service"] = IF me[p].mode = "apply" THEN <<Ours(me[p].comp)>> ELSE Absent
    <3>1. /\ me[p].mode = "apply" => There(file', "service", me[p].comp)
          /\ me[p].mode = "revert" => Lacking(file', "service", me[p].comp)
      BY <2>3, WholeFiles DEF Piece
    <3>2. QED
      BY <1>1, <2>1, <2>3, <3>1 DEF Done
  <2>4. CASE Mute(p)
    BY <2>1, <2>4 DEF Passes
  <2>5. QED
    BY <1>0, <1>6, <2>3, <2>4 DEF Systemctl, File
<1>7. CASE FetchKey(p) \/ ChmodKey(p)
  <2>1. PieceOf(p) = "key" /\ me[p].mode = "apply"
    BY <1>7 DEF FetchKey, ChmodKey
  <2>2. CASE Leave(p) /\ Exists("key")'
    BY <1>1, <2>1, <2>2 DEF Done, There, Blocks
  <2>3. CASE Go(p, "chmod") /\ Exists("key")'
    <3>1. GoesOn(p)
      BY <2>1, <2>3 DEF GoesOn, Blocks
    <3>2. QED
      BY <3>1
  <2>4. CASE FetchKey(p)
    <3>1. file' = [file EXCEPT !["key"] = <<Ours(me[p].comp)>>] => Exists("key")'
      <4>1. <<Ours(me[p].comp)>> # Absent
        BY LittleLines, NothingLacks
      <4>2. QED
        BY <1>0, <4>1 DEF Exists, File
    <3>2. file' = file /\ Exists("key") => Exists("key")'
      BY DEF Exists
    <3>3. QED
      BY <2>2, <2>3, <2>4, <3>1, <3>2 DEF FetchKey
  <2>5. CASE ChmodKey(p)
    <3>1. Exists("key")'
      BY <2>5 DEF ChmodKey, Keyed, Exists
    <3>2. QED
      BY <2>2, <2>5, <3>1 DEF ChmodKey
  <2>6. QED
    BY <1>7, <2>4, <2>5
<1>8. QED
  BY <1>3, <1>4, <1>5, <1>6, <1>7

LEMMA LineOutcome ==
    ASSUME HostTypes, NEW p \in Proc, Sorted(p),
           CheckLine(p) \/ AppendLine(p) \/ ReadLines(p) \/ WriteLines(p)
    PROVE  Outcome(p)
<1> USE DEF At, Put, Same, Tears, hostVars, Outcome
<1>0. /\ DOMAIN file = File /\ me[p] \in MeType /\ Placed(me[p])
      /\ "nix" \in File /\ file["nix"] \in Seq(Line)
  BY Stands DEF HostTypes, Files, File
<1>1. PieceOf(p) = "nix" /\ FileOf(p) = "nix" /\ me[p].comp \in Component /\ Ours(me[p].comp) \in Line
  <2>1. PieceOf(p) = "nix" /\ me[p].at # "idle"
    BY DEF CheckLine, AppendLine, ReadLines, WriteLines
  <2>2. QED
    BY <1>0, <2>1, LinesFit DEF FileOf, Placed
<1>2. ASSUME me[p].mode = "apply", Leave(p) \/ Dirties(p), Contains(file'["nix"], Ours(me[p].comp))
      PROVE  Outcome(p)
  BY <1>1, <1>2 DEF Finishes, Done, There, Blocks
<1>3. ASSUME me[p].mode = "revert", Leave(p) \/ Dirties(p), ~Contains(file'["nix"], Ours(me[p].comp)),
             NoKind(file'["nix"], "begin")
      PROVE  Outcome(p)
  <2>1. \A m : ~Contains(file'["nix"], Begin(m))
    BY <1>3, NoKindLacks
  <2>2. QED
    BY <1>1, <1>3, <2>1 DEF Finishes, Done, Lacking, Home
<1>4. CASE CheckLine(p)
  <2> DEFINE text == IF Exists("nix") THEN file["nix"] ELSE <<>>
  <2>1. me[p].mode = "apply"
    BY <1>4 DEF CheckLine
  <2>2. CASE file' = [file EXCEPT !["nix"] = text] /\ Contains(text, Ours(me[p].comp)) /\ Leave(p)
    <3> HIDE DEF text
    <3>1. file'["nix"] = text
      BY <1>0, <2>2
    <3>2. QED
      BY <1>2, <2>1, <2>2, <3>1
  <2>3. CASE Go(p, "save")
    <3>1. GoesOn(p)
      BY <1>1, <2>1, <2>3 DEF GoesOn, Blocks
    <3>2. QED
      BY <3>1
  <2>4. QED
    BY <1>4, <2>2, <2>3 DEF CheckLine
<1>5. CASE AppendLine(p)
  <2>1. CASE file' = [file EXCEPT !["nix"] = Append(file["nix"], Ours(me[p].comp))] /\ Dirties(p)
    <3>1. Contains(file'["nix"], Ours(me[p].comp))
      BY <1>0, <1>1, <2>1, Appended
    <3>2. QED
      BY <1>2, <1>5, <2>1, <3>1 DEF AppendLine
  <2>2. QED
    BY <1>5, <2>1 DEF AppendLine, Dirties
<1>6. CASE ReadLines(p)
  <2>1. me[p].mode = "revert" /\ file' = file
    BY <1>6 DEF ReadLines
  <2>2. CASE ~(Exists("nix") /\ Contains(file["nix"], Ours(me[p].comp))) /\ Leave(p)
    <3>1. ~Contains(file["nix"], Ours(me[p].comp))
      BY <2>2, NothingLacks DEF Exists
    <3>2. NoKind(file["nix"], "begin")
      BY <1>0 DEF Sorted
    <3>3. QED
      BY <1>3, <2>1, <2>2, <3>1, <3>2
  <2>3. CASE me' = [me EXCEPT ![p].at = "save", ![p].text = file["nix"]]
    BY <1>1, <2>1, <2>3 DEF ReadsIt
  <2>4. CASE Mute(p)
    BY <1>1, <2>4 DEF Passes
  <2>5. QED
    BY <1>6, <2>2, <2>3, <2>4 DEF ReadLines
<1>7. CASE WriteLines(p)
  <2> DEFINE text == me[p].text
             set == Range(text) \ {Ours(me[p].comp)}
             x == Filtered(text, set)
  <2>1. CASE file' = [file EXCEPT !["nix"] = x] /\ Dirties(p)
    <3>1. me[p].mode = "revert" /\ NoKind(text, "begin") /\ text \in Seq(Line)
      BY <1>0, <1>1, <1>7 DEF WriteLines, Sorted, Rewrites, MeType
    <3>2. file'["nix"] = x
      BY <1>0, <2>1
    <3>3. Ours(me[p].comp) \notin set
      OBVIOUS
    <3> HIDE DEF text, set
    <3>4. \A y : Contains(x, y) <=> Contains(text, y) /\ y \in set
      BY <3>1, FilteredKeeps
    <3> HIDE DEF x
    <3>5. NoKind(x, "begin") /\ ~Contains(x, Ours(me[p].comp))
      BY <3>1, <3>3, <3>4, KindsOf
    <3>6. QED
      BY <1>3, <2>1, <3>1, <3>2, <3>5
  <2>2. QED
    BY <1>7, <2>1 DEF WriteLines, Dirties
<1>8. QED
  BY <1>4, <1>5, <1>6, <1>7

LEMMA LastOutcome ==
    ASSUME HostTypes, NEW p \in Proc,
           \/ Restart(p) \/ GenerateCdi(p) \/ InstallAlternative(p) \/ RemoveAlternative(p)
           \/ MoveConfig(p) \/ PurgeData(p)
    PROVE  Outcome(p)
<1> USE DEF At, Put, Same, hostVars, Outcome
<1>0. DOMAIN file = File /\ me[p] \in MeType /\ Placed(me[p])
  BY Stands DEF HostTypes, Files
<1>1. ASSUME Leave(p), Done(p) PROVE Outcome(p)
  BY <1>1 DEF Finishes
<1>2. CASE Restart(p) \/ MoveConfig(p) \/ PurgeData(p)
  <2>1. PieceOf(p) \in {"restart", "config", "data"}
    BY <1>2 DEF Restart, MoveConfig, PurgeData
  <2>2. Done(p)
    BY <2>1 DEF Done, There, Lacking, Sought, Blocks, Removed
  <2>3. Mute(p) => Passes(p)
    BY <2>1 DEF Passes
  <2>4. QED
    BY <1>1, <1>2, <2>2, <2>3 DEF Restart, MoveConfig, PurgeData
<1>3. CASE GenerateCdi(p)
  <2>1. PieceOf(p) = "cdi" /\ me[p].mode = "apply"
    BY <1>3 DEF GenerateCdi
  <2>2. CASE Leave(p) /\ Exists("cdi")'
    BY <1>1, <2>1, <2>2 DEF Done, There, Exists, Blocks
  <2>3. Mute(p) => Passes(p)
    BY <2>1 DEF Passes
  <2>4. file' = [file EXCEPT !["cdi"] = <<Ours(me[p].comp)>>] => Exists("cdi")'
    <3>1. <<Ours(me[p].comp)>> # Absent
      BY LittleLines, NothingLacks
    <3>2. QED
      BY <1>0, <3>1 DEF Exists, File
  <2>5. file' = file /\ Exists("cdi") => Exists("cdi")'
    BY DEF Exists
  <2>6. QED
    BY <1>3, <2>2, <2>3, <2>4, <2>5 DEF GenerateCdi
<1>4. CASE InstallAlternative(p)
  <2>1. PieceOf(p) = "alt" /\ me[p].mode = "apply"
    BY <1>4 DEF InstallAlternative
  <2>2. CASE Leave(p) /\ file' = [file EXCEPT !["alt"] = <<Ours(me[p].comp)>>]
    <3>1. There(file', "alt", me[p].comp)
      BY <1>0, <2>2, WholeFiles DEF Piece, File
    <3>2. QED
      BY <1>1, <2>1, <2>2, <3>1 DEF Done
  <2>3. Mute(p) => Passes(p)
    BY <2>1 DEF Passes
  <2>4. QED
    BY <1>4, <2>2, <2>3 DEF InstallAlternative
<1>5. CASE RemoveAlternative(p)
  <2>1. PieceOf(p) = "alt" /\ me[p].mode = "revert"
    BY <1>5 DEF RemoveAlternative
  <2>2. CASE Leave(p) /\ file' = [file EXCEPT !["alt"] = Absent]
    <3>1. Lacking(file', "alt", me[p].comp)
      BY <1>0, <2>2, WholeFiles DEF Piece, File
    <3>2. QED
      BY <1>1, <2>1, <2>2, <3>1 DEF Done
  <2>3. QED
    BY <1>5, <2>2 DEF RemoveAlternative
<1>6. QED
  BY <1>2, <1>3, <1>4, <1>5

LEMMA EditOutcome ==
    ASSUME HostTypes, NEW p \in Proc, Edits(p), Sorted(p), Prepared(p), Keyed(p)
    PROVE  Outcome(p)
  BY BlockOutcome, FileOutcome, LineOutcome, LastOutcome DEF Edits, Sighted

-----------------------------------------------------------------------------
(* Lines stay in their files.                                              *)
LEMMA WrittenKinds ==
    ASSUME HostTypes, NEW p \in Proc, Edits(p), Sorted(p), ~BlockEdit(p), FileOf(p) \in File \ {"rc"}
    PROVE  NoKind(file'[FileOf(p)], "begin")
<1> USE DEF At, Put, Same, Tears, hostVars
<1> DEFINE f == FileOf(p)
           c == me[p].comp
<1>0. /\ DOMAIN file = File /\ me[p] \in MeType /\ f \in File /\ file[f] \in Seq(Line)
      /\ NoKind(file[f], "begin") /\ "nix" \in File \ {"rc"}
  BY Stands DEF HostTypes, Files, Sorted, File
<1>1. /\ NoKind(<<Ours(c)>>, "begin") /\ NoKind(<<Part>>, "begin") /\ NoKind(<<>>, "begin")
      /\ NoKind(Absent, "begin")
  BY LittleKinds, OursBegins
<1>2. CASE Save(p) \/ CheckBlock(p) \/ ReadBlock(p) \/ CheckFile(p) \/ CheckRemoval(p) \/ ReadLines(p) \/ ChmodKey(p) \/ Restart(p)
  BY <1>0, <1>2 DEF Save, CheckBlock, ReadBlock, CheckFile, CheckRemoval, ReadLines, ChmodKey, Restart
<1>3. CASE WriteFile(p) \/ RemoveFile(p)
  <2>1. file' = file \/ \E text \in {file[f], <<Ours(c)>>, <<Part>>, Absent} : file' = [file EXCEPT ![f] = text]
    BY <1>3 DEF WriteFile, RemoveFile
  <2>2. QED
    BY <1>0, <1>1, <2>1
<1>4. CASE Systemctl(p) \/ FetchKey(p) \/ GenerateCdi(p) \/ InstallAlternative(p) \/ RemoveAlternative(p)
  <2>1. file' = file \/ \E text \in {<<Ours(c)>>, <<Part>>, Absent} : file' = [file EXCEPT ![f] = text]
    BY <1>4 DEF Systemctl, FetchKey, GenerateCdi, InstallAlternative, RemoveAlternative, FileOf
  <2>2. QED
    BY <1>0, <1>1, <2>1
<1>5. CASE MoveConfig(p) \/ PurgeData(p)
  <2>1. file' = file \/ file' = [file EXCEPT ![f] = Absent]
    BY <1>5 DEF MoveConfig, PurgeData, Rename, FileOf
  <2>2. QED
    BY <1>0, <1>1, <2>1
<1>6. CASE CheckLine(p) \/ AppendLine(p) \/ WriteLines(p)
  <2>1. f = "nix" /\ me[p].at # "idle" /\ PieceOf(p) = "nix"
    BY <1>6 DEF CheckLine, AppendLine, WriteLines, FileOf
  <2>2. c \in Component /\ Ours(c) \in Line /\ Part \in Line /\ Ours(c)[1] # "begin" /\ Part[1] # "begin"
    BY <2>1, Stands, LinesFit, LittleLines
  <2>3. NoKind(Append(file["nix"], Ours(c)), "begin") /\ NoKind(Append(file["nix"], Part), "begin")
    BY <1>0, <2>1, <2>2, AppendKinds
  <2> DEFINE set == Range(me[p].text) \ {Ours(c)}
             x == Filtered(me[p].text, set)
  <2>4. WriteLines(p) => NoKind(x, "begin")
    <3> SUFFICES ASSUME WriteLines(p)
                 PROVE  NoKind(x, "begin")
      OBVIOUS
    <3>1. NoKind(me[p].text, "begin") /\ me[p].text \in Seq(Line)
      BY <1>0, <2>1 DEF WriteLines, Sorted, Rewrites, MeType
    <3> HIDE DEF set
    <3>2. \A y : Contains(x, y) <=> Contains(me[p].text, y) /\ y \in set
      BY <3>1, FilteredKeeps
    <3> HIDE DEF x
    <3>3. QED
      BY <3>1, <3>2, KindsOf
  <2>5. CASE CheckLine(p)
    <3>1. file' = file \/ \E text \in {file["nix"], <<>>} : file' = [file EXCEPT !["nix"] = text]
      BY <2>5 DEF CheckLine
    <3>2. QED
      BY <1>0, <1>1, <2>1, <3>1
  <2>6. CASE AppendLine(p)
    <3>1. \E text \in {file["nix"], Append(file["nix"], Ours(c)), Append(file["nix"], Part)} :
             file' = [file EXCEPT !["nix"] = text]
      BY <2>6 DEF AppendLine
    <3>2. QED
      BY <1>0, <2>1, <2>3, <3>1
  <2>7. CASE WriteLines(p)
    <3>1. \E text \in {file["nix"], <<>>, x} : file' = [file EXCEPT !["nix"] = text]
      BY <2>7 DEF WriteLines
    <3> HIDE DEF x
    <3>2. QED
      BY <1>0, <1>1, <2>1, <2>4, <2>7, <3>1
  <2>8. QED
    BY <1>6, <2>5, <2>6, <2>7
<1>7. QED
  BY <1>2, <1>3, <1>4, <1>5, <1>6 DEF Edits, Sighted, BlockEdit

LEMMA StartUpKinds ==
    ASSUME HostTypes, NEW p \in Proc, Edits(p), Sorted(p), Prepared(p)
    PROVE  NoKind(file'["rc"], "ours")
<1> USE DEF At, Put, Same, Tears, hostVars
<1>0. /\ file["rc"] \in Seq(Line) /\ DOMAIN file = File /\ "rc" \in File
      /\ me[p] \in MeType /\ Placed(me[p]) /\ Marker(p) = MarkerIn(me[p])
      /\ NoKind(file["rc"], "ours")
  BY Stands DEF HostTypes, Files, File, Sorted
<1>1. CASE ~BlockEdit(p)
  BY <1>0, <1>1, OffRc
<1>2. CASE AppendBlock(p)
  <2> DEFINE text == IF Exists("rc") THEN file["rc"] ELSE <<>>
  <2>1. me[p].comp \in Component /\ Marker(p) \in Component \cup {"PATH"}
    BY <1>0, <1>2 DEF AppendBlock, Placed, MarkerIn
  <2>2. text \in Seq(Line) /\ NoKind(text, "ours")
    BY <1>0, LittleKinds
  <2>3. \/ file' = [file EXCEPT !["rc"] = text \o Block(Marker(p), me[p].comp)]
        \/ \E n \in 0 .. 2 : file' = [file EXCEPT !["rc"] = text \o SubSeq(Block(Marker(p), me[p].comp), 1, n)]
    BY <1>2 DEF AppendBlock
  <2> HIDE DEF text
  <2>4. /\ NoKind(text \o Block(Marker(p), me[p].comp), "ours")
        /\ \A n \in 0 .. 2 : NoKind(text \o SubSeq(Block(Marker(p), me[p].comp), 1, n), "ours")
    BY <2>1, <2>2, BlockLines
  <2>5. QED
    BY <1>0, <2>3, <2>4
<1>3. CASE Truncate(p)
  <2>1. file' = file \/ file' = [file EXCEPT !["rc"] = <<>>]
    BY <1>3 DEF Truncate
  <2>2. QED
    BY <1>0, <2>1, LittleKinds
<1>4. CASE Fill(p)
  <2> DEFINE x == Excised(me[p].text, Marker(p))
  <2>1. me[p].at = "fill" /\ me[p].mode = "revert" /\ PieceOf(p) \in Blocks
    BY <1>4 DEF Fill
  <2>2. file' = file \/ file' = [file EXCEPT !["rc"] = x]
    BY <1>4 DEF Fill
  <2>3. /\ me[p].text \in Seq(Line) /\ HasBlock(me[p].text, Marker(p))
        /\ Excisable(me[p].text, Marker(p)) /\ NoKind(me[p].text, "ours")
    BY <1>0, <2>1 DEF MeType, Placed, PieceOf, Prepared, OnBlock, Sorted, Rewrites
  <2>4. \A y : Contains(x, y) => Contains(me[p].text, y)
    BY <2>3, ExcisedLines
  <2> HIDE DEF x
  <2>5. NoKind(x, "ours")
    BY <2>3, <2>4, KindsOf
  <2>6. QED
    BY <1>0, <2>2, <2>5
<1>5. QED
  BY <1>1, <1>2, <1>3, <1>4 DEF BlockEdit

LEMMA EditSorted ==
    ASSUME HostTypes, NEW p \in Proc, Edits(p), Sorted(p), Prepared(p), Outcome(p)
    PROVE  Sorted(p)'
<1>1. NoKind(file'["rc"], "ours")
  BY StartUpKinds
<1>2. ASSUME NEW f \in File \ {"rc"} PROVE NoKind(file'[f], "begin")
  <2>1. CASE f # FileOf(p)
    BY <1>2, <2>1, ElsewhereStays DEF Sorted
  <2>2. CASE f = FileOf(p)
    <3>1. ~BlockEdit(p)
      BY <2>2 DEF BlockEdit, AppendBlock, Truncate, Fill, At, Blocks, FileOf
    <3>2. QED
      BY <2>2, <3>1, WrittenKinds
  <2>3. QED
    BY <2>1, <2>2
<1>3. CASE Fails(p) \/ Dies(p) \/ Passes(p) \/ Finishes(p)
  <2>1. Ends(p) \/ Dirties(p)
    BY <1>3 DEF Ends, Passes, Finishes
  <2>2. ~Rewrites(p)'
    BY <2>1, EndsRest DEF Rewrites
  <2>3. QED
    BY <1>1, <1>2, <2>2 DEF Sorted
<1>4. CASE GoesOn(p)
  <2>1. /\ me'[p].mode = me[p].mode /\ me'[p].todo = me[p].todo /\ me'[p].text = me[p].text
        /\ Rewrites(p) \/ me[p].mode = "apply" \/ PieceOf(p) \notin Blocks \cup {"nix"}
    BY <1>4, GoMoves DEF GoesOn
  <2>2. PieceOf(p)' = PieceOf(p)
    BY <2>1 DEF PieceOf
  <2>3. QED
    BY <1>1, <1>2, <2>1, <2>2 DEF Sorted, Rewrites
<1>5. CASE ReadsIt(p)
  <2>1. me'[p].mode = me[p].mode /\ me'[p].todo = me[p].todo /\ me'[p].text = file[FileOf(p)]
    BY <1>5, GoMoves DEF ReadsIt
  <2>2. PieceOf(p)' = PieceOf(p)
    BY <2>1 DEF PieceOf
  <2>3. PieceOf(p) \in Blocks => FileOf(p) = "rc"
    BY DEF Blocks, FileOf
  <2>4. PieceOf(p) = "nix" => FileOf(p) = "nix" /\ "nix" \in File \ {"rc"}
    BY DEF FileOf, File
  <2>5. QED
    BY <1>1, <1>2, <2>1, <2>2, <2>3, <2>4 DEF Sorted
<1>6. CASE GropesOn(p)
  <2>1. me'[p].mode = "apply"
    BY <1>6, GropesMoves DEF GropesOn, Gropes
  <2>2. ~Rewrites(p)'
    BY <2>1 DEF Rewrites
  <2>3. QED
    BY <1>1, <1>2, <2>2 DEF Sorted
<1>7. QED
  BY <1>3, <1>4, <1>5, <1>6 DEF Outcome
-----------------------------------------------------------------------------
(* The ways out of a piece, field by field.                                *)
Onwards(p) == me'[p].mode = me[p].mode /\ me'[p].comp = me[p].comp /\ me'[p].bad = me[p].bad

LEMMA WaysOut ==
    ASSUME HostTypes, NEW p \in Proc
    PROVE  /\ Fails(p) => /\ me'[p].at = "check" /\ me'[p].bad /\ me'[p].mode = me[p].mode
                          /\ me'[p].todo = AfterFailure(me[p].todo)
           /\ Dies(p) => me'[p].at = "idle" /\ me'[p].mode = "none"
           /\ Leave(p) \/ Dirties(p) => /\ Onwards(p) /\ me'[p].at = "check" /\ me'[p].todo = Tail(me[p].todo)
                                        /\ me'[p].mute = me[p].mute
           /\ Mute(p) => /\ Onwards(p) /\ me'[p].at = "check" /\ me'[p].todo = Tail(me[p].todo)
                         /\ me'[p].mute = me[p].mute \cup {PieceOf(p)}
           /\ GoesOn(p) \/ ReadsIt(p) => /\ Onwards(p) /\ me'[p].todo = me[p].todo /\ me'[p].mute = me[p].mute
                                         /\ me'[p].at # "idle"
<1>1. DOMAIN me = Proc /\ me[p] \in MeType
  BY DEF HostTypes, Crew
<1>2. Fails(p) => /\ me'[p].at = "check" /\ me'[p].bad /\ me'[p].mode = me[p].mode
                  /\ me'[p].todo = AfterFailure(me[p].todo)
  BY <1>1 DEF Fails, MeType
<1>3. Dies(p) => me'[p].at = "idle" /\ me'[p].mode = "none"
  BY <1>1 DEF Dies, Idle
<1>4. Leave(p) \/ Dirties(p) => /\ Onwards(p) /\ me'[p].at = "check" /\ me'[p].todo = Tail(me[p].todo)
                                /\ me'[p].mute = me[p].mute
  BY <1>1 DEF Leave, Dirties, Onwards, MeType
<1>5. Mute(p) => /\ Onwards(p) /\ me'[p].at = "check" /\ me'[p].todo = Tail(me[p].todo)
                 /\ me'[p].mute = me[p].mute \cup {PieceOf(p)}
  BY <1>1 DEF Mute, Onwards, MeType, PieceOf
<1>6. GoesOn(p) \/ ReadsIt(p) => /\ Onwards(p) /\ me'[p].todo = me[p].todo /\ me'[p].mute = me[p].mute
                                 /\ me'[p].at # "idle"
  BY <1>1 DEF GoesOn, Go, ReadsIt, Onwards, MeType
<1>7. QED
  BY <1>2, <1>3, <1>4, <1>5, <1>6

LEMMA EditsHave ==
    ASSUME HostTypes, NEW p \in Proc, Edits(p)
    PROVE  /\ me[p].at # "idle" /\ me[p].todo # <<>> /\ me[p].mode \in {"apply", "revert"}
           /\ me[p].todo \in Seq(Piece) /\ me[p].comp \in Component
<1>1. me[p] \in MeType /\ Placed(me[p])
  BY Stands
<1>2. me[p].at # "idle"
  BY EditsAt
<1>3. me[p].todo # <<>>
  <2>1. CASE Save(p)
    BY <1>1, <2>1 DEF Save, Placed
  <2>2. CASE CheckBlock(p) \/ AppendBlock(p) \/ ReadBlock(p) \/ Truncate(p) \/ Fill(p)
    BY <2>2 DEF CheckBlock, AppendBlock, ReadBlock, Truncate, Fill, At
  <2>3. CASE CheckFile(p) \/ WriteFile(p) \/ CheckRemoval(p) \/ RemoveFile(p) \/ Systemctl(p) \/ FetchKey(p) \/ ChmodKey(p)
    BY <2>3 DEF CheckFile, WriteFile, CheckRemoval, RemoveFile, Systemctl, FetchKey, ChmodKey, At
  <2>4. CASE CheckLine(p) \/ AppendLine(p) \/ ReadLines(p) \/ WriteLines(p) \/ Restart(p)
    BY <2>4 DEF CheckLine, AppendLine, ReadLines, WriteLines, Restart, At
  <2>5. CASE GenerateCdi(p) \/ InstallAlternative(p) \/ RemoveAlternative(p) \/ MoveConfig(p) \/ PurgeData(p)
    BY <2>5 DEF GenerateCdi, InstallAlternative, RemoveAlternative, MoveConfig, PurgeData, At
  <2>6. QED
    BY <2>1, <2>2, <2>3, <2>4, <2>5 DEF Edits, Sighted
<1>4. QED
  BY <1>1, <1>2, <1>3 DEF MeType, Placed

(* Whatever an apply edits, a key stays; whatever a revert does, no list   *)
(* comes back.                                                             *)
LEMMA KeyStays ==
    ASSUME HostTypes, NEW p \in Proc, Edits(p)
    PROVE  /\ me[p].mode = "apply" /\ Exists("key") => Exists("key")'
           /\ me[p].mode = "revert" /\ Unlisted => Unlisted'
<1> USE DEF At, Put, Same, Tears, hostVars
<1>0. DOMAIN file = File /\ "key" \in File /\ "list" \in File
  BY DEF HostTypes, Files, File
<1>1. CASE FileOf(p) \notin {"key", "list"}
  <2>1. file'["key"] = file["key"] /\ file'["list"] = file["list"]
    BY <1>0, <1>1, ElsewhereStays
  <2>2. QED
    BY <2>1 DEF Exists, Unlisted
<1>2. ASSUME file' = file
      PROVE  (Exists("key") => Exists("key")') /\ (Unlisted => Unlisted')
  BY <1>2 DEF Exists, Unlisted
<1>3. CASE FileOf(p) = "key"
  <2>1. PieceOf(p) = "key" /\ (Unlisted => Unlisted')
    BY <1>0, <1>3, ElsewhereStays DEF FileOf, Unlisted
  <2>2. me[p].mode = "apply" /\ Exists("key") => file' = file
    <3>1. CASE Save(p) \/ FetchKey(p) \/ ChmodKey(p)
      BY <3>1 DEF Save, FetchKey, ChmodKey
    <3>2. CASE CheckRemoval(p) \/ RemoveFile(p)
      BY <3>2 DEF CheckRemoval, RemoveFile
    <3>3. CASE CheckBlock(p) \/ AppendBlock(p) \/ ReadBlock(p) \/ Truncate(p) \/ Fill(p) \/ CheckFile(p) \/ WriteFile(p) \/ Systemctl(p)
      BY <2>1, <3>3 DEF CheckBlock, AppendBlock, ReadBlock, Truncate, Fill, CheckFile, WriteFile, Systemctl, Blocks, Owned
    <3>4. CASE CheckLine(p) \/ AppendLine(p) \/ ReadLines(p) \/ WriteLines(p) \/ Restart(p)
      BY <2>1, <3>4 DEF CheckLine, AppendLine, ReadLines, WriteLines, Restart
    <3>5. CASE GenerateCdi(p) \/ InstallAlternative(p) \/ RemoveAlternative(p) \/ MoveConfig(p) \/ PurgeData(p)
      BY <2>1, <3>5 DEF GenerateCdi, InstallAlternative, RemoveAlternative, MoveConfig, PurgeData
    <3>6. QED
      BY <3>1, <3>2, <3>3, <3>4, <3>5 DEF Edits, Sighted
  <2>3. QED
    BY <1>2, <2>1, <2>2
<1>4. CASE FileOf(p) = "list"
  <2>1. PieceOf(p) = "list" /\ (Exists("key") => Exists("key")')
    BY <1>0, <1>4, ElsewhereStays DEF FileOf, Exists
  <2>2. me[p].mode = "revert" => file' = file \/ file' = [file EXCEPT !["list"] = Absent]
    <3>1. CASE Save(p) \/ CheckRemoval(p) \/ RemoveFile(p)
      BY <1>4, <3>1 DEF Save, CheckRemoval, RemoveFile
    <3>2. CASE CheckFile(p) \/ WriteFile(p)
      BY <3>2 DEF CheckFile, WriteFile
    <3>3. CASE CheckBlock(p) \/ AppendBlock(p) \/ ReadBlock(p) \/ Truncate(p) \/ Fill(p) \/ Systemctl(p) \/ FetchKey(p) \/ ChmodKey(p)
      BY <2>1, <3>3 DEF CheckBlock, AppendBlock, ReadBlock, Truncate, Fill, Systemctl, FetchKey, ChmodKey, Blocks
    <3>4. CASE CheckLine(p) \/ AppendLine(p) \/ ReadLines(p) \/ WriteLines(p) \/ Restart(p)
      BY <2>1, <3>4 DEF CheckLine, AppendLine, ReadLines, WriteLines, Restart
    <3>5. CASE GenerateCdi(p) \/ InstallAlternative(p) \/ RemoveAlternative(p) \/ MoveConfig(p) \/ PurgeData(p)
      BY <2>1, <3>5 DEF GenerateCdi, InstallAlternative, RemoveAlternative, MoveConfig, PurgeData
    <3>6. QED
      BY <3>1, <3>2, <3>3, <3>4, <3>5 DEF Edits, Sighted
  <2>3. file' = [file EXCEPT !["list"] = Absent] => Unlisted'
    BY <1>0 DEF Unlisted
  <2>4. QED
    BY <1>2, <2>1, <2>2, <2>3
<1>5. QED
  BY <1>1, <1>3, <1>4

(* A list is there with its key, or not yet, or no more.                   *)
LEMMA EditPaired ==
    ASSUME HostTypes, NEW p \in Proc, Edits(p), Keyed(p), Unlisted \/ Exists("key")
    PROVE  Unlisted' \/ Exists("key")'
<1>1. me[p].todo \in Seq(Piece) /\ me[p].todo # <<>> /\ me[p].mode \in {"apply", "revert"}
  BY EditsHave
<1>2. /\ \A x : Contains(me[p].todo, x) <=> x = PieceOf(p) \/ Contains(Tail(me[p].todo), x)
      /\ \A x, y : Before(x, y, me[p].todo) /\ PieceOf(p) = y => ~Contains(Tail(me[p].todo), x)
  BY <1>1, TailKeeps DEF PieceOf
<1>3. PieceOf(p) # "key" => (Exists("key") => Exists("key")')
  <2>1. PieceOf(p) # "key" => FileOf(p) # "key"
    BY DEF FileOf
  <2>2. QED
    BY <2>1, ElsewhereStays DEF Exists, File
<1>4. PieceOf(p) # "list" => (Unlisted => Unlisted')
  <2>1. PieceOf(p) # "list" => FileOf(p) # "list"
    BY DEF FileOf
  <2>2. QED
    BY <2>1, ElsewhereStays DEF Unlisted, File
<1>5. CASE me[p].mode = "apply"
  <2>1. PieceOf(p) = "list" => Exists("key")
    BY <1>2, <1>5 DEF Keyed
  <2>2. QED
    BY <1>4, <1>5, <2>1, KeyStays
<1>6. CASE me[p].mode = "revert"
  <2>1. PieceOf(p) = "key" => Unlisted
    BY <1>2, <1>6 DEF Keyed
  <2>2. QED
    BY <1>3, <1>6, <2>1, KeyStays
<1>7. QED
  BY <1>1, <1>5, <1>6

LEMMA EditKeyed ==
    ASSUME HostTypes, NEW p \in Proc, Edits(p), Keyed(p), Outcome(p)
    PROVE  Keyed(p)'
<1>1. me[p].todo \in Seq(Piece) /\ me[p].todo # <<>> /\ me[p].mode \in {"apply", "revert"}
  BY EditsHave
<1> DEFINE todo == me[p].todo
<1>2. /\ \A x : Contains(todo, x) <=> x = PieceOf(p) \/ Contains(Tail(todo), x)
      /\ \A x, y : Before(x, y, todo) => Before(x, y, Tail(todo))
      /\ \A x, y : Before(x, y, todo) /\ PieceOf(p) = y => ~Contains(Tail(todo), x)
  BY <1>1, TailKeeps DEF PieceOf
<1>3. /\ \A x, y : Before(x, y, todo) => Before(x, y, AfterFailure(todo))
      /\ PieceOf(p) \in {"key", "list"}
           => ~Contains(AfterFailure(todo), "key") /\ ~Contains(AfterFailure(todo), "list")
      /\ PieceOf(p) \notin {"key", "list"}
           => \A x \in {"key", "list"} : Contains(AfterFailure(todo), x) <=> Contains(todo, x)
  BY <1>1, AfterFailureKeeps DEF PieceOf
<1>4. /\ me[p].mode = "apply" /\ Exists("key") => Exists("key")'
      /\ me[p].mode = "revert" /\ Unlisted => Unlisted'
  BY KeyStays
<1>5. /\ me[p].mode = "apply" =>
           /\ Before("key", "list", todo)
           /\ Contains(todo, "list") /\ ~Contains(todo, "key") => Exists("key")
      /\ me[p].mode = "revert" =>
           /\ Before("list", "key", todo)
           /\ Contains(todo, "key") /\ ~Contains(todo, "list") => Unlisted
  BY DEF Keyed
<1> HIDE DEF todo
<1>6. CASE Fails(p)
  <2>1. me'[p].at = "check" /\ me'[p].mode = me[p].mode /\ me'[p].todo = AfterFailure(todo)
    BY <1>6, WaysOut DEF todo
  <2>2. QED
    BY <1>3, <1>4, <1>5, <2>1 DEF Keyed
<1>7. CASE Dies(p)
  <2>1. me'[p].at = "idle" /\ me'[p].mode = "none"
    BY <1>7, WaysOut
  <2>2. QED
    BY <2>1 DEF Keyed
<1>8. CASE Passes(p) \/ Finishes(p)
  <2>1. me'[p].at = "check" /\ me'[p].mode = me[p].mode /\ me'[p].todo = Tail(todo)
    BY <1>8, WaysOut DEF Passes, Finishes, Onwards, todo
  <2>2. /\ me[p].mode = "apply" /\ PieceOf(p) = "key" => Exists("key")'
        /\ me[p].mode = "revert" /\ PieceOf(p) = "list" => Unlisted'
    BY <1>8 DEF Passes, Finishes, Done
  <2>3. QED
    BY <1>2, <1>4, <1>5, <2>1, <2>2 DEF Keyed
<1>9. CASE GoesOn(p) \/ ReadsIt(p)
  <2>1. me'[p].mode = me[p].mode /\ me'[p].todo = todo
    BY <1>9, WaysOut DEF Onwards, todo
  <2>2. me'[p].at = "chmod" => Exists("key")'
    BY <1>9, GoMoves DEF GoesOn, ReadsIt
  <2>3. QED
    BY <1>4, <1>5, <2>1, <2>2 DEF Keyed
<1>10. CASE GropesOn(p)
  <2>1. me'[p].mode = me[p].mode /\ me'[p].todo = todo /\ me'[p].at = "save"
    BY <1>10, GropesMoves DEF GropesOn, todo
  <2>2. QED
    BY <1>4, <1>5, <2>1 DEF Keyed
<1>11. QED
  BY <1>6, <1>7, <1>8, <1>9, <1>10 DEF Outcome

(* A piece that is done with stays as it is while another is edited, the   *)
(* other block of the start-up file included.                              *)
LEMMA BesideStays ==
    ASSUME HostTypes, NEW p \in Proc, Edits(p), Sorted(p), Prepared(p), NEW q \in Piece, q # PieceOf(p)
    PROVE  LET c == me[p].comp IN
           /\ me[p].mode = "apply" /\ There(file, q, c) => There(file', q, c)
           /\ /\ me[p].mode = "revert" /\ Lacking(file, q, c)
              /\ OnBlock(p) /\ q \in Blocks => ~Contains(me[p].text, Begin(MarkOf(q, c)))
              => Lacking(file', q, c)
<1> USE DEF At, Put, Same, Tears, hostVars
<1> DEFINE c == me[p].comp
           m == MarkOf(q, c)
<1>0. /\ file["rc"] \in Seq(Line) /\ DOMAIN file = File /\ "rc" \in File
      /\ me[p] \in MeType /\ Placed(me[p]) /\ Marker(p) = MarkerIn(me[p])
  BY Stands DEF HostTypes, Files, File
<1>1. CASE FileOf(p) # Home(q)
  <2>1. Home(q) \in File => file'[Home(q)] = file[Home(q)]
    BY <1>1, ElsewhereStays
  <2>2. q \in Sought \cup {"list", "cdi", "alt"} => Home(q) \in File
    BY DEF Home, Sought, Blocks, Removed, File
  <2>3. /\ q \in Blocks => Home(q) = "rc" /\ q \in Sought
        /\ q \in {"nix", "list", "cdi", "alt"} => Home(q) = q /\ q \in Sought
    BY DEF Home, Sought, Blocks, Removed
  <2>4. There(file, q, c) => There(file', q, c)
    BY <2>1, <2>2, <2>3 DEF There
  <2>5. Lacking(file, q, c) => Lacking(file', q, c)
    BY <2>1, <2>2 DEF Lacking
  <2>6. QED
    BY <2>4, <2>5
<1>2. CASE FileOf(p) = Home(q)
  <2>1. q \in Blocks /\ PieceOf(p) \in Blocks /\ Home(q) = "rc" /\ q \notin {"nix", "list", "cdi", "alt"}
    BY <1>2 DEF FileOf, Home, Blocks, Piece
  <2>2. /\ There(file, q, c) <=> Contains(file["rc"], Begin(m))
        /\ There(file', q, c) <=> Contains(file'["rc"], Begin(m))
    BY <2>1 DEF There
  <2>3. /\ Lacking(file, q, c) <=> ~Contains(file["rc"], Begin(m)) /\ ~Contains(file["rc"], Ours(c))
        /\ Lacking(file', q, c) <=> ~Contains(file'["rc"], Begin(m)) /\ ~Contains(file'["rc"], Ours(c))
    BY <2>1 DEF Lacking, Sought
  <2>4. ~Contains(file'["rc"], Ours(c))
    BY StartUpKinds, NoKindLacks
  <2> HIDE DEF m
  <2>5. CASE ~BlockEdit(p)
    <3>1. file'["rc"] = file["rc"]
      BY <2>5, OffRc
    <3>2. QED
      BY <2>2, <2>3, <3>1 DEF m
  <2>6. CASE AppendBlock(p)
    <3>1. me[p].mode = "apply" /\ c \in Component /\ Marker(p) \in Component \cup {"PATH"}
      BY <1>0, <2>6 DEF AppendBlock, Placed, MarkerIn
    <3>2. Contains(file["rc"], Begin(m)) => Contains(file'["rc"], Begin(m))
      <4> SUFFICES ASSUME Contains(file["rc"], Begin(m))
                   PROVE  Contains(file'["rc"], Begin(m))
        OBVIOUS
      <4>1. Exists("rc")
        BY NothingLacks DEF Exists
      <4>2. \/ file'["rc"] = file["rc"] \o Block(Marker(p), c)
            \/ \E n \in 0 .. 2 : file'["rc"] = file["rc"] \o SubSeq(Block(Marker(p), c), 1, n)
        BY <1>0, <2>6, <4>1 DEF AppendBlock
      <4>3. /\ Block(Marker(p), c) \in Seq(Line)
            /\ \A n \in 0 .. 2 : SubSeq(Block(Marker(p), c), 1, n) \in Seq(Line)
        <5>1. Begin(Marker(p)) \in Line /\ Body(c) \in Line /\ End(Marker(p)) \in Line
          BY <3>1, LinesFit
        <5>2. Block(Marker(p), c) \in Seq(Line) /\ Len(Block(Marker(p), c)) = 3
          BY <5>1 DEF Block
        <5>3. \A n \in 0 .. 2 : n \in Nat /\ n <= 3
          OBVIOUS
        <5>4. QED
          BY <5>2, <5>3, StartsFit
      <4>4. PICK back \in Seq(Line) : file'["rc"] = file["rc"] \o back
        BY <4>2, <4>3
      <4>5. QED
        BY <1>0, <4>4, JoinedLines
    <3>3. QED
      BY <2>2, <3>1, <3>2 DEF m
  <2>7. CASE Truncate(p)
    <3>1. me[p].mode = "revert" /\ (file' = file \/ file'["rc"] = <<>>)
      BY <1>0, <2>7 DEF Truncate
    <3>2. Contains(file'["rc"], Begin(m)) => Contains(file["rc"], Begin(m))
      BY <3>1, LittleLines
    <3>3. QED
      BY <2>3, <2>4, <3>1, <3>2 DEF m
  <2>8. CASE Fill(p)
    <3> DEFINE x == Excised(me[p].text, Marker(p))
    <3>1. me[p].at = "fill" /\ me[p].mode = "revert" /\ OnBlock(p)
      BY <2>8 DEF Fill, OnBlock
    <3>2. file' = file \/ file'["rc"] = x
      BY <1>0, <2>8 DEF Fill
    <3>3. /\ me[p].text \in Seq(Line) /\ HasBlock(me[p].text, Marker(p))
          /\ Excisable(me[p].text, Marker(p))
      BY <1>0, <2>1, <3>1 DEF MeType, Placed, PieceOf, Prepared
    <3>4. \A y : Contains(x, y) => Contains(me[p].text, y)
      BY <3>3, ExcisedLines
    <3> HIDE DEF x
    <3>5. QED
      BY <2>1, <2>3, <2>4, <3>1, <3>2, <3>4 DEF m
  <2>9. QED
    BY <2>5, <2>6, <2>7, <2>8 DEF BlockEdit
<1>3. QED
  BY <1>1, <1>2

LEMMA EditTold ==
    ASSUME HostTypes, NEW p \in Proc, Edits(p), scene' = scene, Sorted(p), Prepared(p), Told(p), Outcome(p)
    PROVE  Told(p)'
<1> DEFINE c == me[p].comp
           todo == me[p].todo
<1>0. /\ todo \in Seq(Piece) /\ todo # <<>> /\ me[p].at # "idle" /\ c \in Component
      /\ scene.declares[c] \subseteq Piece
  BY EditsHave, SceneFits DEF HostTypes
<1>1. \A x : Contains(todo, x) <=> x = PieceOf(p) \/ Contains(Tail(todo), x)
  BY <1>0, TailKeeps DEF PieceOf
<1>2. CASE Fails(p) \/ Dies(p)
  BY <1>2, WaysOut DEF Told
<1>3. ASSUME Onwards(p), ~me[p].bad, NEW q \in Behind(p)
      PROVE  /\ q # PieceOf(p) /\ q \in Piece
             /\ me[p].mode = "apply" => There(file', q, c)
             /\ me[p].mode = "revert" => Lacking(file', q, c)
  <2>1. q # PieceOf(p) /\ q \in Piece
    BY <1>0, <1>1, <1>3 DEF Behind
  <2>2. /\ me[p].mode = "apply" => There(file, q, c)
        /\ me[p].mode = "revert" =>
             /\ Lacking(file, q, c)
             /\ OnBlock(p) /\ q \in Blocks => ~Contains(me[p].text, Begin(MarkOf(q, c)))
    BY <1>0, <1>3 DEF Told
  <2>3. QED
    BY <2>1, <2>2, BesideStays
<1>4. CASE Passes(p) \/ Finishes(p)
  <2>1. /\ Onwards(p) /\ me'[p].todo = Tail(todo) /\ me'[p].at = "check"
        /\ \/ Passes(p) /\ me'[p].mute = me[p].mute \cup {PieceOf(p)}
           \/ Finishes(p) /\ me'[p].mute = me[p].mute
    BY <1>4, WaysOut DEF Passes, Finishes
  <2>2. ~OnBlock(p)'
    BY <2>1 DEF OnBlock
  <2>3. \A q \in Behind(p)' : q \in Behind(p) \/ (q = PieceOf(p) /\ Finishes(p))
    BY <1>1, <2>1 DEF Behind, Onwards
  <2>4. SUFFICES ASSUME ~me'[p].bad, NEW q \in Behind(p)'
                 PROVE  /\ me'[p].mode = "apply" => There(file', q, c)
                        /\ me'[p].mode = "revert" => Lacking(file', q, c)
    BY <2>1, <2>2, <2>4 DEF Told, Onwards
  <2>5. CASE q \in Behind(p)
    BY <1>3, <2>1, <2>4, <2>5 DEF Onwards
  <2>6. CASE q = PieceOf(p) /\ Finishes(p)
    BY <2>1, <2>6 DEF Finishes, Done, Onwards
  <2>7. QED
    BY <2>3, <2>5, <2>6
<1>5. CASE GoesOn(p) \/ ReadsIt(p)
  <2>1. Onwards(p) /\ me'[p].todo = todo /\ me'[p].mute = me[p].mute
    BY <1>5, WaysOut
  <2>2. Behind(p)' = Behind(p) /\ PieceOf(p)' = PieceOf(p)
    BY <2>1 DEF Behind, Onwards, PieceOf
  <2>3. ASSUME ~me[p].bad, me[p].mode = "revert", OnBlock(p)', NEW q \in Behind(p), q \in Blocks
        PROVE  ~Contains(me'[p].text, Begin(MarkOf(q, c)))
    <3>1. PieceOf(p) \in Blocks
      BY <2>2, <2>3 DEF OnBlock
    <3>2. /\ Lacking(file, q, c)
          /\ OnBlock(p) => ~Contains(me[p].text, Begin(MarkOf(q, c)))
      BY <1>0, <2>3 DEF Told
    <3>3. CASE GoesOn(p)
      <4>1. Rewrites(p) /\ me'[p].text = me[p].text
        BY <2>3, <3>1, <3>3, GoMoves DEF GoesOn
      <4>2. QED
        BY <3>1, <3>2, <4>1 DEF OnBlock, Rewrites
    <3>4. CASE ReadsIt(p)
      <4>1. FileOf(p) = "rc"
        BY <3>1 DEF FileOf, Blocks
      <4>2. me'[p].text = file[FileOf(p)]
        BY <3>4, GoMoves DEF ReadsIt
      <4>3. me'[p].text = file["rc"]
        BY <4>1, <4>2
      <4>4. q \in Sought /\ Home(q) = "rc"
        BY <2>3 DEF Sought, Home, Blocks
      <4>5. QED
        BY <3>2, <4>3, <4>4 DEF Lacking
    <3>5. QED
      BY <1>5, <3>3, <3>4
  <2>4. QED
    BY <1>0, <1>3, <2>1, <2>2, <2>3 DEF Told, Onwards
<1>6. CASE GropesOn(p)
  <2>1. /\ Onwards(p) /\ me'[p].todo = todo /\ me'[p].mute = me[p].mute \cup {PieceOf(p)}
        /\ me[p].mode = "apply"
    BY <1>6, GropesMoves DEF GropesOn, Gropes, Onwards
  <2>2. \A q \in Behind(p)' : q \in Behind(p)
    BY <2>1 DEF Behind, Onwards
  <2>3. QED
    BY <1>3, <2>1, <2>2 DEF Told, Onwards
<1>7. QED
  BY <1>2, <1>4, <1>5, <1>6 DEF Outcome
-----------------------------------------------------------------------------
(* One envctl at a time: the others have nothing in hand.                  *)
LEMMA IdleTold ==
    ASSUME NEW p, me[p] = Idle
    PROVE  ~Rewrites(p) /\ Told(p) /\ Keyed(p)
  BY DEF Idle, Rewrites, Told, Keyed

LEMMA IdleTells == ASSUME NEW p, me'[p] = Idle PROVE ~Rewrites(p)' /\ Told(p)' /\ Keyed(p)'
  BY DEF Idle, Rewrites, Told, Keyed

LEMMA ReportStep ==
    ASSUME BlocksInv, NEW p \in Proc, p \in scene.crew, scene' = scene, Alone(p),
           Solo => (Unlisted' \/ Exists("key")') /\ Sorted(p)' /\ Told(p)' /\ Keyed(p)'
    PROVE  ReportInv'
<1> SUFFICES ASSUME Solo
             PROVE  (Unlisted' \/ Exists("key")') /\ \A q \in Proc : Sorted(q)' /\ Told(q)' /\ Keyed(q)'
  BY DEF ReportInv, Solo
<1>1. ASSUME NEW q \in Proc, q # p PROVE Sorted(q)' /\ Told(q)' /\ Keyed(q)'
  <2>1. me'[q] = Idle
    BY <1>1 DEF Solo, BlocksInv, Alone
  <2>2. ~Rewrites(q)' /\ Told(q)' /\ Keyed(q)'
    BY <2>1, IdleTells
  <2>3. QED
    BY <2>2 DEF Sorted
<1>2. QED
  BY <1>1

LEMMA ReportElse ==
    ASSUME ReportInv, UNCHANGED <<scene, me, file>>
    PROVE  ReportInv'
<1>1. ASSUME NEW p \in Proc, Sorted(p), Told(p), Keyed(p)
      PROVE  Sorted(p)' /\ Told(p)' /\ Keyed(p)'
  <2>1. Sorted(p)'
    BY <1>1 DEF Sorted, Rewrites, PieceOf
  <2>2. Told(p)'
    BY <1>1 DEF Told, Behind, OnBlock, PieceOf
  <2>3. Keyed(p)'
    BY <1>1 DEF Keyed, Exists, Unlisted
  <2>4. QED
    BY <2>1, <2>2, <2>3
<1>2. QED
  BY <1>1 DEF ReportInv, Solo, Unlisted, Exists

LEMMA DiesReport ==
    ASSUME HostTypes, BlocksInv, ReportInv, NEW p \in Proc, p \in scene.crew, Dies(p), UNCHANGED <<scene, file>>
    PROVE  ReportInv'
<1>1. me'[p] = Idle /\ Alone(p)
  BY DiesRest DEF HostTypes, Crew, Dies
<1>2. ~Rewrites(p)' /\ Told(p)' /\ Keyed(p)'
  BY <1>1, IdleTells
<1>3. Solo => (Unlisted' \/ Exists("key")') /\ Sorted(p)'
  BY <1>2 DEF ReportInv, Sorted, Unlisted, Exists
<1>4. QED
  BY <1>1, <1>2, <1>3, ReportStep

(* A call sets out with all that its component declares.                   *)
Covers(pieces, c) ==
    /\ \A q \in scene.declares[c] : Contains(pieces, q) \/ q \in {"restart", "config", "data"}
    /\ Contains(pieces, "key") <=> Contains(pieces, "list")

LEMMA EnterReport ==
    ASSUME HostTypes, BlocksInv, ReportInv, NEW p \in Proc, p \in scene.crew, UNCHANGED <<scene, file>>, Alone(p),
           NEW mode \in {"apply", "revert"}, NEW c \in Component, NEW pieces \in Seq(Piece), NEW keep, NEW purge,
           Enter(p, mode, c, pieces, keep, purge), Covers(pieces, c),
           mode = "apply" => Before("key", "list", pieces),
           mode = "revert" => Before("list", "key", pieces)
    PROVE  ReportInv'
<1>1. /\ me'[p].at = "check" /\ me'[p].mode = mode /\ me'[p].comp = c /\ me'[p].todo = pieces
      /\ me'[p].mute = {}
  <2>1. DOMAIN me = Proc
    BY DEF HostTypes, Crew
  <2>2. QED
    BY <2>1 DEF Enter, Idle
<1>2. Solo => (Unlisted' \/ Exists("key")') /\ Sorted(p)'
  BY <1>1 DEF ReportInv, Sorted, Rewrites, Unlisted, Exists
<1>3. Keyed(p)'
  BY <1>1 DEF Keyed, Covers
<1>4. Told(p)'
  <2>1. \A q \in Behind(p)' : q \in {"restart", "config", "data"}
    BY <1>1 DEF Behind, Covers
  <2>2. \A q \in {"restart", "config", "data"} : There(file', q, c) /\ Lacking(file', q, c) /\ q \notin Blocks
    BY DEF There, Lacking, Sought, Blocks, Removed
  <2>3. QED
    BY <1>1, <2>1, <2>2 DEF Told
<1>5. QED
  BY <1>2, <1>3, <1>4, ReportStep

LEMMA Orders ==
    /\ ApplyOrder \in Seq(Piece) /\ RevertOrder \in Seq(Piece)
    /\ \A q \in Piece \ {"config", "data"} : Contains(ApplyOrder, q)
    /\ \A q \in Piece : Contains(RevertOrder, q)
    /\ Before("key", "list", ApplyOrder) /\ Before("list", "key", RevertOrder)
<1>1. ApplyOrder \in Seq(Piece) /\ RevertOrder \in Seq(Piece)
  BY DEF ApplyOrder, RevertOrder, Piece
<1>2. \A q \in Piece \ {"config", "data"} : Contains(ApplyOrder, q)
  <2>1. /\ Len(ApplyOrder) = 11
        /\ ApplyOrder[1] = "path" /\ ApplyOrder[2] = "rc" /\ ApplyOrder[3] = "desktop" /\ ApplyOrder[4] = "unit"
        /\ ApplyOrder[5] = "service" /\ ApplyOrder[6] = "key" /\ ApplyOrder[7] = "list" /\ ApplyOrder[8] = "nix"
        /\ ApplyOrder[9] = "restart" /\ ApplyOrder[10] = "cdi" /\ ApplyOrder[11] = "alt"
    BY DEF ApplyOrder
  <2>2. QED
    BY <2>1 DEF Contains, Piece
<1>3. \A q \in Piece : Contains(RevertOrder, q)
  <2>1. /\ Len(RevertOrder) = 13
        /\ RevertOrder[1] = "path" /\ RevertOrder[2] = "rc" /\ RevertOrder[3] = "desktop" /\ RevertOrder[4] = "service"
        /\ RevertOrder[5] = "unit" /\ RevertOrder[6] = "list" /\ RevertOrder[7] = "key" /\ RevertOrder[8] = "nix"
        /\ RevertOrder[9] = "restart" /\ RevertOrder[10] = "cdi" /\ RevertOrder[11] = "alt"
        /\ RevertOrder[12] = "config" /\ RevertOrder[13] = "data"
    BY DEF RevertOrder
  <2>2. QED
    BY <2>1 DEF Contains, Piece
<1>4. Before("key", "list", ApplyOrder)
  <2>1. \A i \in 1 .. Len(ApplyOrder) : /\ ApplyOrder[i] = "key" => i = 6
                                        /\ ApplyOrder[i] = "list" => i = 7
    BY DEF ApplyOrder
  <2>2. QED
    BY <2>1 DEF Before
<1>5. Before("list", "key", RevertOrder)
  <2>1. \A i \in 1 .. Len(RevertOrder) : /\ RevertOrder[i] = "key" => i = 7
                                         /\ RevertOrder[i] = "list" => i = 6
    BY DEF RevertOrder
  <2>2. QED
    BY <2>1 DEF Before
<1>6. QED
  BY <1>1, <1>2, <1>3, <1>4, <1>5

LEMMA DeclaredCovers ==
    ASSUME scene \in Scenes, NEW c \in Component, NEW order \in {ApplyOrder, RevertOrder}
    PROVE  /\ Covers(DeclaredIn(c, order), c)
           /\ order = ApplyOrder => Before("key", "list", DeclaredIn(c, order))
           /\ order = RevertOrder => Before("list", "key", DeclaredIn(c, order))
<1> DEFINE set == {q \in Piece : (IF q = "restart" THEN "nix" ELSE q) \in scene.declares[c]}
           all == DeclaredIn(c, order)
<1>1. order \in Seq(Piece) /\ \A q \in Piece \ {"config", "data"} : Contains(order, q)
  BY Orders
<1>2. all = Filtered(order, set)
  BY DEF DeclaredIn
<1>3. /\ scene.declares[c] \subseteq Piece /\ {"key", "list"} \subseteq Piece \ {"config", "data", "restart"}
      /\ \A q \in Piece \ {"restart"} : q \in set <=> q \in scene.declares[c]
  BY SceneFits DEF Piece
<1>4. "key" \in scene.declares[c] <=> "list" \in scene.declares[c]
  BY ScenesAssumption
<1> HIDE DEF all, set
<1>5. /\ \A x : Contains(all, x) <=> Contains(order, x) /\ x \in set
      /\ \A x, y : Before(x, y, order) => Before(x, y, all)
  BY <1>1, <1>2, FilteredKeeps
<1>6. Covers(all, c)
  BY <1>1, <1>3, <1>4, <1>5 DEF Covers
<1>7. QED
  BY <1>5, <1>6, Orders DEF all

LEMMA WiringReport ==
    ASSUME HostTypes, BlocksInv, ReportInv, NEW p \in Proc, p \in scene.crew, WiringStep(p)
    PROVE  ReportInv'
<1>1. CASE EditStep(p)
  <2>1. Edits(p) /\ scene' = scene
    BY <1>1 DEF EditStep
  <2>2. Alone(p)
    BY <2>1, EditsCrew
  <2>3. ASSUME Solo PROVE (Unlisted' \/ Exists("key")') /\ Sorted(p)' /\ Told(p)' /\ Keyed(p)'
    <3>1. (Unlisted \/ Exists("key")) /\ Sorted(p) /\ Told(p) /\ Keyed(p) /\ Prepared(p)
      BY <2>3 DEF ReportInv, BlocksInv
    <3>2. Outcome(p)
      BY <2>1, <3>1, EditOutcome
    <3>3. QED
      BY <2>1, <3>1, <3>2, EditPaired, EditSorted, EditTold, EditKeyed
  <2>4. QED
    BY <2>1, <2>2, <2>3, ReportStep
<1>2. CASE CallStep(p)
  <2>1. UNCHANGED <<scene, file>> /\ (Apply(p) \/ Revert(p)) /\ scene \in Scenes
    BY <1>2 DEF CallStep, hostVars, HostTypes
  <2>2. Alone(p)
    BY <2>1, CallCrew
  <2>3. CASE Apply(p)
    <3>1. PICK c \in Component : Enter(p, "apply", c, DeclaredIn(c, ApplyOrder), FALSE, FALSE)
      BY <2>3 DEF Apply
    <3>2. /\ DeclaredIn(c, ApplyOrder) \in Seq(Piece) /\ Covers(DeclaredIn(c, ApplyOrder), c)
          /\ Before("key", "list", DeclaredIn(c, ApplyOrder))
      BY <2>1, DeclaredFits, DeclaredCovers
    <3>3. QED
      BY <2>1, <2>2, <3>1, <3>2, EnterReport
  <2>4. CASE Revert(p)
    <3>1. PICK c \in Component, keep, purge \in BOOLEAN : Enter(p, "revert", c, DeclaredIn(c, RevertOrder), keep, purge)
      BY <2>4 DEF Revert
    <3>2. /\ DeclaredIn(c, RevertOrder) \in Seq(Piece) /\ Covers(DeclaredIn(c, RevertOrder), c)
          /\ Before("list", "key", DeclaredIn(c, RevertOrder))
      BY <2>1, DeclaredFits, DeclaredCovers
    <3>3. QED
      BY <2>1, <2>2, <3>1, <3>2, EnterReport
  <2>5. QED
    BY <2>1, <2>3, <2>4
<1>3. CASE EndStep(p)
  <2>1. Dies(p) /\ UNCHANGED <<scene, file>>
    BY <1>3 DEF EndStep, Return, Crash, Same, hostVars
  <2>2. QED
    BY <2>1, DiesReport
<1>4. QED
  BY <1>1, <1>2, <1>3 DEF WiringStep

(* The wiring of an added repository is its entry in PATH.                 *)
LEMMA WireReport ==
    ASSUME HostTypes, AddTypes, BlocksInv, ReportInv, NEW p \in Proc, p \in scene.crew, WireStep(p)
    PROVE  ReportInv'
<1>1. UNCHANGED <<scene, file>>
  BY DEF WireStep, Wired, Return, hostVars
<1>2. CASE Wire(p)
  <2> DEFINE mode == IF job[p].kind = "reset" THEN "revert" ELSE "apply"
             c == S(p).slug
  <2>1. Alone(p)
    BY <1>2, WireCrew
  <2>2. Enter(p, mode, c, <<"path">>, FALSE, FALSE)
    BY <1>2 DEF Wire
  <2>3. c \in Slug /\ c \in Component
    <3>1. c \in Slug
      BY <1>2, Asks DEF AddTypes, Wire
    <3>2. QED
      BY <3>1, SlugAssumption
  <2>4. <<"path">> \in Seq(Piece) /\ \A q : Contains(<<"path">>, q) <=> q = "path"
    <3>1. "path" \in Piece
      BY DEF Piece
    <3>2. QED
      BY <3>1, LittleLines
  <2>5. scene.declares[c] \subseteq {"path"}
    BY <2>3, AddScenesAssumption DEF HostTypes
  <2>6. Covers(<<"path">>, c)
    BY <2>4, <2>5 DEF Covers
  <2>7. Before("key", "list", <<"path">>) /\ Before("list", "key", <<"path">>)
    BY DEF Before
  <2>8. mode \in {"apply", "revert"}
    OBVIOUS
  <2> HIDE DEF mode, c
  <2>9. QED
    BY <1>1, <2>1, <2>2, <2>3, <2>4, <2>6, <2>7, <2>8, EnterReport
<1>3. CASE Wired(p)
  BY <1>1, <1>3, DiesReport DEF Wired, Return
<1>4. QED
  BY <1>2, <1>3 DEF WireStep

(* What the user writes takes no line away where envctl left one.          *)
LEMMA UserReport == ASSUME HostTypes, ReportInv, UserWrites PROVE ReportInv'
<1>0. DOMAIN file = File /\ \A f \in File : file[f] \in Seq(Line)
  BY DEF HostTypes, Files
<1>1. PICK f \in {"rc", "desktop", "unit", "list", "nix"} :
        file' = [file EXCEPT ![f] = IF f \in {"rc", "nix"} /\ Exists(f) THEN Append(file[f], Mine) ELSE <<Mine>>]
  BY DEF UserWrites, Put
<1>2. UNCHANGED <<scene, me>> /\ f \in File /\ file[f] \in Seq(Line) /\ Mine \in Line
  BY <1>0, LinesFit DEF UserWrites, File
<1>3. /\ \A g \in File : g # f => file'[g] = file[g]
      /\ f \notin {"rc", "nix"} \/ ~Exists(f) => file'[f] = <<Mine>>
      /\ f \in {"rc", "nix"} /\ Exists(f) => file'[f] = Append(file[f], Mine)
  BY <1>0, <1>1, <1>2
<1>4. \A x : Contains(Append(file[f], Mine), x) <=> Contains(file[f], x) \/ x = Mine
  BY <1>2, Appended
<1>5. \A x : Contains(<<Mine>>, x) <=> x = Mine
  BY LittleLines
<1>6. ASSUME NEW g \in File, NEW kind \in {"begin", "ours"}, NoKind(file[g], kind)
      PROVE  NoKind(file'[g], kind)
  <2>1. NoKind(Append(file[f], Mine), kind) \/ g # f
    BY <1>2, <1>6, AppendKinds, Kinds
  <2>2. QED
    BY <1>3, <1>6, <2>1, LittleKinds
<1>7. ASSUME NEW q, NEW c, There(file, q, c) PROVE There(file', q, c)
  <2>1. ASSUME NEW g \in {"rc", "nix"}, NEW x, x \in {Begin(MarkOf(q, c)), Ours(c)}, Contains(file[g], x)
        PROVE  Contains(file'[g], x)
    <3>1. Exists(g)
      BY <2>1, NothingLacks DEF Exists
    <3>2. QED
      BY <1>3, <1>4, <2>1, <3>1 DEF File
  <2>2. <<Mine>> # Absent
    BY <1>5, LittleLines DEF Absent
  <2>3. q \in {"list", "cdi", "alt"} => (file[q] # Absent => file'[q] # Absent)
    BY <1>3, <2>2 DEF File
  <2>4. QED
    BY <1>7, <2>1, <2>3 DEF There
<1>8. ASSUME NEW q, NEW c, Lacking(file, q, c) PROVE Lacking(file', q, c)
  <2>1. q \in Sought => Home(q) \in File
    BY DEF Home, Sought, Blocks, Removed, File
  <2>2. ASSUME NEW g \in File, NEW x, x # Mine, ~Contains(file[g], x) PROVE ~Contains(file'[g], x)
    BY <1>3, <1>4, <1>5, <2>2
  <2>3. Begin(MarkOf(q, c)) # Mine /\ Ours(c) # Mine
    BY LittleLines
  <2>4. QED
    BY <1>8, <2>1, <2>2, <2>3 DEF Lacking
<1>9. /\ Unlisted => Unlisted'
      /\ Exists("key") => Exists("key")'
  BY <1>3 DEF Unlisted, Exists, File
<1>10. ASSUME NEW p \in Proc, Sorted(p), Told(p), Keyed(p)
       PROVE  Sorted(p)' /\ Told(p)' /\ Keyed(p)'
  <2>1. Sorted(p)'
    <3>1. NoKind(file'["rc"], "ours") /\ \A g \in File \ {"rc"} : NoKind(file'[g], "begin")
      BY <1>6, <1>10 DEF Sorted, File
    <3>2. QED
      BY <1>2, <1>10, <3>1 DEF Sorted, Rewrites, PieceOf
  <2>2. Told(p)'
    <3>1. Behind(p)' = Behind(p) /\ OnBlock(p)' = OnBlock(p)
      BY <1>2 DEF Behind, OnBlock, PieceOf
    <3>2. QED
      BY <1>2, <1>7, <1>8, <1>10, <3>1 DEF Told
  <2>3. Keyed(p)'
    BY <1>2, <1>9, <1>10 DEF Keyed
  <2>4. QED
    BY <2>1, <2>2, <2>3
<1>11. QED
  BY <1>2, <1>9, <1>10 DEF ReportInv, Solo

LEMMA InitReport == HostInit => ReportInv
<1> SUFFICES ASSUME HostInit PROVE ReportInv
  OBVIOUS
<1>1. /\ me = [p \in Proc |-> Idle]
      /\ wrote \in {{"config", "data"}, {"config", "data", "rc"}}
      /\ file = [f \in File |-> IF f \in wrote THEN <<Mine>> ELSE IF f = "rc" THEN <<>> ELSE Absent]
  BY DEF HostInit, Init
<1>2. \A f \in File : file[f] \in {<<Mine>>, <<>>, Absent}
  BY <1>1
<1>3. Unlisted
  BY <1>1 DEF Unlisted, File
<1>4. \A f \in File : NoKind(file[f], "begin") /\ NoKind(file[f], "ours")
  BY <1>2, LittleKinds
<1>5. ASSUME NEW p \in Proc PROVE Sorted(p) /\ Told(p) /\ Keyed(p)
  <2>1. ~Rewrites(p) /\ Told(p) /\ Keyed(p)
    BY <1>1, IdleTold
  <2>2. QED
    BY <1>4, <2>1 DEF Sorted, File
<1>6. QED
  BY <1>3, <1>5 DEF ReportInv

LEMMA StepReport == HostTypes /\ AddTypes /\ BlocksInv /\ ReportInv /\ [AddNext]_allVars => ReportInv'
<1> SUFFICES ASSUME HostTypes, AddTypes, BlocksInv, ReportInv, [AddNext]_allVars
             PROVE  ReportInv'
  OBVIOUS
<1>1. CASE UNCHANGED allVars
  BY <1>1, ReportElse DEF allVars, vars
<1>2. ASSUME NEW p \in scene.crew,
             StageStep(p) \/ StartStep(p) \/ WireStep(p) \/ WiringStep(p) \/ KillStep(p)
      PROVE  ReportInv'
  <2>1. p \in Proc
    BY SceneFits DEF HostTypes
  <2>2. CASE StageStep(p) \/ StartStep(p)
    <3>1. UNCHANGED <<scene, me, file>>
      BY <2>2 DEF StageStep, StartStep, hostVars
    <3>2. QED
      BY <3>1, ReportElse
  <2>3. CASE KillStep(p)
    <3>1. Dies(p) /\ UNCHANGED <<scene, file>>
      BY <2>3 DEF KillStep, Killed, Dies, hostVars
    <3>2. QED
      BY <2>1, <3>1, DiesReport
  <2>4. QED
    BY <1>2, <2>1, <2>2, <2>3, WireReport, WiringReport
<1>3. CASE Outside
  <2>1. UserWrites \/ UNCHANGED vars
    BY <1>3 DEF Outside
  <2>2. QED
    BY <2>1, UserReport, ReportElse DEF vars
<1>4. QED
  BY <1>1, <1>2, <1>3 DEF AddNext

(* What one envctl at a time reports is what it left: an apply without a   *)
(* failure has put in all that wiring_present looks for, a revert without  *)
(* one has taken out all of its component, and apt never has a list        *)
(* without its key - through every crash, failure and edit of the user's.  *)
THEOREM ReportsHold == AddSpec => []ReportsAreTrue
<1> DEFINE Inv == HostTypes /\ AddTypes /\ BlocksInv /\ ReportInv
<1>1. HostInit => Inv
  BY InitTypes, InitBlocks, InitReport
<1>2. Inv /\ [AddNext]_allVars => Inv'
  BY StepTypes, StepBlocks, StepReport
<1>3. Inv => ReportsAreTrue
  BY ReportImplies
<1>4. QED
  BY <1>1, <1>2, <1>3, PTL DEF AddSpec
-----------------------------------------------------------------------------
(* The keys that are in a set, turn by turn.                               *)
LEMMA SequenceTurns ==
    ASSUME NEW set
    PROVE  \E t \in [0 .. N -> Seq(Listed)] :
              /\ t[0] = <<>>
              /\ \A k \in 0 .. N - 1 : t[k + 1] = IF k + 1 \in set THEN Append(t[k], k + 1) ELSE t[k]
              /\ t[N] = InSequence(set)
<1> DEFINE X == Seq(Listed)
           g == [i \in 1 .. N |-> [v \in X |-> IF i \in set THEN Append(v, i) ELSE v]]
           Value(f) == [T \in SUBSET (1 .. N) |->
                          IF T = {} THEN <<>>
                          ELSE IF Max(T) \in set THEN Append(f[T \ {Max(T)}], Max(T))
                                                 ELSE f[T \ {Max(T)}]]
<1>0. N \in Nat /\ Listed = 1 .. N
  BY DesktopAssumption DEF Listed
<1>1. g \in [1 .. N -> [X -> X]] /\ <<>> \in X
  <2>1. \A i \in 1 .. N, v \in X : Append(v, i) \in X
    BY <1>0
  <2>2. <<>> \in X
    OBVIOUS
  <2> HIDE DEF X
  <2>3. QED
    BY <2>1, <2>2
<1>2. PICK f \in [SUBSET (1 .. N) -> X] : FoldTable(f, <<>>, N, g)
  <2> HIDE DEF X, g
  <2>1. QED
    BY <1>0, <1>1, FoldExists
<1>3. f = Value(f)
  <2>1. ASSUME NEW T \in SUBSET (1 .. N), T # {}
        PROVE  g[Max(T)][f[T \ {Max(T)}]]
                 = IF Max(T) \in set THEN Append(f[T \ {Max(T)}], Max(T)) ELSE f[T \ {Max(T)}]
    <3>1. Max(T) \in 1 .. N /\ T \ {Max(T)} \in SUBSET (1 .. N)
      BY <1>0, <2>1, MaxOfSome
    <3>2. f[T \ {Max(T)}] \in X
      BY <1>2, <3>1
    <3> HIDE DEF X
    <3>3. QED
      BY <3>1, <3>2
  <2> HIDE DEF X, g
  <2>2. QED
    BY <1>2, <2>1 DEF FoldTable
<1> DEFINE r == CHOOSE h : h = Value(h)
<1>4. InSequence(set) = r[1 .. N]
  <2>1. DOMAIN Keys = 1 .. N
    BY <1>0 DEF Keys
  <2>2. \A T \in SUBSET (1 .. N) : T # {} => Keys[Max(T)] = Max(T)
    BY <1>0, MaxOfSome DEF Keys
  <2> DEFINE Given(w) == [T \in SUBSET (1 .. N) |->
                            IF T = {} THEN <<>>
                            ELSE IF Keys[Max(T)] \in set THEN Append(w[T \ {Max(T)}], Keys[Max(T)])
                                                         ELSE w[T \ {Max(T)}]]
  <2>3. \A h : Given(h) = Value(h)
    BY <2>2
  <2>4. InSequence(set) = (CHOOSE h : h = Given(h))[1 .. N]
    BY <2>1 DEF InSequence, FoldLeft, MapThenFoldSet
  <2> HIDE DEF Given, Value
  <2>5. (CHOOSE h : h = Given(h)) = (CHOOSE h : h = Value(h))
    BY <2>3
  <2>6. QED
    BY <2>4, <2>5
<1>5. r = Value(r)
  <2> HIDE DEF Value
  <2>1. QED
    BY <1>3
<1>6. r[{}] = <<>>
  <2>1. {} \in SUBSET (1 .. N)
    OBVIOUS
  <2> HIDE DEF r
  <2>2. QED
    BY <1>5, <2>1
<1>7. ASSUME NEW k \in 0 .. N - 1
      PROVE  r[1 .. k + 1] = IF k + 1 \in set THEN Append(r[1 .. k], k + 1) ELSE r[1 .. k]
  <2>1. 1 .. k + 1 \in SUBSET (1 .. N) /\ 1 .. k + 1 # {} /\ (1 .. k + 1) \ {k + 1} = 1 .. k /\ k \in Nat
    BY <1>0
  <2>2. Max(1 .. k + 1) = k + 1
    BY <2>1, MaxOfRange
  <2> HIDE DEF r
  <2>3. QED
    BY <1>5, <2>1, <2>2
<1> DEFINE P == {k \in Nat : k <= N => r[1 .. k] \in X}
<1> HIDE DEF r
<1>8. 0 \in P
  BY <1>1, <1>6, 1 .. 0 = {}
<1>9. ASSUME NEW k \in P PROVE k + 1 \in P
  <2> SUFFICES ASSUME k + 1 <= N
               PROVE  r[1 .. k + 1] \in X
    BY k + 1 \in Nat
  <2>1. k \in 0 .. N - 1 /\ r[1 .. k] \in X /\ k + 1 \in Listed
    BY <1>0
  <2>2. Append(r[1 .. k], k + 1) \in X
    BY <2>1
  <2>3. r[1 .. k + 1] = IF k + 1 \in set THEN Append(r[1 .. k], k + 1) ELSE r[1 .. k]
    BY <1>7, <2>1
  <2> HIDE DEF X
  <2>4. QED
    BY <2>1, <2>2, <2>3
<1>10. P = Nat
  <2>1. P \in SUBSET Nat
    OBVIOUS
  <2> HIDE DEF P
  <2>2. QED
    BY <1>8, <1>9, <2>1, Inducted
<1>11. \A k \in 0 .. N : r[1 .. k] \in X
  <2>1. \A k \in 0 .. N : k \in Nat /\ k <= N
    BY <1>0
  <2> HIDE DEF X
  <2>2. QED
    BY <1>10, <2>1
<1> DEFINE t == [k \in 0 .. N |-> r[1 .. k]]
<1>12. t \in [0 .. N -> X]
  BY <1>11
<1>13. t[0] = <<>> /\ t[N] = InSequence(set)
  <2>1. 0 \in 0 .. N /\ N \in 0 .. N /\ 1 .. 0 = {}
    BY <1>0
  <2>2. QED
    BY <1>4, <1>6, <2>1
<1>14. ASSUME NEW k \in 0 .. N - 1
       PROVE  t[k + 1] = IF k + 1 \in set THEN Append(t[k], k + 1) ELSE t[k]
  <2>1. k \in 0 .. N /\ k + 1 \in 0 .. N
    BY <1>0
  <2>2. QED
    BY <1>7, <2>1
<1>15. QED
  BY <1>12, <1>13, <1>14

(* InSequence: a sequence of components, with all that are asked for.      *)
LEMMA SequenceHolds ==
    ASSUME NEW set
    PROVE  InSequence(set) \in Seq(Listed) /\ Listed \cap set \subseteq ToSet(InSequence(set))
<1>0. N \in Nat /\ Listed = 1 .. N
  BY DesktopAssumption DEF Listed
<1>1. PICK t \in [0 .. N -> Seq(Listed)] :
              /\ t[0] = <<>>
              /\ \A k \in 0 .. N - 1 : t[k + 1] = IF k + 1 \in set THEN Append(t[k], k + 1) ELSE t[k]
              /\ t[N] = InSequence(set)
  BY SequenceTurns
<1> DEFINE Has(k) == \A c \in 1 .. k : c \in set => \E i \in 1 .. Len(t[k]) : t[k][i] = c
           P == {k \in Nat : k <= N => Has(k)}
<1>2. 0 \in P
  BY 1 .. 0 = {}
<1>3. ASSUME NEW k \in P PROVE k + 1 \in P
  <2> SUFFICES ASSUME k + 1 <= N, NEW c \in 1 .. k + 1, c \in set
               PROVE  \E i \in 1 .. Len(t[k + 1]) : t[k + 1][i] = c
    BY k + 1 \in Nat
  <2>1. k \in 0 .. N - 1 /\ k \in 0 .. N /\ t[k] \in Seq(Listed) /\ Has(k)
    BY <1>0, <1>1
  <2>2. t[k + 1] = IF k + 1 \in set THEN Append(t[k], k + 1) ELSE t[k]
    BY <1>1, <2>1
  <2>3. CASE c = k + 1
    <3>1. t[k + 1] = Append(t[k], k + 1)
      BY <2>2, <2>3
    <3>2. Len(t[k + 1]) = Len(t[k]) + 1 /\ t[k + 1][Len(t[k]) + 1] = k + 1
      BY <2>1, <3>1
    <3>3. Len(t[k]) + 1 \in 1 .. Len(t[k]) + 1
      BY <2>1
    <3>4. QED
      BY <2>3, <3>2, <3>3
  <2>4. CASE c # k + 1
    <3>1. c \in 1 .. k
      BY <2>1, <2>4
    <3>2. PICK i \in 1 .. Len(t[k]) : t[k][i] = c
      BY <2>1, <3>1
    <3>3. i \in 1 .. Len(t[k + 1]) /\ t[k + 1][i] = c
      BY <2>1, <2>2, <3>2
    <3>4. QED
      BY <3>3
  <2>5. QED
    BY <2>3, <2>4
<1>4. P = Nat
  <2>1. P \in SUBSET Nat
    OBVIOUS
  <2> HIDE DEF P
  <2>2. QED
    BY <1>2, <1>3, <2>1, Inducted
<1>5. Has(N) /\ t[N] \in Seq(Listed)
  <2>1. N <= N /\ N \in 0 .. N
    BY <1>0
  <2>2. N \in P
    <3> HIDE DEF P
    <3>1. QED
      BY <1>0, <1>4
  <2>3. QED
    BY <1>1, <2>1, <2>2
<1>6. ASSUME NEW c \in Listed \cap set
      PROVE  c \in ToSet(InSequence(set))
  <2>1. PICK i \in 1 .. Len(t[N]) : t[N][i] = c
    BY <1>0, <1>5
  <2>2. i \in DOMAIN InSequence(set) /\ InSequence(set)[i] = c
    BY <1>1, <1>5, <2>1
  <2>3. QED
    BY <2>2 DEF ToSet
<1>7. QED
  BY <1>1, <1>5, <1>6

(* What a run takes after each of its targets.                             *)
Widened(v, c) == v \o InSequence(({c} \cup Prereqs[c]) \ ToSet(v))

LEMMA OrderTurns ==
    ASSUME NEW seq \in Seq(Listed)
    PROVE  \E t \in [0 .. Len(seq) -> Seq(Listed)] :
              /\ t[0] = <<>>
              /\ \A k \in 0 .. Len(seq) - 1 : t[k + 1] = Widened(t[k], seq[k + 1])
              /\ t[Len(seq)] = Order(seq)
<1> DEFINE X == Seq(Listed)
           n == Len(seq)
           g == [i \in 1 .. n |-> [v \in X |-> Widened(v, seq[i])]]
           Value(f) == [T \in SUBSET (1 .. n) |->
                          IF T = {} THEN <<>> ELSE Widened(f[T \ {Max(T)}], seq[Max(T)])]
<1>0. n \in Nat /\ DOMAIN seq = 1 .. n
  OBVIOUS
<1>1. \A v \in X : \A c : Widened(v, c) \in X
  BY SequenceHolds DEF Widened
<1>a. <<>> \in X
  OBVIOUS
<1>b. g \in [1 .. n -> [X -> X]]
  <2> HIDE DEF X, n
  <2>1. QED
    BY <1>1
<1>2. PICK f \in [SUBSET (1 .. n) -> X] : FoldTable(f, <<>>, n, g)
  <2> HIDE DEF X, n, g
  <2>1. QED
    BY <1>0, <1>a, <1>b, FoldExists
<1>3. f = Value(f)
  <2>1. ASSUME NEW T \in SUBSET (1 .. n), T # {}
        PROVE  g[Max(T)][f[T \ {Max(T)}]] = Widened(f[T \ {Max(T)}], seq[Max(T)])
    <3>1. Max(T) \in 1 .. n /\ T \ {Max(T)} \in SUBSET (1 .. n)
      BY <1>0, <2>1, MaxOfSome
    <3>2. f[T \ {Max(T)}] \in X
      BY <1>2, <3>1
    <3> HIDE DEF X, n
    <3>3. QED
      BY <3>1, <3>2
  <2> HIDE DEF X, n, g
  <2>2. QED
    BY <1>2, <2>1 DEF FoldTable
<1> DEFINE r == CHOOSE h : h = Value(h)
<1>4. Order(seq) = r[1 .. n]
  BY <1>0 DEF Order, FoldLeft, MapThenFoldSet, Widened
<1>5. r = Value(r)
  <2> HIDE DEF Value
  <2>1. QED
    BY <1>3
<1>6. r[{}] = <<>>
  <2>1. {} \in SUBSET (1 .. n)
    OBVIOUS
  <2> HIDE DEF r
  <2>2. QED
    BY <1>5, <2>1
<1>7. ASSUME NEW k \in 0 .. n - 1
      PROVE  r[1 .. k + 1] = Widened(r[1 .. k], seq[k + 1])
  <2> HIDE DEF n, r
  <2>0. k \in Nat /\ k + 1 <= n /\ n \in Nat
    BY <1>0
  <2>a. 1 .. k + 1 \in SUBSET (1 .. n)
    BY <2>0
  <2>b. k + 1 \in 1 .. k + 1 /\ (1 .. k + 1) \ {k + 1} = 1 .. k
    BY <2>0
  <2>1. 1 .. k + 1 \in SUBSET (1 .. n) /\ 1 .. k + 1 # {} /\ (1 .. k + 1) \ {k + 1} = 1 .. k /\ k \in Nat
    BY <2>0, <2>a, <2>b
  <2>2. Max(1 .. k + 1) = k + 1
    BY <2>1, MaxOfRange
  <2>3. QED
    BY <1>5, <2>1, <2>2
<1> DEFINE P == {k \in Nat : k <= n => r[1 .. k] \in X}
<1> HIDE DEF r
<1>8. 0 \in P
  BY <1>a, <1>6, 1 .. 0 = {}
<1>9. ASSUME NEW k \in P PROVE k + 1 \in P
  <2> SUFFICES ASSUME k + 1 <= n
               PROVE  r[1 .. k + 1] \in X
    BY k + 1 \in Nat
  <2>1. k \in 0 .. n - 1 /\ r[1 .. k] \in X
    BY <1>0
  <2> HIDE DEF X, n
  <2>2. QED
    BY <1>1, <1>7, <2>1
<1>10. P = Nat
  <2>1. P \in SUBSET Nat
    OBVIOUS
  <2> HIDE DEF P
  <2>2. QED
    BY <1>8, <1>9, <2>1, Inducted
<1>11. \A k \in 0 .. n : r[1 .. k] \in X
  <2>1. \A k \in 0 .. n : k \in Nat /\ k <= n
    BY <1>0
  <2> HIDE DEF X, n
  <2>2. QED
    BY <1>10, <2>1
<1> DEFINE t == [k \in 0 .. n |-> r[1 .. k]]
<1>12. t \in [0 .. n -> X]
  BY <1>11
<1>13. t[0] = <<>> /\ t[n] = Order(seq)
  <2>1. 0 \in 0 .. n /\ n \in 0 .. n /\ 1 .. 0 = {}
    BY <1>0
  <2> HIDE DEF n
  <2>2. QED
    BY <1>4, <1>6, <2>1
<1>14. ASSUME NEW k \in 0 .. n - 1
       PROVE  t[k + 1] = Widened(t[k], seq[k + 1])
  <2>1. k \in 0 .. n /\ k + 1 \in 0 .. n
    BY <1>0
  <2> HIDE DEF n
  <2>2. QED
    BY <1>7, <2>1
<1>15. QED
  BY <1>12, <1>13, <1>14

(* A target is in what comes of it, and what is in stays in.               *)
LEMMA WidenedKeeps ==
    ASSUME NEW v \in Seq(Listed), NEW c \in Listed
    PROVE  /\ Widened(v, c) \in Seq(Listed)
           /\ ToSet(v) \cup {c} \subseteq ToSet(Widened(v, c))
<1> DEFINE s == InSequence(({c} \cup Prereqs[c]) \ ToSet(v))
<1>1. s \in Seq(Listed) /\ (c \notin ToSet(v) => c \in ToSet(s))
  BY SequenceHolds
<1> HIDE DEF s
<1>2. v \o s \in Seq(Listed) /\ ToSet(v) \cup ToSet(s) \subseteq ToSet(v \o s)
  <2>1. \A i \in DOMAIN v : i \in DOMAIN (v \o s) /\ (v \o s)[i] = v[i]
    BY <1>1
  <2>2. \A i \in DOMAIN s : Len(v) + i \in DOMAIN (v \o s) /\ (v \o s)[Len(v) + i] = s[i]
    BY <1>1
  <2>3. v \o s \in Seq(Listed)
    BY <1>1
  <2>4. ToSet(v) \subseteq ToSet(v \o s)
    BY <2>1 DEF ToSet
  <2>5. ToSet(s) \subseteq ToSet(v \o s)
    BY <2>2 DEF ToSet
  <2>6. QED
    BY <2>3, <2>4, <2>5
<1>3. QED
  BY <1>1, <1>2 DEF Widened, s

(* Order: a run takes all of its targets, and nothing but components.      *)
LEMMA OrderHolds ==
    ASSUME NEW seq \in Seq(Listed)
    PROVE  Order(seq) \in Seq(Listed) /\ ToSet(seq) \subseteq ToSet(Order(seq))
<1> DEFINE n == Len(seq)
<1>0. n \in Nat /\ DOMAIN seq = 1 .. n /\ \A k \in 1 .. n : seq[k] \in Listed
  OBVIOUS
<1>1. PICK t \in [0 .. n -> Seq(Listed)] :
              /\ t[0] = <<>>
              /\ \A k \in 0 .. n - 1 : t[k + 1] = Widened(t[k], seq[k + 1])
              /\ t[n] = Order(seq)
  BY OrderTurns
<1> HIDE DEF n
<1> DEFINE Has(k) == \A j \in 1 .. k : seq[j] \in ToSet(t[k])
           P == {k \in Nat : k <= n => Has(k)}
<1>2. 0 \in P
  BY 1 .. 0 = {}
<1>3. ASSUME NEW k \in P PROVE k + 1 \in P
  <2> SUFFICES ASSUME k + 1 <= n, NEW j \in 1 .. k + 1
               PROVE  seq[j] \in ToSet(t[k + 1])
    BY k + 1 \in Nat
  <2>1. k \in 0 .. n - 1 /\ k \in 0 .. n /\ k + 1 \in 1 .. n /\ Has(k)
    BY <1>0
  <2>2. ToSet(t[k]) \cup {seq[k + 1]} \subseteq ToSet(t[k + 1])
    BY <1>0, <1>1, <2>1, WidenedKeeps
  <2>3. j = k + 1 \/ j \in 1 .. k
    BY <2>1
  <2>4. QED
    BY <2>1, <2>2, <2>3
<1>4. P = Nat
  <2>1. P \in SUBSET Nat
    OBVIOUS
  <2> HIDE DEF P
  <2>2. QED
    BY <1>2, <1>3, <2>1, Inducted
<1>5. Has(n) /\ t[n] \in Seq(Listed)
  <2>1. n <= n /\ n \in 0 .. n
    BY <1>0
  <2>2. n \in P
    <3> HIDE DEF P
    <3>1. QED
      BY <1>0, <1>4
  <2>3. QED
    BY <1>1, <2>1, <2>2
<1>6. QED
  BY <1>0, <1>1, <1>5 DEF ToSet
-----------------------------------------------------------------------------
(* What is said of a member of each of the sets of records.                *)
LEMMA CommandFacts ==
    ASSUME NEW cmd \in Commands
    PROVE  /\ cmd.kind \in Hooked => cmd.targets \in Seq(Listed) /\ cmd.dry \in BOOLEAN
           /\ cmd.kind = "addRepo" => cmd.dry \in BOOLEAN
  BY DEF Commands, Hooked

LEMMA EventFacts ==
    ASSUME NEW e \in Events
    PROVE  /\ e.kind = "report" => e.rows \in [Listed -> Presence]
           /\ e.kind = "step" => e.c \in Listed
  BY DEF Events

LEMMA DoingFacts ==
    ASSUME NEW d \in Doings
    PROVE  /\ d.kind \in Hooked => /\ d.rest \in Seq(Listed) /\ d.failed \in SUBSET Listed
                                   /\ d.dry \in BOOLEAN
                                   /\ d \in [kind : Hooked, rest : Seq(Listed),
                                             failed : SUBSET Listed, dry : BOOLEAN]
           /\ d.kind \notin Hooked => d \in {Resting, Event("stopping"), Ended}
  BY DEF Doings, Resting, Event, Ended, Hooked

LEMMA PlainFits ==
    /\ \A kind \in {"detect", "sample", "dashboard", "shutdown"} : Event(kind) \in Commands
    /\ \A kind \in {"run", "refused", "plan", "deployed"} : Event(kind) \in Events
    /\ Resting \in Doings /\ Event("stopping") \in Doings /\ Ended \in Doings
    /\ ~(Resting.kind \in Hooked) /\ ~(Event("stopping").kind \in Hooked) /\ ~(Ended.kind \in Hooked)
  BY DEF Commands, Events, Doings, Event, Resting, Ended, Hooked

(* What comes into the inbox adds to each kind of event its own.           *)
LEMMA InboxGrows ==
    ASSUME inbox \in Seq(Events), NEW es \in Seq(Events), inbox' = inbox \o es
    PROVE  /\ inbox' \in Seq(Events)
           /\ \A i \in DOMAIN inbox : i \in DOMAIN inbox' /\ inbox'[i] = inbox[i]
           /\ \A i \in DOMAIN es : Len(inbox) + i \in DOMAIN inbox' /\ inbox'[Len(inbox) + i] = es[i]
           /\ \A j \in DOMAIN inbox' : j \in DOMAIN inbox \/ \E i \in DOMAIN es : j = Len(inbox) + i
<1>1. inbox' \in Seq(Events) /\ Len(inbox') = Len(inbox) + Len(es)
  OBVIOUS
<1>2. ASSUME NEW j \in DOMAIN inbox', j \notin DOMAIN inbox
      PROVE  \E i \in DOMAIN es : j = Len(inbox) + i
  <2>1. j - Len(inbox) \in 1 .. Len(es) /\ j = Len(inbox) + (j - Len(inbox))
    BY <1>1, <1>2
  <2>2. QED
    BY <2>1
<1>3. QED
  BY <1>1, <1>2

LEMMA KindsStay ==
    ASSUME inbox \in Seq(Events), NEW es \in Seq(Events), inbox' = inbox \o es
    PROVE  /\ \A kind : Of(kind) \subseteq Of(kind)'
           /\ \A kind : (\A i \in DOMAIN es : es[i].kind # kind) => Of(kind)' = Of(kind)
           /\ \A kind : (\E i \in DOMAIN es : es[i].kind = kind) => Of(kind)' # {}
           /\ Cleared \subseteq Cleared'
           /\ \A i \in DOMAIN es : es[i].kind = "step" => es[i].c \in Cleared'
<1>1. \A kind : Of(kind) \subseteq Of(kind)'
  BY InboxGrows DEF Of
<1>2. ASSUME NEW kind, \A i \in DOMAIN es : es[i].kind # kind
      PROVE  Of(kind)' = Of(kind)
  BY <1>2, InboxGrows DEF Of
<1>3. ASSUME NEW i \in DOMAIN es
      PROVE  Len(inbox) + i \in Of(es[i].kind)' /\ (es[i].kind = "step" => es[i].c \in Cleared')
  <2>1. Len(inbox) + i \in DOMAIN inbox' /\ inbox'[Len(inbox) + i] = es[i]
    BY InboxGrows
  <2>2. Len(inbox) + i \in Of(es[i].kind)'
    BY <2>1 DEF Of
  <2>3. QED
    BY <2>1, <2>2 DEF Cleared
<1>4. Cleared \subseteq Cleared'
  BY <1>1, InboxGrows DEF Cleared, Of
<1>5. QED
  BY <1>1, <1>2, <1>3, <1>4

(* The rows a frame would draw.                                            *)
LEMMA LastReport ==
    ASSUME inbox \in Seq(Events), Reports # {}
    PROVE  /\ Max(Reports) \in Reports /\ Max(Reports) \in DOMAIN inbox
           /\ Rows = inbox[Max(Reports)].rows /\ Rows \in [Listed -> Presence]
<1>1. Reports \in SUBSET (1 .. Len(inbox)) /\ Len(inbox) \in Nat
  BY DEF Reports, Of
<1>2. Max(Reports) \in Reports
  BY <1>1, MaxOfSome
<1>3. Max(Reports) \in DOMAIN inbox /\ inbox[Max(Reports)].kind = "report"
  BY <1>2 DEF Reports, Of
<1>4. inbox[Max(Reports)] \in Events
  BY <1>3
<1>5. QED
  BY <1>2, <1>3, <1>4, EventFacts DEF Rows

LEMMA RowsStay ==
    ASSUME inbox \in Seq(Events), NEW es \in Seq(Events), inbox' = inbox \o es, shown' = shown,
           \A i \in DOMAIN es : es[i].kind # "report"
    PROVE  Rows' = Rows
<1>1. Reports' = Reports
  BY KindsStay DEF Reports
<1>2. CASE Reports = {}
  BY <1>1, <1>2 DEF Rows
<1>3. CASE Reports # {}
  <2>1. inbox'[Max(Reports)] = inbox[Max(Reports)]
    BY <1>3, LastReport, InboxGrows
  <2>2. QED
    BY <1>1, <1>3, <2>1 DEF Rows
<1>4. QED
  BY <1>2, <1>3

LEMMA RowsRenewed ==
    ASSUME inbox \in Seq(Events), NEW rows \in [Listed -> Presence],
           inbox' = inbox \o <<[kind |-> "report", rows |-> rows]>>
    PROVE  Rows' = rows
<1> DEFINE e == [kind |-> "report", rows |-> rows]
           n == Len(inbox) + 1
<1>1. <<e>> \in Seq(Events)
  BY DEF Events
<1>2. n \in DOMAIN inbox' /\ inbox'[n] = e /\ n \in Nat
  BY <1>1, InboxGrows
<1>3. n \in Reports' /\ Reports' \in SUBSET (1 .. n)
  BY <1>1, <1>2 DEF Reports, Of
<1>4. Max(Reports') = n
  <2>1. Max(Reports') \in Reports' /\ Max(Reports') >= n
    BY <1>2, <1>3, MaxOfSome
  <2> HIDE DEF n
  <2>2. Max(Reports') \in 1 .. n
    BY <1>3, <2>1
  <2>3. QED
    BY <1>2, <2>1, <2>2
<1>5. QED
  BY <1>2, <1>3, <1>4 DEF Rows
-----------------------------------------------------------------------------
(* The components that the orders of a channel will take.                  *)
OrderedIn(cs) == UNION {ToSet(Order(cs[i].targets)) : i \in {j \in DOMAIN cs : cs[j].kind \in Hooked}}
DetectIn(cs) == \E i \in DOMAIN cs : cs[i].kind = "detect"

LEMMA OrdersJoin ==
    ASSUME NEW cs \in Seq(Commands), NEW ds \in Seq(Commands)
    PROVE  /\ cs \o ds \in Seq(Commands)
           /\ OrderedIn(cs) \cup OrderedIn(ds) \subseteq OrderedIn(cs \o ds)
           /\ DetectIn(cs) \/ DetectIn(ds) => DetectIn(cs \o ds)
<1>1. cs \o ds \in Seq(Commands)
  OBVIOUS
<1>2. \A i \in DOMAIN cs : i \in DOMAIN (cs \o ds) /\ (cs \o ds)[i] = cs[i]
  OBVIOUS
<1>3. \A i \in DOMAIN ds : Len(cs) + i \in DOMAIN (cs \o ds) /\ (cs \o ds)[Len(cs) + i] = ds[i]
  OBVIOUS
<1>4. OrderedIn(cs) \subseteq OrderedIn(cs \o ds)
  BY <1>2 DEF OrderedIn
<1>5. OrderedIn(ds) \subseteq OrderedIn(cs \o ds)
  BY <1>3 DEF OrderedIn
<1>6. DetectIn(cs) \/ DetectIn(ds) => DetectIn(cs \o ds)
  BY <1>2, <1>3 DEF DetectIn
<1>7. QED
  BY <1>1, <1>4, <1>5, <1>6

LEMMA OrdersTaken ==
    ASSUME NEW cs \in Seq(Commands), cs # <<>>
    PROVE  /\ Tail(cs) \in Seq(Commands) /\ Head(cs) \in Commands
           /\ OrderedIn(cs) \subseteq OrderedIn(Tail(cs))
                \cup (IF Head(cs).kind \in Hooked THEN ToSet(Order(Head(cs).targets)) ELSE {})
           /\ DetectIn(cs) /\ Head(cs).kind # "detect" => DetectIn(Tail(cs))
<1>1. Tail(cs) \in Seq(Commands) /\ Head(cs) \in Commands /\ Head(cs) = cs[1]
  OBVIOUS
<1>2. \A i \in DOMAIN cs : i # 1 => i - 1 \in DOMAIN Tail(cs) /\ Tail(cs)[i - 1] = cs[i]
  OBVIOUS
<1>3. ASSUME NEW c \in OrderedIn(cs)
      PROVE  \/ c \in OrderedIn(Tail(cs))
             \/ Head(cs).kind \in Hooked /\ c \in ToSet(Order(Head(cs).targets))
  <2>1. PICK i \in DOMAIN cs : cs[i].kind \in Hooked /\ c \in ToSet(Order(cs[i].targets))
    BY DEF OrderedIn
  <2>2. CASE i = 1
    BY <1>1, <2>1, <2>2
  <2>3. CASE i # 1
    <3>1. i - 1 \in DOMAIN Tail(cs) /\ Tail(cs)[i - 1] = cs[i]
      BY <1>2, <2>3
    <3>2. QED
      BY <2>1, <3>1 DEF OrderedIn
  <2>4. QED
    BY <2>2, <2>3
<1>4. DetectIn(cs) /\ Head(cs).kind # "detect" => DetectIn(Tail(cs))
  BY <1>1, <1>2 DEF DetectIn
<1>5. QED
  BY <1>1, <1>3, <1>4

(* What a frame sends, marks and leaves behind: the rows it marks are      *)
(* among those its orders will take.                                       *)
ActFits(act) ==
    /\ act.cmds \in Seq(Commands)
    /\ act.busy \subseteq Listed /\ act.busy \subseteq OrderedIn(act.cmds)
    /\ act.screen \in Screens /\ act.dry \in BOOLEAN /\ act.open \in BOOLEAN

LEMMA SendsFits ==
    ASSUME DesktopTypeOK, NEW cmd \in Commands
    PROVE  ActFits(Sends(cmd)) /\ Sends(cmd).open = TRUE
<1>1. /\ Sends(cmd).cmds = <<cmd>> /\ Sends(cmd).busy = {} /\ Sends(cmd).screen = screen
      /\ Sends(cmd).dry = dryDefault /\ Sends(cmd).open = TRUE
  BY DEF Sends, NoAct
<1>2. <<cmd>> \in Seq(Commands) /\ screen \in Screens /\ dryDefault \in BOOLEAN
  BY DEF DesktopTypeOK
<1>3. QED
  BY <1>1, <1>2 DEF ActFits

LEMMA RunOrderFits ==
    ASSUME DesktopTypeOK, NEW phase \in Hooked, NEW seq \in Seq(Listed), NEW dry \in BOOLEAN,
           NEW rows \in SUBSET ToSet(seq)
    PROVE  ActFits([Sends(RunCmd(phase, seq, dry)) EXCEPT !.busy = rows])
<1> DEFINE cmd == RunCmd(phase, seq, dry)
           act == [Sends(cmd) EXCEPT !.busy = rows]
<1>1. cmd \in Commands /\ cmd.kind \in Hooked /\ cmd.targets = seq
  BY DEF RunCmd, Commands
<1> HIDE DEF cmd
<1>2. /\ act.cmds = <<cmd>> /\ act.busy = rows /\ act.screen = screen
      /\ act.dry = dryDefault /\ act.open = TRUE
  BY DEF Sends, NoAct
<1>3. <<cmd>> \in Seq(Commands) /\ screen \in Screens /\ dryDefault \in BOOLEAN
  BY <1>1 DEF DesktopTypeOK
<1>4. ToSet(seq) \subseteq Listed
  BY DEF ToSet
<1>5. rows \subseteq OrderedIn(<<cmd>>)
  <2>1. ToSet(Order(seq)) \subseteq OrderedIn(<<cmd>>)
    <3>1. 1 \in DOMAIN <<cmd>> /\ <<cmd>>[1] = cmd
      OBVIOUS
    <3>2. QED
      BY <1>1, <3>1 DEF OrderedIn
  <2>2. QED
    BY <2>1, OrderHolds
<1> HIDE DEF act
<1>6. ActFits(act)
  BY <1>2, <1>3, <1>4, <1>5 DEF ActFits
<1>7. QED
  BY <1>6 DEF act, cmd

LEMMA ActsFit ==
    ASSUME DesktopTypeOK, NEW act \in Moves \cup Buttons \cup {NoAct}
    PROVE  ActFits(act)
<1>0. NoAct = [cmds |-> <<>>, busy |-> {}, screen |-> screen, dry |-> dryDefault, open |-> TRUE]
      /\ screen \in Screens /\ dryDefault \in BOOLEAN
  BY DEF NoAct, DesktopTypeOK
<1>1. CASE act = NoAct
  BY <1>0, <1>1 DEF ActFits
<1>2. CASE act \in {[NoAct EXCEPT !.screen = s] : s \in Screens \ {screen}}
  <2>1. PICK s \in Screens : act = [NoAct EXCEPT !.screen = s]
    BY <1>2
  <2>2. act.cmds = <<>> /\ act.busy = {} /\ act.screen = s /\ act.dry = dryDefault /\ act.open = TRUE
    BY <2>1 DEF NoAct
  <2>3. <<>> \in Seq(Commands)
    OBVIOUS
  <2>4. QED
    BY <1>0, <2>2, <2>3 DEF ActFits
<1>3. CASE act = OnExit
  <2>1. /\ OnExit.cmds = <<Event("shutdown")>> /\ OnExit.busy = {} /\ OnExit.screen = screen
        /\ OnExit.dry = dryDefault /\ OnExit.open = FALSE
    BY DEF OnExit, Sends, NoAct
  <2>2. <<Event("shutdown")>> \in Seq(Commands)
    BY PlainFits
  <2>3. QED
    BY <1>0, <1>3, <2>1, <2>2 DEF ActFits
<1>4. CASE act \in InstallMissing
  <2>1. Missing \subseteq Listed
    BY DEF Missing
  <2>2. InSequence(Missing) \in Seq(Listed) /\ Missing \subseteq ToSet(InSequence(Missing))
    BY <2>1, SequenceHolds
  <2>3. act = [Sends(RunCmd("install", InSequence(Missing), FALSE)) EXCEPT !.busy = Missing]
    BY <1>4 DEF InstallMissing
  <2>4. QED
    BY <2>2, <2>3, RunOrderFits DEF Hooked
<1>5. CASE act \in RowButtons
  <2>1. PICK c \in Listed :
             act = [Sends(IF c \in Missing THEN RunCmd("install", <<c>>, FALSE)
                                           ELSE RunCmd("fix", <<c>>, dryDefault)) EXCEPT !.busy = {c}]
    BY <1>5 DEF RowButtons
  <2>2. <<c>> \in Seq(Listed) /\ {c} \in SUBSET ToSet(<<c>>)
    BY DEF ToSet
  <2>3. CASE c \in Missing
    <3>1. act = [Sends(RunCmd("install", <<c>>, FALSE)) EXCEPT !.busy = {c}]
      BY <2>1, <2>3
    <3>2. QED
      BY <2>2, <3>1, RunOrderFits DEF Hooked
  <2>4. CASE c \notin Missing
    <3>1. act = [Sends(RunCmd("fix", <<c>>, dryDefault)) EXCEPT !.busy = {c}]
      BY <2>1, <2>4
    <3>2. QED
      BY <1>0, <2>2, <3>1, RunOrderFits DEF Hooked
  <2>5. QED
    BY <2>3, <2>4
<1>6. CASE act \in RepoButtons
  <2>1. PICK dry \in BOOLEAN : act = Sends(RepoCmd(dry))
    BY <1>6 DEF RepoButtons
  <2>2. RepoCmd(dry) \in Commands
    BY DEF RepoCmd, Commands
  <2>3. QED
    BY <2>1, <2>2, SendsFits
<1>7. CASE act \in MeshButtons
  BY <1>7, PlainFits, SendsFits DEF MeshButtons
<1>8. CASE act \in Settings
  <2>1. CASE act = Sends(Event("detect"))
    BY <2>1, PlainFits, SendsFits
  <2>2. CASE act = [NoAct EXCEPT !.dry = ~dryDefault]
    BY <1>0, <2>2 DEF ActFits
  <2>3. QED
    BY <1>8, <2>1, <2>2 DEF Settings
<1>9. QED
  BY <1>1, <1>2, <1>3, <1>4, <1>5, <1>6, <1>7, <1>8 DEF Moves, Buttons
-----------------------------------------------------------------------------
(* What a frame draws and orders.                                          *)
LEMMA RefreshFits ==
    ASSUME DesktopTypeOK
    PROVE  /\ Refresh \in Seq(Commands)
           /\ Of("run") # {} => DetectIn(Refresh)
<1>1. Of("run") \in SUBSET (1 .. Len(inbox)) /\ Len(inbox) \in Nat
  BY DEF DesktopTypeOK, Of
<1>2. IsFiniteSet(Of("run"))
  <2>1. IsFiniteSet(1 .. Len(inbox))
    BY <1>1, FS_Interval
  <2>2. QED
    BY <1>1, <2>1, FS_Subset
<1> DEFINE n == Cardinality(Of("run"))
<1>3. n \in Nat /\ (Of("run") # {} => n # 0)
  BY <1>2, FS_CardinalityType, FS_EmptySet
<1> HIDE DEF n
<1>4. Refresh = [i \in 1 .. n |-> Event("detect")]
  BY DEF Refresh, n
<1>5. Refresh \in Seq(Commands)
  BY <1>3, <1>4, PlainFits
<1>6. Event("detect").kind = "detect"
  BY DEF Event
<1>7. ASSUME Of("run") # {}
      PROVE  DetectIn(Refresh)
  <2>1. 1 \in DOMAIN Refresh /\ Refresh[1].kind = "detect"
    BY <1>3, <1>4, <1>6, <1>7
  <2>2. QED
    BY <2>1 DEF DetectIn
<1>8. QED
  BY <1>5, <1>7

LEMMA RowsFit == DesktopTypeOK => Rows \in [Listed -> Presence] \cup {Unseen}
<1>1. DesktopTypeOK /\ Reports # {} => Rows \in [Listed -> Presence]
  BY LastReport DEF DesktopTypeOK
<1>2. DesktopTypeOK /\ Reports = {} => Rows \in [Listed -> Presence] \cup {Unseen}
  BY DEF DesktopTypeOK, Rows
<1>3. QED
  BY <1>1, <1>2

(* The steps, as the proofs below take them: a frame; a thread that only   *)
(* touches its own marks; the worker.                                      *)
Frame(act) ==
    /\ act \in Moves \cup Buttons \cup {NoAct}
    /\ Draw(act)
    /\ acts' \in {acts, acts + 1} /\ acts' \in 0 .. MaxActs
    /\ \/ StoreCadence(act)
       \/ ~act.open /\ UNCHANGED <<frame, telVars>>
Aside ==
    /\ EndFrame \/ Sampler
    /\ UNCHANGED <<cmdVars, inbox, screen, shown, busy, dryDefault, open, acts>>

LEMMA DesktopNextCases ==
    ASSUME DesktopTypeOK, [DesktopNext]_desktopVars
    PROVE  \/ \E act : Frame(act)
           \/ Aside
           \/ Worker
           \/ UNCHANGED desktopVars
<1>0. acts \in 0 .. MaxActs /\ MaxActs \in Nat
  BY DesktopAssumption DEF DesktopTypeOK
<1>1. CASE Repaint
  BY <1>0, <1>1 DEF Repaint, Frame
<1>2. ASSUME NEW act \in Moves \cup Buttons, Use(act)
      PROVE  Frame(act)
  <2>1. act.open \in BOOLEAN
    BY ActsFit DEF ActFits
  <2>2. Draw(act) /\ (StoreCadence(act) \/ (~act.open /\ UNCHANGED <<frame, telVars>>))
    BY <1>2, <2>1 DEF Use
  <2>3. acts' \in {acts, acts + 1} /\ acts' \in 0 .. MaxActs
    BY <1>0, <1>2 DEF Use
  <2>4. QED
    BY <2>2, <2>3 DEF Frame
<1>3. CASE EndFrame
  BY <1>3 DEF EndFrame, Aside, eventVars
<1>4. CASE Sampler
  BY <1>4 DEF Sampler, SampleNow, ReadCadence, Wake, Aside, eventVars, uiVars
<1>5. QED
  BY <1>1, <1>2, <1>3, <1>4 DEF DesktopNext, Ui

LEMMA FrameTypes ==
    ASSUME DesktopTypeOK, NEW act, Frame(act)
    PROVE  DesktopTypeOK'
<1>1. ActFits(act)
  BY ActsFit DEF Frame
<1>2. Draw(act) /\ acts' \in 0 .. MaxActs
  BY DEF Frame
<1>3. host' \in [Listed -> Presence] /\ doing' \in Doings /\ untold' \in BOOLEAN
  BY <1>2 DEF Draw, DesktopTypeOK
<1>4. cmds' \in Seq(Commands)
  <2>1. cmds' = (cmds \o Refresh) \o act.cmds
    BY <1>2 DEF Draw
  <2>2. QED
    BY <1>1, <2>1, RefreshFits, OrdersJoin DEF DesktopTypeOK, ActFits
<1>5. inbox' \in Seq(Events) /\ repaint' \in BOOLEAN
  <2>1. inbox' = <<>>
    BY <1>2 DEF Draw
  <2>2. repaint' \in BOOLEAN
    BY <1>2 DEF Draw
  <2>3. QED
    BY <2>1, <2>2
<1>6. shown' \in [Listed -> Presence] \cup {Unseen}
  BY <1>2, RowsFit DEF Draw
<1>7. busy' \subseteq Listed
  BY <1>1, <1>2 DEF Draw, Marked, DesktopTypeOK, ActFits
<1>8. screen' \in Screens /\ dryDefault' \in BOOLEAN /\ open' \in BOOLEAN
  BY <1>1, <1>2 DEF Draw, ActFits
<1>9. /\ frame' \in {"rest", "bump"} /\ cadence' \in {1000, 10000} /\ pace' \in {1000, 10000}
      /\ sampler' \in {"top", "sampled", "wait", "ended"} /\ alive' \in BOOLEAN /\ bumped' \in BOOLEAN
  <2>1. CASE StoreCadence(act)
    <3>1. Cadence[act.screen] \in {1000, 10000}
      BY <1>1 DEF ActFits, Cadence, Screens
    <3>2. QED
      BY <2>1, <3>1 DEF StoreCadence, DesktopTypeOK
  <2>2. CASE UNCHANGED <<frame, telVars>>
    BY <2>2 DEF telVars, DesktopTypeOK
  <2>3. QED
    BY <2>1, <2>2 DEF Frame
<1>10. QED
  BY <1>2, <1>3, <1>4, <1>5, <1>6, <1>7, <1>8, <1>9 DEF DesktopTypeOK

LEMMA AsideTypes ==
    ASSUME DesktopTypeOK, Aside
    PROVE  DesktopTypeOK'
<1>1. /\ frame' \in {"rest", "bump"} /\ pace' \in {1000, 10000} /\ cadence' \in {1000, 10000}
      /\ sampler' \in {"top", "sampled", "wait", "ended"}
  BY DEF Aside, Sampler, EndFrame, SampleNow, ReadCadence, Wake, DesktopTypeOK, uiVars, eventVars
<1>2. alive' = alive /\ (bumped' = bumped \/ bumped' = TRUE \/ bumped' = FALSE)
      /\ (repaint' = repaint \/ repaint' = TRUE)
  BY DEF Aside, Sampler, EndFrame, SampleNow, ReadCadence, Wake, uiVars, eventVars
<1>3. alive' \in BOOLEAN /\ bumped' \in BOOLEAN /\ repaint' \in BOOLEAN
  <2>1. alive \in BOOLEAN /\ bumped \in BOOLEAN /\ repaint \in BOOLEAN
    BY DEF DesktopTypeOK
  <2>2. alive' \in BOOLEAN
    BY <1>2, <2>1
  <2>3. bumped' \in BOOLEAN
    BY <1>2, <2>1
  <2>4. repaint' \in BOOLEAN
    BY <1>2, <2>1
  <2>5. QED
    BY <2>2, <2>3, <2>4
<1>4. QED
  BY <1>1, <1>3 DEF Aside, DesktopTypeOK, cmdVars

LEMMA TakeFits ==
    ASSUME DesktopTypeOK, NEW kind, Take(kind)
    PROVE  /\ doing = Resting /\ ~Running
           /\ cmds' \in Seq(Commands) /\ Head(cmds) \in Commands /\ Head(cmds).kind = kind
           /\ OrderedIn(cmds) \subseteq OrderedIn(cmds')
                \cup (IF kind \in Hooked THEN ToSet(Order(Head(cmds).targets)) ELSE {})
           /\ DetectIn(cmds) /\ kind # "detect" => DetectIn(cmds')
<1>1. cmds \in Seq(Commands) /\ cmds # <<>> /\ cmds' = Tail(cmds) /\ Head(cmds).kind = kind /\ doing = Resting
  BY DEF Take, DesktopTypeOK
<1>2. ~Running
  BY <1>1 DEF Running, Resting
<1>3. QED
  BY <1>1, <1>2, OrdersTaken

LEMMA EmitFits ==
    ASSUME DesktopTypeOK, NEW es \in Seq(Events), Emit(es)
    PROVE  inbox \in Seq(Events) /\ inbox' = inbox \o es /\ inbox' \in Seq(Events) /\ repaint' \in BOOLEAN
<1>1. inbox \in Seq(Events) /\ inbox' = inbox \o es
  BY DEF DesktopTypeOK, Emit
<1>2. repaint' \in BOOLEAN
  BY DEF Emit
<1>3. QED
  BY <1>1, <1>2

(* A thread's own step of the worker, with what it emits.                  *)
LEMMA StepFits ==
    ASSUME DesktopTypeOK, Running, doing.rest # <<>>
    PROVE  /\ doing.rest \in Seq(Listed) /\ Head(doing.rest) \in Listed /\ Tail(doing.rest) \in Seq(Listed)
           /\ Finish(Head(doing.rest)) \in Seq(Events)
           /\ doing \in [kind : Hooked, rest : Seq(Listed), failed : SUBSET Listed, dry : BOOLEAN]
<1>1. doing \in Doings /\ doing.kind \in Hooked
  BY DEF DesktopTypeOK, Running, Hooked
<1>2. doing.rest \in Seq(Listed)
      /\ doing \in [kind : Hooked, rest : Seq(Listed), failed : SUBSET Listed, dry : BOOLEAN]
  BY <1>1, DoingFacts
<1>3. Head(doing.rest) \in Listed /\ Tail(doing.rest) \in Seq(Listed)
  BY <1>2
<1>4. [kind |-> "step", c |-> Head(doing.rest)] \in Events
  BY <1>3 DEF Events
<1>5. QED
  BY <1>2, <1>3, <1>4 DEF Finish

EndsOfAdd == {<<>>, <<Event("run")>>, <<Event("refused")>>}
Dashboards == {<<"plan">>, <<"plan", "deployed">>, <<"plan", "refused">>, <<"refused">>}
LEMMA EndsFit ==
    /\ \A end \in EndsOfAdd : end \in Seq(Events)
    /\ \A told \in Dashboards :
          LET es == [i \in DOMAIN told |-> Event(told[i])]
          IN  es \in Seq(Events) /\ \A i \in DOMAIN es : es[i].kind \notin {"report", "step"}
<1>1. \A kind \in {"run", "refused", "plan", "deployed"} : Event(kind) \in Events /\ Event(kind).kind = kind
  BY PlainFits DEF Event
<1>2. \A end \in EndsOfAdd : end \in Seq(Events)
  <2>1. <<>> \in Seq(Events) /\ <<Event("run")>> \in Seq(Events) /\ <<Event("refused")>> \in Seq(Events)
    BY <1>1
  <2>2. QED
    BY <2>1 DEF EndsOfAdd
<1>3. ASSUME NEW told \in Dashboards
      PROVE  told \in Seq({"run", "refused", "plan", "deployed"})
  <2>1. <<"plan">> \in Seq({"run", "refused", "plan", "deployed"})
    OBVIOUS
  <2>2. <<"refused">> \in Seq({"run", "refused", "plan", "deployed"})
    OBVIOUS
  <2>3. <<"plan", "deployed">> \in Seq({"run", "refused", "plan", "deployed"})
    OBVIOUS
  <2>4. <<"plan", "refused">> \in Seq({"run", "refused", "plan", "deployed"})
    OBVIOUS
  <2>5. QED
    BY <2>1, <2>2, <2>3, <2>4 DEF Dashboards
<1>4. ASSUME NEW told \in Dashboards
      PROVE  LET es == [i \in DOMAIN told |-> Event(told[i])]
             IN  es \in Seq(Events) /\ \A i \in DOMAIN es : es[i].kind \notin {"report", "step"}
  <2>1. told \in [1 .. Len(told) -> {"run", "refused", "plan", "deployed"}] /\ Len(told) \in Nat
    BY <1>3
  <2> DEFINE es == [i \in DOMAIN told |-> Event(told[i])]
  <2>2. \A i \in 1 .. Len(told) : Event(told[i]) \in Events /\ Event(told[i]).kind \notin {"report", "step"}
    BY <1>1, <2>1
  <2>3. QED
    BY <2>1, <2>2
<1>5. QED
  BY <1>2, <1>4

LEMMA WorkerTypes ==
    ASSUME DesktopTypeOK, Worker
    PROVE  DesktopTypeOK'
<1>1. UNCHANGED uiVars /\ UNCHANGED <<cadence, sampler, pace>>
  BY DEF Worker, DetectHost, Sample, StartRun, RunStep, EndRun, AddRepo, Dashboard, Shutdown, Stopped, telVars
<1>2. (alive' = alive \/ alive' = FALSE) /\ (bumped' = bumped \/ bumped' = TRUE)
  BY DEF Worker, DetectHost, Sample, StartRun, RunStep, EndRun, AddRepo, Dashboard, Shutdown, Stopped, telVars
<1>3. alive' \in BOOLEAN /\ bumped' \in BOOLEAN
  <2>1. alive \in BOOLEAN /\ bumped \in BOOLEAN
    BY DEF DesktopTypeOK
  <2>2. alive' \in BOOLEAN
    BY <1>2, <2>1
  <2>3. bumped' \in BOOLEAN
    BY <1>2, <2>1
  <2>4. QED
    BY <2>2, <2>3
<1> DEFINE Fits == /\ host' \in [Listed -> Presence] /\ cmds' \in Seq(Commands) /\ doing' \in Doings
                   /\ inbox' \in Seq(Events)
<1>a. untold' \in BOOLEAN
  <2>1. untold' = untold \/ untold' = FALSE \/ \E new \in BOOLEAN : untold' = (untold \/ new)
    <3>1. \A became, end : (became # host /\ end = <<Event("refused")>>) \in BOOLEAN
      OBVIOUS
    <3>2. AddRepo => \E new \in BOOLEAN : untold' = (untold \/ new)
      BY <3>1 DEF AddRepo
    <3>3. QED
      BY <3>2 DEF Worker, DetectHost, Sample, StartRun, RunStep, EndRun, Dashboard, Shutdown, Stopped
  <2>2. untold \in BOOLEAN
    BY DEF DesktopTypeOK
  <2>3. QED
    BY <2>1, <2>2
<1>b. repaint' \in BOOLEAN
  <2>1. repaint' = repaint \/ \E es : repaint' = (repaint \/ es # <<>>)
    BY DEF Worker, DetectHost, Sample, StartRun, RunStep, EndRun, AddRepo, Dashboard, Shutdown, Stopped,
           Emit, eventVars
  <2>2. repaint \in BOOLEAN
    BY DEF DesktopTypeOK
  <2>3. QED
    BY <2>1, <2>2
<1>0. /\ host \in [Listed -> Presence] /\ cmds \in Seq(Commands) /\ doing \in Doings
      /\ inbox \in Seq(Events)
  BY DEF DesktopTypeOK
<1>4. ASSUME DetectHost PROVE Fits
  <2>1. <<[kind |-> "report", rows |-> host]>> \in Seq(Events)
    BY <1>0 DEF Events
  <2>2. inbox' \in Seq(Events)
    BY <1>4, <2>1, EmitFits DEF DetectHost
  <2>3. cmds' \in Seq(Commands)
    BY <1>4, TakeFits DEF DetectHost
  <2>4. host' = host /\ doing' = doing
    BY <1>4 DEF DetectHost
  <2>5. QED
    BY <1>0, <2>2, <2>3, <2>4
<1>5. ASSUME Sample PROVE Fits
  <2>1. cmds' \in Seq(Commands)
    BY <1>5, TakeFits DEF Sample
  <2>2. QED
    BY <1>0, <1>5, <2>1 DEF Sample, eventVars
<1>6. ASSUME NEW phase \in Hooked, StartRun(phase)
      PROVE  Fits
  <2>1. /\ cmds' \in Seq(Commands) /\ Head(cmds).targets \in Seq(Listed) /\ Head(cmds).dry \in BOOLEAN
    BY <1>6, TakeFits, CommandFacts DEF StartRun
  <2>2. Order(Head(cmds).targets) \in Seq(Listed)
    BY <2>1, OrderHolds
  <2>3. doing' \in Doings
    BY <1>6, <2>1, <2>2 DEF StartRun, Doings
  <2>4. QED
    BY <1>0, <1>6, <2>1, <2>3 DEF StartRun, eventVars
<1>7. ASSUME RunStep PROVE Fits
  <2> DEFINE c == Head(doing.rest)
  <2>1. Running /\ doing.rest # <<>> /\ Emit(Finish(c)) /\ cmds' = cmds
    BY <1>7 DEF RunStep
  <2>2. c \in Listed /\ Tail(doing.rest) \in Seq(Listed) /\ Finish(c) \in Seq(Events)
        /\ doing \in [kind : Hooked, rest : Seq(Listed), failed : SUBSET Listed, dry : BOOLEAN]
    BY <2>1, StepFits
  <2>3. PICK h \in Presence \cup {host[c]}, fails \in BOOLEAN :
             /\ host' = [host EXCEPT ![c] = h]
             /\ doing' = [doing EXCEPT !.rest = Tail(@), !.failed = IF fails THEN @ \cup {c} ELSE @]
    BY <1>7 DEF RunStep, HookRuns
  <2>4. host' \in [Listed -> Presence]
    BY <1>0, <2>2, <2>3
  <2>5. doing' \in [kind : Hooked, rest : Seq(Listed), failed : SUBSET Listed, dry : BOOLEAN]
    BY <2>2, <2>3
  <2>6. QED
    BY <1>0, <2>1, <2>2, <2>4, <2>5, EmitFits DEF Doings
<1>8. ASSUME EndRun PROVE Fits
  <2>1. <<Event("run")>> \in Seq(Events)
    BY PlainFits
  <2>2. QED
    BY <1>0, <1>8, <2>1, PlainFits, EmitFits DEF EndRun
<1>9. ASSUME AddRepo PROVE Fits
  <2>1. PICK became \in [Listed -> Presence], end \in EndsOfAdd :
             host' = became /\ Emit(end)
    BY <1>0, <1>9 DEF AddRepo, EndsOfAdd, Presence
  <2>2. cmds' \in Seq(Commands)
    BY <1>9, TakeFits DEF AddRepo
  <2>3. inbox' \in Seq(Events)
    BY <2>1, EndsFit, EmitFits
  <2>4. QED
    BY <1>0, <1>9, <2>1, <2>2, <2>3 DEF AddRepo
<1>10. ASSUME Dashboard PROVE Fits
  <2>1. PICK told \in Dashboards : Emit([i \in DOMAIN told |-> Event(told[i])])
    BY <1>10 DEF Dashboard, Dashboards
  <2>2. inbox' \in Seq(Events)
    BY <2>1, EndsFit, EmitFits
  <2>3. cmds' \in Seq(Commands)
    BY <1>10, TakeFits DEF Dashboard
  <2>4. QED
    BY <1>0, <1>10, <2>2, <2>3 DEF Dashboard
<1>11. ASSUME Shutdown PROVE Fits
  <2>1. cmds' \in Seq(Commands)
    BY <1>11, TakeFits DEF Shutdown
  <2>2. QED
    BY <1>0, <1>11, <2>1, PlainFits DEF Shutdown, eventVars
<1>12. ASSUME Stopped PROVE Fits
  BY <1>0, <1>12, PlainFits DEF Stopped, eventVars
<1>13. Fits
  BY <1>4, <1>5, <1>6, <1>7, <1>8, <1>9, <1>10, <1>11, <1>12 DEF Worker, Hooked
<1>14. QED
  BY <1>1, <1>3, <1>a, <1>b, <1>13 DEF DesktopTypeOK, uiVars

LEMMA WindowOpensTyped == DesktopInit => DesktopTypeOK
<1> SUFFICES ASSUME DesktopInit
             PROVE  DesktopTypeOK
  OBVIOUS
<1>1. cmds \in Seq(Commands)
  BY PlainFits DEF DesktopInit
<1>2. host \in [Listed -> Presence] /\ doing \in Doings /\ inbox \in Seq(Events)
  BY PlainFits DEF DesktopInit
<1>3. repaint \in BOOLEAN /\ dryDefault \in BOOLEAN /\ open \in BOOLEAN
      /\ alive \in BOOLEAN /\ bumped \in BOOLEAN /\ untold \in BOOLEAN
  BY DEF DesktopInit
<1>4. /\ frame \in {"rest", "bump"} /\ screen \in Screens
      /\ shown \in [Listed -> Presence] \cup {Unseen} /\ busy \subseteq Listed
      /\ cadence \in {1000, 10000} /\ pace \in {1000, 10000}
      /\ sampler \in {"top", "sampled", "wait", "ended"} /\ acts \in 0 .. MaxActs
  BY DesktopAssumption DEF DesktopInit, Screens
<1>5. QED
  BY <1>1, <1>2, <1>3, <1>4 DEF DesktopTypeOK

(* Every variable of the window, the worker and the sampler has its type.  *)
THEOREM WindowTypes == DesktopSpec => []DesktopTypeOK
<1>1. DesktopTypeOK /\ [DesktopNext]_desktopVars => DesktopTypeOK'
  <2> SUFFICES ASSUME DesktopTypeOK, [DesktopNext]_desktopVars
               PROVE  DesktopTypeOK'
    OBVIOUS
  <2>1. CASE UNCHANGED desktopVars
    BY <2>1 DEF desktopVars, cmdVars, eventVars, uiVars, telVars, DesktopTypeOK
  <2>2. QED
    BY <2>1, DesktopNextCases, FrameTypes, AsideTypes, WorkerTypes
<1>2. QED
  BY <1>1, WindowOpensTyped, PTL DEF DesktopSpec
-----------------------------------------------------------------------------
(* A busy row has a step in the inbox, in an order or in the run.          *)
Rest == IF Running THEN ToSet(doing.rest) ELSE {}

LEMMA BusyReads == BusyHasWork <=> busy \subseteq Cleared \cup OrderedIn(cmds) \cup Rest
  BY DEF BusyHasWork, Ordered, OrderedIn, Rest

LEMMA FrameKeepsWork ==
    ASSUME DesktopTypeOK, BusyHasWork, NEW act, Frame(act)
    PROVE  BusyHasWork'
<1>1. ActFits(act) /\ Refresh \in Seq(Commands) /\ cmds \in Seq(Commands)
  BY ActsFit, RefreshFits DEF Frame, DesktopTypeOK
<1>2. cmds' = (cmds \o Refresh) \o act.cmds /\ busy' = (busy \ Cleared) \cup act.busy /\ doing' = doing
  BY DEF Frame, Draw, Marked
<1>3. Rest' = Rest
  BY <1>2 DEF Rest, Running
<1>4. OrderedIn(cmds) \cup OrderedIn(act.cmds) \subseteq OrderedIn(cmds')
  <2>1. cmds \o Refresh \in Seq(Commands) /\ OrderedIn(cmds) \subseteq OrderedIn(cmds \o Refresh)
    BY <1>1, OrdersJoin
  <2>2. OrderedIn(cmds \o Refresh) \cup OrderedIn(act.cmds) \subseteq OrderedIn((cmds \o Refresh) \o act.cmds)
    BY <1>1, <2>1, OrdersJoin DEF ActFits
  <2>3. QED
    BY <1>2, <2>1, <2>2
<1>5. busy' \subseteq OrderedIn(cmds') \cup Rest'
  BY <1>1, <1>2, <1>3, <1>4, BusyReads DEF ActFits
<1>6. BusyHasWork' <=> busy' \subseteq Cleared' \cup OrderedIn(cmds') \cup Rest'
  BY DEF BusyHasWork, Ordered, OrderedIn, Rest
<1>7. QED
  BY <1>5, <1>6

LEMMA WorkGoesOn ==
    ASSUME BusyHasWork, busy' = busy, Cleared \subseteq Cleared',
           OrderedIn(cmds) \cup Rest \subseteq Cleared' \cup OrderedIn(cmds') \cup Rest'
    PROVE  BusyHasWork'
<1>1. BusyHasWork' <=> busy' \subseteq Cleared' \cup OrderedIn(cmds') \cup Rest'
  BY DEF BusyHasWork, Ordered, OrderedIn, Rest
<1>2. QED
  BY <1>1, BusyReads

(* Taking an order that is not of a run.                                   *)
LEMMA PlainTakeKeepsWork ==
    ASSUME DesktopTypeOK, BusyHasWork, NEW kind \in {"detect", "sample", "addRepo", "dashboard", "shutdown"},
           Take(kind), busy' = busy, Cleared \subseteq Cleared'
    PROVE  BusyHasWork'
<1>1. Rest = {} /\ OrderedIn(cmds) \subseteq OrderedIn(cmds')
  BY TakeFits DEF Rest, Hooked
<1>2. QED
  BY <1>1, WorkGoesOn

LEMMA WorkerKeepsWork ==
    ASSUME DesktopTypeOK, BusyHasWork, Worker
    PROVE  BusyHasWork'
<1>0. busy' = busy /\ inbox \in Seq(Events)
  BY DEF Worker, DetectHost, Sample, StartRun, RunStep, EndRun, AddRepo, Dashboard, Shutdown, Stopped, uiVars, DesktopTypeOK
<1>a. inbox' = inbox => Cleared' = Cleared
  BY DEF Cleared, Of
<1>b. ASSUME NEW es \in Seq(Events), Emit(es)
      PROVE  Cleared \subseteq Cleared' /\ \A i \in DOMAIN es : es[i].kind = "step" => es[i].c \in Cleared'
  BY <1>b, EmitFits, KindsStay
<1>1. ASSUME DetectHost PROVE BusyHasWork'
  <2>1. <<[kind |-> "report", rows |-> host]>> \in Seq(Events)
    BY DEF Events, DesktopTypeOK
  <2>2. QED
    BY <1>0, <1>1, <1>b, <2>1, PlainTakeKeepsWork DEF DetectHost
<1>2. ASSUME Sample PROVE BusyHasWork'
  BY <1>0, <1>2, <1>a, PlainTakeKeepsWork DEF Sample, eventVars
<1>3. ASSUME NEW phase \in Hooked, StartRun(phase) PROVE BusyHasWork'
  <2>1. /\ OrderedIn(cmds) \subseteq OrderedIn(cmds') \cup ToSet(Order(Head(cmds).targets))
        /\ ~Running
    BY <1>3, TakeFits DEF StartRun
  <2>2. doing'.kind = phase /\ doing'.rest = Order(Head(cmds).targets)
    BY <1>3 DEF StartRun
  <2>3. Rest = {} /\ Rest' = ToSet(Order(Head(cmds).targets))
    BY <2>1, <2>2 DEF Rest, Running, Hooked
  <2>4. Cleared' = Cleared
    BY <1>3, <1>a DEF StartRun, eventVars
  <2>5. QED
    BY <1>0, <2>1, <2>3, <2>4, WorkGoesOn
<1>4. ASSUME RunStep PROVE BusyHasWork'
  <2> DEFINE c == Head(doing.rest)
  <2>1. Running /\ doing.rest # <<>> /\ Emit(Finish(c)) /\ cmds' = cmds
    BY <1>4 DEF RunStep
  <2>2. /\ c \in Listed /\ doing.rest \in Seq(Listed) /\ Finish(c) \in Seq(Events)
        /\ doing \in [kind : Hooked, rest : Seq(Listed), failed : SUBSET Listed, dry : BOOLEAN]
    BY <2>1, StepFits
  <2>3. doing'.kind = doing.kind /\ doing'.rest = Tail(doing.rest)
    BY <1>4, <2>2 DEF RunStep
  <2>4. Rest = ToSet(doing.rest) /\ Rest' = ToSet(Tail(doing.rest))
    BY <2>1, <2>3 DEF Rest, Running
  <2>5. ToSet(doing.rest) \subseteq {c} \cup ToSet(Tail(doing.rest))
    <3>1. ASSUME NEW i \in DOMAIN doing.rest, i # 1
          PROVE  i - 1 \in DOMAIN Tail(doing.rest) /\ Tail(doing.rest)[i - 1] = doing.rest[i]
      BY <2>1, <2>2, <3>1
    <3>2. \A i \in DOMAIN doing.rest : i = 1 => doing.rest[i] = c
      BY <2>1, <2>2
    <3>3. QED
      BY <3>1, <3>2 DEF ToSet
  <2>6. Cleared \subseteq Cleared' /\ c \in Cleared'
    <3>1. 1 \in DOMAIN Finish(c) /\ Finish(c)[1].kind = "step" /\ Finish(c)[1].c = c
      BY DEF Finish
    <3>2. QED
      BY <1>b, <2>1, <2>2, <3>1
  <2>7. QED
    BY <1>0, <2>1, <2>4, <2>5, <2>6, WorkGoesOn
<1>5. ASSUME EndRun PROVE BusyHasWork'
  <2>1. Rest = {} /\ cmds' = cmds
    BY <1>5 DEF EndRun, Rest, ToSet
  <2>2. Cleared \subseteq Cleared'
    <3>1. <<Event("run")>> \in Seq(Events)
      BY PlainFits
    <3>2. QED
      BY <1>5, <1>b, <3>1 DEF EndRun
  <2>3. QED
    BY <1>0, <2>1, <2>2, WorkGoesOn
<1>6. ASSUME AddRepo PROVE BusyHasWork'
  <2>1. PICK end \in EndsOfAdd : Emit(end)
    BY <1>6 DEF AddRepo, EndsOfAdd
  <2>2. Cleared \subseteq Cleared'
    BY <1>b, <2>1, EndsFit
  <2>3. QED
    BY <1>0, <1>6, <2>2, PlainTakeKeepsWork DEF AddRepo
<1>7. ASSUME Dashboard PROVE BusyHasWork'
  <2>1. PICK told \in Dashboards : Emit([i \in DOMAIN told |-> Event(told[i])])
    BY <1>7 DEF Dashboard, Dashboards
  <2>2. Cleared \subseteq Cleared'
    BY <1>b, <2>1, EndsFit
  <2>3. QED
    BY <1>0, <1>7, <2>2, PlainTakeKeepsWork DEF Dashboard
<1>8. ASSUME Shutdown PROVE BusyHasWork'
  BY <1>0, <1>8, <1>a, PlainTakeKeepsWork DEF Shutdown, eventVars
<1>9. ASSUME Stopped PROVE BusyHasWork'
  <2>1. Rest = {} /\ cmds' = cmds /\ Cleared' = Cleared
    BY <1>9, <1>a DEF Stopped, Rest, Running, eventVars
  <2>2. QED
    BY <1>0, <2>1, WorkGoesOn
<1>10. QED
  BY <1>1, <1>2, <1>3, <1>4, <1>5, <1>6, <1>7, <1>8, <1>9 DEF Worker, Hooked

(* A row that says "working..." has a StepFinished of its component in the *)
(* inbox, in an order or in the run under way, for any presses and runs.   *)
THEOREM BusyRowsHaveWork == DesktopSpec => []BusyHasWork
<1>1. DesktopInit => BusyHasWork
  BY DEF DesktopInit, BusyHasWork
<1>2. DesktopTypeOK /\ BusyHasWork /\ [DesktopNext]_desktopVars => BusyHasWork'
  <2> SUFFICES ASSUME DesktopTypeOK, BusyHasWork, [DesktopNext]_desktopVars
               PROVE  BusyHasWork'
    OBVIOUS
  <2>1. ASSUME UNCHANGED <<cmds, doing, inbox, busy>>
        PROVE  BusyHasWork'
    BY <2>1, WorkGoesOn DEF Cleared, Of, Rest, Running
  <2>2. Aside \/ UNCHANGED desktopVars => UNCHANGED <<cmds, doing, inbox, busy>>
    BY DEF Aside, desktopVars, cmdVars, eventVars, uiVars
  <2>3. QED
    BY <2>1, <2>2, DesktopNextCases, FrameKeepsWork, WorkerKeepsWork
<1>3. QED
  BY <1>1, <1>2, WindowTypes, PTL DEF DesktopSpec
-----------------------------------------------------------------------------
(* Rows that are out of date have a detect ordered, a RunFinished that     *)
(* will order one, or a run that will end in one.                          *)
FreshInv == ~untold => \/ DetectIn(cmds) \/ Of("run") # {} \/ Running
                       \/ Rows = host

LEMMA FrameKeepsFresh ==
    ASSUME DesktopTypeOK, FreshInv, NEW act, Frame(act)
    PROVE  FreshInv'
<1>1. ActFits(act) /\ Refresh \in Seq(Commands) /\ cmds \in Seq(Commands)
  BY ActsFit, RefreshFits DEF Frame, DesktopTypeOK
<1>2. /\ cmds' = (cmds \o Refresh) \o act.cmds /\ shown' = Rows /\ inbox' = <<>>
      /\ UNCHANGED <<host, doing, untold>>
  BY DEF Frame, Draw
<1>3. DetectIn(cmds) \/ DetectIn(Refresh) => DetectIn(cmds')
  <2>1. cmds \o Refresh \in Seq(Commands) /\ (DetectIn(cmds) \/ DetectIn(Refresh) => DetectIn(cmds \o Refresh))
    BY <1>1, OrdersJoin
  <2>2. DetectIn(cmds \o Refresh) => DetectIn((cmds \o Refresh) \o act.cmds)
    BY <1>1, <2>1, OrdersJoin DEF ActFits
  <2>3. QED
    BY <1>2, <2>1, <2>2
<1>4. Rows' = Rows
  <2>1. Reports' = {}
    BY <1>2 DEF Reports, Of
  <2>2. QED
    BY <1>2, <2>1 DEF Rows
<1>5. Running' = Running
  BY <1>2 DEF Running
<1>6. Of("run") # {} => DetectIn(Refresh)
  BY RefreshFits
<1>7. QED
  BY <1>2, <1>3, <1>4, <1>5, <1>6 DEF FreshInv

(* A step that reports nothing and leaves the host as it is.               *)
LEMMA StillFresh ==
    ASSUME FreshInv, UNCHANGED <<host, shown>>, untold' = untold,
           \/ inbox' = inbox
           \/ inbox \in Seq(Events) /\ \E es \in Seq(Events) :
                inbox' = inbox \o es /\ \A i \in DOMAIN es : es[i].kind # "report",
           DetectIn(cmds) => DetectIn(cmds'), Running => Running' \/ Of("run")' # {}
    PROVE  FreshInv'
<1>1. Rows' = Rows /\ (Of("run") # {} => Of("run")' # {})
  <2>1. CASE inbox' = inbox
    BY <2>1 DEF Rows, Reports, Of
  <2>2. ASSUME inbox \in Seq(Events), NEW es \in Seq(Events),
               inbox' = inbox \o es, \A i \in DOMAIN es : es[i].kind # "report"
        PROVE  Rows' = Rows /\ (Of("run") # {} => Of("run")' # {})
    BY <2>2, RowsStay, KindsStay
  <2>3. QED
    BY <2>1, <2>2
<1>2. QED
  BY <1>1 DEF FreshInv

LEMMA WorkerKeepsFresh ==
    ASSUME DesktopTypeOK, FreshInv, Worker
    PROVE  FreshInv'
<1>0. shown' = shown /\ inbox \in Seq(Events) /\ host \in [Listed -> Presence]
  BY DEF Worker, DetectHost, Sample, StartRun, RunStep, EndRun, AddRepo, Dashboard, Shutdown, Stopped, uiVars, DesktopTypeOK
<1>a. <<Event("run")>> \in Seq(Events) /\ <<Event("run")>>[1].kind = "run" /\ 1 \in DOMAIN <<Event("run")>>
  BY PlainFits DEF Event
<1>1. ASSUME DetectHost PROVE FreshInv'
  <2>1. inbox' = inbox \o <<[kind |-> "report", rows |-> host]>> /\ host' = host
    BY <1>1 DEF DetectHost, Emit
  <2>2. Rows' = host'
    BY <1>0, <2>1, RowsRenewed
  <2>3. QED
    BY <2>2 DEF FreshInv
<1>2. ASSUME Sample PROVE FreshInv'
  <2>1. ~Running /\ (DetectIn(cmds) => DetectIn(cmds'))
    BY <1>2, TakeFits DEF Sample
  <2>2. QED
    BY <1>0, <1>2, <2>1, StillFresh DEF Sample, eventVars
<1>3. ASSUME NEW phase \in Hooked, StartRun(phase) PROVE FreshInv'
  <2>1. Running'
    BY <1>3 DEF StartRun, Running, Hooked
  <2>2. QED
    BY <2>1 DEF FreshInv
<1>4. ASSUME RunStep PROVE FreshInv'
  <2>1. doing'.kind = doing.kind /\ Running
    <3>1. Running /\ doing.rest # <<>>
      BY <1>4 DEF RunStep
    <3>2. doing \in [kind : Hooked, rest : Seq(Listed), failed : SUBSET Listed, dry : BOOLEAN]
      BY <3>1, StepFits
    <3>3. QED
      BY <1>4, <3>1, <3>2 DEF RunStep
  <2>2. QED
    BY <2>1 DEF FreshInv, Running
<1>5. ASSUME EndRun PROVE FreshInv'
  <2>1. inbox' = inbox \o <<Event("run")>>
    BY <1>5 DEF EndRun, Emit
  <2>2. Of("run")' # {}
    BY <1>0, <1>a, <2>1, KindsStay
  <2>3. QED
    BY <2>2 DEF FreshInv
<1>6. ASSUME AddRepo PROVE FreshInv'
  <2>1. PICK end \in EndsOfAdd :
             /\ host' # host => end # <<>>
             /\ inbox' = inbox \o end
             /\ untold' = (untold \/ (host' # host /\ end = <<Event("refused")>>))
    <3> USE DEF EndsOfAdd
    <3>1. PICK became \in {host} \cup (IF Head(cmds).dry THEN {}
                               ELSE {[host EXCEPT ![c] = "present"] : c \in {d \in Listed : host[d] = "absent"}}),
                 end \in EndsOfAdd :
               /\ became # host => end # <<>>
               /\ host' = became
               /\ Emit(end)
               /\ untold' = (untold \/ (became # host /\ end = <<Event("refused")>>))
      BY <1>6 DEF AddRepo
    <3>2. inbox' = inbox \o end
      BY <3>1 DEF Emit
    <3>3. QED
      BY <3>1, <3>2
  <2>2. CASE end = <<Event("run")>>
    <3>1. Of("run")' # {}
      BY <1>0, <1>a, <2>1, <2>2, KindsStay
    <3>2. QED
      BY <3>1 DEF FreshInv
  <2>3. CASE host' # host /\ end = <<Event("refused")>>
    BY <2>1, <2>3 DEF FreshInv
  <2>4. CASE host' = host /\ end # <<Event("run")>>
    <3>1. untold' <=> untold
      BY <2>1, <2>4
    <3>2. end \in Seq(Events) /\ \A i \in DOMAIN end : end[i].kind # "report"
      <4>1. end \in Seq(Events)
        BY EndsFit
      <4>2. CASE end = <<>>
        <5>1. Len(end) = 0 /\ DOMAIN end = 1 .. Len(end)
          BY <4>1, <4>2
        <5>2. QED
          BY <4>1, <5>1
      <4>3. CASE end = <<Event("refused")>>
        BY <4>1, <4>3 DEF Event
      <4>4. QED
        BY <2>4, <4>1, <4>2, <4>3 DEF EndsOfAdd
    <3>3. Rows' = Rows /\ (Of("run") # {} => Of("run")' # {})
      BY <1>0, <2>1, <3>2, RowsStay, KindsStay
    <3>4. ~Running /\ (DetectIn(cmds) => DetectIn(cmds'))
      BY <1>6, TakeFits DEF AddRepo
    <3>5. QED
      BY <2>4, <3>1, <3>3, <3>4 DEF FreshInv
  <2>5. QED
    BY <2>1, <2>2, <2>3, <2>4 DEF EndsOfAdd
<1>7. ASSUME Dashboard PROVE FreshInv'
  <2>1. PICK told \in Dashboards : Emit([i \in DOMAIN told |-> Event(told[i])])
    BY <1>7 DEF Dashboard, Dashboards
  <2> DEFINE es == [i \in DOMAIN told |-> Event(told[i])]
  <2>2. es \in Seq(Events) /\ inbox' = inbox \o es /\ \A i \in DOMAIN es : es[i].kind # "report"
    BY <2>1, EndsFit DEF Emit
  <2>3. ~Running /\ (DetectIn(cmds) => DetectIn(cmds'))
    BY <1>7, TakeFits DEF Dashboard
  <2> HIDE DEF es
  <2>4. QED
    BY <1>0, <1>7, <2>2, <2>3, StillFresh DEF Dashboard
<1>8. ASSUME Shutdown PROVE FreshInv'
  <2>1. ~Running /\ (DetectIn(cmds) => DetectIn(cmds'))
    BY <1>8, TakeFits DEF Shutdown
  <2>2. QED
    BY <1>0, <1>8, <2>1, StillFresh DEF Shutdown, eventVars
<1>9. ASSUME Stopped PROVE FreshInv'
  <2>1. ~Running
    BY <1>9 DEF Stopped, Running
  <2>2. QED
    BY <1>0, <1>9, <2>1, StillFresh DEF Stopped, eventVars
<1>10. QED
  BY <1>1, <1>2, <1>3, <1>4, <1>5, <1>6, <1>7, <1>8, <1>9 DEF Worker, Hooked

LEMMA FreshAlways == DesktopSpec => []FreshInv
<1>1. DesktopInit => FreshInv
  <2>1. DesktopInit => 1 \in DOMAIN cmds /\ cmds[1].kind = "detect"
    BY DEF DesktopInit, Event
  <2>2. QED
    BY <2>1 DEF FreshInv, DetectIn
<1>2. DesktopTypeOK /\ FreshInv /\ [DesktopNext]_desktopVars => FreshInv'
  <2> SUFFICES ASSUME DesktopTypeOK, FreshInv, [DesktopNext]_desktopVars
               PROVE  FreshInv'
    OBVIOUS
  <2>1. ASSUME UNCHANGED <<host, shown, cmds, doing, inbox, untold>>
        PROVE  FreshInv'
    BY <2>1 DEF FreshInv, Rows, Reports, Of, Running
  <2>2. Aside \/ UNCHANGED desktopVars => UNCHANGED <<host, shown, cmds, doing, inbox, untold>>
    BY DEF Aside, desktopVars, cmdVars, eventVars, uiVars
  <2>3. QED
    BY <2>1, <2>2, DesktopNextCases, FrameKeepsFresh, WorkerKeepsFresh
<1>3. QED
  BY <1>1, <1>2, WindowTypes, PTL DEF DesktopSpec

(* A busy row has its step to come, and when nothing is under way the rows *)
(* show the host, unless an add-repo failed after it had changed it.       *)
THEOREM RowsStayHonest == DesktopSpec => []RowsAreHonest
<1>1. FreshInv => QuietMeansFresh
  <2> SUFFICES ASSUME FreshInv, Quiet, ~untold
               PROVE  shown = host
    BY DEF QuietMeansFresh
  <2>1. ~DetectIn(cmds) /\ Of("run") = {} /\ Reports = {} /\ ~Running
    BY DEF Quiet, DetectIn, Of, Reports, Running, Resting
  <2>2. QED
    BY <2>1 DEF FreshInv, Rows
<1>2. QED
  BY <1>1, BusyRowsHaveWork, FreshAlways, PTL DEF RowsAreHonest
-----------------------------------------------------------------------------
(* What the sampler knows: a cadence that is not the last one, or a stop,  *)
(* comes with a bump that it has not seen yet.                             *)
SleepInv ==
    /\ Asleep /\ frame # "bump" => pace = cadence
    /\ ~alive => doing.kind \in {"stopping", "ended"}
    /\ ~alive /\ doing.kind # "stopping" => bumped \/ sampler \in {"top", "ended"}

LEMMA SleepKept ==
    ASSUME SleepInv, DesktopTypeOK, [DesktopNext]_desktopVars
    PROVE  SleepInv'
<1>1. ASSUME NEW act, Frame(act) PROVE SleepInv'
  <2>1. doing' = doing
    BY <1>1 DEF Frame, Draw
  <2>2. CASE StoreCadence(act)
    BY <2>1, <2>2 DEF StoreCadence, SleepInv, Asleep
  <2>3. CASE UNCHANGED <<frame, telVars>>
    BY <2>1, <2>3 DEF telVars, SleepInv, Asleep
  <2>4. QED
    BY <1>1, <2>2, <2>3 DEF Frame
<1>2. CASE Aside
  <2>1. doing' = doing
    BY <1>2 DEF Aside, cmdVars
  <2>2. CASE EndFrame
    BY <2>1, <2>2 DEF EndFrame, SleepInv, Asleep
  <2>3. CASE SampleNow
    BY <2>1, <2>3 DEF SampleNow, SleepInv, Asleep, uiVars
  <2>4. CASE ReadCadence
    BY <2>1, <2>4 DEF ReadCadence, SleepInv, Asleep, uiVars
  <2>5. CASE Wake
    BY <2>1, <2>5 DEF Wake, SleepInv, Asleep, uiVars
  <2>6. QED
    BY <1>2, <2>2, <2>3, <2>4, <2>5 DEF Aside, Sampler
<1>3. CASE Worker
  <2>1. CASE Shutdown
    BY <2>1 DEF Shutdown, SleepInv, Asleep, uiVars, Event
  <2>2. CASE Stopped
    BY <2>2 DEF Stopped, SleepInv, Asleep, uiVars, Ended
  <2>3. ASSUME NEW kind, Take(kind), UNCHANGED <<alive, cadence, sampler, pace, frame>>,
               bumped' = bumped \/ bumped' = TRUE
        PROVE  SleepInv'
    <3>1. doing = Resting
      BY <2>3 DEF Take
    <3>2. alive /\ alive'
      BY <2>3, <3>1 DEF SleepInv, Resting
    <3>3. QED
      BY <2>3, <3>2 DEF SleepInv, Asleep
  <2>4. CASE DetectHost \/ Sample \/ StartRun("install") \/ StartRun("fix") \/ AddRepo \/ Dashboard
    BY <2>3, <2>4 DEF DetectHost, Sample, StartRun, AddRepo, Dashboard, uiVars, telVars
  <2>5. CASE RunStep \/ EndRun
    <3>1. Running /\ UNCHANGED <<uiVars, telVars>>
      BY <2>5 DEF RunStep, EndRun
    <3>2. alive
      BY <3>1 DEF SleepInv, Running
    <3>3. QED
      BY <3>1, <3>2 DEF SleepInv, Asleep, uiVars, telVars
  <2>6. QED
    BY <1>3, <2>1, <2>2, <2>4, <2>5 DEF Worker
<1>4. CASE UNCHANGED desktopVars
  BY <1>4 DEF desktopVars, cmdVars, uiVars, telVars, SleepInv, Asleep
<1>5. QED
  BY <1>1, <1>2, <1>3, <1>4, DesktopNextCases

(* The sampler sleeps on the newest cadence, once its frame is through,    *)
(* and does not sleep through a stop.                                      *)
THEOREM SleepIsSafe == DesktopSpec => []SleepsSafely
<1>1. DesktopInit => SleepInv
  BY DEF DesktopInit, SleepInv, Asleep
<1>2. SleepInv /\ DesktopTypeOK /\ [DesktopNext]_desktopVars => SleepInv'
  BY SleepKept
<1>3. SleepInv => SleepsSafely
  BY DEF SleepInv, SleepsSafely, SleepsAtTheLatestCadence, NeverSleepsThroughStop, Asleep
<1>4. QED
  BY <1>1, <1>2, <1>3, WindowTypes, PTL DEF DesktopSpec
=============================================================================
