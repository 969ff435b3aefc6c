---------------------------- MODULE ExecutorProofs ----------------------------
(***************************************************************************)
(* Proofs about Registry, Executor and the process runner under it, for    *)
(* every registry, plan and host: a registry that is accepted has an order *)
(* its requirements allow, one that is rejected has an edge to nowhere or  *)
(* a ring, and the reports of the graph agree; hooks run for what was      *)
(* asked only, each after those it has to wait for; a reset that reports   *)
(* ok has left nothing it took detected, over the runner too; a hook that  *)
(* timed out leaves no process of its group, and none of its output is     *)
(* lost.                                                                   *)
(*                                                                         *)
(* The first part is about numbers, folds and sequences; each fold of the  *)
(* model is turned into a run of states, one per element, along which its  *)
(* facts are carried.                                                      *)
(***************************************************************************)
EXTENDS EnvRun, FiniteSetTheorems, WellFoundedInduction, TLAPS

(* What holds of 0 and of the successor of each number it holds of.        *)
LEMMA Inducted ==
    ASSUME NEW P \in SUBSET Nat, 0 \in P, \A k \in P : k + 1 \in P
    PROVE  P = Nat
<1> SUFFICES ASSUME Nat \ P # {}
             PROVE  FALSE
  OBVIOUS
<1>1. PICK n \in Nat \ P : \A m \in Nat \ P : <<m, n>> \notin OpToRel(<, Nat)
  BY NatLessThanWellFounded, WFMin
<1>2. \A m \in Nat \ P : ~(m < n)
  BY <1>1 DEF OpToRel
<1>3. n \in Nat /\ n # 0
  OBVIOUS
<1>4. n - 1 \in Nat /\ n - 1 < n
  BY <1>3
<1>5. n - 1 \in P
  BY <1>2, <1>4
<1>6. (n - 1) + 1 \in P
  BY <1>5
<1>7. (n - 1) + 1 = n
  BY <1>3
<1>8. QED
  BY <1>6, <1>7

(* A bounded set of numbers has a greatest member.                         *)
LEMMA BoundedHasMax ==
    ASSUME NEW S \in SUBSET Nat, S # {}, NEW b \in Nat, \A n \in S : n <= b
    PROVE  Max(S) \in S /\ \A n \in S : n <= Max(S)
<1> DEFINE Gaps == {b - n : n \in S}
<1>1. Gaps \subseteq Nat /\ Gaps # {}
  <2>1. \A n \in S : n \in Nat /\ b - n \in Nat
    OBVIOUS
  <2>2. QED
    BY <2>1
<1>2. PICK g \in Gaps : \A h \in Gaps : <<h, g>> \notin OpToRel(<, Nat)
  BY <1>1, NatLessThanWellFounded, WFMin
<1>3. \A h \in Gaps : ~(h < g)
  BY <1>1, <1>2 DEF OpToRel
<1>4. PICK n \in S : g = b - n
  OBVIOUS
<1>5. \A k \in S : n >= k
  <2> SUFFICES ASSUME NEW k \in S PROVE n >= k
    OBVIOUS
  <2>1. b - k \in Gaps
    OBVIOUS
  <2>2. ~(b - k < b - n) /\ k \in Nat /\ n \in Nat
    BY <1>3, <1>4, <2>1
  <2>3. QED
    BY <2>2
<1>6. \E x \in S : \A y \in S : x >= y
  BY <1>5
<1>7. Max(S) \in S /\ \A y \in S : Max(S) >= y
  BY <1>6 DEF Max
<1>8. QED
  BY <1>7

LEMMA MaxOfSome ==
    ASSUME NEW n \in Nat, NEW T \in SUBSET (1 .. n), T # {}
    PROVE  Max(T) \in T /\ \A i \in T : Max(T) >= i
<1>1. T \in SUBSET Nat /\ \A i \in T : i <= n
  OBVIOUS
<1>2. QED
  BY <1>1, BoundedHasMax

LEMMA UpTo ==
    ASSUME NEW n \in Nat, NEW k \in Nat, k < n
    PROVE  /\ 1 .. k + 1 \in SUBSET (1 .. n) /\ 1 .. k + 1 # {}
           /\ Max(1 .. k + 1) = k + 1 /\ (1 .. k + 1) \ {k + 1} = 1 .. k /\ k + 1 \in 1 .. n
<1> DEFINE T == 1 .. k + 1
<1>1. T \in SUBSET (1 .. n) /\ k + 1 \in T /\ \A i \in T : i <= k + 1 /\ i \in Nat
  OBVIOUS
<1>a. T \ {k + 1} = 1 .. k
  OBVIOUS
<1>2. Max(T) \in T /\ Max(T) >= k + 1
  <2> HIDE DEF T
  <2>1. QED
    BY <1>1, MaxOfSome, k + 1 \in Nat
<1>3. Max(T) = k + 1
  BY <1>1, <1>2
<1>4. QED
  BY <1>1, <1>a, <1>3

(* A fold over the indices up to n has a value, whatever it does with each *)
(* of them: g[i] is what it does at i.                                     *)
FoldTable(f, base, n, g) ==
    f = [T \in SUBSET (1 .. n) |-> IF T = {} THEN base ELSE g[Max(T)][f[T \ {Max(T)}]]]

LEMMA FoldExists ==
    ASSUME NEW X, NEW base \in X, NEW n \in Nat, NEW g \in [1 .. n -> [X -> X]]
    PROVE  \E f \in [SUBSET (1 .. n) -> X] : FoldTable(f, base, n, g)
<1> DEFINE Folds(f, k) == \A T \in SUBSET (1 .. k) :
                f[T] = IF T = {} THEN base ELSE g[Max(T)][f[T \ {Max(T)}]]
           P == {k \in Nat : k <= n => \E f \in [SUBSET (1 .. k) -> X] : Folds(f, k)}
<1>1. 0 \in P
  <2>1. 1 .. 0 = {} /\ SUBSET {} = {{}}
    OBVIOUS
  <2>2. [T \in {{}} |-> base] \in [SUBSET (1 .. 0) -> X] /\ Folds([T \in {{}} |-> base], 0)
    BY <2>1
  <2>3. QED
    BY <2>2
<1>2. ASSUME NEW k \in P PROVE k + 1 \in P
  <2> SUFFICES ASSUME k + 1 <= n
               PROVE  \E f \in [SUBSET (1 .. k + 1) -> X] : Folds(f, k + 1)
    BY k + 1 \in Nat
  <2>0. k <= n /\ k \in Nat
    OBVIOUS
  <2>1. PICK f \in [SUBSET (1 .. k) -> X] : Folds(f, k)
    BY <2>0
  <2> DEFINE h == [T \in SUBSET (1 .. k + 1) |->
                     IF k + 1 \in T THEN g[k + 1][f[T \ {k + 1}]] ELSE f[T]]
  <2>2. ASSUME NEW T \in SUBSET (1 .. k + 1)
        PROVE  /\ k + 1 \notin T => T \in SUBSET (1 .. k)
               /\ T \ {k + 1} \in SUBSET (1 .. k)
    OBVIOUS
  <2>3. h \in [SUBSET (1 .. k + 1) -> X]
    <3>1. k + 1 \in 1 .. n
      OBVIOUS
    <3>2. ASSUME NEW T \in SUBSET (1 .. k + 1)
          PROVE  (IF k + 1 \in T THEN g[k + 1][f[T \ {k + 1}]] ELSE f[T]) \in X
      <4>1. CASE k + 1 \in T
        <5>1. f[T \ {k + 1}] \in X /\ g[k + 1] \in [X -> X]
          BY <2>1, <2>2, <3>1
        <5>2. QED
          BY <4>1, <5>1
      <4>2. CASE k + 1 \notin T
        BY <2>1, <2>2, <4>2
      <4>3. QED
        BY <4>1, <4>2
    <3> HIDE DEF Folds, P
    <3>3. QED
      BY <3>2
  <2>4. ASSUME NEW T \in SUBSET (1 .. k + 1), T # {}
        PROVE  h[T] = g[Max(T)][h[T \ {Max(T)}]]
    <3>0. Max(T) \in T /\ \A i \in T : Max(T) >= i
      BY k + 1 \in Nat, <2>4, MaxOfSome
    <3>1. CASE k + 1 \in T
      <4>1. Max(T) = k + 1
        <5>1. Max(T) >= k + 1 /\ Max(T) \in 1 .. k + 1
          BY <3>0, <3>1
        <5>2. QED
          BY <2>0, <5>1
      <4>2. h[T] = g[k + 1][f[T \ {k + 1}]] /\ h[T \ {k + 1}] = f[T \ {k + 1}]
        BY <3>1
      <4>3. QED
        BY <4>1, <4>2
    <3>2. CASE k + 1 \notin T
      <4>1. T \in SUBSET (1 .. k) /\ h[T] = f[T] /\ h[T \ {Max(T)}] = f[T \ {Max(T)}]
        BY <2>2, <3>2
      <4>2. QED
        BY <2>1, <2>4, <4>1
    <3>3. QED
      BY <3>1, <3>2
  <2>5. h[{}] = base
    <3>1. {} \in SUBSET (1 .. k) /\ k + 1 \notin {} /\ {} \in SUBSET (1 .. k + 1)
      OBVIOUS
    <3>2. QED
      BY <2>1, <3>1
  <2>6. Folds(h, k + 1)
    <3> HIDE DEF h
    <3>1. QED
      BY <2>4, <2>5
  <2>7. QED
    BY <2>3, <2>6
<1>3. P = Nat
  <2> HIDE DEF P
  <2>1. P \in SUBSET Nat
    BY DEF P
  <2>2. QED
    BY <1>1, <1>2, <2>1, Inducted
<1>4. PICK f \in [SUBSET (1 .. n) -> X] : Folds(f, n)
  <2>0. n \in Nat /\ n <= n
    OBVIOUS
  <2> HIDE DEF P
  <2>1. n \in P
    BY <1>3, <2>0
  <2> USE DEF P
  <2>2. QED
    BY <2>0, <2>1
<1>5. FoldTable(f, base, n, g)
  BY <1>4 DEF FoldTable
<1>6. QED
  BY <1>5

(* The numbers reached one by one from 0.                                  *)
LEMMA Climbed ==
    ASSUME NEW n \in Nat, NEW P \in SUBSET Nat, 0 \in P, \A k \in P : k < n => k + 1 \in P
    PROVE  \A k \in 0 .. n : k \in P
<1> DEFINE Q == {k \in Nat : k <= n => k \in P}
<1>1. 0 \in Q
  OBVIOUS
<1>2. ASSUME NEW k \in Q PROVE k + 1 \in Q
  <2>1. k \in Nat /\ k + 1 \in Nat
    OBVIOUS
  <2>2. CASE k + 1 <= n
    <3>1. k < n /\ k <= n
      BY <2>1, <2>2
    <3>2. QED
      BY <2>1, <3>1
  <2>3. QED
    BY <2>1, <2>2
<1>3. Q = Nat
  <2>1. Q \in SUBSET Nat
    OBVIOUS
  <2> HIDE DEF Q
  <2>2. QED
    BY <1>1, <1>2, <2>1, Inducted
<1>4. QED
  BY <1>3

-----------------------------------------------------------------------------
(* Sequences: what is in them, whether twice, and how they are put together.*)
Unique(s) == \A i, j \in 1 .. Len(s) : s[i] = s[j] => i = j

LEMMA In ==
    ASSUME NEW D, NEW s \in Seq(D)
    PROVE  /\ ToSet(s) = {s[i] : i \in 1 .. Len(s)}
           /\ ToSet(s) \subseteq D /\ Len(s) \in Nat /\ \A i \in 1 .. Len(s) : s[i] \in D
<1>1. DOMAIN s = 1 .. Len(s) /\ Len(s) \in Nat /\ \A i \in 1 .. Len(s) : s[i] \in D
  OBVIOUS
<1>2. QED
  BY <1>1 DEF ToSet

LEMMA Empty == ToSet(<<>>) = {} /\ Unique(<<>>) /\ Len(<<>>) = 0
  BY DEF ToSet, Unique

LEMMA Joined ==
    ASSUME NEW D, NEW s \in Seq(D), NEW t \in Seq(D)
    PROVE  /\ s \o t \in Seq(D) /\ Len(s \o t) = Len(s) + Len(t)
           /\ \A i \in 1 .. Len(s) : (s \o t)[i] = s[i]
           /\ \A i \in 1 .. Len(t) : (s \o t)[Len(s) + i] = t[i]
           /\ \A i \in 1 .. Len(s \o t) : i \in 1 .. Len(s) \/ \E j \in 1 .. Len(t) : i = Len(s) + j
<1>1. s \o t \in Seq(D) /\ Len(s \o t) = Len(s) + Len(t) /\ Len(s) \in Nat /\ Len(t) \in Nat
  OBVIOUS
<1>2. \A i \in 1 .. Len(s) : (s \o t)[i] = s[i]
  OBVIOUS
<1>3. ASSUME NEW i \in 1 .. Len(t) PROVE (s \o t)[Len(s) + i] = t[i]
  <2>1. Len(s) + i \in 1 .. Len(s) + Len(t) /\ (Len(s) + i) - Len(s) = i /\ ~(Len(s) + i <= Len(s))
    BY <1>1
  <2>2. QED
    BY <2>1
<1>4. ASSUME NEW i \in 1 .. Len(s) + Len(t)
      PROVE  i \in 1 .. Len(s) \/ \E j \in 1 .. Len(t) : i = Len(s) + j
  <2>1. CASE i > Len(s)
    <3>1. i - Len(s) \in 1 .. Len(t) /\ i = Len(s) + (i - Len(s))
      BY <1>1, <2>1
    <3>2. QED
      BY <3>1
  <2>2. QED
    BY <1>1, <2>1
<1>5. QED
  BY <1>1, <1>2, <1>3, <1>4

LEMMA JoinedSet ==
    ASSUME NEW D, NEW s \in Seq(D), NEW t \in Seq(D)
    PROVE  /\ ToSet(s \o t) = ToSet(s) \cup ToSet(t)
           /\ Unique(s) /\ Unique(t) /\ ToSet(s) \cap ToSet(t) = {} => Unique(s \o t)
<1> DEFINE w == s \o t
<1>0. w \in Seq(D) /\ Len(w) = Len(s) + Len(t) /\ Len(s) \in Nat /\ Len(t) \in Nat
  BY Joined, In
<1>1. /\ \A i \in 1 .. Len(s) : w[i] = s[i] /\ i \in 1 .. Len(w)
      /\ \A i \in 1 .. Len(t) : w[Len(s) + i] = t[i] /\ Len(s) + i \in 1 .. Len(w)
      /\ \A i \in 1 .. Len(w) : i \in 1 .. Len(s) \/ \E j \in 1 .. Len(t) : i = Len(s) + j
  BY <1>0, Joined
<1>a. ToSet(s) = {s[i] : i \in 1 .. Len(s)} /\ ToSet(t) = {t[i] : i \in 1 .. Len(t)}
  BY In
<1> HIDE DEF w
<1>b. ToSet(w) = {w[i] : i \in 1 .. Len(w)}
  BY <1>0, In
<1>2. ASSUME NEW x PROVE x \in ToSet(w) <=> x \in ToSet(s) \cup ToSet(t)
  <2>1. ASSUME x \in ToSet(w) PROVE x \in ToSet(s) \cup ToSet(t)
    <3>1. PICK i \in 1 .. Len(w) : x = w[i]
      BY <1>b, <2>1
    <3>2. CASE i \in 1 .. Len(s)
      BY <1>a, <1>1, <3>1, <3>2
    <3>3. CASE \E j \in 1 .. Len(t) : i = Len(s) + j
      BY <1>a, <1>1, <3>1, <3>3
    <3>4. QED
      BY <1>1, <3>2, <3>3
  <2>2. ASSUME x \in ToSet(s) PROVE x \in ToSet(w)
    BY <1>a, <1>b, <1>1, <2>2
  <2>3. ASSUME x \in ToSet(t) PROVE x \in ToSet(w)
    <3>1. PICK j \in 1 .. Len(t) : x = t[j]
      BY <1>a, <2>3
    <3>2. w[Len(s) + j] = t[j] /\ Len(s) + j \in 1 .. Len(w)
      BY <1>1
    <3>3. QED
      BY <1>b, <3>1, <3>2
  <2>4. QED
    BY <2>1, <2>2, <2>3
<1>3. ASSUME Unique(s), Unique(t), ToSet(s) \cap ToSet(t) = {}, NEW i \in 1 .. Len(w), NEW j \in 1 .. Len(w), w[i] = w[j]
      PROVE  i = j
  <2>1. CASE i \in 1 .. Len(s) /\ j \in 1 .. Len(s)
    BY <1>1, <1>3, <2>1 DEF Unique
  <2>2. CASE i \in 1 .. Len(s) /\ \E k \in 1 .. Len(t) : j = Len(s) + k
    <3>1. w[i] \in ToSet(s) /\ w[j] \in ToSet(t)
      BY <1>a, <1>1, <2>2
    <3>2. QED
      BY <1>3, <3>1
  <2>3. CASE j \in 1 .. Len(s) /\ \E k \in 1 .. Len(t) : i = Len(s) + k
    <3>1. w[j] \in ToSet(s) /\ w[i] \in ToSet(t)
      BY <1>a, <1>1, <2>3
    <3>2. QED
      BY <1>3, <3>1
  <2>4. CASE \E k, l \in 1 .. Len(t) : i = Len(s) + k /\ j = Len(s) + l
    <3>1. PICK k \in 1 .. Len(t), l \in 1 .. Len(t) : i = Len(s) + k /\ j = Len(s) + l
      BY <2>4
    <3>2. t[k] = t[l]
      BY <1>1, <1>3, <3>1
    <3>3. k = l
      BY <1>3, <3>2 DEF Unique
    <3>4. QED
      BY <3>1, <3>3
  <2>5. QED
    BY <1>1, <2>1, <2>2, <2>3, <2>4
<1>4. ASSUME Unique(s), Unique(t), ToSet(s) \cap ToSet(t) = {}
      PROVE  Unique(w)
  BY <1>3, <1>4 DEF Unique
<1>5. ToSet(w) = ToSet(s) \cup ToSet(t)
  BY <1>2
<1>6. QED
  BY <1>4, <1>5 DEF w

LEMMA One ==
    ASSUME NEW D, NEW x \in D
    PROVE  <<x>> \in Seq(D) /\ Len(<<x>>) = 1 /\ <<x>>[1] = x /\ ToSet(<<x>>) = {x} /\ Unique(<<x>>)
<1>1. <<x>> \in Seq(D) /\ Len(<<x>>) = 1 /\ <<x>>[1] = x
  OBVIOUS
<1>2. \A i \in 1 .. 1 : i = 1
  OBVIOUS
<1>3. ToSet(<<x>>) = {x}
  BY <1>1, <1>2 DEF ToSet
<1>4. QED
  BY <1>1, <1>2, <1>3 DEF Unique

LEMMA Appended ==
    ASSUME NEW D, NEW s \in Seq(D), NEW x \in D
    PROVE  /\ Append(s, x) \in Seq(D) /\ Len(Append(s, x)) = Len(s) + 1
           /\ \A i \in 1 .. Len(s) : Append(s, x)[i] = s[i]
           /\ Append(s, x)[Len(s) + 1] = x
           /\ ToSet(Append(s, x)) = ToSet(s) \cup {x}
           /\ Unique(s) /\ x \notin ToSet(s) => Unique(Append(s, x))
<1>1. Append(s, x) = s \o <<x>>
  OBVIOUS
<1>2. <<x>> \in Seq(D) /\ ToSet(<<x>>) = {x} /\ Unique(<<x>>)
  BY One
<1>3. /\ Append(s, x) \in Seq(D) /\ Len(Append(s, x)) = Len(s) + 1
      /\ \A i \in 1 .. Len(s) : Append(s, x)[i] = s[i]
      /\ Append(s, x)[Len(s) + 1] = x
  OBVIOUS
<1>4. ToSet(Append(s, x)) = ToSet(s) \cup {x} /\ (Unique(s) /\ x \notin ToSet(s) => Unique(Append(s, x)))
  <2> DEFINE t == <<x>>
  <2> HIDE DEF t
  <2>1. t \in Seq(D) /\ ToSet(t) = {x} /\ Unique(t) /\ Append(s, x) = s \o t
    BY <1>1, <1>2 DEF t
  <2>2. ToSet(s \o t) = ToSet(s) \cup ToSet(t)
    BY <2>1, JoinedSet
  <2>3. Unique(s) /\ Unique(t) /\ ToSet(s) \cap ToSet(t) = {} => Unique(s \o t)
    BY <2>1, JoinedSet
  <2>4. QED
    BY <2>1, <2>2, <2>3
<1>5. QED
  BY <1>3, <1>4

LEMMA Tailed ==
    ASSUME NEW D, NEW s \in Seq(D), s # <<>>
    PROVE  /\ Head(s) \in D /\ Tail(s) \in Seq(D) /\ Len(Tail(s)) = Len(s) - 1 /\ Head(s) = s[1]
           /\ Len(s) \in Nat /\ Len(s) > 0
           /\ \A i \in 1 .. Len(Tail(s)) : Tail(s)[i] = s[i + 1] /\ i + 1 \in 1 .. Len(s)
           /\ ToSet(s) = {Head(s)} \cup ToSet(Tail(s))
           /\ Unique(s) => Unique(Tail(s)) /\ Head(s) \notin ToSet(Tail(s))
<1>1. /\ Head(s) \in D /\ Tail(s) \in Seq(D) /\ Len(Tail(s)) = Len(s) - 1 /\ Head(s) = s[1]
      /\ Len(s) \in Nat /\ Len(s) > 0
  OBVIOUS
<1>2. \A i \in 1 .. Len(Tail(s)) : Tail(s)[i] = s[i + 1] /\ i + 1 \in 1 .. Len(s)
  BY <1>1
<1>3. \A i \in 1 .. Len(s) : i = 1 \/ (i - 1 \in 1 .. Len(Tail(s)) /\ (i - 1) + 1 = i)
  BY <1>1
<1> DEFINE t == Tail(s)
<1>4. t \in Seq(D)
  BY <1>1
<1>5. /\ \A i \in 1 .. Len(t) : t[i] = s[i + 1] /\ i + 1 \in 1 .. Len(s)
      /\ \A i \in 1 .. Len(s) : i = 1 \/ (i - 1 \in 1 .. Len(t) /\ (i - 1) + 1 = i)
      /\ 1 \in 1 .. Len(s) /\ Len(t) \in Nat
  BY <1>1, <1>2, <1>3
<1> HIDE DEF t
<1>6. \A x : x \in ToSet(s) <=> x = s[1] \/ x \in ToSet(t)
  <2>1. ToSet(s) = {s[i] : i \in 1 .. Len(s)}
    BY In
  <2>2. ToSet(t) = {t[i] : i \in 1 .. Len(t)}
    BY <1>4, In
  <2>3. ASSUME NEW x, x \in ToSet(s) PROVE x = s[1] \/ x \in ToSet(t)
    <3>1. PICK i \in 1 .. Len(s) : x = s[i]
      BY <2>1, <2>3
    <3>2. CASE i - 1 \in 1 .. Len(t) /\ (i - 1) + 1 = i
      <4>1. t[i - 1] = s[i]
        BY <1>5, <3>2
      <4>2. QED
        BY <2>2, <3>1, <3>2, <4>1
    <3>3. QED
      BY <1>5, <3>1, <3>2
  <2>4. ASSUME NEW x, x = s[1] \/ x \in ToSet(t) PROVE x \in ToSet(s)
    BY <1>5, <2>1, <2>2, <2>4
  <2>5. QED
    BY <2>3, <2>4
<1>7. ASSUME Unique(s) PROVE Unique(t) /\ s[1] \notin ToSet(t)
  <2>1. ASSUME NEW i \in 1 .. Len(t), NEW j \in 1 .. Len(t), t[i] = t[j] PROVE i = j
    <3>1. i + 1 = j + 1
      BY <1>5, <1>7, <2>1 DEF Unique
    <3>2. QED
      BY <3>1
  <2>2. ASSUME NEW i \in 1 .. Len(t), t[i] = s[1] PROVE FALSE
    <3>1. i + 1 = 1
      BY <1>5, <1>7, <2>2 DEF Unique
    <3>2. QED
      BY <3>1, <1>5
  <2>3. s[1] \notin ToSet(t)
    BY <1>4, <2>2, In
  <2>4. QED
    BY <2>1, <2>3 DEF Unique
<1>8. QED
  BY <1>1, <1>2, <1>6, <1>7 DEF t

(* A sequence is fed by a set when every element comes after all it needs, *)
(* save what is in the set.                                                *)
Fed(s, set, needs) == \A i \in 1 .. Len(s) : needs[s[i]] \subseteq set \cup {s[j] : j \in 1 .. i - 1}

LEMMA AppendedFed ==
    ASSUME NEW D, NEW s \in Seq(D), NEW x \in D, NEW set, NEW needs,
           Fed(s, set, needs), needs[x] \subseteq set \cup ToSet(s)
    PROVE  Fed(Append(s, x), set, needs)
<1> DEFINE t == Append(s, x)
<1>1. /\ Len(t) = Len(s) + 1 /\ Len(s) \in Nat /\ t[Len(s) + 1] = x
      /\ \A i \in 1 .. Len(s) : t[i] = s[i]
  BY Appended, In
<1>2. ToSet(s) = {s[i] : i \in 1 .. Len(s)}
  BY In
<1> HIDE DEF t
<1> SUFFICES ASSUME NEW i \in 1 .. Len(t)
             PROVE  needs[t[i]] \subseteq set \cup {t[j] : j \in 1 .. i - 1}
  BY DEF Fed, t
<1>3. CASE i \in 1 .. Len(s)
  <2>1. \A j \in 1 .. i - 1 : t[j] = s[j] /\ j \in 1 .. Len(s)
    BY <1>1, <1>3
  <2>2. needs[s[i]] \subseteq set \cup {s[j] : j \in 1 .. i - 1}
    BY <1>3 DEF Fed
  <2>3. {s[j] : j \in 1 .. i - 1} \subseteq {t[j] : j \in 1 .. i - 1}
    BY <2>1
  <2>4. t[i] = s[i]
    BY <1>1, <1>3
  <2>5. QED
    BY <2>2, <2>3, <2>4
<1>4. CASE i = Len(s) + 1
  <2>1. {s[j] : j \in 1 .. Len(s)} \subseteq {t[j] : j \in 1 .. i - 1}
    BY <1>1, <1>4
  <2>2. t[i] = x
    BY <1>1, <1>4
  <2>3. QED
    BY <1>2, <2>1, <2>2
<1>5. QED
  BY <1>1, <1>3, <1>4

LEMMA JoinedFed ==
    ASSUME NEW D, NEW s \in Seq(D), NEW t \in Seq(D), NEW set, NEW needs,
           Fed(s, set, needs), Fed(t, set \cup ToSet(s), needs)
    PROVE  Fed(s \o t, set, needs)
<1> DEFINE w == s \o t
<1>1. /\ Len(w) = Len(s) + Len(t) /\ Len(s) \in Nat /\ Len(t) \in Nat
      /\ \A i \in 1 .. Len(s) : w[i] = s[i]
      /\ \A i \in 1 .. Len(t) : w[Len(s) + i] = t[i]
      /\ \A i \in 1 .. Len(w) : i \in 1 .. Len(s) \/ \E j \in 1 .. Len(t) : i = Len(s) + j
  BY Joined, In
<1>2. ToSet(s) = {s[i] : i \in 1 .. Len(s)}
  BY In
<1> HIDE DEF w
<1> SUFFICES ASSUME NEW i \in 1 .. Len(w)
             PROVE  needs[w[i]] \subseteq set \cup {w[j] : j \in 1 .. i - 1}
  BY DEF Fed, w
<1>3. CASE i \in 1 .. Len(s)
  <2>1. \A j \in 1 .. i - 1 : w[j] = s[j]
    BY <1>1, <1>3
  <2>2. needs[s[i]] \subseteq set \cup {s[j] : j \in 1 .. i - 1}
    BY <1>3 DEF Fed
  <2>3. {s[j] : j \in 1 .. i - 1} \subseteq {w[j] : j \in 1 .. i - 1}
    BY <2>1
  <2>4. w[i] = s[i]
    BY <1>1, <1>3
  <2>5. QED
    BY <2>2, <2>3, <2>4
<1>4. CASE \E k \in 1 .. Len(t) : i = Len(s) + k
  <2>1. PICK k \in 1 .. Len(t) : i = Len(s) + k
    BY <1>4
  <2>2. needs[t[k]] \subseteq (set \cup ToSet(s)) \cup {t[j] : j \in 1 .. k - 1}
    BY DEF Fed
  <2>3. {s[j] : j \in 1 .. Len(s)} \subseteq {w[j] : j \in 1 .. i - 1}
    <3>1. \A j \in 1 .. Len(s) : w[j] = s[j] /\ j \in 1 .. i - 1
      BY <1>1, <2>1
    <3>2. QED
      BY <3>1
  <2>4. {t[j] : j \in 1 .. k - 1} \subseteq {w[j] : j \in 1 .. i - 1}
    <3>1. \A j \in 1 .. k - 1 : w[Len(s) + j] = t[j] /\ Len(s) + j \in 1 .. i - 1
      BY <1>1, <2>1
    <3>2. QED
      BY <3>1
  <2>5. w[i] = t[k]
    BY <1>1, <2>1
  <2>6. QED
    BY <1>2, <2>2, <2>3, <2>4, <2>5
<1>5. QED
  BY <1>1, <1>3, <1>4

LEMMA TailedFed ==
    ASSUME NEW D, NEW s \in Seq(D), s # <<>>, NEW set, NEW needs, Fed(s, set, needs)
    PROVE  needs[Head(s)] \subseteq set /\ Fed(Tail(s), set \cup {Head(s)}, needs)
<1> DEFINE t == Tail(s)
<1>1. /\ Len(t) = Len(s) - 1 /\ Len(s) \in Nat /\ Len(s) > 0 /\ Head(s) = s[1]
      /\ \A i \in 1 .. Len(t) : t[i] = s[i + 1] /\ i + 1 \in 1 .. Len(s)
  BY Tailed
<1> HIDE DEF t
<1>2. needs[s[1]] \subseteq set
  <2>1. needs[s[1]] \subseteq set \cup {s[j] : j \in 1 .. 1 - 1}
    BY <1>1 DEF Fed
  <2>2. 1 .. 1 - 1 = {}
    OBVIOUS
  <2>3. QED
    BY <2>1, <2>2
<1>3. ASSUME NEW i \in 1 .. Len(t)
      PROVE  needs[t[i]] \subseteq (set \cup {s[1]}) \cup {t[j] : j \in 1 .. i - 1}
  <2>1. needs[s[i + 1]] \subseteq set \cup {s[j] : j \in 1 .. (i + 1) - 1}
    BY <1>1 DEF Fed
  <2>2. ASSUME NEW j \in 1 .. (i + 1) - 1
        PROVE  s[j] \in {s[1]} \cup {t[l] : l \in 1 .. i - 1}
    <3>1. CASE j = 1
      BY <3>1
    <3>2. CASE j # 1
      <4>1. j - 1 \in 1 .. i - 1 /\ j - 1 \in 1 .. Len(t) /\ (j - 1) + 1 = j
        BY <1>1, <3>2
      <4>2. t[j - 1] = s[j]
        BY <1>1, <4>1
      <4>3. QED
        BY <4>1, <4>2
    <3>3. QED
      BY <3>1, <3>2
  <2>3. t[i] = s[i + 1]
    BY <1>1
  <2>4. QED
    BY <2>1, <2>2, <2>3
<1>4. QED
  BY <1>1, <1>2, <1>3 DEF Fed, t
-----------------------------------------------------------------------------
(* The elements of a sequence that are in a set, taken one by one.         *)
FilterRun(v, D, seq, set) ==
    /\ v \in [0 .. Len(seq) -> Seq(D)]
    /\ v[0] = <<>> /\ v[Len(seq)] = Filtered(seq, set)
    /\ \A k \in Nat : k < Len(seq) =>
         v[k + 1] = IF seq[k + 1] \in set THEN Append(v[k], seq[k + 1]) ELSE v[k]

LEMMA FilteredRuns ==
    ASSUME NEW D, NEW seq \in Seq(D), NEW set
    PROVE  \E v : FilterRun(v, D, seq, set)
<1> DEFINE X == Seq(D)
           n == Len(seq)
           g == [i \in 1 .. n |-> [v \in X |-> IF seq[i] \in set THEN Append(v, seq[i]) ELSE v]]
           Value(f) == [T \in SUBSET (1 .. n) |->
                          IF T = {} THEN <<>>
                          ELSE IF seq[Max(T)] \in set THEN Append(f[T \ {Max(T)}], seq[Max(T)])
                                                     ELSE f[T \ {Max(T)}]]
<1>1. g \in [1 .. n -> [X -> X]] /\ n \in Nat /\ <<>> \in X /\ DOMAIN seq = 1 .. n
  OBVIOUS
<1>2. PICK f \in [SUBSET (1 .. n) -> X] : FoldTable(f, <<>>, n, g)
  <2> HIDE DEF X, n, g
  <2>1. QED
    BY <1>1, FoldExists
<1>3. f = Value(f)
  <2>1. ASSUME NEW T \in SUBSET (1 .. n), T # {}
        PROVE  g[Max(T)][f[T \ {Max(T)}]]
                 = IF seq[Max(T)] \in set THEN Append(f[T \ {Max(T)}], seq[Max(T)]) ELSE f[T \ {Max(T)}]
    <3>1. Max(T) \in 1 .. n /\ T \ {Max(T)} \in SUBSET (1 .. n)
      BY <1>1, <2>1, MaxOfSome
    <3>2. f[T \ {Max(T)}] \in X
      BY <1>2, <3>1
    <3> HIDE DEF X, n
    <3>3. QED
      BY <3>1, <3>2
  <2> HIDE DEF X, n, g
  <2>2. QED
    BY <1>2, <2>1 DEF FoldTable
<1> DEFINE r == CHOOSE h : h = Value(h)
<1>4. Filtered(seq, set) = r[1 .. n]
  BY <1>1 DEF Filtered, FoldLeft, MapThenFoldSet
<1>5. r = Value(r)
  <2> HIDE DEF Value
  <2>1. QED
    BY <1>3
<1>6. r[{}] = <<>>
  <2>1. {} \in SUBSET (1 .. n)
    OBVIOUS
  <2> HIDE DEF r, n
  <2>2. QED
    BY <1>5, <2>1
<1>7. ASSUME NEW k \in Nat, k < n
      PROVE  r[1 .. k + 1] = IF seq[k + 1] \in set THEN Append(r[1 .. k], seq[k + 1]) ELSE r[1 .. k]
  <2> DEFINE T == 1 .. k + 1
  <2>1. T \in SUBSET (1 .. n) /\ T # {} /\ Max(T) = k + 1 /\ T \ {k + 1} = 1 .. k
    BY <1>1, <1>7, UpTo
  <2> HIDE DEF r, n, T
  <2>2. r[T] = IF seq[Max(T)] \in set THEN Append(r[T \ {Max(T)}], seq[Max(T)]) ELSE r[T \ {Max(T)}]
    BY <1>5, <2>1
  <2>3. QED
    BY <2>1, <2>2 DEF T
<1> HIDE DEF Value, r
<1> DEFINE P == {k \in Nat : k <= n => r[1 .. k] \in X}
<1>8. 0 \in P
  <2>1. 1 .. 0 = {}
    OBVIOUS
  <2>2. QED
    BY <1>1, <1>6, <2>1
<1>9. ASSUME NEW k \in P, k < n PROVE k + 1 \in P
  <2>1. k \in Nat /\ k + 1 \in Nat /\ k <= n /\ seq[k + 1] \in D
    BY <1>1, <1>9, UpTo
  <2>2. r[1 .. k] \in X
    BY <2>1
  <2>3. r[1 .. k + 1] \in X
    <3> DEFINE w == r[1 .. k]
               x == seq[k + 1]
    <3>1. r[1 .. k + 1] = w \/ r[1 .. k + 1] = Append(w, x)
      BY <1>7, <1>9, <2>1
    <3>2. w \in Seq(D) /\ x \in D
      BY <2>1, <2>2
    <3> HIDE DEF w, x
    <3>3. Append(w, x) \in Seq(D)
      BY <3>2
    <3>4. QED
      BY <3>1, <3>2, <3>3
  <2>4. QED
    BY <2>1, <2>3
<1>10. \A k \in 0 .. n : r[1 .. k] \in X
  <2>1. P \in SUBSET Nat
    OBVIOUS
  <2>2. \A k \in 0 .. n : k \in P
    <3> HIDE DEF P, n
    <3>1. QED
      BY <1>1, <1>8, <1>9, <2>1, Climbed
  <2>3. QED
    BY <2>2
<1> DEFINE v == [k \in 0 .. n |-> r[1 .. k]]
<1>11. v \in [0 .. n -> X]
  BY <1>10
<1>12. v[0] = <<>> /\ v[n] = r[1 .. n]
  <2>1. 1 .. 0 = {} /\ 0 \in 0 .. n /\ n \in 0 .. n
    BY <1>1
  <2>2. QED
    BY <1>6, <2>1
<1>13. ASSUME NEW k \in Nat, k < n
       PROVE  v[k + 1] = IF seq[k + 1] \in set THEN Append(v[k], seq[k + 1]) ELSE v[k]
  <2>1. k \in 0 .. n /\ k + 1 \in 0 .. n
    BY <1>1, <1>13
  <2>2. v[k] = r[1 .. k] /\ v[k + 1] = r[1 .. k + 1]
    BY <2>1
  <2>3. QED
    BY <1>7, <1>13, <2>2
<1> HIDE DEF v
<1>14. QED
  BY <1>4, <1>11, <1>12, <1>13 DEF FilterRun

(* What is filtered is what was there and in the set, in the order it had. *)
LEMMA FilteredFacts ==
    ASSUME NEW D, NEW seq \in Seq(D), NEW set
    PROVE  /\ Filtered(seq, set) \in Seq(D)
           /\ ToSet(Filtered(seq, set)) = ToSet(seq) \cap set
           /\ Unique(seq) => Unique(Filtered(seq, set))
<1>0. PICK v : FilterRun(v, D, seq, set)
  BY FilteredRuns
<1> DEFINE n == Len(seq)
<1>1. /\ v \in [0 .. n -> Seq(D)] /\ v[0] = <<>> /\ v[n] = Filtered(seq, set)
      /\ \A k \in Nat : k < n =>
           v[k + 1] = IF seq[k + 1] \in set THEN Append(v[k], seq[k + 1]) ELSE v[k]
  BY <1>0 DEF FilterRun
<1>2. ToSet(seq) = {seq[i] : i \in 1 .. n} /\ n \in Nat /\ \A i \in 1 .. n : seq[i] \in D
  BY In
<1> HIDE DEF n
<1> DEFINE P == {k \in Nat : k <= n => /\ ToSet(v[k]) = {seq[i] : i \in 1 .. k} \cap set
                                       /\ Unique(seq) => Unique(v[k])}
<1>3. 0 \in P
  <2>1. 1 .. 0 = {}
    OBVIOUS
  <2>2. QED
    BY <1>1, <2>1, Empty
<1>4. ASSUME NEW k \in P, k < n PROVE k + 1 \in P
  <2>1. /\ k \in Nat /\ k + 1 \in Nat /\ k <= n /\ k + 1 \in 1 .. n /\ k \in 0 .. n
        /\ 1 .. k + 1 = (1 .. k) \cup {k + 1} /\ k + 1 \notin 1 .. k /\ 1 .. k \subseteq 1 .. n
    BY <1>2, <1>4
  <2>2. v[k] \in Seq(D) /\ seq[k + 1] \in D /\ ToSet(v[k]) = {seq[i] : i \in 1 .. k} \cap set /\ (Unique(seq) => Unique(v[k]))
    BY <1>1, <1>2, <2>1
  <2>3. {seq[i] : i \in 1 .. k + 1} = {seq[i] : i \in 1 .. k} \cup {seq[k + 1]}
    BY <2>1
  <2>4. Unique(seq) => seq[k + 1] \notin {seq[i] : i \in 1 .. k}
    BY <2>1 DEF Unique, n
  <2>5. CASE seq[k + 1] \in set
    <3>1. v[k + 1] = Append(v[k], seq[k + 1])
      BY <1>1, <1>4, <2>1, <2>5
    <3>2. /\ ToSet(v[k + 1]) = ToSet(v[k]) \cup {seq[k + 1]}
          /\ Unique(v[k]) /\ seq[k + 1] \notin ToSet(v[k]) => Unique(v[k + 1])
      BY <2>2, <3>1, Appended
    <3>3. QED
      BY <2>1, <2>2, <2>3, <2>4, <2>5, <3>2
  <2>6. CASE seq[k + 1] \notin set
    <3>1. v[k + 1] = v[k]
      BY <1>1, <1>4, <2>1, <2>6
    <3>2. QED
      BY <2>1, <2>2, <2>3, <2>6, <3>1
  <2>7. QED
    BY <2>5, <2>6
<1>5. n \in P
  <2>1. P \in SUBSET Nat /\ n \in 0 .. n
    BY <1>2
  <2> HIDE DEF P
  <2>2. QED
    BY <1>2, <1>3, <1>4, <2>1, Climbed
<1>6. v[n] \in Seq(D) /\ n <= n
  BY <1>1, <1>2
<1>7. QED
  BY <1>1, <1>2, <1>5, <1>6

LEMMA FilteredFed ==
    ASSUME NEW D, NEW seq \in Seq(D), NEW set, NEW base, NEW needs, Fed(seq, {}, needs),
           \A c \in ToSet(seq) \cap set : needs[c] \subseteq set \cup base
    PROVE  Fed(Filtered(seq, set), base, needs)
<1>0. PICK v : FilterRun(v, D, seq, set)
  BY FilteredRuns
<1> DEFINE n == Len(seq)
<1>1. /\ v \in [0 .. n -> Seq(D)] /\ v[0] = <<>> /\ v[n] = Filtered(seq, set)
      /\ \A k \in Nat : k < n =>
           v[k + 1] = IF seq[k + 1] \in set THEN Append(v[k], seq[k + 1]) ELSE v[k]
  BY <1>0 DEF FilterRun
<1>2. ToSet(seq) = {seq[i] : i \in 1 .. n} /\ n \in Nat /\ \A i \in 1 .. n : seq[i] \in D
  BY In
<1>a. \A i \in 1 .. n : needs[seq[i]] \subseteq {seq[j] : j \in 1 .. i - 1}
  BY DEF Fed
<1> HIDE DEF n
<1> DEFINE P == {k \in Nat : k <= n => /\ ToSet(v[k]) = {seq[i] : i \in 1 .. k} \cap set
                                       /\ Fed(v[k], base, needs)}
<1>3. 0 \in P
  <2>1. 1 .. 0 = {}
    OBVIOUS
  <2>2. Fed(<<>>, base, needs)
    BY <2>1, Empty DEF Fed
  <2>3. QED
    BY <1>1, <2>1, <2>2, Empty
<1>4. ASSUME NEW k \in P, k < n PROVE k + 1 \in P
  <2>1. /\ k \in Nat /\ k + 1 \in Nat /\ k <= n /\ k + 1 \in 1 .. n /\ k \in 0 .. n
        /\ (k + 1) - 1 = k
    BY <1>2, <1>4
  <2>a. 1 .. k + 1 = (1 .. k) \cup {k + 1}
    BY <2>1
  <2>2. v[k] \in Seq(D) /\ seq[k + 1] \in D /\ ToSet(v[k]) = {seq[i] : i \in 1 .. k} \cap set /\ Fed(v[k], base, needs)
    BY <1>1, <1>2, <2>1
  <2>3. {seq[i] : i \in 1 .. k + 1} = {seq[i] : i \in 1 .. k} \cup {seq[k + 1]}
    BY <2>1, <2>a
  <2>5. CASE seq[k + 1] \in set
    <3>1. v[k + 1] = Append(v[k], seq[k + 1])
      BY <1>1, <1>4, <2>1, <2>5
    <3>2. ToSet(v[k + 1]) = ToSet(v[k]) \cup {seq[k + 1]}
      BY <2>2, <3>1, Appended
    <3>3. needs[seq[k + 1]] \subseteq base \cup ToSet(v[k])
      <4>1. needs[seq[k + 1]] \subseteq {seq[j] : j \in 1 .. k}
        BY <1>a, <2>1
      <4>2. seq[k + 1] \in ToSet(seq) \cap set
        BY <1>2, <2>1, <2>5
      <4>3. needs[seq[k + 1]] \subseteq set \cup base
        BY <4>2
      <4>4. QED
        BY <2>2, <4>1, <4>3
    <3>4. Fed(v[k + 1], base, needs)
      BY <2>2, <3>1, <3>3, AppendedFed
    <3>5. QED
      BY <2>1, <2>2, <2>3, <2>5, <3>2, <3>4
  <2>6. CASE seq[k + 1] \notin set
    <3>1. v[k + 1] = v[k]
      BY <1>1, <1>4, <2>1, <2>6
    <3>2. QED
      BY <2>1, <2>2, <2>3, <2>6, <3>1
  <2>7. QED
    BY <2>5, <2>6
<1>5. n \in P
  <2>1. P \in SUBSET Nat /\ n \in 0 .. n
    BY <1>2
  <2> HIDE DEF P
  <2>2. QED
    BY <1>2, <1>3, <1>4, <2>1, Climbed
<1>6. n <= n
  BY <1>2
<1>7. QED
  BY <1>1, <1>5, <1>6
-----------------------------------------------------------------------------
(* topo_sort.  Each turn takes the head of the queue, until it is empty.   *)
Requires == requires \in [Component -> SUBSET (Component \cup {0})]
KahnState == [out : Seq(Component), queue : Seq(Component)]
Start == [out |-> <<>>, queue |-> Keyed({c \in Component : requires[c] = {}})]
Turn(s) == IF s.queue = <<>> THEN s ELSE Pop(s)

LEMMA KeyedFits ==
    ASSUME NEW set
    PROVE  Keyed(set) \in Seq(Component) /\ ToSet(Keyed(set)) = Component \cap set /\ Unique(Keyed(set))
<1>0. N \in Nat
  BY NAssumption
<1>1. Keys \in Seq(Component) /\ Len(Keys) = N /\ \A i \in 1 .. N : Keys[i] = i
  BY <1>0 DEF Keys, Component
<1>2. ToSet(Keys) = Component
  <2>1. ToSet(Keys) = {Keys[i] : i \in 1 .. N}
    BY <1>1, In
  <2>2. QED
    BY <1>1, <2>1 DEF Component
<1>3. Unique(Keys)
  BY <1>1 DEF Unique
<1> DEFINE keys == Keys
<1> HIDE DEF keys
<1>4. keys \in Seq(Component) /\ ToSet(keys) = Component /\ Unique(keys) /\ Keyed(set) = Filtered(keys, set)
  BY <1>1, <1>2, <1>3 DEF keys, Keyed
<1>5. /\ Filtered(keys, set) \in Seq(Component)
      /\ ToSet(Filtered(keys, set)) = ToSet(keys) \cap set
      /\ Unique(Filtered(keys, set))
  BY <1>4, FilteredFacts
<1>6. QED
  BY <1>4, <1>5

LEMMA StartFits == Start \in KahnState
  BY KeyedFits DEF Start, KahnState

LEMMA PopGives ==
    ASSUME NEW s \in KahnState, s.queue # <<>>
    PROVE  /\ Pop(s).out = Append(s.out, Head(s.queue))
           /\ Pop(s).queue = Tail(s.queue) \o Keyed(Ready(s, Head(s.queue)))
           /\ Pop(s) \in KahnState
<1> DEFINE n == Head(s.queue)
           more == Keyed(Ready(s, n))
<1>1. s.out \in Seq(Component) /\ s.queue \in Seq(Component)
  BY DEF KahnState
<1>2. n \in Component /\ Tail(s.queue) \in Seq(Component)
  BY <1>1, Tailed
<1>3. more \in Seq(Component)
  BY KeyedFits
<1>4. Pop(s) = [out |-> Append(s.out, n), queue |-> Tail(s.queue) \o more]
  BY DEF Pop
<1> HIDE DEF n, more
<1>5. Append(s.out, n) \in Seq(Component) /\ Tail(s.queue) \o more \in Seq(Component)
  BY <1>1, <1>2, <1>3
<1>6. QED
  BY <1>4, <1>5 DEF n, more, KahnState

SortRun(v) ==
    /\ v \in [0 .. N -> KahnState] /\ v[0] = Start /\ Sorted = v[N].out
    /\ \A k \in Nat : k < N => v[k + 1] = Turn(v[k])

LEMMA TurnFits == \A s \in KahnState : Turn(s) \in KahnState
  BY PopGives DEF Turn

LEMMA SortRuns == \E v : SortRun(v)
<1> DEFINE X == KahnState
           n == N
           g == [i \in 1 .. n |-> [s \in X |-> Turn(s)]]
           Value(f) == [T \in SUBSET (1 .. n) |->
                          IF T = {} THEN Start ELSE Turn(f[T \ {Max(T)}])]
<1>1. g \in [1 .. n -> [X -> X]] /\ n \in Nat /\ Start \in X
  BY TurnFits, StartFits, NAssumption
<1>2. PICK f \in [SUBSET (1 .. n) -> X] : FoldTable(f, Start, n, g)
  <2> HIDE DEF X, n, g
  <2>1. QED
    BY <1>1, FoldExists
<1>3. f = Value(f)
  <2>1. ASSUME NEW T \in SUBSET (1 .. n), T # {}
        PROVE  g[Max(T)][f[T \ {Max(T)}]] = Turn(f[T \ {Max(T)}])
    <3>1. Max(T) \in 1 .. n /\ T \ {Max(T)} \in SUBSET (1 .. n)
      BY <1>1, <2>1, MaxOfSome
    <3>2. f[T \ {Max(T)}] \in X
      BY <1>2, <3>1
    <3> HIDE DEF X, n
    <3>3. QED
      BY <3>1, <3>2
  <2> HIDE DEF X, n, g
  <2>2. QED
    BY <1>2, <2>1 DEF FoldTable
<1> DEFINE r == CHOOSE h : h = Value(h)
<1>4. Sorted = r[1 .. n].out
  <2>1. DOMAIN Keys = 1 .. n
    BY DEF Keys, Component
  <2>2. QED
    BY <2>1 DEF Sorted, FoldLeft, MapThenFoldSet, Start, Turn
<1>5. r = Value(r)
  <2> HIDE DEF Value
  <2>1. QED
    BY <1>3
<1>6. r[{}] = Start
  <2>1. {} \in SUBSET (1 .. n)
    OBVIOUS
  <2> HIDE DEF r, n
  <2>2. QED
    BY <1>5, <2>1
<1>7. ASSUME NEW k \in Nat, k < n
      PROVE  r[1 .. k + 1] = Turn(r[1 .. k])
  <2> DEFINE T == 1 .. k + 1
  <2>1. T \in SUBSET (1 .. n) /\ T # {} /\ Max(T) = k + 1 /\ T \ {k + 1} = 1 .. k
    BY <1>1, <1>7, UpTo
  <2> HIDE DEF r, n, T
  <2>2. r[T] = Turn(r[T \ {Max(T)}])
    BY <1>5, <2>1
  <2>3. QED
    BY <2>1, <2>2 DEF T
<1> HIDE DEF Value, r
<1> DEFINE P == {k \in Nat : k <= n => r[1 .. k] \in X}
<1>8. 0 \in P
  <2>1. 1 .. 0 = {}
    OBVIOUS
  <2>2. QED
    BY <1>1, <1>6, <2>1
<1>9. ASSUME NEW k \in P, k < n PROVE k + 1 \in P
  <2>1. k \in Nat /\ k + 1 \in Nat /\ k <= n
    BY <1>1, <1>9
  <2>2. r[1 .. k] \in X
    BY <2>1
  <2>3. QED
    BY <1>7, <1>9, <2>1, <2>2, TurnFits
<1>10. \A k \in 0 .. n : r[1 .. k] \in X
  <2>1. P \in SUBSET Nat
    OBVIOUS
  <2>2. \A k \in 0 .. n : k \in P
    <3> HIDE DEF P, n
    <3>1. QED
      BY <1>1, <1>8, <1>9, <2>1, Climbed
  <2>3. QED
    BY <2>2
<1> DEFINE v == [k \in 0 .. n |-> r[1 .. k]]
<1>11. v \in [0 .. n -> X]
  BY <1>10
<1>12. v[0] = Start /\ v[n] = r[1 .. n]
  <2>1. 1 .. 0 = {} /\ 0 \in 0 .. n /\ n \in 0 .. n
    BY <1>1
  <2>2. QED
    BY <1>6, <2>1
<1>13. ASSUME NEW k \in Nat, k < n
       PROVE  v[k + 1] = Turn(v[k])
  <2>1. k \in 0 .. n /\ k + 1 \in 0 .. n
    BY <1>1, <1>13
  <2>2. v[k] = r[1 .. k] /\ v[k + 1] = r[1 .. k + 1]
    BY <2>1
  <2>3. QED
    BY <1>7, <1>13, <2>2
<1> HIDE DEF v
<1>14. QED
  BY <1>4, <1>11, <1>12, <1>13 DEF SortRun

(* What a turn keeps: nobody is taken or queued twice, those are who have  *)
(* all they require taken, and each was taken after what it requires.      *)
Kahn(s) ==
    /\ Unique(s.out) /\ Unique(s.queue) /\ ToSet(s.out) \cap ToSet(s.queue) = {}
    /\ ToSet(s.out) \cup ToSet(s.queue) = {c \in Component : requires[c] \subseteq ToSet(s.out)}
    /\ Fed(s.out, {}, requires)

LEMMA StartKahn == Kahn(Start)
<1>1. Start.out = <<>> /\ Start.queue = Keyed({c \in Component : requires[c] = {}})
  BY DEF Start
<1>2. Fed(<<>>, {}, requires)
  BY Empty DEF Fed
<1>3. ToSet(Start.queue) = {c \in Component : requires[c] = {}} /\ Unique(Start.queue)
  BY <1>1, KeyedFits
<1>4. ToSet(Start.out) = {} /\ Unique(Start.out)
  BY <1>1, Empty
<1>5. {c \in Component : requires[c] = {}} = {c \in Component : requires[c] \subseteq {}}
  OBVIOUS
<1>6. QED
  BY <1>1, <1>2, <1>3, <1>4, <1>5 DEF Kahn

LEMMA PopKahn ==
    ASSUME NEW s \in KahnState, Kahn(s), s.queue # <<>>
    PROVE  Kahn(Pop(s)) /\ Len(Pop(s).out) = Len(s.out) + 1
<1> DEFINE out == s.out
           queue == s.queue
           n == Head(queue)
           rest0 == Tail(queue)
           ready == Ready(s, n)
           more == Keyed(ready)
           out1 == Append(out, n)
           queue1 == rest0 \o more
<1>1. out \in Seq(Component) /\ queue \in Seq(Component) /\ queue # <<>>
  BY DEF KahnState
<1>2. /\ Unique(out) /\ Unique(queue) /\ ToSet(out) \cap ToSet(queue) = {}
      /\ ToSet(out) \cup ToSet(queue) = {c \in Component : requires[c] \subseteq ToSet(out)}
      /\ Fed(out, {}, requires)
  BY DEF Kahn
<1>3. Pop(s).out = out1 /\ Pop(s).queue = queue1
  BY PopGives
<1>4. ready = {c \in Component : n \in requires[c] /\ requires[c] \subseteq ToSet(out) \cup {n}}
  BY DEF Ready
<1>5. more \in Seq(Component) /\ ToSet(more) = Component \cap ready /\ Unique(more)
  BY KeyedFits
<1> HIDE DEF out, queue, ready, more
<1>6. /\ n \in Component /\ rest0 \in Seq(Component) /\ ToSet(queue) = {n} \cup ToSet(rest0)
      /\ Unique(rest0) /\ n \notin ToSet(rest0)
  BY <1>1, <1>2, Tailed
<1> HIDE DEF n, rest0
<1>7. n \notin ToSet(out) /\ requires[n] \subseteq ToSet(out)
  BY <1>2, <1>6
<1>8. /\ ToSet(out1) = ToSet(out) \cup {n} /\ Unique(out1) /\ Len(out1) = Len(out) + 1
  BY <1>1, <1>2, <1>6, <1>7, Appended
<1>9. Fed(out1, {}, requires)
  <2>1. requires[n] \subseteq {} \cup ToSet(out)
    BY <1>7
  <2>2. QED
    BY <1>1, <1>2, <1>6, <2>1, AppendedFed
<1>10. \A c \in ready : c \notin ToSet(out) /\ c \notin ToSet(queue) /\ c # n
  BY <1>2, <1>4, <1>6, <1>7
<1>11. ToSet(queue1) = ToSet(rest0) \cup ToSet(more) /\ Unique(queue1)
  <2>1. ToSet(rest0) \cap ToSet(more) = {}
    BY <1>5, <1>6, <1>10
  <2>2. QED
    BY <1>5, <1>6, <2>1, JoinedSet
<1> HIDE DEF out1, queue1
<1>12. ToSet(out1) \cap ToSet(queue1) = {}
  BY <1>2, <1>5, <1>6, <1>8, <1>10, <1>11
<1>13. ToSet(out1) \cup ToSet(queue1) = {c \in Component : requires[c] \subseteq ToSet(out1)}
  <2>1. ASSUME NEW c \in ToSet(out1) \cup ToSet(queue1)
        PROVE  c \in Component /\ requires[c] \subseteq ToSet(out1)
    <3>1. CASE c \in ToSet(out) \cup ToSet(queue)
      BY <1>2, <1>8, <3>1
    <3>2. CASE c \in ready
      BY <1>4, <1>8, <3>2
    <3>3. QED
      BY <1>5, <1>6, <1>8, <1>11, <2>1, <3>1, <3>2
  <2>2. ASSUME NEW c \in Component, requires[c] \subseteq ToSet(out1)
        PROVE  c \in ToSet(out1) \cup ToSet(queue1)
    <3>1. CASE n \in requires[c]
      BY <1>4, <1>5, <1>8, <1>11, <2>2, <3>1
    <3>2. CASE n \notin requires[c]
      BY <1>2, <1>6, <1>8, <1>11, <2>2, <3>2
    <3>3. QED
      BY <3>1, <3>2
  <2>3. QED
    BY <2>1, <2>2
<1>14. QED
  BY <1>3, <1>8, <1>9, <1>11, <1>12, <1>13 DEF Kahn, out

(* A turn after all have been taken changes nothing, and as long as the    *)
(* queue lasts each turn takes one.                                        *)
LEMMA SortedFacts ==
    /\ Sorted \in Seq(Component) /\ Unique(Sorted) /\ Fed(Sorted, {}, requires)
    /\ Len(Sorted) = N \/ ToSet(Sorted) = {c \in Component : requires[c] \subseteq ToSet(Sorted)}
<1>1. PICK v : SortRun(v)
  BY SortRuns
<1>2. /\ v \in [0 .. N -> KahnState] /\ v[0] = Start /\ Sorted = v[N].out
      /\ \A k \in Nat : k < N => v[k + 1] = Turn(v[k])
  BY <1>1 DEF SortRun
<1>3. N \in Nat
  BY NAssumption
<1> DEFINE P == {k \in Nat : k <= N => Kahn(v[k]) /\ (v[k].queue = <<>> \/ Len(v[k].out) = k)}
<1>4. 0 \in P
  <2>1. Len(Start.out) = 0
    BY DEF Start
  <2>2. QED
    BY <1>2, <2>1, StartKahn
<1>5. ASSUME NEW k \in P, k < N PROVE k + 1 \in P
  <2>1. k \in Nat /\ k <= N /\ k + 1 \in Nat /\ k \in 0 .. N
    BY <1>3, <1>5
  <2>2. v[k] \in KahnState /\ Kahn(v[k]) /\ (v[k].queue = <<>> \/ Len(v[k].out) = k) /\ v[k + 1] = Turn(v[k])
    BY <1>2, <1>5, <2>1
  <2>3. CASE v[k].queue = <<>>
    <3>1. v[k + 1] = v[k]
      BY <2>2, <2>3 DEF Turn
    <3>2. QED
      BY <2>1, <2>2, <2>3, <3>1
  <2>4. CASE v[k].queue # <<>>
    <3>1. v[k + 1] = Pop(v[k])
      BY <2>2, <2>4 DEF Turn
    <3>2. Kahn(Pop(v[k])) /\ Len(Pop(v[k]).out) = Len(v[k].out) + 1
      BY <2>2, <2>4, PopKahn
    <3>3. QED
      BY <2>1, <2>2, <2>4, <3>1, <3>2
  <2>5. QED
    BY <2>3, <2>4
<1>6. N \in P
  <2>1. P \in SUBSET Nat /\ N \in 0 .. N
    BY <1>3
  <2> HIDE DEF P
  <2>2. QED
    BY <1>3, <1>4, <1>5, <2>1, Climbed
<1>7. v[N] \in KahnState /\ Kahn(v[N]) /\ (v[N].queue = <<>> \/ Len(v[N].out) = N)
  BY <1>2, <1>3, <1>6
<1>8. CASE v[N].queue = <<>>
  <2>1. ToSet(v[N].queue) = {}
    BY <1>8, Empty
  <2>2. QED
    BY <1>2, <1>7, <2>1 DEF Kahn, KahnState
<1>9. QED
  BY <1>2, <1>7, <1>8 DEF Kahn, KahnState
-----------------------------------------------------------------------------
(* An order in which everything comes once, after all that it requires.    *)
Topological ==
    /\ Requires /\ order \in Seq(Component) /\ Len(order) = N
    /\ Unique(order) /\ ToSet(order) = Component /\ Fed(order, {}, requires)

LEMMA WholeIsAll ==
    ASSUME NEW s \in Seq(Component), Unique(s)
    PROVE  Len(s) = N <=> ToSet(s) = Component
<1>0. N \in Nat /\ Component = 1 .. N /\ IsFiniteSet(Component) /\ Cardinality(Component) = N
  BY NAssumption, FS_Interval DEF Component
<1> DEFINE n == Len(s)
<1>1. /\ n \in Nat /\ s \in [1 .. n -> Component] /\ ToSet(s) = {s[i] : i \in 1 .. n}
      /\ \A i, j \in 1 .. n : s[i] = s[j] => i = j
  BY In DEF Unique
<1>2. IsFiniteSet(1 .. n) /\ Cardinality(1 .. n) = n
  BY <1>1, FS_Interval
<1> HIDE DEF n
<1>3. s \in Injection(1 .. n, Component)
  BY <1>1 DEF Injection, IsInjective
<1>4. n = N <=> s \in Surjection(1 .. n, Component)
  BY <1>0, <1>2, <1>3, FS_Injection
<1>5. s \in Surjection(1 .. n, Component) <=> ToSet(s) = Component
  BY <1>1 DEF Surjection
<1>6. QED
  BY <1>4, <1>5 DEF n

(* A sorted registry is in a topological order, and one that is rejected   *)
(* has an edge that leads nowhere, or a ring.                              *)
LEMMA SortedIsTopological ==
    ASSUME Requires, Accepted, order' = Sorted, requires' = requires
    PROVE  Topological'
<1>1. Sorted \in Seq(Component) /\ Unique(Sorted) /\ Fed(Sorted, {}, requires) /\ Len(Sorted) = N
  BY SortedFacts DEF Accepted
<1>2. ToSet(Sorted) = Component
  BY <1>1, WholeIsAll
<1>3. QED
  BY <1>1, <1>2 DEF Topological, Requires

LEMMA RejectedIsCircular ==
    ASSUME Requires, ~Accepted
    PROVE  ~Declared \/ Circular
<1> SUFFICES ASSUME Declared
             PROVE  Circular
  OBVIOUS
<1> DEFINE out == ToSet(Sorted)
           ring == Component \ out
<1>1. /\ Sorted \in Seq(Component) /\ Unique(Sorted) /\ Len(Sorted) # N
      /\ out = {c \in Component : requires[c] \subseteq out}
  BY SortedFacts DEF Accepted
<1>2. out \subseteq Component /\ out # Component
  BY <1>1, WholeIsAll
<1> HIDE DEF out
<1>3. ring \in (SUBSET Component) \ {{}}
  BY <1>2
<1>4. ASSUME NEW c \in ring PROVE requires[c] \cap ring # {}
  BY <1>1 DEF Declared
<1>5. QED
  BY <1>3, <1>4 DEF Circular

(* What holds of each component whose requirements it holds of holds of    *)
(* all.                                                                    *)
LEMMA AlongOrder ==
    ASSUME Topological, NEW Q \in SUBSET Component,
           \A c \in Component : requires[c] \subseteq Q => c \in Q
    PROVE  Q = Component
<1>1. /\ order \in Seq(Component) /\ Len(order) = N /\ N \in Nat
      /\ Component = {order[i] : i \in 1 .. N} /\ \A i \in 1 .. N : order[i] \in Component
      /\ \A i \in 1 .. N : requires[order[i]] \subseteq {order[j] : j \in 1 .. i - 1}
  BY In, NAssumption DEF Topological, Fed
<1> DEFINE P == {k \in Nat : k <= N => \A i \in 1 .. k : order[i] \in Q}
<1>2. 0 \in P
  OBVIOUS
<1>3. ASSUME NEW k \in P, k < N PROVE k + 1 \in P
  <2>1. /\ k \in Nat /\ k + 1 \in Nat /\ k + 1 \in 1 .. N /\ (k + 1) - 1 = k
        /\ \A i \in 1 .. k : order[i] \in Q
    BY <1>1, <1>3
  <2>2. requires[order[k + 1]] \subseteq {order[j] : j \in 1 .. k}
    BY <1>1, <2>1
  <2>3. order[k + 1] \in Q
    <3>1. order[k + 1] \in Component
      BY <1>1, <2>1
    <3>2. {order[j] : j \in 1 .. k} \subseteq Q
      BY <2>1
    <3>3. requires[order[k + 1]] \subseteq Q
      BY <2>2, <3>2
    <3>4. QED
      BY <3>1, <3>3
  <2>4. \A i \in 1 .. k + 1 : i \in 1 .. k \/ i = k + 1
    BY <2>1
  <2>5. QED
    BY <2>1, <2>3, <2>4
<1>4. N \in P
  <2>1. P \in SUBSET Nat /\ N \in 0 .. N
    BY <1>1
  <2> HIDE DEF P
  <2>2. QED
    BY <1>1, <1>2, <1>3, <2>1, Climbed
<1>5. \A i \in 1 .. N : order[i] \in Q
  BY <1>1, <1>4
<1>6. QED
  BY <1>1, <1>5

LEMMA NoRing == Topological => Declared /\ ~Circular
<1> SUFFICES ASSUME Topological
             PROVE  Declared /\ ~Circular
  OBVIOUS
<1>1. Declared
  <2>1. /\ order \in Seq(Component) /\ \A c \in Component : \E i \in 1 .. N : order[i] = c
        /\ \A i \in 1 .. N : requires[order[i]] \subseteq {order[j] : j \in 1 .. i - 1} /\ order[i] \in Component
    BY In, NAssumption DEF Topological, Fed
  <2> SUFFICES ASSUME NEW c \in Component PROVE requires[c] \subseteq Component
    BY DEF Declared
  <2>2. PICK i \in 1 .. N : order[i] = c
    BY <2>1
  <2>3. \A j \in 1 .. i - 1 : j \in 1 .. N
    BY NAssumption
  <2>4. {order[j] : j \in 1 .. i - 1} \subseteq Component
    BY <2>1, <2>3
  <2>5. requires[c] \subseteq {order[j] : j \in 1 .. i - 1}
    BY <2>1, <2>2
  <2>6. QED
    BY <2>4, <2>5
<1>2. ASSUME NEW ring \in SUBSET Component, \A c \in ring : requires[c] \cap ring # {}
      PROVE  ring = {}
  <2>1. \A c \in Component : requires[c] \subseteq Component \ ring => c \in Component \ ring
    BY <1>2
  <2>2. Component \ ring = Component
    BY <2>1, AlongOrder
  <2>3. QED
    BY <2>2
<1>3. ~Circular
  BY <1>2 DEF Circular
<1>4. QED
  BY <1>1, <1>3

LEMMA EarlierIsSmaller ==
    ASSUME Topological, NEW i \in Component, NEW j \in Component, order[j] \in requires[order[i]]
    PROVE  j < i
<1>1. Component = 1 .. N /\ Len(order) = N /\ N \in Nat
  BY NAssumption DEF Topological, Component
<1>2. PICK k \in 1 .. i - 1 : order[j] = order[k]
  BY <1>1 DEF Topological, Fed
<1>3. k \in 1 .. N
  BY <1>1
<1>4. j = k
  BY <1>1, <1>2, <1>3 DEF Topological, Unique
<1>5. QED
  BY <1>1, <1>2, <1>4

(* What is defined of a component from what it is of its requirements is   *)
(* defined of all.                                                         *)
Defines(g, X) ==
    /\ g \in [Component -> [[Component -> X] -> X]]
    /\ \A c \in Component : \A p, q \in [Component -> X] :
         (\A d \in requires[c] : p[d] = q[d]) => g[c][p] = g[c][q]
Defined(p, g, X) == p \in [Component -> X] /\ \A c \in Component : p[c] = g[c][p]

LEMMA Recursion ==
    ASSUME Topological, NEW X, X # {}, NEW g, Defines(g, X)
    PROVE  \E p : Defined(p, g, X)
<1>0. /\ g \in [Component -> [[Component -> X] -> X]]
      /\ \A c \in Component : \A p, q \in [Component -> X] :
           (\A d \in requires[c] : p[d] = q[d]) => g[c][p] = g[c][q]
  BY DEF Defines
<1>1. /\ order \in Seq(Component) /\ Len(order) = N /\ N \in Nat
      /\ Component = {order[i] : i \in 1 .. N} /\ \A i \in 1 .. N : order[i] \in Component
      /\ \A i \in 1 .. N : requires[order[i]] \subseteq {order[j] : j \in 1 .. i - 1}
      /\ \A i, j \in 1 .. N : order[i] = order[j] => i = j
  BY In, NAssumption DEF Topological, Fed, Unique
<1> DEFINE P == {k \in Nat : k <= N => \E p \in [Component -> X] : \A i \in 1 .. k : p[order[i]] = g[order[i]][p]}
<1>2. 0 \in P
  <2>1. PICK x \in X : TRUE
    OBVIOUS
  <2> DEFINE p == [c \in Component |-> x]
  <2>2. p \in [Component -> X]
    BY <2>1
  <2> HIDE DEF p
  <2>3. \A i \in 1 .. 0 : p[order[i]] = g[order[i]][p]
    OBVIOUS
  <2>4. QED
    BY <2>2, <2>3
<1>3. ASSUME NEW k \in P, k < N PROVE k + 1 \in P
  <2>1. k \in Nat /\ k + 1 \in Nat /\ k <= N /\ k + 1 \in 1 .. N /\ (k + 1) - 1 = k
    BY <1>1, <1>3
  <2>2. PICK p \in [Component -> X] : \A i \in 1 .. k : p[order[i]] = g[order[i]][p]
    BY <2>1
  <2> DEFINE c == order[k + 1]
             x == g[c][p]
             q == [p EXCEPT ![c] = x]
  <2>3. c \in Component /\ x \in X
    <3>1. c \in Component
      BY <1>1, <2>1
    <3>2. g[c] \in [[Component -> X] -> X]
      BY <1>0, <3>1
    <3>3. QED
      BY <2>2, <3>1, <3>2
  <2>4. q \in [Component -> X] /\ q[c] = x /\ \A d \in Component \ {c} : q[d] = p[d]
    BY <2>2, <2>3
  <2>5. requires[c] \subseteq {order[j] : j \in 1 .. k}
    BY <1>1, <2>1
  <2>6. \A i \in 1 .. k : order[i] # c /\ i \in 1 .. N /\ order[i] \in Component
    <3>1. \A i \in 1 .. k : i \in 1 .. N /\ i # k + 1
      BY <1>1, <2>1
    <3>2. QED
      BY <1>1, <2>1, <3>1
  <2> HIDE DEF q, c
  <2>7. g[c][q] = g[c][p]
    <3>1. \A d \in requires[c] : q[d] = p[d]
      BY <2>4, <2>5, <2>6
    <3>2. QED
      BY <1>0, <2>2, <2>3, <2>4, <3>1
  <2>8. ASSUME NEW i \in 1 .. k PROVE q[order[i]] = g[order[i]][q]
    <3>1. \A d \in requires[order[i]] : q[d] = p[d]
      <4>1. requires[order[i]] \subseteq {order[j] : j \in 1 .. i - 1}
        BY <1>1, <2>6
      <4>2. \A j \in 1 .. i - 1 : j \in 1 .. k
        BY <2>1
      <4>3. QED
        BY <2>4, <2>6, <4>1, <4>2
    <3>2. g[order[i]][q] = g[order[i]][p]
      BY <1>0, <2>2, <2>4, <2>6, <3>1
    <3>3. q[order[i]] = p[order[i]]
      BY <2>4, <2>6
    <3>4. QED
      BY <2>2, <3>2, <3>3
  <2>9. q[c] = g[c][q]
    BY <2>4, <2>7
  <2>10. \A i \in 1 .. k + 1 : i \in 1 .. k \/ i = k + 1
    BY <2>1
  <2>11. \A i \in 1 .. k + 1 : q[order[i]] = g[order[i]][q]
    BY <2>8, <2>9, <2>10 DEF c
  <2>12. QED
    BY <2>1, <2>4, <2>11
<1>4. N \in P
  <2>1. P \in SUBSET Nat /\ N \in 0 .. N
    BY <1>1
  <2> HIDE DEF P
  <2>2. QED
    BY <1>1, <1>2, <1>3, <2>1, Climbed
<1>5. PICK p \in [Component -> X] : \A i \in 1 .. N : p[order[i]] = g[order[i]][p]
  <2>1. N <= N
    BY <1>1
  <2>2. QED
    BY <1>4, <2>1
<1>6. \A c \in Component : p[c] = g[c][p]
  BY <1>1, <1>5
<1>7. QED
  BY <1>5, <1>6 DEF Defined

(* is_prereq_of.                                                           *)
LEMMA PrereqsAre ==
    ASSUME Topological
    PROVE  /\ Prereqs \in [Component -> SUBSET Component]
           /\ \A c \in Component : Prereqs[c] = requires[c] \cup UNION {Prereqs[d] : d \in requires[c]}
<1>0. \A c \in Component : requires[c] \subseteq Component
  BY NoRing DEF Declared
<1> DEFINE X == SUBSET Component
           g == [c \in Component |-> [p \in [Component -> X] |-> requires[c] \cup UNION {p[d] : d \in requires[c]}]]
           Value(p) == [c \in Component |-> requires[c] \cup UNION {p[d] : d \in requires[c]}]
<1>1. g \in [Component -> [[Component -> X] -> X]]
  BY <1>0
<1>2. \A c \in Component : \A p, q \in [Component -> X] :
        (\A d \in requires[c] : p[d] = q[d]) => g[c][p] = g[c][q]
  <2> SUFFICES ASSUME NEW c \in Component, NEW p \in [Component -> X], NEW q \in [Component -> X],
                      \A d \in requires[c] : p[d] = q[d]
               PROVE  g[c][p] = g[c][q]
    OBVIOUS
  <2>1. {p[d] : d \in requires[c]} = {q[d] : d \in requires[c]}
    OBVIOUS
  <2>2. QED
    BY <2>1
<1>3. PICK p : Defined(p, g, X)
  <2>1. X # {}
    OBVIOUS
  <2> HIDE DEF X, g
  <2>2. Defines(g, X)
    BY <1>1, <1>2 DEF Defines
  <2>3. QED
    BY <2>1, <2>2, Recursion
<1>4. p = Value(p)
  BY <1>3 DEF Defined
<1>5. Prereqs = CHOOSE f : f = Value(f)
  BY DEF Prereqs
<1> HIDE DEF Value
<1>6. Prereqs = Value(Prereqs)
  BY <1>4, <1>5
<1> USE DEF Value
<1>7. \A c \in Component : Prereqs[c] = requires[c] \cup UNION {Prereqs[d] : d \in requires[c]}
  BY <1>6
<1>8. {c \in Component : Prereqs[c] \subseteq Component} = Component
  <2> DEFINE Q == {c \in Component : Prereqs[c] \subseteq Component}
  <2>1. \A c \in Component : requires[c] \subseteq Q => c \in Q
    BY <1>0, <1>7
  <2>2. Q \in SUBSET Component
    OBVIOUS
  <2> HIDE DEF Q
  <2>3. Q = Component
    BY <2>1, <2>2, AlongOrder
  <2>4. QED
    BY <2>3 DEF Q
<1>9. Prereqs \in [Component -> SUBSET Component]
  <2>1. \A c \in Component : Prereqs[c] \in SUBSET Component
    BY <1>8
  <2>2. Prereqs = [c \in Component |-> Prereqs[c]]
    BY <1>6
  <2>3. QED
    BY <2>1, <2>2
<1>10. QED
  BY <1>7, <1>9

LEMMA PrereqsChain ==
    ASSUME Topological, NEW c \in Component, NEW d \in Prereqs[c]
    PROVE  Prereqs[d] \subseteq Prereqs[c]
<1>1. /\ Prereqs \in [Component -> SUBSET Component]
      /\ \A b \in Component : Prereqs[b] = requires[b] \cup UNION {Prereqs[e] : e \in requires[b]}
  BY PrereqsAre
<1> DEFINE Q == {b \in Component : \A e \in Prereqs[b] : Prereqs[e] \subseteq Prereqs[b]}
<1>2. ASSUME NEW b \in Component, requires[b] \subseteq Q PROVE b \in Q
  <2> SUFFICES ASSUME NEW e \in Prereqs[b] PROVE Prereqs[e] \subseteq Prereqs[b]
    OBVIOUS
  <2>1. CASE e \in requires[b]
    BY <1>1, <2>1
  <2>2. CASE \E a \in requires[b] : e \in Prereqs[a]
    BY <1>1, <1>2, <2>2
  <2>3. QED
    BY <1>1, <2>1, <2>2
<1>3. Q \in SUBSET Component
  OBVIOUS
<1> HIDE DEF Q
<1>4. Q = Component
  BY <1>2, <1>3, AlongOrder
<1>5. QED
  BY <1>4 DEF Q

LEMMA PrereqsFed == Topological => Fed(order, {}, Prereqs)
<1> SUFFICES ASSUME Topological
             PROVE  Fed(order, {}, Prereqs)
  OBVIOUS
<1>1. /\ Len(order) = N /\ N \in Nat
      /\ Component = {order[i] : i \in 1 .. N}
      /\ \A i \in 1 .. N : requires[order[i]] \subseteq {order[j] : j \in 1 .. i - 1}
      /\ \A i, j \in 1 .. N : order[i] = order[j] => i = j
  BY In, NAssumption DEF Topological, Fed, Unique
<1>2. \A b \in Component : Prereqs[b] = requires[b] \cup UNION {Prereqs[e] : e \in requires[b]}
  BY PrereqsAre
<1> DEFINE Before(i) == {order[j] : j \in 1 .. i - 1}
           Q == {b \in Component : \A i \in 1 .. N : order[i] = b => Prereqs[b] \subseteq Before(i)}
<1>3. ASSUME NEW b \in Component, requires[b] \subseteq Q PROVE b \in Q
  <2> SUFFICES ASSUME NEW i \in 1 .. N, order[i] = b, NEW e \in Prereqs[b] PROVE e \in Before(i)
    OBVIOUS
  <2>1. requires[b] \subseteq Before(i)
    BY <1>1
  <2>2. ASSUME NEW a \in requires[b], e \in Prereqs[a] PROVE e \in Before(i)
    <3>1. PICK j \in 1 .. i - 1 : order[j] = a
      BY <2>1
    <3>2. j \in 1 .. N /\ \A l \in 1 .. j - 1 : l \in 1 .. i - 1
      BY <1>1
    <3>3. e \in Before(j)
      BY <1>3, <2>2, <3>1, <3>2
    <3>4. QED
      BY <3>2, <3>3
  <2>3. QED
    BY <1>2, <2>1, <2>2
<1>4. Q \in SUBSET Component
  OBVIOUS
<1>5. Q = Component
  <2> HIDE DEF Q
  <2>1. QED
    BY <1>3, <1>4, AlongOrder
<1>6. \A i \in 1 .. N : Prereqs[order[i]] \subseteq Before(i)
  BY <1>1, <1>5
<1>7. QED
  BY <1>1, <1>6 DEF Fed
-----------------------------------------------------------------------------
(* The parts of Next that take no component.                               *)
PlanStep == Load \/ Choose \/ PlanForward \/ RefuseRemove \/ PlanRemove \/ Finish

LEMMA InitReported == Init => LeftIsReported
  BY DEF Init, LeftIsReported, Detect

(* Nothing has been finished while the plan is made, and finishing the run *)
(* changes neither the host nor the rosters.                               *)
LEMMA PlanReported ==
    ASSUME LeftIsReported, PlanStep
    PROVE  LeftIsReported'
<1> USE DEF LeftIsReported, Live
<1>1. CASE PlanForward
  BY <1>1 DEF PlanForward
<1>2. CASE RefuseRemove
  BY <1>2 DEF RefuseRemove
<1>3. CASE PlanRemove
  BY <1>3 DEF PlanRemove
<1>4. CASE Finish
  BY <1>4 DEF Finish, rosters
<1>5. CASE Load
  BY <1>5 DEF Load, rosters
<1>6. CASE Choose
  BY <1>6 DEF Choose
<1>7. QED
  BY <1>1, <1>2, <1>3, <1>4, <1>5, <1>6 DEF PlanStep

(* A step that leaves the host alone and reports or skips its component    *)
(* keeps the rest as it was.                                               *)
LEMMA QuietReported ==
    ASSUME LeftIsReported, NEW c \in Component, Take(c), UNCHANGED detect,
           failed \subseteq failed', refused \subseteq refused', incomplete \subseteq incomplete',
           plan.phase = "remove" /\ ~plan.dry
             => c \notin Live \/ c \in failed' \cup refused' \cup incomplete'
    PROVE  LeftIsReported'
<1>1. handled' = handled \cup {c} /\ plan' = plan /\ stage' = stage /\ stage = "run"
  BY DEF Take
<1>2. Live' = Live
  BY DEF Live
<1>3. QED
  BY <1>1, <1>2 DEF LeftIsReported

(* A hook changes what is detected of its own component only.              *)
LEMMA HookReported ==
    ASSUME LeftIsReported, NEW c \in Component, Take(c), NEW d \in Detect,
           detect' = [detect EXCEPT ![c] = d],
           failed \subseteq failed', refused \subseteq refused', incomplete \subseteq incomplete',
           plan.phase = "remove" => d # "present" \/ c \in failed' \cup refused' \cup incomplete'
    PROVE  LeftIsReported'
<1>1. handled' = handled \cup {c} /\ plan' = plan /\ stage' = stage /\ stage = "run"
  BY DEF Take
<1>2. detect' \in [Component -> Detect] /\ detect'[c] = d
  BY DEF LeftIsReported
<1>3. \A b \in Component \ {c} : b \in Live' => b \in Live
  BY DEF LeftIsReported, Live
<1>4. c \in Live' => d = "present"
  BY <1>2 DEF Live
<1>5. Live' \subseteq Component
  BY DEF Live
<1>6. QED
  BY <1>1, <1>2, <1>3, <1>4, <1>5 DEF LeftIsReported

LEMMA StepReported ==
    ASSUME LeftIsReported, NEW c \in Component, Step(c)
    PROVE  LeftIsReported'
<1>0. \A d \in Outcome(c) : d \in Detect
  BY DEF Outcome, Detect
<1>1. CASE Block(c)
  <2>1. Take(c) /\ UNCHANGED <<detect, failed, refused, incomplete>>
    BY <1>1 DEF Block
  <2>2. plan.phase # "remove"
    BY <1>1 DEF Block, OnRubble, Forward
  <2>3. QED
    BY <2>1, <2>2, QuietReported
<1>2. CASE SkipStep(c)
  <2>1. Take(c) /\ UNCHANGED <<detect, failed, refused, incomplete>>
    BY <1>2 DEF SkipStep, rosters
  <2>2. plan.phase = "remove" => c \notin Live
    BY <1>2 DEF SkipStep, Live
  <2>3. QED
    BY <2>1, <2>2, QuietReported
<1>3. CASE RefuseStep(c)
  <2>1. Take(c) /\ UNCHANGED <<detect, failed, incomplete>> /\ refused' = refused \cup {c}
    BY <1>3 DEF RefuseStep
  <2>2. QED
    BY <2>1, QuietReported
<1>4. CASE DryStep(c)
  <2>1. Take(c) /\ UNCHANGED <<detect, failed, refused, incomplete>> /\ plan.dry
    BY <1>4 DEF DryStep, rosters
  <2>2. QED
    BY <2>1, QuietReported
<1>5. CASE HookFails(c)
  <2>1. Take(c) /\ failed' = failed \cup {c} /\ UNCHANGED <<refused, incomplete>>
    BY <1>5 DEF HookFails
  <2>2. PICK d \in Outcome(c) : detect' = [detect EXCEPT ![c] = d]
    BY <1>5 DEF HookFails
  <2>3. QED
    BY <1>0, <2>1, <2>2, HookReported
<1>6. CASE HookActs(c)
  <2>1. Take(c) /\ UNCHANGED <<failed, refused>>
    BY <1>6 DEF HookActs
  <2>2. PICK d \in Outcome(c), w \in BOOLEAN, s \in BOOLEAN :
          /\ detect' = [detect EXCEPT ![c] = d]
          /\ incomplete' = IF w \/ StillDetected(d) \/ s THEN incomplete \cup {c} ELSE incomplete
    BY <1>6 DEF HookActs
  <2>3. plan.phase = "remove" => d # "present" \/ c \in incomplete'
    BY <2>2 DEF StillDetected
  <2>4. incomplete \subseteq incomplete'
    BY <2>2
  <2>5. QED
    BY <1>0, <2>1, <2>2, <2>3, <2>4, HookReported
<1>7. QED
  BY <1>1, <1>2, <1>3, <1>4, <1>5, <1>6 DEF Step

LEMMA NextReported == LeftIsReported /\ [Next]_vars => LeftIsReported'
<1> SUFFICES ASSUME LeftIsReported, [Next]_vars
             PROVE  LeftIsReported'
  OBVIOUS
<1>1. CASE PlanStep
  BY <1>1, PlanReported
<1>2. CASE \E c \in Component : Step(c)
  BY <1>2, StepReported
<1>3. CASE UNCHANGED vars
  BY <1>3 DEF vars, LeftIsReported, Live
<1>4. QED
  BY <1>1, <1>2, <1>3 DEF Next, Plans, Loop, PlanStep, Finished

(* Whatever an applied reset has finished with is undetected or reported   *)
(* (revert, reverify_absent and the rosters of run()).                     *)
THEOREM LeftReported == Spec => []LeftIsReported
  BY InitReported, NextReported, PTL DEF Spec

(* A reset that reports ok has left nothing it took detected               *)
(* (RunSummary::ok after run()).                                           *)
THEOREM OkResetIsClean == Spec => []OkMeansAbsent
<1>1. LeftIsReported => OkMeansAbsent
  BY DEF LeftIsReported, OkMeansAbsent, Ok
<1>2. QED
  BY <1>1, LeftReported, PTL
-----------------------------------------------------------------------------
(* The loop over the process runner takes the steps of the loop.           *)
LEMMA EnvStepIsStep == [EnvNext]_envVars => [Next]_vars
<1>1. RunDetectHook => UNCHANGED vars
  BY DEF RunDetectHook
<1>2. TakeVerdict => UNCHANGED vars
  BY DEF TakeVerdict
<1>3. ChooseFor => Choose
  BY DEF ChooseFor
<1>4. Go => Next
  BY DEF Go, Next
<1>5. UNCHANGED envVars => UNCHANGED vars
  BY DEF envVars
<1>6. QED
  BY <1>1, <1>2, <1>3, <1>4, <1>5 DEF EnvNext, Next

(* Whatever the hooks and the processes they leave behind do, the loop     *)
(* over the process runner is the loop of Executor (detect::run, run).     *)
THEOREM LoopOverRunner == EnvSpec => Spec
<1>1. EnvInit => Init
  BY DEF EnvInit
<1>2. QED
  BY <1>1, EnvStepIsStep, PTL DEF EnvSpec, Spec

(* So a reset over the process runner reports what it leaves behind.       *)
THEOREM EnvResetIsHonest == EnvSpec => []ResetIsHonest
<1>1. LeftIsReported /\ OkMeansAbsent => ResetIsHonest
  BY DEF ResetIsHonest
<1>2. QED
  BY <1>1, LoopOverRunner, LeftReported, OkResetIsClean, PTL
-----------------------------------------------------------------------------
(* No set of guards lets a hook through to what one of them forbids.       *)
LEMMA NoHarm == Harm = {}
<1> SUFFICES ASSUME NEW guards \in SUBSET Guard, NEW f \in HostFacts, Passes(guards, f), NEW g \in guards
             PROVE  ~Forbids(g, f)
  BY DEF Harm
<1>1. ~Refuses(g, f) /\ g \in Guard
  BY DEF Passes
<1>2. (f.rereads => f.resolves) /\ (f.answers => f.findmnt)
  BY DEF HostFacts
<1>3. CASE g = "uuidResolves"
  BY <1>1, <1>2, <1>3 DEF Refuses, Forbids
<1>4. CASE g = "notLiveDevice"
  BY <1>1, <1>2, <1>4 DEF Refuses, Forbids
<1>5. CASE g = "notMounted"
  BY <1>1, <1>2, <1>5 DEF Refuses, Forbids
<1>6. QED
  BY <1>1, <1>3, <1>4, <1>5 DEF Guard

(* No hook runs on what a guard of its component protects, as long as      *)
(* findmnt answered when the run began or at the check (check_guards).     *)
THEOREM GuardsAreKept == EnvSpec => []GuardsHold
<1>1. Init => GuardsHold
  BY DEF Init, GuardsHold
<1>2. GuardsHold /\ [Next]_vars => GuardsHold'
  <2> SUFFICES ASSUME GuardsHold, [Next]_vars
               PROVE  ~struck'
    BY DEF GuardsHold
  <2>1. CASE PlanStep
    BY <2>1 DEF GuardsHold, PlanStep, Load, Choose, PlanForward, RefuseRemove, PlanRemove, Finish
  <2>2. ASSUME NEW c \in Component, Step(c)
        PROVE  ~struck'
    <3>1. CASE HookFails(c) \/ HookActs(c)
      <4>1. struck' = (struck \/ (plan.phase # "install" /\ Harm # {}))
        BY <3>1 DEF HookFails, HookActs
      <4>2. QED
        BY <4>1, NoHarm, Zenon DEF GuardsHold
    <3>2. CASE Block(c) \/ SkipStep(c) \/ RefuseStep(c) \/ DryStep(c)
      <4>1. struck' = struck
        BY <3>2 DEF Block, SkipStep, RefuseStep, DryStep
      <4>2. QED
        BY <4>1 DEF GuardsHold
    <3>3. QED
      BY <2>2, <3>1, <3>2 DEF Step
  <2>3. CASE UNCHANGED vars
    BY <2>3 DEF GuardsHold, vars
  <2>4. QED
    BY <2>1, <2>2, <2>3 DEF Next, Plans, Loop, PlanStep, Finished
<1>3. QED
  BY <1>1, <1>2, LoopOverRunner, PTL DEF Spec
-----------------------------------------------------------------------------
(* What the runner keeps true of a hook: a reader that has seen the end of *)
(* its pipe leaves no line in it and no process that could write one; a    *)
(* hook that lives has neither ended nor been given a verdict of its own;  *)
(* and a kill that signalled every process of the group has left none to   *)
(* start another.                                                          *)
HookInv ==
    /\ HookTypeOK
    /\ TimeoutReapsGroup
    /\ NothingLost
    /\ VerdictIsTrue
    /\ \A s \in ended : s \notin full /\ writers[s] = {}
    /\ runner = "joinErr" => "out" \in ended
    /\ runner \in {"poll", "expired", "kill", "reap"} => verdict = "none"
    /\ runner \in {"joinOut", "joinErr", "done"} => verdict # "none"
    /\ runner = "idle" => alive = {} /\ full = {} /\ ended = {}
    /\ runner = "idle" /\ verdict = "none" => exit = "none"
    /\ "hook" \in alive => exit = "none" /\ verdict \in {"none", "failed"}
    /\ runner \in {"kill", "reap"} /\ spared = {} => alive \cap Group = {}
    /\ runner \in {"poll", "expired"} => exit # "killed"

LEMMA HookStarts == HookAtRest => HookInv
  BY DEF HookAtRest, HookInv, HookTypeOK, TimeoutReapsGroup, NothingLost, VerdictIsTrue

(* What the processes do to the pipes and to one another.                  *)
LEMMA ProcessesKeep ==
    ASSUME HookInv,
           \/ \E p \in Process : Exit(p) \/ \E q \in Process : Fork(p, q)
           \/ \E p \in Process, s \in Pipe : Write(p, s) \/ CloseEnd(p, s)
           \/ \E s \in Pipe : ReadLine(s) \/ SeeEnd(s)
    PROVE  HookInv'
<1> USE DEF HookInv, HookTypeOK, TimeoutReapsGroup, NothingLost, VerdictIsTrue, Group, Process, Pipe
<1>1. CASE \E p \in Process : Exit(p)
  <2>1. PICK p \in Process : Exit(p)
    BY <1>1
  <2>2. /\ alive' = alive \ {p} /\ \A s \in Pipe : writers'[s] = writers[s] \ {p}
        /\ writers' \in [Pipe -> SUBSET alive'] /\ UNCHANGED <<runner, full, ended, verdict, spared>>
    BY <2>1 DEF Exit, Gone
  <2>3. CASE p = "hook"
    BY <2>1, <2>2, <2>3 DEF Exit
  <2>4. CASE p # "hook"
    BY <2>1, <2>2, <2>4 DEF Exit
  <2>5. QED
    BY <2>3, <2>4
<1>2. CASE \E p, q \in Process : Fork(p, q)
  <2>1. PICK p \in Process, q \in Process : Fork(p, q)
    BY <1>2
  <2>2. /\ alive' = alive \cup {q} /\ UNCHANGED <<runner, full, ended, exit, verdict, spared>>
        /\ p \in alive /\ q # "hook" /\ (q = "kid" => p \in Group)
        /\ writers' \in [Pipe -> SUBSET alive']
        /\ \A s \in Pipe : writers[s] = {} => writers'[s] = {}
    BY <2>1 DEF Fork
  <2>3. QED
    BY <2>2
<1>3. CASE \E p \in Process, s \in Pipe : Write(p, s)
  BY <1>3 DEF Write
<1>4. CASE \E p \in Process, s \in Pipe : CloseEnd(p, s)
  BY <1>4 DEF CloseEnd
<1>5. CASE \E s \in Pipe : ReadLine(s)
  BY <1>5 DEF ReadLine
<1>6. CASE \E s \in Pipe : SeeEnd(s)
  BY <1>6 DEF SeeEnd
<1>7. QED
  BY <1>1, <1>2, <1>3, <1>4, <1>5, <1>6

(* What the polling thread does.                                           *)
LEMMA RunnerKeeps ==
    ASSUME HookInv,
           \/ Spawn \/ SeeExit \/ Expire \/ WaitFails
           \/ KillGroup \/ KillChild \/ Reap \/ JoinOut \/ JoinErr
    PROVE  HookInv'
<1> USE DEF HookInv, HookTypeOK, TimeoutReapsGroup, NothingLost, VerdictIsTrue, Group, Process, Pipe
<1>1. CASE Spawn
  BY <1>1 DEF Spawn
<1>2. CASE SeeExit
  BY <1>2 DEF SeeExit
<1>3. CASE Expire
  BY <1>3 DEF Expire
<1>4. CASE WaitFails
  BY <1>4 DEF WaitFails
<1>5. CASE KillGroup
  <2>1. PICK set \in SUBSET (alive \cap Group) :
           Kill(set) /\ spared' = (alive \cap Group) \ set
    BY <1>5 DEF KillGroup
  <2>2. /\ alive' = alive \ set /\ \A s \in Pipe : writers'[s] = writers[s] \ set
        /\ writers' \in [Pipe -> SUBSET alive'] /\ UNCHANGED <<full, ended, verdict>>
        /\ runner = "expired" /\ runner' = "kill"
    BY <1>5, <2>1 DEF KillGroup, Kill, Gone
  <2>3. exit' = IF "hook" \in set THEN "killed" ELSE exit
    BY <2>1 DEF Kill
  <2>4. QED
    BY <2>1, <2>2, <2>3
<1>6. CASE KillChild
  <2>1. PICK set \in SUBSET (alive \cap {"hook"}) : Kill(set)
    BY <1>6 DEF KillChild
  <2>2. /\ alive' = alive \ set /\ \A s \in Pipe : writers'[s] = writers[s] \ set
        /\ writers' \in [Pipe -> SUBSET alive'] /\ UNCHANGED <<full, ended, verdict, spared>>
        /\ runner = "kill" /\ runner' = "reap"
    BY <1>6, <2>1 DEF KillChild, Kill, Gone
  <2>3. exit' = IF "hook" \in set THEN "killed" ELSE exit
    BY <2>1 DEF Kill
  <2>4. QED
    BY <2>1, <2>2, <2>3
<1>7. CASE Reap
  BY <1>7 DEF Reap
<1>8. CASE JoinOut
  BY <1>8 DEF JoinOut
<1>9. CASE JoinErr
  BY <1>9 DEF JoinErr
<1>10. QED
  BY <1>1, <1>2, <1>3, <1>4, <1>5, <1>6, <1>7, <1>8, <1>9

LEMMA HookKeeps == HookInv /\ [EnvNext]_envVars => HookInv'
<1> SUFFICES ASSUME HookInv, [EnvNext]_envVars
             PROVE  HookInv'
  OBVIOUS
<1> USE DEF HookInv, HookTypeOK, TimeoutReapsGroup, NothingLost, VerdictIsTrue
<1>1. CASE RunDetectHook
  BY <1>1, ProcessesKeep, RunnerKeeps DEF RunDetectHook, HookStep
<1>2. CASE TakeVerdict
  BY <1>2 DEF TakeVerdict
<1>3. CASE ChooseFor
  BY <1>3 DEF ChooseFor
<1>4. CASE UNCHANGED hookVars
  BY <1>4 DEF hookVars
<1>5. QED
  BY <1>1, <1>2, <1>3, <1>4 DEF EnvNext, Go, envVars

(* A timeout whose kill could signal every process of the hook's group     *)
(* leaves none behind; when run answers, nothing written to the pipes is   *)
(* unread; Ok is said of a hook that ended so, a timeout of one that is    *)
(* gone, and of every one that was killed (wait_timeout, kill_group).      *)
THEOREM HookIsAccounted == EnvSpec => []HookAccounted
<1>1. EnvInit => HookInv
  BY HookStarts DEF EnvInit
<1>2. HookInv => HookAccounted
  BY DEF HookInv, HookAccounted
<1>3. QED
  BY <1>1, <1>2, HookKeeps, PTL DEF EnvSpec
-----------------------------------------------------------------------------
(* The order of an install or a fix, one target after the other.           *)
TargetRun(v) ==
    /\ v \in [0 .. Len(plan.targets) -> Seq(Component)]
    /\ v[0] = <<>> /\ (plan.targets # <<>> => ForwardOrder = v[Len(plan.targets)])
    /\ \A k \in Nat : k < Len(plan.targets) =>
         v[k + 1] = v[k] \o Ordered(Closure(plan.targets[k + 1]) \ ToSet(v[k]))

LEMMA OrderedFits ==
    ASSUME Topological, NEW set
    PROVE  Ordered(set) \in Seq(Component) /\ ToSet(Ordered(set)) = Component \cap set /\ Unique(Ordered(set))
<1>1. order \in Seq(Component) /\ ToSet(order) = Component /\ Unique(order)
  BY DEF Topological
<1>2. QED
  BY <1>1, FilteredFacts DEF Ordered

LEMMA TargetRuns ==
    ASSUME Topological, plan.targets \in Seq(Component)
    PROVE  \E v : TargetRun(v)
<1> DEFINE X == Seq(Component)
           seq == plan.targets
           n == Len(seq)
           Turned(s, t) == s \o Ordered(Closure(t) \ ToSet(s))
           g == [i \in 1 .. n |-> [s \in X |-> Turned(s, seq[i])]]
           Value(f) == [T \in SUBSET (1 .. n) |->
                          IF T = {} THEN <<>> ELSE Turned(f[T \ {Max(T)}], seq[Max(T)])]
<1>0. \A s \in X : \A t : Turned(s, t) \in X
  BY OrderedFits
<1>1. g \in [1 .. n -> [X -> X]] /\ n \in Nat /\ <<>> \in X /\ DOMAIN seq = 1 .. n
  <2> HIDE DEF Turned
  <2>1. QED
    BY <1>0
<1>2. PICK f \in [SUBSET (1 .. n) -> X] : FoldTable(f, <<>>, n, g)
  <2> HIDE DEF X, n, g
  <2>1. QED
    BY <1>1, FoldExists
<1>3. f = Value(f)
  <2>1. ASSUME NEW T \in SUBSET (1 .. n), T # {}
        PROVE  g[Max(T)][f[T \ {Max(T)}]] = Turned(f[T \ {Max(T)}], seq[Max(T)])
    <3>1. Max(T) \in 1 .. n /\ T \ {Max(T)} \in SUBSET (1 .. n)
      BY <1>1, <2>1, MaxOfSome
    <3>2. f[T \ {Max(T)}] \in X
      BY <1>2, <3>1
    <3> HIDE DEF X, n, Turned
    <3>3. QED
      BY <3>1, <3>2
  <2> HIDE DEF X, n, g, Turned
  <2>2. QED
    BY <1>2, <2>1 DEF FoldTable
<1> DEFINE r == CHOOSE h : h = Value(h)
<1>4. seq # <<>> => ForwardOrder = r[1 .. n]
  BY <1>1 DEF ForwardOrder, FoldLeft, MapThenFoldSet
<1>5. r = Value(r)
  <2> HIDE DEF Value
  <2>1. QED
    BY <1>3
<1>6. r[{}] = <<>>
  <2>1. {} \in SUBSET (1 .. n)
    OBVIOUS
  <2> HIDE DEF r, n
  <2>2. QED
    BY <1>5, <2>1
<1>7. ASSUME NEW k \in Nat, k < n
      PROVE  r[1 .. k + 1] = Turned(r[1 .. k], seq[k + 1])
  <2> DEFINE T == 1 .. k + 1
  <2>1. T \in SUBSET (1 .. n) /\ T # {} /\ Max(T) = k + 1 /\ T \ {k + 1} = 1 .. k
    BY <1>1, <1>7, UpTo
  <2> HIDE DEF r, n, T
  <2>2. r[T] = Turned(r[T \ {Max(T)}], seq[Max(T)])
    BY <1>5, <2>1
  <2>3. QED
    BY <2>1, <2>2 DEF T
<1> HIDE DEF Value, r, Turned
<1> DEFINE P == {k \in Nat : k <= n => r[1 .. k] \in X}
<1>8. 0 \in P
  <2>1. 1 .. 0 = {}
    OBVIOUS
  <2>2. QED
    BY <1>1, <1>6, <2>1
<1>9. ASSUME NEW k \in P, k < n PROVE k + 1 \in P
  <2>1. k \in Nat /\ k + 1 \in Nat /\ k <= n
    BY <1>1, <1>9
  <2>2. r[1 .. k] \in X
    BY <2>1
  <2>3. QED
    BY <1>0, <1>7, <1>9, <2>1, <2>2
<1>10. \A k \in 0 .. n : r[1 .. k] \in X
  <2>1. P \in SUBSET Nat
    OBVIOUS
  <2>2. \A k \in 0 .. n : k \in P
    <3> HIDE DEF P, n
    <3>1. QED
      BY <1>1, <1>8, <1>9, <2>1, Climbed
  <2>3. QED
    BY <2>2
<1> DEFINE v == [k \in 0 .. n |-> r[1 .. k]]
<1>11. v \in [0 .. n -> X]
  BY <1>10
<1>12. v[0] = <<>> /\ v[n] = r[1 .. n]
  <2>1. 1 .. 0 = {} /\ 0 \in 0 .. n /\ n \in 0 .. n
    BY <1>1
  <2>2. QED
    BY <1>6, <2>1
<1>13. ASSUME NEW k \in Nat, k < n
       PROVE  v[k + 1] = Turned(v[k], seq[k + 1])
  <2>1. k \in 0 .. n /\ k + 1 \in 0 .. n
    BY <1>1, <1>13
  <2>2. v[k] = r[1 .. k] /\ v[k + 1] = r[1 .. k + 1]
    BY <2>1
  <2>3. QED
    BY <1>7, <1>13, <2>2
<1> HIDE DEF v
<1>14. QED
  BY <1>4, <1>11, <1>12, <1>13 DEF TargetRun, Turned

(* The order of an install or a fix comes to every component after all it  *)
(* needs, whichever targets were named in whatever order.                  *)
LEMMA ForwardIsFed ==
    ASSUME Topological, plan.targets \in Seq(Component)
    PROVE  ForwardOrder \in Seq(Component) /\ Fed(ForwardOrder, {}, Prereqs)
<1>0. /\ Prereqs \in [Component -> SUBSET Component] /\ order \in Seq(Component)
      /\ Fed(order, {}, Prereqs) /\ ToSet(order) = Component
  BY PrereqsAre, PrereqsFed DEF Topological
<1>1. CASE plan.targets = <<>>
  <2>1. \A c \in ToSet(order) \cap Component : Prereqs[c] \subseteq Component \cup {}
    BY <1>0
  <2>2. Fed(Ordered(Component), {}, Prereqs)
    BY <1>0, <2>1, FilteredFed DEF Ordered
  <2>3. QED
    BY <1>1, <2>2, OrderedFits DEF ForwardOrder
<1>2. CASE plan.targets # <<>>
  <2> DEFINE n == Len(plan.targets)
             t(k) == plan.targets[k + 1]
             more(k, s) == Ordered(Closure(t(k)) \ ToSet(s))
  <2>0. PICK v : TargetRun(v)
    BY TargetRuns
  <2>1. /\ v \in [0 .. n -> Seq(Component)] /\ v[0] = <<>> /\ ForwardOrder = v[n]
        /\ \A k \in Nat : k < n => v[k + 1] = v[k] \o more(k, v[k])
    BY <1>2, <2>0 DEF TargetRun
  <2>2. n \in Nat /\ \A k \in Nat : k < n => t(k) \in Component
    <3>1. n \in Nat /\ \A i \in 1 .. n : plan.targets[i] \in Component
      BY In
    <3>2. \A k \in Nat : k < n => k + 1 \in 1 .. n
      BY <3>1
    <3>3. QED
      BY <3>1, <3>2
  <2> HIDE DEF n, t
  <2> DEFINE P == {k \in Nat : k <= n => Fed(v[k], {}, Prereqs)}
  <2>3. 0 \in P
    <3>1. 1 .. 0 = {}
      OBVIOUS
    <3>2. Fed(<<>>, {}, Prereqs)
      BY <3>1, Empty DEF Fed
    <3>3. QED
      BY <2>1, <3>2
  <2>4. ASSUME NEW k \in P, k < n PROVE k + 1 \in P
    <3> DEFINE s == v[k]
               set == Closure(t(k)) \ ToSet(s)
    <3>1. k \in Nat /\ k + 1 \in Nat /\ k \in 0 .. n /\ k <= n
      BY <2>2, <2>4
    <3>2. s \in Seq(Component) /\ Fed(s, {}, Prereqs) /\ v[k + 1] = s \o Ordered(set)
      BY <2>1, <2>4, <3>1
    <3>3. t(k) \in Component
      BY <2>2, <2>4, <3>1
    <3>4. \A c \in ToSet(order) \cap set : Prereqs[c] \subseteq set \cup ToSet(s)
      <4>1. \A c \in Closure(t(k)) : Prereqs[c] \subseteq Closure(t(k))
        BY <1>0, <3>3, PrereqsChain DEF Closure
      <4>2. QED
        BY <4>1
    <3> HIDE DEF s, set
    <3>5. Fed(Ordered(set), {} \cup ToSet(s), Prereqs)
      BY <1>0, <3>4, FilteredFed DEF Ordered
    <3>6. Ordered(set) \in Seq(Component)
      BY OrderedFits
    <3>7. Fed(s \o Ordered(set), {}, Prereqs)
      BY <3>2, <3>5, <3>6, JoinedFed
    <3>8. QED
      BY <3>1, <3>2, <3>7
  <2>5. n \in P
    <3>1. P \in SUBSET Nat /\ n \in 0 .. n
      BY <2>2
    <3> HIDE DEF P
    <3>2. QED
      BY <2>2, <2>3, <2>4, <3>1, Climbed
  <2>6. n <= n /\ n \in 0 .. n
    BY <2>2
  <2>7. QED
    BY <2>1, <2>5, <2>6
<1>3. QED
  BY <1>1, <1>2
-----------------------------------------------------------------------------
LEMMA Reversed ==
    ASSUME NEW D, NEW s \in Seq(D)
    PROVE  /\ Reverse(s) \in Seq(D) /\ Len(Reverse(s)) = Len(s) /\ ToSet(Reverse(s)) = ToSet(s)
           /\ \A i \in 1 .. Len(s) : /\ Reverse(s)[i] = s[(Len(s) - i) + 1]
                                   /\ s[i] = Reverse(s)[(Len(s) - i) + 1]
                                   /\ (Len(s) - i) + 1 \in 1 .. Len(s)
<1> DEFINE n == Len(s)
           t == Reverse(s)
<1>1. n \in Nat /\ ToSet(s) = {s[i] : i \in 1 .. n} /\ \A i \in 1 .. n : s[i] \in D
  BY In
<1>2. \A i \in 1 .. n : (n - i) + 1 \in 1 .. n /\ (n - ((n - i) + 1)) + 1 = i
  BY <1>1
<1>3. t = [i \in 1 .. n |-> s[(n - i) + 1]]
  BY DEF Reverse
<1> HIDE DEF n, t
<1>4. t \in [1 .. n -> D]
  BY <1>1, <1>2, <1>3
<1>5. t \in Seq(D) /\ Len(t) = n
  BY <1>1, <1>4
<1>6. ToSet(t) = {t[i] : i \in 1 .. n}
  BY <1>5, In
<1>7. \A i \in 1 .. n : t[i] = s[(n - i) + 1]
  BY <1>3
<1>8. \A i \in 1 .. n : s[i] = t[(n - i) + 1]
  BY <1>2, <1>7
<1>9. ToSet(t) = ToSet(s)
  <2>1. \A i \in 1 .. n : t[i] \in ToSet(s)
    BY <1>1, <1>2, <1>7
  <2>2. \A i \in 1 .. n : s[i] \in ToSet(t)
    BY <1>2, <1>6, <1>8
  <2>3. ToSet(t) \subseteq ToSet(s)
    BY <1>6, <2>1
  <2>4. ToSet(s) \subseteq ToSet(t)
    BY <1>1, <2>2
  <2>5. QED
    BY <2>3, <2>4
<1>10. QED
  BY <1>2, <1>5, <1>7, <1>8, <1>9 DEF n, t

(* Turned round, a sequence that feeds everything feeds who is fed by it:  *)
(* each comes before all it needs.                                         *)
LEMMA ReversedFed ==
    ASSUME NEW D, NEW s \in Seq(D), Unique(s), NEW needs, NEW serves, Fed(s, {}, needs),
           \A c \in ToSet(s) : \A r \in serves[c] : r \in ToSet(s) /\ c \in needs[r]
    PROVE  /\ Reverse(s) \in Seq(D) /\ ToSet(Reverse(s)) = ToSet(s)
           /\ Fed(Reverse(s), {}, serves)
<1> DEFINE n == Len(s)
           t == Reverse(s)
<1>1. /\ n \in Nat /\ ToSet(s) = {s[i] : i \in 1 .. n} /\ \A i \in 1 .. n : s[i] \in D
      /\ \A i, j \in 1 .. n : s[i] = s[j] => i = j
      /\ \A i \in 1 .. n : needs[s[i]] \subseteq {s[j] : j \in 1 .. i - 1}
  BY In DEF Unique, Fed
<1>2. /\ t \in Seq(D) /\ Len(t) = n /\ ToSet(t) = ToSet(s)
      /\ \A i \in 1 .. n : t[i] = s[(n - i) + 1] /\ s[i] = t[(n - i) + 1] /\ (n - i) + 1 \in 1 .. n
  BY Reversed
<1> HIDE DEF n, t
<1>3. ToSet(t) = {t[i] : i \in 1 .. n}
  BY <1>2, In
<1>4. ASSUME NEW i \in 1 .. n, NEW r \in serves[t[i]]
       PROVE  r \in {t[j] : j \in 1 .. i - 1}
  <2> DEFINE c == t[i]
  <2>1. c \in ToSet(s)
    BY <1>2, <1>3
  <2>2. r \in ToSet(s) /\ c \in needs[r]
    BY <2>1
  <2>3. PICK k \in 1 .. n : r = s[k]
    BY <1>1, <2>2
  <2>4. PICK j \in 1 .. k - 1 : c = s[j]
    BY <1>1, <2>2, <2>3
  <2>5. j \in 1 .. n /\ (n - i) + 1 \in 1 .. n /\ s[j] = s[(n - i) + 1]
    BY <1>1, <1>2, <2>3, <2>4
  <2>6. j = (n - i) + 1
    BY <1>1, <2>5
  <2>7. (n - k) + 1 \in 1 .. i - 1 /\ t[(n - k) + 1] = r
    BY <1>1, <1>2, <2>3, <2>4, <2>6
  <2>8. QED
    BY <2>7
<1>5. Fed(t, {}, serves)
  BY <1>2, <1>4 DEF Fed
<1>6. QED
  BY <1>2, <1>5 DEF t

(* The components that were live when the run began and need each.         *)
Dependents == [c \in Component |-> {r \in liveBefore : c \in Prereqs[r]}]

(* A removal takes with each component all that is live and needs it.      *)
LEMMA RemovalIsClosed ==
    ASSUME Topological, Targets \subseteq Component, liveBefore = Live, NEW c \in RemovalSet
    PROVE  Dependents[c] \subseteq RemovalSet
<1>0. /\ Prereqs \in [Component -> SUBSET Component] /\ Live \subseteq Component
      /\ RemovalSet \subseteq Component
  BY PrereqsAre DEF Live, RemovalSet, Folded, Protectors, ReverseDependents
<1> SUFFICES ASSUME NEW r \in Live, c \in Prereqs[r], Targets # {}
             PROVE  r \in RemovalSet
  BY <1>0 DEF Dependents, RemovalSet
<1>1. \A t \in Component : t \in Prereqs[r] => r \in Targets \/ r \in Protectors(t)
  BY <1>0 DEF Protectors, ReverseDependents
<1>2. CASE Has("cascade")
  <2>1. RemovalSet = Targets \cup UNION {Protectors(t) : t \in Targets}
    BY <1>2 DEF RemovalSet, Protected, Folded
  <2>2. CASE c \in Targets
    BY <1>1, <2>1, <2>2
  <2>3. CASE \E t \in Targets : c \in Protectors(t)
    <3>1. PICK t \in Targets : c \in Protectors(t)
      BY <2>3
    <3>2. t \in Prereqs[c] /\ c \in Component
      BY <3>1 DEF Protectors, ReverseDependents
    <3>3. t \in Prereqs[r]
      BY <1>0, <3>2, PrereqsChain
    <3>4. QED
      BY <1>1, <2>1, <3>3
  <2>4. QED
    BY <2>1, <2>2, <2>3
<1>3. CASE ~Has("cascade")
  <2>1. RemovalSet = {t \in Targets : Protectors(t) = {}}
    BY <1>3 DEF RemovalSet, Protected, Folded
  <2>2. c \in Targets /\ Protectors(c) = {}
    BY <2>1
  <2>3. r \in Targets
    BY <1>1, <2>2
  <2>4. ASSUME NEW p \in Protectors(r) PROVE FALSE
    <3>1. p \in Component /\ p \in Live \ Targets /\ r \in Prereqs[p]
      BY <2>4 DEF Protectors, ReverseDependents
    <3>2. c \in Prereqs[p]
      BY <1>0, <3>1, PrereqsChain
    <3>3. p \in Protectors(c)
      BY <3>1, <3>2 DEF Protectors, ReverseDependents
    <3>4. QED
      BY <2>2, <3>3
  <2>5. QED
    BY <2>1, <2>3, <2>4
<1>4. QED
  BY <1>2, <1>3

(* The order of a removal comes to every component after all that is live  *)
(* and needs it.                                                           *)
LEMMA RemovalIsFed ==
    ASSUME Topological, Targets \subseteq Component, liveBefore = Live
    PROVE  /\ Reverse(Ordered(RemovalSet)) \in Seq(Component)
           /\ ToSet(Reverse(Ordered(RemovalSet))) = RemovalSet
           /\ Fed(Reverse(Ordered(RemovalSet)), {}, Dependents)
<1> DEFINE set == RemovalSet
           s == Ordered(set)
           needs == [c \in Component |-> Prereqs[c] \cap set]
<1>1. set \subseteq Component
  BY DEF RemovalSet, Folded, Protectors, ReverseDependents
<1>2. /\ Fed(order, {}, Prereqs) /\ order \in Seq(Component) /\ ToSet(order) = Component
      /\ Prereqs \in [Component -> SUBSET Component]
  BY PrereqsFed, PrereqsAre DEF Topological
<1>3. \A c \in set : Dependents[c] \subseteq set
  BY RemovalIsClosed
<1> HIDE DEF set
<1>4. Fed(order, {}, needs)
  <2>1. \A i \in 1 .. Len(order) : order[i] \in Component
    BY <1>2, In
  <2>2. \A i \in 1 .. Len(order) : needs[order[i]] \subseteq Prereqs[order[i]]
    BY <2>1
  <2> HIDE DEF needs
  <2>3. QED
    BY <1>2, <2>2 DEF Fed
<1>5. \A c \in ToSet(order) \cap set : needs[c] \subseteq set \cup {}
  BY <1>2
<1>6. s \in Seq(Component) /\ ToSet(s) = set /\ Unique(s)
  BY <1>1, OrderedFits
<1>7. Fed(s, {}, needs)
  <2> HIDE DEF needs
  <2>1. QED
    BY <1>2, <1>4, <1>5, FilteredFed DEF Ordered
<1>8. \A c \in set : \A r \in Dependents[c] : r \in set /\ c \in needs[r]
  <2> SUFFICES ASSUME NEW c \in set, NEW r \in Dependents[c]
               PROVE  r \in set /\ c \in needs[r]
    OBVIOUS
  <2>1. r \in set /\ r \in Component
    BY <1>1, <1>3
  <2>2. c \in Prereqs[r]
    BY <1>1 DEF Dependents
  <2>3. QED
    BY <2>1, <2>2
<1> HIDE DEF s, needs
<1>9. Reverse(s) \in Seq(Component) /\ ToSet(Reverse(s)) = ToSet(s) /\ Fed(Reverse(s), {}, Dependents)
  BY <1>6, <1>7, <1>8, ReversedFed
<1>10. QED
  BY <1>6, <1>9 DEF s, set
-----------------------------------------------------------------------------
LEMMA SeqsFit ==
    ASSUME NEW S \in SUBSET Component
    PROVE  SetToSeqs(S) \subseteq Seq(Component)
<1>1. IsFiniteSet(S)
  <2>1. IsFiniteSet(1 .. N)
    BY NAssumption, FS_Interval
  <2>2. QED
    BY <2>1, FS_Subset DEF Component
<1>2. Cardinality(S) \in Nat
  BY <1>1, FS_CardinalityType
<1>3. \A f \in [1 .. Cardinality(S) -> S] : f \in Seq(Component)
  BY <1>2
<1>4. QED
  BY <1>3 DEF SetToSeqs

(* What is decided of the registry is decided for good.                    *)
LEMMA RegistryStays ==
    ASSUME UNCHANGED registry
    PROVE  /\ Topological' = Topological /\ Declared' = Declared /\ Circular' = Circular
           /\ Prereqs' = Prereqs
<1>1. requires' = requires /\ order' = order
  BY DEF registry
<1>2. QED
  BY <1>1 DEF Topological, Requires, Declared, Circular, Prereqs

(* Before the loop runs there is nothing in it, and the registry has been  *)
(* ordered as soon as it is loaded.                                        *)
Unstarted == stage \notin {"run", "done"} => rest = <<>> /\ handled = {} /\ refused = {}
OrderKnown ==
    /\ stage = "rejected" => ~Declared \/ Circular
    /\ stage \notin {"load", "rejected"} => Topological
RunTypes == TypeOK /\ Unstarted /\ OrderKnown

LEMMA InitTyped == Init => RunTypes
<1> SUFFICES ASSUME Init PROVE RunTypes
  OBVIOUS
<1>1. TypeOK
  <2>1. <<>> \in Seq(Component)
    OBVIOUS
  <2>2. plan \in [phase : Phase, targets : Seq(Component), dry : BOOLEAN, gates : SUBSET Gate]
    BY <2>1 DEF Init, Phase
  <2>3. QED
    BY <2>1, <2>2 DEF Init, TypeOK, Detect
<1>2. QED
  BY <1>1 DEF Init, RunTypes, Unstarted, OrderKnown

(* A plan is made of a registry that has been ordered.                     *)
LEMMA ChooseTyped ==
    ASSUME RunTypes, Choose
    PROVE  RunTypes'
<1>1. /\ stage = "loaded" /\ stage' = "plan" /\ UNCHANGED <<registry, rest, handled, rosters, acted, struck>>
      /\ detect' \in [Component -> Detect]
      /\ liveBefore' = IF plan'.phase = "remove" THEN {c \in Component : detect'[c] = "present"} ELSE {}
  BY DEF Choose
<1>2. TypeOK /\ Unstarted /\ OrderKnown /\ Topological
  BY <1>1 DEF RunTypes, OrderKnown
<1>3. plan' \in [phase : Phase, targets : Seq(Component), dry : BOOLEAN, gates : SUBSET Gate]
  <2>1. PICK phase \in Phase, chosen \in SUBSET Component, dry \in BOOLEAN :
          \E targets \in IF phase = "remove" THEN {Ordered(chosen)} ELSE SetToSeqs(chosen),
             gates \in SUBSET (CASE phase = "install" -> {}
                                 [] phase = "fix"     -> {"confirm"}
                                 [] phase = "remove"  ->
                                      IF chosen = {} THEN {"all", "confirm"} ELSE {"cascade", "confirm"}) :
              plan' = [phase |-> phase, targets |-> targets, dry |-> dry, gates |-> gates]
    BY DEF Choose
  <2> DEFINE Gates == CASE phase = "install" -> {}
                        [] phase = "fix"     -> {"confirm"}
                        [] phase = "remove"  -> IF chosen = {} THEN {"all", "confirm"} ELSE {"cascade", "confirm"}
  <2>2. Gates \subseteq Gate
    <3>1. CASE phase = "install"
      BY <3>1
    <3>2. CASE phase = "fix"
      BY <3>2 DEF Gate
    <3>3. CASE phase = "remove"
      BY <3>3 DEF Gate
    <3>4. QED
      BY <3>1, <3>2, <3>3 DEF Phase
  <2>3. PICK targets \in IF phase = "remove" THEN {Ordered(chosen)} ELSE SetToSeqs(chosen),
             gates \in SUBSET Gates :
              plan' = [phase |-> phase, targets |-> targets, dry |-> dry, gates |-> gates]
    BY <2>1
  <2>4. targets \in Seq(Component)
    BY <1>2, <2>3, OrderedFits, SeqsFit
  <2> HIDE DEF Gates
  <2>5. gates \in SUBSET Gate
    BY <2>2, <2>3
  <2>6. QED
    BY <2>1, <2>3, <2>4, <2>5
<1>4. TypeOK'
  <2>1. /\ requires' = requires /\ order' = order /\ rest' = rest /\ handled' = {} /\ acted' = {}
        /\ failed' = {} /\ blocked' = {} /\ incomplete' = {} /\ refused' = {}
    BY <1>1, <1>2 DEF registry, rosters, Unstarted, TypeOK
  <2>2. liveBefore' \subseteq Component
    BY <1>1
  <2>3. QED
    BY <1>1, <1>2, <1>3, <2>1, <2>2 DEF TypeOK
<1>5. Unstarted'
  BY <1>1, <1>2 DEF Unstarted, rosters
<1>6. OrderKnown'
  BY <1>1, <1>2, RegistryStays DEF OrderKnown
<1>7. QED
  BY <1>4, <1>5, <1>6 DEF RunTypes

LEMMA LoadTyped ==
    ASSUME RunTypes, Load
    PROVE  RunTypes'
<1>1. /\ stage = "load" /\ stage' = IF Accepted THEN "loaded" ELSE "rejected"
      /\ order' = IF Accepted THEN Sorted ELSE <<>>
      /\ requires' = requires
      /\ UNCHANGED <<requires, plan, detect, rest, handled, rosters, acted, liveBefore, struck>>
  BY DEF Load
<1>2. TypeOK /\ Unstarted /\ Requires
  BY DEF RunTypes, TypeOK, Requires
<1>3. Sorted \in Seq(Component) /\ <<>> \in Seq(Component)
  BY <1>2, SortedFacts
<1>4. TypeOK' /\ Unstarted'
  BY <1>1, <1>2, <1>3 DEF TypeOK, Unstarted, rosters, Targets
<1>5. CASE Accepted
  BY <1>1, <1>2, <1>4, <1>5, SortedIsTopological DEF RunTypes, OrderKnown
<1>6. CASE ~Accepted
  <2>1. ~Declared \/ Circular
    BY <1>2, <1>6, RejectedIsCircular
  <2>2. Declared' = Declared /\ Circular' = Circular
    BY <1>1 DEF Declared, Circular
  <2>3. QED
    BY <1>1, <1>4, <1>6, <2>1, <2>2 DEF RunTypes, OrderKnown
<1>7. QED
  BY <1>5, <1>6

(* Making the order of the run, or refusing it whole, and ending it.       *)
LEMMA PlansTyped ==
    ASSUME RunTypes, PlanForward \/ RefuseRemove \/ PlanRemove \/ Finish
    PROVE  RunTypes'
<1>1. TypeOK /\ Unstarted /\ OrderKnown /\ UNCHANGED <<registry, plan>> /\ stage \notin {"load", "rejected"}
  BY DEF RunTypes, PlanForward, RefuseRemove, PlanRemove, Finish
<1>2. Topological /\ plan.targets \in Seq(Component) /\ Targets \subseteq Component
  <2>1. plan.targets \in Seq(Component)
    BY <1>1 DEF TypeOK
  <2>2. QED
    BY <1>1, <2>1, In DEF OrderKnown, Targets
<1>3. /\ UNCHANGED <<detect, handled, failed, blocked, incomplete, acted, liveBefore>>
      /\ stage' \in {"run", "done"} /\ requires' = requires /\ order' = order /\ Targets' = Targets
  BY <1>1 DEF PlanForward, RefuseRemove, PlanRemove, Finish, rosters, registry, Targets
<1>4. rest' \in Seq(Component) /\ refused' \subseteq handled \cup Targets \cup {0}
  <2>1. CASE PlanForward
    <3>1. rest' = ForwardOrder /\ refused' = refused
      BY <2>1 DEF PlanForward, rosters
    <3>2. QED
      BY <1>1, <1>2, <3>1, ForwardIsFed DEF TypeOK
  <2>2. CASE PlanRemove
    <3>1. rest' = Reverse(Ordered(RemovalSet)) /\ refused' = Protected
      BY <2>2 DEF PlanRemove
    <3>2. Reverse(Ordered(RemovalSet)) \in Seq(Component)
      <4>1. Ordered(RemovalSet) \in Seq(Component)
        BY <1>2, OrderedFits
      <4>2. QED
        BY <4>1, Reversed
    <3>3. QED
      BY <3>1, <3>2 DEF Protected
  <2>3. CASE RefuseRemove
    BY <1>1, <2>3 DEF RefuseRemove, TypeOK
  <2>4. CASE Finish
    BY <1>1, <2>4 DEF Finish, TypeOK, rosters
  <2>5. QED
    BY <2>1, <2>2, <2>3, <2>4
<1>5. TypeOK'
  BY <1>1, <1>3, <1>4 DEF TypeOK
<1>6. Unstarted'
  BY <1>3 DEF Unstarted
<1>7. OrderKnown'
  BY <1>1, <1>2, <1>3, RegistryStays DEF OrderKnown
<1>8. QED
  BY <1>5, <1>6, <1>7 DEF RunTypes

(* The loop puts on a roster only what it takes.                           *)
LEMMA StepGives ==
    ASSUME NEW c \in Component, Step(c)
    PROVE  /\ Take(c)
           /\ failed' \subseteq failed \cup {c} /\ refused' \subseteq refused \cup {c}
           /\ blocked' \subseteq blocked \cup {c} /\ incomplete' \subseteq incomplete \cup {c}
           /\ acted' \subseteq acted \cup {c} /\ (plan.dry => acted' = acted)
           /\ detect' = detect \/ \E d \in Outcome(c) : detect' = [detect EXCEPT ![c] = d]
<1>1. CASE Block(c) \/ SkipStep(c) \/ RefuseStep(c) \/ DryStep(c)
  BY <1>1 DEF Block, SkipStep, RefuseStep, DryStep, rosters
<1>2. CASE HookFails(c)
  BY <1>2 DEF HookFails
<1>3. CASE HookActs(c)
  BY <1>3 DEF HookActs
<1>4. QED
  BY <1>1, <1>2, <1>3 DEF Step

LEMMA StepTyped ==
    ASSUME RunTypes, NEW c \in Component, Step(c)
    PROVE  RunTypes'
<1>1. /\ stage = "run" /\ rest # <<>> /\ c = Head(rest) /\ rest' = Tail(rest)
      /\ handled' = handled \cup {c} /\ UNCHANGED <<registry, plan, stage, liveBefore>>
  BY StepGives DEF Take
<1>2. TypeOK /\ OrderKnown /\ rest \in Seq(Component)
  BY DEF RunTypes, TypeOK
<1>3. rest' \in Seq(Component)
  BY <1>1, <1>2, Tailed
<1>4. detect' \in [Component -> Detect]
  <2>1. \A d \in Outcome(c) : d \in Detect
    BY DEF Outcome, Detect
  <2>2. QED
    BY <1>2, <2>1, StepGives DEF TypeOK
<1>5. /\ failed' \cup blocked' \cup incomplete' \cup acted' \subseteq handled'
      /\ refused' \subseteq handled' \cup Targets \cup {0}
  BY <1>1, <1>2, StepGives DEF TypeOK
<1>6. TypeOK'
  BY <1>1, <1>2, <1>3, <1>4, <1>5 DEF TypeOK, registry, Targets
<1>7. Unstarted' /\ OrderKnown'
  BY <1>1, <1>2, RegistryStays DEF Unstarted, OrderKnown
<1>8. QED
  BY <1>6, <1>7 DEF RunTypes

LEMMA NextTyped == RunTypes /\ [Next]_vars => RunTypes'
<1> SUFFICES ASSUME RunTypes, [Next]_vars
             PROVE  RunTypes'
  OBVIOUS
<1>1. CASE UNCHANGED vars
  <2>1. UNCHANGED <<requires, order, plan, detect, stage, rest, handled, failed, refused, blocked,
                    incomplete, acted, liveBefore>>
    BY <1>1 DEF vars, registry
  <2>2. TypeOK'
    BY <2>1 DEF RunTypes, TypeOK, Targets
  <2>3. Unstarted' /\ OrderKnown'
    BY <2>1, RegistryStays DEF RunTypes, Unstarted, OrderKnown, registry
  <2>4. QED
    BY <2>2, <2>3 DEF RunTypes
<1>2. CASE \E c \in Component : Step(c)
  BY <1>2, StepTyped
<1>3. QED
  BY <1>1, <1>2, LoadTyped, ChooseTyped, PlansTyped DEF Next, Plans, Loop, Finished

(* Every variable of the loop has its type, and what it does not take is   *)
(* on none of its rosters (run).                                           *)
THEOREM LoopTypes == Spec => []TypeOK
<1>1. RunTypes => TypeOK
  BY DEF RunTypes
<1>2. QED
  BY <1>1, InitTyped, NextTyped, PTL DEF Spec

(* The load order has every component once, after all that it requires,    *)
(* and a registry is rejected for an edge that leads nowhere or for a ring *)
(* only (Registry::load, topo_sort).                                       *)
THEOREM OrderIsSound == Spec => []OrderIsTopological
<1>1. RunTypes => OrderIsTopological
  <2> SUFFICES ASSUME RunTypes PROVE OrderIsTopological
    OBVIOUS
  <2>1. stage = "rejected" => ~Declared \/ Circular
    BY DEF RunTypes, OrderKnown
  <2>2. ASSUME Topological
        PROVE  /\ Declared /\ ~Circular
               /\ Len(order) = N /\ ToSet(order) = Component
               /\ \A i, j \in Component : order[j] \in requires[order[i]] => j < i
    BY <2>2, NoRing, EarlierIsSmaller DEF Topological
  <2>3. QED
    BY <2>1, <2>2 DEF RunTypes, OrderKnown, OrderIsTopological
<1>2. QED
  BY <1>1, InitTyped, NextTyped, PTL DEF Spec
-----------------------------------------------------------------------------
(* What is left of the order is fed by what the loop is done with: in an   *)
(* install or a fix with what each component needs, in a removal with what *)
(* was live and needs it.                                                  *)
RestIsFed ==
    /\ stage = "plan" /\ plan.phase = "remove" => liveBefore = Live
    /\ Forward => Fed(rest, handled, Prereqs)
    /\ plan.phase = "remove" => Fed(rest, handled, Dependents)

LEMMA NothingIsFed == \A set, needs : Fed(<<>>, set, needs)
  BY Empty DEF Fed

LEMMA InitFed == Init => RestIsFed
<1> SUFFICES ASSUME Init PROVE RestIsFed
  OBVIOUS
<1>1. stage = "load" /\ rest = <<>>
  BY DEF Init
<1> HIDE DEF Init
<1>2. QED
  BY <1>1, NothingIsFed DEF RestIsFed

(* A step that leaves the registry, the plan, the loop and what was live.  *)
LEMMA StillFed ==
    ASSUME RestIsFed, UNCHANGED <<requires, order, plan, rest, handled, liveBefore>>,
           stage' = "plan" => stage = "plan" /\ detect' = detect
    PROVE  RestIsFed'
<1>1. Prereqs' = Prereqs
  BY DEF Prereqs
<1>2. Dependents' = Dependents
  BY <1>1 DEF Dependents
<1>3. Forward' = Forward
  BY DEF Forward
<1>4. stage' = "plan" => Live' = Live
  BY DEF Live
<1>5. QED
  BY <1>1, <1>2, <1>3, <1>4 DEF RestIsFed

LEMMA PlanFed ==
    ASSUME RunTypes, RestIsFed, PlanStep
    PROVE  RestIsFed'
<1>1. TypeOK /\ Unstarted /\ OrderKnown
  BY DEF RunTypes
<1>2. ASSUME rest' = <<>>, stage' = "plan" => ((plan.phase = "remove")' => (liveBefore = Live)')
      PROVE  RestIsFed'
  BY <1>2, NothingIsFed DEF RestIsFed
<1>3. CASE Load
  <2>1. rest' = <<>> /\ stage' # "plan"
    BY <1>1, <1>3 DEF Load, Unstarted
  <2>2. QED
    BY <1>2, <2>1
<1>4. CASE Choose
  <2>1. rest' = <<>>
    BY <1>1, <1>4 DEF Choose, Unstarted
  <2>2. plan'.phase = "remove" => liveBefore' = {c \in Component : detect'[c] = "present"}
    BY <1>4 DEF Choose
  <2>3. (plan.phase = "remove")' => (liveBefore = Live)'
    BY <2>2 DEF Live
  <2>4. QED
    BY <1>2, <2>1, <2>3
<1>5. CASE RefuseRemove
  <2>1. rest' = <<>> /\ stage' # "plan"
    BY <1>1, <1>5 DEF RefuseRemove, Unstarted
  <2>2. QED
    BY <1>2, <2>1
<1>6. CASE Finish
  BY <1>6, StillFed DEF Finish, registry
<1>a. ASSUME PlanForward \/ PlanRemove
      PROVE  /\ stage = "plan" /\ stage' = "run" /\ handled = {} /\ handled' = {}
             /\ requires' = requires /\ order' = order /\ plan' = plan /\ liveBefore' = liveBefore
             /\ Prereqs' = Prereqs /\ Topological
             /\ plan.targets \in Seq(Component) /\ Targets \subseteq Component
  <2>1. /\ stage = "plan" /\ stage' = "run" /\ UNCHANGED <<registry, plan, handled, liveBefore>>
    BY <1>a DEF PlanForward, PlanRemove
  <2>2. plan.targets \in Seq(Component)
    BY <1>1 DEF TypeOK
  <2>3. Targets \subseteq Component
    BY <2>2, In DEF Targets
  <2>4. Prereqs' = Prereqs
    BY <2>1, RegistryStays
  <2>5. Topological
    BY <1>1, <2>1 DEF OrderKnown
  <2>6. QED
    BY <1>1, <2>1, <2>2, <2>3, <2>4, <2>5 DEF Unstarted, registry
<1>7. CASE PlanForward
  <2>1. Forward /\ rest' = ForwardOrder /\ Fed(ForwardOrder, {}, Prereqs)
    BY <1>7, <1>a, ForwardIsFed DEF PlanForward
  <2>2. plan'.phase # "remove"
    BY <1>7, <1>a, <2>1 DEF Forward
  <2>3. QED
    BY <1>7, <1>a, <2>1, <2>2 DEF RestIsFed
<1>8. CASE PlanRemove
  <2>1. plan.phase = "remove" /\ rest' = Reverse(Ordered(RemovalSet)) /\ liveBefore = Live
    BY <1>8, <1>a DEF PlanRemove, RestIsFed
  <2>2. Fed(Reverse(Ordered(RemovalSet)), {}, Dependents)
    BY <1>8, <1>a, <2>1, RemovalIsFed
  <2>3. Dependents' = Dependents
    BY <1>8, <1>a DEF Dependents
  <2>4. ~Forward'
    BY <1>8, <1>a, <2>1 DEF Forward
  <2>5. QED
    BY <1>8, <1>a, <2>1, <2>2, <2>3, <2>4 DEF RestIsFed
<1>9. QED
  BY <1>3, <1>4, <1>5, <1>6, <1>7, <1>8 DEF PlanStep

(* The component that is taken has been fed, and so is what is left after  *)
(* it.                                                                     *)
LEMMA TakeFed ==
    ASSUME RunTypes, RestIsFed, NEW c \in Component, Take(c)
    PROVE  /\ RestIsFed'
           /\ Forward => Prereqs[c] \subseteq handled
           /\ plan.phase = "remove" => Dependents[c] \subseteq handled
<1>1. /\ rest # <<>> /\ c = Head(rest) /\ rest' = Tail(rest) /\ stage = "run" /\ stage' = "run"
      /\ handled' = handled \cup {c} /\ requires' = requires /\ order' = order
      /\ plan' = plan /\ liveBefore' = liveBefore
  BY DEF Take, registry
<1>2. rest \in Seq(Component)
  BY DEF RunTypes, TypeOK
<1>3. \A needs : Fed(rest, handled, needs)
                   => needs[c] \subseteq handled /\ Fed(rest', handled', needs)
  BY <1>1, <1>2, TailedFed
<1>4. Prereqs' = Prereqs
  BY <1>1 DEF Prereqs
<1>5. Dependents' = Dependents
  BY <1>1, <1>4 DEF Dependents
<1>6. Forward' = Forward
  BY <1>1 DEF Forward
<1>7. QED
  BY <1>1, <1>3, <1>4, <1>5, <1>6 DEF RestIsFed

RunFed == RunTypes /\ RestIsFed

LEMMA NextFed == RunFed /\ [Next]_vars => RunFed'
<1> SUFFICES ASSUME RunTypes, RestIsFed, [Next]_vars
             PROVE  RestIsFed'
  BY NextTyped DEF RunFed
<1>1. CASE UNCHANGED vars
  BY <1>1, StillFed DEF vars, registry
<1>2. CASE \E c \in Component : Step(c)
  BY <1>2, StepGives, TakeFed
<1>3. CASE PlanStep
  BY <1>3, PlanFed
<1>4. QED
  BY <1>1, <1>2, <1>3 DEF Next, Plans, Loop, Finished, PlanStep

(* What a hook runs for has just been taken.                               *)
LEMMA ActsOnTaken ==
    ASSUME RunTypes, [Next]_vars, NEW c \in acted' \ acted
    PROVE  c \in Component /\ Take(c)
<1>1. CASE PlanStep
  BY <1>1 DEF PlanStep, Load, Choose, PlanForward, RefuseRemove, PlanRemove, Finish
<1>2. CASE UNCHANGED vars
  BY <1>2 DEF vars
<1>3. CASE \E d \in Component : Step(d)
  <2>1. PICK d \in Component : Step(d)
    BY <1>3
  <2>2. Take(d) /\ acted' \subseteq acted \cup {d}
    BY <2>1, StepGives
  <2>3. QED
    BY <2>2
<1>4. QED
  BY <1>1, <1>2, <1>3 DEF Next, Plans, Loop, Finished, PlanStep

(* No hook of an install or a fix runs before the loop is done with every  *)
(* prerequisite of its component (plan_order).                             *)
THEOREM PrerequisitesComeFirst == Spec => PrerequisitesFirst
<1>1. RunFed /\ [Next]_vars => (Forward => \A c \in acted' \ acted : Prereqs[c] \subseteq handled)
  BY ActsOnTaken, TakeFed DEF RunFed
<1>2. Init => RunFed
  BY InitTyped, InitFed DEF RunFed
<1>3. QED
  BY <1>1, <1>2, NextFed, PTL DEF Spec, PrerequisitesFirst

(* No component is removed before every live one that needs it             *)
(* (plan_remove).                                                          *)
THEOREM DependentsComeFirst == Spec => DependentsFirst
<1>1. RunFed /\ [Next]_vars
        => (plan.phase = "remove" =>
              \A c \in acted' \ acted : \A r \in liveBefore : c \in Prereqs[r] => r \in handled)
  <2> SUFFICES ASSUME RunTypes, RestIsFed, [Next]_vars, plan.phase = "remove",
                      NEW c \in acted' \ acted, NEW r \in liveBefore, c \in Prereqs[r]
               PROVE  r \in handled
    BY DEF RunFed
  <2>1. c \in Component /\ Dependents[c] \subseteq handled
    BY ActsOnTaken, TakeFed
  <2>2. r \in Dependents[c]
    BY <2>1 DEF Dependents
  <2>3. QED
    BY <2>1, <2>2
<1>2. Init => RunFed
  BY InitTyped, InitFed DEF RunFed
<1>3. QED
  BY <1>1, <1>2, NextFed, PTL DEF Spec, DependentsFirst
-----------------------------------------------------------------------------
(* What a reset may take: what was named, everything under --all and       *)
(* --confirm, or under --cascade what was live and needs what was named.   *)
Asked(set) ==
    \/ set \subseteq Targets
    \/ Targets = {} /\ Has("all") /\ Has("confirm")
    \/ /\ Has("cascade") /\ (Has("confirm") \/ plan.dry)
       /\ \A c \in set \ Targets : c \in liveBefore /\ Prereqs[c] \cap Targets # {}

TakesAsked ==
    /\ plan.dry => acted = {}
    /\ plan.phase = "remove" /\ stage \in {"run", "done"} => Asked(handled \cup ToSet(rest))

LEMMA AskedStays ==
    ASSUME UNCHANGED <<requires, order, plan, liveBefore>>, NEW set, Asked(set)
    PROVE  Asked(set)'
<1>1. Prereqs' = Prereqs /\ Targets' = Targets /\ \A gate : Has(gate)' = Has(gate)
  BY DEF Prereqs, Targets, Has
<1>2. QED
  BY <1>1 DEF Asked

LEMMA InitAsked == Init => TakesAsked
  BY DEF Init, TakesAsked

LEMMA RemovalIsAsked ==
    ASSUME RunFed, PlanRemove
    PROVE  Asked(RemovalSet)
<1>1. /\ plan.phase = "remove" /\ liveBefore = Live
      /\ ~RosterUnconfirmed /\ ~CascadeUnconfirmed
  BY DEF PlanRemove, RunFed, RestIsFed
<1>2. CASE Targets = {}
  BY <1>1, <1>2 DEF RosterUnconfirmed, Asked
<1>3. CASE Targets # {} /\ Folded = {}
  BY <1>3 DEF RemovalSet, Asked
<1>4. CASE Targets # {} /\ Folded # {}
  <2>1. Has("cascade") /\ (Has("confirm") \/ plan.dry)
    BY <1>1, <1>4 DEF CascadeUnconfirmed, Folded
  <2>2. RemovalSet \ Targets \subseteq UNION {Protectors(t) : t \in Targets}
    BY <1>4, <2>1 DEF RemovalSet, Folded
  <2>3. ASSUME NEW c \in RemovalSet \ Targets
        PROVE  c \in liveBefore /\ Prereqs[c] \cap Targets # {}
    <3>1. PICK t \in Targets : c \in Protectors(t)
      BY <2>2
    <3>2. QED
      BY <1>1, <3>1 DEF Protectors, ReverseDependents
  <2>4. QED
    BY <2>1, <2>3 DEF Asked
<1>5. QED
  BY <1>2, <1>3, <1>4

LEMMA NextAsked == RunFed /\ TakesAsked /\ [Next]_vars => TakesAsked'
<1> SUFFICES ASSUME RunFed, TakesAsked, [Next]_vars
             PROVE  TakesAsked'
  OBVIOUS
<1>1. TypeOK /\ Unstarted /\ OrderKnown
  BY DEF RunFed, RunTypes
<1>2. CASE UNCHANGED vars \/ Finish
  <2>1. /\ UNCHANGED <<requires, order, plan, liveBefore, handled, rest, acted>>
        /\ stage' \in {"run", "done"} => stage \in {"run", "done"}
    BY <1>2 DEF vars, registry, Finish
  <2>2. QED
    BY <2>1, AskedStays DEF TakesAsked
<1>3. CASE Load \/ Choose
  <2>1. acted' = acted /\ stage' \notin {"run", "done"} /\ stage \notin {"run", "done"}
    BY <1>3 DEF Load, Choose
  <2>2. acted = {}
    BY <1>1, <2>1 DEF TypeOK, Unstarted
  <2>3. QED
    BY <2>1, <2>2 DEF TakesAsked
<1>4. CASE PlanForward
  BY <1>4 DEF PlanForward, TakesAsked, Forward
<1>5. CASE RefuseRemove
  <2>1. handled' = {} /\ rest' = <<>> /\ acted' = acted /\ plan' = plan
    BY <1>1, <1>5 DEF RefuseRemove, Unstarted
  <2>2. handled' \cup ToSet(rest') = {}
    BY <2>1, Empty
  <2>3. Asked({})'
    BY DEF Asked
  <2>4. QED
    BY <2>1, <2>2, <2>3 DEF TakesAsked
<1>6. CASE PlanRemove
  <2>1. /\ handled' = {} /\ rest' = Reverse(Ordered(RemovalSet)) /\ acted' = acted
        /\ UNCHANGED <<requires, order, plan, liveBefore>>
    BY <1>1, <1>6 DEF PlanRemove, Unstarted, registry
  <2>a. PICK set : set = RemovalSet
    OBVIOUS
  <2>b. Asked(set)
    BY <1>6, <2>a, RemovalIsAsked
  <2>2. Asked(set)'
    BY <2>1, <2>b, AskedStays
  <2>3. handled' \cup ToSet(rest') = set
    <3>1. Topological /\ liveBefore = Live
      BY <1>1, <1>6 DEF PlanRemove, OrderKnown, RunFed, RestIsFed
    <3>2. Targets \subseteq Component
      <4>1. plan.targets \in Seq(Component)
        BY <1>1 DEF TypeOK
      <4>2. QED
        BY <4>1, In DEF Targets
    <3>3. QED
      BY <2>1, <2>a, <3>1, <3>2, RemovalIsFed
  <2>4. Asked(handled \cup ToSet(rest))'
    BY <2>2, <2>3 DEF Asked
  <2>5. acted' = acted /\ plan' = plan
    BY <2>1
  <2>6. QED
    BY <2>4, <2>5 DEF TakesAsked
<1>7. CASE \E c \in Component : Step(c)
  <2>1. PICK c \in Component : Step(c)
    BY <1>7
  <2>2. /\ rest # <<>> /\ c = Head(rest) /\ rest' = Tail(rest) /\ handled' = handled \cup {c}
        /\ UNCHANGED <<requires, order, plan, liveBefore>> /\ stage = "run"
        /\ plan.dry => acted' = acted
    BY <2>1, StepGives DEF Take, registry
  <2>3. rest \in Seq(Component)
    BY <1>1 DEF TypeOK
  <2>4. ToSet(rest) = {c} \cup ToSet(rest')
    BY <2>2, <2>3, Tailed
  <2>5. handled' \cup ToSet(rest') = handled \cup ToSet(rest)
    BY <2>2, <2>4
  <2>6. plan.phase = "remove" => Asked(handled \cup ToSet(rest))'
    <3> DEFINE set == handled \cup ToSet(rest)
    <3>1. plan.phase = "remove" => Asked(set)
      BY <2>2 DEF TakesAsked
    <3> HIDE DEF set
    <3>2. handled' \cup ToSet(rest') = set
      BY <2>5 DEF set
    <3>3. /\ Prereqs' = Prereqs /\ Targets' = Targets /\ Has("all")' = Has("all")
          /\ Has("confirm")' = Has("confirm") /\ Has("cascade")' = Has("cascade")
      BY <2>2 DEF Prereqs, Targets, Has
    <3>4. QED
      BY <2>2, <3>1, <3>2, <3>3 DEF Asked
  <2>7. QED
    BY <2>2, <2>6 DEF TakesAsked
<1>8. QED
  BY <1>2, <1>3, <1>4, <1>5, <1>6, <1>7 DEF Next, Plans, Loop, Finished

(* A reset acts on what was named and on what a gate allows (plan_remove). *)
THEOREM ResetIsAsked == Spec => []RemovesOnlyAsked
<1>1. RunFed /\ TakesAsked => RemovesOnlyAsked
  <2> SUFFICES ASSUME RunFed, TakesAsked, plan.phase = "remove", acted # {}
               PROVE  RemovesOnlyAsked
    BY DEF RemovesOnlyAsked
  <2>1. acted \subseteq handled /\ stage \in {"run", "done"} /\ ~plan.dry
    BY DEF RunFed, RunTypes, TypeOK, Unstarted, TakesAsked
  <2>2. Asked(handled \cup ToSet(rest))
    BY <2>1 DEF TakesAsked
  <2>3. Asked(acted)
    BY <2>1, <2>2 DEF Asked
  <2>4. QED
    BY <2>1, <2>3 DEF Asked, RemovesOnlyAsked
<1>2. Init => RunFed /\ TakesAsked
  BY InitTyped, InitFed, InitAsked DEF RunFed
<1>3. QED
  BY <1>1, <1>2, NextFed, NextAsked, PTL DEF Spec
-----------------------------------------------------------------------------
(* dependency_paths.                                                       *)
LEMMA PathsAre ==
    ASSUME Topological
    PROVE  /\ DependencyPaths \in [Component -> SUBSET Seq(Component)]
           /\ \A c \in Component :
                DependencyPaths[c] = IF requires[c] = {} THEN {<<c>>}
                                     ELSE UNION {{Append(q, c) : q \in DependencyPaths[d]} : d \in requires[c]}
<1>0. \A c \in Component : requires[c] \subseteq Component
  BY NoRing DEF Declared
<1> DEFINE X == SUBSET Seq(Component)
           Ways(p, c) == IF requires[c] = {} THEN {<<c>>} ELSE UNION {{Append(q, c) : q \in p[d]} : d \in requires[c]}
           g == [c \in Component |-> [p \in [Component -> X] |-> Ways(p, c)]]
           Value(p) == [c \in Component |-> Ways(p, c)]
<1>a. \A p \in [Component -> X], c \in Component : Ways(p, c) \in X
  <2> SUFFICES ASSUME NEW p \in [Component -> X], NEW c \in Component PROVE Ways(p, c) \in X
    OBVIOUS
  <2>1. <<c>> \in Seq(Component)
    OBVIOUS
  <2>2. \A d \in requires[c] : p[d] \in X
    BY <1>0
  <2>3. \A d \in requires[c] : \A q \in p[d] : Append(q, c) \in Seq(Component)
    BY <2>2
  <2>4. QED
    BY <2>1, <2>3
<1>b. ASSUME NEW c \in Component, NEW p, NEW q, \A d \in requires[c] : p[d] = q[d]
      PROVE  Ways(p, c) = Ways(q, c)
  <2> DEFINE Longer(ways) == {Append(w, c) : w \in ways}
  <2>0. \A d \in requires[c] : Longer(p[d]) = Longer(q[d])
    <3> HIDE DEF Longer
    <3>1. QED
      BY <1>b
  <2>1. {Longer(p[d]) : d \in requires[c]} = {Longer(q[d]) : d \in requires[c]}
    <3> HIDE DEF Longer
    <3>1. QED
      BY <2>0
  <2>2. QED
    BY <2>1
<1> HIDE DEF Ways
<1>1. g \in [Component -> [[Component -> X] -> X]]
  BY <1>a
<1>2. \A c \in Component : \A p, q \in [Component -> X] :
        (\A d \in requires[c] : p[d] = q[d]) => g[c][p] = g[c][q]
  BY <1>b
<1>3. PICK p : Defined(p, g, X)
  <2>1. X # {}
    OBVIOUS
  <2> HIDE DEF X, g
  <2>2. Defines(g, X)
    BY <1>1, <1>2 DEF Defines
  <2>3. QED
    BY <2>1, <2>2, Recursion
<1>4. p = Value(p) /\ p \in [Component -> X]
  BY <1>3 DEF Defined
<1>5. DependencyPaths = CHOOSE f : f = Value(f)
  BY DEF DependencyPaths, Ways
<1> HIDE DEF Value
<1>6. DependencyPaths = Value(DependencyPaths)
  BY <1>4, <1>5
<1> USE DEF Value
<1>7. \A c \in Component : DependencyPaths[c] = Ways(DependencyPaths, c)
  BY <1>6
<1>8. DependencyPaths \in [Component -> X]
  <2> DEFINE Q == {c \in Component : DependencyPaths[c] \subseteq Seq(Component)}
  <2>1. ASSUME NEW c \in Component, requires[c] \subseteq Q PROVE c \in Q
    <3>1. \A d \in requires[c] : \A q \in DependencyPaths[d] : Append(q, c) \in Seq(Component)
      BY <2>1
    <3>2. <<c>> \in Seq(Component)
      OBVIOUS
    <3>3. DependencyPaths[c] = IF requires[c] = {} THEN {<<c>>}
                               ELSE UNION {{Append(q, c) : q \in DependencyPaths[d]} : d \in requires[c]}
      BY <1>7 DEF Ways
    <3>4. ASSUME NEW w \in DependencyPaths[c], requires[c] # {} PROVE w \in Seq(Component)
      <4>1. PICK d \in requires[c] : \E q \in DependencyPaths[d] : w = Append(q, c)
        BY <3>3, <3>4
      <4>2. QED
        BY <3>1, <4>1
    <3>5. DependencyPaths[c] \subseteq Seq(Component)
      BY <3>2, <3>3, <3>4
    <3>6. QED
      BY <3>5
  <2>2. Q \in SUBSET Component
    OBVIOUS
  <2> HIDE DEF Q
  <2>3. Q = Component
    BY <2>1, <2>2, AlongOrder
  <2>4. \A c \in Component : DependencyPaths[c] \in X
    BY <2>3 DEF Q
  <2>5. DependencyPaths = [c \in Component |-> DependencyPaths[c]]
    BY <1>6
  <2>6. QED
    BY <2>4, <2>5
<1>9. QED
  BY <1>7, <1>8 DEF Ways

(* There is a way down to every component, every way starts at a root and  *)
(* ends at its component, and the ways run through what it needs.          *)
LEMMA PathsRun ==
    ASSUME Topological, NEW c \in Component
    PROVE  /\ DependencyPaths[c] # {}
           /\ \A q \in DependencyPaths[c] :
                q \in Seq(Component) /\ Len(q) \in Nat /\ Len(q) > 0 /\ q[1] \in Roots /\ q[Len(q)] = c
           /\ UNION {ToSet(q) : q \in DependencyPaths[c]} = Closure(c)
<1>0. /\ \A b \in Component : requires[b] \subseteq Component
      /\ Prereqs \in [Component -> SUBSET Component]
      /\ \A b \in Component : Prereqs[b] = requires[b] \cup UNION {Prereqs[d] : d \in requires[b]}
      /\ DependencyPaths \in [Component -> SUBSET Seq(Component)]
      /\ \A b \in Component :
           DependencyPaths[b] = IF requires[b] = {} THEN {<<b>>}
                                ELSE UNION {{Append(q, b) : q \in DependencyPaths[d]} : d \in requires[b]}
  BY NoRing, PrereqsAre, PathsAre DEF Declared
<1> DEFINE Runs(b) ==
             /\ DependencyPaths[b] # {}
             /\ \A q \in DependencyPaths[b] :
                  q \in Seq(Component) /\ Len(q) \in Nat /\ Len(q) > 0 /\ q[1] \in Roots /\ q[Len(q)] = b
             /\ UNION {ToSet(q) : q \in DependencyPaths[b]} = Closure(b)
           Q == {b \in Component : Runs(b)}
<1>1. ASSUME NEW b \in Component, requires[b] = {} PROVE Runs(b)
  <2>1. DependencyPaths[b] = {<<b>>}
    BY <1>0, <1>1
  <2>2. <<b>> \in Seq(Component) /\ Len(<<b>>) = 1 /\ <<b>>[1] = b /\ ToSet(<<b>>) = {b}
    BY One
  <2>3. Closure(b) = {b}
    BY <1>0, <1>1 DEF Closure
  <2>4. b \in Roots
    BY <1>1 DEF Roots
  <2>5. QED
    BY <2>1, <2>2, <2>3, <2>4
<1>2. ASSUME NEW b \in Component, requires[b] # {}, \A d \in requires[b] : Runs(d) PROVE Runs(b)
  <2>1. DependencyPaths[b] = UNION {{Append(q, b) : q \in DependencyPaths[d]} : d \in requires[b]}
    BY <1>0, <1>2
  <2>2. DependencyPaths[b] # {}
    <3>1. PICK d \in requires[b] : TRUE
      BY <1>2
    <3>2. PICK q \in DependencyPaths[d] : TRUE
      BY <1>2, <3>1
    <3>3. Append(q, b) \in DependencyPaths[b]
      BY <2>1, <3>1, <3>2
    <3>4. QED
      BY <3>3
  <2>3. ASSUME NEW d \in requires[b], NEW q \in DependencyPaths[d]
        PROVE  LET w == Append(q, b)
               IN  /\ w \in Seq(Component) /\ Len(w) \in Nat /\ Len(w) > 0 /\ w[1] \in Roots /\ w[Len(w)] = b
                   /\ ToSet(w) = ToSet(q) \cup {b}
    <3> DEFINE w == Append(q, b)
    <3>1. q \in Seq(Component) /\ Len(q) \in Nat /\ Len(q) > 0 /\ q[1] \in Roots
      BY <1>2
    <3>2. /\ w \in Seq(Component) /\ Len(w) = Len(q) + 1 /\ \A i \in 1 .. Len(q) : w[i] = q[i]
          /\ w[Len(q) + 1] = b /\ ToSet(w) = ToSet(q) \cup {b}
      BY <3>1, Appended
    <3> HIDE DEF w
    <3>3. 1 \in 1 .. Len(q) /\ Len(w) \in Nat /\ Len(w) > 0 /\ w[Len(w)] = b
      BY <3>1, <3>2
    <3>4. w[1] \in Roots
      BY <3>1, <3>2, <3>3
    <3>5. QED
      BY <3>2, <3>3, <3>4 DEF w
  <2>4. ASSUME NEW w \in DependencyPaths[b]
        PROVE  w \in Seq(Component) /\ Len(w) \in Nat /\ Len(w) > 0 /\ w[1] \in Roots /\ w[Len(w)] = b
    <3>1. PICK d \in requires[b] : \E q \in DependencyPaths[d] : w = Append(q, b)
      BY <2>1
    <3>2. PICK q \in DependencyPaths[d] : w = Append(q, b)
      BY <3>1
    <3>3. QED
      BY <2>3, <3>2
  <2>5. UNION {ToSet(w) : w \in DependencyPaths[b]} \subseteq Closure(b)
    <3> SUFFICES ASSUME NEW w \in DependencyPaths[b], NEW x \in ToSet(w) PROVE x \in Closure(b)
      OBVIOUS
    <3>1. PICK d \in requires[b] : \E q \in DependencyPaths[d] : w = Append(q, b)
      BY <2>1
    <3>a. PICK q \in DependencyPaths[d] : w = Append(q, b)
      BY <3>1
    <3>2. x \in ToSet(q) \cup {b}
      BY <2>3, <3>a
    <3>3. ToSet(q) \subseteq Closure(d)
      BY <1>2, <3>a
    <3>4. Closure(d) \subseteq Prereqs[b]
      BY <1>0, <3>1 DEF Closure
    <3>5. QED
      BY <3>2, <3>3, <3>4 DEF Closure
  <2>6. \A d \in requires[b] : Closure(d) \subseteq UNION {ToSet(w) : w \in DependencyPaths[b]}
    <3> SUFFICES ASSUME NEW d \in requires[b], NEW x \in Closure(d)
                 PROVE  \E w \in DependencyPaths[b] : x \in ToSet(w)
      OBVIOUS
    <3>1. PICK q \in DependencyPaths[d] : x \in ToSet(q)
      BY <1>2
    <3>2. Append(q, b) \in DependencyPaths[b] /\ x \in ToSet(Append(q, b))
      BY <2>1, <2>3, <3>1
    <3>3. QED
      BY <3>2
  <2>7. b \in UNION {ToSet(w) : w \in DependencyPaths[b]}
    <3>1. PICK d \in requires[b] : TRUE
      BY <1>2
    <3>2. PICK q \in DependencyPaths[d] : TRUE
      BY <1>2, <3>1
    <3>3. Append(q, b) \in DependencyPaths[b] /\ b \in ToSet(Append(q, b))
      BY <2>1, <2>3, <3>1, <3>2
    <3>4. QED
      BY <3>3
  <2>8. Closure(b) = {b} \cup UNION {Closure(d) : d \in requires[b]}
    <3>1. Prereqs[b] = UNION {{d} \cup Prereqs[d] : d \in requires[b]}
      BY <1>0
    <3>2. QED
      BY <3>1 DEF Closure
  <2>9. QED
    BY <2>2, <2>4, <2>5, <2>6, <2>7, <2>8
<1>3. \A b \in Component : requires[b] \subseteq Q => b \in Q
  BY <1>1, <1>2
<1>4. Q \in SUBSET Component
  OBVIOUS
<1> HIDE DEF Q
<1>5. Q = Component
  BY <1>3, <1>4, AlongOrder
<1>6. QED
  BY <1>5 DEF Q
-----------------------------------------------------------------------------
(* analyze, one component after the other.                                 *)
LengthState == [dist : [Component -> Nat], path : [Component -> Seq(Component)], best : 0 .. N]
LengthStart == [dist |-> [c \in Component |-> 1], path |-> [c \in Component |-> <<>>], best |-> 0]

LEMMA Bounded ==
    ASSUME NEW f \in [Component -> Nat]
    PROVE  \E b \in Nat : \A c \in Component : f[c] <= b
<1>0. N \in Nat /\ Component = 1 .. N
  BY NAssumption DEF Component
<1> DEFINE P == {k \in Nat : k <= N => \E b \in Nat : \A c \in 1 .. k : f[c] <= b}
<1>1. 0 \in P
  <2>1. \A c \in 1 .. 0 : f[c] <= 0
    OBVIOUS
  <2>2. QED
    BY <2>1
<1>2. ASSUME NEW k \in P, k < N PROVE k + 1 \in P
  <2>1. k \in Nat /\ k + 1 \in Nat /\ k <= N /\ k + 1 \in Component
    BY <1>0, <1>2
  <2>2. PICK b \in Nat : \A c \in 1 .. k : f[c] <= b
    BY <2>1
  <2> DEFINE a == b + f[k + 1]
  <2>3. a \in Nat /\ f[k + 1] <= a /\ b <= a /\ f[k + 1] \in Nat
    BY <2>1
  <2>4. \A c \in 1 .. k + 1 : c \in Component /\ (c \in 1 .. k \/ c = k + 1)
    BY <1>0, <1>2, <2>1
  <2> HIDE DEF a
  <2>5. ASSUME NEW c \in 1 .. k + 1 PROVE f[c] <= a
    <3>1. CASE c = k + 1
      BY <2>3, <3>1
    <3>2. CASE c \in 1 .. k
      <4>1. f[c] <= b /\ f[c] \in Nat
        BY <2>2, <2>4, <3>2
      <4>2. QED
        BY <2>3, <4>1
    <3>3. QED
      BY <2>4, <3>1, <3>2
  <2>6. QED
    BY <2>1, <2>3, <2>5
<1>3. N \in P
  <2>1. P \in SUBSET Nat /\ N \in 0 .. N
    BY <1>0
  <2> HIDE DEF P
  <2>2. QED
    BY <1>0, <1>1, <1>2, <2>1, Climbed
<1>4. QED
  BY <1>0, <1>3

(* What one component adds: d is one more than the longest chain it        *)
(* requires, and its path goes on from the end of one of that length.      *)
Lengthened(s, c, t, d) ==
    /\ d \in Nat /\ d > 0 /\ \A r \in requires[c] : s.dist[r] < d
    /\ d = 1 \/ \E r \in requires[c] : s.dist[r] = d - 1
    /\ t \in LengthState
    /\ t.dist[c] = d
    /\ \A b \in Component \ {c} : t.dist[b] = s.dist[b] /\ t.path[b] = s.path[b]
    /\ \/ t.path[c] = <<c>> /\ \A r \in requires[c] : s.dist[r] # d - 1
       \/ \E r \in requires[c] : s.dist[r] = d - 1 /\ t.path[c] = Append(s.path[r], c)
    /\ t.best = IF s.best = 0 \/ d > s.dist[s.best] THEN c ELSE s.best

LEMMA LengthenGives ==
    ASSUME NEW c \in Component, requires[c] \subseteq Component, NEW s \in LengthState
    PROVE  \E d : Lengthened(s, c, Lengthen(s, c), d)
<1> DEFINE lengths == {0} \cup {s.dist[r] : r \in requires[c]}
           d == Max(lengths) + 1
           by == {r \in requires[c] : s.dist[r] = d - 1}
           path1 == IF by = {} THEN <<c>> ELSE Append(s.path[CHOOSE r \in by : TRUE], c)
           best1 == IF s.best = 0 \/ d > s.dist[s.best] THEN c ELSE s.best
           t == Lengthen(s, c)
<1>0. s.dist \in [Component -> Nat] /\ s.path \in [Component -> Seq(Component)] /\ s.best \in 0 .. N
  BY DEF LengthState
<1>1. Max(lengths) \in lengths /\ (\A l \in lengths : l <= Max(lengths)) /\ lengths \in SUBSET Nat
  <2>1. lengths \in SUBSET Nat /\ lengths # {}
    BY <1>0
  <2>2. PICK b \in Nat : \A r \in Component : s.dist[r] <= b
    BY <1>0, Bounded
  <2>3. \A l \in lengths : l <= b
    BY <2>2
  <2> HIDE DEF lengths
  <2>4. QED
    BY <2>1, <2>3, BoundedHasMax
<1>2. t = [dist |-> [s.dist EXCEPT ![c] = d], path |-> [s.path EXCEPT ![c] = path1], best |-> best1]
  BY DEF Lengthen
<1> HIDE DEF t
<1>3. d \in Nat /\ d > 0 /\ d - 1 = Max(lengths)
  <2> DEFINE m == Max(lengths)
  <2>1. m \in Nat
    BY <1>1
  <2> HIDE DEF lengths, m
  <2>2. d = m + 1
    BY DEF m
  <2>3. d \in Nat /\ d > 0 /\ d - 1 = m
    BY <2>1, <2>2
  <2>4. QED
    BY <2>3 DEF m
<1>4. \A r \in requires[c] : s.dist[r] < d
  <2>1. \A r \in requires[c] : s.dist[r] \in lengths
    OBVIOUS
  <2> HIDE DEF lengths, d
  <2>2. \A l \in lengths : l \in Nat /\ l <= d - 1
    BY <1>1, <1>3
  <2>3. QED
    BY <1>3, <2>1, <2>2
<1>5. d = 1 \/ \E r \in requires[c] : s.dist[r] = d - 1
  <2>1. \A l \in lengths : l = 0 \/ \E r \in requires[c] : s.dist[r] = l
    OBVIOUS
  <2> HIDE DEF lengths, d
  <2>2. d - 1 \in lengths
    BY <1>1, <1>3
  <2>3. QED
    BY <1>3, <2>1, <2>2
<1> HIDE DEF lengths, d
<1>6. \/ path1 = <<c>> /\ \A r \in requires[c] : s.dist[r] # d - 1
      \/ \E r \in requires[c] : s.dist[r] = d - 1 /\ path1 = Append(s.path[r], c)
  <2>1. CASE by = {}
    BY <2>1
  <2>2. CASE by # {}
    <3>1. (CHOOSE r \in by : TRUE) \in by
      BY <2>2
    <3>2. QED
      BY <2>2, <3>1
  <2>3. QED
    BY <2>1, <2>2
<1>7. path1 \in Seq(Component)
  <2>1. <<c>> \in Seq(Component)
    OBVIOUS
  <2>2. \A r \in requires[c] : Append(s.path[r], c) \in Seq(Component)
    BY <1>0
  <2> HIDE DEF path1
  <2>3. QED
    BY <1>6, <2>1, <2>2
<1>8. best1 \in 0 .. N
  BY <1>0, NAssumption DEF Component
<1> HIDE DEF path1, best1
<1>9. t.dist = [s.dist EXCEPT ![c] = d] /\ t.path = [s.path EXCEPT ![c] = path1] /\ t.best = best1
  BY <1>2
<1>10. t \in LengthState
  BY <1>0, <1>2, <1>3, <1>7, <1>8 DEF LengthState
<1>11. t.dist[c] = d /\ t.path[c] = path1
       /\ \A b \in Component \ {c} : t.dist[b] = s.dist[b] /\ t.path[b] = s.path[b]
  BY <1>0, <1>9
<1>12. Lengthened(s, c, t, d)
  BY <1>3, <1>4, <1>5, <1>6, <1>9, <1>10, <1>11 DEF Lengthened, best1
<1>13. QED
  BY <1>12 DEF t

CriticalRun(w) ==
    /\ w \in [0 .. N -> LengthState] /\ w[0] = LengthStart /\ CriticalPath = w[N].path[w[N].best]
    /\ \A k \in Nat : k < N => w[k + 1] = Lengthen(w[k], order[k + 1])

LEMMA CriticalRuns ==
    ASSUME Topological
    PROVE  \E w : CriticalRun(w)
<1> DEFINE X == LengthState
           seq == order
           n == N
           g == [i \in 1 .. n |-> [s \in X |-> Lengthen(s, seq[i])]]
           Value(f) == [T \in SUBSET (1 .. n) |->
                          IF T = {} THEN LengthStart ELSE Lengthen(f[T \ {Max(T)}], seq[Max(T)])]
<1>0. /\ n \in Nat /\ DOMAIN seq = 1 .. n /\ \A i \in 1 .. n : seq[i] \in Component
  BY NAssumption, In DEF Topological
<1>a. \A s \in X : \A i \in 1 .. n : Lengthen(s, seq[i]) \in X
  <2>1. \A c \in Component : requires[c] \subseteq Component
    BY NoRing DEF Declared
  <2>2. QED
    BY <1>0, <2>1, LengthenGives DEF Lengthened
<1>1. g \in [1 .. n -> [X -> X]] /\ LengthStart \in X
  <2>1. <<>> \in Seq(Component) /\ 0 \in 0 .. N
    BY <1>0
  <2>2. LengthStart \in X
    BY <2>1 DEF LengthStart, LengthState
  <2>3. QED
    BY <1>a, <2>2
<1>2. PICK f \in [SUBSET (1 .. n) -> X] : FoldTable(f, LengthStart, n, g)
  <2> HIDE DEF X, n, g
  <2>1. QED
    BY <1>0, <1>1, FoldExists
<1>3. f = Value(f)
  <2>1. ASSUME NEW T \in SUBSET (1 .. n), T # {}
        PROVE  g[Max(T)][f[T \ {Max(T)}]] = Lengthen(f[T \ {Max(T)}], seq[Max(T)])
    <3>1. Max(T) \in 1 .. n /\ T \ {Max(T)} \in SUBSET (1 .. n)
      BY <1>0, <2>1, MaxOfSome
    <3>2. f[T \ {Max(T)}] \in X
      BY <1>2, <3>1
    <3> HIDE DEF X, n
    <3>3. QED
      BY <3>1, <3>2
  <2> HIDE DEF X, n, g
  <2>2. QED
    BY <1>2, <2>1 DEF FoldTable
<1> DEFINE r == CHOOSE h : h = Value(h)
<1>4. CriticalPath = r[1 .. n].path[r[1 .. n].best]
  BY <1>0 DEF CriticalPath, FoldLeft, MapThenFoldSet, LengthStart
<1>5. r = Value(r)
  <2> HIDE DEF Value
  <2>1. QED
    BY <1>3
<1>6. r[{}] = LengthStart
  <2>1. {} \in SUBSET (1 .. n)
    OBVIOUS
  <2> HIDE DEF r, n
  <2>2. QED
    BY <1>5, <2>1
<1>7. ASSUME NEW k \in Nat, k < n
      PROVE  r[1 .. k + 1] = Lengthen(r[1 .. k], seq[k + 1])
  <2> DEFINE T == 1 .. k + 1
  <2>1. T \in SUBSET (1 .. n) /\ T # {} /\ Max(T) = k + 1 /\ T \ {k + 1} = 1 .. k
    BY <1>0, <1>7, UpTo
  <2> HIDE DEF r, n, T
  <2>2. r[T] = Lengthen(r[T \ {Max(T)}], seq[Max(T)])
    BY <1>5, <2>1
  <2>3. QED
    BY <2>1, <2>2 DEF T
<1> HIDE DEF Value, r
<1> DEFINE P == {k \in Nat : k <= n => r[1 .. k] \in X}
<1>8. 0 \in P
  <2>1. 1 .. 0 = {}
    OBVIOUS
  <2>2. QED
    BY <1>1, <1>6, <2>1
<1>9. ASSUME NEW k \in P, k < n PROVE k + 1 \in P
  <2>1. k \in Nat /\ k + 1 \in Nat /\ k <= n /\ k + 1 \in 1 .. n
    BY <1>0, <1>9
  <2>2. r[1 .. k] \in X
    BY <2>1
  <2>3. QED
    BY <1>a, <1>7, <1>9, <2>1, <2>2
<1>10. \A k \in 0 .. n : r[1 .. k] \in X
  <2>1. P \in SUBSET Nat
    OBVIOUS
  <2>2. \A k \in 0 .. n : k \in P
    <3> HIDE DEF P, n
    <3>1. QED
      BY <1>0, <1>8, <1>9, <2>1, Climbed
  <2>3. QED
    BY <2>2
<1> DEFINE w == [k \in 0 .. n |-> r[1 .. k]]
<1>11. w \in [0 .. n -> X]
  BY <1>10
<1>12. w[0] = LengthStart /\ w[n] = r[1 .. n]
  <2>1. 1 .. 0 = {} /\ 0 \in 0 .. n /\ n \in 0 .. n
    BY <1>0
  <2>2. QED
    BY <1>6, <2>1
<1>13. ASSUME NEW k \in Nat, k < n
       PROVE  w[k + 1] = Lengthen(w[k], seq[k + 1])
  <2>1. k \in 0 .. n /\ k + 1 \in 0 .. n
    BY <1>0, <1>13
  <2>2. w[k] = r[1 .. k] /\ w[k + 1] = r[1 .. k + 1]
    BY <2>1
  <2>3. QED
    BY <1>7, <1>13, <2>2
<1> HIDE DEF w
<1>14. QED
  BY <1>4, <1>11, <1>12, <1>13 DEF CriticalRun

(* The components done have the length of their longest way, with one of   *)
(* that length, and the best is a longest of all.                          *)
Critical(s, done) ==
    /\ \A c \in done : /\ s.path[c] \in DependencyPaths[c] /\ Len(s.path[c]) = s.dist[c] /\ s.dist[c] > 0
                       /\ \A q \in DependencyPaths[c] : Len(q) <= s.dist[c]
    /\ \/ s.best \in done /\ \A c \in done : s.dist[c] <= s.dist[s.best]
       \/ s.best = 0 /\ done = {}

LEMMA LengthenCritical ==
    ASSUME Topological, NEW done \in SUBSET Component, NEW c \in Component \ done, requires[c] \subseteq done,
           NEW s \in LengthState, Critical(s, done), NEW t, NEW d, Lengthened(s, c, t, d)
    PROVE  Critical(t, done \cup {c})
<1>0. s.dist \in [Component -> Nat] /\ s.path \in [Component -> Seq(Component)]
  BY DEF LengthState
<1>1. /\ d \in Nat /\ d > 0 /\ \A r \in requires[c] : s.dist[r] < d
      /\ d = 1 \/ \E r \in requires[c] : s.dist[r] = d - 1
      /\ t.dist[c] = d
      /\ \A b \in done : t.dist[b] = s.dist[b] /\ t.path[b] = s.path[b]
      /\ \/ t.path[c] = <<c>> /\ \A r \in requires[c] : s.dist[r] # d - 1
         \/ \E r \in requires[c] : s.dist[r] = d - 1 /\ t.path[c] = Append(s.path[r], c)
      /\ t.best = IF s.best = 0 \/ d > s.dist[s.best] THEN c ELSE s.best
  BY DEF Lengthened
<1>2. /\ \A b \in done : /\ s.path[b] \in DependencyPaths[b] /\ Len(s.path[b]) = s.dist[b] /\ s.dist[b] > 0
                         /\ \A q \in DependencyPaths[b] : Len(q) <= s.dist[b]
      /\ \/ s.best \in done /\ \A b \in done : s.dist[b] <= s.dist[s.best]
         \/ s.best = 0 /\ done = {}
  BY DEF Critical
<1>3. /\ DependencyPaths[c] = IF requires[c] = {} THEN {<<c>>}
                              ELSE UNION {{Append(q, c) : q \in DependencyPaths[b]} : b \in requires[c]}
      /\ \A b \in done : DependencyPaths[b] \subseteq Seq(Component)
  BY PathsAre
<1>4. /\ t.path[c] \in DependencyPaths[c] /\ Len(t.path[c]) = d
      /\ \A q \in DependencyPaths[c] : Len(q) <= d
  <2>1. CASE requires[c] = {}
    <3>1. d = 1 /\ t.path[c] = <<c>> /\ DependencyPaths[c] = {<<c>>} /\ Len(<<c>>) = 1
      BY <1>1, <1>3, <2>1
    <3>2. QED
      BY <3>1
  <2>2. CASE requires[c] # {}
    <3>1. PICK r \in requires[c] : s.dist[r] = d - 1 /\ t.path[c] = Append(s.path[r], c)
      <4>1. d # 1
        <5>1. PICK r \in requires[c] : TRUE
          BY <2>2
        <5>2. s.dist[r] > 0 /\ s.dist[r] < d /\ s.dist[r] \in Nat
          BY <1>0, <1>1, <1>2, <5>1
        <5>3. QED
          BY <1>1, <5>2
      <4>2. QED
        BY <1>1, <4>1
    <3>2. r \in done /\ s.path[r] \in DependencyPaths[r] /\ Len(s.path[r]) = d - 1 /\ s.path[r] \in Seq(Component)
      BY <1>0, <1>2, <3>1
    <3>3. t.path[c] \in DependencyPaths[c]
      <4> DEFINE p == s.path[r]
      <4>1. p \in DependencyPaths[r] /\ t.path[c] = Append(p, c)
        BY <3>1, <3>2
      <4> HIDE DEF p
      <4>2. t.path[c] \in {Append(q, c) : q \in DependencyPaths[r]}
        BY <4>1
      <4>3. QED
        BY <1>3, <2>2, <4>2
    <3>4. Len(t.path[c]) = d
      <4> DEFINE p == s.path[r]
      <4>1. p \in Seq(Component) /\ Len(p) = d - 1
        BY <3>2
      <4> HIDE DEF p
      <4>2. Len(Append(p, c)) = Len(p) + 1
        BY <4>1, Appended
      <4>3. QED
        BY <1>1, <3>1, <4>1, <4>2 DEF p
    <3>5. ASSUME NEW w \in DependencyPaths[c] PROVE Len(w) <= d
      <4>1. PICK b \in requires[c] : \E q \in DependencyPaths[b] : w = Append(q, c)
        BY <1>3, <2>2
      <4>2. PICK q \in DependencyPaths[b] : w = Append(q, c)
        BY <4>1
      <4>3. q \in Seq(Component) /\ Len(q) <= s.dist[b] /\ s.dist[b] < d /\ s.dist[b] \in Nat
        BY <1>0, <1>1, <1>2, <1>3, <4>2
      <4>4. Len(w) = Len(q) + 1 /\ Len(q) \in Nat
        BY <4>2, <4>3, Appended, In
      <4>5. QED
        BY <1>1, <4>3, <4>4
    <3>6. QED
      BY <3>3, <3>4, <3>5
  <2>3. QED
    BY <2>1, <2>2
<1>5. \A b \in done \cup {c} : /\ t.path[b] \in DependencyPaths[b] /\ Len(t.path[b]) = t.dist[b] /\ t.dist[b] > 0
                               /\ \A q \in DependencyPaths[b] : Len(q) <= t.dist[b]
  BY <1>1, <1>2, <1>4
<1>6. t.best \in done \cup {c} /\ \A b \in done \cup {c} : t.dist[b] <= t.dist[t.best]
  <2>0. c # 0
    BY NAssumption DEF Component
  <2>1. CASE done = {}
    <3>1. t.best = c
      <4>1. s.best = 0
        BY <1>2, <2>1
      <4>2. QED
        BY <1>1, <4>1
    <3>2. QED
      BY <1>1, <2>1, <3>1
  <2>2. CASE done # {}
    <3>a. s.best \in done /\ \A b \in done : s.dist[b] <= s.dist[s.best]
      BY <1>2, <2>2
    <3>b. s.best # 0
      BY <3>a, NAssumption DEF Component
    <3>1. s.best \in done /\ s.best # 0 /\ \A b \in done : s.dist[b] <= s.dist[s.best] /\ s.dist[b] \in Nat
      BY <1>0, <3>a, <3>b
    <3>2. CASE d > s.dist[s.best]
      <4>1. t.best = c /\ t.dist[t.best] = d
        BY <1>1, <3>2
      <4>2. \A b \in done : s.dist[b] <= d
        BY <1>1, <3>1, <3>2
      <4>3. QED
        BY <1>1, <4>1, <4>2
    <3>3. CASE ~(d > s.dist[s.best])
      <4>1. t.best = s.best /\ t.dist[t.best] = s.dist[s.best] /\ d <= s.dist[s.best]
        BY <1>1, <3>1, <3>3
      <4>2. QED
        BY <1>1, <3>1, <4>1
    <3>4. QED
      BY <3>2, <3>3
  <2>3. QED
    BY <2>1, <2>2
<1>7. QED
  BY <1>5, <1>6 DEF Critical

LEMMA CriticalIsLongest ==
    ASSUME Topological
    PROVE  \E s \in LengthState : Critical(s, Component) /\ CriticalPath = s.path[s.best]
<1>0. /\ order \in Seq(Component) /\ Len(order) = N /\ N \in Nat
      /\ Component = {order[i] : i \in 1 .. N} /\ \A i \in 1 .. N : order[i] \in Component
      /\ \A i \in 1 .. N : requires[order[i]] \subseteq {order[j] : j \in 1 .. i - 1}
      /\ \A i, j \in 1 .. N : order[i] = order[j] => i = j
  BY In, NAssumption DEF Topological, Fed, Unique
<1>1. PICK w : CriticalRun(w)
  BY CriticalRuns
<1>2. /\ w \in [0 .. N -> LengthState] /\ w[0] = LengthStart /\ CriticalPath = w[N].path[w[N].best]
      /\ \A k \in Nat : k < N => w[k + 1] = Lengthen(w[k], order[k + 1])
  BY <1>1 DEF CriticalRun
<1> DEFINE Done(k) == {order[i] : i \in 1 .. k}
           P == {k \in Nat : k <= N => Critical(w[k], Done(k))}
<1>3. 0 \in P
  <2>1. Done(0) = {} /\ w[0].best = 0
    BY <1>2 DEF LengthStart
  <2>2. QED
    BY <2>1 DEF Critical
<1>4. ASSUME NEW k \in P, k < N PROVE k + 1 \in P
  <2>1. /\ k \in Nat /\ k + 1 \in Nat /\ k <= N /\ k + 1 \in 1 .. N /\ k \in 0 .. N /\ (k + 1) - 1 = k
        /\ \A i \in 1 .. k : i \in 1 .. N /\ i # k + 1
    BY <1>0, <1>4
  <2> DEFINE c == order[k + 1]
  <2>2. c \in Component /\ requires[c] \subseteq Done(k) /\ c \notin Done(k) /\ Done(k) \subseteq Component
    BY <1>0, <2>1
  <2>3. Done(k + 1) = Done(k) \cup {c}
    <3>1. \A i \in 1 .. k + 1 : i \in 1 .. k \/ i = k + 1
      BY <2>1
    <3>2. \A i \in 1 .. k : i \in 1 .. k + 1
      BY <2>1
    <3>3. k + 1 \in 1 .. k + 1
      BY <2>1
    <3>4. QED
      BY <3>1, <3>2, <3>3
  <2>4. w[k] \in LengthState /\ Critical(w[k], Done(k)) /\ w[k + 1] = Lengthen(w[k], c)
    BY <1>2, <1>4, <2>1
  <2> HIDE DEF c, Done
  <2>5. requires[c] \subseteq Component
    BY <2>2
  <2>6. PICK d : Lengthened(w[k], c, Lengthen(w[k], c), d)
    BY <2>2, <2>4, <2>5, LengthenGives
  <2>7. Critical(w[k + 1], Done(k) \cup {c})
    BY <2>2, <2>4, <2>6, LengthenCritical
  <2>8. QED
    BY <2>1, <2>3, <2>7
<1>5. N \in P
  <2>1. P \in SUBSET Nat /\ N \in 0 .. N
    BY <1>0
  <2> HIDE DEF P
  <2>2. QED
    BY <1>0, <1>3, <1>4, <2>1, Climbed
<1>6. Critical(w[N], Component) /\ w[N] \in LengthState
  <2>1. N <= N /\ N \in 0 .. N /\ Done(N) = Component
    BY <1>0
  <2>2. QED
    BY <1>2, <1>5, <2>1
<1>7. QED
  BY <1>2, <1>6

(* What the report of the graph says of a topological order.               *)
LEMMA ReportIsRight ==
    ASSUME Topological
    PROVE  /\ \A t \in Component :
                /\ Impact(t).installs = UNION {ToSet(q) : q \in DependencyPaths[t]}
                /\ Impact(t).removes = {r \in Component \ {t} : \E q \in DependencyPaths[r] : t \in ToSet(q)}
                /\ \A q \in DependencyPaths[t] : Head(q) \in Roots /\ Len(q) <= Len(CriticalPath)
           /\ Last(CriticalPath) \in Leaves
           /\ CriticalPath \in DependencyPaths[Last(CriticalPath)]
           /\ Len(CriticalPath) = 1 => Orphans = Component
<1>0. /\ \A b \in Component : requires[b] \subseteq Component
      /\ Prereqs \in [Component -> SUBSET Component]
      /\ DependencyPaths \in [Component -> SUBSET Seq(Component)]
      /\ \A b \in Component :
           DependencyPaths[b] = IF requires[b] = {} THEN {<<b>>}
                                ELSE UNION {{Append(q, b) : q \in DependencyPaths[d]} : d \in requires[b]}
  BY NoRing, PrereqsAre, PathsAre DEF Declared
<1>1. \A c \in Component :
        /\ DependencyPaths[c] # {}
        /\ \A q \in DependencyPaths[c] :
             q \in Seq(Component) /\ Len(q) \in Nat /\ Len(q) > 0 /\ q[1] \in Roots /\ q[Len(q)] = c
        /\ UNION {ToSet(q) : q \in DependencyPaths[c]} = Closure(c)
  BY PathsRun
<1>2. PICK s \in LengthState : Critical(s, Component) /\ CriticalPath = s.path[s.best]
  BY CriticalIsLongest
<1> DEFINE best == s.best
<1>3. /\ s.dist \in [Component -> Nat] /\ best \in Component /\ CriticalPath \in DependencyPaths[best]
      /\ Len(CriticalPath) = s.dist[best]
      /\ \A c \in Component : s.dist[c] <= s.dist[best] /\ \A q \in DependencyPaths[c] : Len(q) <= s.dist[c]
  <2>1. Component # {}
    BY NAssumption DEF Component
  <2>2. s.dist \in [Component -> Nat]
    BY DEF LengthState
  <2>3. QED
    BY <1>2, <2>1, <2>2 DEF Critical
<1> HIDE DEF best
<1>4. ASSUME NEW c \in Component, NEW d \in requires[c], NEW q \in DependencyPaths[d]
      PROVE  Append(q, c) \in DependencyPaths[c] /\ Len(Append(q, c)) = Len(q) + 1
  <2>0. Append(q, c) \in {Append(w, c) : w \in DependencyPaths[d]}
    OBVIOUS
  <2>a. DependencyPaths[c] = UNION {{Append(w, c) : w \in DependencyPaths[b]} : b \in requires[c]}
    BY <1>0
  <2>1. Append(q, c) \in DependencyPaths[c]
    BY <2>0, <2>a
  <2>2. q \in Seq(Component)
    BY <1>0
  <2>3. QED
    BY <2>1, <2>2, Appended
<1>5. ASSUME NEW t \in Component
      PROVE  Impact(t).installs = UNION {ToSet(q) : q \in DependencyPaths[t]}
  BY <1>1 DEF Impact
<1>6. ASSUME NEW t \in Component
      PROVE  Impact(t).removes = {r \in Component \ {t} : \E q \in DependencyPaths[r] : t \in ToSet(q)}
  <2>1. t \notin Prereqs[t]
    <3>1. PICK i \in 1 .. Len(order) : order[i] = t
      BY In DEF Topological
    <3>2. Prereqs[t] \subseteq {order[j] : j \in 1 .. i - 1}
      BY <3>1, PrereqsFed DEF Fed
    <3>3. Unique(order) /\ Len(order) \in Nat
      BY In DEF Topological
    <3>4. \A j \in 1 .. i - 1 : order[j] # t
      BY <3>1, <3>3 DEF Unique
    <3>5. QED
      BY <3>2, <3>4
  <2>2. \A r \in Component : (\E q \in DependencyPaths[r] : t \in ToSet(q)) <=> t \in Closure(r)
    BY <1>1
  <2>3. \A r \in Component : t \in Closure(r) <=> t = r \/ t \in Prereqs[r]
    BY DEF Closure
  <2>4. Impact(t).removes = {r \in Component : t \in Prereqs[r]}
    BY DEF Impact, ReverseDependents
  <2>5. QED
    BY <2>1, <2>2, <2>3, <2>4
<1>7. ASSUME NEW t \in Component, NEW q \in DependencyPaths[t]
      PROVE  Head(q) \in Roots /\ Len(q) <= Len(CriticalPath)
  <2>1. q \in Seq(Component) /\ Len(q) \in Nat /\ Len(q) > 0 /\ q[1] \in Roots
    BY <1>1
  <2>2. Head(q) = q[1]
    BY <2>1
  <2>3. Len(q) <= s.dist[t] /\ s.dist[t] <= s.dist[best] /\ s.dist[t] \in Nat /\ s.dist[best] \in Nat
    BY <1>3
  <2>4. Len(q) <= s.dist[best]
    BY <2>1, <2>3
  <2>5. QED
    BY <1>3, <2>1, <2>2, <2>4
<1>8. Last(CriticalPath) = best
  BY <1>1, <1>3 DEF Last
<1>9. best \in Leaves
  <2> SUFFICES ASSUME NEW r \in Component, best \in requires[r] PROVE FALSE
    BY <1>3 DEF Leaves, RequiredBy
  <2>1. Append(CriticalPath, r) \in DependencyPaths[r] /\ Len(Append(CriticalPath, r)) = Len(CriticalPath) + 1
    BY <1>3, <1>4
  <2>2. Len(Append(CriticalPath, r)) <= s.dist[r] /\ s.dist[r] <= s.dist[best] /\ s.dist[r] \in Nat /\ s.dist[best] \in Nat
    BY <1>3, <2>1
  <2>3. QED
    BY <1>3, <2>1, <2>2
<1>10. ASSUME Len(CriticalPath) = 1 PROVE Orphans = Component
  <2>1. ASSUME NEW c \in Component, NEW d \in requires[c] PROVE FALSE
    <3>1. d \in Component
      BY <1>0
    <3>2. PICK q \in DependencyPaths[d] : TRUE
      BY <1>1, <3>1
    <3>3. Len(q) \in Nat /\ Len(q) > 0 /\ Append(q, c) \in DependencyPaths[c] /\ Len(Append(q, c)) = Len(q) + 1
      BY <1>1, <1>4, <3>1, <3>2
    <3>4. Len(Append(q, c)) <= 1
      BY <1>7, <1>10, <3>3
    <3>5. QED
      BY <3>3, <3>4
  <2>2. \A c \in Component : requires[c] = {}
    BY <2>1
  <2>3. QED
    BY <2>2 DEF Orphans, Roots, Leaves, RequiredBy
<1>11. QED
  BY <1>3, <1>5, <1>6, <1>7, <1>8, <1>9, <1>10

(* The report of the graph, the impact and the paths agree on every        *)
(* registry that is loaded (analyze, impact, dependency_paths).            *)
THEOREM ReportsAgree == Spec => []GraphAgrees
<1>1. RunTypes => GraphAgrees
  <2> SUFFICES ASSUME RunTypes, stage = "loaded" PROVE GraphAgrees
    BY DEF GraphAgrees
  <2>1. Topological
    BY DEF RunTypes, OrderKnown
  <2>2. QED
    BY <2>1, ReportIsRight DEF GraphAgrees
<1>2. QED
  BY <1>1, InitTyped, NextTyped, PTL DEF Spec
-----------------------------------------------------------------------------
(* So over the process runner too every variable of the loop and of the    *)
(* runner has its type (run, ProcessRunner::run).                          *)
THEOREM EnvTypes == EnvSpec => []EnvTypeOK
<1>1. EnvInit => HookInv
  BY HookStarts DEF EnvInit
<1>2. HookInv /\ TypeOK => EnvTypeOK
  BY DEF HookInv, EnvTypeOK
<1>3. QED
  BY <1>1, <1>2, HookKeeps, LoopOverRunner, LoopTypes, PTL DEF EnvSpec

(* Over the process runner too hooks run for what was asked only, and each *)
(* after those it has to wait for (run, plan_remove).                      *)
THEOREM RunKeeps == EnvSpec => RunKeepsToPlan
<1>1. QED
  BY LoopOverRunner, ResetIsAsked, PrerequisitesComeFirst, DependentsComeFirst, PTL DEF RunKeepsToPlan

(* Every registry that is loaded has an order its requirements allow and   *)
(* reports that agree with one another (graph.rs).                         *)
THEOREM GraphReported == EnvSpec => []GraphIsRight
<1>1. OrderIsTopological /\ GraphAgrees => GraphIsRight
  BY DEF GraphIsRight
<1>2. QED
  BY <1>1, LoopOverRunner, OrderIsSound, ReportsAgree, PTL
=============================================================================
