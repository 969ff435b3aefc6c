------------------------------ MODULE Registry ------------------------------
(***************************************************************************)
(* The registry of components of envctl and what is computed from its      *)
(* edges: the load order, the closures, and the graph report               *)
(* (engine/src/model.rs, engine/src/graph.rs).  Components are numbered in *)
(* the order of their ids, which is the order of the map they are kept in; *)
(* an edge to 0 is one to an id that no manifest declares.  Reading and    *)
(* parsing the manifests is left out: what remains of them is one set of   *)
(* requirements per id, the last table of an id having won.                *)
(***************************************************************************)
EXTENDS Naturals, Sequences, FiniteSets, SequencesExt, FiniteSetsExt

CONSTANT N             \* how many components the registry has

ASSUME NAssumption == N \in Nat \ {0}

Component == 1 .. N

VARIABLES
    requires,          \* the dependency edges of the registry
    order              \* Registry::order

(* Those of a sequence that are in a set, in its order.                    *)
Filtered(seq, set) == FoldLeft(LAMBDA kept, c : IF c \in set THEN Append(kept, c) ELSE kept, <<>>, seq)

Keys == [i \in Component |-> i]
Keyed(set) == Filtered(Keys, set)
-----------------------------------------------------------------------------
(* topo_sort, after Kahn: a component is queued when the last of its       *)
(* requirements has been taken, so the queue is served in rounds and a     *)
(* round in the order of the keys.                                         *)
Ready(s, n) == {c \in Component : n \in requires[c] /\ requires[c] \subseteq ToSet(s.out) \cup {n}}
PopAnyReady(s) ==                                                       \* mutant
    LET n == Head(s.queue)
    IN  [out   |-> Append(s.out, n),
         queue |-> Tail(s.queue) \o Keyed({c \in Component : n \in requires[c]} \ ToSet(s.out \o s.queue))]
Pop(s) ==
    LET n == Head(s.queue)
    IN  [out   |-> Append(s.out, n),
         queue |-> Tail(s.queue) \o Keyed(Ready(s, n))]

Sorted ==
    FoldLeft(LAMBDA s, i : IF s.queue = <<>> THEN s ELSE Pop(s),
             [out |-> <<>>, queue |-> Keyed({c \in Component : requires[c] = {}})],
             Keys).out

(* UnknownDependency and DependencyCycle.                                  *)
Declared == \A c \in Component : requires[c] \subseteq Component
Accepted == Declared /\ Len(Sorted) = N
-----------------------------------------------------------------------------
(* is_prereq_of: the transitive prerequisites of each component.           *)
Prereqs ==
    LET p[c \in Component] == requires[c] \cup UNION {p[d] : d \in requires[c]}
    IN p

(* Registry::closure and Registry::reverse_dependents.                     *)
Closure(t) == {t} \cup Prereqs[t]
ReverseDependentsDirect(t) == {r \in Component : t \in requires[r]}     \* mutant
ReverseDependents(t) == {r \in Component : t \in Prereqs[r]}

Ordered(set) == Filtered(order, set)
-----------------------------------------------------------------------------
(* dependency_paths: every way down from a root to each component.         *)
DependencyPaths ==
    LET p[c \in Component] ==
          IF requires[c] = {} THEN {<<c>>}
          ELSE UNION {{Append(q, c) : q \in p[d]} : d \in requires[c]}
    IN p

(* analyze: the longest chain, found by one pass over the order that keeps *)
(* for each component the length of its longest and the requirement it     *)
(* came by; the first component of a length wins.                          *)
Lengthen(s, c) ==
    LET d == Max({0} \cup {s.dist[r] : r \in requires[c]}) + 1
        by == {r \in requires[c] : s.dist[r] = d - 1}
    IN  [dist |-> [s.dist EXCEPT ![c] = d],
         path |-> [s.path EXCEPT ![c] = IF by = {} THEN <<c>> ELSE Append(s.path[CHOOSE r \in by : TRUE], c)],
         best |-> IF s.best = 0 \/ d > s.dist[s.best] THEN c ELSE s.best]

CriticalPath ==
    LET s == FoldLeft(Lengthen,
                      [dist |-> [c \in Component |-> 1], path |-> [c \in Component |-> <<>>], best |-> 0],
                      order)
    IN  s.path[s.best]

(* reverse_edges, and what analyze reads off the edges.                    *)
RequiredBy(t) == {r \in Component : t \in requires[r]}
Roots == {c \in Component : requires[c] = {}}
Leaves == {c \in Component : RequiredBy(c) = {}}
Orphans == Roots \cap Leaves

(* impact.                                                                 *)
Impact(t) ==
    [installs |-> Closure(t), removes |-> ReverseDependents(t),
     requires |-> requires[t], requiredBy |-> RequiredBy(t)]
=============================================================================
