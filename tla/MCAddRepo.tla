------------------------------ MODULE MCAddRepo ------------------------------
EXTENDS AddRepo
CONSTANTS p1, p2, a, b, s1, s2, u1, u2, n1, n2
Plain == [slug |-> s1, url |-> u1, bins |-> {n1, n2}, ref |-> FALSE, local |-> FALSE,
          patch |-> FALSE, build |-> TRUE, force |-> FALSE]
Host(crew, menu, specs, shadowed, calls, bad) ==
    [crew |-> crew, declares |-> menu, specs |-> specs, shadowed |-> shadowed, calls |-> calls,
     runs |-> 3, faults |-> bad]
Calls == {"add", "connect", "rebuild", "reset"}
Menu(x, y) == [c \in {a, b, s1, s2} |-> CASE c = a -> x [] c = b -> y [] c \in {s1, s2} -> {}]
Menus == {Menu({"path", "key", "list"}, {"path"}),
          Menu({"rc", "desktop", "unit", "service"}, {}),
          Menu({"nix"}, {"nix"}),
          Menu({"cdi", "alt", "config", "data"}, {})}
Wirings ==
    {Host({p1}, menu, {}, {}, {}, 2) : menu \in Menus}
        \cup {Host({p1, p2}, Menu({"path", "key", "list"}, {}), {}, {}, {}, 2)}
Adds ==
    {Host({p1}, Menu({}, {}),
          {Plain, [Plain EXCEPT !.url = u2, !.build = FALSE, !.patch = TRUE]}, {n2}, Calls, 2),
     Host({p1}, Menu({}, {}),
          {[Plain EXCEPT !.ref = TRUE, !.patch = TRUE, !.force = TRUE],
           [Plain EXCEPT !.local = TRUE, !.bins = {n1}]}, {}, Calls, 2)}
Races ==
    {Host({p1, p2}, Menu({}, {}),
          {[Plain EXCEPT !.bins = {n1}], [Plain EXCEPT !.slug = s2, !.bins = {n1}, !.force = TRUE]},
          {}, {"add"}, 0),
     Host({p1, p2}, Menu({}, {}),
          {[Plain EXCEPT !.bins = {n1}, !.patch = TRUE]}, {}, Calls, 0)}
Hosts == Wirings \cup Adds \cup Races
=============================================================================
