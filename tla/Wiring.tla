-------------------------------- MODULE Wiring --------------------------------
(***************************************************************************)
(* Declarative wiring of envctl components: wiring::apply and              *)
(* wiring::revert (engine/src/wiring.rs) as executor::run calls them.      *)
(*                                                                         *)
(* A process works through the pieces its component declares, in the order *)
(* of the code; a piece is looked at, backed up and edited in steps of     *)
(* their own, since several envctl processes, the user and a crash may     *)
(* come between.  A file is a sequence of lines: the user's own, those     *)
(* envctl owns, and what a torn write leaves.                              *)
(***************************************************************************)
EXTENDS Naturals, Sequences, SequencesExt, Functions

CONSTANTS
    Proc,              \* envctl processes
    Component,         \* components of the manifest
    Scenes             \* the hosts to start from: who runs, what each component declares, and
                       \* the bounds on calls (runs) and on crashes and failures (faults)

Piece == {"path", "rc", "desktop", "unit", "service", "key", "list", "nix", "restart",
          "cdi", "alt", "config", "data"}
File == {"rc", "desktop", "unit", "service", "key", "list", "nix", "cdi", "alt", "config", "data"}
Blocks == {"path", "rc"}
Owned == {"desktop", "unit", "list"}              \* whole files with the declared content
Removed == {"desktop", "unit", "list", "key", "cdi"}
Privileged == {"list", "key", "nix", "cdi"}       \* backed up by `sudo cp`, with `?`

ASSUME ScenesAssumption ==
    \A scene \in Scenes : /\ scene.crew \subseteq Proc
                          /\ scene.declares \in [Component -> SUBSET Piece]
                          /\ scene.runs \in Nat /\ scene.faults \in Nat
                          /\ \A c \in Component :      \* model.rs: an AptRepo is a pair
                               "key" \in scene.declares[c] <=> "list" \in scene.declares[c]

VARIABLES
    scene,             \* the host this behaviour starts from
    file,              \* the lines of every file, or Absent
    bak,               \* every line a backup or a trash copy holds
    loaded,            \* the lines the running nix-daemon has read
    me,                \* what each process is doing
    wrote,             \* history: the files the user has written
    lost,              \* history: the files whose backup failed unnoticed
    blind,             \* history: the markers appended again over a block that could not be read
    runs, faults       \* counters behind the two bounds

hostVars == <<file, bak, loaded>>
histVars == <<wrote, lost, blind>>
vars == <<scene, file, bak, loaded, me, wrote, lost, blind, runs, faults>>

Gone == <<"gone", "nobody">>
Absent == <<Gone>>
Mine == <<"mine", "user">>
Part == <<"part", "torn">>
Ours(c) == <<"ours", c>>
Begin(m) == <<"begin", m>>
Body(c) == <<"body", c>>
End(m) == <<"end", m>>

Idle == [at |-> "idle", mode |-> "none", comp |-> "none", todo |-> <<>>, text |-> <<>>,
         bad |-> FALSE, dirty |-> FALSE, mute |-> {}, keep |-> FALSE, purge |-> FALSE]

(* apply: keyring before list, unit before enable; revert: the other way   *)
(* round, and the paths of the user last.                                  *)
ApplyOrder == <<"path", "rc", "desktop", "unit", "service", "key", "list", "nix", "restart",
                "cdi", "alt">>
RevertOrderKeyFirst == <<"path", "rc", "desktop", "service", "unit", "key", "list",      \* mutant
                         "nix", "restart", "cdi", "alt", "config", "data">>
RevertOrder == <<"path", "rc", "desktop", "service", "unit", "list", "key", "nix", "restart",
                 "cdi", "alt", "config", "data">>

(* Those of a sequence that are in a set, in their order: SelectSeq, as a  *)
(* fold that can be reasoned about.                                        *)
Filtered(seq, set) == FoldLeft(LAMBDA kept, e : IF e \in set THEN Append(kept, e) ELSE kept, <<>>, seq)

(* The pieces after a failure: `?` gives up what belongs to the same repo  *)
(* or unit and goes on with the rest.                                      *)
Together == {{"key", "list"}, {"unit", "service"}}
AfterFailure(todo) ==
    Filtered(Tail(todo), {q \in Piece : \A pair \in Together : ~({Head(todo), q} \subseteq pair)})

PieceOf(p) == Head(me[p].todo)
FileOf(p) == IF PieceOf(p) = "path" THEN "rc" ELSE PieceOf(p)
Marker(p) == IF PieceOf(p) = "path" THEN "PATH" ELSE me[p].comp
Exists(f) == file[f] # Absent
Block(m, c) == <<Begin(m), Body(c), End(m)>>

(* Where the first block of a marker begins and ends; 0 when it does not.  *)
BeginsAt(text, m) == SelectInSeq(text, LAMBDA line : line = Begin(m))
EndsAt(text, m) ==
    LET rest == SubSeq(text, BeginsAt(text, m), Len(text))
        n == SelectInSeq(rest, LAMBDA line : line = End(m))
    IN  IF n = 0 THEN 0 ELSE BeginsAt(text, m) + n - 1
HasBlock(text, m) == Contains(text, Begin(m))
After(text, m) == SubSeq(text, EndsAt(text, m) + 1, Len(text))

(* revert_shell_rc excises one paired block and nothing it is unsure of.   *)
ExcisableUnpaired(text, m) == TRUE                                               \* mutant
Excisable(text, m) == EndsAt(text, m) # 0 /\ ~HasBlock(After(text, m), m)
Excised(text, m) ==
    SubSeq(text, 1, BeginsAt(text, m) - 1)
        \o (IF EndsAt(text, m) = 0 THEN <<>> ELSE After(text, m))

Init ==
    /\ scene \in Scenes
    /\ wrote \in {{"config", "data"}, {"config", "data", "rc"}}
    /\ file = [f \in File |-> IF f \in wrote THEN <<Mine>> ELSE IF f = "rc" THEN <<>> ELSE Absent]
    /\ bak = [f \in File |-> {}]
    /\ loaded = Absent
    /\ me = [p \in Proc |-> Idle]
    /\ lost = {} /\ blind = {}
    /\ runs = 0
    /\ faults = 0
-----------------------------------------------------------------------------
Go(p, label) == me' = [me EXCEPT ![p].at = label]
Leave(p) == me' = [me EXCEPT ![p].at = "check", ![p].todo = Tail(@)]
Mute(p) == me' = [me EXCEPT ![p].at = "check", ![p].todo = Tail(@), ![p].mute = @ \cup {PieceOf(p)}]
Fails(p) == me' = [me EXCEPT ![p].at = "check", ![p].todo = AfterFailure(@), ![p].bad = TRUE]
Dies(p) == me' = [me EXCEPT ![p] = Idle]

Works == UNCHANGED faults
Fault == faults < scene.faults /\ faults' = faults + 1
Same == UNCHANGED <<hostVars, lost>>
Put(f, text) == file' = [file EXCEPT ![f] = text] /\ UNCHANGED <<bak, loaded, lost>>
Tears(p, f, texts) == Fault /\ (\E text \in texts : Put(f, text)) /\ (Fails(p) \/ Dies(p))

At(p, label, mode, pieces) ==
    /\ me[p].at = label
    /\ me[p].mode = mode
    /\ me[p].todo # <<>>
    /\ PieceOf(p) \in pieces

(* executor::apply_wiring and revert_wiring: one call for one component.   *)
Enter(p, mode, c, pieces, keep, purge) ==
    me' = [me EXCEPT ![p] = [Idle EXCEPT !.at = "check", !.mode = mode, !.comp = c,
                                         !.todo = pieces, !.keep = keep, !.purge = purge]]
NewRun == runs < scene.runs /\ runs' = runs + 1
DeclaredIn(c, order) ==
    Filtered(order, {q \in Piece : (IF q = "restart" THEN "nix" ELSE q) \in scene.declares[c]})
Apply(p) ==
    \E c \in Component : /\ scene.declares[c] # {}
                         /\ Enter(p, "apply", c, DeclaredIn(c, ApplyOrder), FALSE, FALSE)
Revert(p) ==
    \E c \in Component, keep, purge \in BOOLEAN :
        /\ scene.declares[c] # {}
        /\ {"config", "data"} \cap scene.declares[c] = {} => ~keep /\ ~purge
        /\ Enter(p, "revert", c, DeclaredIn(c, RevertOrder), keep, purge)
Return(p) ==
    /\ me[p].at = "check"
    /\ me[p].todo = <<>>
    /\ Dies(p)
    /\ UNCHANGED <<hostVars, lost, faults>>
-----------------------------------------------------------------------------
(* A copy aside before an edit: fs::copy, whose result is dropped, or      *)
(* `sudo cp`, whose failure ends the piece.                                *)
Save(p) ==
    /\ me[p].at = "save"
    /\ \/ /\ Exists(FileOf(p))
          /\ bak' = [bak EXCEPT ![FileOf(p)] = @ \cup Range(file[FileOf(p)])]
          /\ Go(p, "edit") /\ Works
          /\ UNCHANGED <<file, loaded, lost>>
       \/ /\ IF Exists(FileOf(p)) THEN Fault ELSE Works
          /\ IF PieceOf(p) \in Privileged
             THEN Fails(p) /\ Same
             ELSE /\ Go(p, "edit")
                  /\ lost' = lost \cup (IF Exists(FileOf(p)) THEN {FileOf(p)} ELSE {})
                  /\ UNCHANGED hostVars

(* apply_shell_rc: nothing to do where the marker is, else one append.  A  *)
(* file that cannot be read (an I/O error, no permission, not UTF-8) is    *)
(* taken for an empty one.                                                 *)
CheckBlock(p) ==
    /\ At(p, "check", "apply", Blocks)
    /\ \/ /\ IF Exists("rc") /\ HasBlock(file["rc"], Marker(p)) THEN Leave(p)
             ELSE Go(p, IF Exists("rc") THEN "save" ELSE "edit")
          /\ Works /\ UNCHANGED blind
       \/ /\ Exists("rc") /\ Fault
          /\ me' = [me EXCEPT ![p].at = "save", ![p].mute = @ \cup {PieceOf(p)}]
          /\ blind' = IF HasBlock(file["rc"], Marker(p)) THEN blind \cup {Marker(p)} ELSE blind
    /\ Same
AppendBlock(p) ==
    /\ At(p, "edit", "apply", Blocks)
    /\ LET text == IF Exists("rc") THEN file["rc"] ELSE <<>>
           block == Block(Marker(p), me[p].comp)
       IN  \/ Put("rc", text \o block) /\ Leave(p) /\ Works
           \/ Tears(p, "rc", {text \o SubSeq(block, 1, n) : n \in 0 .. 2})

(* revert_shell_rc: the text is read once, and written back without the    *)
(* block by a truncating write.  A file that cannot be read is left, and   *)
(* nothing reported.                                                       *)
ReadBlock(p) ==
    /\ At(p, "check", "revert", Blocks)
    /\ LET text == file["rc"] IN
       \/ /\ IF ~Exists("rc") \/ ~HasBlock(text, Marker(p)) THEN Leave(p)
             ELSE IF ~Excisable(text, Marker(p)) THEN Fails(p)
             ELSE me' = [me EXCEPT ![p].at = "save", ![p].text = text]
          /\ Works
       \/ Exists("rc") /\ Fault /\ Mute(p)
    /\ Same
Truncate(p) ==
    /\ At(p, "edit", "revert", Blocks)
    /\ \/ Put("rc", <<>>) /\ Go(p, "fill") /\ Works
       \/ Fault /\ Fails(p) /\ Same
Fill(p) ==
    /\ At(p, "fill", "revert", Blocks)
    /\ \/ Put("rc", Excised(me[p].text, Marker(p))) /\ Leave(p) /\ Works
       \/ Fault /\ Fails(p) /\ Same

(* apply_desktop, apply_systemd, the .list of apply_apt_repo: the declared *)
(* content, unless it is read there already.                               *)
CheckFile(p) ==
    /\ At(p, "check", "apply", Owned)
    /\ \/ /\ IF file[FileOf(p)] = <<Ours(me[p].comp)>> THEN Leave(p)
             ELSE Go(p, IF Exists(FileOf(p)) THEN "save" ELSE "edit")
          /\ Works
       \/ Exists(FileOf(p)) /\ Fault /\ Go(p, "save")
    /\ Same
WriteFile(p) ==
    /\ At(p, "edit", "apply", Owned)
    /\ \/ Put(FileOf(p), <<Ours(me[p].comp)>>) /\ Leave(p) /\ Works
       \/ Tears(p, FileOf(p), {file[FileOf(p)], <<Part>>})

(* revert_desktop, revert_systemd, revert_apt_repo, revert_cdi.            *)
CheckRemoval(p) ==
    /\ At(p, "check", "revert", Removed)
    /\ IF Exists(FileOf(p)) THEN Go(p, "save") ELSE Leave(p)
    /\ Works /\ Same
RemoveFile(p) ==
    /\ At(p, "edit", "revert", Removed)
    /\ \/ Put(FileOf(p), Absent) /\ Leave(p) /\ Works
       \/ Fault /\ Fails(p) /\ Same

(* systemctl --user enable and disable; their failures are dropped.        *)
Systemctl(p) ==
    /\ me[p].at = "check" /\ me[p].todo # <<>> /\ PieceOf(p) = "service"
    /\ \/ /\ Put("service", IF me[p].mode = "apply" THEN <<Ours(me[p].comp)>> ELSE Absent)
          /\ Leave(p) /\ Works
       \/ Fault /\ Mute(p) /\ Same

(* The keyring of apply_apt_repo: fetched once, dropped when the fetch     *)
(* fails; what a killed or twice failed fetch leaves is taken for whole.   *)
FetchKey(p) ==
    /\ At(p, "check", "apply", {"key"})
    /\ IF Exists("key") THEN Leave(p) /\ Works /\ Same
       ELSE \/ Put("key", <<Ours(me[p].comp)>>) /\ Go(p, "chmod") /\ Works
            \/ Tears(p, "key", {Absent, <<Part>>})
ChmodKey(p) ==
    /\ At(p, "chmod", "apply", {"key"})
    /\ \/ Leave(p) /\ Works
       \/ Fault /\ Fails(p)
    /\ Same

(* apply_nix_line and revert_nix_line, over `sudo cat` and `sudo tee`: a   *)
(* file that cannot be read is an empty one to the first and an absent one *)
(* to the second.                                                          *)
CheckLine(p) ==
    /\ At(p, "check", "apply", {"nix"})
    /\ LET text == IF Exists("nix") THEN file["nix"] ELSE <<>> IN
       \/ Put("nix", text) /\ Works
          /\ IF Contains(text, Ours(me[p].comp)) THEN Leave(p) ELSE Go(p, "save")
       \/ Fault /\ Fails(p) /\ Same
       \/ Fault /\ Put("nix", text) /\ Go(p, "save")
AppendLine(p) ==
    /\ At(p, "edit", "apply", {"nix"})
    /\ \/ /\ Put("nix", Append(file["nix"], Ours(me[p].comp)))
          /\ me' = [me EXCEPT ![p].at = "check", ![p].todo = Tail(@), ![p].dirty = TRUE]
          /\ Works
       \/ Tears(p, "nix", {file["nix"], Append(file["nix"], Part)})
ReadLines(p) ==
    /\ At(p, "check", "revert", {"nix"})
    /\ \/ /\ IF Exists("nix") /\ Contains(file["nix"], Ours(me[p].comp))
             THEN me' = [me EXCEPT ![p].at = "save", ![p].text = file["nix"]]
             ELSE Leave(p)
          /\ Works
       \/ Fault /\ Mute(p)
    /\ Same
WriteLines(p) ==
    /\ At(p, "edit", "revert", {"nix"})
    /\ \/ /\ Put("nix", Filtered(me[p].text, Range(me[p].text) \ {Ours(me[p].comp)}))
          /\ me' = [me EXCEPT ![p].at = "check", ![p].todo = Tail(@), ![p].dirty = TRUE]
          /\ Works
       \/ Tears(p, "nix", {file["nix"], <<>>})
Restart(p) ==
    /\ me[p].at = "check" /\ me[p].todo # <<>> /\ PieceOf(p) = "restart"
    /\ \/ /\ loaded' = IF me[p].dirty THEN file["nix"] ELSE loaded
          /\ Leave(p) /\ Works
       \/ me[p].dirty /\ Fault /\ Mute(p) /\ UNCHANGED loaded
    /\ UNCHANGED <<file, bak, lost>>

(* apply_cdi: a generator that fails is not a failure.                     *)
GenerateCdi(p) ==
    /\ At(p, "check", "apply", {"cdi"})
    /\ IF Exists("cdi") THEN Leave(p) /\ Works /\ Same
       ELSE \/ Put("cdi", <<Ours(me[p].comp)>>) /\ Leave(p) /\ Works
            \/ Fault /\ Fails(p) /\ Same
            \/ Fault /\ Mute(p) /\ (Same \/ Put("cdi", <<Part>>))

(* apply_alternative, whose target may not be there, and revert_alternative*)
InstallAlternative(p) ==
    /\ At(p, "check", "apply", {"alt"})
    /\ \/ Put("alt", <<Ours(me[p].comp)>>) /\ Leave(p) /\ Works
       \/ Mute(p) /\ Works /\ Same
       \/ Fault /\ Fails(p) /\ (Same \/ Put("alt", <<Ours(me[p].comp)>>))
RemoveAlternative(p) ==
    /\ At(p, "check", "revert", {"alt"})
    /\ \/ Put("alt", Absent) /\ Leave(p) /\ Works
       \/ Fault /\ Fails(p) /\ Same

(* config_paths and data_paths are renamed away, never deleted: the first  *)
(* unless --keep-config, the second only with --purge and a device that    *)
(* proves to be the declared one (guard::verify_path_uuid).                *)
Rename(f) ==
    /\ file' = [file EXCEPT ![f] = Absent]
    /\ bak' = [bak EXCEPT ![f] = @ \cup Range(file[f])]
    /\ UNCHANGED <<loaded, lost>>
MoveConfig(p) ==
    /\ At(p, "check", "revert", {"config"})
    /\ IF me[p].keep \/ ~Exists("config") THEN Leave(p) /\ Works /\ Same
       ELSE \/ Rename("config") /\ Leave(p) /\ Works
            \/ Fault /\ Fails(p) /\ Same
Verified(f) == Exists(f)      \* and what the device answers is as declared, or is not
PurgeData(p) ==
    /\ At(p, "check", "revert", {"data"})
    /\ \/ ~me[p].purge /\ Leave(p) /\ Works /\ Same
       \/ me[p].purge /\ Verified("data") /\ Rename("data") /\ Leave(p) /\ Works
       \/ me[p].purge /\ Fails(p) /\ Works /\ Same
-----------------------------------------------------------------------------
Crash(p) == me[p].at # "idle" /\ Fault /\ Dies(p) /\ Same

(* The user, or another installer, writes a file envctl edits too - but    *)
(* not between an excision's read and its write, which would lose what is  *)
(* typed to no fault of the backup.                                        *)
Rewriting(f) == \E p \in Proc : me[p].at \in {"save", "edit", "fill"} /\ FileOf(p) = f
Declared == {IF q = "path" THEN "rc" ELSE q : q \in UNION Range(scene.declares)}
UserWrites ==
    \E f \in (Declared \cap {"rc", "desktop", "unit", "list", "nix"}) \ wrote :
        /\ ~Rewriting(f)
        /\ Put(f, IF f \in {"rc", "nix"} /\ Exists(f) THEN Append(file[f], Mine) ELSE <<Mine>>)
        /\ wrote' = wrote \cup {f}
        /\ UNCHANGED <<scene, me, blind, runs, faults>>

Sighted(p) ==
    \/ Save(p) \/ AppendBlock(p) \/ ReadBlock(p) \/ Truncate(p) \/ Fill(p)
    \/ CheckFile(p) \/ WriteFile(p) \/ CheckRemoval(p) \/ RemoveFile(p) \/ Systemctl(p)
    \/ FetchKey(p) \/ ChmodKey(p) \/ CheckLine(p) \/ AppendLine(p) \/ ReadLines(p)
    \/ WriteLines(p) \/ Restart(p) \/ GenerateCdi(p) \/ InstallAlternative(p)
    \/ RemoveAlternative(p) \/ MoveConfig(p) \/ PurgeData(p)
Edits(p) == CheckBlock(p) \/ (Sighted(p) /\ UNCHANGED blind)
EditStep(p) == Edits(p) /\ UNCHANGED <<scene, wrote, runs>>
CallStep(p) ==
    /\ me[p].at = "idle"
    /\ Apply(p) \/ Revert(p)
    /\ NewRun
    /\ UNCHANGED <<scene, hostVars, histVars, faults>>
EndStep(p) == (Return(p) \/ Crash(p)) /\ UNCHANGED <<scene, wrote, blind, runs>>

Next ==
    \/ \E p \in scene.crew : EditStep(p) \/ CallStep(p) \/ EndStep(p)
    \/ UserWrites

Spec == Init /\ [][Next]_vars
-----------------------------------------------------------------------------
Line == {Gone, Mine, Part}
            \cup {<<k, m>> : k \in {"ours", "begin", "body", "end"}, m \in Component \cup {"PATH"}}
Labels == {"idle", "check", "save", "edit", "fill", "chmod"}

TypeOK ==
    /\ scene \in Scenes
    /\ \A f \in File : Range(file[f]) \subseteq Line /\ bak[f] \subseteq Line
    /\ \A p \in Proc : /\ me[p].at \in Labels
                       /\ me[p].at = "idle" <=> me[p] = Idle
                       /\ me[p].mute \subseteq Piece
                       /\ Range(me[p].todo) \subseteq Piece
    /\ lost \subseteq File /\ wrote \subseteq File /\ blind \subseteq Component \cup {"PATH"}
    /\ runs \in 0 .. scene.runs /\ faults \in 0 .. scene.faults

Solo == \A p, q \in scene.crew : p = q

(* "EVERY edit backs up before clobber" (wiring.rs:5): what the user has   *)
(* written into a file is there or in a copy, however the steps of several *)
(* processes, their crashes and their failures interleave - unless the     *)
(* copy itself failed, which apply_shell_rc and revert_shell_rc ignore.    *)
UserTextKept ==
    \A f \in wrote \ lost : Mine \in Range(file[f]) \cup bak[f]

(* revert_shell_rc writes back every line of the user it has read: what it *)
(* excises is envctl's own, also after an append was torn before its END   *)
(* (one process at a time, and no block of that marker appended over one   *)
(* that could not be read: a torn and a whole block around the user's text *)
(* pass for one).                                                          *)
ExcisesOnlyItsOwn ==
    [][\A p \in Proc : /\ Solo /\ me[p].at = "fill" /\ me'[p].at # "fill" /\ faults' = faults
                       /\ Marker(p) \notin blind
            => (Mine \in Range(me[p].text) => Mine \in Range(file'["rc"]))]_vars

(* "the only broken state is key-gone+list-present" (revert_apt_repo): one *)
(* process at a time never leaves or passes through it, whatever fails.    *)
ListHasKey == Solo /\ file["list"] \notin {Absent, <<Mine>>} => Exists("key")

Finished(p, mode) == me[p].at = "check" /\ me[p].mode = mode /\ me[p].todo = <<>> /\ ~me[p].bad

(* executor::wiring_present, by which a later fix decides whether to act.  *)
PieceIsThere(q, c) ==
    CASE q = "path" -> Exists("rc") /\ HasBlock(file["rc"], "PATH")
      [] q = "rc" -> Exists("rc") /\ HasBlock(file["rc"], c)
      [] q = "nix" -> Exists("nix") /\ Contains(file["nix"], Ours(c))
      [] q \in {"list", "cdi", "alt"} -> Exists(q)
      [] q \notin {"path", "rc", "nix", "list", "cdi", "alt"} -> TRUE

(* An apply that reports no failure leaves everything wiring_present looks *)
(* for, so that the next fix finds the component healthy; an rc file that  *)
(* could not be read, a CDI generator that failed and an alternative       *)
(* without a target are passed over.                                       *)
OkMeansWired ==
    Solo => \A p \in Proc : Finished(p, "apply") =>
        \A q \in scene.declares[me[p].comp] \ me[p].mute : PieceIsThere(q, me[p].comp)

(* A revert that reports no failure has left nothing of its component: no  *)
(* block, no line, no file, torn or whole; systemctl's answers, and an rc  *)
(* file or a nix.custom.conf that cannot be read, are passed over.         *)
OkMeansUnwired ==
    Solo => \A p \in Proc : Finished(p, "revert") =>
        \A q \in scene.declares[me[p].comp] \ me[p].mute :
            LET f == IF q = "path" THEN "rc" ELSE q
                m == IF q = "path" THEN "PATH" ELSE me[p].comp
            IN  q \in Blocks \cup Removed \cup {"service", "nix", "alt"} =>
                    {Begin(m), Ours(me[p].comp)} \cap Range(file[f]) = {}

(* What apply and revert report is what they left, and no failure between  *)
(* two files of one piece leaves apt a list without its key.               *)
ReportsAreTrue == ListHasKey /\ OkMeansWired /\ OkMeansUnwired
=============================================================================
