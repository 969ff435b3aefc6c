------------------------------- MODULE Guards -------------------------------
(***************************************************************************)
(* The guards of a destructive component that name a file system           *)
(* (engine/src/guard.rs), for every set of them and everything the host    *)
(* may answer.  The other two kinds, a path and a hook, refuse or pass as  *)
(* the host likes.                                                         *)
(***************************************************************************)
Guard == {"uuidResolves", "notLiveDevice", "notMounted"}

(* What is true of the file system, and which of the tools answer.         *)
HostFacts ==
    {f \in [isRoot    : BOOLEAN,     \* it is the live root
            mounted   : BOOLEAN,     \* it is mounted somewhere
            resolves  : BOOLEAN,     \* blkid finds its device
            rereads   : BOOLEAN,     \* blkid reads the same UUID off that device
            rootKnown : BOOLEAN,     \* findmnt named the live root when the run began
            findmnt   : BOOLEAN,     \* findmnt is installed
            answers   : BOOLEAN] :   \* findmnt answers now
       /\ f.isRoot => f.mounted
       /\ f.rereads => f.resolves
       /\ f.answers => f.findmnt}

(* check_one.                                                              *)
RefusesOnMatchOnly(guard, f) ==                                         \* mutant
    CASE guard = "uuidResolves"  -> ~f.rereads
      [] guard = "notLiveDevice" -> f.isRoot /\ f.resolves /\ f.answers
      [] guard = "notMounted"    -> ~f.findmnt \/ (f.mounted /\ f.answers)
Refuses(guard, f) ==
    CASE guard = "uuidResolves"  -> ~f.rereads
      [] guard = "notLiveDevice" -> \/ f.isRoot /\ (f.rootKnown \/ (f.resolves /\ f.answers))
                                    \/ ~f.resolves
      [] guard = "notMounted"    -> ~f.findmnt \/ (f.mounted /\ f.answers)

(* check_guards: the hook runs only if every guard passes.                 *)
Passes(guards, f) == \A g \in guards : ~Refuses(g, f)

(* What a guard is there to keep from happening.  A findmnt that fails     *)
(* both times, or fails to list a mount, is not noticed.                   *)
Forbids(guard, f) ==
    CASE guard = "uuidResolves"  -> ~f.resolves
      [] guard = "notLiveDevice" -> f.isRoot /\ (f.rootKnown \/ f.answers)
      [] guard = "notMounted"    -> f.mounted /\ (f.answers \/ ~f.findmnt)

(* The sets of guards that let a hook through to what one of them forbids. *)
Harm ==
    {guards \in SUBSET Guard :
       \E f \in HostFacts : Passes(guards, f) /\ \E g \in guards : Forbids(g, f)}
=============================================================================
