------------------------------ MODULE AgentConfig ------------------------------
(***************************************************************************)
(* The edits `agent add` and `agent remove` make to the config             *)
(* (agent-env/src/config_edit.rs, engine/src/agent/edit.rs), as what they  *)
(* do to the entries of its three lists.  A config has at most one entry   *)
(* of a source in a list, a "*" or some names; the lines around the        *)
(* entries, which the edits copy byte for byte, are left out.              *)
(***************************************************************************)
EXTENDS AgentAssets

(* One selector for each list, {} where the list is not touched.           *)
Selector == [Kind -> SUBSET Name]
Edited(sel) == {k \in Kind : sel[k] # {}}
Nothing == [k \in Kind |-> {}]
Selected(s, sel) == {a \in Asset : a.source = s /\ a.name \in sel[a.kind]}
EntryNames(config, s) == [k \in Kind |-> {a.name : a \in {b \in config : b.kind = k /\ b.source = s}}]

(* item_exists and find_match.                                             *)
ItemExists(config, k, s) == s \in Listed(config, k)

(* plan_add_edits: an entry for each list that was named, and with none    *)
(* named all the skills.                                                   *)
PlanAddEdits(s) ==
    {sel \in Selector : sel # Nothing /\ (s \in Wild => \A k \in Kind : sel[k] \in {{}, Name})}

(* verify_source: the source is fetched and must provide the skills named. *)
Verified(s, sel, provided) == sel["skill"] # {} /\ s \notin Wild => sel["skill"] \subseteq provided

(* insert_item, once for each list.                                        *)
MayInsert(config, s, sel) == \A k \in Edited(sel) : ~ItemExists(config, k, s)
Inserted(config, s, sel) == config \cup Selected(s, sel)

(* remove_names: of a "*" nothing can be taken but the whole entry, of a   *)
(* list only names it has; the last one takes the entry with it.           *)
MayRemoveNames(config, k, s, names) ==
    /\ ItemExists(config, k, s)
    /\ names \subseteq EntryNames(config, s)[k]
    /\ s \in Wild => names = EntryNames(config, s)[k]

(* remove_by_kind refuses when one of the lists does; remove_whole_source  *)
(* takes the lists as they are, and refuses when none has the source.      *)
RemoveByKind(config, s) ==
    {sel \in Selector : sel # Nothing /\ \A k \in Edited(sel) : MayRemoveNames(config, k, s, sel[k])}
RemoveWholeSource(config, s) == {EntryNames(config, s)} \ {Nothing}
Removed(config, s, sel) == config \ Selected(s, sel)
================================================================================
