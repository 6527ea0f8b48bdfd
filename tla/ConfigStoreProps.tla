-------------------------- MODULE ConfigStoreProps --------------------------
(***************************************************************************)
(* What may be relied on of openclaw.json although its writers take no     *)
(* lock and do not replace it atomically.                                  *)
(***************************************************************************)
EXTENDS ConfigStore

(* Types; what a manager or a merge is about to write has no key under     *)
(* agents that the gateway refuses at its start.                           *)
TypeOK ==
  /\ file \in Contents
  /\ cache \in Catalogs \cup {None}
  /\ backups \in [Runs -> Contents]
  /\ run \in [Runs -> RunState]
  /\ landed \in SUBSET Runs /\ lost \in SUBSET Runs /\ held \in Contents
  /\ \A r \in Runs : run[r].pc \in {"open", "write"} =>
       /\ run[r].cmd.kind = "switch" => "list" \notin run[r].doc.extra
       /\ run[r].cmd.kind \in {"repair", "deploy"} => run[r].doc.extra = {}

(* The default model is in the list of models, under its key or as it is   *)
(* written there (the shipped defaults): a switch or an import that loses  *)
(* the race for the file loses both or neither.                            *)
Whole(content) == content.text # "torn"
Configured(doc) ==
  doc.default # None => \E id \in IdsOf(doc) : doc.default \in {id, Key(id)}
DefaultConfigured == Whole(file) => Configured(file.doc)

(* No write loses an agent of the index, whatever was cut short or ran     *)
(* beside it: a file that cannot be read is never taken for an empty one,  *)
(* and a merge that repairs leaves agents.list alone where there is no     *)
(* dictionary of entries (merge-openclaw-config.py:130).  Where there is   *)
(* one, the repair drops the agents that were in the list only, and they   *)
(* are all that any file may lack, once a repair has landed.               *)
Index(doc) == doc.entries.agents \cup (IF "list" \in doc.extra THEN doc.listed ELSE {})
OnlyListed(doc) ==
  IF "list" \in doc.extra /\ doc.entries.shape = "dict"
    THEN doc.listed \ doc.entries.agents ELSE {}

Repairs(cmd) == cmd.kind = "repair" \/ (cmd.kind = "deploy" /\ cmd.repair)
Inputs == InitDocs \cup {DeepMerge(Template, c.over) : c \in {d \in Commands : d.kind = "deploy"}}
Exposed == UNION {OnlyListed(doc) : doc \in Inputs}
Repaired == \E r \in landed : Repairs(run[r].cmd)
IndexKept ==
  Whole(file) => Agents \ Index(file.doc) \subseteq (IF Repaired THEN Exposed ELSE {})

(* The first configs and what a deploy merges are sound in these two       *)
(* respects.                                                               *)
Fit(doc) == Configured(doc) /\ Index(doc) = Agents
ASSUME InputsAssumption == \A doc \in Inputs : Fit(doc)

(* A change that was reported done is in the file, as long as the file can *)
(* be read, unless a command that had read the file (or, a deploy, its own *)
(* inputs) before wrote it later.                                          *)
Holds(state, doc) ==
  /\ state.cmd.kind \in {"switch", "import"} => state.id \in IdsOf(doc)
  /\ state.cmd.kind = "guilds" => state.cmd.channel \in doc.channels
  /\ state.cmd.kind = "repair" => "list" \notin doc.extra
KeptUnlessRaced ==
  Whole(file) => \A r \in landed \ lost : Holds(run[r], file.doc)

(* While the file cannot be read, what it held last is in a backup that a  *)
(* switch took: unless a command that takes none opened it and has not     *)
(* written it to the end, or another command opened or wrote the file      *)
(* between a command's backup (or reading) and its own write, or two       *)
(* switches of the same second shared a backup's name.                     *)
SharedName == \E r, s \in Runs : r # s /\ run[r].name = run[s].name /\ run[r].name # None
Unsaved(r) == run[r].pc \in {"write", "cut"} /\ run[r].cmd.kind # "switch"
BackupSaves ==
  \/ Whole(file) \/ SharedName
  \/ \E r \in Runs : Unsaved(r) \/ run[r].raced
  \/ \E r \in Runs : run[r].name # None /\ backups[run[r].name] = held

(* Merging the same overrides into the result, as the next deploy may,     *)
(* changes nothing further.                                                *)
MergeSettles ==
  \A r \in Runs : run[r].pc = "open" /\ run[r].cmd.kind = "deploy" =>
    LET doc == run[r].doc
    IN  PlanMerge(DeepMerge(doc, run[r].cmd.over), run[r].cmd.repair) = {doc}
=============================================================================
