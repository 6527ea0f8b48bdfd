------------------------- MODULE ConfigStoreProofs -------------------------
(***************************************************************************)
(* Proofs about the writers of openclaw.json, for any number of commands,  *)
(* models, agents, bindings and channels.                                  *)
(***************************************************************************)
EXTENDS ConfigStoreProps, TLAPS
-----------------------------------------------------------------------------
(* What the commands make of a document.                                   *)

(* The new document keeps what other commands have put into the old one.   *)
Carries(old, new) ==
  /\ new \in Doc
  /\ IdsOf(old) \subseteq IdsOf(new)
  /\ old.channels \subseteq new.channels
  /\ Configured(old) => Configured(new)
  /\ new.entries = old.entries /\ new.extra \subseteq old.extra
  /\ "list" \in new.extra => new.listed = old.listed
  /\ "list" \in old.extra \ new.extra => old.entries.shape = "dict"

(* An id and its key have their types. *)
LEMMA KeyType == ASSUME NEW id \in Ids PROVE Key(id) \in Keys
  BY DEF Ids, Keys, Key

(* So has the id that a key stands for. *)
LEMMA StripType == ASSUME NEW key \in Keys PROVE Strip(key) \in Ids
  BY DEF Ids, Keys, Strip

(* The configured ids have their type. *)
LEMMA IdsOfType == ASSUME NEW doc \in Doc PROVE IdsOf(doc) \subseteq Ids
  BY DEF Doc, IdsOf

(* A model is added without losing another, and nothing else changes.      *)
LEMMA WithAdds ==
  ASSUME NEW doc \in Doc, NEW model \in [id : Ids, unit : {"token", "million"}]
  PROVE  LET new == With(doc, model)
         IN  /\ new \in Doc /\ IdsOf(new) = IdsOf(doc) \cup {model.id}
             /\ new.default = doc.default /\ new.entries = doc.entries
             /\ new.listed = doc.listed /\ new.extra = doc.extra
             /\ new.channels = doc.channels
<1>1. With(doc, model).models = {m \in doc.models : m.id # model.id} \cup {model}
  BY DEF With, Doc
<1>2. With(doc, model) \in Doc
  BY <1>1 DEF With, Doc
<1>3. IdsOf(With(doc, model)) = IdsOf(doc) \cup {model.id}
  BY <1>1 DEF IdsOf
<1> QED BY <1>2, <1>3 DEF With, Doc

(* A default that is configured may be set. *)
LEMMA DefaultCarries ==
  ASSUME NEW doc \in Doc, NEW id \in IdsOf(doc)
  PROVE  /\ Carries(doc, WithDefault(doc, id)) /\ IdsOf(WithDefault(doc, id)) = IdsOf(doc)
         /\ WithDefault(doc, id).extra = doc.extra
<1> DEFINE new == WithDefault(doc, id)
<1>1. id \in Ids
  BY IdsOfType
<1>2. new \in Doc
  BY <1>1, KeyType DEF WithDefault, Doc
<1>3. /\ new.models = doc.models /\ new.default = Key(id) /\ new.entries = doc.entries
      /\ new.listed = doc.listed /\ new.extra = doc.extra /\ new.channels = doc.channels
  BY DEF WithDefault, Doc
<1>4. IdsOf(new) = IdsOf(doc)
  BY <1>3 DEF IdsOf
<1> QED BY <1>2, <1>3, <1>4 DEF Carries, Configured

(* With adds without harm. *)
LEMMA WithCarries ==
  ASSUME NEW doc \in Doc, NEW model \in [id : Ids, unit : {"token", "million"}]
  PROVE  /\ Carries(doc, With(doc, model)) /\ model.id \in IdsOf(With(doc, model))
         /\ With(doc, model).extra = doc.extra
  BY WithAdds DEF Carries, Configured

(* What one change after another carries, both carry. *)
LEMMA CarriesOn ==
  ASSUME NEW a, NEW b, NEW c, Carries(a, b), Carries(b, c) PROVE Carries(a, c)
  BY DEF Carries

(* A document carries itself. *)
LEMMA CarriesSelf == ASSUME NEW doc \in Doc PROVE Carries(doc, doc)
  BY DEF Carries

(* A switch keeps what it read and configures its model. *)
LEMMA SwitchedCarries ==
  ASSUME NEW doc \in Doc, NEW id \in Ids
  PROVE  /\ Carries(doc, Switched(doc, id)) /\ id \in IdsOf(Switched(doc, id))
         /\ Switched(doc, id).extra = doc.extra
<1> DEFINE added == IF id \in IdsOf(doc) THEN doc ELSE With(doc, Added(id))
<1>1. Added(id) \in [id : Ids, unit : {"token", "million"}] /\ Added(id).id = id
  BY DEF Added
<1>2. Carries(doc, added) /\ id \in IdsOf(added) /\ added.extra = doc.extra
  BY <1>1, WithCarries, CarriesSelf
<1>3. added \in Doc
  BY <1>2 DEF Carries
<1> HIDE DEF added
<1>4. /\ Carries(added, WithDefault(added, id))
      /\ IdsOf(WithDefault(added, id)) = IdsOf(added)
      /\ WithDefault(added, id).extra = added.extra
  BY <1>2, <1>3, DefaultCarries
<1>5. Switched(doc, id) = WithDefault(added, id)
  BY DEF Switched, added
<1> QED BY <1>2, <1>4, <1>5, CarriesOn

(* So does an import. *)
LEMMA ImportedCarries ==
  ASSUME NEW doc \in Doc, NEW cmd \in ImportCmd
  PROVE  /\ Carries(doc, Imported(doc, cmd)) /\ cmd.id \in IdsOf(Imported(doc, cmd))
         /\ Imported(doc, cmd).extra = doc.extra
<1> DEFINE added   == With(doc, Mapped(cmd.id))
           aliased == IF cmd.alias = None THEN added ELSE WithAlias(added, cmd.id, cmd.alias)
<1>1. /\ Mapped(cmd.id) \in [id : Ids, unit : {"token", "million"}]
      /\ Mapped(cmd.id).id = cmd.id /\ cmd.id \in Ids
  BY DEF Mapped, ImportCmd
<1>2. /\ Carries(doc, added) /\ cmd.id \in IdsOf(added) /\ added \in Doc
      /\ added.extra = doc.extra
  BY <1>1, WithCarries DEF Carries
<1> HIDE DEF added
<1>3. ASSUME cmd.alias # None
      PROVE  /\ Carries(added, WithAlias(added, cmd.id, cmd.alias))
             /\ IdsOf(WithAlias(added, cmd.id, cmd.alias)) = IdsOf(added)
             /\ WithAlias(added, cmd.id, cmd.alias).extra = added.extra
  <2> DEFINE new == WithAlias(added, cmd.id, cmd.alias)
  <2>1. cmd.alias \in Aliases /\ Key(cmd.id) \in Keys
    BY <1>1, <1>3, KeyType DEF ImportCmd
  <2>2. new.alias = {a \in added.alias : a.key # Key(cmd.id)}
                      \cup {[key |-> Key(cmd.id), alias |-> cmd.alias]}
    BY <1>2 DEF WithAlias, Doc
  <2>3. new \in Doc
    BY <1>2, <2>1, <2>2 DEF WithAlias, Doc
  <2>4. /\ new.models = added.models /\ new.default = added.default
        /\ new.entries = added.entries /\ new.listed = added.listed
        /\ new.extra = added.extra /\ new.channels = added.channels
    BY <1>2 DEF WithAlias, Doc
  <2> HIDE DEF new
  <2> QED BY <2>3, <2>4 DEF Carries, Configured, IdsOf, new
<1>4. /\ Carries(doc, aliased) /\ cmd.id \in IdsOf(aliased) /\ aliased \in Doc
      /\ aliased.extra = doc.extra
  BY <1>2, <1>3, CarriesOn DEF Carries
<1>5. Imported(doc, cmd) = IF cmd.setDefault THEN WithDefault(aliased, cmd.id) ELSE aliased
  BY DEF Imported, aliased, added
<1> HIDE DEF aliased
<1> QED BY <1>4, <1>5, DefaultCarries, CarriesOn

(* And the guilds. *)
LEMMA BoundCarries ==
  ASSUME NEW doc \in Doc, NEW cmd \in GuildsCmd
  PROVE  /\ Carries(doc, Bound(doc, cmd)) /\ cmd.channel \in Bound(doc, cmd).channels
         /\ Bound(doc, cmd).extra = doc.extra
<1> DEFINE new == Bound(doc, cmd)
<1>1. new \in Doc /\ new.channels = doc.channels \cup {cmd.channel}
  BY DEF Bound, Doc, GuildsCmd
<1>2. /\ new.models = doc.models /\ new.default = doc.default /\ new.entries = doc.entries
      /\ new.listed = doc.listed /\ new.extra = doc.extra
  BY DEF Bound, Doc
<1> HIDE DEF new
<1> QED BY <1>1, <1>2 DEF Carries, Configured, IdsOf, new

(* A repair drops agents.list where the entries carry its agents.          *)
LEMMA RepairCarries == ASSUME NEW doc \in Doc PROVE Carries(doc, Repair(doc))
<1>1. CASE ~("list" \in doc.extra /\ doc.entries.shape = "dict")
  BY <1>1, CarriesSelf DEF Repair
<1>2. CASE "list" \in doc.extra /\ doc.entries.shape = "dict"
  <2> DEFINE new == [doc EXCEPT !.extra = @ \ {"list"}, !.listed = {}]
  <2>1. Repair(doc) = new
    BY <1>2 DEF Repair
  <2>2. new \in Doc /\ new.extra = doc.extra \ {"list"}
    BY DEF Doc
  <2>3. /\ new.models = doc.models /\ new.default = doc.default
        /\ new.entries = doc.entries /\ new.channels = doc.channels
    BY DEF Doc
  <2> HIDE DEF new
  <2> QED BY <1>2, <2>1, <2>2, <2>3 DEF Carries, Configured, IdsOf
<1> QED BY <1>1, <1>2
-----------------------------------------------------------------------------
(* Commands. *)

(* A command's kind says what it is. *)
LEMMA Kinds ==
  ASSUME NEW c \in Commands
  PROVE  /\ c.kind \in {"switch", "import", "guilds", "repair", "deploy"}
         /\ c.kind = "switch" => c \in SwitchCmd
         /\ c.kind = "import" => c \in ImportCmd
         /\ c.kind = "guilds" => c \in GuildsCmd
         /\ c.kind = "deploy" => c \in DeployCmd
  BY ConfigAssumption DEF SwitchCmd, ImportCmd, GuildsCmd, RepairCmd, DeployCmd

(* What a merge lets pass has no key that it does not recognise.           *)
LEMMA PlanMergeSound ==
  ASSUME NEW doc \in Doc, NEW repair \in BOOLEAN, NEW d \in PlanMerge(doc, repair)
  PROVE  d.extra = {} /\ Carries(doc, d) /\ (~repair => d = doc)
<1>1. d = IF repair THEN Repair(doc) ELSE doc
  BY DEF PlanMerge
<1>2. d.extra = {}
  BY DEF PlanMerge, SchemaErrors
<1> QED BY <1>1, <1>2, RepairCarries, CarriesSelf

(* What a command makes of the file carries the file, and has its effect.  *)
LEMMA PlanSound ==
  ASSUME NEW doc \in Doc, NEW c \in Commands, c.kind # "deploy", NEW d \in Plan(doc, c)
  PROVE  /\ Carries(doc, d)
         /\ c.kind = "import" => c.id \in IdsOf(d)
         /\ c.kind = "guilds" => c.channel \in d.channels
         /\ IF c.kind = "repair" THEN d.extra = {} ELSE d.extra = doc.extra
<1>1. CASE c.kind = "import"
  <2>1. Plan(doc, c) = PlanImport(doc, c)
    BY <1>1 DEF Plan
  <2> QED BY <1>1, <2>1, Kinds, ImportedCarries DEF PlanImport
<1>2. CASE c.kind = "guilds"
  <2>1. Plan(doc, c) = {Bound(doc, c)}
    BY <1>2 DEF Plan
  <2> QED BY <1>2, <2>1, Kinds, BoundCarries
<1>3. CASE c.kind = "repair"
  <2>1. Plan(doc, c) = PlanMerge(doc, TRUE)
    BY <1>3 DEF Plan
  <2> QED BY <1>3, <2>1, PlanMergeSound
<1>4. CASE c.kind = "switch"
  <2>1. Plan(doc, c) = {doc}
    BY <1>4 DEF Plan
  <2> QED BY <1>4, <2>1, CarriesSelf
<1> QED BY <1>1, <1>2, <1>3, <1>4, Kinds

(* Merging overrides yields a document, and merging them again changes it  *)
(* no further.                                                             *)
EntriesType == [shape : {"none", "dict", "list"}, agents : SUBSET Agents]
LEMMA MergeEntriesSound ==
  ASSUME NEW base \in EntriesType, NEW over \in EntriesType
  PROVE  LET new == MergeEntries(base, over)
         IN  new \in EntriesType /\ MergeEntries(new, over) = new
<1>1. CASE over.shape = "none"
  BY <1>1 DEF MergeEntries
<1>2. CASE over.shape # "none" /\ over.shape = base.shape
  <2> DEFINE new == [shape |-> over.shape, agents |-> base.agents \cup over.agents]
  <2>1. MergeEntries(base, over) = new /\ new \in EntriesType
    BY <1>2 DEF MergeEntries, EntriesType
  <2>2. MergeEntries(new, over) =
          [shape |-> over.shape, agents |-> new.agents \cup over.agents]
    BY <1>2 DEF MergeEntries
  <2>3. new.agents \cup over.agents = new.agents
    OBVIOUS
  <2> QED BY <2>1, <2>2, <2>3
<1>3. CASE over.shape # "none" /\ over.shape # base.shape
  <2>1. MergeEntries(base, over) = over
    BY <1>3 DEF MergeEntries
  <2>2. MergeEntries(over, over) = [shape |-> over.shape, agents |-> over.agents \cup over.agents]
    BY <1>3 DEF MergeEntries
  <2>3. over = [shape |-> over.shape, agents |-> over.agents]
    BY DEF EntriesType
  <2> QED BY <2>1, <2>2, <2>3
<1> QED BY <1>1, <1>2, <1>3

LEMMA DeepMergeSound ==
  ASSUME NEW doc \in Doc, NEW over \in Overrides
  PROVE  LET new == DeepMerge(doc, over)
         IN  /\ new \in Doc
             /\ new.models = OverrideWins(doc.models, over.models)
             /\ new.default = OverrideWins(doc.default, over.default)
             /\ new.entries = MergeEntries(doc.entries, over.entries)
             /\ new.bindings = MergeBindings(doc.bindings, over.bindings)
             /\ new.extra = doc.extra
<1> DEFINE new == DeepMerge(doc, over)
<1>1. /\ new.models = OverrideWins(doc.models, over.models)
      /\ new.default = OverrideWins(doc.default, over.default)
      /\ new.entries = MergeEntries(doc.entries, over.entries)
      /\ new.bindings = MergeBindings(doc.bindings, over.bindings)
      /\ new.extra = doc.extra
  BY DEF DeepMerge, Doc
<1>2. OverrideWins(doc.models, over.models) \in SUBSET [id : Ids, unit : {"token", "million"}]
  BY DEF OverrideWins, Overrides, Doc
<1>3. OverrideWins(doc.default, over.default) \in Keys \cup {None}
  BY DEF OverrideWins, Overrides, Doc
<1>4. MergeEntries(doc.entries, over.entries) \in EntriesType
  BY MergeEntriesSound DEF EntriesType, Overrides, Doc
<1>5. MergeBindings(doc.bindings, over.bindings) \in SUBSET Bindings
  <2>1. doc.bindings \in SUBSET Bindings /\ over.bindings \in {None} \cup SUBSET Bindings
    BY DEF Doc, Overrides
  <2> QED BY <2>1 DEF MergeBindings, MergeIdentityList
<1>6. new \in Doc
  BY <1>2, <1>3, <1>4, <1>5 DEF DeepMerge, Doc, EntriesType
<1> QED BY <1>1, <1>6

LEMMA DeepMergeSettles ==
  ASSUME NEW doc \in Doc, NEW over \in Overrides
  PROVE  DeepMerge(DeepMerge(doc, over), over) = DeepMerge(doc, over)
<1> DEFINE new == DeepMerge(doc, over)
<1>1. /\ new \in Doc
      /\ new.models = OverrideWins(doc.models, over.models)
      /\ new.default = OverrideWins(doc.default, over.default)
      /\ new.entries = MergeEntries(doc.entries, over.entries)
      /\ new.bindings = MergeBindings(doc.bindings, over.bindings)
  BY DeepMergeSound
<1> HIDE DEF new
<1>2. OverrideWins(new.models, over.models) = new.models
  BY <1>1 DEF OverrideWins
<1>3. OverrideWins(new.default, over.default) = new.default
  BY <1>1 DEF OverrideWins
<1>4. MergeEntries(new.entries, over.entries) = new.entries
  <2>1. doc.entries \in EntriesType /\ over.entries \in EntriesType
    BY DEF EntriesType, Doc, Overrides
  <2> QED BY <1>1, <2>1, MergeEntriesSound
<1>5. MergeBindings(new.bindings, over.bindings) = new.bindings
  BY <1>1 DEF MergeBindings, MergeIdentityList
<1>6. DeepMerge(new, over) = new
  BY <1>1, <1>2, <1>3, <1>4, <1>5 DEF DeepMerge, Doc
<1> QED BY <1>6 DEF new

(* A deploy whose result was let pass would make the same of it again.     *)
LEMMA PlanSettles ==
  ASSUME NEW over \in Overrides, NEW repair \in BOOLEAN,
         NEW d \in PlanMerge(DeepMerge(Template, over), repair)
  PROVE  PlanMerge(DeepMerge(d, over), repair) = {d}
<1> DEFINE merged == DeepMerge(Template, over)
<1>1. merged \in Doc /\ DeepMerge(merged, over) = merged
  BY ConfigAssumption, DeepMergeSound, DeepMergeSettles
<1>2. d \in {IF repair THEN Repair(merged) ELSE merged} /\ d.extra = {} /\ d \in Doc
  BY <1>1, PlanMergeSound DEF PlanMerge, Carries
<1>3. /\ d.models = merged.models /\ d.default = merged.default
      /\ d.entries = merged.entries /\ d.bindings = merged.bindings
  BY <1>1, <1>2 DEF Repair, Doc
<1> HIDE DEF merged
<1>4. DeepMerge(d, over) = d
  <2> DEFINE again(doc) ==
        /\ OverrideWins(doc.models, over.models) = doc.models
        /\ OverrideWins(doc.default, over.default) = doc.default
        /\ MergeEntries(doc.entries, over.entries) = doc.entries
        /\ MergeBindings(doc.bindings, over.bindings) = doc.bindings
  <2>1. again(merged)
    BY <1>1, DeepMergeSound
  <2>2. again(d)
    BY <1>3, <2>1
  <2> QED BY <1>2, <2>2 DEF DeepMerge, Doc
<1>5. Repair(d) = d
  BY <1>2 DEF Repair
<1> QED BY <1>2, <1>4, <1>5 DEF PlanMerge, SchemaErrors
-----------------------------------------------------------------------------
(* Of the index: the agents that a document lacks, and what a repair may   *)
(* take from it, are among those that some input exposes.                  *)
Short(doc) == Agents \ Index(doc)
Sound(doc) == Configured(doc) /\ Short(doc) \cup OnlyListed(doc) \subseteq Exposed

(* What carries a document lacks no more than a repair may take from it.   *)
LEMMA IndexCarries ==
  ASSUME NEW old, NEW new, Carries(old, new)
  PROVE  /\ Sound(old) => Sound(new)
         /\ new.extra = old.extra => Short(new) = Short(old)
<1>1. Short(new) \subseteq Short(old) \cup OnlyListed(old)
  BY DEF Carries, Short, Index, OnlyListed
<1>2. OnlyListed(new) \subseteq OnlyListed(old)
  BY DEF Carries, OnlyListed
<1>3. new.extra = old.extra => Short(new) = Short(old)
  BY DEF Carries, Short, Index
<1> QED BY <1>1, <1>2, <1>3 DEF Sound, Carries

(* An input lacks no agent. *)
LEMMA InputsSound ==
  ASSUME NEW doc \in Inputs PROVE Sound(doc) /\ Short(doc) = {}
<1>1. Fit(doc)
  BY InputsAssumption
<1>2. OnlyListed(doc) \subseteq Exposed
  BY DEF Exposed
<1> QED BY <1>1, <1>2 DEF Sound, Fit, Short

(* The invariant: what is known of one command, ...                        *)
Reads(w) == w.pc \in {"resolve", "add", "backup", "open", "write"}
Planned(w) == w.pc \in {"backup", "open", "write"}

Good(w) ==
  /\ w.pc # "idle" => w.cmd \in Commands
  /\ w.pc \in {"idle", "fetch", "load", "resolve", "add", "backup"} => w.name = None
  /\ w.pc = "fetch" => w.cmd.kind = "import"
  /\ w.pc \in {"resolve", "add", "backup"} => w.cmd.kind = "switch"
  /\ w.pc = "add" => w.id \in Ids
  /\ w.pc # "idle" /\ w.cmd.kind = "import" => w.id = w.cmd.id
  /\ Reads(w) => Sound(w.doc)
  /\ Planned(w) => Holds(w, w.doc)
  /\ Planned(w) /\ w.cmd.kind = "switch" => "list" \notin w.doc.extra
  /\ Planned(w) /\ w.cmd.kind \in {"repair", "deploy"} => w.doc.extra = {}
  /\ w.pc = "open" /\ w.cmd.kind = "switch" => w.name # None
  /\ w.pc = "open" /\ w.cmd.kind = "deploy" =>
       w.doc \in PlanMerge(DeepMerge(Template, w.cmd.over), w.cmd.repair)

(* ... of the changes that nobody has dropped and of the index, ...        *)
Kept ==
  /\ \A r \in landed : run[r].pc = "done"
  /\ Whole(file) => Sound(file.doc) /\ \A r \in landed \ lost : Holds(run[r], file.doc)
  /\ \A t \in Runs : Reads(run[t]) =>
       \A r \in (landed \ lost) \ run[t].unseen : Holds(run[r], run[t].doc)
Complete ==
  /\ Whole(file) => Short(file.doc) = {} \/ Repaired
  /\ \A t \in Runs : Reads(run[t]) =>
       Short(run[t].doc) = {} \/ Repairs(run[t].cmd) \/ Repaired

(* ... and of the backups: a switch that is about to open the file has it  *)
(* in its backup.                                                          *)
Marks(w) == (w.mixed => w.raced) /\ (w.pc = "idle" => ~w.raced)
SavedBy(r) == run[r].name # None /\ backups[run[r].name] = held
Ready(r) == run[r].pc = "open" /\ run[r].cmd.kind = "switch"
Excused == SharedName \/ \E r \in Runs : Unsaved(r) \/ run[r].raced
Safe ==
  /\ Whole(file) => held = file
  /\ Whole(file) \/ \E r \in Runs : SavedBy(r)
  /\ Whole(file) => \A r \in Runs : Ready(r) => SavedBy(r)
Saved == (\A r \in Runs : Marks(run[r])) /\ (Excused \/ Safe)

Types ==
  /\ file \in Contents
  /\ cache \in Catalogs \cup {None}
  /\ backups \in [Runs -> Contents]
  /\ run \in [Runs -> RunState]
  /\ landed \in SUBSET Runs /\ lost \in SUBSET Runs /\ held \in Contents

IInv == Types /\ (\A r \in Runs : Good(run[r])) /\ Kept /\ Complete /\ Saved

(* What holds of one document holds of all that carry it.                  *)
LEMMA HoldsOn ==
  ASSUME NEW w, NEW old, NEW new, Carries(old, new), Holds(w, old)
  PROVE  Holds(w, new)
  BY DEF Carries, Holds

(* A run's effect depends on its command and its model only.               *)
LEMMA HoldsSame ==
  ASSUME NEW v, NEW w, NEW doc, v.cmd = w.cmd, v.id = w.id, Holds(v, doc)
  PROVE  Holds(w, doc)
  BY DEF Holds

(* The invariant at the start. *)
LEMMA InitSound == Init => IInv
<1> SUFFICES ASSUME Init PROVE IInv
  OBVIOUS
<1> USE ConfigAssumption DEF Init
<1>1. Idle \in RunState
  BY DEF Idle, RunState
<1>2. Torn \in Contents /\ file \in Contents
  BY DEF Torn, Contents
<1>3. Types
  BY <1>1, <1>2 DEF Types
<1>4. \A r \in Runs : run[r] = Idle
  OBVIOUS
<1>5. Good(Idle)
  BY DEF Good, Idle, Reads, Planned
<1>6. Kept
  <2>1. file.doc \in Inputs
    BY DEF Inputs
  <2> QED BY <1>4, <2>1, InputsSound DEF Kept, Idle, Reads
<1>7. Complete
  <2>1. file.doc \in Inputs
    BY DEF Inputs
  <2> QED BY <1>4, <2>1, InputsSound DEF Complete, Idle, Reads
<1>8. Saved
  BY <1>4 DEF Saved, Safe, Marks, Ready, Idle, Whole
<1> QED BY <1>3, <1>4, <1>5, <1>6, <1>7, <1>8 DEF IInv
-----------------------------------------------------------------------------
(* Steps of one run that leave the file and the backups alone.             *)
Quiet(r, w) ==
  /\ w \in RunState /\ Good(w)
  /\ w.name = run[r].name
  /\ run[r].pc # "done"
  /\ run[r].pc \in {"write", "cut"} => w.pc \in {"write", "cut"} /\ w.cmd = run[r].cmd
  /\ Marks(w) /\ (run[r].raced => w.raced)
  /\ w.pc = "open" => w.cmd.kind # "switch"
  /\ Reads(w) => Short(w.doc) = {} \/ Repairs(w.cmd) \/ Repaired
  /\ Reads(w) => \A s \in (landed \ lost) \ w.unseen : Holds(run[s], w.doc)

LEMMA QuietStep ==
  ASSUME IInv, NEW r \in Runs, NEW w, Quiet(r, w), Set(r, w),
         cache' \in Catalogs \cup {None}, UNCHANGED <<file, backups, landed, lost, held>>
  PROVE  IInv'
<1>1. Types /\ Kept /\ Complete /\ Saved /\ \A s \in Runs : Good(run[s])
  BY DEF IInv
<1>2. /\ run \in [Runs -> RunState] /\ run' \in [Runs -> RunState]
      /\ run'[r] = w /\ \A s \in Runs \ {r} : run'[s] = run[s]
  BY <1>1 DEF Types, Quiet, Set
<1>3. Types'
  BY <1>1, <1>2 DEF Types
<1>4. \A s \in Runs : Good(run'[s])
  BY <1>1, <1>2 DEF Quiet
<1>5. r \notin landed /\ landed \subseteq Runs
  BY <1>1 DEF Quiet, Kept, Types
<1>6. Kept'
  <2>1. \A s \in landed : run'[s] = run[s]
    BY <1>2, <1>5
  <2>2. \A t \in Runs : Reads(run'[t]) =>
          \A s \in (landed \ lost) \ run'[t].unseen : Holds(run'[s], run'[t].doc)
    BY <1>1, <1>2, <2>1 DEF Kept, Quiet
  <2> QED BY <1>1, <2>1, <2>2 DEF Kept
<1>7. Complete'
  <2>1. Repaired => Repaired'
    BY <1>2, <1>5 DEF Repaired
  <2> QED BY <1>1, <1>2, <2>1 DEF Complete, Quiet
<1>8. Saved'
  <2>1. \A s \in Runs : run'[s].name = run[s].name /\ (run[s].raced => run'[s].raced)
    BY <1>2 DEF Quiet
  <2>2. \A s \in Runs : Marks(run'[s])
    BY <1>1, <1>2 DEF Quiet, Saved
  <2>3. \A s \in Runs : Unsaved(s) => Unsaved(s)'
    BY <1>2 DEF Quiet, Unsaved
  <2>4. Excused => Excused'
    <3>1. SharedName => SharedName'
      BY <2>1 DEF SharedName
    <3> QED BY <2>1, <2>3, <3>1 DEF Excused
  <2>5. \A s \in Runs : /\ SavedBy(s)' <=> SavedBy(s)
                        /\ Ready(s)' => Ready(s)
    BY <1>2, <2>1 DEF SavedBy, Ready, Quiet
  <2>6. Safe => Safe'
    BY <2>5 DEF Safe
  <2> QED BY <1>1, <2>2, <2>4, <2>6 DEF Saved
<1> QED BY <1>3, <1>4, <1>6, <1>7, <1>8 DEF IInv

(* A run that ends, or is ended, before it has opened the file.            *)
LEMMA StopQuiet ==
  ASSUME IInv, NEW r \in Runs, NEW w \in RunState, run[r].pc # "idle",
         run[r].pc \notin {"write", "cut", "done"}, w.pc \in {"done", "dead"},
         w.cmd = run[r].cmd, w.id = run[r].id, w.name = run[r].name,
         w.mixed = run[r].mixed, w.raced = run[r].raced
  PROVE  Quiet(r, w)
  BY DEF IInv, Quiet, Good, Reads, Planned, Saved, Marks

LEMMA ExitSound ==
  ASSUME IInv, NEW r \in Runs, NEW rc \in 0..2, run[r].pc # "idle",
         run[r].pc \notin {"write", "cut", "done"}, Exit(r, rc),
         cache' \in Catalogs \cup {None}, UNCHANGED <<file, backups, landed, lost, held>>
  PROVE  IInv'
<1> DEFINE w == [run[r] EXCEPT !.pc = "done", !.rc = rc]
<1>1. run[r] \in RunState
  BY DEF IInv, Types
<1>2. /\ w \in RunState /\ w.pc = "done" /\ w.cmd = run[r].cmd /\ w.id = run[r].id
      /\ w.name = run[r].name
      /\ w.mixed = run[r].mixed /\ w.raced = run[r].raced
  BY <1>1 DEF RunState
<1>3. Set(r, w)
  BY DEF Exit
<1> HIDE DEF w
<1>4. Quiet(r, w)
  BY <1>2, StopQuiet
<1> QED BY <1>3, <1>4, QuietStep
(* What is marked of a run stays so while it goes on. *)
LEMMA MarksOn ==
  ASSUME IInv, NEW r \in Runs, NEW w, run[r].pc # "idle", w.pc # "idle",
         w.mixed = run[r].mixed, w.raced = run[r].raced
  PROVE  Marks(w) /\ (run[r].raced => w.raced)
  BY DEF IInv, Saved, Marks

-----------------------------------------------------------------------------
(* One lemma per action. *)
LEMMA StartSound == ASSUME IInv, NEW r \in Runs, Start(r) PROVE IInv'
<1>1. PICK c \in Commands :
        Set(r, [Idle EXCEPT !.pc = IF c.kind = "import" THEN "fetch" ELSE "load",
                            !.cmd = c, !.id = IF c.kind = "import" THEN c.id ELSE None])
  BY DEF Start
<1> DEFINE p == IF c.kind = "import" THEN "fetch" ELSE "load"
           i == IF c.kind = "import" THEN c.id ELSE None
           w == [Idle EXCEPT !.pc = p, !.cmd = c, !.id = i]
<1>2. /\ p \in {"fetch", "load"} /\ i \in Ids \cup {None}
      /\ p = "fetch" => c.kind = "import"
      /\ c.kind = "import" => i = c.id
  BY Kinds DEF ImportCmd
<1>3. Set(r, w)
  BY <1>1
<1> HIDE DEF p, i
<1>4. /\ w.pc = p /\ w.cmd = c /\ w.id = i /\ w.name = None /\ w \in RunState
      /\ ~w.mixed
  <2>1. Idle \in RunState /\ Idle.name = None /\ ~Idle.mixed
    BY ConfigAssumption DEF Idle, RunState
  <2> QED BY <1>2, <2>1 DEF RunState
<1> HIDE DEF w
<1>5. Good(w)
  BY <1>2, <1>4 DEF Good, Reads, Planned
<1>6. run[r].pc = "idle" /\ run[r].name = None /\ ~run[r].raced
  BY DEF Start, IInv, Good, Saved, Marks
<1>7. Quiet(r, w)
  BY <1>2, <1>4, <1>5, <1>6 DEF Quiet, Reads, Marks
<1>8. cache' \in Catalogs \cup {None} /\ UNCHANGED <<file, backups, landed, lost, held>>
  BY DEF Start, IInv, Types
<1> QED BY <1>3, <1>7, <1>8, QuietStep

(* A run goes on without having read. *)
LEMMA FetchImportSound == ASSUME IInv, NEW r \in Runs, FetchImport(r) PROVE IInv'
<1>1. cache' \in Catalogs \cup {None} /\ UNCHANGED <<file, backups, landed, lost, held>>
  BY DEF FetchImport, IInv, Types
<1>2. run[r] \in RunState /\ Good(run[r]) /\ run[r].pc = "fetch"
  BY DEF FetchImport, IInv, Types
<1>3. CASE Goto(r, "load")
  <2> DEFINE w == [run[r] EXCEPT !.pc = "load"]
  <2>1. /\ w \in RunState /\ w.pc = "load" /\ w.cmd = run[r].cmd /\ w.id = run[r].id
        /\ w.name = run[r].name
        /\ w.mixed = run[r].mixed /\ w.raced = run[r].raced
    BY <1>2 DEF RunState
  <2>2. Set(r, w)
    BY <1>3 DEF Goto
  <2> HIDE DEF w
  <2>3. Good(w)
    BY <1>2, <2>1 DEF Good, Reads, Planned
  <2>4. Quiet(r, w)
    BY <1>2, <2>1, <2>3, MarksOn DEF Quiet, Reads
  <2> QED BY <1>1, <2>2, <2>4, QuietStep
<1>4. CASE Exit(r, 1)
  BY <1>1, <1>2, <1>4, ExitSound
<1> QED BY <1>3, <1>4 DEF FetchImport

LEMMA LoadInputsSound == ASSUME IInv, NEW r \in Runs, LoadInputs(r) PROVE IInv'
<1> DEFINE cmd  == run[r].cmd
           plan == PlanMerge(DeepMerge(Template, cmd.over), cmd.repair)
<1>1. cache' \in Catalogs \cup {None} /\ UNCHANGED <<file, backups, landed, lost, held>>
  BY DEF LoadInputs, IInv, Types
<1>2. /\ run[r] \in RunState /\ Good(run[r]) /\ run[r].pc = "load"
      /\ cmd \in Commands /\ cmd.kind = "deploy" /\ landed \in SUBSET Runs
  BY DEF LoadInputs, IInv, Types, Good
<1>3. cmd.over \in Overrides /\ cmd.repair \in BOOLEAN
  BY <1>2, Kinds DEF DeployCmd
<1>4. ASSUME NEW d \in plan, Set(r, [run[r] EXCEPT !.pc = "open", !.doc = d, !.unseen = landed])
      PROVE  IInv'
  <2>1. /\ d \in Doc /\ d.extra = {} /\ Sound(d)
        /\ Short(d) = {} \/ Repairs(cmd)
    <3> DEFINE merged == DeepMerge(Template, cmd.over)
    <3>1. merged \in Doc
      BY <1>3, ConfigAssumption, DeepMergeSound
    <3>2. merged \in Inputs
      BY <1>2 DEF Inputs
    <3>3. Sound(merged) /\ Short(merged) = {}
      BY <3>2, InputsSound
    <3> HIDE DEF merged
    <3>4. d.extra = {} /\ Carries(merged, d) /\ (~cmd.repair => d = merged)
      BY <1>3, <3>1, PlanMergeSound DEF merged
    <3> QED BY <1>2, <3>3, <3>4, IndexCarries DEF Carries, Repairs
  <2> DEFINE w == [run[r] EXCEPT !.pc = "open", !.doc = d, !.unseen = landed]
  <2>2. /\ w \in RunState /\ w.pc = "open" /\ w.cmd = cmd /\ w.id = run[r].id
        /\ w.name = run[r].name /\ w.doc = d /\ w.unseen = landed
        /\ w.mixed = run[r].mixed /\ w.raced = run[r].raced
    BY <1>2, <2>1 DEF RunState
  <2>3. Set(r, w)
    BY <1>4
  <2> HIDE DEF w
  <2>4. Good(w)
    BY <1>2, <1>4, <2>1, <2>2 DEF Good, Reads, Planned, Holds
  <2>5. Quiet(r, w)
    BY <1>2, <2>1, <2>2, <2>4, MarksOn DEF Quiet
  <2> QED BY <1>1, <2>3, <2>5, QuietStep
<1>5. CASE Exit(r, 1)
  BY <1>1, <1>2, <1>5, ExitSound
<1> QED BY <1>4, <1>5 DEF LoadInputs

LEMMA LoadFileSound == ASSUME IInv, NEW r \in Runs, LoadFile(r) PROVE IInv'
<1> DEFINE cmd  == run[r].cmd
           next == IF cmd.kind = "switch" THEN "resolve" ELSE "open"
<1>1. cache' \in Catalogs \cup {None} /\ UNCHANGED <<file, backups, landed, lost, held>>
  BY DEF LoadFile, IInv, Types
<1>2. /\ run[r] \in RunState /\ Good(run[r]) /\ run[r].pc = "load"
      /\ cmd \in Commands /\ cmd.kind # "deploy"
  BY DEF LoadFile, IInv, Types, Good
<1>3. /\ Whole(file) /\ file.doc \in Doc /\ Sound(file.doc)
      /\ Short(file.doc) = {} \/ Repaired
  <2>1. Whole(file)
    BY DEF LoadFile, CanRead, Whole
  <2> QED BY <2>1 DEF IInv, Types, Contents, Kept, Complete
<1>4. ASSUME NEW d \in Plan(file.doc, cmd), Set(r, [run[r] EXCEPT !.pc = next, !.doc = d])
      PROVE  IInv'
  <2>1. /\ Carries(file.doc, d)
        /\ cmd.kind = "import" => cmd.id \in IdsOf(d)
        /\ cmd.kind = "guilds" => cmd.channel \in d.channels
        /\ IF cmd.kind = "repair" THEN d.extra = {} ELSE d.extra = file.doc.extra
    BY <1>2, <1>3, PlanSound
  <2>2. /\ d \in Doc /\ Sound(d)
        /\ Short(d) = {} \/ Repairs(cmd) \/ Repaired
    BY <1>3, <2>1, IndexCarries DEF Carries, Repairs
  <2> DEFINE w == [run[r] EXCEPT !.pc = next, !.doc = d]
  <2>3. /\ w \in RunState /\ w.pc = next /\ w.cmd = cmd /\ w.id = run[r].id
        /\ w.name = run[r].name /\ w.doc = d /\ w.unseen = run[r].unseen
        /\ w.mixed = run[r].mixed /\ w.raced = run[r].raced
    <3>1. next \in {"resolve", "open"}
      OBVIOUS
    <3> HIDE DEF next
    <3> QED BY <1>2, <2>2, <3>1 DEF RunState
  <2>4. Set(r, w)
    BY <1>4
  <2> HIDE DEF w
  <2>5. Good(w)
    <3>1. w.pc = "open" => Holds(w, d)
      BY <1>2, <2>1, <2>3, Kinds DEF Holds, Good
    <3> QED BY <1>2, <2>1, <2>2, <2>3, <3>1 DEF Good, Reads, Planned
  <2>6. \A s \in landed \ lost : Holds(run[s], d)
    BY <1>3, <2>1, HoldsOn DEF IInv, Kept
  <2>7. Quiet(r, w)
    BY <1>2, <2>2, <2>3, <2>5, <2>6, MarksOn DEF Quiet
  <2> QED BY <1>1, <2>4, <2>7, QuietStep
<1>5. CASE Exit(r, 1)
  BY <1>1, <1>2, <1>5, ExitSound
<1> QED BY <1>4, <1>5 DEF LoadFile

LEMMA LoadFailsSound == ASSUME IInv, NEW r \in Runs, LoadFails(r) PROVE IInv'
<1>1. cache' \in Catalogs \cup {None} /\ UNCHANGED <<file, backups, landed, lost, held>>
  BY DEF LoadFails, IInv, Types
<1>2. run[r].pc = "load" /\ Exit(r, IF run[r].cmd.kind = "repair" THEN 2 ELSE 1)
  BY DEF LoadFails
<1>3. (IF run[r].cmd.kind = "repair" THEN 2 ELSE 1) \in 0..2
  OBVIOUS
<1> QED BY <1>1, <1>2, <1>3, ExitSound

(* A target resolves to ids. *)
LEMMA ResolveType ==
  ASSUME NEW doc \in Doc, NEW target, NEW catalog \in SUBSET Ids
  PROVE  ResolveModelId(target, doc, catalog) \subseteq Ids
<1>1. Aliased(doc, target) \subseteq Ids
  <2>1. \A a \in doc.alias : a.key \in Keys
    BY DEF Doc
  <2> QED BY <2>1, StripType DEF Aliased
<1>2. \A S \in SUBSET Ids : Unique(Matches(target, S)) \subseteq Ids
  BY DEF Unique, Matches
<1> QED BY <1>1, <1>2, IdsOfType DEF ResolveModelId

(* So does what the catalog lists, fresh or cached. *)
LEMMA FetchedType ==
  ASSUME Types, NEW c \in Fetched
  PROVE  c \in SUBSET Ids /\ (Caches(c) => cache' \in Catalogs \cup {None})
<1>1. c \in Catalogs \cup {{}}
  BY DEF Types, Fetched
<1>2. c \in SUBSET Ids
  BY <1>1, ConfigAssumption
<1> QED BY <1>1, <1>2 DEF Caches, Types

LEMMA ResolveSound == ASSUME IInv, NEW r \in Runs, Resolve(r) PROVE IInv'
<1> DEFINE target == run[r].cmd.target
<1>1. /\ run[r] \in RunState /\ Good(run[r]) /\ run[r].pc = "resolve"
      /\ UNCHANGED <<file, backups, landed, lost, held>>
  BY DEF Resolve, IInv, Types
<1>2. PICK c \in SUBSET Ids :
        /\ cache' \in Catalogs \cup {None}
        /\ \/ \E i \in ResolveModelId(target, run[r].doc, c) :
                Set(r, [run[r] EXCEPT !.pc = "add", !.id = i])
           \/ Exit(r, 1)
  <2>1. CASE Local(target, run[r].doc)
    <3>1. cache' \in Catalogs \cup {None}
      BY <2>1 DEF Resolve, IInv, Types
    <3> WITNESS {} \in SUBSET Ids
    <3> QED BY <2>1, <3>1 DEF Resolve
  <2>2. CASE ~Local(target, run[r].doc)
    <3>1. PICK c \in Fetched :
            /\ Caches(c)
            /\ \/ \E i \in ResolveModelId(target, run[r].doc, c) :
                    Set(r, [run[r] EXCEPT !.pc = "add", !.id = i])
               \/ Exit(r, 1)
      BY <2>2 DEF Resolve
    <3>2. c \in SUBSET Ids /\ cache' \in Catalogs \cup {None}
      BY <3>1, FetchedType DEF IInv
    <3> c \in SUBSET Ids
      BY <3>2
    <3> WITNESS c \in SUBSET Ids
    <3> QED BY <3>1, <3>2
  <2> QED BY <2>1, <2>2
<1>3. ASSUME NEW i \in ResolveModelId(target, run[r].doc, c),
             Set(r, [run[r] EXCEPT !.pc = "add", !.id = i])
      PROVE  IInv'
  <2> DEFINE w == [run[r] EXCEPT !.pc = "add", !.id = i]
  <2>1. i \in Ids
    BY <1>1, ResolveType DEF RunState
  <2>2. /\ w \in RunState /\ w.pc = "add" /\ w.id = i /\ w.cmd = run[r].cmd
        /\ w.name = run[r].name /\ w.doc = run[r].doc /\ w.unseen = run[r].unseen
        /\ w.mixed = run[r].mixed /\ w.raced = run[r].raced
    BY <1>1, <2>1 DEF RunState
  <2>3. Set(r, w)
    BY <1>3
  <2> HIDE DEF w
  <2>4. Good(w)
    BY <1>1, <2>1, <2>2 DEF Good, Reads, Planned
  <2>5. Quiet(r, w)
    BY <1>1, <2>2, <2>4, MarksOn DEF Quiet, Reads, IInv, Kept, Complete
  <2> QED BY <1>1, <1>2, <2>3, <2>5, QuietStep
<1>4. CASE Exit(r, 1)
  <2>1. 1 \in 0..2
    OBVIOUS
  <2> QED BY <1>1, <1>2, <1>4, <2>1, ExitSound
<1> QED BY <1>2, <1>3, <1>4

LEMMA AddSound == ASSUME IInv, NEW r \in Runs, Add(r) PROVE IInv'
<1> DEFINE doc == Switched(run[r].doc, run[r].id)
           w   == [run[r] EXCEPT !.pc = "backup", !.doc = doc]
<1>1. /\ run[r] \in RunState /\ Good(run[r]) /\ run[r].pc = "add"
      /\ run[r].id \in Ids /\ run[r].cmd \in Commands /\ run[r].cmd.kind = "switch"
      /\ UNCHANGED <<file, backups, landed, lost, held>>
  BY DEF Add, IInv, Types, Good
<1>2. /\ cache' \in Catalogs \cup {None}
      /\ (SchemaSafe(doc) /\ Set(r, w)) \/ Exit(r, 1)
  <2>1. CASE run[r].id \in IdsOf(run[r].doc)
    BY <2>1 DEF Add, IInv, Types
  <2>2. CASE run[r].id \notin IdsOf(run[r].doc)
    BY <2>2, FetchedType DEF Add, IInv
  <2> QED BY <2>1, <2>2
<1>3. ASSUME SchemaSafe(doc), Set(r, w)
      PROVE  IInv'
  <2>1. /\ Carries(run[r].doc, doc) /\ run[r].id \in IdsOf(doc)
        /\ doc.extra = run[r].doc.extra
    BY <1>1, SwitchedCarries DEF RunState
  <2>2. /\ doc \in Doc /\ "list" \notin doc.extra /\ Sound(doc)
        /\ Short(doc) = Short(run[r].doc)
    BY <1>1, <1>3, <2>1, IndexCarries DEF Carries, SchemaSafe, ALLOWED_AGENTS_KEYS, Good, Reads
  <2> HIDE DEF doc
  <2>3. /\ w \in RunState /\ w.pc = "backup" /\ w.doc = doc /\ w.cmd = run[r].cmd
        /\ w.id = run[r].id /\ w.name = run[r].name /\ w.unseen = run[r].unseen
        /\ w.mixed = run[r].mixed /\ w.raced = run[r].raced
    BY <1>1, <2>2 DEF RunState
  <2>4. Set(r, w)
    BY <1>3
  <2> HIDE DEF w
  <2>5. Good(w)
    BY <1>1, <2>1, <2>2, <2>3 DEF Good, Reads, Planned, Holds
  <2>6. \A s \in (landed \ lost) \ w.unseen : Holds(run[s], doc)
    BY <1>1, <2>1, <2>3, HoldsOn DEF IInv, Kept, Reads
  <2>7. Short(doc) = {} \/ Repairs(w.cmd) \/ Repaired
    BY <1>1, <2>2, <2>3 DEF IInv, Complete, Reads
  <2>8. Quiet(r, w)
    BY <1>1, <2>3, <2>5, <2>6, <2>7, MarksOn DEF Quiet
  <2> QED BY <1>1, <1>2, <2>4, <2>8, QuietStep
<1>4. CASE Exit(r, 1)
  BY <1>1, <1>2, <1>4, ExitSound
<1> QED BY <1>2, <1>3, <1>4

LEMMA DieSound == ASSUME IInv, NEW r \in Runs, Die(r) PROVE IInv'
<1>1. /\ run[r] \in RunState /\ Good(run[r])
      /\ run[r].pc \notin {"idle", "done", "dead", "cut"}
      /\ cache' \in Catalogs \cup {None} /\ UNCHANGED <<file, backups, landed, lost, held>>
  BY DEF Die, IInv, Types
<1> DEFINE p == IF Writing(r) THEN "cut" ELSE "dead"
           w == [run[r] EXCEPT !.pc = p]
<1>2. (p = "cut" /\ run[r].pc = "write") \/ (p = "dead" /\ run[r].pc # "write")
  BY DEF Writing
<1>3. Set(r, w)
  BY DEF Die, Goto
<1> HIDE DEF p
<1>4. /\ w \in RunState /\ w.pc = p /\ w.cmd = run[r].cmd /\ w.id = run[r].id
      /\ w.name = run[r].name
      /\ w.mixed = run[r].mixed /\ w.raced = run[r].raced
  BY <1>1, <1>2 DEF RunState
<1> HIDE DEF w
<1>5. Good(w)
  BY <1>1, <1>2, <1>4 DEF Good, Reads, Planned
<1>6. Quiet(r, w)
  BY <1>1, <1>2, <1>4, <1>5, MarksOn DEF Quiet, Reads
<1> QED BY <1>1, <1>3, <1>6, QuietStep

LEMMA BackupSound == ASSUME IInv, NEW r \in Runs, Backup(r) PROVE IInv'
<1>1. /\ Types /\ Kept /\ Complete /\ Saved /\ \A s \in Runs : Good(run[s])
      /\ run[r] \in RunState /\ Good(run[r]) /\ run[r].pc = "backup"
      /\ UNCHANGED <<file, cache, landed, lost, held>>
  BY DEF Backup, IInv, Types
<1>2. PICK n \in Runs : /\ backups' = [backups EXCEPT ![n] = file]
                        /\ Set(r, [run[r] EXCEPT !.pc = "open", !.name = n])
  <2>1. \A s \in Runs : run[s].name \in Runs \cup {None}
    BY <1>1 DEF Types, RunState
  <2> QED BY <2>1 DEF Backup
<1> DEFINE w == [run[r] EXCEPT !.pc = "open", !.name = n]
<1>3. /\ w \in RunState /\ w.pc = "open" /\ w.name = n /\ w.doc = run[r].doc
      /\ w.cmd = run[r].cmd /\ w.id = run[r].id /\ w.unseen = run[r].unseen
      /\ w.mixed = run[r].mixed /\ w.raced = run[r].raced
  BY <1>1 DEF RunState
<1>4. Set(r, w)
  BY <1>2
<1> HIDE DEF w
<1>5. Good(w) /\ run[r].name = None /\ n # None
  <2>1. Holds(run[r], run[r].doc) => Holds(w, w.doc)
    BY <1>3, HoldsSame
  <2> QED BY <1>1, <1>3, <2>1, ConfigAssumption DEF Good, Reads, Planned
<1>6. /\ run' \in [Runs -> RunState] /\ run'[r] = w
      /\ \A s \in Runs \ {r} : run'[s] = run[s]
  BY <1>1, <1>3, <1>4 DEF Types, Set
<1>7. /\ backups' \in [Runs -> Contents] /\ backups'[n] = file
      /\ \A m \in Runs \ {n} : backups'[m] = backups[m]
  BY <1>1, <1>2 DEF Types
<1>8. Types'
  BY <1>1, <1>6, <1>7 DEF Types
<1>9. r \notin landed /\ landed \subseteq Runs
  BY <1>1 DEF Kept, Types
<1>10. Kept'
  <2>1. \A s \in landed : run'[s] = run[s]
    BY <1>6, <1>9
  <2>2. \A t \in Runs : Reads(run'[t]) =>
          Reads(run[t]) /\ run'[t].doc = run[t].doc /\ run'[t].unseen = run[t].unseen
    BY <1>1, <1>3, <1>6 DEF Reads
  <2> QED BY <1>1, <2>1, <2>2 DEF Kept
<1>11. Complete'
  <2>1. Repaired => Repaired'
    <3>1. \A s \in landed : run'[s] = run[s]
      BY <1>6, <1>9
    <3> QED BY <1>1, <3>1 DEF Repaired
  <2>2. \A t \in Runs : Reads(run'[t]) =>
          Reads(run[t]) /\ run'[t].doc = run[t].doc /\ run'[t].cmd = run[t].cmd
    BY <1>1, <1>3, <1>6 DEF Reads
  <2> QED BY <1>1, <2>1, <2>2 DEF Complete
<1>12. Saved'
  <2>1. \A s \in Runs : /\ run'[s].mixed = run[s].mixed /\ run'[s].raced = run[s].raced
                        /\ run'[s].pc = "idle" => run[s].pc = "idle"
                        /\ Unsaved(s) => Unsaved(s)'
    BY <1>1, <1>3, <1>6 DEF Unsaved
  <2>2. \A s \in Runs : Marks(run'[s])
    BY <1>1, <2>1 DEF Saved, Marks
  <2>3. SharedName => SharedName'
    BY <1>5, <1>6 DEF SharedName
  <2>4. Excused => Excused'
    BY <2>1, <2>3 DEF Excused
  <2>5. ASSUME NEW s \in Runs \ {r}, SavedBy(s) PROVE SharedName' \/ SavedBy(s)'
    <3>1. run'[s] = run[s] /\ run[s].name \in Runs
      BY <1>1, <1>6, <2>5 DEF SavedBy, Types, RunState
    <3>2. CASE run[s].name = n
      BY <1>3, <1>5, <1>6, <3>1, <3>2 DEF SharedName
    <3>3. CASE run[s].name # n
      BY <1>1, <1>7, <2>5, <3>1, <3>3 DEF SavedBy
    <3> QED BY <3>2, <3>3
  <2>6. \A s \in Runs : SavedBy(s) => s # r
    BY <1>5 DEF SavedBy
  <2>7. ASSUME Safe PROVE Excused' \/ Safe'
    <3>1. SUFFICES ASSUME ~SharedName' PROVE Safe'
      BY DEF Excused
    <3>2. \A s \in Runs : SavedBy(s) => SavedBy(s)'
      BY <2>5, <2>6, <3>1
    <3>3. Whole(file) => SavedBy(r)'
      BY <1>1, <1>3, <1>5, <1>6, <1>7, <2>7 DEF SavedBy, Safe
    <3>4. \A s \in Runs \ {r} : Ready(s)' => Ready(s)
      BY <1>6 DEF Ready
    <3> QED BY <1>1, <2>7, <3>2, <3>3, <3>4 DEF Safe
  <2> QED BY <1>1, <2>2, <2>4, <2>7 DEF Saved
<1> QED BY <1>1, <1>5, <1>6, <1>8, <1>10, <1>11, <1>12 DEF IInv

(* Nothing of Good is about unseen and mixed. *)
LEMMA MarkedSound ==
  ASSUME NEW w, Good(w), NEW v, v.pc = w.pc, v.cmd = w.cmd, v.id = w.id, v.name = w.name,
         v.doc = w.doc
  PROVE  Good(v)
  BY HoldsSame DEF Good, Reads, Planned

LEMMA OpenSound == ASSUME IInv, NEW r \in Runs, Open(r) PROVE IInv'
<1>1. /\ Types /\ Kept /\ Complete /\ Saved /\ \A s \in Runs : Good(run[s])
      /\ run[r] \in RunState /\ run[r].pc = "open" /\ r \notin landed
      /\ landed \subseteq Runs /\ file' = Torn
      /\ UNCHANGED <<cache, backups, landed, lost, held>>
  BY DEF Open, IInv, Types, Kept
<1>2. /\ run'[r] \in RunState /\ Good(run'[r]) /\ run'[r].pc = "write"
      /\ run'[r].cmd = run[r].cmd /\ run'[r].name = run[r].name
      /\ run'[r].doc = run[r].doc /\ run'[r].unseen = run[r].unseen
      /\ run'[r].mixed = run[r].mixed /\ run'[r].raced = run[r].raced
  <2> DEFINE w == [run[r] EXCEPT !.pc = "write"]
  <2>1. run'[r] = w
    BY DEF Open
  <2>2. /\ w \in RunState /\ w.pc = "write" /\ w.cmd = run[r].cmd /\ w.id = run[r].id
        /\ w.name = run[r].name /\ w.doc = run[r].doc /\ w.unseen = run[r].unseen
        /\ w.mixed = run[r].mixed /\ w.raced = run[r].raced
    BY <1>1 DEF RunState
  <2> HIDE DEF w
  <2>3. Good(w)
    BY <1>1, <2>2, HoldsSame DEF Good, Reads, Planned
  <2> QED BY <2>1, <2>2, <2>3
<1>3. ASSUME NEW s \in Runs \ {r}
      PROVE  /\ run'[s] \in RunState /\ Good(run'[s]) /\ run'[s].pc = run[s].pc
             /\ run'[s].cmd = run[s].cmd /\ run'[s].name = run[s].name
             /\ run'[s].doc = run[s].doc /\ run'[s].unseen = run[s].unseen
             /\ run[s].pc = "done" => run'[s] = run[s]
             /\ IF Meets(s) THEN run'[s].raced
                ELSE run'[s].mixed = run[s].mixed /\ run'[s].raced = run[s].raced
  <2>1. run[s] \in RunState /\ run[s].unseen \in SUBSET Runs /\ Good(run[s])
    BY <1>1 DEF Types, RunState
  <2>2. CASE Meets(s)
    <3>1. run'[s] = [run[s] EXCEPT !.mixed = @ \/ Writing(s), !.raced = TRUE]
      BY <2>1, <2>2 DEF Open
    <3>2. /\ run'[s].raced /\ run'[s] \in RunState /\ run'[s].pc = run[s].pc /\ run'[s].cmd = run[s].cmd
          /\ run'[s].id = run[s].id /\ run'[s].name = run[s].name
          /\ run'[s].doc = run[s].doc /\ run'[s].unseen = run[s].unseen
      BY <2>1, <3>1 DEF RunState
    <3>3. Good(run'[s])
      BY <2>1, <3>2, MarkedSound
    <3> QED BY <2>2, <3>2, <3>3 DEF Meets
  <2>3. CASE ~Meets(s)
    BY <2>1, <2>3 DEF Open
  <2> QED BY <2>2, <2>3
<1>4. run' \in [Runs -> RunState]
  BY <1>2, <1>3 DEF Open
<1>5. Torn \in Contents
  BY ConfigAssumption DEF Torn, Contents
<1>6. Types'
  BY <1>1, <1>4, <1>5 DEF Types
<1>7. Kept'
  <2>1. ~Whole(file')
    BY <1>1 DEF Torn, Whole
  <2>2. \A s \in landed : run'[s] = run[s]
    BY <1>1, <1>3 DEF Kept
  <2>3. \A t \in Runs : Reads(run'[t]) =>
          Reads(run[t]) /\ run'[t].doc = run[t].doc /\ run'[t].unseen = run[t].unseen
    BY <1>1, <1>2, <1>3 DEF Reads
  <2> QED BY <1>1, <2>1, <2>2, <2>3 DEF Kept
<1>8. Complete'
  <2>1. ~Whole(file')
    BY <1>1 DEF Torn, Whole
  <2>2. Repaired => Repaired'
    BY <1>1, <1>3 DEF Repaired, Kept
  <2>3. \A t \in Runs : Reads(run'[t]) =>
          Reads(run[t]) /\ run'[t].doc = run[t].doc /\ run'[t].cmd = run[t].cmd
    BY <1>1, <1>2, <1>3 DEF Reads
  <2> QED BY <1>1, <2>1, <2>2, <2>3 DEF Complete
<1>9. Saved'
  <2>1. \A s \in Runs : Marks(run'[s])
    BY <1>1, <1>2, <1>3 DEF Saved, Marks, Meets
  <2>2. \A s \in Runs : run'[s].name = run[s].name /\ (run[s].raced => run'[s].raced)
    <3>1. \A s \in Runs : run[s].raced \in BOOLEAN /\ run'[s].raced \in BOOLEAN
      BY <1>1, <1>2, <1>3 DEF Types, RunState
    <3> QED BY <1>2, <1>3, <3>1
  <2>3. \A s \in Runs : Unsaved(s) => Unsaved(s)'
    BY <1>2, <1>3 DEF Unsaved
  <2>4. Excused => Excused'
    <3>1. SharedName => SharedName'
      BY <2>2 DEF SharedName
    <3> QED BY <2>2, <2>3, <3>1 DEF Excused
  <2>5. \A s \in Runs : SavedBy(s) => SavedBy(s)'
    BY <1>1, <2>2 DEF SavedBy
  <2>6. ASSUME Safe PROVE Excused' \/ Safe'
    <3>1. CASE run[r].cmd.kind # "switch"
      BY <1>2, <3>1 DEF Unsaved, Excused
    <3>2. CASE run[r].cmd.kind = "switch"
      <4>1. Whole(file) => SavedBy(r)
        BY <1>1, <2>6, <3>2 DEF Ready, Safe
      <4>2. \E s \in Runs : SavedBy(s)'
        BY <2>5, <2>6, <4>1 DEF Safe
      <4>3. ~Whole(file')
        BY <1>1 DEF Torn, Whole
      <4> QED BY <4>2, <4>3 DEF Safe
    <3> QED BY <3>1, <3>2
  <2> QED BY <1>1, <2>1, <2>4, <2>6 DEF Saved
<1> QED BY <1>2, <1>3, <1>6, <1>7, <1>8, <1>9 DEF IInv

LEMMA WriteSound == ASSUME IInv, NEW r \in Runs, Write(r) PROVE IInv'
<1>1. /\ Types /\ Kept /\ Complete /\ Saved /\ \A s \in Runs : Good(run[s])
      /\ run[r] \in RunState /\ run[r].pc = "write" /\ r \notin landed
      /\ landed \subseteq Runs
      /\ file' \in {Json(run[r].doc)} \cup IF run[r].mixed THEN {Torn} ELSE {}
      /\ held' = IF file' = Torn THEN held ELSE file'
      /\ landed' = landed \cup {r} /\ lost' = lost \cup run[r].unseen
      /\ UNCHANGED <<cache, backups>>
  BY DEF Write, IInv, Types, Kept
<1>2. /\ run'[r] \in RunState /\ Good(run'[r]) /\ run'[r].pc = "done"
      /\ run'[r].cmd = run[r].cmd /\ run'[r].name = run[r].name
      /\ run'[r].id = run[r].id /\ run'[r].mixed = run[r].mixed
      /\ run'[r].raced = run[r].raced
  <2> DEFINE w == [run[r] EXCEPT !.pc = "done"]
  <2>1. run'[r] = w
    BY DEF Write
  <2>2. /\ w \in RunState /\ w.pc = "done" /\ w.cmd = run[r].cmd /\ w.id = run[r].id
        /\ w.name = run[r].name /\ w.mixed = run[r].mixed /\ w.raced = run[r].raced
    BY <1>1 DEF RunState
  <2> HIDE DEF w
  <2>3. Good(w)
    BY <1>1, <2>2 DEF Good, Reads, Planned
  <2> QED BY <2>1, <2>2, <2>3
<1>3. ASSUME NEW s \in Runs \ {r}
      PROVE  /\ run'[s] \in RunState /\ Good(run'[s]) /\ run'[s].pc = run[s].pc
             /\ run'[s].cmd = run[s].cmd /\ run'[s].name = run[s].name
             /\ run'[s].doc = run[s].doc
             /\ Reads(run[s]) => run'[s].unseen = run[s].unseen \cup {r}
             /\ run[s].pc = "done" => run'[s] = run[s]
             /\ run'[s].mixed = (run[s].mixed \/ Writing(s))
             /\ run'[s].raced = (run[s].raced \/ Meets(s))
  <2>1. run[s] \in RunState /\ run[s].unseen \in SUBSET Runs /\ Good(run[s])
    BY <1>1 DEF Types, RunState
  <2>2. CASE HasRead(s)
    <3> DEFINE m == run[s].mixed \/ Writing(s)
               c == run[s].raced \/ Meets(s)
    <3>1. run'[s] = [run[s] EXCEPT !.unseen = run[s].unseen \cup {r}, !.mixed = m,
                                   !.raced = c]
      BY <2>2 DEF Write
    <3>2. m \in BOOLEAN /\ c \in BOOLEAN /\ run[s].unseen \cup {r} \in SUBSET Runs
      BY <2>1 DEF RunState
    <3> HIDE DEF m, c
    <3>3. /\ run'[s].mixed = m /\ run'[s].raced = c /\ run'[s] \in RunState /\ run'[s].pc = run[s].pc /\ run'[s].cmd = run[s].cmd
          /\ run'[s].id = run[s].id /\ run'[s].name = run[s].name
          /\ run'[s].doc = run[s].doc /\ run'[s].unseen = run[s].unseen \cup {r}
      BY <2>1, <3>1, <3>2 DEF RunState
    <3>4. Good(run'[s])
      BY <2>1, <3>3, MarkedSound
    <3>5. ~(run[s].pc = "done") /\ (Reads(run[s]) => run'[s].unseen = run[s].unseen \cup {r})
      BY <2>2, <3>3 DEF HasRead, Meets
    <3> QED BY <3>3, <3>4, <3>5 DEF m, c
  <2>3. CASE ~HasRead(s)
    <3>1. run'[s] = run[s] /\ ~Writing(s) /\ ~Meets(s) /\ ~Reads(run[s])
      BY <2>3 DEF Write, HasRead, Reads, Meets, Writing
    <3> QED BY <2>1, <3>1 DEF RunState
  <2> QED BY <2>2, <2>3
<1>4. run' \in [Runs -> RunState]
  BY <1>2, <1>3 DEF Write
<1>5. run[r].doc \in Doc /\ Torn \in Contents /\ Json(run[r].doc) \in Contents
  BY <1>1, ConfigAssumption DEF Torn, Json, Contents, RunState
<1>6. Types'
  BY <1>1, <1>4, <1>5 DEF Types, RunState
<1>7. Kept'
  <2>1. \A s \in landed : s # r /\ run'[s] = run[s]
    BY <1>1, <1>3 DEF Kept
  <2>2. \A s \in landed' : run'[s].pc = "done"
    BY <1>1, <1>2, <2>1 DEF Kept
  <2>3. /\ Sound(run[r].doc)
        /\ \A s \in landed' \ lost' : Holds(run'[s], run[r].doc)
    <3>1. Good(run[r]) /\ Reads(run[r]) /\ Planned(run[r])
      BY <1>1 DEF Reads, Planned
    <3>2. Sound(run[r].doc) /\ Holds(run'[r], run[r].doc)
      BY <1>2, <3>1, HoldsSame DEF Good
    <3>3. \A s \in (landed \ lost) \ run[r].unseen : Holds(run[s], run[r].doc)
      BY <1>1, <3>1 DEF Kept
    <3> QED BY <1>1, <2>1, <3>2, <3>3
  <2>4. Whole(file') => file'.doc = run[r].doc
    BY <1>1 DEF Whole, Json, Torn
  <2>5. ASSUME NEW t \in Runs, Reads(run'[t]), NEW s \in (landed' \ lost') \ run'[t].unseen
        PROVE  Holds(run'[s], run'[t].doc)
    <3>1. t # r
      BY <1>2, <2>5 DEF Reads
    <3>2. /\ Reads(run[t]) /\ run'[t].doc = run[t].doc
          /\ run'[t].unseen = run[t].unseen \cup {r}
      BY <1>3, <2>5, <3>1 DEF Reads
    <3>3. s \in (landed \ lost) \ run[t].unseen
      BY <1>1, <2>5, <3>2
    <3> QED BY <1>1, <2>1, <3>2, <3>3 DEF Kept
  <2> QED BY <2>2, <2>3, <2>4, <2>5 DEF Kept
<1>8. Complete'
  <2>1. Repaired => Repaired'
    BY <1>1, <1>3 DEF Repaired, Kept
  <2>2. Repairs(run[r].cmd) => Repaired'
    BY <1>1, <1>2 DEF Repaired
  <2>3. Whole(file') => file'.doc = run[r].doc
    BY <1>1 DEF Whole, Json, Torn
  <2>4. Short(run[r].doc) = {} \/ Repaired'
    BY <1>1, <2>1, <2>2 DEF Complete, Reads
  <2>5. \A t \in Runs : Reads(run'[t]) =>
          Reads(run[t]) /\ run'[t].doc = run[t].doc /\ run'[t].cmd = run[t].cmd
    BY <1>2, <1>3 DEF Reads
  <2> QED BY <1>1, <2>1, <2>3, <2>4, <2>5 DEF Complete
<1>9. Saved'
  <2>1. ASSUME NEW s \in Runs PROVE Marks(run'[s])
    <3>1. CASE s = r
      BY <1>1, <1>2, <3>1 DEF Saved, Marks
    <3>2. CASE s # r
      <4>1. Marks(run[s]) /\ run'[s].pc = run[s].pc
        BY <1>1, <1>3, <3>2 DEF Saved
      <4>2. run'[s].mixed <=> run[s].mixed \/ Writing(s)
        BY <1>3, <3>2
      <4>3. run'[s].raced <=> run[s].raced \/ Meets(s)
        BY <1>3, <3>2
      <4>4. Writing(s) => Meets(s)
        BY DEF Writing, Meets
      <4>5. run[s].pc = "idle" => ~Meets(s)
        BY DEF Meets
      <4> QED BY <4>1, <4>2, <4>3, <4>4, <4>5 DEF Marks
    <3> QED BY <3>1, <3>2
  <2>2. ASSUME ~Excused' PROVE Safe'
    <3>1. ~run[r].mixed
      BY <1>1, <1>2, <2>2 DEF Excused, Saved, Marks
    <3>2. file' = Json(run[r].doc)
      BY <1>1, <3>1
    <3>3. Whole(file') /\ held' = file'
      BY <1>1, <3>2 DEF Whole, Json, Torn
    <3>4. ASSUME NEW s \in Runs, Ready(s)' PROVE FALSE
      <4>1. s # r /\ run[s].pc = "open"
        BY <1>2, <1>3, <3>4 DEF Ready
      <4>2. run'[s].raced
        BY <1>3, <4>1 DEF Meets
      <4> QED BY <2>2, <4>2 DEF Excused
    <3> QED BY <3>3, <3>4 DEF Safe
  <2> QED BY <2>1, <2>2 DEF Saved
<1> QED BY <1>2, <1>3, <1>6, <1>7, <1>8, <1>9 DEF IInv

(* The cache comes and goes. *)
LEMMA ExpireSound == ASSUME IInv, ExpireCache PROVE IInv'
<1>1. cache' = None /\ UNCHANGED <<file, backups, run, landed, lost, held>>
  BY DEF ExpireCache
<1> QED BY <1>1 DEF IInv, Types, Kept, Complete, Repaired, Saved, Safe, Ready,
                   Excused, SharedName, Unsaved, SavedBy

LEMMA NextSound == IInv /\ [Next]_vars => IInv'
<1> SUFFICES ASSUME IInv, [Next]_vars PROVE IInv'
  OBVIOUS
<1>1. CASE UNCHANGED vars
  <2> SUFFICES ASSUME IInv PROVE IInv'
    OBVIOUS
  <2> QED BY <1>1 DEF vars, IInv, Types, Kept, Complete, Repaired, Saved, Safe, Ready,
                     Excused, SharedName, Unsaved, SavedBy
<1>2. CASE ExpireCache
  BY <1>2, ExpireSound
<1>3. ASSUME NEW r \in Runs, Die(r) PROVE IInv'
  BY <1>3, DieSound
<1>4. ASSUME NEW r \in Runs, Step(r) PROVE IInv'
  BY <1>4, StartSound, FetchImportSound, LoadInputsSound, LoadFileSound, LoadFailsSound,
     ResolveSound, AddSound, BackupSound, OpenSound, WriteSound DEF Step
<1> QED BY <1>1, <1>2, <1>3, <1>4 DEF Next

LEMMA Invariance == Spec => []IInv
  BY InitSound, NextSound, PTL DEF Spec
-----------------------------------------------------------------------------
(* Types, and no manager or merge writes a key under agents that the       *)
(* gateway refuses.                                                        *)
THEOREM Typed == Spec => []TypeOK
<1>1. IInv => TypeOK
  BY DEF IInv, Types, TypeOK, Good, Planned
<1> QED BY <1>1, Invariance, PTL

(* Whatever was cut short or ran beside it, a file that can be read names  *)
(* a default model that it configures.                                     *)
THEOREM DefaultIsConfigured == Spec => []DefaultConfigured
<1>1. IInv => DefaultConfigured
  BY DEF IInv, Kept, Sound, DefaultConfigured
<1> QED BY <1>1, Invariance, PTL

(* And lists every agent of the index, but for those that some input lists *)
(* in agents.list only, beside a dictionary of entries, and only if a      *)
(* repair has landed.                                                      *)
THEOREM IndexIsKept == Spec => []IndexKept
<1>1. IInv => IndexKept
  BY DEF IInv, Kept, Complete, Sound, Short, IndexKept
<1> QED BY <1>1, Invariance, PTL

(* A change is only lost to a command that had read before it landed.      *)
THEOREM LostToRacesOnly == Spec => []KeptUnlessRaced
<1>1. IInv => KeptUnlessRaced
  BY DEF IInv, Kept, KeptUnlessRaced
<1> QED BY <1>1, Invariance, PTL

(* While the file cannot be read, what it held last is in a backup of a    *)
(* switch, unless a command without a backup has it open or was cut short, *)
(* a command was overtaken between its backup and its write, or a backup's *)
(* name was shared.                                                        *)
THEOREM BackupIsSound == Spec => []BackupSaves
<1>1. IInv => BackupSaves
  BY DEF IInv, Saved, Excused, Safe, SavedBy, BackupSaves
<1> QED BY <1>1, Invariance, PTL

(* A deploy's result would be the same after a second merge. *)
THEOREM MergeIsSettled == Spec => []MergeSettles
<1>1. IInv => MergeSettles
  <2> SUFFICES ASSUME IInv, NEW r \in Runs, run[r].pc = "open", run[r].cmd.kind = "deploy"
               PROVE  PlanMerge(DeepMerge(run[r].doc, run[r].cmd.over), run[r].cmd.repair)
                        = {run[r].doc}
    BY DEF MergeSettles
  <2>1. run[r].cmd \in Commands
    BY DEF IInv, Good
  <2>2. run[r].cmd.over \in Overrides /\ run[r].cmd.repair \in BOOLEAN
    BY <2>1, Kinds DEF DeployCmd
  <2>3. run[r].doc \in PlanMerge(DeepMerge(Template, run[r].cmd.over), run[r].cmd.repair)
    BY DEF IInv, Good
  <2> QED BY <2>2, <2>3, PlanSettles
<1> QED BY <1>1, Invariance, PTL
=============================================================================
