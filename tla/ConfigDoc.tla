----------------------------- MODULE ConfigDoc -----------------------------
(***************************************************************************)
(* The gateway's configuration openclaw.json as its writers see it, and    *)
(* what each of them makes of it: scripts/openclaw-model-manager.py        *)
(* (switch), openclaw-import-model.py, openclaw-update-guilds.py and       *)
(* merge-openclaw-config.py.                                               *)
(*                                                                         *)
(* Abstractions: lists whose order nothing depends on are sets; of a model *)
(* its id and the unit its prices are written in are kept; a binding, an   *)
(* agent or a channel is a value; metadata is left out.                    *)
(***************************************************************************)
EXTENDS Naturals

CONSTANTS
  Names,       \* model names as the catalog spells them
  Longer,      \* <<a, b>>: the name b starts with a, as "a:free" does
  Aliases,
  Agents,
  Bindings,    \* routes from a channel to an agent
  Named,       \* the bindings that have an "id"
  Channels,
  None

(* A name behind so many "openrouter/".  The catalog has plain ids, the    *)
(* shipped defaults prefixed ones; a key is an id behind one more prefix.  *)
Ids == [prefixes : 0..1, name : Names]
Keys == [prefixes : 0..2, name : Names]
Key(id) == [prefixes |-> id.prefixes + 1, name |-> id.name]
Strip(key) == [prefixes |-> IF key.prefixes = 0 THEN 0 ELSE key.prefixes - 1,
               name |-> key.name]

Doc == [models   : SUBSET [id : Ids, unit : {"token", "million"}],
        alias    : SUBSET [key : Keys, alias : Aliases],
        default  : Keys \cup {None},                  \* agents.defaults.model
        entries  : [shape : {"none", "dict", "list"}, agents : SUBSET Agents],
        listed   : SUBSET Agents,                     \* what agents.list holds
        extra    : SUBSET {"list", "ownership"},      \* other keys of agents
        bindings : SUBSET Bindings,
        channels : SUBSET Channels]

IdsOf(doc) == {m.id : m \in doc.models}
-----------------------------------------------------------------------------
(* openclaw-model-manager.py: the target of a switch is an alias, an id of *)
(* the config, or part of exactly one id of the config or the catalog.     *)
Unique(S) == {x \in S : S = {x}}

Aliased(doc, target) == {Strip(a.key) : a \in {b \in doc.alias : b.alias = target}}

Matches(target, ids) ==
  {id \in ids : /\ target \notin Aliases
                /\ target.prefixes <= id.prefixes
                /\ target.name = id.name \/ <<target.name, id.name>> \in Longer}

Local(target, doc) ==
  \/ Aliased(doc, target) # {}
  \/ target \in IdsOf(doc)
  \/ Matches(target, IdsOf(doc)) # {}

(* {}: ambiguous or not found.  More than one: the alias names two keys,   *)
(* and the one that stands last wins.                                      *)
ResolveModelId(target, doc, catalog) ==
  IF Aliased(doc, target) # {} THEN Aliased(doc, target)
  ELSE IF target \in IdsOf(doc) THEN {target}
  ELSE IF Local(target, doc) THEN Unique(Matches(target, IdsOf(doc)))
  ELSE Unique(Matches(target, catalog))

(* What a switch adds has its prices per million tokens.                   *)
Added(id) == [id |-> id, unit |-> "million"]

WithOnly(doc, model) == [doc EXCEPT !.models = {model}]
With(doc, model) ==
  [doc EXCEPT !.models = {m \in @ : m.id # model.id} \cup {model}]

WithDefault(doc, id) == [doc EXCEPT !.default = Key(id)]

SwitchedOnly(doc, id) == WithDefault(doc, id)
Switched(doc, id) ==
  WithDefault(IF id \in IdsOf(doc) THEN doc ELSE With(doc, Added(id)), id)

ALLOWED_AGENTS_KEYS == {"ownership"}
SchemaSafeAnyway(doc) == TRUE
SchemaSafe(doc) == doc.extra \subseteq ALLOWED_AGENTS_KEYS
-----------------------------------------------------------------------------
(* openclaw-import-model.py writes the catalog's prices, which are dollars *)
(* per token, as they are.                                                 *)
Mapped(id) == [id |-> id, unit |-> "token"]

WithAlias(doc, id, alias) ==
  [doc EXCEPT !.alias = {a \in @ : a.key # Key(id)} \cup {[key |-> Key(id), alias |-> alias]}]

Imported(doc, cmd) ==
  LET added   == With(doc, Mapped(cmd.id))
      aliased == IF cmd.alias = None THEN added ELSE WithAlias(added, cmd.id, cmd.alias)
  IN  IF cmd.setDefault THEN WithDefault(aliased, cmd.id) ELSE aliased

(* openclaw-update-guilds.py *)
Bound(doc, cmd) == [doc EXCEPT !.channels = @ \cup {cmd.channel}]
-----------------------------------------------------------------------------
(* merge-openclaw-config.py: a key that is None is absent from the         *)
(* overrides.                                                              *)
Overrides == [models   : {None} \cup SUBSET [id : Ids, unit : {"token", "million"}],
              default  : Keys \cup {None},
              entries  : [shape : {"none", "dict", "list"}, agents : SUBSET Agents],
              bindings : {None} \cup SUBSET Bindings]

OverrideWins(base, over) == IF over = None THEN base ELSE over

(* Elements without an id are dropped, those of the base as well. *)
MergeIdentityList(base, over) == (base \cup over) \cap Named

MergeBindingsIfAny(base, over) ==
  IF over = None THEN base ELSE IF base = {} THEN over ELSE MergeIdentityList(base, over)
MergeBindings(base, over) == IF over = None THEN base ELSE MergeIdentityList(base, over)

(* Dictionaries are merged, arrays by id; where the shapes differ the      *)
(* override replaces what was there.                                       *)
MergeEntries(base, over) ==
  IF over.shape = "none" THEN base
  ELSE IF over.shape = base.shape
    THEN [shape |-> over.shape, agents |-> base.agents \cup over.agents]
  ELSE over

DeepMerge(doc, over) ==
  [doc EXCEPT !.models = OverrideWins(@, over.models),
              !.default = OverrideWins(@, over.default),
              !.entries = MergeEntries(@, over.entries),
              !.bindings = MergeBindings(@, over.bindings)]

SchemaErrors(doc) == doc.extra

RepairAlways(doc) == [doc EXCEPT !.extra = @ \ {"list"}, !.listed = {}]
Repair(doc) ==
  IF "list" \in doc.extra /\ doc.entries.shape = "dict"
    THEN [doc EXCEPT !.extra = @ \ {"list"}, !.listed = {}]
    ELSE doc
=============================================================================
