--------------------------- MODULE MCConfigStore ---------------------------
(* A small openclaw.json and two commands at once. *)
EXTENDS ConfigStoreProps

CONSTANTS m, mFree, coding, a1, a2, b, bId, ch

MCLonger == {<<m, mFree>>}

Plain(name) == [prefixes |-> 0, name |-> name]
Shipped == [prefixes |-> 1, name |-> m]
Dict(agents) == [shape |-> "dict", agents |-> agents]
Absent == [shape |-> "none", agents |-> {}]

(* The shipped defaults: ids with their prefix, an alias for each.         *)
MCTemplate ==
  [models |-> {[id |-> Shipped, unit |-> "million"]},
   alias |-> {[key |-> Shipped, alias |-> coding]},
   default |-> Shipped, entries |-> Dict({a1, a2}), listed |-> {}, extra |-> {},
   bindings |-> {b}, channels |-> {}]

(* A config the gateway's writer poisoned, one whose entries lack an agent *)
(* of the list, one from before agents.entries and one with a key only the *)
(* manager allows.                                                         *)
MCInitDocs ==
  {MCTemplate,
   [MCTemplate EXCEPT !.listed = {a1, a2}, !.extra = {"list"}],
   [MCTemplate EXCEPT !.entries = Dict({a1}), !.listed = {a1, a2}, !.extra = {"list"}],
   [MCTemplate EXCEPT !.entries = Absent, !.listed = {a1, a2}, !.extra = {"list"}],
   [MCTemplate EXCEPT !.extra = {"ownership"}]}

MCCatalogs == {{Plain(m)}, {Plain(m), Plain(mFree)}}

NoOverride == [models |-> None, default |-> None, entries |-> Absent, bindings |-> None]

MCCommands ==
  {[kind |-> "switch", target |-> t] : t \in {coding, Shipped, Plain(m), Plain(mFree)}}
  \cup {[kind |-> "import", id |-> Plain(mFree), alias |-> coding, setDefault |-> d,
         force |-> d] : d \in BOOLEAN}
  \cup {[kind |-> "guilds", channel |-> ch], [kind |-> "repair"]}
  \cup {[kind |-> "deploy", over |-> o, repair |-> FALSE] : o \in
         {[NoOverride EXCEPT !.bindings = {b}, !.entries = Dict({a1})],
          [NoOverride EXCEPT !.default = Key(Plain(m)),
                             !.models = {[id |-> Plain(m), unit |-> "million"]}]}}
  \cup {[kind |-> "deploy", over |-> [NoOverride EXCEPT !.bindings = {b, bId}], repair |-> TRUE]}
=============================================================================
