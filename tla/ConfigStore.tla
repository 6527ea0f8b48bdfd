---------------------------- MODULE ConfigStore ----------------------------
(***************************************************************************)
(* One openclaw.json and the commands that read it, change it and write it *)
(* back, several at once and none under a lock: a switch of the default    *)
(* model, the import of a model, the channels of a guild, the repair of    *)
(* the file and its replacement by a deploy (merge-openclaw-config.py with *)
(* the file as its output, and the template as its input).                 *)
(*                                                                         *)
(* A command opens the file for writing, which empties it, and then writes *)
(* from the start of the file: what two of them write at once may be mixed.*)
(***************************************************************************)
EXTENDS ConfigDoc

CONSTANTS
  Runs,        \* processes, each one command
  Commands,
  InitDocs,    \* what the file may hold at first
  Template,    \* the config a deploy merges its overrides into
  Catalogs     \* what the OpenRouter catalog may list, now or later

SwitchCmd == [kind : {"switch"}, target : Ids \cup Aliases]
ImportCmd == [kind : {"import"}, id : {i \in Ids : i.prefixes = 0},
              alias : Aliases \cup {None}, setDefault : BOOLEAN, force : BOOLEAN]
GuildsCmd == [kind : {"guilds"}, channel : Channels]
RepairCmd == [kind : {"repair"}]
DeployCmd == [kind : {"deploy"}, over : Overrides, repair : BOOLEAN]

ASSUME ConfigAssumption ==
  /\ Commands \subseteq SwitchCmd \cup ImportCmd \cup GuildsCmd \cup RepairCmd \cup DeployCmd
  /\ InitDocs \subseteq Doc /\ Template \in Doc
  /\ Catalogs \subseteq SUBSET {i \in Ids : i.prefixes = 0}
  /\ Longer \subseteq Names \X Names /\ Named \subseteq Bindings
  /\ None \notin Runs /\ None \notin Aliases
  /\ Aliases \cap Ids = {}

VARIABLES
  file,      \* openclaw.json
  cache,     \* the cached catalog, None when it is absent, old or torn
  backups,   \* the backup files by name (a name is that of its first writer);
             \* Torn where there is none
  run,       \* see RunState
  landed,    \* history: runs that wrote the file to the end
  lost,      \* history: runs whose change a later write may have dropped
  held       \* history: the file when it last could be read

vars == <<file, cache, backups, run, landed, lost, held>>

(* json5: with comments, which only the model manager strips.  torn: empty,*)
(* cut off or mixed; nobody can parse it.                                  *)
Contents == [text : {"json", "json5", "torn"}, doc : Doc]
Torn == [text |-> "torn", doc |-> Template]
Json(doc) == [text |-> "json", doc |-> doc]

RunState ==
  [pc     : {"idle", "fetch", "load", "resolve", "add", "backup", "open", "write",
             "done", "dead", "cut"},
   cmd    : Commands \cup {None},
   doc    : Doc,                     \* what it read, then what it will write
   id     : Ids \cup {None},         \* the model of a switch or an import
   name   : Runs \cup {None},        \* the name of its backup
   rc     : 0..2,
   unseen : SUBSET Runs,             \* history: runs that landed since it read
   mixed  : BOOLEAN,                 \* others opened or wrote since it opened
   raced  : BOOLEAN]                 \* history: or since it took its backup

Idle == [pc |-> "idle", cmd |-> None, doc |-> Template, id |-> None, name |-> None,
         rc |-> 0, unseen |-> {}, mixed |-> FALSE, raced |-> FALSE]

Init ==
  /\ file \in [text : {"json", "json5"}, doc : InitDocs]
  /\ cache = None
  /\ backups = [r \in Runs |-> Torn]
  /\ run = [r \in Runs |-> Idle]
  /\ landed = {} /\ lost = {}
  /\ held = file

Set(r, state) == run' = [run EXCEPT ![r] = state]
Goto(r, pc) == Set(r, [run[r] EXCEPT !.pc = pc])
Exit(r, rc) == Set(r, [run[r] EXCEPT !.pc = "done", !.rc = rc])
-----------------------------------------------------------------------------
Start(r) ==
  /\ run[r].pc = "idle"
  /\ \E c \in Commands :
       Set(r, [Idle EXCEPT !.pc = IF c.kind = "import" THEN "fetch" ELSE "load",
                           !.cmd = c, !.id = IF c.kind = "import" THEN c.id ELSE None])
  /\ UNCHANGED <<file, cache, backups, landed, lost, held>>

(* An import asks the catalog first, and never the cache.                  *)
FetchImport(r) ==
  /\ run[r].pc = "fetch"
  /\ \/ (\E c \in Catalogs : run[r].id \in c) /\ Goto(r, "load")
     \/ Exit(r, 1)
  /\ UNCHANGED <<file, cache, backups, landed, lost, held>>

(* What a command makes of the document it read, {} where it refuses.      *)
PlanImport(doc, cmd) ==
  IF cmd.id \in IdsOf(doc) /\ ~cmd.force THEN {} ELSE {Imported(doc, cmd)}
PlanMerge(merged, repair) ==
  LET doc == IF repair THEN Repair(merged) ELSE merged
  IN  {d \in {doc} : SchemaErrors(d) = {}}

Plan(doc, cmd) ==
  CASE cmd.kind = "import" -> PlanImport(doc, cmd)
    [] cmd.kind = "guilds" -> {Bound(doc, cmd)}
    [] cmd.kind = "repair" -> PlanMerge(doc, TRUE)
    [] cmd.kind = "switch" -> {doc}

CanRead(r) ==
  file.text \in {"json"} \cup IF run[r].cmd.kind = "switch" THEN {"json5"} ELSE {}

(* A deploy reads its own inputs: all that landed so far it has not seen.  *)
LoadInputs(r) ==
  LET cmd   == run[r].cmd
      plan  == PlanMerge(DeepMerge(Template, cmd.over), cmd.repair)
  IN  /\ run[r].pc = "load" /\ cmd.kind = "deploy"
      /\ \/ \E d \in plan : Set(r, [run[r] EXCEPT !.pc = "open", !.doc = d, !.unseen = landed])
         \/ plan = {} /\ Exit(r, 1)
      /\ UNCHANGED <<file, cache, backups, landed, lost, held>>

LoadFile(r) ==
  LET cmd  == run[r].cmd
      next == IF cmd.kind = "switch" THEN "resolve" ELSE "open"
  IN  /\ run[r].pc = "load" /\ cmd.kind # "deploy" /\ CanRead(r)
      /\ \/ \E d \in Plan(file.doc, cmd) : Set(r, [run[r] EXCEPT !.pc = next, !.doc = d])
         \/ Plan(file.doc, cmd) = {} /\ Exit(r, 1)
      /\ UNCHANGED <<file, cache, backups, landed, lost, held>>

LoadFails(r) ==
  /\ run[r].pc = "load" /\ run[r].cmd.kind # "deploy" /\ ~CanRead(r)
  /\ Exit(r, IF run[r].cmd.kind = "repair" THEN 2 ELSE 1)
  /\ UNCHANGED <<file, cache, backups, landed, lost, held>>

(* The catalog, from the cache while it is young; {} where the fetch fails.*)
(* The cache may prove impossible to write.                                *)
Fetched == IF cache # None THEN {cache} ELSE Catalogs \cup {{}}
Caches(c) == cache' \in IF c = {} THEN {cache} ELSE {c, cache}

Resolve(r) ==
  /\ run[r].pc = "resolve"
  /\ LET target == run[r].cmd.target
         ids(c) == ResolveModelId(target, run[r].doc, c)
         found(c) == \/ \E i \in ids(c) : Set(r, [run[r] EXCEPT !.pc = "add", !.id = i])
                     \/ ids(c) = {} /\ Exit(r, 1)
     IN  \/ Local(target, run[r].doc) /\ found({}) /\ UNCHANGED cache
         \/ ~Local(target, run[r].doc) /\ \E c \in Fetched : found(c) /\ Caches(c)
  /\ UNCHANGED <<file, backups, landed, lost, held>>

(* A model that is not configured is looked up in the catalog once more.   *)
Add(r) ==
  /\ run[r].pc = "add"
  /\ LET id == run[r].id
         doc == Switched(run[r].doc, id)
         save == \/ SchemaSafe(doc) /\ Set(r, [run[r] EXCEPT !.pc = "backup", !.doc = doc])
                 \/ ~SchemaSafe(doc) /\ Exit(r, 1)
     IN  \/ id \in IdsOf(run[r].doc) /\ save /\ UNCHANGED cache
         \/ /\ id \notin IdsOf(run[r].doc)
            /\ \E c \in Fetched :
                 /\ Caches(c)
                 /\ IF id \in c THEN save ELSE Exit(r, 1)
  /\ UNCHANGED <<file, backups, landed, lost, held>>

BackupSkipped(r) ==
  /\ run[r].pc = "backup"
  /\ Set(r, [run[r] EXCEPT !.pc = "open", !.name = r])
  /\ UNCHANGED <<file, cache, backups, landed, lost, held>>
(* The name has the second in it: a switch of the same second reuses it.   *)
Backup(r) ==
  /\ run[r].pc = "backup"
  /\ \E n \in {r} \cup ({run[s].name : s \in Runs} \ {None}) :
       /\ backups' = [backups EXCEPT ![n] = file]
       /\ Set(r, [run[r] EXCEPT !.pc = "open", !.name = n])
  /\ UNCHANGED <<file, cache, landed, lost, held>>
-----------------------------------------------------------------------------
Writing(s) == run[s].pc = "write"

Meets(s) == run[s].pc \in {"open", "write"}

(* Opening the file empties it. *)
Open(r) ==
  /\ run[r].pc = "open"
  /\ file' = Torn
  /\ run' = [s \in Runs |->
       IF s = r THEN [run[r] EXCEPT !.pc = "write"]
       ELSE IF Meets(s) THEN [run[s] EXCEPT !.mixed = @ \/ Writing(s), !.raced = TRUE]
       ELSE run[s]]
  /\ UNCHANGED <<cache, backups, landed, lost, held>>

HasRead(s) == Meets(s) \/ run[s].pc \in {"resolve", "add", "backup"}

Write(r) ==
  /\ run[r].pc = "write"
  /\ file' \in {Json(run[r].doc)} \cup IF run[r].mixed THEN {Torn} ELSE {}
  /\ run' = [s \in Runs |->
       IF s = r THEN [run[r] EXCEPT !.pc = "done"]
       ELSE IF HasRead(s)
         THEN [run[s] EXCEPT !.unseen = @ \cup {r}, !.mixed = @ \/ Writing(s),
                             !.raced = @ \/ Meets(s)]
       ELSE run[s]]
  /\ landed' = landed \cup {r}
  /\ lost' = lost \cup run[r].unseen
  /\ held' = IF file' = Torn THEN held ELSE file'
  /\ UNCHANGED <<cache, backups>>

(* A command is killed, or a file operation fails. *)
Die(r) ==
  /\ run[r].pc \notin {"idle", "done", "dead", "cut"}
  /\ Goto(r, IF Writing(r) THEN "cut" ELSE "dead")
  /\ UNCHANGED <<file, cache, backups, landed, lost, held>>

(* The cache is an hour old, or its writer was cut short. *)
ExpireCache ==
  /\ cache # None
  /\ cache' = None
  /\ UNCHANGED <<file, backups, run, landed, lost, held>>

Step(r) ==
  \/ Start(r) \/ FetchImport(r) \/ LoadInputs(r) \/ LoadFile(r) \/ LoadFails(r)
  \/ Resolve(r) \/ Add(r) \/ Backup(r) \/ Open(r) \/ Write(r)

Next == ExpireCache \/ \E r \in Runs : Step(r) \/ Die(r)

Spec == Init /\ [][Next]_vars
=============================================================================
