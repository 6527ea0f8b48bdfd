--------------------------- MODULE KeyProvisioning --------------------------
(***************************************************************************)
(* The per-agent OpenRouter keys, scripts/openrouter-provision.py: runs of *)
(* "provision" (one agent) and "sync" (a list of agents) that list the     *)
(* account page by page, create a key for each agent that has none and     *)
(* print its string, which OpenRouter gives out once.  Any number of runs  *)
(* and of revocations overlap; a request may be refused, its answer lost   *)
(* after it took effect, or carry no usable key string.                    *)
(*                                                                         *)
(* Abstractions: a key string is named by its hash; every request is       *)
(* handled in one step; an answer has its key string in one field only,    *)
(* and a masked one is recognised as such; dry runs and a sync of no       *)
(* agents change nothing.                                                  *)
(***************************************************************************)
EXTENDS Integers, Sequences, SequencesExt

CONSTANTS
  Agents,      \* agent ids, the labels of their keys
  Foreign,     \* the label of keys that belong to no agent
  Runs,        \* processes, each running one command
  Commands,    \* what they may run: see Command
  PageSize,    \* keys on a page of the list (100)
  MaxPages,    \* ceiling on the pages of one list (100)
  MaxInitial,  \* bound on the keys in the account to begin with
  MaxRevoked   \* bound on the keys revoked

Command == [kind : {"provision", "sync"}, agents : Seq(Agents)]

ASSUME KeyAssumption ==
  /\ Foreign \notin Agents
  /\ Commands \subseteq Command
  /\ \A c \in Commands : /\ c.agents # <<>>
                         /\ c.kind = "provision" => Len(c.agents) = 1
  /\ PageSize \in Nat \ {0} /\ MaxPages \in Nat \ {0}
  /\ MaxInitial \in Nat /\ MaxRevoked \in Nat

VARIABLES
  account,     \* the live keys, in the order the API lists them
  drawn,       \* hashes drawn so far
  run          \* each process: see RunState

vars == <<account, drawn, run>>

Labels == Agents \cup {Foreign}
Key == [hash : Nat, label : Labels]
NoKey == 0
Ceiling == PageSize * MaxPages

RunState ==
  [pc       : {"off", "list", "agent", "post", "relist", "requery", "print", "done"},
   cmd      : Commands,
   todo     : Seq(Agents),       \* the loop's agents, the current one first
   offset   : Nat,
   rows     : SUBSET Key,        \* normalized: the pages read so far
   existing : SUBSET Key,        \* the list the run began with
   key      : Nat,               \* hash of the string to print, or NoKey
   out      : SUBSET [agent : Agents, key : Nat],
                                 \* stdout, which is flushed at the exit
   exit     : {"none", "ok", "failed", "killed"},
   since    : SUBSET Nat,        \* history: hashes live when the run began
   made     : SUBSET Nat,        \* history: hashes of the keys it created
   partial  : BOOLEAN]           \* history: that list could not be whole
-----------------------------------------------------------------------------
Hashes == {k.hash : k \in ToSet(account)}

(* find_existing_key *)
Found(rows, agent) == \E k \in rows : k.label = agent

(* GET /keys?limit=PageSize&offset=n, and whether it is a short page.      *)
PageFrom(n) == {account[i] : i \in {j \in DOMAIN account : n < j /\ j <= n + PageSize}}
ShortAlways(n) == TRUE
Short(n) == Len(account) < n + PageSize

(* The loop ends at a short page, or at the ceiling.                       *)
LastPageIfShort(n) == Short(n)
LastPage(n) == Short(n) \/ n + PageSize >= Ceiling

Init ==
  /\ \E n \in 0..MaxInitial :
       /\ drawn = n
       /\ \E label \in [1..n -> Labels] :
            account = [i \in 1..n |-> [hash |-> i, label |-> label[i]]]
  /\ \E cmd \in [Runs -> Commands] :
       run = [r \in Runs |->
         [pc |-> "off", cmd |-> cmd[r], todo |-> cmd[r].agents, offset |-> 0, rows |-> {},
          existing |-> {}, key |-> NoKey, out |-> {}, exit |-> "none",
          since |-> {}, made |-> {}, partial |-> FALSE]]

(* One run changes state; one run ends.  Its buffer is flushed at any exit *)
(* but a kill, where nothing more is asked of what it did.                 *)
Becomes(r, state) == run' = [run EXCEPT ![r] = state]
OverOf(s, how, out) ==
  [s EXCEPT !.pc = "done", !.exit = how, !.todo = <<>>, !.rows = {}, !.offset = 0,
            !.key = NoKey, !.since = {}, !.partial = FALSE, !.out = out,
            !.made = IF how = "killed" THEN {} ELSE @]
OverPrintingLast(s, how) == OverOf(s, how, IF how = "ok" THEN s.out ELSE {})
Over(s, how) == OverOf(s, how, IF how = "killed" THEN {} ELSE s.out)
Exit(r, how) == Becomes(r, Over(run[r], how))
Agent(r) == Head(run[r].todo)

Start(r) ==
  /\ run[r].pc = "off"
  /\ Becomes(r, [run[r] EXCEPT !.pc = "list", !.since = Hashes])
  /\ UNCHANGED <<account, drawn>>
-----------------------------------------------------------------------------
(* create_key found its key in the list and returns None: sync fails on    *)
(* its next line, provision reports a key that is null.                    *)
RecoveredAsNull(r) == Becomes(r, [run[r] EXCEPT !.pc = "print", !.key = NoKey])
Recovered(r) ==
  IF run[r].cmd.kind = "sync" THEN Exit(r, "failed")
  ELSE Becomes(r, [run[r] EXCEPT !.pc = "print", !.key = NoKey])

(* list_keys reads one more page.  After the last one the run goes on with *)
(* the agents, or, where the list was to find the key it has just created, *)
(* reconciles (a match by hash is a match by label).                       *)
ListPage(r) ==
  LET s == run[r]
      rows == s.rows \cup PageFrom(s.offset)
      last == LastPage(s.offset)
  IN
  /\ s.pc \in {"list", "relist"}
  /\ \/ /\ ~last
        /\ Becomes(r, [s EXCEPT !.rows = rows, !.offset = @ + PageSize])
     \/ /\ last /\ s.pc = "list"
        /\ Becomes(r, [s EXCEPT !.pc = "agent", !.existing = rows, !.rows = {},
                                !.partial = @ \/ ~Short(s.offset)])
     \/ /\ last /\ s.pc = "relist" /\ rows = {}
        /\ Exit(r, "failed")
     \/ /\ last /\ s.pc = "relist" /\ Found(rows, Agent(r))
        /\ Recovered(r)
     \/ /\ last /\ s.pc = "relist" /\ rows # {} /\ ~Found(rows, Agent(r))
        /\ Becomes(r, [s EXCEPT !.pc = "requery"])
  /\ UNCHANGED <<account, drawn>>

(* A page that cannot be read fails the run, but for the errors that a     *)
(* provision takes for an empty account and the reconciliation for nothing *)
(* found yet.                                                              *)
ListFails(r) ==
  LET s == run[r] IN
  /\ \/ /\ s.pc \in {"list", "relist"}
        /\ Exit(r, "failed")
     \/ /\ s.pc = "list" /\ s.cmd.kind = "provision"
        /\ Becomes(r, [s EXCEPT !.pc = "agent", !.existing = {}, !.rows = {}, !.partial = TRUE])
     \/ /\ s.pc = "relist"
        /\ Becomes(r, [s EXCEPT !.pc = "requery"])
  /\ UNCHANGED <<account, drawn>>

(* The raw endpoint without a limit: the first page, or nothing. *)
Requery(r) ==
  /\ run[r].pc = "requery"
  /\ \/ Found(PageFrom(0), Agent(r)) /\ Recovered(r)
     \/ Exit(r, "failed")
  /\ UNCHANGED <<account, drawn>>

(* The next agent of the loop: there is none, it has a key, or needs one.  *)
NextAgent(r) ==
  LET s == run[r] IN
  /\ s.pc = "agent"
  /\ \/ /\ s.todo = <<>>
        /\ Exit(r, "ok")
     \/ /\ s.todo # <<>> /\ Found(s.existing, Agent(r))
        /\ Becomes(r, [s EXCEPT !.todo = Tail(@)])
     \/ /\ s.todo # <<>> /\ ~Found(s.existing, Agent(r))
        /\ Becomes(r, [s EXCEPT !.pc = "post"])
  /\ UNCHANGED <<account, drawn>>

(* POST /keys creates a key.  The answer carries its string, one that is   *)
(* masked or none at all, or it never arrives.                             *)
Post(r) ==
  LET s == [run[r] EXCEPT !.made = @ \cup {drawn + 1}] IN
  /\ s.pc = "post"
  /\ drawn' = drawn + 1
  /\ account' = Append(account, [hash |-> drawn', label |-> Agent(r)])
  /\ \/ Becomes(r, [s EXCEPT !.pc = "print", !.key = drawn'])
     \/ Becomes(r, [s EXCEPT !.pc = "relist", !.offset = 0, !.rows = {}])
     \/ Becomes(r, Over(s, "failed"))

PostFails(r) ==
  /\ run[r].pc = "post"
  /\ Exit(r, "failed")
  /\ UNCHANGED <<account, drawn>>

(* The line for the caller, which stays in the buffer until the exit.      *)
Line(r) == {[agent |-> Agent(r), key |-> run[r].key]}
PrintLine(r) ==
  /\ run[r].pc = "print"
  /\ Becomes(r, [run[r] EXCEPT !.pc = "agent", !.out = @ \cup Line(r), !.todo = Tail(@)])
  /\ UNCHANGED <<account, drawn>>

(* The process is killed: what it printed is lost with its buffer.         *)
Die(r) ==
  /\ run[r].pc \notin {"off", "done"}
  /\ Exit(r, "killed")
  /\ UNCHANGED <<account, drawn>>

(* "revoke --hash", by hand.  The keys after it move up in the list.       *)
Revoke(i) ==
  /\ drawn - Len(account) < MaxRevoked
  /\ account' = RemoveAt(account, i)
  /\ run' = [r \in Runs |-> IF run[r].pc = "list" THEN [run[r] EXCEPT !.partial = TRUE] ELSE run[r]]
  /\ UNCHANGED drawn
-----------------------------------------------------------------------------
Next ==
  \/ \E r \in Runs :
       \/ Start(r) \/ ListPage(r) \/ ListFails(r) \/ Requery(r) \/ NextAgent(r)
       \/ Post(r) \/ PostFails(r) \/ PrintLine(r) \/ Die(r)
  \/ \E i \in DOMAIN account : Revoke(i)

Spec == Init /\ [][Next]_vars
=============================================================================
