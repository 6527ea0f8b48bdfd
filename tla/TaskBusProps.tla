---------------------------- MODULE TaskBusProps ----------------------------
(***************************************************************************)
(* What TaskBus is expected to satisfy, crashes included.                  *)
(***************************************************************************)
EXTENDS TaskBus

(* Every directory holds the kind of file its name says: nobody claimed a  *)
(* _pending file, _active and _done files name their claimer and only      *)
(* _done files carry a completion.                                         *)
TypeOK ==
  /\ files \in [Dirs -> [Tasks -> Content \cup {NoFile}]]
  /\ \A t \in Tasks :
       /\ Exists("_pending", t) => files["_pending"][t] = Blank
       /\ Exists("_active", t) => /\ files["_active"][t].claimed_by # Nobody
                                  /\ files["_active"][t].completed = Nobody
       /\ Exists("_done", t) => /\ files["_done"][t].claimed_by # Nobody
                                /\ files["_done"][t].completed # Nobody
  /\ lock \in Agents \cup {Nobody}
  /\ pc \in [Agents -> Steps]
  /\ cmd \in [Agents -> Commands]
  /\ used \in SUBSET Tasks
  /\ acks \in SUBSET Acks
  /\ crashes \in 0..MaxCrashes
  /\ reader \in [Readers -> ReaderState]

(* A task whose submit reported success is on disk in some directory ever  *)
(* after, wherever a later claim or complete is cut short: the write of    *)
(* the new file precedes the unlink of the old one.                        *)
NoTaskLost == \A t \in Submitted : \E d \in Dirs : Exists(d, t)

(* Of all claims of a task (and of all completes) at most one exits 0,     *)
(* even after crashes that leave the task in two directories ("concurrent  *)
(* claims: exactly one wins", tests/cross-agent-task.bats).                *)
OneWinner ==
  \A a, b \in acks : a.op = b.op /\ a.task = b.task => a = b

(* Once a claim exited 0, every copy of the task names that claimer: no    *)
(* later command, interrupted or not, takes the task away ("First          *)
(* claimer's ownership is intact", tests/cross-agent-task.bats).           *)
OwnerIntact ==
  \A a \in acks : a.op = "claim" =>
    /\ ~Exists("_pending", a.task)
    /\ \A d \in {"_active", "_done"} :
         Exists(d, a.task) => files[d][a.task].claimed_by = a.by

(* An unfiltered list that exits 0 has printed every task whose submit had *)
(* succeeded before the list began, although list takes no lock and the    *)
(* tasks move on between its globs.                                        *)
ListComplete ==
  \A r \in Readers : reader[r].pc = "exit0" => reader[r].due = {}

(* The queue that TaskQueue describes: a task is where find_task finds it, *)
(* so a move takes effect when the old file is unlinked and an interrupted *)
(* move has not happened.                                                  *)
Place == [nowhere |-> "new", _pending |-> "pending", _active |-> "active", _done |-> "done"]
Phase == [t \in Tasks |-> Place[FindTask(t)]]
Owner == [t \in Tasks |->
            IF FindTask(t) \in {"_active", "_done"}
              THEN files[FindTask(t)][t].claimed_by ELSE Nobody]
Queue == INSTANCE TaskQueue WITH phase <- Phase, owner <- Owner

(* The bus implements the abstract queue: each step of a command or of a   *)
(* crash is a submit, a claim, a complete or no change at all.             *)
ImplementsQueue == Queue!Spec

(* A command that was started ends, also when the process that held the    *)
(* lock dies: flock is released by the kernel, no lock file is left over.  *)
CommandsEnd == \A p \in Agents : (pc[p] # "idle") ~> (pc[p] = "idle")
=============================================================================
