------------------------------ MODULE TaskBus ------------------------------
(***************************************************************************)
(* The durable cross-agent task queue, scripts/cross-agent-task.py: three  *)
(* directories (_pending, _active, _done) of one JSON file per task, moved *)
(* forward by short-lived CLI processes.  submit, claim and complete hold  *)
(* an flock over the whole bus; list takes no lock.  A move is a write of  *)
(* the new file (atomic os.replace) followed by an unlink of the old one,  *)
(* and a process can die, or have a file operation fail, between any two   *)
(* steps.  The kernel then drops its flock.                                *)
(*                                                                         *)
(* Abstractions: the task id is a member of Tasks (uuid4 ids do not        *)
(* collide); of the JSON only claimed_by and the stamp of the completing   *)
(* command are kept; the temporary file of atomic_write is invisible (list *)
(* globs *.json, find_task asks for <id>.json) and is part of the write.   *)
(***************************************************************************)
EXTENDS Naturals, Sequences

CONSTANTS
  Tasks,       \* task ids
  Agents,      \* the lanes that run submit, claim and complete
  Readers,     \* processes that run list
  MaxCrashes,  \* bound on how many commands are cut short
  NoFile,      \* no such file in a directory
  Nobody       \* no agent: a field that is not in the JSON, a free lock

ASSUME ConstantsAssumption == Tasks # {} /\ MaxCrashes \in Nat

\* A task file: who claimed it, and whose complete stamped it.
Content == [claimed_by : Agents \cup {Nobody}, completed : Agents \cup {Nobody}]

ASSUME NullAssumption == Nobody \notin Agents /\ NoFile \notin Content

VARIABLES
  files,       \* files[state][task]: the content on disk, or NoFile
  lock,        \* the agent whose process holds the flock, or Nobody
  pc,          \* where each agent's command stands
  cmd,         \* the command's operation, task and the data it loaded
  used,        \* ids drawn by a submit
  acks,        \* history: the commands that exited 0
  crashes,     \* how many commands were cut short
  reader       \* each list command: see ReaderState

vars == <<files, lock, pc, cmd, used, acks, crashes, reader>>
busVars == <<files, lock, pc, cmd, used, acks, crashes>>

STATES == <<"_pending", "_active", "_done">>
Dirs == {"_pending", "_active", "_done"}
Operations == {"submit", "claim", "complete"}

Blank == [claimed_by |-> Nobody, completed |-> Nobody]
Idle == [op |-> "submit", task |-> CHOOSE t \in Tasks : TRUE, data |-> Blank, ok |-> TRUE]

Steps == {"idle", "lock", "find", "write", "unlink", "unlock"}
Commands == [op : Operations, task : Tasks, data : Content, ok : BOOLEAN]
Acks == [op : Operations, task : Tasks, by : Agents]

ReaderState ==
  [pc   : {"idle", "glob", "load", "exit0", "exit1"},
   scan : Seq(Dirs),          \* directories not finished yet
   todo : SUBSET Tasks,       \* globbed in Head(scan) and not loaded yet
   due  : SUBSET Tasks]       \* submitted before an unfiltered list began,
                              \* and not printed yet
ListAt(at, scan, due) == [pc |-> at, scan |-> scan, todo |-> {}, due |-> due]
NoList == ListAt("idle", <<>>, {})
-----------------------------------------------------------------------------
(* Where an operation takes a task from and where it puts it.              *)
Source(op) == IF op = "claim" THEN "_pending" ELSE "_active"
Target(op) == CASE op = "submit" -> "_pending"
                [] op = "claim" -> "_active"
                [] op = "complete" -> "_done"

Exists(d, t) == files[d][t] # NoFile

(* find_task: the first directory, in the order of STATES, that has it.    *)
SearchOrder == STATES
FindTask(t) ==
  IF Exists(SearchOrder[1], t) THEN SearchOrder[1]
  ELSE IF Exists(SearchOrder[2], t) THEN SearchOrder[2]
  ELSE IF Exists(SearchOrder[3], t) THEN SearchOrder[3] ELSE "nowhere"

(* The check that a claim or a complete makes on what find_task returned.  *)
MayMoveAnyState(op, t) == FindTask(t) \in {"_pending", "_active"}
MayMove(op, t) == FindTask(t) = Source(op)

(* The fields the command adds to the JSON it loaded.                      *)
StampUnsigned(op, data, p) == IF op = "claim" THEN data ELSE [data EXCEPT !.completed = p]
Stamp(op, data, p) ==
  IF op = "claim" THEN [data EXCEPT !.claimed_by = p] ELSE [data EXCEPT !.completed = p]

(* The order of a move: the new file is on disk before the old one goes.   *)
UnlinkFirst == [find |-> "unlink", unlink |-> "write", write |-> "unlock"]
After == [find |-> "write", write |-> "unlink", unlink |-> "unlock"]

(* flock(LOCK_EX) returns only while no other process holds the lock.      *)
LockSharable(p) == lock = lock
LockAvailable(p) == lock = Nobody
-----------------------------------------------------------------------------
Init ==
  /\ files = [d \in Dirs |-> [t \in Tasks |-> NoFile]]
  /\ lock = Nobody
  /\ pc = [p \in Agents |-> "idle"]
  /\ cmd = [p \in Agents |-> Idle]
  /\ used = {}
  /\ acks = {}
  /\ crashes = 0
  /\ reader = [r \in Readers |-> NoList]

(* A process starts: submit draws a fresh id, claim and complete are given *)
(* any id, one that was never submitted included.                          *)
Start(p, op, t) ==
  /\ pc[p] = "idle"
  /\ op = "submit" => t \notin used
  /\ used' = IF op = "submit" THEN used \cup {t} ELSE used
  /\ pc' = [pc EXCEPT ![p] = "lock"]
  /\ cmd' = [cmd EXCEPT ![p] = [op |-> op, task |-> t, data |-> Blank, ok |-> TRUE]]
  /\ UNCHANGED <<files, lock, acks, crashes, reader>>

(* BusLock.__enter__ *)
Acquire(p) ==
  /\ pc[p] = "lock"
  /\ LockAvailable(p)
  /\ lock' = p
  /\ pc' = [pc EXCEPT ![p] = IF cmd[p].op = "submit" THEN "write" ELSE "find"]
  /\ UNCHANGED <<files, cmd, used, acks, crashes, reader>>

(* find_task, the refusal, and load with the new fields set.               *)
Find(p) ==
  LET c == cmd[p] IN
  /\ pc[p] = "find"
  /\ \/ /\ MayMove(c.op, c.task)
        /\ cmd' = [cmd EXCEPT ![p].data = Stamp(c.op, files[FindTask(c.task)][c.task], p)]
        /\ pc' = [pc EXCEPT ![p] = After.find]
     \/ /\ ~MayMove(c.op, c.task)
        /\ cmd' = [cmd EXCEPT ![p].ok = FALSE]
        /\ pc' = [pc EXCEPT ![p] = "unlock"]
  /\ UNCHANGED <<files, lock, used, acks, crashes, reader>>

(* atomic_write of the target file *)
Write(p) ==
  LET c == cmd[p] IN
  /\ pc[p] = "write"
  /\ files' = [files EXCEPT ![Target(c.op)][c.task] = c.data]
  /\ pc' = [pc EXCEPT ![p] = IF c.op = "submit" THEN "unlock" ELSE After.write]
  /\ UNCHANGED <<lock, cmd, used, acks, crashes, reader>>

(* src.unlink() *)
Unlink(p) ==
  LET c == cmd[p] IN
  /\ pc[p] = "unlink"
  /\ files' = [files EXCEPT ![Source(c.op)][c.task] = NoFile]
  /\ pc' = [pc EXCEPT ![p] = After.unlink]
  /\ UNCHANGED <<lock, cmd, used, acks, crashes, reader>>

(* BusLock.__exit__, the printed id and the exit code *)
Unlock(p) ==
  LET c == cmd[p] IN
  /\ pc[p] = "unlock"
  /\ lock' = Nobody
  /\ acks' = IF c.ok THEN acks \cup {[op |-> c.op, task |-> c.task, by |-> p]} ELSE acks
  /\ pc' = [pc EXCEPT ![p] = "idle"]
  /\ cmd' = [cmd EXCEPT ![p] = Idle]
  /\ UNCHANGED <<files, used, crashes, reader>>

(* The process is killed, or a file operation raises OSError, which main   *)
(* does not catch.  Either way the flock is gone and nothing is undone.    *)
CrashKeepsLock(p) ==
  /\ pc[p] # "idle"
  /\ crashes < MaxCrashes
  /\ crashes' = crashes + 1
  /\ pc' = [pc EXCEPT ![p] = "idle"]
  /\ cmd' = [cmd EXCEPT ![p] = Idle]
  /\ UNCHANGED <<files, lock, used, acks, reader>>
Crash(p) ==
  /\ pc[p] # "idle"
  /\ crashes < MaxCrashes
  /\ crashes' = crashes + 1
  /\ lock' = IF lock = p THEN Nobody ELSE lock
  /\ pc' = [pc EXCEPT ![p] = "idle"]
  /\ cmd' = [cmd EXCEPT ![p] = Idle]
  /\ UNCHANGED <<files, used, acks, reader>>
-----------------------------------------------------------------------------
(* list: one directory after another; a directory is globbed once, then    *)
(* its files are loaded one by one, all without the lock.                  *)
ScanOrderDoneFirst == <<"_done", "_active", "_pending">>
ScanOrder == STATES

Submitted == {a.task : a \in {b \in acks : b.op = "submit"}}

ListStart(r) ==
  /\ reader[r].pc \in {"idle", "exit0", "exit1"}
  /\ \E scan \in {ScanOrder} \cup {<<d>> : d \in Dirs} :
       reader' = [reader EXCEPT ![r] =
         ListAt("glob", scan, IF scan = ScanOrder THEN Submitted ELSE {})]
  /\ UNCHANGED busVars

ListGlob(r) ==
  /\ reader[r].pc = "glob"
  /\ reader' = [reader EXCEPT
       ![r].todo = {t \in Tasks : Exists(Head(reader[r].scan), t)},
       ![r].pc = "load"]
  /\ UNCHANGED busVars

(* load(path) and the printed line.  A file that was moved on since the    *)
(* glob raises FileNotFoundError, which main does not catch.               *)
ListLoad(r) ==
  \E t \in reader[r].todo :
    /\ reader[r].pc = "load"
    /\ IF Exists(Head(reader[r].scan), t)
         THEN reader' = [reader EXCEPT ![r].todo = @ \ {t}, ![r].due = @ \ {t}]
         ELSE reader' = [reader EXCEPT ![r] = ListAt("exit1", <<>>, {})]
    /\ UNCHANGED busVars

ListNextDir(r) ==
  /\ reader[r].pc = "load"
  /\ reader[r].todo = {}
  /\ reader' = [reader EXCEPT
       ![r].scan = Tail(@),
       ![r].pc = IF Len(reader[r].scan) = 1 THEN "exit0" ELSE "glob"]
  /\ UNCHANGED busVars
-----------------------------------------------------------------------------
Progress(p) == Find(p) \/ Write(p) \/ Unlink(p) \/ Unlock(p)
ListProgress(r) == ListGlob(r) \/ ListLoad(r) \/ ListNextDir(r)

Next ==
  \/ \E p \in Agents :
       \/ \E op \in Operations, t \in Tasks : Start(p, op, t)
       \/ Acquire(p)
       \/ Find(p)
       \/ Write(p)
       \/ Unlink(p)
       \/ Unlock(p)
       \/ Crash(p)
  \/ \E r \in Readers :
       \/ ListStart(r)
       \/ ListGlob(r)
       \/ ListLoad(r)
       \/ ListNextDir(r)

Spec == Init /\ [][Next]_vars

(* A running process keeps running, and the kernel grants a blocking flock *)
(* to every waiter in turn (its waiters queue), so Acquire is strongly     *)
(* fair.  Nothing obliges anyone to start a command, or to crash.          *)
Fairness ==
  /\ \A p \in Agents : WF_vars(Progress(p)) /\ SF_vars(Acquire(p))
  /\ \A r \in Readers : WF_vars(ListProgress(r))

FairSpec == Spec /\ Fairness
=============================================================================
