----------------------------- MODULE TaskQueue -----------------------------
(***************************************************************************)
(* What scripts/cross-agent-task.py promises its callers, with no files,   *)
(* no lock and no crashes: a task is submitted once, claimed by exactly    *)
(* one agent and then completed, each in one atomic step.  TaskBus.tla is  *)
(* the detailed system; its Queue instance says how it implements this.    *)
(***************************************************************************)
CONSTANTS
  Tasks,       \* task ids
  Agents,      \* the lanes that issue commands
  Nobody       \* the owner of a task that was never claimed

VARIABLES
  phase,       \* how far each task has come
  owner        \* who holds (or held) each task

qvars == <<phase, owner>>

Phases == {"new", "pending", "active", "done"}

TypeOK ==
  /\ phase \in [Tasks -> Phases]
  /\ owner \in [Tasks -> Agents \cup {Nobody}]

Init ==
  /\ phase = [t \in Tasks |-> "new"]
  /\ owner = [t \in Tasks |-> Nobody]

Submit(t) ==
  /\ phase[t] = "new"
  /\ phase' = [phase EXCEPT ![t] = "pending"]
  /\ UNCHANGED owner

Claim(t, a) ==
  /\ phase[t] = "pending"
  /\ phase' = [phase EXCEPT ![t] = "active"]
  /\ owner' = [owner EXCEPT ![t] = a]

Complete(t) ==
  /\ phase[t] = "active"
  /\ phase' = [phase EXCEPT ![t] = "done"]
  /\ UNCHANGED owner

Next ==
  \E t \in Tasks :
    \/ Submit(t)
    \/ \E a \in Agents : Claim(t, a)
    \/ Complete(t)

Spec == Init /\ [][Next]_qvars
=============================================================================
