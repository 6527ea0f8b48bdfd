--------------------------- MODULE TaskBusProofs ---------------------------
(***************************************************************************)
(* Machine-checked proofs about TaskBus, for every set of tasks, lanes and *)
(* readers and any number of crashes.                                      *)
(*                                                                         *)
(* None of the safety properties is inductive by itself.  IInv adds what a *)
(* command knows at each of its steps (StepInv) because it holds the lock  *)
(* (LockInv), which files can be there together (DirInv), that an id is    *)
(* submitted once (FreshInv) and what a command that exited 0 has left on  *)
(* disk (AckInv).                                                          *)
(***************************************************************************)
EXTENDS TaskBusProps, TLAPS

Pend(t) == files["_pending"][t]
Act(t) == files["_active"][t]
Done(t) == files["_done"][t]

HasPend(t) == Pend(t) # NoFile
HasAct(t) == Act(t) # NoFile
HasDone(t) == Done(t) # NoFile

(* Only the holder of the flock is past BusLock.__enter__. *)
LockInv ==
  \A p \in Agents : pc[p] \in {"find", "write", "unlink", "unlock"} => lock = p

(* An id that a submit has not drawn is nowhere; one that a running submit *)
(* has drawn is its own and, until its write, nowhere either.              *)
FreshInv ==
  /\ \A t \in Tasks \ used :
       /\ ~HasPend(t) /\ ~HasAct(t) /\ ~HasDone(t)
       /\ \A a \in acks : a.task # t
  /\ \A p \in Agents : pc[p] # "idle" /\ cmd[p].op = "submit" =>
       /\ cmd[p].task \in used
       /\ \A a \in acks : ~(a.op = "submit" /\ a.task = cmd[p].task)
       /\ \A q \in Agents :
            pc[q] # "idle" /\ cmd[q].op = "submit" /\ cmd[q].task = cmd[p].task => q = p
       /\ pc[p] \in {"lock", "write"} =>
            ~HasPend(cmd[p].task) /\ ~HasAct(cmd[p].task) /\ ~HasDone(cmd[p].task)

(* What the command of p relies on at each step of its move. *)
SubmitInv(p) ==
  LET t == cmd[p].task IN
  /\ pc[p] \notin {"find", "unlink"}
  /\ cmd[p].data = Blank /\ cmd[p].ok
  /\ pc[p] = "unlock" => HasPend(t)
ClaimInv(p) ==
  LET t == cmd[p].task IN
  /\ pc[p] = "write" => HasPend(t) /\ cmd[p].data = [claimed_by |-> p, completed |-> Nobody]
  /\ pc[p] = "unlink" => HasPend(t) /\ HasAct(t) /\ Act(t).claimed_by = p
  /\ pc[p] = "unlock" /\ cmd[p].ok =>
       ~HasPend(t) /\ HasAct(t) /\ ~HasDone(t) /\ Act(t).claimed_by = p
CompleteInv(p) ==
  LET t == cmd[p].task IN
  /\ pc[p] = "write" => /\ ~HasPend(t) /\ HasAct(t)
                        /\ cmd[p].data = [claimed_by |-> Act(t).claimed_by, completed |-> p]
  /\ pc[p] = "unlink" => /\ ~HasPend(t) /\ HasAct(t) /\ HasDone(t)
                         /\ Done(t).completed = p
  /\ pc[p] = "unlock" /\ cmd[p].ok =>
       ~HasPend(t) /\ ~HasAct(t) /\ HasDone(t) /\ Done(t).completed = p
Relies(p) ==
  pc[p] # "idle" =>
    /\ cmd[p].op = "submit" => SubmitInv(p)
    /\ cmd[p].op = "claim" => ClaimInv(p)
    /\ cmd[p].op = "complete" => CompleteInv(p)
StepInv == \A p \in Agents : Relies(p)

(* Which copies of one task can be on disk together. *)
DirInv ==
  \A t \in Tasks :
    /\ ~(HasPend(t) /\ HasDone(t))
    /\ HasAct(t) /\ HasDone(t) => Act(t).claimed_by = Done(t).claimed_by

(* What a command that exited 0 has left behind for good. *)
AckInv ==
  \A a \in acks :
    /\ HasPend(a.task) \/ HasAct(a.task) \/ HasDone(a.task)
    /\ a.op = "claim" =>
         /\ ~HasPend(a.task)
         /\ HasAct(a.task) => Act(a.task).claimed_by = a.by
         /\ HasDone(a.task) => Done(a.task).claimed_by = a.by
    /\ a.op = "complete" =>
         ~HasPend(a.task) /\ ~HasAct(a.task) /\ Done(a.task).completed = a.by

ReaderInv ==
  \A r \in Readers : reader[r].pc \in {"glob", "load"} => reader[r].scan # <<>>

IInv ==
  /\ TypeOK /\ LockInv /\ FreshInv /\ StepInv /\ DirInv /\ AckInv /\ ReaderInv /\ OneWinner
-----------------------------------------------------------------------------
(* The properties that describe where files are, as one group.             *)

(* find_task looks in _pending first, then in _active, then in _done.      *)
LEMMA FindTaskOrder ==
  ASSUME NEW t \in Tasks
  PROVE  /\ HasPend(t) <=> FindTask(t) = "_pending"
         /\ ~HasPend(t) /\ HasAct(t) <=> FindTask(t) = "_active"
         /\ ~HasPend(t) /\ ~HasAct(t) /\ HasDone(t) <=> FindTask(t) = "_done"
         /\ ~HasPend(t) /\ ~HasAct(t) /\ ~HasDone(t) <=> FindTask(t) = "nowhere"
<1>1. /\ SearchOrder[1] = "_pending" /\ SearchOrder[2] = "_active" /\ SearchOrder[3] = "_done"
  BY DEF SearchOrder, STATES
<1>2. QED
  BY <1>1 DEF FindTask, Exists, HasPend, HasAct, HasDone, Pend, Act, Done

(* A command that stands still while no file changes may go on relying on  *)
(* what it did.                                                            *)
LEMMA KeepsRelying ==
  ASSUME NEW q \in Agents, UNCHANGED files, pc'[q] = pc[q], cmd'[q] = cmd[q], Relies(q)
  PROVE  Relies(q)'
BY DEF Relies, SubmitInv, ClaimInv, CompleteInv, HasPend, HasAct, HasDone, Pend, Act, Done

LEMMA OneMoves ==
  ASSUME StepInv, NEW p \in Agents, UNCHANGED files, Relies(p)',
         \A q \in Agents \ {p} : pc'[q] = pc[q] /\ cmd'[q] = cmd[q]
  PROVE  StepInv'
<1>1. ASSUME NEW q \in Agents PROVE Relies(q)'
  <2>1. CASE q = p
    BY <2>1
  <2>2. CASE q # p
    BY <2>2, KeepsRelying DEF StepInv
  <2>3. QED
    BY <2>1, <2>2
<1>2. QED
  BY <1>1 DEF StepInv

LEMMA InitIInv == Init => IInv
<1> SUFFICES ASSUME Init PROVE IInv
  OBVIOUS
<1> USE ConstantsAssumption, NullAssumption
<1>1. Blank \in Content /\ Idle \in Commands
  BY DEF Blank, Idle, Content, Commands, Operations
<1>2. NoList \in ReaderState
  BY DEF NoList, ListAt, ReaderState
<1>3. TypeOK
  BY <1>1, <1>2 DEF Init, TypeOK, Dirs, Exists, Steps
<1>4. LockInv /\ ReaderInv /\ OneWinner
  BY DEF Init, LockInv, ReaderInv, OneWinner, NoList, ListAt
<1>5. FreshInv /\ StepInv /\ DirInv /\ AckInv
  BY DEF Init, FreshInv, StepInv, Relies, DirInv, AckInv, Dirs, HasPend, HasAct, HasDone, Pend, Act, Done
<1>6. QED
  BY <1>3, <1>4, <1>5 DEF IInv

LEMMA StartStep ==
  ASSUME IInv, NEW p \in Agents, NEW op \in Operations, NEW t \in Tasks, Start(p, op, t)
  PROVE  IInv'
<1> USE ConstantsAssumption, NullAssumption
<1>1. TypeOK /\ LockInv /\ FreshInv /\ StepInv /\ DirInv /\ AckInv /\ ReaderInv /\ OneWinner
  BY DEF IInv
<1>2. Blank \in Content
  BY DEF Blank, Content
<1>3. TypeOK'
  BY <1>1, <1>2 DEF Start, TypeOK, Steps, Commands, Exists
<1>4. LockInv'
  BY <1>1 DEF Start, LockInv, TypeOK
<1>5. FreshInv'
  BY <1>1 DEF Start, FreshInv, TypeOK, HasPend, HasAct, HasDone, Pend, Act, Done, Operations
<1>6. StepInv'
  <2>1. /\ pc'[p] = "lock" /\ cmd'[p].op = op
        /\ op = "submit" => cmd'[p].data = Blank /\ cmd'[p].ok
        /\ \A q \in Agents \ {p} : pc'[q] = pc[q] /\ cmd'[q] = cmd[q]
        /\ UNCHANGED files
    BY <1>1 DEF Start, TypeOK
  <2>2. Relies(p)'
    BY <2>1 DEF Relies, SubmitInv, ClaimInv, CompleteInv
  <2>3. QED
    BY <1>1, <2>1, <2>2, OneMoves
<1>7. DirInv' /\ AckInv' /\ ReaderInv' /\ OneWinner'
  BY <1>1 DEF Start, DirInv, AckInv, ReaderInv, OneWinner,
              HasPend, HasAct, HasDone, Pend, Act, Done
<1>8. QED
  BY <1>3, <1>4, <1>5, <1>6, <1>7 DEF IInv

LEMMA AcquireStep ==
  ASSUME IInv, NEW p \in Agents, Acquire(p)
  PROVE  IInv'
<1> USE ConstantsAssumption, NullAssumption
<1>1. TypeOK /\ LockInv /\ FreshInv /\ StepInv /\ DirInv /\ AckInv /\ ReaderInv /\ OneWinner
  BY DEF IInv
<1>2. TypeOK'
  BY <1>1 DEF Acquire, TypeOK, Steps, Exists
<1>3. LockInv'
  BY <1>1 DEF Acquire, LockAvailable, LockInv, TypeOK
<1>4. FreshInv'
  BY <1>1 DEF Acquire, FreshInv, TypeOK, HasPend, HasAct, HasDone, Pend, Act, Done
<1>5. StepInv'
  BY <1>1 DEF Acquire, StepInv, Relies, SubmitInv, ClaimInv, CompleteInv, TypeOK,
              HasPend, HasAct, HasDone, Pend, Act, Done
<1>6. DirInv' /\ AckInv' /\ ReaderInv' /\ OneWinner'
  BY <1>1 DEF Acquire, DirInv, AckInv, ReaderInv, OneWinner,
              HasPend, HasAct, HasDone, Pend, Act, Done
<1>7. QED
  BY <1>2, <1>3, <1>4, <1>5, <1>6 DEF IInv

LEMMA FindStep ==
  ASSUME IInv, NEW p \in Agents, Find(p)
  PROVE  IInv'
<1> USE ConstantsAssumption, NullAssumption
<1>1. TypeOK /\ LockInv /\ FreshInv /\ StepInv /\ DirInv /\ AckInv /\ ReaderInv /\ OneWinner
  BY DEF IInv
<1> DEFINE c == cmd[p]
<1>2. /\ c \in Commands /\ c.task \in Tasks /\ c.op \in {"claim", "complete"}
      /\ pc[p] = "find" /\ lock = p
  BY <1>1 DEF Find, TypeOK, Commands, Operations, StepInv, Relies, SubmitInv, LockInv
<1>3. UNCHANGED <<files, lock, used, acks, crashes, reader>>
  BY DEF Find
<1>4. CASE MayMove(c.op, c.task)
  <2>1. /\ c.op = "claim" => FindTask(c.task) = "_pending" /\ HasPend(c.task)
        /\ c.op = "complete" => /\ FindTask(c.task) = "_active"
                                /\ ~HasPend(c.task) /\ HasAct(c.task)
    BY <1>2, <1>4, FindTaskOrder DEF MayMove, Source
  <2>2. /\ cmd' = [cmd EXCEPT ![p].data = Stamp(c.op, files[FindTask(c.task)][c.task], p)]
        /\ pc' = [pc EXCEPT ![p] = "write"]
    BY <1>4 DEF Find, After
  <2>3. /\ c.op = "claim" => cmd'[p].data = [claimed_by |-> p, completed |-> Nobody]
        /\ c.op = "complete" =>
             cmd'[p].data = [claimed_by |-> Act(c.task).claimed_by, completed |-> p]
    BY <1>1, <1>2, <2>1, <2>2 DEF TypeOK, Stamp, Commands, Content, Dirs, Exists, Blank,
         HasPend, HasAct, Pend, Act
  <2>4. cmd'[p].data \in Content
    BY <1>1, <1>2, <2>1, <2>3 DEF TypeOK, Content, Dirs, Exists, HasAct, Act
  <2>5. /\ cmd' \in [Agents -> Commands]
        /\ cmd'[p].op = c.op /\ cmd'[p].task = c.task
        /\ \A q \in Agents \ {p} : cmd'[q] = cmd[q]
    BY <1>1, <1>2, <2>2, <2>4 DEF TypeOK, Commands
  <2>6. TypeOK'
    BY <1>1, <1>3, <2>2, <2>5 DEF TypeOK, Steps, Exists
  <2>7. LockInv'
    BY <1>1, <1>2, <1>3, <2>2 DEF LockInv, TypeOK
  <2>8. FreshInv'
    BY <1>1, <1>2, <1>3, <2>2, <2>5
       DEF FreshInv, TypeOK, HasPend, HasAct, HasDone, Pend, Act, Done
  <2>9. StepInv'
    <3>1. /\ pc'[p] = "write"
          /\ \A q \in Agents \ {p} : pc'[q] = pc[q]
      BY <1>1, <2>2 DEF TypeOK
    <3>2. ClaimInv(p)' \/ c.op # "claim"
      BY <1>3, <2>1, <2>3, <2>5, <3>1 DEF ClaimInv, HasPend, Pend
    <3>3. CompleteInv(p)' \/ c.op # "complete"
      BY <1>3, <2>1, <2>3, <2>5, <3>1 DEF CompleteInv, HasPend, HasAct, Pend, Act
    <3>4. Relies(p)'
      BY <1>2, <2>5, <3>2, <3>3 DEF Relies
    <3>5. QED
      BY <1>1, <1>3, <2>5, <3>1, <3>4, OneMoves
  <2>10. DirInv' /\ AckInv' /\ ReaderInv' /\ OneWinner'
    BY <1>1, <1>3 DEF DirInv, AckInv, ReaderInv, OneWinner,
         HasPend, HasAct, HasDone, Pend, Act, Done
  <2>11. QED
    BY <2>6, <2>7, <2>8, <2>9, <2>10 DEF IInv
<1>5. CASE ~MayMove(c.op, c.task)
  <2>1. /\ cmd' = [cmd EXCEPT ![p].ok = FALSE]
        /\ pc' = [pc EXCEPT ![p] = "unlock"]
    BY <1>5 DEF Find
  <2>2. /\ cmd' \in [Agents -> Commands]
        /\ cmd'[p].op = c.op /\ cmd'[p].task = c.task /\ cmd'[p].ok = FALSE
        /\ \A q \in Agents \ {p} : cmd'[q] = cmd[q]
    BY <1>1, <1>2, <2>1 DEF TypeOK, Commands
  <2>3. TypeOK'
    BY <1>1, <1>3, <2>1, <2>2 DEF TypeOK, Steps, Exists
  <2>4. LockInv'
    BY <1>1, <1>2, <1>3, <2>1 DEF LockInv, TypeOK
  <2>5. FreshInv'
    BY <1>1, <1>2, <1>3, <2>1, <2>2
       DEF FreshInv, TypeOK, HasPend, HasAct, HasDone, Pend, Act, Done
  <2>6. StepInv'
    <3>1. /\ pc'[p] = "unlock"
          /\ \A q \in Agents \ {p} : pc'[q] = pc[q]
      BY <1>1, <2>1 DEF TypeOK
    <3>2. Relies(p)'
      BY <1>2, <2>2, <3>1 DEF Relies, ClaimInv, CompleteInv
    <3>3. QED
      BY <1>1, <1>3, <2>2, <3>1, <3>2, OneMoves
  <2>7. DirInv' /\ AckInv' /\ ReaderInv' /\ OneWinner'
    BY <1>1, <1>3 DEF DirInv, AckInv, ReaderInv, OneWinner,
         HasPend, HasAct, HasDone, Pend, Act, Done
  <2>8. QED
    BY <2>3, <2>4, <2>5, <2>6, <2>7 DEF IInv
<1>6. QED
  BY <1>4, <1>5

(* One file of one directory is replaced, all others are as they were.     *)
LEMMA OneFileChanges ==
  ASSUME files \in [Dirs -> [Tasks -> Content \cup {NoFile}]],
         NEW d \in Dirs, NEW t \in Tasks, NEW content \in Content \cup {NoFile},
         files' = [files EXCEPT ![d][t] = content]
  PROVE  /\ files' \in [Dirs -> [Tasks -> Content \cup {NoFile}]]
         /\ files'[d][t] = content
         /\ \A e \in Dirs, s \in Tasks : e # d \/ s # t => files'[e][s] = files[e][s]
  OBVIOUS

(* The part of TypeOK that speaks of one task's files; with it, the types  *)
(* after a step that changes files and pc only.                            *)
Kind(t) ==
  /\ HasPend(t) => Pend(t) = Blank
  /\ HasAct(t) => Act(t).claimed_by # Nobody /\ Act(t).completed = Nobody
  /\ HasDone(t) => Done(t).claimed_by # Nobody /\ Done(t).completed # Nobody

LEMMA KindNow == ASSUME TypeOK, NEW t \in Tasks PROVE Kind(t)
BY DEF TypeOK, Kind, Exists, HasPend, HasAct, HasDone, Pend, Act, Done

LEMMA TypesFromKinds ==
  ASSUME TypeOK, UNCHANGED <<lock, cmd, used, acks, crashes, reader>>,
         NEW p \in Agents, NEW at \in Steps, pc' = [pc EXCEPT ![p] = at],
         files' \in [Dirs -> [Tasks -> Content \cup {NoFile}]],
         \A t \in Tasks : Kind(t)'
  PROVE  TypeOK'
<1>1. pc' \in [Agents -> Steps]
  BY DEF TypeOK
<1>2. \A t \in Tasks :
        /\ Exists("_pending", t)' => files'["_pending"][t] = Blank
        /\ Exists("_active", t)' => /\ files'["_active"][t].claimed_by # Nobody
                                   /\ files'["_active"][t].completed = Nobody
        /\ Exists("_done", t)' => /\ files'["_done"][t].claimed_by # Nobody
                                 /\ files'["_done"][t].completed # Nobody
  BY DEF Kind, Exists, HasPend, HasAct, HasDone, Pend, Act, Done
<1>3. QED
  BY <1>1, <1>2 DEF TypeOK

LEMMA WriteStep ==
  ASSUME IInv, NEW p \in Agents, Write(p)
  PROVE  IInv'
<1> USE ConstantsAssumption, NullAssumption
<1>1. TypeOK /\ LockInv /\ FreshInv /\ StepInv /\ DirInv /\ AckInv /\ ReaderInv /\ OneWinner
  BY DEF IInv
<1> DEFINE c == cmd[p]
<1> PICK t \in Tasks : t = c.task
  BY <1>1 DEF TypeOK, Commands
<1>2. /\ c \in Commands /\ t = c.task /\ c.op \in Operations /\ c.data \in Content
      /\ pc[p] = "write" /\ lock = p
  BY <1>1 DEF Write, TypeOK, Commands, LockInv
<1>3. UNCHANGED <<lock, cmd, used, acks, crashes, reader>>
  BY DEF Write
<1>4. /\ Target(c.op) \in Dirs
      /\ files' = [files EXCEPT ![Target(c.op)][t] = c.data]
  BY <1>2 DEF Write, Target, Dirs, Operations
<1>5. /\ files' \in [Dirs -> [Tasks -> Content \cup {NoFile}]]
      /\ files'[Target(c.op)][t] = c.data
      /\ \A e \in Dirs, s \in Tasks : e # Target(c.op) \/ s # t => files'[e][s] = files[e][s]
  BY <1>1, <1>2, <1>4, OneFileChanges DEF TypeOK
<1>6. pc' = [pc EXCEPT ![p] = IF c.op = "submit" THEN "unlock" ELSE "unlink"]
  BY DEF Write, After
<1>7. LockInv' /\ ReaderInv' /\ OneWinner'
  BY <1>1, <1>2, <1>3, <1>6 DEF LockInv, ReaderInv, OneWinner, TypeOK
<1>8. CASE c.op = "submit"
  <2>1. /\ Pend(t)' = c.data /\ c.data = Blank
        /\ ~HasPend(t) /\ ~HasAct(t) /\ ~HasDone(t)
        /\ t \in used
    BY <1>1, <1>2, <1>5, <1>8 DEF Target, Pend, StepInv, Relies, SubmitInv, FreshInv
  <2>2. \A s \in Tasks : /\ s # t => Pend(s)' = Pend(s)
                         /\ Act(s)' = Act(s) /\ Done(s)' = Done(s)
    BY <1>5, <1>8 DEF Target, Dirs, Pend, Act, Done
  <2>3. TypeOK'
    <3>1. ASSUME NEW s \in Tasks PROVE Kind(s)'
      <4>1. Kind(s)
        BY <1>1, KindNow
      <4>2. CASE s = t
        BY <1>2, <2>1, <2>2, <4>1, <4>2 DEF Kind, HasPend, HasAct, HasDone
      <4>3. CASE s # t
        BY <2>2, <4>1, <4>3 DEF Kind, HasPend, HasAct, HasDone
      <4>4. QED
        BY <4>2, <4>3
    <3>2. (IF c.op = "submit" THEN "unlock" ELSE "unlink") \in Steps
      BY <1>2 DEF Steps
    <3>3. QED
      BY <1>1, <1>3, <1>5, <1>6, <3>1, <3>2, TypesFromKinds
  <2>4. FreshInv'
    BY <1>1, <1>2, <1>3, <1>6, <1>8, <2>1, <2>2 DEF FreshInv, TypeOK, Commands, HasPend, HasAct, HasDone
  <2>5. StepInv'
    BY <1>1, <1>2, <1>3, <1>6, <1>8, <2>1, <2>2
       DEF StepInv, Relies, SubmitInv, ClaimInv, CompleteInv, LockInv, TypeOK, Commands,
           HasPend, HasAct, HasDone
  <2>6. DirInv'
    BY <1>1, <2>1, <2>2 DEF DirInv, HasPend, HasAct, HasDone
  <2>7. AckInv'
    BY <1>1, <1>2, <1>3, <2>1, <2>2 DEF AckInv, TypeOK, Acks, HasPend, HasAct, HasDone
  <2>8. QED
    BY <1>7, <2>3, <2>4, <2>5, <2>6, <2>7 DEF IInv
<1>9. CASE c.op = "claim"
  <2>1. /\ Act(t)' = c.data /\ c.data = [claimed_by |-> p, completed |-> Nobody]
        /\ HasPend(t) /\ ~HasDone(t)
    BY <1>1, <1>2, <1>5, <1>9 DEF Target, Act, StepInv, Relies, ClaimInv, DirInv
  <2>2. \A s \in Tasks : /\ s # t => Act(s)' = Act(s)
                         /\ Pend(s)' = Pend(s) /\ Done(s)' = Done(s)
    BY <1>5, <1>9 DEF Target, Dirs, Pend, Act, Done
  <2>3. TypeOK'
    <3>1. ASSUME NEW s \in Tasks PROVE Kind(s)'
      <4>1. Kind(s)
        BY <1>1, KindNow
      <4>2. CASE s = t
        BY <1>2, <2>1, <2>2, <4>1, <4>2 DEF Kind, HasPend, HasAct, HasDone
      <4>3. CASE s # t
        BY <2>2, <4>1, <4>3 DEF Kind, HasPend, HasAct, HasDone
      <4>4. QED
        BY <4>2, <4>3
    <3>2. (IF c.op = "submit" THEN "unlock" ELSE "unlink") \in Steps
      BY <1>2 DEF Steps
    <3>3. QED
      BY <1>1, <1>3, <1>5, <1>6, <3>1, <3>2, TypesFromKinds
  <2>4. FreshInv'
    BY <1>1, <1>2, <1>3, <1>6, <1>9, <2>1, <2>2 DEF FreshInv, TypeOK, Commands, HasPend, HasAct, HasDone
  <2>5. StepInv'
    <3>1. \A q \in Agents \ {p} : pc'[q] = pc[q] /\ pc[q] \in {"idle", "lock"}
      BY <1>1, <1>2, <1>6 DEF LockInv, TypeOK, Steps
    <3>2. ASSUME NEW q \in Agents \ {p}, pc'[q] # "idle"
          PROVE  /\ cmd'[q].op = "submit" => SubmitInv(q)'
                 /\ cmd'[q].op = "claim" => ClaimInv(q)'
                 /\ cmd'[q].op = "complete" => CompleteInv(q)'
      BY <1>1, <1>3, <3>1, <3>2 DEF StepInv, Relies, SubmitInv, ClaimInv, CompleteInv
    <3>3. ClaimInv(p)'
      BY <1>1, <1>2, <1>3, <1>6, <1>9, <2>1, <2>2
         DEF ClaimInv, TypeOK, HasPend, HasAct, HasDone
    <3>4. QED
      BY <1>2, <1>3, <1>9, <3>2, <3>3 DEF StepInv, Relies
  <2>6. DirInv'
    BY <1>1, <2>1, <2>2 DEF DirInv, HasPend, HasAct, HasDone
  <2>7. AckInv'
    BY <1>1, <1>2, <1>3, <2>1, <2>2 DEF AckInv, TypeOK, Acks, HasPend, HasAct, HasDone
  <2>8. QED
    BY <1>7, <2>3, <2>4, <2>5, <2>6, <2>7 DEF IInv
<1>10. CASE c.op = "complete"
  <2>1. /\ Done(t)' = c.data /\ c.data = [claimed_by |-> Act(t).claimed_by, completed |-> p]
        /\ ~HasPend(t) /\ HasAct(t)
    BY <1>1, <1>2, <1>5, <1>10 DEF Target, Done, StepInv, Relies, CompleteInv
  <2>2. \A s \in Tasks : /\ s # t => Done(s)' = Done(s)
                         /\ Pend(s)' = Pend(s) /\ Act(s)' = Act(s)
    BY <1>5, <1>10 DEF Target, Dirs, Pend, Act, Done
  <2>3. TypeOK'
    <3>1. ASSUME NEW s \in Tasks PROVE Kind(s)'
      <4>1. Kind(s)
        BY <1>1, KindNow
      <4>2. CASE s = t
        BY <1>2, <2>1, <2>2, <4>1, <4>2 DEF Kind, HasPend, HasAct, HasDone
      <4>3. CASE s # t
        BY <2>2, <4>1, <4>3 DEF Kind, HasPend, HasAct, HasDone
      <4>4. QED
        BY <4>2, <4>3
    <3>2. (IF c.op = "submit" THEN "unlock" ELSE "unlink") \in Steps
      BY <1>2 DEF Steps
    <3>3. QED
      BY <1>1, <1>3, <1>5, <1>6, <3>1, <3>2, TypesFromKinds
  <2>4. FreshInv'
    BY <1>1, <1>2, <1>3, <1>6, <1>10, <2>1, <2>2 DEF FreshInv, TypeOK, Commands, HasPend, HasAct, HasDone
  <2>5. StepInv'
    BY <1>1, <1>2, <1>3, <1>6, <1>10, <2>1, <2>2
       DEF StepInv, Relies, SubmitInv, ClaimInv, CompleteInv, LockInv, TypeOK, Commands, Content,
           HasPend, HasAct, HasDone
  <2>6. DirInv'
    BY <1>1, <1>2, <2>1, <2>2 DEF DirInv, HasPend, HasAct, HasDone
  <2>7. AckInv'
    BY <1>1, <1>2, <1>3, <2>1, <2>2 DEF AckInv, TypeOK, Acks, HasPend, HasAct, HasDone
  <2>8. QED
    BY <1>7, <2>3, <2>4, <2>5, <2>6, <2>7 DEF IInv
<1>11. QED
  BY <1>2, <1>8, <1>9, <1>10 DEF Operations

LEMMA UnlinkStep ==
  ASSUME IInv, NEW p \in Agents, Unlink(p)
  PROVE  IInv'
<1> USE ConstantsAssumption, NullAssumption
<1>1. TypeOK /\ LockInv /\ FreshInv /\ StepInv /\ DirInv /\ AckInv /\ ReaderInv /\ OneWinner
  BY DEF IInv
<1> DEFINE c == cmd[p]
<1> PICK t \in Tasks : t = c.task
  BY <1>1 DEF TypeOK, Commands
<1>2. /\ c \in Commands /\ t = c.task /\ c.op \in {"claim", "complete"}
      /\ pc[p] = "unlink" /\ lock = p
  BY <1>1 DEF Unlink, TypeOK, Commands, Operations, LockInv, StepInv, Relies, SubmitInv
<1>3. UNCHANGED <<lock, cmd, used, acks, crashes, reader>>
  BY DEF Unlink
<1>4. /\ Source(c.op) \in Dirs
      /\ files' = [files EXCEPT ![Source(c.op)][t] = NoFile]
  BY <1>2 DEF Unlink, Source, Dirs
<1>5. /\ files' \in [Dirs -> [Tasks -> Content \cup {NoFile}]]
      /\ files'[Source(c.op)][t] = NoFile
      /\ \A e \in Dirs, s \in Tasks : e # Source(c.op) \/ s # t => files'[e][s] = files[e][s]
  BY <1>1, <1>2, <1>4, OneFileChanges DEF TypeOK
<1>6. pc' = [pc EXCEPT ![p] = "unlock"]
  BY DEF Unlink, After
<1>7. LockInv' /\ ReaderInv' /\ OneWinner'
  BY <1>1, <1>2, <1>3, <1>6 DEF LockInv, ReaderInv, OneWinner, TypeOK
<1>8. CASE c.op = "claim"
  <2>1. /\ ~HasPend(t)' /\ HasPend(t) /\ HasAct(t) /\ ~HasDone(t) /\ Act(t).claimed_by = p
    BY <1>1, <1>2, <1>5, <1>8 DEF Source, Pend, HasPend, StepInv, Relies, ClaimInv, DirInv
  <2>2. \A s \in Tasks : /\ s # t => Pend(s)' = Pend(s)
                         /\ Act(s)' = Act(s) /\ Done(s)' = Done(s)
    BY <1>5, <1>8 DEF Source, Dirs, Pend, Act, Done
  <2>3. TypeOK'
    <3>1. ASSUME NEW s \in Tasks PROVE Kind(s)'
      <4>1. Kind(s)
        BY <1>1, KindNow
      <4>2. CASE s = t
        BY <1>2, <2>1, <2>2, <4>1, <4>2 DEF Kind, HasPend, HasAct, HasDone
      <4>3. CASE s # t
        BY <2>2, <4>1, <4>3 DEF Kind, HasPend, HasAct, HasDone
      <4>4. QED
        BY <4>2, <4>3
    <3>2. "unlock" \in Steps
      BY DEF Steps
    <3>3. QED
      BY <1>1, <1>3, <1>5, <1>6, <3>1, <3>2, TypesFromKinds
  <2>4. FreshInv'
    BY <1>1, <1>2, <1>3, <1>6, <1>8, <2>1, <2>2 DEF FreshInv, TypeOK, Commands, HasPend, HasAct, HasDone
  <2>5. StepInv'
    BY <1>1, <1>2, <1>3, <1>6, <1>8, <2>1, <2>2
       DEF StepInv, Relies, SubmitInv, ClaimInv, CompleteInv, LockInv, TypeOK, Commands,
           HasPend, HasAct, HasDone
  <2>6. DirInv'
    BY <1>1, <2>1, <2>2 DEF DirInv, HasPend, HasAct, HasDone
  <2>7. AckInv'
    BY <1>1, <1>2, <1>3, <2>1, <2>2 DEF AckInv, TypeOK, Acks, HasPend, HasAct, HasDone
  <2>8. QED
    BY <1>7, <2>3, <2>4, <2>5, <2>6, <2>7 DEF IInv
<1>9. CASE c.op = "complete"
  <2>1. ~HasAct(t)' /\ ~HasPend(t) /\ HasAct(t) /\ HasDone(t) /\ Done(t).completed = p
    <3>1. CompleteInv(p)
      BY <1>1, <1>2, <1>9 DEF StepInv, Relies
    <3>2. ~HasAct(t)'
      BY <1>5, <1>9 DEF Source, Act, HasAct
    <3>3. QED
      BY <1>2, <3>1, <3>2 DEF CompleteInv
  <2>2. \A s \in Tasks : /\ s # t => Act(s)' = Act(s)
                         /\ Pend(s)' = Pend(s) /\ Done(s)' = Done(s)
    BY <1>5, <1>9 DEF Source, Dirs, Pend, Act, Done
  <2>3. TypeOK'
    <3>1. ASSUME NEW s \in Tasks PROVE Kind(s)'
      <4>1. Kind(s)
        BY <1>1, KindNow
      <4>2. CASE s = t
        BY <1>2, <2>1, <2>2, <4>1, <4>2 DEF Kind, HasPend, HasAct, HasDone
      <4>3. CASE s # t
        BY <2>2, <4>1, <4>3 DEF Kind, HasPend, HasAct, HasDone
      <4>4. QED
        BY <4>2, <4>3
    <3>2. "unlock" \in Steps
      BY DEF Steps
    <3>3. QED
      BY <1>1, <1>3, <1>5, <1>6, <3>1, <3>2, TypesFromKinds
  <2>4. FreshInv'
    BY <1>1, <1>2, <1>3, <1>6, <1>9, <2>1, <2>2 DEF FreshInv, TypeOK, Commands, HasPend, HasAct, HasDone
  <2>5. StepInv'
    <3>1. \A q \in Agents \ {p} : pc'[q] = pc[q] /\ pc[q] \in {"idle", "lock"}
      BY <1>1, <1>2, <1>6 DEF LockInv, TypeOK, Steps
    <3>2. ASSUME NEW q \in Agents \ {p}, pc'[q] # "idle"
          PROVE  /\ cmd'[q].op = "submit" => SubmitInv(q)'
                 /\ cmd'[q].op = "claim" => ClaimInv(q)'
                 /\ cmd'[q].op = "complete" => CompleteInv(q)'
      BY <1>1, <1>3, <3>1, <3>2 DEF StepInv, Relies, SubmitInv, ClaimInv, CompleteInv
    <3>3. CompleteInv(p)'
      BY <1>1, <1>2, <1>3, <1>6, <1>9, <2>1, <2>2
         DEF CompleteInv, TypeOK, HasPend, HasAct, HasDone
    <3>4. QED
      BY <1>2, <1>3, <1>9, <3>2, <3>3 DEF StepInv, Relies
  <2>6. DirInv'
    BY <1>1, <2>1, <2>2 DEF DirInv, HasPend, HasAct, HasDone
  <2>7. AckInv'
    BY <1>1, <1>2, <1>3, <2>1, <2>2 DEF AckInv, TypeOK, Acks, HasPend, HasAct, HasDone
  <2>8. QED
    BY <1>7, <2>3, <2>4, <2>5, <2>6, <2>7 DEF IInv
<1>10. QED
  BY <1>2, <1>8, <1>9

LEMMA UnlockStep ==
  ASSUME IInv, NEW p \in Agents, Unlock(p)
  PROVE  IInv'
<1> USE ConstantsAssumption, NullAssumption
<1>1. TypeOK /\ LockInv /\ FreshInv /\ StepInv /\ DirInv /\ AckInv /\ ReaderInv /\ OneWinner
  BY DEF IInv
<1> DEFINE c == cmd[p]
           ack == [op |-> c.op, task |-> c.task, by |-> p]
<1>2. /\ c \in Commands /\ c.task \in Tasks /\ c.op \in Operations
      /\ pc[p] = "unlock" /\ lock = p
  BY <1>1 DEF Unlock, TypeOK, Commands, LockInv
<1>3. /\ UNCHANGED <<files, used, crashes, reader>>
      /\ lock' = Nobody
      /\ acks' = IF c.ok THEN acks \cup {ack} ELSE acks
      /\ pc' = [pc EXCEPT ![p] = "idle"]
      /\ \A q \in Agents \ {p} : cmd'[q] = cmd[q]
  BY <1>1 DEF Unlock, TypeOK
<1>4. Idle \in Commands
  BY DEF Idle, Commands, Blank, Content, Operations
<1>5. TypeOK'
  BY <1>1, <1>2, <1>3, <1>4 DEF Unlock, TypeOK, Steps, Exists, Acks
<1>6. LockInv'
  BY <1>1, <1>2, <1>3 DEF LockInv, TypeOK
<1> DEFINE Moved ==
      /\ c.op = "submit" => HasPend(c.task)
      /\ c.op = "claim" => /\ ~HasPend(c.task) /\ HasAct(c.task) /\ ~HasDone(c.task)
                           /\ Act(c.task).claimed_by = p
      /\ c.op = "complete" => /\ ~HasPend(c.task) /\ ~HasAct(c.task) /\ HasDone(c.task)
                              /\ Done(c.task).completed = p
<1>13. c.ok => Moved
  BY <1>1, <1>2 DEF StepInv, Relies, SubmitInv, ClaimInv, CompleteInv
<1>14. \A s \in Tasks : Pend(s)' = Pend(s) /\ Act(s)' = Act(s) /\ Done(s)' = Done(s)
  BY <1>3 DEF Pend, Act, Done
<1>7. FreshInv'
  <2>1. \A s \in Tasks \ used' : /\ ~HasPend(s)' /\ ~HasAct(s)' /\ ~HasDone(s)'
                                 /\ \A a \in acks' : a.task # s
    BY <1>1, <1>2, <1>3, <1>13, <1>14 DEF FreshInv, HasPend, HasAct, HasDone, Operations
  <2>2. ASSUME NEW q \in Agents, pc'[q] # "idle", cmd'[q].op = "submit"
        PROVE  /\ q # p /\ pc'[q] = pc[q] /\ cmd'[q] = cmd[q] /\ cmd[q].task \in Tasks
               /\ \A a \in acks' : ~(a.op = "submit" /\ a.task = cmd[q].task)
    BY <1>1, <1>2, <1>3, <2>2 DEF FreshInv, TypeOK, Commands
  <2>3. QED
    BY <1>1, <1>3, <1>14, <2>1, <2>2 DEF FreshInv, TypeOK, HasPend, HasAct, HasDone
<1>8. StepInv'
  <2>1. pc'[p] = "idle" /\ \A q \in Agents \ {p} : pc'[q] = pc[q]
    BY <1>1, <1>3 DEF TypeOK
  <2>2. QED
    BY <1>1, <1>3, <2>1, OneMoves DEF Relies
<1>9. DirInv' /\ ReaderInv'
  BY <1>1, <1>3 DEF DirInv, ReaderInv, HasPend, HasAct, HasDone, Pend, Act, Done
<1>10. AckInv'
  <2>1. ASSUME NEW a \in acks
        PROVE  a.task \in Tasks
    BY <1>1 DEF TypeOK, Acks
  <2>2. QED
    BY <1>1, <1>2, <1>3, <1>13, <1>14, <2>1 DEF AckInv, HasPend, HasAct, HasDone, Operations
<1>11. OneWinner'
  <2>1. SUFFICES ASSUME c.ok, NEW a \in acks, a.op = c.op, a.task = c.task
                 PROVE  a = ack
    BY <1>1, <1>3 DEF OneWinner
  <2>2. c.op # "submit"
    BY <1>1, <1>2, <2>1 DEF FreshInv
  <2>3. a.by = p
    BY <1>1, <1>2, <1>13, <2>1, <2>2 DEF AckInv, Operations
  <2>4. QED
    BY <1>1, <2>1, <2>3 DEF TypeOK, Acks
<1>12. QED
  BY <1>5, <1>6, <1>7, <1>8, <1>9, <1>10, <1>11 DEF IInv

LEMMA CrashStep ==
  ASSUME IInv, NEW p \in Agents, Crash(p)
  PROVE  IInv'
<1> USE ConstantsAssumption, NullAssumption
<1>1. TypeOK /\ LockInv /\ FreshInv /\ StepInv /\ DirInv /\ AckInv /\ ReaderInv /\ OneWinner
  BY DEF IInv
<1>2. /\ UNCHANGED <<files, used, acks, reader>>
      /\ lock' = IF lock = p THEN Nobody ELSE lock
      /\ pc' = [pc EXCEPT ![p] = "idle"]
      /\ \A q \in Agents \ {p} : cmd'[q] = cmd[q]
  BY <1>1 DEF Crash, TypeOK
<1>3. Idle \in Commands
  BY DEF Idle, Commands, Blank, Content, Operations
<1>4. crashes' \in 0..MaxCrashes
  BY <1>1 DEF Crash, TypeOK
<1>5. TypeOK'
  BY <1>1, <1>2, <1>3, <1>4 DEF Crash, TypeOK, Steps, Exists
<1>6. LockInv'
  BY <1>1, <1>2 DEF LockInv, TypeOK
<1>7. FreshInv'
  BY <1>1, <1>2 DEF FreshInv, TypeOK, HasPend, HasAct, HasDone, Pend, Act, Done
<1>8. StepInv'
  <2>1. pc'[p] = "idle" /\ \A q \in Agents \ {p} : pc'[q] = pc[q]
    BY <1>1, <1>2 DEF TypeOK
  <2>2. QED
    BY <1>1, <1>2, <2>1, OneMoves DEF Relies
<1>9. DirInv' /\ AckInv' /\ ReaderInv' /\ OneWinner'
  BY <1>1, <1>2 DEF DirInv, AckInv, ReaderInv, OneWinner,
                    HasPend, HasAct, HasDone, Pend, Act, Done
<1>10. QED
  BY <1>5, <1>6, <1>7, <1>8, <1>9 DEF IInv

(* Whatever a list does, it does to its own state.                         *)
LEMMA ListStep ==
  ASSUME IInv, UNCHANGED busVars, reader' \in [Readers -> ReaderState], ReaderInv'
  PROVE  IInv'
<1>1. TypeOK' /\ LockInv' /\ OneWinner'
  BY DEF IInv, busVars, TypeOK, Exists, LockInv, OneWinner
<1>2. FreshInv' /\ DirInv' /\ AckInv'
  BY DEF IInv, busVars, FreshInv, DirInv, AckInv, HasPend, HasAct, HasDone, Pend, Act, Done
<1>3. StepInv'
  BY KeepsRelying DEF IInv, busVars, StepInv
<1>4. QED
  BY <1>1, <1>2, <1>3 DEF IInv

LEMMA ReaderSteps ==
  ASSUME IInv, NEW r \in Readers,
         ListStart(r) \/ ListGlob(r) \/ ListLoad(r) \/ ListNextDir(r)
  PROVE  IInv'
<1>1. /\ reader \in [Readers -> ReaderState] /\ ReaderInv /\ acks \in SUBSET Acks
  BY DEF IInv, TypeOK
<1>2. UNCHANGED busVars
  BY DEF ListStart, ListGlob, ListLoad, ListNextDir
<1>3. \A d \in Dirs : <<d>> \in Seq(Dirs) /\ <<d>> # <<>>
  OBVIOUS
<1>4. ScanOrder \in Seq(Dirs) /\ ScanOrder # <<>>
  BY DEF ScanOrder, STATES, Dirs
<1>5. CASE ListStart(r)
  <2>1. PICK scan \in {ScanOrder} \cup {<<d>> : d \in Dirs} :
          reader' = [reader EXCEPT ![r] =
            ListAt("glob", scan, IF scan = ScanOrder THEN Submitted ELSE {})]
    BY <1>5 DEF ListStart
  <2>2. scan \in Seq(Dirs) /\ scan # <<>>
    BY <1>3, <1>4
  <2>3. Submitted \subseteq Tasks
    BY <1>1 DEF Submitted, Acks
  <2>4. reader' \in [Readers -> ReaderState] /\ ReaderInv'
    BY <1>1, <2>1, <2>2, <2>3 DEF ReaderState, ReaderInv, NoList, ListAt
  <2>5. QED
    BY <1>2, <2>4, ListStep
<1>6. CASE ListGlob(r)
  <2>1. reader' \in [Readers -> ReaderState] /\ ReaderInv'
    BY <1>1, <1>6 DEF ListGlob, ReaderState, ReaderInv
  <2>2. QED
    BY <1>2, <2>1, ListStep
<1>7. CASE ListLoad(r)
  <2>1. reader' \in [Readers -> ReaderState] /\ ReaderInv'
    <3> DEFINE died == ListAt("exit1", <<>>, {})
    <3>1. PICK t \in reader[r].todo :
            reader' = IF Exists(Head(reader[r].scan), t)
              THEN [reader EXCEPT ![r].todo = @ \ {t}, ![r].due = @ \ {t}]
              ELSE [reader EXCEPT ![r] = died]
      BY <1>7 DEF ListLoad
    <3>2. died \in ReaderState /\ died.pc = "exit1"
      BY DEF ListAt, ReaderState
    <3> HIDE DEF died
    <3>3. reader' \in [Readers -> ReaderState]
      BY <1>1, <3>1, <3>2 DEF ReaderState
    <3>4. CASE Exists(Head(reader[r].scan), t)
      <4>1. \A q \in Readers : reader'[q].pc = reader[q].pc /\ reader'[q].scan = reader[q].scan
        BY <1>1, <3>1, <3>4 DEF ReaderState
      <4>2. QED
        BY <1>1, <3>3, <4>1 DEF ReaderInv
    <3>5. CASE ~Exists(Head(reader[r].scan), t)
      BY <1>1, <3>1, <3>2, <3>5 DEF ReaderState, ReaderInv
    <3>6. QED
      BY <3>4, <3>5
  <2>2. QED
    BY <1>2, <2>1, ListStep
<1>8. CASE ListNextDir(r)
  <2>1. /\ reader[r].scan \in Seq(Dirs) /\ reader[r].scan # <<>>
        /\ Tail(reader[r].scan) \in Seq(Dirs)
        /\ Len(reader[r].scan) # 1 => Tail(reader[r].scan) # <<>>
    BY <1>1, <1>8 DEF ListNextDir, ReaderState, ReaderInv
  <2>2. reader' \in [Readers -> ReaderState] /\ ReaderInv'
    BY <1>1, <1>8, <2>1 DEF ListNextDir, ReaderState, ReaderInv
  <2>3. QED
    BY <1>2, <2>2, ListStep
<1>9. QED
  BY <1>5, <1>6, <1>7, <1>8

LEMMA NextIInv == IInv /\ [Next]_vars => IInv'
<1> SUFFICES ASSUME IInv, [Next]_vars PROVE IInv'
  OBVIOUS
<1>1. CASE Next
  BY <1>1, StartStep, AcquireStep, FindStep, WriteStep, UnlinkStep, UnlockStep, CrashStep,
     ReaderSteps DEF Next
<1>2. CASE UNCHANGED vars
  <2>1. reader' \in [Readers -> ReaderState] /\ ReaderInv'
    BY <1>2 DEF IInv, TypeOK, ReaderInv, vars
  <2>2. UNCHANGED busVars
    BY <1>2 DEF vars, busVars
  <2>3. QED
    BY <2>1, <2>2, ListStep
<1>3. QED
  BY <1>1, <1>2

LEMMA Invariance == Spec => []IInv
  BY InitIInv, NextIInv, PTL DEF Spec
-----------------------------------------------------------------------------
(* Every variable keeps its type and every directory holds only the kind   *)
(* of file its name says.                                                  *)
THEOREM TypeCorrect == Spec => []TypeOK
  BY Invariance, PTL DEF IInv

(* No crash, at any step of any command, loses a task whose submit exited 0. *)
THEOREM TasksAreDurable == Spec => []NoTaskLost
<1>1. IInv => NoTaskLost
  BY DEF IInv, AckInv, NoTaskLost, Submitted, Exists, Dirs, HasPend, HasAct, HasDone, Pend, Act, Done
<1>2. QED
  BY <1>1, Invariance, PTL

(* At most one claim and at most one complete of a task exit 0.            *)
THEOREM ClaimsAreExclusive == Spec => []OneWinner
  BY Invariance, PTL DEF IInv

(* The claimer whose claim exited 0 stays the owner in every copy.         *)
THEOREM OwnersKeepTheirTasks == Spec => []OwnerIntact
<1>1. IInv => OwnerIntact
  BY DEF IInv, AckInv, OwnerIntact, Exists, HasPend, HasAct, HasDone, Pend, Act, Done
<1>2. QED
  BY <1>1, Invariance, PTL
-----------------------------------------------------------------------------
(* list takes no lock.  ListInv says why an unfiltered one still misses    *)
(* nothing: what it has yet to print is ahead of it, in the directory it   *)
(* is at or in one it has not come to, since tasks only move forward.      *)
Rest(k) == CASE k = 1 -> ScanOrder
             [] k = 2 -> <<"_active", "_done">>
             [] k = 3 -> <<"_done">>

From(k, t) == \/ k <= 1 /\ HasPend(t)
              \/ k <= 2 /\ HasAct(t)
              \/ k <= 3 /\ HasDone(t)

AheadOf(r, k) ==
  /\ reader[r].scan = Rest(k)
  /\ \/ reader[r].pc = "glob" /\ \A t \in reader[r].due : From(k, t)
     \/ /\ reader[r].pc = "load"
        /\ \A t \in reader[r].due : t \in reader[r].todo \/ From(k + 1, t)

ListInv == \A r \in Readers : reader[r].due # {} => \E k \in 1..3 : AheadOf(r, k)

LEMMA InitListInv == Init => ListInv
  BY DEF Init, ListInv, NoList, ListAt

(* A task only moves on: the copy a move unlinks has a successor further on. *)
LEMMA WriteMovesOn ==
  ASSUME IInv, NEW p \in Agents, Write(p), NEW k \in 1..4, NEW t \in Tasks, From(k, t)
  PROVE  From(k, t)'
<1>1. TypeOK /\ cmd[p] \in Commands /\ cmd[p].op \in Operations
      /\ cmd[p].task \in Tasks /\ cmd[p].data \in Content
  BY DEF IInv, TypeOK, Commands
<1>2. Target(cmd[p].op) \in Dirs
  BY <1>1 DEF Target, Dirs, Operations
<1>3. files' = [files EXCEPT ![Target(cmd[p].op)][cmd[p].task] = cmd[p].data]
  BY DEF Write
<1>4. \A d \in Dirs : files[d][t] # NoFile => files'[d][t] # NoFile
  BY <1>1, <1>2, <1>3, NullAssumption, OneFileChanges DEF TypeOK
<1>5. QED
  BY <1>4 DEF From, HasPend, HasAct, HasDone, Pend, Act, Done, Dirs

LEMMA UnlinkMovesOn ==
  ASSUME IInv, NEW p \in Agents, Unlink(p), NEW k \in 1..4, NEW t \in Tasks, From(k, t)
  PROVE  From(k, t)'
<1> DEFINE c == cmd[p]
<1>1. TypeOK /\ StepInv /\ c \in Commands /\ c.task \in Tasks /\ pc[p] = "unlink"
  BY DEF IInv, TypeOK, Commands, Unlink
<1>2. c.op \in {"claim", "complete"}
  BY <1>1 DEF Commands, Operations, StepInv, Relies, SubmitInv
<1>3. /\ c.op = "claim" => HasAct(c.task)
      /\ c.op = "complete" => HasDone(c.task)
  BY <1>1 DEF StepInv, Relies, ClaimInv, CompleteInv
<1>4. Source(c.op) \in Dirs /\ files' = [files EXCEPT ![Source(c.op)][c.task] = NoFile]
  BY <1>2 DEF Source, Dirs, Unlink
<1>5. \A e \in Dirs, s \in Tasks : e # Source(c.op) \/ s # c.task => files'[e][s] = files[e][s]
  BY <1>1, <1>4, OneFileChanges DEF TypeOK
<1>6. CASE c.op = "claim"
  <2>1. /\ HasPend(t)' \/ t = c.task \/ ~HasPend(t)
        /\ HasAct(t)' = HasAct(t) /\ HasDone(t)' = HasDone(t)
    BY <1>5, <1>6 DEF Source, Dirs, HasPend, HasAct, HasDone, Pend, Act, Done
  <2>2. QED
    BY <1>3, <1>6, <2>1 DEF From
<1>7. CASE c.op = "complete"
  <2>1. /\ HasAct(t)' \/ t = c.task \/ ~HasAct(t)
        /\ HasPend(t)' = HasPend(t) /\ HasDone(t)' = HasDone(t)
    BY <1>5, <1>7 DEF Source, Dirs, HasPend, HasAct, HasDone, Pend, Act, Done
  <2>2. QED
    BY <1>3, <1>7, <2>1 DEF From
<1>8. QED
  BY <1>2, <1>6, <1>7

LEMMA MovesOn ==
  ASSUME IInv, [Next]_vars, NEW k \in 1..4, NEW t \in Tasks, From(k, t)
  PROVE  From(k, t)'
<1>1. files' = files \/ \E p \in Agents : Write(p) \/ Unlink(p)
  BY DEF Next, vars, busVars, Start, Acquire, Find, Unlock, Crash,
         ListStart, ListGlob, ListLoad, ListNextDir
<1>2. CASE files' = files
  BY <1>2 DEF From, HasPend, HasAct, HasDone, Pend, Act, Done
<1>3. QED
  BY <1>1, <1>2, WriteMovesOn, UnlinkMovesOn

(* A list that this step does not touch has the same task files ahead.     *)
LEMMA OthersList ==
  ASSUME IInv, [Next]_vars, NEW r \in Readers, reader'[r] = reader[r],
         reader[r].due # {}, NEW k \in 1..3, AheadOf(r, k)
  PROVE  AheadOf(r, k)'
<1>1. reader[r].due \subseteq Tasks
  BY DEF IInv, TypeOK, ReaderState
<1>2. \A t \in reader[r].due : /\ From(k, t) => From(k, t)'
                               /\ From(k + 1, t) => From(k + 1, t)'
  BY <1>1, MovesOn, k \in 1..4, k + 1 \in 1..4
<1>3. QED
  BY <1>2 DEF AheadOf

LEMMA ListMoves ==
  ASSUME IInv, ListInv, NEW r \in Readers,
         ListStart(r) \/ ListGlob(r) \/ ListLoad(r) \/ ListNextDir(r),
         reader'[r].due # {}
  PROVE  \E k \in 1..3 : AheadOf(r, k)'
<1>1. /\ reader \in [Readers -> ReaderState] /\ reader[r].due \subseteq Tasks
      /\ AckInv /\ acks \in SUBSET Acks
  BY DEF IInv, TypeOK, ReaderState
<1>2. UNCHANGED files
  BY DEF ListStart, ListGlob, ListLoad, ListNextDir, busVars
<1>3. \A k \in 1..4, t \in Tasks : From(k, t)' <=> From(k, t)
  BY <1>2 DEF From, HasPend, HasAct, HasDone, Pend, Act, Done
<1>4. \A k \in 1..3 : Rest(k) # <<>> /\ Rest(k)' = Rest(k)
  BY DEF Rest, ScanOrder, STATES
<1>5. CASE ListStart(r)
  <2>1. PICK scan \in {ScanOrder} \cup {<<d>> : d \in Dirs} :
          reader' = [reader EXCEPT ![r] =
            ListAt("glob", scan, IF scan = ScanOrder THEN Submitted ELSE {})]
    BY <1>5 DEF ListStart
  <2>2. /\ reader'[r].pc = "glob" /\ reader'[r].scan = scan
        /\ reader'[r].due = IF scan = ScanOrder THEN Submitted ELSE {}
    BY <1>1, <2>1 DEF ListAt
  <2>3. scan = Rest(1) /\ reader'[r].due = Submitted
    BY <2>2 DEF Rest
  <2>4. \A t \in Submitted : From(1, t) /\ t \in Tasks
    BY <1>1 DEF Submitted, Acks, AckInv, From
  <2>5. AheadOf(r, 1)'
    BY <1>3, <1>4, <2>2, <2>3, <2>4 DEF AheadOf
  <2>6. QED
    BY <2>5
<1>6. CASE ListGlob(r)
  <2>1. /\ reader'[r].pc = "load" /\ reader'[r].scan = reader[r].scan
        /\ reader'[r].due = reader[r].due
        /\ reader'[r].todo = {t \in Tasks : Exists(Head(reader[r].scan), t)}
        /\ reader[r].pc = "glob"
    BY <1>1, <1>6 DEF ListGlob, ReaderState
  <2>2. PICK k \in 1..3 : AheadOf(r, k)
    BY <2>1 DEF ListInv
  <2>3. Head(Rest(k)) = CASE k = 1 -> "_pending" [] k = 2 -> "_active" [] k = 3 -> "_done"
    BY DEF Rest, ScanOrder, STATES
  <2>4. \A t \in Tasks : From(k, t) => Exists(Head(Rest(k)), t) \/ From(k + 1, t)
    BY <2>3 DEF From, Exists, HasPend, HasAct, HasDone, Pend, Act, Done
  <2>5. AheadOf(r, k)'
    BY <1>1, <1>3, <1>4, <2>1, <2>2, <2>4, k + 1 \in 1..4 DEF AheadOf
  <2>6. QED
    BY <2>5
<1>7. CASE ListLoad(r)
  <2> DEFINE died == ListAt("exit1", <<>>, {})
  <2>1. PICK t \in reader[r].todo :
          reader' = IF Exists(Head(reader[r].scan), t)
            THEN [reader EXCEPT ![r].todo = @ \ {t}, ![r].due = @ \ {t}]
            ELSE [reader EXCEPT ![r] = died]
    BY <1>7 DEF ListLoad
  <2>2. died.due = {}
    BY DEF ListAt
  <2> HIDE DEF died
  <2>3. Exists(Head(reader[r].scan), t)
    BY <1>1, <2>1, <2>2
  <2>4. /\ reader'[r].pc = reader[r].pc /\ reader'[r].scan = reader[r].scan
        /\ reader'[r].due = reader[r].due \ {t} /\ reader'[r].todo = reader[r].todo \ {t}
        /\ reader[r].pc = "load"
    BY <1>1, <1>7, <2>1, <2>3 DEF ListLoad, ReaderState
  <2>5. PICK k \in 1..3 : AheadOf(r, k)
    BY <2>4 DEF ListInv
  <2>6. AheadOf(r, k)'
    BY <1>1, <1>3, <1>4, <2>4, <2>5, k + 1 \in 1..4 DEF AheadOf
  <2>7. QED
    BY <2>6
<1>8. CASE ListNextDir(r)
  <2>1. /\ reader'[r].scan = Tail(reader[r].scan)
        /\ reader'[r].pc = IF Len(reader[r].scan) = 1 THEN "exit0" ELSE "glob"
        /\ reader'[r].due = reader[r].due
        /\ reader[r].pc = "load" /\ reader[r].todo = {}
    BY <1>1, <1>8 DEF ListNextDir, ReaderState
  <2>2. PICK k \in 1..3 : AheadOf(r, k)
    BY <2>1 DEF ListInv
  <2>3. \A t \in reader[r].due : From(k + 1, t)
    BY <2>1, <2>2 DEF AheadOf
  <2>4. k # 3
    BY <2>1, <2>3 DEF From
  <2>5. /\ k = 1 => Tail(Rest(k)) = Rest(2) /\ Len(Rest(k)) = 3
        /\ k = 2 => Tail(Rest(k)) = Rest(3) /\ Len(Rest(k)) = 2
    BY DEF Rest, ScanOrder, STATES
  <2>6. /\ reader'[r].scan = Rest(k + 1) /\ reader'[r].pc = "glob" /\ k + 1 \in 1..3
    <3>1. reader[r].scan = Rest(k)
      BY <2>2 DEF AheadOf
    <3>2. CASE k = 1
      <4>1. k + 1 = 2
        BY <3>2
      <4>2. Tail(reader[r].scan) = Rest(k + 1) /\ Len(reader[r].scan) = 3
        BY <2>5, <3>1, <3>2, <4>1
      <4>3. QED
        BY <2>1, <4>1, <4>2
    <3>3. CASE k = 2
      <4>1. k + 1 = 3
        BY <3>3
      <4>2. Tail(reader[r].scan) = Rest(k + 1) /\ Len(reader[r].scan) = 2
        BY <2>5, <3>1, <3>3, <4>1
      <4>3. QED
        BY <2>1, <4>1, <4>2
    <3>4. QED
      BY <2>4, <3>2, <3>3
  <2>7. AheadOf(r, k + 1)'
    BY <1>1, <1>3, <1>4, <2>1, <2>3, <2>6 DEF AheadOf
  <2>8. QED
    BY <2>6, <2>7
<1>9. QED
  BY <1>5, <1>6, <1>7, <1>8

LEMMA NextListInv == IInv /\ ListInv /\ [Next]_vars => ListInv'
<1> SUFFICES ASSUME IInv, ListInv, [Next]_vars,
                    NEW r \in Readers, reader'[r].due # {}
             PROVE  \E k \in 1..3 : AheadOf(r, k)'
  BY DEF ListInv
<1>1. CASE reader'[r] = reader[r]
  <2>1. PICK k \in 1..3 : AheadOf(r, k)
    BY <1>1 DEF ListInv
  <2>2. AheadOf(r, k)'
    BY <1>1, <2>1, OthersList
  <2>3. QED
    BY <2>2
<1>2. CASE reader'[r] # reader[r]
  <2>1. \E q \in Readers : ListStart(q) \/ ListGlob(q) \/ ListLoad(q) \/ ListNextDir(q)
    BY <1>2 DEF Next, vars, Start, Acquire, Find, Write, Unlink, Unlock, Crash
  <2>2. PICK q \in Readers : ListStart(q) \/ ListGlob(q) \/ ListLoad(q) \/ ListNextDir(q)
    BY <2>1
  <2>3. q = r
    BY <1>2, <2>2 DEF IInv, TypeOK, ListStart, ListGlob, ListLoad, ListNextDir
  <2>4. QED
    BY <2>2, <2>3, ListMoves
<1>3. QED
  BY <1>1, <1>2

(* An unfiltered list that exits 0 has printed every task whose submit had *)
(* succeeded before it began, however the tasks moved under it.            *)
THEOREM ListsAreComplete == Spec => []ListComplete
<1>1. IInv /\ ListInv => ListComplete
  BY DEF ListInv, AheadOf, ListComplete
<1>2. QED
  BY <1>1, InitListInv, NextListInv, Invariance, PTL DEF Spec
-----------------------------------------------------------------------------
(* The bus implements TaskQueue: under Phase and Owner only the write of a *)
(* submit and the unlink of a claim or a complete are visible steps.       *)
LEMMA PhaseOwner ==
  ASSUME NEW t \in Tasks
  PROVE  /\ Phase[t] = IF HasPend(t) THEN "pending"
                       ELSE IF HasAct(t) THEN "active"
                       ELSE IF HasDone(t) THEN "done" ELSE "new"
         /\ Owner[t] = IF HasPend(t) THEN Nobody
                       ELSE IF HasAct(t) THEN Act(t).claimed_by
                       ELSE IF HasDone(t) THEN Done(t).claimed_by ELSE Nobody
  BY FindTaskOrder DEF Phase, Owner, Place, Act, Done

LEMMA InitQueue == Init => Queue!Init
<1> SUFFICES ASSUME Init PROVE Queue!Init
  OBVIOUS
<1>1. \A t \in Tasks : ~HasPend(t) /\ ~HasAct(t) /\ ~HasDone(t)
  BY DEF Init, Dirs, HasPend, HasAct, HasDone, Pend, Act, Done
<1>2. \A t \in Tasks : Phase[t] = "new" /\ Owner[t] = Nobody
  BY <1>1, PhaseOwner
<1>3. QED
  BY <1>2 DEF Queue!Init, Phase, Owner

LEMMA QueueStutters ==
  ASSUME UNCHANGED files
  PROVE  UNCHANGED <<Phase, Owner>>
  BY DEF Phase, Owner, FindTask, Exists

(* What PhaseOwner says of every task, as one formula that can be primed.  *)
PlaceOfAll ==
  \A t \in Tasks :
    /\ Phase[t] = IF HasPend(t) THEN "pending"
                  ELSE IF HasAct(t) THEN "active"
                  ELSE IF HasDone(t) THEN "done" ELSE "new"
    /\ Owner[t] = IF HasPend(t) THEN Nobody
                  ELSE IF HasAct(t) THEN Act(t).claimed_by
                  ELSE IF HasDone(t) THEN Done(t).claimed_by ELSE Nobody

LEMMA Places == PlaceOfAll
  BY PhaseOwner DEF PlaceOfAll

(* A step that moves one task and no other is a step of the queue.         *)
LEMMA WriteQueue ==
  ASSUME IInv, NEW p \in Agents, Write(p)
  PROVE  [Queue!Next]_<<Phase, Owner>>
<1> USE NullAssumption
<1>1. TypeOK /\ FreshInv /\ StepInv /\ DirInv
  BY DEF IInv
<1> DEFINE c == cmd[p]
<1> PICK t \in Tasks : t = c.task
  BY <1>1 DEF TypeOK, Commands
<1>2. /\ c \in Commands /\ c.op \in Operations /\ c.data \in Content /\ pc[p] = "write"
  BY <1>1 DEF Write, TypeOK, Commands
<1>3. /\ Target(c.op) \in Dirs
      /\ files' = [files EXCEPT ![Target(c.op)][t] = c.data]
  BY <1>2 DEF Write, Target, Dirs, Operations
<1>4. /\ files'[Target(c.op)][t] = c.data
      /\ \A e \in Dirs, s \in Tasks : e # Target(c.op) \/ s # t => files'[e][s] = files[e][s]
  BY <1>1, <1>2, <1>3, OneFileChanges DEF TypeOK
<1>5. PlaceOfAll /\ PlaceOfAll'
  BY Places, PTL
<1>6. CASE c.op = "submit"
  <2>1. /\ ~HasPend(t) /\ ~HasAct(t) /\ ~HasDone(t) /\ HasPend(t)'
    BY <1>1, <1>2, <1>4, <1>6 DEF Target, Pend, HasPend, FreshInv
  <2>2. \A s \in Tasks : /\ s # t => Pend(s)' = Pend(s)
                         /\ Act(s)' = Act(s) /\ Done(s)' = Done(s)
    BY <1>4, <1>6 DEF Target, Dirs, Pend, Act, Done
  <2>3. /\ Phase[t] = "new" /\ Phase'[t] = "pending" /\ Owner'[t] = Owner[t]
        /\ \A s \in Tasks \ {t} : Phase'[s] = Phase[s] /\ Owner'[s] = Owner[s]
    BY <1>5, <2>1, <2>2 DEF PlaceOfAll, HasPend, HasAct, HasDone
  <2>4. Queue!Submit(t)
    BY <2>3 DEF Queue!Submit, Phase, Owner
  <2>5. QED
    BY <2>4 DEF Queue!Next
<1>7. CASE c.op \in {"claim", "complete"}
  <2>1. /\ c.op = "claim" => HasPend(t)
        /\ c.op = "complete" => ~HasPend(t) /\ HasAct(t)
    BY <1>1, <1>2, <1>7 DEF StepInv, Relies, ClaimInv, CompleteInv
  <2>2. \A s \in Tasks : /\ Pend(s)' = Pend(s)
                         /\ c.op = "claim" => /\ Done(s)' = Done(s)
                                              /\ s # t => Act(s)' = Act(s)
                         /\ c.op = "complete" => /\ Act(s)' = Act(s)
                                                 /\ s # t => Done(s)' = Done(s)
    BY <1>4, <1>7 DEF Target, Dirs, Pend, Act, Done
  <2>3. \A s \in Tasks : Phase'[s] = Phase[s] /\ Owner'[s] = Owner[s]
    BY <1>5, <1>7, <2>1, <2>2 DEF PlaceOfAll, HasPend, HasAct, HasDone
  <2>4. UNCHANGED <<Phase, Owner>>
    BY <2>3 DEF Phase, Owner
  <2>5. QED
    BY <2>4
<1>8. QED
  BY <1>2, <1>6, <1>7 DEF Operations

LEMMA UnlinkQueue ==
  ASSUME IInv, NEW p \in Agents, Unlink(p)
  PROVE  [Queue!Next]_<<Phase, Owner>>
<1> USE NullAssumption
<1>1. TypeOK /\ StepInv /\ DirInv
  BY DEF IInv
<1> DEFINE c == cmd[p]
<1> PICK t \in Tasks : t = c.task
  BY <1>1 DEF TypeOK, Commands
<1>2. c.op \in {"claim", "complete"} /\ pc[p] = "unlink"
  BY <1>1 DEF Unlink, TypeOK, Commands, Operations, StepInv, Relies, SubmitInv
<1>3. /\ Source(c.op) \in Dirs
      /\ files' = [files EXCEPT ![Source(c.op)][t] = NoFile]
  BY <1>2 DEF Unlink, Source, Dirs
<1>4. /\ files'[Source(c.op)][t] = NoFile
      /\ \A e \in Dirs, s \in Tasks : e # Source(c.op) \/ s # t => files'[e][s] = files[e][s]
  BY <1>1, <1>3, OneFileChanges DEF TypeOK
<1>5. PlaceOfAll /\ PlaceOfAll'
  BY Places, PTL
<1>6. CASE c.op = "claim"
  <2>1. /\ HasPend(t) /\ HasAct(t) /\ ~HasDone(t) /\ ~HasPend(t)' /\ Act(t).claimed_by = p
    BY <1>1, <1>2, <1>4, <1>6 DEF Source, Pend, HasPend, StepInv, Relies, ClaimInv, DirInv
  <2>2. \A s \in Tasks : /\ s # t => Pend(s)' = Pend(s)
                         /\ Act(s)' = Act(s) /\ Done(s)' = Done(s)
    BY <1>4, <1>6 DEF Source, Dirs, Pend, Act, Done
  <2>3. /\ Phase[t] = "pending" /\ Phase'[t] = "active" /\ Owner'[t] = p
        /\ \A s \in Tasks \ {t} : Phase'[s] = Phase[s] /\ Owner'[s] = Owner[s]
    BY <1>5, <2>1, <2>2 DEF PlaceOfAll, HasPend, HasAct, HasDone
  <2>4. Queue!Claim(t, p)
    <3>1. Phase' = [Phase EXCEPT ![t] = "active"]
      BY <2>3 DEF Phase
    <3>2. Owner' = [Owner EXCEPT ![t] = p]
      BY <2>3 DEF Owner
    <3>3. QED
      BY <2>3, <3>1, <3>2 DEF Queue!Claim
  <2>5. QED
    BY <2>4 DEF Queue!Next
<1>7. CASE c.op = "complete"
  <2>1. /\ ~HasPend(t) /\ HasAct(t) /\ HasDone(t) /\ ~HasAct(t)'
        /\ Act(t).claimed_by = Done(t).claimed_by
    BY <1>1, <1>2, <1>4, <1>7 DEF Source, Act, HasAct, StepInv, Relies, CompleteInv, DirInv
  <2>2. \A s \in Tasks : /\ s # t => Act(s)' = Act(s)
                         /\ Pend(s)' = Pend(s) /\ Done(s)' = Done(s)
    BY <1>4, <1>7 DEF Source, Dirs, Pend, Act, Done
  <2>3. /\ Phase[t] = "active" /\ Phase'[t] = "done" /\ Owner'[t] = Owner[t]
        /\ \A s \in Tasks \ {t} : Phase'[s] = Phase[s] /\ Owner'[s] = Owner[s]
    BY <1>5, <2>1, <2>2 DEF PlaceOfAll, HasPend, HasAct, HasDone
  <2>4. Queue!Complete(t)
    BY <2>3 DEF Queue!Complete, Phase, Owner
  <2>5. QED
    BY <2>4 DEF Queue!Next
<1>8. QED
  BY <1>2, <1>6, <1>7

LEMMA NextQueue == IInv /\ [Next]_vars => [Queue!Next]_<<Phase, Owner>>
<1> SUFFICES ASSUME IInv, [Next]_vars PROVE [Queue!Next]_<<Phase, Owner>>
  OBVIOUS
<1>1. CASE UNCHANGED files
  BY <1>1, QueueStutters
<1>2. ASSUME NEW p \in Agents, Write(p) \/ Unlink(p)
      PROVE  [Queue!Next]_<<Phase, Owner>>
  BY <1>2, WriteQueue, UnlinkQueue
<1>3. files' = files \/ \E p \in Agents : Write(p) \/ Unlink(p)
  BY DEF Next, vars, busVars, Start, Acquire, Find, Unlock, Crash,
         ListStart, ListGlob, ListLoad, ListNextDir
<1>4. QED
  BY <1>1, <1>2, <1>3

(* Every behaviour of the bus, crashes included, is one of the queue.      *)
THEOREM BusImplementsQueue == Spec => ImplementsQueue
<1>1. Init => Queue!Init
  BY InitQueue
<1>2. IInv /\ [Next]_vars => [Queue!Next]_<<Phase, Owner>>
  BY NextQueue
<1>3. QED
  BY <1>1, <1>2, Invariance, PTL DEF Spec, ImplementsQueue, Queue!Spec, Queue!qvars
=============================================================================
