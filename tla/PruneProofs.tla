---------------------------- MODULE PruneProofs ----------------------------
(***************************************************************************)
(* Proofs about the retention pruner, for any number of runs, of children  *)
(* of the target directory and any size cap.                               *)
(***************************************************************************)
EXTENDS PruneProps, TLAPS, FiniteSetTheorems

(* A tree with a lease is a capture that is still there. *)
LiveInv == \A d \in Subdirs :
  dir[d].lease = "live" => dir[d].kind = "capture" /\ dir[d].body # "gone"

(* What was planned as a tree is a capture for good. *)
TreeInv == \A p \in Pruners : \A d \in pruner[p].trees : dir[d].kind = "capture"

(* The second read of the registry holds until it changes. *)
RegInv == \A p \in Pruners :
  pruner[p].pc \in {"loop", "delete", "rmtree"} /\ pruner[p].reg = "empty"
    => registry = "empty" \/ pruner[p].changed

(* A tree being removed passed its re-check. *)
DelInv == \A p \in Pruners : Deleting(p) =>
  /\ pruner[p].reg = "empty"
  /\ dir[pruner[p].item].lease = "none" \/ pruner[p].item \in pruner[p].claimed

IInv == TypeOK /\ LiveInv /\ TreeInv /\ RegInv /\ DelInv
-----------------------------------------------------------------------------
(* A permutation of a finite set of items is a sequence of items, and so   *)
(* is what the size cap takes of it.                                       *)
LEMMA ItemsFinite == IsFiniteSet(Items)
BY FS_AddElement, PruneAssumption DEF Items

LEMMA OrderingType ==
  ASSUME NEW S \in SUBSET Items, NEW s \in OldestFirst(S)
  PROVE  s \in Seq(Items) /\ ToSet(s) \subseteq S
<1>1. Cardinality(S) \in Nat
  BY ItemsFinite, FS_Subset, FS_CardinalityType
<1>2. s \in [1..Cardinality(S) -> S]
  BY DEF OldestFirst, SetToSeqs
<1>3. s \in Seq(S) /\ ToSet(s) \subseteq S
  BY <1>1, <1>2 DEF ToSet
<1> QED BY <1>3

LEMMA OverCapType ==
  ASSUME NEW s \in Seq(Items)
  PROVE  OverCap(s) \in Seq(Items) /\ ToSet(OverCap(s)) \subseteq ToSet(s)
<1> DEFINE K == {k \in DOMAIN s : MaxBytes > 0 /\ BytesLeft(s, k) > MaxBytes}
<1>1. IsFiniteSet(DOMAIN s) /\ Cardinality(DOMAIN s) = Len(s)
  <2>1. DOMAIN s = 1..Len(s) /\ Len(s) \in Nat  OBVIOUS
  <2>2. IsFiniteSet(1..Len(s)) /\ Cardinality(1..Len(s)) = Len(s)
    BY <2>1, FS_Interval
  <2> QED BY <2>1, <2>2
<1>2. Cardinality(K) \in Nat /\ Cardinality(K) <= Len(s)
  <2>1. K \subseteq DOMAIN s  OBVIOUS
  <2>2. IsFiniteSet(K) /\ Cardinality(K) <= Cardinality(DOMAIN s)
    BY <1>1, <2>1, FS_Subset
  <2> QED BY <1>1, <2>2, FS_CardinalityType
<1> HIDE DEF K
<1>3. /\ SubSeq(s, 1, Cardinality(K)) \in Seq(Items)
      /\ \A i \in DOMAIN SubSeq(s, 1, Cardinality(K)) :
           i \in DOMAIN s /\ SubSeq(s, 1, Cardinality(K))[i] = s[i]
  BY <1>2
<1>4. ToSet(SubSeq(s, 1, Cardinality(K))) \subseteq ToSet(s)
  BY <1>3 DEF ToSet
<1> QED BY <1>3, <1>4 DEF OverCap, K

LEMMA ChosenType ==
  ASSUME NEW p \in Pruners,
         NEW old \in OldestFirst(Expired(p)),
         NEW rest \in OldestFirst(Candidates(p) \ Expired(p))
  PROVE  /\ old \o OverCap(rest) \in Seq(Items)
         /\ ToSet(old \o OverCap(rest)) \subseteq Candidates(p)
<1>1. Candidates(p) \subseteq Items /\ Expired(p) \subseteq Candidates(p)
  BY DEF Candidates, Expired, TreesOf, Loose, OnDisk, Items
<1>2. /\ old \in Seq(Items) /\ ToSet(old) \subseteq Expired(p)
      /\ rest \in Seq(Items) /\ ToSet(rest) \subseteq Candidates(p) \ Expired(p)
  BY <1>1, OrderingType
<1>3. OverCap(rest) \in Seq(Items) /\ ToSet(OverCap(rest)) \subseteq ToSet(rest)
  BY <1>2, OverCapType
<1> DEFINE taken == OverCap(rest)
<1> HIDE DEF taken
<1>4. \A i \in DOMAIN (old \o taken) :
         \/ i \in DOMAIN old /\ (old \o taken)[i] = old[i]
         \/ i - Len(old) \in DOMAIN taken /\ (old \o taken)[i] = taken[i - Len(old)]
  BY <1>2, <1>3 DEF taken
<1>5. old \o taken \in Seq(Items) /\ ToSet(old \o taken) \subseteq ToSet(old) \cup ToSet(taken)
  BY <1>2, <1>3, <1>4 DEF ToSet, taken
<1> QED BY <1>1, <1>2, <1>3, <1>5 DEF taken
-----------------------------------------------------------------------------
(* The invariant holds initially. *)
LEMMA InitInv == Init => IInv
<1> SUFFICES ASSUME Init PROVE IInv  OBVIOUS
<1>1. ASSUME NEW p \in Pruners
      PROVE  /\ pruner[p] \in PrunerState
             /\ pruner[p].todo = <<>> /\ pruner[p].trees = {} /\ pruner[p].pc = "start"
  <2>1. PICK a \in AwareFlags, d \in BOOLEAN :
          pruner[p] = [pc |-> "start", ino |-> 0, aware |-> a, delete |-> d, planned |-> {},
                       trees |-> {}, todo |-> <<>>, item |-> LockFile, reg |-> "unknown",
                       exit |-> "none", failed |-> FALSE, claimed |-> {}, changed |-> FALSE]
    BY <1>1 DEF Init
  <2>2. <<>> \in Seq(Items)  OBVIOUS
  <2> QED BY <2>1, <2>2, PruneAssumption DEF PrunerState, Items, Registries
<1>2. pruner \in [Pruners -> PrunerState]
  BY <1>1 DEF Init
<1>3. TypeOK
  BY <1>1, <1>2 DEF Init, TypeOK, Ages, ToSet
<1>4. LiveInv
  BY DEF Init, LiveInv
<1> QED BY <1>1, <1>3, <1>4 DEF IInv, TreeInv, RegInv, DelInv, Deleting
-----------------------------------------------------------------------------
(* A step of a run changes the state of that run only.                     *)
LEMMA RunUpdate ==
  ASSUME TypeOK, NEW p \in Pruners, NEW s \in PrunerState, Becomes(p, s)
  PROVE  /\ pruner' \in [Pruners -> PrunerState]
         /\ pruner'[p] = s
         /\ \A q \in Pruners \ {p} : pruner'[q] = pruner[q]
BY DEF TypeOK, Becomes

(* The steps of a run that are neither its plan, nor its second read of    *)
(* the registry, nor a turn of its loop leave all but pc, ino, exit and    *)
(* failed alone; none of them starts the deletion of an item.              *)
SameRun(s, t) ==
  /\ t.aware = s.aware /\ t.delete = s.delete
  /\ t.planned = s.planned /\ t.trees = s.trees /\ t.todo = s.todo /\ t.item = s.item
  /\ t.reg = s.reg /\ t.claimed = s.claimed /\ t.changed = s.changed
  /\ t.ino = s.ino \/ s.pc = "start"
  /\ t.pc \in {"loop", "rmtree"} => s.pc \in {"loop", "delete", "rmtree"}
  /\ t.pc = "rmtree" => s.pc = "delete"
  /\ t.pc = "flock" => s.pc = "start"
  /\ t.pc = "plan" => s.pc = "flock"
  /\ t.pc \notin {"start", "reread", "delete"}

PlainStep(p) ==
  \/ Open(p) \/ Flock(p) \/ DeleteLock(p) \/ DeleteFile(p) \/ RmtreeBegin(p) \/ RmtreeEnd(p)
  \/ DeleteFails(p) \/ Finish(p) \/ Kill(p)

LEMMA PlainStepFacts ==
  ASSUME TypeOK, NEW p \in Pruners, PlainStep(p)
  PROVE  /\ pruner' \in [Pruners -> PrunerState]
         /\ SameRun(pruner[p], pruner'[p])
         /\ \A q \in Pruners \ {p} : pruner'[q] = pruner[q]
<1> DEFINE s == pruner[p]
<1>0. s \in PrunerState
  BY DEF TypeOK
<1>1. SUFFICES \E t \in PrunerState : Becomes(p, t) /\ SameRun(s, t)
  BY RunUpdate
<1> HIDE DEF s
<1>2. CASE Open(p)
  <2> DEFINE t == [s EXCEPT !.pc = "flock", !.ino = lockIno']
  <2>1. lockIno' \in Nat /\ s.pc = "start"
    BY <1>2 DEF Open, TypeOK, lockVars, s
  <2>2. t \in PrunerState /\ SameRun(s, t)
    BY <1>0, <2>1 DEF PrunerState, SameRun
  <2>3. Becomes(p, t)
    BY <1>2 DEF Open, s
  <2> QED BY <2>2, <2>3
<1>3. CASE Flock(p)
  <2> DEFINE t == [s EXCEPT !.pc = "plan"]
  <2>1. Becomes(p, t) /\ s.pc = "flock"
    BY <1>3 DEF Flock, s
  <2>2. t \in PrunerState /\ SameRun(s, t)
    BY <1>0, <2>1 DEF PrunerState, SameRun
  <2> QED BY <2>1, <2>2
<1>4. CASE DeleteLock(p) \/ DeleteFile(p) \/ RmtreeEnd(p) \/ DeleteFails(p)
  <2> DEFINE t == [s EXCEPT !.pc = "loop"]
             u == [s EXCEPT !.pc = "loop", !.failed = TRUE]
  <2>1. s.pc \in {"delete", "rmtree"}
    BY <1>4 DEF DeleteLock, DeleteFile, RmtreeEnd, DeleteFails, s
  <2>2. t \in PrunerState /\ SameRun(s, t) /\ u \in PrunerState /\ SameRun(s, u)
    BY <1>0, <2>1 DEF PrunerState, SameRun
  <2>3. Becomes(p, t) \/ Becomes(p, u)
    BY <1>4 DEF DeleteLock, DeleteFile, RmtreeEnd, DeleteFails, Deleted, Failed, s
  <2> QED BY <2>2, <2>3
<1>5. CASE RmtreeBegin(p)
  <2> DEFINE t == [s EXCEPT !.pc = "rmtree"]
  <2>1. s.pc = "delete"
    BY <1>5 DEF RmtreeBegin, s
  <2>2. t \in PrunerState /\ SameRun(s, t)
    BY <1>0, <2>1 DEF PrunerState, SameRun
  <2>3. Becomes(p, t)
    BY <1>5 DEF RmtreeBegin, s
  <2> QED BY <2>2, <2>3
<1>6. CASE Finish(p)
  <2> DEFINE t == [s EXCEPT !.pc = "done", !.exit = IF s.failed THEN "failed" ELSE "ok"]
  <2>1. t \in PrunerState /\ SameRun(s, t)
    BY <1>0 DEF PrunerState, SameRun
  <2>2. Becomes(p, t)
    BY <1>6 DEF Finish, s
  <2> QED BY <2>1, <2>2
<1>7. CASE Kill(p)
  <2> DEFINE t == [s EXCEPT !.pc = "done", !.exit = "killed"]
  <2>1. t \in PrunerState /\ SameRun(s, t)
    BY <1>0 DEF PrunerState, SameRun
  <2>2. Becomes(p, t)
    BY <1>7 DEF Kill, s
  <2> QED BY <2>1, <2>2
<1> QED BY <1>2, <1>3, <1>4, <1>5, <1>6, <1>7 DEF PlainStep

(* The plan: a tree of it is a capture, and the run is not deleting yet.   *)
LEMMA PlanFacts ==
  ASSUME TypeOK, NEW p \in Pruners, Plan(p)
  PROVE  /\ pruner' \in [Pruners -> PrunerState]
         /\ ToSet(pruner'[p].todo) \subseteq pruner'[p].planned
         /\ pruner'[p].trees \subseteq pruner'[p].planned
         /\ \A d \in pruner'[p].trees : d \in Subdirs /\ IsCapture(d)
         /\ pruner'[p].pc \in {"reread", "done"}
         /\ pruner'[p].delete = pruner[p].delete /\ pruner'[p].ino = pruner[p].ino
         /\ pruner'[p].pc = "reread" => pruner[p].delete
         /\ pruner[p].delete => /\ pruner'[p].exit = "none"
                               /\ ToSet(pruner'[p].todo) = pruner'[p].planned
         /\ pruner'[p].aware = IF Aware(p) THEN "on" ELSE "off"
         /\ LockFile \in pruner'[p].planned => Aware(p)
         /\ \A q \in Pruners \ {p} : pruner'[q] = pruner[q]
<1>1. PICK old \in OldestFirst(Expired(p)),
           rest \in OldestFirst(Candidates(p) \ Expired(p)) :
             PlanAs(p, old \o OverCap(rest))
  BY DEF Plan
<1> DEFINE chosen == old \o OverCap(rest)
<1>2. chosen \in Seq(Items) /\ ToSet(chosen) \subseteq Candidates(p)
  BY ChosenType
<1>3. PlanAs(p, chosen)
  BY <1>1
<1> HIDE DEF chosen
<1>4. ToSet(chosen) \subseteq Items /\ ToSet(<<>>) = {} /\ <<>> \in Seq(Items)
  BY <1>2 DEF ToSet
<1> DEFINE s == pruner[p]
           trees == TreesAmong(p, chosen)
           aware == IF Aware(p) THEN "on" ELSE "off"
           todo == IF s.delete THEN chosen ELSE <<>>
           pc == IF s.delete THEN "reread" ELSE "done"
           exit == IF s.delete THEN "none" ELSE "ok"
           t == [s EXCEPT !.planned = ToSet(chosen), !.trees = trees, !.todo = todo,
                          !.aware = aware, !.pc = pc, !.exit = exit]
<1>5. Becomes(p, t)
  BY <1>3 DEF PlanAs
<1>6. /\ trees \subseteq ToSet(chosen)
      /\ \A d \in trees : d \in Subdirs /\ IsCapture(d)
  BY DEF TreesAmong, TreesOf, OnDisk
<1>7. /\ aware \in {"on", "off"} /\ pc \in {"reread", "done"} /\ exit \in {"none", "ok"}
      /\ todo \in Seq(Items) /\ ToSet(todo) \subseteq ToSet(chosen)
      /\ s.delete => exit = "none" /\ todo = chosen
  BY <1>2, <1>4
<1>8. s \in PrunerState
  BY DEF TypeOK
<1>9. LockFile \in Candidates(p) => Aware(p)
  BY PruneAssumption DEF Candidates, TreesOf, Loose, OnDisk
<1> HIDE DEF s, trees, aware, todo, pc, exit
<1>10. /\ t \in PrunerState
       /\ t.planned = ToSet(chosen) /\ t.trees = trees /\ t.todo = todo /\ t.aware = aware
       /\ t.pc = pc /\ t.delete = s.delete /\ t.ino = s.ino /\ t.exit = exit
  BY <1>4, <1>6, <1>7, <1>8 DEF PrunerState
<1> HIDE DEF t
<1>11. /\ pruner' \in [Pruners -> PrunerState] /\ pruner'[p] = t
       /\ \A q \in Pruners \ {p} : pruner'[q] = pruner[q]
  BY <1>5, <1>10, RunUpdate
<1> QED BY <1>2, <1>6, <1>7, <1>9, <1>10, <1>11 DEF s, aware, pc

(* The second read of the registry. *)
LEMMA RereadFacts ==
  ASSUME TypeOK, NEW p \in Pruners, Reread(p)
  PROVE  /\ pruner' \in [Pruners -> PrunerState]
         /\ pruner'[p].pc = "loop"
         /\ pruner'[p].reg = "empty" => registry = "empty"
         /\ pruner'[p].planned = pruner[p].planned /\ pruner'[p].trees = pruner[p].trees
         /\ pruner'[p].todo = pruner[p].todo
         /\ pruner'[p].failed = pruner[p].failed /\ pruner'[p].exit = pruner[p].exit
         /\ pruner[p].pc = "reread" /\ pruner'[p].ino = pruner[p].ino
         /\ pruner'[p].delete = pruner[p].delete /\ pruner'[p].aware = pruner[p].aware
         /\ \A q \in Pruners \ {p} : pruner'[q] = pruner[q]
<1> DEFINE s == pruner[p]
           reg == IF s.aware = "on" THEN registry ELSE "unknown"
           t == [s EXCEPT !.pc = "loop", !.changed = FALSE, !.reg = reg]
<1>1. Becomes(p, t) /\ s.pc = "reread"
  BY DEF Reread
<1>2. s \in PrunerState /\ reg \in Registries /\ (reg = "empty" => registry = "empty")
  BY DEF TypeOK, Registries
<1> HIDE DEF s, reg
<1>3. /\ t \in PrunerState /\ t.pc = "loop" /\ t.reg = reg
      /\ t.planned = s.planned /\ t.trees = s.trees /\ t.todo = s.todo
      /\ t.delete = s.delete /\ t.aware = s.aware /\ t.ino = s.ino
      /\ t.failed = s.failed /\ t.exit = s.exit
  BY <1>2 DEF PrunerState
<1> HIDE DEF t
<1> QED BY <1>1, <1>2, <1>3, RunUpdate DEF s

(* A turn of the loop: what goes on to be deleted as a tree is no capture  *)
(* any more, or has no lease, and the registry was read as empty.          *)
LEMMA CheckFacts ==
  ASSUME TypeOK, NEW p \in Pruners, Check(p)
  PROVE  /\ pruner' \in [Pruners -> PrunerState]
         /\ pruner[p].pc = "loop" /\ pruner'[p].pc \in {"loop", "delete"}
         /\ ToSet(pruner'[p].todo) \subseteq ToSet(pruner[p].todo)
         /\ pruner'[p].planned = pruner[p].planned /\ pruner'[p].trees = pruner[p].trees
         /\ pruner'[p].delete = pruner[p].delete /\ pruner'[p].aware = pruner[p].aware
         /\ pruner'[p].reg = pruner[p].reg /\ pruner'[p].changed = pruner[p].changed
         /\ pruner'[p].ino = pruner[p].ino /\ pruner'[p].exit = pruner[p].exit
         /\ ~pruner'[p].failed =>
              /\ ~pruner[p].failed /\ pruner'[p].pc = "delete"
              /\ ToSet(pruner[p].todo) \subseteq ToSet(pruner'[p].todo) \cup {pruner'[p].item}
         /\ pruner'[p].pc = "delete" =>
              /\ pruner'[p].item \in ToSet(pruner[p].todo)
              /\ ~Refuses(p, pruner'[p].item)
         /\ \A q \in Pruners \ {p} : pruner'[q] = pruner[q]
<1> DEFINE s == pruner[p]
           i == Head(s.todo)
           t == [s EXCEPT !.todo = Tail(@), !.failed = TRUE]
           u == [s EXCEPT !.todo = Tail(@), !.item = i, !.pc = "delete", !.claimed = {}]
<1>1. /\ s.pc = "loop" /\ s.todo # <<>>
      /\ Becomes(p, t) \/ (~Refuses(p, i) /\ Becomes(p, u))
  BY DEF Check
<1>2. s \in PrunerState /\ s.todo \in Seq(Items)
  BY DEF TypeOK, PrunerState
<1> HIDE DEF s
<1>3. /\ Head(s.todo) \in Items /\ Head(s.todo) \in ToSet(s.todo)
      /\ Tail(s.todo) \in Seq(Items) /\ ToSet(Tail(s.todo)) \subseteq ToSet(s.todo)
      /\ ToSet(s.todo) \subseteq ToSet(Tail(s.todo)) \cup {Head(s.todo)}
  <2>1. /\ Tail(s.todo) \in Seq(Items) /\ Head(s.todo) = s.todo[1] /\ 1 \in DOMAIN s.todo
        /\ DOMAIN s.todo = 1..Len(s.todo) /\ DOMAIN Tail(s.todo) = 1..(Len(s.todo) - 1)
        /\ \A k \in DOMAIN Tail(s.todo) : Tail(s.todo)[k] = s.todo[k + 1]
    BY <1>1, <1>2
  <2>2. \A k \in DOMAIN s.todo : k = 1 \/ (k - 1 \in DOMAIN Tail(s.todo) /\ Tail(s.todo)[k - 1] = s.todo[k])
    BY <1>2, <2>1
  <2>3. ToSet(s.todo) \subseteq ToSet(Tail(s.todo)) \cup {Head(s.todo)}
    BY <2>1, <2>2 DEF ToSet
  <2>4. ToSet(Tail(s.todo)) \subseteq ToSet(s.todo)
    <3>1. \A k \in DOMAIN Tail(s.todo) : k + 1 \in DOMAIN s.todo
      BY <1>2, <2>1
    <3> QED BY <2>1, <3>1 DEF ToSet
  <2>5. Head(s.todo) \in Items /\ Head(s.todo) \in ToSet(s.todo)
    BY <1>2, <2>1 DEF ToSet
  <2> QED BY <2>1, <2>3, <2>4, <2>5
<1> HIDE DEF i
<1>4. /\ t \in PrunerState /\ t.todo = Tail(s.todo) /\ t.pc = s.pc
      /\ t.planned = s.planned /\ t.trees = s.trees /\ t.delete = s.delete /\ t.aware = s.aware
      /\ t.reg = s.reg /\ t.changed = s.changed /\ t.ino = s.ino /\ t.exit = s.exit /\ t.failed
  BY <1>2, <1>3 DEF PrunerState
<1>5. /\ u \in PrunerState /\ u.todo = Tail(s.todo) /\ u.pc = "delete" /\ u.item = i
      /\ u.planned = s.planned /\ u.trees = s.trees /\ u.delete = s.delete /\ u.aware = s.aware
      /\ u.reg = s.reg /\ u.changed = s.changed /\ u.ino = s.ino /\ u.exit = s.exit
      /\ u.failed = s.failed
  BY <1>2, <1>3 DEF PrunerState, i
<1> HIDE DEF t, u
<1>6. CASE Becomes(p, t)
  BY <1>1, <1>3, <1>4, <1>6, RunUpdate DEF s
<1>7. CASE ~Refuses(p, i) /\ Becomes(p, u)
  BY <1>1, <1>3, <1>5, <1>7, RunUpdate DEF s, i
<1> QED BY <1>1, <1>6, <1>7

(* The gateway's steps only mark the history of every run.                 *)
Marked(s, t) ==
  /\ t.pc = s.pc /\ t.ino = s.ino /\ t.aware = s.aware /\ t.delete = s.delete
  /\ t.planned = s.planned /\ t.trees = s.trees /\ t.todo = s.todo /\ t.item = s.item
  /\ t.reg = s.reg /\ t.failed = s.failed /\ t.exit = s.exit
  /\ s.claimed \subseteq t.claimed /\ (s.changed => t.changed)

LEMMA GatewayFacts ==
  ASSUME TypeOK,
         (\E d \in Subdirs : Claim(d) \/ Release(d)) \/ ChangePlugins
  PROVE  /\ pruner' \in [Pruners -> PrunerState]
         /\ \A q \in Pruners : Marked(pruner[q], pruner'[q])
         /\ \A q \in Pruners : ChangePlugins => pruner'[q].changed
         /\ \A q \in Pruners, d \in Subdirs : Claim(d) => d \in pruner'[q].claimed
<1> DEFINE OK == /\ pruner' \in [Pruners -> PrunerState]
                 /\ \A q \in Pruners : Marked(pruner[q], pruner'[q])
<1>1. ASSUME NEW d \in Subdirs, Claim(d)
      PROVE  OK /\ \A q \in Pruners : d \in pruner'[q].claimed
  <2>1. \A q \in Pruners : pruner'[q] = [pruner[q] EXCEPT !.claimed = pruner[q].claimed \cup {d}]
    BY <1>1 DEF Claim
  <2>2. ASSUME NEW q \in Pruners
        PROVE  /\ pruner'[q] \in PrunerState /\ Marked(pruner[q], pruner'[q])
               /\ d \in pruner'[q].claimed
    <3> DEFINE s == pruner[q]
               c == s.claimed \cup {d}
               t == [s EXCEPT !.claimed = c]
    <3>1. s \in PrunerState
      BY DEF TypeOK
    <3>2. c \in SUBSET Subdirs /\ s.claimed \subseteq c /\ d \in c
      BY <3>1 DEF PrunerState
    <3> HIDE DEF s, c
    <3>3. t \in PrunerState /\ Marked(s, t) /\ d \in t.claimed
      BY <3>1, <3>2 DEF PrunerState, Marked
    <3> QED BY <2>1, <3>3 DEF s, c
  <2> QED BY <1>1, <2>2 DEF Claim
<1>2. ASSUME NEW d \in Subdirs, Release(d)
      PROVE  OK
  BY <1>2 DEF Release, TypeOK, Marked
<1>3. ASSUME ChangePlugins
      PROVE  OK /\ \A q \in Pruners : pruner'[q].changed
  <2>1. \A q \in Pruners : pruner'[q] = [pruner[q] EXCEPT !.changed = TRUE]
    BY <1>3 DEF ChangePlugins
  <2>2. ASSUME NEW q \in Pruners
        PROVE  /\ pruner'[q] \in PrunerState /\ Marked(pruner[q], pruner'[q])
               /\ pruner'[q].changed
    <3> DEFINE s == pruner[q]
               t == [s EXCEPT !.changed = TRUE]
    <3>1. s \in PrunerState
      BY DEF TypeOK
    <3> HIDE DEF s
    <3>2. t \in PrunerState /\ Marked(s, t) /\ t.changed
      BY <3>1 DEF PrunerState, Marked
    <3> QED BY <2>1, <3>2 DEF s
  <2> QED BY <1>3, <2>2 DEF ChangePlugins
<1> QED BY <1>1, <1>2, <1>3
-----------------------------------------------------------------------------
(* Every step is one of these. *)
LEMMA StepCases ==
  ASSUME [Next]_vars
  PROVE  \/ UNCHANGED vars
         \/ \E p \in Pruners : PlainStep(p) \/ Plan(p) \/ Reread(p) \/ Check(p)
         \/ (\E d \in Subdirs : Claim(d) \/ Release(d)) \/ ChangePlugins
BY DEF Next, PlainStep

(* What a step may do to the directory, the registry and the lock file.    *)
LEMMA WorldFacts ==
  ASSUME TypeOK, [Next]_vars
  PROVE  /\ dir' \in [Subdirs -> DirState] /\ registry' \in Registries
         /\ lockIno' \in 0..inodes' /\ lockAge' \in Ages /\ inodes' \in Nat
         /\ \A d \in Subdirs :
              /\ dir[d].kind = "capture" => dir'[d].kind = "capture"
              /\ dir[d].body = "gone" => dir'[d].body = "gone"
              /\ dir'[d].lease = "none" \/ dir[d].lease = "live" \/ Claim(d)
<1> USE DEF world, lockVars
<1>1. CASE dir' = dir
  <2>1. \A d \in Subdirs : dir[d].lease \in {"none", "live"}
    BY DEF TypeOK, DirState
  <2>2. registry' \in Registries
    BY <1>1 DEF TypeOK, Next, vars, Open, Flock, Plan, Reread, Check, DeleteLock, DeleteFile,
       RmtreeBegin, RmtreeEnd, DeleteFails, Finish, Kill, Claim, Release, ChangePlugins
  <2>3. lockIno' \in 0..inodes' /\ lockAge' \in Ages /\ inodes' \in Nat
    <3>1. ASSUME NEW p \in Pruners, Open(p) \/ DeleteLock(p)
          PROVE  lockIno' \in 0..inodes' /\ lockAge' \in Ages /\ inodes' \in Nat
      BY <3>1 DEF Open, DeleteLock, TypeOK, Ages
    <3>2. \/ UNCHANGED lockVars
          \/ \E p \in Pruners : Open(p) \/ DeleteLock(p)
      BY DEF Next, vars, Flock, Plan, Reread, Check, DeleteFile, RmtreeBegin, RmtreeEnd,
         DeleteFails, Finish, Kill, Claim, Release, ChangePlugins
    <3> QED BY <3>1, <3>2 DEF TypeOK
  <2> QED BY <1>1, <2>1, <2>2, <2>3 DEF TypeOK
<1>2. ASSUME NEW p \in Pruners, DeleteFile(p) \/ RmtreeBegin(p) \/ RmtreeEnd(p)
      PROVE  /\ dir' \in [Subdirs -> DirState] /\ UNCHANGED <<registry, lockVars>>
             /\ \A d \in Subdirs :
                  /\ dir[d].kind = "capture" => dir'[d].kind = "capture"
                  /\ dir[d].body = "gone" => dir'[d].body = "gone"
                  /\ dir'[d].lease = "none" \/ dir[d].lease = "live"
  BY <1>2 DEF DeleteFile, RmtreeBegin, RmtreeEnd, TypeOK, DirState
<1>3. ASSUME NEW d \in Subdirs, Claim(d) \/ Release(d)
      PROVE  /\ dir' \in [Subdirs -> DirState] /\ UNCHANGED <<registry, lockVars>>
             /\ \A e \in Subdirs :
                  /\ dir[e].kind = "capture" => dir'[e].kind = "capture"
                  /\ dir[e].body = "gone" => dir'[e].body = "gone"
                  /\ dir'[e].lease = "none" \/ dir[e].lease = "live" \/ Claim(e)
  BY <1>3 DEF Claim, Release, TypeOK, DirState
<1>4. \/ dir' = dir
      \/ \E p \in Pruners : DeleteFile(p) \/ RmtreeBegin(p) \/ RmtreeEnd(p)
      \/ \E d \in Subdirs : Claim(d) \/ Release(d)
  BY DEF Next, vars, Open, Flock, Plan, Reread, Check, DeleteLock, DeleteFails, Finish, Kill,
     ChangePlugins
<1>5. CASE \E p \in Pruners : DeleteFile(p) \/ RmtreeBegin(p) \/ RmtreeEnd(p)
  BY <1>2, <1>5 DEF TypeOK
<1>6. CASE \E d \in Subdirs : Claim(d) \/ Release(d)
  BY <1>3, <1>6 DEF TypeOK
<1> QED BY <1>1, <1>4, <1>5, <1>6

(* The types are inductive by themselves. *)
LEMMA TypeStep == ASSUME TypeOK, [Next]_vars PROVE TypeOK'
<1> SUFFICES /\ pruner' \in [Pruners -> PrunerState]
             /\ \A q \in Pruners : /\ ToSet(pruner'[q].todo) \subseteq pruner'[q].planned
                                   /\ pruner'[q].trees \subseteq pruner'[q].planned
  BY WorldFacts DEF TypeOK
<1>1. CASE UNCHANGED vars
  BY <1>1 DEF TypeOK, vars
<1>2. ASSUME NEW p \in Pruners, PlainStep(p) \/ Plan(p) \/ Reread(p) \/ Check(p)
      PROVE  /\ pruner' \in [Pruners -> PrunerState]
             /\ \A q \in Pruners \ {p} : pruner'[q] = pruner[q]
             /\ ToSet(pruner'[p].todo) \subseteq pruner'[p].planned
             /\ pruner'[p].trees \subseteq pruner'[p].planned
  BY <1>2, PlainStepFacts, PlanFacts, RereadFacts, CheckFacts DEF TypeOK, SameRun
<1>3. CASE \E p \in Pruners : PlainStep(p) \/ Plan(p) \/ Reread(p) \/ Check(p)
  BY <1>2, <1>3 DEF TypeOK
<1>4. CASE (\E d \in Subdirs : Claim(d) \/ Release(d)) \/ ChangePlugins
  BY <1>4, GatewayFacts DEF TypeOK, Marked
<1> QED BY <1>1, <1>3, <1>4, StepCases

LEMMA LiveStep == ASSUME IInv, [Next]_vars PROVE LiveInv'
<1> USE DEF world, lockVars
<1>1. CASE dir' = dir
  BY <1>1 DEF IInv, LiveInv
<1>2. ASSUME NEW p \in Pruners, DeleteFile(p) \/ RmtreeBegin(p) \/ RmtreeEnd(p)
      PROVE  LiveInv'
  BY <1>2 DEF DeleteFile, RmtreeBegin, RmtreeEnd, IInv, LiveInv, TypeOK, DirState
<1>3. ASSUME NEW d \in Subdirs, Claim(d) \/ Release(d)
      PROVE  LiveInv'
  BY <1>3 DEF Claim, Release, IInv, LiveInv, TypeOK, DirState
<1> QED BY <1>1, <1>2, <1>3 DEF Next, vars, Open, Flock, Plan, Reread, Check, DeleteLock,
           DeleteFails, Finish, Kill, ChangePlugins

LEMMA TreeStep == ASSUME IInv, [Next]_vars PROVE TreeInv'
<1>1. TypeOK /\ TypeOK' /\ TreeInv
  BY TypeStep DEF IInv
<1>2. \A d \in Subdirs : dir[d].kind = "capture" => dir'[d].kind = "capture"
  BY WorldFacts, <1>1
<1>3. \A q \in Pruners : pruner[q].trees \subseteq Subdirs
  BY <1>1 DEF TypeOK, PrunerState
<1>4. ASSUME NEW p \in Pruners, Plan(p)
      PROVE  \A q \in Pruners : \A d \in pruner'[q].trees :
               d \in pruner[q].trees \/ (d \in Subdirs /\ IsCapture(d))
  BY <1>1, <1>4, PlanFacts
<1>5. ASSUME NEW p \in Pruners, PlainStep(p) \/ Reread(p) \/ Check(p)
      PROVE  \A q \in Pruners : pruner'[q].trees = pruner[q].trees
  BY <1>1, <1>5, PlainStepFacts, RereadFacts, CheckFacts DEF SameRun
<1>6. CASE (\E d \in Subdirs : Claim(d) \/ Release(d)) \/ ChangePlugins
  BY <1>1, <1>2, <1>3, <1>6, GatewayFacts DEF TreeInv, Marked
<1>7. CASE UNCHANGED vars
  BY <1>1, <1>7 DEF TreeInv, vars
<1> QED BY <1>1, <1>2, <1>3, <1>4, <1>5, <1>6, <1>7, StepCases DEF TreeInv, IsCapture

LEMMA RegStep == ASSUME IInv, [Next]_vars PROVE RegInv'
<1>1. TypeOK /\ RegInv
  BY DEF IInv
<1>2. registry' = registry \/ ChangePlugins
  BY DEF Next, vars, world, Open, Flock, Plan, Reread, Check, DeleteLock, DeleteFile,
     RmtreeBegin, RmtreeEnd, DeleteFails, Finish, Kill, Claim, Release
<1>3. ASSUME NEW p \in Pruners, PlainStep(p) \/ Plan(p) \/ Reread(p) \/ Check(p)
      PROVE  RegInv'
  <2>1. registry' = registry
    BY <1>3 DEF PlainStep, Open, Flock, Plan, Reread, Check, DeleteLock, DeleteFile,
       RmtreeBegin, RmtreeEnd, DeleteFails, Finish, Kill, world
  <2> QED BY <1>1, <1>3, <2>1, PlainStepFacts, PlanFacts, RereadFacts, CheckFacts
          DEF RegInv, SameRun
<1>4. CASE (\E d \in Subdirs : Claim(d) \/ Release(d)) \/ ChangePlugins
  BY <1>1, <1>2, <1>4, GatewayFacts DEF RegInv, Marked
<1>5. CASE UNCHANGED vars
  BY <1>1, <1>5 DEF RegInv, vars
<1> QED BY <1>3, <1>4, <1>5, StepCases

LEMMA DelStep == ASSUME IInv, [Next]_vars PROVE DelInv'
<1>1. TypeOK /\ TypeOK' /\ DelInv /\ TreeInv /\ LiveInv
  BY TypeStep DEF IInv
<1>2. \A d \in Subdirs : /\ dir[d].body = "gone" => dir'[d].body = "gone"
                         /\ dir'[d].lease = "none" \/ dir[d].lease = "live" \/ Claim(d)
                         /\ dir[d].lease \in {"none", "live"}
  BY WorldFacts, <1>1 DEF TypeOK, DirState
<1>3. \A q \in Pruners : pruner[q].trees \subseteq Subdirs
  BY <1>1 DEF TypeOK, PrunerState
<1>4. ASSUME NEW p \in Pruners, PlainStep(p) \/ Plan(p) \/ Reread(p)
      PROVE  DelInv'
  <2>1. \A d \in Subdirs : dir'[d].lease = "none" \/ dir[d].lease = "live"
    <3>1. CASE DeleteFile(p) \/ RmtreeBegin(p) \/ RmtreeEnd(p)
      BY <1>1, <1>2, <3>1 DEF DeleteFile, RmtreeBegin, RmtreeEnd, TypeOK, DirState
    <3>2. CASE dir' = dir
      BY <1>2, <3>2
    <3> QED BY <1>4, <3>1, <3>2 DEF PlainStep, Open, Flock, Plan, Reread, DeleteLock,
               DeleteFails, Finish, Kill, world
  <2>2. ASSUME NEW q \in Pruners, (Deleting(q))'
        PROVE  Deleting(q) /\ pruner'[q].reg = pruner[q].reg
               /\ pruner'[q].item = pruner[q].item /\ pruner'[q].claimed = pruner[q].claimed
               /\ pruner[q].item \in Subdirs
    BY <1>1, <1>2, <1>3, <1>4, <2>2, PlainStepFacts, PlanFacts, RereadFacts
       DEF Deleting, SameRun
  <2> QED BY <1>1, <1>2, <2>1, <2>2 DEF DelInv
<1>5. ASSUME NEW p \in Pruners, Check(p)
      PROVE  DelInv'
  <2>1. dir' = dir
    BY <1>5 DEF Check, world
  <2>2. ASSUME (Deleting(p))'
        PROVE  pruner'[p].reg = "empty" /\ dir'[pruner'[p].item].lease = "none"
    <3> DEFINE i == pruner'[p].item
    <3>1. /\ pruner'[p].pc = "delete" /\ ~Refuses(p, i) /\ i \in pruner[p].trees
          /\ dir[i].body # "gone" /\ pruner'[p].reg = pruner[p].reg
      BY <1>1, <1>5, <2>1, <2>2, CheckFacts DEF Deleting
    <3>2. IsCapture(i)
      BY <1>1, <3>1 DEF TreeInv, IsCapture
    <3> QED BY <2>1, <3>1, <3>2 DEF Refuses, Prunable
  <2>3. \A q \in Pruners \ {p} : pruner'[q] = pruner[q]
    BY <1>1, <1>5, CheckFacts
  <2> QED BY <1>1, <2>1, <2>2, <2>3 DEF DelInv, Deleting
<1>6. CASE (\E d \in Subdirs : Claim(d) \/ Release(d)) \/ ChangePlugins
  <2>1. ASSUME NEW q \in Pruners, (Deleting(q))'
        PROVE  Deleting(q) /\ Marked(pruner[q], pruner'[q]) /\ pruner[q].item \in Subdirs
    BY <1>1, <1>2, <1>3, <1>6, <2>1, GatewayFacts DEF Deleting, Marked
  <2> QED BY <1>1, <1>2, <1>6, <2>1, GatewayFacts DEF DelInv, Marked
<1>7. CASE UNCHANGED vars
  BY <1>1, <1>7 DEF DelInv, Deleting, vars
<1> QED BY <1>4, <1>5, <1>6, <1>7, StepCases
-----------------------------------------------------------------------------
THEOREM InvariantHolds == Spec => []IInv
<1>1. IInv /\ [Next]_vars => IInv'
  BY TypeStep, LiveStep, TreeStep, RegStep, DelStep DEF IInv
<1> QED BY InitInv, <1>1, PTL DEF Spec

(* Types; a run works off a subset of what it planned, and plans as trees  *)
(* only what it planned at all.                                            *)
THEOREM PrunerTypes == Spec => []TypeOK
<1>1. IInv => TypeOK
  BY DEF IInv
<1> QED BY InvariantHolds, <1>1, PTL

(* No run removes a capture tree whose lease was there when that tree was  *)
(* checked again.                                                          *)
THEOREM LeasesAreHonoured == Spec => []LeaseHonoured
<1>1. IInv => LeaseHonoured
  BY DEF IInv, DelInv, LeaseHonoured
<1> QED BY InvariantHolds, <1>1, PTL

(* No run removes a capture tree while plugins were registered at its      *)
(* second read of the registry.                                            *)
THEOREM RegistryIsHonoured == Spec => []RegistryHonoured
<1>1. IInv => RegistryHonoured
  BY DEF IInv, DelInv, RegInv, Deleting, RegistryHonoured
<1> QED BY InvariantHolds, <1>1, PTL
-----------------------------------------------------------------------------
(* The plan.  What the size cap takes is the shortest prefix of the        *)
(* survivors, oldest first, that leaves no more than the cap.              *)

LEMMA TotalFacts ==
  ASSUME NEW S \in SUBSET Items, NEW T \in SUBSET S
  PROVE  /\ Total(S) \in Nat /\ Total(T) \in Nat
         /\ Total(S) - Total(T) = Total(S \ T) /\ Total(T) <= Total(S)
         /\ Total({}) = 0
<1>1. IsFiniteSet(S) /\ IsFiniteSet(T) /\ IsFiniteSet(S \ T)
  BY ItemsFinite, FS_Subset, T \subseteq Items, S \ T \subseteq Items
<1>2. ASSUME NEW U \in SUBSET S
      PROVE  /\ IsFiniteSet(U \ {LockFile}) /\ IsFiniteSet(U \cap Heavy)
             /\ Cardinality(U \ {LockFile}) \in Nat /\ Cardinality(U \cap Heavy) \in Nat
  BY <1>1, FS_Subset, FS_CardinalityType, U \ {LockFile} \subseteq S, U \cap Heavy \subseteq S
<1>3. Cardinality((S \ T) \ {LockFile}) = Cardinality(S \ {LockFile}) - Cardinality(T \ {LockFile})
  <2>1. /\ (S \ {LockFile}) \ T = (S \ T) \ {LockFile}
        /\ (S \ {LockFile}) \cap T = T \ {LockFile}
    OBVIOUS
  <2>2. IsFiniteSet(S \ {LockFile})
    BY <1>2, S \in SUBSET S
  <2> DEFINE U == S \ {LockFile}
  <2>3. Cardinality(U \ T) = Cardinality(U) - Cardinality(U \cap T)
    BY <2>2, FS_Difference
  <2> QED BY <2>1, <2>3
<1>4. Cardinality((S \ T) \cap Heavy) = Cardinality(S \cap Heavy) - Cardinality(T \cap Heavy)
  <2>1. /\ (S \cap Heavy) \ T = (S \ T) \cap Heavy
        /\ (S \cap Heavy) \cap T = T \cap Heavy
    OBVIOUS
  <2>2. IsFiniteSet(S \cap Heavy)
    BY <1>2, S \in SUBSET S
  <2> QED BY <2>1, <2>2, FS_Difference
<1>5. Total({}) = 0
  <2>1. {} \ {LockFile} = {} /\ {} \cap Heavy = {}
    OBVIOUS
  <2> QED BY <2>1, FS_EmptySet DEF Total
<1>6. /\ Cardinality(S \ {LockFile}) \in Nat /\ Cardinality(S \cap Heavy) \in Nat
      /\ Cardinality(T \ {LockFile}) \in Nat /\ Cardinality(T \cap Heavy) \in Nat
      /\ Cardinality((S \ T) \ {LockFile}) \in Nat /\ Cardinality((S \ T) \cap Heavy) \in Nat
  BY <1>2
<1> QED BY <1>3, <1>4, <1>5, <1>6 DEF Total

(* A list of S, oldest first, has all of S. *)
LEMMA OrderingCovers ==
  ASSUME NEW S \in SUBSET Items, NEW s \in OldestFirst(S)
  PROVE  ToSet(s) = S
<1> DEFINE n == Cardinality(S)
<1>1. IsFiniteSet(S) /\ n \in Nat
  BY ItemsFinite, FS_Subset, FS_CardinalityType
<1>2. s \in [1..n -> S] /\ \A i, j \in 1..n : i # j => s[i] # s[j]
  BY DEF OldestFirst, SetToSeqs
<1>3. IsFiniteSet(1..n) /\ Cardinality(1..n) = n
  BY <1>1, FS_Interval
<1> HIDE DEF n
<1>4. s \in Injection(1..n, S)
  BY <1>2 DEF Injection, IsInjective
<1>5. s \in Surjection(1..n, S)
  BY <1>1, <1>3, <1>4, FS_Injection DEF n
<1> QED BY <1>2, <1>5 DEF Surjection, ToSet

First(s, k) == {s[i] : i \in 1..k}

LEMMA FirstFacts ==
  ASSUME NEW s \in Seq(Items), NEW k \in 0..Len(s)
  PROVE  ToSet(SubSeq(s, 1, k)) = First(s, k) /\ First(s, k) \subseteq ToSet(s)
<1>1. /\ DOMAIN s = 1..Len(s) /\ Len(s) \in Nat
      /\ DOMAIN SubSeq(s, 1, k) = 1..k /\ \A i \in 1..k : SubSeq(s, 1, k)[i] = s[i]
  OBVIOUS
<1>2. 1..k \subseteq 1..Len(s)
  BY <1>1
<1>3. ToSet(SubSeq(s, 1, k)) = First(s, k)
  BY <1>1 DEF ToSet, First
<1>4. First(s, k) \subseteq ToSet(s)
  BY <1>1, <1>2 DEF ToSet, First
<1> QED BY <1>3, <1>4

LEMMA FirstAndLast ==
  ASSUME NEW s \in Seq(Items)
  PROVE  First(s, 0) = {} /\ First(s, Len(s)) = ToSet(s) /\ ToSet(s) \subseteq Items
<1>1. DOMAIN s = 1..Len(s) /\ 1..0 = {}
  OBVIOUS
<1> QED BY <1>1 DEF First, ToSet

TakenAt(s) == {k \in DOMAIN s : MaxBytes > 0 /\ BytesLeft(s, k) > MaxBytes}

LEMMA BytesLeftFacts ==
  ASSUME NEW s \in Seq(Items), NEW k \in 1..Len(s)
  PROVE  /\ BytesLeft(s, k) = Total(ToSet(s) \ First(s, k - 1))
         /\ BytesLeft(s, k) \in Nat
         /\ \A j \in 1..k : BytesLeft(s, k) <= BytesLeft(s, j)
<1> DEFINE Left(j) == ToSet(s) \ First(s, j - 1)
<1>1. ToSet(s) \subseteq Items
  BY FirstAndLast
<1>2. ASSUME NEW j \in 1..k
      PROVE  BytesLeft(s, j) = Total(Left(j)) /\ Total(Left(j)) \in Nat
  <2>1. j - 1 \in 0..Len(s)
    OBVIOUS
  <2>2. ToSet(SubSeq(s, 1, j - 1)) = First(s, j - 1) /\ First(s, j - 1) \subseteq ToSet(s)
    BY <2>1, FirstFacts
  <2>3. Left(j) \subseteq ToSet(s)
    OBVIOUS
  <2> QED BY <1>1, <2>2, <2>3, TotalFacts DEF BytesLeft
<1>3. ASSUME NEW j \in 1..k
      PROVE  Total(Left(k)) <= Total(Left(j))
  <2>1. First(s, j - 1) \subseteq First(s, k - 1)
    BY 1..(j - 1) \subseteq 1..(k - 1) DEF First
  <2>2. Left(k) \subseteq Left(j) /\ Left(j) \subseteq Items
    BY <1>1, <2>1
  <2> HIDE DEF Left
  <2> QED BY <2>2, TotalFacts
<1>4. k \in 1..k
  OBVIOUS
<1>5. BytesLeft(s, k) = Total(Left(k)) /\ Total(Left(k)) \in Nat
  BY <1>2, <1>4
<1>6. \A j \in 1..k : BytesLeft(s, k) <= BytesLeft(s, j)
  <2> SUFFICES ASSUME NEW j \in 1..k PROVE BytesLeft(s, k) <= BytesLeft(s, j)
    OBVIOUS
  <2>1. BytesLeft(s, j) = Total(Left(j))
    BY <1>2
  <2>2. Total(Left(k)) <= Total(Left(j))
    BY <1>3
  <2> HIDE DEF Left
  <2> QED BY <1>5, <2>1, <2>2
<1> QED BY <1>5, <1>6

LEMMA TakenIsPrefix ==
  ASSUME NEW s \in Seq(Items)
  PROVE  LET n == Cardinality(TakenAt(s))
         IN  /\ n \in 0..Len(s)
             /\ n > 0 => n \in TakenAt(s)
             /\ n < Len(s) => n + 1 \notin TakenAt(s)
<1> DEFINE K == TakenAt(s)
           n == Cardinality(K)
<1>1. DOMAIN s = 1..Len(s) /\ Len(s) \in Nat
  OBVIOUS
<1>2. K \subseteq 1..Len(s)
  BY <1>1 DEF TakenAt
<1>3. IsFiniteSet(1..Len(s)) /\ Cardinality(1..Len(s)) = Len(s)
  BY <1>1, FS_Interval
<1>4. IsFiniteSet(K) /\ n \in Nat /\ n <= Len(s)
  BY <1>2, <1>3, FS_Subset, FS_CardinalityType
<1>5. \A k \in K : 1..k \subseteq K
  <2> SUFFICES ASSUME NEW k \in K, NEW j \in 1..k PROVE j \in K
    OBVIOUS
  <2>1. k \in 1..Len(s) /\ j \in 1..Len(s) /\ MaxBytes > 0 /\ BytesLeft(s, k) > MaxBytes
    BY <1>1, <1>2 DEF TakenAt
  <2>2. BytesLeft(s, k) <= BytesLeft(s, j) /\ BytesLeft(s, k) \in Nat /\ BytesLeft(s, j) \in Nat
    BY <2>1, BytesLeftFacts
  <2> QED BY <1>1, <2>1, <2>2, PruneAssumption DEF TakenAt
<1>6. ASSUME n > 0, n \notin K
      PROVE  FALSE
  <2>1. \A k \in K : k \in 1..(n - 1)
    <3> SUFFICES ASSUME NEW k \in K, k >= n PROVE FALSE
      BY <1>2, <1>4, <1>6
    <3>1. n \in 1..k
      BY <1>2, <1>4, <1>6
    <3> QED BY <1>5, <1>6, <3>1
  <2>2. IsFiniteSet(1..(n - 1)) /\ Cardinality(1..(n - 1)) = n - 1
    <3>1. n - 1 \in Int /\ 1 \in Int /\ n >= 1
      BY <1>4, <1>6
    <3> HIDE DEF n
    <3>2. IsFiniteSet(1..(n - 1)) /\ Cardinality(1..(n - 1)) = IF 1 > n - 1 THEN 0 ELSE (n - 1) - 1 + 1
      BY <3>1, FS_Interval
    <3> QED BY <1>4, <3>1, <3>2
  <2>3. Cardinality(K) <= n - 1
    BY <2>1, <2>2, FS_Subset
  <2> QED BY <1>4, <2>3
<1>7. ASSUME n + 1 \in K
      PROVE  FALSE
  <2>1. 1..(n + 1) \subseteq K
    BY <1>5, <1>7
  <2>2. Cardinality(1..(n + 1)) = n + 1
    BY <1>4, FS_Interval
  <2>3. Cardinality(1..(n + 1)) <= Cardinality(K)
    BY <1>4, <2>1, FS_Subset
  <2> QED BY <1>4, <2>2, <2>3
<1> QED BY <1>4, <1>6, <1>7

LEMMA PlanPolicy ==
  ASSUME TypeOK, NEW p \in Pruners, Plan(p)
  PROVE  PolicyOK(p)
<1> DEFINE C == Candidates(p)
           old == Expired(p)
<1>1. PICK s \in OldestFirst(old), rest \in OldestFirst(C \ old) :
             PlanAs(p, s \o OverCap(rest))
  BY DEF Plan
<1>2. C \subseteq Items /\ old \subseteq C
  BY DEF Candidates, Expired, TreesOf, Loose, OnDisk, Items
<1>3. /\ s \in Seq(Items) /\ ToSet(s) = old
      /\ rest \in Seq(Items) /\ ToSet(rest) = C \ old
  BY <1>2, OrderingType, OrderingCovers, old \subseteq Items, C \ old \subseteq Items
<1> DEFINE n == Cardinality(TakenAt(rest))
           kept == C \ (old \cup First(rest, n))
<1>4. /\ n \in 0..Len(rest) /\ Len(rest) \in Nat
      /\ n > 0 => n \in TakenAt(rest)
      /\ n < Len(rest) => n + 1 \notin TakenAt(rest)
  BY <1>3, TakenIsPrefix
<1>5. OverCap(rest) = SubSeq(rest, 1, n)
  BY DEF OverCap, TakenAt
<1> HIDE DEF n
<1>6. /\ ToSet(OverCap(rest)) = First(rest, n) /\ First(rest, n) \subseteq C \ old
      /\ OverCap(rest) \in Seq(Items)
  BY <1>3, <1>4, <1>5, FirstFacts, OverCapType
<1>7. pruner'[p].planned = old \cup First(rest, n)
  <2> DEFINE taken == OverCap(rest)
  <2>1. ToSet(s \o taken) = ToSet(s) \cup ToSet(taken)
    <3> HIDE DEF taken
    <3>1. taken \in Seq(Items)
      BY <1>6 DEF taken
    <3>2. \A i \in DOMAIN (s \o taken) :
            \/ i \in DOMAIN s /\ (s \o taken)[i] = s[i]
            \/ i - Len(s) \in DOMAIN taken /\ (s \o taken)[i] = taken[i - Len(s)]
      BY <1>3, <3>1
    <3>3. /\ \A i \in DOMAIN s : i \in DOMAIN (s \o taken) /\ (s \o taken)[i] = s[i]
          /\ \A i \in DOMAIN taken : i + Len(s) \in DOMAIN (s \o taken)
                                     /\ (s \o taken)[i + Len(s)] = taken[i]
      BY <1>3, <3>1
    <3>4. ToSet(s \o taken) \subseteq ToSet(s) \cup ToSet(taken)
      BY <3>2 DEF ToSet
    <3>5. ToSet(s) \subseteq ToSet(s \o taken)
      BY <3>3 DEF ToSet
    <3>6. ToSet(taken) \subseteq ToSet(s \o taken)
      BY <3>3 DEF ToSet
    <3> QED BY <3>4, <3>5, <3>6
  <2>2. pruner[p] \in PrunerState /\ p \in DOMAIN pruner
    BY DEF TypeOK
  <2>3. pruner'[p].planned = ToSet(s \o taken)
    BY <1>1, <2>2 DEF PlanAs, Becomes, PrunerState
  <2> QED BY <1>3, <1>6, <2>1, <2>3
<1>8. /\ kept = ToSet(rest) \ First(rest, n) /\ kept \subseteq Items
      /\ \A y \in kept : \E j \in 1..Len(rest) : j > n /\ y = rest[j]
  <2>1. kept = ToSet(rest) \ First(rest, n)
    BY <1>3
  <2>2. ASSUME NEW y \in kept PROVE \E j \in 1..Len(rest) : j > n /\ y = rest[j]
    <3>1. PICK j \in 1..Len(rest) : y = rest[j]
      BY <1>3, <2>1 DEF ToSet
    <3>2. ~(j <= n)
      BY <1>4, <2>1, <3>1 DEF First
    <3> QED BY <1>4, <3>1, <3>2
  <2> QED BY <1>2, <2>1, <2>2
<1>9. /\ \A i \in Items : SortKey(i) \in Int
      /\ \A i, j \in 1..Len(rest) : i < j => SortKey(rest[i]) <= SortKey(rest[j])
      /\ \A i \in 1..Len(rest) : rest[i] \in Items
  <2>1. \A i \in Items : SortKey(i) \in Int
    BY DEF SortKey, Items, TypeOK, DirState, Ages
  <2>2. DOMAIN rest = 1..Len(rest)
    BY <1>3
  <2>3. \A i, j \in DOMAIN rest : i < j => SortKey(rest[i]) <= SortKey(rest[j])
    BY DEF OldestFirst
  <2> QED BY <1>3, <2>1, <2>2, <2>3
<1>10. \A x \in First(rest, n), y \in kept : SortKey(x) <= SortKey(y)
  <2> SUFFICES ASSUME NEW x \in First(rest, n), NEW y \in kept
               PROVE  SortKey(x) <= SortKey(y)
    OBVIOUS
  <2>1. PICK i \in 1..n : x = rest[i]
    BY DEF First
  <2>2. PICK j \in 1..Len(rest) : j > n /\ y = rest[j]
    BY <1>8
  <2>3. i \in 1..Len(rest) /\ i < j
    BY <1>4, <2>2
  <2> QED BY <1>9, <2>1, <2>2, <2>3
<1>11. MaxBytes = 0 => First(rest, n) = {}
  <2>1. MaxBytes = 0 => n = 0
    BY <1>4 DEF TakenAt
  <2> QED BY <1>3, <2>1, FirstAndLast
<1>12. MaxBytes > 0 => Total(kept) <= MaxBytes
  <2>1. CASE n < Len(rest)
    <3>1. n + 1 \in 1..Len(rest) /\ (n + 1) - 1 = n /\ DOMAIN rest = 1..Len(rest)
      BY <1>3, <1>4, <2>1
    <3>2. BytesLeft(rest, n + 1) = Total(kept) /\ BytesLeft(rest, n + 1) \in Nat
      BY <1>3, <1>8, <3>1, BytesLeftFacts
    <3> QED BY <1>4, <2>1, <3>1, <3>2, PruneAssumption DEF TakenAt
  <2>2. CASE n = Len(rest)
    <3>1. kept = {}
      BY <1>3, <1>8, <2>2, FirstAndLast
    <3> QED BY <3>1, TotalFacts, {} \subseteq Items, PruneAssumption
  <2> QED BY <1>4, <2>1, <2>2
<1>13. First(rest, n) # {} =>
         \E x \in First(rest, n) : /\ \A y \in First(rest, n) : SortKey(y) <= SortKey(x)
                                   /\ Total(kept \cup {x}) > MaxBytes
  <2> SUFFICES ASSUME First(rest, n) # {}
               PROVE  \E x \in First(rest, n) :
                        /\ \A y \in First(rest, n) : SortKey(y) <= SortKey(x)
                        /\ Total(kept \cup {x}) > MaxBytes
    OBVIOUS
  <2>1. n \in 1..Len(rest) /\ n - 1 \in 0..Len(rest) /\ n \in TakenAt(rest)
    BY <1>4 DEF First
  <2> DEFINE x == rest[n]
  <2>2. x \in First(rest, n) /\ x \in Items
    BY <1>9, <2>1 DEF First
  <2>3. \A y \in First(rest, n) : SortKey(y) <= SortKey(x)
    <3> SUFFICES ASSUME NEW i \in 1..n PROVE SortKey(rest[i]) <= SortKey(rest[n])
      BY DEF First
    <3>1. CASE i = n
      BY <1>9, <2>1, <3>1
    <3>2. CASE i < n
      BY <1>9, <2>1, <3>2
    <3> QED BY <2>1, <3>1, <3>2
  <2>4. Total(ToSet(rest) \ First(rest, n - 1)) > MaxBytes
    BY <1>3, <2>1, BytesLeftFacts DEF TakenAt
  <2>5. ToSet(rest) \ First(rest, n - 1) \subseteq kept \cup {x}
    <3>1. First(rest, n) \subseteq First(rest, n - 1) \cup {x}
      <4>1. 1..n \subseteq 1..(n - 1) \cup {n}
        BY <2>1
      <4> QED BY <4>1 DEF First
    <3> QED BY <1>8, <3>1
  <2>6. kept \cup {x} \subseteq Items
    BY <1>8, <2>2
  <2> HIDE DEF x, kept
  <2>7. Total(kept \cup {x}) > MaxBytes
    <3> DEFINE S == kept \cup {x}
               T == ToSet(rest) \ First(rest, n - 1)
    <3>1. Total(T) <= Total(S) /\ Total(T) \in Nat /\ Total(S) \in Nat
      BY <2>5, <2>6, TotalFacts
    <3> QED BY <2>4, <3>1, PruneAssumption
  <2> QED BY <2>2, <2>3, <2>7
<1> DEFINE chosen == pruner'[p].planned
           extra == chosen \ old
<1>14. extra = First(rest, n) /\ C \ chosen = kept /\ old \subseteq chosen /\ chosen \subseteq C
  BY <1>2, <1>6, <1>7
<1> HIDE DEF kept, C, old
<1> QED BY <1>10, <1>11, <1>12, <1>13, <1>14 DEF PolicyOK, C, old

(* Every plan takes what is past the horizon and, of the rest, the oldest  *)
(* and no more of them than bring it under the cap.                        *)
THEOREM PlansMeetThePolicy == Spec => PlanMeetsPolicy
<1>1. TypeOK => [\A p \in Pruners : Plan(p) => PolicyOK(p)]_vars
  BY PlanPolicy
<1> QED BY <1>1, PrunerTypes, PTL DEF PlanMeetsPolicy
-----------------------------------------------------------------------------
(* Exit codes.  Until a run under way has recorded a failure, each child   *)
(* it planned to remove is still on its list, or in its hands, or damaged; *)
(* what a run has once damaged is never whole again.                       *)
Planning == {"start", "flock", "plan"}
Applying == {"reread", "loop", "delete", "rmtree"}

InHand(s, d) == d \in ToSet(s.todo) \/ (s.pc = "delete" /\ s.item = d)
Truthful(p) ==
  LET s == pruner[p]
      whole == {d \in s.planned \cap Subdirs : dir[d].body = "whole"}
  IN s.delete =>
       /\ s.pc # "done" => s.exit = "none"
       /\ s.pc \in Applying /\ ~s.failed => \A d \in whole : InHand(s, d)
       /\ s.exit = "ok" => whole = {}
TruthInv == \A p \in Pruners : Truthful(p)

LEMMA InitTruth == Init => TruthInv
<1> SUFFICES ASSUME Init, NEW p \in Pruners PROVE Truthful(p)
  BY DEF TruthInv
<1>1. pruner[p].pc = "start" /\ pruner[p].exit = "none"
  BY DEF Init
<1> QED BY <1>1 DEF Truthful, Applying

LEMMA NeverWholeAgain ==
  ASSUME TypeOK, [Next]_vars, NEW d \in Subdirs, dir'[d].body = "whole"
  PROVE  dir[d].body = "whole"
<1> USE DEF world, lockVars
<1>1. ASSUME NEW p \in Pruners, DeleteFile(p) \/ RmtreeBegin(p) \/ RmtreeEnd(p)
      PROVE  dir[d].body = "whole"
  BY <1>1 DEF DeleteFile, RmtreeBegin, RmtreeEnd, TypeOK, DirState
<1>2. ASSUME NEW e \in Subdirs, Claim(e) \/ Release(e)
      PROVE  dir[d].body = "whole"
  BY <1>2 DEF Claim, Release, TypeOK, DirState
<1> QED BY <1>1, <1>2 DEF Next, vars, Open, Flock, Plan, Reread, Check, DeleteLock,
           DeleteFails, Finish, Kill, ChangePlugins

(* What is damaged may be crossed off. *)
LEMMA CrossOff ==
  ASSUME TypeOK, [Next]_vars, NEW p \in Pruners, Truthful(p),
         pruner'[p].planned = pruner[p].planned, pruner'[p].delete = pruner[p].delete,
         pruner'[p].exit = pruner[p].exit, pruner'[p].pc # "done" => pruner[p].pc # "done",
         pruner'[p].pc \in Applying /\ ~pruner'[p].failed =>
           /\ pruner[p].pc \in Applying /\ ~pruner[p].failed
           /\ \A d \in Subdirs : InHand(pruner[p], d) /\ dir'[d].body = "whole"
                => InHand(pruner'[p], d)
  PROVE  Truthful(p)'
<1>1. \A d \in Subdirs : dir'[d].body = "whole" => dir[d].body = "whole"
  BY NeverWholeAgain
<1> QED BY <1>1 DEF Truthful

LEMMA DeletionTruth ==
  ASSUME TypeOK, TruthInv, [Next]_vars, NEW p \in Pruners,
         DeleteLock(p) \/ DeleteFile(p) \/ RmtreeBegin(p) \/ RmtreeEnd(p) \/ DeleteFails(p)
  PROVE  Truthful(p)'
<1> DEFINE s == pruner[p]
           t == [s EXCEPT !.pc = "loop"]
           u == [s EXCEPT !.pc = "rmtree"]
           v == [s EXCEPT !.pc = "loop", !.failed = TRUE]
<1>1. s \in PrunerState /\ dir \in [Subdirs -> DirState] /\ Truthful(p)
  BY DEF TypeOK, TruthInv
<1>2. /\ s.pc \in {"delete", "rmtree"}
      /\ \/ Becomes(p, t) /\ \A d \in Subdirs : s.pc = "delete" /\ d = s.item => dir'[d].body # "whole"
         \/ Becomes(p, u) /\ \A d \in Subdirs : s.pc = "delete" /\ d = s.item => dir'[d].body # "whole"
         \/ Becomes(p, v)
  BY <1>1, PruneAssumption DEF DeleteLock, DeleteFile, RmtreeBegin, RmtreeEnd, DeleteFails,
     Deleted, Failed, DirState
<1> HIDE DEF s
<1>3. /\ t \in PrunerState /\ t.pc = "loop" /\ t.failed = s.failed /\ t.todo = s.todo
      /\ t.planned = s.planned /\ t.delete = s.delete /\ t.exit = s.exit
  BY <1>1 DEF PrunerState
<1>4. /\ u \in PrunerState /\ u.pc = "rmtree" /\ u.failed = s.failed /\ u.todo = s.todo
      /\ u.planned = s.planned /\ u.delete = s.delete /\ u.exit = s.exit
  BY <1>1 DEF PrunerState
<1>5. /\ v \in PrunerState /\ v.pc = "loop" /\ v.failed
      /\ v.planned = s.planned /\ v.delete = s.delete /\ v.exit = s.exit
  BY <1>1 DEF PrunerState
<1> HIDE DEF t, u, v
<1>6. pruner'[p] \in {t, u, v}
  BY <1>2, <1>3, <1>4, <1>5, RunUpdate
<1>7. /\ pruner'[p].planned = pruner[p].planned /\ pruner'[p].delete = pruner[p].delete
      /\ pruner'[p].exit = pruner[p].exit /\ pruner[p].pc # "done" /\ pruner[p].pc \in Applying
  BY <1>2, <1>3, <1>4, <1>5, <1>6 DEF s, Applying
<1>8. CASE pruner'[p].failed
  BY <1>1, <1>7, <1>8, CrossOff
<1>9. CASE ~pruner'[p].failed
  <2>1. /\ pruner'[p] \in {t, u} /\ pruner'[p].todo = pruner[p].todo /\ ~pruner[p].failed
        /\ \A d \in Subdirs : pruner[p].pc = "delete" /\ d = pruner[p].item => dir'[d].body # "whole"
    BY <1>2, <1>3, <1>4, <1>5, <1>6, <1>9, RunUpdate DEF s
  <2>2. \A d \in Subdirs : InHand(pruner[p], d) /\ dir'[d].body = "whole" => InHand(pruner'[p], d)
    BY <2>1 DEF InHand
  <2> QED BY <1>1, <1>7, <2>1, <2>2, CrossOff
<1> QED BY <1>8, <1>9

LEMMA OwnTruth ==
  ASSUME TypeOK, TruthInv, [Next]_vars, NEW p \in Pruners,
         Open(p) \/ Flock(p) \/ Plan(p) \/ Reread(p) \/ Check(p) \/ Finish(p) \/ Kill(p)
  PROVE  Truthful(p)'
<1> DEFINE s == pruner[p]
<1>1. s \in PrunerState /\ Truthful(p)
  BY DEF TypeOK, TruthInv
<1> HIDE DEF s
<1>2. CASE Open(p)
  <2> DEFINE t == [s EXCEPT !.pc = "flock", !.ino = lockIno']
  <2>1. Becomes(p, t) /\ s.pc = "start" /\ lockIno' \in Nat
    BY <1>2 DEF Open, TypeOK, lockVars, s
  <2>2. t \in PrunerState /\ t.pc = "flock" /\ t.exit = s.exit /\ t.delete = s.delete
    BY <1>1, <2>1 DEF PrunerState
  <2> HIDE DEF t
  <2> QED BY <1>1, <2>1, <2>2, RunUpdate DEF Truthful, Applying, s
<1>3. CASE Flock(p)
  <2> DEFINE t == [s EXCEPT !.pc = "plan"]
  <2>1. Becomes(p, t) /\ s.pc = "flock"
    BY <1>3 DEF Flock, s
  <2>2. t \in PrunerState /\ t.pc = "plan" /\ t.exit = s.exit /\ t.delete = s.delete
    BY <1>1 DEF PrunerState
  <2> HIDE DEF t
  <2> QED BY <1>1, <2>1, <2>2, RunUpdate DEF Truthful, Applying, s
<1>4. CASE Plan(p)
  <2>1. /\ pruner'[p].delete = s.delete
        /\ s.delete => pruner'[p].exit = "none" /\ ToSet(pruner'[p].todo) = pruner'[p].planned
    BY <1>4, PlanFacts DEF s
  <2> QED BY <2>1 DEF Truthful, InHand
<1>5. CASE Reread(p)
  <2>1. /\ pruner'[p].planned = s.planned /\ pruner'[p].todo = s.todo
        /\ pruner'[p].delete = s.delete /\ pruner'[p].exit = s.exit
        /\ pruner'[p].failed = s.failed /\ s.pc = "reread"
    BY <1>5, RereadFacts DEF s
  <2>2. \A d \in Subdirs : InHand(s, d) => InHand(pruner'[p], d)
    BY <2>1 DEF InHand
  <2> QED BY <1>1, <2>1, <2>2, CrossOff DEF Applying, s
<1>6. CASE Check(p)
  <2>1. /\ pruner'[p].planned = s.planned /\ pruner'[p].delete = s.delete
        /\ pruner'[p].exit = s.exit /\ s.pc = "loop"
        /\ ~pruner'[p].failed =>
             /\ ~s.failed /\ pruner'[p].pc = "delete"
             /\ \A d \in ToSet(s.todo) : d \in ToSet(pruner'[p].todo) \/ d = pruner'[p].item
    BY <1>6, CheckFacts DEF s
  <2>2. ~pruner'[p].failed => \A d \in Subdirs : InHand(s, d) => InHand(pruner'[p], d)
    BY <2>1 DEF InHand
  <2> QED BY <1>1, <2>1, <2>2, CrossOff DEF Applying, s
<1>7. CASE Finish(p)
  <2> DEFINE e == IF s.failed THEN "failed" ELSE "ok"
             t == [s EXCEPT !.pc = "done", !.exit = e]
  <2>1. Becomes(p, t) /\ s.pc = "loop" /\ s.todo = <<>> /\ UNCHANGED dir
    BY <1>7 DEF Finish, s, world
  <2>2. e \in {"failed", "ok"} /\ (e = "ok" => ~s.failed)
    OBVIOUS
  <2> HIDE DEF e
  <2>3. /\ t \in PrunerState /\ t.pc = "done" /\ t.exit = e /\ t.delete = s.delete
        /\ t.planned = s.planned
    BY <1>1, <2>2 DEF PrunerState
  <2> HIDE DEF t
  <2>4. pruner'[p] = t
    BY <2>1, <2>3, RunUpdate
  <2>5. s.delete /\ e = "ok" => \A d \in s.planned \cap Subdirs : dir[d].body # "whole"
    BY <1>1, <2>1, <2>2 DEF Truthful, Applying, InHand, ToSet, s
  <2> QED BY <2>1, <2>2, <2>3, <2>4, <2>5 DEF Truthful, Applying
<1>8. CASE Kill(p)
  <2> DEFINE t == [s EXCEPT !.pc = "done", !.exit = "killed"]
  <2>1. Becomes(p, t)
    BY <1>8 DEF Kill, s
  <2>2. t \in PrunerState /\ t.pc = "done" /\ t.exit = "killed"
    BY <1>1 DEF PrunerState
  <2> HIDE DEF t
  <2> QED BY <2>1, <2>2, RunUpdate DEF Truthful, Applying
<1> QED BY <1>2, <1>3, <1>4, <1>5, <1>6, <1>7, <1>8

LEMMA TruthStep == ASSUME TypeOK, TruthInv, [Next]_vars PROVE TruthInv'
<1> SUFFICES ASSUME NEW q \in Pruners PROVE Truthful(q)'
  BY DEF TruthInv
<1>1. Truthful(q)
  BY DEF TruthInv
<1>2. ASSUME pruner'[q] = pruner[q] \/ Marked(pruner[q], pruner'[q])
      PROVE  Truthful(q)'
  BY <1>1, <1>2, CrossOff DEF Marked, InHand
<1>3. ASSUME NEW p \in Pruners, PlainStep(p) \/ Plan(p) \/ Reread(p) \/ Check(p)
      PROVE  Truthful(q)'
  <2>1. CASE q = p
    BY <1>3, <2>1, DeletionTruth, OwnTruth DEF PlainStep
  <2>2. CASE q # p
    BY <1>2, <1>3, <2>2, PlainStepFacts, PlanFacts, RereadFacts, CheckFacts
  <2> QED BY <2>1, <2>2
<1>4. CASE (\E d \in Subdirs : Claim(d) \/ Release(d)) \/ ChangePlugins
  BY <1>2, <1>4, GatewayFacts
<1>5. CASE UNCHANGED vars
  BY <1>2, <1>5 DEF vars
<1> QED BY <1>3, <1>4, <1>5, StepCases

(* Exit 0 after --delete means that nothing planned is left untouched: no  *)
(* refused tree and no failed deletion is reported as success.             *)
THEOREM ExitsTellTheTruth == Spec => []ExitTellsTruth
<1>1. TruthInv => ExitTellsTruth
  BY DEF TruthInv, Truthful, ExitTellsTruth
<1>2. IInv => TypeOK
  BY DEF IInv
<1> QED BY <1>1, <1>2, InitTruth, TruthStep, InvariantHolds, PTL DEF Spec
-----------------------------------------------------------------------------
(* Exclusion.  As long as no run is both capture-aware and deleting, the   *)
(* lock file is in no plan that is carried out; whoever is under way has   *)
(* the inode at the lock file's path, so that flock excludes.              *)
Quiet == \A p \in Pruners : pruner[p].aware = "on" => ~pruner[p].delete
UnderWay(p) == pruner[p].pc \notin {"start", "done"}

DeletingRun == \A p \in Pruners :
  /\ pruner[p].pc \in {"reread", "loop", "delete", "rmtree"} => pruner[p].delete
  /\ pruner[p].pc = "delete" => pruner[p].item \in pruner[p].planned

SameLock ==
  /\ \A p \in Pruners : UnderWay(p) => pruner[p].ino = lockIno /\ lockIno # 0
  /\ \A p \in Pruners : pruner[p].delete => LockFile \notin pruner[p].planned
  /\ \A p, q \in Pruners : Locked(p) /\ Locked(q) => p = q

ExclInv == TypeOK /\ DeletingRun /\ (Quiet => SameLock)

LEMMA ExclInit == Init => ExclInv
<1> SUFFICES ASSUME Init PROVE ExclInv  OBVIOUS
<1>1. TypeOK
  BY InitInv DEF IInv
<1>2. \A p \in Pruners : pruner[p].pc = "start" /\ pruner[p].planned = {}
  BY DEF Init
<1> QED BY <1>1, <1>2 DEF ExclInv, DeletingRun, SameLock, UnderWay, Locked

LEMMA DeletingStep == ASSUME ExclInv, [Next]_vars PROVE DeletingRun'
<1>1. TypeOK /\ TypeOK' /\ DeletingRun
  BY TypeStep DEF ExclInv
<1>2. ASSUME NEW p \in Pruners, PlainStep(p) \/ Plan(p) \/ Reread(p)
      PROVE  DeletingRun'
  <2>1. CASE PlainStep(p)
    BY <1>1, <2>1, PlainStepFacts DEF DeletingRun, SameRun
  <2>2. CASE Plan(p)
    BY <1>1, <2>2, PlanFacts DEF DeletingRun
  <2>3. CASE Reread(p)
    BY <1>1, <2>3, RereadFacts DEF DeletingRun
  <2> QED BY <1>2, <2>1, <2>2, <2>3
<1>3. ASSUME NEW p \in Pruners, Check(p)
      PROVE  DeletingRun'
  BY <1>1, <1>3, CheckFacts DEF DeletingRun, TypeOK
<1>4. CASE (\E d \in Subdirs : Claim(d) \/ Release(d)) \/ ChangePlugins
  BY <1>1, <1>4, GatewayFacts DEF DeletingRun, Marked
<1>5. CASE UNCHANGED vars
  BY <1>1, <1>5 DEF DeletingRun, vars
<1> QED BY <1>2, <1>3, <1>4, <1>5, StepCases

(* Being quiet is not regained: what a run asked for stays asked for.      *)
LEMMA QuietBefore == ASSUME TypeOK, [Next]_vars, Quiet' PROVE Quiet
<1>1. ASSUME NEW p \in Pruners, Plan(p)
      PROVE  Quiet
  BY <1>1, PlanFacts DEF Quiet, Aware
<1>2. ASSUME NEW p \in Pruners, PlainStep(p) \/ Reread(p) \/ Check(p)
      PROVE  Quiet
  BY <1>2, PlainStepFacts, RereadFacts, CheckFacts DEF Quiet, SameRun
<1>3. CASE (\E d \in Subdirs : Claim(d) \/ Release(d)) \/ ChangePlugins
  BY <1>3, GatewayFacts DEF Quiet, Marked
<1>4. CASE UNCHANGED vars
  BY <1>4 DEF Quiet, vars
<1> QED BY <1>1, <1>2, <1>3, <1>4, StepCases

LEMMA SameLockStep == ASSUME ExclInv, [Next]_vars, Quiet' PROVE SameLock'
<1>1. TypeOK /\ TypeOK' /\ DeletingRun /\ Quiet /\ SameLock
  BY TypeStep, QuietBefore DEF ExclInv
<1> USE DEF lockVars
<1>2. ASSUME NEW p \in Pruners, Open(p)
      PROVE  SameLock'
  <2>1. /\ pruner[p].pc = "start" /\ pruner'[p].pc = "flock" /\ pruner'[p].ino = lockIno'
        /\ lockIno' # 0 /\ (lockIno # 0 => lockIno' = lockIno)
    <3>1. lockIno' # 0 /\ (lockIno # 0 => lockIno' = lockIno)
      BY <1>1, <1>2 DEF Open, TypeOK
    <3>2. pruner[p] \in PrunerState
      BY <1>1 DEF TypeOK
    <3> QED BY <1>1, <1>2, <3>1, <3>2 DEF Open, Becomes, TypeOK, PrunerState
  <2>2. SameRun(pruner[p], pruner'[p]) /\ \A q \in Pruners \ {p} : pruner'[q] = pruner[q]
    BY <1>1, <1>2, PlainStepFacts DEF PlainStep
  <2> QED BY <1>1, <2>1, <2>2 DEF SameLock, UnderWay, Locked, SameRun
<1>3. ASSUME NEW p \in Pruners, Flock(p)
      PROVE  SameLock'
  <2>1. \A q \in Pruners : Locked(q) => q = p
    BY <1>1, <1>3 DEF Flock, SameLock, UnderWay, Locked
  <2>2. SameRun(pruner[p], pruner'[p]) /\ \A q \in Pruners \ {p} : pruner'[q] = pruner[q]
    BY <1>1, <1>3, PlainStepFacts DEF PlainStep
  <2>3. lockIno' = lockIno /\ pruner[p].pc = "flock"
    BY <1>3 DEF Flock
  <2> QED BY <1>1, <2>1, <2>2, <2>3 DEF SameLock, UnderWay, Locked, SameRun
<1>4. ASSUME NEW p \in Pruners, DeleteLock(p)
      PROVE  FALSE
  BY <1>1, <1>4 DEF DeleteLock, DeletingRun, SameLock
<1>5. ASSUME NEW p \in Pruners,
             \/ DeleteFile(p) \/ RmtreeBegin(p) \/ RmtreeEnd(p) \/ DeleteFails(p)
             \/ Finish(p) \/ Kill(p)
      PROVE  SameLock'
  <2>1. SameRun(pruner[p], pruner'[p]) /\ \A q \in Pruners \ {p} : pruner'[q] = pruner[q]
    BY <1>1, <1>5, PlainStepFacts DEF PlainStep
  <2>2. /\ lockIno' = lockIno /\ pruner[p].pc \notin {"start", "done"}
        /\ pruner'[p].pc \in {"loop", "rmtree", "done"}
    <3>1. pruner[p] \in PrunerState
      BY <1>1 DEF TypeOK
    <3>2. CASE DeleteFile(p) \/ RmtreeBegin(p) \/ RmtreeEnd(p) \/ DeleteFails(p) \/ Finish(p)
      <4>1. lockIno' = lockIno /\ pruner[p].pc \in {"loop", "delete", "rmtree"}
        BY <3>2 DEF DeleteFile, RmtreeBegin, RmtreeEnd, DeleteFails, Finish
      <4>2. pruner'[p] \in PrunerState
        BY <1>1 DEF TypeOK
      <4> QED BY <2>1, <4>1, <4>2 DEF SameRun, PrunerState
    <3>3. CASE Kill(p)
      <4>1. lockIno' = lockIno /\ pruner[p].pc \notin {"start", "done"}
        BY <3>3 DEF Kill
      <4>2. pruner'[p] = [pruner[p] EXCEPT !.pc = "done", !.exit = "killed"]
        BY <1>1, <3>3 DEF Kill, Becomes, TypeOK
      <4> QED BY <3>1, <4>1, <4>2 DEF PrunerState
    <3> QED BY <1>5, <3>2, <3>3
  <2> QED BY <1>1, <2>1, <2>2 DEF SameLock, UnderWay, Locked, SameRun
<1>6. ASSUME NEW p \in Pruners, Plan(p) \/ Reread(p) \/ Check(p)
      PROVE  SameLock'
  <2>1. lockIno' = lockIno /\ Locked(p)
    BY <1>6 DEF Plan, Reread, Check, Locked
  <2>2. /\ pruner'[p].ino = pruner[p].ino /\ pruner'[p].delete = pruner[p].delete
        /\ \A q \in Pruners \ {p} : pruner'[q] = pruner[q]
        /\ pruner'[p].delete => LockFile \notin pruner'[p].planned
    <3>1. CASE Plan(p)
      BY <1>1, <3>1, PlanFacts DEF Quiet
    <3>2. CASE Reread(p) \/ Check(p)
      BY <1>1, <3>2, RereadFacts, CheckFacts DEF SameLock
    <3> QED BY <1>6, <3>1, <3>2
  <2> QED BY <1>1, <2>1, <2>2 DEF SameLock, UnderWay, Locked
<1>7. CASE (\E d \in Subdirs : Claim(d) \/ Release(d)) \/ ChangePlugins
  <2>1. lockIno' = lockIno
    BY <1>7 DEF Claim, Release, ChangePlugins
  <2> QED BY <1>1, <1>7, <2>1, GatewayFacts DEF SameLock, UnderWay, Locked, Marked
<1>8. CASE UNCHANGED vars
  BY <1>1, <1>8 DEF SameLock, UnderWay, Locked, vars
<1> QED BY <1>2, <1>3, <1>4, <1>5, <1>6, <1>7, <1>8, StepCases DEF PlainStep

(* Runs that leave captures and the lock file alone exclude one another.   *)
THEOREM RunsExclude == Spec => []ExclusiveUnlessAware
<1>1. ExclInv /\ [Next]_vars => ExclInv'
  BY TypeStep, DeletingStep, SameLockStep DEF ExclInv
<1>2. ExclInv => ExclusiveUnlessAware
  BY DEF ExclInv, Quiet, SameLock, ExclusiveUnlessAware
<1> QED BY ExclInit, <1>1, <1>2, PTL DEF Spec
=============================================================================
