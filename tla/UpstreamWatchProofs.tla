------------------------ MODULE UpstreamWatchProofs -------------------------
(***************************************************************************)
(* The baseline of the upstream watch passes over no change silently.      *)
(***************************************************************************)
EXTENDS UpstreamWatchProps, SequenceTheorems, TLAPS

Turned(i, old, new) ==
  Blockers[i] \cap old.main # {} /\ Blockers[i] \cap new.main = {}

(* What a job knows of an item, as long as the state it started from is    *)
(* still the saved one: the item is as it was and nothing is reported, or  *)
(* what differs is.                                                        *)
Untouched(i) ==
  /\ run.state[i] = cache[i]
  /\ <<i, "changed">> \notin run.changes /\ <<i, "unblock">> \notin run.changes
Reported(i) ==
  /\ run.state[i] # cache[i] => <<i, "changed">> \in run.changes
  /\ <<i, "unblock">> \in run.changes <=> Turned(i, cache[i], run.state[i])
Left(i) == \E j \in DOMAIN run.todo : run.todo[j] = i

Known ==
  run.pc # "off" /\ ~run.dry /\ ~run.missed =>
    \A i \in Watched : cache[i] # None => IF Left(i) THEN Untouched(i) ELSE Reported(i)

(* The items left are distinct, and a job comes to its save without a      *)
(* comment only if it has nothing to report.                               *)
Distinct(todo) == \A j, k \in DOMAIN todo : todo[j] = todo[k] => j = k
Queue ==
  /\ Distinct(run.todo)
  /\ run.pc \in {"first", "later"} => run.todo # <<>>
  /\ run.pc \in {"notify", "save"} => run.todo = <<>>
  /\ run.pc = "save" /\ ~run.dry => run.posted \/ run.changes = {}

States == [Watched -> Sig \cup {None}]
Lines == Watched \X {"changed", "unblock"}
Types ==
  /\ upstream \in [Watched -> Sig]
  /\ cache \in States
  /\ run \in [pc : {"off", "first", "later", "notify", "save"}, dry : BOOLEAN,
              todo : Seq(Watched), main : SUBSET Marks, state : States,
              changes : SUBSET Lines, posted : BOOLEAN, missed : BOOLEAN]

IInv == Types /\ Queue /\ Known
-----------------------------------------------------------------------------
LEMMA OffType ==
  /\ NoState \in States
  /\ Off \in [pc : {"off", "first", "later", "notify", "save"}, dry : BOOLEAN,
              todo : Seq(Watched), main : SUBSET Marks, state : States,
              changes : SUBSET Lines, posted : BOOLEAN, missed : BOOLEAN]
<1>1. NoState \in States /\ <<>> \in Seq(Watched)
  BY DEF NoState, States
<1> QED BY <1>1 DEF Off

LEMMA OffSound ==
  ASSUME upstream' \in [Watched -> Sig], cache' \in States, run' = Off
  PROVE  IInv'
<1>1. Queue' /\ Known'
  BY DEF Off, Queue, Distinct, Known
<1> QED BY <1>1, OffType DEF IInv, Types

LEMMA InitSound == Init => IInv
<1> SUFFICES ASSUME Init PROVE IInv
  OBVIOUS
<1>1. Queue /\ Known
  BY DEF Init, Off, Queue, Distinct, Known
<1> QED BY <1>1, OffType DEF Init, IInv, Types

LEMMA StartSound == ASSUME IInv, NEW dry \in BOOLEAN, Start(dry) PROVE IInv'
<1>1. PICK missed \in BOOLEAN :
        run' = [Off EXCEPT !.pc = "first", !.dry = dry, !.todo = Items, !.missed = missed,
                           !.state = IF missed THEN NoState ELSE cache]
  BY DEF Start
<1>2. /\ run'.pc = "first" /\ run'.todo = Items /\ run'.changes = {}
      /\ ~run'.missed => run'.state = cache
      /\ UNCHANGED <<cache, upstream>>
  BY <1>1 DEF Start, Off
<1>3. Types'
  <2>1. (IF missed THEN NoState ELSE cache) \in States
    BY OffType DEF IInv, Types
  <2> QED BY <1>1, <1>2, <2>1, WatchAssumption DEF Off, IInv, Types
<1>4. Queue'
  BY <1>2, WatchAssumption DEF Queue, Distinct, IsInjective
<1>5. Known'
  <2> SUFFICES ASSUME ~run'.missed, NEW i \in Watched PROVE Left(i)' /\ Untouched(i)'
    BY DEF Known
  <2>1. Left(i)'
    BY <1>2 DEF Left, Watched, ToSet
  <2> QED BY <1>2, <2>1 DEF Untouched
<1> QED BY <1>3, <1>4, <1>5 DEF IInv

LEMMA TailEmpty ==
  ASSUME NEW S, NEW q \in Seq(S), q # <<>>
  PROVE  Len(q) > 1 <=> Tail(q) # <<>>
<1>1. Tail(q) \in Seq(S) /\ Len(Tail(q)) \in Nat /\ Len(q) = Len(Tail(q)) + 1
  BY EmptySeq
<1>2. Tail(q) = <<>> <=> Len(Tail(q)) = 0
  BY <1>1, EmptySeq
<1>3. Len(q) > 1 <=> Len(Tail(q)) # 0
  BY <1>1
<1> QED BY <1>1, <1>2, <1>3

LEMMA FetchFirstSound == ASSUME IInv, NEW i \in Watched, FetchFirst(i) PROVE IInv'
<1>1. upstream[i].main \in SUBSET Marks
  BY DEF IInv, Types, Sig
<1>2. Types'
  BY <1>1 DEF FetchFirst, IInv, Types
<1> QED BY <1>2 DEF FetchFirst, IInv, Types, Queue, Distinct, Known, Left, Untouched, Reported

LEMMA PostSound == ASSUME IInv, PostComment PROVE IInv'
  BY DEF PostComment, IInv, Types, Queue, Distinct, Known, Left, Untouched, Reported

LEMMA AbortSound == ASSUME IInv, Save \/ Abort PROVE IInv'
  BY OffSound DEF Save, Abort, IInv, Types

(* After Compare the item is no more among those left, and what was known  *)
(* of the others stands.                                                   *)
LEMMA CompareSound ==
  ASSUME IInv, NEW i \in Watched, NEW more \in BOOLEAN, Compare(i, more)
  PROVE  IInv'
<1> DEFINE new == [main |-> run.main, more |-> more]
<1>1. new \in Sig /\ run.todo # <<>> /\ run.todo[1] = i /\ run.todo \in Seq(Watched)
  BY DEF IInv, Types, Queue, Sig, Compare
<1>2. /\ run'.dry = run.dry /\ run'.missed = run.missed /\ run'.todo = Tail(run.todo)
      /\ run'.changes = run.changes \cup Report(i, run.state[i], new)
      /\ run'.state = Keep(i, new)
      /\ UNCHANGED <<cache, upstream>>
  BY DEF Compare, IInv, Types
<1>3. /\ Len(run.todo) > 1 => run'.pc = "first"
      /\ ~(Len(run.todo) > 1) => run'.pc = IF run'.changes = {} \/ run.dry THEN "save"
                                         ELSE "notify"
  BY DEF Compare, IInv, Types
<1> HIDE DEF new
<1>4. Types'
  <2>1. Keep(i, new) \in States
    BY <1>1 DEF Keep, States, IInv, Types
  <2>2. Report(i, run.state[i], new) \subseteq Lines
    BY DEF Report, Lines
  <2>3. Tail(run.todo) \in Seq(Watched)
    BY <1>1
  <2> QED BY <2>1, <2>2, <2>3 DEF new, Compare, IInv, Types
<1>5. \A k \in Watched : Left(k)' => Left(k) /\ k # i
  BY <1>1, <1>2 DEF Left, IInv, Queue, Distinct
<1>6. \A k \in Watched \ {i} : Left(k) => Left(k)'
  <2> SUFFICES ASSUME NEW k \in Watched \ {i}, NEW j \in DOMAIN run.todo, run.todo[j] = k
               PROVE  Left(k)'
    BY DEF Left
  <2>1. j \in 2..Len(run.todo)
    BY <1>1
  <2>2. j - 1 \in 1..Len(Tail(run.todo)) /\ Tail(run.todo)[j - 1] = k
    BY <1>1, <2>1
  <2> QED BY <1>2, <2>2 DEF Left
<1>7. Queue'
  <2>1. Distinct(run.todo)'
    BY <1>1, <1>2 DEF IInv, Queue, Distinct
  <2>2. Len(run.todo) > 1 <=> run'.todo # <<>>
    BY <1>1, <1>2, TailEmpty
  <2> QED BY <1>2, <1>3, <2>1, <2>2 DEF Queue
<1>8. Known'
  <2> SUFFICES ASSUME ~run.dry, ~run.missed, NEW k \in Watched, cache[k] # None
               PROVE  IF Left(k)' THEN Untouched(k)' ELSE Reported(k)'
    BY <1>2 DEF Known
  <2>1. IF Left(k) THEN Untouched(k) ELSE Reported(k)
    BY DEF IInv, Known, Compare
  <2>2. run'.state = [run.state EXCEPT ![i] = new] /\ run.state \in States
    BY <1>2 DEF Keep, IInv, Types
  <2>3. CASE k # i
    <3>1. run'.state[k] = run.state[k]
      BY <2>2, <2>3 DEF States
    <3>2. \A what : <<k, what>> \in run'.changes <=> <<k, what>> \in run.changes
      BY <1>2, <2>3 DEF Report
    <3> QED BY <1>2, <1>5, <1>6, <2>1, <2>3, <3>1, <3>2 DEF Untouched, Reported
  <2>4. CASE k = i
    <3>1. Left(i) /\ ~Left(i)'
      BY <1>1, <1>5 DEF Left
    <3>2. run'.state[i] = new /\ run.state[i] = cache[i]
      BY <2>1, <2>2, <2>4, <3>1 DEF States, Untouched
    <3>3. /\ <<i, "changed">> \in run'.changes <=> new # cache[i]
          /\ <<i, "unblock">> \in run'.changes <=> UnblockLine(i, cache[i], new)
      BY <1>2, <2>1, <2>4, <3>1, <3>2 DEF Report, Untouched
    <3> QED BY <1>2, <2>4, <3>1, <3>2, <3>3
            DEF Reported, UnblockLine, Unblocked, Turned
  <2> QED BY <2>3, <2>4
<1> QED BY <1>4, <1>7, <1>8 DEF IInv

LEMMA WorldSound == ASSUME IInv, Evict \/ \E i \in Watched : Move(i) PROVE IInv'
<1>1. CASE Evict
  BY <1>1, OffType DEF Evict, IInv, Types, Queue, Known, Left, NoState
<1>2. CASE \E i \in Watched : Move(i)
  <2> PICK i \in Watched : Move(i)
    BY <1>2
  <2>1. Shown[i] \subseteq Sig
    BY WatchAssumption
  <2> QED BY <2>1 DEF Move, IInv, Types, Queue, Known, Left, Untouched, Reported
<1> QED BY <1>1, <1>2

LEMMA NextSound == IInv /\ [Next]_vars => IInv'
<1> SUFFICES ASSUME IInv, [Next]_vars PROVE IInv'
  OBVIOUS
<1>1. CASE UNCHANGED vars
  BY <1>1 DEF vars, IInv, Types, Queue, Known, Left, Untouched, Reported
<1>2. ASSUME NEW i \in Watched, FetchLater(i) PROVE IInv'
  <2>1. upstream[i].more \in BOOLEAN
    BY DEF IInv, Types, Sig
  <2> QED BY <1>2, <2>1, CompareSound DEF FetchLater
<1> QED BY <1>1, <1>2, StartSound, FetchFirstSound, PostSound, AbortSound, WorldSound DEF Next

LEMMA Invariance == Spec => []IInv
  BY InitSound, NextSound, PTL DEF Spec
-----------------------------------------------------------------------------
(* The baseline that a job saves passes over no change that no comment     *)
(* told of, if its restore did not miss.                                   *)
THEOREM NothingIsPassedOver == Spec => NothingPassedOver
<1> DEFINE Honest == \A i \in Watched : cache[i] # None /\ cache'[i] # None /\ ~run.missed =>
                       /\ cache'[i] # cache[i] => Told(i, "changed")
                       /\ Told(i, "unblock") <=> /\ Blockers[i] \cap cache[i].main # {}
                                                 /\ Blockers[i] \cap cache'[i].main = {}
<1>1. IInv /\ [Next]_vars => [Honest]_cache
  <2> SUFFICES ASSUME IInv, [Next]_vars, cache' # cache PROVE Honest
    OBVIOUS
  <2>1. CASE Evict
    BY <2>1 DEF Evict, NoState
  <2>2. CASE Save
    <3> SUFFICES ASSUME NEW i \in Watched, cache[i] # None, ~run.missed
                 PROVE  /\ cache'[i] # cache[i] => Told(i, "changed")
                        /\ Told(i, "unblock") <=> Turned(i, cache[i], cache'[i])
      BY DEF Turned
    <3>1. cache' = run.state /\ run.todo = <<>> /\ (run.posted \/ run.changes = {})
      BY <2>2 DEF Save, IInv, Queue
    <3>2. Reported(i)
      BY <2>2, <3>1 DEF Save, IInv, Known, Left
    <3> QED BY <3>1, <3>2 DEF Reported, Told
  <2> QED BY <2>1, <2>2 DEF Next, vars, Start, FetchFirst, FetchLater, Compare, Move,
             PostComment, Abort
<1> QED BY <1>1, Invariance, PTL DEF Spec, NothingPassedOver
=============================================================================
