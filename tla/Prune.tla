------------------------------- MODULE Prune -------------------------------
(***************************************************************************)
(* The bounded-retention pruner, scripts/lib-prune-retention.py, run by a  *)
(* daily timer and by deploy.sh over ~/.openclaw/tmp/plugin-captures,      *)
(* while the gateway goes on claiming and releasing capture trees and its  *)
(* installed-plugin registry changes.                                      *)
(*                                                                         *)
(* Abstractions: the target directory has one child directory per member   *)
(* of Subdirs, each a capture instance or a plain directory holding one    *)
(* loose file, and the lock file.  Every lease token state that protects a *)
(* tree (present, symlinked, unreadable) is one: "live".  An mtime is one  *)
(* of three ages; a tree's files span from its oldest to its newest.       *)
(***************************************************************************)
EXTENDS Integers, FiniteSets, Sequences, SequencesExt

CONSTANTS
  Subdirs,     \* children of the target directory
  Heavy,       \* the children of two units of size, the others have one
  LockFile,    \* .prune-retention.lock, of size 0
  Pruners,     \* runs of the script, one each
  AwareFlags,  \* --capture-aware, --no-capture-aware or neither ("auto")
  MaxBytes     \* the size cap (--max-bytes); 0 means no cap

ASSUME PruneAssumption ==
  /\ IsFiniteSet(Subdirs) /\ Heavy \subseteq Subdirs /\ LockFile \notin Subdirs
  /\ AwareFlags \subseteq {"on", "off", "auto"}
  /\ MaxBytes \in Nat

VARIABLES
  dir,        \* each child: kind, lease, body and the ages of its files
  registry,   \* the installed-plugin registry of the gateway
  lockIno,    \* inode at the lock file's path; 0: no such file
  lockAge,    \* age of the lock file
  inodes,     \* inodes drawn so far
  pruner      \* each run: see PrunerState

vars == <<dir, registry, lockIno, lockAge, inodes, pruner>>
world == <<dir, registry>>
lockVars == <<lockIno, lockAge, inodes>>

Ages == 0..2         \* 2 is new, 0 the oldest
Horizon == 1         \* ages below are past --max-age-days
Registries == {"empty", "installed", "unknown"}
Items == Subdirs \cup {LockFile}

DirState == [kind : {"plain", "capture"}, lease : {"none", "live"},
             body : {"whole", "part", "gone"}, oldest : Ages, newest : Ages]
PrunerState ==
  [pc      : {"start", "flock", "plan", "reread", "loop", "delete", "rmtree", "done"},
   ino     : Nat,                      \* inode behind lock_fd
   aware   : {"on", "off", "auto"},  \* the flag, once planned what it came to
   delete  : BOOLEAN,                  \* --delete, otherwise dry-run
   planned : SUBSET Items,             \* the members of plan.to_delete
   trees   : SUBSET Subdirs,           \* planned as whole trees
   todo    : Seq(Items),               \* to_delete, what the loop has left
   item    : Items,                    \* the loop's p
   reg     : Registries,               \* registry_empty as last read
   exit    : {"none", "ok", "failed", "killed"},
   failed  : BOOLEAN,
   claimed : SUBSET Subdirs,           \* history: claimed since p was checked
   changed : BOOLEAN]                  \* history: registry changed since read
-----------------------------------------------------------------------------
(* Detection and classification.                                           *)
IsCapture(d) == dir[d].kind = "capture" /\ dir[d].body # "gone"

(* classify_capture_instance returns PRUNABLE *)
Prunable(d, reg) == dir[d].lease = "none" /\ reg = "empty"

(* effective_capture_aware *)
Aware(p) ==
  \/ pruner[p].aware = "on"
  \/ pruner[p].aware = "auto" /\ \E d \in Subdirs : IsCapture(d)

(* The candidates: prunable capture trees whole, every other file by       *)
(* itself.  Only the walk of a plain directory skips the lock file, so a   *)
(* capture-aware run takes it for a stray file of the target directory.    *)
OnDisk == {d \in Subdirs : dir[d].body # "gone"}
TreesOf(p) == IF Aware(p) THEN {d \in OnDisk : IsCapture(d) /\ Prunable(d, registry)} ELSE {}
LooseAll(p) ==
  {d \in OnDisk : ~Aware(p) \/ ~IsCapture(d)} \cup {LockFile}
Loose(p) ==
  {d \in OnDisk : ~Aware(p) \/ ~IsCapture(d)} \cup (IF Aware(p) THEN {LockFile} ELSE {})
Candidates(p) == TreesOf(p) \cup {i \in Loose(p) : i = LockFile => lockIno # 0}

(* Candidates are sorted by their oldest mtime; a tree is past the horizon *)
(* when its newest file is.                                                *)
SortKey(i) == IF i = LockFile THEN lockAge ELSE dir[i].oldest
AgeKey(p, i) ==
  IF i = LockFile THEN lockAge
  ELSE IF i \in TreesOf(p) THEN dir[i].newest ELSE dir[i].oldest

(* The bytes of a set of candidates: a unit for each but the lock file,    *)
(* and one more for each of the heavy.                                     *)
Total(S) == Cardinality(S \ {LockFile}) + Cardinality(S \cap Heavy)

AgeEligible(p, i) == AgeKey(p, i) < Horizon
Expired(p) == {i \in Candidates(p) : AgeEligible(p, i)}
OldestFirst(S) ==
  {s \in SetToSeqs(S) : \A i, j \in DOMAIN s : i < j => SortKey(s[i]) <= SortKey(s[j])}

(* Of the survivors in order, those the size cap takes: while the bytes    *)
(* left are over the cap.                                                  *)
BytesLeft(s, k) == Total(ToSet(s)) - Total(ToSet(SubSeq(s, 1, k - 1)))
OverCapToo(s) ==
  SubSeq(s, 1, Cardinality({k \in DOMAIN s : MaxBytes > 0 /\ BytesLeft(s, k) >= MaxBytes}))
OverCap(s) ==
  SubSeq(s, 1, Cardinality({k \in DOMAIN s : MaxBytes > 0 /\ BytesLeft(s, k) > MaxBytes}))
-----------------------------------------------------------------------------
Init ==
  /\ dir \in [Subdirs ->
       {s \in DirState : /\ s.body = "whole"
                         /\ s.lease = "live" => s.kind = "capture"
                         /\ <<s.oldest, s.newest>> \in {<<0, 0>>, <<0, 2>>, <<1, 1>>, <<2, 2>>}
                         /\ s.kind = "plain" => s.oldest = s.newest}]
  /\ registry \in Registries
  /\ inodes \in {0, 1} /\ lockIno = inodes          \* 1: left by an earlier run
  /\ lockAge \in IF inodes = 0 THEN {2} ELSE Ages
  /\ pruner \in [Pruners ->
       {[pc |-> "start", ino |-> 0, aware |-> a, delete |-> d, planned |-> {}, trees |-> {},
         todo |-> <<>>, item |-> LockFile, reg |-> "unknown", exit |-> "none",
         failed |-> FALSE, claimed |-> {}, changed |-> FALSE]
         : a \in AwareFlags, d \in BOOLEAN}]

(* One run takes a step. *)
Becomes(p, state) == pruner' = [pruner EXCEPT ![p] = state]

(* os.open(lock_path, O_CREAT | O_RDWR); the mtime of an old file stays.   *)
Open(p) ==
  /\ pruner[p].pc = "start"
  /\ IF lockIno = 0
       THEN lockIno' = inodes + 1 /\ inodes' = inodes + 1 /\ lockAge' = 2
       ELSE UNCHANGED lockVars
  /\ Becomes(p, [pruner[p] EXCEPT !.pc = "flock", !.ino = lockIno'])
  /\ UNCHANGED world

(* Holding the flock, whatever has become of the file's name since.        *)
Locked(p) == pruner[p].pc \in {"plan", "reread", "loop", "delete", "rmtree"}

Flock(p) ==
  /\ pruner[p].pc = "flock"
  /\ \A q \in Pruners \ {p} : Locked(q) => pruner[q].ino # pruner[p].ino
  /\ Becomes(p, [pruner[p] EXCEPT !.pc = "plan"])
  /\ UNCHANGED <<world, lockVars>>

(* plan_prune; a dry run reports and ends here.                            *)
TreesAmongAny(p, chosen) == TreesOf(p)
TreesAmong(p, chosen) == TreesOf(p) \cap ToSet(chosen)

PlanAs(p, chosen) ==
  LET s == pruner[p] IN
  Becomes(p, [s EXCEPT !.planned = ToSet(chosen),
                       !.trees = TreesAmong(p, chosen),
                       !.todo = IF s.delete THEN chosen ELSE <<>>,
                       !.aware = IF Aware(p) THEN "on" ELSE "off",
                       !.pc = IF s.delete THEN "reread" ELSE "done",
                       !.exit = IF s.delete THEN "none" ELSE "ok"])

Plan(p) ==
  /\ pruner[p].pc = "plan"
  /\ \E old \in OldestFirst(Expired(p)), rest \in OldestFirst(Candidates(p) \ Expired(p)) :
       PlanAs(p, old \o OverCap(rest))
  /\ UNCHANGED <<world, lockVars>>

(* The registry is read again once, before the deletion loop.              *)
RereadNot(p) ==
  /\ pruner[p].pc = "reread"
  /\ Becomes(p, [pruner[p] EXCEPT !.pc = "loop", !.reg = "empty", !.changed = FALSE])
  /\ UNCHANGED <<world, lockVars>>
Reread(p) ==
  LET s == pruner[p] IN
  /\ s.pc = "reread"
  /\ Becomes(p, [s EXCEPT !.pc = "loop", !.changed = FALSE,
                          !.reg = IF s.aware = "on" THEN registry ELSE "unknown"])
  /\ UNCHANGED <<world, lockVars>>

(* One turn of the loop: a tree that became referenced is refused,         *)
(* everything else goes on to its deletion.                                *)
RefusesNever(p, i) == FALSE
Refuses(p, i) == i \in pruner[p].trees /\ IsCapture(i) /\ ~Prunable(i, pruner[p].reg)

Check(p) ==
  LET s == pruner[p]
      i == Head(s.todo)
  IN
  /\ s.pc = "loop" /\ s.todo # <<>>
  /\ \/ /\ Refuses(p, i)
        /\ Becomes(p, [s EXCEPT !.todo = Tail(@), !.failed = TRUE])
     \/ /\ ~Refuses(p, i)
        /\ Becomes(p, [s EXCEPT !.todo = Tail(@), !.item = i, !.pc = "delete", !.claimed = {}])
  /\ UNCHANGED <<world, lockVars>>

(* _delete_path.  A file is gone at once, a tree bit by bit; what is no    *)
(* longer there, or any other OSError, counts as a failure.                *)
Deleted(p) == Becomes(p, [pruner[p] EXCEPT !.pc = "loop"])
FailedQuietly(p) == Deleted(p)
Failed(p) == Becomes(p, [pruner[p] EXCEPT !.pc = "loop", !.failed = TRUE])

DeleteLock(p) ==
  /\ pruner[p].pc = "delete" /\ pruner[p].item = LockFile /\ lockIno # 0
  /\ lockIno' = 0
  /\ Deleted(p)
  /\ UNCHANGED <<world, lockAge, inodes>>

DeleteFile(p) ==
  LET d == pruner[p].item IN
  /\ pruner[p].pc = "delete" /\ d \in Subdirs \ pruner[p].trees /\ dir[d].body # "gone"
  /\ dir' = [dir EXCEPT ![d].body = IF dir[d].kind = "capture" THEN "part" ELSE "gone"]
  /\ Deleted(p)
  /\ UNCHANGED <<registry, lockVars>>

RmtreeBegin(p) ==
  LET d == pruner[p].item IN
  /\ pruner[p].pc = "delete" /\ d \in pruner[p].trees /\ dir[d].body # "gone"
  /\ dir' = [dir EXCEPT ![d].body = "part"]
  /\ Becomes(p, [pruner[p] EXCEPT !.pc = "rmtree"])
  /\ UNCHANGED <<registry, lockVars>>

RmtreeEnd(p) ==
  LET d == pruner[p].item IN
  /\ pruner[p].pc = "rmtree" /\ dir[d].body # "gone"
  /\ dir' = [dir EXCEPT ![d].body = "gone", ![d].lease = "none"]
  /\ Deleted(p)
  /\ UNCHANGED <<registry, lockVars>>

DeleteFails(p) ==
  /\ pruner[p].pc \in {"delete", "rmtree"}
  /\ Failed(p)
  /\ UNCHANGED <<world, lockVars>>

(* The end of the loop: the exit code and the lock. *)
Finish(p) ==
  LET s == pruner[p] IN
  /\ s.pc = "loop" /\ s.todo = <<>>
  /\ Becomes(p, [s EXCEPT !.pc = "done", !.exit = IF s.failed THEN "failed" ELSE "ok"])
  /\ UNCHANGED <<world, lockVars>>

(* The unit is stopped, or the machine goes down. *)
Kill(p) ==
  /\ pruner[p].pc \notin {"start", "done"}
  /\ Becomes(p, [pruner[p] EXCEPT !.pc = "done", !.exit = "killed"])
  /\ UNCHANGED <<world, lockVars>>
-----------------------------------------------------------------------------
(* The gateway, which knows nothing of the pruner's lock.                  *)
Claim(d) ==
  /\ dir[d].body # "gone" /\ dir[d].lease = "none"
  /\ dir' = [dir EXCEPT ![d].kind = "capture", ![d].lease = "live"]
  /\ pruner' = [p \in Pruners |-> [pruner[p] EXCEPT !.claimed = @ \cup {d}]]
  /\ UNCHANGED <<registry, lockVars>>

Release(d) ==
  /\ dir[d].lease = "live"
  /\ dir' = [dir EXCEPT ![d].lease = "none"]
  /\ UNCHANGED <<registry, lockVars, pruner>>

ChangePlugins ==
  /\ registry' \in Registries \ {registry}
  /\ pruner' = [p \in Pruners |-> [pruner[p] EXCEPT !.changed = TRUE]]
  /\ UNCHANGED <<dir, lockVars>>
-----------------------------------------------------------------------------
Next ==
  \/ \E p \in Pruners :
       \/ Open(p) \/ Flock(p) \/ Plan(p) \/ Reread(p) \/ Check(p)
       \/ DeleteLock(p) \/ DeleteFile(p) \/ RmtreeBegin(p) \/ RmtreeEnd(p)
       \/ DeleteFails(p) \/ Finish(p) \/ Kill(p)
  \/ \E d \in Subdirs : Claim(d) \/ Release(d)
  \/ ChangePlugins

Spec == Init /\ [][Next]_vars
=============================================================================
