------------------------- MODULE UpstreamWatchProps -------------------------
(***************************************************************************)
(* What the upstream watch is expected to satisfy.                         *)
(***************************************************************************)
EXTENDS UpstreamWatch

(* "never a silent green": the baseline of later runs passes over a change *)
(* only when a comment has said so, although the state file is written     *)
(* item by item before the comment is posted; and where the blocker labels *)
(* of an issue were in the old baseline and are all gone from the new one, *)
(* and only then, the comment says that the issue is unblocked.  A job     *)
(* whose restore missed is excepted: it takes all it observes for a first  *)
(* observation and saves that ("on a miss the script ... stays silent",    *)
(* upstream-watch.yml:69).                                                 *)
Told(i, what) == run.posted /\ <<i, what>> \in run.changes
NothingPassedOver ==
  [][\A i \in Watched : cache[i] # None /\ cache'[i] # None /\ ~run.missed =>
       /\ cache'[i] # cache[i] => Told(i, "changed")
       /\ Told(i, "unblock") <=> /\ Blockers[i] \cap cache[i].main # {}
                                 /\ Blockers[i] \cap cache'[i].main = {}]_cache

(* An item that differs from the baseline and stays so is told of in the   *)
(* end, whatever other items do and however many runs fail, unless the     *)
(* baseline itself is lost, or a job without it comes to its save.  Of     *)
(* the release it is the tag that must not be missed: its ancestry is best *)
(* effort.                                                                 *)
Differs(i) ==
  /\ cache[i] # None
  /\ \/ cache[i].main # upstream[i].main
     \/ i \notin BestEffort /\ cache[i].more # upstream[i].more
ChangesAreTold ==
  \A i \in Watched : \A sig \in Shown[i] :
    Differs(i) /\ upstream[i] = sig ~>
      \/ Told(i, "changed") \/ upstream[i] # sig \/ cache[i] = None
      \/ run.missed /\ run.pc = "save"
=============================================================================
