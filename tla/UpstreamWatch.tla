--------------------------- MODULE UpstreamWatch ---------------------------
(***************************************************************************)
(* The hourly watch on upstream pull requests, issues and the release:     *)
(* scripts/ci/upstream-watch.sh, which compares each item with the         *)
(* baseline of an earlier run and comments on a tracking issue, and the    *)
(* workflow around it, which keeps the baseline in the actions cache.      *)
(* Runs do not overlap (the workflow's concurrency group), but any may be  *)
(* cut short at any step, and the cache may be evicted.                    *)
(*                                                                         *)
(* Abstractions: of an item's payload, what the first request answers      *)
(* (labels, state, tag) is a set of marks and what the later ones answer   *)
(* (reviews, checks, comments, the ancestry) is yes or no; titles, which   *)
(* are not compared, are left out.                                         *)
(***************************************************************************)
EXTENDS Integers, Sequences, SequencesExt

CONSTANTS
  Items,       \* the watched items, in the order of the items file
  Marks,       \* labels, states and tags
  Blockers,    \* per item, the marks of its unblock_labels
  BestEffort,  \* items whose later request may fail unnoticed
  Shown,       \* per item, what upstream may show of it
  None         \* no signature

Watched == ToSet(Items)
Sig == [main : SUBSET Marks, more : BOOLEAN]

ASSUME WatchAssumption ==
  /\ Items \in Seq(Watched) \ {<<>>} /\ IsInjective(Items)
  /\ Blockers \in [Watched -> SUBSET Marks]
  /\ BestEffort \subseteq Watched
  /\ Shown \in [Watched -> SUBSET Sig]
  /\ None \notin Sig

VARIABLES
  upstream,    \* what upstream shows of each item
  cache,       \* the newest saved state file
  run          \* the running job: see Off

vars == <<upstream, cache, run>>

NoState == [i \in Watched |-> None]
Off == [pc      |-> "off",     \* then first, later, notify, save
        dry     |-> FALSE,     \* DRY_RUN
        todo    |-> <<>>,      \* the items left
        main    |-> {},        \* what the first request answered
        state   |-> NoState,   \* STATE_FILE, a signature or None per item
        changes |-> {},        \* <<item, "changed">>, <<item, "unblock">>
        posted  |-> FALSE,     \* history: the comment is there
        missed  |-> FALSE]     \* history: the restore step came back with nothing
-----------------------------------------------------------------------------
Unblocked(i, sig) == sig.main \cap Blockers[i] = {}

(* The lines a new signature adds to the report: a first observation is    *)
(* silent.                                                                 *)
UnblockLine(i, old, new) == Blockers[i] # {} /\ ~Unblocked(i, old) /\ Unblocked(i, new)
Report(i, old, new) ==
  {line \in {i} \X {"changed", "unblock"} :
     /\ old # None
     /\ line[2] = "changed" => old # new
     /\ line[2] = "unblock" => UnblockLine(i, old, new)}

Init ==
  /\ upstream \in [Watched -> Sig] /\ \A i \in Watched : upstream[i] \in Shown[i]
  /\ cache = NoState
  /\ run = Off

(* The job starts from the newest saved state, or from none where the      *)
(* restore step fails or misses, which does not fail the job.              *)
StartAfresh(dry) ==
  /\ run.pc = "off"
  /\ run' = [Off EXCEPT !.pc = "first", !.dry = dry, !.todo = Items]
  /\ UNCHANGED <<upstream, cache>>
Start(dry) ==
  /\ run.pc = "off"
  /\ \E missed \in BOOLEAN :
       run' = [Off EXCEPT !.pc = "first", !.dry = dry, !.todo = Items, !.missed = missed,
                          !.state = IF missed THEN NoState ELSE cache]
  /\ UNCHANGED <<upstream, cache>>

(* The first request of an item.  A request that fails ends the job, which *)
(* is Abort.                                                               *)
FetchFirst(i) ==
  /\ run.pc = "first" /\ Head(run.todo) = i
  /\ run' = [run EXCEPT !.pc = "later", !.main = upstream[i].main]
  /\ UNCHANGED <<upstream, cache>>

(* The later requests, the comparison with the old signature and the write *)
(* to the state file, which a dry run leaves alone.  After the last item a *)
(* dry run, or one without changes, is done.                               *)
Keep(i, new) == IF run.dry THEN run.state ELSE [run.state EXCEPT ![i] = new]
Compare(i, more) ==
  LET new == [main |-> run.main, more |-> more]
      changes == run.changes \cup Report(i, run.state[i], new)
  IN
  /\ run.pc = "later" /\ Head(run.todo) = i
  /\ run' = [run EXCEPT !.todo = Tail(@), !.main = {}, !.changes = changes,
               !.state = Keep(i, new),
               !.pc = IF Len(run.todo) > 1 THEN "first"
                      ELSE IF changes = {} \/ run.dry THEN "save" ELSE "notify"]
  /\ UNCHANGED <<upstream, cache>>
FetchLater(i) ==
  \/ Compare(i, upstream[i].more)
  \/ i \in BestEffort /\ Compare(i, FALSE)

(* post_comment.  A comment whose answer is lost is one followed by Abort. *)
PostComment ==
  /\ run.pc = "notify"
  /\ run' = [run EXCEPT !.pc = "save", !.posted = TRUE]
  /\ UNCHANGED <<upstream, cache>>

(* The workflow saves the state of a job that has not failed and was not a *)
(* dry run.  A save that fails is a warning: Abort, too.                   *)
SaveAlways ==
  /\ run.pc \in {"notify", "save"} /\ ~run.dry
  /\ cache' = run.state
  /\ run' = Off
  /\ UNCHANGED upstream
Save ==
  /\ run.pc = "save" /\ ~run.dry
  /\ cache' = run.state
  /\ run' = Off
  /\ UNCHANGED upstream

(* The job ends without a save: a failed request or comment, its timeout,  *)
(* a lost runner, the end of a dry run.                                    *)
Abort ==
  /\ run.pc # "off"
  /\ run' = Off
  /\ UNCHANGED <<upstream, cache>>
-----------------------------------------------------------------------------
(* The world outside.                                                      *)
Move(i) ==
  /\ \E sig \in Shown[i] : upstream' = [upstream EXCEPT ![i] = sig]
  /\ UNCHANGED <<cache, run>>

Evict ==
  /\ cache' = NoState
  /\ UNCHANGED <<upstream, run>>
-----------------------------------------------------------------------------
Next ==
  \/ \E dry \in BOOLEAN : Start(dry)
  \/ \E i \in Watched : FetchFirst(i) \/ FetchLater(i) \/ Move(i)
  \/ PostComment \/ Save \/ Abort \/ Evict

Spec == Init /\ [][Next]_vars

(* The cron starts a real run over and over, a job ends, and of the real   *)
(* runs not all fail at the same restore, request, comment or save for     *)
(* ever.                                                                   *)
Fairness ==
  /\ SF_vars(Start(FALSE) /\ ~run'.missed) /\ SF_vars(PostComment) /\ SF_vars(Save) /\ WF_vars(Abort)
  /\ \A i \in Watched : /\ SF_vars(~run.dry /\ FetchFirst(i))
                        /\ SF_vars(~run.dry /\ FetchLater(i))

FairSpec == Spec /\ Fairness
=============================================================================
