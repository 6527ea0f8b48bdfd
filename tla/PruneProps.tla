----------------------------- MODULE PruneProps -----------------------------
(***************************************************************************)
(* What the pruner is expected to satisfy beside a running gateway.        *)
(***************************************************************************)
EXTENDS Prune

(* Types; a run past its plan has planned only what the loop handles.      *)
TypeOK ==
  /\ dir \in [Subdirs -> DirState]
  /\ registry \in Registries
  /\ lockIno \in 0..inodes /\ lockAge \in Ages
  /\ inodes \in Nat
  /\ pruner \in [Pruners -> PrunerState]
  /\ \A p \in Pruners :
       /\ ToSet(pruner[p].todo) \subseteq pruner[p].planned
       /\ pruner[p].trees \subseteq pruner[p].planned

Deleting(p) ==
  /\ pruner[p].pc \in {"delete", "rmtree"} /\ pruner[p].item \in pruner[p].trees
  /\ dir[pruner[p].item].body # "gone"

(* While a run removes a capture tree, the tree has no lease unless the    *)
(* gateway took it after that tree's own re-check ("a lease ... that       *)
(* appeared since planning must abort the deletion").                      *)
LeaseHonoured ==
  \A p \in Pruners : Deleting(p) =>
    dir[pruner[p].item].lease = "none" \/ pruner[p].item \in pruner[p].claimed

(* While a run removes a capture tree, the registry proves zero plugins    *)
(* unless it changed after the run's second read of it.                    *)
RegistryHonoured ==
  \A p \in Pruners : Deleting(p) => registry = "empty" \/ pruner[p].changed

(* Runs that walk the whole target as loose files leave the lock file     *)
(* alone, so that among them (and any dry runs) at most one at a time is   *)
(* inside the scan-and-delete cycle.                                       *)
ExclusiveUnlessAware ==
  (\A p \in Pruners : pruner[p].aware = "on" => ~pruner[p].delete) =>
    \A p, q \in Pruners : Locked(p) /\ Locked(q) => p = q

(* The plan: everything past the horizon; of the rest only the oldest, as  *)
(* little as brings the rest under the cap; nothing that is referenced.    *)
PolicyOK(p) ==
  LET C == Candidates(p)
      chosen == pruner'[p].planned
      old == Expired(p)
      kept == C \ chosen
      extra == chosen \ old
  IN
  /\ old \subseteq chosen /\ chosen \subseteq C
  /\ \A x \in extra, y \in kept : SortKey(x) <= SortKey(y)
  /\ MaxBytes = 0 => extra = {}
  /\ MaxBytes > 0 => Total(kept) <= MaxBytes
  /\ extra # {} => \E x \in extra : /\ \A y \in extra : SortKey(y) <= SortKey(x)
                                    /\ Total(kept \cup {x}) > MaxBytes
PlanMeetsPolicy == [][\A p \in Pruners : Plan(p) => PolicyOK(p)]_vars

(* A run that exits 0 after --delete has removed all it planned to remove: *)
(* refused trees and failed deletions are never reported as success.       *)
ExitTellsTruth ==
  \A p \in Pruners : pruner[p].exit = "ok" /\ pruner[p].delete =>
    \A d \in pruner[p].planned \cap Subdirs : dir[d].body # "whole"

(* "Exclusive lock for the whole scan+delete: other pruners ... must not   *)
(* interleave with the plan/apply cycle" and "Lock file ... never a        *)
(* deletion candidate, even when stale" (lib-prune-retention.py:542, 307). *)
PrunersExclude == \A p, q \in Pruners : Locked(p) /\ Locked(q) => p = q
=============================================================================
