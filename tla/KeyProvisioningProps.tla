------------------------ MODULE KeyProvisioningProps ------------------------
(***************************************************************************)
(* What the provisioning of per-agent keys is expected to satisfy.         *)
(***************************************************************************)
EXTENDS KeyProvisioning

(* Types; every live key has a hash of its own, no list goes past the      *)
(* ceiling ("a misbehaving server ... can't infinite-loop the deploy"),    *)
(* and a run that creates a key knows for whom.                            *)
TypeOK ==
  /\ account \in Seq(Key) /\ drawn \in Nat
  /\ \A i \in DOMAIN account : account[i].hash \in 1..drawn
  /\ \A i, j \in DOMAIN account : account[i].hash = account[j].hash => i = j
  /\ run \in [Runs -> RunState]
  /\ \A r \in Runs :
       /\ run[r].offset < Ceiling
       /\ run[r].pc \in {"post", "relist", "requery", "print"} => run[r].todo # <<>>

(* A run creates no second key for an agent whose key was there when its   *)
(* list began, however many pages the list has and whoever creates keys    *)
(* meanwhile; unless a revocation shifted the pages, the account is larger *)
(* than the ceiling, or a provision went on without a list.                *)
NoNeedlessKey ==
  [][\A r \in Runs : Post(r) =>
       \/ run[r].partial
       \/ \A k \in ToSet(account) : k.label = Agent(r) => k.hash \notin run[r].since]_vars

(* A sync that exits 0 has left no agent of its list behind: each had a    *)
(* key or gets a line with the string of a key created for it.             *)
Lines(r, a) == {x \in run[r].out : x.agent = a /\ x.key # NoKey}
Synced(r) == run[r].cmd.kind = "sync" /\ run[r].exit = "ok"
SyncCovers ==
  \A r \in Runs : Synced(r) => \A a \in ToSet(run[r].cmd.agents) :
    Found(run[r].existing, a) \/ Lines(r, a) # {}

(* A run that ends by itself, with an error too, has reported the string   *)
(* of every key it created but the last one at most (the one whose answer  *)
(* was lost, or hid it), and a sync that exits 0 of every one: no error of *)
(* a later agent takes the strings of the earlier ones with it.            *)
Unreported(r) == run[r].made \ {x.key : x \in run[r].out}
OneKeyLost ==
  \A r \in Runs :
    /\ run[r].exit \in {"ok", "failed"} => \A g, h \in Unreported(r) : g = h
    /\ Synced(r) => Unreported(r) = {}

(* "create_key recovers from masked data.key via list_keys reconciliation  *)
(* by name" (tests/openrouter-provision.bats:534), "the deploying caller   *)
(* gets back the same shape it always did" (506): what a run reports for   *)
(* an agent is a key, not null.                                            *)
RecoveryReportsKey ==
  \A r \in Runs : run[r].exit = "ok" => \A x \in run[r].out : x.key # NoKey
=============================================================================
