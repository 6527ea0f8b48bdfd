--------------------------- MODULE PreflightProps ---------------------------
(***************************************************************************)
(* What the preflight gate and its plugin are expected to satisfy.         *)
(***************************************************************************)
EXTENDS PreflightRun

(* Types; a decision is logged once at most, and a gate that has not run   *)
(* has logged nothing.                                                     *)
TypeOK ==
  /\ wired \in Wirings /\ shim \in BOOLEAN /\ jwtValid \in BOOLEAN
  /\ registry \in Registries
  /\ run \in [Messages -> RunState]
  /\ \A m \in Messages :
       /\ Len(run[m].logged) <= 1
       /\ run[m].pc \in {"new", "spawn"} => run[m].logged = <<>> /\ run[m].outcome = "none"

(* "Everything fails CLOSED": a message that the gate lets pass had a      *)
(* known sender, a tenant, a consent and a route, each as far as it is     *)
(* wired, at some time since it came in, whatever was replaced, broken or  *)
(* revoked meanwhile.  What was revoked before stays revoked.              *)
PassedWasAllowed == \A m \in Messages : run[m].outcome = "pass" => run[m].held = Layers

(* The audit trail is complete for what reaches a model: a message that    *)
(* the gate lets pass has its one line in the log, which says so.          *)
PassedIsLogged ==
  \A m \in Messages : run[m].outcome = "pass" /\ wired.log # "none" =>
    \E e \in Event : e.decision = "allow" /\ run[m].logged = <<e>>

(* "what did the gate say": a logged decision agrees with the statuses on  *)
(* its line, and a rejection names the first check that failed, or the     *)
(* registry that could not be loaded.                                      *)
Fine == {"ok", "skipped"}
TenantReasons == {"tenant-broker-unreachable", "tenant-jwt-invalid", "tenant-context-missing"}
ConsentReasons == {"consent-capability-missing", "consent-missing", "consent-revoked"}
PostureReasons == {"posture-route-missing", "posture-missing", "posture-mismatch"}
Explained(e) ==
  /\ e.decision = "allow" <=>
       e.principalKnown /\ e.tenant \in Fine /\ e.consent \in Fine /\ e.posture \in Fine
  /\ e.reason \in {"actor-missing", "agent-missing", "actor-unknown", "registry-unavailable"} =>
       ~e.principalKnown
  /\ e.reason \in TenantReasons => e.principalKnown /\ e.tenant \notin Fine
  /\ e.reason \in ConsentReasons =>
       e.principalKnown /\ e.tenant \in Fine /\ e.consent \notin Fine
  /\ e.reason \in PostureReasons =>
       e.principalKnown /\ e.tenant \in Fine /\ e.consent \in Fine /\ e.posture \notin Fine
  /\ e.reason = "consent-registry-unavailable" => e.consent = "invalid" /\ e.posture = "unset"
ReasonsExplain ==
  \A m \in Messages : \A i \in DOMAIN run[m].logged : Explained(run[m].logged[i])

(* A message is not kept waiting by a gate that hangs, nor by a broker     *)
(* that does: it passes or is blocked in the end.                          *)
MessagesSettle == \A m \in Messages : run[m].pc # "new" ~> run[m].outcome # "none"
=============================================================================
