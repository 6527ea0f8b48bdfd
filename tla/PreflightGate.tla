---------------------------- MODULE PreflightGate ---------------------------
(***************************************************************************)
(* The decision of scripts/preflight-gate.py about one invocation: who     *)
(* asks (P0), for which tenant (P1), with whose consent (P2), on which     *)
(* route (P3).  Each check is given what it read; what it reads when is    *)
(* the business of PreflightRun.                                           *)
(*                                                                         *)
(* Abstractions: an argument that is missing or blank is Absent; a         *)
(* principal is known by one name; timestamps and the triple itself are    *)
(* left out of the event.                                                  *)
(***************************************************************************)
EXTENDS Integers

CONSTANTS
  Actors, Agents, Capabilities, Routes,
  Absent,      \* an argument or a record that is not there
  Broken       \* a registry file that is missing or invalid

PrincipalsFile == SUBSET Actors
ConsentFile == [Agents -> [Capabilities -> {"granted", "revoked", Absent}]]
PostureFile == [Agents -> {Absent} \cup SUBSET Routes]

ASSUME GateAssumption ==
  /\ Absent \notin Actors \cup Agents \cup Capabilities \cup Routes \cup {"granted", "revoked"}
  /\ \A routes \in SUBSET Routes : routes # Absent
  /\ \A file \in PrincipalsFile \cup ConsentFile \cup PostureFile : file # Broken

(* The command line of "evaluate": which tenant arguments are complete.    *)
Request ==
  [actor : Actors \cup {Absent}, agent : Agents \cup {Absent},
   capability : Capabilities \cup {Absent}, route : Routes \cup {Absent},
   tenant : {"jwt", "triple", "none"}]

(* The registries, files that deploys and operators replace.               *)
Registries ==
  [principals : {Broken} \cup PrincipalsFile,
   consent : {Broken} \cup ConsentFile,
   posture : {Broken} \cup PostureFile]

Statuses == {"ok", "missing", "invalid", "revoked", "skipped", "unset"}
Reasons ==
  {"actor-missing", "agent-missing", "actor-unknown", "actor-known", "registry-unavailable",
   "tenant-broker-unwired", "tenant-broker-unreachable", "tenant-jwt-invalid",
   "tenant-jwt-verified", "tenant-triple-present", "tenant-context-missing",
   "consent-registry-unwired", "consent-registry-unavailable", "consent-capability-missing",
   "consent-missing", "consent-granted", "consent-revoked",
   "posture-registry-unwired", "posture-registry-unavailable", "posture-route-missing",
   "posture-missing", "posture-active", "posture-mismatch"}
Event ==
  [decision : {"allow", "reject"}, reason : Reasons, principalKnown : BOOLEAN,
   tenant : Statuses, consent : Statuses, posture : Statuses]
-----------------------------------------------------------------------------
Decision(decision, reason, known) ==
  [decision |-> decision, reason |-> reason, principalKnown |-> known,
   tenant |-> "unset", consent |-> "unset", posture |-> "unset"]
Check(status, reason) == [status |-> status, reason |-> reason]

(* evaluate, or the registry that cannot be loaded.                        *)
Evaluate(req, principals) ==
  IF principals = Broken THEN Decision("reject", "registry-unavailable", FALSE)
  ELSE IF req.actor = Absent THEN Decision("reject", "actor-missing", FALSE)
  ELSE IF req.agent = Absent THEN Decision("reject", "agent-missing", FALSE)
  ELSE IF req.actor \notin principals THEN Decision("reject", "actor-unknown", FALSE)
  ELSE Decision("allow", "actor-known", TRUE)

(* tenant_check, given the broker's answer to a JWT.                       *)
TenantCheck(req, wired, answer) ==
  IF ~wired THEN Check("skipped", "tenant-broker-unwired")
  ELSE IF req.tenant = "jwt" THEN
    IF answer = "valid" THEN Check("ok", "tenant-jwt-verified")
    ELSE IF answer = "invalid" THEN Check("invalid", "tenant-jwt-invalid")
    ELSE Check("invalid", "tenant-broker-unreachable")
  ELSE IF req.tenant = "triple" THEN Check("ok", "tenant-triple-present")
  ELSE Check("missing", "tenant-context-missing")

(* consent_check: the record of the agent for the capability.              *)
Consent(req, consent) ==
  IF req.agent = Absent THEN Absent ELSE consent[req.agent][req.capability]
ConsentCheck(req, wired, consent) ==
  IF ~wired THEN Check("skipped", "consent-registry-unwired")
  ELSE IF consent = Broken THEN Check("invalid", "consent-registry-unavailable")
  ELSE IF req.capability = Absent THEN Check("missing", "consent-capability-missing")
  ELSE IF Consent(req, consent) = "granted" THEN Check("ok", "consent-granted")
  ELSE IF Consent(req, consent) = "revoked" THEN Check("revoked", "consent-revoked")
  ELSE Check("missing", "consent-missing")

(* posture_check: the active routes of the agent.                          *)
ActiveRoutes(req, posture) == IF req.agent = Absent THEN Absent ELSE posture[req.agent]
PostureCheck(req, wired, posture) ==
  IF ~wired THEN Check("skipped", "posture-registry-unwired")
  ELSE IF posture = Broken THEN Check("invalid", "posture-registry-unavailable")
  ELSE IF req.route = Absent THEN Check("missing", "posture-route-missing")
  ELSE IF ActiveRoutes(req, posture) = Absent THEN Check("missing", "posture-missing")
  ELSE IF req.route \in ActiveRoutes(req, posture) THEN Check("ok", "posture-active")
  ELSE Check("invalid", "posture-mismatch")

(* main takes a check's verdict over a decision to allow, and a registry   *)
(* that cannot be loaded over any decision.                                *)
Fatal(check) == check.reason \in {"consent-registry-unavailable", "posture-registry-unavailable"}
FailsButRevoked(check) == check.status \in {"missing", "invalid"}
Fails(check) == check.status \in {"missing", "revoked", "invalid"}
OverridesAlways(event, check) == Fails(check)
Overrides(event, check) == Fatal(check) \/ (event.decision = "allow" /\ Fails(check))
After(event, check) ==
  IF Overrides(event, check)
    THEN [event EXCEPT !.decision = "reject", !.reason = check.reason]
    ELSE event
=============================================================================
