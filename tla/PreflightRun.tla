---------------------------- MODULE PreflightRun ----------------------------
(***************************************************************************)
(* A message on its way to the model: the plugin                           *)
(* extensions/preflight-emitter/index.ts spawns the gate's process, waits  *)
(* ten seconds at most, and maps its exit onto the run.  Meanwhile the     *)
(* deploy replaces the registries and the shim, and the tenancy broker     *)
(* changes its mind.  Any number of messages; each has a gate of its own.  *)
(*                                                                         *)
(* Abstractions: what the shim outside this repository does is to pass the *)
(* message's fields on and the exit code back; the gate's environment is   *)
(* the same for all messages.                                              *)
(***************************************************************************)
EXTENDS PreflightGate, Sequences

CONSTANTS Messages, Requests, Wirings

Wiring == [tenant : BOOLEAN, consent : BOOLEAN, posture : BOOLEAN,
           log : {"none", "writable", "unwritable"}, withoutSender : BOOLEAN]

ASSUME RunAssumption == Requests \subseteq Request /\ Wirings \subseteq Wiring

VARIABLES
  wired,      \* the environment: broker, registries, event log
  shim,       \* is the shim there and executable?
  registry,   \* the files: see Registries
  jwtValid,   \* what the broker says of the JWT when it is reached
  run         \* each message: see RunState

vars == <<wired, shim, registry, jwtValid, run>>
world == <<wired, shim, registry, jwtValid>>

Layers == {"principal", "tenant", "consent", "posture"}
RunState ==
  [pc      : {"new", "spawn", "principals", "tenant", "consent", "posture", "emit",
              "return", "gone"},
   request : Requests,
   event   : Event,
   logged  : Seq(Event),         \* its lines in the event log
   code    : {0, 1, 2},          \* the process's exit code, once it is gone
   outcome : {"none", "pass", "block", "ungated"},
   held    : SUBSET Layers]      \* history: what held at some time since it began

NoEvent == Decision("reject", "registry-unavailable", FALSE)
-----------------------------------------------------------------------------
(* What must hold of a message for the gate to let it pass.                *)
Known(req, reg) ==
  req.actor # Absent /\ req.agent # Absent /\ reg.principals # Broken /\ req.actor \in reg.principals
Tenanted(req, valid) == req.tenant = "triple" \/ (req.tenant = "jwt" /\ valid)
Consented(req, reg) ==
  /\ reg.consent # Broken /\ req.agent # Absent /\ req.capability # Absent
  /\ reg.consent[req.agent][req.capability] = "granted"
Routed(req, reg) ==
  /\ reg.posture # Broken /\ req.agent # Absent /\ req.route # Absent
  /\ reg.posture[req.agent] # Absent /\ req.route \in reg.posture[req.agent]
Holding(w, req, reg, valid) ==
  {layer \in Layers :
     /\ layer = "principal" => Known(req, reg)
     /\ layer = "tenant" /\ w.tenant => Tenanted(req, valid)
     /\ layer = "consent" /\ w.consent => Consented(req, reg)
     /\ layer = "posture" /\ w.posture => Routed(req, reg)}

Init ==
  /\ wired \in Wirings /\ shim \in BOOLEAN /\ registry \in Registries /\ jwtValid \in BOOLEAN
  /\ \E req \in [Messages -> Requests] :
       run = [m \in Messages |->
                [pc |-> "new", request |-> req[m], event |-> NoEvent, logged |-> <<>>,
                 code |-> 0, outcome |-> "none", held |-> {}]]

Becomes(m, state) == run' = [run EXCEPT ![m] = state]
Done(s, outcome) == [s EXCEPT !.pc = "gone", !.outcome = outcome]

(* before_agent_run: a turn without a sender is not gated, nor is any      *)
(* message while there is no shim.  A sender that is an empty string is    *)
(* gated, and the gate then reads no actor.                                *)
Unattributed(s) == s.request.actor = Absent /\ ~wired.withoutSender
Enter(m) ==
  LET s == run[m] IN
  /\ s.pc = "new"
  /\ \/ /\ Unattributed(s) \/ ~shim
        /\ Becomes(m, Done(s, "ungated"))
     \/ /\ shim
        /\ Becomes(m, [s EXCEPT !.pc = "spawn", !.held = Holding(wired, s.request, registry, jwtValid)])
  /\ UNCHANGED world

(* The process starts, or the shim is gone again or there is no process to *)
(* be had.                                                                 *)
Spawn(m) ==
  LET s == run[m] IN
  /\ s.pc = "spawn"
  /\ \/ Becomes(m, Done(s, "block"))
     \/ Becomes(m, [s EXCEPT !.pc = "principals"])
  /\ UNCHANGED world

(* The process ends by a traceback, with nothing in the log: the event log *)
(* cannot be written, or the broker's answer is JSON but not an object.    *)
Dies(m) == Becomes(m, [run[m] EXCEPT !.pc = "gone", !.code = 1])

Conclude(m, event, next) ==
  Becomes(m, [run[m] EXCEPT !.event = event, !.pc = next])

ReadPrincipals(m) ==
  /\ run[m].pc = "principals"
  /\ Conclude(m, Evaluate(run[m].request, registry.principals),
              IF registry.principals = Broken THEN "emit" ELSE "tenant")
  /\ UNCHANGED world

(* The broker is asked about a JWT only, and only where it is wired.       *)
Answers == {"unreachable", IF jwtValid THEN "valid" ELSE "invalid"}
CheckTenant(m) ==
  LET s == run[m]
      check(answer) == TenantCheck(s.request, wired.tenant, answer)
  IN
  /\ s.pc = "tenant"
  /\ \/ \E answer \in Answers :
          Conclude(m, [After(s.event, check(answer)) EXCEPT !.tenant = check(answer).status], "consent")
     \/ wired.tenant /\ s.request.tenant = "jwt" /\ Dies(m)
  /\ UNCHANGED world

CheckConsent(m) ==
  LET s == run[m]
      check == ConsentCheck(s.request, wired.consent, registry.consent)
  IN
  /\ s.pc = "consent"
  /\ Conclude(m, [After(s.event, check) EXCEPT !.consent = check.status],
              IF Fatal(check) THEN "emit" ELSE "posture")
  /\ UNCHANGED world

CheckPosture(m) ==
  LET s == run[m]
      check == PostureCheck(s.request, wired.posture, registry.posture)
  IN
  /\ s.pc = "posture"
  /\ Conclude(m, [After(s.event, check) EXCEPT !.posture = check.status], "emit")
  /\ UNCHANGED world

(* _emit, where the log is configured.                                     *)
LinesRejectsOnly(event) == IF event.decision = "reject" THEN <<event>> ELSE <<>>
LinesTwice(event) == <<event, event>>
Lines(event) == <<event>>
Emit(m) ==
  LET s == run[m] IN
  /\ s.pc = "emit"
  /\ \/ wired.log = "none" /\ Becomes(m, [s EXCEPT !.pc = "return"])
     \/ /\ wired.log = "writable"
        /\ Becomes(m, [s EXCEPT !.pc = "return", !.logged = Lines(s.event)])
     \/ wired.log = "unwritable" /\ Dies(m)
  /\ UNCHANGED world

(* The exit code of main.                                                  *)
Unavailable(event) ==
  event.reason \in {"registry-unavailable", "consent-registry-unavailable",
                    "posture-registry-unavailable"}
Code(event) == IF Unavailable(event) THEN 2 ELSE IF event.decision = "allow" THEN 0 ELSE 1
Return(m) ==
  LET s == run[m] IN
  /\ s.pc = "return"
  /\ Becomes(m, [s EXCEPT !.pc = "gone", !.code = Code(s.event)])
  /\ UNCHANGED world

(* The plugin hears of the exit: pass on 0, block on anything else.        *)
OutcomeKnown(code) == IF code = 0 THEN "pass" ELSE IF code = 1 THEN "block" ELSE "none"
Outcome(code) == IF code = 0 THEN "pass" ELSE "block"
Settle(m) ==
  LET s == run[m] IN
  /\ s.pc = "gone" /\ s.outcome = "none"
  /\ Becomes(m, Done(s, Outcome(s.code)))
  /\ UNCHANGED world

(* Ten seconds have passed: the plugin blocks the run and signals the      *)
(* shim's shell, which the gate may survive.                               *)
Gating == {"principals", "tenant", "consent", "posture", "emit", "return"}
AtTimeout == "block"
Timeout(m) ==
  LET s == run[m] IN
  /\ s.pc \in Gating /\ s.outcome = "none"
  /\ \/ Becomes(m, [s EXCEPT !.outcome = AtTimeout, !.pc = "gone"])
     \/ Becomes(m, [s EXCEPT !.outcome = AtTimeout])
  /\ UNCHANGED world
-----------------------------------------------------------------------------
(* The world outside. *)
Notice(reg, valid) ==
  run' = [m \in Messages |->
            IF run[m].pc \in Gating \cup {"spawn"}
              THEN [run[m] EXCEPT !.held = @ \cup Holding(wired, run[m].request, reg, valid)]
              ELSE run[m]]

Redeploy ==
  /\ shim' = ~shim
  /\ UNCHANGED <<wired, registry, jwtValid, run>>

Replace(file, content) ==
  /\ registry' = [registry EXCEPT ![file] = content]
  /\ Notice(registry', jwtValid)
  /\ UNCHANGED <<wired, shim, jwtValid>>

BrokerChanges ==
  /\ jwtValid' = ~jwtValid
  /\ Notice(registry, jwtValid')
  /\ UNCHANGED <<wired, shim, registry>>
-----------------------------------------------------------------------------
Next ==
  \/ \E m \in Messages :
       \/ Enter(m) \/ Spawn(m) \/ ReadPrincipals(m) \/ CheckTenant(m) \/ CheckConsent(m)
       \/ CheckPosture(m) \/ Emit(m) \/ Return(m) \/ Settle(m) \/ Timeout(m)
  \/ Redeploy \/ BrokerChanges
  \/ \E content \in {Broken} \cup PrincipalsFile : Replace("principals", content)
  \/ \E content \in {Broken} \cup ConsentFile : Replace("consent", content)
  \/ \E content \in {Broken} \cup PostureFile : Replace("posture", content)

Spec == Init /\ [][Next]_vars

(* The plugin is told of an exit, starts what it is asked for, and its     *)
(* timer runs; the gate may hang.                                          *)
FairSpec == Spec /\ \A m \in Messages : WF_vars(Enter(m) \/ Spawn(m) \/ Settle(m) \/ Timeout(m))
=============================================================================
