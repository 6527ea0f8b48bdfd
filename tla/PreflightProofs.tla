-------------------------- MODULE PreflightProofs ---------------------------
(***************************************************************************)
(* Proofs about the preflight gate, for any number of messages, actors,    *)
(* agents, capabilities and routes, and every environment.                 *)
(***************************************************************************)
EXTENDS PreflightProps, TLAPS

(* A decision that some checks have not been taken over yet: Explained,    *)
(* where a check still to come counts as fine.                             *)
SoFar == Fine \cup {"unset"}
AttributionReasons == {"actor-missing", "agent-missing", "actor-unknown"}
Partial(e) ==
  /\ e.decision = "allow" <=>
       e.principalKnown /\ e.tenant \in SoFar /\ e.consent \in SoFar /\ e.posture \in SoFar
  /\ e.reason \in AttributionReasons => ~e.principalKnown
  /\ e.reason \in TenantReasons => e.principalKnown /\ e.tenant \notin SoFar
  /\ e.reason \in ConsentReasons =>
       e.principalKnown /\ e.tenant \in SoFar /\ e.consent \notin SoFar

AfterPrincipal(e) ==
  /\ Partial(e) /\ e.tenant = "unset" /\ e.consent = "unset" /\ e.posture = "unset"
  /\ e.reason \in AttributionReasons \cup {"actor-known"}
AfterTenant(e) ==
  /\ Partial(e) /\ e.tenant # "unset" /\ e.consent = "unset" /\ e.posture = "unset"
  /\ e.reason \in AttributionReasons \cup {"actor-known"} \cup TenantReasons
AfterConsent(e) ==
  /\ Partial(e) /\ e.tenant # "unset" /\ e.consent # "unset" /\ e.posture = "unset"
  /\ e.reason \in AttributionReasons \cup {"actor-known"} \cup TenantReasons \cup ConsentReasons

(* What is established of a message at each step of its gate.              *)
Stage(s) ==
  /\ s.pc = "tenant" => AfterPrincipal(s.event)
  /\ s.pc = "consent" => AfterTenant(s.event)
  /\ s.pc = "posture" => AfterConsent(s.event)
  /\ s.pc \in {"emit", "return"} => Explained(s.event)

(* The layers a decision to allow has behind it.                           *)
Backed(s) ==
  s.event.decision = "allow" =>
    /\ s.pc = "tenant" => "principal" \in s.held
    /\ s.pc = "consent" => {"principal", "tenant"} \subseteq s.held
    /\ s.pc = "posture" => {"principal", "tenant", "consent"} \subseteq s.held
    /\ s.pc \in {"emit", "return"} => s.held = Layers

(* The event log. *)
Recorded(w, s) ==
  /\ s.logged = <<>> \/ (s.logged = <<s.event>> /\ Explained(s.event))
  /\ s.pc \in {"new", "spawn", "principals", "tenant", "consent", "posture", "emit"} =>
       s.logged = <<>>
  /\ s.pc = "return" /\ w.log # "none" => s.logged = <<s.event>>

(* A message that is let pass, or that will be once the plugin hears of the *)
(* exit.                                                                    *)
Justified(w, s) ==
  /\ s.event.decision = "allow" /\ s.held = Layers
  /\ w.log # "none" => s.logged = <<s.event>>
Passing(w, s) ==
  /\ s.pc \in {"new", "spawn"} => s.outcome = "none"
  /\ s.outcome = "pass" => s.pc = "gone"
  /\ s.pc = "gone" /\ s.outcome = "none" /\ s.code = 0 => Justified(w, s)
  /\ s.outcome = "pass" => Justified(w, s)

Good(w, s) == s \in RunState /\ Stage(s) /\ Backed(s) /\ Recorded(w, s) /\ Passing(w, s)

(* What holds now is among what held. *)
Noticed(w, reg, valid, s) ==
  s.pc \in Gating \cup {"spawn"} => Holding(w, s.request, reg, valid) \subseteq s.held

WorldOK == wired \in Wirings /\ shim \in BOOLEAN /\ jwtValid \in BOOLEAN /\ registry \in Registries

IInv ==
  /\ WorldOK
  /\ run \in [Messages -> RunState]
  /\ \A m \in Messages : Good(wired, run[m]) /\ Noticed(wired, registry, jwtValid, run[m])
-----------------------------------------------------------------------------
(* The checks.  Each passes only what is allowed, and says why not.        *)
LEMMA EvaluateDecides ==
  ASSUME NEW req \in Request, NEW reg \in Registries
  PROVE  LET e == Evaluate(req, reg.principals) IN
         /\ e \in Event
         /\ e.decision = "allow" => Known(req, reg)
         /\ reg.principals = Broken => Explained(e)
         /\ reg.principals # Broken => AfterPrincipal(e)
<1> USE DEF Evaluate, Decision, Event, Reasons, Statuses
<1> DEFINE e == Evaluate(req, reg.principals)
<1>1. e \in Event
  OBVIOUS
<1>2. e.decision = "allow" => Known(req, reg)
  BY DEF Known
<1>3. reg.principals = Broken => Explained(e)
  BY DEF Explained, Fine, TenantReasons, ConsentReasons, PostureReasons
<1>4. reg.principals # Broken => AfterPrincipal(e)
  BY DEF AfterPrincipal, Partial, SoFar, Fine, AttributionReasons, TenantReasons, ConsentReasons
<1> QED BY <1>1, <1>2, <1>3, <1>4

LEMMA TenantDecides ==
  ASSUME NEW req \in Request, NEW wiredTenant \in BOOLEAN, NEW valid \in BOOLEAN,
         NEW answer \in {"unreachable", IF valid THEN "valid" ELSE "invalid"}
  PROVE  LET c == TenantCheck(req, wiredTenant, answer) IN
         /\ \/ c.status \in Fine
            \/ c.status \in {"missing", "invalid"} /\ c.reason \in TenantReasons
         /\ ~Fatal(c)
         /\ c.status \in Fine => (wiredTenant => Tenanted(req, valid))
BY DEF TenantCheck, Check, Fatal, Fine, TenantReasons, Tenanted, Request

LEMMA ConsentDecides ==
  ASSUME NEW req \in Request, NEW wiredConsent \in BOOLEAN, NEW reg \in Registries
  PROVE  LET c == ConsentCheck(req, wiredConsent, reg.consent) IN
         /\ \/ c.status \in Fine /\ ~Fatal(c)
            \/ c.status \in {"missing", "invalid", "revoked"} /\ c.reason \in ConsentReasons /\ ~Fatal(c)
            \/ c.status = "invalid" /\ c.reason = "consent-registry-unavailable" /\ Fatal(c)
         /\ c.status \in Fine => (wiredConsent => Consented(req, reg))
BY GateAssumption DEF ConsentCheck, Consent, Check, Fatal, Fine, ConsentReasons, Consented, Request

LEMMA PostureDecides ==
  ASSUME NEW req \in Request, NEW wiredPosture \in BOOLEAN, NEW reg \in Registries
  PROVE  LET c == PostureCheck(req, wiredPosture, reg.posture) IN
         /\ \/ c.status \in Fine /\ ~Fatal(c)
            \/ c.status \in {"missing", "invalid"} /\ c.reason \in PostureReasons /\ ~Fatal(c)
            \/ c.status = "invalid" /\ c.reason = "posture-registry-unavailable" /\ Fatal(c)
         /\ c.status \in Fine => (wiredPosture => Routed(req, reg))
BY GateAssumption DEF PostureCheck, ActiveRoutes, Check, Fatal, Fine, PostureReasons, Routed, Request
-----------------------------------------------------------------------------
(* A check taken over a decision. *)
LEMMA TakeTenant ==
  ASSUME NEW e \in Event, AfterPrincipal(e), NEW c, ~Fatal(c),
         \/ c.status \in Fine
         \/ c.status \in {"missing", "invalid"} /\ c.reason \in TenantReasons
  PROVE  LET f == [After(e, c) EXCEPT !.tenant = c.status] IN
         /\ f \in Event /\ AfterTenant(f)
         /\ f.decision = "allow" => e.decision = "allow" /\ c.status \in Fine
<1> DEFINE f == [After(e, c) EXCEPT !.tenant = c.status]
<1>1. /\ f.tenant = c.status /\ f.consent = e.consent /\ f.posture = e.posture
      /\ f.principalKnown = e.principalKnown
      /\ f.decision = IF Overrides(e, c) THEN "reject" ELSE e.decision
      /\ f.reason = IF Overrides(e, c) THEN c.reason ELSE e.reason
      /\ f \in Event
  <2>1. c.status \in Statuses /\ (Overrides(e, c) => c.reason \in Reasons)
    BY DEF Statuses, Reasons, Fine, Overrides, Fails, Fatal, TenantReasons
  <2>2. CASE Overrides(e, c)
    BY <2>1, <2>2 DEF After, Event
  <2>3. CASE ~Overrides(e, c)
    BY <2>1, <2>3 DEF After, Event
  <2> QED BY <2>2, <2>3
<1> HIDE DEF f
<1> QED
  BY <1>1 DEF f, AfterPrincipal, AfterTenant, Partial, SoFar, Fine, Overrides, Fails, Fatal,
     AttributionReasons, TenantReasons, ConsentReasons, Event

LEMMA TakeConsent ==
  ASSUME NEW e \in Event, AfterTenant(e), NEW c,
         \/ c.status \in Fine /\ ~Fatal(c)
         \/ c.status \in {"missing", "invalid", "revoked"} /\ c.reason \in ConsentReasons /\ ~Fatal(c)
         \/ c.status = "invalid" /\ c.reason = "consent-registry-unavailable" /\ Fatal(c)
  PROVE  LET f == [After(e, c) EXCEPT !.consent = c.status] IN
         /\ f \in Event
         /\ Fatal(c) => Explained(f)
         /\ ~Fatal(c) => AfterConsent(f)
         /\ f.decision = "allow" => e.decision = "allow" /\ c.status \in Fine
<1> DEFINE f == [After(e, c) EXCEPT !.consent = c.status]
<1>1. /\ f.consent = c.status /\ f.tenant = e.tenant /\ f.posture = e.posture
      /\ f.principalKnown = e.principalKnown
      /\ f.decision = IF Overrides(e, c) THEN "reject" ELSE e.decision
      /\ f.reason = IF Overrides(e, c) THEN c.reason ELSE e.reason
      /\ f \in Event
  <2>1. c.status \in Statuses /\ (Overrides(e, c) => c.reason \in Reasons)
    BY DEF Statuses, Reasons, Fine, Overrides, Fails, Fatal, ConsentReasons
  <2>2. CASE Overrides(e, c)
    BY <2>1, <2>2 DEF After, Event
  <2>3. CASE ~Overrides(e, c)
    BY <2>1, <2>3 DEF After, Event
  <2> QED BY <2>2, <2>3
<1> HIDE DEF f
<1>2. Fatal(c) => Explained(f)
  BY <1>1 DEF AfterTenant, Partial, SoFar, Fine, Overrides, Explained,
     AttributionReasons, TenantReasons, ConsentReasons, PostureReasons, Event
<1>3. ~Fatal(c) => AfterConsent(f)
  BY <1>1 DEF AfterTenant, AfterConsent, Partial, SoFar, Fine, Overrides, Fails,
     AttributionReasons, TenantReasons, ConsentReasons, Event
<1>4. f.decision = "allow" => e.decision = "allow" /\ c.status \in Fine
  BY <1>1 DEF Overrides, Fails, Fine
<1> QED BY <1>1, <1>2, <1>3, <1>4 DEF f

LEMMA TakePosture ==
  ASSUME NEW e \in Event, AfterConsent(e), NEW c,
         \/ c.status \in Fine /\ ~Fatal(c)
         \/ c.status \in {"missing", "invalid"} /\ c.reason \in PostureReasons /\ ~Fatal(c)
         \/ c.status = "invalid" /\ c.reason = "posture-registry-unavailable" /\ Fatal(c)
  PROVE  LET f == [After(e, c) EXCEPT !.posture = c.status] IN
         /\ f \in Event /\ Explained(f)
         /\ f.decision = "allow" => e.decision = "allow" /\ c.status \in Fine
<1> DEFINE f == [After(e, c) EXCEPT !.posture = c.status]
<1>1. /\ f.posture = c.status /\ f.tenant = e.tenant /\ f.consent = e.consent
      /\ f.principalKnown = e.principalKnown
      /\ f.decision = IF Overrides(e, c) THEN "reject" ELSE e.decision
      /\ f.reason = IF Overrides(e, c) THEN c.reason ELSE e.reason
      /\ f \in Event
  <2>1. c.status \in Statuses /\ (Overrides(e, c) => c.reason \in Reasons)
    BY DEF Statuses, Reasons, Fine, Overrides, Fails, Fatal, PostureReasons
  <2>2. CASE Overrides(e, c)
    BY <2>1, <2>2 DEF After, Event
  <2>3. CASE ~Overrides(e, c)
    BY <2>1, <2>3 DEF After, Event
  <2> QED BY <2>2, <2>3
<1> HIDE DEF f
<1>2. Explained(f)
  BY <1>1 DEF AfterConsent, Partial, SoFar, Fine, Overrides, Fails, Fatal, Explained,
     AttributionReasons, TenantReasons, ConsentReasons, PostureReasons, Event
<1>3. f.decision = "allow" => e.decision = "allow" /\ c.status \in Fine
  BY <1>1 DEF Overrides, Fails, Fine
<1> QED BY <1>1, <1>2, <1>3 DEF f
-----------------------------------------------------------------------------
(* The steps of a gate, each from a good state to a good state. *)
LEMMA EventInLog ==
  ASSUME NEW e \in Event
  PROVE  <<e>> \in Seq(Event) /\ Len(<<e>>) = 1 /\ <<e>> # <<>> /\ <<e>>[1] = e /\ DOMAIN <<e>> = {1}
OBVIOUS

(* A step that only decides: a new event, nothing logged. *)
LEMMA ConcludeStep ==
  ASSUME NEW w, NEW s, Good(w, s), s.pc \in {"principals", "tenant", "consent", "posture"},
         NEW e \in Event, NEW next \in {"tenant", "consent", "posture", "emit"},
         NEW t, t = [s EXCEPT !.event = e, !.pc = next],
         Stage(t), Backed(t)
  PROVE  Good(w, t)
<1>1. /\ t \in RunState /\ t.event = e /\ t.pc = next /\ t.logged = s.logged
      /\ t.outcome = s.outcome
  BY DEF Good, RunState
<1>2. s.logged = <<>> /\ s.outcome # "pass"
  BY DEF Good, Recorded, Passing
<1>3. Recorded(w, t)
  BY <1>1, <1>2 DEF Recorded
<1>4. Passing(w, t)
  BY <1>1, <1>2 DEF Passing
<1> QED BY <1>1, <1>3, <1>4 DEF Good

LEMMA OutcomeStep ==
  ASSUME NEW w, NEW s, Good(w, s), s.pc # "gone", NEW o \in {"block", "ungated"},
         NEW t, t = Done(s, o)
  PROVE  Good(w, t)
<1>1. /\ t \in RunState /\ t.event = s.event /\ t.pc = "gone" /\ t.logged = s.logged
      /\ t.outcome = o /\ t.held = s.held
  BY DEF Good, RunState, Done
<1> QED BY <1>1 DEF Good, Stage, Backed, Recorded, Passing

LEMMA EnterStep ==
  ASSUME NEW w, NEW s, Good(w, s), s.pc = "new", NEW h \in SUBSET Layers,
         NEW t, t = [s EXCEPT !.pc = "spawn", !.held = h]
  PROVE  Good(w, t)
<1>1. /\ t \in RunState /\ t.event = s.event /\ t.pc = "spawn" /\ t.logged = s.logged
      /\ t.outcome = s.outcome /\ t.held = h
  BY DEF Good, RunState
<1> QED BY <1>1 DEF Good, Stage, Backed, Recorded, Passing

LEMMA SpawnStep ==
  ASSUME NEW w, NEW s, Good(w, s), s.pc = "spawn", NEW t, t = [s EXCEPT !.pc = "principals"]
  PROVE  Good(w, t)
<1>1. /\ t \in RunState /\ t.event = s.event /\ t.pc = "principals" /\ t.logged = s.logged
      /\ t.outcome = s.outcome /\ t.held = s.held
  BY DEF Good, RunState
<1> QED BY <1>1 DEF Good, Stage, Backed, Recorded, Passing

LEMMA DiesStep ==
  ASSUME NEW w, NEW s, Good(w, s), s.pc \in {"tenant", "emit"},
         NEW t, t = [s EXCEPT !.pc = "gone", !.code = 1]
  PROVE  Good(w, t)
<1>1. /\ t \in RunState /\ t.event = s.event /\ t.pc = "gone" /\ t.logged = s.logged
      /\ t.outcome = s.outcome /\ t.held = s.held /\ t.code = 1
  BY DEF Good, RunState
<1>2. s.outcome # "pass"
  BY DEF Good, Passing
<1> QED BY <1>1, <1>2 DEF Good, Stage, Backed, Recorded, Passing

LEMMA EmitStep ==
  ASSUME NEW w, NEW s, Good(w, s), s.pc = "emit",
         NEW t, \/ w.log = "none" /\ t = [s EXCEPT !.pc = "return"]
                \/ t = [s EXCEPT !.pc = "return", !.logged = Lines(s.event)]
  PROVE  Good(w, t)
<1>1. s.event \in Event /\ s.logged = <<>> /\ s.outcome # "pass" /\ Explained(s.event)
  BY DEF Good, RunState, Recorded, Passing, Stage
<1>2. /\ t \in RunState /\ t.event = s.event /\ t.pc = "return"
      /\ t.outcome = s.outcome /\ t.held = s.held
      /\ \/ t.logged = <<s.event>>
         \/ w.log = "none" /\ t.logged = <<>>
  BY <1>1, EventInLog DEF Good, RunState, Lines
<1> QED BY <1>1, <1>2 DEF Good, Stage, Backed, Recorded, Passing

LEMMA ReturnStep ==
  ASSUME NEW w, NEW s, Good(w, s), s.pc = "return",
         NEW t, t = [s EXCEPT !.pc = "gone", !.code = Code(s.event)]
  PROVE  Good(w, t)
<1>1. s.outcome # "pass" /\ (w.log # "none" => s.logged = <<s.event>>)
      /\ (s.event.decision = "allow" => s.held = Layers)
  BY DEF Good, Passing, Recorded, Backed
<1>2. Code(s.event) \in {0, 1, 2} /\ (Code(s.event) = 0 => s.event.decision = "allow")
  BY DEF Code
<1>3. /\ t \in RunState /\ t.event = s.event /\ t.pc = "gone" /\ t.logged = s.logged
      /\ t.outcome = s.outcome /\ t.held = s.held /\ t.code = Code(s.event)
  BY <1>2 DEF Good, RunState
<1>4. Recorded(w, t) /\ Stage(t) /\ Backed(t)
  BY <1>3 DEF Good, Recorded, Stage, Backed
<1>5. Passing(w, t)
  BY <1>1, <1>2, <1>3 DEF Passing, Justified
<1> QED BY <1>3, <1>4, <1>5 DEF Good

LEMMA SettleStep ==
  ASSUME NEW w, NEW s, Good(w, s), s.pc = "gone", s.outcome = "none",
         NEW t, t = Done(s, Outcome(s.code))
  PROVE  Good(w, t)
<1>1. Outcome(s.code) \in {"pass", "block"} /\ (Outcome(s.code) = "pass" => s.code = 0)
  BY DEF Outcome
<1>2. /\ t \in RunState /\ t.event = s.event /\ t.pc = "gone" /\ t.logged = s.logged
      /\ t.outcome = Outcome(s.code) /\ t.held = s.held /\ t.code = s.code
  BY <1>1 DEF Good, RunState, Done
<1> QED BY <1>1, <1>2 DEF Good, Stage, Backed, Recorded, Passing, Justified

(* The timer fires: the gate is gone, or goes on without being heard. *)
LEMMA TimeoutStep ==
  ASSUME NEW w, NEW s, Good(w, s), s.pc \in Gating,
         NEW t, t \in {[s EXCEPT !.outcome = AtTimeout, !.pc = "gone"], [s EXCEPT !.outcome = AtTimeout]}
  PROVE  Good(w, t)
<1>1. /\ t \in RunState /\ t.event = s.event /\ t.pc \in {s.pc, "gone"} /\ t.logged = s.logged
      /\ t.outcome = "block" /\ t.held = s.held
  BY DEF Good, RunState, AtTimeout
<1> QED BY <1>1 DEF Good, Stage, Backed, Recorded, Passing, Gating

(* The world changes: more has held. *)
LEMMA NoticeStep ==
  ASSUME NEW w, NEW s, Good(w, s), s.pc \in Gating \cup {"spawn"}, NEW h \in SUBSET Layers,
         NEW t, t = [s EXCEPT !.held = @ \cup h]
  PROVE  Good(w, t) /\ t.held = s.held \cup h /\ t.pc = s.pc /\ t.request = s.request
<1>1. /\ t \in RunState /\ t.event = s.event /\ t.pc = s.pc /\ t.logged = s.logged
      /\ t.outcome = s.outcome /\ t.held = s.held \cup h /\ t.request = s.request
      /\ s.held \subseteq Layers
  BY DEF Good, RunState
<1> QED BY <1>1 DEF Good, Stage, Backed, Recorded, Passing, Gating
-----------------------------------------------------------------------------
LEMMA HoldingType ==
  ASSUME NEW w, NEW req, NEW reg, NEW valid
  PROVE  Holding(w, req, reg, valid) \in SUBSET Layers
BY DEF Holding

(* One message goes on; the world and the others stay as they are. *)
LEMMA OneMessage ==
  ASSUME IInv, NEW m \in Messages, NEW t, Becomes(m, t), UNCHANGED world,
         Good(wired, t), Noticed(wired, registry, jwtValid, t)
  PROVE  IInv'
<1>1. WorldOK' /\ wired' = wired /\ registry' = registry /\ jwtValid' = jwtValid
  BY DEF IInv, WorldOK, world
<1>2. t \in RunState
  BY DEF Good
<1>3. run' \in [Messages -> RunState]
  BY <1>2 DEF IInv, Becomes
<1>4. ASSUME NEW n \in Messages
      PROVE  Good(wired, run'[n]) /\ Noticed(wired, registry, jwtValid, run'[n])
  <2>1. run'[n] = IF n = m THEN t ELSE run[n]
    BY DEF IInv, Becomes
  <2> QED BY <2>1 DEF IInv
<1> QED BY <1>1, <1>3, <1>4 DEF IInv

(* The world changes, and every message at its gate takes notice. *)
LEMMA AllNotice ==
  ASSUME IInv, NEW reg, NEW valid, Notice(reg, valid), registry' = reg, jwtValid' = valid,
         UNCHANGED wired, WorldOK'
  PROVE  IInv'
<1> DEFINE h(m) == Holding(wired, run[m].request, reg, valid)
           t(m) == [run[m] EXCEPT !.held = @ \cup h(m)]
<1>1. ASSUME NEW m \in Messages
      PROVE  Good(wired, run'[m]) /\ Noticed(wired, reg, valid, run'[m])
  <2>1. Good(wired, run[m]) /\ h(m) \in SUBSET Layers
    BY HoldingType DEF IInv
  <2>2. CASE run[m].pc \in Gating \cup {"spawn"}
    <3>1. run'[m] = t(m)
      BY <2>2 DEF Notice
    <3>2. /\ Good(wired, t(m)) /\ t(m).held = run[m].held \cup h(m)
          /\ t(m).pc = run[m].pc /\ t(m).request = run[m].request
      BY <2>1, <2>2, NoticeStep
    <3> QED BY <3>1, <3>2 DEF Noticed
  <2>3. CASE run[m].pc \notin Gating \cup {"spawn"}
    <3>1. run'[m] = run[m]
      BY <2>3 DEF Notice
    <3> QED BY <2>1, <2>3, <3>1 DEF Noticed
  <2> QED BY <2>2, <2>3
<1>2. run' \in [Messages -> RunState]
  <2>1. \A m \in Messages : run'[m] \in RunState
    BY <1>1 DEF Good
  <2>2. run' = [m \in Messages |-> run'[m]]
    BY DEF Notice
  <2> QED BY <2>1, <2>2
<1> QED BY <1>1, <1>2 DEF IInv
-----------------------------------------------------------------------------
LEMMA InitIInv == Init => IInv
<1> SUFFICES ASSUME Init PROVE IInv
  OBVIOUS
<1>1. WorldOK
  BY DEF Init, WorldOK
<1>2. PICK req \in [Messages -> Requests] :
        run = [m \in Messages |->
                 [pc |-> "new", request |-> req[m], event |-> NoEvent, logged |-> <<>>,
                  code |-> 0, outcome |-> "none", held |-> {}]]
  BY DEF Init
<1>3. NoEvent \in Event
  BY DEF NoEvent, Decision, Event, Reasons, Statuses
<1>4. ASSUME NEW m \in Messages
      PROVE  Good(wired, run[m]) /\ Noticed(wired, registry, jwtValid, run[m])
  <2>1. /\ run[m] \in RunState /\ run[m].pc = "new" /\ run[m].logged = <<>>
        /\ run[m].outcome = "none"
    BY <1>2, <1>3 DEF RunState
  <2> QED BY <2>1 DEF Good, Stage, Backed, Recorded, Passing, Noticed, Gating
<1>5. run \in [Messages -> RunState]
  BY <1>2, <1>4 DEF Good
<1> QED BY <1>1, <1>4, <1>5 DEF IInv

(* A decision that is taken over holds at the next step of its gate. *)
LEMMA PrincipalsRead ==
  ASSUME IInv, NEW m \in Messages, ReadPrincipals(m)
  PROVE  IInv'
<1> DEFINE s == run[m]
           e == Evaluate(s.request, registry.principals)
           next == IF registry.principals = Broken THEN "emit" ELSE "tenant"
           t == [s EXCEPT !.event = e, !.pc = next]
<1>1. /\ Good(wired, s) /\ Noticed(wired, registry, jwtValid, s) /\ s.pc = "principals"
      /\ s.request \in Request /\ s \in RunState /\ registry \in Registries
  BY RunAssumption DEF IInv, WorldOK, ReadPrincipals, Good, RunState
<1>2. /\ e \in Event
      /\ e.decision = "allow" => Known(s.request, registry)
      /\ registry.principals = Broken => Explained(e) /\ e.decision = "reject"
      /\ registry.principals # Broken => AfterPrincipal(e)
  BY <1>1, EvaluateDecides DEF Known, Event
<1>3. Known(s.request, registry) => "principal" \in s.held
  BY <1>1 DEF Noticed, Holding, Layers, Gating
<1>4. t.event = e /\ t.pc = next /\ t.held = s.held /\ t.request = s.request
  BY <1>1 DEF RunState
<1>5. Becomes(m, t) /\ UNCHANGED world
  BY DEF ReadPrincipals, Conclude
<1> HIDE DEF e, t
<1>6. Stage(t) /\ Backed(t)
  BY <1>2, <1>3, <1>4 DEF Stage, Backed
<1>7. Good(wired, t)
  BY <1>1, <1>2, <1>6, ConcludeStep DEF t
<1>8. Noticed(wired, registry, jwtValid, t)
  BY <1>1, <1>4 DEF Noticed, Gating
<1> QED BY <1>5, <1>7, <1>8, OneMessage

LEMMA TenantChecked ==
  ASSUME IInv, NEW m \in Messages, CheckTenant(m)
  PROVE  IInv'
<1> DEFINE s == run[m]
           c(answer) == TenantCheck(s.request, wired.tenant, answer)
           e(answer) == [After(s.event, c(answer)) EXCEPT !.tenant = c(answer).status]
           t(answer) == [s EXCEPT !.event = e(answer), !.pc = "consent"]
           died == [s EXCEPT !.pc = "gone", !.code = 1]
<1>1. /\ Good(wired, s) /\ Noticed(wired, registry, jwtValid, s) /\ s.pc = "tenant"
      /\ s.request \in Request /\ s \in RunState /\ s.event \in Event
      /\ wired.tenant \in BOOLEAN /\ jwtValid \in BOOLEAN /\ UNCHANGED world
  BY RunAssumption DEF IInv, WorldOK, CheckTenant, Good, RunState, Wiring
<1>2. CASE Becomes(m, died)
  <2>1. Good(wired, died)
    BY <1>1, DiesStep
  <2>2. died.pc = "gone"
    BY <1>1 DEF RunState
  <2>3. Noticed(wired, registry, jwtValid, died)
    BY <2>2 DEF Noticed, Gating
  <2> QED BY <1>1, <1>2, <2>1, <2>3, OneMessage
<1>3. ASSUME NEW answer \in Answers, Becomes(m, t(answer))
      PROVE  IInv'
  <2>1. AfterPrincipal(s.event) /\ (s.event.decision = "allow" => "principal" \in s.held)
    BY <1>1 DEF Good, Stage, Backed
  <2>2. /\ \/ c(answer).status \in Fine
           \/ c(answer).status \in {"missing", "invalid"} /\ c(answer).reason \in TenantReasons
        /\ ~Fatal(c(answer))
        /\ c(answer).status \in Fine => (wired.tenant => Tenanted(s.request, jwtValid))
    BY <1>1, <1>3, TenantDecides DEF Answers
  <2>3. /\ e(answer) \in Event /\ AfterTenant(e(answer))
        /\ e(answer).decision = "allow" => s.event.decision = "allow" /\ c(answer).status \in Fine
    BY <1>1, <2>1, <2>2, TakeTenant
  <2>4. (wired.tenant => Tenanted(s.request, jwtValid)) => "tenant" \in s.held
    BY <1>1 DEF Noticed, Holding, Layers, Gating
  <2>5. /\ t(answer).event = e(answer) /\ t(answer).pc = "consent" /\ t(answer).held = s.held
        /\ t(answer).request = s.request
    BY <1>1 DEF RunState
  <2> HIDE DEF e, t, c
  <2>6. Stage(t(answer)) /\ Backed(t(answer))
    BY <2>1, <2>2, <2>3, <2>4, <2>5 DEF Stage, Backed
  <2>7. Good(wired, t(answer))
    BY <1>1, <2>3, <2>6, ConcludeStep DEF t
  <2>8. Noticed(wired, registry, jwtValid, t(answer))
    BY <1>1, <2>5 DEF Noticed, Gating
  <2> QED BY <1>1, <1>3, <2>7, <2>8, OneMessage
<1> QED BY <1>2, <1>3 DEF CheckTenant, Conclude, Dies

LEMMA ConsentChecked ==
  ASSUME IInv, NEW m \in Messages, CheckConsent(m)
  PROVE  IInv'
<1> DEFINE s == run[m]
           c == ConsentCheck(s.request, wired.consent, registry.consent)
           e == [After(s.event, c) EXCEPT !.consent = c.status]
           next == IF Fatal(c) THEN "emit" ELSE "posture"
           t == [s EXCEPT !.event = e, !.pc = next]
<1>1. /\ Good(wired, s) /\ Noticed(wired, registry, jwtValid, s) /\ s.pc = "consent"
      /\ s.request \in Request /\ s \in RunState /\ s.event \in Event
      /\ wired.consent \in BOOLEAN /\ registry \in Registries
      /\ UNCHANGED world /\ Becomes(m, t)
  BY RunAssumption DEF IInv, WorldOK, CheckConsent, Good, RunState, Wiring, Conclude
<1>2. /\ AfterTenant(s.event)
      /\ s.event.decision = "allow" => {"principal", "tenant"} \subseteq s.held
  BY <1>1 DEF Good, Stage, Backed
<1>3. /\ \/ c.status \in Fine /\ ~Fatal(c)
         \/ c.status \in {"missing", "invalid", "revoked"} /\ c.reason \in ConsentReasons /\ ~Fatal(c)
         \/ c.status = "invalid" /\ c.reason = "consent-registry-unavailable" /\ Fatal(c)
      /\ c.status \in Fine => (wired.consent => Consented(s.request, registry))
  BY <1>1, ConsentDecides
<1>4. (wired.consent => Consented(s.request, registry)) => "consent" \in s.held
  BY <1>1 DEF Noticed, Holding, Layers, Gating
<1> HIDE DEF c
<1>5. /\ e \in Event
      /\ Fatal(c) => Explained(e)
      /\ ~Fatal(c) => AfterConsent(e)
      /\ e.decision = "allow" => s.event.decision = "allow" /\ c.status \in Fine
  BY <1>1, <1>2, <1>3, TakeConsent
<1>6. t.event = e /\ t.pc = next /\ t.held = s.held /\ t.request = s.request
  BY <1>1 DEF RunState
<1> HIDE DEF e, t
<1>7. Fatal(c) => c.status \notin Fine
  BY <1>3 DEF Fine
<1>8. Stage(t) /\ Backed(t)
  BY <1>2, <1>3, <1>4, <1>5, <1>6, <1>7 DEF Stage, Backed
<1>9. Good(wired, t)
  BY <1>1, <1>5, <1>8, ConcludeStep DEF t
<1>10. Noticed(wired, registry, jwtValid, t)
  BY <1>1, <1>6 DEF Noticed, Gating
<1> QED BY <1>1, <1>9, <1>10, OneMessage

LEMMA PostureChecked ==
  ASSUME IInv, NEW m \in Messages, CheckPosture(m)
  PROVE  IInv'
<1> DEFINE s == run[m]
           c == PostureCheck(s.request, wired.posture, registry.posture)
           e == [After(s.event, c) EXCEPT !.posture = c.status]
           t == [s EXCEPT !.event = e, !.pc = "emit"]
<1>1. /\ Good(wired, s) /\ Noticed(wired, registry, jwtValid, s) /\ s.pc = "posture"
      /\ s.request \in Request /\ s \in RunState /\ s.event \in Event
      /\ wired.posture \in BOOLEAN /\ registry \in Registries
      /\ UNCHANGED world /\ Becomes(m, t)
  BY RunAssumption DEF IInv, WorldOK, CheckPosture, Good, RunState, Wiring, Conclude
<1>2. /\ AfterConsent(s.event)
      /\ s.event.decision = "allow" => {"principal", "tenant", "consent"} \subseteq s.held
      /\ s.held \subseteq Layers
  BY <1>1 DEF Good, Stage, Backed, RunState
<1>3. /\ \/ c.status \in Fine /\ ~Fatal(c)
         \/ c.status \in {"missing", "invalid"} /\ c.reason \in PostureReasons /\ ~Fatal(c)
         \/ c.status = "invalid" /\ c.reason = "posture-registry-unavailable" /\ Fatal(c)
      /\ c.status \in Fine => (wired.posture => Routed(s.request, registry))
  BY <1>1, PostureDecides
<1>4. (wired.posture => Routed(s.request, registry)) => "posture" \in s.held
  BY <1>1 DEF Noticed, Holding, Layers, Gating
<1> HIDE DEF c
<1>5. /\ e \in Event /\ Explained(e)
      /\ e.decision = "allow" => s.event.decision = "allow" /\ c.status \in Fine
  BY <1>1, <1>2, <1>3, TakePosture
<1>6. t.event = e /\ t.pc = "emit" /\ t.held = s.held /\ t.request = s.request
  BY <1>1 DEF RunState
<1> HIDE DEF e, t
<1>7. Stage(t) /\ Backed(t)
  BY <1>2, <1>3, <1>4, <1>5, <1>6 DEF Stage, Backed, Layers
<1>8. Good(wired, t)
  BY <1>1, <1>5, <1>7, ConcludeStep DEF t
<1>9. Noticed(wired, registry, jwtValid, t)
  BY <1>1, <1>6 DEF Noticed, Gating
<1> QED BY <1>1, <1>8, <1>9, OneMessage

(* The other steps of a message. *)
LEMMA StepOfMessage ==
  ASSUME IInv, NEW m \in Messages,
         Enter(m) \/ Spawn(m) \/ Emit(m) \/ Return(m) \/ Settle(m) \/ Timeout(m)
  PROVE  IInv'
<1> DEFINE s == run[m]
<1>1. /\ Good(wired, s) /\ Noticed(wired, registry, jwtValid, s) /\ s \in RunState
      /\ UNCHANGED world
  BY DEF IInv, Enter, Spawn, Emit, Return, Settle, Timeout, Good
<1>2. CASE Enter(m)
  <2> DEFINE h == Holding(wired, s.request, registry, jwtValid)
             out == Done(s, "ungated")
             on == [s EXCEPT !.pc = "spawn", !.held = h]
  <2>1. s.pc = "new" /\ (Becomes(m, out) \/ Becomes(m, on))
    BY <1>2 DEF Enter
  <2>2. Good(wired, out) /\ Good(wired, on)
    BY <1>1, <2>1, OutcomeStep, EnterStep, HoldingType
  <2>3. out.pc = "gone" /\ on.held = h /\ on.request = s.request
    BY <1>1 DEF Done, RunState
  <2>4. Noticed(wired, registry, jwtValid, out) /\ Noticed(wired, registry, jwtValid, on)
    BY <2>3 DEF Noticed, Gating
  <2> QED BY <1>1, <2>1, <2>2, <2>4, OneMessage
<1>3. CASE Spawn(m)
  <2> DEFINE out == Done(s, "block")
             on == [s EXCEPT !.pc = "principals"]
  <2>1. s.pc = "spawn" /\ (Becomes(m, out) \/ Becomes(m, on))
    BY <1>3 DEF Spawn
  <2>2. Good(wired, out) /\ Good(wired, on)
    BY <1>1, <2>1, OutcomeStep, SpawnStep
  <2>3. out.pc = "gone" /\ on.held = s.held /\ on.request = s.request
    BY <1>1 DEF Done, RunState
  <2>4. Noticed(wired, registry, jwtValid, out) /\ Noticed(wired, registry, jwtValid, on)
    BY <1>1, <2>1, <2>3 DEF Noticed, Gating
  <2> QED BY <1>1, <2>1, <2>2, <2>4, OneMessage
<1>4. CASE Emit(m)
  <2> DEFINE died == [s EXCEPT !.pc = "gone", !.code = 1]
             quiet == [s EXCEPT !.pc = "return"]
             wrote == [s EXCEPT !.pc = "return", !.logged = Lines(s.event)]
  <2>1. /\ s.pc = "emit"
        /\ \/ Becomes(m, died) \/ Becomes(m, wrote)
           \/ wired.log = "none" /\ Becomes(m, quiet)
    BY <1>4 DEF Emit, Dies
  <2>2. Good(wired, died) /\ Good(wired, wrote) /\ (wired.log = "none" => Good(wired, quiet))
    BY <1>1, <2>1, DiesStep, EmitStep
  <2>3. /\ died.pc = "gone" /\ quiet.held = s.held /\ quiet.request = s.request
        /\ wrote.held = s.held /\ wrote.request = s.request
    BY <1>1 DEF RunState
  <2>4. /\ Noticed(wired, registry, jwtValid, died) /\ Noticed(wired, registry, jwtValid, quiet)
        /\ Noticed(wired, registry, jwtValid, wrote)
    BY <1>1, <2>1, <2>3 DEF Noticed, Gating
  <2> QED BY <1>1, <2>1, <2>2, <2>4, OneMessage
<1>5. CASE Return(m)
  <2> DEFINE t == [s EXCEPT !.pc = "gone", !.code = Code(s.event)]
  <2>1. s.pc = "return" /\ Becomes(m, t)
    BY <1>5 DEF Return
  <2>2. Good(wired, t)
    BY <1>1, <2>1, ReturnStep
  <2>3. t.pc = "gone"
    BY <1>1 DEF RunState
  <2>4. Noticed(wired, registry, jwtValid, t)
    BY <2>3 DEF Noticed, Gating
  <2> QED BY <1>1, <2>1, <2>2, <2>4, OneMessage
<1>6. CASE Settle(m)
  <2> DEFINE t == Done(s, Outcome(s.code))
  <2>1. s.pc = "gone" /\ s.outcome = "none" /\ Becomes(m, t)
    BY <1>6 DEF Settle
  <2>2. Good(wired, t)
    BY <1>1, <2>1, SettleStep
  <2>3. t.pc = "gone"
    BY <1>1 DEF RunState, Done
  <2>4. Noticed(wired, registry, jwtValid, t)
    BY <2>3 DEF Noticed, Gating
  <2> QED BY <1>1, <2>1, <2>2, <2>4, OneMessage
<1>7. CASE Timeout(m)
  <2> DEFINE gone == [s EXCEPT !.outcome = AtTimeout, !.pc = "gone"]
             on == [s EXCEPT !.outcome = AtTimeout]
  <2>1. s.pc \in Gating /\ (Becomes(m, gone) \/ Becomes(m, on))
    BY <1>7 DEF Timeout
  <2>2. Good(wired, gone) /\ Good(wired, on)
    BY <1>1, <2>1, TimeoutStep
  <2>3. gone.pc = "gone" /\ on.held = s.held /\ on.request = s.request
    BY <1>1 DEF RunState
  <2>4. Noticed(wired, registry, jwtValid, gone) /\ Noticed(wired, registry, jwtValid, on)
    BY <1>1, <2>1, <2>3 DEF Noticed, Gating
  <2> QED BY <1>1, <2>1, <2>2, <2>4, OneMessage
<1> QED BY <1>2, <1>3, <1>4, <1>5, <1>6, <1>7

LEMMA WorldStep ==
  ASSUME IInv,
         \/ Redeploy \/ BrokerChanges
         \/ \E content \in {Broken} \cup PrincipalsFile : Replace("principals", content)
         \/ \E content \in {Broken} \cup ConsentFile : Replace("consent", content)
         \/ \E content \in {Broken} \cup PostureFile : Replace("posture", content)
  PROVE  IInv'
<1>1. CASE Redeploy
  <2>1. /\ WorldOK' /\ run' = run /\ wired' = wired /\ registry' = registry /\ jwtValid' = jwtValid
    BY <1>1 DEF IInv, WorldOK, Redeploy
  <2> QED BY <2>1 DEF IInv
<1>2. CASE BrokerChanges
  <2>1. WorldOK' /\ wired' = wired /\ registry' = registry
    BY <1>2 DEF IInv, WorldOK, BrokerChanges
  <2> QED BY <1>2, <2>1, AllNotice DEF BrokerChanges
<1>3. ASSUME NEW file \in {"principals", "consent", "posture"}, NEW content, Replace(file, content),
             [registry EXCEPT ![file] = content] \in Registries
      PROVE  IInv'
  <2>1. WorldOK' /\ wired' = wired /\ jwtValid' = jwtValid
    BY <1>3 DEF IInv, WorldOK, Replace
  <2> QED BY <1>3, <2>1, AllNotice DEF Replace
<1>4. registry \in Registries
  BY DEF IInv, WorldOK
<1>5. /\ \A content \in {Broken} \cup PrincipalsFile : [registry EXCEPT !["principals"] = content] \in Registries
      /\ \A content \in {Broken} \cup ConsentFile : [registry EXCEPT !["consent"] = content] \in Registries
      /\ \A content \in {Broken} \cup PostureFile : [registry EXCEPT !["posture"] = content] \in Registries
  BY <1>4 DEF Registries
<1> QED BY <1>1, <1>2, <1>3, <1>5

LEMMA NextIInv == IInv /\ [Next]_vars => IInv'
<1> SUFFICES ASSUME IInv, [Next]_vars PROVE IInv'
  OBVIOUS
<1>1. ASSUME NEW m \in Messages, ReadPrincipals(m) PROVE IInv'
  BY <1>1, PrincipalsRead
<1>2. ASSUME NEW m \in Messages, CheckTenant(m) PROVE IInv'
  BY <1>2, TenantChecked
<1>3. ASSUME NEW m \in Messages, CheckConsent(m) PROVE IInv'
  BY <1>3, ConsentChecked
<1>4. ASSUME NEW m \in Messages, CheckPosture(m) PROVE IInv'
  BY <1>4, PostureChecked
<1>5. ASSUME NEW m \in Messages,
             Enter(m) \/ Spawn(m) \/ Emit(m) \/ Return(m) \/ Settle(m) \/ Timeout(m)
      PROVE  IInv'
  BY <1>5, StepOfMessage
<1>6. CASE UNCHANGED vars
  BY <1>6 DEF vars, IInv, WorldOK
<1> QED BY <1>1, <1>2, <1>3, <1>4, <1>5, <1>6, WorldStep DEF Next

LEMMA SpecIInv == Spec => []IInv
BY InitIInv, NextIInv, PTL DEF Spec

LEMMA IInvTypes == IInv => TypeOK
<1> SUFFICES ASSUME IInv PROVE TypeOK
  OBVIOUS
<1>1. ASSUME NEW m \in Messages
      PROVE  /\ Len(run[m].logged) <= 1
             /\ run[m].pc \in {"new", "spawn"} => run[m].logged = <<>> /\ run[m].outcome = "none"
  <2>1. Good(wired, run[m]) /\ run[m].event \in Event
    BY DEF IInv, Good, RunState
  <2>2. Len(<<>>) = 0 /\ Len(<<run[m].event>>) = 1
    OBVIOUS
  <2>3. Len(run[m].logged) \in {0, 1}
    BY <2>1, <2>2 DEF Good, Recorded
  <2>4. Len(run[m].logged) <= 1
    <3> DEFINE n == Len(run[m].logged)
    <3> HIDE DEF n
    <3>1. n \in {0, 1}
      BY <2>3 DEF n
    <3>2. n <= 1
      BY <3>1
    <3> QED BY <3>2 DEF n
  <2>5. run[m].pc \in {"new", "spawn"} => run[m].logged = <<>> /\ run[m].outcome = "none"
    BY <2>1 DEF Good, Recorded, Passing
  <2> QED BY <2>4, <2>5
<1> QED BY <1>1 DEF IInv, WorldOK, TypeOK

LEMMA IInvAllowed == IInv => PassedWasAllowed
BY DEF IInv, Good, Passing, Justified, PassedWasAllowed

LEMMA IInvLogged == IInv => PassedIsLogged
<1> SUFFICES ASSUME IInv, NEW m \in Messages, run[m].outcome = "pass", wired.log # "none"
             PROVE  \E e \in Event : e.decision = "allow" /\ run[m].logged = <<e>>
  BY DEF PassedIsLogged
<1>1. run[m].event \in Event
  BY DEF IInv, RunState
<1>2. run[m].event.decision = "allow" /\ run[m].logged = <<run[m].event>>
  BY DEF IInv, Good, Passing, Justified
<1> QED BY <1>1, <1>2

LEMMA IInvExplains == IInv => ReasonsExplain
<1> SUFFICES ASSUME IInv, NEW m \in Messages, NEW i \in DOMAIN run[m].logged
             PROVE  Explained(run[m].logged[i])
  BY DEF ReasonsExplain
<1> DEFINE e == run[m].event
<1>1. e \in Event /\ (run[m].logged = <<>> \/ (run[m].logged = <<e>> /\ Explained(e)))
  BY DEF IInv, Good, Recorded, RunState
<1>2. DOMAIN <<>> = {} /\ DOMAIN <<e>> = {1} /\ <<e>>[1] = e
  OBVIOUS
<1> HIDE DEF e
<1>3. run[m].logged = <<e>> /\ i = 1 /\ Explained(e)
  BY <1>1, <1>2
<1> QED BY <1>2, <1>3
-----------------------------------------------------------------------------
(* Types are respected and a gate logs one decision at most, whatever the  *)
(* registries, the broker and the plugin's timer do meanwhile.             *)
THEOREM Types == Spec => []TypeOK
BY SpecIInv, IInvTypes, PTL

(* A message the gate lets pass met every wired check at some time since   *)
(* it came in.                                                             *)
THEOREM PassesWereAllowed == Spec => []PassedWasAllowed
BY SpecIInv, IInvAllowed, PTL

(* A message the gate lets pass has its one line in the event log.         *)
THEOREM PassesAreLogged == Spec => []PassedIsLogged
BY SpecIInv, IInvLogged, PTL

(* A logged decision agrees with the statuses on its line and names the    *)
(* first check that failed.                                                *)
THEOREM LogExplains == Spec => []ReasonsExplain
BY SpecIInv, IInvExplains, PTL
=============================================================================
