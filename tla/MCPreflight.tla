----------------------------- MODULE MCPreflight ----------------------------
(***************************************************************************)
(* The model-checked instance of PreflightRun: one actor, agent,           *)
(* capability and route, each present or not, and four gateway             *)
(* environments that between them wire every check and every kind of log.  *)
(***************************************************************************)
EXTENDS PreflightProps

CONSTANTS actor, agent, capability, route

MCActors == {actor}
MCAgents == {agent}
MCCapabilities == {capability}
MCRoutes == {route}

Full == [actor |-> actor, agent |-> agent, capability |-> capability, route |-> route,
         tenant |-> "jwt"]
MCRequests ==
  {Full, [Full EXCEPT !.actor = Absent, !.tenant = "none"], [Full EXCEPT !.agent = Absent],
   [Full EXCEPT !.capability = Absent, !.route = Absent, !.tenant = "triple"]}
AllWired == [tenant |-> TRUE, consent |-> TRUE, posture |-> TRUE, log |-> "writable",
             withoutSender |-> TRUE]
NoneWired == [tenant |-> FALSE, consent |-> FALSE, posture |-> FALSE, log |-> "unwritable",
              withoutSender |-> FALSE]
MCWirings ==
  {AllWired, NoneWired, [NoneWired EXCEPT !.tenant = TRUE, !.log = "writable"],
   [AllWired EXCEPT !.tenant = FALSE, !.log = "none"]}
=============================================================================
