\* One message past a gate with four kinds of environment, while the
\* registries, the shim and the broker change.
CONSTANTS
  actor = actor
  agent = agent
  capability = capability
  route = route
  Actors <- MCActors
  Agents <- MCAgents
  Capabilities <- MCCapabilities
  Routes <- MCRoutes
  Absent = Absent
  Broken = Broken
  Messages = {m1}
  Requests <- MCRequests
  Wirings <- MCWirings
SPECIFICATION FairSpec
INVARIANTS TypeOK PassedWasAllowed PassedIsLogged ReasonsExplain
PROPERTIES MessagesSettle
