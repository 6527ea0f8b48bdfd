----------------------------- MODULE CostReport -----------------------------
(***************************************************************************)
(* What scripts/cost-monitor.py and lifecycle.collect_sessions make of the *)
(* trajectory events they have read: the price of a call, the totals per   *)
(* agent and per model, the rows of context-health, the session summaries. *)
(*                                                                         *)
(* Abstractions: money and tokens are naturals (a price is per token); a   *)
(* time is a natural, 0 where it is absent or cannot be parsed; a model id *)
(* is a name, behind a provider or not, in lower case or not.              *)
(***************************************************************************)
EXTENDS Integers, SequencesExt, FiniteSetsExt

CONSTANTS
  Agents, Providers, Names,
  Recent,      \* how many compilations context-health shows (10)
  WarnAbove,   \* and how many of them may be high without a warning (3)
  None

ASSUME ReportAssumption == Recent \in Nat /\ WarnAbove \in Nat

Kinds == {"input", "output", "cacheRead", "cacheWrite"}
ModelIds == [provider : Providers \cup {None}, name : Names, upper : BOOLEAN]
Lower(id) == [id EXCEPT !.upper = FALSE]
Bare(id) == [id EXCEPT !.provider = None]

Event == [type     : {"model", "context", "other"},
          named    : Agents \cup {None},     \* data.agentId
          session  : Agents \cup {None},     \* the agent of the session key
          model    : ModelIds \cup {None},
          ts       : Nat,
          usage    : [Kinds -> Nat] \cup {None},
          cost     : Nat \cup {None},        \* data.usage.cost.total
          lastCall : [total : Nat, input : Nat]]
-----------------------------------------------------------------------------
(* The price list, under the names trajectories use for its models.        *)
Put(f, x, v) == [y \in DOMAIN f \cup {x} |-> IF y = x THEN v ELSE f[y]]
IfAbsent(table, id, price) ==
  IF id \in DOMAIN table THEN table ELSE Put(table, id, price)

IndexFullIfAbsent(table, m) == IfAbsent(table, m.id, m.price)
IndexFull(table, m) == Put(table, m.id, m.price)
IndexModel(table, m) ==
  LET Spelled(t, id) == IfAbsent(t, id, m.price)
  IN  Spelled(Spelled(Spelled(IndexFull(table, m), Bare(m.id)), Lower(m.id)), Lower(Bare(m.id)))

CostTable(list) == IF list = None THEN <<>> ELSE FoldLeft(IndexModel, <<>>, list)

ResolveCostBlock(id, table) ==
  LET spelled == <<id, Lower(id), Bare(id), Lower(Bare(id))>>
      hits == {i \in 1..4 : spelled[i] \in DOMAIN table}
  IN  IF hits = {} THEN None ELSE table[spelled[Min(hits)]]

Usage(e) == IF e.usage = None THEN [k \in Kinds |-> 0] ELSE e.usage

ComputeCost(e, table) ==
  LET block == IF e.model = None THEN None ELSE ResolveCostBlock(e.model, table)
  IN  IF e.usage # None /\ e.cost # None THEN e.cost
      ELSE IF block = None THEN 0
      ELSE SumFunction([k \in Kinds |-> Usage(e)[k] * block[k]])
-----------------------------------------------------------------------------
(* Which events a report takes.  A cutoff of 0 is no cutoff.               *)
AgentOf(e) == IF e.named # None THEN e.named ELSE e.session
WithinDays(e, cutoff) == e.ts = 0 \/ e.ts >= cutoff

Takes(ask, e) ==
  \/ ask.kind = "sessions"
  \/ /\ e.type = IF ask.kind = "health" THEN "context" ELSE "model"
     /\ WithinDays(e, ask.cutoff)
     /\ AgentOf(e) # None
-----------------------------------------------------------------------------
EmptyTotals == [tokens |-> [k \in Kinds |-> 0], cost |-> 0, calls |-> 0]
Accumulate(total, e, cost) ==
  [tokens |-> [k \in Kinds |-> total.tokens[k] + Usage(e)[k]],
   cost |-> total.cost + cost, calls |-> total.calls + 1]

AtNever(f, x, default) == default
At(f, x, default) == IF x \in DOMAIN f THEN f[x] ELSE default

EmptyAgent == [total |-> EmptyTotals, byModel |-> <<>>, last |-> 0]
AddCall(agent, e, cost) ==
  [total |-> Accumulate(agent.total, e, cost),
   byModel |-> Put(agent.byModel, e.model,
                   Accumulate(At(agent.byModel, e.model, EmptyTotals), e, cost)),
   last |-> IF e.ts > agent.last THEN e.ts ELSE agent.last]
AddEvent(byAgent, e, cost) ==
  Put(byAgent, AgentOf(e), AddCall(At(byAgent, AgentOf(e), EmptyAgent), e, cost))

Aggregate(events, table) ==
  FoldLeft(LAMBDA byAgent, e : AddEvent(byAgent, e, ComputeCost(e, table)), <<>>, events)

(* model-cost and model-usage; cost-report does it for every model.        *)
SumTotals(rows) ==
  [tokens |-> [k \in Kinds |-> SumFunction([a \in DOMAIN rows |-> rows[a].tokens[k]])],
   cost |-> SumFunction([a \in DOMAIN rows |-> rows[a].cost]),
   calls |-> SumFunction([a \in DOMAIN rows |-> rows[a].calls])]
ModelCost(byAgent, id) ==
  SumTotals([a \in DOMAIN byAgent |-> At(byAgent[a].byModel, id, EmptyTotals)])
Spend(byAgent) == SumFunction([a \in DOMAIN byAgent |-> byAgent[a].total.cost])
CostByModel(byAgent) ==
  [id \in UNION {DOMAIN byAgent[a].byModel : a \in DOMAIN byAgent} |-> ModelCost(byAgent, id)]
-----------------------------------------------------------------------------
(* context-health: the rows, the latest first, and its warning.            *)
Used(e) == IF e.usage = None THEN e.lastCall.input ELSE e.usage["input"]
High(e) == e.lastCall.total > 0 /\ 10 * Used(e) > 8 * e.lastCall.total

FirstRead(events) == SubSeq(events, 1, IF Len(events) < Recent THEN Len(events) ELSE Recent)
RowsAsRead(events) == FirstRead(events)

(* A stable sort: of two events of the same time the one read first stays  *)
(* ahead of the other.                                                     *)
Ahead(events, j) ==
  {k \in DOMAIN events :
     events[k].ts > events[j].ts \/ (events[k].ts = events[j].ts /\ k < j)}
Rank(events, j) == Cardinality(Ahead(events, j)) + 1
LatestFirst(events) ==
  [i \in DOMAIN events |-> events[CHOOSE j \in DOMAIN events : Rank(events, j) = i]]
Rows(events) == FirstRead(LatestFirst(events))
Warns(events) ==
  Cardinality({i \in DOMAIN Rows(events) : High(Rows(events)[i])}) > WarnAbove

(* lifecycle.collect_sessions, of the events of one file.                  *)
Summary(events) ==
  [count |-> Cardinality(DOMAIN events),
   last |-> Max({0} \cup {events[i].ts : i \in DOMAIN events}),
   models |-> {events[i].model : i \in DOMAIN events} \ {None}]
=============================================================================
