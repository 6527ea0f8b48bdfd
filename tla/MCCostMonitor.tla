--------------------------- MODULE MCCostMonitor ---------------------------
(* Two trajectory files, three events of four kinds. *)
EXTENDS CostMonitorProps

CONSTANTS a1, a2, p, m

MCFiles == <<"a1/sessions/s1", "a2/sessions/s2">>

Tokens(i, o) == [k \in Kinds |-> CASE k = "input" -> i [] k = "output" -> o [] OTHER -> 0]
Id(provider, upper) == [provider |-> provider, name |-> m, upper |-> upper]
Unpriced == [type |-> "model", named |-> a1, session |-> None, model |-> Id(None, TRUE), ts |-> 2,
             usage |-> Tokens(1, 2), cost |-> None, lastCall |-> [total |-> 0, input |-> 0]]
Priced == [Unpriced EXCEPT !.named = None, !.session = a2, !.model = Id(p, FALSE), !.ts = 1,
                           !.cost = 7]
Nobodys == [Unpriced EXCEPT !.named = None, !.model = None]
Compiled(ts, total) == [Unpriced EXCEPT !.type = "context", !.ts = ts, !.lastCall.total = total]
MCEvents == {Unpriced, Priced, Nobodys, Compiled(1, 1), Compiled(3, 5)}

Entry(id, price) == [id |-> id, price |-> Tokens(price, 1)]
MCAsked ==
  {[kind |-> "cost", cutoff |-> 2, list |-> <<Entry(Id(p, FALSE), 3), Entry(Id(None, FALSE), 1)>>],
   [kind |-> "cost", cutoff |-> 0,
    list |-> <<Entry(Id(p, TRUE), 4), Entry(Id(p, FALSE), 2), Entry(Id(p, TRUE), 5)>>],
   [kind |-> "health", cutoff |-> 0, list |-> None],
   [kind |-> "sessions", cutoff |-> 0, list |-> None]}
=============================================================================
