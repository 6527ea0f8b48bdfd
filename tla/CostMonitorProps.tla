-------------------------- MODULE CostMonitorProps --------------------------
(***************************************************************************)
(* What a report may be relied on for, although it reads files that the    *)
(* gateway is writing.                                                     *)
(***************************************************************************)
EXTENDS CostMonitor

(* Types; the scan of a file goes past its end by the tail at most.        *)
TypeOK ==
  /\ lines \in [DOMAIN Files -> Seq(Events)]
  /\ tail \in [DOMAIN Files -> Tails]
  /\ there \subseteq DOMAIN Files
  /\ report \in Reports
  /\ report.pc = "read" => report.pos <= Len(lines[File]) + 1

Done(kind) == report.pc = "done" /\ report.ask.kind = kind
EventAt(at) == lines[at.file][at.line]
Seen == [i \in DOMAIN report.seen |-> EventAt(report.seen[i])]
Taken(at) == Takes(report.ask, EventAt(at))

(* The lines that were complete when the report began, of the files that   *)
(* it could open and read.                                                 *)
Settled ==
  {at \in [file : DOMAIN Files \ report.gone, line : 1..MaxEvents] :
     at.line <= report.globbed[at.file]}

(* A report that ends has counted every event of its kind and window that  *)
(* was complete when it began, once: neither a torn line nor a file that   *)
(* vanished or failed makes it miss another file's events ("skipped, scan  *)
(* continues", cost-monitor.py:322).                                       *)
EventsCounted ==
  report.pc = "done" =>
    /\ \A at \in Settled : Taken(at) => at \in Range(report.seen)
    /\ IsInjective(report.seen)

OfFile(f) ==
  Summary([i \in {i \in DOMAIN Seen : report.seen[i].file = f} |-> Seen[i]])

(* What is spent by the agents, by the models and by the single calls is   *)
(* the same, and no call is missing in the models' rows; a session's       *)
(* summary counts its settled events and is not older than any of them.    *)
ReportAddsUp ==
  LET table == CostTable(report.ask.list)
      byAgent == Aggregate(Seen, table)
      byModel == CostByModel(byAgent)
  IN  /\ Done("cost") =>
           /\ Spend(byAgent) = SumFunction([i \in DOMAIN Seen |-> ComputeCost(Seen[i], table)])
           /\ SumFunction([m \in DOMAIN byModel |-> byModel[m].cost]) = Spend(byAgent)
           /\ SumFunction([m \in DOMAIN byModel |-> byModel[m].calls]) = Len(Seen)
      /\ Done("sessions") => \A at \in Settled :
           /\ OfFile(at.file).count >= report.globbed[at.file]
           /\ OfFile(at.file).last >= EventAt(at).ts

(* A model that the price list names is billed at its own price, whatever  *)
(* other model shares its bare name; a name that only one model of the     *)
(* list can mean is billed at that one's, however it is spelled.           *)
PricesFit ==
  LET list == report.ask.list
      table == CostTable(list)
      Final(i) == \A j \in DOMAIN list : j > i => list[j].id # list[i].id
      Short(id) == Lower(Bare(id))
      Only(i) == \A j \in DOMAIN list \ {i} : Short(list[j].id) # Short(list[i].id)
  IN  list # None => \A i \in DOMAIN list :
        /\ Final(i) => ResolveCostBlock(list[i].id, table) = list[i].price
        /\ Only(i) => \A id \in ModelIds :
             Short(id) = Short(list[i].id) => ResolveCostBlock(id, table) = list[i].price

(* context-health leaves an event out only for as many later ones as it    *)
(* shows, and a warning is about what is shown.                            *)
HealthIsRecent ==
  Done("health") =>
    LET rows == Rows(Seen)
    IN  /\ \A at \in Settled : Taken(at) =>
             \/ EventAt(at) \in Range(rows)
             \/ Len(rows) = Recent /\ \A i \in DOMAIN rows : rows[i].ts >= EventAt(at).ts
        /\ Warns(Seen) => \E S \in SUBSET DOMAIN rows :
             Cardinality(S) = WarnAbove + 1 /\ \A i \in S : High(rows[i])
=============================================================================
