---------------------------- MODULE CostMonitor ----------------------------
(***************************************************************************)
(* A report of scripts/cost-monitor.py, or the session list of             *)
(* scripts/lifecycle.py, over trajectory files that the gateway appends to *)
(* and that may be removed while the report reads them one after the other.*)
(***************************************************************************)
EXTENDS CostReport

CONSTANTS
  Files,       \* a sequence, in the order in which glob is sorted
  Events,
  Asked,       \* reports asked for: a kind, a cutoff, and the price list of
               \* openclaw.json, None where it cannot be read
  MaxEvents    \* bound: events appended

ASSUME CostAssumption ==
  /\ Files \in Seq(Range(Files))
  /\ Events \subseteq Event
  /\ Asked \subseteq [kind : {"cost", "health", "sessions"}, cutoff : Nat,
                      list : Seq([id : ModelIds, price : [Kinds -> Nat]]) \cup {None}]
  /\ MaxEvents \in Nat

VARIABLES
  lines,    \* the events whose line is complete, by file
  tail,     \* the line being written: none, a part of one, or a part that
            \* ends inside a character
  there,    \* the files that exist
  report

vars == <<lines, tail, there, report>>

Tails == {"none", "part", "split"}
Reports ==
  [pc     : {"idle", "next", "read", "done", "failed"},
   ask    : Asked,
   todo   : 0..Len(Files),              \* files left of the glob
   pos    : Nat,                        \* lines read of the file
   seen   : Seq([file : DOMAIN Files, line : Nat]),
   globbed : [DOMAIN Files -> Nat],     \* history: complete lines at the glob
   gone   : SUBSET DOMAIN Files]        \* history: files passed over: gone at
                                        \* open, or not read to their end

Init ==
  /\ lines = [f \in DOMAIN Files |-> <<>>]
  /\ tail = [f \in DOMAIN Files |-> "none"]
  /\ there = DOMAIN Files
  /\ report \in [pc : {"idle"}, ask : Asked, todo : {0}, pos : {0}, seen : {<<>>},
                 globbed : {[f \in DOMAIN Files |-> 0]}, gone : {{}}]
-----------------------------------------------------------------------------
(* The gateway. *)
Appended ==
  MapThenSumSet(LAMBDA f : Len(lines[f]) + (IF tail[f] = "none" THEN 0 ELSE 1), DOMAIN Files)

BeginLine(f) ==
  /\ f \in there /\ tail[f] = "none" /\ Appended < MaxEvents
  /\ \E t \in {"part", "split"} : tail' = [tail EXCEPT ![f] = t]
  /\ UNCHANGED <<lines, there, report>>

EndLine(f) ==
  /\ tail[f] # "none"
  /\ \E e \in Events : lines' = [lines EXCEPT ![f] = Append(@, e)]
  /\ tail' = [tail EXCEPT ![f] = "none"]
  /\ UNCHANGED <<there, report>>

Vanish(f) ==
  /\ f \in there
  /\ there' = there \ {f}
  /\ UNCHANGED <<lines, tail, report>>
-----------------------------------------------------------------------------
(* The report.  It opens in their order the files that the glob found; one *)
(* that was removed, before the glob or since, is passed over.             *)
File == Len(Files) - report.todo
Glob ==
  /\ report.pc = "idle"
  /\ report' = [report EXCEPT !.pc = "next", !.todo = Len(Files),
                              !.globbed = [f \in DOMAIN Files |-> Len(lines[f])]]
  /\ UNCHANGED <<lines, tail, there>>

OpenOrStop ==
  /\ report.pc = "next" /\ report.todo > 0
  /\ LET f == File + 1
     IN  report' = IF f \in there
                     THEN [report EXCEPT !.todo = @ - 1, !.pos = 0, !.pc = "read"]
                     ELSE [report EXCEPT !.pc = "done", !.gone = @ \cup {f}]
  /\ UNCHANGED <<lines, tail, there>>
Open ==
  /\ report.pc = "next" /\ report.todo > 0
  /\ LET f == File + 1
     IN  report' = IF f \in there
                     THEN [report EXCEPT !.todo = @ - 1, !.pos = 0, !.pc = "read"]
                     ELSE [report EXCEPT !.todo = @ - 1, !.gone = @ \cup {f}]
  /\ UNCHANGED <<lines, tail, there>>

ReadLine ==
  /\ report.pc = "read" /\ report.pos < Len(lines[File])
  /\ LET i == report.pos + 1
     IN  report' = [report EXCEPT !.pos = i,
           !.seen = IF Takes(report.ask, lines[File][i])
                      THEN Append(@, [file |-> File, line |-> i]) ELSE @]
  /\ UNCHANGED <<lines, tail, there>>

(* A read may fail with an OSError in mid-file: the report goes on with    *)
(* the next one.  A session list leaves such a file out.                   *)
ReadFails ==
  /\ report.pc = "read"
  /\ report' = [report EXCEPT !.pc = "next", !.gone = @ \cup {File}]
  /\ UNCHANGED <<lines, tail, there>>

(* A tail is a line that is not JSON; its rest, read later, is another.    *)
(* Where it ends inside a character, the file cannot be decoded, and that  *)
(* is not an OSError.                                                      *)
ReadTailAgain ==
  /\ report.pc = "read" /\ report.pos >= Len(lines[File]) /\ tail[File] # "none"
  /\ report' = IF tail[File] = "split" THEN [report EXCEPT !.pc = "failed"]
               ELSE [report EXCEPT !.pos = @ + 1]
  /\ UNCHANGED <<lines, tail, there>>
ReadTail ==
  /\ report.pc = "read" /\ report.pos = Len(lines[File]) /\ tail[File] # "none"
  /\ report' = IF tail[File] = "split" THEN [report EXCEPT !.pc = "failed"]
               ELSE [report EXCEPT !.pos = @ + 1]
  /\ UNCHANGED <<lines, tail, there>>

EndOfFile ==
  /\ report.pc = "read" /\ report.pos >= Len(lines[File])
  /\ report.pos > Len(lines[File]) \/ tail[File] = "none"
  /\ report' = [report EXCEPT !.pc = "next"]
  /\ UNCHANGED <<lines, tail, there>>

Finish ==
  /\ report.pc = "next" /\ report.todo = 0
  /\ report' = [report EXCEPT !.pc = "done"]
  /\ UNCHANGED <<lines, tail, there>>

Next ==
  \/ \E f \in DOMAIN Files : BeginLine(f) \/ EndLine(f) \/ Vanish(f)
  \/ Glob \/ Open \/ ReadLine \/ ReadFails \/ ReadTail \/ EndOfFile \/ Finish

Spec == Init /\ [][Next]_vars
=============================================================================
