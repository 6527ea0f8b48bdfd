------------------------- MODULE CostMonitorProofs -------------------------
(***************************************************************************)
(* Proofs about the cost monitor's reports, for any number of trajectory   *)
(* files, any events appended to them and any report asked for.            *)
(***************************************************************************)
EXTENDS CostMonitorProps, TLAPS, FiniteSetTheorems

(* The scan.  A report has come to the file File and the line pos in it;   *)
(* what it has seen lies behind, in the order in which it was read, and    *)
(* what was complete at the glob and lies behind has been seen.            *)
At2(f, l) == [file |-> f, line |-> l]

PlaceInv ==
  /\ report.pc = "read" => File \in DOMAIN Files
  /\ report.pc = "done" => report.todo = 0
  /\ report.pc = "idle" => report.seen = <<>>
  /\ \A f \in DOMAIN Files : report.globbed[f] <= Len(lines[f])

Behind(f, l) == f < File \/ (f = File /\ (report.pc = "read" => l <= report.pos))

SeenInv ==
  \A i \in DOMAIN report.seen :
    /\ Behind(report.seen[i].file, report.seen[i].line)
    /\ report.seen[i].line \in 1..Len(lines[report.seen[i].file])

OrderInv ==
  \A i, j \in DOMAIN report.seen : i < j =>
    \/ report.seen[i].file < report.seen[j].file
    \/ /\ report.seen[i].file = report.seen[j].file
       /\ report.seen[i].line < report.seen[j].line

CountInv ==
  \A f \in DOMAIN Files \ report.gone : \A l \in 1..report.globbed[f] :
    Behind(f, l) /\ Takes(report.ask, lines[f][l]) => At2(f, l) \in Range(report.seen)

ScanInv == TypeOK /\ PlaceInv /\ SeenInv /\ OrderInv /\ CountInv
-----------------------------------------------------------------------------
LEMMA FilesType == Len(Files) \in Nat /\ DOMAIN Files = 1..Len(Files)
BY CostAssumption

LEMMA ElementOf == ASSUME NEW S, NEW s \in Seq(S), NEW i \in DOMAIN s PROVE s[i] \in S
OBVIOUS

LEMMA DomainOf == ASSUME NEW S, NEW s \in Seq(S) PROVE DOMAIN s = 1..Len(s) /\ Len(s) \in Nat
OBVIOUS

LEMMA InitScan == Init => ScanInv
<1> SUFFICES ASSUME Init PROVE ScanInv  OBVIOUS
<1>1. /\ report.pc = "idle" /\ report.ask \in Asked /\ report.todo = 0 /\ report.pos = 0
      /\ report.seen = <<>> /\ report.globbed = [f \in DOMAIN Files |-> 0] /\ report.gone = {}
  BY DEF Init
<1>2. <<>> \in Seq([file : DOMAIN Files, line : Nat]) /\ <<>> \in Seq(Events) /\ Len(<<>>) = 0
      /\ DOMAIN <<>> = {}
  OBVIOUS
<1>3. report \in Reports
  <2>1. report = [pc |-> report.pc, ask |-> report.ask, todo |-> report.todo, pos |-> report.pos,
                  seen |-> report.seen, globbed |-> report.globbed, gone |-> report.gone]
    BY DEF Init
  <2>2. 0 \in 0..Len(Files)
    BY FilesType
  <2>3. report.globbed \in [DOMAIN Files -> Nat]
    BY <1>1
  <2>4. report.seen \in Seq([file : DOMAIN Files, line : Nat])
    BY <1>1, <1>2
  <2>5. report.pc = "idle" /\ report.ask \in Asked /\ report.pos \in Nat
        /\ report.todo \in 0..Len(Files) /\ report.gone \subseteq DOMAIN Files
    BY <1>1, <2>2
  <2> QED BY <2>1, <2>3, <2>4, <2>5 DEF Reports
<1>4. TypeOK
  BY <1>1, <1>2, <1>3 DEF Init, TypeOK, Tails
<1>5. PlaceInv
  BY <1>1, <1>2 DEF Init, PlaceInv
<1>6. SeenInv /\ OrderInv
  BY <1>1, <1>2 DEF SeenInv, OrderInv
<1>7. CountInv
  <2>1. \A f \in DOMAIN Files : 1..report.globbed[f] = {}
    BY <1>1
  <2> QED BY <2>1 DEF CountInv
<1> QED BY <1>4, <1>5, <1>6, <1>7 DEF ScanInv

(* The gateway only adds complete lines. *)
LEMMA GatewayScan ==
  ASSUME ScanInv, NEW f \in DOMAIN Files, BeginLine(f) \/ EndLine(f) \/ Vanish(f)
  PROVE  ScanInv'
<1> DEFINE Line(g) == lines[g]
<1>1. /\ lines \in [DOMAIN Files -> Seq(Events)] /\ tail \in [DOMAIN Files -> Tails]
      /\ there \subseteq DOMAIN Files /\ report \in Reports
  BY DEF ScanInv, TypeOK
<1>2. /\ UNCHANGED report /\ there' \subseteq DOMAIN Files
      /\ tail' \in [DOMAIN Files -> Tails]
  BY <1>1 DEF BeginLine, EndLine, Vanish, Tails
<1>3. /\ lines' \in [DOMAIN Files -> Seq(Events)]
      /\ \A g \in DOMAIN Files : /\ Len(lines'[g]) \in Nat /\ Len(lines[g]) \in Nat
                                 /\ Len(lines'[g]) >= Len(lines[g])
                                 /\ \A l \in 1..Len(lines[g]) : lines'[g][l] = lines[g][l]
  <2>1. CASE UNCHANGED lines
    BY <1>1, <2>1
  <2>2. CASE EndLine(f)
    <3>1. PICK e \in Events : lines' = [lines EXCEPT ![f] = Append(lines[f], e)]
      BY <2>2 DEF EndLine
    <3>2. /\ Append(lines[f], e) \in Seq(Events) /\ Len(Append(lines[f], e)) = Len(lines[f]) + 1
          /\ Len(lines[f]) \in Nat
          /\ \A l \in 1..Len(lines[f]) : Append(lines[f], e)[l] = lines[f][l]
      BY <1>1
    <3> QED BY <1>1, <3>1, <3>2
  <2> QED BY <2>1, <2>2 DEF BeginLine, Vanish
<1>4. File' = File /\ \A g, l : Behind(g, l)' <=> Behind(g, l)
  BY <1>2 DEF File, Behind
<1>5. /\ report.pc = "read" => File \in DOMAIN Files /\ report.pos <= Len(lines[File]) + 1
      /\ report.pos \in Nat
  BY <1>1 DEF ScanInv, TypeOK, PlaceInv, Reports
<1>6. report.pc = "read" => report.pos <= Len(lines'[File]) + 1
  BY <1>3, <1>5
<1>7. TypeOK'
  BY <1>1, <1>2, <1>3, <1>4, <1>6 DEF TypeOK
<1>8. report.globbed \in [DOMAIN Files -> Nat]
      /\ report.seen \in Seq([file : DOMAIN Files, line : Nat])
  BY <1>1 DEF Reports
<1>9. PlaceInv'
  <2>1. \A g \in DOMAIN Files : report.globbed[g] \in Nat /\ report.globbed[g] <= Len(lines[g])
    BY <1>8 DEF PlaceInv, ScanInv
  <2>2. \A g \in DOMAIN Files : report.globbed[g] <= Len(lines'[g])
    BY <1>3, <2>1
  <2> QED BY <1>2, <1>4, <2>2 DEF PlaceInv, ScanInv
<1>10. SeenInv'
  <2> SUFFICES ASSUME NEW i \in DOMAIN report.seen
               PROVE  /\ Behind(report.seen[i].file, report.seen[i].line)
                      /\ report.seen[i].line \in 1..Len(lines'[report.seen[i].file])
    BY <1>2, <1>4 DEF SeenInv
  <2>1. /\ report.seen[i].file \in DOMAIN Files
        /\ Behind(report.seen[i].file, report.seen[i].line)
        /\ report.seen[i].line \in 1..Len(lines[report.seen[i].file])
    <3>1. report.seen[i] \in [file : DOMAIN Files, line : Nat]
      BY <1>8, ElementOf
    <3> QED BY <3>1 DEF ScanInv, SeenInv
  <2> QED BY <1>3, <2>1
<1>11. OrderInv'
  BY <1>2 DEF OrderInv, ScanInv
<1>12. CountInv'
  <2> SUFFICES ASSUME NEW g \in DOMAIN Files \ report.gone, NEW l \in 1..report.globbed[g],
                      Behind(g, l), Takes(report.ask, lines'[g][l])
               PROVE  At2(g, l) \in Range(report.seen)
    BY <1>2, <1>4 DEF CountInv, Takes, At2
  <2>1. l \in 1..Len(lines[g])
    BY <1>3, <1>8 DEF ScanInv, PlaceInv
  <2>2. lines'[g][l] = lines[g][l]
    BY <1>3, <2>1
  <2> QED BY <2>2 DEF ScanInv, CountInv
<1> QED BY <1>7, <1>9, <1>10, <1>11, <1>12 DEF ScanInv

(* The report's steps.  Those that count nothing may only move the place,  *)
(* and not over a complete line of a file that was there.                  *)
LEMMA PlaceMoves ==
  ASSUME ScanInv, UNCHANGED <<lines, tail, there>>, report' \in Reports,
         report'.seen = report.seen, report'.ask = report.ask,
         report'.globbed = report.globbed, report.gone \subseteq report'.gone,
         \A f \in DOMAIN Files, l \in Nat \ {0} : Behind(f, l) => Behind(f, l)',
         \A f \in DOMAIN Files \ report'.gone : \A l \in 1..report.globbed[f] :
           Behind(f, l)' => Behind(f, l),
         report'.pc = "read" => File' \in DOMAIN Files /\ report'.pos <= Len(lines[File']) + 1,
         report'.pc = "done" => report'.todo = 0,
         report'.pc # "idle"
  PROVE  ScanInv'
<1>1. TypeOK'
  BY DEF ScanInv, TypeOK
<1>2. PlaceInv'
  BY DEF ScanInv, PlaceInv
<1>3. SeenInv'
  <2> SUFFICES ASSUME NEW i \in DOMAIN report.seen
               PROVE  /\ Behind(report.seen[i].file, report.seen[i].line)'
                      /\ report.seen[i].line \in 1..Len(lines[report.seen[i].file])
    BY DEF SeenInv
  <2>1. report.seen[i] \in [file : DOMAIN Files, line : Nat]
    BY ElementOf DEF ScanInv, TypeOK, Reports
  <2>2. /\ Behind(report.seen[i].file, report.seen[i].line)
        /\ report.seen[i].line \in 1..Len(lines[report.seen[i].file])
    BY DEF ScanInv, SeenInv
  <2>3. report.seen[i].file \in DOMAIN Files /\ report.seen[i].line \in Nat \ {0}
    BY <2>1, <2>2
  <2>4. Behind(report.seen[i].file, report.seen[i].line)'
    BY <2>2, <2>3
  <2> QED BY <2>2, <2>4
<1>4. OrderInv'
  BY DEF ScanInv, OrderInv
<1>5. CountInv'
  BY DEF ScanInv, CountInv, Takes, At2
<1> QED BY <1>1, <1>2, <1>3, <1>4, <1>5 DEF ScanInv

LEMMA ReportType ==
  ASSUME ScanInv
  PROVE  /\ report \in Reports /\ File \in 0..Len(Files) /\ Len(Files) \in Nat
         /\ report.pos \in Nat /\ report.todo \in 0..Len(Files)
         /\ report.seen \in Seq([file : DOMAIN Files, line : Nat])
         /\ report.globbed \in [DOMAIN Files -> Nat]
         /\ DOMAIN Files = 1..Len(Files)
         /\ \A f \in DOMAIN Files : Len(lines[f]) \in Nat /\ report.globbed[f] <= Len(lines[f])
         /\ report.pc = "read" => File \in DOMAIN Files /\ report.pos <= Len(lines[File]) + 1
<1>1. /\ report \in Reports /\ lines \in [DOMAIN Files -> Seq(Events)]
      /\ report.pc = "read" => File \in DOMAIN Files /\ report.pos <= Len(lines[File]) + 1
      /\ \A f \in DOMAIN Files : report.globbed[f] <= Len(lines[f])
  BY DEF ScanInv, TypeOK, PlaceInv
<1>2. /\ report.pos \in Nat /\ report.todo \in 0..Len(Files)
      /\ report.seen \in Seq([file : DOMAIN Files, line : Nat])
      /\ report.globbed \in [DOMAIN Files -> Nat]
  BY <1>1 DEF Reports
<1>3. File \in 0..Len(Files)
  BY <1>2, FilesType DEF File
<1>4. \A f \in DOMAIN Files : Len(lines[f]) \in Nat
  BY <1>1
<1> QED BY <1>1, <1>2, <1>3, <1>4, FilesType

LEMMA GlobScan == ASSUME ScanInv, Glob PROVE ScanInv'
<1> DEFINE n == Len(Files)
           g == [f \in DOMAIN Files |-> Len(lines[f])]
           t == [report EXCEPT !.pc = "next", !.todo = n, !.globbed = g]
<1>1. report' = t /\ report.pc = "idle" /\ UNCHANGED <<lines, tail, there>>
  BY DEF Glob
<1>2. /\ g \in [DOMAIN Files -> Nat] /\ report.seen = <<>> /\ report \in Reports
      /\ n \in Nat /\ n \in 0..n /\ DOMAIN Files = 1..n
      /\ \A f \in DOMAIN Files : g[f] <= Len(lines[f])
  BY <1>1, ReportType DEF ScanInv, PlaceInv
<1> HIDE DEF g
<1>3. /\ t \in Reports /\ t.pc = "next" /\ t.todo = n /\ t.globbed = g /\ t.seen = report.seen
  BY <1>2 DEF Reports
<1> HIDE DEF t, n
<1>4. File' = 0
  BY <1>1, <1>2, <1>3 DEF File, n
<1>5. TypeOK' /\ PlaceInv'
  BY <1>1, <1>2, <1>3 DEF ScanInv, TypeOK, PlaceInv
<1>6. SeenInv' /\ OrderInv'
  BY <1>1, <1>2, <1>3 DEF SeenInv, OrderInv
<1>7. CountInv'
  BY <1>1, <1>2, <1>3, <1>4 DEF CountInv, Behind
<1> QED BY <1>5, <1>6, <1>7 DEF ScanInv

LEMMA OpenScan == ASSUME ScanInv, Open PROVE ScanInv'
<1> DEFINE f == File + 1
           k == report.todo - 1
           h == report.gone \cup {f}
           t == [report EXCEPT !.todo = k, !.pos = 0, !.pc = "read"]
           u == [report EXCEPT !.todo = k, !.gone = h]
<1>1. /\ report.pc = "next" /\ report.todo > 0 /\ UNCHANGED <<lines, tail, there>>
      /\ (f \in there /\ report' = t) \/ (f \notin there /\ report' = u)
  BY DEF Open
<1>2. report \in Reports /\ File \in 0..Len(Files) /\ Len(Files) \in Nat
      /\ report.todo \in 0..Len(Files) /\ DOMAIN Files = 1..Len(Files)
      /\ \A g \in DOMAIN Files : Len(lines[g]) \in Nat /\ report.globbed[g] \in Nat
  BY ReportType
<1>3. k \in 0..Len(Files) /\ f \in DOMAIN Files /\ h \in SUBSET DOMAIN Files /\ f = Len(Files) - k
  <2>1. report.gone \subseteq DOMAIN Files
    BY <1>2 DEF Reports
  <2>2. File = Len(Files) - report.todo
    BY DEF File
  <2> QED BY <1>1, <1>2, <2>1, <2>2
<1> HIDE DEF f, k, h
<1>4. /\ t \in Reports /\ t.pc = "read" /\ t.todo = k /\ t.pos = 0 /\ t.seen = report.seen
      /\ t.ask = report.ask /\ t.globbed = report.globbed /\ t.gone = report.gone
  BY <1>2, <1>3 DEF Reports
<1>5. /\ u \in Reports /\ u.pc = report.pc /\ u.todo = k /\ u.seen = report.seen
      /\ u.ask = report.ask /\ u.globbed = report.globbed /\ u.gone = h
  BY <1>2, <1>3 DEF Reports
<1> HIDE DEF t, u
<1>6. File' = f
  BY <1>1, <1>3, <1>4, <1>5 DEF File
<1>7. \A g \in DOMAIN Files, l \in Nat : Behind(g, l) <=> g <= File
  BY <1>1, <1>2 DEF Behind
<1>8. CASE report' = t
  <2>1. \A g \in DOMAIN Files, l \in Nat \ {0} : Behind(g, l)' <=> g < f
    BY <1>2, <1>3, <1>4, <1>6, <1>8 DEF Behind
  <2>2. \A g \in DOMAIN Files : g < f <=> g <= File
    BY <1>2 DEF f
  <2>3. \A g \in DOMAIN Files, l \in Nat \ {0} : Behind(g, l)' <=> Behind(g, l)
    BY <1>7, <2>1, <2>2
  <2>4. \A g \in DOMAIN Files : 1..report.globbed[g] \subseteq Nat \ {0}
    BY <1>2
  <2>5. report'.pos <= Len(lines[File']) + 1
    BY <1>2, <1>3, <1>4, <1>6, <1>8
  <2> QED BY <1>1, <1>3, <1>4, <1>6, <1>8, <2>3, <2>4, <2>5, PlaceMoves
<1>9. CASE report' = u
  <2>1. \A g \in DOMAIN Files, l \in Nat \ {0} : Behind(g, l)' <=> g <= f
    <3>1. report'.pc = "next"
      BY <1>1, <1>5, <1>9
    <3>2. \A g, l : Behind(g, l)' <=> g < f \/ g = f
      BY <1>6, <3>1 DEF Behind
    <3>3. \A g \in DOMAIN Files : g < f \/ g = f <=> g <= f
      BY <1>2, <1>3
    <3> QED BY <3>2, <3>3
  <2>2. \A g \in DOMAIN Files : g <= f <=> g <= File \/ g = f
    BY <1>2 DEF f
  <2>3. /\ \A g \in DOMAIN Files, l \in Nat \ {0} : Behind(g, l) => Behind(g, l)'
        /\ \A g \in DOMAIN Files, l \in Nat \ {0} : Behind(g, l)' => Behind(g, l) \/ g = f
    BY <1>7, <2>1, <2>2
  <2>4. \A g \in DOMAIN Files : 1..report.globbed[g] \subseteq Nat \ {0}
    BY <1>2
  <2>5. f \in report'.gone /\ report.gone \subseteq report'.gone
    BY <1>5, <1>9 DEF h
  <2>6. \A g \in DOMAIN Files \ report'.gone : \A l \in 1..report.globbed[g] :
          Behind(g, l)' => Behind(g, l)
    BY <2>3, <2>4, <2>5
  <2> QED BY <1>1, <1>5, <1>9, <2>3, <2>5, <2>6, PlaceMoves
<1> QED BY <1>1, <1>8, <1>9

LEMMA PassOver ==
  ASSUME ScanInv, ReadTail \/ EndOfFile \/ Finish
  PROVE  ScanInv'
<1> DEFINE q == report.pos + 1
           t == [report EXCEPT !.pc = "failed"]
           u == [report EXCEPT !.pos = q]
           v == [report EXCEPT !.pc = "next"]
           w == [report EXCEPT !.pc = "done"]
<1>1. /\ report \in Reports /\ report.pos \in Nat /\ report.todo \in 0..Len(Files)
      /\ Len(Files) \in Nat /\ File \in 0..Len(Files) /\ DOMAIN Files = 1..Len(Files)
      /\ \A f \in DOMAIN Files : /\ Len(lines[f]) \in Nat /\ report.globbed[f] \in Nat
                                 /\ report.globbed[f] <= Len(lines[f])
      /\ report.pc = "read" => File \in DOMAIN Files
  BY ReportType
<1>2. q \in Nat
  BY <1>1
<1> HIDE DEF q
<1>3. /\ t \in Reports /\ t.pc = "failed" /\ t.pos = report.pos /\ t.todo = report.todo
      /\ t.seen = report.seen /\ t.ask = report.ask /\ t.globbed = report.globbed
      /\ t.gone = report.gone
  BY <1>1 DEF Reports
<1>4. /\ u \in Reports /\ u.pc = report.pc /\ u.pos = q /\ u.todo = report.todo
      /\ u.seen = report.seen /\ u.ask = report.ask /\ u.globbed = report.globbed
      /\ u.gone = report.gone
  BY <1>1, <1>2 DEF Reports
<1>5. /\ v \in Reports /\ v.pc = "next" /\ v.pos = report.pos /\ v.todo = report.todo
      /\ v.seen = report.seen /\ v.ask = report.ask /\ v.globbed = report.globbed
      /\ v.gone = report.gone
  BY <1>1 DEF Reports
<1>6. /\ w \in Reports /\ w.pc = "done" /\ w.pos = report.pos /\ w.todo = report.todo
      /\ w.seen = report.seen /\ w.ask = report.ask /\ w.globbed = report.globbed
      /\ w.gone = report.gone
  BY <1>1 DEF Reports
<1>7. /\ UNCHANGED <<lines, tail, there>>
      /\ \/ /\ report.pc = "read" /\ report.pos = Len(lines[File])
            /\ report' = t \/ report' = u
         \/ report.pc = "read" /\ report.pos >= Len(lines[File]) /\ report' = v
         \/ report.pc = "next" /\ report.todo = 0 /\ report' = w
  BY DEF ReadTail, EndOfFile, Finish, q
<1> HIDE DEF t, u, v, w
<1>8. /\ File' = File /\ report'.seen = report.seen /\ report'.ask = report.ask
      /\ report'.globbed = report.globbed /\ report'.gone = report.gone
      /\ report' \in Reports /\ report'.pc # "idle" /\ report'.todo = report.todo
  BY <1>3, <1>4, <1>5, <1>6, <1>7 DEF File
<1>9. \A f, l : Behind(f, l) => f < File \/ f = File
  BY DEF Behind
<1>10. CASE report' = u /\ report.pc = "read" /\ report.pos = Len(lines[File])
  <2>1. report'.pc = "read" /\ report'.pos = report.pos + 1
    BY <1>4, <1>10 DEF q
  <2>2. \A f \in DOMAIN Files, l \in Nat \ {0} : Behind(f, l) => Behind(f, l)'
    BY <1>1, <1>8, <1>10, <2>1 DEF Behind
  <2>3. \A f \in DOMAIN Files : \A l \in 1..report.globbed[f] : Behind(f, l)' => Behind(f, l)
    <3> SUFFICES ASSUME NEW f \in DOMAIN Files, NEW l \in 1..report.globbed[f], Behind(f, l)'
                 PROVE  Behind(f, l)
      OBVIOUS
    <3>1. l \in Nat /\ l <= Len(lines[f]) /\ Len(lines[f]) \in Nat
      BY <1>1
    <3>2. f < File \/ (f = File /\ l <= report.pos)
      BY <1>8, <1>10, <2>1, <3>1 DEF Behind
    <3> QED BY <3>2 DEF Behind
  <2>4. report'.pos <= Len(lines[File']) + 1 /\ File' \in DOMAIN Files
    BY <1>1, <1>8, <1>10, <2>1
  <2> QED BY <1>7, <1>8, <2>1, <2>2, <2>3, <2>4, PlaceMoves
<1>11. CASE report' # u
  <2>1. report'.pc \in {"failed", "next", "done"}
    BY <1>3, <1>5, <1>6, <1>7, <1>11
  <2>2. \A f, l : Behind(f, l)' <=> f < File \/ f = File
    BY <1>8, <2>1 DEF Behind
  <2>3. \A f \in DOMAIN Files : \A l \in 1..report.globbed[f] : Behind(f, l)' => Behind(f, l)
    <3> SUFFICES ASSUME NEW f \in DOMAIN Files, NEW l \in 1..report.globbed[f],
                        f = File, report.pc = "read"
                 PROVE  l <= report.pos
      BY <2>2 DEF Behind
    <3>1. report.pos >= Len(lines[File])
      BY <1>1, <1>7
    <3>2. l \in Nat /\ l <= Len(lines[f]) /\ Len(lines[f]) \in Nat
      BY <1>1
    <3> QED BY <1>1, <3>1, <3>2
  <2>4. report'.pc = "done" => report'.todo = 0
    BY <1>3, <1>5, <1>6, <1>7, <1>8, <1>11
  <2> QED BY <1>7, <1>8, <1>9, <2>1, <2>2, <2>3, <2>4, PlaceMoves
<1> QED BY <1>4, <1>5, <1>6, <1>7, <1>10, <1>11

(* A file that fails while it is read is passed over from there on. *)
LEMMA ReadFailsScan == ASSUME ScanInv, ReadFails PROVE ScanInv'
<1> DEFINE h == report.gone \cup {File}
           t == [report EXCEPT !.pc = "next", !.gone = h]
<1>1. report.pc = "read" /\ report' = t /\ UNCHANGED <<lines, tail, there>>
  BY DEF ReadFails
<1>2. /\ report \in Reports /\ File \in DOMAIN Files
      /\ \A f \in DOMAIN Files : report.globbed[f] \in Nat
  BY <1>1, ReportType
<1>3. h \subseteq DOMAIN Files
  BY <1>2 DEF Reports
<1> HIDE DEF h
<1>4. /\ t \in Reports /\ t.pc = "next" /\ t.todo = report.todo /\ t.seen = report.seen
      /\ t.ask = report.ask /\ t.globbed = report.globbed /\ t.gone = h
  BY <1>2, <1>3 DEF Reports
<1> HIDE DEF t
<1>5. File' = File
  BY <1>1, <1>4 DEF File
<1>6. \A f, l : Behind(f, l)' <=> f < File \/ f = File
  BY <1>1, <1>4, <1>5 DEF Behind
<1>7. \A f, l : Behind(f, l) => Behind(f, l)'
  BY <1>6 DEF Behind
<1>8. File \in report'.gone /\ report.gone \subseteq report'.gone
  BY <1>1, <1>4 DEF h
<1>9. \A f \in DOMAIN Files \ report'.gone : \A l \in 1..report.globbed[f] :
        Behind(f, l)' => Behind(f, l)
  BY <1>6, <1>8 DEF Behind
<1> QED BY <1>1, <1>4, <1>7, <1>8, <1>9, PlaceMoves

(* A line of the report's kind and window is seen where it is read. *)
LEMMA ReadLineScan == ASSUME ScanInv, ReadLine PROVE ScanInv'
<1> DEFINE i == report.pos + 1
           here == At2(File, i)
           takes == Takes(report.ask, lines[File][i])
           seen == IF takes THEN Append(report.seen, here) ELSE report.seen
           t == [report EXCEPT !.pos = i, !.seen = seen]
           Place == [file : DOMAIN Files, line : Nat]
<1>1. /\ report.pc = "read" /\ report.pos < Len(lines[File])
      /\ report' = t /\ UNCHANGED <<lines, tail, there>>
  BY DEF ReadLine, At2
<1>2. /\ report \in Reports /\ report.pos \in Nat /\ File \in DOMAIN Files
      /\ report.seen \in Seq(Place) /\ DOMAIN Files = 1..Len(Files) /\ Len(Files) \in Nat
      /\ \A f \in DOMAIN Files : Len(lines[f]) \in Nat /\ report.globbed[f] \in Nat
  BY <1>1, ReportType
<1>3. i \in Nat /\ i \in 1..Len(lines[File]) /\ here \in Place
  BY <1>1, <1>2 DEF At2
<1> HIDE DEF i, takes
<1>4. /\ seen \in Seq(Place)
      /\ \A j \in DOMAIN seen : \/ j \in DOMAIN report.seen /\ seen[j] = report.seen[j]
                                \/ j = Len(report.seen) + 1 /\ takes /\ seen[j] = here
      /\ Range(report.seen) \subseteq Range(seen)
      /\ takes => here \in Range(seen)
  <2> HIDE DEF here, Place
  <2>1. CASE takes
    <3> DEFINE a == Append(report.seen, here)
    <3>1. /\ a \in Seq(Place) /\ DOMAIN a = 1..(Len(report.seen) + 1)
          /\ DOMAIN report.seen = 1..Len(report.seen) /\ Len(report.seen) \in Nat
          /\ \A j \in 1..Len(report.seen) : a[j] = report.seen[j]
          /\ a[Len(report.seen) + 1] = here
      BY <1>2, <1>3
    <3>2. seen = a
      BY <2>1
    <3> HIDE DEF a, seen
    <3> QED BY <2>1, <3>1, <3>2 DEF Range
  <2>2. CASE ~takes
    BY <1>2, <2>2
  <2> QED BY <2>1, <2>2
<1> HIDE DEF seen
<1>5. /\ t \in Reports /\ t.pc = "read" /\ t.pos = i /\ t.seen = seen /\ t.todo = report.todo
      /\ t.ask = report.ask /\ t.globbed = report.globbed /\ t.gone = report.gone
  BY <1>1, <1>2, <1>3, <1>4 DEF Reports
<1> HIDE DEF t
<1>6. File' = File
  BY <1>1, <1>5 DEF File
<1>7. TypeOK' /\ PlaceInv'
  <2>1. report'.pos <= Len(lines'[File']) + 1
    BY <1>1, <1>2, <1>3, <1>5, <1>6
  <2> QED BY <1>1, <1>2, <1>5, <1>6, <2>1 DEF ScanInv, TypeOK, PlaceInv
<1>8. \A f \in DOMAIN Files, l \in Nat :
        /\ Behind(f, l) => Behind(f, l)'
        /\ Behind(f, l)' => Behind(f, l) \/ (f = File /\ l = i)
        /\ Behind(f, l) => f < File \/ (f = File /\ l < i)
  BY <1>1, <1>2, <1>3, <1>5, <1>6 DEF Behind, i
<1>9. \A f \in DOMAIN Files, l \in Nat : f = File /\ l = i => Behind(f, l)'
  BY <1>1, <1>2, <1>3, <1>5, <1>6 DEF Behind
<1>10. \A j \in DOMAIN report.seen :
         /\ report.seen[j] \in Place
         /\ Behind(report.seen[j].file, report.seen[j].line)
         /\ report.seen[j].line \in 1..Len(lines[report.seen[j].file])
  <2>1. \A j \in DOMAIN report.seen : report.seen[j] \in Place
    BY <1>2, ElementOf
  <2> QED BY <2>1 DEF ScanInv, SeenInv
<1>11. here.file = File /\ here.line = i
  BY DEF At2
<1> HIDE DEF here
<1>12. SeenInv'
  <2> SUFFICES ASSUME NEW j \in DOMAIN seen, NEW f, NEW l,
                      f = seen[j].file, l = seen[j].line
               PROVE  Behind(f, l)' /\ l \in 1..Len(lines[f])
    BY <1>1, <1>5 DEF SeenInv, Behind
  <2>1. CASE seen[j] = here
    BY <1>2, <1>3, <1>9, <1>11, <2>1
  <2>2. CASE j \in DOMAIN report.seen /\ seen[j] = report.seen[j]
    <3>1. f \in DOMAIN Files /\ l \in Nat /\ Behind(f, l) /\ l \in 1..Len(lines[f])
      BY <1>10, <2>2
    <3> QED BY <1>8, <3>1
  <2> QED BY <1>4, <2>1, <2>2
<1>13. OrderInv'
  <2> SUFFICES ASSUME NEW j \in DOMAIN seen, NEW k \in DOMAIN seen, j < k
               PROVE  \/ seen[j].file < seen[k].file
                      \/ seen[j].file = seen[k].file /\ seen[j].line < seen[k].line
    BY <1>1, <1>5 DEF OrderInv
  <2>0. /\ DOMAIN report.seen = 1..Len(report.seen) /\ Len(report.seen) \in Nat
        /\ DOMAIN seen = 1..Len(seen) /\ Len(seen) \in Nat
    BY <1>2, <1>4, DomainOf
  <2>1. j \in DOMAIN report.seen /\ seen[j] = report.seen[j]
    <3>1. j \in Nat /\ k \in Nat /\ k <= Len(report.seen) + 1
      BY <1>4, <2>0
    <3>2. j # Len(report.seen) + 1
      BY <2>0, <3>1
    <3> QED BY <1>4, <3>2
  <2>2. CASE k \in DOMAIN report.seen /\ seen[k] = report.seen[k]
    BY <2>1, <2>2 DEF ScanInv, OrderInv
  <2>3. CASE seen[k] = here
    BY <1>8, <1>10, <1>11, <2>1, <2>3
  <2> QED BY <1>4, <2>2, <2>3
<1>14. CountInv'
  <2> SUFFICES ASSUME NEW f \in DOMAIN Files \ report.gone, NEW l \in 1..report.globbed[f],
                      Behind(f, l)', Takes(report.ask, lines[f][l])
               PROVE  At2(f, l) \in Range(seen)
    BY <1>1, <1>5 DEF CountInv, Takes, At2
  <2>1. CASE Behind(f, l)
    <3>1. At2(f, l) \in Range(report.seen)
      BY <2>1 DEF ScanInv, CountInv
    <3> QED BY <1>4, <3>1
  <2>2. CASE f = File /\ l = i
    BY <1>4, <2>2 DEF takes, here
  <2>3. l \in Nat
    BY <1>2
  <2> QED BY <1>8, <2>1, <2>2, <2>3
<1> QED BY <1>7, <1>12, <1>13, <1>14 DEF ScanInv

LEMMA NextScan == ScanInv /\ [Next]_vars => ScanInv'
<1> SUFFICES ASSUME ScanInv, [Next]_vars PROVE ScanInv'  OBVIOUS
<1>1. CASE Next
  BY <1>1, GatewayScan, GlobScan, OpenScan, ReadLineScan, ReadFailsScan, PassOver DEF Next
<1>2. CASE UNCHANGED vars
  <2>1. File' = File /\ (\A f, l : Behind(f, l)' <=> Behind(f, l))
    BY <1>2 DEF vars, File, Behind
  <2> QED BY <1>2, <2>1 DEF vars, ScanInv, TypeOK, PlaceInv, SeenInv, OrderInv, CountInv, Takes, At2
<1> QED BY <1>1, <1>2

LEMMA ScanInvariance == Spec => []ScanInv
BY InitScan, NextScan, PTL DEF Spec

(* Every variable keeps its type, and the scan of a file is never further  *)
(* than one line past what is complete.                                    *)
THEOREM MonitorTypes == Spec => []TypeOK
<1>1. ScanInv => TypeOK
  BY DEF ScanInv
<1> QED BY <1>1, ScanInvariance, PTL

(* A report that ends has counted every event of its kind and window that  *)
(* was complete when it began, of every file it could open and read,       *)
(* exactly once.                                                           *)
LEMMA CountedOnce == ScanInv => EventsCounted
<1> SUFFICES ASSUME ScanInv, report.pc = "done" PROVE
      /\ \A at \in Settled : Taken(at) => at \in Range(report.seen)
      /\ IsInjective(report.seen)
  BY DEF EventsCounted
<1>1. /\ DOMAIN Files = 1..Len(Files) /\ Len(Files) \in Nat /\ report.todo = 0
      /\ report.globbed \in [DOMAIN Files -> Nat]
      /\ report.seen \in Seq([file : DOMAIN Files, line : Nat])
  BY ReportType DEF ScanInv, PlaceInv
<1>2. \A f \in DOMAIN Files, l \in Nat : Behind(f, l)
  BY <1>1 DEF Behind, File
<1>3. ASSUME NEW at \in Settled, Taken(at)
      PROVE  at \in Range(report.seen)
  <2>1. PICK f \in DOMAIN Files \ report.gone, l \in 1..MaxEvents :
          at = At2(f, l) /\ l <= report.globbed[f]
    BY DEF Settled, At2
  <2>2. l \in Nat /\ l \in 1..report.globbed[f]
    BY <1>1, <2>1, CostAssumption
  <2>3. Takes(report.ask, lines[f][l])
    BY <1>3, <2>1 DEF Taken, EventAt, At2
  <2> QED BY <1>2, <2>1, <2>2, <2>3 DEF ScanInv, CountInv
<1>4. IsInjective(report.seen)
  <2> SUFFICES ASSUME NEW i \in DOMAIN report.seen, NEW j \in DOMAIN report.seen,
                      report.seen[i] = report.seen[j], i < j
               PROVE  FALSE
    <3>1. DOMAIN report.seen \subseteq Nat
      BY <1>1
    <3> QED BY <3>1 DEF IsInjective
  <2>1. report.seen[i] \in [file : DOMAIN Files, line : Nat]
    BY <1>1, ElementOf
  <2>2. ~(report.seen[i].file < report.seen[i].file) /\ ~(report.seen[i].line < report.seen[i].line)
    BY <1>1, <2>1
  <2> QED BY <2>2 DEF ScanInv, OrderInv
<1> QED BY <1>3, <1>4

(* A report that ends has counted once every event of its kind and window  *)
(* that was complete when it began.                                        *)
THEOREM ReportsCountOnce == Spec => []EventsCounted
BY CountedOnce, ScanInvariance, PTL
-----------------------------------------------------------------------------
(* context-health.  The rank of an event is its place in the sorted list:  *)
(* ranks are a permutation, and a later event has the lower rank.          *)
LEMMA RankFacts ==
  ASSUME NEW events \in Seq(Event)
  PROVE  LET n == Len(events)
         IN  /\ \A j \in 1..n : Rank(events, j) \in 1..n
             /\ \A j, k \in 1..n : events[j].ts > events[k].ts => Rank(events, j) < Rank(events, k)
             /\ \A j, k \in 1..n : Rank(events, j) = Rank(events, k) => j = k
             /\ \A i \in 1..n : \E j \in 1..n : Rank(events, j) = i
<1> DEFINE n == Len(events)
           A(j) == Ahead(events, j)
<1>1. /\ DOMAIN events = 1..n /\ n \in Nat /\ IsFiniteSet(1..n) /\ Cardinality(1..n) = n
      /\ \A j \in 1..n : events[j].ts \in Nat
  <2>1. DOMAIN events = 1..n /\ n \in Nat
    BY DomainOf
  <2>2. \A j \in 1..n : events[j] \in Event
    BY <2>1, ElementOf
  <2>3. IsFiniteSet(1..n) /\ Cardinality(1..n) = n
    BY <2>1, FS_Interval
  <2> QED BY <2>1, <2>2, <2>3 DEF Event
<1> HIDE DEF n
<1>2. ASSUME NEW j \in 1..n
      PROVE  /\ A(j) \subseteq 1..n \ {j} /\ IsFiniteSet(A(j)) /\ Cardinality(A(j)) \in Nat
             /\ Cardinality(A(j)) <= n - 1
  <2>1. A(j) \subseteq 1..n \ {j}
    BY <1>1 DEF Ahead
  <2>2. IsFiniteSet(1..n \ {j}) /\ Cardinality(1..n \ {j}) = n - 1
    BY <1>1, FS_RemoveElement
  <2> QED BY <2>1, <2>2, FS_Subset, FS_CardinalityType
<1>3. ASSUME NEW j \in 1..n, NEW k \in 1..n, j \in A(k)
      PROVE  Rank(events, j) < Rank(events, k)
  <2>1. A(j) \cup {j} \subseteq A(k)
    BY <1>1, <1>3 DEF Ahead
  <2>2. Cardinality(A(j) \cup {j}) = Cardinality(A(j)) + 1
    BY <1>2, FS_AddElement
  <2>3. Cardinality(A(j) \cup {j}) <= Cardinality(A(k))
    BY <1>2, <2>1, FS_Subset
  <2> QED BY <1>2, <2>2, <2>3 DEF Rank
<1>4. \A j, k \in 1..n : j # k => j \in A(k) \/ k \in A(j)
  BY <1>1 DEF Ahead
<1>5. \A j \in 1..n : Rank(events, j) \in 1..n
  BY <1>1, <1>2 DEF Rank
<1>6. \A j, k \in 1..n : events[j].ts > events[k].ts => Rank(events, j) < Rank(events, k)
  <2>1. \A j, k \in 1..n : events[j].ts > events[k].ts => j \in A(k)
    BY <1>1 DEF Ahead
  <2> QED BY <1>3, <2>1
<1>7. ASSUME NEW j \in 1..n, NEW k \in 1..n, Rank(events, j) = Rank(events, k)
      PROVE  j = k
  <2>1. Rank(events, j) \in Nat
    BY <1>1, <1>5
  <2>2. CASE j \in A(k)
    BY <1>3, <1>7, <2>1, <2>2
  <2>3. CASE k \in A(j)
    BY <1>3, <1>7, <2>1, <2>3
  <2> QED BY <1>4, <2>2, <2>3
<1>8. \A i \in 1..n : \E j \in 1..n : Rank(events, j) = i
  <2> DEFINE rank == [j \in 1..n |-> Rank(events, j)]
  <2>1. rank \in Injection(1..n, 1..n)
    BY <1>5, <1>7 DEF Injection, IsInjective
  <2>2. rank \in Surjection(1..n, 1..n)
    BY <1>1, <2>1, FS_Injection
  <2> QED BY <2>2 DEF Surjection
<1> QED BY <1>5, <1>6, <1>7, <1>8 DEF n

LEMMA RowFacts ==
  ASSUME NEW events \in Seq(Event)
  PROVE  LET rows == Rows(events)
         IN  /\ Len(rows) = IF Len(events) < Recent THEN Len(events) ELSE Recent
             /\ DOMAIN rows = 1..Len(rows) /\ Len(rows) \in Nat
             /\ \A i \in DOMAIN rows : \E j \in DOMAIN events :
                  rows[i] = events[j] /\ Rank(events, j) = i
<1> DEFINE n == Len(events)
           m == IF n < Recent THEN n ELSE Recent
           sorted == LatestFirst(events)
<1>1. DOMAIN events = 1..n /\ n \in Nat /\ m \in 0..n
  BY DomainOf, ReportAssumption
<1>2. ASSUME NEW i \in 1..n
      PROVE  \E j \in 1..n : sorted[i] = events[j] /\ Rank(events, j) = i
  <2>1. \E j \in 1..n : Rank(events, j) = i
    BY RankFacts
  <2> DEFINE c == CHOOSE j \in DOMAIN events : Rank(events, j) = i
  <2>2. c \in 1..n /\ Rank(events, c) = i
    BY <1>1, <2>1
  <2>3. sorted[i] = events[c]
    BY <1>1 DEF LatestFirst
  <2> QED BY <2>2, <2>3
<1>3. sorted \in Seq(Event) /\ Len(sorted) = n
  <2>1. \A j \in 1..n : events[j] \in Event
    BY <1>1, ElementOf
  <2>2. sorted = [i \in 1..n |-> sorted[i]]
    BY <1>1 DEF LatestFirst
  <2>3. \A i \in 1..n : sorted[i] \in Event
    BY <1>2, <2>1
  <2> HIDE DEF sorted, n
  <2> QED BY <1>1, <2>2, <2>3
<1> HIDE DEF m, sorted
<1>4. Rows(events) = SubSeq(sorted, 1, m)
  BY <1>3 DEF Rows, FirstRead, m, sorted
<1> HIDE DEF n
<1>5. /\ Len(SubSeq(sorted, 1, m)) = m /\ DOMAIN SubSeq(sorted, 1, m) = 1..m
      /\ \A i \in 1..m : SubSeq(sorted, 1, m)[i] = sorted[i]
  BY <1>1, <1>3
<1>6. 1..m \subseteq 1..n /\ m \in Nat
  BY <1>1
<1> QED BY <1>1, <1>2, <1>4, <1>5, <1>6 DEF m, n

LEMMA SomeOfSize ==
  ASSUME NEW T, IsFiniteSet(T), NEW k \in Nat, k <= Cardinality(T)
  PROVE  \E S \in SUBSET T : Cardinality(S) = k
<1> DEFINE c == Cardinality(T)
<1>1. c \in Nat /\ ExistsBijection(1..c, T)
  BY FS_CardinalityType
<1>2. PICK f \in Bijection(1..c, T) : TRUE
  BY <1>1 DEF ExistsBijection
<1> HIDE DEF c
<1>3. f \in [1..c -> T] /\ \A i, j \in 1..c : f[i] = f[j] => i = j
  BY <1>2 DEF Bijection, Injection, IsInjective
<1>4. 1..k \subseteq 1..c
  BY <1>1 DEF c
<1> DEFINE S == {f[i] : i \in 1..k}
           g == [i \in 1..k |-> f[i]]
<1>5. g \in Bijection(1..k, S)
  BY <1>3, <1>4 DEF Bijection, Injection, Surjection, IsInjective
<1>6. Cardinality(S) = k
  BY <1>5, FS_CountingElements DEF ExistsBijection
<1>7. S \subseteq T
  BY <1>3, <1>4
<1> QED BY <1>6, <1>7

LEMMA SeenType ==
  ASSUME ScanInv
  PROVE  Seen \in Seq(Event) /\ DOMAIN Seen = DOMAIN report.seen /\ Len(Seen) \in Nat
<1>1. report.seen \in Seq([file : DOMAIN Files, line : Nat]) /\ lines \in [DOMAIN Files -> Seq(Events)]
  BY ReportType DEF ScanInv, TypeOK
<1>2. ASSUME NEW i \in DOMAIN report.seen
      PROVE  EventAt(report.seen[i]) \in Event
  <2> DEFINE f == report.seen[i].file
             l == report.seen[i].line
  <2>1. report.seen[i] \in [file : DOMAIN Files, line : Nat]
    BY <1>1, ElementOf
  <2>2. f \in DOMAIN Files /\ l \in 1..Len(lines[f])
    BY <2>1 DEF ScanInv, SeenInv
  <2>3. lines[f] \in Seq(Events)
    BY <1>1, <2>2
  <2>4. DOMAIN lines[f] = 1..Len(lines[f])
    BY <2>3, DomainOf
  <2>5. lines[f][l] \in Events
    BY <2>2, <2>3, <2>4, ElementOf
  <2> QED BY <2>5, CostAssumption DEF EventAt
<1>3. DOMAIN report.seen = 1..Len(report.seen) /\ Len(report.seen) \in Nat
  BY <1>1, DomainOf
<1>4. Seen \in [1..Len(report.seen) -> Event]
  BY <1>2, <1>3 DEF Seen
<1> QED BY <1>3, <1>4

LEMMA HealthShown == ScanInv => HealthIsRecent
<1> SUFFICES ASSUME ScanInv, Done("health") PROVE
      LET rows == Rows(Seen)
      IN  /\ \A at \in Settled : Taken(at) =>
               \/ EventAt(at) \in Range(rows)
               \/ Len(rows) = Recent /\ \A i \in DOMAIN rows : rows[i].ts >= EventAt(at).ts
          /\ Warns(Seen) => \E S \in SUBSET DOMAIN rows :
               Cardinality(S) = WarnAbove + 1 /\ \A i \in S : High(rows[i])
  BY DEF HealthIsRecent
<1> DEFINE rows == Rows(Seen)
           n == Len(Seen)
<1>1. /\ Seen \in Seq(Event) /\ DOMAIN Seen = DOMAIN report.seen /\ n \in Nat
      /\ DOMAIN Seen = 1..n
  BY SeenType, DomainOf
<1>2. /\ Len(rows) = IF n < Recent THEN n ELSE Recent
      /\ DOMAIN rows = 1..Len(rows) /\ Len(rows) \in Nat
      /\ \A i \in DOMAIN rows : \E j \in 1..n : rows[i] = Seen[j] /\ Rank(Seen, j) = i
  BY <1>1, RowFacts
<1>3. /\ \A j \in 1..n : Rank(Seen, j) \in 1..n
      /\ \A j, k \in 1..n : Seen[j].ts > Seen[k].ts => Rank(Seen, j) < Rank(Seen, k)
      /\ \A j, k \in 1..n : Rank(Seen, j) = Rank(Seen, k) => j = k
  BY <1>1, RankFacts
<1>4. \A j \in 1..n : Seen[j].ts \in Nat
  <2>1. \A j \in 1..n : Seen[j] \in Event
    BY <1>1, ElementOf
  <2> QED BY <2>1 DEF Event
<1>5. ASSUME NEW at \in Settled, Taken(at)
      PROVE  \/ EventAt(at) \in Range(rows)
             \/ Len(rows) = Recent /\ \A i \in DOMAIN rows : rows[i].ts >= EventAt(at).ts
  <2>1. at \in Range(report.seen)
    BY <1>5, CountedOnce DEF EventsCounted, Done
  <2>2. PICK j \in 1..n : report.seen[j] = at
    BY <1>1, <2>1 DEF Range
  <2>3. Seen[j] = EventAt(at)
    BY <1>1, <2>2 DEF Seen
  <2> HIDE DEF n, rows
  <2>4. CASE Rank(Seen, j) <= Len(rows)
    <3> DEFINE r == Rank(Seen, j)
    <3>1. r \in DOMAIN rows
      BY <1>2, <1>3, <2>4
    <3>2. PICK k \in 1..n : rows[r] = Seen[k] /\ Rank(Seen, k) = r
      BY <1>2, <3>1
    <3>3. k = j
      BY <1>3, <3>2
    <3> QED BY <2>3, <3>1, <3>2, <3>3 DEF Range
  <2>5. CASE Rank(Seen, j) > Len(rows)
    <3>1. Len(rows) = Recent
      BY <1>1, <1>2, <1>3, <2>5
    <3>2. ASSUME NEW i \in DOMAIN rows PROVE rows[i].ts >= EventAt(at).ts
      <4>1. PICK k \in 1..n : rows[i] = Seen[k] /\ Rank(Seen, k) = i
        BY <1>2
      <4>2. ~(Rank(Seen, j) < Rank(Seen, k))
        BY <1>2, <1>3, <2>5, <4>1
      <4>3. ~(Seen[j].ts > Seen[k].ts)
        BY <1>3, <4>2
      <4> QED BY <1>4, <2>3, <4>1, <4>3
    <3> QED BY <3>1, <3>2
  <2> QED BY <1>2, <1>3, <2>4, <2>5
<1>6. ASSUME Warns(Seen)
      PROVE  \E S \in SUBSET DOMAIN rows :
               Cardinality(S) = WarnAbove + 1 /\ \A i \in S : High(rows[i])
  <2> DEFINE T == {i \in DOMAIN rows : High(rows[i])}
  <2>1. Cardinality(T) > WarnAbove
    BY <1>6 DEF Warns
  <2>2. IsFiniteSet(T) /\ Cardinality(T) \in Nat
    <3>1. IsFiniteSet(DOMAIN rows)
      BY <1>2, FS_Interval
    <3> QED BY <3>1, FS_Subset, FS_CardinalityType, T \subseteq DOMAIN rows
  <2> HIDE DEF T
  <2>3. WarnAbove + 1 \in Nat /\ WarnAbove + 1 <= Cardinality(T)
    BY <2>1, <2>2, ReportAssumption
  <2>4. PICK S \in SUBSET T : Cardinality(S) = WarnAbove + 1
    BY <2>2, <2>3, SomeOfSize
  <2> QED BY <2>4 DEF T
<1> QED BY <1>5, <1>6

(* context-health leaves out an event only for as many later ones as it    *)
(* shows, although the gateway was writing while it read.                  *)
THEOREM HealthShowsTheLatest == Spec => []HealthIsRecent
BY HealthShown, ScanInvariance, PTL
-----------------------------------------------------------------------------
(* Folds.  A fold takes the elements of a finite set one by one, the one   *)
(* that pick points at first, and it exists: by induction over the size.   *)
LEMMA LeastNat ==
  ASSUME NEW T \in SUBSET Nat, T # {}
  PROVE  \E x \in T : \A y \in T : x <= y
<1> DEFINE R == OpToRel(<, Nat)
<1>1. IsWellFoundedOn(R, Nat)
  BY NatLessThanWellFounded
<1>2. \A x, y \in Nat : <<x, y>> \in R <=> x < y
  BY DEF OpToRel
<1> HIDE DEF R
<1>3. PICK x \in T : \A y \in T : <<y, x>> \notin R
  BY <1>1, WFMin
<1>4. x \in Nat /\ \A y \in T : y \in Nat
  OBVIOUS
<1>5. \A y \in T : ~(y < x)
  BY <1>2, <1>3, <1>4
<1>6. \A y \in T : x <= y
  BY <1>4, <1>5
<1> QED BY <1>6

LEMMA UpFromZero ==
  ASSUME NEW T, 0 \in T, \A n \in Nat : n \in T => n + 1 \in T
  PROVE  Nat \subseteq T
<1> SUFFICES ASSUME Nat \ T # {} PROVE FALSE
  OBVIOUS
<1> DEFINE U == Nat \ T
<1>1. U \in SUBSET Nat /\ U # {}
  OBVIOUS
<1> HIDE DEF U
<1>2. PICK x \in U : \A y \in U : x <= y
  BY <1>1, LeastNat
<1>3. x \in Nat /\ x # 0
  BY <1>2 DEF U
<1>4. x - 1 \in Nat /\ x - 1 \notin U
  BY <1>2, <1>3
<1>5. x - 1 \in T
  BY <1>4 DEF U
<1>6. x \in T
  <2>1. (x - 1) + 1 \in T
    BY <1>4, <1>5
  <2>2. (x - 1) + 1 = x
    BY <1>3
  <2> QED BY <2>1, <2>2
<1> QED BY <1>2, <1>6 DEF U

(* g is the fold of step over the subsets of S, from base, by pick. *)
Folds(g, S, base, pick, step) ==
  g = [s \in SUBSET S |-> IF s = {} THEN base ELSE step[pick[s]][g[s \ {pick[s]}]]]

Picks(pick, S) == \A s \in SUBSET S : s # {} => pick[s] \in s

LEMMA FoldExists ==
  ASSUME NEW S, IsFiniteSet(S), NEW V, NEW base \in V,
         NEW pick, Picks(pick, S),
         NEW step \in [S -> [V -> V]]
  PROVE  \E g \in [SUBSET S -> V] : Folds(g, S, base, pick, step)
<1> DEFINE Upto(n) == {s \in SUBSET S : Cardinality(s) <= n}
           Rec(g, s) == IF s = {} THEN base ELSE step[pick[s]][g[s \ {pick[s]}]]
           Ok(n) == \E g \in [SUBSET S -> V] : \A s \in Upto(n) : g[s] = Rec(g, s)
           T == {n \in Nat : Ok(n)}
<1> USE DEF Picks
<1>1. \A s \in SUBSET S : IsFiniteSet(s) /\ Cardinality(s) \in Nat /\ Cardinality(s) <= Cardinality(S)
  BY FS_Subset, FS_CardinalityType
<1>2. 0 \in T
  <2> DEFINE g == [s \in SUBSET S |-> base]
  <2>1. \A s \in Upto(0) : s = {}
    BY <1>1, FS_EmptySet
  <2>2. g \in [SUBSET S -> V] /\ \A s \in Upto(0) : g[s] = Rec(g, s)
    BY <2>1
  <2> QED BY <2>2
<1>3. ASSUME NEW n \in Nat, n \in T PROVE n + 1 \in T
  <2>1. PICK g \in [SUBSET S -> V] : \A s \in Upto(n) : g[s] = Rec(g, s)
    BY <1>3
  <2> DEFINE h == [s \in SUBSET S |-> Rec(g, s)]
  <2>2. \A s \in SUBSET S : Rec(g, s) \in V
    <3> SUFFICES ASSUME NEW s \in SUBSET S, s # {} PROVE step[pick[s]][g[s \ {pick[s]}]] \in V
      OBVIOUS
    <3>1. pick[s] \in S /\ s \ {pick[s]} \in SUBSET S
      OBVIOUS
    <3>2. g[s \ {pick[s]}] \in V /\ step[pick[s]] \in [V -> V]
      BY <3>1
    <3> QED BY <3>2
  <2>3. h \in [SUBSET S -> V]
    <3> HIDE DEF Rec
    <3> QED BY <2>2
  <2>4. \A s \in Upto(n) : h[s] = g[s]
    <3> HIDE DEF Rec
    <3> QED BY <2>1
  <2>5. ASSUME NEW s \in Upto(n + 1) PROVE h[s] = Rec(h, s)
    <3>1. CASE s = {}
      BY <3>1
    <3>2. CASE s # {}
      <4> DEFINE x == pick[s]
                 t == s \ {x}
      <4>1. x \in s
        BY <3>2
      <4>2. Cardinality(t) = Cardinality(s) - 1
        BY <1>1, <4>1, FS_RemoveElement
      <4>3. t \in Upto(n)
        BY <1>1, <2>5, <4>2
      <4>4. h[t] = g[t]
        BY <2>4, <4>3
      <4>5. h[s] = step[x][g[t]]
        BY <3>2
      <4> HIDE DEF h
      <4> QED BY <3>2, <4>4, <4>5
    <3> QED BY <3>1, <3>2
  <2>6. Ok(n + 1)
    <3> HIDE DEF h, Rec, Upto
    <3> QED BY <2>3, <2>5
  <2> HIDE DEF Ok
  <2> QED BY <2>6
<1>4. Cardinality(S) \in T
  <2> HIDE DEF T
  <2>1. Nat \subseteq T
    BY <1>2, <1>3, UpFromZero
  <2> QED BY <2>1, FS_CardinalityType
<1>5. PICK g \in [SUBSET S -> V] : \A s \in Upto(Cardinality(S)) : g[s] = Rec(g, s)
  BY <1>4
<1>6. \A s \in SUBSET S : s \in Upto(Cardinality(S))
  BY <1>1
<1>7. g = [s \in SUBSET S |-> Rec(g, s)]
  <2> HIDE DEF Rec, Upto
  <2> QED BY <1>5, <1>6
<1> QED BY <1>7 DEF Folds

LEMMA MaxFacts ==
  ASSUME NEW n \in Nat, NEW s \in SUBSET (1..n), s # {}
  PROVE  Max(s) \in s /\ \A y \in s : Max(s) >= y
<1> DEFINE T == {n - y : y \in s}
<1>1. T \in SUBSET Nat /\ T # {}
  <2>1. \A y \in s : n - y \in Nat
    OBVIOUS
  <2> QED BY <2>1
<1>2. PICK d \in T : \A e \in T : d <= e
  BY <1>1, LeastNat
<1>3. PICK x \in s : d = n - x
  BY <1>2
<1>4. \A y \in s : x >= y
  <2> SUFFICES ASSUME NEW y \in s PROVE x >= y
    OBVIOUS
  <2>1. n - y \in T
    OBVIOUS
  <2>2. d <= n - y
    BY <1>2, <2>1
  <2>3. x \in 1..n /\ y \in 1..n
    OBVIOUS
  <2> QED BY <1>3, <2>2, <2>3
<1> QED BY <1>4 DEF Max

(* The fold of step over 1..n from the left. *)
LeftFold(g, n, base, step) ==
  g = [s \in SUBSET (1..n) |-> IF s = {} THEN base ELSE step[Max(s)][g[s \ {Max(s)}]]]

LEMMA LeftFoldExists ==
  ASSUME NEW n \in Nat, NEW V, NEW base \in V, NEW step \in [1..n -> [V -> V]]
  PROVE  \E g \in [SUBSET (1..n) -> V] : LeftFold(g, n, base, step)
<1> DEFINE S == 1..n
           pick == [s \in SUBSET S |-> Max(s)]
<1>1. IsFiniteSet(S)
  BY FS_Interval
<1>2. Picks(pick, S)
  BY MaxFacts DEF Picks
<1> HIDE DEF pick
<1>3. PICK g \in [SUBSET S -> V] : Folds(g, S, base, pick, step)
  <2>1. step \in [S -> [V -> V]]
    OBVIOUS
  <2> HIDE DEF S
  <2> QED BY <1>1, <1>2, <2>1, FoldExists
<1>4. \A s \in SUBSET S : pick[s] = Max(s)
  BY DEF pick
<1>5. LeftFold(g, n, base, step)
  BY <1>3, <1>4 DEF Folds, LeftFold
<1> QED BY <1>5

LEMMA UptoFacts ==
  ASSUME NEW n \in Nat, NEW i \in 1..n
  PROVE  1..i \in SUBSET (1..n) /\ 1..i # {} /\ Max(1..i) = i /\ (1..i) \ {i} = 1..(i - 1)
<1>1. 1..i \in SUBSET (1..n) /\ i \in 1..i /\ (1..i) \ {i} = 1..(i - 1)
  OBVIOUS
<1>2. Max(1..i) \in 1..i /\ Max(1..i) >= i
  BY <1>1, MaxFacts
<1> QED BY <1>1, <1>2
-----------------------------------------------------------------------------
(* The price list. *)
Price == [Kinds -> Nat]
Entries == [id : ModelIds, price : Price]
Maps(X, V) == UNION {[D -> V] : D \in {D \in SUBSET X : IsFiniteSet(D)}}
Tables == Maps(ModelIds, Price)
Short(id) == Lower(Bare(id))

LEMMA IdFacts ==
  ASSUME NEW id \in ModelIds
  PROVE  /\ Lower(id) \in ModelIds /\ Bare(id) \in ModelIds /\ Short(id) \in ModelIds
         /\ Short(Lower(id)) = Short(id) /\ Short(Bare(id)) = Short(id)
         /\ Short(Short(id)) = Short(id)
BY DEF ModelIds, Lower, Bare, Short

LEMMA MapFacts ==
  ASSUME NEW X, NEW V, NEW f \in Maps(X, V)
  PROVE  DOMAIN f \in SUBSET X /\ IsFiniteSet(DOMAIN f) /\ f \in [DOMAIN f -> V]
BY DEF Maps

LEMMA IsMap ==
  ASSUME NEW X, NEW V, NEW D \in SUBSET X, IsFiniteSet(D), NEW f \in [D -> V]
  PROVE  f \in Maps(X, V)
BY DEF Maps

LEMMA EmptyMap == ASSUME NEW X, NEW V PROVE <<>> \in Maps(X, V) /\ DOMAIN <<>> = {}
<1>1. <<>> \in [{} -> V] /\ IsFiniteSet({}) /\ {} \in SUBSET X
  BY FS_EmptySet
<1> QED BY <1>1, IsMap

LEMMA PutMap ==
  ASSUME NEW X, NEW V, NEW f \in Maps(X, V), NEW x \in X, NEW v \in V
  PROVE  Put(f, x, v) \in Maps(X, V)
<1> DEFINE D == DOMAIN f \cup {x}
<1>1. D \in SUBSET X /\ IsFiniteSet(D)
  BY MapFacts, FS_AddElement
<1>2. \A y \in D : (IF y = x THEN v ELSE f[y]) \in V
  BY MapFacts
<1>3. Put(f, x, v) \in [D -> V]
  BY <1>2 DEF Put
<1> HIDE DEF D
<1> QED BY <1>1, <1>3, IsMap

LEMMA AddedLast ==
  ASSUME NEW t \in Tables, NEW id \in ModelIds, NEW p \in Price
  PROVE  LET u == IfAbsent(t, id, p)
         IN  /\ u \in Tables /\ DOMAIN u = DOMAIN t \cup {id}
             /\ \A x \in DOMAIN t : u[x] = t[x]
             /\ id \notin DOMAIN t => u[id] = p
<1>1. CASE id \in DOMAIN t
  BY <1>1 DEF IfAbsent
<1>2. CASE id \notin DOMAIN t
  <2>1. IfAbsent(t, id, p) = Put(t, id, p)
    BY <1>2 DEF IfAbsent
  <2>2. /\ DOMAIN Put(t, id, p) = DOMAIN t \cup {id} /\ Put(t, id, p)[id] = p
        /\ \A x \in DOMAIN t \ {id} : Put(t, id, p)[x] = t[x]
    BY DEF Put
  <2>3. Put(t, id, p) \in Tables
    BY PutMap DEF Tables
  <2> QED BY <1>2, <2>1, <2>2, <2>3
<1> QED BY <1>1, <1>2

LEMMA IndexFacts ==
  ASSUME NEW t \in Tables, NEW m \in Entries
  PROVE  LET u == IndexModel(t, m)
         IN  /\ u \in Tables
             /\ DOMAIN u = DOMAIN t \cup {m.id, Bare(m.id), Lower(m.id), Short(m.id)}
             /\ u[m.id] = m.price
             /\ \A x \in DOMAIN t \ {m.id} : u[x] = t[x]
             /\ \A x \in DOMAIN u \ DOMAIN t : u[x] = m.price
<1> DEFINE id == m.id
           p == m.price
           u1 == IndexFull(t, m)
           u2 == IfAbsent(u1, Bare(id), p)
           u3 == IfAbsent(u2, Lower(id), p)
           u4 == IfAbsent(u3, Short(id), p)
<1>1. /\ id \in ModelIds /\ p \in Price
      /\ Bare(id) \in ModelIds /\ Lower(id) \in ModelIds /\ Short(id) \in ModelIds
  BY IdFacts DEF Entries
<1>2. IndexModel(t, m) = u4
  BY DEF IndexModel, Short
<1>3. u1 = Put(t, id, p)
  BY DEF IndexFull
<1> HIDE DEF id, p, u1
<1>4. u1 \in Tables /\ DOMAIN u1 = DOMAIN t \cup {id} /\ u1[id] = p
      /\ \A x \in DOMAIN t \ {id} : u1[x] = t[x]
  <2>1. /\ DOMAIN Put(t, id, p) = DOMAIN t \cup {id} /\ Put(t, id, p)[id] = p
        /\ \A x \in DOMAIN t \ {id} : Put(t, id, p)[x] = t[x]
    BY DEF Put
  <2>2. Put(t, id, p) \in Tables
    BY <1>1, PutMap DEF Tables
  <2> QED BY <1>3, <2>1, <2>2
<1>5. u2 \in Tables /\ DOMAIN u2 = DOMAIN u1 \cup {Bare(id)} /\ (\A x \in DOMAIN u1 : u2[x] = u1[x])
      /\ (Bare(id) \notin DOMAIN u1 => u2[Bare(id)] = p)
  BY <1>1, <1>4, AddedLast
<1> HIDE DEF u2
<1>6. u3 \in Tables /\ DOMAIN u3 = DOMAIN u2 \cup {Lower(id)} /\ (\A x \in DOMAIN u2 : u3[x] = u2[x])
      /\ (Lower(id) \notin DOMAIN u2 => u3[Lower(id)] = p)
  BY <1>1, <1>5, AddedLast
<1> HIDE DEF u3
<1>7. u4 \in Tables /\ DOMAIN u4 = DOMAIN u3 \cup {Short(id)} /\ (\A x \in DOMAIN u3 : u4[x] = u3[x])
      /\ (Short(id) \notin DOMAIN u3 => u4[Short(id)] = p)
  BY <1>1, <1>6, AddedLast
<1> HIDE DEF u4
<1>8. DOMAIN u4 = DOMAIN t \cup {id, Bare(id), Lower(id), Short(id)}
  BY <1>4, <1>5, <1>6, <1>7
<1>9. u4[id] = p /\ \A x \in DOMAIN t \ {id} : u4[x] = t[x]
  BY <1>4, <1>5, <1>6, <1>7
<1>10. \A x \in DOMAIN u4 \ DOMAIN t : u4[x] = p
  BY <1>4, <1>5, <1>6, <1>7
<1> QED BY <1>2, <1>7, <1>8, <1>9, <1>10 DEF id, p

(* The table after i entries of the list. *)
IsIndexed(F, list) ==
  /\ F[0] = <<>>
  /\ \A i \in 1..Len(list) : F[i] = IndexModel(F[i - 1], list[i])
  /\ CostTable(list) = F[Len(list)]

LEMMA Indexed ==
  ASSUME NEW list \in Seq(Entries), list # None
  PROVE  \E F : IsIndexed(F, list)
<1> DEFINE n == Len(list)
           Rec(g) == g = [s \in SUBSET DOMAIN list |->
                           IF s = {} THEN <<>> ELSE IndexModel(g[s \ {Max(s)}], list[Max(s)])]
           h == CHOOSE g : Rec(g)
           step == [i \in 1..n |-> [t \in Tables |-> IndexModel(t, list[i])]]
<1>1. DOMAIN list = 1..n /\ n \in Nat
  BY DomainOf
<1>2. \A i \in 1..n : list[i] \in Entries
  BY <1>1, ElementOf
<1>3. CostTable(list) = h[DOMAIN list]
  BY DEF CostTable, FoldLeft, MapThenFoldSet
<1>4. <<>> \in Tables
  BY EmptyMap DEF Tables
<1>5. step \in [1..n -> [Tables -> Tables]]
  BY <1>2, IndexFacts
<1>6. PICK g \in [SUBSET (1..n) -> Tables] : LeftFold(g, n, <<>>, step)
  <2> HIDE DEF n, step
  <2> QED BY <1>1, <1>4, <1>5, LeftFoldExists
<1>7. Rec(g)
  <2>1. \A s \in SUBSET (1..n) : s # {} => step[Max(s)][g[s \ {Max(s)}]] = IndexModel(g[s \ {Max(s)}], list[Max(s)])
    <3> SUFFICES ASSUME NEW s \in SUBSET (1..n), s # {}
                 PROVE  step[Max(s)][g[s \ {Max(s)}]] = IndexModel(g[s \ {Max(s)}], list[Max(s)])
      OBVIOUS
    <3>1. Max(s) \in 1..n
      BY <1>1, MaxFacts
    <3>2. g[s \ {Max(s)}] \in Tables
      BY <1>6
    <3> QED BY <3>1, <3>2
  <2>2. g = [s \in SUBSET (1..n) |-> IF s = {} THEN <<>> ELSE step[Max(s)][g[s \ {Max(s)}]]]
    BY <1>6 DEF LeftFold
  <2> HIDE DEF step, n
  <2> QED BY <1>1, <2>1, <2>2
<1>8. Rec(h)
  <2> HIDE DEF Rec
  <2> QED BY <1>7
<1> HIDE DEF h, step
<1> DEFINE F == [i \in 0..n |-> h[1..i]]
<1>9. F[0] = <<>>
  <2>1. 1..0 = {} /\ {} \in SUBSET DOMAIN list
    OBVIOUS
  <2> QED BY <1>1, <1>8, <2>1
<1>10. ASSUME NEW i \in 1..n PROVE F[i] = IndexModel(F[i - 1], list[i])
  <2>1. 1..i \in SUBSET DOMAIN list /\ 1..i # {} /\ Max(1..i) = i /\ (1..i) \ {i} = 1..(i - 1)
    BY <1>1, UptoFacts
  <2>2. h[1..i] = IndexModel(h[1..(i - 1)], list[i])
    BY <1>8, <2>1
  <2>3. i \in 0..n /\ i - 1 \in 0..n
    BY <1>1
  <2> QED BY <2>2, <2>3
<1>11. CostTable(list) = F[n]
  BY <1>1, <1>3
<1> QED BY <1>9, <1>10, <1>11 DEF IsIndexed

(* Every price of the table is an entry's, under a spelling of its name,   *)
(* and an entry that no later one has the id of is priced at its own.      *)
TableInv(t, list, i) ==
  /\ t \in Tables
  /\ \A j \in 1..i : list[j].id \in DOMAIN t /\ Short(list[j].id) \in DOMAIN t
  /\ \A x \in DOMAIN t : \E j \in 1..i : Short(x) = Short(list[j].id) /\ t[x] = list[j].price
  /\ \A j \in 1..i :
       (\A k \in 1..i : k > j => list[k].id # list[j].id) => t[list[j].id] = list[j].price

LEMMA TableStep ==
  ASSUME NEW list \in Seq(Entries), NEW i \in Nat, i < Len(list), NEW t, TableInv(t, list, i)
  PROVE  TableInv(IndexModel(t, list[i + 1]), list, i + 1)
<1> DEFINE m == list[i + 1]
           u == IndexModel(t, m)
<1>1. /\ DOMAIN list = 1..Len(list) /\ Len(list) \in Nat /\ i + 1 \in 1..Len(list)
      /\ 1..(i + 1) = 1..i \cup {i + 1}
  BY DomainOf
<1>2. m \in Entries /\ m.id \in ModelIds
  <2>1. m \in Entries
    BY <1>1, ElementOf
  <2> QED BY <2>1 DEF Entries
<1>3. t \in Tables
  BY DEF TableInv
<1>4. /\ u \in Tables
      /\ DOMAIN u = DOMAIN t \cup {m.id, Bare(m.id), Lower(m.id), Short(m.id)}
      /\ u[m.id] = m.price
      /\ \A x \in DOMAIN t \ {m.id} : u[x] = t[x]
      /\ \A x \in DOMAIN u \ DOMAIN t : u[x] = m.price
  BY <1>2, <1>3, IndexFacts
<1> HIDE DEF u
<1>5. \A j \in 1..(i + 1) : list[j].id \in DOMAIN u /\ Short(list[j].id) \in DOMAIN u
  BY <1>1, <1>4 DEF TableInv
<1>6. ASSUME NEW x \in DOMAIN u
      PROVE  \E j \in 1..(i + 1) : Short(x) = Short(list[j].id) /\ u[x] = list[j].price
  <2>1. CASE x \in DOMAIN t /\ x # m.id
    <3>1. PICK j \in 1..i : Short(x) = Short(list[j].id) /\ t[x] = list[j].price
      BY <2>1 DEF TableInv
    <3>2. u[x] = t[x] /\ j \in 1..(i + 1)
      BY <1>1, <1>4, <2>1
    <3> QED BY <3>1, <3>2
  <2>2. CASE x \notin DOMAIN t \/ x = m.id
    <3>1. u[x] = m.price /\ x \in {m.id, Bare(m.id), Lower(m.id), Short(m.id)}
      BY <1>4, <1>6, <2>2
    <3>2. Short(x) = Short(m.id)
      BY <1>2, <3>1, IdFacts
    <3> QED BY <1>1, <3>1, <3>2
  <2> QED BY <2>1, <2>2
<1>7. ASSUME NEW j \in 1..(i + 1), \A k \in 1..(i + 1) : k > j => list[k].id # list[j].id
      PROVE  u[list[j].id] = list[j].price
  <2>1. CASE j = i + 1
    BY <1>4, <2>1
  <2>2. CASE j \in 1..i
    <3>1. list[j].id # m.id
      BY <1>1, <1>7, <2>2
    <3>2. \A k \in 1..i : k > j => list[k].id # list[j].id
      BY <1>1, <1>7
    <3>3. t[list[j].id] = list[j].price /\ list[j].id \in DOMAIN t
      BY <2>2, <3>2 DEF TableInv
    <3> QED BY <1>4, <3>1, <3>3
  <2> QED BY <1>1, <2>1, <2>2
<1> QED BY <1>4, <1>5, <1>6, <1>7 DEF TableInv, u

LEMMA TableOf ==
  ASSUME NEW list \in Seq(Entries), list # None
  PROVE  TableInv(CostTable(list), list, Len(list))
<1>1. PICK F : IsIndexed(F, list)
  BY Indexed
<1> DEFINE n == Len(list)
           T == {i \in Nat : i <= n => TableInv(F[i], list, i)}
<1>2. DOMAIN list = 1..n /\ n \in Nat
  BY DomainOf
<1>3. 0 \in T
  <2>1. <<>> \in Tables /\ DOMAIN <<>> = {}
    BY EmptyMap DEF Tables
  <2>2. F[0] = <<>> /\ 1..0 = {}
    BY <1>1 DEF IsIndexed
  <2>3. TableInv(F[0], list, 0)
    BY <2>1, <2>2 DEF TableInv
  <2> QED BY <2>3
<1>4. ASSUME NEW i \in Nat, i \in T PROVE i + 1 \in T
  <2> SUFFICES ASSUME i + 1 <= n PROVE TableInv(F[i + 1], list, i + 1)
    OBVIOUS
  <2>1. i < n /\ TableInv(F[i], list, i)
    BY <1>2, <1>4
  <2>2. F[i + 1] = IndexModel(F[i], list[i + 1])
    <3>1. i + 1 \in 1..n /\ (i + 1) - 1 = i
      BY <1>2
    <3> QED BY <1>1, <3>1 DEF IsIndexed
  <2>3. TableInv(IndexModel(F[i], list[i + 1]), list, i + 1)
    BY <2>1, TableStep
  <2> QED BY <2>2, <2>3
<1>5. n \in T
  <2> HIDE DEF T
  <2> QED BY <1>2, <1>3, <1>4, UpFromZero
<1>6. TableInv(F[n], list, n)
  BY <1>2, <1>5
<1> QED BY <1>1, <1>6 DEF IsIndexed

LEMMA Resolved ==
  ASSUME NEW t \in Tables, NEW id \in ModelIds, Short(id) \in DOMAIN t
  PROVE  /\ \E x \in DOMAIN t : Short(x) = Short(id) /\ ResolveCostBlock(id, t) = t[x]
         /\ id \in DOMAIN t => ResolveCostBlock(id, t) = t[id]
<1> DEFINE spelled == <<id, Lower(id), Bare(id), Short(id)>>
           hits == {i \in 1..4 : spelled[i] \in DOMAIN t}
           k == Min(hits)
<1>1. /\ spelled[1] = id /\ spelled[2] = Lower(id) /\ spelled[3] = Bare(id)
      /\ spelled[4] = Short(id)
  OBVIOUS
<1>2. ResolveCostBlock(id, t) = IF hits = {} THEN None ELSE t[spelled[k]]
  BY DEF ResolveCostBlock, Short
<1> HIDE DEF spelled
<1>3. hits \in SUBSET Nat /\ 4 \in hits
  BY <1>1
<1>4. \E x \in hits : \A y \in hits : x <= y
  <2> HIDE DEF hits
  <2> QED BY <1>3, LeastNat
<1>5. k \in hits /\ \A y \in hits : k <= y
  <2> HIDE DEF hits
  <2> QED BY <1>4 DEF Min
<1> HIDE DEF k
<1>6. ResolveCostBlock(id, t) = t[spelled[k]] /\ spelled[k] \in DOMAIN t /\ k \in 1..4
  BY <1>2, <1>5
<1>7. Short(spelled[k]) = Short(id)
  <2>1. k = 1 \/ k = 2 \/ k = 3 \/ k = 4
    BY <1>6
  <2> QED BY <1>1, <2>1, IdFacts
<1>8. ASSUME id \in DOMAIN t PROVE k = 1
  <2>1. 1 \in hits
    BY <1>1, <1>8
  <2>2. k <= 1 /\ k \in 1..4
    BY <1>5, <1>6, <2>1
  <2> QED BY <2>2
<1> QED BY <1>1, <1>6, <1>7, <1>8

LEMMA PricesAgree ==
  ASSUME NEW list \in Seq(Entries), list # None
  PROVE  LET table == CostTable(list)
             Final(i) == \A j \in DOMAIN list : j > i => list[j].id # list[i].id
             Only(i) == \A j \in DOMAIN list \ {i} : Short(list[j].id) # Short(list[i].id)
         IN  \A i \in DOMAIN list :
               /\ Final(i) => ResolveCostBlock(list[i].id, table) = list[i].price
               /\ Only(i) => \A id \in ModelIds :
                    Short(id) = Short(list[i].id) => ResolveCostBlock(id, table) = list[i].price
<1> DEFINE table == CostTable(list)
           n == Len(list)
<1>1. DOMAIN list = 1..n /\ n \in Nat
  BY DomainOf
<1>2. \A i \in 1..n : list[i].id \in ModelIds
  <2>1. \A i \in 1..n : list[i] \in Entries
    BY <1>1, ElementOf
  <2> QED BY <2>1 DEF Entries
<1>3. TableInv(table, list, n)
  BY TableOf
<1> HIDE DEF table, n
<1>4. table \in Tables
  BY <1>3 DEF TableInv
<1>5. ASSUME NEW i \in 1..n, \A j \in 1..n : j > i => list[j].id # list[i].id
      PROVE  ResolveCostBlock(list[i].id, table) = list[i].price
  <2>1. /\ table[list[i].id] = list[i].price /\ list[i].id \in DOMAIN table
        /\ Short(list[i].id) \in DOMAIN table
    BY <1>3, <1>5 DEF TableInv
  <2> QED BY <1>2, <1>4, <2>1, Resolved
<1>6. ASSUME NEW i \in 1..n, \A j \in 1..n \ {i} : Short(list[j].id) # Short(list[i].id),
             NEW id \in ModelIds, Short(id) = Short(list[i].id)
      PROVE  ResolveCostBlock(id, table) = list[i].price
  <2>1. Short(id) \in DOMAIN table
    BY <1>3, <1>6 DEF TableInv
  <2>2. PICK x \in DOMAIN table : Short(x) = Short(id) /\ ResolveCostBlock(id, table) = table[x]
    BY <1>4, <2>1, Resolved
  <2>3. PICK j \in 1..n : Short(x) = Short(list[j].id) /\ table[x] = list[j].price
    BY <1>3 DEF TableInv
  <2>4. j = i
    BY <1>6, <2>2, <2>3
  <2> QED BY <2>2, <2>3, <2>4
<1> QED BY <1>1, <1>5, <1>6 DEF table

LEMMA AskedList == TypeOK => report.ask.list \in Seq(Entries) \cup {None}
<1> SUFFICES ASSUME TypeOK PROVE report.ask.list \in Seq(Entries) \cup {None}
  OBVIOUS
<1>1. report.ask \in Asked
  BY DEF TypeOK, Reports
<1>2. report.ask.list \in Seq([id : ModelIds, price : [Kinds -> Nat]]) \cup {None}
  BY <1>1, CostAssumption
<1> QED BY <1>2 DEF Entries, Price

LEMMA PricedRight == TypeOK => PricesFit
<1> SUFFICES ASSUME TypeOK, report.ask.list # None PROVE PricesFit
  BY DEF PricesFit
<1> DEFINE list == report.ask.list
<1>1. list \in Seq(Entries) /\ list # None
  BY AskedList
<1> HIDE DEF list
<1> QED BY <1>1, PricesAgree DEF PricesFit, list, Short

(* A model is billed at its own price, whatever spelling a trajectory      *)
(* gives its name and whatever other models the price list holds.          *)
THEOREM ModelsPayTheirPrice == Spec => []PricesFit
<1>1. ScanInv => PricesFit
  BY PricedRight DEF ScanInv
<1> QED BY <1>1, ScanInvariance, PTL
-----------------------------------------------------------------------------
(* Sums.  Rest(f, s) is the sum of f over a part s of its domain; the      *)
(* element that a sum takes first does not matter.                         *)
SumRec(g, f) ==
  g = [s \in SUBSET DOMAIN f |->
        IF s = {} THEN 0 ELSE LET x == CHOOSE x \in s : TRUE IN f[x] + g[s \ {x}]]
Rest(f, s) == (CHOOSE g : SumRec(g, f))[s]

LEMMA SumIsRest == ASSUME NEW f PROVE SumFunction(f) = Rest(f, DOMAIN f)
BY DEF SumFunction, SumFunctionOnSet, FoldFunctionOnSet, MapThenFoldSet, SumRec, Rest

LEMMA RestFacts ==
  ASSUME NEW S, IsFiniteSet(S), NEW f \in [S -> Nat]
  PROVE  /\ Rest(f, {}) = 0
         /\ \A s \in SUBSET S : s # {} => \E x \in s : Rest(f, s) = f[x] + Rest(f, s \ {x})
<1> DEFINE pick == [s \in SUBSET S |-> CHOOSE x \in s : TRUE]
           step == [x \in S |-> [v \in Nat |-> f[x] + v]]
           h == CHOOSE g : SumRec(g, f)
<1>1. Picks(pick, S)
  <2>1. \A s \in SUBSET S : s # {} => (CHOOSE x \in s : TRUE) \in s
    OBVIOUS
  <2> QED BY <2>1 DEF Picks
<1>2. step \in [S -> [Nat -> Nat]]
  OBVIOUS
<1>3. PICK g \in [SUBSET S -> Nat] : Folds(g, S, 0, pick, step)
  <2> HIDE DEF pick, step
  <2> QED BY <1>1, <1>2, FoldExists
<1>4. SumRec(g, f)
  <2> DEFINE c(s) == CHOOSE x \in s : TRUE
  <2>1. ASSUME NEW s \in SUBSET S, s # {}
        PROVE  step[pick[s]][g[s \ {pick[s]}]] = f[c(s)] + g[s \ {c(s)}]
    <3>1. c(s) \in s /\ pick[s] = c(s)
      BY <2>1
    <3> HIDE DEF c, pick
    <3>2. c(s) \in S /\ g[s \ {c(s)}] \in Nat
      BY <3>1
    <3> QED BY <3>1, <3>2
  <2>2. g = [s \in SUBSET S |-> IF s = {} THEN 0 ELSE step[pick[s]][g[s \ {pick[s]}]]]
    BY <1>3 DEF Folds
  <2> HIDE DEF step, pick
  <2>3. g = [s \in SUBSET S |-> IF s = {} THEN 0 ELSE f[c(s)] + g[s \ {c(s)}]]
    <3> HIDE DEF c
    <3> QED BY <2>1, <2>2
  <2>4. DOMAIN f = S
    OBVIOUS
  <2> QED BY <2>3, <2>4 DEF SumRec
<1>5. SumRec(h, f)
  BY <1>4
<1> HIDE DEF h
<1>6. \A s : Rest(f, s) = h[s]
  BY DEF Rest, h
<1>7. h[{}] = 0
  BY <1>5 DEF SumRec
<1>8. ASSUME NEW s \in SUBSET S, s # {} PROVE \E x \in s : h[s] = f[x] + h[s \ {x}]
  <2> DEFINE c == CHOOSE x \in s : TRUE
  <2>1. c \in s
    BY <1>8
  <2>2. h[s] = f[c] + h[s \ {c}]
    BY <1>5, <1>8 DEF SumRec
  <2> HIDE DEF c
  <2> QED BY <2>1, <2>2
<1> QED BY <1>6, <1>7, <1>8

(* Induction over the size of a part of a finite set.                      *)
LEMMA BySize ==
  ASSUME NEW S, IsFiniteSet(S), NEW Good,
         \A s \in SUBSET S : (\A x \in s : s \ {x} \in Good) => s \in Good
  PROVE  SUBSET S \subseteq Good
<1> DEFINE T == {n \in Nat : \A s \in SUBSET S : Cardinality(s) = n => s \in Good}
<1>1. \A s \in SUBSET S : IsFiniteSet(s) /\ Cardinality(s) \in Nat
  BY FS_Subset, FS_CardinalityType
<1>2. 0 \in T
  <2>1. \A s \in SUBSET S : Cardinality(s) = 0 => s = {}
    BY <1>1, FS_EmptySet
  <2> QED BY <2>1
<1>3. ASSUME NEW n \in Nat, n \in T PROVE n + 1 \in T
  <2> SUFFICES ASSUME NEW s \in SUBSET S, Cardinality(s) = n + 1 PROVE s \in Good
    OBVIOUS
  <2>1. ASSUME NEW x \in s PROVE s \ {x} \in Good
    <3>1. Cardinality(s \ {x}) = n
      BY <1>1, FS_RemoveElement
    <3>2. s \ {x} \in SUBSET S
      OBVIOUS
    <3> QED BY <1>3, <3>1, <3>2
  <2> QED BY <2>1
<1>4. Nat \subseteq T
  <2> HIDE DEF T
  <2> QED BY <1>2, <1>3, UpFromZero
<1> QED BY <1>1, <1>4

LEMMA RestNat ==
  ASSUME NEW S, IsFiniteSet(S), NEW f \in [S -> Nat]
  PROVE  \A s \in SUBSET S : Rest(f, s) \in Nat
<1> DEFINE Good == {s \in SUBSET S : Rest(f, s) \in Nat}
<1>1. ASSUME NEW s \in SUBSET S, \A x \in s : s \ {x} \in Good PROVE s \in Good
  <2>1. CASE s = {}
    BY <2>1, RestFacts
  <2>2. CASE s # {}
    <3>1. PICK c \in s : Rest(f, s) = f[c] + Rest(f, s \ {c})
      BY <2>2, RestFacts
    <3>2. Rest(f, s \ {c}) \in Nat /\ f[c] \in Nat
      BY <1>1
    <3> QED BY <3>1, <3>2
  <2> QED BY <2>1, <2>2
<1>2. SUBSET S \subseteq Good
  <2> HIDE DEF Good
  <2> QED BY <1>1, BySize
<1> QED BY <1>2

LEMMA RestAny ==
  ASSUME NEW S, IsFiniteSet(S), NEW f \in [S -> Nat]
  PROVE  \A s \in SUBSET S : \A x \in s : Rest(f, s) = f[x] + Rest(f, s \ {x})
<1> DEFINE Splits(s) == \A x \in s : Rest(f, s) = f[x] + Rest(f, s \ {x})
           Good == {s \in SUBSET S : Splits(s)}
<1>1. \A s \in SUBSET S : Rest(f, s) \in Nat
  BY RestNat
<1>2. ASSUME NEW s \in SUBSET S, \A x \in s : s \ {x} \in Good PROVE s \in Good
  <2> SUFFICES ASSUME NEW x \in s PROVE Rest(f, s) = f[x] + Rest(f, s \ {x})
    OBVIOUS
  <2>1. PICK c \in s : Rest(f, s) = f[c] + Rest(f, s \ {c})
    BY RestFacts
  <2>2. ASSUME x # c PROVE Rest(f, s) = f[x] + Rest(f, s \ {x})
    <3> DEFINE t == s \ {c, x}
    <3>1. s \ {c} \in Good /\ x \in s \ {c} /\ (s \ {c}) \ {x} = t
      BY <1>2, <2>2
    <3>2. s \ {x} \in Good /\ c \in s \ {x} /\ (s \ {x}) \ {c} = t
      BY <1>2, <2>2
    <3>3. t \in SUBSET S /\ f[x] \in Nat /\ f[c] \in Nat
      OBVIOUS
    <3> HIDE DEF t
    <3>4. Rest(f, s \ {c}) = f[x] + Rest(f, t)
      BY <3>1
    <3>5. Rest(f, s \ {x}) = f[c] + Rest(f, t)
      BY <3>2
    <3>6. Rest(f, t) \in Nat
      BY <1>1, <3>3
    <3> HIDE DEF Good
    <3> QED BY <2>1, <3>3, <3>4, <3>5, <3>6
  <2> QED BY <2>1, <2>2
<1> HIDE DEF Splits
<1>3. SUBSET S \subseteq Good
  <2> HIDE DEF Good
  <2> QED BY <1>2, BySize
<1> QED BY <1>3 DEF Splits

LEMMA RestAlike ==
  ASSUME NEW S, IsFiniteSet(S), NEW f \in [S -> Nat], NEW T, IsFiniteSet(T), NEW g \in [T -> Nat]
  PROVE  \A s \in SUBSET (S \cap T) : (\A x \in s : f[x] = g[x]) => Rest(f, s) = Rest(g, s)
<1> DEFINE U == S \cap T
           Alike(s) == (\A x \in s : f[x] = g[x]) => Rest(f, s) = Rest(g, s)
           Good == {s \in SUBSET U : Alike(s)}
<1>1. IsFiniteSet(U)
  BY FS_Subset, U \in SUBSET S
<1>2. ASSUME NEW s \in SUBSET U, \A x \in s : s \ {x} \in Good PROVE s \in Good
  <2> SUFFICES ASSUME \A x \in s : f[x] = g[x] PROVE Rest(f, s) = Rest(g, s)
    OBVIOUS
  <2>0. s \in SUBSET S /\ s \in SUBSET T
    OBVIOUS
  <2>1. CASE s = {}
    BY <2>1, RestFacts
  <2>2. CASE s # {}
    <3>1. PICK c \in s : Rest(f, s) = f[c] + Rest(f, s \ {c})
      BY <2>0, <2>2, RestFacts
    <3>2. Rest(g, s) = g[c] + Rest(g, s \ {c})
      BY <2>0, RestAny
    <3>3. s \ {c} \in Good
      BY <1>2
    <3>4. Rest(f, s \ {c}) = Rest(g, s \ {c})
      BY <3>3
    <3> QED BY <3>1, <3>2, <3>4
  <2> QED BY <2>1, <2>2
<1> HIDE DEF Alike
<1>3. SUBSET U \subseteq Good
  <2> HIDE DEF Good, U
  <2> QED BY <1>1, <1>2, BySize
<1> QED BY <1>3 DEF Alike

LEMMA SumType ==
  ASSUME NEW S, IsFiniteSet(S), NEW f \in [S -> Nat]
  PROVE  SumFunction(f) \in Nat
<1>1. SumFunction(f) = Rest(f, S) /\ S \in SUBSET S
  BY SumIsRest
<1> QED BY <1>1, RestNat

LEMMA SumZero ==
  ASSUME NEW S, IsFiniteSet(S), NEW f \in [S -> Nat], \A x \in S : f[x] = 0
  PROVE  SumFunction(f) = 0
<1> DEFINE Good == {s \in SUBSET S : Rest(f, s) = 0}
<1>1. ASSUME NEW s \in SUBSET S, \A x \in s : s \ {x} \in Good PROVE s \in Good
  <2>1. CASE s = {}
    BY <2>1, RestFacts
  <2>2. CASE s # {}
    <3>1. PICK c \in s : Rest(f, s) = f[c] + Rest(f, s \ {c})
      BY <2>2, RestFacts
    <3>2. Rest(f, s \ {c}) = 0 /\ f[c] = 0
      BY <1>1
    <3> QED BY <3>1, <3>2
  <2> QED BY <2>1, <2>2
<1>2. SUBSET S \subseteq Good
  <2> HIDE DEF Good
  <2> QED BY <1>1, BySize
<1>3. S \in Good
  BY <1>2
<1> QED BY <1>3, SumIsRest

(* A sum whose value at one place, new or not, grows by d grows by d.      *)
LEMMA SumGrows ==
  ASSUME NEW S, IsFiniteSet(S), NEW f \in [S -> Nat], NEW x, NEW d \in Nat,
         NEW g \in [S \cup {x} -> Nat],
         \A y \in S \ {x} : g[y] = f[y],
         g[x] = (IF x \in S THEN f[x] ELSE 0) + d
  PROVE  SumFunction(g) = SumFunction(f) + d
<1> DEFINE T == S \cup {x}
           s == S \ {x}
<1>1. IsFiniteSet(T)
  BY FS_AddElement
<1>2. /\ s \in SUBSET S /\ s \in SUBSET T /\ s \in SUBSET (S \cap T)
      /\ T \in SUBSET T /\ S \in SUBSET S /\ x \in T /\ T \ {x} = s
  OBVIOUS
<1>3. Rest(g, T) = g[x] + Rest(g, s)
  <2> HIDE DEF T
  <2>1. g \in [T -> Nat]
    BY DEF T
  <2> QED BY <1>1, <1>2, <2>1, RestAny
<1>4. Rest(f, s) = Rest(g, s) /\ Rest(f, s) \in Nat
  <2> HIDE DEF T
  <2>1. g \in [T -> Nat] /\ \A y \in s : f[y] = g[y]
    BY DEF T
  <2> QED BY <1>1, <1>2, <2>1, RestAlike, RestNat
<1>5. Rest(f, S) = (IF x \in S THEN f[x] ELSE 0) + Rest(f, s)
  <2>1. CASE x \in S
    BY <1>2, <2>1, RestAny
  <2>2. CASE x \notin S
    <3>1. s = S
      BY <2>2
    <3> QED BY <1>4, <2>2, <3>1
  <2> QED BY <2>1, <2>2
<1>6. SumFunction(g) = Rest(g, T) /\ SumFunction(f) = Rest(f, S)
  BY SumIsRest
<1>7. (IF x \in S THEN f[x] ELSE 0) \in Nat
  OBVIOUS
<1> QED BY <1>3, <1>4, <1>5, <1>6, <1>7
-----------------------------------------------------------------------------
(* The totals. *)
Totals == [tokens : [Kinds -> Nat], cost : Nat, calls : Nat]
AgentRows == [total : Totals, byModel : Maps(ModelIds \cup {None}, Totals), last : Nat]
ByAgents == Maps(Agents \cup {None}, AgentRows)
Models(byAgent) == UNION {DOMAIN byAgent[a].byModel : a \in DOMAIN byAgent}

LEMMA EventFacts ==
  ASSUME NEW e \in Event
  PROVE  /\ AgentOf(e) \in Agents \cup {None} /\ e.model \in ModelIds \cup {None} /\ e.ts \in Nat
         /\ Usage(e) \in [Kinds -> Nat]
<1>1. /\ e.named \in Agents \cup {None} /\ e.session \in Agents \cup {None}
      /\ e.model \in ModelIds \cup {None} /\ e.ts \in Nat
      /\ e.usage \in [Kinds -> Nat] \cup {None}
  BY DEF Event
<1>2. AgentOf(e) \in Agents \cup {None}
  BY <1>1 DEF AgentOf
<1>3. Usage(e) \in [Kinds -> Nat]
  BY <1>1 DEF Usage
<1> QED BY <1>1, <1>2, <1>3

LEMMA KindsFinite == IsFiniteSet(Kinds)
<1>1. IsFiniteSet({} \cup {"input"})
  BY FS_EmptySet, FS_AddElement
<1>2. IsFiniteSet(({} \cup {"input"}) \cup {"output"})
  BY <1>1, FS_AddElement
<1>3. IsFiniteSet((({} \cup {"input"}) \cup {"output"}) \cup {"cacheRead"})
  BY <1>2, FS_AddElement
<1>4. IsFiniteSet(((({} \cup {"input"}) \cup {"output"}) \cup {"cacheRead"}) \cup {"cacheWrite"})
  BY <1>3, FS_AddElement
<1>5. ((({} \cup {"input"}) \cup {"output"}) \cup {"cacheRead"}) \cup {"cacheWrite"} = Kinds
  BY DEF Kinds
<1> QED BY <1>4, <1>5

LEMMA ResolvedInTable ==
  ASSUME NEW id, NEW t, ResolveCostBlock(id, t) # None
  PROVE  \E x \in DOMAIN t : ResolveCostBlock(id, t) = t[x]
<1> DEFINE spelled == <<id, Lower(id), Bare(id), Lower(Bare(id))>>
           hits == {i \in 1..4 : spelled[i] \in DOMAIN t}
           k == Min(hits)
<1>1. hits # {} /\ ResolveCostBlock(id, t) = t[spelled[k]]
  BY DEF ResolveCostBlock
<1>2. k \in hits
  <2>1. hits \in SUBSET Nat
    OBVIOUS
  <2> HIDE DEF hits
  <2>2. \E x \in hits : \A y \in hits : x <= y
    BY <1>1, <2>1, LeastNat
  <2> QED BY <2>2 DEF Min
<1> QED BY <1>1, <1>2

LEMMA CostType ==
  ASSUME NEW e \in Event, NEW t \in Tables
  PROVE  ComputeCost(e, t) \in Nat
<1> DEFINE block == IF e.model = None THEN None ELSE ResolveCostBlock(e.model, t)
           f == [k \in Kinds |-> Usage(e)[k] * block[k]]
<1>1. e.cost \in Nat \cup {None} /\ Usage(e) \in [Kinds -> Nat]
  BY EventFacts DEF Event
<1>2. block \in Price \cup {None}
  <2> SUFFICES ASSUME e.model # None, ResolveCostBlock(e.model, t) # None
               PROVE  ResolveCostBlock(e.model, t) \in Price
    OBVIOUS
  <2>1. \E x \in DOMAIN t : ResolveCostBlock(e.model, t) = t[x]
    BY ResolvedInTable
  <2> QED BY <2>1, MapFacts DEF Tables
<1> HIDE DEF block
<1>3. CASE block # None
  <2>1. block \in [Kinds -> Nat]
    BY <1>2, <1>3 DEF Price
  <2>2. \A k \in Kinds : Usage(e)[k] * block[k] \in Nat
    <3> SUFFICES ASSUME NEW k \in Kinds PROVE Usage(e)[k] * block[k] \in Nat
      OBVIOUS
    <3>1. Usage(e)[k] \in Nat /\ block[k] \in Nat
      BY <1>1, <2>1
    <3> QED BY <3>1
  <2>3. f \in [Kinds -> Nat]
    BY <2>2
  <2>4. SumFunction(f) \in Nat
    <3> HIDE DEF f
    <3> QED BY <2>3, KindsFinite, SumType
  <2> QED BY <1>1, <1>3, <2>4 DEF ComputeCost, block
<1>4. CASE block = None
  BY <1>1, <1>4 DEF ComputeCost, block
<1> QED BY <1>3, <1>4

LEMMA AtType ==
  ASSUME NEW X, NEW V, NEW f \in Maps(X, V), NEW d \in V, NEW x
  PROVE  At(f, x, d) \in V
BY MapFacts DEF At

LEMMA EmptyTypes == EmptyTotals \in Totals /\ EmptyAgent \in AgentRows
<1>1. EmptyTotals \in Totals
  BY DEF EmptyTotals, Totals
<1>2. <<>> \in Maps(ModelIds \cup {None}, Totals)
  BY EmptyMap
<1> QED BY <1>1, <1>2 DEF EmptyAgent, AgentRows

LEMMA AccumulateFacts ==
  ASSUME NEW total \in Totals, NEW e \in Event, NEW c \in Nat
  PROVE  /\ Accumulate(total, e, c) \in Totals
         /\ Accumulate(total, e, c).cost = total.cost + c
         /\ Accumulate(total, e, c).calls = total.calls + 1
<1>1. \A k \in Kinds : total.tokens[k] + Usage(e)[k] \in Nat
  BY EventFacts DEF Totals
<1>2. total.cost \in Nat /\ total.calls \in Nat
  BY DEF Totals
<1> QED BY <1>1, <1>2 DEF Accumulate, Totals

LEMMA AddCallFacts ==
  ASSUME NEW agent \in AgentRows, NEW e \in Event, NEW c \in Nat
  PROVE  LET new == AddCall(agent, e, c)
             row == At(agent.byModel, e.model, EmptyTotals)
         IN  /\ new \in AgentRows
             /\ new.total.cost = agent.total.cost + c
             /\ DOMAIN new.byModel = DOMAIN agent.byModel \cup {e.model}
             /\ \A id : id # e.model =>
                  At(new.byModel, id, EmptyTotals) = At(agent.byModel, id, EmptyTotals)
             /\ At(new.byModel, e.model, EmptyTotals).cost = row.cost + c
             /\ At(new.byModel, e.model, EmptyTotals).calls = row.calls + 1
<1> DEFINE new == AddCall(agent, e, c)
           rows == agent.byModel
           row == At(rows, e.model, EmptyTotals)
           acc == Accumulate(row, e, c)
           last == IF e.ts > agent.last THEN e.ts ELSE agent.last
<1>1. /\ agent.total \in Totals /\ rows \in Maps(ModelIds \cup {None}, Totals) /\ agent.last \in Nat
      /\ e.model \in ModelIds \cup {None} /\ last \in Nat
  BY EventFacts DEF AgentRows
<1>2. row \in Totals
  <2> HIDE DEF rows
  <2> QED BY <1>1, AtType, EmptyTypes
<1>3. acc \in Totals /\ acc.cost = row.cost + c /\ acc.calls = row.calls + 1
  <2> HIDE DEF row
  <2> QED BY <1>2, AccumulateFacts
<1>4. new = [total |-> Accumulate(agent.total, e, c), byModel |-> Put(rows, e.model, acc), last |-> last]
  BY DEF AddCall
<1> HIDE DEF new, acc, row, rows, last
<1>5. Accumulate(agent.total, e, c) \in Totals
      /\ Accumulate(agent.total, e, c).cost = agent.total.cost + c
  BY <1>1, AccumulateFacts
<1>6. Put(rows, e.model, acc) \in Maps(ModelIds \cup {None}, Totals)
  BY <1>1, <1>3, PutMap
<1>7. new \in AgentRows /\ new.total.cost = agent.total.cost + c
      /\ new.byModel = Put(rows, e.model, acc)
  BY <1>1, <1>4, <1>5, <1>6 DEF AgentRows
<1>8. /\ DOMAIN new.byModel = DOMAIN rows \cup {e.model}
      /\ new.byModel[e.model] = acc
      /\ \A id \in DOMAIN rows \ {e.model} : new.byModel[id] = rows[id]
  BY <1>7 DEF Put
<1>9. \A id : id # e.model => At(new.byModel, id, EmptyTotals) = At(rows, id, EmptyTotals)
  BY <1>8 DEF At
<1>10. At(new.byModel, e.model, EmptyTotals) = acc
  BY <1>8 DEF At
<1> QED BY <1>3, <1>7, <1>8, <1>9, <1>10 DEF new, row, rows

(* What a model has cost each agent, and how many calls of each it took.   *)
CostOf(byAgent, id) == [a \in DOMAIN byAgent |-> At(byAgent[a].byModel, id, EmptyTotals).cost]
CallsOf(byAgent, id) == [a \in DOMAIN byAgent |-> At(byAgent[a].byModel, id, EmptyTotals).calls]
SpendOf(byAgent) == [a \in DOMAIN byAgent |-> byAgent[a].total.cost]

LEMMA ModelCostIs ==
  ASSUME NEW b, NEW id
  PROVE  /\ ModelCost(b, id).cost = SumFunction(CostOf(b, id))
         /\ ModelCost(b, id).calls = SumFunction(CallsOf(b, id))
<1> DEFINE rows == [a \in DOMAIN b |-> At(b[a].byModel, id, EmptyTotals)]
<1>1. ModelCost(b, id) = SumTotals(rows)
  BY DEF ModelCost
<1>2. /\ CostOf(b, id) = [a \in DOMAIN rows |-> rows[a].cost]
      /\ CallsOf(b, id) = [a \in DOMAIN rows |-> rows[a].calls]
  BY DEF CostOf, CallsOf
<1> HIDE DEF rows
<1>3. /\ SumTotals(rows).cost = SumFunction([a \in DOMAIN rows |-> rows[a].cost])
      /\ SumTotals(rows).calls = SumFunction([a \in DOMAIN rows |-> rows[a].calls])
  BY DEF SumTotals
<1> QED BY <1>1, <1>2, <1>3

LEMMA PartTypes ==
  ASSUME NEW b \in ByAgents, NEW id
  PROVE  /\ IsFiniteSet(DOMAIN b) /\ SpendOf(b) \in [DOMAIN b -> Nat]
         /\ CostOf(b, id) \in [DOMAIN b -> Nat] /\ CallsOf(b, id) \in [DOMAIN b -> Nat]
<1>1. IsFiniteSet(DOMAIN b) /\ \A a \in DOMAIN b : b[a] \in AgentRows
  BY MapFacts DEF ByAgents
<1>2. ASSUME NEW a \in DOMAIN b PROVE At(b[a].byModel, id, EmptyTotals) \in Totals
  <2>1. b[a].byModel \in Maps(ModelIds \cup {None}, Totals)
    BY <1>1 DEF AgentRows
  <2> QED BY <2>1, AtType, EmptyTypes
<1>3. \A a \in DOMAIN b : b[a].total.cost \in Nat
  BY <1>1 DEF AgentRows, Totals
<1>4. \A a \in DOMAIN b : /\ At(b[a].byModel, id, EmptyTotals).cost \in Nat
                          /\ At(b[a].byModel, id, EmptyTotals).calls \in Nat
  BY <1>2 DEF Totals
<1> QED BY <1>1, <1>3, <1>4 DEF SpendOf, CostOf, CallsOf

LEMMA NewModel ==
  ASSUME NEW b \in ByAgents, NEW id, id \notin Models(b)
  PROVE  ModelCost(b, id).cost = 0 /\ ModelCost(b, id).calls = 0
<1>1. \A a \in DOMAIN b : At(b[a].byModel, id, EmptyTotals) = EmptyTotals
  BY DEF Models, At
<1>2. EmptyTotals.cost = 0 /\ EmptyTotals.calls = 0
  BY DEF EmptyTotals
<1>3. /\ \A a \in DOMAIN b : CostOf(b, id)[a] = 0
      /\ \A a \in DOMAIN b : CallsOf(b, id)[a] = 0
  BY <1>1, <1>2 DEF CostOf, CallsOf
<1>4. SumFunction(CostOf(b, id)) = 0
  BY <1>3, PartTypes, SumZero
<1>5. SumFunction(CallsOf(b, id)) = 0
  BY <1>3, PartTypes, SumZero
<1> QED BY <1>4, <1>5, ModelCostIs

LEMMA AddEventFacts ==
  ASSUME NEW b \in ByAgents, NEW e \in Event, NEW c \in Nat
  PROVE  LET new == AddEvent(b, e, c)
         IN  /\ new \in ByAgents
             /\ Models(new) = Models(b) \cup {e.model}
             /\ Spend(new) = Spend(b) + c
             /\ \A id : id # e.model =>
                  /\ ModelCost(new, id).cost = ModelCost(b, id).cost
                  /\ ModelCost(new, id).calls = ModelCost(b, id).calls
             /\ ModelCost(new, e.model).cost = ModelCost(b, e.model).cost + c
             /\ ModelCost(new, e.model).calls = ModelCost(b, e.model).calls + 1
<1> DEFINE new == AddEvent(b, e, c)
           a == AgentOf(e)
           old == At(b, a, EmptyAgent)
           row == AddCall(old, e, c)
           m == e.model
           Row(x, id) == At(x.byModel, id, EmptyTotals)
<1>1. a \in Agents \cup {None}
  BY EventFacts
<1>2. old \in AgentRows
  BY AtType, EmptyTypes DEF ByAgents
<1>3. /\ row \in AgentRows
      /\ row.total.cost = old.total.cost + c
      /\ DOMAIN row.byModel = DOMAIN old.byModel \cup {m}
      /\ \A id : id # m => Row(row, id) = Row(old, id)
      /\ Row(row, m).cost = Row(old, m).cost + c
      /\ Row(row, m).calls = Row(old, m).calls + 1
  <2> HIDE DEF old
  <2> QED BY <1>2, AddCallFacts
<1>4. new = Put(b, a, row)
  BY DEF AddEvent
<1>5. old = IF a \in DOMAIN b THEN b[a] ELSE EmptyAgent
  BY DEF At
<1> HIDE DEF new, a, old, row
<1>6. new \in ByAgents
  BY <1>1, <1>3, <1>4, PutMap DEF ByAgents
<1>7. /\ DOMAIN new = DOMAIN b \cup {a} /\ new[a] = row
      /\ \A x \in DOMAIN b \ {a} : new[x] = b[x]
  BY <1>4 DEF Put
<1>8. /\ EmptyAgent.byModel = <<>> /\ EmptyAgent.total.cost = 0
      /\ \A id : Row(EmptyAgent, id) = EmptyTotals
      /\ EmptyTotals.cost = 0 /\ EmptyTotals.calls = 0 /\ DOMAIN <<>> = {}
  BY EmptyMap DEF EmptyAgent, EmptyTotals, At
<1>9. Models(new) = Models(b) \cup {m}
  <2>1. \A x \in DOMAIN b : x # a => new[x] = b[x] /\ x \in DOMAIN new
    BY <1>7
  <2>2. DOMAIN new[a].byModel = (IF a \in DOMAIN b THEN DOMAIN b[a].byModel ELSE {}) \cup {m}
    BY <1>3, <1>5, <1>7, <1>8
  <2>3. Models(new) \subseteq Models(b) \cup {m}
    BY <1>7, <2>2 DEF Models
  <2>4. Models(b) \cup {m} \subseteq Models(new)
    BY <1>7, <2>1, <2>2 DEF Models
  <2> QED BY <2>3, <2>4
<1>10. Spend(new) = Spend(b) + c
  <2>1. SpendOf(new) \in [DOMAIN b \cup {a} -> Nat]
    BY <1>6, <1>7, PartTypes
  <2>2. \A x \in DOMAIN b \ {a} : SpendOf(new)[x] = SpendOf(b)[x]
    BY <1>7 DEF SpendOf
  <2>3. SpendOf(new)[a] = (IF a \in DOMAIN b THEN SpendOf(b)[a] ELSE 0) + c
    BY <1>3, <1>5, <1>7, <1>8 DEF SpendOf
  <2>4. IsFiniteSet(DOMAIN b) /\ SpendOf(b) \in [DOMAIN b -> Nat]
    BY PartTypes
  <2>5. SumFunction(SpendOf(new)) = SumFunction(SpendOf(b)) + c
    BY <2>1, <2>2, <2>3, <2>4, SumGrows
  <2> QED BY <2>5 DEF Spend, SpendOf
<1>11. \A id : \A x \in DOMAIN b \ {a} : Row(new[x], id) = Row(b[x], id)
  BY <1>7
<1>12. \A id : Row(old, id) = IF a \in DOMAIN b THEN Row(b[a], id) ELSE EmptyTotals
  BY <1>5, <1>8
<1>13. ASSUME NEW id
       PROVE  /\ ModelCost(new, id).cost = ModelCost(b, id).cost + (IF id = m THEN c ELSE 0)
              /\ ModelCost(new, id).calls = ModelCost(b, id).calls + (IF id = m THEN 1 ELSE 0)
  <2>1. CostOf(new, id) \in [DOMAIN b \cup {a} -> Nat]
    BY <1>6, <1>7, PartTypes
  <2>2. \A x \in DOMAIN b \ {a} : CostOf(new, id)[x] = CostOf(b, id)[x]
    BY <1>7, <1>11 DEF CostOf
  <2>3. CostOf(new, id)[a] = (IF a \in DOMAIN b THEN CostOf(b, id)[a] ELSE 0) + (IF id = m THEN c ELSE 0)
    <3>1. CostOf(new, id)[a] = Row(row, id).cost
      BY <1>7 DEF CostOf
    <3>2. Row(row, id).cost = Row(old, id).cost + (IF id = m THEN c ELSE 0)
      <4>1. CASE id = m
        BY <1>3, <4>1
      <4>2. CASE id # m
        <5>1. Row(row, id) = Row(old, id)
          BY <1>3, <4>2
        <5>2. Row(old, id) \in Totals
          <6>1. old.byModel \in Maps(ModelIds \cup {None}, Totals)
            BY <1>2 DEF AgentRows
          <6> QED BY <6>1, AtType, EmptyTypes
        <5>3. Row(old, id).cost \in Nat
          BY <5>2 DEF Totals
        <5> QED BY <4>2, <5>1, <5>3
      <4> QED BY <4>1, <4>2
    <3>3. Row(old, id).cost = IF a \in DOMAIN b THEN CostOf(b, id)[a] ELSE 0
      BY <1>8, <1>12 DEF CostOf
    <3> QED BY <3>1, <3>2, <3>3
  <2>4. (IF id = m THEN c ELSE 0) \in Nat
    OBVIOUS
  <2>5. SumFunction(CostOf(new, id)) = SumFunction(CostOf(b, id)) + (IF id = m THEN c ELSE 0)
    <3> DEFINE d == IF id = m THEN c ELSE 0
    <3>1. d \in Nat /\ CostOf(new, id)[a] = (IF a \in DOMAIN b THEN CostOf(b, id)[a] ELSE 0) + d
      BY <2>3, <2>4
    <3> HIDE DEF d
    <3>2. SumFunction(CostOf(new, id)) = SumFunction(CostOf(b, id)) + d
      BY <2>1, <2>2, <3>1, PartTypes, SumGrows
    <3> QED BY <3>2 DEF d
  <2>6. CallsOf(new, id) \in [DOMAIN b \cup {a} -> Nat]
    BY <1>6, <1>7, PartTypes
  <2>7. \A x \in DOMAIN b \ {a} : CallsOf(new, id)[x] = CallsOf(b, id)[x]
    BY <1>7, <1>11 DEF CallsOf
  <2>8. CallsOf(new, id)[a] = (IF a \in DOMAIN b THEN CallsOf(b, id)[a] ELSE 0) + (IF id = m THEN 1 ELSE 0)
    <3>1. CallsOf(new, id)[a] = Row(row, id).calls
      BY <1>7 DEF CallsOf
    <3>2. Row(row, id).calls = Row(old, id).calls + (IF id = m THEN 1 ELSE 0)
      <4>1. CASE id = m
        BY <1>3, <4>1
      <4>2. CASE id # m
        <5>1. Row(row, id) = Row(old, id)
          BY <1>3, <4>2
        <5>2. Row(old, id) \in Totals
          <6>1. old.byModel \in Maps(ModelIds \cup {None}, Totals)
            BY <1>2 DEF AgentRows
          <6> QED BY <6>1, AtType, EmptyTypes
        <5>3. Row(old, id).calls \in Nat
          BY <5>2 DEF Totals
        <5> QED BY <4>2, <5>1, <5>3
      <4> QED BY <4>1, <4>2
    <3>3. Row(old, id).calls = IF a \in DOMAIN b THEN CallsOf(b, id)[a] ELSE 0
      BY <1>8, <1>12 DEF CallsOf
    <3> QED BY <3>1, <3>2, <3>3
  <2>9. (IF id = m THEN 1 ELSE 0) \in Nat
    OBVIOUS
  <2>10. SumFunction(CallsOf(new, id)) = SumFunction(CallsOf(b, id)) + (IF id = m THEN 1 ELSE 0)
    <3> DEFINE d == IF id = m THEN 1 ELSE 0
    <3>1. d \in Nat /\ CallsOf(new, id)[a] = (IF a \in DOMAIN b THEN CallsOf(b, id)[a] ELSE 0) + d
      BY <2>8, <2>9
    <3> HIDE DEF d
    <3>2. SumFunction(CallsOf(new, id)) = SumFunction(CallsOf(b, id)) + d
      BY <2>6, <2>7, <3>1, PartTypes, SumGrows
    <3> QED BY <3>2 DEF d
  <2> QED BY <2>5, <2>10, ModelCostIs
<1>14. \A id : ModelCost(b, id).cost \in Nat /\ ModelCost(b, id).calls \in Nat
  BY PartTypes, SumType, ModelCostIs
<1> QED BY <1>6, <1>9, <1>10, <1>13, <1>14 DEF new

(* The totals after i events.                                              *)
IsAggregated(F, events, table) ==
  /\ F[0] = <<>>
  /\ \A i \in 1..Len(events) :
       F[i] = AddEvent(F[i - 1], events[i], ComputeCost(events[i], table))
  /\ Aggregate(events, table) = F[Len(events)]

LEMMA Aggregated ==
  ASSUME NEW events \in Seq(Event), NEW table \in Tables
  PROVE  \E F : IsAggregated(F, events, table)
<1> DEFINE n == Len(events)
           Added(b, i) == AddEvent(b, events[i], ComputeCost(events[i], table))
           Rec(g) == g = [s \in SUBSET DOMAIN events |->
                           IF s = {} THEN <<>> ELSE Added(g[s \ {Max(s)}], Max(s))]
           h == CHOOSE g : Rec(g)
           step == [i \in 1..n |-> [b \in ByAgents |-> Added(b, i)]]
<1>1. DOMAIN events = 1..n /\ n \in Nat
  BY DomainOf
<1>2. \A i \in 1..n : events[i] \in Event
  BY <1>1, ElementOf
<1>3. Aggregate(events, table) = h[DOMAIN events]
  BY DEF Aggregate, FoldLeft, MapThenFoldSet
<1>4. <<>> \in ByAgents
  BY EmptyMap DEF ByAgents
<1>5. step \in [1..n -> [ByAgents -> ByAgents]]
  <2>1. ASSUME NEW i \in 1..n, NEW b \in ByAgents PROVE Added(b, i) \in ByAgents
    <3>1. ComputeCost(events[i], table) \in Nat
      BY <1>2, CostType
    <3> QED BY <1>2, <3>1, AddEventFacts
  <2> HIDE DEF Added
  <2> QED BY <2>1
<1>6. PICK g \in [SUBSET (1..n) -> ByAgents] : LeftFold(g, n, <<>>, step)
  <2> HIDE DEF n, step
  <2> QED BY <1>1, <1>4, <1>5, LeftFoldExists
<1>7. Rec(g)
  <2>1. \A s \in SUBSET (1..n) : s # {} => step[Max(s)][g[s \ {Max(s)}]] = Added(g[s \ {Max(s)}], Max(s))
    <3> HIDE DEF Added
    <3> SUFFICES ASSUME NEW s \in SUBSET (1..n), s # {}
                 PROVE  step[Max(s)][g[s \ {Max(s)}]] = Added(g[s \ {Max(s)}], Max(s))
      OBVIOUS
    <3>1. Max(s) \in 1..n
      BY <1>1, MaxFacts
    <3>2. g[s \ {Max(s)}] \in ByAgents
      BY <1>6
    <3> QED BY <3>1, <3>2
  <2>2. g = [s \in SUBSET (1..n) |-> IF s = {} THEN <<>> ELSE step[Max(s)][g[s \ {Max(s)}]]]
    BY <1>6 DEF LeftFold
  <2> HIDE DEF step, n, Added
  <2> QED BY <1>1, <2>1, <2>2
<1>8. Rec(h)
  <2> HIDE DEF Rec
  <2> QED BY <1>7
<1> HIDE DEF h, step
<1> DEFINE F == [i \in 0..n |-> h[1..i]]
<1>9. F[0] = <<>>
  <2>1. 1..0 = {} /\ {} \in SUBSET DOMAIN events
    OBVIOUS
  <2> QED BY <1>1, <1>8, <2>1
<1>10. ASSUME NEW i \in 1..n PROVE F[i] = Added(F[i - 1], i)
  <2>1. 1..i \in SUBSET DOMAIN events /\ 1..i # {} /\ Max(1..i) = i /\ (1..i) \ {i} = 1..(i - 1)
    BY <1>1, UptoFacts
  <2> HIDE DEF Added
  <2>2. h[1..i] = Added(h[1..(i - 1)], i)
    BY <1>8, <2>1
  <2>3. i \in 0..n /\ i - 1 \in 0..n
    BY <1>1
  <2> QED BY <2>2, <2>3
<1>11. Aggregate(events, table) = F[n]
  BY <1>1, <1>3
<1> QED BY <1>9, <1>10, <1>11 DEF IsAggregated

AggInv(b, f, i) ==
  /\ b \in ByAgents /\ IsFiniteSet(Models(b))
  /\ Spend(b) = SumFunction([j \in 1..i |-> f[j]])
  /\ SumFunction([x \in Models(b) |-> ModelCost(b, x).cost]) = Spend(b)
  /\ SumFunction([x \in Models(b) |-> ModelCost(b, x).calls]) = i

(* g is f but for x, where it is d above what f was, if anything.          *)
Grown(S, f, x, d, g) ==
  /\ f \in [S -> Nat] /\ d \in Nat /\ g \in [S \cup {x} -> Nat]
  /\ \A y \in S \ {x} : g[y] = f[y]
  /\ g[x] = (IF x \in S THEN f[x] ELSE 0) + d

LEMMA GrownSum ==
  ASSUME NEW S, IsFiniteSet(S), NEW f, NEW x, NEW d, NEW g, Grown(S, f, x, d, g)
  PROVE  SumFunction(g) = SumFunction(f) + d
BY SumGrows DEF Grown

LEMMA ModelsGrow ==
  ASSUME NEW b \in ByAgents, NEW e \in Event, NEW c \in Nat, IsFiniteSet(Models(b))
  PROVE  LET new == AddEvent(b, e, c)
         IN  /\ SumFunction([x \in Models(new) |-> ModelCost(new, x).cost]) =
                  SumFunction([x \in Models(b) |-> ModelCost(b, x).cost]) + c
             /\ SumFunction([x \in Models(new) |-> ModelCost(new, x).calls]) =
                  SumFunction([x \in Models(b) |-> ModelCost(b, x).calls]) + 1
<1> DEFINE new == AddEvent(b, e, c)
           m == e.model
           S == Models(b)
           spent == [x \in S |-> ModelCost(b, x).cost]
           spends == [x \in Models(new) |-> ModelCost(new, x).cost]
           called == [x \in S |-> ModelCost(b, x).calls]
           calls == [x \in Models(new) |-> ModelCost(new, x).calls]
<1>1. /\ new \in ByAgents /\ Models(new) = S \cup {m}
      /\ \A x : x # m => /\ ModelCost(new, x).cost = ModelCost(b, x).cost
                         /\ ModelCost(new, x).calls = ModelCost(b, x).calls
      /\ ModelCost(new, m).cost = ModelCost(b, m).cost + c
      /\ ModelCost(new, m).calls = ModelCost(b, m).calls + 1
  BY AddEventFacts
<1>2. \A d \in ByAgents : \A x : ModelCost(d, x).cost \in Nat /\ ModelCost(d, x).calls \in Nat
  BY PartTypes, SumType, ModelCostIs
<1>3. m \notin S => ModelCost(b, m).cost = 0 /\ ModelCost(b, m).calls = 0
  BY NewModel
<1> HIDE DEF new, m, S
<1>4. /\ spent \in [S -> Nat] /\ spends \in [S \cup {m} -> Nat]
      /\ \A x \in S \ {m} : spends[x] = spent[x]
      /\ spends[m] = (IF m \in S THEN spent[m] ELSE 0) + c
  BY <1>1, <1>2, <1>3
<1>5. /\ called \in [S -> Nat] /\ calls \in [S \cup {m} -> Nat]
      /\ \A x \in S \ {m} : calls[x] = called[x]
      /\ calls[m] = (IF m \in S THEN called[m] ELSE 0) + 1
  BY <1>1, <1>2, <1>3
<1>6. IsFiniteSet(S)
  BY DEF S
<1> HIDE DEF spent, spends, called, calls
<1>7. SumFunction(spends) = SumFunction(spent) + c
  BY <1>4, <1>6, SumGrows
<1>8. SumFunction(calls) = SumFunction(called) + 1
  BY <1>5, <1>6, SumGrows
<1> QED BY <1>7, <1>8 DEF spent, spends, called, calls, new, S

LEMMA SumNext ==
  ASSUME NEW i \in Nat, NEW before \in [1..i -> Nat], NEW after \in [1..(i + 1) -> Nat],
         \A j \in 1..i : after[j] = before[j]
  PROVE  SumFunction(after) = SumFunction(before) + after[i + 1]
<1> DEFINE T == 1..i
           x == i + 1
           d == after[x]
<1>1. T \cup {x} = 1..x /\ x \notin T /\ x \in 1..x
  OBVIOUS
<1>2. IsFiniteSet(T)
  BY FS_Interval
<1>3. before \in [T -> Nat] /\ after \in [T \cup {x} -> Nat] /\ d \in Nat
  BY <1>1
<1>4. \A y \in T \ {x} : after[y] = before[y]
  OBVIOUS
<1>5. after[x] = (IF x \in T THEN before[x] ELSE 0) + d
  BY <1>1, <1>3
<1>6. Grown(T, before, x, d, after)
  BY <1>3, <1>4, <1>5 DEF Grown
<1> HIDE DEF T, d
<1>7. SumFunction(after) = SumFunction(before) + d
  BY <1>2, <1>6, GrownSum
<1> QED BY <1>7 DEF d

LEMMA AggStep ==
  ASSUME NEW n \in Nat, NEW f \in [1..n -> Nat], NEW i \in Nat, i < n,
         NEW b, AggInv(b, f, i), NEW e \in Event
  PROVE  AggInv(AddEvent(b, e, f[i + 1]), f, i + 1)
<1> DEFINE c == f[i + 1]
           new == AddEvent(b, e, c)
           costs(d) == [x \in Models(d) |-> ModelCost(d, x).cost]
           calls(d) == [x \in Models(d) |-> ModelCost(d, x).calls]
<1>1. b \in ByAgents /\ IsFiniteSet(Models(b)) /\ c \in Nat
  BY DEF AggInv
<1> HIDE DEF c
<1>2. new \in ByAgents /\ Models(new) = Models(b) \cup {e.model} /\ Spend(new) = Spend(b) + c
  BY <1>1, AddEventFacts
<1>3. SumFunction(costs(new)) = SumFunction(costs(b)) + c
      /\ SumFunction(calls(new)) = SumFunction(calls(b)) + 1
  BY <1>1, ModelsGrow
<1>4. SumFunction([j \in 1..(i + 1) |-> f[j]]) = SumFunction([j \in 1..i |-> f[j]]) + c
  <2> DEFINE before == [j \in 1..i |-> f[j]]
             after == [j \in 1..(i + 1) |-> f[j]]
  <2>1. /\ before \in [1..i -> Nat] /\ after \in [1..(i + 1) -> Nat]
        /\ \A j \in 1..i : after[j] = before[j]
        /\ after[i + 1] = c
    BY DEF c
  <2> HIDE DEF before, after
  <2>2. SumFunction(after) = SumFunction(before) + c
    BY <2>1, SumNext
  <2> QED BY <2>2 DEF before, after
<1> HIDE DEF new
<1>5. IsFiniteSet(Models(new))
  BY <1>1, <1>2, FS_AddElement
<1>6. /\ Spend(b) = SumFunction([j \in 1..i |-> f[j]])
      /\ SumFunction(costs(b)) = Spend(b) /\ SumFunction(calls(b)) = i
  BY DEF AggInv
<1>7. AggInv(new, f, i + 1)
  BY <1>2, <1>3, <1>4, <1>5, <1>6 DEF AggInv
<1> QED BY <1>7 DEF new, c

LEMMA TotalsAgree ==
  ASSUME NEW events \in Seq(Event), NEW table \in Tables
  PROVE  LET byAgent == Aggregate(events, table)
             byModel == CostByModel(byAgent)
         IN  /\ Spend(byAgent) =
                  SumFunction([i \in DOMAIN events |-> ComputeCost(events[i], table)])
             /\ SumFunction([m \in DOMAIN byModel |-> byModel[m].cost]) = Spend(byAgent)
             /\ SumFunction([m \in DOMAIN byModel |-> byModel[m].calls]) = Len(events)
<1>1. PICK F : IsAggregated(F, events, table)
  BY Aggregated
<1> DEFINE n == Len(events)
           f == [i \in 1..n |-> ComputeCost(events[i], table)]
           T == {i \in Nat : i <= n => AggInv(F[i], f, i)}
<1>2. DOMAIN events = 1..n /\ n \in Nat
  BY DomainOf
<1>3. \A i \in 1..n : events[i] \in Event
  BY <1>2, ElementOf
<1>4. f \in [1..n -> Nat]
  <2>1. \A i \in 1..n : ComputeCost(events[i], table) \in Nat
    BY <1>3, CostType
  <2> QED BY <2>1
<1>5. /\ F[0] = <<>> /\ Aggregate(events, table) = F[n]
      /\ \A i \in 1..n : F[i] = AddEvent(F[i - 1], events[i], f[i])
  BY <1>1 DEF IsAggregated
<1> HIDE DEF f
<1>6. 0 \in T
  <2>1. <<>> \in ByAgents /\ DOMAIN <<>> = {}
    BY EmptyMap DEF ByAgents
  <2>2. Models(<<>>) = {} /\ IsFiniteSet({})
    BY <2>1, FS_EmptySet DEF Models
  <2>3. ASSUME NEW g, DOMAIN g = {}, g = [x \in {} |-> g[x]] PROVE SumFunction(g) = 0
    <3>1. g \in [{} -> Nat]
      BY <2>3
    <3> QED BY <2>2, <3>1, SumZero
  <2>4. Spend(<<>>) = 0
    <3>1. SumFunction([a \in {} |-> <<>>[a].total.cost]) = 0
      BY <2>3
    <3> QED BY <2>1, <3>1 DEF Spend
  <2>5. SumFunction([j \in {} |-> f[j]]) = 0 /\ 1..0 = {}
    BY <2>3
  <2>6. /\ SumFunction([x \in {} |-> ModelCost(<<>>, x).cost]) = 0
        /\ SumFunction([x \in {} |-> ModelCost(<<>>, x).calls]) = 0
    BY <2>3
  <2>7. AggInv(F[0], f, 0)
    BY <1>5, <2>1, <2>2, <2>4, <2>5, <2>6 DEF AggInv
  <2> QED BY <2>7
<1>7. ASSUME NEW i \in Nat, i \in T PROVE i + 1 \in T
  <2> SUFFICES ASSUME i + 1 <= n PROVE AggInv(F[i + 1], f, i + 1)
    OBVIOUS
  <2>1. i < n /\ AggInv(F[i], f, i) /\ i + 1 \in 1..n /\ (i + 1) - 1 = i
    BY <1>2, <1>7
  <2>2. F[i + 1] = AddEvent(F[i], events[i + 1], f[i + 1]) /\ events[i + 1] \in Event
    BY <1>3, <1>5, <2>1
  <2> HIDE DEF n
  <2> QED BY <1>2, <1>4, <2>1, <2>2, AggStep
<1>8. n \in T
  <2> HIDE DEF T
  <2> QED BY <1>2, <1>6, <1>7, UpFromZero
<1>9. AggInv(F[n], f, n)
  BY <1>2, <1>8
<1> DEFINE b == Aggregate(events, table)
           byModel == CostByModel(b)
<1>10. b = F[n]
  BY <1>5
<1> HIDE DEF b
<1>11. DOMAIN byModel = Models(b) /\ \A m \in Models(b) : byModel[m] = ModelCost(b, m)
  BY DEF CostByModel, Models
<1>12. /\ [m \in DOMAIN byModel |-> byModel[m].cost] = [m \in Models(b) |-> ModelCost(b, m).cost]
       /\ [m \in DOMAIN byModel |-> byModel[m].calls] = [m \in Models(b) |-> ModelCost(b, m).calls]
  <2> HIDE DEF byModel
  <2> QED BY <1>11
<1>13. [j \in 1..n |-> f[j]] = [i \in DOMAIN events |-> ComputeCost(events[i], table)]
  BY <1>2 DEF f
<1> HIDE DEF byModel
<1> QED BY <1>9, <1>10, <1>12, <1>13 DEF AggInv, b, byModel
-----------------------------------------------------------------------------
(* The sessions. *)
LEMMA MaxExists ==
  ASSUME NEW S \in SUBSET Nat, IsFiniteSet(S)
  PROVE  S # {} => Max(S) \in S /\ \A y \in S : y <= Max(S)
<1> DEFINE Has(s) == s # {} => \E x \in s : \A y \in s : y <= x
           Good == {s \in SUBSET S : Has(s)}
<1>1. ASSUME NEW s \in SUBSET S, \A x \in s : s \ {x} \in Good PROVE s \in Good
  <2> SUFFICES ASSUME s # {} PROVE \E x \in s : \A y \in s : y <= x
    OBVIOUS
  <2>1. PICK z \in s : TRUE
    OBVIOUS
  <2>2. \A y \in s : y \in Nat
    OBVIOUS
  <2>3. CASE s \ {z} = {}
    <3>1. \A y \in s : y = z
      BY <2>3
    <3> QED BY <2>1, <2>2, <3>1
  <2>4. CASE s \ {z} # {}
    <3>1. PICK w \in s \ {z} : \A y \in s \ {z} : y <= w
      BY <1>1, <2>1, <2>4
    <3>2. CASE w >= z
      <4>1. \A y \in s : y <= w
        BY <2>2, <3>1, <3>2
      <4> QED BY <4>1
    <3>3. CASE ~(w >= z)
      <4>1. \A y \in s : y <= z
        BY <2>1, <2>2, <3>1, <3>3
      <4> QED BY <4>1
    <3> QED BY <3>2, <3>3
  <2> QED BY <2>3, <2>4
<1> HIDE DEF Has
<1>2. SUBSET S \subseteq Good
  <2> HIDE DEF Good
  <2> QED BY <1>1, BySize
<1>3. Has(S)
  BY <1>2
<1>4. ASSUME S # {} PROVE Max(S) \in S /\ \A y \in S : y <= Max(S)
  <2>1. \E x \in S : \A y \in S : x >= y
    <3>1. PICK x \in S : \A y \in S : y <= x
      BY <1>3, <1>4 DEF Has
    <3>2. x \in Nat /\ \A y \in S : y \in Nat
      OBVIOUS
    <3>3. \A y \in S : x >= y
      BY <3>1, <3>2
    <3> QED BY <3>3
  <2>2. Max(S) \in S /\ \A y \in S : Max(S) >= y
    BY <2>1 DEF Max
  <2>3. Max(S) \in Nat /\ \A y \in S : y \in Nat
    BY <2>2
  <2> QED BY <2>2, <2>3
<1> QED BY <1>4

LEMMA SummaryFacts ==
  ASSUME NEW D, IsFiniteSet(D), NEW events \in [D -> Event]
  PROVE  /\ Summary(events).count = Cardinality(D)
         /\ \A i \in D : Summary(events).last >= events[i].ts
<1> DEFINE ts == [i \in D |-> events[i].ts]
           T == {ts[i] : i \in D}
           S == {0} \cup {events[i].ts : i \in D}
<1>1. \A i \in D : events[i].ts \in Nat
  BY DEF Event
<1>2. ts \in Surjection(D, T)
  BY DEF Surjection
<1>3. IsFiniteSet(T)
  <2> HIDE DEF T, ts
  <2> QED BY <1>2, FS_Surjection
<1>4. S = T \cup {0}
  OBVIOUS
<1>5. IsFiniteSet(S)
  <2> HIDE DEF T, S
  <2> QED BY <1>3, <1>4, FS_AddElement
<1>6. S \in SUBSET Nat /\ S # {}
  BY <1>1
<1>7. Max(S) \in S /\ \A y \in S : y <= Max(S)
  <2> HIDE DEF S
  <2> QED BY <1>5, <1>6, MaxExists
<1>8. Summary(events).count = Cardinality(D) /\ Summary(events).last = Max(S)
  BY DEF Summary
<1>9. ASSUME NEW i \in D PROVE Max(S) >= events[i].ts
  <2>1. events[i].ts \in S
    OBVIOUS
  <2>2. events[i].ts <= Max(S) /\ Max(S) \in Nat /\ events[i].ts \in Nat
    BY <1>1, <1>6, <1>7, <2>1
  <2> QED BY <2>2
<1> QED BY <1>8, <1>9

LEMMA SessionsAgree ==
  ASSUME ScanInv, Done("sessions"), NEW at \in Settled
  PROVE  /\ OfFile(at.file).count >= report.globbed[at.file]
         /\ OfFile(at.file).last >= EventAt(at).ts
<1> DEFINE f == at.file
           D == {i \in DOMAIN Seen : report.seen[i].file = f}
           events == [i \in D |-> Seen[i]]
           g == report.globbed[f]
           line == [i \in D |-> report.seen[i].line]
           L == {line[i] : i \in D}
<1>1. /\ Seen \in Seq(Event) /\ DOMAIN Seen = 1..Len(Seen) /\ DOMAIN Seen = DOMAIN report.seen
      /\ Len(Seen) \in Nat
  BY SeenType, DomainOf
<1>2. /\ f \in DOMAIN Files \ report.gone /\ at.line \in 1..g /\ g \in Nat
      /\ at = At2(f, at.line)
  <2>1. at \in [file : DOMAIN Files \ report.gone, line : 1..MaxEvents] /\ at.line <= report.globbed[at.file]
    BY DEF Settled
  <2>2. f \in DOMAIN Files \ report.gone /\ at.line \in 1..MaxEvents /\ at = At2(f, at.line)
    BY <2>1 DEF At2
  <2>3. g \in Nat
    BY <2>2, ReportType DEF ScanInv, TypeOK
  <2> QED BY <2>1, <2>2, <2>3, CostAssumption
<1>3. ASSUME NEW l \in 1..g
      PROVE  \E i \in D : report.seen[i] = At2(f, l)
  <2>1. report.pc = "done" /\ report.ask.kind = "sessions" /\ report.todo = 0
    BY DEF Done, ScanInv, PlaceInv
  <2>2. Behind(f, l)
    BY <1>2, <2>1, FilesType DEF Behind, File
  <2>3. Takes(report.ask, lines[f][l])
    BY <2>1 DEF Takes
  <2>4. At2(f, l) \in Range(report.seen)
    BY <1>2, <2>2, <2>3 DEF ScanInv, CountInv
  <2>5. PICK i \in DOMAIN report.seen : report.seen[i] = At2(f, l)
    BY <2>4 DEF Range
  <2>6. At2(f, l).file = f
    BY DEF At2
  <2> QED BY <1>1, <2>5, <2>6
<1>4. IsFiniteSet(D)
  <2>1. IsFiniteSet(1..Len(Seen)) /\ D \in SUBSET (1..Len(Seen))
    BY <1>1, FS_Interval
  <2> HIDE DEF D
  <2> QED BY <2>1, FS_Subset
<1>5. events \in [D -> Event]
  <2>1. \A i \in D : Seen[i] \in Event
    BY <1>1, ElementOf
  <2> QED BY <2>1
<1>6. OfFile(f) = Summary(events)
  BY DEF OfFile
<1>7. /\ Summary(events).count = Cardinality(D)
      /\ \A i \in D : Summary(events).last >= Seen[i].ts
  <2>1. \A i \in D : events[i] = Seen[i]
    OBVIOUS
  <2> HIDE DEF D, events
  <2> QED BY <1>4, <1>5, <2>1, SummaryFacts
<1>8. Cardinality(D) >= g
  <2>1. line \in Surjection(D, L)
    BY DEF Surjection
  <2>2. 1..g \in SUBSET L
    <3> SUFFICES ASSUME NEW l \in 1..g PROVE l \in L
      OBVIOUS
    <3>1. PICK i \in D : report.seen[i] = At2(f, l)
      BY <1>3
    <3>2. line[i] = l
      BY <3>1 DEF At2
    <3> QED BY <3>2
  <2> HIDE DEF D, L, line
  <2>3. IsFiniteSet(L) /\ Cardinality(L) <= Cardinality(D)
    BY <1>4, <2>1, FS_Surjection
  <2>4. Cardinality(1..g) <= Cardinality(L) /\ Cardinality(1..g) = g
    <3>1. Cardinality(1..g) = g
      BY <1>2, FS_Interval
    <3>2. Cardinality(1..g) <= Cardinality(L)
      <4> DEFINE U == 1..g
      <4>1. U \in SUBSET L
        BY <2>2
      <4> HIDE DEF U
      <4>2. Cardinality(U) <= Cardinality(L)
        BY <2>3, <4>1, FS_Subset
      <4> QED BY <4>2 DEF U
    <3> QED BY <3>1, <3>2
  <2>5. Cardinality(L) \in Nat /\ Cardinality(D) \in Nat
    BY <1>4, <2>3, FS_CardinalityType
  <2> QED BY <1>2, <2>3, <2>4, <2>5
<1>9. Summary(events).last >= EventAt(at).ts
  <2>1. PICK i \in D : report.seen[i] = at
    BY <1>2, <1>3
  <2>2. Seen[i] = EventAt(at)
    BY <1>1, <2>1 DEF Seen
  <2> QED BY <1>7, <2>2
<1> QED BY <1>6, <1>7, <1>8, <1>9

LEMMA AddedUp == ScanInv => ReportAddsUp
<1> SUFFICES ASSUME ScanInv PROVE ReportAddsUp
  OBVIOUS
<1> DEFINE table == CostTable(report.ask.list)
<1>1. table \in Tables
  <2>1. CASE report.ask.list = None
    BY <2>1, EmptyMap DEF CostTable, Tables
  <2>2. CASE report.ask.list # None
    <3>1. report.ask.list \in Seq(Entries)
      BY <2>2, AskedList DEF ScanInv
    <3> QED BY <2>2, <3>1, TableOf DEF TableInv
  <2> QED BY <2>1, <2>2
<1>2. Seen \in Seq(Event)
  BY SeenType
<1> HIDE DEF table
<1>3. LET byAgent == Aggregate(Seen, table)
          byModel == CostByModel(byAgent)
      IN  /\ Spend(byAgent) = SumFunction([i \in DOMAIN Seen |-> ComputeCost(Seen[i], table)])
          /\ SumFunction([m \in DOMAIN byModel |-> byModel[m].cost]) = Spend(byAgent)
          /\ SumFunction([m \in DOMAIN byModel |-> byModel[m].calls]) = Len(Seen)
  BY <1>1, <1>2, TotalsAgree
<1>4. Done("sessions") => \A at \in Settled :
        /\ OfFile(at.file).count >= report.globbed[at.file]
        /\ OfFile(at.file).last >= EventAt(at).ts
  BY SessionsAgree
<1> QED BY <1>3, <1>4 DEF ReportAddsUp, table

(* The agents, the models and the single calls of a cost report add up to  *)
(* the same, and a session's summary counts all that was complete when the *)
(* report began and is as late as the latest of it.                        *)
THEOREM ReportsAddUp == Spec => []ReportAddsUp
BY AddedUp, ScanInvariance, PTL
=============================================================================
