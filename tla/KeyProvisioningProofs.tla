------------------------ MODULE KeyProvisioningProofs -----------------------
(***************************************************************************)
(* Proofs about the provisioning of keys, for any number of agents, runs   *)
(* and keys, any page size and any ceiling.                                *)
(***************************************************************************)
EXTENDS KeyProvisioningProps, SequenceTheorems, TLAPS

(* The account: every live key has a hash of its own, drawn before. *)
Ledger(acc, n) ==
  /\ acc \in Seq(Key) /\ n \in Nat
  /\ \A i \in DOMAIN acc : acc[i].hash \in 1..n
  /\ \A i, j \in DOMAIN acc : acc[i].hash = acc[j].hash => i = j

Typed(s) ==
  /\ s \in RunState
  /\ s.offset < Ceiling
  /\ s.pc \in {"post", "relist", "requery", "print"} => s.todo # <<>>
  /\ s.pc = "off" => s.offset = 0
  /\ s.pc # "done" => s.exit = "none"

(* What a run that is past its list, or in it, knows of the keys that were *)
(* live when it began.                                                     *)
Seen(s, acc) ==
  s.pc = "list" /\ ~s.partial =>
    \A i \in DOMAIN acc : i <= s.offset /\ acc[i].hash \in s.since => acc[i] \in s.rows

Known(s, acc) ==
  s.pc \in {"agent", "post", "relist", "requery", "print"} /\ ~s.partial =>
    \A k \in ToSet(acc) : k.hash \in s.since => k \in s.existing

Needed(s) == s.pc = "post" => ~Found(s.existing, Head(s.todo))

Drawn(s, n) == s.since \subseteq 1..n

(* The keys a run created whose strings it has not reported (yet): at most *)
(* one, and none when it goes on to another agent.                         *)
Lost(s) == s.made \ {x.key : x \in s.out}

Reports(s) ==
  /\ s.cmd.kind = "provision" /\ s.todo # <<>> => Tail(s.todo) = <<>>
  /\ \A g, h \in Lost(s) : g = h
  /\ s.pc \in {"off", "list", "post"} => Lost(s) = {}
  /\ s.pc = "agent" /\ s.todo # <<>> => Lost(s) = {}
  /\ s.cmd.kind = "sync" /\ (s.pc = "agent" \/ s.exit = "ok") => Lost(s) = {}
  /\ s.pc = "print" /\ s.key # NoKey => Lost(s) \subseteq {s.key}

(* A sync loses no agent of its list. *)
Covered(s, a) ==
  \/ a \in ToSet(s.todo)
  \/ Found(s.existing, a)
  \/ \E x \in s.out : x.agent = a /\ x.key # NoKey

Covers(s) ==
  s.cmd.kind = "sync" /\ s.exit \in {"none", "ok"} =>
    /\ \A a \in ToSet(s.cmd.agents) : Covered(s, a)
    /\ s.pc \in {"off", "list"} => s.todo = s.cmd.agents
    /\ s.pc = "print" => s.key # NoKey
    /\ s.exit = "ok" => s.todo = <<>>

Good(s, acc, n) ==
  Typed(s) /\ Seen(s, acc) /\ Known(s, acc) /\ Needed(s) /\ Drawn(s, n) /\ Reports(s) /\ Covers(s)

IInv ==
  /\ Ledger(account, drawn)
  /\ run \in [Runs -> RunState]
  /\ \A r \in Runs : Good(run[r], account, drawn)
-----------------------------------------------------------------------------
LEMMA CeilingType == Ceiling \in Nat /\ 0 < Ceiling
BY KeyAssumption DEF Ceiling

(* What the elements of a sequence are after each operation on it. *)
LEMMA AppendElements ==
  ASSUME NEW S, NEW s \in Seq(S), NEW e \in S
  PROVE  /\ Append(s, e) \in Seq(S)
         /\ ToSet(Append(s, e)) = ToSet(s) \cup {e}
<1> DEFINE t == Append(s, e)
<1>1. t \in Seq(S) /\ Len(t) = Len(s) + 1 /\ t[Len(s) + 1] = e
  OBVIOUS
<1>2. \A i \in 1..Len(s) : t[i] = s[i]
  OBVIOUS
<1>3. DOMAIN t = 1..(Len(s) + 1) /\ DOMAIN s = 1..Len(s) /\ Len(s) \in Nat
  BY <1>1
<1> HIDE DEF t
<1>4. \A i \in DOMAIN t : t[i] \in ToSet(s) \cup {e}
  BY <1>1, <1>2, <1>3 DEF ToSet
<1>5. \A i \in DOMAIN s : s[i] \in ToSet(t)
  BY <1>1, <1>2, <1>3 DEF ToSet
<1>6. e \in ToSet(t)
  BY <1>1, <1>3 DEF ToSet
<1>7. ToSet(t) = ToSet(s) \cup {e}
  BY <1>4, <1>5, <1>6 DEF ToSet
<1> QED BY <1>1, <1>7 DEF t

LEMMA TailElements ==
  ASSUME NEW S, NEW s \in Seq(S), s # <<>>
  PROVE  Tail(s) \in Seq(S) /\ Head(s) \in S /\ ToSet(s) \subseteq {Head(s)} \cup ToSet(Tail(s))
<1>1. Tail(s) \in Seq(S) /\ Head(s) \in S
  BY HeadTailProperties
<1>2. ASSUME NEW i \in DOMAIN s, i # 1  PROVE s[i] \in ToSet(Tail(s))
  <2>1. i - 1 \in DOMAIN Tail(s) /\ Tail(s)[i - 1] = s[i]
    BY <1>2
  <2> QED BY <2>1 DEF ToSet
<1>3. Head(s) = s[1]
  OBVIOUS
<1> QED BY <1>1, <1>2, <1>3 DEF ToSet

LEMMA RemoveElements ==
  ASSUME NEW S, NEW s \in Seq(S), NEW i \in DOMAIN s
  PROVE  /\ RemoveAt(s, i) \in Seq(S)
         /\ DOMAIN RemoveAt(s, i) = 1..(Len(s) - 1)
         /\ \A j \in 1..(Len(s) - 1) : RemoveAt(s, i)[j] = s[IF j < i THEN j ELSE j + 1]
         /\ ToSet(RemoveAt(s, i)) \subseteq ToSet(s)
<1> DEFINE head == SubSeq(s, 1, i - 1)
           tail == SubSeq(s, i + 1, Len(s))
<1>1. i \in 1..Len(s) /\ Len(s) \in Nat
  OBVIOUS
<1>2. /\ head \in Seq(S) /\ Len(head) = i - 1
      /\ \A j \in 1..(i - 1) : head[j] = s[j]
  BY <1>1, SubSeqProperties
<1>3. /\ tail \in Seq(S) /\ Len(tail) = Len(s) - i
      /\ \A j \in 1..(Len(s) - i) : tail[j] = s[i + j]
  BY <1>1, SubSeqProperties
<1> HIDE DEF head, tail
<1>4. /\ head \o tail \in Seq(S)
      /\ Len(head \o tail) = Len(s) - 1
      /\ \A j \in 1..(Len(s) - 1) : (head \o tail)[j] = IF j <= i - 1 THEN head[j] ELSE tail[j - (i - 1)]
  <2>1. Len(head) + Len(tail) = Len(s) - 1
    BY <1>1, <1>2, <1>3
  <2>2. /\ head \o tail \in Seq(S)
        /\ Len(head \o tail) = Len(head) + Len(tail)
        /\ \A j \in 1..(Len(head) + Len(tail)) :
             (head \o tail)[j] = IF j <= Len(head) THEN head[j] ELSE tail[j - Len(head)]
    BY <1>2, <1>3, ConcatProperties
  <2> QED BY <1>2, <2>1, <2>2
<1>5. RemoveAt(s, i) = head \o tail
  BY DEF RemoveAt, head, tail
<1>6. ASSUME NEW j \in 1..(Len(s) - 1)
      PROVE  (head \o tail)[j] = s[IF j < i THEN j ELSE j + 1]
  <2>1. CASE j < i
    BY <1>1, <1>2, <1>4, <2>1
  <2>2. CASE ~(j < i)
    <3>1. j - (i - 1) \in 1..(Len(s) - i) /\ i + (j - (i - 1)) = j + 1
      BY <1>1, <2>2
    <3>2. (head \o tail)[j] = tail[j - (i - 1)]
      <4>1. ~(j <= i - 1)
        BY <1>1, <2>2
      <4> QED BY <1>4, <4>1, Zenon
    <3> QED BY <1>3, <2>2, <3>1, <3>2
  <2> QED BY <2>1, <2>2
<1>7. DOMAIN (head \o tail) = 1..(Len(s) - 1)
  BY <1>1, <1>4
<1>8. ToSet(head \o tail) \subseteq ToSet(s)
  BY <1>1, <1>6, <1>7 DEF ToSet
<1> QED BY <1>4, <1>5, <1>6, <1>7, <1>8

-----------------------------------------------------------------------------
(* What a run knows outlives a new key and a revocation, but for the place *)
(* of the keys in a list being read.                                       *)
LEMMA GoodAfterCreation ==
  ASSUME NEW acc, NEW n, Ledger(acc, n), NEW k \in Key, k.hash = n + 1,
         NEW s, Good(s, acc, n)
  PROVE  Good(s, Append(acc, k), n + 1)
<1> DEFINE new == Append(acc, k)
<1>1. acc \in Seq(Key) /\ n \in Nat
  BY DEF Ledger
<1>2. ToSet(new) = ToSet(acc) \cup {k}
  BY <1>1, AppendElements
<1>3. DOMAIN new = 1..(Len(acc) + 1) /\ DOMAIN acc = 1..Len(acc) /\ Len(acc) \in Nat
  BY <1>1
<1>4. \A i \in DOMAIN acc : new[i] = acc[i]
  BY <1>1
<1>5. new[Len(acc) + 1] = k
  BY <1>1
<1> HIDE DEF new
<1>6. s.since \subseteq 1..n
  BY DEF Good, Drawn
<1>7. k.hash \notin s.since
  BY <1>1, <1>6
<1>8. Seen(s, new)
  BY <1>3, <1>4, <1>5, <1>7 DEF Good, Seen
<1>9. Known(s, new)
  BY <1>2, <1>7 DEF Good, Known
<1>10. Drawn(s, n + 1)
  BY <1>1, <1>6 DEF Drawn
<1> QED BY <1>8, <1>9, <1>10 DEF Good, new

LEMMA GoodAfterRevocation ==
  ASSUME NEW acc, NEW n, NEW new, ToSet(new) \subseteq ToSet(acc),
         NEW s, Good(s, acc, n), s.pc # "list" \/ s.partial
  PROVE  Good(s, new, n)
<1>1. Seen(s, new)
  BY DEF Seen
<1>2. Known(s, new)
  BY DEF Good, Known
<1> QED BY <1>1, <1>2 DEF Good
-----------------------------------------------------------------------------
(* A step of one run preserves the invariant if its new state is good.     *)
LEMMA OneRunSteps ==
  ASSUME IInv, NEW r \in Runs, NEW s, Becomes(r, s), Ledger(account', drawn'),
         \A q \in Runs \ {r} : Good(run[q], account', drawn'),
         Good(s, account', drawn')
  PROVE  IInv'
<1>1. s \in RunState
  BY DEF Good, Typed
<1>2. run' \in [Runs -> RunState] /\ \A q \in Runs : run'[q] = IF q = r THEN s ELSE run[q]
  BY <1>1 DEF IInv, Becomes
<1>3. \A q \in Runs : Good(run'[q], account', drawn')
  BY <1>2
<1> QED BY <1>2, <1>3 DEF IInv

LEMMA LocalStep ==
  ASSUME IInv, NEW r \in Runs, NEW s, Becomes(r, s), UNCHANGED <<account, drawn>>,
         Good(s, account, drawn)
  PROVE  IInv'
<1>1. Ledger(account', drawn') /\ \A q \in Runs : Good(run[q], account', drawn')
  BY DEF IInv
<1> QED BY <1>1, OneRunSteps
-----------------------------------------------------------------------------
(* The states a run goes to, each good where the state before it was.  A   *)
(* POST may have created a key h in the same step.                         *)
LEMMA OverIsGood ==
  ASSUME NEW acc, NEW n \in Nat, NEW s, Good(s, acc, n), s.pc # "done",
         NEW made \in SUBSET Nat,
         made = s.made \/ (s.pc = "post" /\ \E h : made = s.made \cup {h}),
         NEW how \in {"ok", "failed", "killed"}, how = "ok" => s.pc = "agent" /\ s.todo = <<>>
  PROVE  Good(Over([s EXCEPT !.made = made], how), acc, n)
<1> DEFINE u == [s EXCEPT !.made = made]
           t == Over(u, how)
<1>1. s \in RunState /\ s.exit = "none"
  BY DEF Good, Typed
<1>2. u \in RunState /\ u.cmd = s.cmd /\ u.existing = s.existing /\ u.out = s.out /\ u.made = made
  BY <1>1 DEF RunState
<1> HIDE DEF u
<1>3. t \in RunState
  <2>1. <<>> \in Seq(Agents) /\ NoKey \in Nat
    BY DEF NoKey
  <2>2. /\ (IF how = "killed" THEN {} ELSE u.out) \in SUBSET [agent : Agents, key : Nat]
        /\ (IF how = "killed" THEN {} ELSE u.made) \in SUBSET Nat
    BY <1>2 DEF RunState
  <2>3. how \in {"none", "ok", "failed", "killed"}
    OBVIOUS
  <2> QED BY <1>2, <2>1, <2>2, <2>3 DEF Over, OverOf, RunState
<1>4. /\ t.pc = "done" /\ t.exit = how /\ t.todo = <<>> /\ t.offset = 0 /\ t.since = {}
      /\ t.cmd = s.cmd /\ t.existing = s.existing
      /\ t.out = IF how = "killed" THEN {} ELSE s.out
      /\ t.made = IF how = "killed" THEN {} ELSE made
  BY <1>2 DEF Over, OverOf, RunState
<1> HIDE DEF t
<1>5. Typed(t)
  BY <1>3, <1>4, CeilingType DEF Typed
<1>6. Drawn(t, n)
  BY <1>4 DEF Drawn
<1>7. Reports(t)
  <2>1. CASE how = "killed"
    BY <1>4, <2>1 DEF Reports, Lost
  <2>2. CASE how # "killed" /\ made = s.made
    <3>1. Lost(t) = Lost(s)
      BY <1>4, <2>2 DEF Lost
    <3> QED BY <1>1, <1>4, <2>2, <3>1 DEF Good, Reports
  <2>3. CASE how = "failed" /\ s.pc = "post" /\ \E h : made = s.made \cup {h}
    <3>1. PICK h : made = s.made \cup {h}
      BY <2>3
    <3>2. Lost(s) = {}
      BY <2>3 DEF Good, Reports
    <3>3. Lost(t) \subseteq Lost(s) \cup {h}
      BY <1>4, <2>3, <3>1 DEF Lost
    <3> QED BY <1>4, <2>3, <3>2, <3>3 DEF Reports
  <2> QED BY <2>1, <2>2, <2>3
<1>8. Covers(t)
  <2>1. CASE how = "ok"
    BY <1>1, <1>4, <2>1 DEF Good, Covers, Covered
  <2>2. CASE how # "ok"
    BY <1>4, <2>2 DEF Covers
  <2> QED BY <2>1, <2>2
<1>9. Seen(t, acc) /\ Known(t, acc) /\ Needed(t)
  BY <1>4 DEF Seen, Known, Needed
<1> QED BY <1>5, <1>6, <1>7, <1>8, <1>9 DEF Good, t, u

LEMMA ExitStep ==
  ASSUME IInv, NEW r \in Runs, run[r].pc # "done", NEW how \in {"ok", "failed", "killed"},
         how = "ok" => run[r].pc = "agent" /\ run[r].todo = <<>>, Exit(r, how),
         UNCHANGED <<account, drawn>>
  PROVE  IInv'
<1> DEFINE s == run[r]
<1>1. Good(s, account, drawn) /\ drawn \in Nat /\ s \in RunState
  BY DEF IInv, Ledger
<1>2. s = [s EXCEPT !.made = s.made] /\ s.made \in SUBSET Nat
  BY <1>1 DEF RunState
<1>3. Good(Over([s EXCEPT !.made = s.made], how), account, drawn)
  BY <1>1, <1>2, OverIsGood
<1>4. Good(Over(s, how), account, drawn)
  BY <1>2, <1>3
<1> QED BY <1>4, LocalStep DEF Exit

LEMMA StartStep ==
  ASSUME IInv, NEW r \in Runs, Start(r)
  PROVE  IInv'
<1> DEFINE s == run[r]
           t == [s EXCEPT !.pc = "list", !.since = Hashes]
<1>1. /\ Good(s, account, drawn) /\ Ledger(account, drawn)
      /\ s.pc = "off" /\ Becomes(r, t) /\ UNCHANGED <<account, drawn>>
  BY DEF IInv, Start
<1>2. Hashes \subseteq 1..drawn
  BY <1>1 DEF Ledger, Hashes, ToSet
<1>3. s \in RunState /\ s.offset = 0 /\ s.exit = "none"
  BY <1>1 DEF Good, Typed
<1>4. t \in RunState
  <2>1. Hashes \in SUBSET Nat
    BY <1>1, <1>2 DEF Ledger
  <2> QED BY <1>3, <2>1 DEF RunState
<1>5. /\ t.pc = "list" /\ t.since = Hashes /\ t.todo = s.todo /\ t.offset = 0 /\ t.exit = "none"
      /\ t.cmd = s.cmd /\ t.existing = s.existing /\ t.out = s.out /\ t.made = s.made
  BY <1>3 DEF RunState
<1> HIDE DEF s, t
<1>6. Typed(t)
  BY <1>4, <1>5, CeilingType DEF Typed
<1>7. Seen(t, account)
  BY <1>1, <1>5 DEF Seen, Ledger
<1>8. Known(t, account) /\ Needed(t)
  BY <1>5 DEF Known, Needed
<1>9. Lost(t) = Lost(s)
  BY <1>1, <1>5 DEF Lost
<1>10. Drawn(t, drawn)
  BY <1>1, <1>2, <1>5, <1>9 DEF Good, Drawn
<1>11. Reports(t)
  BY <1>1, <1>3, <1>5, <1>9 DEF Good, Reports
<1>12. Covers(t)
  BY <1>1, <1>3, <1>5 DEF Good, Covers, Covered
<1>13. Good(t, account, drawn)
  BY <1>6, <1>7, <1>8, <1>10, <1>11, <1>12 DEF Good
<1> QED BY <1>1, <1>13, LocalStep DEF s

LEMMA NextAgentStep ==
  ASSUME IInv, NEW r \in Runs, NextAgent(r)
  PROVE  IInv'
<1> DEFINE s == run[r]
<1>1. /\ Good(s, account, drawn) /\ s.pc = "agent" /\ UNCHANGED <<account, drawn>>
      /\ s \in RunState /\ s.exit = "none" /\ s.offset < Ceiling
  BY DEF IInv, NextAgent, Good, Typed
<1>2. CASE s.todo = <<>>
  <2>1. Exit(r, "ok")
    BY <1>2 DEF NextAgent
  <2> QED BY <1>1, <1>2, <2>1, ExitStep
<1>3. CASE s.todo # <<>> /\ Found(s.existing, Head(s.todo))
  <2> DEFINE t == [s EXCEPT !.todo = Tail(@)]
  <2>1. Becomes(r, t)
    BY <1>3 DEF NextAgent, Agent
  <2>2. s.todo \in Seq(Agents)
    BY <1>1 DEF RunState
  <2>3. Tail(s.todo) \in Seq(Agents) /\ ToSet(s.todo) \subseteq {Head(s.todo)} \cup ToSet(Tail(s.todo))
    BY <1>3, <2>2, TailElements
  <2>4. t \in RunState
    BY <1>1, <2>3 DEF RunState
  <2>5. /\ t.pc = "agent" /\ t.since = s.since /\ t.todo = Tail(s.todo) /\ t.offset = s.offset
        /\ t.exit = "none" /\ t.partial = s.partial
        /\ t.cmd = s.cmd /\ t.existing = s.existing /\ t.out = s.out /\ t.made = s.made
    BY <1>1 DEF RunState
  <2> HIDE DEF t
  <2>6. Typed(t)
    BY <1>1, <2>4, <2>5 DEF Typed
  <2>7. Seen(t, account) /\ Known(t, account) /\ Needed(t)
    BY <1>1, <2>5 DEF Good, Seen, Known, Needed
  <2>8. Lost(t) = Lost(s)
    BY <1>1, <2>5 DEF Lost
  <2>9. Drawn(t, drawn) /\ Reports(t)
    BY <1>1, <2>5, <2>8 DEF Good, Drawn, Reports
  <2>10. Covers(t)
    <3>1. \A a : Covered(s, a) => Covered(t, a)
      BY <1>3, <2>3, <2>5 DEF Covered
    <3> QED BY <1>1, <2>5, <3>1 DEF Good, Covers
  <2> QED BY <1>1, <2>1, <2>6, <2>7, <2>8, <2>9, <2>10, LocalStep DEF Good
<1>4. CASE s.todo # <<>> /\ ~Found(s.existing, Head(s.todo))
  <2> DEFINE t == [s EXCEPT !.pc = "post"]
  <2>1. Becomes(r, t)
    BY <1>4 DEF NextAgent, Agent
  <2>2. t \in RunState
    BY <1>1 DEF RunState
  <2>3. /\ t.pc = "post" /\ t.since = s.since /\ t.todo = s.todo /\ t.offset = s.offset
        /\ t.exit = "none" /\ t.partial = s.partial
        /\ t.cmd = s.cmd /\ t.existing = s.existing /\ t.out = s.out /\ t.made = s.made
    BY <1>1 DEF RunState
  <2> HIDE DEF t
  <2>4. Typed(t)
    BY <1>1, <1>4, <2>2, <2>3 DEF Typed
  <2>5. Seen(t, account) /\ Known(t, account) /\ Needed(t)
    BY <1>1, <1>4, <2>3 DEF Good, Seen, Known, Needed
  <2>6. Lost(t) = Lost(s)
    BY <1>1, <2>3 DEF Lost
  <2>7. Drawn(t, drawn) /\ Reports(t)
    BY <1>1, <1>4, <2>3, <2>6 DEF Good, Drawn, Reports
  <2>8. Covers(t)
    BY <1>1, <2>3 DEF Good, Covers, Covered
  <2> QED BY <1>1, <2>1, <2>4, <2>5, <2>6, <2>7, <2>8, LocalStep DEF Good
<1> QED BY <1>2, <1>3, <1>4
-----------------------------------------------------------------------------
(* A run that goes on to look for its new key, or has found it, keeps what *)
(* it knows.                                                               *)
LEMMA SearchIsGood ==
  ASSUME NEW acc, NEW n, Ledger(acc, n), NEW s, Good(s, acc, n),
         s.pc \in {"post", "relist", "requery"},
         NEW t \in RunState, t.offset < Ceiling,
         \/ t.pc \in {"relist", "requery"}
         \/ t.pc = "print" /\ t.key = NoKey /\ s.cmd.kind # "sync",
         t.cmd = s.cmd, t.todo = s.todo, t.existing = s.existing, t.out = s.out,
         t.exit = s.exit, t.since = s.since, t.partial = s.partial,
         t.made = s.made \/ (s.pc = "post" /\ \E h : t.made = s.made \cup {h})
  PROVE  Good(t, acc, n)
<1>1. Typed(t)
  BY DEF Good, Typed
<1>2. Seen(t, acc) /\ Known(t, acc) /\ Needed(t) /\ Drawn(t, n)
  BY DEF Good, Seen, Known, Needed, Drawn
<1>3. Reports(t)
  <2>1. \A f, g \in Lost(t) : f = g
    <3>1. CASE t.made = s.made
      <4>1. Lost(t) = Lost(s)
        BY <3>1 DEF Lost
      <4> QED BY <4>1 DEF Good, Reports
    <3>2. CASE s.pc = "post" /\ \E h : t.made = s.made \cup {h}
      <4>1. PICK h : t.made = s.made \cup {h}
        BY <3>2
      <4>2. Lost(s) = {}
        BY <3>2 DEF Good, Reports
      <4> QED BY <4>1, <4>2 DEF Lost
    <3> QED BY <3>1, <3>2
  <2>2. t.exit = "none"
    BY DEF Good, Typed
  <2> QED BY <2>1, <2>2 DEF Good, Reports
<1>4. Covers(t)
  BY DEF Good, Covers, Covered
<1> QED BY <1>1, <1>2, <1>3, <1>4 DEF Good

LEMMA SearchStep ==
  ASSUME IInv, NEW r \in Runs, NEW t \in RunState, Becomes(r, t), UNCHANGED <<account, drawn>>,
         run[r].pc \in {"relist", "requery"}, t.offset < Ceiling,
         \/ t.pc \in {"relist", "requery"}
         \/ t.pc = "print" /\ t.key = NoKey /\ run[r].cmd.kind # "sync",
         t.cmd = run[r].cmd, t.todo = run[r].todo, t.existing = run[r].existing,
         t.out = run[r].out, t.exit = run[r].exit, t.since = run[r].since,
         t.partial = run[r].partial, t.made = run[r].made
  PROVE  IInv'
<1>1. Good(run[r], account, drawn) /\ Ledger(account, drawn)
  BY DEF IInv
<1>2. Good(t, account, drawn)
  BY <1>1, SearchIsGood
<1> QED BY <1>2, LocalStep

LEMMA RecoveredStep ==
  ASSUME IInv, NEW r \in Runs, run[r].pc \in {"relist", "requery"}, Recovered(r),
         UNCHANGED <<account, drawn>>
  PROVE  IInv'
<1> DEFINE s == run[r]
           t == [s EXCEPT !.pc = "print", !.key = NoKey]
<1>1. CASE s.cmd.kind = "sync"
  BY <1>1, ExitStep DEF Recovered
<1>2. CASE s.cmd.kind # "sync"
  <2>1. Becomes(r, t)
    BY <1>2 DEF Recovered
  <2>2. s \in RunState /\ s.offset < Ceiling
    BY DEF IInv, Good, Typed
  <2>3. t \in RunState
    BY <2>2 DEF RunState, NoKey
  <2>4. /\ t.pc = "print" /\ t.key = NoKey /\ t.offset = s.offset
        /\ t.cmd = s.cmd /\ t.todo = s.todo /\ t.existing = s.existing /\ t.out = s.out /\ t.made = s.made
        /\ t.exit = s.exit /\ t.since = s.since /\ t.partial = s.partial
    BY <2>2 DEF RunState
  <2> HIDE DEF t
  <2> QED BY <1>2, <2>1, <2>2, <2>3, <2>4, SearchStep
<1> QED BY <1>1, <1>2

LEMMA RequeryStep ==
  ASSUME IInv, NEW r \in Runs, Requery(r)
  PROVE  IInv'
BY RecoveredStep, ExitStep DEF Requery
-----------------------------------------------------------------------------
(* The list, page by page. *)
LEMMA MorePagesStep ==
  ASSUME IInv, NEW r \in Runs, run[r].pc \in {"list", "relist"}, ~LastPage(run[r].offset),
         UNCHANGED <<account, drawn>>,
         Becomes(r, [run[r] EXCEPT !.rows = run[r].rows \cup PageFrom(run[r].offset),
                                   !.offset = @ + PageSize])
  PROVE  IInv'
<1> DEFINE s == run[r]
           t == [s EXCEPT !.rows = s.rows \cup PageFrom(s.offset), !.offset = @ + PageSize]
<1>1. Good(s, account, drawn) /\ Ledger(account, drawn) /\ s \in RunState
  BY DEF IInv
<1>2. s.offset \in Nat /\ PageSize \in Nat \ {0} /\ s.rows \subseteq Key
  BY <1>1, KeyAssumption DEF RunState
<1>3. s.offset + PageSize \in Nat /\ s.offset + PageSize < Ceiling
  BY <1>2, CeilingType DEF LastPage
<1>4. PageFrom(s.offset) \subseteq Key
  BY <1>1 DEF PageFrom, Ledger
<1>5. t \in RunState
  <2>1. s.rows \cup PageFrom(s.offset) \in SUBSET Key
    BY <1>2, <1>4
  <2> QED BY <1>1, <1>3, <2>1 DEF RunState
<1>6. /\ t.pc = s.pc /\ t.rows = s.rows \cup PageFrom(s.offset) /\ t.offset = s.offset + PageSize
      /\ t.cmd = s.cmd /\ t.todo = s.todo /\ t.existing = s.existing /\ t.out = s.out /\ t.made = s.made
      /\ t.exit = s.exit /\ t.since = s.since /\ t.partial = s.partial
  BY <1>1 DEF RunState
<1>7. Becomes(r, t)
  OBVIOUS
<1> HIDE DEF t
<1>8. CASE s.pc = "relist"
  BY <1>3, <1>5, <1>6, <1>7, <1>8, SearchStep
<1>9. CASE s.pc = "list"
  <2>1. Typed(t)
    BY <1>1, <1>3, <1>5, <1>6, <1>9 DEF Good, Typed
  <2>2. Seen(t, account)
    <3> SUFFICES ASSUME ~s.partial, NEW i \in DOMAIN account,
                        i <= s.offset + PageSize, account[i].hash \in s.since
                 PROVE  account[i] \in s.rows \cup PageFrom(s.offset)
      BY <1>6 DEF Seen
    <3>1. CASE i <= s.offset
      BY <1>1, <1>9, <3>1 DEF Good, Seen
    <3>2. CASE s.offset < i
      BY <3>2 DEF PageFrom
    <3>3. i \in Nat
      BY <1>1 DEF Ledger
    <3> QED BY <1>2, <3>1, <3>2, <3>3
  <2>3. Known(t, account) /\ Needed(t)
    BY <1>6, <1>9 DEF Known, Needed
  <2>4. Lost(t) = Lost(s)
    BY <1>6, <1>9 DEF Lost
  <2>5. Drawn(t, drawn) /\ Reports(t)
    BY <1>1, <1>6, <1>9, <2>4 DEF Good, Drawn, Reports
  <2>6. Covers(t)
    BY <1>1, <1>6, <1>9 DEF Good, Covers, Covered
  <2> QED BY <1>7, <2>1, <2>2, <2>3, <2>4, <2>5, <2>6, LocalStep DEF Good
<1> QED BY <1>8, <1>9

(* The end of the first list, or of the attempt to get one. *)
LEMMA ListEndStep ==
  ASSUME IInv, NEW r \in Runs, run[r].pc = "list", UNCHANGED <<account, drawn>>,
         NEW rows \in SUBSET Key, NEW partial \in BOOLEAN,
         ~partial => \A k \in ToSet(account) : k.hash \in run[r].since => k \in rows,
         Becomes(r, [run[r] EXCEPT !.pc = "agent", !.existing = rows, !.rows = {},
                                   !.partial = partial])
  PROVE  IInv'
<1> DEFINE s == run[r]
           t == [s EXCEPT !.pc = "agent", !.existing = rows, !.rows = {}, !.partial = partial]
<1>1. Good(s, account, drawn) /\ s \in RunState /\ s.exit = "none" /\ s.offset < Ceiling
  BY DEF IInv, Good, Typed
<1>2. t \in RunState
  BY <1>1 DEF RunState
<1>3. /\ t.pc = "agent" /\ t.existing = rows /\ t.partial = partial /\ t.offset = s.offset
      /\ t.cmd = s.cmd /\ t.todo = s.todo /\ t.out = s.out /\ t.made = s.made /\ t.exit = "none" /\ t.since = s.since
  BY <1>1 DEF RunState
<1>4. Becomes(r, t)
  OBVIOUS
<1> HIDE DEF t
<1>5. Typed(t)
  BY <1>1, <1>2, <1>3 DEF Typed
<1>6. Seen(t, account) /\ Known(t, account) /\ Needed(t)
  BY <1>3 DEF Seen, Known, Needed
<1>7. Lost(t) = Lost(s)
  BY <1>3 DEF Lost
<1>8. Drawn(t, drawn) /\ Reports(t)
  <2>1. Lost(s) = {}
    BY <1>1 DEF Good, Reports
  <2> QED BY <1>1, <1>3, <1>7, <2>1 DEF Good, Drawn, Reports
<1>9. Covers(t)
  BY <1>1, <1>3 DEF Good, Covers, Covered
<1> QED BY <1>4, <1>5, <1>6, <1>7, <1>8, <1>9, LocalStep DEF Good

LEMMA ListPageStep ==
  ASSUME IInv, NEW r \in Runs, ListPage(r)
  PROVE  IInv'
<1> DEFINE s == run[r]
           rows == s.rows \cup PageFrom(s.offset)
<1>1. /\ Good(s, account, drawn) /\ Ledger(account, drawn) /\ s \in RunState /\ s.offset < Ceiling
      /\ s.pc \in {"list", "relist"} /\ UNCHANGED <<account, drawn>>
  BY DEF IInv, Good, Typed, ListPage
<1>2. rows \in SUBSET Key /\ s.offset \in Nat
  <2>1. PageFrom(s.offset) \subseteq Key
    BY <1>1 DEF PageFrom, Ledger
  <2> QED BY <1>1, <2>1 DEF RunState
<1>3. CASE ~LastPage(s.offset)
  <2>1. Becomes(r, [s EXCEPT !.rows = rows, !.offset = @ + PageSize])
    BY <1>3 DEF ListPage
  <2> QED BY <1>1, <1>3, <2>1, MorePagesStep
<1>4. CASE LastPage(s.offset) /\ s.pc = "list"
  <2> DEFINE partial == s.partial \/ ~Short(s.offset)
  <2>1. Becomes(r, [s EXCEPT !.pc = "agent", !.existing = rows, !.rows = {}, !.partial = partial])
    BY <1>4 DEF ListPage
  <2>2. partial \in BOOLEAN
    BY <1>1 DEF RunState
  <2>3. ASSUME ~partial, NEW i \in DOMAIN account, account[i].hash \in s.since
        PROVE  account[i] \in rows
    <3>1. i \in Nat /\ i <= Len(account) /\ Len(account) \in Nat
      BY <1>1 DEF Ledger
    <3>2. CASE i <= s.offset
      BY <1>1, <1>4, <2>3, <3>2 DEF Good, Seen
    <3>3. CASE s.offset < i
      <4>1. i <= s.offset + PageSize
        BY <1>2, <2>3, <3>1, KeyAssumption DEF Short
      <4> QED BY <3>3, <4>1 DEF PageFrom
    <3> QED BY <1>2, <3>1, <3>2, <3>3
  <2>4. ~partial => \A k \in ToSet(account) : k.hash \in s.since => k \in rows
    BY <2>3 DEF ToSet
  <2> HIDE DEF rows, partial
  <2> QED BY <1>1, <1>2, <1>4, <2>1, <2>2, <2>4, ListEndStep
<1>5. CASE LastPage(s.offset) /\ s.pc = "relist"
  <2>1. CASE Exit(r, "failed")
    BY <1>1, <1>5, <2>1, ExitStep
  <2>2. CASE Recovered(r)
    BY <1>1, <1>5, <2>2, RecoveredStep
  <2>3. CASE Becomes(r, [s EXCEPT !.pc = "requery"])
    BY <1>1, <1>5, <2>3, SearchStep DEF RunState
  <2> QED BY <1>5, <2>1, <2>2, <2>3 DEF ListPage
<1> QED BY <1>1, <1>3, <1>4, <1>5

LEMMA ListFailsStep ==
  ASSUME IInv, NEW r \in Runs, ListFails(r)
  PROVE  IInv'
<1> DEFINE s == run[r]
<1>1. /\ Good(s, account, drawn) /\ s \in RunState /\ s.offset < Ceiling
      /\ UNCHANGED <<account, drawn>>
  BY DEF IInv, Good, Typed, ListFails
<1>2. CASE s.pc \in {"list", "relist"} /\ Exit(r, "failed")
  BY <1>1, <1>2, ExitStep
<1>3. CASE s.pc = "list" /\ Becomes(r, [s EXCEPT !.pc = "agent", !.existing = {}, !.rows = {},
                                                 !.partial = TRUE])
  BY <1>1, <1>3, ListEndStep
<1>4. CASE s.pc = "relist" /\ Becomes(r, [s EXCEPT !.pc = "requery"])
  BY <1>1, <1>4, SearchStep DEF RunState
<1> QED BY <1>2, <1>3, <1>4 DEF ListFails
-----------------------------------------------------------------------------
(* The creation of a key and the line that reports it. *)
LEMMA PostStep ==
  ASSUME IInv, NEW r \in Runs, Post(r)
  PROVE  IInv'
<1> DEFINE s == run[r]
           k == [hash |-> drawn + 1, label |-> Head(s.todo)]
<1>1. /\ Good(s, account, drawn) /\ Ledger(account, drawn) /\ s \in RunState
      /\ s.pc = "post" /\ s.exit = "none" /\ s.offset < Ceiling /\ s.todo # <<>>
  BY DEF IInv, Good, Typed, Post
<1> DEFINE made == s.made \cup {drawn + 1}
<1>2. account' = Append(account, k) /\ drawn' = drawn + 1
  BY DEF Post, Agent
<1>3. k \in Key /\ k.hash = drawn + 1 /\ k.label = Head(s.todo)
  <2>1. s.todo \in Seq(Agents)
    BY <1>1 DEF RunState
  <2>2. Head(s.todo) \in Agents
    BY <1>1, <2>1, HeadTailProperties
  <2> QED BY <1>1, <2>2 DEF Ledger, Key, Labels
<1> HIDE DEF k
<1>4. Ledger(account', drawn')
  <2>1. account' \in Seq(Key) /\ drawn' \in Nat
    BY <1>1, <1>2, <1>3, AppendElements DEF Ledger
  <2>2. /\ DOMAIN account' = 1..(Len(account) + 1) /\ DOMAIN account = 1..Len(account)
        /\ Len(account) \in Nat /\ account'[Len(account) + 1] = k
        /\ \A i \in 1..Len(account) : account'[i] = account[i]
    BY <1>1, <1>2, <1>3 DEF Ledger
  <2>3. \A i \in 1..Len(account) : account[i].hash \in 1..drawn
    BY <1>1, <2>2 DEF Ledger
  <2>4. \A i \in DOMAIN account' : account'[i].hash \in 1..drawn'
    BY <1>1, <1>2, <1>3, <2>2, <2>3 DEF Ledger
  <2>5. ASSUME NEW i \in DOMAIN account', NEW j \in DOMAIN account',
               account'[i].hash = account'[j].hash
        PROVE  i = j
    <3>1. CASE i \in 1..Len(account) /\ j \in 1..Len(account)
      BY <1>1, <2>2, <2>5, <3>1 DEF Ledger
    <3>2. CASE i = Len(account) + 1 /\ j \in 1..Len(account)
      BY <1>1, <1>3, <2>2, <2>3, <2>5, <3>2 DEF Ledger
    <3>3. CASE i \in 1..Len(account) /\ j = Len(account) + 1
      BY <1>1, <1>3, <2>2, <2>3, <2>5, <3>3 DEF Ledger
    <3> QED BY <2>2, <3>1, <3>2, <3>3
  <2> QED BY <2>1, <2>4, <2>5 DEF Ledger
<1>5. \A q \in Runs : Good(run[q], account', drawn')
  BY <1>1, <1>2, <1>3, GoodAfterCreation DEF IInv
<1>6. made \in SUBSET Nat /\ Lost(s) = {}
  BY <1>1 DEF Ledger, Good, Reports, RunState
<1> DEFINE u == [s EXCEPT !.made = made]
<1>7. \/ Becomes(r, [u EXCEPT !.pc = "print", !.key = drawn'])
      \/ Becomes(r, [u EXCEPT !.pc = "relist", !.offset = 0, !.rows = {}])
      \/ Becomes(r, Over(u, "failed"))
  BY DEF Post
<1>8. CASE Becomes(r, Over(u, "failed"))
  <2>1. Good(Over(u, "failed"), account', drawn')
    BY <1>1, <1>4, <1>5, <1>6, OverIsGood DEF Ledger
  <2> QED BY <1>4, <1>5, <1>8, <2>1, OneRunSteps
<1>9. CASE Becomes(r, [u EXCEPT !.pc = "relist", !.offset = 0, !.rows = {}])
  <2> DEFINE t == [u EXCEPT !.pc = "relist", !.offset = 0, !.rows = {}]
  <2>1. t \in RunState
    BY <1>1, <1>6 DEF RunState
  <2>2. /\ t.pc = "relist" /\ t.offset = 0 /\ t.made = made
        /\ t.cmd = s.cmd /\ t.todo = s.todo /\ t.existing = s.existing /\ t.out = s.out
        /\ t.exit = s.exit /\ t.since = s.since /\ t.partial = s.partial
    BY <1>1 DEF RunState
  <2>3. Becomes(r, t)
    BY <1>9
  <2> HIDE DEF t
  <2>4. Good(t, account', drawn')
    BY <1>1, <1>4, <1>5, <2>1, <2>2, CeilingType, SearchIsGood
  <2> QED BY <1>4, <1>5, <2>3, <2>4, OneRunSteps
<1>10. CASE Becomes(r, [u EXCEPT !.pc = "print", !.key = drawn'])
  <2> DEFINE t == [u EXCEPT !.pc = "print", !.key = drawn']
  <2>1. t \in RunState
    BY <1>1, <1>4, <1>6 DEF RunState, Ledger
  <2>2. /\ t.pc = "print" /\ t.key = drawn + 1 /\ t.offset = s.offset /\ t.made = made
        /\ t.cmd = s.cmd /\ t.todo = s.todo /\ t.existing = s.existing /\ t.out = s.out
        /\ t.exit = s.exit /\ t.since = s.since /\ t.partial = s.partial
    BY <1>1, <1>2 DEF RunState
  <2>3. Becomes(r, t)
    BY <1>10
  <2> HIDE DEF t
  <2>4. Good(s, account', drawn') /\ Good(s, account, drawn) /\ drawn \in Nat
    BY <1>1, <1>5 DEF Ledger
  <2>5. Typed(t)
    BY <1>1, <2>1, <2>2 DEF Typed
  <2>6. Seen(t, account') /\ Known(t, account') /\ Needed(t) /\ Drawn(t, drawn')
    BY <1>1, <2>2, <2>4 DEF Good, Seen, Known, Needed, Drawn
  <2>7. Reports(t)
    <3>1. Lost(t) \subseteq {drawn + 1}
      BY <1>6, <2>2 DEF Lost
    <3> QED BY <1>1, <2>2, <2>4, <3>1 DEF Good, Reports
  <2>8. Covers(t)
    BY <1>1, <2>2, <2>4 DEF Good, Covers, Covered, NoKey
  <2>9. Good(t, account', drawn')
    BY <2>5, <2>6, <2>7, <2>8 DEF Good
  <2> QED BY <1>4, <1>5, <2>3, <2>9, OneRunSteps
<1> QED BY <1>7, <1>8, <1>9, <1>10

LEMMA PrintLineStep ==
  ASSUME IInv, NEW r \in Runs, PrintLine(r)
  PROVE  IInv'
<1> DEFINE s == run[r]
           line == [agent |-> Head(s.todo), key |-> s.key]
           t == [s EXCEPT !.pc = "agent", !.out = @ \cup {line}, !.todo = Tail(@)]
<1>1. /\ Good(s, account, drawn) /\ s \in RunState /\ s.pc = "print" /\ s.exit = "none"
      /\ s.offset < Ceiling /\ s.todo # <<>> /\ UNCHANGED <<account, drawn>>
  BY DEF IInv, Good, Typed, PrintLine
<1>2. Becomes(r, t)
  BY DEF PrintLine, Line, Agent
<1>3. /\ Tail(s.todo) \in Seq(Agents) /\ Head(s.todo) \in Agents
      /\ ToSet(s.todo) \subseteq {Head(s.todo)} \cup ToSet(Tail(s.todo))
  <2>1. s.todo \in Seq(Agents)
    BY <1>1 DEF RunState
  <2> QED BY <1>1, <2>1, TailElements
<1>4. line.agent = Head(s.todo) /\ line.key = s.key /\ line \in [agent : Agents, key : Nat]
  BY <1>1, <1>3 DEF RunState
<1> HIDE DEF line
<1>5. t \in RunState
  <2>1. s.out \cup {line} \in SUBSET [agent : Agents, key : Nat]
    BY <1>1, <1>4 DEF RunState
  <2> QED BY <1>1, <1>3, <2>1 DEF RunState
<1>6. /\ t.pc = "agent" /\ t.made = s.made /\ t.out = s.out \cup {line} /\ t.todo = Tail(s.todo)
      /\ t.offset = s.offset /\ t.cmd = s.cmd /\ t.existing = s.existing
      /\ t.exit = "none" /\ t.since = s.since /\ t.partial = s.partial
  BY <1>1 DEF RunState
<1> HIDE DEF t
<1>7. Typed(t)
  BY <1>1, <1>5, <1>6 DEF Typed
<1>8. Seen(t, account) /\ Known(t, account) /\ Needed(t)
  BY <1>1, <1>6 DEF Good, Seen, Known, Needed
<1>9. Drawn(t, drawn)
  BY <1>1, <1>6 DEF Good, Drawn
<1>10. Lost(t) = Lost(s) \ {s.key}
  BY <1>4, <1>6 DEF Lost
<1>11. Reports(t)
  <2>1. s.cmd.kind \in {"provision", "sync"}
    BY <1>1, KeyAssumption DEF RunState, Command
  <2>2. CASE s.key # NoKey
    <3>1. Lost(t) = {}
      BY <1>1, <1>10, <2>2 DEF Good, Reports
    <3>2. s.cmd.kind = "provision" => t.todo = <<>>
      BY <1>1, <1>6 DEF Good, Reports
    <3> QED BY <1>6, <3>1, <3>2 DEF Reports
  <2>3. CASE s.key = NoKey
    <3>1. s.cmd.kind = "provision" /\ t.todo = <<>>
      BY <1>1, <1>6, <2>1, <2>3 DEF Good, Reports, Covers
    <3> QED BY <1>1, <1>6, <1>10, <3>1 DEF Good, Reports
  <2> QED BY <2>2, <2>3
<1>12. Covers(t)
  <2> SUFFICES ASSUME s.cmd.kind = "sync"
               PROVE  \A a \in ToSet(s.cmd.agents) : Covered(t, a)
    BY <1>6 DEF Covers
  <2>1. s.key # NoKey /\ \A a \in ToSet(s.cmd.agents) : Covered(s, a)
    BY <1>1 DEF Good, Covers
  <2>2. \A a : Covered(s, a) => Covered(t, a)
    BY <1>3, <1>4, <1>6, <2>1 DEF Covered
  <2> QED BY <2>1, <2>2
<1>13. Good(t, account, drawn)
  BY <1>7, <1>8, <1>9, <1>11, <1>12 DEF Good
<1> QED BY <1>1, <1>2, <1>13, LocalStep
-----------------------------------------------------------------------------
(* A revocation by hand, which moves the keys after it up in the list. *)
LEMMA RevokeStep ==
  ASSUME IInv, NEW i \in DOMAIN account, Revoke(i)
  PROVE  IInv'
<1> DEFINE t(r) == [run[r] EXCEPT !.partial = TRUE]
<1>1. Ledger(account, drawn) /\ account \in Seq(Key)
  BY DEF IInv, Ledger
<1>2. account' = RemoveAt(account, i) /\ drawn' = drawn
  BY DEF Revoke
<1>3. /\ account' \in Seq(Key) /\ DOMAIN account' = 1..(Len(account) - 1)
      /\ \A j \in 1..(Len(account) - 1) : account'[j] = account[IF j < i THEN j ELSE j + 1]
      /\ ToSet(account') \subseteq ToSet(account)
  BY <1>1, <1>2, RemoveElements
<1>4. Ledger(account', drawn')
  <2> DEFINE old(j) == IF j < i THEN j ELSE j + 1
  <2>1. \A j \in DOMAIN account' : old(j) \in DOMAIN account /\ account'[j] = account[old(j)]
    BY <1>1, <1>3
  <2>2. \A j \in DOMAIN account' : account'[j].hash \in 1..drawn'
    <3> HIDE DEF old
    <3> QED BY <1>1, <1>2, <2>1 DEF Ledger
  <2>3. ASSUME NEW j \in DOMAIN account', NEW k \in DOMAIN account',
               account'[j].hash = account'[k].hash
        PROVE  j = k
    <3>1. old(j) = old(k)
      <4> HIDE DEF old
      <4> QED BY <1>1, <2>1, <2>3 DEF Ledger
    <3>2. i \in Int /\ j \in Int /\ k \in Int
      BY <1>1, <1>3
    <3> QED BY <3>1, <3>2
  <2> QED BY <1>1, <1>2, <1>3, <2>2, <2>3 DEF Ledger
<1>5. ASSUME NEW r \in Runs, run[r].pc = "list"
      PROVE  /\ run'[r] = t(r) /\ t(r) \in RunState /\ Good(t(r), account', drawn')
  <2> DEFINE s == run[r]
             u == t(r)
  <2>1. Good(s, account, drawn) /\ s \in RunState
    BY DEF IInv
  <2>2. run'[r] = u
    BY <1>5 DEF Revoke
  <2>3. u \in RunState
    BY <2>1 DEF RunState
  <2>4. /\ u.pc = "list" /\ u.partial = TRUE /\ u.out = s.out /\ u.made = s.made /\ u.todo = s.todo
        /\ u.offset = s.offset /\ u.cmd = s.cmd /\ u.existing = s.existing
        /\ u.exit = s.exit /\ u.since = s.since
    BY <1>5, <2>1 DEF RunState
  <2> HIDE DEF u
  <2>5. Typed(u)
    BY <1>5, <2>1, <2>3, <2>4 DEF Good, Typed
  <2>6. Seen(u, account) /\ Known(u, account) /\ Needed(u)
    BY <2>4 DEF Seen, Known, Needed
  <2>7. Lost(u) = Lost(s)
    BY <1>5, <2>4 DEF Lost
  <2>8. Drawn(u, drawn) /\ Reports(u)
    BY <1>5, <2>1, <2>4, <2>7 DEF Good, Drawn, Reports
  <2>9. Covers(u)
    BY <1>5, <2>1, <2>4 DEF Good, Covers, Covered
  <2>10. Good(u, account, drawn)
    BY <2>5, <2>6, <2>8, <2>9 DEF Good
  <2>11. Good(u, account', drawn')
    BY <1>2, <1>3, <2>4, <2>10, GoodAfterRevocation
  <2> QED BY <2>2, <2>3, <2>11 DEF u
<1>6. ASSUME NEW r \in Runs, run[r].pc # "list"
      PROVE  run'[r] = run[r] /\ run[r] \in RunState /\ Good(run[r], account', drawn')
  <2>1. run'[r] = run[r] /\ run[r] \in RunState /\ Good(run[r], account, drawn)
    BY <1>6 DEF IInv, Revoke
  <2> QED BY <1>2, <1>3, <1>6, <2>1, GoodAfterRevocation
<1> HIDE DEF t
<1>7. \A r \in Runs : run'[r] \in RunState /\ Good(run'[r], account', drawn')
  BY <1>5, <1>6
<1>8. run' \in [Runs -> RunState]
  <2>1. run' = [r \in Runs |-> run'[r]]
    BY DEF Revoke
  <2> QED BY <1>7, <2>1
<1> QED BY <1>4, <1>7, <1>8 DEF IInv
-----------------------------------------------------------------------------
(* The invariant holds of the account before any run has begun. *)
LEMMA InitEstablishes == Init => IInv
<1> SUFFICES ASSUME Init PROVE IInv
  OBVIOUS
<1>1. Ledger(account, drawn)
  <2>1. PICK n \in 0..MaxInitial :
          /\ drawn = n
          /\ \E label \in [1..n -> Labels] :
               account = [i \in 1..n |-> [hash |-> i, label |-> label[i]]]
    BY DEF Init
  <2>2. PICK label \in [1..n -> Labels] :
          account = [i \in 1..n |-> [hash |-> i, label |-> label[i]]]
    BY <2>1
  <2>3. n \in Nat
    BY KeyAssumption
  <2>4. \A i \in 1..n : [hash |-> i, label |-> label[i]] \in Key
    BY <2>3 DEF Key
  <2>5. account \in Seq(Key) /\ DOMAIN account = 1..n /\ \A i \in 1..n : account[i].hash = i
    BY <2>2, <2>3, <2>4
  <2> QED BY <2>1, <2>3, <2>5 DEF Ledger
<1>2. PICK cmd \in [Runs -> Commands] :
        run = [r \in Runs |->
          [pc |-> "off", cmd |-> cmd[r], todo |-> cmd[r].agents, offset |-> 0, rows |-> {},
           existing |-> {}, key |-> NoKey, out |-> {}, exit |-> "none",
           since |-> {}, made |-> {}, partial |-> FALSE]]
  BY DEF Init
<1>3. ASSUME NEW r \in Runs
      PROVE  run[r] \in RunState /\ Good(run[r], account, drawn)
  <2> DEFINE s == run[r]
  <2>1. /\ s.pc = "off" /\ s.cmd = cmd[r] /\ s.todo = cmd[r].agents /\ s.offset = 0
        /\ s.out = {} /\ s.exit = "none" /\ s.since = {} /\ s.made = {}
    BY <1>2
  <2>2. s \in RunState
    <3>1. cmd[r] \in Commands /\ cmd[r].agents \in Seq(Agents)
      BY KeyAssumption DEF Command
    <3> QED BY <1>2, <3>1 DEF RunState, NoKey
  <2>3. cmd[r].kind = "provision" => Tail(cmd[r].agents) = <<>>
    <3> SUFFICES ASSUME cmd[r].kind = "provision" PROVE Tail(cmd[r].agents) = <<>>
      OBVIOUS
    <3>1. cmd[r].agents \in Seq(Agents) /\ cmd[r].agents # <<>> /\ Len(cmd[r].agents) = 1
      BY KeyAssumption DEF Command
    <3>2. Tail(cmd[r].agents) \in Seq(Agents) /\ Len(Tail(cmd[r].agents)) = 0
      BY <3>1, HeadTailProperties
    <3> QED BY <3>2, EmptySeq
  <2>4. Typed(s)
    BY <2>1, <2>2, CeilingType DEF Typed
  <2>5. Seen(s, account) /\ Known(s, account) /\ Needed(s)
    BY <2>1 DEF Seen, Known, Needed
  <2>6. Drawn(s, drawn) /\ Reports(s)
    BY <2>1, <2>3 DEF Drawn, Reports, Lost
  <2>7. Covers(s)
    BY <2>1 DEF Covers, Covered
  <2> QED BY <2>2, <2>3, <2>4, <2>5, <2>6, <2>7 DEF Good
<1>4. run \in [Runs -> RunState]
  BY <1>2, <1>3
<1> QED BY <1>1, <1>3, <1>4 DEF IInv

LEMMA StepPreserves == IInv /\ [Next]_vars => IInv'
<1> SUFFICES ASSUME IInv, [Next]_vars PROVE IInv'
  OBVIOUS
<1>1. ASSUME NEW r \in Runs, PostFails(r)  PROVE IInv'
  BY <1>1, ExitStep DEF PostFails
<1>2. ASSUME NEW r \in Runs, Die(r)  PROVE IInv'
  BY <1>2, ExitStep DEF Die
<1>3. CASE UNCHANGED vars
  BY <1>3 DEF vars, IInv
<1> QED BY <1>1, <1>2, <1>3, StartStep, ListPageStep, ListFailsStep, RequeryStep, NextAgentStep,
           PostStep, PrintLineStep, RevokeStep DEF Next

(* The invariant of every behaviour. *)
THEOREM Invariance == Spec => []IInv
BY InitEstablishes, StepPreserves, PTL DEF Spec
-----------------------------------------------------------------------------
(* The types, unique hashes, the ceiling on a list (list_keys) and that a  *)
(* run that creates a key has an agent to create it for.                   *)
THEOREM Types == Spec => []TypeOK
<1>1. IInv => TypeOK
  BY DEF IInv, Ledger, Good, Typed, TypeOK
<1> QED BY <1>1, Invariance, PTL

(* cmd_sync: an exit 0 means that each agent had a key or gets a line.     *)
THEOREM SyncsCover == Spec => []SyncCovers
<1>1. ASSUME IInv, NEW r \in Runs, Synced(r), NEW a \in ToSet(run[r].cmd.agents)
      PROVE  Found(run[r].existing, a) \/ Lines(r, a) # {}
  <2>1. Covered(run[r], a) /\ run[r].todo = <<>>
    BY <1>1 DEF IInv, Good, Covers, Synced
  <2>2. a \notin ToSet(run[r].todo)
    BY <2>1 DEF ToSet
  <2> QED BY <2>1, <2>2 DEF Covered, Lines
<1>2. IInv => SyncCovers
  BY <1>1 DEF SyncCovers
<1> QED BY <1>2, Invariance, PTL

(* cmd_sync, create_key: an error costs the string of the last key created *)
(* at most, those of the agents before it are reported.                    *)
THEOREM OneKeyAtRisk == Spec => []OneKeyLost
<1>1. ASSUME IInv, NEW r \in Runs
      PROVE  /\ \A g, h \in Unreported(r) : g = h
             /\ Synced(r) => Unreported(r) = {}
  BY <1>1 DEF IInv, Good, Reports, Lost, Unreported, Synced
<1>2. IInv => OneKeyLost
  BY <1>1 DEF OneKeyLost
<1> QED BY <1>2, Invariance, PTL

(* create_key is not called for an agent whose key was there before the    *)
(* list began, if that list was whole.                                     *)
THEOREM KeysAreNeeded == Spec => NoNeedlessKey
<1>1. ASSUME IInv, NEW r \in Runs, Post(r), ~run[r].partial,
             NEW k \in ToSet(account), k.label = Agent(r)
      PROVE  k.hash \notin run[r].since
  <2>1. ~Found(run[r].existing, Head(run[r].todo)) /\ Known(run[r], account) /\ run[r].pc = "post"
    BY <1>1 DEF IInv, Good, Needed, Post
  <2> QED BY <1>1, <2>1 DEF Known, Found, Agent
<1>2. IInv => [\A r \in Runs : Post(r) =>
                 \/ run[r].partial
                 \/ \A k \in ToSet(account) : k.label = Agent(r) => k.hash \notin run[r].since]_vars
  BY <1>1
<1> QED BY <1>2, Invariance, PTL DEF NoNeedlessKey
=============================================================================
