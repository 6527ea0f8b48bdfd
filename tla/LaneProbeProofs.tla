-------------------------- MODULE LaneProbeProofs --------------------------
(***************************************************************************)
(* Proofs about the lane watchdog, for any number of lanes, any reports    *)
(* and any number of probes that die half way.                             *)
(***************************************************************************)
EXTENDS LaneProbeProps, TLAPS
-----------------------------------------------------------------------------
Types ==
  /\ lane \in [Lanes -> Reports \cup {Idle}]
  /\ journal \in SUBSET Lines
  /\ received \in ReceiveAges
  /\ keys \in SUBSET Keys
  /\ probe \in ProbeState
  /\ alerts \in [Keys -> Nat]
  /\ crashes \in 0..MaxCrashes

(* The probe acts on lanes it found wedged. *)
Aimed ==
  /\ probe.pc \in {"kill", "note"} => probe.target \in probe.wedged
  /\ \A line \in probe.todo : Wedged(line[2]) => line[1] \in probe.wedged

(* Of the key k an alert was raised in this hour that the state file does  *)
(* not have yet, and the running probe will note it there.                 *)
Pending(k) ==
  /\ probe.bucket = "current"
  /\ \/ probe.pc = "ingress_note" /\ k = Ingress
     \/ probe.pc \in {"kill", "note"} /\ k = probe.target

(* Each alert but those of dead probes is in the state file or pending.    *)
Counted ==
  \A k \in Keys : /\ alerts[k] <= crashes + 1
                  /\ alerts[k] <= crashes \/ k \in keys \/ Pending(k)

(* What is in the state file, or pending, was alerted. *)
Backed == \A k \in Keys : k \in keys \/ Pending(k) => alerts[k] >= 1

(* A lane that was wedged had its alert, or a line of it is still to come; *)
(* but for the lines a failed helper lost.                                 *)
Covered ==
  \/ probe.pc = "off" \/ probe.turned \/ probe.failed
  \/ \A l \in probe.wedged :
       alerts[l] >= 1 \/ \E line \in probe.todo : line[1] = l /\ Wedged(line[2])

IInv == Types /\ Aimed /\ Counted /\ Backed /\ Covered
-----------------------------------------------------------------------------
(* No probe runs at first and after the end of one. *)
LEMMA OffType ==
  /\ Off \in ProbeState /\ Off.pc = "off" /\ Off.todo = {} /\ Off.wedged = {}
  BY ProbeAssumption DEF Off, ProbeState

LEMMA InitSound == Init => IInv
<1> SUFFICES ASSUME Init PROVE IInv
  OBVIOUS
<1>1. Types
  BY ProbeAssumption, OffType DEF Init, Types
<1>2. Aimed /\ Covered
  BY OffType DEF Init, Aimed, Covered
<1>3. Counted /\ Backed
  BY OffType DEF Init, Counted, Backed, Pending
<1> QED BY <1>1, <1>2, <1>3 DEF IInv

(* The gateway's own steps. *)
LEMMA GatewayStep ==
  ASSUME IInv, UNCHANGED <<keys, probe, alerts, crashes>>,
         lane' \in [Lanes -> Reports \cup {Idle}], journal' \in SUBSET Lines,
         received' \in ReceiveAges
  PROVE  IInv'
  BY DEF IInv, Types, Aimed, Counted, Backed, Covered, Pending

LEMMA GatewaySound ==
  ASSUME IInv,
         \/ \E l \in Lanes : Work(l) \/ Diagnose(l)
         \/ \E line \in Lines : Expire(line)
         \/ Receive \/ Silence
  PROVE  IInv'
<1>1. /\ lane \in [Lanes -> Reports \cup {Idle}] /\ journal \in SUBSET Lines
      /\ received \in ReceiveAges
  BY DEF IInv, Types
<1>2. ASSUME NEW l \in Lanes, Work(l) PROVE IInv'
  BY <1>1, <1>2, GatewayStep DEF Work
<1>3. ASSUME NEW l \in Lanes, Diagnose(l) PROVE IInv'
  BY <1>1, <1>3, GatewayStep DEF Diagnose, Lines
<1>4. ASSUME NEW line \in Lines, Expire(line) PROVE IInv'
  BY <1>1, <1>4, GatewayStep DEF Expire
<1>5. CASE Receive \/ Silence
  BY <1>1, <1>5, GatewayStep DEF Receive, Silence, ReceiveAges
<1> QED BY <1>2, <1>3, <1>4, <1>5
-----------------------------------------------------------------------------
(* A probe starts: what was wedged is in the lines it will go through, or  *)
(* lines were lost.                                                        *)
LEMMA ReadSound == ASSUME IInv, Read PROVE IInv'
<1> DEFINE found == {x[1] : x \in {y \in journal : Wedged(y[2])}}
<1>1. /\ Types /\ Counted /\ Backed /\ probe.pc = "off"
      /\ UNCHANGED <<lane, journal, received, keys, alerts, crashes>>
      /\ journal \in SUBSET Lines
  BY DEF IInv, Types, Read, gateway
<1>2. found \in SUBSET Lanes
  BY <1>1 DEF Lines
<1>3. PICK logs \in SUBSET journal, heard \in {received = "read", FALSE} :
        probe' = [Off EXCEPT !.pc = "ingress", !.todo = logs, !.heard = heard,
                    !.wedged = found,
                    !.failed = (logs # journal \/ heard # (received = "read"))]
  BY DEF Read
<1> HIDE DEF found
<1>4. /\ logs \in SUBSET Lines /\ heard \in BOOLEAN
      /\ (logs # journal \/ heard # (received = "read")) \in BOOLEAN
  BY <1>1
<1>5. /\ probe' \in ProbeState /\ probe'.pc = "ingress" /\ probe'.todo = logs
      /\ probe'.wedged = found /\ (logs # journal => probe'.failed)
  BY <1>2, <1>3, <1>4, OffType DEF ProbeState
<1>6. Types'
  BY <1>1, <1>5 DEF Types
<1>7. Aimed' /\ Covered'
  <2>1. \A line \in logs : Wedged(line[2]) => line[1] \in found
    BY DEF found
  <2>2. ~probe'.failed =>
          \A l \in found : \E line \in logs : line[1] = l /\ Wedged(line[2])
    BY <1>5 DEF found
  <2> QED BY <1>5, <2>1, <2>2 DEF Aimed, Covered
<1>8. \A k \in Keys : ~Pending(k) /\ ~Pending(k)'
  BY <1>1, <1>5 DEF Pending
<1>9. Counted' /\ Backed'
  BY <1>1, <1>8 DEF Counted, Backed
<1> QED BY <1>6, <1>7, <1>9 DEF IInv

(* An alert: it becomes pending. *)
LEMMA AlertStep ==
  ASSUME IInv, NEW k \in Keys, k \notin keys, ~Pending(k), Alert(k),
         UNCHANGED <<gateway, keys, crashes>>,
         \A j \in Keys : Pending(j)' <=> j = k,
         \A j \in Keys : ~Pending(j),
         probe' \in ProbeState, Aimed'
  PROVE  /\ Types' /\ Counted' /\ Backed'
         /\ \A j \in Keys : alerts'[j] >= alerts[j]
         /\ alerts'[k] >= 1
<1>1. /\ Types /\ Counted /\ Backed /\ alerts \in [Keys -> Nat] /\ crashes \in Nat
  BY ProbeAssumption DEF IInv, Types
<1>2. /\ alerts' \in [Keys -> Nat] /\ alerts'[k] = alerts[k] + 1
      /\ \A j \in Keys \ {k} : alerts'[j] = alerts[j]
  BY <1>1 DEF Alert
<1>3. Types'
  BY <1>1, <1>2 DEF Types, gateway
<1>4. Counted' /\ Backed'
  BY <1>1, <1>2 DEF Counted, Backed
<1> QED BY <1>1, <1>2, <1>3, <1>4

LEMMA CheckIngressSound == ASSUME IInv, CheckIngress PROVE IInv'
<1>1. /\ Types /\ Aimed /\ Counted /\ Backed /\ Covered /\ probe \in ProbeState
      /\ probe.pc = "ingress" /\ UNCHANGED <<gateway, keys, crashes>>
      /\ \A j \in Keys : ~Pending(j)
  BY DEF IInv, Types, CheckIngress, Pending
<1>2. PICK found \in {probe.heard, FALSE} :
        LET heard == [probe EXCEPT !.heard = FALSE, !.failed = @ \/ found # probe.heard]
        IN  \/ UNCHANGED alerts /\ probe' = [heard EXCEPT !.pc = "extract"]
            \/ /\ Ingress \notin keys /\ Alert(Ingress)
               /\ probe' = [heard EXCEPT !.pc = "ingress_note", !.bucket = "current"]
  BY Zenon DEF CheckIngress
<1>3. PICK f \in BOOLEAN, p \in {"extract", "ingress_note"}, b \in {"current", "past"} :
        /\ probe' = [probe EXCEPT !.heard = FALSE, !.failed = f, !.pc = p, !.bucket = b]
        /\ probe.failed => f
        /\ \/ p = "extract" /\ UNCHANGED alerts
           \/ /\ Ingress \notin keys /\ Alert(Ingress) /\ p = "ingress_note"
              /\ b = "current"
  <2> DEFINE fails == probe.failed \/ found # probe.heard
             heard == [probe EXCEPT !.heard = FALSE, !.failed = fails]
             Stepped(p, b) == [probe EXCEPT !.heard = FALSE, !.failed = fails,
                                            !.pc = p, !.bucket = b]
  <2>1. /\ probe.bucket \in {"current", "past"}
        /\ fails \in BOOLEAN /\ probe.failed => fails
    BY <1>1 DEF ProbeState
  <2>2. CASE probe' = [heard EXCEPT !.pc = "extract"] /\ UNCHANGED alerts
    <3>1. probe' = Stepped("extract", probe.bucket)
      BY <1>1, <2>2 DEF ProbeState
    <3> QED BY <2>1, <2>2, <3>1
  <2>3. CASE /\ Ingress \notin keys /\ Alert(Ingress)
             /\ probe' = [heard EXCEPT !.pc = "ingress_note", !.bucket = "current"]
    <3>1. probe' = Stepped("ingress_note", "current")
      BY <1>1, <2>3 DEF ProbeState
    <3> QED BY <2>1, <2>3, <3>1
  <2> QED BY <1>2, <2>2, <2>3
<1>4. /\ probe' \in ProbeState /\ probe'.todo = probe.todo /\ probe'.wedged = probe.wedged
      /\ probe'.turned = probe.turned /\ (probe.failed => probe'.failed)
      /\ probe'.pc = p /\ probe'.bucket = b
  BY <1>1, <1>3 DEF ProbeState
<1>5. CASE p = "extract" /\ UNCHANGED alerts
  <2>1. \A j \in Keys : ~Pending(j)'
    BY <1>4, <1>5 DEF Pending
  <2>2. Types' /\ Aimed' /\ Covered'
    BY <1>1, <1>4, <1>5 DEF Types, Aimed, Covered, gateway
  <2>3. Counted' /\ Backed'
    BY <1>1, <1>5, <2>1 DEF Counted, Backed
  <2> QED BY <2>2, <2>3 DEF IInv
<1>6. CASE Ingress \notin keys /\ Alert(Ingress) /\ p = "ingress_note" /\ b = "current"
  <2>1. Ingress \in Keys /\ \A j \in Keys : Pending(j)' <=> j = Ingress
    BY <1>4, <1>6 DEF Pending, Keys
  <2>2. Aimed'
    BY <1>1, <1>4, <1>6 DEF Aimed
  <2>3. Types' /\ Counted' /\ Backed' /\ \A j \in Keys : alerts'[j] >= alerts[j]
    BY <1>1, <1>4, <1>6, <2>1, <2>2, AlertStep
  <2>4. Covered'
    <3>1. probe.wedged \subseteq Keys /\ alerts \in [Keys -> Nat] /\ alerts' \in [Keys -> Nat]
      BY <1>1, <2>3 DEF Types, ProbeState, Keys
    <3> QED BY <1>1, <1>4, <2>3, <3>1 DEF Covered
  <2> QED BY <2>2, <2>3, <2>4 DEF IInv
<1> QED BY <1>3, <1>5, <1>6

(* The lines are extracted, or some are lost. *)
LEMMA ExtractSound == ASSUME IInv, Extract PROVE IInv'
<1>1. /\ Types /\ Aimed /\ Counted /\ Backed /\ Covered /\ probe \in ProbeState
      /\ probe.pc = "extract" /\ UNCHANGED <<gateway, keys, alerts, crashes>>
  BY DEF IInv, Types, Extract
<1>2. PICK part \in SUBSET probe.todo :
        probe' = [probe EXCEPT !.pc = "lanes", !.todo = part,
                               !.failed = @ \/ part # probe.todo]
  BY DEF Extract
<1>3. /\ probe' \in ProbeState /\ probe'.pc = "lanes" /\ probe'.todo = part
      /\ probe'.wedged = probe.wedged /\ probe'.turned = probe.turned
      /\ probe.failed \/ part # probe.todo => probe'.failed
  <2>1. (probe.failed \/ part # probe.todo) \in BOOLEAN /\ part \in SUBSET Lines
    BY <1>1 DEF ProbeState
  <2> QED BY <1>1, <1>2, <2>1 DEF ProbeState
<1>4. \A j \in Keys : ~Pending(j) /\ ~Pending(j)'
  BY <1>1, <1>3 DEF Pending
<1>5. Types' /\ Aimed' /\ Covered'
  BY <1>1, <1>3 DEF Types, Aimed, Covered, gateway
<1>6. Counted' /\ Backed'
  BY <1>1, <1>4 DEF Counted, Backed
<1> QED BY <1>5, <1>6 DEF IInv

(* The note of a key k in the state file, which ends its being pending.    *)
LEMMA NoteStep ==
  ASSUME IInv, NEW k \in Keys, NEW at \in {"extract", "lanes"}, probe.pc # "off",
         Note(k), Goto(at), UNCHANGED <<gateway, alerts, crashes>>,
         \A j \in Keys : Pending(j) <=> j = k /\ probe.bucket = "current"
  PROVE  IInv'
<1>1. /\ Types /\ Aimed /\ Counted /\ Backed /\ Covered /\ probe \in ProbeState
      /\ keys \in SUBSET Keys
  BY DEF IInv, Types
<1>2. /\ probe' \in ProbeState /\ probe'.pc = at /\ probe'.todo = probe.todo
      /\ probe'.wedged = probe.wedged /\ probe'.turned = probe.turned
      /\ probe'.failed = probe.failed
  BY <1>1 DEF Goto, ProbeState
<1>3. \A j \in Keys : /\ ~Pending(j)'
                      /\ j \in keys' <=> j \in keys \/ Pending(j)
  BY <1>2 DEF Note, Pending
<1>4. keys' \in SUBSET Keys
  BY <1>1 DEF Note
<1>5. Types' /\ Aimed' /\ Covered'
  BY <1>1, <1>2, <1>4 DEF Types, Aimed, Covered, gateway
<1>6. Counted' /\ Backed'
  BY <1>1, <1>3 DEF Counted, Backed
<1> QED BY <1>5, <1>6 DEF IInv

LEMMA NoteIngressSound == ASSUME IInv, NoteIngress PROVE IInv'
<1>1. Ingress \in Keys
  BY DEF Keys
<1>2. \A j \in Keys : Pending(j) <=> j = Ingress /\ probe.bucket = "current"
  BY DEF NoteIngress, Pending
<1> QED BY <1>1, <1>2, NoteStep DEF NoteIngress

LEMMA NoteLaneSound == ASSUME IInv, NoteLane PROVE IInv'
<1>1. probe.target \in Keys
  BY DEF IInv, Types, ProbeState, Keys
<1>2. \A j \in Keys : Pending(j) <=> j = probe.target /\ probe.bucket = "current"
  BY DEF NoteLane, Pending
<1> QED BY <1>1, <1>2, NoteStep DEF NoteLane

(* One line of the loop. *)
LEMMA CheckLaneSound == ASSUME IInv, CheckLane PROVE IInv'
<1>1. /\ Types /\ Aimed /\ Counted /\ Backed /\ Covered /\ probe \in ProbeState
      /\ probe.pc = "lanes" /\ UNCHANGED <<gateway, keys, crashes>>
      /\ alerts \in [Keys -> Nat] /\ \A j \in Keys : ~Pending(j)
  BY DEF IInv, Types, CheckLane, Pending
<1>2. PICK line \in probe.todo :
        IF Wedged(line[2]) /\ ~Debounced(line[1])
          THEN /\ Alert(line[1])
               /\ probe' = [probe EXCEPT !.todo = @ \ {line}, !.pc = "kill",
                                         !.target = line[1], !.bucket = "current"]
          ELSE /\ probe' = [probe EXCEPT !.todo = @ \ {line}]
               /\ UNCHANGED alerts
  BY DEF CheckLane
<1>3. line[1] \in Lanes /\ line[1] \in Keys
  BY <1>1 DEF ProbeState, Lines, Keys
<1>4. probe.wedged \subseteq Keys
  BY <1>1 DEF ProbeState, Keys
<1>5. CASE Wedged(line[2]) /\ ~Debounced(line[1])
  <2>1. /\ probe' \in ProbeState /\ probe'.pc = "kill" /\ probe'.todo = probe.todo \ {line}
        /\ probe'.target = line[1] /\ probe'.bucket = "current"
        /\ probe'.wedged = probe.wedged /\ probe'.turned = probe.turned
        /\ probe'.failed = probe.failed
    <3>1. probe' = [probe EXCEPT !.todo = @ \ {line}, !.pc = "kill", !.target = line[1],
                                 !.bucket = "current"]
      BY <1>2, <1>5
    <3> HIDE DEF Debounced
    <3> QED BY <1>1, <1>3, <3>1 DEF ProbeState
  <2>2. Alert(line[1]) /\ line[1] \notin keys
    BY <1>2, <1>5 DEF Debounced
  <2>3. \A j \in Keys : Pending(j)' <=> j = line[1]
    BY <2>1 DEF Pending
  <2>4. Aimed'
    BY <1>1, <1>5, <2>1 DEF Aimed
  <2>5. /\ Types' /\ Counted' /\ Backed' /\ alerts'[line[1]] >= 1
        /\ \A j \in Keys : alerts'[j] >= alerts[j]
    BY <1>1, <1>3, <2>1, <2>2, <2>3, <2>4, AlertStep
  <2>6. alerts' \in [Keys -> Nat]
    BY <2>5 DEF Types
  <2>7. Covered'
    BY <1>1, <1>4, <2>1, <2>5, <2>6 DEF Covered
  <2> QED BY <2>4, <2>5, <2>7 DEF IInv
<1>6. CASE ~(Wedged(line[2]) /\ ~Debounced(line[1]))
  <2>1. /\ probe' \in ProbeState /\ probe'.pc = "lanes" /\ probe'.todo = probe.todo \ {line}
        /\ probe'.wedged = probe.wedged /\ probe'.turned = probe.turned
        /\ probe'.failed = probe.failed /\ UNCHANGED alerts
    BY <1>1, <1>2, <1>6 DEF ProbeState
  <2>2. \A j \in Keys : ~Pending(j)'
    BY <2>1 DEF Pending
  <2>3. Types' /\ Aimed'
    BY <1>1, <2>1 DEF Types, Aimed, gateway
  <2>4. Counted' /\ Backed'
    BY <1>1, <2>1, <2>2 DEF Counted, Backed
  <2>5. Wedged(line[2]) => alerts[line[1]] >= 1
    BY <1>1, <1>3, <1>6 DEF Debounced, Backed
  <2>6. Covered'
    BY <1>1, <2>1, <2>5 DEF Covered
  <2> QED BY <2>3, <2>4, <2>6 DEF IInv
<1> QED BY <1>5, <1>6

(* The kill, the restart, and neither: what is pending stays pending.      *)
LEMMA KillSound ==
  ASSUME IInv, KillLane \/ RestartGateway \/ RestartFails PROVE IInv'
<1>1. /\ Types /\ Aimed /\ Counted /\ Backed /\ Covered /\ probe \in ProbeState
      /\ probe.pc = "kill" /\ UNCHANGED <<journal, received, keys, alerts, crashes>>
  BY DEF IInv, Types, KillLane, RestartGateway, RestartFails, gateway
<1>2. lane' \in [Lanes -> Reports \cup {Idle}]
  BY <1>1 DEF Types, KillLane, RestartGateway, RestartFails, gateway
<1>3. /\ probe' \in ProbeState /\ probe'.pc = "note" /\ probe'.todo = probe.todo
      /\ probe'.target = probe.target /\ probe'.bucket = probe.bucket
      /\ probe'.wedged = probe.wedged /\ probe'.turned = probe.turned
      /\ probe'.failed = probe.failed
  <2>1. probe' = [probe EXCEPT !.pc = "note"]
    BY DEF KillLane, RestartGateway, RestartFails, Goto
  <2> QED BY <1>1, <2>1 DEF ProbeState
<1>4. \A j \in Keys : Pending(j)' <=> Pending(j)
  BY <1>1, <1>3 DEF Pending
<1>5. Types' /\ Aimed' /\ Covered'
  BY <1>1, <1>2, <1>3 DEF Types, Aimed, Covered
<1>6. Counted' /\ Backed'
  BY <1>1, <1>4 DEF Counted, Backed
<1> QED BY <1>5, <1>6 DEF IInv

(* A probe ends, or dies and leaves what is pending to no one.             *)
LEMMA EndSound == ASSUME IInv, End \/ Die PROVE IInv'
<1>1. /\ Types /\ Counted /\ Backed /\ probe' = Off /\ UNCHANGED <<gateway, keys, alerts>>
      /\ alerts \in [Keys -> Nat] /\ crashes \in Nat /\ MaxCrashes \in Nat
  BY ProbeAssumption DEF IInv, Types, End, Die
<1>2. \A j \in Keys : ~Pending(j)'
  BY <1>1, OffType DEF Pending
<1>3. CASE End
  <2>1. crashes' = crashes /\ \A j \in Keys : ~Pending(j)
    BY <1>3 DEF End, Pending
  <2> QED BY <1>1, <1>2, <2>1, OffType DEF IInv, Types, Aimed, Counted, Backed, Covered, gateway
<1>4. CASE Die
  <2>1. crashes' = crashes + 1 /\ crashes < MaxCrashes
    BY <1>4 DEF Die
  <2> QED BY <1>1, <1>2, <2>1, OffType DEF IInv, Types, Aimed, Counted, Backed, Covered, gateway
<1> QED BY <1>3, <1>4

(* A new hour: nothing is pending, and what was covered need not be.       *)
LEMMA NewHourSound == ASSUME IInv, NewHour PROVE IInv'
<1>1. /\ Types /\ Aimed /\ Covered /\ probe \in ProbeState /\ UNCHANGED <<gateway, crashes>>
      /\ keys' = {} /\ alerts' = [k \in Keys |-> 0] /\ crashes \in Nat
  BY ProbeAssumption DEF IInv, Types, NewHour
<1>2. CASE probe.pc = "off"
  <2>1. probe' = probe /\ \A j \in Keys : ~Pending(j)'
    BY <1>2 DEF NewHour, Turn, Pending
  <2>2. Covered'
    BY <1>1, <1>2, <2>1 DEF Covered
  <2> QED BY <1>1, <2>1, <2>2 DEF IInv, Types, Aimed, Counted, Backed, gateway
<1>3. CASE probe.pc # "off"
  <2>1. /\ probe' \in ProbeState /\ probe'.turned = TRUE /\ probe'.bucket = "past"
        /\ probe'.pc = probe.pc /\ probe'.todo = probe.todo
        /\ probe'.target = probe.target /\ probe'.wedged = probe.wedged
    BY <1>1, <1>3 DEF NewHour, Turn, ProbeState
  <2>2. \A j \in Keys : ~Pending(j)'
    BY <2>1 DEF Pending
  <2>3. Covered'
    BY <2>1 DEF Covered
  <2> QED BY <1>1, <2>1, <2>2, <2>3 DEF IInv, Types, Aimed, Counted, Backed, gateway
<1> QED BY <1>2, <1>3
-----------------------------------------------------------------------------
LEMMA NextSound == IInv /\ [Next]_vars => IInv'
<1> SUFFICES ASSUME IInv, [Next]_vars PROVE IInv'
  OBVIOUS
<1>1. CASE UNCHANGED vars
  BY <1>1 DEF vars, IInv, Types, Aimed, Counted, Backed, Covered, Pending
<1>2. CASE ProbeStep
  BY <1>2, ReadSound, CheckIngressSound, NoteIngressSound, ExtractSound, CheckLaneSound,
     NoteLaneSound, EndSound, KillSound DEF ProbeStep
<1>3. CASE Die
  BY <1>3, EndSound
<1>4. CASE NewHour
  BY <1>4, NewHourSound
<1>5. CASE \/ \E l \in Lanes : Work(l) \/ Diagnose(l)
           \/ \E line \in Lines : Expire(line)
           \/ Receive \/ Silence
  BY <1>5, GatewaySound
<1> QED BY <1>1, <1>2, <1>3, <1>4, <1>5 DEF Next

LEMMA Invariance == Spec => []IInv
  BY InitSound, NextSound, PTL DEF Spec
-----------------------------------------------------------------------------
(* Types, and a probe acts on lanes it found wedged only. *)
THEOREM Typed == Spec => []TypeOK
<1>1. IInv => TypeOK
  <2> SUFFICES ASSUME IInv PROVE TypeOK
    OBVIOUS
  <2>1. alerts \in [Keys -> Nat] /\ crashes \in 0..MaxCrashes /\ MaxCrashes \in Nat
    BY ProbeAssumption DEF IInv, Types
  <2>2. \A k \in Keys : alerts[k] \in 0..(MaxCrashes + 1)
    BY <2>1 DEF IInv, Counted
  <2> QED BY <2>1, <2>2 DEF IInv, Types, Aimed, TypeOK
<1> QED BY <1>1, Invariance, PTL

(* One alert per lane and hour, and one more for each probe that died.     *)
THEOREM Debounce == Spec => []AlertsDebounced
<1>1. IInv => AlertsDebounced
  BY ProbeAssumption DEF IInv, Types, Counted, AlertsDebounced
<1> QED BY <1>1, Invariance, PTL

(* No key silences a lane of which no alert was raised in the hour. *)
THEOREM KeysAreEarned == Spec => []KeysWereAlerted
<1>1. IInv => KeysWereAlerted
  BY DEF IInv, Types, Backed, KeysWereAlerted
<1> QED BY <1>1, Invariance, PTL

(* A probe that ends by itself has seen to every wedge of the last five    *)
(* minutes, where no helper failed and no hour ended.                      *)
THEOREM WedgesAreSeen == Spec => NoWedgeMissed
<1>1. IInv /\ [Next]_vars =>
        [End => \/ probe.turned \/ probe.failed
                \/ \A l \in probe.wedged : alerts[l] >= 1]_vars
  BY DEF IInv, Covered, End
<1> QED BY <1>1, Invariance, PTL DEF Spec, NoWedgeMissed
=============================================================================
