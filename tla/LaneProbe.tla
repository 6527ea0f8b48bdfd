----------------------------- MODULE LaneProbe -----------------------------
(***************************************************************************)
(* The lane watchdog, scripts/lane-health-probe.sh: a oneshot that a       *)
(* systemd timer starts over and over beside the gateway.  It reads the    *)
(* last five minutes of the gateway's log, reports a silent Discord        *)
(* ingress, and alerts about and kills each lane whose model call is       *)
(* wedged, at most once per lane and clock hour (the state file).          *)
(*                                                                         *)
(* What reads the log may fail unnoticed ("|| true"), so that it reaches   *)
(* the probe in part.  An alert is a line in the probe's log: that its     *)
(* notification may fail, or have no channel, changes nothing of what the  *)
(* probe does next, so a sent one is not told from one that was not.       *)
(*                                                                         *)
(* Abstractions: a log line carries what its lane was doing when it was    *)
(* written, numbers as the side of their threshold; the freshness check is *)
(* on; the exit code, which the timer ignores, is left out.  A dedup key   *)
(* names its hour and never matches in a later one, so only the keys of    *)
(* the current hour are kept (the deletion of a state file not written for *)
(* days removes none of them).                                             *)
(***************************************************************************)
EXTENDS Naturals, FiniteSets

CONSTANTS
  Lanes,       \* session keys
  Reports,     \* what the diagnostics of a busy lane may say
  Ingress,     \* the dedup key prefix of the ingress alert
  MaxCrashes   \* bound on how many probes die half way

\* A "long-running session" line: aged is at least budget plus grace old,
\* stalled is at least the grace without progress.
Facts == [kind : {"model_call", "tool_call"}, aged : BOOLEAN, stalled : BOOLEAN,
          recovery : {"none", "manual"}]

ASSUME ProbeAssumption ==
  /\ Reports \subseteq Facts
  /\ Lanes # {} /\ Ingress \notin Lanes
  /\ MaxCrashes \in Nat

VARIABLES
  lane,        \* what each lane of the gateway is doing, Idle or a report
  journal,     \* <<lane, report>>: the diagnostics of the last 5 minutes
  received,    \* the age of the last Discord receive
  keys,        \* STATE_FILE: the dedup keys of the current hour
  probe,       \* the running probe: see ProbeState
  alerts,      \* history: ALERT lines logged in the current hour, by key
  crashes      \* how many probes died

vars == <<lane, journal, received, keys, probe, alerts, crashes>>
gateway == <<lane, journal, received>>

Idle == [kind |-> "idle"]
Lines == Lanes \X Reports

(* read: within the 5 minutes the probe reads; recent: within the          *)
(* INGRESS_FRESHNESS_SECONDS (15 minutes); silent: neither.                *)
ReceiveAges == {"read", "recent", "silent"}
Keys == Lanes \cup {Ingress}

ProbeState ==
  [pc     : {"off", "ingress", "ingress_note", "extract", "lanes", "kill", "note"},
   todo   : SUBSET Lines,               \* logs, then the lines of wedged_json
   heard  : BOOLEAN,                    \* a receive is among the lines
   target : Lanes,                      \* sk
   bucket : {"current", "past"},        \* is hour_bucket still the hour?
   wedged : SUBSET Lanes,               \* history: wedged in the last 5 minutes
   failed : BOOLEAN,                    \* history: a helper failed, lines are lost
   turned : BOOLEAN]                    \* history: an hour ended during the probe

Off == [pc |-> "off", todo |-> {}, heard |-> FALSE, target |-> CHOOSE l \in Lanes : TRUE,
        bucket |-> "current", wedged |-> {}, failed |-> FALSE, turned |-> FALSE]
-----------------------------------------------------------------------------
(* What makes a lane wedged for the probe: the guards of its loop.         *)
Wedged(f) == f.kind = "model_call" /\ f.stalled /\ f.aged /\ f.recovery = "none"

Init ==
  /\ lane = [l \in Lanes |-> Idle]
  /\ journal = {}
  /\ received \in ReceiveAges
  /\ keys = {} /\ alerts = [k \in Keys |-> 0]
  /\ probe = Off
  /\ crashes = 0

Goto(at) == probe' = [probe EXCEPT !.pc = at]

(* read_recent_logs; where journalctl fails, what it had printed by then.  *)
(* A probe that reads no line at all exits 0 at once: nothing happens.     *)
Read ==
  /\ probe.pc = "off"
  /\ \E logs \in SUBSET journal, heard \in {received = "read", FALSE} :
       probe' = [Off EXCEPT !.pc = "ingress", !.todo = logs, !.heard = heard,
                   !.wedged = {x[1] : x \in {y \in journal : Wedged(y[2])}},
                   !.failed = (logs # journal \/ heard # (received = "read"))]
  /\ UNCHANGED <<gateway, keys, alerts, crashes>>

(* alert: the line in the log, whatever becomes of its notification.       *)
Alert(k) == alerts' = [alerts EXCEPT ![k] = @ + 1]

(* The ingress verdict.  lib-last-ingress.py sees only the lines read, and *)
(* a receive among them is younger than the freshness window; where it     *)
(* fails, it has found none.                                               *)
IngressOk(found) == found

CheckIngress ==
  /\ probe.pc = "ingress"
  /\ \E found \in {probe.heard, FALSE} :
       LET heard == [probe EXCEPT !.heard = FALSE, !.failed = @ \/ found # probe.heard]
       IN  \/ /\ IngressOk(found) \/ Ingress \in keys
              /\ probe' = [heard EXCEPT !.pc = "extract"]
              /\ UNCHANGED alerts
           \/ /\ ~IngressOk(found) /\ Ingress \notin keys
              /\ Alert(Ingress)
              /\ probe' = [heard EXCEPT !.pc = "ingress_note", !.bucket = "current"]
  /\ UNCHANGED <<gateway, keys, crashes>>

(* The dedup key is written after the alert (and, for a lane, the kill).   *)
NoteNothing(k) == keys' = keys
NoteAnyHour(k) == keys' = keys \cup {k}
Note(k) == keys' = IF probe.bucket = "current" THEN keys \cup {k} ELSE keys

NoteIngress ==
  /\ probe.pc = "ingress_note"
  /\ Note(Ingress)
  /\ Goto("extract")
  /\ UNCHANGED <<gateway, alerts, crashes>>

(* extract_wedged_lanes, or, where it fails, what it had printed by then.  *)
Extract ==
  /\ probe.pc = "extract"
  /\ \E part \in SUBSET probe.todo :
       probe' = [probe EXCEPT !.pc = "lanes", !.todo = part,
                              !.failed = @ \/ part # probe.todo]
  /\ UNCHANGED <<gateway, keys, alerts, crashes>>

(* One turn of the loop over the lines up to the kill: the lines that are  *)
(* skipped, the debounce, the alert.                                       *)
DebouncedNever(l) == FALSE
DebouncedByAnyLane(l) == keys \cap Lanes # {}
Debounced(l) == l \in keys

CheckLane ==
  /\ probe.pc = "lanes"
  /\ \E line \in probe.todo :
       IF Wedged(line[2]) /\ ~Debounced(line[1])
         THEN /\ Alert(line[1])
              /\ probe' = [probe EXCEPT !.todo = @ \ {line}, !.pc = "kill",
                                        !.target = line[1], !.bucket = "current"]
         ELSE /\ probe' = [probe EXCEPT !.todo = @ \ {line}]
              /\ UNCHANGED alerts
  /\ UNCHANGED <<gateway, keys, crashes>>

(* kill_lane: the lane is killed whatever it does by now; where that does  *)
(* not work the gateway is restarted, which may fail in turn.              *)
KillLane ==
  /\ probe.pc = "kill"
  /\ lane' = [lane EXCEPT ![probe.target] = Idle]
  /\ Goto("note")
  /\ UNCHANGED <<journal, received, keys, alerts, crashes>>

RestartGateway ==
  /\ probe.pc = "kill"
  /\ lane' = [l \in Lanes |-> Idle]
  /\ Goto("note")
  /\ UNCHANGED <<journal, received, keys, alerts, crashes>>

RestartFails ==
  /\ probe.pc = "kill"
  /\ Goto("note")
  /\ UNCHANGED <<gateway, keys, alerts, crashes>>

NoteLane ==
  /\ probe.pc = "note"
  /\ Note(probe.target)
  /\ Goto("lanes")
  /\ UNCHANGED <<gateway, alerts, crashes>>

End ==
  /\ probe.pc = "lanes" /\ probe.todo = {}
  /\ probe' = Off
  /\ UNCHANGED <<gateway, keys, alerts, crashes>>

(* The unit is stopped, or a helper fails under "set -e". *)
Die ==
  /\ probe.pc # "off" /\ crashes < MaxCrashes
  /\ probe' = Off
  /\ crashes' = crashes + 1
  /\ UNCHANGED <<gateway, keys, alerts>>
-----------------------------------------------------------------------------
(* The gateway and the clock.                                              *)
Work(l) ==
  /\ \E f \in Reports \cup {Idle} : lane' = [lane EXCEPT ![l] = f]
  /\ UNCHANGED <<journal, received, keys, probe, alerts, crashes>>

Diagnose(l) ==
  /\ lane[l] # Idle
  /\ journal' = journal \cup {<<l, lane[l]>>}
  /\ UNCHANGED <<lane, received, keys, probe, alerts, crashes>>

(* Lines leave the window; what lasts is logged again in time.             *)
Expire(line) ==
  /\ line \in journal /\ lane[line[1]] # line[2]
  /\ journal' = journal \ {line}
  /\ UNCHANGED <<lane, received, keys, probe, alerts, crashes>>

Receive ==
  /\ received' = "read"
  /\ UNCHANGED <<lane, journal, keys, probe, alerts, crashes>>

Silence ==
  /\ received' = IF received = "read" THEN "recent" ELSE "silent"
  /\ UNCHANGED <<lane, journal, keys, probe, alerts, crashes>>

(* The clock hour ends: a new bucket in every dedup key. *)
Turn == probe' = IF probe.pc = "off" THEN probe
                 ELSE [probe EXCEPT !.bucket = "past", !.turned = TRUE]
NewHour ==
  /\ keys' = {}
  /\ Turn
  /\ alerts' = [k \in Keys |-> 0]
  /\ UNCHANGED <<gateway, crashes>>
-----------------------------------------------------------------------------
ProbeStep ==
  \/ Read \/ CheckIngress \/ NoteIngress \/ Extract \/ CheckLane \/ NoteLane \/ End
  \/ KillLane \/ RestartGateway \/ RestartFails

Next ==
  \/ ProbeStep \/ Die
  \/ \E l \in Lanes : Work(l) \/ Diagnose(l)
  \/ \E line \in Lines : Expire(line)
  \/ Receive \/ Silence \/ NewHour

Spec == Init /\ [][Next]_vars

(* The timer and the running script go on, the gateway repeats its         *)
(* diagnostics, the clock runs, and neither the helpers nor the kill and   *)
(* the restart fail for ever.                                              *)
Works(A) == A /\ ~probe'.failed
Fairness ==
  /\ WF_vars(ProbeStep) /\ WF_vars(NewHour)
  /\ SF_vars(Works(Read)) /\ SF_vars(Works(CheckIngress)) /\ SF_vars(Works(Extract))
  /\ \A l \in Lanes : /\ WF_vars(Diagnose(l))
                      /\ SF_vars(probe.target = l /\ (KillLane \/ RestartGateway))

FairSpec == Spec /\ Fairness
=============================================================================
