--------------------------- MODULE LaneProbeProps ---------------------------
(***************************************************************************)
(* What the lane watchdog is expected to satisfy.                          *)
(***************************************************************************)
EXTENDS LaneProbe

(* Types; a probe acts on lanes it found wedged only.                      *)
TypeOK ==
  /\ lane \in [Lanes -> Reports \cup {Idle}]
  /\ journal \in SUBSET Lines
  /\ received \in ReceiveAges
  /\ keys \in SUBSET Keys
  /\ probe \in ProbeState
  /\ probe.pc \in {"kill", "note"} => probe.target \in probe.wedged
  /\ alerts \in [Keys -> 0..(MaxCrashes + 1)]
  /\ crashes \in 0..MaxCrashes

(* "Debounce: only kill/alert once per (sessionKey, hour)": within an hour *)
(* there are at most as many further alerts as probes died, although each  *)
(* probe reads the same lines again.                                       *)
AlertsDebounced == \A k \in Keys : alerts[k] <= 1 + crashes

(* A key in the state file stands for an alert that was raised in its hour *)
(* (logged; whether it reached the operator is another matter): a probe    *)
(* that dies half way never silences a lane for the rest of the hour.      *)
KeysWereAlerted == \A k \in keys : alerts[k] >= 1

(* When a probe ends by itself, an alert was raised within the hour for    *)
(* every lane wedged in the last five minutes of the log; unless a helper  *)
(* failed and hid lines from it, or the hour has just ended under it.      *)
NoWedgeMissed ==
  [][End => \/ probe.turned \/ probe.failed
            \/ \A l \in probe.wedged : alerts[l] >= 1]_vars

(* A lane that is wedged does not stay so: what one probe could not kill,  *)
(* or killed before in the same hour, a probe of a later hour kills.       *)
IsWedged(l) == lane[l] # Idle /\ Wedged(lane[l])
WedgesEnd == \A l \in Lanes : IsWedged(l) ~> ~IsWedged(l)

(* "fails when the gateway is up but no successful Discord receive/drain   *)
(* happened within INGRESS_FRESHNESS_SECONDS (default 900 = 15 min)"       *)
(* (lane-health-probe.sh:23), and nothing of the log was lost.             *)
StaleMeansSilent ==
  [][alerts'[Ingress] > alerts[Ingress] => received = "silent" \/ probe'.failed]_vars

(* The lines of the model-checked instances: a wedged lane, and one that   *)
(* is left to its operator.                                                *)
MCWedged == [kind |-> "model_call", aged |-> TRUE, stalled |-> TRUE, recovery |-> "none"]
MCReports == {MCWedged}
MCReportsManual == {MCWedged, [MCWedged EXCEPT !.recovery = "manual"]}
=============================================================================
