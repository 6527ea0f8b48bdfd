------------------------- MODULE MCUpstreamWatch ----------------------------
(* The model-checked instance: an issue with two blocker labels, which are *)
(* removed one by one before somebody comments, and the release, whose tag *)
(* is new or not.                                                          *)
EXTENDS UpstreamWatchProps

CONSTANTS issue, release, b1, b2
MCItems == <<issue, release>>
MCBlockers == [i \in {issue, release} |-> IF i = issue THEN {b1, b2} ELSE {}]
MCShown ==
  [i \in {issue, release} |->
     IF i = issue THEN {[main |-> {b1, b2}, more |-> FALSE], [main |-> {b1}, more |-> FALSE],
                        [main |-> {}, more |-> TRUE]}
     ELSE {[main |-> {}, more |-> TRUE], [main |-> {b1}, more |-> TRUE]}]
=============================================================================
