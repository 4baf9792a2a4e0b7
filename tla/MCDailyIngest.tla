---------------------------- MODULE MCDailyIngest ----------------------------
(***************************************************************************)
(* Small instances of DailyIngest.  Day 1 and day 2 both carry key k1, so  *)
(* the order of loading shows; day 1's file writes k1 twice, so one file   *)
(* makes a chain of events; version 2 is the fuller republication.         *)
(***************************************************************************)
EXTENDS DailyIngest

CONSTANTS poll, op, k1, k2, a, b, c, l1, l2, l3

MCEnRows ==
  [d \in Days |-> [v \in Version |->
     CASE d = 1 -> <<[key |-> k1, val |-> a], [key |-> k1, val |-> b]>>
       [] OTHER -> IF v = 1 THEN <<[key |-> k1, val |-> c]>>
                            ELSE <<[key |-> k1, val |-> c], [key |-> k2, val |-> a]>>]]

MCHsRows ==
  [d \in Days |-> [v \in Version |->
     CASE d = 1 -> <<l1>>
       [] OTHER -> IF v = 1 THEN <<l2>> ELSE <<l2, l3>>]]

\* Archives that parse to a row count other than their `counts` member says:
\* one that a republication puts right, and a file that never agrees.
MCSometimesMismatched == {<<2, 1>>}
MCAlwaysMismatched == {<<1, v>> : v \in Version}
=============================================================================
