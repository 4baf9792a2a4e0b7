------------------------------ MODULE MCNotifier ------------------------------
(***************************************************************************)
(* Small instances of Notifier: a grant and a later change of one licence, *)
(* the first with an FRN, the second from before the service column.       *)
(***************************************************************************)
EXTENDS Notifier

CONSTANTS d1, d2, k1, k2, w1, w2, e1, e2, c1, c2

MCEventRow ==
  [e \in Events |->
     IF e = e1 THEN [key |-> "KM4TYD", uls |-> "232195", frn |-> "0001", service |-> "amateur"]
               ELSE [key |-> "KM4TYD", uls |-> None, frn |-> None, service |-> None]]

\* Each channel belongs to a user of its own.
MCOwner == [c \in Channels |-> c]

\* A watch by callsign, on every service or scoped to one.
MCFirstForm == {[type |-> "callsign", value |-> "KM4TYD", service |-> None]}
MCScopedForm == {[type |-> "callsign", value |-> "KM4TYD", service |-> "amateur"]}
===============================================================================
