------------------------------ MODULE MCDataDate ------------------------------
(* Two weekday files over more than two weeks, so that both rotate twice.  *)
EXTENDS DataDate
===============================================================================
