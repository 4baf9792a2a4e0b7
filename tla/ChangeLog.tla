------------------------------- MODULE ChangeLog -------------------------------
(***************************************************************************)
(* What change_events promises its readers (the history API, the New Hams  *)
(* feed, the notifier): per subject, an append-only record of how the      *)
(* stored row came to hold the value it holds.  Nothing is said of files,  *)
(* transactions or sessions; DailyIngest implements this specification.    *)
(***************************************************************************)
EXTENDS Integers, Sequences

CONSTANTS
  Subjects,  \* what change_events rows are about
  None       \* no row stored yet

VARIABLES
  stored,    \* stored[x]: the value of x's row, or None
  history    \* history[x]: x's change events, records with fields old and new

\* h is a gap-free history of a row that now holds v: it starts from nothing,
\* each event starts where the one before ended, and no event is a non-change.
IsHistory(h, v) ==
  /\ h = <<>> => v = None
  /\ h # <<>> => h[1].old = None /\ h[Len(h)].new = v
  /\ \A i \in 1..Len(h) : h[i].old # h[i].new
  /\ \A i \in 1..(Len(h) - 1) : h[i].new = h[i + 1].old

Extends(h, g) == Len(g) <= Len(h) /\ \A i \in 1..Len(g) : h[i] = g[i]

Init ==
  /\ stored  = [x \in Subjects |-> None]
  /\ history = [x \in Subjects |-> <<>>]

\* Rows change, and the log grows by exactly the events that tell how.
Change ==
  \A x \in Subjects :
    /\ Extends(history'[x], history[x])
    /\ IsHistory(history'[x], stored'[x])

Spec == Init /\ [][Change]_<<stored, history>>
================================================================================
