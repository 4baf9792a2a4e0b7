-------------------------------- MODULE DataDate --------------------------------
(***************************************************************************)
(* Which day's transactions a weekday file holds.                          *)
(*                                                                         *)
(* FCC names its daily files by weekday only and overwrites them in place. *)
(* downloader.resolve_daily_data_date tells a file's date from its         *)
(* publication date; scheduler.run_daily_job keeps the dates inside        *)
(* DAILY_WINDOW_DAYS and records the content under them, though the        *)
(* content is downloaded some time after the metadata was read;            *)
(* outstanding_dates goes the other way, from the dates still missing to   *)
(* the weekday files worth a HEAD.                                         *)
(*                                                                         *)
(* Dates are day numbers; a weekday is a day number modulo 7.  Versions of *)
(* one day's file are module DailyIngest's subject.                        *)
(***************************************************************************)
EXTENDS Integers, FiniteSets

CONSTANTS
  Weekdays,    \* the weekday files considered
  FirstDay,    \* today, at first
  LastDay,     \* bound: the calendar stops here
  MaxLate,     \* days after day D on which D's file may still be put up or replaced
  WindowDays,  \* DAILY_WINDOW_DAYS
  None

ASSUME DataDateAssumption ==
  /\ Weekdays \subseteq 0..6
  /\ FirstDay \in Nat /\ FirstDay >= 14
  /\ LastDay \in Nat
  /\ MaxLate \in Nat \ {0}
  /\ WindowDays \in 1..7
  /\ None \notin Nat

VARIABLES
  today,
  served,   \* served[w]: the day whose transactions weekday w's file holds
  modified, \* modified[w]: the day it was published (Last-Modified)
  runDate,  \* run_date of the running pass, or None
  todo,     \* the pass's pending files: records [dow, date]
  rows      \* the (date recorded, day the content is of) of each load

vars == <<today, served, modified, runDate, todo, rows>>

Weekday(d) == d % 7

\* The first date with the file's weekday, walking back from the publication date.
Resolve(dow, published) == published - ((published - dow) % 7)

\* The latest day before d with weekday w.
Last(w, d) == (d - 1) - ((d - 1 - w) % 7)

Init ==
  /\ today = FirstDay
  /\ served = [w \in Weekdays |-> Last(w, FirstDay)]
  /\ modified = [w \in Weekdays |-> served[w] + 1]
  /\ runDate = None /\ todo = {} /\ rows = {}

--------------------------------------------------------------------------------
\* A pass is over before the day after it began: over midnight UTC, a date seven
\* days back could be loaded from the file that has just taken its place.
Tick ==
  /\ today < LastDay /\ runDate = None
  /\ today' = today + 1
  /\ UNCHANGED <<served, modified, runDate, todo, rows>>

\* FCC publishes the file of day d, or publishes it again, some days after d.
Publish(w, d) ==
  /\ Weekday(d) = w /\ d >= served[w]
  /\ d < today /\ today <= d + MaxLate
  /\ served' = [served EXCEPT ![w] = d]
  /\ modified' = [modified EXCEPT ![w] = today]
  /\ UNCHANGED <<today, runDate, todo, rows>>

Dates == {r.date : r \in rows}

\* (Mutant: the oldest date of the window is forgotten.)
OutstandingShort(d) == {Weekday(d - k) : k \in {k \in 1..(WindowDays - 1) : d - k \notin Dates}}

\* outstanding_dates
Outstanding(d) == {Weekday(d - k) : k \in {k \in 1..WindowDays : d - k \notin Dates}}

\* (Mutant: a week and a day, to be safe.)
PendingWider(only) ==
  {[dow |-> w, date |-> Resolve(w, modified[w])] :
     w \in {w \in only \cap Weekdays : Resolve(w, modified[w]) >= today - 8}}

\* discover_available_days, which HEADs the files asked for, and the window filter.
Pending(only) ==
  {[dow |-> w, date |-> Resolve(w, modified[w])] :
     w \in {w \in only \cap Weekdays : Resolve(w, modified[w]) >= today - WindowDays}}

\* A sweep takes every date: those recorded before may have been republished.
Begin(only) ==
  /\ runDate = None /\ Pending(only) # {}
  /\ runDate' = today
  /\ todo' = Pending(only)
  /\ UNCHANGED <<today, served, modified, rows>>
Sweep    == Begin(0..6)
Targeted == Begin(Outstanding(today))

\* (Mutant: the pass is taken for finished after its first file.)
LoadDayOnce ==
  /\ \E f \in todo :
       /\ \A g \in todo : f.date <= g.date
       /\ rows' = rows \cup {[date |-> f.date, of |-> served[f.dow]]}
       /\ todo' = todo \ {f}
       /\ runDate' = None
  /\ UNCHANGED <<today, served, modified>>

\* _ingest_one_day, the oldest pending file: download_daily, the upserts with
\* effective_date=data_date and record_ingest_run.
LoadDay ==
  /\ \E f \in todo :
       /\ \A g \in todo : f.date <= g.date
       /\ rows' = rows \cup {[date |-> f.date, of |-> served[f.dow]]}
       /\ todo' = todo \ {f}
       /\ runDate' = IF todo = {f} THEN None ELSE runDate
  /\ UNCHANGED <<today, served, modified>>

\* A download or a statement fails, or the process dies.
Abort ==
  /\ runDate # None
  /\ runDate' = None /\ todo' = {}
  /\ UNCHANGED <<today, served, modified, rows>>

Next ==
  \/ Tick
  \/ \E w \in Weekdays, d \in FirstDay - 7..LastDay : Publish(w, d)
  \/ Sweep \/ Targeted \/ LoadDay \/ Abort

Spec == Init /\ [][Next]_vars

--------------------------------------------------------------------------------
(* Properties.                                                             *)

\* The calendar, FCC's files and the pass keep their shape; a pass runs exactly as
\* long as it has files left.
TypeOK ==
  /\ today \in Nat
  /\ served \in [Weekdays -> Nat] /\ modified \in [Weekdays -> Nat]
  /\ runDate \in Nat \cup {None}
  /\ todo \in SUBSET [dow : Weekdays, date : Int]
  /\ runDate = None <=> todo = {}
  /\ rows \in SUBSET [date : Int, of : Nat]

\* "Correctly dated" (architecture.md), "a catch-up of older days can never
\* masquerade as today's activity" (scheduler.py): the rows and change events
\* recorded under a date are that day's, though files rotate under the pass between
\* the metadata and the download, and are published late or again.
RightlyDated == \A r \in rows : r.date = r.of

\* A file in the window whose day is not recorded is among the weekdays the targeted
\* poll asks for: the walk back and the walk over missing dates agree.
TargetedFindsAll ==
  \A w \in Weekdays :
    served[w] >= today - WindowDays /\ served[w] \notin Dates => w \in Outstanding(today)
================================================================================
