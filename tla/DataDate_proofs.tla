---------------------------- MODULE DataDate_proofs ----------------------------
(***************************************************************************)
(* Proofs about DataDate, for any weekdays, any calendar and any window up *)
(* to a week: a file is dated rightly if it is never published more than   *)
(* six days late (DatesRight), and then every load of a pass is recorded   *)
(* under the day it holds (RightlyDatedAlways).  The invariant it needs:   *)
(* while a pass runs, each of its files still holds the day it was found   *)
(* to hold, because a day that is within a week of today is rotated out no *)
(* sooner than tomorrow.                                                   *)
(***************************************************************************)
EXTENDS DataDate, TLAPS

\* A file published at most six days after the day it holds gets that day's date,
\* whatever the weekday (downloader.resolve_daily_data_date).
THEOREM DatesRight ==
  ASSUME NEW d \in Nat, NEW late \in 0..6
  PROVE  Resolve(Weekday(d), d + late) = d
BY SMT DEF Resolve, Weekday

\* The walk back ends at a date with the file's weekday, less than a week before.
LEMMA LastDated ==
  ASSUME NEW w \in 0..6, NEW d \in Nat, d >= 7
  PROVE  /\ Last(w, d) \in Nat
         /\ Last(w, d) < d /\ Last(w, d) >= d - 7
         /\ Weekday(Last(w, d)) = w
BY SMT DEF Last, Weekday

\* Two days with the same weekday, less than a week apart, are the same day.
LEMMA SameWeek ==
  ASSUME NEW a \in Nat, NEW b \in Nat, a <= b, b < a + 7, Weekday(a) = Weekday(b)
  PROVE  a = b
BY SMT DEF Weekday

\* Each file holds a day with its weekday and was published within MaxLate days of it.
FileDated(w) ==
  /\ Weekday(served[w]) = w
  /\ served[w] < modified[w] /\ modified[w] <= served[w] + MaxLate
  /\ modified[w] <= today

\* A pending file still holds the day the pass took it to hold.
StillHolds(f) == f.date = served[f.dow] /\ f.date >= today - 7

Inv ==
  /\ TypeOK
  /\ \A w \in Weekdays : FileDated(w)
  /\ \A f \in todo : StillHolds(f)
  /\ RightlyDated

USE DataDateAssumption

\* What Publish does to one file of a running pass: nothing that matters.
LEMMA PublishHolds ==
  ASSUME Inv, NEW w \in Weekdays, NEW d \in FirstDay - 7..LastDay, Publish(w, d),
         NEW f \in todo
  PROVE  StillHolds(f)'
<1>1. f.dow \in Weekdays /\ f.date \in Int BY DEF Inv, TypeOK
<1>2. StillHolds(f) /\ FileDated(f.dow) BY <1>1 DEF Inv
<1>3. served[f.dow] \in Nat /\ today \in Nat BY <1>1 DEF Inv, TypeOK
<1>4. d \in Nat /\ served' = [served EXCEPT ![w] = d] /\ today' = today
  BY DEF Publish
<1>5. CASE f.dow # w
  <2>1. served'[f.dow] = served[f.dow] BY <1>1, <1>4, <1>5 DEF Inv, TypeOK
  <2> QED BY <1>2, <1>4, <2>1 DEF StillHolds
<1>6. CASE f.dow = w
  <2>1. served[w] <= d /\ d < served[w] + 7 /\ Weekday(d) = Weekday(served[w])
    BY <1>2, <1>3, <1>4, <1>6 DEF Publish, StillHolds, FileDated
  <2>2. served[w] = d BY <2>1, <1>3, <1>4, <1>6, SameWeek
  <2>3. served'[f.dow] = d BY <1>4, <1>6 DEF Inv, TypeOK
  <2> QED BY <1>2, <1>4, <1>6, <2>2, <2>3 DEF StillHolds
<1> QED BY <1>5, <1>6

\* What the metadata says a file holds is what it holds.
LEMMA MetadataRight ==
  ASSUME MaxLate <= 6, Inv, NEW w \in Weekdays
  PROVE  Resolve(w, modified[w]) = served[w]
<1>1. /\ served[w] \in Nat /\ modified[w] \in Nat /\ FileDated(w) BY DEF Inv, TypeOK
<1>2. modified[w] - served[w] \in 0..6 BY <1>1 DEF FileDated
<1>3. Resolve(Weekday(served[w]), served[w] + (modified[w] - served[w])) = served[w]
  BY <1>1, <1>2, DatesRight
<1>4. served[w] + (modified[w] - served[w]) = modified[w] BY <1>1
<1> QED BY <1>1, <1>3, <1>4 DEF FileDated

\* What a pass finds pending.
LEMMA PendingHolds ==
  ASSUME MaxLate <= 6, Inv, NEW only
  PROVE  /\ Pending(only) \in SUBSET [dow : Weekdays, date : Int]
         /\ \A f \in Pending(only) : StillHolds(f)
<1> SUFFICES ASSUME NEW f \in Pending(only)
             PROVE  f \in [dow : Weekdays, date : Int] /\ StillHolds(f)
  OBVIOUS
<1>1. PICK w \in Weekdays :
        /\ Resolve(w, modified[w]) >= today - WindowDays
        /\ f = [dow |-> w, date |-> Resolve(w, modified[w])]
  BY DEF Pending
<1>2. served[w] \in Nat /\ today \in Nat BY DEF Inv, TypeOK
<1>3. Resolve(w, modified[w]) = served[w] BY MetadataRight
<1> QED BY <1>1, <1>2, <1>3 DEF StillHolds

\* The calendar starts with every file one day old at most a week ago.
LEMMA InitInv == Init => Inv
<1> SUFFICES ASSUME Init PROVE Inv OBVIOUS
<1>1. ASSUME NEW w \in Weekdays
      PROVE  served[w] \in Nat /\ modified[w] \in Nat /\ FileDated(w)
  <2>1. w \in 0..6 /\ FirstDay \in Nat /\ FirstDay >= 7 OBVIOUS
  <2>2. /\ Last(w, FirstDay) \in Nat /\ Last(w, FirstDay) < FirstDay
        /\ Weekday(Last(w, FirstDay)) = w
    BY <2>1, LastDated
  <2>3. served[w] = Last(w, FirstDay) /\ modified[w] = served[w] + 1 /\ today = FirstDay
    BY DEF Init
  <2> QED BY <2>1, <2>2, <2>3 DEF FileDated
<1>2. TypeOK BY <1>1 DEF Init, TypeOK
<1> QED BY <1>1, <1>2 DEF Init, Inv, RightlyDated

\* A day passes only between passes.
LEMMA TickInv == Inv /\ Tick => Inv'
<1> SUFFICES ASSUME Inv, Tick PROVE Inv' OBVIOUS
<1>1. /\ today' = today + 1 /\ todo = {} /\ today \in Nat
      /\ UNCHANGED <<served, modified, runDate, todo, rows>>
  BY DEF Tick, Inv, TypeOK
<1>2. TypeOK' BY <1>1 DEF Inv, TypeOK
<1>3. ASSUME NEW w \in Weekdays PROVE FileDated(w)'
  <2>1. FileDated(w) /\ modified[w] \in Nat BY DEF Inv, TypeOK
  <2> QED BY <1>1, <2>1 DEF FileDated
<1> QED BY <1>1, <1>2, <1>3 DEF Inv, RightlyDated

\* FCC publishes.
LEMMA PublishInv ==
  ASSUME Inv, NEW w \in Weekdays, NEW d \in FirstDay - 7..LastDay, Publish(w, d)
  PROVE  Inv'
<1>1. /\ d \in Nat /\ today \in Nat /\ Weekday(d) = w /\ d < today /\ today <= d + MaxLate
      /\ served' = [served EXCEPT ![w] = d] /\ modified' = [modified EXCEPT ![w] = today]
      /\ UNCHANGED <<today, runDate, todo, rows>>
  BY DEF Publish, Inv, TypeOK
<1>2. TypeOK' BY <1>1 DEF Inv, TypeOK
<1>3. ASSUME NEW v \in Weekdays PROVE FileDated(v)'
  <2>1. FileDated(v) BY DEF Inv
  <2>2. CASE v = w BY <1>1, <2>2 DEF FileDated, Inv, TypeOK
  <2>3. CASE v # w
    <3>1. served'[v] = served[v] /\ modified'[v] = modified[v] BY <1>1, <2>3 DEF Inv, TypeOK
    <3> QED BY <1>1, <2>1, <3>1 DEF FileDated
  <2> QED BY <2>2, <2>3
<1>4. \A f \in todo' : StillHolds(f)' BY <1>1, PublishHolds
<1> QED BY <1>1, <1>2, <1>3, <1>4 DEF Inv, RightlyDated

\* A pass begins.
LEMMA BeginInv ==
  ASSUME MaxLate <= 6, Inv, NEW only, Begin(only)
  PROVE  Inv'
<1>1. /\ runDate' = today /\ todo' = Pending(only) /\ Pending(only) # {}
      /\ UNCHANGED <<today, served, modified, rows>>
  BY DEF Begin
<1>2. /\ Pending(only) \in SUBSET [dow : Weekdays, date : Int]
      /\ \A f \in Pending(only) : StillHolds(f)
  BY PendingHolds
<1>3. TypeOK' BY <1>1, <1>2 DEF Inv, TypeOK
<1>4. \A f \in todo' : StillHolds(f)' BY <1>1, <1>2 DEF StillHolds
<1>5. \A w \in Weekdays : FileDated(w)' BY <1>1 DEF Inv, FileDated
<1> QED BY <1>1, <1>3, <1>4, <1>5 DEF Inv, RightlyDated

\* A file is loaded: under its own day, because it still holds it.
LEMMA LoadDayInv == Inv /\ LoadDay => Inv'
<1> SUFFICES ASSUME Inv, LoadDay PROVE Inv' OBVIOUS
<1>1. PICK f \in todo :
        /\ rows' = rows \cup {[date |-> f.date, of |-> served[f.dow]]}
        /\ todo' = todo \ {f}
        /\ runDate' = IF todo = {f} THEN None ELSE runDate
  BY DEF LoadDay
<1>2. UNCHANGED <<today, served, modified>> BY DEF LoadDay
<1>3. /\ f.dow \in Weekdays /\ f.date \in Int /\ served[f.dow] \in Nat
      /\ f.date = served[f.dow] /\ runDate # None
  BY DEF Inv, TypeOK, StillHolds
<1>4. (runDate' = None <=> todo' = {}) /\ runDate' \in Nat \cup {None}
  BY <1>1, <1>3 DEF Inv, TypeOK
<1>5. rows' \in SUBSET [date : Int, of : Nat] BY <1>1, <1>3 DEF Inv, TypeOK
<1>6. TypeOK' BY <1>1, <1>2, <1>4, <1>5 DEF Inv, TypeOK
<1>7. RightlyDated' BY <1>1, <1>3 DEF Inv, RightlyDated
<1>8. \A g \in todo' : StillHolds(g)' BY <1>1, <1>2 DEF Inv, StillHolds
<1>9. \A w \in Weekdays : FileDated(w)' BY <1>2 DEF Inv, FileDated
<1> QED BY <1>6, <1>7, <1>8, <1>9 DEF Inv

\* A pass is given up.
LEMMA AbortInv == Inv /\ Abort => Inv'
BY DEF Inv, TypeOK, Abort, FileDated, RightlyDated

\* Every step keeps the invariant.
LEMMA StepInv == MaxLate <= 6 /\ Inv /\ [Next]_vars => Inv'
<1> SUFFICES ASSUME MaxLate <= 6, Inv, [Next]_vars PROVE Inv' OBVIOUS
<1>1. CASE Tick BY <1>1, TickInv
<1>2. CASE \E w \in Weekdays, d \in FirstDay - 7..LastDay : Publish(w, d)
  BY <1>2, PublishInv
<1>3. CASE Sweep BY <1>3, BeginInv DEF Sweep
<1>4. CASE Targeted BY <1>4, BeginInv DEF Targeted
<1>5. CASE LoadDay BY <1>5, LoadDayInv
<1>6. CASE Abort BY <1>6, AbortInv
<1>7. CASE UNCHANGED vars
  BY <1>7 DEF vars, Inv, TypeOK, FileDated, StillHolds, RightlyDated
<1> QED BY <1>1, <1>2, <1>3, <1>4, <1>5, <1>6, <1>7 DEF Next

\* If no file is published more than six days after the day it holds, every load is
\* recorded under the day it holds (run_daily_job, _ingest_one_day).
THEOREM RightlyDatedAlways == MaxLate <= 6 => (Spec => []RightlyDated)
<1> SUFFICES ASSUME MaxLate <= 6 PROVE Spec => []RightlyDated OBVIOUS
<1>1. Init => Inv BY InitInv
<1>2. Inv /\ [Next]_vars => Inv' BY StepInv
<1>3. Inv => RightlyDated BY DEF Inv
<1> QED BY <1>1, <1>2, <1>3, PTL DEF Spec

--------------------------------------------------------------------------------
(* What holds however late FCC publishes.                                  *)

\* Files hold days of their own weekday, before today.
Base == TypeOK /\ \A w \in Weekdays : FileDated(w)

LEMMA StepBase == Base /\ [Next]_vars => Base'
<1> SUFFICES ASSUME Base, [Next]_vars PROVE Base' OBVIOUS
<1>1. TypeOK /\ today \in Nat BY DEF Base, TypeOK
<1>2. CASE UNCHANGED <<today, served, modified>> /\ TypeOK'
  BY <1>2 DEF Base, FileDated
<1>3. CASE Tick
  <2>1. today' = today + 1 /\ UNCHANGED <<served, modified, runDate, todo, rows>> BY <1>3 DEF Tick
  <2>2. TypeOK' BY <1>1, <2>1 DEF TypeOK
  <2>3. ASSUME NEW w \in Weekdays PROVE FileDated(w)'
    BY <1>1, <2>1 DEF Base, FileDated, TypeOK
  <2> QED BY <2>2, <2>3 DEF Base
<1>4. ASSUME NEW w \in Weekdays, NEW d \in FirstDay - 7..LastDay, Publish(w, d) PROVE Base'
  <2>1. /\ d \in Nat /\ Weekday(d) = w /\ d < today /\ today <= d + MaxLate
        /\ served' = [served EXCEPT ![w] = d] /\ modified' = [modified EXCEPT ![w] = today]
        /\ UNCHANGED <<today, runDate, todo, rows>>
    BY <1>4 DEF Publish
  <2>2. TypeOK' BY <1>1, <2>1 DEF TypeOK
  <2>3. ASSUME NEW v \in Weekdays PROVE FileDated(v)'
    <3>1. CASE v = w BY <1>1, <2>1, <3>1 DEF FileDated, TypeOK
    <3>2. CASE v # w
      <4>1. served'[v] = served[v] /\ modified'[v] = modified[v] BY <1>1, <2>1, <3>2 DEF TypeOK
      <4> QED BY <2>1, <4>1 DEF Base, FileDated
    <3> QED BY <3>1, <3>2
  <2> QED BY <2>2, <2>3 DEF Base
<1>5. ASSUME NEW only, Begin(only) PROVE Base'
  <2>1. /\ runDate' = today /\ todo' = Pending(only) /\ Pending(only) # {}
        /\ UNCHANGED <<today, served, modified, rows>>
    BY <1>5 DEF Begin
  <2>2. ASSUME NEW w \in Weekdays PROVE Resolve(w, modified[w]) \in Int
    <3>1. w \in Int /\ modified[w] \in Int BY <1>1 DEF TypeOK
    <3> QED BY <3>1 DEF Resolve
  <2>3. Pending(only) \in SUBSET [dow : Weekdays, date : Int]
    <3>1. ASSUME NEW f \in Pending(only) PROVE f \in [dow : Weekdays, date : Int]
      <4>1. PICK w \in Weekdays : f = [dow |-> w, date |-> Resolve(w, modified[w])] BY DEF Pending
      <4> QED BY <2>2, <4>1
    <3> QED BY <3>1
  <2>4. TypeOK' BY <1>1, <2>1, <2>3 DEF TypeOK
  <2> QED BY <1>2, <2>1, <2>4
<1>6. CASE LoadDay
  <2>1. PICK f \in todo :
          /\ rows' = rows \cup {[date |-> f.date, of |-> served[f.dow]]}
          /\ todo' = todo \ {f}
          /\ runDate' = IF todo = {f} THEN None ELSE runDate
    BY <1>6 DEF LoadDay
  <2>2. UNCHANGED <<today, served, modified>> BY <1>6 DEF LoadDay
  <2>3. f.dow \in Weekdays /\ f.date \in Int /\ served[f.dow] \in Nat BY <1>1 DEF TypeOK
  <2>4. rows' \in SUBSET [date : Int, of : Nat] BY <1>1, <2>1, <2>3 DEF TypeOK
  <2>5. TypeOK' BY <1>1, <2>1, <2>2, <2>4 DEF TypeOK
  <2> QED BY <1>2, <2>2, <2>5
<1>7. CASE Abort
  <2>1. TypeOK' BY <1>1, <1>7 DEF TypeOK, Abort
  <2> QED BY <1>2, <1>7, <2>1 DEF Abort
<1>8. CASE UNCHANGED vars
  <2>1. TypeOK' BY <1>1, <1>8 DEF TypeOK, vars
  <2> QED BY <1>2, <1>8, <2>1 DEF vars
<1> QED BY <1>3, <1>4, <1>5, <1>6, <1>7, <1>8 DEF Next, Sweep, Targeted

THEOREM BaseAlways == Spec => []Base
<1>1. Init => Base BY InitInv DEF Inv, Base
<1> QED BY <1>1, StepBase, PTL DEF Spec

\* A pass runs exactly as long as it has files left, and all else keeps its type.
THEOREM TypeCorrect == Spec => []TypeOK
BY BaseAlways, PTL DEF Base

\* outstanding_dates, which goes from dates to weekdays, and discover_available_days,
\* which goes from weekday files to dates, agree: no file with an unrecorded day of the
\* window is left out of a targeted poll, whatever the window and the lateness.
THEOREM TargetedFindsAllAlways == Spec => []TargetedFindsAll
<1>1. Base => TargetedFindsAll
  <2> SUFFICES ASSUME Base, NEW w \in Weekdays,
                      served[w] >= today - WindowDays, served[w] \notin Dates
               PROVE  w \in Outstanding(today)
    BY DEF TargetedFindsAll
  <2>1. /\ served[w] \in Nat /\ modified[w] \in Nat /\ today \in Nat
        /\ Weekday(served[w]) = w /\ served[w] < today
    BY DEF Base, TypeOK, FileDated
  <2>2. PICK k : k = today - served[w] OBVIOUS
  <2>3. k \in 1..WindowDays /\ today - k = served[w] BY <2>1, <2>2
  <2> QED BY <2>1, <2>3 DEF Outstanding
<1> QED BY <1>1, BaseAlways, PTL

================================================================================
