------------------------------- MODULE PollCycle -------------------------------
(***************************************************************************)
(* The decision each poll takes: scheduler.run_poll_cycle with its         *)
(* PollState, the conditional listing request of index_scraper and the     *)
(* metadata discover_available_days would use.  The ingest itself, its     *)
(* crashes and its concurrency are module DailyIngest's subject; here it   *)
(* is one step that loads what the metadata makes look new.                *)
(*                                                                         *)
(* One service, over a stretch of time in which no weekday file rotates.   *)
(* Time is counted in polls (POLL_MINUTES); versions stand for             *)
(* Last-Modified, and version 0 of a day is the file of the week before,   *)
(* which is outside the window.                                            *)
(***************************************************************************)
EXTENDS Integers, FiniteSets

CONSTANTS
  Days,
  MaxVersion,  \* bound: republications of one day file
  SweepEvery,  \* FULL_SWEEP_MINUTES / POLL_MINUTES
  MaxBackoff,  \* MAX_BACKOFF_POLLS
  RegenEvery,  \* polls between two regenerations of the listing, at least
  MaxOutages,  \* bound: times FCC becomes unreachable
  MaxBusy,     \* bound: polls that find the advisory lock held
  MaxErrors,   \* bound: database errors and failed downloads
  None

ASSUME PollAssumption ==
  /\ IsFiniteSet(Days)
  /\ MaxVersion \in Nat \ {0} /\ SweepEvery \in Nat \ {0} /\ MaxBackoff \in Nat \ {0}
  /\ RegenEvery \in Nat
  /\ MaxOutages \in Nat /\ MaxBusy \in Nat /\ MaxErrors \in Nat

Version == 0..MaxVersion

VARIABLES
  fcc,      \* the version of each day's file FCC serves
  index,    \* the version each entry of FCC's static index.html shows
  rev,      \* the listing document's own Last-Modified, capped (see Regenerate)
  age,      \* polls since the listing was regenerated, capped at RegenEvery
  up,       \* is FCC reachable?
  loaded,   \* version in the database, 0 if the day has no success row
  seen,     \* state.listing_last_modified, as the rev it came with, or None
  failures, skip,  \* state.consecutive_failures, skip_polls_remaining
  since,    \* polls since state.last_full_sweep; at the start, more than a sweep's time
  pc, due, listing, only,  \* the running poll and its locals
  outcome,  \* how the last poll ended
  late,     \* polls completed since a version newer than the loaded one appeared,
            \* while FCC was up, its listing current and the lock free; capped at
            \* SweepEvery + 2
  outages, busy, errors

feed  == <<fcc, index, rev, age, up, outages>>
state == <<seen, failures, skip, since>>
poll  == <<pc, due, listing, only>>
vars  == <<feed, loaded, state, poll, outcome, late, busy, errors>>

Init ==
  /\ fcc = [d \in Days |-> 0] /\ index = fcc /\ rev = 0 /\ age = RegenEvery /\ up = TRUE
  /\ loaded = fcc
  /\ seen = None /\ failures = 0 /\ skip = 0 /\ since = SweepEvery + 1
  /\ pc = "idle" /\ due = FALSE /\ listing = None /\ only = {}
  /\ outcome = "none"
  /\ late = [d \in Days |-> 0]
  /\ outages = 0 /\ busy = 0 /\ errors = 0

--------------------------------------------------------------------------------
(* FCC.  Only whether the listing changed since it was last read matters,  *)
(* so rev is a bit that every regeneration flips unless it already differs *)
(* from the one seen.                                                      *)

NewRev == IF seen = rev THEN 1 - rev ELSE rev

Publish(d) ==
  /\ fcc[d] < MaxVersion
  /\ fcc' = [fcc EXCEPT ![d] = @ + 1]
  /\ UNCHANGED <<index, rev, age, up, outages, loaded, state, poll, outcome, late, busy, errors>>

\* The static index.html is written anew, from the files as they were some time
\* before: entries never go back, and need not catch up.  It happens hourly, not
\* before every poll (architecture.md: three polls in four see a 304).
Regenerate ==
  /\ age >= RegenEvery /\ age' = 0
  /\ \E shown \in [Days -> Version] :
       /\ \A d \in Days : index[d] <= shown[d] /\ shown[d] <= fcc[d]
       /\ index' = shown
  /\ rev' = NewRev
  /\ UNCHANGED <<fcc, up, outages, loaded, state, poll, outcome, late, busy, errors>>

GoDown ==
  /\ up /\ outages < MaxOutages
  /\ up' = FALSE /\ outages' = outages + 1
  /\ UNCHANGED <<fcc, index, rev, age, loaded, state, poll, outcome, late, busy, errors>>
ComeUp ==
  /\ ~up /\ up' = TRUE
  /\ UNCHANGED <<fcc, index, rev, age, outages, loaded, state, poll, outcome, late, busy, errors>>

--------------------------------------------------------------------------------
(* One poll.                                                               *)

\* Days whose newest version is not loaded.
Behind == {d \in Days : loaded[d] < fcc[d]}

Least(a, b) == IF a < b THEN a ELSE b

EndPoll(how) ==
  /\ pc' = "idle" /\ due' = FALSE /\ listing' = None /\ only' = {}
  /\ outcome' = how
  /\ late' = [d \in Days |->
       IF /\ d \in Behind' /\ loaded'[d] = loaded[d]
          /\ up /\ index[d] = fcc[d] /\ how \in {"ran", "nothing"}
         THEN Least(late[d] + 1, SweepEvery + 2) ELSE 0]

RecordSuccess == failures' = 0 /\ skip' = 0

\* 2 ^ n, for the counts of failures there are.
Power(n) == <<2, 4, 8, 16, 32>>[n]

\* (Mutant: the backoff is not capped.)
RecordFailureUncapped ==
  /\ failures' = Least(failures + 1, 5)
  /\ skip' = Power(failures')

\* The counter of failures only matters up to where the backoff is capped.
RecordFailure ==
  /\ failures' = Least(failures + 1, 5)
  /\ skip' = Least(Power(failures'), MaxBackoff)

\* A poll starts: is a sweep due?  (The jitter of the polls decides whether the
\* SweepEvery-th one is.)  A poll inside the backoff only counts down.
StartPoll ==
  /\ pc = "idle"
  /\ UNCHANGED <<fcc, index, rev, up, outages, loaded, busy, errors>>
  /\ age' = Least(age + 1, RegenEvery)
  /\ since' = Least(since + 1, SweepEvery + 1)
  /\ IF skip > 0
       THEN skip' = skip - 1 /\ EndPoll("backoff") /\ UNCHANGED <<seen, failures>>
       ELSE /\ pc' = "fetch"
            /\ due' \in {b \in BOOLEAN : (since' > SweepEvery => b) /\ (b => since' >= SweepEvery)}
            /\ UNCHANGED <<seen, failures, skip, listing, only, outcome, late>>

\* fetch_listing: None for a 304 and for every failed request alike.
Fetch ==
  /\ pc = "fetch"
  /\ IF up /\ (due \/ seen # rev)
       THEN listing' = index /\ seen' = rev
       ELSE listing' = None /\ seen' = seen
  /\ pc' = "gate"
  /\ UNCHANGED <<feed, loaded, failures, skip, since, due, only, outcome, late, busy, errors>>

Missing == {d \in Days : loaded[d] = 0}

\* (Mutants: a 304 means there is nothing to do, whatever is missing; a poll that
\* finds nothing to do counts as a sweep.)
GateTrustsListing ==
  /\ pc = "gate"
  /\ UNCHANGED <<feed, loaded, seen, since, busy, errors>>
  /\ IF listing = None /\ ~due
       THEN RecordSuccess /\ EndPoll("nothing")
       ELSE /\ pc' = "job" /\ only' = IF due THEN Days ELSE Missing
            /\ UNCHANGED <<failures, skip, due, listing, outcome, late>>
GateCountsAsSweep ==
  /\ pc = "gate"
  /\ UNCHANGED <<feed, loaded, seen, busy, errors>>
  /\ IF listing = None /\ Missing = {} /\ ~due
       THEN RecordSuccess /\ EndPoll("nothing") /\ since' = 0
       ELSE /\ pc' = "job" /\ only' = IF due THEN Days ELSE Missing
            /\ UNCHANGED <<failures, skip, since, due, listing, outcome, late>>

Gate ==
  /\ pc = "gate"
  /\ UNCHANGED <<feed, loaded, seen, since, busy, errors>>
  /\ IF listing = None /\ Missing = {} /\ ~due
       THEN RecordSuccess /\ EndPoll("nothing")
       ELSE /\ pc' = "job" /\ only' = IF due THEN Days ELSE Missing
            /\ UNCHANGED <<failures, skip, due, listing, outcome, late>>

\* Postgres cannot be asked what is outstanding; the listing's 200 is used up.
GateFails ==
  /\ pc = "gate" /\ errors < MaxErrors /\ errors' = errors + 1
  /\ RecordFailure
  /\ UNCHANGED <<feed, loaded, seen, since, busy>>
  /\ EndPoll("failed")

\* (Mutant: without a listing, no file is looked at.)
MetaListingOnly(d) == IF listing # None THEN listing[d] ELSE 0

\* discover_available_days: a listing is believed for every file it names; without
\* one, the files asked for are HEADed, and an unreachable file is left out.
Meta(d) ==
  IF listing # None THEN listing[d]
  ELSE IF up /\ d \in only THEN fcc[d] ELSE 0

Pending == IF only = {} THEN {} ELSE {d \in Days : Meta(d) > loaded[d]}

\* run_daily_job, holding the lock.  A loaded day is recorded with the
\* Last-Modified the metadata showed.
Job ==
  /\ pc = "job" /\ (Pending = {} \/ up)
  /\ loaded' = [d \in Days |-> IF d \in Pending THEN Meta(d) ELSE loaded[d]]
  /\ since' = IF due THEN 0 ELSE since
  /\ RecordSuccess
  /\ UNCHANGED <<feed, seen, busy, errors>>
  /\ EndPoll("ran")

\* The lock is held elsewhere: an empty summary, and all the rest as if it ran.
JobSkipped ==
  /\ pc = "job" /\ busy < MaxBusy /\ busy' = busy + 1
  /\ since' = IF due THEN 0 ELSE since
  /\ RecordSuccess
  /\ UNCHANGED <<feed, loaded, seen, errors>>
  /\ EndPoll("locked")

\* A download or a statement fails; the days before it stay loaded.
JobFails ==
  /\ pc = "job"
  /\ \/ Pending # {} /\ ~up /\ UNCHANGED errors
     \/ errors < MaxErrors /\ errors' = errors + 1
  /\ \E some \in SUBSET Pending :
       /\ some # Pending \/ Pending = {}
       /\ loaded' = [d \in Days |-> IF d \in some /\ up THEN Meta(d) ELSE loaded[d]]
  /\ RecordFailure
  /\ UNCHANGED <<feed, seen, since, busy>>
  /\ EndPoll("failed")

--------------------------------------------------------------------------------
Poll == StartPoll \/ Fetch \/ Gate \/ GateFails \/ Job \/ JobSkipped \/ JobFails

Next ==
  \/ \E d \in Days : Publish(d)
  \/ Regenerate \/ GoDown \/ ComeUp
  \/ Poll

Spec == Init /\ [][Next]_vars

\* The interval job fires for ever; an outage of FCC ends.
Fairness == WF_vars(Poll) /\ WF_vars(ComeUp)
FairSpec == Spec /\ Fairness

--------------------------------------------------------------------------------
(* Properties.                                                             *)

\* The shape of the poll state and of the poll's locals.
TypeOK ==
  /\ fcc \in [Days -> Version] /\ index \in [Days -> Version] /\ loaded \in [Days -> Version]
  /\ rev \in {0, 1} /\ age \in 0..RegenEvery /\ up \in BOOLEAN /\ seen \in {0, 1, None}
  /\ failures \in 0..5 /\ skip \in 0..MaxBackoff /\ since \in 0..(SweepEvery + 1)
  /\ pc \in {"idle", "fetch", "gate", "job"} /\ due \in BOOLEAN
  /\ listing \in [Days -> Version] \cup {None} /\ only \in SUBSET Days
  /\ late \in [Days -> 0..(SweepEvery + 2)]

\* A missing day is found even if the listing never shows it, through outages,
\* failed downloads, backoff and passes the lock turned away: sooner or later a poll
\* sees a 304, and then HEADs the missing files.
MissingIsFound == \A d \in Days : fcc[d] > 0 ~> loaded[d] > 0

\* Every version is loaded (or a later one), if the listing keeps catching up:
\* although a pass that fails or is turned away has used up the listing's 200, and
\* the polls after it see a 304.
EverythingIsFound ==
  []<>(index = fcc) =>
    \A d \in Days, v \in 1..MaxVersion : fcc[d] >= v ~> loaded[d] >= v

\* While the listing is current, a missing day is loaded by the first or the second
\* poll that gets to run, and a republication within a sweep's time.
LatencyBound ==
  \A d \in Days : /\ loaded[d] = 0 => late[d] <= 1
                  /\ late[d] <= SweepEvery + 1

\* "All files are re-checked directly, covering FCC re-publishing an older weekday
\* file without the listing reflecting it": a version is found without the listing.
SweepIsDirect == \A d \in Days, v \in 1..MaxVersion : fcc[d] >= v ~> loaded[d] >= v

\* "An FCC outage must not become 96 failed sweeps a day": a poll that ends while
\* FCC cannot be reached, and has been unreachable all along, backs off.
OutageBacksOff ==
  [][(pc = "job" /\ pc' = "idle" /\ ~up /\ listing = None /\ due) => skip' > 0]_vars
================================================================================
