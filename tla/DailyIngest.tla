------------------------------ MODULE DailyIngest ------------------------------
(***************************************************************************)
(* The daily ingest job of ingestor/scheduler.py: run_daily_job and        *)
(* _ingest_one_day, with ingest_file (ingest.py) row by row and the        *)
(* bookkeeping of db.py.  Several database sessions may run it (the poll   *)
(* loop, an operator's --catch-up); Postgres' session-level advisory lock  *)
(* keeps them apart.  FCC publishes and republishes day files meanwhile,   *)
(* and a session may die or raise between any two statements.              *)
(*                                                                         *)
(* A calendar date is a number; a file's Last-Modified (and the hash of    *)
(* its content) is a version number, 0 while FCC has not published it.     *)
(* Rotation of the weekday names is the subject of module DataDate: here   *)
(* a file is named by the date it holds.  Each service has two tables: one *)
(* with a natural key (its *_en table) and one without (its *_hs log).     *)
(***************************************************************************)
EXTENDS Integers, Sequences, FiniteSets

CONSTANTS
  Procs,       \* database sessions that can run the job
  Pollers,     \* those of the poll loop; the others run --catch-up
  NServices,   \* services are ingested in the order of schemas.SERVICES
  Days,        \* the calendar dates the feed carries
  MaxVersion,  \* bound: republications of one day file
  Keys, Vals,  \* natural keys and row values of the keyed table
  Lines,       \* distinct rows of the append-only history file
  EnRows,      \* EnRows[d][v]: rows of version v of day d's keyed file
  HsRows,      \* HsRows[d][v]: rows of version v of day d's history file
  Mismatched,  \* the <<d, v>> whose `counts` member disagrees with its rows
  InOrderFeed, \* does FCC publish each service's days in date order?
  WindowDays,  \* DAILY_WINDOW_DAYS
  LastDay,     \* bound: the clock stops there
  MaxFaults,   \* bound: crashes, exceptions, bad metadata, all together
  MaxCopies,   \* bound: copies of one history row told apart
  None         \* SQL NULL / Python None

Service == 1..NServices
Version == 1..MaxVersion
EnRow   == [key : Keys, val : Vals]
Run     == [lm : 0..MaxVersion, sha : 0..MaxVersion, status : {"success", "partial"}]

ASSUME ConstAssumption ==
  /\ NServices \in Nat \ {0} /\ MaxVersion \in Nat \ {0}
  /\ Days \subseteq Nat /\ Pollers \subseteq Procs
  /\ None \notin Vals /\ None \notin Procs /\ None \notin Run
  /\ EnRows \in [Days -> [Version -> Seq(EnRow)]]
  /\ HsRows \in [Days -> [Version -> Seq(Lines)]]
  /\ Mismatched \subseteq (Days \X Version)
  /\ InOrderFeed \in BOOLEAN
  /\ WindowDays \in Nat /\ LastDay \in Nat /\ MaxFaults \in Nat
  /\ MaxCopies \in Nat \ {0}

VARIABLES
  today,   \* the calendar (UTC)
  fcc,     \* fcc[s][d]: version of day d's file FCC serves, 0 if none
  table,   \* committed rows of the keyed table
  log,     \* committed copies of each history row
  events,  \* committed change_events, per subject, oldest first
  runs,    \* ingest_runs: one row per (service, data_date), or None
  views,   \* what the materialized views were last computed from
  lock,    \* holder of the advisory lock, or None
  pc, job, \* where each session is in run_daily_job, and its locals
  tx,      \* each session's uncommitted writes
  faults   \* faults so far

feed == <<today, fcc>>
db   == <<table, log, events, runs, views>>
sess == <<lock, pc, job, tx>>
vars == <<feed, db, sess, faults>>

--------------------------------------------------------------------------------
Stored == Vals \cup {None}
Event  == [day : Days, old : Stored, new : Vals]
\* One element of `pending`; dated = FALSE is a file without Last-Modified.
Plan   == [day : Days, lm : 0..MaxVersion, dated : BOOLEAN]

Job    == [svc : 1..(NServices + 1), listed : BOOLEAN, only : [Service -> SUBSET Days],
           earliest : Int, done : SUBSET Days, todo : SUBSET Plan, any : BOOLEAN,
           day : Days \cup {None}, lm : 0..MaxVersion, sha : 0..MaxVersion,
           file : {1, 2}, row : Nat \ {0}]
Tx     == [tab : [Keys -> Stored], evs : [Keys -> Seq(Event)], log : [Lines -> Nat]]

NoTx == [tab |-> [k \in Keys |-> None],
         evs |-> [k \in Keys |-> <<>>],
         log |-> [l \in Lines |-> 0]]

NoJob == [svc |-> 1, listed |-> FALSE, only |-> [s \in Service |-> {}],
          earliest |-> 0, done |-> {}, todo |-> {}, any |-> FALSE,
          day |-> None, lm |-> 0, sha |-> 0, file |-> 1, row |-> 1]

\* ingested_data_dates: 'partial' days are not done.
Done(s, since) ==
  {d \in Days : d >= since /\ runs[s][d] # None /\ runs[s][d].status = "success"}

\* outstanding_dates: yesterday and back over the window, without a success row.
Outstanding(s) ==
  {d \in Days : d < today /\ d >= today - WindowDays} \ Done(s, today - WindowDays)

Available(s) == {d \in Days : fcc[s][d] > 0}

\* _verify_against_counts
VerifyAgainstCounts(d, v) == IF <<d, v>> \in Mismatched THEN "partial" ELSE "success"

Init ==
  /\ today = 1
  /\ fcc = [s \in Service |-> [d \in Days |-> 0]]
  /\ table = [s \in Service |-> [k \in Keys |-> None]]
  /\ log = [s \in Service |-> [l \in Lines |-> 0]]
  /\ events = [s \in Service |-> [k \in Keys |-> <<>>]]
  /\ runs = [s \in Service |-> [d \in Days |-> None]]
  /\ views = table
  /\ lock = None
  /\ pc = [p \in Procs |-> "idle"]
  /\ job = [p \in Procs |-> NoJob]
  /\ tx = [p \in Procs |-> NoTx]
  /\ faults = 0

--------------------------------------------------------------------------------
(* The feed.                                                               *)

Tick == today < LastDay /\ today' = today + 1 /\ UNCHANGED <<fcc, db, sess, faults>>

\* Day d's file appears once d is over; it may later be replaced in place.
Publish(s, d) ==
  /\ d < today
  /\ fcc[s][d] < MaxVersion
  /\ InOrderFeed => \A e \in Days : e < d => fcc[s][e] > 0
  /\ fcc' = [fcc EXCEPT ![s][d] = @ + 1]
  /\ UNCHANGED <<today, db, sess, faults>>

--------------------------------------------------------------------------------
(* The job.                                                                *)

\* run_poll_cycle up to run_daily_job: what it fetched (a listing or none) and
\* only_days.  None (a full sweep, any --catch-up) is the set of all dates.
Begin(p, listed, only) ==
  /\ pc[p] = "idle"
  /\ pc' = [pc EXCEPT ![p] = "lock"]
  /\ job' = [job EXCEPT ![p] = [NoJob EXCEPT !.listed = listed, !.only = only]]
  /\ UNCHANGED <<feed, db, lock, tx, faults>>

AllDays == [s \in Service |-> Days]
BeginSweep(p)    == \E listed \in BOOLEAN : Begin(p, listed, AllDays)
BeginTargeted(p) == \E listed \in BOOLEAN : Begin(p, listed, [s \in Service |-> Outstanding(s)])
BeginCatchUp(p)  == Begin(p, FALSE, AllDays)

EndSession(p) ==
  /\ lock' = IF lock = p THEN None ELSE lock
  /\ pc' = [pc EXCEPT ![p] = "idle"]
  /\ job' = [job EXCEPT ![p] = NoJob]

\* (Mutant: the value ingest_advisory_lock yields is ignored.)
TryLockIgnored(p) ==
  /\ pc[p] = "lock"
  /\ lock' = IF lock = None THEN p ELSE lock
  /\ pc' = [pc EXCEPT ![p] = "service"]
  /\ job' = [job EXCEPT ![p].earliest = today - WindowDays]
  /\ UNCHANGED <<feed, db, tx, faults>>

\* ingest_advisory_lock: pg_try_advisory_lock does not wait; a pass that finds
\* the lock held returns at once.
TryLock(p) ==
  /\ pc[p] = "lock"
  /\ IF lock = None
       THEN /\ lock' = p
            /\ pc' = [pc EXCEPT ![p] = "service"]
            /\ job' = [job EXCEPT ![p].earliest = today - WindowDays]
       ELSE EndSession(p)
  /\ UNCHANGED <<feed, db, tx, faults>>

Fault == faults < MaxFaults /\ faults' = faults + 1

\* discover_available_days: weekday files whose metadata the job looks at.
Candidates(j, s) == IF j.listed THEN Available(s) ELSE Available(s) \cap j.only[s]

\* The metadata the job obtains, as plans: the truth, or (at the price of a
\* fault) a listing that lags behind the files, for which a new file still has
\* last week's entry (shown[d] = 0), or HEADs that fail or carry no date.
TrueMeta(j, s) ==
  {[day |-> d, lm |-> fcc[s][d], dated |-> TRUE] : d \in Candidates(j, s)}
ShownMeta(j, s, shown) ==
  {[day |-> d, lm |-> shown[d], dated |-> TRUE] : d \in {e \in Candidates(j, s) : shown[e] > 0}}
UndatedMeta(j, s) ==
  {[day |-> d, lm |-> 0, dated |-> FALSE] : d \in Candidates(j, s)}

\* (Mutant: done means done, whatever FCC republishes.)
IsPendingOnce(j, s, plan) ==
  ~plan.dated \/ (plan.day >= j.earliest /\ plan.day \notin Done(s, j.earliest))

\* The pending filter of run_daily_job.
IsPending(j, s, plan) ==
  \/ ~plan.dated
  \/ /\ plan.day >= j.earliest
     /\ \/ plan.day \notin Done(s, j.earliest)
        \/ plan.lm > runs[s][plan.day].lm

\* (Mutant: ingested_any is of the service, not of the pass.)
NextServiceForgets(p) == [job EXCEPT ![p].svc = @ + 1, ![p].todo = {}, ![p].done = {}, ![p].any = FALSE]

NextService(p) == [job EXCEPT ![p].svc = @ + 1, ![p].todo = {}, ![p].done = {}]

PlanWith(p, meta) ==
  LET s == job[p].svc
      pending == {m \in meta : IsPending(job[p], s, m)}
  IN  /\ IF pending = {}
           THEN pc' = pc /\ job' = NextService(p)
           ELSE /\ pc' = [pc EXCEPT ![p] = "day"]
                /\ job' = [job EXCEPT ![p].todo = pending,
                                      ![p].done = Done(s, job[p].earliest)]
      /\ UNCHANGED <<feed, db, lock, tx>>

\* `if only_days is not None and not service_days: continue`
SkipService(p) ==
  /\ pc[p] = "service" /\ job[p].svc \in Service
  /\ job[p].only[job[p].svc] = {}
  /\ job' = NextService(p)
  /\ UNCHANGED <<feed, db, lock, pc, tx, faults>>

PlanService(p) ==
  /\ pc[p] = "service" /\ job[p].svc \in Service
  /\ job[p].only[job[p].svc] # {}
  /\ \/ PlanWith(p, TrueMeta(job[p], job[p].svc)) /\ UNCHANGED faults
     \/ /\ job[p].listed
        /\ \E shown \in [Days -> 0..MaxVersion] :
              /\ \A d \in Days : shown[d] <= fcc[job[p].svc][d]
              /\ PlanWith(p, ShownMeta(job[p], job[p].svc, shown))
        /\ Fault
     \/ /\ ~job[p].listed
        /\ \E seen, blind \in SUBSET Candidates(job[p], job[p].svc) :
              PlanWith(p, {m \in TrueMeta(job[p], job[p].svc) : m.day \in seen \ blind}
                          \cup {m \in UndatedMeta(job[p], job[p].svc) : m.day \in blind})
        /\ Fault

\* (Mutant: newest first.)
FirstIsNewest(todo) == {m \in todo : \A n \in todo : n.day <= m.day}

\* Dated plans oldest first; undated ones after all of them.
First(todo) ==
  {m \in todo : \A n \in todo :
     IF m.dated THEN n.dated => m.day <= n.day ELSE ~n.dated}

\* (Mutant: `last_modified or counts.created_at` is forgotten: NULL is recorded.)
DownloadUndated(p) ==
  /\ pc[p] = "day"
  /\ \E m \in First(job[p].todo) :
       /\ job' = [job EXCEPT ![p].todo = @ \ {m}, ![p].day = m.day,
                             ![p].sha = fcc[job[p].svc][m.day],
                             ![p].lm = IF m.dated THEN m.lm ELSE None]
       /\ pc' = [pc EXCEPT ![p] = "rows"]
  /\ UNCHANGED <<feed, db, lock, tx, faults>>

\* _ingest_one_day up to extract_zip.  The content is whatever FCC serves NOW;
\* the metadata is what the plan read earlier.  An undated file is dated by its
\* `counts` member, if that is readable.
Download(p) ==
  /\ pc[p] = "day"
  /\ \E m \in First(job[p].todo), readable \in BOOLEAN :
       LET v == fcc[job[p].svc][m.day]
           old  == m.day < job[p].earliest \/ m.day \in job[p].done
           rest == [job EXCEPT ![p].todo = @ \ {m}]
       IN  IF ~m.dated /\ (old \/ ~readable)
             THEN job' = rest /\ pc' = pc
             ELSE /\ job' = [rest EXCEPT ![p].day = m.day, ![p].sha = v,
                                         ![p].lm = IF m.dated THEN m.lm ELSE v]
                  /\ pc' = [pc EXCEPT ![p] = "rows"]
  /\ UNCHANGED <<feed, db, lock, tx, faults>>

EndService(p) ==
  /\ pc[p] = "day" /\ job[p].todo = {}
  /\ pc' = [pc EXCEPT ![p] = "service"]
  /\ job' = NextService(p)
  /\ UNCHANGED <<feed, db, lock, tx, faults>>

\* The rows of the file being ingested: the keyed file, then the history log.
RowsOf(j) == IF j.file = 1 THEN EnRows[j.day][j.sha] ELSE HsRows[j.day][j.sha]

\* (Mutant: existing rows are fetched once per file, before its first upsert.)
ExistingPrefetched(p, k) == table[job[p].svc][k]

\* fetch_existing_row: the session sees its own writes over the committed rows.
Existing(p, k) == IF tx[p].tab[k] # None THEN tx[p].tab[k] ELSE table[job[p].svc][k]

\* (Mutant: the diff is not consulted; every row seen again makes an event.)
UpsertRowAlwaysReported(p) ==
  /\ pc[p] = "rows" /\ job[p].file = 1 /\ job[p].row <= Len(RowsOf(job[p]))
  /\ LET r  == RowsOf(job[p])[job[p].row]
         ev == [day |-> job[p].day, old |-> Existing(p, r.key), new |-> r.val]
     IN  tx' = [tx EXCEPT ![p].tab[r.key] = r.val, ![p].evs[r.key] = Append(@, ev)]
  /\ job' = [job EXCEPT ![p].row = @ + 1]
  /\ UNCHANGED <<feed, db, lock, pc, faults>>

\* One iteration of ingest_file's loop on a table with a natural key.
UpsertRow(p) ==
  /\ pc[p] = "rows" /\ job[p].file = 1 /\ job[p].row <= Len(RowsOf(job[p]))
  /\ LET r   == RowsOf(job[p])[job[p].row]
         old == Existing(p, r.key)
         ev  == [day |-> job[p].day, old |-> old, new |-> r.val]
     IN  tx' = [tx EXCEPT ![p].tab[r.key] = r.val,
                          ![p].evs[r.key] = IF old = r.val THEN @ ELSE Append(@, ev)]
  /\ job' = [job EXCEPT ![p].row = @ + 1]
  /\ UNCHANGED <<feed, db, lock, pc, faults>>

\* The same on an append-only table (key None): a plain INSERT.
InsertRow(p) ==
  /\ pc[p] = "rows" /\ job[p].file = 2 /\ job[p].row <= Len(RowsOf(job[p]))
  /\ tx' = [tx EXCEPT ![p].log[RowsOf(job[p])[job[p].row]] = @ + 1]
  /\ job' = [job EXCEPT ![p].row = @ + 1]
  /\ UNCHANGED <<feed, db, lock, pc, faults>>

Capped(n) == IF n > MaxCopies THEN MaxCopies ELSE n

\* COMMIT of session p's transaction.
Commit(p) ==
  LET s == job[p].svc
  IN  /\ table' = [table EXCEPT ![s] =
                     [k \in Keys |-> IF tx[p].tab[k] # None THEN tx[p].tab[k] ELSE table[s][k]]]
      /\ events' = [events EXCEPT ![s] = [k \in Keys |-> events[s][k] \o tx[p].evs[k]]]
      /\ log' = [log EXCEPT ![s] = [l \in Lines |-> Capped(log[s][l] + tx[p].log[l])]]
      /\ tx' = [tx EXCEPT ![p] = NoTx]

\* The one commit at the end of ingest_file; the loop goes to the next file.
CommitFile(p) ==
  /\ pc[p] = "rows" /\ job[p].row > Len(RowsOf(job[p]))
  /\ Commit(p)
  /\ IF job[p].file = 1
       THEN pc' = pc /\ job' = [job EXCEPT ![p].file = 2, ![p].row = 1]
       ELSE pc' = [pc EXCEPT ![p] = "record"] /\ job' = job
  /\ UNCHANGED <<feed, runs, views, lock, faults>>

\* (Mutant: the file's Last-Modified is asked for when the day is recorded.)
RecordRunAsOfNow(p) ==
  /\ pc[p] = "record"
  /\ LET j == job[p]
     IN  runs' = [runs EXCEPT ![j.svc][j.day] =
                    [lm |-> fcc[j.svc][j.day], sha |-> j.sha, status |-> "success"]]
  /\ pc' = [pc EXCEPT ![p] = "day"]
  /\ UNCHANGED <<feed, table, log, events, views, lock, job, tx, faults>>

\* record_ingest_run: upsert on (service, data_date), own commit.
RecordRun(p) ==
  /\ pc[p] = "record"
  /\ LET j == job[p]
     IN  runs' = [runs EXCEPT ![j.svc][j.day] =
                    [lm |-> j.lm, sha |-> j.sha, status |-> VerifyAgainstCounts(j.day, j.sha)]]
  /\ pc' = [pc EXCEPT ![p] = "day"]
  /\ job' = [job EXCEPT ![p].any = TRUE, ![p].day = None, ![p].lm = 0, ![p].sha = 0,
                        ![p].file = 1, ![p].row = 1]
  /\ UNCHANGED <<feed, table, log, events, views, lock, tx, faults>>

\* _refresh_materialized_views, if ingested_any.
Refresh(p) ==
  /\ pc[p] = "service" /\ job[p].svc > NServices
  /\ views' = IF job[p].any THEN table ELSE views
  /\ pc' = [pc EXCEPT ![p] = "unlock"]
  /\ UNCHANGED <<feed, table, log, events, runs, lock, job, tx, faults>>

Unlock(p) ==
  /\ pc[p] = "unlock"
  /\ EndSession(p)
  /\ UNCHANGED <<feed, db, tx, faults>>

\* (Mutant: an error in one file is caught and the day recorded all the same.)
AbortOneFile(p) ==
  /\ pc[p] = "rows"
  /\ tx' = [tx EXCEPT ![p] = NoTx]
  /\ pc' = [pc EXCEPT ![p] = "record"]
  /\ Fault
  /\ UNCHANGED <<feed, db, lock, job>>

\* The session dies, or a statement or a download fails: Postgres rolls the
\* open transaction back and the advisory lock goes with the connection.
Abort(p) ==
  /\ pc[p] # "idle"
  /\ EndSession(p)
  /\ tx' = [tx EXCEPT ![p] = NoTx]
  /\ Fault
  /\ UNCHANGED <<feed, db>>

\* Python raises in ingest_file while the transaction is healthy (Ctrl-C of a
\* --catch-up, a value psycopg cannot adapt): ingest_advisory_lock's `finally`
\* unlocks and COMMITS, half a file included, before the exception goes on.
RaiseInFile(p) ==
  /\ pc[p] = "rows"
  /\ Commit(p)
  /\ EndSession(p)
  /\ Fault
  /\ UNCHANGED <<feed, runs, views>>

--------------------------------------------------------------------------------
Step(p) ==
  \/ TryLock(p) \/ SkipService(p) \/ PlanService(p) \/ Download(p) \/ EndService(p)
  \/ UpsertRow(p) \/ InsertRow(p) \/ CommitFile(p) \/ RecordRun(p)
  \/ Refresh(p) \/ Unlock(p)

Next ==
  \/ Tick
  \/ \E s \in Service, d \in Days : Publish(s, d)
  \/ \E p \in Pollers : BeginSweep(p) \/ BeginTargeted(p)
  \/ \E p \in Procs \ Pollers : BeginCatchUp(p)
  \/ \E p \in Procs : Step(p) \/ Abort(p) \/ RaiseInFile(p)

Spec == Init /\ [][Next]_vars

\* A started pass goes on (statements and downloads return or raise); the poll
\* loop fires every POLL_MINUTES, and every FULL_SWEEP_MINUTES a poll is a sweep.
Fairness ==
  /\ \A p \in Procs : WF_vars(Step(p))
  /\ \A p \in Pollers : SF_vars(BeginSweep(p))

FairSpec == Spec /\ Fairness

--------------------------------------------------------------------------------
(* Properties.                                                             *)

\* The shape of the database and of each session's locals; in particular no day is
\* ever recorded without a Last-Modified and a content hash.
TypeOK ==
  /\ today \in Nat
  /\ fcc \in [Service -> [Days -> 0..MaxVersion]]
  /\ table \in [Service -> [Keys -> Stored]]
  /\ log \in [Service -> [Lines -> Nat]]
  /\ events \in [Service -> [Keys -> Seq(Event)]]
  /\ runs \in [Service -> [Days -> Run \cup {None}]]
  /\ views \in [Service -> [Keys -> Stored]]
  /\ lock \in Procs \cup {None}
  /\ pc \in [Procs -> {"idle", "lock", "service", "day", "rows", "record", "unlock"}]
  /\ job \in [Procs -> Job]
  /\ tx \in [Procs -> Tx]
  /\ faults \in Nat

InJob(p) == pc[p] \notin {"idle", "lock"}

\* Two ingests never overlap, whichever entry point started them, and a dead one
\* leaves no stale lock behind (db.py, ingest_advisory_lock).
MutualExclusion ==
  /\ \A p, q \in Procs : InJob(p) /\ InJob(q) => p = q
  /\ lock # None => InJob(lock)

\* The stored rows and their events, as module ChangeLog sees them.
Subject == Service \X Keys
Changes ==
  INSTANCE ChangeLog WITH
    Subjects <- Subject,
    stored   <- [x \in Subject |-> table[x[1]][x[2]]],
    history  <- [x \in Subject |-> events[x[1]][x[2]]]

\* "Diffs are computed against the currently stored row" (differ.py): the
\* change_events of a subject are exactly the history of its stored row, through
\* crashes, half files and competing sessions; a duplicate event breaks it.
EventsAreHistory ==
  \A s \in Service, k \in Keys : Changes!IsHistory(events[s][k], table[s][k])

\* The same as a refinement: every step of every session is, for a reader of
\* change_events, an atomic extension of the log or nothing.
ImplementsChangeLog == Changes!Spec

HasTaken(s, k, v) == \E i \in 1..Len(events[s][k]) : events[s][k][i].new = v

\* Every row of version v of day d's archive has been committed.
Loaded(s, d, v) ==
  /\ \A i \in 1..Len(EnRows[d][v]) : HasTaken(s, EnRows[d][v][i].key, EnRows[d][v][i].val)
  /\ \A i \in 1..Len(HsRows[d][v]) : log[s][HsRows[d][v][i]] > 0

\* A day has an ingest_runs row only when all of the archive named by its hash is
\* in the database: a crash between two files never leaves a half day recorded.
RecordedMeansLoaded ==
  \A s \in Service, d \in Days : runs[s][d] # None => Loaded(s, d, runs[s][d].sha)

\* The Last-Modified recorded for a day is never newer than the content loaded,
\* though FCC may replace the file between the HEAD and the download: otherwise
\* the republication would never look newer and would be lost.
NeverClaimsNewer ==
  \A s \in Service, d \in Days : runs[s][d] # None => runs[s][d].lm <= runs[s][d].sha

\* Every version FCC publishes (or a later one) is loaded, unless its day leaves
\* the window first: architecture.md section 3b, "Self-healing".
SelfHealing ==
  \A s \in Service, d \in Days, v \in Version :
    fcc[s][d] >= v ~> \/ runs[s][d] # None /\ runs[s][d].sha >= v
                      \/ d < today - WindowDays

Resting == \A p \in Procs : pc[p] = "idle"

\* Row k's last value in version v of day d's file.
LastIndex(d, v, k) ==
  CHOOSE i \in 1..Len(EnRows[d][v]) :
    /\ EnRows[d][v][i].key = k
    /\ \A j \in 1..Len(EnRows[d][v]) : EnRows[d][v][j].key = k => j <= i
Carries(s, d, k) ==
  runs[s][d] # None /\ \E i \in 1..Len(EnRows[d][runs[s][d].sha]) : EnRows[d][runs[s][d].sha][i].key = k

\* Catch-ups apply chronologically (architecture.md section 3b, "Ordered"): at rest
\* each stored row is the one from the newest recorded day that carries it.
NewestWins ==
  Resting => \A s \in Service, d \in Days, k \in Keys :
    (/\ Carries(s, d, k)
     /\ \A e \in Days : Carries(s, e, k) => e <= d)
      => table[s][k] = EnRows[d][runs[s][d].sha][LastIndex(d, runs[s][d].sha, k)].val

\* architecture.md section 12: materialized views are refreshed at the end of any
\* ingest that wrote data; so, if nothing failed, at rest they are current.
ViewsCurrent == Resting /\ faults = 0 => views = table

\* README: "row-level upserts mean a forced re-ingest never duplicates data".
NoDuplicateRows == \A s \in Service, l \in Lines : log[s][l] <= 1
================================================================================
