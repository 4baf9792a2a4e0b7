-------------------------- MODULE DailyIngest_proofs --------------------------
(***************************************************************************)
(* Theorems about DailyIngest, for every number of sessions, services,     *)
(* days, versions and faults: the lock and the dates of what is recorded;  *)
(* the change events as a history, and ChangeLog implemented; whole days;  *)
(* the materialized views; and the order in which days are loaded.         *)
(***************************************************************************)
EXTENDS DailyIngest, SequenceTheorems, TLAPS

\* The lock is held by exactly the session that is past pg_try_advisory_lock.
LockInv == \A p \in Procs : InJob(p) <=> lock = p

\* What the locals of a session at c may be relied on for: the service is one, no
\* plan is ahead of what FCC serves, and the metadata is no newer than the content.
JobOK(c, j) ==
  /\ c \in {"day", "rows", "record"} =>
       /\ j.svc \in Service
       /\ \A m \in j.todo : m.lm <= fcc[j.svc][m.day] /\ fcc[j.svc][m.day] > 0
  /\ c \in {"rows", "record"} =>
       /\ j.day \in Days /\ j.sha \in Version
       /\ j.lm <= j.sha /\ j.sha <= fcc[j.svc][j.day]

JobInv == \A p \in Procs : JobOK(pc[p], job[p])

IInv == TypeOK /\ LockInv /\ JobInv

\* Initially no session holds the lock and no plan exists.
LEMMA InitInv == Init => IInv
  <1> SUFFICES ASSUME Init PROVE IInv
    OBVIOUS
  <1> USE ConstAssumption
  <1>1. TypeOK
    <2>1. NoJob \in Job
      BY DEF NoJob, Job, Service
    <2>2. NoTx \in Tx
      BY DEF NoTx, Tx, Stored
    <2>3. QED
      BY <2>1, <2>2 DEF Init, TypeOK, Service, Version, Stored
  <1>2. LockInv /\ JobInv
    BY DEF Init, LockInv, JobInv, JobOK, InJob
  <1>3. QED
    BY <1>1, <1>2 DEF IInv

\* The empty locals and the empty transaction have their types.
LEMMA NoValuesTyped == NoJob \in Job /\ NoTx \in Tx
  BY ConstAssumption DEF NoJob, Job, Service, NoTx, Tx, Stored

\* The calendar moves on: nothing the invariant speaks of changes.
LEMMA TickInv == IInv /\ Tick => IInv'
  BY DEF IInv, TypeOK, LockInv, JobInv, JobOK, InJob, Tick, db, sess

\* FCC replaces a file: versions only grow, so what a plan or a download knows
\* of a file stays no newer than the file.
LEMMA PublishInv ==
  ASSUME IInv, NEW s \in Service, NEW d \in Days, Publish(s, d)
  PROVE  IInv'
  <1>1. TypeOK'
    BY ConstAssumption DEF IInv, TypeOK, Publish, db, sess
  <1>2. \A t \in Service, e \in Days : fcc[t][e] \in Int /\ fcc'[t][e] \in Int /\ fcc[t][e] <= fcc'[t][e]
    BY ConstAssumption DEF IInv, TypeOK, Publish
  <1>3. LockInv'
    BY DEF IInv, LockInv, InJob, Publish, sess
  <1>4. JobInv'
    <2> SUFFICES ASSUME NEW p \in Procs
                 PROVE  JobOK(pc[p], job[p])'
      BY DEF JobInv
    <2> UNCHANGED <<pc, job>>
      BY DEF Publish, sess
    <2>1. job[p] \in Job
      BY DEF IInv, TypeOK
    <2>2. \A m \in job[p].todo : m.day \in Days /\ m.lm \in Int
      BY <2>1, ConstAssumption DEF Job, Plan
    <2>3. job[p].lm \in Int /\ job[p].sha \in Int
      BY <2>1, ConstAssumption DEF Job
    <2> QED
      BY <1>2, <2>2, <2>3 DEF IInv, JobInv, JobOK
  <1>5. QED
    BY <1>1, <1>3, <1>4 DEF IInv

\* A poll or an operator starts a session, outside the job.
LEMMA BeginInv ==
  ASSUME IInv, NEW p \in Procs, NEW listed \in BOOLEAN,
         NEW only \in [Service -> SUBSET Days], Begin(p, listed, only)
  PROVE  IInv'
  <1>1. [NoJob EXCEPT !.listed = listed, !.only = only] \in Job
    BY NoValuesTyped DEF Job
  <1>2. TypeOK'
    BY <1>1 DEF IInv, TypeOK, Begin, db, feed
  <1>3. LockInv'
    BY DEF IInv, TypeOK, LockInv, InJob, Begin
  <1>4. JobInv'
    BY DEF IInv, TypeOK, JobInv, JobOK, Begin, feed
  <1>5. QED
    BY <1>2, <1>3, <1>4 DEF IInv

\* The end of a session, from wherever it was.
LEMMA EndSessionInv ==
  ASSUME IInv, NEW p \in Procs, EndSession(p), UNCHANGED fcc
  PROVE  LockInv' /\ JobInv'
  <1>1. LockInv'
    BY ConstAssumption DEF IInv, TypeOK, LockInv, InJob, EndSession
  <1>2. JobInv'
    BY DEF IInv, TypeOK, JobInv, JobOK, EndSession
  <1>3. QED
    BY <1>1, <1>2

\* pg_try_advisory_lock: the session that gets the lock enters the job, the one
\* that does not is over.
LEMMA TryLockInv ==
  ASSUME IInv, NEW p \in Procs, TryLock(p)
  PROVE  IInv'
  <1>1. CASE lock = None
    <2> DEFINE j == [job[p] EXCEPT !.earliest = today - WindowDays]
    <2> job[p] \in Job /\ today - WindowDays \in Int
      BY ConstAssumption DEF IInv, TypeOK
    <2>1. j \in Job
      BY DEF Job
    <2>2. job' = [job EXCEPT ![p] = j] /\ lock' = p /\ pc' = [pc EXCEPT ![p] = "service"]
      BY <1>1 DEF IInv, TypeOK, TryLock
    <2> HIDE DEF j
    <2>3. TypeOK'
      BY <2>1, <2>2 DEF IInv, TypeOK, TryLock, feed, db
    <2>4. LockInv'
      BY <1>1, <2>2, ConstAssumption DEF IInv, TypeOK, LockInv, InJob
    <2>5. JobInv'
      BY <2>2 DEF IInv, TypeOK, JobInv, JobOK, TryLock, feed
    <2>6. QED
      BY <2>3, <2>4, <2>5 DEF IInv
  <1>2. CASE lock # None
    <2>1. EndSession(p) /\ UNCHANGED <<feed, db, tx, faults>>
      BY <1>2 DEF TryLock
    <2>2. TypeOK'
      BY <2>1, NoValuesTyped DEF IInv, TypeOK, EndSession, feed, db
    <2>3. QED
      BY <2>1, <2>2, EndSessionInv DEF IInv, feed
  <1>3. QED
    BY <1>1, <1>2

\* A step of session p that moves only p, inside the job.
LEMMA LocalStep ==
  ASSUME IInv, NEW p \in Procs, InJob(p), NEW j \in Job,
         NEW c \in {"service", "day", "rows", "record", "unlock"},
         job' = [job EXCEPT ![p] = j], pc' = [pc EXCEPT ![p] = c],
         UNCHANGED <<fcc, lock>>, JobOK(c, j)
  PROVE  /\ job' \in [Procs -> Job]
         /\ pc' \in [Procs -> {"idle", "lock", "service", "day", "rows", "record", "unlock"}]
         /\ LockInv' /\ JobInv'
  <1>1. job \in [Procs -> Job]
    BY DEF IInv, TypeOK
  <1>2. pc \in [Procs -> {"idle", "lock", "service", "day", "rows", "record", "unlock"}]
    BY DEF IInv, TypeOK
  <1>3. LockInv'
    BY <1>2 DEF IInv, LockInv, InJob
  <1>4. JobInv'
    <2> SUFFICES ASSUME NEW q \in Procs
                 PROVE  JobOK(pc[q], job[q])'
      BY DEF JobInv
    <2>1. CASE q = p
      BY <2>1, <1>1, <1>2 DEF JobOK
    <2>2. CASE q # p
      BY <2>2, <1>1, <1>2 DEF IInv, JobInv, JobOK
    <2>3. QED
      BY <2>1, <2>2
  <1>5. QED
    BY <1>1, <1>2, <1>3, <1>4

\* The locals stay typed when the job goes to the next service ...
LEMMA NextServiceTyped ==
  ASSUME NEW r \in Job, r.svc \in Service
  PROVE  [r EXCEPT !.svc = @ + 1, !.todo = {}, !.done = {}] \in Job
  <1>1. r.svc + 1 \in 1..(NServices + 1)
    BY ConstAssumption DEF Service
  <1>2. QED
    BY <1>1 DEF Job

\* ... and so does the whole state, wherever in the job that happens.
LEMMA NextServiceInv ==
  ASSUME IInv, NEW p \in Procs, InJob(p), job[p].svc \in Service,
         job' = NextService(p), pc' = [pc EXCEPT ![p] = "service"],
         UNCHANGED <<feed, db, lock, tx>>, faults' \in Nat
  PROVE  IInv'
  <1> DEFINE j == [job[p] EXCEPT !.svc = @ + 1, !.todo = {}, !.done = {}]
  <1>1. j \in Job
    BY NextServiceTyped DEF IInv, TypeOK
  <1>2. job' = [job EXCEPT ![p] = j]
    BY DEF IInv, TypeOK, NextService
  <1>3. JobOK("service", j)
    BY DEF JobOK
  <1> HIDE DEF j
  <1>4. /\ job' \in [Procs -> Job]
        /\ pc' \in [Procs -> {"idle", "lock", "service", "day", "rows", "record", "unlock"}]
        /\ LockInv' /\ JobInv'
    BY <1>1, <1>2, <1>3, LocalStep DEF feed
  <1>5. QED
    BY <1>4 DEF IInv, TypeOK, feed, db

\* A service none of whose files is asked for is skipped.
LEMMA SkipServiceInv ==
  ASSUME IInv, NEW p \in Procs, SkipService(p)
  PROVE  IInv'
  <1>1. pc' = [pc EXCEPT ![p] = "service"]
    BY DEF IInv, TypeOK, SkipService
  <1>2. QED
    BY <1>1, NextServiceInv DEF IInv, TypeOK, SkipService, InJob

\* The pending days of a service are done.
LEMMA EndServiceInv ==
  ASSUME IInv, NEW p \in Procs, EndService(p)
  PROVE  IInv'
  BY NextServiceInv DEF IInv, TypeOK, JobInv, JobOK, EndService, InJob

\* Metadata a session may plan with.
Honest(meta, s) ==
  meta \subseteq {m \in Plan : m.lm <= fcc[s][m.day] /\ fcc[s][m.day] > 0}

\* A plan whose Last-Modified is not ahead of what FCC serves is honest.
LEMMA HonestPlan ==
  ASSUME NEW s \in Service, NEW d \in Days, NEW n \in 0..MaxVersion, NEW b \in BOOLEAN,
         n <= fcc[s][d], fcc[s][d] > 0
  PROVE  [day |-> d, lm |-> n, dated |-> b] \in {m \in Plan : m.lm <= fcc[s][m.day] /\ fcc[s][m.day] > 0}
  <1> DEFINE r == [day |-> d, lm |-> n, dated |-> b]
  <1>1. r.day = d /\ r.lm = n
    OBVIOUS
  <1>2. r \in Plan
    BY DEF Plan
  <1>3. QED
    BY <1>1, <1>2

\* Planning a service from honest metadata, whether or not anything is pending.
LEMMA PlanWithInv ==
  ASSUME IInv, NEW p \in Procs, pc[p] = "service", job[p].svc \in Service,
         NEW meta, Honest(meta, job[p].svc), PlanWith(p, meta), faults' \in Nat
  PROVE  IInv'
  <1> DEFINE s == job[p].svc
             pending == {m \in meta : IsPending(job[p], s, m)}
             j == [job[p] EXCEPT !.todo = pending, !.done = Done(s, job[p].earliest)]
  <1>1. CASE pending = {}
    <2>1. pc' = [pc EXCEPT ![p] = "service"]
      BY <1>1 DEF PlanWith, IInv, TypeOK
    <2>2. job' = NextService(p) /\ UNCHANGED <<feed, db, lock, tx>>
      BY <1>1 DEF PlanWith
    <2>3. QED
      BY <2>1, <2>2, NextServiceInv DEF InJob
  <1>2. CASE pending # {}
    <2>1. job[p] \in Job /\ pending \subseteq Plan /\ Done(s, job[p].earliest) \subseteq Days
      BY DEF IInv, TypeOK, Honest, Done
    <2>2. j \in Job
      BY <2>1 DEF Job
    <2>3. job' = [job EXCEPT ![p] = j] /\ pc' = [pc EXCEPT ![p] = "day"]
      BY <1>2 DEF PlanWith, IInv, TypeOK
    <2>4. j.svc = s /\ j.todo = pending
      BY <2>1 DEF Job
    <2>5. JobOK("day", j)
      BY <2>4 DEF JobOK, Honest
    <2>6. UNCHANGED <<feed, db, lock, tx>>
      BY DEF PlanWith
    <2> HIDE DEF j
    <2>7. /\ job' \in [Procs -> Job]
          /\ pc' \in [Procs -> {"idle", "lock", "service", "day", "rows", "record", "unlock"}]
          /\ LockInv' /\ JobInv'
      BY <2>2, <2>3, <2>5, <2>6, LocalStep DEF InJob, feed
    <2>8. QED
      BY <2>6, <2>7 DEF IInv, TypeOK, feed, db
  <1>3. QED
    BY <1>1, <1>2

\* All the metadata a job can get is honest: the truth, a lagging listing, failed
\* HEADs and undated files.
LEMMA PlanServiceInv ==
  ASSUME IInv, NEW p \in Procs, PlanService(p)
  PROVE  IInv'
  <1> DEFINE s == job[p].svc
             j == job[p]
  <1>1. pc[p] = "service" /\ s \in Service /\ faults' \in Nat
    BY DEF PlanService, IInv, TypeOK, Fault
  <1>2. \A d \in Days : fcc[s][d] \in 0..MaxVersion
    BY <1>1 DEF IInv, TypeOK
  <1>3. \A d \in Candidates(j, s) : d \in Days /\ fcc[s][d] > 0
    BY DEF Candidates, Available
  <1>4. Honest(TrueMeta(j, s), s)
    <2>1. ASSUME NEW d \in Candidates(j, s)
          PROVE  fcc[s][d] \in 0..MaxVersion /\ fcc[s][d] <= fcc[s][d]
      <3>1. MaxVersion \in Nat
        BY ConstAssumption
      <3>2. fcc[s][d] \in 0..MaxVersion
        BY <1>2, <1>3
      <3> HIDE DEF s, j
      <3>3. QED
        BY <3>1, <3>2
    <2>2. QED
      BY <1>1, <1>3, <2>1, HonestPlan, Zenon DEF Honest, TrueMeta
  <1>5. Honest(UndatedMeta(j, s), s)
    <2>1. 0 \in 0..MaxVersion /\ \A d \in Candidates(j, s) : 0 <= fcc[s][d]
      BY <1>2, <1>3, ConstAssumption
    <2>2. QED
      BY <1>1, <1>3, <2>1, HonestPlan, Zenon DEF Honest, UndatedMeta
  <1>6. ASSUME NEW shown \in [Days -> 0..MaxVersion], \A d \in Days : shown[d] <= fcc[s][d]
        PROVE  Honest(ShownMeta(j, s, shown), s)
    BY <1>1, <1>3, <1>6, HonestPlan, Zenon DEF Honest, ShownMeta
  <1>7. PICK meta : Honest(meta, s) /\ PlanWith(p, meta)
    <2>1. CASE PlanWith(p, TrueMeta(j, s))
      BY <2>1, <1>4
    <2>2. CASE \E shown \in [Days -> 0..MaxVersion] :
                 /\ \A d \in Days : shown[d] <= fcc[s][d]
                 /\ PlanWith(p, ShownMeta(j, s, shown))
      BY <2>2, <1>6
    <2>3. CASE \E seen, blind \in SUBSET Candidates(j, s) :
                 PlanWith(p, {m \in TrueMeta(j, s) : m.day \in seen \ blind}
                             \cup {m \in UndatedMeta(j, s) : m.day \in blind})
      <3>1. PICK seen, blind :
              PlanWith(p, {m \in TrueMeta(j, s) : m.day \in seen \ blind}
                          \cup {m \in UndatedMeta(j, s) : m.day \in blind})
        BY <2>3
      <3>2. Honest({m \in TrueMeta(j, s) : m.day \in seen \ blind}
                   \cup {m \in UndatedMeta(j, s) : m.day \in blind}, s)
        BY <1>4, <1>5 DEF Honest
      <3>3. QED
        BY <3>1, <3>2
    <2>4. QED
      BY <2>1, <2>2, <2>3 DEF PlanService
  <1>8. QED
    BY <1>1, <1>7, PlanWithInv

\* The content downloaded is at least as new as the metadata planned with.
LEMMA DownloadInv ==
  ASSUME IInv, NEW p \in Procs, Download(p)
  PROVE  IInv'
  <1> DEFINE s == job[p].svc
  <1>1. job[p] \in Job /\ pc[p] = "day" /\ s \in Service
    BY DEF IInv, TypeOK, JobInv, JobOK, Download
  <1>2. UNCHANGED <<feed, db, lock, tx, faults>>
    BY DEF Download
  <1>3. PICK m \in First(job[p].todo), readable \in BOOLEAN :
          LET v    == fcc[s][m.day]
              old  == m.day < job[p].earliest \/ m.day \in job[p].done
              rest == [job EXCEPT ![p].todo = @ \ {m}]
          IN  IF ~m.dated /\ (old \/ ~readable)
                THEN job' = rest /\ pc' = pc
                ELSE /\ job' = [rest EXCEPT ![p].day = m.day, ![p].sha = v,
                                            ![p].lm = IF m.dated THEN m.lm ELSE v]
                     /\ pc' = [pc EXCEPT ![p] = "rows"]
    BY DEF Download
  <1> DEFINE v == fcc[s][m.day]
             lm == IF m.dated THEN m.lm ELSE v
             j0 == [job[p] EXCEPT !.todo = @ \ {m}]
             j1 == [j0 EXCEPT !.day = m.day, !.sha = v, !.lm = lm]
  <1>4. m \in job[p].todo /\ m \in Plan
    BY <1>1 DEF First, Job
  <1>5. m.day \in Days /\ v \in 0..MaxVersion /\ v > 0 /\ lm \in 0..MaxVersion /\ lm <= v
    <2>1. m.day \in Days /\ m.lm \in 0..MaxVersion
      BY <1>4 DEF Plan
    <2>2. v \in 0..MaxVersion
      BY <1>1, <2>1 DEF IInv, TypeOK
    <2>3. m.lm <= v /\ v > 0
      BY <1>1, <1>4 DEF IInv, JobInv, JobOK
    <2>4. QED
      BY <2>1, <2>2, <2>3, ConstAssumption
  <1>6. j0 \in Job
    BY <1>1 DEF Job
  <1>7. j1 \in Job
    BY <1>5, <1>6 DEF Job
  <1>8. JobOK("day", j0)
    BY <1>1 DEF IInv, JobInv, JobOK, Job
  <1>9. /\ j1.svc = s /\ j1.todo \subseteq job[p].todo
        /\ j1.day = m.day /\ j1.sha = v /\ j1.lm = lm
    BY <1>1 DEF Job
  <1>10. JobOK("rows", j1)
    <2>1. v \in Version
      BY <1>5 DEF Version
    <2>2. \A n \in j1.todo : n.lm <= fcc[s][n.day] /\ fcc[s][n.day] > 0
      BY <1>1, <1>9 DEF IInv, JobInv, JobOK
    <2> HIDE DEF j1, v, lm
    <2>3. lm <= v /\ v <= v
      BY <1>5, <2>1 DEF Version
    <2>4. v = fcc[s][m.day]
      BY DEF v
    <2>5. QED
      BY <1>1, <1>5, <1>9, <2>1, <2>2, <2>3, <2>4 DEF JobOK
  <1>11. \/ job' = [job EXCEPT ![p] = j0] /\ pc' = [pc EXCEPT ![p] = "day"]
         \/ job' = [job EXCEPT ![p] = j1] /\ pc' = [pc EXCEPT ![p] = "rows"]
    BY <1>1, <1>3 DEF IInv, TypeOK
  <1> HIDE DEF j0, j1
  <1>12. /\ job' \in [Procs -> Job]
         /\ pc' \in [Procs -> {"idle", "lock", "service", "day", "rows", "record", "unlock"}]
         /\ LockInv' /\ JobInv'
    BY <1>1, <1>2, <1>6, <1>7, <1>8, <1>10, <1>11, LocalStep DEF InJob, feed
  <1>13. QED
    BY <1>2, <1>12 DEF IInv, TypeOK, feed, db

\* A step of ingest_file's loop moves only the row index.
LEMMA RowStep ==
  ASSUME IInv, NEW p \in Procs, pc[p] = "rows", job' = [job EXCEPT ![p].row = @ + 1],
         UNCHANGED <<feed, db, lock, pc, faults>>
  PROVE  /\ job' \in [Procs -> Job] /\ LockInv' /\ JobInv'
         /\ tx' \in [Procs -> Tx] => IInv'
  <1> DEFINE j == [job[p] EXCEPT !.row = @ + 1]
  <1>1. job[p] \in Job
    BY DEF IInv, TypeOK
  <1>2. j \in Job
    BY <1>1 DEF Job
  <1>3. JobOK("rows", j)
    BY <1>1 DEF IInv, JobInv, JobOK, Job
  <1>4. job' = [job EXCEPT ![p] = j] /\ pc' = [pc EXCEPT ![p] = "rows"]
    BY DEF IInv, TypeOK
  <1> HIDE DEF j
  <1>5. job' \in [Procs -> Job] /\ LockInv' /\ JobInv'
    BY <1>2, <1>3, <1>4, LocalStep DEF InJob, feed
  <1>6. QED
    BY <1>5 DEF IInv, TypeOK, feed, db

\* A row of a keyed table, with or without an event.
LEMMA UpsertRowInv ==
  ASSUME IInv, NEW p \in Procs, UpsertRow(p)
  PROVE  IInv'
  <1> DEFINE j == job[p]
             r == RowsOf(j)[j.row]
             old == Existing(p, r.key)
             ev == [day |-> j.day, old |-> old, new |-> r.val]
  <1>1. j \in Job /\ tx[p] \in Tx /\ j.svc \in Service /\ j.day \in Days /\ j.sha \in Version
    BY DEF IInv, TypeOK, JobInv, JobOK, UpsertRow
  <1>2. r \in EnRow
    <2>1. EnRows[j.day][j.sha] \in Seq(EnRow)
      BY <1>1, ConstAssumption
    <2>2. RowsOf(j) = EnRows[j.day][j.sha]
      BY DEF UpsertRow, RowsOf
    <2>3. j.row \in Nat \ {0} /\ j.row <= Len(RowsOf(j))
      BY <1>1 DEF UpsertRow, Job
    <2>4. QED
      BY <2>1, <2>2, <2>3
  <1>3. r.key \in Keys /\ r.val \in Vals
    BY <1>2 DEF EnRow
  <1>4. old \in Stored
    BY <1>1, <1>3 DEF IInv, TypeOK, Tx, Existing
  <1> HIDE DEF r, old
  <1>5. ev \in Event
    BY <1>1, <1>3, <1>4 DEF Event
  <1> HIDE DEF ev
  <1>6. tx[p].tab \in [Keys -> Stored] /\ tx[p].evs \in [Keys -> Seq(Event)]
    BY <1>1 DEF Tx
  <1>7. [tx[p].tab EXCEPT ![r.key] = r.val] \in [Keys -> Stored]
    BY <1>3, <1>6 DEF Stored
  <1>8. [tx[p].evs EXCEPT ![r.key] = IF old = r.val THEN @ ELSE Append(@, ev)] \in [Keys -> Seq(Event)]
    BY <1>3, <1>5, <1>6
  <1>9. [tx[p] EXCEPT !.tab[r.key] = r.val,
                      !.evs[r.key] = IF old = r.val THEN @ ELSE Append(@, ev)] \in Tx
    BY <1>1, <1>7, <1>8 DEF Tx
  <1>10. tx' = [tx EXCEPT ![p] = [tx[p] EXCEPT !.tab[r.key] = r.val,
                      !.evs[r.key] = IF old = r.val THEN @ ELSE Append(@, ev)]]
    BY DEF UpsertRow, IInv, TypeOK, r, old, ev
  <1>11. tx' \in [Procs -> Tx]
    BY <1>9, <1>10 DEF IInv, TypeOK
  <1>12. QED
    BY <1>11, RowStep DEF UpsertRow

\* A row of an append-only table.
LEMMA InsertRowInv ==
  ASSUME IInv, NEW p \in Procs, InsertRow(p)
  PROVE  IInv'
  <1> DEFINE j == job[p]
             l == RowsOf(j)[j.row]
  <1>1. j \in Job /\ tx[p] \in Tx /\ j.day \in Days /\ j.sha \in Version
    BY DEF IInv, TypeOK, JobInv, JobOK, InsertRow
  <1>2. l \in Lines
    <2>1. HsRows[j.day][j.sha] \in Seq(Lines)
      BY <1>1, ConstAssumption
    <2>2. RowsOf(j) = HsRows[j.day][j.sha]
      BY DEF InsertRow, RowsOf
    <2>3. j.row \in Nat \ {0} /\ j.row <= Len(RowsOf(j))
      BY <1>1 DEF InsertRow, Job
    <2>4. QED
      BY <2>1, <2>2, <2>3
  <1> HIDE DEF l
  <1>3. [tx[p] EXCEPT !.log[l] = @ + 1] \in Tx
    <2>1. tx[p].log \in [Lines -> Nat]
      BY <1>1 DEF Tx
    <2>2. [tx[p].log EXCEPT ![l] = @ + 1] \in [Lines -> Nat]
      BY <1>2, <2>1
    <2>3. QED
      BY <1>1, <2>2 DEF Tx
  <1>4. tx' = [tx EXCEPT ![p] = [tx[p] EXCEPT !.log[l] = @ + 1]]
    BY DEF InsertRow, IInv, TypeOK, l
  <1>5. tx' \in [Procs -> Tx]
    BY <1>3, <1>4 DEF IInv, TypeOK
  <1>6. QED
    BY <1>5, RowStep DEF InsertRow

\* COMMIT merges the session's transaction into the tables, which stay typed.
LEMMA CommitTyped ==
  ASSUME IInv, NEW p \in Procs, job[p].svc \in Service, Commit(p)
  PROVE  /\ table' \in [Service -> [Keys -> Stored]]
         /\ events' \in [Service -> [Keys -> Seq(Event)]]
         /\ log' \in [Service -> [Lines -> Nat]]
         /\ tx' \in [Procs -> Tx]
  <1> DEFINE s == job[p].svc
  <1>1. /\ table \in [Service -> [Keys -> Stored]]
        /\ events \in [Service -> [Keys -> Seq(Event)]]
        /\ log \in [Service -> [Lines -> Nat]]
        /\ tx[p].tab \in [Keys -> Stored] /\ tx[p].evs \in [Keys -> Seq(Event)]
        /\ tx[p].log \in [Lines -> Nat]
    BY DEF IInv, TypeOK, Tx
  <1>2. [k \in Keys |-> IF tx[p].tab[k] # None THEN tx[p].tab[k] ELSE table[s][k]] \in [Keys -> Stored]
    BY <1>1
  <1>3. [k \in Keys |-> events[s][k] \o tx[p].evs[k]] \in [Keys -> Seq(Event)]
    BY <1>1
  <1>4. [l \in Lines |-> Capped(log[s][l] + tx[p].log[l])] \in [Lines -> Nat]
    BY <1>1, ConstAssumption DEF Capped
  <1>5. tx' \in [Procs -> Tx]
    BY NoValuesTyped DEF IInv, TypeOK, Commit
  <1>6. QED
    BY <1>1, <1>2, <1>3, <1>4, <1>5 DEF Commit

\* The locals stay typed when ingest_file is done with the first file ...
LEMMA NextFileTyped ==
  ASSUME NEW r \in Job
  PROVE  [r EXCEPT !.file = 2, !.row = 1] \in Job
  <1>1. 1 \in Nat \ {0}
    OBVIOUS
  <1>2. QED
    BY <1>1 DEF Job

\* ... and when the day is recorded.
LEMMA DayDoneTyped ==
  ASSUME NEW r \in Job
  PROVE  [r EXCEPT !.any = TRUE, !.day = None, !.lm = 0, !.sha = 0, !.file = 1, !.row = 1] \in Job
  <1>1. 0 \in 0..MaxVersion /\ 1 \in Nat \ {0}
    BY ConstAssumption
  <1>2. [r EXCEPT !.any = TRUE, !.day = None] \in Job
    BY DEF Job
  <1>3. [[r EXCEPT !.any = TRUE, !.day = None] EXCEPT !.lm = 0, !.sha = 0] \in Job
    BY <1>1, <1>2 DEF Job
  <1>4. QED
    BY <1>1, <1>3 DEF Job

\* ingest_file's one commit, at the end of each file.
LEMMA CommitFileInv ==
  ASSUME IInv, NEW p \in Procs, CommitFile(p)
  PROVE  IInv'
  <1> DEFINE j0 == job[p]
             j1 == [job[p] EXCEPT !.file = 2, !.row = 1]
  <1>1. j0 \in Job /\ JobOK("rows", j0) /\ JobOK("record", j0) /\ j0.svc \in Service
    BY DEF IInv, TypeOK, JobInv, JobOK, CommitFile
  <1>2. j1 \in Job
    <2>1. job[p] \in Job
      BY <1>1
    <2>2. QED
      BY <2>1, NextFileTyped
  <1>3. JobOK("rows", j1)
    BY <1>1 DEF JobOK, Job
  <1>4. \/ job' = [job EXCEPT ![p] = j1] /\ pc' = [pc EXCEPT ![p] = "rows"]
        \/ job' = [job EXCEPT ![p] = j0] /\ pc' = [pc EXCEPT ![p] = "record"]
    BY DEF CommitFile, IInv, TypeOK
  <1>5. UNCHANGED <<feed, runs, views, lock, faults>> /\ Commit(p) /\ InJob(p)
    BY DEF CommitFile, InJob
  <1> HIDE DEF j0, j1
  <1>6. /\ job' \in [Procs -> Job]
        /\ pc' \in [Procs -> {"idle", "lock", "service", "day", "rows", "record", "unlock"}]
        /\ LockInv' /\ JobInv'
    BY <1>1, <1>2, <1>3, <1>4, <1>5, LocalStep DEF feed
  <1>7. /\ table' \in [Service -> [Keys -> Stored]]
        /\ events' \in [Service -> [Keys -> Seq(Event)]]
        /\ log' \in [Service -> [Lines -> Nat]]
        /\ tx' \in [Procs -> Tx]
    BY <1>1, <1>5, CommitTyped DEF j0
  <1>8. QED
    BY <1>5, <1>6, <1>7 DEF IInv, TypeOK, feed

\* record_ingest_run, with the metadata and the content of the day.
LEMMA RecordRunInv ==
  ASSUME IInv, NEW p \in Procs, RecordRun(p)
  PROVE  IInv'
  <1> DEFINE j == [job[p] EXCEPT !.any = TRUE, !.day = None, !.lm = 0, !.sha = 0,
                                 !.file = 1, !.row = 1]
             r == [lm |-> job[p].lm, sha |-> job[p].sha,
                   status |-> VerifyAgainstCounts(job[p].day, job[p].sha)]
  <1>1. job[p] \in Job /\ JobOK("record", job[p]) /\ job[p].svc \in Service
    BY DEF IInv, TypeOK, JobInv, JobOK, RecordRun
  <1>2. j \in Job
    <2>1. job[p] \in Job
      BY <1>1
    <2>2. QED
      BY <2>1, DayDoneTyped
  <1>3. JobOK("day", j)
    BY <1>1 DEF JobOK, Job
  <1>4. r \in Run
    BY <1>1 DEF Run, Job, VerifyAgainstCounts
  <1>5. job' = [job EXCEPT ![p] = j] /\ pc' = [pc EXCEPT ![p] = "day"]
    BY DEF RecordRun, IInv, TypeOK
  <1>6. runs' = [runs EXCEPT ![job[p].svc][job[p].day] = r]
    BY DEF RecordRun
  <1>7. UNCHANGED <<feed, table, log, events, views, lock, tx, faults>> /\ InJob(p)
    BY DEF RecordRun, InJob
  <1> HIDE DEF j, r
  <1>8. /\ job' \in [Procs -> Job]
        /\ pc' \in [Procs -> {"idle", "lock", "service", "day", "rows", "record", "unlock"}]
        /\ LockInv' /\ JobInv'
    BY <1>2, <1>3, <1>5, <1>7, LocalStep DEF feed
  <1>9. runs' \in [Service -> [Days -> Run \cup {None}]]
    BY <1>1, <1>4, <1>6 DEF IInv, TypeOK, JobOK
  <1>10. QED
    BY <1>7, <1>8, <1>9 DEF IInv, TypeOK, feed

\* The materialized views are refreshed at the end of a job that ingested.
LEMMA RefreshInv ==
  ASSUME IInv, NEW p \in Procs, Refresh(p)
  PROVE  IInv'
  <1>1. job[p] \in Job /\ JobOK("unlock", job[p]) /\ InJob(p)
    BY DEF IInv, TypeOK, JobOK, InJob, Refresh
  <1>2. job' = [job EXCEPT ![p] = job[p]] /\ pc' = [pc EXCEPT ![p] = "unlock"]
    BY DEF Refresh, IInv, TypeOK
  <1>3. /\ job' \in [Procs -> Job]
        /\ pc' \in [Procs -> {"idle", "lock", "service", "day", "rows", "record", "unlock"}]
        /\ LockInv' /\ JobInv'
    BY <1>1, <1>2, LocalStep DEF Refresh, feed
  <1>4. QED
    BY <1>3 DEF IInv, TypeOK, Refresh, feed

\* The lock is released when the job returns.
LEMMA UnlockInv ==
  ASSUME IInv, NEW p \in Procs, Unlock(p)
  PROVE  IInv'
  <1>1. LockInv' /\ JobInv'
    BY EndSessionInv DEF Unlock, feed
  <1>2. TypeOK'
    BY NoValuesTyped DEF IInv, TypeOK, Unlock, EndSession, feed, db
  <1>3. QED
    BY <1>1, <1>2 DEF IInv

\* The session dies: its transaction and its lock go with it.
LEMMA AbortInv ==
  ASSUME IInv, NEW p \in Procs, Abort(p)
  PROVE  IInv'
  <1>1. LockInv' /\ JobInv'
    BY EndSessionInv DEF Abort, feed
  <1>2. TypeOK'
    BY NoValuesTyped DEF IInv, TypeOK, Abort, EndSession, Fault, feed, db
  <1>3. QED
    BY <1>1, <1>2 DEF IInv

\* An exception inside ingest_file: the lock's `finally` commits what was written.
LEMMA RaiseInFileInv ==
  ASSUME IInv, NEW p \in Procs, RaiseInFile(p)
  PROVE  IInv'
  <1>1. LockInv' /\ JobInv'
    BY EndSessionInv DEF RaiseInFile, feed
  <1>2. /\ table' \in [Service -> [Keys -> Stored]]
        /\ events' \in [Service -> [Keys -> Seq(Event)]]
        /\ log' \in [Service -> [Lines -> Nat]]
        /\ tx' \in [Procs -> Tx]
    BY CommitTyped DEF IInv, JobInv, JobOK, RaiseInFile
  <1>3. /\ lock' \in Procs \cup {None} /\ job' \in [Procs -> Job] /\ faults' \in Nat
        /\ pc' \in [Procs -> {"idle", "lock", "service", "day", "rows", "record", "unlock"}]
    BY NoValuesTyped DEF IInv, TypeOK, RaiseInFile, EndSession, Fault
  <1>4. UNCHANGED <<feed, runs, views>>
    BY DEF RaiseInFile
  <1>5. TypeOK'
    BY <1>2, <1>3, <1>4 DEF IInv, TypeOK, feed
  <1>6. QED
    BY <1>1, <1>5 DEF IInv

\* A step that changes nothing.
LEMMA StutterInv == IInv /\ UNCHANGED vars => IInv'
  BY DEF IInv, TypeOK, LockInv, InJob, JobInv, JobOK, vars, feed, db, sess

\* Every step keeps the invariant.
LEMMA StepInv == IInv /\ [Next]_vars => IInv'
  <1> SUFFICES ASSUME IInv, [Next]_vars PROVE IInv'
    OBVIOUS
  <1>1. CASE Tick
    BY <1>1, TickInv
  <1>2. ASSUME NEW s \in Service, NEW d \in Days, Publish(s, d) PROVE IInv'
    BY <1>2, PublishInv
  <1>3. ASSUME NEW p \in Procs, BeginSweep(p) \/ BeginTargeted(p) \/ BeginCatchUp(p) PROVE IInv'
    <2>1. AllDays \in [Service -> SUBSET Days]
      BY DEF AllDays
    <2>2. [s \in Service |-> Outstanding(s)] \in [Service -> SUBSET Days]
      BY DEF Outstanding
    <2>3. QED
      BY <1>3, <2>1, <2>2, BeginInv DEF BeginSweep, BeginTargeted, BeginCatchUp
  <1>4. ASSUME NEW p \in Procs, Step(p) PROVE IInv'
    BY <1>4, TryLockInv, SkipServiceInv, PlanServiceInv, DownloadInv, EndServiceInv,
       UpsertRowInv, InsertRowInv, CommitFileInv, RecordRunInv, RefreshInv, UnlockInv DEF Step
  <1>5. ASSUME NEW p \in Procs, Abort(p) \/ RaiseInFile(p) PROVE IInv'
    BY <1>5, AbortInv, RaiseInFileInv
  <1>6. CASE UNCHANGED vars
    BY <1>6, StutterInv
  <1>7. Pollers \subseteq Procs
    BY ConstAssumption
  <1>8. QED
    BY <1>1, <1>2, <1>3, <1>4, <1>5, <1>6, <1>7 DEF Next

\* The invariant the results below rest on.
THEOREM Invariance == Spec => []IInv
  BY InitInv, StepInv, PTL DEF Spec

\* Every table, the feed and every session's locals keep their shape.
THEOREM TypeCorrect == Spec => []TypeOK
  <1>1. IInv => TypeOK
    BY DEF IInv
  <1>2. QED
    BY <1>1, Invariance, PTL

\* Two ingests never overlap, and the lock is never held by a session that is not
\* ingesting: db.py, ingest_advisory_lock, with its automatic release on death.
THEOREM Exclusion == Spec => []MutualExclusion
  <1>1. IInv => MutualExclusion
    BY ConstAssumption DEF IInv, TypeOK, LockInv, MutualExclusion
  <1>2. QED
    BY <1>1, Invariance, PTL

\* ingest_runs is written by record_ingest_run and by nothing else.
LEMMA RunsOnlyRecorded ==
  ASSUME [Next]_vars, \A p \in Procs : ~RecordRun(p)
  PROVE  UNCHANGED runs
  <1>1. ASSUME NEW p \in Procs, Step(p) PROVE UNCHANGED runs
    <2>1. CASE TryLock(p) \/ SkipService(p) \/ EndService(p)
      BY <2>1 DEF TryLock, SkipService, EndService, db
    <2>2. CASE PlanService(p)
      BY <2>2 DEF PlanService, PlanWith, db
    <2>3. CASE Download(p) \/ UpsertRow(p) \/ InsertRow(p)
      BY <2>3 DEF Download, UpsertRow, InsertRow, db
    <2>4. CASE CommitFile(p) \/ Refresh(p) \/ Unlock(p)
      BY <2>4 DEF CommitFile, Refresh, Unlock, db
    <2>5. QED
      BY <1>1, <2>1, <2>2, <2>3, <2>4 DEF Step
  <1>2. ASSUME NEW p \in Procs, BeginSweep(p) \/ BeginTargeted(p) \/ BeginCatchUp(p)
        PROVE  UNCHANGED runs
    BY <1>2 DEF BeginSweep, BeginTargeted, BeginCatchUp, Begin, db
  <1>3. ASSUME NEW p \in Procs, Abort(p) \/ RaiseInFile(p) PROVE UNCHANGED runs
    BY <1>3 DEF Abort, RaiseInFile, db
  <1>4. CASE Tick \/ UNCHANGED vars \/ \E s \in Service, d \in Days : Publish(s, d)
    BY <1>4 DEF Tick, Publish, vars, db
  <1>5. QED
    BY <1>1, <1>2, <1>3, <1>4, ConstAssumption DEF Next

\* What ingest_runs says of a file's age never runs ahead of the content that was
\* loaded, so the pending filter still sees a republication it raced with.
THEOREM NoLostRepublication == Spec => []NeverClaimsNewer
  <1>1. Init => NeverClaimsNewer
    BY DEF Init, NeverClaimsNewer
  <1>2. IInv /\ NeverClaimsNewer /\ [Next]_vars => NeverClaimsNewer'
    <2> SUFFICES ASSUME IInv, NeverClaimsNewer, [Next]_vars PROVE NeverClaimsNewer'
      OBVIOUS
    <2>1. ASSUME NEW p \in Procs, RecordRun(p) PROVE NeverClaimsNewer'
      <3> DEFINE r == [lm |-> job[p].lm, sha |-> job[p].sha,
                       status |-> VerifyAgainstCounts(job[p].day, job[p].sha)]
      <3>1. runs' = [runs EXCEPT ![job[p].svc][job[p].day] = r]
        BY <2>1 DEF RecordRun
      <3>2. r.lm <= r.sha
        BY <2>1 DEF IInv, JobInv, JobOK, RecordRun
      <3>3. runs \in [Service -> [Days -> Run \cup {None}]]
        BY DEF IInv, TypeOK
      <3> HIDE DEF r
      <3>4. QED
        BY <3>1, <3>2, <3>3 DEF NeverClaimsNewer
    <2>2. CASE \A p \in Procs : ~RecordRun(p)
      BY <2>2, RunsOnlyRecorded DEF NeverClaimsNewer
    <2>3. QED
      BY <2>1, <2>2
  <1>3. QED
    BY <1>1, <1>2, Invariance, PTL DEF Spec

-----------------------------------------------------------------------------
(* What the job writes: change_events is the exact history of the rows, so  *)
(* the job implements ChangeLog, and a day is recorded only when all of its *)
(* archive is in the database.                                              *)

\* h leads from a to b: each event starts where the one before ended, none is a
\* non-change.  ChangeLog!IsHistory(h, v) is a chain from None to v.
Chain(h, a, b) ==
  /\ h = <<>> => a = b
  /\ h # <<>> => h[1].old = a /\ h[Len(h)].new = b
  /\ \A i \in 1..Len(h) : h[i].old # h[i].new
  /\ \A i \in 1..(Len(h) - 1) : h[i].new = h[i + 1].old

\* What a session has written and not committed: nothing outside a file, and inside
\* one the events that lead from the committed rows to those the session sees.
TxOK(p) ==
  \/ tx[p] = NoTx
  \/ /\ pc[p] = "rows"
     /\ \A k \in Keys : Chain(tx[p].evs[k], table[job[p].svc][k], Existing(p, k))

HistInv == EventsAreHistory /\ \A p \in Procs : TxOK(p)

Taken(h, v) == \E i \in 1..Len(h) : h[i].new = v

\* How far a session is with the archive of its day: the keyed file's rows before the
\* current one are in the database or the transaction, then all of them are in the
\* database and the history file's rows before the current one are in either.
Reached(p) ==
  LET j == job[p]
      en == EnRows[j.day][j.sha]
      hs == HsRows[j.day][j.sha]
  IN  /\ pc[p] \notin {"rows", "record"} => j.file = 1 /\ j.row = 1
      /\ pc[p] = "rows" /\ j.file = 1 =>
           \A i \in 1..Len(en) : i < j.row =>
             HasTaken(j.svc, en[i].key, en[i].val) \/ Taken(tx[p].evs[en[i].key], en[i].val)
      /\ pc[p] = "rows" /\ j.file = 2 =>
           /\ \A i \in 1..Len(en) : HasTaken(j.svc, en[i].key, en[i].val)
           /\ \A i \in 1..Len(hs) : i < j.row => log[j.svc][hs[i]] + tx[p].log[hs[i]] > 0
      /\ pc[p] = "record" => Loaded(j.svc, j.day, j.sha)

LoadInv ==
  /\ RecordedMeansLoaded
  /\ \A s \in Service, d \in Days : runs[s][d] # None => runs[s][d].sha \in Version
  /\ \A p \in Procs : Reached(p)

--------------------------------------------------------------------------------
(* Chains and what they say of a history.                                  *)

\* ChangeLog's histories are the chains that start from nothing.
LEMMA HistoryIsChain ==
  ASSUME NEW h, NEW v
  PROVE  Changes!IsHistory(h, v) <=> Chain(h, None, v)
  BY DEF Changes!IsHistory, Chain

\* No event, no change.
LEMMA ChainEmpty == \A a : Chain(<<>>, a, a)
  BY DEF Chain

\* A session that has written nothing has nothing to lead anywhere.
LEMMA NoTxChains ==
  ASSUME NEW p \in Procs, tx[p] = NoTx, NEW k \in Keys
  PROVE  /\ Existing(p, k) = table[job[p].svc][k]
         /\ Chain(tx[p].evs[k], table[job[p].svc][k], Existing(p, k))
  BY ChainEmpty DEF NoTx, Existing

\* A change of the row the chain has come to makes it longer.
LEMMA ChainAppend ==
  ASSUME NEW h \in Seq(Event), NEW a, NEW b, Chain(h, a, b),
         NEW e \in Event, e.old = b, e.new # b
  PROVE  Chain(Append(h, e), a, e.new)
  <1> DEFINE g == Append(h, e)
  <1>1. /\ g \in Seq(Event) /\ g # <<>> /\ Len(g) = Len(h) + 1
        /\ \A i \in 1..Len(h) : g[i] = h[i]
        /\ g[Len(h) + 1] = e
    BY AppendProperties
  <1>2. Len(h) \in Nat /\ (h # <<>> => Len(h) > 0) /\ (Len(h) > 0 => h # <<>>)
    BY EmptySeq
  <1> HIDE DEF g
  <1>3. g[1].old = a
    <2>1. CASE h = <<>>
      BY <2>1, <1>1, <1>2, EmptySeq DEF Chain
    <2>2. CASE h # <<>>
      BY <2>2, <1>1, <1>2 DEF Chain
    <2>3. QED
      BY <2>1, <2>2
  <1>4. g[Len(g)].new = e.new
    BY <1>1
  <1>5. \A i \in 1..Len(g) : g[i].old # g[i].new
    BY <1>1, <1>2 DEF Chain
  <1>6. ASSUME NEW i \in 1..(Len(g) - 1) PROVE g[i].new = g[i + 1].old
    <2>1. CASE i = Len(h)
      BY <2>1, <1>1, <1>2 DEF Chain
    <2>2. CASE i # Len(h)
      BY <2>2, <1>1, <1>2 DEF Chain
    <2>3. QED
      BY <2>1, <2>2
  <1>7. QED
    BY <1>1, <1>3, <1>4, <1>5, <1>6 DEF Chain, g

\* A chain to b and one from there make one chain: what COMMIT relies on.
LEMMA ChainConcat ==
  ASSUME NEW g \in Seq(Event), NEW h \in Seq(Event), NEW a, NEW b, NEW c,
         Chain(g, a, b), Chain(h, b, c)
  PROVE  Chain(g \o h, a, c)
  <1> DEFINE f == g \o h
  <1>1. /\ f \in Seq(Event) /\ Len(f) = Len(g) + Len(h)
        /\ \A i \in 1..(Len(g) + Len(h)) : f[i] = IF i <= Len(g) THEN g[i] ELSE h[i - Len(g)]
    BY ConcatProperties
  <1>2. Len(g) \in Nat /\ Len(h) \in Nat
    OBVIOUS
  <1>3. CASE g = <<>> \/ h = <<>>
    <2>1. \/ g = <<>> /\ f = h /\ a = b
          \/ h = <<>> /\ f = g /\ b = c
      BY <1>3, ConcatEmptySeq DEF Chain
    <2> HIDE DEF f
    <2>2. Chain(f, a, c)
      BY <2>1
    <2>3. QED
      BY <2>2 DEF f
  <1>4. CASE g # <<>> /\ h # <<>>
    <2>1. Len(g) > 0 /\ Len(h) > 0
      BY <1>4, EmptySeq
    <2> HIDE DEF f
    <2>2. f # <<>> /\ f[1] = g[1] /\ f[Len(f)] = h[Len(h)]
      BY <1>1, <1>2, <2>1, EmptySeq
    <2>3. f[1].old = a /\ f[Len(f)].new = c
      BY <2>2, <1>4 DEF Chain
    <2>4. ASSUME NEW i \in 1..Len(f) PROVE f[i].old # f[i].new
      <3>1. CASE i <= Len(g)
        BY <3>1, <1>1, <1>2 DEF Chain
      <3>2. CASE i > Len(g)
        <4>1. i - Len(g) \in 1..Len(h) /\ f[i] = h[i - Len(g)]
          BY <3>2, <1>1, <1>2
        <4>2. QED
          BY <4>1 DEF Chain
      <3>3. QED
        BY <3>1, <3>2, <1>2
    <2>5. ASSUME NEW i \in 1..(Len(f) - 1) PROVE f[i].new = f[i + 1].old
      <3>1. CASE i < Len(g)
        BY <3>1, <1>1, <1>2 DEF Chain
      <3>2. CASE i = Len(g)
        <4>1. f[i] = g[Len(g)]
          BY <3>2, <1>1, <1>2, <2>1
        <4>2. f[i + 1] = h[1]
          <5>1. i + 1 \in 1..(Len(g) + Len(h)) /\ ~(i + 1 <= Len(g)) /\ (i + 1) - Len(g) = 1
            BY <3>2, <1>2, <2>1
          <5>2. QED
            BY <5>1, <1>1
        <4>3. QED
          BY <4>1, <4>2, <1>4 DEF Chain
      <3>3. CASE i > Len(g)
        <4>1. /\ i - Len(g) \in 1..(Len(h) - 1)
              /\ f[i] = h[i - Len(g)] /\ f[i + 1] = h[(i - Len(g)) + 1]
          BY <3>3, <1>1, <1>2
        <4>2. QED
          BY <4>1 DEF Chain
      <3>4. QED
        BY <3>1, <3>2, <3>3, <1>2
    <2>6. QED
      BY <2>2, <2>3, <2>4, <2>5 DEF Chain, f
  <1>5. QED
    BY <1>3, <1>4

--------------------------------------------------------------------------------
(* change_events is the history of the rows.                               *)

\* The job's mutual exclusion, as the proofs below use it: beside the session that
\* is inside a file nobody has anything uncommitted.
LEMMA OthersIdle ==
  ASSUME IInv, \A q \in Procs : TxOK(q), NEW p \in Procs, InJob(p)
  PROVE  \A q \in Procs \ {p} : tx[q] = NoTx
  BY DEF IInv, LockInv, InJob, TxOK

\* A step that writes nothing, of sessions that have written nothing or go on where
\* they are.
LEMMA HistFrame ==
  ASSUME HistInv, UNCHANGED <<table, events, tx>>,
         \A q \in Procs : \/ tx[q] = NoTx
                          \/ pc[q] = "rows" => pc'[q] = "rows" /\ job'[q].svc = job[q].svc
  PROVE  HistInv'
  <1>1. EventsAreHistory'
    BY DEF HistInv, EventsAreHistory
  <1>2. ASSUME NEW q \in Procs PROVE TxOK(q)'
    BY DEF HistInv, TxOK, Existing
  <1>3. QED
    BY <1>1, <1>2 DEF HistInv

\* COMMIT: the session's chains continue the histories, and nothing stays uncommitted.
LEMMA CommitHist ==
  ASSUME IInv, HistInv, NEW p \in Procs, pc[p] = "rows", Commit(p)
  PROVE  HistInv'
  <1> DEFINE s == job[p].svc
  <1>1. tx' = [tx EXCEPT ![p] = NoTx]
    BY DEF Commit
  <1>2. \A q \in Procs : tx'[q] = NoTx
    BY <1>1, OthersIdle DEF HistInv, IInv, TypeOK, InJob
  <1>3. s \in Service /\ tx[p] \in Tx
    BY DEF IInv, TypeOK, JobInv, JobOK
  <1>4. \A k \in Keys : Chain(tx[p].evs[k], table[s][k], Existing(p, k))
    BY NoTxChains DEF HistInv, TxOK
  <1>5. ASSUME NEW t \in Service, NEW k \in Keys
        PROVE  Changes!IsHistory(events'[t][k], table'[t][k])
    <2>1. Chain(events[t][k], None, table[t][k])
      BY HistoryIsChain DEF HistInv, EventsAreHistory
    <2>2. CASE t # s
      <3>1. events'[t][k] = events[t][k] /\ table'[t][k] = table[t][k]
        BY <2>2 DEF Commit, IInv, TypeOK
      <3>2. QED
        BY <2>1, <3>1, HistoryIsChain
    <2>3. CASE t = s
      <3>1. /\ events'[t][k] = events[s][k] \o tx[p].evs[k]
            /\ table'[t][k] = Existing(p, k)
        BY <2>3, <1>3 DEF Commit, Existing, IInv, TypeOK
      <3>2. events[s][k] \in Seq(Event) /\ tx[p].evs[k] \in Seq(Event)
        BY <1>3 DEF IInv, TypeOK, Tx
      <3>3. Chain(events[s][k] \o tx[p].evs[k], None, Existing(p, k))
        BY <1>4, <2>1, <2>3, <3>2, ChainConcat
      <3>4. QED
        BY <3>1, <3>3, HistoryIsChain
    <2>4. QED
      BY <2>2, <2>3
  <1>6. QED
    BY <1>2, <1>5 DEF HistInv, TxOK, EventsAreHistory

\* The row a session is about to store.
LEMMA CurrentRow ==
  ASSUME IInv, NEW p \in Procs, pc[p] = "rows", job[p].row <= Len(RowsOf(job[p]))
  PROVE  /\ job[p].file = 1 => RowsOf(job[p])[job[p].row] \in EnRow
         /\ job[p].file = 2 => RowsOf(job[p])[job[p].row] \in Lines
         /\ job[p].row \in 1..Len(RowsOf(job[p]))
  <1> DEFINE j == job[p]
  <1>1. j.day \in Days /\ j.sha \in Version /\ j.row \in Nat \ {0}
    BY DEF IInv, TypeOK, JobInv, JobOK, Job
  <1>2. /\ EnRows[j.day][j.sha] \in Seq(EnRow)
        /\ HsRows[j.day][j.sha] \in Seq(Lines)
    BY <1>1, ConstAssumption
  <1>3. QED
    BY <1>1, <1>2 DEF RowsOf

\* One row of a keyed file: the event made of it, if any, goes on where the session's
\* own view of the row is.
LEMMA UpsertRowHist ==
  ASSUME IInv, HistInv, NEW p \in Procs, UpsertRow(p)
  PROVE  HistInv'
  <1> DEFINE r   == RowsOf(job[p])[job[p].row]
             old == Existing(p, r.key)
             ev  == [day |-> job[p].day, old |-> old, new |-> r.val]
             evs == IF old = r.val THEN tx[p].evs[r.key] ELSE Append(tx[p].evs[r.key], ev)
  <1>1. /\ pc[p] = "rows" /\ pc' = pc /\ UNCHANGED <<table, events>>
        /\ job' = [job EXCEPT ![p].row = @ + 1]
        /\ tx' = [tx EXCEPT ![p].tab[r.key] = r.val, ![p].evs[r.key] = evs]
    BY DEF UpsertRow, db
  <1>2. r.key \in Keys /\ r.val \in Vals
    BY CurrentRow DEF UpsertRow, EnRow
  <1>3. tx \in [Procs -> Tx] /\ tx[p] \in Tx /\ job \in [Procs -> Job] /\ job[p] \in Job
    BY DEF IInv, TypeOK
  <1>4. tx[p].tab \in [Keys -> Stored] /\ tx[p].evs \in [Keys -> Seq(Event)]
    BY <1>3 DEF Tx
  <1> HIDE DEF r
  <1>5. job'[p].svc = job[p].svc
    BY <1>1, <1>3 DEF Job
  <1>6. old \in Stored
    BY <1>2, <1>4 DEF Existing, IInv, TypeOK, JobInv, JobOK, UpsertRow
  <1>7. ev \in Event /\ ev.old = old /\ ev.new = r.val
    BY <1>2, <1>6 DEF Event, IInv, JobInv, JobOK, UpsertRow
  <1> HIDE DEF ev
  <1>8. /\ tx'[p].tab = [tx[p].tab EXCEPT ![r.key] = r.val]
        /\ tx'[p].evs = [tx[p].evs EXCEPT ![r.key] = evs]
    BY <1>1, <1>3 DEF Tx
  <1>9. \A k \in Keys : Chain(tx[p].evs[k], table[job[p].svc][k], Existing(p, k))
    BY NoTxChains DEF HistInv, TxOK
  <1>10. ASSUME NEW k \in Keys
         PROVE  Chain(tx'[p].evs[k], table'[job'[p].svc][k], Existing(p, k)')
    <2>1. CASE k # r.key
      <3>1. tx'[p].evs[k] = tx[p].evs[k] /\ tx'[p].tab[k] = tx[p].tab[k]
        BY <2>1, <1>4, <1>8
      <3>2. Existing(p, k)' = Existing(p, k)
        BY <3>1, <1>1, <1>5 DEF Existing
      <3>3. QED
        BY <3>1, <3>2, <1>1, <1>5, <1>9
    <2>2. CASE k = r.key
      <3>1. tx'[p].evs[k] = evs /\ tx'[p].tab[k] = r.val
        BY <2>2, <1>4, <1>8
      <3>2. Existing(p, k)' = r.val
        BY <3>1, <1>2, ConstAssumption DEF Existing
      <3>3. Chain(evs, table[job[p].svc][k], r.val)
        <4>1. CASE old = r.val
          BY <4>1, <2>2, <1>9
        <4>2. CASE old # r.val
          <5>1. Chain(tx[p].evs[k], table[job[p].svc][k], old) /\ tx[p].evs[k] \in Seq(Event)
            BY <2>2, <1>4, <1>9
          <5>2. Chain(Append(tx[p].evs[k], ev), table[job[p].svc][k], ev.new)
            BY <5>1, <1>7, <4>2, ChainAppend
          <5>3. QED
            BY <5>2, <4>2, <2>2, <1>7
        <4>3. QED
          BY <4>1, <4>2
      <3>4. QED
        BY <3>1, <3>2, <3>3, <1>1, <1>5
    <2>3. QED
      BY <2>1, <2>2
  <1>11. \A q \in Procs \ {p} : tx'[q] = NoTx
    BY <1>1, <1>3, OthersIdle DEF HistInv, InJob
  <1>12. QED
    BY <1>1, <1>10, <1>11 DEF HistInv, EventsAreHistory, TxOK

\* One row of an append-only file makes no event.
LEMMA InsertRowHist ==
  ASSUME IInv, HistInv, NEW p \in Procs, InsertRow(p)
  PROVE  HistInv'
  <1> DEFINE l == RowsOf(job[p])[job[p].row]
  <1>1. /\ pc[p] = "rows" /\ pc' = pc /\ UNCHANGED <<table, events>>
        /\ job' = [job EXCEPT ![p].row = @ + 1]
        /\ tx' = [tx EXCEPT ![p].log[l] = @ + 1]
    BY DEF InsertRow, db
  <1>2. tx \in [Procs -> Tx] /\ tx[p] \in Tx /\ job \in [Procs -> Job] /\ job[p] \in Job
    BY DEF IInv, TypeOK
  <1> HIDE DEF l
  <1>3. job'[p].svc = job[p].svc
    BY <1>1, <1>2 DEF Job
  <1>4. tx'[p].tab = tx[p].tab /\ tx'[p].evs = tx[p].evs
    BY <1>1, <1>2 DEF Tx
  <1>5. \A k \in Keys : Chain(tx[p].evs[k], table[job[p].svc][k], Existing(p, k))
    BY NoTxChains DEF HistInv, TxOK
  <1>6. \A k \in Keys : Chain(tx'[p].evs[k], table'[job'[p].svc][k], Existing(p, k)')
    BY <1>1, <1>3, <1>4, <1>5 DEF Existing
  <1>7. \A q \in Procs \ {p} : tx'[q] = NoTx
    BY <1>1, <1>2, OthersIdle DEF HistInv, InJob
  <1>8. QED
    BY <1>1, <1>6, <1>7 DEF HistInv, EventsAreHistory, TxOK

\* A step of a session outside the rows of a file writes no row.
LEMMA QuietHist ==
  ASSUME IInv, HistInv, NEW p \in Procs, pc[p] # "rows", UNCHANGED <<table, events, tx>>,
         \A q \in Procs \ {p} : pc'[q] = pc[q] /\ job'[q] = job[q]
  PROVE  HistInv'
  <1>1. tx[p] = NoTx
    BY DEF HistInv, TxOK
  <1>2. QED
    BY <1>1, HistFrame

\* The steps of a session, one action at a time.
LEMMA SessionHist ==
  ASSUME IInv, HistInv, NEW p \in Procs, Step(p)
  PROVE  HistInv'
  <1>1. CASE TryLock(p)
    BY <1>1, QuietHist DEF TryLock, EndSession, db, IInv, TypeOK
  <1>2. CASE SkipService(p)
    BY <1>2, QuietHist DEF SkipService, NextService, db, IInv, TypeOK
  <1>3. CASE PlanService(p)
    BY <1>3, QuietHist DEF PlanService, PlanWith, NextService, db, IInv, TypeOK
  <1>4. CASE Download(p)
    BY <1>4, QuietHist DEF Download, db, IInv, TypeOK
  <1>5. CASE EndService(p)
    BY <1>5, QuietHist DEF EndService, NextService, db, IInv, TypeOK
  <1>6. CASE UpsertRow(p)
    BY <1>6, UpsertRowHist
  <1>7. CASE InsertRow(p)
    BY <1>7, InsertRowHist
  <1>8. CASE CommitFile(p)
    BY <1>8, CommitHist DEF CommitFile
  <1>9. CASE RecordRun(p)
    BY <1>9, QuietHist DEF RecordRun, IInv, TypeOK
  <1>10. CASE Refresh(p)
    BY <1>10, QuietHist DEF Refresh, IInv, TypeOK
  <1>11. CASE Unlock(p)
    BY <1>11, QuietHist DEF Unlock, EndSession, db, IInv, TypeOK
  <1>12. QED
    BY <1>1, <1>2, <1>3, <1>4, <1>5, <1>6, <1>7, <1>8, <1>9, <1>10, <1>11 DEF Step

\* The session dies and Postgres forgets its transaction.
LEMMA AbortHist ==
  ASSUME IInv, HistInv, NEW p \in Procs, Abort(p)
  PROVE  HistInv'
  <1>1. /\ UNCHANGED <<table, events>> /\ tx' = [tx EXCEPT ![p] = NoTx]
        /\ \A q \in Procs \ {p} : pc'[q] = pc[q] /\ job'[q] = job[q]
    BY DEF Abort, EndSession, db, IInv, TypeOK
  <1>2. tx'[p] = NoTx
    BY <1>1 DEF IInv, TypeOK
  <1>3. \A q \in Procs \ {p} : tx'[q] = tx[q]
    BY <1>1 DEF IInv, TypeOK
  <1>4. \A q \in Procs : TxOK(q)'
    BY <1>1, <1>2, <1>3 DEF HistInv, TxOK, Existing
  <1>5. QED
    BY <1>1, <1>4 DEF HistInv, EventsAreHistory

\* A session that begins has written nothing.
LEMMA BeginHist ==
  ASSUME IInv, HistInv, NEW p \in Procs, BeginSweep(p) \/ BeginTargeted(p) \/ BeginCatchUp(p)
  PROVE  HistInv'
  <1>1. /\ pc[p] = "idle" /\ UNCHANGED <<table, events, tx>>
        /\ \A q \in Procs \ {p} : pc'[q] = pc[q] /\ job'[q] = job[q]
    BY DEF BeginSweep, BeginTargeted, BeginCatchUp, Begin, db, IInv, TypeOK
  <1>2. QED
    BY <1>1, QuietHist

\* Every step keeps the log the history of the rows.
LEMMA StepHist == IInv /\ HistInv /\ [Next]_vars => HistInv'
  <1> SUFFICES ASSUME IInv, HistInv, [Next]_vars PROVE HistInv'
    OBVIOUS
  <1>1. CASE Tick \/ UNCHANGED vars \/ \E s \in Service, d \in Days : Publish(s, d)
    BY <1>1, HistFrame DEF Tick, Publish, vars, db, sess
  <1>2. ASSUME NEW p \in Procs, BeginSweep(p) \/ BeginTargeted(p) \/ BeginCatchUp(p) PROVE HistInv'
    BY <1>2, BeginHist
  <1>3. ASSUME NEW p \in Procs, Step(p) \/ Abort(p) \/ RaiseInFile(p) PROVE HistInv'
    BY <1>3, SessionHist, AbortHist, CommitHist DEF RaiseInFile
  <1>4. QED
    BY <1>1, <1>2, <1>3, ConstAssumption DEF Next

\* Nothing is stored, nothing has changed.
LEMMA InitHist == Init => HistInv
  <1> SUFFICES ASSUME Init PROVE HistInv
    OBVIOUS
  <1>1. EventsAreHistory
    BY ChainEmpty, HistoryIsChain DEF Init, EventsAreHistory
  <1>2. QED
    BY <1>1 DEF Init, HistInv, TxOK

\* With the locks, locals and types of DailyIngest_proofs, an inductive invariant.
THEOREM HistoryInvariance == Spec => [](IInv /\ HistInv)
  BY InitInv, InitHist, StepInv, StepHist, PTL DEF Spec

\* change_events of a subject are exactly the history of its stored row, through
\* crashes, half-committed files, reloads and competing sessions (differ.py, ingest.py).
THEOREM EventsAreHistoryAlways == Spec => []EventsAreHistory
  <1>1. HistInv => EventsAreHistory
    BY DEF HistInv
  <1>2. QED
    BY <1>1, HistoryInvariance, PTL

--------------------------------------------------------------------------------
(* The job implements ChangeLog.                                           *)

\* Only a COMMIT in a file touches the tables; a crash, a plan or a bookkeeping step
\* does not.
LEMMA OnlyCommitsWrite ==
  ASSUME [Next]_vars, ~ UNCHANGED <<table, events, log>>
  PROVE  \E p \in Procs : pc[p] = "rows" /\ Commit(p)
  <1>1. ASSUME NEW p \in Procs, Step(p), ~CommitFile(p) PROVE UNCHANGED <<table, events, log>>
    <2>1. CASE TryLock(p) \/ SkipService(p) \/ EndService(p)
      BY <2>1 DEF TryLock, SkipService, EndService, db
    <2>2. CASE PlanService(p)
      BY <2>2 DEF PlanService, PlanWith, db
    <2>3. CASE Download(p) \/ UpsertRow(p) \/ InsertRow(p)
      BY <2>3 DEF Download, UpsertRow, InsertRow, db
    <2>4. CASE RecordRun(p) \/ Refresh(p) \/ Unlock(p)
      BY <2>4 DEF RecordRun, Refresh, Unlock, db
    <2>5. QED
      BY <1>1, <2>1, <2>2, <2>3, <2>4 DEF Step
  <1>2. ASSUME NEW p \in Procs, BeginSweep(p) \/ BeginTargeted(p) \/ BeginCatchUp(p)
        PROVE  UNCHANGED <<table, events, log>>
    BY <1>2 DEF BeginSweep, BeginTargeted, BeginCatchUp, Begin, db
  <1>3. ASSUME Tick \/ UNCHANGED vars \/ \E s \in Service, d \in Days : Publish(s, d)
        PROVE  UNCHANGED <<table, events, log>>
    BY <1>3 DEF Tick, Publish, vars, db
  <1>4. \A p \in Procs : Abort(p) => UNCHANGED <<table, events, log>>
    BY DEF Abort, db
  <1>5. PICK p \in Procs : CommitFile(p) \/ RaiseInFile(p)
    <2>1. Pollers \subseteq Procs
      BY ConstAssumption
    <2>2. CASE \E p \in Procs : Step(p) \/ Abort(p) \/ RaiseInFile(p)
      BY <2>2, <1>1, <1>4
    <2>3. CASE \/ \E p \in Pollers : BeginSweep(p) \/ BeginTargeted(p)
               \/ \E p \in Procs \ Pollers : BeginCatchUp(p)
      BY <2>1, <2>3, <1>2
    <2>4. QED
      BY <2>2, <2>3, <1>3 DEF Next
  <1>6. QED
    BY <1>5 DEF CommitFile, RaiseInFile

\* change_events is append-only: what a reader has seen of a subject stays.
LEMMA EventsGrow ==
  ASSUME IInv, [Next]_vars, NEW s \in Service, NEW k \in Keys
  PROVE  Changes!Extends(events'[s][k], events[s][k])
  <1>1. events[s][k] \in Seq(Event)
    BY DEF IInv, TypeOK
  <1>2. CASE UNCHANGED events
    BY <1>1, <1>2 DEF Changes!Extends
  <1>3. CASE ~ UNCHANGED events
    <2>1. PICK p \in Procs : pc[p] = "rows" /\ Commit(p)
      BY <1>3, OnlyCommitsWrite
    <2>2. job[p].svc \in Service /\ tx[p].evs \in [Keys -> Seq(Event)]
      BY <2>1 DEF IInv, TypeOK, JobInv, JobOK, Tx
    <2>3. CASE s = job[p].svc
      <3>1. events'[s][k] = events[s][k] \o tx[p].evs[k]
        BY <2>1, <2>2, <2>3 DEF Commit, IInv, TypeOK
      <3>2. QED
        <4>1. tx[p].evs[k] \in Seq(Event)
          BY <2>2
        <4> DEFINE g == events[s][k]
                   h == tx[p].evs[k]
        <4>2. Len(g) \in Nat /\ Len(h) \in Nat
          BY <1>1, <4>1
        <4>3. /\ Len(g \o h) = Len(g) + Len(h)
              /\ \A i \in 1..(Len(g) + Len(h)) : (g \o h)[i] = IF i <= Len(g) THEN g[i] ELSE h[i - Len(g)]
          BY <1>1, <4>1, ConcatProperties
        <4> HIDE DEF g, h
        <4>4. Changes!Extends(g \o h, g)
          BY <4>2, <4>3 DEF Changes!Extends
        <4>5. QED
          BY <3>1, <4>4 DEF g, h
    <2>4. CASE s # job[p].svc
      <3>1. events'[s][k] = events[s][k]
        BY <2>1, <2>2, <2>4 DEF Commit, IInv, TypeOK
      <3>2. QED
        BY <1>1, <3>1 DEF Changes!Extends
    <2>5. QED
      BY <2>3, <2>4
  <1>4. QED
    BY <1>2, <1>3

\* Every step of every session, crash or half-committed file included, is for a
\* reader of change_events an extension of the log that explains the rows, or nothing.
THEOREM Refinement == Spec => ImplementsChangeLog
  <1>1. Init => Changes!Init
    BY DEF Init, Changes!Init, Subject
  <1>2. IInv /\ HistInv' /\ [Next]_vars => Changes!Change
    <2> SUFFICES ASSUME IInv, HistInv', [Next]_vars,
                        NEW x \in Subject
                 PROVE  /\ Changes!Extends(events'[x[1]][x[2]], events[x[1]][x[2]])
                        /\ Changes!IsHistory(events'[x[1]][x[2]], table'[x[1]][x[2]])
      BY DEF Changes!Change
    <2>1. x[1] \in Service /\ x[2] \in Keys
      BY DEF Subject
    <2>2. QED
      BY <2>1, EventsGrow DEF HistInv, EventsAreHistory
  <1>3. QED
    BY <1>1, <1>2, HistoryInvariance, PTL DEF Spec, ImplementsChangeLog, Changes!Spec

--------------------------------------------------------------------------------
(* A day recorded is a day loaded.                                         *)

\* What a reader of the log has seen taken stays taken, also when it grows.
LEMMA TakenConcat ==
  ASSUME NEW g \in Seq(Event), NEW h \in Seq(Event), NEW v, Taken(g, v) \/ Taken(h, v)
  PROVE  Taken(g \o h, v)
  <1> DEFINE f == g \o h
  <1>1. /\ Len(f) = Len(g) + Len(h)
        /\ \A i \in 1..(Len(g) + Len(h)) : f[i] = IF i <= Len(g) THEN g[i] ELSE h[i - Len(g)]
    BY ConcatProperties
  <1>2. Len(g) \in Nat /\ Len(h) \in Nat
    OBVIOUS
  <1> HIDE DEF f
  <1>3. CASE Taken(g, v)
    <2>1. PICK i \in 1..Len(g) : g[i].new = v
      BY <1>3 DEF Taken
    <2>2. i \in 1..Len(f) /\ f[i].new = v
      BY <2>1, <1>1, <1>2
    <2>3. QED
      BY <2>2 DEF Taken, f
  <1>4. CASE Taken(h, v)
    <2>1. PICK i \in 1..Len(h) : h[i].new = v
      BY <1>4 DEF Taken
    <2>2. /\ i + Len(g) \in 1..Len(f) /\ ~(i + Len(g) <= Len(g))
          /\ (i + Len(g)) - Len(g) = i
      BY <2>1, <1>1, <1>2
    <2>3. f[i + Len(g)].new = v
      BY <2>1, <2>2, <1>1
    <2>4. QED
      BY <2>2, <2>3 DEF Taken, f
  <1>5. QED
    BY <1>3, <1>4

\* An event more, and its value is taken as well.
LEMMA TakenAppend ==
  ASSUME NEW h \in Seq(Event), NEW e \in Event
  PROVE  /\ Taken(Append(h, e), e.new)
         /\ \A v : Taken(h, v) => Taken(Append(h, e), v)
  <1> DEFINE g == Append(h, e)
  <1>1. /\ Len(g) = Len(h) + 1 /\ g[Len(h) + 1] = e
        /\ \A i \in 1..Len(h) : g[i] = h[i]
    BY AppendProperties
  <1>2. Len(h) \in Nat
    OBVIOUS
  <1> HIDE DEF g
  <1>3. QED
    BY <1>1, <1>2 DEF Taken, g

\* A chain to a value that is not where it starts has taken that value.
LEMMA ChainTakes ==
  ASSUME NEW h \in Seq(Event), NEW a, NEW b, Chain(h, a, b), a # b
  PROVE  Taken(h, b)
  <1>1. h # <<>> /\ h[Len(h)].new = b
    BY DEF Chain
  <1>2. Len(h) \in 1..Len(h)
    BY <1>1, EmptySeq
  <1>3. QED
    BY <1>1, <1>2 DEF Taken

\* A committed copy of a history row is never lost.
LEMMA LogGrows ==
  ASSUME IInv, [Next]_vars, NEW s \in Service, NEW l \in Lines, log[s][l] > 0
  PROVE  log'[s][l] > 0
  <1>1. CASE UNCHANGED log
    BY <1>1
  <1>2. CASE ~ UNCHANGED log
    <2>1. PICK p \in Procs : pc[p] = "rows" /\ Commit(p)
      BY <1>2, OnlyCommitsWrite
    <2>2. job[p].svc \in Service /\ tx[p].log \in [Lines -> Nat] /\ log \in [Service -> [Lines -> Nat]]
      BY <2>1 DEF IInv, TypeOK, JobInv, JobOK, Tx
    <2>3. CASE s = job[p].svc
      <3>1. log'[s][l] = Capped(log[s][l] + tx[p].log[l])
        BY <2>1, <2>2, <2>3 DEF Commit
      <3>2. log[s][l] \in Nat /\ tx[p].log[l] \in Nat /\ MaxCopies \in Nat \ {0}
        BY <2>2, ConstAssumption
      <3>3. QED
        BY <3>1, <3>2 DEF Capped
    <2>4. CASE s # job[p].svc
      BY <2>1, <2>2, <2>4 DEF Commit
    <2>5. QED
      BY <2>3, <2>4
  <1>3. QED
    BY <1>1, <1>2

\* A value taken in the log stays taken.
LEMMA TakenStays ==
  ASSUME IInv, [Next]_vars, NEW s \in Service, NEW k \in Keys, NEW v, HasTaken(s, k, v)
  PROVE  HasTaken(s, k, v)'
  <1>1. Changes!Extends(events'[s][k], events[s][k])
    BY EventsGrow
  <1>2. PICK i \in 1..Len(events[s][k]) : events[s][k][i].new = v
    BY DEF HasTaken
  <1>3. Len(events[s][k]) \in Nat /\ Len(events'[s][k]) \in Nat
    BY StepInv DEF IInv, TypeOK
  <1>4. i \in 1..Len(events'[s][k]) /\ events'[s][k][i].new = v
    BY <1>1, <1>2, <1>3 DEF Changes!Extends
  <1>5. QED
    BY <1>4 DEF HasTaken

\* The rows of an archive.
LEMMA ArchiveRows ==
  ASSUME NEW d \in Days, NEW v \in Version
  PROVE  /\ Len(EnRows[d][v]) \in Nat /\ Len(HsRows[d][v]) \in Nat
         /\ \A i \in 1..Len(EnRows[d][v]) : EnRows[d][v][i].key \in Keys /\ EnRows[d][v][i].val \in Vals
         /\ \A i \in 1..Len(HsRows[d][v]) : HsRows[d][v][i] \in Lines
  <1>1. EnRows[d][v] \in Seq(EnRow) /\ HsRows[d][v] \in Seq(Lines)
    BY ConstAssumption
  <1>2. Len(EnRows[d][v]) \in Nat /\ Len(HsRows[d][v]) \in Nat
    BY <1>1, LenProperties
  <1>3. \A i \in 1..Len(EnRows[d][v]) : EnRows[d][v][i] \in EnRow
    BY <1>1, ElementOfSeq
  <1>4. \A i \in 1..Len(HsRows[d][v]) : HsRows[d][v][i] \in Lines
    BY <1>1, ElementOfSeq
  <1>5. QED
    BY <1>2, <1>3, <1>4 DEF EnRow

\* So an archive that is in the database stays there.
LEMMA LoadedStays ==
  ASSUME IInv, [Next]_vars, NEW s \in Service, NEW d \in Days, NEW v \in Version, Loaded(s, d, v)
  PROVE  Loaded(s, d, v)'
  <1>1. ASSUME NEW i \in 1..Len(EnRows[d][v]) PROVE HasTaken(s, EnRows[d][v][i].key, EnRows[d][v][i].val)'
    BY ArchiveRows, TakenStays DEF Loaded
  <1>2. ASSUME NEW i \in 1..Len(HsRows[d][v]) PROVE log'[s][HsRows[d][v][i]] > 0
    BY ArchiveRows, LogGrows DEF Loaded
  <1>3. QED
    BY <1>1, <1>2 DEF Loaded, HasTaken

\* A session that does not move has not lost what it had reached.
LEMMA ReachedStays ==
  ASSUME IInv, [Next]_vars, NEW q \in Procs, Reached(q),
         pc'[q] = pc[q], job'[q] = job[q], tx'[q] = tx[q]
  PROVE  Reached(q)'
  <1>0. PICK j : j = job[q]
    OBVIOUS
  <1> DEFINE en == EnRows[j.day][j.sha]
             hs == HsRows[j.day][j.sha]
  <1>1. CASE pc[q] \notin {"rows", "record"}
    BY <1>1 DEF Reached
  <1>2. CASE pc[q] \in {"rows", "record"}
    <2>1. j.svc \in Service /\ j.day \in Days /\ j.sha \in Version
      BY <1>0, <1>2 DEF IInv, JobInv, JobOK
    <2>2. ASSUME NEW i \in 1..Len(en), HasTaken(j.svc, en[i].key, en[i].val)
          PROVE  HasTaken(j.svc, en[i].key, en[i].val)'
      <3>1. en[i].key \in Keys
        BY <2>1, ArchiveRows
      <3>2. QED
        BY <2>1, <2>2, <3>1, TakenStays
    <2>3. ASSUME NEW i \in 1..Len(hs), log[j.svc][hs[i]] + tx[q].log[hs[i]] > 0
          PROVE  log'[j.svc][hs[i]] + tx[q].log[hs[i]] > 0
      <3>1. hs[i] \in Lines
        BY <2>1, ArchiveRows
      <3>2. log[j.svc][hs[i]] \in Nat /\ log'[j.svc][hs[i]] \in Nat /\ tx[q].log[hs[i]] \in Nat
        <4>1. TypeOK /\ TypeOK'
          BY StepInv DEF IInv
        <4>2. /\ log \in [Service -> [Lines -> Nat]] /\ log' \in [Service -> [Lines -> Nat]]
              /\ tx[q].log \in [Lines -> Nat]
          BY <4>1 DEF TypeOK, Tx
        <4>3. QED
          BY <2>1, <3>1, <4>2
      <3>3. log[j.svc][hs[i]] > 0 => log'[j.svc][hs[i]] > 0
        BY <2>1, <3>1, LogGrows
      <3> DEFINE a == log[j.svc][hs[i]]
                 b == log'[j.svc][hs[i]]
                 c == tx[q].log[hs[i]]
      <3>4. a \in Nat /\ b \in Nat /\ c \in Nat /\ a + c > 0 /\ (a > 0 => b > 0)
        BY <2>3, <3>2, <3>3
      <3> HIDE DEF a, b, c
      <3>5. b + c > 0
        BY <3>4
      <3>6. QED
        BY <3>5 DEF b, c
    <2>4. Loaded(j.svc, j.day, j.sha) => Loaded(j.svc, j.day, j.sha)'
      BY <2>1, LoadedStays
    <2>5. CASE pc[q] = "record"
      <3>1. Loaded(j.svc, j.day, j.sha)'
        BY <1>0, <2>4, <2>5 DEF Reached
      <3>2. job'[q] = j /\ pc'[q] = "record"
        BY <1>0, <2>5
      <3>3. QED
        BY <3>1, <3>2 DEF Reached, Loaded, HasTaken
    <2>6. CASE pc[q] = "rows" /\ j.file = 1
      <3>1. ASSUME NEW i \in 1..Len(en), i < j.row
            PROVE  HasTaken(j.svc, en[i].key, en[i].val)' \/ Taken(tx'[q].evs[en[i].key], en[i].val)
        BY <1>0, <2>2, <2>6, <3>1 DEF Reached
      <3>2. QED
        <4>1. job'[q] = j /\ pc'[q] = "rows" /\ j.file = 1
          BY <1>0, <2>6
        <4>2. QED
          BY <3>1, <4>1 DEF Reached
    <2>7. CASE pc[q] = "rows" /\ j.file = 2
      BY <1>0, <2>2, <2>3, <2>7 DEF Reached
    <2>8. QED
      BY <1>0, <1>2, <2>5, <2>6, <2>7 DEF IInv, TypeOK, Job
  <1>3. QED
    BY <1>1, <1>2

\* What is recorded stays true while nothing is recorded.
LEMMA RecordedStays ==
  ASSUME IInv, LoadInv, [Next]_vars, UNCHANGED runs
  PROVE  /\ RecordedMeansLoaded'
         /\ \A s \in Service, d \in Days : runs'[s][d] # None => runs'[s][d].sha \in Version
  <1>1. ASSUME NEW s \in Service, NEW d \in Days, runs[s][d] # None
        PROVE  Loaded(s, d, runs[s][d].sha)'
    <2>1. PICK v \in Version : v = runs[s][d].sha
      BY <1>1 DEF LoadInv
    <2>2. Loaded(s, d, v)'
      BY <1>1, <2>1, LoadedStays DEF LoadInv, RecordedMeansLoaded
    <2>3. QED
      BY <2>1, <2>2 DEF Loaded, HasTaken
  <1>2. QED
    BY <1>1 DEF LoadInv, RecordedMeansLoaded

\* A step of one session that records nothing.
LEMMA LoadFrame ==
  ASSUME IInv, LoadInv, [Next]_vars, UNCHANGED runs, NEW p \in Procs, Reached(p)',
         \A q \in Procs \ {p} : pc'[q] = pc[q] /\ job'[q] = job[q] /\ tx'[q] = tx[q]
  PROVE  LoadInv'
  <1>1. \A q \in Procs : Reached(q)'
    BY ReachedStays DEF LoadInv
  <1>2. QED
    BY <1>1, RecordedStays DEF LoadInv

\* A session outside the files of a day has its place in them to start from.
LEMMA AtStart ==
  ASSUME NEW p \in Procs, pc'[p] \notin {"rows", "record"}, job'[p].file = 1, job'[p].row = 1
  PROVE  Reached(p)'
  BY DEF Reached

\* Every step that ends a session.
LEMMA EndSessionLoad ==
  ASSUME IInv, LoadInv, [Next]_vars, UNCHANGED runs, NEW p \in Procs, EndSession(p),
         \A q \in Procs \ {p} : tx'[q] = tx[q]
  PROVE  LoadInv'
  <1>1. /\ pc'[p] = "idle" /\ job'[p] = NoJob
        /\ \A q \in Procs \ {p} : pc'[q] = pc[q] /\ job'[q] = job[q]
    BY DEF EndSession, IInv, TypeOK
  <1>2. Reached(p)'
    BY <1>1, AtStart DEF NoJob
  <1>3. QED
    BY <1>1, <1>2, LoadFrame

\* A step outside the files.
LEMMA QuietLoad ==
  ASSUME IInv, LoadInv, [Next]_vars, UNCHANGED <<runs, tx>>, NEW p \in Procs,
         pc[p] \notin {"rows", "record"}, pc'[p] \notin {"rows", "record"},
         job'[p].file = job[p].file, job'[p].row = job[p].row,
         \A q \in Procs \ {p} : pc'[q] = pc[q] /\ job'[q] = job[q]
  PROVE  LoadInv'
  <1>1. job'[p].file = 1 /\ job'[p].row = 1
    BY DEF LoadInv, Reached
  <1>2. QED
    BY <1>1, AtStart, LoadFrame

\* A pass gets the lock, skips or plans a service, refreshes the views.
LEMMA PlanningLoad ==
  ASSUME IInv, LoadInv, [Next]_vars, NEW p \in Procs,
         TryLock(p) \/ SkipService(p) \/ PlanService(p) \/ EndService(p) \/ Refresh(p) \/ Unlock(p)
  PROVE  LoadInv'
  <1>1. /\ job \in [Procs -> Job] /\ job[p] \in Job
        /\ pc \in [Procs -> {"idle", "lock", "service", "day", "rows", "record", "unlock"}]
    BY DEF IInv, TypeOK
  <1>2. CASE (TryLock(p) /\ lock # None) \/ Unlock(p)
    BY <1>2, EndSessionLoad DEF TryLock, Unlock, db
  <1>3. CASE TryLock(p) /\ lock = None
    BY <1>1, <1>3, QuietLoad DEF TryLock, db, Job
  <1>4. job' = NextService(p) => /\ job'[p].file = job[p].file /\ job'[p].row = job[p].row
                                 /\ \A q \in Procs \ {p} : job'[q] = job[q]
    BY <1>1 DEF NextService, Job
  <1>5. CASE SkipService(p) \/ EndService(p)
    BY <1>1, <1>4, <1>5, QuietLoad DEF SkipService, EndService, db
  <1>6. CASE PlanService(p)
    <2>1. PICK meta : PlanWith(p, meta)
      BY <1>6 DEF PlanService
    <2>2. pc[p] = "service"
      BY <1>6 DEF PlanService
    <2>3. QED
      BY <1>1, <1>4, <2>1, <2>2, QuietLoad DEF PlanWith, db, Job
  <1>7. CASE Refresh(p)
    BY <1>1, <1>7, QuietLoad DEF Refresh
  <1>8. QED
    BY <1>2, <1>3, <1>5, <1>6, <1>7

\* A session goes to the first row of a file it has just downloaded, or leaves it out.
LEMMA DownloadLoad ==
  ASSUME IInv, LoadInv, [Next]_vars, NEW p \in Procs, Download(p)
  PROVE  LoadInv'
  <1>1. /\ job \in [Procs -> Job] /\ job[p] \in Job
        /\ pc \in [Procs -> {"idle", "lock", "service", "day", "rows", "record", "unlock"}]
    BY DEF IInv, TypeOK
  <1>2. /\ pc[p] = "day" /\ UNCHANGED <<runs, tx>>
        /\ \A q \in Procs \ {p} : pc'[q] = pc[q] /\ job'[q] = job[q]
        /\ job'[p].file = job[p].file /\ job'[p].row = job[p].row
        /\ pc'[p] \in {"day", "rows"}
    BY <1>1 DEF Download, db, Job
  <1>3. job'[p].file = 1 /\ job'[p].row = 1
    BY <1>2 DEF LoadInv, Reached
  <1>4. CASE pc'[p] = "day"
    BY <1>2, <1>3, <1>4, QuietLoad
  <1>5. CASE pc'[p] = "rows"
    <2>1. job'[p].day \in Days /\ job'[p].sha \in Version
      BY <1>5, StepInv DEF IInv, JobInv, JobOK
    <2>2. \A i \in 1..Len(EnRows[job'[p].day][job'[p].sha]) : ~(i < 1)
      BY <2>1, ArchiveRows
    <2>3. Reached(p)'
      BY <1>3, <1>5, <2>2 DEF Reached
    <2>4. QED
      BY <1>2, <2>3, LoadFrame
  <1>6. QED
    BY <1>2, <1>4, <1>5

\* What an upsert leaves in the transaction: what was there, and the row itself unless
\* the database already has it.
LEMMA UpsertTakes ==
  ASSUME IInv, HistInv, NEW p \in Procs, UpsertRow(p), NEW r \in EnRow,
         r = RowsOf(job[p])[job[p].row]
  PROVE  /\ \A k \in Keys : \A v : Taken(tx[p].evs[k], v) => Taken(tx'[p].evs[k], v)
         /\ HasTaken(job[p].svc, r.key, r.val) \/ Taken(tx'[p].evs[r.key], r.val)
  <1> DEFINE old == Existing(p, r.key)
             ev  == [day |-> job[p].day, old |-> old, new |-> r.val]
             evs == IF old = r.val THEN tx[p].evs[r.key] ELSE Append(tx[p].evs[r.key], ev)
  <1>1. /\ pc[p] = "rows"
        /\ tx' = [tx EXCEPT ![p].tab[r.key] = r.val, ![p].evs[r.key] = evs]
    BY DEF UpsertRow
  <1>2. r.key \in Keys /\ r.val \in Vals /\ r.val # None
    BY ConstAssumption DEF EnRow
  <1>3. tx \in [Procs -> Tx] /\ tx[p].tab \in [Keys -> Stored] /\ tx[p].evs \in [Keys -> Seq(Event)]
    BY DEF IInv, TypeOK, Tx
  <1>4. job[p].svc \in Service /\ job[p].day \in Days
    BY <1>1 DEF IInv, JobInv, JobOK
  <1>5. old \in Stored
    BY <1>2, <1>3, <1>4 DEF Existing, IInv, TypeOK
  <1>6. ev \in Event /\ ev.old = old /\ ev.new = r.val
    BY <1>2, <1>4, <1>5 DEF Event
  <1> HIDE DEF ev
  <1>7. tx'[p].evs = [tx[p].evs EXCEPT ![r.key] = evs]
    BY <1>1, <1>3 DEF Tx
  <1>8. tx[p].evs[r.key] \in Seq(Event)
    BY <1>2, <1>3
  <1>9. ASSUME NEW k \in Keys, NEW v, Taken(tx[p].evs[k], v)
        PROVE  Taken(tx'[p].evs[k], v)
    <2>1. CASE k # r.key \/ old = r.val
      BY <2>1, <1>3, <1>7, <1>9
    <2>2. CASE k = r.key /\ old # r.val
      <3>1. tx'[p].evs[k] = Append(tx[p].evs[k], ev)
        BY <2>2, <1>3, <1>7
      <3>2. Taken(Append(tx[p].evs[k], ev), v)
        BY <2>2, <1>6, <1>8, <1>9, TakenAppend
      <3>3. QED
        BY <3>1, <3>2
    <2>3. QED
      BY <2>1, <2>2
  <1>10. CASE old # r.val
    <2>1. Taken(Append(tx[p].evs[r.key], ev), r.val)
      BY <1>6, <1>8, TakenAppend
    <2>2. tx'[p].evs[r.key] = Append(tx[p].evs[r.key], ev)
      BY <1>2, <1>3, <1>7, <1>10
    <2>3. QED
      BY <1>9, <2>1, <2>2
  <1>11. CASE old = r.val
    <2>1. tx'[p].evs[r.key] = tx[p].evs[r.key]
      BY <1>2, <1>3, <1>7, <1>11
    <2>2. Chain(tx[p].evs[r.key], table[job[p].svc][r.key], r.val)
      BY <1>2, <1>11, NoTxChains DEF HistInv, TxOK
    <2>3. CASE table[job[p].svc][r.key] # r.val
      <3>1. Taken(tx[p].evs[r.key], r.val)
        BY <1>8, <2>2, <2>3, ChainTakes
      <3>2. QED
        BY <1>9, <2>1, <3>1
    <2>4. CASE table[job[p].svc][r.key] = r.val
      <3>1. /\ Chain(events[job[p].svc][r.key], None, r.val)
            /\ events[job[p].svc][r.key] \in Seq(Event)
        BY <1>2, <1>4, <2>4, HistoryIsChain DEF HistInv, EventsAreHistory, IInv, TypeOK
      <3>2. Taken(events[job[p].svc][r.key], r.val)
        BY <1>2, <3>1, ChainTakes
      <3>3. QED
        BY <1>9, <3>2 DEF HasTaken, Taken
    <2>5. QED
      BY <2>3, <2>4
  <1>12. QED
    BY <1>9, <1>10, <1>11

\* One row of the keyed file.
LEMMA UpsertRowLoad ==
  ASSUME IInv, HistInv, LoadInv, [Next]_vars, NEW p \in Procs, UpsertRow(p)
  PROVE  LoadInv'
  <1>1. PICK j \in Job : j = job[p]
    BY DEF IInv, TypeOK
  <1> DEFINE en == EnRows[j.day][j.sha]
  <1>2. /\ pc[p] = "rows" /\ pc' = pc /\ j.file = 1 /\ j.row <= Len(en) /\ RowsOf(j) = en
        /\ UNCHANGED <<runs, events>>
        /\ job' = [job EXCEPT ![p].row = @ + 1]
    BY <1>1 DEF UpsertRow, db, RowsOf
  <1>3. j.svc \in Service /\ j.day \in Days /\ j.sha \in Version /\ j.row \in Nat \ {0}
    BY <1>1, <1>2 DEF IInv, JobInv, JobOK, Job
  <1>4. /\ job'[p].file = 1 /\ job'[p].row = j.row + 1
        /\ job'[p].svc = j.svc /\ job'[p].day = j.day /\ job'[p].sha = j.sha
        /\ \A q \in Procs \ {p} : job'[q] = job[q]
    BY <1>1, <1>2 DEF Job, IInv, TypeOK
  <1>5. \A q \in Procs \ {p} : tx'[q] = tx[q]
    BY DEF UpsertRow, IInv, TypeOK
  <1>6. PICK n \in Nat : n = Len(en)
    BY <1>3, ArchiveRows
  <1>7. ASSUME NEW i \in 1..Len(en), i < j.row + 1
        PROVE  HasTaken(j.svc, en[i].key, en[i].val) \/ Taken(tx'[p].evs[en[i].key], en[i].val)
    <2>1. en[i] \in EnRow /\ en[i].key \in Keys
      <3>1. en \in Seq(EnRow)
        BY <1>3, ConstAssumption
      <3>2. en[i] \in EnRow
        BY <3>1, ElementOfSeq
      <3>3. QED
        BY <3>2 DEF EnRow
    <2>2. CASE i < j.row
      <3>1. HasTaken(j.svc, en[i].key, en[i].val) \/ Taken(tx[p].evs[en[i].key], en[i].val)
        BY <1>1, <1>2, <2>2 DEF LoadInv, Reached
      <3>2. QED
        <4>1. PICK r \in EnRow : r = RowsOf(job[p])[job[p].row]
          BY <1>1, <1>2, CurrentRow
        <4>2. QED
          BY <2>1, <3>1, <4>1, UpsertTakes
    <2>3. CASE i = j.row
      BY <1>1, <1>2, <2>1, <2>3, UpsertTakes
    <2>4. QED
      BY <1>3, <1>6, <1>7, <2>2, <2>3
  <1>8. \A i \in 1..Len(en) : i < j.row + 1 =>
          HasTaken(j.svc, en[i].key, en[i].val)' \/ Taken(tx'[p].evs[en[i].key], en[i].val)
    BY <1>2, <1>7 DEF HasTaken
  <1>9. Reached(p)'
    <2>1. pc'[p] = "rows" /\ job'[p].file = 1
      BY <1>2, <1>4
    <2>2. QED
      BY <1>4, <1>8, <2>1 DEF Reached
  <1>10. QED
    BY <1>2, <1>4, <1>5, <1>9, LoadFrame

\* One row of the history file: a copy of it is in the transaction.
LEMMA InsertRowLoad ==
  ASSUME IInv, LoadInv, [Next]_vars, NEW p \in Procs, InsertRow(p)
  PROVE  LoadInv'
  <1>1. PICK j \in Job : j = job[p]
    BY DEF IInv, TypeOK
  <1> DEFINE en == EnRows[j.day][j.sha]
             hs == HsRows[j.day][j.sha]
  <1>2. /\ pc[p] = "rows" /\ pc' = pc /\ j.file = 2 /\ j.row <= Len(hs) /\ RowsOf(j) = hs
        /\ UNCHANGED <<runs, events, log>>
        /\ job' = [job EXCEPT ![p].row = @ + 1]
    BY <1>1 DEF InsertRow, db, RowsOf
  <1>3. j.svc \in Service /\ j.day \in Days /\ j.sha \in Version /\ j.row \in Nat \ {0}
    BY <1>1, <1>2 DEF IInv, JobInv, JobOK, Job
  <1>4. /\ job'[p].file = 2 /\ job'[p].row = j.row + 1
        /\ job'[p].svc = j.svc /\ job'[p].day = j.day /\ job'[p].sha = j.sha
        /\ \A q \in Procs \ {p} : job'[q] = job[q]
    BY <1>1, <1>2 DEF Job, IInv, TypeOK
  <1>5. \A q \in Procs \ {p} : tx'[q] = tx[q]
    BY DEF InsertRow, IInv, TypeOK
  <1>6. PICK l \in Lines : l = hs[j.row]
    BY <1>1, <1>2, CurrentRow
  <1>7. /\ tx[p].log \in [Lines -> Nat] /\ log[j.svc] \in [Lines -> Nat]
        /\ tx'[p].log = [tx[p].log EXCEPT ![l] = @ + 1]
    <2>1. tx' = [tx EXCEPT ![p].log[l] = @ + 1]
      BY <1>1, <1>2, <1>6 DEF InsertRow
    <2>2. tx \in [Procs -> Tx] /\ log \in [Service -> [Lines -> Nat]]
      BY DEF IInv, TypeOK
    <2>3. QED
      BY <1>3, <2>1, <2>2 DEF Tx
  <1>8. PICK n \in Nat : n = Len(hs)
    BY <1>3, ArchiveRows
  <1>9. ASSUME NEW i \in 1..Len(hs), i < j.row + 1
        PROVE  log[j.svc][hs[i]] + tx'[p].log[hs[i]] > 0
    <2> DEFINE a == log[j.svc][hs[i]]
               b == tx[p].log[hs[i]]
               c == tx'[p].log[hs[i]]
    <2>1. hs[i] \in Lines
      BY <1>3, ArchiveRows
    <2>2. a \in Nat /\ b \in Nat /\ c = (IF hs[i] = l THEN b + 1 ELSE b)
      BY <1>7, <2>1
    <2>3. i < j.row => a + b > 0
      BY <1>1, <1>2 DEF LoadInv, Reached
    <2>4. i < j.row \/ hs[i] = l
      BY <1>3, <1>6, <1>8, <1>9
    <2> HIDE DEF a, b, c
    <2>5. a + c > 0
      BY <2>2, <2>3, <2>4
    <2>6. QED
      BY <2>5 DEF a, c
  <1>10. Reached(p)'
    <2>1. pc'[p] = "rows" /\ job'[p].file = 2
      BY <1>2, <1>4
    <2>2. \A i \in 1..Len(en) : HasTaken(j.svc, en[i].key, en[i].val)'
      BY <1>1, <1>2 DEF LoadInv, Reached, HasTaken
    <2>3. \A i \in 1..Len(hs) : i < j.row + 1 => log'[j.svc][hs[i]] + tx'[p].log[hs[i]] > 0
      BY <1>2, <1>9
    <2>4. QED
      BY <1>4, <2>1, <2>2, <2>3 DEF Reached
  <1>11. QED
    BY <1>2, <1>4, <1>5, <1>10, LoadFrame

\* COMMIT makes what the transaction has taken part of the log, and its copies of
\* history rows part of the table.
LEMMA CommitTakes ==
  ASSUME IInv, NEW p \in Procs, Commit(p), NEW s \in Service, s = job[p].svc
  PROVE  /\ \A k \in Keys : \A v : HasTaken(s, k, v) \/ Taken(tx[p].evs[k], v) => HasTaken(s, k, v)'
         /\ \A l \in Lines : log[s][l] + tx[p].log[l] > 0 => log'[s][l] > 0
  <1>1. /\ tx[p].evs \in [Keys -> Seq(Event)] /\ tx[p].log \in [Lines -> Nat]
        /\ events \in [Service -> [Keys -> Seq(Event)]] /\ log \in [Service -> [Lines -> Nat]]
    BY DEF IInv, TypeOK, Tx
  <1>2. /\ \A k \in Keys : events'[s][k] = events[s][k] \o tx[p].evs[k]
        /\ \A l \in Lines : log'[s][l] = Capped(log[s][l] + tx[p].log[l])
    BY <1>1 DEF Commit
  <1>3. ASSUME NEW k \in Keys, NEW v, HasTaken(s, k, v) \/ Taken(tx[p].evs[k], v)
        PROVE  HasTaken(s, k, v)'
    <2>1. events[s][k] \in Seq(Event) /\ tx[p].evs[k] \in Seq(Event)
      BY <1>1
    <2>2. Taken(events[s][k], v) \/ Taken(tx[p].evs[k], v)
      BY <1>3 DEF HasTaken, Taken
    <2>3. Taken(events[s][k] \o tx[p].evs[k], v)
      BY <2>1, <2>2, TakenConcat
    <2>4. QED
      BY <1>2, <2>3 DEF HasTaken, Taken
  <1>4. ASSUME NEW l \in Lines, log[s][l] + tx[p].log[l] > 0
        PROVE  log'[s][l] > 0
    <2>1. log[s][l] \in Nat /\ tx[p].log[l] \in Nat
      BY <1>1
    <2>2. QED
      BY <1>2, <1>4, <2>1, ConstAssumption DEF Capped
  <1>5. QED
    BY <1>3, <1>4

\* The end of a file: all its rows are in the database, and the session goes on to the
\* history file or has the whole archive loaded.
LEMMA CommitFileLoad ==
  ASSUME IInv, LoadInv, [Next]_vars, NEW p \in Procs, CommitFile(p)
  PROVE  LoadInv'
  <1>1. PICK j \in Job : j = job[p]
    BY DEF IInv, TypeOK
  <1> DEFINE en == EnRows[j.day][j.sha]
             hs == HsRows[j.day][j.sha]
  <1>2. /\ pc[p] = "rows" /\ j.row > Len(RowsOf(j)) /\ Commit(p) /\ UNCHANGED runs
    BY <1>1 DEF CommitFile
  <1>3. j.svc \in Service /\ j.day \in Days /\ j.sha \in Version /\ j.row \in Nat \ {0} /\ j.file \in {1, 2}
    BY <1>1, <1>2 DEF IInv, JobInv, JobOK, Job
  <1>4. \A q \in Procs \ {p} : pc'[q] = pc[q] /\ job'[q] = job[q] /\ tx'[q] = tx[q]
    BY <1>2 DEF CommitFile, Commit, IInv, TypeOK
  <1>5. /\ \A i \in 1..Len(en) : en[i].key \in Keys
        /\ \A i \in 1..Len(hs) : hs[i] \in Lines
    BY <1>3, ArchiveRows
  <1>6. Len(en) \in Nat /\ Len(hs) \in Nat
    BY <1>3, ArchiveRows
  <1>7. ASSUME j.file = 1 PROVE Reached(p)'
    <2>1. /\ pc'[p] = "rows" /\ job'[p].file = 2 /\ job'[p].row = 1
          /\ job'[p].svc = j.svc /\ job'[p].day = j.day /\ job'[p].sha = j.sha
      BY <1>1, <1>2, <1>7 DEF CommitFile, IInv, TypeOK, Job
    <2>2. ASSUME NEW i \in 1..Len(en)
          PROVE  HasTaken(j.svc, en[i].key, en[i].val)'
      <3>1. i < j.row
        BY <1>2, <1>3, <1>6, <1>7 DEF RowsOf
      <3>2. HasTaken(j.svc, en[i].key, en[i].val) \/ Taken(tx[p].evs[en[i].key], en[i].val)
        BY <1>1, <1>2, <1>7, <3>1 DEF LoadInv, Reached
      <3>3. QED
        BY <1>1, <1>2, <1>3, <1>5, <3>2, CommitTakes
    <2>3. \A i \in 1..Len(hs) : ~(i < 1)
      BY <1>6
    <2>4. QED
      BY <2>1, <2>2, <2>3 DEF Reached
  <1>8. ASSUME j.file = 2 PROVE Reached(p)'
    <2>1. pc'[p] = "record" /\ job'[p] = j
      BY <1>1, <1>2, <1>8 DEF CommitFile, IInv, TypeOK
    <2>2. /\ \A i \in 1..Len(en) : HasTaken(j.svc, en[i].key, en[i].val)
          /\ \A i \in 1..Len(hs) : i < j.row => log[j.svc][hs[i]] + tx[p].log[hs[i]] > 0
      BY <1>1, <1>2, <1>8 DEF LoadInv, Reached
    <2>3. ASSUME NEW i \in 1..Len(en)
          PROVE  HasTaken(j.svc, en[i].key, en[i].val)'
      BY <1>1, <1>2, <1>3, <1>5, <2>2, CommitTakes
    <2>4. ASSUME NEW i \in 1..Len(hs)
          PROVE  log'[j.svc][hs[i]] > 0
      <3>1. i < j.row
        BY <1>2, <1>3, <1>6, <1>8 DEF RowsOf
      <3>2. QED
        BY <1>1, <1>2, <1>3, <1>5, <2>2, <3>1, CommitTakes
    <2>5. Loaded(j.svc, j.day, j.sha)'
      BY <2>3, <2>4 DEF Loaded, HasTaken
    <2>6. QED
      BY <2>1, <2>5 DEF Reached, Loaded, HasTaken
  <1>9. QED
    BY <1>2, <1>3, <1>4, <1>7, <1>8, LoadFrame

\* The day is recorded, under the hash of an archive that is all there.
LEMMA RecordRunLoad ==
  ASSUME IInv, LoadInv, [Next]_vars, NEW p \in Procs, RecordRun(p)
  PROVE  LoadInv'
  <1>1. PICK j \in Job : j = job[p]
    BY DEF IInv, TypeOK
  <1>2. /\ pc[p] = "record" /\ pc' = [pc EXCEPT ![p] = "day"]
        /\ runs' = [runs EXCEPT ![j.svc][j.day] =
                      [lm |-> j.lm, sha |-> j.sha, status |-> VerifyAgainstCounts(j.day, j.sha)]]
        /\ UNCHANGED tx
    BY <1>1 DEF RecordRun
  <1>3. j.svc \in Service /\ j.day \in Days /\ j.sha \in Version /\ Loaded(j.svc, j.day, j.sha)
    BY <1>1, <1>2 DEF IInv, JobInv, JobOK, LoadInv, Reached
  <1>4. /\ pc'[p] = "day" /\ job'[p].file = 1 /\ job'[p].row = 1
        /\ \A q \in Procs \ {p} : pc'[q] = pc[q] /\ job'[q] = job[q] /\ tx'[q] = tx[q]
    BY <1>2 DEF RecordRun, IInv, TypeOK, Job
  <1>5. \A q \in Procs : Reached(q)'
    BY <1>4, AtStart, ReachedStays DEF LoadInv
  <1>6. ASSUME NEW s \in Service, NEW d \in Days, runs'[s][d] # None
        PROVE  runs'[s][d].sha \in Version /\ Loaded(s, d, runs[s][d].sha)'
    <2>1. runs \in [Service -> [Days -> Run \cup {None}]]
      BY DEF IInv, TypeOK
    <2>2. CASE s = j.svc /\ d = j.day
      <3>1. runs'[s][d].sha = j.sha
        BY <1>2, <1>3, <2>1, <2>2
      <3>2. Loaded(s, d, j.sha)'
        BY <1>3, <2>2, LoadedStays
      <3>3. QED
        BY <1>3, <3>1, <3>2 DEF Loaded, HasTaken
    <2>3. CASE ~(s = j.svc /\ d = j.day)
      <3>1. runs'[s][d] = runs[s][d]
        BY <1>2, <1>3, <2>1, <2>3
      <3>2. PICK v \in Version : v = runs[s][d].sha
        BY <1>6, <3>1 DEF LoadInv
      <3>3. Loaded(s, d, v)'
        BY <1>6, <3>1, <3>2, LoadedStays DEF LoadInv, RecordedMeansLoaded
      <3>4. QED
        BY <3>1, <3>2, <3>3 DEF Loaded, HasTaken
    <2>4. QED
      BY <2>2, <2>3
  <1>7. RecordedMeansLoaded'
    BY <1>6 DEF RecordedMeansLoaded
  <1>8. QED
    BY <1>5, <1>6, <1>7 DEF LoadInv

\* A pass begins, or dies: where it died in a file does not matter, nothing of the day
\* was recorded.
LEMMA SessionLoad ==
  ASSUME IInv, LoadInv, [Next]_vars, NEW p \in Procs,
         \/ Abort(p) \/ RaiseInFile(p)
         \/ \E listed \in BOOLEAN, only \in [Service -> SUBSET Days] : Begin(p, listed, only)
  PROVE  LoadInv'
  <1>1. CASE Abort(p)
    BY <1>1, EndSessionLoad DEF Abort, db, IInv, TypeOK
  <1>2. CASE RaiseInFile(p)
    BY <1>2, EndSessionLoad DEF RaiseInFile, Commit, IInv, TypeOK
  <1>3. ASSUME NEW listed \in BOOLEAN, NEW only \in [Service -> SUBSET Days], Begin(p, listed, only)
        PROVE  LoadInv'
    <2>1. /\ pc[p] = "idle" /\ pc'[p] = "lock" /\ UNCHANGED <<runs, tx>>
          /\ job'[p].file = 1 /\ job'[p].row = 1
          /\ \A q \in Procs \ {p} : pc'[q] = pc[q] /\ job'[q] = job[q]
      BY <1>3 DEF Begin, db, NoJob, IInv, TypeOK
    <2>2. Reached(p)'
      BY <2>1, AtStart
    <2>3. QED
      BY <2>1, <2>2, LoadFrame
  <1>4. QED
    BY <1>1, <1>2, <1>3

\* The calendar and the feed write nothing of ours.
LEMMA FeedLoad ==
  ASSUME IInv, LoadInv, [Next]_vars, UNCHANGED <<db, sess>>
  PROVE  LoadInv'
  <1>1. \A q \in Procs : Reached(q)'
    BY ReachedStays DEF LoadInv, sess
  <1>2. QED
    BY <1>1, RecordedStays DEF LoadInv, db

\* Every step.
LEMMA StepLoad == IInv /\ HistInv /\ LoadInv /\ [Next]_vars => LoadInv'
  <1> SUFFICES ASSUME IInv, HistInv, LoadInv, [Next]_vars
               PROVE  LoadInv'
    OBVIOUS
  <1>1. CASE Tick \/ UNCHANGED vars \/ \E s \in Service, d \in Days : Publish(s, d)
    BY <1>1, FeedLoad DEF Tick, Publish, vars
  <1>2. ASSUME NEW p \in Procs, BeginSweep(p) \/ BeginTargeted(p) \/ BeginCatchUp(p)
        PROVE  LoadInv'
    <2>1. /\ AllDays \in [Service -> SUBSET Days]
          /\ [s \in Service |-> Outstanding(s)] \in [Service -> SUBSET Days]
      BY DEF AllDays, Outstanding
    <2>2. QED
      BY <1>2, <2>1, SessionLoad DEF BeginSweep, BeginTargeted, BeginCatchUp
  <1>3. ASSUME NEW p \in Procs, Step(p) \/ Abort(p) \/ RaiseInFile(p)
        PROVE  LoadInv'
    BY <1>3, PlanningLoad, DownloadLoad, UpsertRowLoad, InsertRowLoad, CommitFileLoad,
       RecordRunLoad, SessionLoad DEF Step
  <1>4. Pollers \subseteq Procs
    BY ConstAssumption
  <1>5. QED
    BY <1>1, <1>2, <1>3, <1>4 DEF Next

\* An empty database records nothing.
LEMMA InitLoad == Init => LoadInv
  BY DEF Init, LoadInv, RecordedMeansLoaded, Reached, NoJob

\* A session has reached what its locals say, and a recorded day is loaded.
THEOREM LoadInvariance == Spec => []LoadInv
  <1>1. Spec => [](IInv /\ HistInv)
    BY Invariance, HistoryInvariance, PTL
  <1>2. QED
    BY <1>1, InitLoad, StepLoad, PTL DEF Spec

\* A crash between two files, a half-committed file, two sessions and a file replaced
\* at FCC in mid-download: none leaves a day recorded that is not all in the database.
THEOREM RecordedMeansLoadedAlways == Spec => []RecordedMeansLoaded
  BY LoadInvariance, PTL DEF LoadInv

--------------------------------------------------------------------------------
(* The materialized views.                                                 *)

\* Session p is in the files of a day, or has finished one: it will refresh the views.
Owes(p) == pc[p] \in {"rows", "record"} \/ (pc[p] \in {"service", "day"} /\ job[p].any)

ViewsInv == faults = 0 => views = table \/ \E p \in Procs : Owes(p)

\* A step that neither writes a row nor refreshes a view, after which who owed still does.
LEMMA OwesStays ==
  ASSUME ViewsInv, UNCHANGED <<views, table, faults>>, \A p \in Procs : Owes(p) => Owes(p)'
  PROVE  ViewsInv'
  BY DEF ViewsInv

\* One step of the job: what it commits it owes, and only a refresh pays.
LEMMA StepViews ==
  ASSUME IInv, ViewsInv, NEW p \in Procs, Step(p)
  PROVE  ViewsInv'
  <1>1. /\ job \in [Procs -> Job] /\ job[p] \in Job
        /\ pc \in [Procs -> {"idle", "lock", "service", "day", "rows", "record", "unlock"}]
    BY DEF IInv, TypeOK
  <1>2. CASE TryLock(p) \/ Unlock(p)
    <2>1. \A q \in Procs : Owes(q) => Owes(q)'
      BY <1>1, <1>2 DEF TryLock, Unlock, EndSession, Owes
    <2>2. QED
      BY <1>2, <2>1, OwesStays DEF TryLock, Unlock, db
  <1>3. job' = NextService(p) => /\ job'[p].any = job[p].any
                                 /\ \A q \in Procs \ {p} : job'[q] = job[q]
    BY <1>1 DEF NextService, Job
  <1>4. CASE SkipService(p) \/ EndService(p)
    <2>1. \A q \in Procs : Owes(q) => Owes(q)'
      BY <1>1, <1>3, <1>4 DEF SkipService, EndService, Owes
    <2>2. QED
      BY <1>4, <2>1, OwesStays DEF SkipService, EndService, db
  <1>5. CASE PlanService(p)
    <2>1. PICK meta : PlanWith(p, meta)
      BY <1>5 DEF PlanService
    <2>2. CASE UNCHANGED faults
      <3>1. /\ pc[p] = "service" /\ pc'[p] \in {"service", "day"}
            /\ \A q \in Procs \ {p} : pc'[q] = pc[q] /\ job'[q] = job[q]
            /\ job'[p].any = job[p].any
        <4>1. pc[p] = "service"
          BY <1>5 DEF PlanService
        <4>2. QED
          BY <1>1, <1>3, <2>1, <4>1 DEF PlanWith, Job
      <3>2. \A q \in Procs : Owes(q) => Owes(q)'
        BY <3>1 DEF Owes
      <3>3. QED
        BY <2>1, <2>2, <3>2, OwesStays DEF PlanWith, db
    <2>3. CASE Fault
      BY <2>3 DEF Fault, ViewsInv, IInv, TypeOK
    <2>4. QED
      BY <1>5, <2>2, <2>3 DEF PlanService
  <1>6. CASE Download(p)
    <2>1. \A q \in Procs : Owes(q) => Owes(q)'
      BY <1>1, <1>6 DEF Download, Owes, Job
    <2>2. QED
      BY <1>6, <2>1, OwesStays DEF Download, db
  <1>7. CASE UpsertRow(p) \/ InsertRow(p) \/ RecordRun(p)
    <2>1. /\ pc'[p] = "rows" \/ (pc'[p] = "day" /\ job'[p].any)
          /\ \A q \in Procs \ {p} : pc'[q] = pc[q] /\ job'[q] = job[q]
      <3>1. CASE UpsertRow(p) \/ InsertRow(p)
        BY <1>1, <3>1 DEF UpsertRow, InsertRow
      <3>2. CASE RecordRun(p)
        BY <1>1, <3>2 DEF RecordRun, Job
      <3>3. QED
        BY <1>7, <3>1, <3>2
    <2>2. \A q \in Procs : Owes(q) => Owes(q)'
      BY <2>1 DEF Owes
    <2>3. QED
      BY <1>7, <2>2, OwesStays DEF UpsertRow, InsertRow, RecordRun, db
  <1>8. CASE CommitFile(p)
    <2>1. Owes(p)'
      BY <1>1, <1>8 DEF CommitFile, Owes
    <2>2. QED
      BY <2>1 DEF ViewsInv
  <1>9. CASE Refresh(p)
    <2>1. CASE job[p].any
      BY <1>9, <2>1 DEF Refresh, ViewsInv
    <2>2. CASE ~job[p].any
      <3>1. InJob(p) /\ ~Owes(p)
        BY <1>9, <2>2 DEF Refresh, InJob, Owes
      <3>2. \A q \in Procs : Owes(q) => q = p
        BY <3>1 DEF Owes, InJob, IInv, LockInv
      <3>3. QED
        BY <1>9, <2>2, <3>1, <3>2 DEF Refresh, ViewsInv
    <2>3. QED
      BY <2>1, <2>2
  <1>10. QED
    BY <1>2, <1>4, <1>5, <1>6, <1>7, <1>8, <1>9 DEF Step

\* At rest, if nothing failed, the views were computed from the rows as they are: a
\* pass that found nothing to do does not leave those of an earlier one stale.
THEOREM ViewsCurrentAlways == Spec => []ViewsCurrent
  <1>1. Init => ViewsInv
    BY DEF Init, ViewsInv
  <1>2. IInv /\ ViewsInv /\ [Next]_vars => ViewsInv'
    <2> SUFFICES ASSUME IInv, ViewsInv, [Next]_vars
                 PROVE  ViewsInv'
      OBVIOUS
    <2>1. CASE Tick \/ UNCHANGED vars \/ \E s \in Service, d \in Days : Publish(s, d)
      BY <2>1 DEF Tick, Publish, vars, db, sess, ViewsInv, Owes
    <2>2. ASSUME NEW p \in Procs, BeginSweep(p) \/ BeginTargeted(p) \/ BeginCatchUp(p)
          PROVE  ViewsInv'
      <3>1. PICK listed, only : Begin(p, listed, only)
        BY <2>2 DEF BeginSweep, BeginTargeted, BeginCatchUp
      <3>2. \A q \in Procs : Owes(q) => Owes(q)'
        BY <3>1 DEF Begin, Owes, IInv, TypeOK
      <3>3. QED
        BY <3>1, <3>2, OwesStays DEF Begin, db
    <2>3. ASSUME NEW p \in Procs, Step(p) PROVE ViewsInv'
      BY <2>3, StepViews
    <2>4. ASSUME NEW p \in Procs, Abort(p) \/ RaiseInFile(p) PROVE ViewsInv'
      BY <2>4 DEF Abort, RaiseInFile, Fault, ViewsInv, IInv, TypeOK
    <2>5. Pollers \subseteq Procs
      BY ConstAssumption
    <2>6. QED
      BY <2>1, <2>2, <2>3, <2>4, <2>5 DEF Next
  <1>3. ViewsInv => ViewsCurrent
    BY DEF ViewsInv, ViewsCurrent, Resting, Owes
  <1>4. QED
    BY <1>1, <1>2, <1>3, Invariance, PTL DEF Spec

--------------------------------------------------------------------------------
(* The order of loading.                                                   *)

\* A feed that brings the days in date order and once, with archives that agree with
\* their `counts`.
Ordered == InOrderFeed /\ MaxVersion = 1 /\ Mismatched = {}

FeedInOrder == \A s \in Service, d, e \in Days : e < d /\ fcc[s][d] > 0 => fcc[s][e] > 0

RunsDone ==
  \A s \in Service, d \in Days : runs[s][d] # None =>
    runs[s][d].lm = 1 /\ runs[s][d].sha = 1 /\ runs[s][d].status = "success"

\* Each day before d is recorded, or before h and never to be.
Behind(s, d, h) == \A e \in Days : e < d /\ runs[s][e] = None => e < h

\* Where the window of the pass that runs begins, or that of the next one.
Horizon == IF lock = None THEN today - WindowDays ELSE job[lock].earliest
RunsInOrder == \A s \in Service, d \in Days : runs[s][d] # None => Behind(s, d, Horizon)

\* With each target day, the earlier ones that are still to be loaded.
Targets(only, h) ==
  \A s \in Service : \A d \in only[s], e \in Days :
    e < d /\ runs[s][e] = None /\ h <= e => e \in only[s]

\* The plan is of new days, and with each of them of the earlier ones.
Planned(c, j) ==
  /\ \A m \in j.todo : /\ m.dated /\ m.lm = 1 /\ m.day \in Days /\ j.earliest <= m.day
                       /\ runs[j.svc][m.day] = None
  /\ \A m \in j.todo, e \in Days :
       e < m.day /\ runs[j.svc][e] = None /\ j.earliest <= e =>
         (\E n \in j.todo : n.day = e) \/ (c \in {"rows", "record"} /\ e = j.day)

Current(j) ==
  /\ j.lm = 1 /\ runs[j.svc][j.day] = None /\ j.earliest <= j.day
  /\ Behind(j.svc, j.day, j.earliest)
  /\ \A m \in j.todo : j.day < m.day

OrderOf(c, j) ==
  /\ c = "lock" => Targets(j.only, today - WindowDays)
  /\ c \notin {"idle", "lock"} => j.earliest <= today - WindowDays /\ Targets(j.only, j.earliest)
  /\ c \in {"day", "rows", "record"} => Planned(c, j)
  /\ c \in {"rows", "record"} => Current(j)

OrderInv ==
  faults = 0 => FeedInOrder /\ RunsDone /\ RunsInOrder /\ \A p \in Procs : OrderOf(pc[p], job[p])

LEMMA InitOrder == Init => OrderInv
  BY DEF Init, OrderInv, FeedInOrder, RunsDone, RunsInOrder, OrderOf

\* A session that does not move, while the calendar and the feed may.
LEMMA TargetsLater ==
  ASSUME NEW only, NEW a \in Int, NEW b \in Int, a <= b, Targets(only, a)
  PROVE  Targets(only, b)
  <1>1. \A e \in Days : e \in Int
    BY ConstAssumption
  <1>2. QED
    BY <1>1 DEF Targets

LEMMA OrderOfStays ==
  ASSUME NEW c, NEW j, OrderOf(c, j), UNCHANGED runs, today \in Int, today' \in Int, today <= today',
         j.earliest \in Int
  PROVE  OrderOf(c, j)'
  <1>0. WindowDays \in Int
    BY ConstAssumption
  <1>2. PICK a, b : a = today - WindowDays /\ b = today' - WindowDays
    OBVIOUS
  <1>3. a \in Int /\ b \in Int /\ a <= b
    <2>1. PICK m, t, u : m = WindowDays /\ t = today /\ u = today'
      OBVIOUS
    <2>2. m \in Int /\ t \in Int /\ u \in Int /\ t <= u /\ a = t - m /\ b = u - m
      BY <1>0, <1>2, <2>1
    <2>3. QED
      BY <2>2
  <1>4. c = "lock" => Targets(j.only, today' - WindowDays)
    <2>1. c = "lock" => Targets(j.only, a)
      BY <1>2 DEF OrderOf
    <2>2. Targets(j.only, a) => Targets(j.only, b)
      BY <1>3, TargetsLater
    <2>3. QED
      BY <1>2, <2>1, <2>2
  <1>5. c \notin {"idle", "lock"} => j.earliest <= today' - WindowDays
    <2>1. PICK h : h = j.earliest
      OBVIOUS
    <2>2. h \in Int /\ (c \notin {"idle", "lock"} => h <= a)
      BY <1>2, <2>1 DEF OrderOf
    <2>3. c \notin {"idle", "lock"} => h <= b
      BY <1>3, <2>2
    <2>4. QED
      BY <1>2, <2>1, <2>3
  <1>6. /\ c = "lock" => Targets(j.only, today - WindowDays)'
        /\ c \notin {"idle", "lock"} => Targets(j.only, j.earliest)'
    BY <1>4 DEF OrderOf, Targets
  <1>7. /\ c \in {"day", "rows", "record"} => Planned(c, j)'
        /\ c \in {"rows", "record"} => Current(j)'
    BY DEF OrderOf, Planned, Current, Behind
  <1>8. QED
    BY <1>5, <1>6, <1>7 DEF OrderOf

\* A step that records nothing: whoever moved is where it should be, and the window
\* has not grown.
LEMMA OrderFrame ==
  ASSUME IInv, OrderInv, faults = 0, UNCHANGED runs, FeedInOrder',
         today' \in Int, today <= today', Horizon \in Int, Horizon' \in Int, Horizon <= Horizon',
         \A q \in Procs : OrderOf(pc[q], job[q])' \/ (pc'[q] = pc[q] /\ job'[q] = job[q])
  PROVE  OrderInv'
  <1>1. RunsDone'
    BY DEF OrderInv, RunsDone
  <1>2. RunsInOrder'
    <2>1. \A d \in Days : d \in Int
      BY ConstAssumption
    <2>2. PICK a, b : a = Horizon /\ b = Horizon' /\ a \in Int /\ b \in Int /\ a <= b
      OBVIOUS
    <2>3. \A s \in Service, d \in Days : runs[s][d] # None => Behind(s, d, a)
      BY <2>2 DEF OrderInv, RunsInOrder
    <2>4. \A s \in Service, d \in Days : runs[s][d] # None => Behind(s, d, b)
      BY <2>1, <2>2, <2>3 DEF Behind
    <2>5. QED
      BY <2>2, <2>4 DEF RunsInOrder, Behind
  <1>3. ASSUME NEW q \in Procs, pc'[q] = pc[q], job'[q] = job[q]
        PROVE  OrderOf(pc[q], job[q])'
    <2>1. OrderOf(pc[q], job[q]) /\ job[q].earliest \in Int /\ today \in Int
      BY <1>3 DEF OrderInv, IInv, TypeOK, Job
    <2>2. PICK c, j : c = pc[q] /\ j = job[q]
      OBVIOUS
    <2>3. OrderOf(c, j)'
      BY <2>1, <2>2, OrderOfStays
    <2>4. c = pc'[q] /\ j = job'[q]
      BY <1>3, <2>2
    <2>5. QED
      BY <2>3, <2>4 DEF OrderOf, Targets, Planned, Current, Behind
  <1>4. QED
    BY <1>1, <1>2, <1>3 DEF OrderInv

LEMMA HorizonTyped == IInv => Horizon \in Int
  <1> SUFFICES ASSUME IInv PROVE Horizon \in Int
    OBVIOUS
  <1>1. today \in Int /\ WindowDays \in Int /\ (lock # None => job[lock].earliest \in Int)
    BY ConstAssumption DEF IInv, TypeOK, Job
  <1>2. PICK t, m : t = today /\ m = WindowDays
    OBVIOUS
  <1>3. t - m \in Int
    BY <1>1, <1>2
  <1>4. QED
    BY <1>1, <1>2, <1>3 DEF Horizon

\* Session p moves without touching the lock, its window or the bookkeeping.
LEMMA OrderLocal ==
  ASSUME IInv, OrderInv, faults = 0, UNCHANGED <<runs, fcc, today, lock>>, NEW p \in Procs,
         \A q \in Procs \ {p} : pc'[q] = pc[q] /\ job'[q] = job[q],
         lock = p => job'[p].earliest = job[p].earliest,
         OrderOf(pc[p], job[p])'
  PROVE  OrderInv'
  <1>1. FeedInOrder' /\ today \in Int
    BY DEF OrderInv, FeedInOrder, IInv, TypeOK
  <1>2. Horizon' = Horizon
    BY DEF Horizon, IInv, TypeOK
  <1>3. PICK h, t : h = Horizon /\ t = today
    OBVIOUS
  <1>4. h \in Int /\ t \in Int
    BY <1>1, <1>3, HorizonTyped
  <1>5. h <= h /\ t <= t
    BY <1>4
  <1>6. /\ today' \in Int /\ today <= today'
        /\ Horizon \in Int /\ Horizon' \in Int /\ Horizon <= Horizon'
    BY <1>1, <1>2, <1>3, <1>4, <1>5
  <1>7. \A q \in Procs : OrderOf(pc[q], job[q])' \/ (pc'[q] = pc[q] /\ job'[q] = job[q])
    OBVIOUS
  <1>8. QED
    BY <1>1, <1>6, <1>7, OrderFrame

\* The calendar and the feed move on.
LEMMA OrderFeed ==
  ASSUME Ordered, IInv, OrderInv, faults = 0, Tick \/ \E s \in Service, d \in Days : Publish(s, d)
  PROVE  OrderInv'
  <1>1. UNCHANGED <<runs, lock, pc, job>>
    BY DEF Tick, Publish, db, sess
  <1>2. FeedInOrder'
    <2>1. CASE Tick
      BY <2>1 DEF Tick, OrderInv, FeedInOrder
    <2>2. ASSUME NEW s \in Service, NEW d \in Days, Publish(s, d)
          PROVE  FeedInOrder'
      <3>1. \A e \in Days : e < d => fcc[s][e] > 0
        BY <2>2 DEF Publish, Ordered
      <3>2. \A t \in Service, e \in Days : /\ fcc[t][e] \in Int /\ fcc'[t][e] \in Int
                                           /\ fcc'[t][e] = IF t = s /\ e = d THEN fcc[t][e] + 1 ELSE fcc[t][e]
        BY <2>2, ConstAssumption DEF IInv, TypeOK, Publish
      <3>3. \A t \in Service, a, e \in Days : e < a /\ fcc[t][a] > 0 => fcc[t][e] > 0
        BY DEF OrderInv, FeedInOrder
      <3>4. ASSUME NEW t \in Service, NEW a \in Days, NEW e \in Days, e < a, fcc'[t][a] > 0
            PROVE  fcc'[t][e] > 0
        BY <3>1, <3>2, <3>3, <3>4
      <3>5. QED
        BY <3>4 DEF FeedInOrder
    <2>3. QED
      BY <2>1, <2>2
  <1>3. today \in Int /\ WindowDays \in Int
    BY ConstAssumption DEF IInv, TypeOK
  <1>4. today' \in Int /\ today <= today'
    BY <1>3 DEF Tick, Publish
  <1>5. Horizon \in Int /\ Horizon' \in Int /\ Horizon <= Horizon'
    <2>1. CASE lock = None
      <3>1. PICK t, u, m : t = today /\ u = today' /\ m = WindowDays
        OBVIOUS
      <3>2. t - m \in Int /\ u - m \in Int /\ t - m <= u - m
        <4>1. t \in Int /\ u \in Int /\ m \in Int /\ t <= u
          BY <1>3, <1>4, <3>1
        <4>2. QED
          BY <4>1
      <3>3. QED
        BY <1>1, <2>1, <3>1, <3>2 DEF Horizon
    <2>2. CASE lock # None
      <3>1. Horizon' = Horizon
        BY <1>1, <2>2 DEF Horizon
      <3>2. PICK h : h = Horizon
        OBVIOUS
      <3>3. h \in Int /\ h <= h
        BY <3>2, HorizonTyped
      <3>4. QED
        BY <3>1, <3>2, <3>3
    <2>3. QED
      BY <2>1, <2>2
  <1>6. QED
    BY <1>1, <1>2, <1>4, <1>5, OrderFrame

\* A pass begins: what it will look for is everything, or every day outstanding.
LEMMA OrderBegin ==
  ASSUME IInv, OrderInv, faults = 0, NEW p \in Procs, BeginSweep(p) \/ BeginTargeted(p) \/ BeginCatchUp(p)
  PROVE  OrderInv'
  <1>1. PICK listed, only : /\ Begin(p, listed, only)
                            /\ only = AllDays \/ only = [s \in Service |-> Outstanding(s)]
    BY DEF BeginSweep, BeginTargeted, BeginCatchUp
  <1>2. /\ UNCHANGED <<runs, fcc, today, lock>> /\ pc[p] = "idle" /\ pc'[p] = "lock"
        /\ \A q \in Procs \ {p} : pc'[q] = pc[q] /\ job'[q] = job[q]
        /\ job'[p].only = only
    BY <1>1 DEF Begin, IInv, TypeOK, db, feed, NoJob
  <1>3. lock # p
    BY <1>2 DEF IInv, LockInv, InJob
  <1>4. Targets(only, today - WindowDays)
    <2>1. CASE only = AllDays
      BY <2>1 DEF Targets, AllDays
    <2>2. CASE only = [s \in Service |-> Outstanding(s)]
      <3>1. PICK h : h = today - WindowDays
        OBVIOUS
      <3>2. today \in Int /\ \A d \in Days : d \in Int
        BY ConstAssumption DEF IInv, TypeOK
      <3>3. ASSUME NEW s \in Service, NEW d \in only[s], NEW e \in Days,
                   e < d, runs[s][e] = None, h <= e
            PROVE  e \in only[s]
        <4>1. d \in Days /\ d < today
          BY <2>2, <3>3 DEF Outstanding
        <4>2. e < today
          BY <3>2, <3>3, <4>1
        <4>3. e >= h
          BY <3>3
        <4>4. e \notin Done(s, h)
          BY <3>3 DEF Done
        <4>5. QED
          BY <2>2, <3>1, <3>3, <4>2, <4>3, <4>4 DEF Outstanding
      <3>4. Targets(only, h)
        BY <3>3 DEF Targets
      <3>5. QED
        BY <3>1, <3>4
    <2>3. QED
      BY <1>1, <2>1, <2>2
  <1>5. OrderOf(pc[p], job[p])'
    BY <1>2, <1>4 DEF OrderOf, Targets
  <1>6. QED
    BY <1>2, <1>3, <1>5, OrderLocal

\* A session ends.
LEMMA OrderEnd ==
  ASSUME IInv, OrderInv, faults = 0, NEW p \in Procs, EndSession(p), UNCHANGED <<runs, fcc, today>>,
         lock = p => job[p].earliest <= today - WindowDays
  PROVE  OrderInv'
  <1>1. /\ pc'[p] = "idle" /\ job'[p] = NoJob /\ lock' = (IF lock = p THEN None ELSE lock)
        /\ \A q \in Procs \ {p} : pc'[q] = pc[q] /\ job'[q] = job[q]
    BY DEF EndSession, IInv, TypeOK
  <1>2. OrderOf(pc[p], job[p])'
    BY <1>1 DEF OrderOf
  <1>3. CASE lock # p
    BY <1>1, <1>2, <1>3, OrderLocal
  <1>4. CASE lock = p
    <2>1. FeedInOrder' /\ today \in Int
      BY DEF OrderInv, FeedInOrder, IInv, TypeOK
    <2>2. p # None
      BY ConstAssumption
    <2>3. PICK a, b, t : a = Horizon /\ b = Horizon' /\ t = today
      OBVIOUS
    <2>4. a = job[p].earliest /\ b = today - WindowDays
      BY <1>1, <1>4, <2>2, <2>3 DEF Horizon
    <2>5. WindowDays \in Int
      BY ConstAssumption
    <2>6. b \in Int
      BY <2>1, <2>3, <2>4, <2>5
    <2>7. a \in Int /\ a <= b /\ t \in Int
      BY <1>4, <2>1, <2>3, <2>4, HorizonTyped
    <2>8. t <= t
      BY <2>7
    <2>9. Horizon \in Int /\ Horizon' \in Int /\ Horizon <= Horizon' /\ today' \in Int /\ today <= today'
      BY <2>1, <2>3, <2>6, <2>7, <2>8
    <2>10. \A q \in Procs : OrderOf(pc[q], job[q])' \/ (pc'[q] = pc[q] /\ job'[q] = job[q])
      BY <1>1, <1>2
    <2>11. QED
      BY <2>1, <2>9, <2>10, OrderFrame
  <1>5. QED
    BY <1>3, <1>4

LEMMA OrderTryLock ==
  ASSUME IInv, OrderInv, faults = 0, NEW p \in Procs, TryLock(p)
  PROVE  OrderInv'
  <1>1. UNCHANGED <<runs, fcc, today>> /\ pc[p] = "lock"
    BY DEF TryLock, db, feed
  <1>2. lock # p
    BY <1>1 DEF IInv, LockInv, InJob
  <1>3. CASE lock # None
    BY <1>1, <1>2, <1>3, OrderEnd DEF TryLock
  <1>4. CASE lock = None
    <2>1. /\ lock' = p /\ pc'[p] = "service" /\ job'[p].earliest = today - WindowDays
          /\ job'[p].only = job[p].only
          /\ \A q \in Procs \ {p} : pc'[q] = pc[q] /\ job'[q] = job[q]
      BY <1>4 DEF TryLock, IInv, TypeOK, Job
    <2>2. FeedInOrder' /\ today \in Int /\ p # None
      BY <1>1, ConstAssumption DEF OrderInv, FeedInOrder, IInv, TypeOK
    <2>3. PICK h, t : h = Horizon /\ t = today
      OBVIOUS
    <2>4. h = today - WindowDays /\ Horizon' = h
      BY <1>4, <2>1, <2>2, <2>3 DEF Horizon
    <2>5. h \in Int /\ t \in Int
      BY <2>2, <2>3, HorizonTyped
    <2>6. h <= h /\ t <= t
      BY <2>5
    <2>7. OrderOf(pc[p], job[p])'
      <3>1. Targets(job[p].only, h)
        BY <1>1, <2>4 DEF OrderInv, OrderOf
      <3>2. Targets(job[p].only, job[p].earliest)'
        BY <1>1, <2>1, <2>4, <3>1 DEF Targets
      <3>3. job'[p].earliest <= today' - WindowDays
        BY <1>1, <2>1, <2>4, <2>6
      <3>4. QED
        BY <2>1, <3>2, <3>3 DEF OrderOf
    <2>8. \A q \in Procs : OrderOf(pc[q], job[q])' \/ (pc'[q] = pc[q] /\ job'[q] = job[q])
      BY <2>1, <2>7
    <2>9. Horizon \in Int /\ Horizon' \in Int /\ Horizon <= Horizon' /\ today' \in Int /\ today <= today'
      BY <1>1, <2>3, <2>4, <2>5, <2>6
    <2>10. QED
      BY <1>1, <2>2, <2>8, <2>9, OrderFrame
  <1>5. QED
    BY <1>3, <1>4

\* Session p stays in the pass and plans nothing.
LEMMA OrderService ==
  ASSUME IInv, OrderInv, faults = 0, UNCHANGED <<runs, fcc, today, lock>>, NEW p \in Procs,
         \A q \in Procs \ {p} : pc'[q] = pc[q] /\ job'[q] = job[q],
         job'[p].earliest = job[p].earliest, job'[p].only = job[p].only,
         pc[p] \notin {"idle", "lock"}, pc'[p] \in {"service", "unlock"}
  PROVE  OrderInv'
  <1>1. OrderOf(pc[p], job[p])'
    BY DEF OrderInv, OrderOf, Targets
  <1>2. QED
    BY <1>1, OrderLocal

LEMMA OrderNextService ==
  ASSUME IInv, OrderInv, faults = 0, NEW p \in Procs, SkipService(p) \/ EndService(p)
  PROVE  OrderInv'
  <1>1. /\ UNCHANGED <<runs, fcc, today, lock>>
        /\ job' = NextService(p) /\ pc[p] \in {"service", "day"}
        /\ pc'[p] = "service" /\ \A q \in Procs \ {p} : pc'[q] = pc[q]
    BY DEF SkipService, EndService, db, feed, IInv, TypeOK
  <1>2. /\ \A q \in Procs \ {p} : job'[q] = job[q]
        /\ job'[p].earliest = job[p].earliest /\ job'[p].only = job[p].only
    BY <1>1 DEF NextService, IInv, TypeOK, Job
  <1>3. QED
    BY <1>1, <1>2, OrderService

LEMMA OrderRefreshUnlock ==
  ASSUME IInv, OrderInv, faults = 0, NEW p \in Procs, Refresh(p) \/ Unlock(p)
  PROVE  OrderInv'
  <1>1. CASE Refresh(p)
    <2>1. /\ UNCHANGED <<runs, fcc, today, lock, job>> /\ pc[p] = "service" /\ pc'[p] = "unlock"
          /\ \A q \in Procs \ {p} : pc'[q] = pc[q]
      BY <1>1 DEF Refresh, IInv, TypeOK, feed
    <2>2. QED
      BY <2>1, OrderService
  <1>2. CASE Unlock(p)
    <2>1. job[p].earliest <= today - WindowDays
      BY <1>2 DEF Unlock, OrderInv, OrderOf
    <2>2. QED
      BY <1>2, <2>1, OrderEnd DEF Unlock, db, feed
  <1>3. QED
    BY <1>1, <1>2

\* A service is planned from what is true: the days available in the window that have
\* no row yet.
LEMMA OrderPlan ==
  ASSUME Ordered, IInv, OrderInv, faults = 0, faults' = 0, NEW p \in Procs, PlanService(p)
  PROVE  OrderInv'
  <1>1. PICK j, s : j = job[p] /\ s = j.svc
    OBVIOUS
  <1>2. /\ PlanWith(p, TrueMeta(j, s)) /\ s \in Service /\ pc[p] = "service"
        /\ UNCHANGED <<runs, fcc, today, lock>>
    BY <1>1 DEF PlanService, PlanWith, Fault, db, feed
  <1>3. /\ job \in [Procs -> Job] /\ j \in Job /\ j.only \in [Service -> SUBSET Days]
        /\ pc \in [Procs -> {"idle", "lock", "service", "day", "rows", "record", "unlock"}]
        /\ fcc[s] \in [Days -> 0..MaxVersion] /\ j.earliest \in Int
    BY <1>1, <1>2 DEF IInv, TypeOK, Job
  <1>4. PICK todo : todo = {m \in TrueMeta(j, s) : IsPending(j, s, m)}
    OBVIOUS
  <1>5. CASE todo = {}
    <2>1. pc' = pc /\ job' = NextService(p)
      BY <1>1, <1>2, <1>4, <1>5 DEF PlanWith
    <2>2. /\ \A q \in Procs \ {p} : pc'[q] = pc[q] /\ job'[q] = job[q]
          /\ job'[p].earliest = job[p].earliest /\ job'[p].only = job[p].only
      BY <1>3, <2>1 DEF NextService, Job
    <2>3. QED
      BY <1>2, <2>1, <2>2, OrderService
  <1>6. CASE todo # {}
    <2>1. PICK done : /\ pc' = [pc EXCEPT ![p] = "day"]
                      /\ job' = [job EXCEPT ![p].todo = todo, ![p].done = done]
      BY <1>1, <1>2, <1>4, <1>6 DEF PlanWith
    <2>2. /\ \A q \in Procs \ {p} : pc'[q] = pc[q] /\ job'[q] = job[q]
          /\ pc'[p] = "day" /\ job'[p].earliest = j.earliest /\ job'[p].only = j.only
          /\ job'[p].svc = s /\ job'[p].todo = todo
      BY <1>1, <1>3, <2>1 DEF Job
    <2>3. Targets(j.only, j.earliest) /\ j.earliest <= today - WindowDays
      BY <1>1, <1>2 DEF OrderInv, OrderOf
    <2>4. ASSUME NEW m \in todo
          PROVE  /\ m.dated /\ m.lm = 1 /\ m.day \in Days /\ j.earliest <= m.day /\ runs[s][m.day] = None
                 /\ m.day \in Candidates(j, s)
      <3>1. PICK d \in Candidates(j, s) : m = [day |-> d, lm |-> fcc[s][d], dated |-> TRUE]
        BY <1>4 DEF TrueMeta
      <3>2. IsPending(j, s, m)
        BY <1>4
      <3>3. d \in Days /\ fcc[s][d] > 0
        BY <1>2, <1>3, <3>1 DEF Candidates, Available
      <3>4. fcc[s][d] = 1
        BY <1>3, <3>3 DEF Ordered
      <3>5. j.earliest <= d /\ (d \notin Done(s, j.earliest) \/ 1 > runs[s][d].lm)
        BY <1>3, <3>1, <3>2, <3>3, <3>4, ConstAssumption DEF IsPending
      <3>6. runs[s][d] # None => runs[s][d].lm = 1 /\ runs[s][d].status = "success"
        BY <1>2, <3>3 DEF OrderInv, RunsDone
      <3>7. runs[s][d] = None
        BY <1>3, <3>3, <3>5, <3>6, ConstAssumption DEF Done
      <3>8. QED
        BY <3>1, <3>3, <3>4, <3>5, <3>7
    <2>5. ASSUME NEW m \in todo, NEW e \in Days, e < m.day, runs[s][e] = None, j.earliest <= e
          PROVE  \E n \in todo : n.day = e
      <3>1. fcc[s][m.day] > 0 /\ fcc[s][e] > 0
        BY <1>2, <2>4, <2>5 DEF OrderInv, FeedInOrder, Candidates, Available
      <3>2. ~j.listed => e \in j.only[s]
        BY <1>2, <2>3, <2>4, <2>5 DEF Targets, Candidates
      <3>3. e \in Candidates(j, s)
        BY <3>1, <3>2 DEF Candidates, Available
      <3>4. PICK n : n = [day |-> e, lm |-> fcc[s][e], dated |-> TRUE]
        OBVIOUS
      <3>5. n \in TrueMeta(j, s)
        BY <3>3, <3>4 DEF TrueMeta
      <3>6. IsPending(j, s, n)
        BY <1>3, <2>5, <3>4, ConstAssumption DEF IsPending, Done
      <3>7. QED
        BY <1>4, <3>4, <3>5, <3>6
    <2>6. OrderOf(pc[p], job[p])'
      <3>1. PICK w : w = job'[p]
        OBVIOUS
      <3>2. /\ w.earliest = j.earliest /\ w.only = j.only /\ w.svc = s /\ w.todo = todo
            /\ runs' = runs /\ today' = today
        BY <1>2, <2>2, <3>1
      <3>3. Planned("day", w)
        BY <2>4, <2>5, <3>2 DEF Planned
      <3>4. Planned("day", w)' /\ Targets(w.only, w.earliest)' /\ w.earliest <= today' - WindowDays
        BY <2>3, <3>2, <3>3 DEF Planned, Targets
      <3>5. QED
        BY <2>2, <3>1, <3>4 DEF OrderOf, Targets, Planned
    <2>7. QED
      BY <1>1, <1>2, <2>2, <2>6, OrderLocal
  <1>7. QED
    BY <1>5, <1>6

\* The oldest of the planned days is downloaded: nothing before it is missing.
LEMMA OrderDownload ==
  ASSUME IInv, OrderInv, faults = 0, NEW p \in Procs, Download(p)
  PROVE  OrderInv'
  <1>1. PICK j : j = job[p]
    OBVIOUS
  <1>2. /\ job \in [Procs -> Job] /\ j \in Job /\ j.svc \in Service
        /\ pc \in [Procs -> {"idle", "lock", "service", "day", "rows", "record", "unlock"}]
        /\ pc[p] = "day" /\ UNCHANGED <<runs, fcc, today, lock>>
    BY <1>1 DEF IInv, TypeOK, JobInv, JobOK, Download, db, feed
  <1>3. Planned("day", j) /\ Targets(j.only, j.earliest) /\ j.earliest <= today - WindowDays
    BY <1>1, <1>2 DEF OrderInv, OrderOf
  <1>4. \A m \in j.todo : /\ m.dated /\ m.lm = 1 /\ m.day \in Days /\ j.earliest <= m.day
                          /\ runs[j.svc][m.day] = None
    BY <1>3 DEF Planned
  <1>5. PICK m, v :
          /\ m \in First(j.todo)
          /\ job' = [job EXCEPT ![p].todo = @ \ {m}, ![p].day = m.day, ![p].sha = v, ![p].lm = m.lm]
          /\ pc' = [pc EXCEPT ![p] = "rows"]
    <2>1. PICK m \in First(j.todo) :
            LET rest == [job EXCEPT ![p].todo = @ \ {m}]
            IN  /\ job' = [rest EXCEPT ![p].day = m.day, ![p].sha = fcc[j.svc][m.day], ![p].lm = m.lm]
                /\ pc' = [pc EXCEPT ![p] = "rows"]
      BY <1>1, <1>4 DEF Download, First
    <2>2. QED
      BY <1>2, <2>1
  <1>6. /\ \A q \in Procs \ {p} : pc'[q] = pc[q] /\ job'[q] = job[q]
        /\ pc'[p] = "rows"
    BY <1>2, <1>5
  <1>7. PICK w : w = job'[p]
    OBVIOUS
  <1>8. /\ w.earliest = j.earliest /\ w.only = j.only /\ w.svc = j.svc
        /\ w.todo = j.todo \ {m} /\ w.day = m.day /\ w.lm = m.lm
    BY <1>1, <1>2, <1>5, <1>7 DEF Job
  <1>9. m \in j.todo /\ \A n \in j.todo : m.day <= n.day
    BY <1>4, <1>5 DEF First
  <1>10. \A d \in Days : d \in Int
    BY ConstAssumption
  <1>11. \A n \in j.todo \ {m} : m.day < n.day
    <2>1. ASSUME NEW n \in j.todo \ {m}
          PROVE  m.day # n.day
      <3>1. m \in Plan /\ n \in Plan
        BY <1>2, <1>9 DEF Job
      <3>2. m = [day |-> m.day, lm |-> m.lm, dated |-> m.dated] /\ n = [day |-> n.day, lm |-> n.lm, dated |-> n.dated]
        BY <3>1 DEF Plan
      <3>3. m.dated = n.dated /\ m.lm = n.lm
        BY <1>4, <1>9, <3>1 DEF Plan
      <3>4. QED
        BY <3>2, <3>3
    <2>2. QED
      BY <1>4, <1>9, <1>10, <2>1
  <1>12. Current(w)
    <2>1. Behind(j.svc, m.day, j.earliest)
      <3>1. ASSUME NEW e \in Days, e < m.day, runs[j.svc][e] = None, ~(e < j.earliest)
            PROVE  FALSE
        <4>1. j.earliest \in Int
          BY <1>2 DEF Job
        <4>2. j.earliest <= e
          BY <1>10, <3>1, <4>1
        <4>3. PICK n \in j.todo : n.day = e
          BY <1>3, <1>9, <3>1, <4>2 DEF Planned
        <4>4. QED
          BY <1>4, <1>9, <1>10, <3>1, <4>3
      <3>2. QED
        BY <3>1 DEF Behind
    <2>2. QED
      BY <1>4, <1>8, <1>9, <1>11, <2>1 DEF Current
  <1>13. Planned("rows", w)
    <2>1. ASSUME NEW n \in w.todo, NEW e \in Days, e < n.day, runs[w.svc][e] = None, w.earliest <= e, e # w.day
          PROVE  \E o \in w.todo : o.day = e
      <3>1. PICK o \in j.todo : o.day = e
        BY <1>3, <1>8, <2>1 DEF Planned
      <3>2. QED
        BY <1>8, <2>1, <3>1
    <2>2. QED
      BY <1>4, <1>8, <2>1 DEF Planned
  <1>14. OrderOf("rows", w)
    BY <1>3, <1>8, <1>12, <1>13 DEF OrderOf
  <1>15. OrderOf(pc[p], job[p])'
    BY <1>2, <1>6, <1>7, <1>14 DEF OrderOf, Targets, Planned, Current, Behind
  <1>16. job'[p].earliest = job[p].earliest
    BY <1>1, <1>7, <1>8
  <1>17. QED
    BY <1>2, <1>6, <1>15, <1>16, OrderLocal

\* Inside a file: rows and commits leave the order as it is.
LEMMA OrderRows ==
  ASSUME IInv, OrderInv, faults = 0, NEW p \in Procs, UpsertRow(p) \/ InsertRow(p) \/ CommitFile(p)
  PROVE  OrderInv'
  <1>1. PICK j : j = job[p]
    OBVIOUS
  <1>2. /\ job \in [Procs -> Job] /\ j \in Job
        /\ pc \in [Procs -> {"idle", "lock", "service", "day", "rows", "record", "unlock"}]
        /\ pc[p] = "rows" /\ UNCHANGED <<runs, fcc, today, lock>>
    BY <1>1 DEF IInv, TypeOK, UpsertRow, InsertRow, CommitFile, db, feed
  <1>3. PICK f, r : /\ job' = job \/ job' = [job EXCEPT ![p].file = f, ![p].row = r] \/ job' = [job EXCEPT ![p].row = r]
                    /\ pc' = pc \/ pc' = [pc EXCEPT ![p] = "record"]
    <2>1. PICK r : r = job[p].row + 1
      OBVIOUS
    <2>2. CASE UpsertRow(p) \/ InsertRow(p)
      <3>1. job' = [job EXCEPT ![p].row = r] /\ pc' = pc
        BY <2>1, <2>2 DEF UpsertRow, InsertRow
      <3>2. QED
        BY <3>1
    <2>3. CASE CommitFile(p)
      BY <2>3 DEF CommitFile
    <2>4. QED
      BY <2>2, <2>3
  <1>4. PICK w, c : w = job'[p] /\ c = pc'[p]
    OBVIOUS
  <1>5. /\ \A q \in Procs \ {p} : pc'[q] = pc[q] /\ job'[q] = job[q]
        /\ c \in {"rows", "record"}
    BY <1>2, <1>3, <1>4
  <1>6. /\ w.svc = j.svc /\ w.earliest = j.earliest /\ w.only = j.only
        /\ w.todo = j.todo /\ w.day = j.day /\ w.lm = j.lm
    BY <1>1, <1>2, <1>3, <1>4 DEF Job
  <1>7. OrderOf("rows", j)
    BY <1>1, <1>2 DEF OrderInv, OrderOf
  <1>8. OrderOf(c, w)
    BY <1>5, <1>6, <1>7 DEF OrderOf, Planned, Current
  <1>9. OrderOf(pc[p], job[p])'
    BY <1>2, <1>4, <1>8 DEF OrderOf, Targets, Planned, Current, Behind
  <1>10. job'[p].earliest = job[p].earliest
    BY <1>1, <1>4, <1>6
  <1>11. QED
    BY <1>2, <1>5, <1>9, <1>10, OrderLocal

\* A day is recorded: those before it have been, or are too old.
LEMMA OrderRecord ==
  ASSUME Ordered, IInv, OrderInv, faults = 0, NEW p \in Procs, RecordRun(p)
  PROVE  OrderInv'
  <1>1. PICK j : j = job[p]
    OBVIOUS
  <1>2. /\ job \in [Procs -> Job] /\ j \in Job /\ j.svc \in Service /\ j.day \in Days /\ j.sha \in Version
        /\ pc \in [Procs -> {"idle", "lock", "service", "day", "rows", "record", "unlock"}]
        /\ pc[p] = "record" /\ UNCHANGED <<fcc, today, lock>>
        /\ runs \in [Service -> [Days -> Run \cup {None}]]
    BY <1>1 DEF IInv, TypeOK, JobInv, JobOK, RecordRun, feed
  <1>3. OrderOf("record", j)
    BY <1>1, <1>2 DEF OrderInv
  <1>4. Current(j) /\ Planned("record", j) /\ Targets(j.only, j.earliest) /\ j.earliest <= today - WindowDays
    BY <1>3 DEF OrderOf
  <1>5. PICK r : /\ r = [lm |-> 1, sha |-> 1, status |-> "success"]
                 /\ runs' = [runs EXCEPT ![j.svc][j.day] = r]
    <2>1. j.sha = 1 /\ j.lm = 1
      BY <1>2, <1>4 DEF Ordered, Version, Current
    <2>2. VerifyAgainstCounts(j.day, j.sha) = "success"
      BY DEF Ordered, VerifyAgainstCounts
    <2>3. QED
      BY <1>1, <2>1, <2>2 DEF RecordRun
  <1>6. /\ r # None /\ r.lm = 1 /\ r.sha = 1 /\ r.status = "success"
        /\ \A s \in Service, d \in Days : runs'[s][d] = IF s = j.svc /\ d = j.day THEN r ELSE runs[s][d]
    <2>1. \A s \in Service, d \in Days : runs'[s][d] = IF s = j.svc /\ d = j.day THEN r ELSE runs[s][d]
      BY <1>2, <1>5
    <2>2. r # None
      <3>1. r \in Run /\ None \notin Run
        BY <1>5, ConstAssumption DEF Run
      <3>2. QED
        BY <3>1
    <2>3. QED
      BY <1>5, <2>1, <2>2
  <1>7. \A s \in Service, d \in Days : runs'[s][d] = None => runs[s][d] = None
    BY <1>6
  <1>8. PICK w, h : w = job'[p] /\ h = j.earliest
    OBVIOUS
  <1>9. /\ w.svc = j.svc /\ w.earliest = h /\ w.only = j.only /\ w.todo = j.todo
        /\ \A q \in Procs \ {p} : pc'[q] = pc[q] /\ job'[q] = job[q]
        /\ pc'[p] = "day"
    <2>1. PICK v : job' = [job EXCEPT ![p].any = TRUE, ![p].day = v, ![p].lm = 0, ![p].sha = 0,
                                      ![p].file = 1, ![p].row = 1]
      BY DEF RecordRun
    <2>2. pc' = [pc EXCEPT ![p] = "day"]
      BY DEF RecordRun
    <2>3. QED
      BY <1>1, <1>2, <1>8, <2>1, <2>2 DEF Job
  <1>10. lock = p /\ Horizon = h /\ Horizon' = h
    <2>1. lock = p /\ p # None
      BY <1>2, ConstAssumption DEF IInv, LockInv, InJob
    <2>2. QED
      BY <1>1, <1>2, <1>8, <1>9, <2>1 DEF Horizon
  <1>11. FeedInOrder' /\ RunsDone'
    BY <1>2, <1>6 DEF OrderInv, FeedInOrder, RunsDone
  <1>12. RunsInOrder'
    <2>1. \A s \in Service, d, e \in Days :
            runs[s][d] # None /\ e < d /\ runs[s][e] = None => e < h
      BY <1>10 DEF OrderInv, RunsInOrder, Behind
    <2>2. \A e \in Days : e < j.day /\ runs[j.svc][e] = None => e < h
      BY <1>4, <1>8 DEF Current, Behind
    <2>3. \A s \in Service, d, e \in Days :
            runs'[s][d] # None /\ e < d /\ runs'[s][e] = None => e < h
      BY <1>6, <1>7, <2>1, <2>2
    <2>4. QED
      BY <1>10, <2>3 DEF RunsInOrder, Behind
  <1>13. \A only, b : Targets(only, b) => Targets(only, b)'
    <2>1. ASSUME NEW only, NEW b, Targets(only, b)
          PROVE  Targets(only, b)'
      BY <1>7, <2>1 DEF Targets
    <2>2. QED
      BY <2>1
  <1>14. ASSUME NEW q \in Procs \ {p}
         PROVE  OrderOf(pc[q], job[q])'
    <2>1. pc[q] \in {"idle", "lock"}
      BY <1>2, <1>10, <1>14 DEF IInv, LockInv, InJob
    <2>2. PICK c, x : c = pc[q] /\ x = job[q]
      OBVIOUS
    <2>3. c = "lock" => Targets(x.only, today - WindowDays)
      BY <2>2 DEF OrderInv, OrderOf
    <2>4. PICK b : b = today - WindowDays
      OBVIOUS
    <2>5. c = "lock" => Targets(x.only, b)'
      BY <1>13, <2>3, <2>4
    <2>6. pc'[q] = c /\ job'[q] = x /\ b = today' - WindowDays
      BY <1>2, <1>9, <1>14, <2>2, <2>4
    <2>7. QED
      BY <2>1, <2>2, <2>5, <2>6 DEF OrderOf, Targets
  <1>15. OrderOf(pc[p], job[p])'
    <2>1. Targets(w.only, w.earliest)' /\ w.earliest <= today' - WindowDays
      BY <1>2, <1>4, <1>8, <1>9, <1>13
    <2>2. \A m \in w.todo : /\ m.dated /\ m.lm = 1 /\ m.day \in Days /\ w.earliest <= m.day
                            /\ runs'[w.svc][m.day] = None
      <3>1. \A m \in j.todo : /\ m.dated /\ m.lm = 1 /\ m.day \in Days /\ h <= m.day
                              /\ runs[j.svc][m.day] = None /\ j.day < m.day
        BY <1>4, <1>8 DEF Planned, Current
      <3>2. \A m \in j.todo : m.day # j.day
        <4>1. \A d \in Days : d \in Int
          BY ConstAssumption
        <4>2. QED
          BY <1>2, <3>1, <4>1
      <3>3. QED
        BY <1>2, <1>6, <1>9, <3>1, <3>2
    <2>3. ASSUME NEW m \in w.todo, NEW e \in Days, e < m.day, runs'[w.svc][e] = None, w.earliest <= e
          PROVE  \E n \in w.todo : n.day = e
      <3>1. e # j.day /\ runs[j.svc][e] = None
        BY <1>2, <1>6, <1>9, <2>3
      <3>2. QED
        BY <1>4, <1>8, <1>9, <2>3, <3>1 DEF Planned
    <2>4. Planned("day", w)'
      BY <2>2, <2>3 DEF Planned
    <2>5. QED
      BY <1>8, <1>9, <2>1, <2>4 DEF OrderOf, Targets, Planned
  <1>16. QED
    BY <1>11, <1>12, <1>14, <1>15 DEF OrderInv

LEMMA StepOrder ==
  ASSUME Ordered, IInv, OrderInv, [Next]_vars
  PROVE  OrderInv'
  <1>1. faults \in Nat
    BY DEF IInv, TypeOK
  <1>2. SUFFICES ASSUME faults' = 0 PROVE OrderInv'
    BY DEF OrderInv
  <1>3. CASE UNCHANGED vars
    BY <1>3 DEF vars, feed, db, sess, OrderInv, FeedInOrder, RunsDone, RunsInOrder, Horizon, Behind,
                OrderOf, Targets, Planned, Current
  <1>4. CASE Tick \/ \E s \in Service, d \in Days : Publish(s, d)
    <2>1. faults = 0
      BY <1>2, <1>4 DEF Tick, Publish
    <2>2. QED
      BY <1>4, <2>1, OrderFeed
  <1>5. ASSUME NEW p \in Procs, BeginSweep(p) \/ BeginTargeted(p) \/ BeginCatchUp(p)
        PROVE  OrderInv'
    <2>1. faults = 0
      BY <1>2, <1>5 DEF BeginSweep, BeginTargeted, BeginCatchUp, Begin
    <2>2. QED
      BY <1>5, <2>1, OrderBegin
  <1>6. ASSUME NEW p \in Procs, Step(p)
        PROVE  OrderInv'
    <2>1. faults = 0
      <3>1. faults' = faults \/ Fault
        BY <1>6 DEF Step, TryLock, SkipService, PlanService, Download, EndService, UpsertRow, InsertRow,
                    CommitFile, RecordRun, Refresh, Unlock
      <3>2. QED
        BY <1>1, <1>2, <3>1 DEF Fault
    <2>2. QED
      BY <1>2, <1>6, <2>1, OrderTryLock, OrderNextService, OrderPlan, OrderDownload, OrderRows, OrderRecord,
         OrderRefreshUnlock DEF Step
  <1>7. ASSUME NEW p \in Procs, Abort(p) \/ RaiseInFile(p)
        PROVE  FALSE
    BY <1>1, <1>2, <1>7 DEF Abort, RaiseInFile, Fault
  <1>8. Pollers \subseteq Procs
    BY ConstAssumption
  <1>9. QED
    BY <1>3, <1>4, <1>5, <1>6, <1>7, <1>8 DEF Next

--------------------------------------------------------------------------------
(* What the rows are then.                                                 *)

HasKey(d, k) == \E i \in 1..Len(EnRows[d][1]) : EnRows[d][1][i].key = k

\* The last of the rows before the n-th of day d's file that has key k has value v.
IsLast(d, n, k, v) ==
  LET file == EnRows[d][1]
  IN  \E i \in 1..Len(file) : /\ i < n /\ file[i].key = k /\ file[i].val = v
                              /\ \A j \in 1..Len(file) : j < n /\ file[j].key = k => j <= i

IsNewest(d, k, v) == IsLast(d, Len(EnRows[d][1]) + 1, k, v)

\* Row k of service s is committed for a day that is not yet recorded.
Ahead(p, s, k) ==
  /\ job[p].svc = s /\ HasKey(job[p].day, k)
  /\ pc[p] = "record" \/ (pc[p] = "rows" /\ job[p].file = 2)

NewestHere ==
  \A s \in Service, d \in Days, k \in Keys :
    /\ runs[s][d] # None /\ HasKey(d, k)
    /\ \A e \in Days : runs[s][e] # None /\ HasKey(e, k) => e <= d
    => IsNewest(d, k, table[s][k]) \/ \E p \in Procs : Ahead(p, s, k)

AheadOK ==
  \A p \in Procs, s \in Service, k \in Keys :
    Ahead(p, s, k) => IsNewest(job[p].day, k, table[s][k])

\* What the session's transaction holds of the keyed file it reads: of each key the
\* last value so far.
ReadSoFar(j, tab, k) ==
  \/ /\ tab[k] = None
     /\ \A i \in 1..Len(EnRows[j.day][1]) : i < j.row => EnRows[j.day][1][i].key # k
  \/ IsLast(j.day, j.row, k, tab[k])
TabOK(c, j, tab) ==
  \A k \in Keys : IF c = "rows" /\ j.file = 1 THEN ReadSoFar(j, tab, k) ELSE tab[k] = None

ValInv == faults = 0 => NewestHere /\ AheadOK /\ \A p \in Procs : TabOK(pc[p], job[p], tx[p].tab)

\* Steps of sessions outside the files of a day.
LEMMA QuietVal ==
  ASSUME ValInv, faults = 0, UNCHANGED <<table, tx, runs>>,
         \A q \in Procs : \/ pc'[q] = pc[q] /\ job'[q] = job[q]
                          \/ pc[q] \notin {"rows", "record"} /\ pc'[q] \notin {"rows", "record"}
  PROVE  ValInv'
  <1>1. \A q \in Procs : \A s, k : Ahead(q, s, k)' <=> Ahead(q, s, k)
    BY DEF Ahead
  <1>2. NewestHere'
    BY <1>1 DEF ValInv, NewestHere
  <1>3. AheadOK'
    <2>1. ASSUME NEW q \in Procs, NEW s \in Service, NEW k \in Keys, Ahead(q, s, k)'
          PROVE  IsNewest(job[q].day, k, table[s][k])'
      <3>1. IsNewest(job[q].day, k, table[s][k])
        BY <1>1, <2>1 DEF ValInv, AheadOK
      <3>2. job'[q] = job[q]
        BY <2>1 DEF Ahead
      <3>3. QED
        BY <3>1, <3>2 DEF IsNewest, IsLast
    <2>2. QED
      BY <2>1 DEF AheadOK
  <1>4. ASSUME NEW q \in Procs
        PROVE  TabOK(pc[q], job[q], tx[q].tab)'
    <2>1. TabOK(pc[q], job[q], tx[q].tab)
      BY DEF ValInv
    <2>2. PICK c, j, tab : c = pc'[q] /\ j = job'[q] /\ tab = tx[q].tab
      OBVIOUS
    <2>3. TabOK(c, j, tab)
      BY <2>1, <2>2 DEF TabOK
    <2>4. QED
      BY <2>2, <2>3 DEF TabOK, ReadSoFar, IsLast
  <1>5. QED
    BY <1>2, <1>3, <1>4 DEF ValInv

\* Of the sessions in the job there is one.
LEMMA OneAhead ==
  ASSUME IInv, NEW p \in Procs, InJob(p), NEW q \in Procs, NEW s, NEW k, Ahead(q, s, k)
  PROVE  q = p
  BY DEF IInv, LockInv, InJob, Ahead

LEMMA DownloadVal ==
  ASSUME IInv, LoadInv, ValInv, faults = 0, NEW p \in Procs, Download(p)
  PROVE  ValInv'
  <1>1. /\ job \in [Procs -> Job] /\ job[p] \in Job
        /\ pc \in [Procs -> {"idle", "lock", "service", "day", "rows", "record", "unlock"}]
    BY DEF IInv, TypeOK
  <1>2. /\ pc[p] = "day" /\ UNCHANGED <<runs, tx, table>>
        /\ \A q \in Procs \ {p} : pc'[q] = pc[q] /\ job'[q] = job[q]
        /\ job'[p].file = job[p].file /\ job'[p].row = job[p].row
        /\ pc'[p] \in {"day", "rows"}
    BY <1>1 DEF Download, db, Job
  <1>3. job'[p].file = 1 /\ job'[p].row = 1
    BY <1>2 DEF LoadInv, Reached
  <1>4. CASE pc'[p] = "day"
    BY <1>2, <1>4, QuietVal
  <1>5. CASE pc'[p] = "rows"
    <2>1. \A q \in Procs : \A s, k : Ahead(q, s, k)' <=> Ahead(q, s, k)
      BY <1>2, <1>3, <1>5 DEF Ahead
    <2>2. NewestHere'
      BY <1>2, <2>1 DEF ValInv, NewestHere
    <2>3. ASSUME NEW q \in Procs, NEW s \in Service, NEW k \in Keys, Ahead(q, s, k)'
          PROVE  IsNewest(job[q].day, k, table[s][k])'
      <3>1. IsNewest(job[q].day, k, table[s][k])
        BY <2>1, <2>3 DEF ValInv, AheadOK
      <3>2. q # p
        BY <1>3, <1>5, <2>3 DEF Ahead
      <3>3. QED
        BY <1>2, <3>1, <3>2 DEF IsNewest, IsLast
    <2>4. ASSUME NEW q \in Procs
          PROVE  TabOK(pc[q], job[q], tx[q].tab)'
      <3>1. TabOK(pc[q], job[q], tx[q].tab)
        BY DEF ValInv
      <3>2. PICK c, j, tab : c = pc'[q] /\ j = job'[q] /\ tab = tx[q].tab
        OBVIOUS
      <3>3. CASE q = p
        <4>1. \A k \in Keys : tab[k] = None
          BY <1>2, <3>1, <3>2, <3>3 DEF TabOK
        <4>2. \A i \in 1..Len(EnRows[j.day][1]) : ~(i < 1)
          OBVIOUS
        <4>3. j.row = 1 /\ j.file = 1
          BY <1>3, <3>2, <3>3
        <4>4. TabOK(c, j, tab)
          BY <4>1, <4>2, <4>3 DEF TabOK, ReadSoFar
        <4>5. QED
          BY <1>2, <3>2, <4>4 DEF TabOK, ReadSoFar, IsLast
      <3>4. CASE q # p
        <4>1. TabOK(c, j, tab)
          BY <1>2, <3>1, <3>2, <3>4
        <4>2. QED
          BY <1>2, <3>2, <4>1 DEF TabOK, ReadSoFar, IsLast
      <3>5. QED
        BY <3>3, <3>4
    <2>5. QED
      BY <2>2, <2>3, <2>4 DEF ValInv, AheadOK
  <1>6. QED
    BY <1>2, <1>4, <1>5

\* A session reads on in its file; nothing is committed.
LEMMA ReadVal ==
  ASSUME ValInv, faults = 0, UNCHANGED <<table, runs, pc>>, NEW p \in Procs,
         \A q \in Procs \ {p} : job'[q] = job[q] /\ tx'[q] = tx[q],
         job'[p].svc = job[p].svc, job'[p].day = job[p].day, job'[p].file = job[p].file,
         TabOK(pc[p], job[p], tx[p].tab)'
  PROVE  ValInv'
  <1>1. \A q \in Procs : \A s, k : Ahead(q, s, k)' <=> Ahead(q, s, k)
    BY DEF Ahead
  <1>2. NewestHere'
    BY <1>1 DEF ValInv, NewestHere
  <1>3. ASSUME NEW q \in Procs, NEW s \in Service, NEW k \in Keys, Ahead(q, s, k)'
        PROVE  IsNewest(job[q].day, k, table[s][k])'
    <2>1. IsNewest(job[q].day, k, table[s][k])
      BY <1>1, <1>3 DEF ValInv, AheadOK
    <2>2. job'[q].day = job[q].day
      OBVIOUS
    <2>3. QED
      BY <2>1, <2>2 DEF IsNewest, IsLast
  <1>4. ASSUME NEW q \in Procs \ {p}
        PROVE  TabOK(pc[q], job[q], tx[q].tab)'
    <2>1. TabOK(pc[q], job[q], tx[q].tab)
      BY <1>4 DEF ValInv
    <2>2. PICK c, j, tab : c = pc'[q] /\ j = job'[q] /\ tab = tx'[q].tab
      OBVIOUS
    <2>3. TabOK(c, j, tab)
      BY <1>4, <2>1, <2>2
    <2>4. QED
      BY <2>2, <2>3 DEF TabOK, ReadSoFar, IsLast
  <1>5. QED
    BY <1>2, <1>3, <1>4 DEF ValInv, AheadOK

LEMMA UpsertVal ==
  ASSUME Ordered, IInv, ValInv, faults = 0, NEW p \in Procs, UpsertRow(p)
  PROVE  ValInv'
  <1>1. /\ job \in [Procs -> Job] /\ job[p] \in Job /\ tx \in [Procs -> Tx] /\ tx[p].tab \in [Keys -> Stored]
        /\ pc[p] = "rows" /\ job[p].file = 1
        /\ job[p].day \in Days /\ job[p].sha = 1 /\ job[p].row \in Nat \ {0}
    <2>1. pc[p] = "rows" /\ job[p].file = 1
      BY DEF UpsertRow
    <2>2. job[p].sha \in Version /\ job[p].day \in Days
      BY <2>1 DEF IInv, JobInv, JobOK
    <2>3. job[p].sha = 1
      BY <2>2 DEF Ordered, Version
    <2>4. QED
      BY <2>1, <2>2, <2>3 DEF IInv, TypeOK, Job, Tx
  <1>2. PICK j, n, file : j = job[p] /\ n = j.row /\ file = EnRows[j.day][1]
    OBVIOUS
  <1>3. n \in 1..Len(file) /\ file[n] \in EnRow /\ n \in Int
    <2>1. RowsOf(job[p]) = file
      BY <1>1, <1>2 DEF RowsOf
    <2>2. /\ RowsOf(job[p])[job[p].row] \in EnRow
          /\ job[p].row \in 1..Len(RowsOf(job[p]))
      BY <1>1, CurrentRow DEF UpsertRow
    <2>3. QED
      BY <1>1, <1>2, <2>1, <2>2
  <1>4. PICK k, v : k = file[n].key /\ v = file[n].val
    OBVIOUS
  <1>5. PICK e : tx' = [tx EXCEPT ![p].tab[k] = v, ![p].evs[k] = e]
    BY <1>1, <1>2, <1>4 DEF UpsertRow, RowsOf
  <1>6. /\ \A q \in Procs \ {p} : tx'[q] = tx[q]
        /\ tx'[p].tab = [tx[p].tab EXCEPT ![k] = v]
    BY <1>1, <1>5 DEF Tx
  <1>7. job' = [job EXCEPT ![p].row = n + 1] /\ UNCHANGED <<table, runs, pc>>
    BY <1>2 DEF UpsertRow, db
  <1>8. /\ \A q \in Procs \ {p} : job'[q] = job[q]
        /\ job'[p].svc = j.svc /\ job'[p].day = j.day /\ job'[p].file = 1 /\ job'[p].row = n + 1
    BY <1>1, <1>2, <1>7 DEF Job
  <1>9. PICK w, tab, old : w = job'[p] /\ tab = tx'[p].tab /\ old = tx[p].tab
    OBVIOUS
  <1>10. ASSUME NEW x \in Keys
         PROVE  ReadSoFar(w, tab, x)
    <2>1. ReadSoFar(j, old, x)
      BY <1>1, <1>2, <1>9 DEF ValInv, TabOK
    <2>2. \A i \in 1..Len(file) : i < n + 1 <=> i < n \/ i = n
      BY <1>3
    <2>3. w.day = j.day /\ w.row = n + 1
      BY <1>8, <1>9
    <2>4. CASE x = k
      <3>1. tab[x] = v
        BY <1>1, <1>6, <1>9, <2>4
      <3>2. \A i \in 1..Len(file) : i < n + 1 => i <= n
        BY <1>3
      <3>3. IsLast(j.day, n + 1, x, v)
        <4>1. n < n + 1
          BY <1>3
        <4>2. QED
          BY <1>2, <1>3, <1>4, <2>4, <3>2, <4>1 DEF IsLast
      <3>4. QED
        BY <2>3, <3>1, <3>3 DEF ReadSoFar
    <2>5. CASE x # k
      <3>1. tab[x] = old[x]
        BY <1>1, <1>6, <1>9, <2>5
      <3>2. CASE IsLast(j.day, n, x, old[x])
        <4>1. IsLast(j.day, n + 1, x, old[x])
          BY <1>2, <1>4, <2>2, <2>5, <3>2 DEF IsLast
        <4>2. QED
          BY <2>3, <3>1, <4>1 DEF ReadSoFar
      <3>3. CASE old[x] = None /\ \A i \in 1..Len(file) : i < n => file[i].key # x
        BY <1>2, <1>4, <2>2, <2>3, <2>5, <3>1, <3>3 DEF ReadSoFar
      <3>4. QED
        BY <1>2, <2>1, <3>2, <3>3 DEF ReadSoFar
    <2>6. QED
      BY <2>4, <2>5
  <1>11. TabOK("rows", w, tab)
    BY <1>8, <1>9, <1>10 DEF TabOK
  <1>12. TabOK(pc[p], job[p], tx[p].tab)'
    BY <1>1, <1>7, <1>9, <1>11 DEF TabOK, ReadSoFar, IsLast
  <1>13. QED
    BY <1>1, <1>2, <1>6, <1>7, <1>8, <1>12, ReadVal

LEMMA InsertVal ==
  ASSUME IInv, ValInv, faults = 0, NEW p \in Procs, InsertRow(p)
  PROVE  ValInv'
  <1>1. /\ job \in [Procs -> Job] /\ job[p] \in Job /\ tx \in [Procs -> Tx]
        /\ pc[p] = "rows" /\ job[p].file = 2 /\ UNCHANGED <<table, runs, pc>>
    BY DEF InsertRow, IInv, TypeOK, db
  <1>2. PICK l, n, r : tx' = [tx EXCEPT ![p].log[l] = n] /\ job' = [job EXCEPT ![p].row = r]
    BY DEF InsertRow
  <1>3. /\ \A q \in Procs \ {p} : job'[q] = job[q] /\ tx'[q] = tx[q]
        /\ tx'[p].tab = tx[p].tab /\ job'[p].svc = job[p].svc /\ job'[p].day = job[p].day
        /\ job'[p].file = 2
    BY <1>1, <1>2 DEF Tx, Job
  <1>4. TabOK(pc[p], job[p], tx[p].tab)'
    BY <1>1, <1>3 DEF ValInv, TabOK
  <1>5. QED
    BY <1>1, <1>3, <1>4, ReadVal


\* At the end of the keyed file each of its keys is held with its last value, and no
\* other key.
LEMMA FileRead ==
  ASSUME NEW d \in Days, EnRows[d][1] \in Seq(EnRow), NEW j, NEW tab, NEW k \in Keys,
         j.day = d, j.row \in Nat, j.row > Len(EnRows[d][1]), ReadSoFar(j, tab, k)
  PROVE  /\ HasKey(d, k) => IsNewest(d, k, tab[k]) /\ tab[k] # None
         /\ ~HasKey(d, k) => tab[k] = None
  <1>1. PICK file, n, m : file = EnRows[d][1] /\ n = j.row /\ m = Len(file)
    OBVIOUS
  <1>2. m \in Nat /\ \A i \in 1..m : i < n /\ i < m + 1
    <2>1. m \in Nat
      BY <1>1
    <2>2. n \in Nat /\ n > m
      BY <1>1
    <2>3. QED
      BY <2>1, <2>2
  <1>3. CASE tab[k] = None /\ \A i \in 1..m : i < n => file[i].key # k
    <2>1. ~HasKey(d, k)
      BY <1>1, <1>2, <1>3 DEF HasKey
    <2>2. QED
      BY <1>3, <2>1
  <1>4. CASE IsLast(d, n, k, tab[k])
    <2>1. PICK i \in 1..m : /\ file[i].key = k /\ file[i].val = tab[k]
                            /\ \A l \in 1..m : l < n /\ file[l].key = k => l <= i
      BY <1>1, <1>4 DEF IsLast
    <2>2. HasKey(d, k)
      BY <1>1, <2>1 DEF HasKey
    <2>3. IsNewest(d, k, tab[k])
      <3>1. \A l \in 1..m : file[l].key = k => l <= i
        BY <1>2, <2>1
      <3>2. QED
        BY <1>1, <1>2, <2>1, <3>1 DEF IsNewest, IsLast
    <2>4. tab[k] # None
      <3>1. file[i] \in EnRow
        BY <1>1, <2>1
      <3>2. tab[k] \in Vals
        BY <2>1, <3>1 DEF EnRow
      <3>3. QED
        BY <3>2, ConstAssumption
    <2>5. QED
      BY <2>2, <2>3, <2>4
  <1>5. QED
    BY <1>1, <1>3, <1>4 DEF ReadSoFar

LEMMA CommitVal ==
  ASSUME Ordered, IInv, ValInv, faults = 0, NEW p \in Procs, CommitFile(p)
  PROVE  ValInv'
  <1>1. PICK j, s, tab : j = job[p] /\ s = j.svc /\ tab = tx[p].tab
    OBVIOUS
  <1>2. /\ job \in [Procs -> Job] /\ j \in Job /\ tx \in [Procs -> Tx] /\ tx[p] \in Tx
        /\ pc \in [Procs -> {"idle", "lock", "service", "day", "rows", "record", "unlock"}]
        /\ pc[p] = "rows" /\ s \in Service /\ j.day \in Days /\ j.sha = 1 /\ j.row \in Nat
        /\ j.file \in {1, 2} /\ runs' = runs
        /\ table \in [Service -> [Keys -> Stored]]
    <2>1. pc[p] = "rows" /\ runs' = runs
      BY DEF CommitFile
    <2>2. /\ job \in [Procs -> Job] /\ j \in Job /\ tx \in [Procs -> Tx] /\ tx[p] \in Tx
          /\ pc \in [Procs -> {"idle", "lock", "service", "day", "rows", "record", "unlock"}]
          /\ table \in [Service -> [Keys -> Stored]]
      BY <1>1 DEF IInv, TypeOK
    <2>3. j.svc \in Service /\ j.day \in Days /\ j.sha \in Version
      BY <1>1, <2>1 DEF IInv, JobInv, JobOK
    <2>4. j.sha = 1
      BY <2>3 DEF Ordered, Version
    <2>5. j.row \in Nat /\ j.file \in {1, 2}
      BY <2>2 DEF Job
    <2>6. QED
      BY <1>1, <2>1, <2>2, <2>3, <2>4, <2>5
  <1>3. /\ \A t \in Service, k \in Keys :
             table'[t][k] = IF t = s /\ tab[k] # None THEN tab[k] ELSE table[t][k]
        /\ tx' = [tx EXCEPT ![p] = NoTx]
    <2>1. table' = [table EXCEPT ![s] = [k \in Keys |-> IF tab[k] # None THEN tab[k] ELSE table[s][k]]]
      BY <1>1 DEF CommitFile, Commit
    <2>2. tx' = [tx EXCEPT ![p] = NoTx]
      BY DEF CommitFile, Commit
    <2>3. QED
      BY <1>2, <2>1, <2>2
  <1>4. \A q \in Procs \ {p} : pc'[q] = pc[q] /\ job'[q] = job[q] /\ tx'[q] = tx[q]
    BY <1>2, <1>3 DEF CommitFile
  <1>5. job'[p].svc = s /\ job'[p].day = j.day /\ job'[p].file = 2
    BY <1>1, <1>2 DEF CommitFile, Job
  <1>6. j.file = 1 => pc'[p] = "rows"
    BY <1>1, <1>2 DEF CommitFile
  <1>7. j.file = 2 => pc'[p] = "record"
    BY <1>1, <1>2 DEF CommitFile
  <1>8. InJob(p) /\ \A q \in Procs \ {p} : pc[q] \in {"idle", "lock"}
    BY <1>2 DEF IInv, LockInv, InJob
  <1>9. \A q \in Procs : \A t, k : Ahead(q, t, k)' <=> q = p /\ t = s /\ HasKey(j.day, k)
    <2>1. ASSUME NEW q \in Procs \ {p}, NEW t, NEW k
          PROVE  ~Ahead(q, t, k)'
      BY <1>4, <1>8 DEF Ahead
    <2>2. ASSUME NEW t, NEW k
          PROVE  Ahead(p, t, k)' <=> t = s /\ HasKey(j.day, k)
      BY <1>2, <1>5, <1>6, <1>7 DEF Ahead, HasKey
    <2>3. QED
      BY <2>1, <2>2
  <1>10. \A k \in Keys : /\ HasKey(j.day, k) => IsNewest(j.day, k, table'[s][k])
                         /\ ~HasKey(j.day, k) => tab[k] = None
    <2>1. CASE j.file = 1
      <3>1. EnRows[j.day][1] \in Seq(EnRow)
        <4>1. 1 \in Version /\ j.day \in Days
          BY <1>2 DEF Ordered, Version
        <4>2. QED
          BY <4>1, ConstAssumption
      <3>2. j.row > Len(EnRows[j.day][1])
        BY <1>1, <1>2, <2>1 DEF CommitFile, RowsOf
      <3>3. \A k \in Keys : ReadSoFar(j, tab, k)
        BY <1>1, <1>2, <2>1 DEF ValInv, TabOK
      <3>4. \A k \in Keys : /\ HasKey(j.day, k) => IsNewest(j.day, k, tab[k]) /\ tab[k] # None
                            /\ ~HasKey(j.day, k) => tab[k] = None
        BY <1>2, <3>1, <3>2, <3>3, FileRead
      <3>5. QED
        BY <1>2, <1>3, <3>4
    <2>2. CASE j.file = 2
      <3>1. \A k \in Keys : tab[k] = None
        BY <1>1, <1>2, <2>2 DEF ValInv, TabOK
      <3>2. \A k \in Keys : HasKey(j.day, k) => Ahead(p, s, k)
        BY <1>1, <1>2, <2>2 DEF Ahead
      <3>3. \A k \in Keys : HasKey(j.day, k) => IsNewest(j.day, k, table[s][k])
        BY <1>1, <1>2, <3>2 DEF ValInv, AheadOK
      <3>4. QED
        BY <1>2, <1>3, <3>1, <3>3
    <2>3. QED
      BY <1>2, <2>1, <2>2
  <1>11. NewestHere'
    <2>1. ASSUME NEW t \in Service, NEW d \in Days, NEW k \in Keys,
                 runs[t][d] # None, HasKey(d, k),
                 \A e \in Days : runs[t][e] # None /\ HasKey(e, k) => e <= d
          PROVE  IsNewest(d, k, table'[t][k]) \/ \E q \in Procs : Ahead(q, t, k)'
      <3>1. CASE t = s /\ HasKey(j.day, k)
        BY <1>9, <3>1
      <3>2. CASE ~(t = s /\ HasKey(j.day, k))
        <4>1. table'[t][k] = table[t][k]
          BY <1>3, <1>10, <3>2
        <4>2. \A q \in Procs : ~Ahead(q, t, k)
          BY <1>1, <1>8, <3>2 DEF Ahead
        <4>3. IsNewest(d, k, table[t][k])
          BY <2>1, <4>2 DEF ValInv, NewestHere
        <4>4. QED
          BY <4>1, <4>3
      <3>3. QED
        BY <3>1, <3>2
    <2>2. QED
      BY <1>2, <2>1 DEF NewestHere, IsNewest, IsLast, HasKey
  <1>12. AheadOK'
    <2>1. ASSUME NEW q \in Procs, NEW t \in Service, NEW k \in Keys, Ahead(q, t, k)'
          PROVE  IsNewest(job[q].day, k, table[t][k])'
      <3>1. q = p /\ t = s /\ HasKey(j.day, k)
        BY <1>9, <2>1
      <3>2. IsNewest(j.day, k, table'[t][k])
        BY <1>10, <3>1
      <3>3. QED
        BY <1>5, <3>1, <3>2 DEF IsNewest, IsLast
    <2>2. QED
      BY <2>1 DEF AheadOK
  <1>13. ASSUME NEW q \in Procs
         PROVE  TabOK(pc[q], job[q], tx[q].tab)'
    <2>1. PICK c, w, new : c = pc'[q] /\ w = job'[q] /\ new = tx'[q].tab
      OBVIOUS
    <2>2. TabOK(c, w, new)
      <3>1. CASE q = p
        <4>1. \A k \in Keys : new[k] = None
          BY <1>2, <1>3, <2>1, <3>1 DEF NoTx
        <4>2. QED
          BY <1>5, <2>1, <3>1, <4>1 DEF TabOK
      <3>2. CASE q # p
        BY <1>4, <2>1, <3>2 DEF ValInv
      <3>3. QED
        BY <3>1, <3>2
    <2>3. QED
      BY <2>1, <2>2 DEF TabOK, ReadSoFar, IsLast
  <1>14. QED
    BY <1>11, <1>12, <1>13 DEF ValInv


\* The day that is recorded is the newest recorded one, or none of its keys is in a
\* newer one: were there one, the day would lie before the window.
LEMMA RecordVal ==
  ASSUME Ordered, IInv, OrderInv, ValInv, faults = 0, NEW p \in Procs, RecordRun(p)
  PROVE  ValInv'
  <1>1. PICK j, s : j = job[p] /\ s = j.svc
    OBVIOUS
  <1>2. /\ job \in [Procs -> Job] /\ j \in Job /\ s \in Service /\ j.day \in Days
        /\ pc \in [Procs -> {"idle", "lock", "service", "day", "rows", "record", "unlock"}]
        /\ pc[p] = "record" /\ UNCHANGED <<table, tx>>
        /\ runs \in [Service -> [Days -> Run \cup {None}]]
    BY <1>1 DEF IInv, TypeOK, JobInv, JobOK, RecordRun
  <1>3. Current(j)
    BY <1>1, <1>2 DEF OrderInv, OrderOf
  <1>4. PICK r : runs' = [runs EXCEPT ![s][j.day] = r] /\ r # None
    <2>1. PICK r : /\ r = [lm |-> 1, sha |-> 1, status |-> "success"]
                   /\ runs' = [runs EXCEPT ![s][j.day] = r]
      <3>1. j.sha \in Version
        BY <1>1, <1>2 DEF IInv, JobInv, JobOK
      <3>2. j.sha = 1 /\ j.lm = 1
        BY <1>3, <3>1 DEF Ordered, Version, Current
      <3>3. VerifyAgainstCounts(j.day, j.sha) = "success"
        BY DEF Ordered, VerifyAgainstCounts
      <3>4. QED
        BY <1>1, <3>2, <3>3 DEF RecordRun
    <2>2. r \in Run /\ None \notin Run
      BY <2>1, ConstAssumption DEF Run
    <2>3. r # None
      BY <2>2
    <2>4. QED
      BY <2>1, <2>3
  <1>5. \A t \in Service, d \in Days : runs'[t][d] = IF t = s /\ d = j.day THEN r ELSE runs[t][d]
    BY <1>2, <1>4
  <1>6. \A t \in Service, d \in Days : runs[t][d] # None => runs'[t][d] # None
    BY <1>2, <1>4, <1>5
  <1>7. /\ pc'[p] = "day" /\ \A q \in Procs \ {p} : pc'[q] = pc[q] /\ job'[q] = job[q]
    BY <1>2 DEF RecordRun
  <1>8. InJob(p) /\ lock = p /\ p # None /\ \A q \in Procs \ {p} : pc[q] \in {"idle", "lock"}
    BY <1>2, ConstAssumption DEF IInv, LockInv, InJob
  <1>9. \A q \in Procs : \A t, k : ~Ahead(q, t, k)'
    BY <1>7, <1>8 DEF Ahead
  <1>10. Horizon = j.earliest /\ j.earliest \in Int /\ j.earliest <= j.day
    BY <1>1, <1>2, <1>3, <1>8 DEF Horizon, Current, Job
  <1>11. \A d \in Days : d \in Int
    BY ConstAssumption
  <1>12. NewestHere'
    <2>1. ASSUME NEW t \in Service, NEW d \in Days, NEW k \in Keys,
                 runs'[t][d] # None, HasKey(d, k),
                 \A e \in Days : runs'[t][e] # None /\ HasKey(e, k) => e <= d
          PROVE  IsNewest(d, k, table[t][k])
      <3>1. CASE t = s /\ d = j.day
        <4>1. Ahead(p, t, k)
          BY <1>1, <1>2, <2>1, <3>1 DEF Ahead
        <4>2. QED
          BY <1>1, <3>1, <4>1 DEF ValInv, AheadOK
      <3>2. CASE ~(t = s /\ d = j.day)
        <4>1. runs[t][d] # None
          BY <1>5, <2>1, <3>2
        <4>2. \A e \in Days : runs[t][e] # None /\ HasKey(e, k) => e <= d
          BY <1>6, <2>1
        <4>3. ASSUME NEW q \in Procs, Ahead(q, t, k)
              PROVE  FALSE
          <5>1. q = p
            BY <1>8, <4>3, OneAhead
          <5>2. t = s /\ HasKey(j.day, k)
            BY <1>1, <4>3, <5>1 DEF Ahead
          <5>3. runs'[s][j.day] # None
            BY <1>2, <1>4, <1>5
          <5>4. j.day < d
            <6>1. j.day <= d /\ j.day # d
              BY <1>2, <2>1, <3>2, <5>2, <5>3
            <6>2. QED
              BY <1>2, <1>11, <6>1
          <5>5. Behind(s, d, j.earliest)
            BY <1>2, <1>10, <4>1, <5>2 DEF OrderInv, RunsInOrder
          <5>6. j.day < j.earliest
            BY <1>1, <1>2, <1>3, <5>4, <5>5 DEF Behind, Current
          <5>7. QED
            BY <1>2, <1>10, <1>11, <5>6
        <4>4. QED
          BY <2>1, <4>1, <4>2, <4>3 DEF ValInv, NewestHere
      <3>3. QED
        BY <3>1, <3>2
    <2>2. QED
      BY <1>2, <2>1 DEF NewestHere, IsNewest, IsLast, HasKey
  <1>13. AheadOK'
    BY <1>9 DEF AheadOK
  <1>14. ASSUME NEW q \in Procs
         PROVE  TabOK(pc[q], job[q], tx[q].tab)'
    <2>1. PICK c, w, new : c = pc'[q] /\ w = job'[q] /\ new = tx'[q].tab
      OBVIOUS
    <2>2. \A k \in Keys : new[k] = None
      BY <1>2, <1>8, <2>1 DEF ValInv, TabOK
    <2>3. c # "rows"
      BY <1>7, <1>8, <2>1
    <2>4. QED
      BY <2>1, <2>2, <2>3 DEF TabOK
  <1>15. QED
    BY <1>12, <1>13, <1>14 DEF ValInv


\* Every step but one of the few in a day's files leaves the transaction and the
\* tables alone.
LEMMA SessionVal ==
  ASSUME IInv, ValInv, faults = 0, NEW p \in Procs,
         \/ TryLock(p) \/ SkipService(p) \/ PlanService(p) \/ EndService(p) \/ Refresh(p) \/ Unlock(p)
         \/ BeginSweep(p) \/ BeginTargeted(p) \/ BeginCatchUp(p)
  PROVE  ValInv'
  <1>1. /\ job \in [Procs -> Job]
        /\ pc \in [Procs -> {"idle", "lock", "service", "day", "rows", "record", "unlock"}]
    BY DEF IInv, TypeOK
  <1>2. /\ UNCHANGED <<table, tx, runs>> /\ pc[p] \notin {"rows", "record"} /\ pc'[p] \notin {"rows", "record"}
        /\ \A q \in Procs \ {p} : pc'[q] = pc[q] /\ job'[q] = job[q]
    <2>1. CASE TryLock(p)
      <3>1. PICK h : job' = [job EXCEPT ![p].earliest = h] \/ job' = [job EXCEPT ![p] = NoJob]
        BY <2>1 DEF TryLock, EndSession
      <3>2. \A q \in Procs \ {p} : job'[q] = job[q]
        BY <1>1, <3>1
      <3>3. QED
        BY <1>1, <2>1, <3>2 DEF TryLock, EndSession, db
    <2>2. CASE SkipService(p) \/ EndService(p)
      <3>1. \A q \in Procs \ {p} : job'[q] = job[q]
        BY <1>1, <2>2 DEF SkipService, EndService, NextService
      <3>2. pc' = [pc EXCEPT ![p] = "service"] /\ pc[p] \in {"service", "day"}
        BY <1>1, <2>2 DEF SkipService, EndService
      <3>3. UNCHANGED <<table, tx, runs>>
        BY <2>2 DEF SkipService, EndService, db
      <3>4. QED
        BY <1>1, <3>1, <3>2, <3>3
    <2>3. CASE PlanService(p)
      <3>1. PICK meta : PlanWith(p, meta) /\ pc[p] = "service"
        BY <2>3 DEF PlanService
      <3>2. PICK t, d : \/ pc' = pc /\ job' = NextService(p)
                        \/ pc' = [pc EXCEPT ![p] = "day"] /\ job' = [job EXCEPT ![p].todo = t, ![p].done = d]
        BY <3>1 DEF PlanWith
      <3>3. \A q \in Procs \ {p} : job'[q] = job[q]
        BY <1>1, <3>2 DEF NextService
      <3>4. pc' = [pc EXCEPT ![p] = "service"] \/ pc' = [pc EXCEPT ![p] = "day"]
        BY <1>1, <3>1, <3>2
      <3>5. UNCHANGED <<table, tx, runs>>
        BY <3>1 DEF PlanWith, db
      <3>6. QED
        BY <1>1, <3>1, <3>3, <3>4, <3>5
    <2>4. CASE Refresh(p)
      BY <1>1, <2>4 DEF Refresh
    <2>5. CASE Unlock(p)
      BY <1>1, <2>5 DEF Unlock, EndSession, db
    <2>6. CASE BeginSweep(p) \/ BeginTargeted(p) \/ BeginCatchUp(p)
      <3>1. PICK listed, only : Begin(p, listed, only)
        BY <2>6 DEF BeginSweep, BeginTargeted, BeginCatchUp
      <3>2. QED
        BY <1>1, <3>1 DEF Begin, db
    <2>7. QED
      BY <2>1, <2>2, <2>3, <2>4, <2>5, <2>6
  <1>3. \A q \in Procs : \/ pc'[q] = pc[q] /\ job'[q] = job[q]
                         \/ pc[q] \notin {"rows", "record"} /\ pc'[q] \notin {"rows", "record"}
    BY <1>2
  <1>4. QED
    BY <1>2, <1>3, QuietVal

LEMMA StepVal ==
  ASSUME Ordered, IInv, LoadInv, OrderInv, ValInv, [Next]_vars
  PROVE  ValInv'
  <1>1. faults \in Nat
    BY DEF IInv, TypeOK
  <1>2. SUFFICES ASSUME faults' = 0 PROVE ValInv'
    BY DEF ValInv
  <1>3. CASE UNCHANGED vars \/ Tick \/ \E s \in Service, d \in Days : Publish(s, d)
    <2>1. faults = 0 /\ UNCHANGED <<table, tx, runs, pc, job>>
      BY <1>2, <1>3 DEF vars, feed, db, sess, Tick, Publish
    <2>2. QED
      BY <2>1, QuietVal
  <1>4. ASSUME NEW p \in Procs, BeginSweep(p) \/ BeginTargeted(p) \/ BeginCatchUp(p)
        PROVE  ValInv'
    <2>1. faults = 0
      BY <1>2, <1>4 DEF BeginSweep, BeginTargeted, BeginCatchUp, Begin
    <2>2. QED
      BY <1>4, <2>1, SessionVal
  <1>5. ASSUME NEW p \in Procs, Step(p)
        PROVE  ValInv'
    <2>1. faults = 0
      <3>1. faults' = faults \/ Fault
        BY <1>5 DEF Step, TryLock, SkipService, PlanService, Download, EndService, UpsertRow, InsertRow,
                    CommitFile, RecordRun, Refresh, Unlock
      <3>2. QED
        BY <1>1, <1>2, <3>1 DEF Fault
    <2>2. QED
      BY <1>5, <2>1, SessionVal, DownloadVal, UpsertVal, InsertVal, CommitVal, RecordVal DEF Step
  <1>6. ASSUME NEW p \in Procs, Abort(p) \/ RaiseInFile(p)
        PROVE  FALSE
    BY <1>1, <1>2, <1>6 DEF Abort, RaiseInFile, Fault
  <1>7. Pollers \subseteq Procs
    BY ConstAssumption
  <1>8. QED
    BY <1>3, <1>4, <1>5, <1>6, <1>7 DEF Next

LEMMA InitVal == Init => ValInv
  <1> SUFFICES ASSUME Init PROVE ValInv
    OBVIOUS
  <1>1. NewestHere /\ AheadOK
    BY DEF Init, NewestHere, AheadOK, Ahead
  <1>2. ASSUME NEW p \in Procs
        PROVE  TabOK(pc[p], job[p], tx[p].tab)
    <2>1. pc[p] = "idle" /\ \A k \in Keys : tx[p].tab[k] = None
      BY DEF Init, NoTx
    <2>2. QED
      BY <2>1 DEF TabOK
  <1>3. QED
    BY <1>1, <1>2 DEF ValInv

\* NewestHere of a state at rest is NewestWins: what is recorded is version 1, and its
\* newest row of a key is the last one.
LEMMA AtRest ==
  ASSUME IInv, OrderInv, ValInv, faults = 0
  PROVE  NewestWins
  <1> SUFFICES ASSUME Resting, NEW s \in Service, NEW d \in Days, NEW k \in Keys, Carries(s, d, k),
                      \A e \in Days : Carries(s, e, k) => e <= d
               PROVE  table[s][k] = EnRows[d][runs[s][d].sha][LastIndex(d, runs[s][d].sha, k)].val
    BY DEF NewestWins
  <1>1. \A e \in Days : Carries(s, e, k) <=> runs[s][e] # None /\ HasKey(e, k)
    BY DEF Carries, HasKey, OrderInv, RunsDone
  <1>2. \A p \in Procs : ~Ahead(p, s, k)
    BY DEF Ahead, Resting
  <1>3. IsNewest(d, k, table[s][k]) /\ runs[s][d].sha = 1
    BY <1>1, <1>2 DEF ValInv, NewestHere, OrderInv, RunsDone
  <1>4. PICK file, m : file = EnRows[d][1] /\ m = Len(file)
    OBVIOUS
  <1>5. m \in Nat
    <2>1. 1 \in Version
      BY ConstAssumption DEF Version
    <2>2. EnRows[d][1] \in Seq(EnRow)
      BY <2>1, ConstAssumption
    <2>3. QED
      BY <1>4, <2>2
  <1>6. PICK i \in 1..m : /\ file[i].key = k /\ file[i].val = table[s][k]
                          /\ \A l \in 1..m : l < m + 1 /\ file[l].key = k => l <= i
    BY <1>3, <1>4 DEF IsNewest, IsLast
  <1>7. \A l \in 1..m : file[l].key = k => l <= i
    BY <1>5, <1>6
  <1>8. LastIndex(d, 1, k) = i
    <2>1. PICK x : x = LastIndex(d, 1, k)
      OBVIOUS
    <2>2. x = CHOOSE y \in 1..m : file[y].key = k /\ \A l \in 1..m : file[l].key = k => l <= y
      BY <1>4, <2>1 DEF LastIndex
    <2>3. x \in 1..m /\ file[x].key = k /\ \A l \in 1..m : file[l].key = k => l <= x
      BY <1>6, <1>7, <2>2
    <2>4. x <= i /\ i <= x
      BY <1>6, <1>7, <2>3
    <2>5. QED
      BY <1>6, <2>1, <2>3, <2>4
  <1>9. QED
    BY <1>3, <1>4, <1>6, <1>8

\* Catch-ups apply chronologically (architecture.md section 3b, "Ordered"): when FCC
\* publishes the days in order and once and no step failed, each stored row at rest is
\* the one of the newest recorded day that carries it.
THEOREM NewestWinsAlways == Ordered => (Spec => [](faults = 0 => NewestWins))
  <1> SUFFICES ASSUME Ordered PROVE Spec => [](faults = 0 => NewestWins)
    OBVIOUS
  <1>1. Init => OrderInv /\ ValInv
    BY InitOrder, InitVal
  <1>2. IInv /\ LoadInv /\ OrderInv /\ ValInv /\ [Next]_vars => OrderInv' /\ ValInv'
    BY StepOrder, StepVal
  <1>3. IInv /\ OrderInv /\ ValInv => (faults = 0 => NewestWins)
    BY AtRest
  <1>4. QED
    BY <1>1, <1>2, <1>3, Invariance, LoadInvariance, PTL DEF Spec
================================================================================
