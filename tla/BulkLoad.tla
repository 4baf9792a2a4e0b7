------------------------------ MODULE BulkLoad ------------------------------
(***************************************************************************)
(* Filling the mirror of one licence service: the weekly complete dump an  *)
(* operator loads (scheduler.py --bootstrap), the daily files the poller   *)
(* loads on top of it, and the migration container that rebuilds the       *)
(* identity views, as clients of one database.  DailyIngest has the two    *)
(* loaders of daily files and their lock row by row; here a load takes one *)
(* step per commit, and the question is what the tables hold compared with *)
(* what FCC knows: the licences touched on each day.                       *)
(***************************************************************************)
EXTENDS DatFile, FiniteSets

CONSTANTS
  Keys,           \* unique system identifiers of licences
  Call, Frn,      \* the call sign and the licensee of each
  Touched,        \* the licences FCC touches on each day, the first time grants it
  Lapses,         \* the day from which a licence is no longer active
  Style,          \* how FCC writes its free text: "plain", "split" or "delimited"
  Rest,           \* the second half of a text that is not plain
  Window,         \* DAILY_WINDOW_DAYS
  CutDays,        \* the last day of each complete dump
  MaxBootstraps,
  MaxFaults       \* bound: crashes and migrations together

Days == 1..Len(Touched)

-----------------------------------------------------------------------------
(* What FCC knows, and the files it writes                                 *)

\* The day u was last touched, up to and including day d; 0 before its grant.
Version(u, d) == LET hits == {e \in 1..d : u \in Touched[e]} IN IF hits = {} THEN 0 ELSE Max(hits)
Granted(u) == Min({e \in Days : u \in Touched[e]})

\* (Mutant: the names before the licences.)
FilesNamesFirst == <<"EN", "HD">>

\* The record types of a service in the order of schemas.py.
Files == <<"HD", "EN">>
Schema == [HD |-> <<"record_type", "usi", "call_sign", "status", "text">>,
           EN |-> <<"record_type", "usi", "call_sign", "text", "frn">>]

Status(u, v) == IF v < Lapses[u] THEN "A" ELSE "E"

\* The physical lines of u's record as of version v: free text with a newline in it
\* runs over a blank and a further line, one with a delimiter has a cell too many.
Lines(u, v, f) ==
  CASE f = "HD" -> << <<"HD", u, Call[u], Status(u, v), v>> >>
    [] f = "EN" /\ Style[u] = "plain" -> << <<"EN", u, Call[u], v, Frn[u]>> >>
    [] f = "EN" /\ Style[u] = "split" -> << <<"EN", u, Call[u], v>>, <<Blank>>, <<Rest, Frn[u]>> >>
    [] OTHER -> << <<"EN", u, Call[u], v, Rest, Frn[u]>> >>

\* The row FCC means by it, had the text no effect on the layout.
Meant(u, v, f) ==
  IF f = "HD" THEN [usi |-> <<u>>, call_sign |-> <<Call[u]>>, status |-> <<Status(u, v)>>, text |-> <<v>>]
  ELSE [usi |-> <<u>>, call_sign |-> <<Call[u]>>, frn |-> <<Frn[u]>>,
        text |-> IF Style[u] = "split" THEN <<v, Blank, Rest>> ELSE <<v>>]

\* The cells of a file's columns, and the rows of a table.
UsiCell == {<<u>> : u \in Keys}
CallCell == {<<Call[u]>> : u \in Keys}
FrnCell == {<<Frn[u]>> : u \in Keys} \cup {<<Rest>>}
TextCell == {<<d>> : d \in Days} \cup {<<d, Blank, Rest>> : d \in Days}
RowsOf(f) ==
  IF f = "HD" THEN [usi : UsiCell, call_sign : CallCell, status : {<<"A">>, <<"E">>}, text : TextCell]
  ELSE [usi : UsiCell, call_sign : CallCell, text : TextCell, frn : FrnCell]

\* No text is empty, and none that a newline splits goes on like a record of its own.
ASSUME FileAssumption ==
  /\ Keys # {} /\ IsFiniteSet(Keys)
  /\ Touched \in Seq(SUBSET Keys) /\ Touched # <<>>
  /\ \A u \in Keys : Style[u] \in {"plain", "split", "delimited"} /\ Blank \notin {u, Call[u], Frn[u]}
  /\ Blank \notin Days /\ Blank \notin {"A", "E", Rest} /\ Rest \notin ToSet(Files)
  /\ \A f \in ToSet(Files) : None \notin RowsOf(f)
  /\ None \notin FrnCell

\* The records of the licences us as of day d, one after another.
FileOf(us, d, f) == FoldLeft(LAMBDA file, u : file \o Lines(u, Version(u, d), f), <<>>, SetToSeq(us))
DailyFile(d, f) == FileOf(Touched[d], d, f)
CompleteFile(cut, f) == FileOf({u \in Keys : Version(u, cut) > 0}, cut, f)
Parsed(physical, f) == ParseDatFile(physical, f, Schema[f])

-----------------------------------------------------------------------------
VARIABLES
  today,      \* the UTC date
  dump,       \* the cut of the complete dump FCC offers, 0 before the first
  tables,     \* per file, the table it is loaded into: a row or None per licence
  events,     \* change_events
  ingested,   \* ingest_runs: the days recorded
  views,      \* identity_by_frn: the FRN of each licence; Dropped during a migration
  job,        \* the load that holds the advisory lock, or None
  noticed,    \* complete_dumps: the newest cut seen, 0 if none
  announced,  \* the cuts check_complete_dumps logged as new, in order
  used,       \* how many bootstraps, crashes and migrations there have been
  base,       \* ghost: per file, the cut of the last dump loaded, 0 if none
  since,      \* ghost: per file, the oldest day whose file it needs on top of that dump
  undone      \* ghost: per file, recorded days a dump older than them wrote over

Dropped == None

\* change_events; the load under the lock, with the days and files still to load.
Event ==
  [key : Keys, subject : CallCell, field : ToSet(Schema["HD"]) \cup ToSet(Schema["EN"]) \cup {"license_granted"},
   frn : FrnCell \cup {None}, isNew : BOOLEAN, day : Days, file : ToSet(Files), informed : BOOLEAN]
Job ==
  [kind : {"daily"}, days : SUBSET Days, files : {Files, Tail(Files), <<>>}]
    \cup [kind : {"bootstrap"}, cut : CutDays, days : {{}}, files : {Files, Tail(Files), <<>>}]

ASSUME LoadAssumption ==
  /\ Window \in Nat /\ MaxBootstraps \in Nat /\ MaxFaults \in Nat
  /\ CutDays \subseteq Days
  /\ None \notin Job
fcc == <<today, dump>>
ghosts == <<base, since, undone>>
watch == <<noticed, announced>>
loadVars == <<today, dump, tables, events, ingested, views, job, noticed, announced, used, base, since, undone>>

PerFile(x) == [f \in ToSet(Files) |-> x]

LoadInit ==
  /\ today = 2
  /\ dump = 0
  /\ tables = PerFile([u \in Keys |-> None])
  /\ events = {}
  /\ ingested = {}
  /\ views = [u \in Keys |-> None]
  /\ job = None
  /\ noticed = 0
  /\ announced = <<>>
  /\ used = [bootstraps |-> 0, crashes |-> 0, migrations |-> 0]
  /\ base = PerFile(0)
  /\ since = PerFile(1)
  /\ undone = PerFile({})

Counted(what) == used' = [used EXCEPT ![what] = @ + 1]
MayFail == used.crashes + used.migrations < MaxFaults

\* The next day begins and the file of the day before appears.
Tick ==
  /\ today <= Len(Touched)
  /\ today' = today + 1
  /\ UNCHANGED <<dump, tables, events, ingested, views, job, watch, used, ghosts>>

CutDump ==
  /\ today - 1 \in CutDays
  /\ dump < today - 1
  /\ dump' = today - 1
  /\ UNCHANGED <<today, tables, events, ingested, views, job, watch, used, ghosts>>

-----------------------------------------------------------------------------
(* The daily pass                                                          *)

\* Files FCC still offers whose day has no ingest_runs row.
Pending == {d \in Days : d < today /\ d >= today - Window} \ ingested

BeginDaily ==
  /\ job = None
  /\ Pending # {}
  /\ job' = [kind |-> "daily", days |-> Pending, files |-> Files]
  /\ UNCHANGED <<fcc, tables, events, ingested, views, watch, used, ghosts>>

\* (Mutant: the identity view is asked, which a load refreshes at its end.)
HasPriorLicenseInView(en, frn) == views # Dropped /\ \E u \in Keys : views[u] = frn

\* frn_has_prior_amateur_license
HasPriorLicense(en, frn) == \E u \in Keys : en[u] # None /\ en[u].frn = frn

\* Every licence granted before day d has had a chance to be stored.
Informed(d) == \A e \in (base["EN"] + 1)..(d - 1) : e \in ingested

\* One row: its events are decided against the table before the row is stored.
IngestRow(st, row, f, d) ==
  LET old == st.table[row.usi[1]]
      event(field, frn, new) ==
        [key |-> row.usi[1], subject |-> row.call_sign, field |-> field, frn |-> frn,
         isNew |-> new, day |-> d, file |-> f, informed |-> Informed(d)]
  IN  [table |-> Upsert(st.table, row, "usi"),
       events |-> st.events \cup
         IF old # None THEN {event(c, None, FALSE) : c \in DiffRows(old, row)}
         ELSE IF f = "EN" /\ row.frn # None
           THEN {event("license_granted", row.frn, ~HasPriorLicense(st.table, row.frn))}
         ELSE {}]

IngestRows(table, rows, f, d) ==
  FoldLeft(LAMBDA st, r : IngestRow(st, r, f, d), [table |-> table, events |-> {}], rows)

\* ingest_file with diffs: rows and events of one file become visible together.
LoadDaily ==
  /\ job # None /\ job.kind = "daily"
  /\ job.days # {} /\ job.files # <<>>
  /\ LET f == Head(job.files)
         d == Min(job.days)
         st == IngestRows(tables[f], Parsed(DailyFile(d, f), f), f, d)
     IN  /\ tables' = [tables EXCEPT ![f] = st.table]
         /\ events' = events \cup st.events
         /\ since' = [since EXCEPT ![f] = Min({@, d})]
  /\ job' = [job EXCEPT !.files = Tail(@)]
  /\ UNCHANGED <<fcc, ingested, views, watch, used, base, undone>>

\* record_ingest_run with status 'success'; a day whose rows are not as many as FCC
\* counted stays pending, which is DailyIngest's subject too.
RecordDay ==
  /\ job # None /\ job.kind = "daily"
  /\ job.days # {} /\ job.files = <<>>
  /\ ingested' = ingested \cup {Min(job.days)}
  /\ job' = [job EXCEPT !.days = @ \ {Min(@)}, !.files = Files]
  /\ UNCHANGED <<fcc, tables, events, views, watch, used, ghosts>>

-----------------------------------------------------------------------------
(* Bootstrap from the complete dump                                        *)

\* bootstrap_all: exits if the lock is held, and keeps the dump it downloads even if
\* FCC publishes the next one meanwhile.
BeginBootstrap ==
  /\ job = None
  /\ dump > 0
  /\ used.bootstraps < MaxBootstraps /\ Counted("bootstraps")
  /\ job' = [kind |-> "bootstrap", cut |-> dump, days |-> {}, files |-> Files]
  /\ UNCHANGED <<fcc, tables, events, ingested, views, watch, ghosts>>

\* ingest_file without diffs: no event, and nothing in ingest_runs is touched.
LoadComplete ==
  /\ job # None /\ job.kind = "bootstrap"
  /\ job.files # <<>>
  /\ LET f == Head(job.files)
     IN  /\ tables' = [tables EXCEPT ![f] =
                         UpsertBatch(@, Parsed(CompleteFile(job.cut, f), f), "usi").table]
         /\ base' = [base EXCEPT ![f] = job.cut]
         /\ since' = [since EXCEPT ![f] = job.cut + 1]
         /\ undone' = [undone EXCEPT ![f] = {d \in ingested : d > job.cut}]
  /\ job' = [job EXCEPT !.files = Tail(@)]
  /\ UNCHANGED <<fcc, events, ingested, views, watch, used>>

-----------------------------------------------------------------------------
(* The end of either load; crashes; migrations; the watch for dumps        *)

Identity(en) == [u \in Keys |-> IF en[u] = None THEN None ELSE en[u].frn]

\* (Mutant: only the daily pass refreshes the views.)
RefreshViewsDaily ==
  /\ job # None
  /\ job.days = {}
  /\ job.kind = "daily" \/ job.files = <<>>
  /\ views' = IF views = Dropped \/ job.kind = "bootstrap" THEN views ELSE Identity(tables["EN"])
  /\ job' = None
  /\ UNCHANGED <<fcc, tables, events, ingested, watch, used, ghosts>>

\* _refresh_materialized_views, while the lock is still held; without the view the
\* statement raises and the load ends there.
RefreshViews ==
  /\ job # None
  /\ job.days = {}
  /\ job.kind = "daily" \/ job.files = <<>>
  /\ views' = IF views = Dropped THEN Dropped ELSE Identity(tables["EN"])
  /\ job' = None
  /\ UNCHANGED <<fcc, tables, events, ingested, watch, used, ghosts>>

\* The process dies or a statement fails: the open transaction and the lock go with it
\* (what an exception of another kind leaves behind is DailyIngest's subject).
Crash ==
  /\ job # None
  /\ MayFail /\ Counted("crashes")
  /\ job' = None
  /\ UNCHANGED <<fcc, tables, events, ingested, views, watch, ghosts>>

\* Migration 009 runs on every start, outside the ingest lock, a statement at a time.
DropViews ==
  /\ views # Dropped
  /\ MayFail /\ Counted("migrations")
  /\ views' = Dropped
  /\ UNCHANGED <<fcc, tables, events, ingested, job, watch, ghosts>>

CreateViews ==
  /\ views = Dropped
  /\ views' = Identity(tables["EN"])
  /\ UNCHANGED <<fcc, tables, events, ingested, job, watch, used, ghosts>>

\* (Mutant: not older is new.)
IsNewDumpOrSame(previous, published) == previous = 0 \/ published >= previous

\* record_complete_dump: is_new
IsNewDump(previous, published) == previous = 0 \/ published > previous

\* check_complete_dumps, when the listing can be fetched and names the dump.
CheckCompleteDumps ==
  /\ dump > 0
  /\ noticed' = dump
  /\ announced' = IF IsNewDump(noticed, dump) THEN Append(announced, dump) ELSE announced
  /\ UNCHANGED <<fcc, tables, events, ingested, views, job, used, ghosts>>

Load ==
  \/ Tick \/ CutDump
  \/ BeginDaily \/ LoadDaily \/ RecordDay
  \/ BeginBootstrap \/ LoadComplete
  \/ RefreshViews \/ Crash
  \/ DropViews \/ CreateViews
  \/ CheckCompleteDumps

-----------------------------------------------------------------------------
(* Properties of the loads                                                 *)

LoadTypeOK ==
  /\ today \in 2..(Len(Touched) + 1)
  /\ dump \in CutDays \cup {0} /\ noticed \in CutDays \cup {0} /\ announced \in Seq(CutDays)
  /\ DOMAIN tables = ToSet(Files) /\ \A f \in ToSet(Files) : tables[f] \in [Keys -> RowsOf(f) \cup {None}]
  /\ events \subseteq Event
  /\ ingested \subseteq Days
  /\ views = Dropped \/ views \in [Keys -> FrnCell \cup {None}]
  /\ job \in Job \cup {None}
  /\ used \in [bootstraps : 0..MaxBootstraps, crashes : 0..MaxFaults, migrations : 0..MaxFaults]
  /\ base \in [ToSet(Files) -> CutDays \cup {0}]
  /\ since \in [ToSet(Files) -> 1..(Len(Touched) + 1)]
  /\ undone \in [ToSet(Files) -> SUBSET Days]

\* parser.py: a newline inside a text neither loses a record nor makes one up.  Every
\* stored row is one FCC wrote, whole, unless its text holds a delimiter.
StoredAsWritten ==
  \A f \in ToSet(Files), u \in Keys :
    tables[f][u] # None /\ (f = "EN" => Style[u] # "delimited") =>
      \E d \in Days : u \in Touched[d] /\ tables[f][u] = Meant(u, d, f)

\* scheduler.py's first-run sequence, `--bootstrap` followed by `--catch-up`: once
\* every day is recorded from the cut on (without a dump, from the first), and from the
\* oldest file that was loaded on top, a table holds what FCC last wrote of each
\* licence.  It needs a premise the code does not secure: no dump was loaded over a
\* newer day already recorded.
CaughtUp ==
  \A f \in ToSet(Files) :
    undone[f] = {} /\ since[f]..(today - 1) \subseteq ingested =>
      \A u \in Keys : (f = "EN" => Style[u] # "delimited") =>
        tables[f][u] = IF Version(u, today - 1) = 0 THEN None
                       ELSE Meant(u, Version(u, today - 1), f)

Grants == {e \in events : e.field = "license_granted"}

\* is_new_operator, decided once at ingest time.  Whatever is missing, crashes or is
\* bootstrapped when, a licence is granted at most once and a licensee celebrated at
\* most once; and if no earlier day is missing from the tables, a day's grants to a
\* licensee have the one that is celebrated just if none came before that day.
NewHamsAreNew ==
  /\ \A e, g \in Grants : e # g => e.key # g.key /\ (e.isNew /\ g.isNew => e.frn # g.frn)
  /\ \A e \in Grants : e.informed /\ (\A u \in Keys : Style[u] = "delimited" => Frn[e.key] \notin {Frn[u], Rest}) =>
       ((\A u \in Keys : Frn[u] = Frn[e.key] => Version(u, e.day - 1) = 0)
          <=> \E g \in Grants : g.isNew /\ g.frn = e.frn /\ g.day = e.day)

\* If nothing crashed, the identity view is current whenever no load is running, also
\* when a migration dropped it under a load's refresh.
ViewsFollow ==
  job = None /\ used.crashes = 0 => views \in {Dropped, Identity(tables["EN"])}

\* "exactly once instead of on every poll": db.py's record_complete_dump.
AnnouncedOnce ==
  /\ \A i, j \in 1..Len(announced) : i < j => announced[i] < announced[j]
  /\ noticed > 0 => announced # <<>> /\ Last(announced) = noticed
=============================================================================
