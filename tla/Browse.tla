------------------------------- MODULE Browse -------------------------------
(***************************************************************************)
(* The public read API over the mirror of BulkLoad: listings page by page, *)
(* detail pages, search and the lists of changes and of new hams.  Every   *)
(* SQL statement of a request is a step of its own (psycopg, READ          *)
(* COMMITTED), and loads and migrations commit between any two of them.    *)
(* The tables are those of one licence service; a tower is the same with   *)
(* its registration number as key, which no two rows share.                *)
(***************************************************************************)
EXTENDS BulkLoad

CONSTANTS
  Queries,        \* what clients ask for
  PageSize,
  MaxCommits,     \* bound: steps of loads under one request
  NewHamsWindow   \* NEW_HAMS_WINDOW_DAYS

VARIABLE req      \* the request in progress or just answered, or None
vars == <<loadVars, req>>

-----------------------------------------------------------------------------
(* What the listings accept: the columns they sort by, the query parameters *)
(* that narrow them.  Others are ignored, another sort column is a 400.     *)

BaseColumns == {"call_sign", "license_status", "entity_name", "state", "city", "grant_date", "expired_date"}
BaseParams == {"callsign", "name", "city", "state", "status"}
Services == {"amateur", "gmrs", "aircraft", "ship"}

BrowseAmateur ==
  [sortable |-> BaseColumns \cup {"operator_class"}, params |-> BaseParams \cup {"class"}]

BrowsePersonal(service) ==
  CASE service = "gmrs" -> [sortable |-> BaseColumns, params |-> BaseParams]
    [] service = "aircraft" -> [sortable |-> BaseColumns \cup {"n_number", "type_of_carrier"},
                                params |-> BaseParams \cup {"n_number"}]
    [] service = "ship" -> [sortable |-> BaseColumns \cup {"ship_name", "general_class"},
                            params |-> BaseParams \cup {"ship_name", "mmsi"}]

BrowseTowers ==
  [sortable |-> {"registration_number", "structure_type", "status_code", "city", "state",
                 "overall_height_above_ground", "date_constructed"},
   params |-> {"registrationNumber", "structureType", "city", "state", "status", "heightMin",
               "heightMax", "constructedAfter", "constructedBefore"}]

Endpoint(service) ==
  CASE service = "amateur" -> BrowseAmateur
    [] service = "tower" -> BrowseTowers
    [] OTHER -> BrowsePersonal(service)

-----------------------------------------------------------------------------
(* The MCP server's tools, a front of the same API                         *)

\* (Mutant: the operator class under the name the tool gives it.)
BrowseLicensesOwnNames(service, supplied) ==
  (supplied \cap BaseParams)
    \cup (IF service = "amateur" THEN supplied \cap {"operator_class"} ELSE {})
    \cup (IF service = "aircraft" THEN supplied \cap {"n_number"} ELSE {})
    \cup (IF service = "ship" THEN supplied \cap {"ship_name", "mmsi"} ELSE {})

\* browse_licenses: the parameters it sends for the arguments a caller supplies.
BrowseLicenses(service, supplied) ==
  (supplied \cap BaseParams)
    \cup (IF service = "amateur" /\ "operator_class" \in supplied THEN {"class"} ELSE {})
    \cup (IF service = "aircraft" THEN supplied \cap {"n_number"} ELSE {})
    \cup (IF service = "ship" THEN supplied \cap {"ship_name", "mmsi"} ELSE {})

\* browse_towers: its own names to the API's.
TowerParam ==
  [registration_number |-> "registrationNumber", structure_type |-> "structureType",
   city |-> "city", state |-> "state", status |-> "status",
   height_min |-> "heightMin", height_max |-> "heightMax",
   constructed_after |-> "constructedAfter", constructed_before |-> "constructedBefore"]
BrowseTowersTool(supplied) == {TowerParam[p] : p \in supplied}

ToolArguments(service) ==
  IF service = "tower" THEN DOMAIN TowerParam
  ELSE BaseParams \cup {"operator_class", "n_number", "ship_name", "mmsi"}
Forwarded(service, supplied) ==
  IF service = "tower" THEN BrowseTowersTool(supplied) ELSE BrowseLicenses(service, supplied)

\* The descriptions of the tools: what an argument is for.
MeantFor(service, p) ==
  CASE p = "operator_class" -> service = "amateur"
    [] p = "n_number" -> service = "aircraft"
    [] p \in {"ship_name", "mmsi"} -> service = "ship"
    [] OTHER -> TRUE

\* Texts that are sorted by are numbers here; a registration is a key, and a tool is
\* called with the arguments it has.
ASSUME BrowseAssumption ==
  /\ PageSize \in Nat \ {0}
  /\ Keys \subseteq Int /\ \A u \in Keys : Call[u] \in Int
  /\ None \notin {200, 400, 404, 500}
  /\ \A q \in Queries :
       /\ q.kind = "tower" => q.of \in Keys
       /\ q.kind = "tool" => /\ q.service \in Services \cup {"tower"}
                             /\ q.supplied \subseteq ToolArguments(q.service)

-----------------------------------------------------------------------------
(* What the statements read                                                *)

Header(u) == tables["HD"][u]
Entity(u) == tables["EN"][u]

\* FROM hd LEFT JOIN en ... WHERE: one row per licence, also without an entity.
Licences(q) ==
  {u \in Keys : Header(u) # None /\ (q.status # None => Header(u).status = <<q.status>>)}

\* change_history's WHERE.  Field changes are stored without an FRN.
ChangeHistory(q) ==
  {e \in events : IF q.by = "subject" THEN e.subject = <<q.of>> ELSE e.frn = <<q.of>>}

\* new_hams: change_events JOIN en, LEFT JOIN hd.
NewHams ==
  {e \in events : e.isNew /\ e.day >= today - NewHamsWindow /\ Entity(e.key) # None}

Items(q) ==
  CASE q.kind = "browse" -> Licences(q)
    [] q.kind = "history" -> ChangeHistory(q)
    [] q.kind = "newhams" -> NewHams

\* ORDER BY.  The second component of a licence's place is the tie-breaker
\* hd.call_sign; NULLS LAST either way; an event's id orders those of one day.
Column(e) == IF e.field = "license_granted" THEN 0
             ELSE CHOOSE i \in 1..Len(Schema[e.file]) : Schema[e.file][i] = e.field
Signed(q, n) == IF q.order = "desc" THEN -n ELSE n
Place(q, x) ==
  CASE q.kind = "history" -> <<-x.day, IF x.file = "EN" THEN 0 ELSE 1, -x.key, -Column(x)>>
    [] q.kind = "newhams" -> <<-Granted(x.key), Call[x.key]>>
    [] q.kind = "browse" /\ q.sort = "call_sign" -> <<Signed(q, Call[x])>>
    [] OTHER -> <<IF Entity(x) = None THEN 1000 ELSE Signed(q, Entity(x).text[1]), Call[x]>>

Before(q, x, y) ==
  LET p == Place(q, x)  r == Place(q, y)
  IN  \E i \in DOMAIN p : p[i] < r[i] /\ \A j \in 1..(i - 1) : p[j] = r[j]

\* LIMIT and OFFSET: rows tied in every ORDER BY column come in any order.
FirstRows(q, n) ==
  {S \in kSubset(n, Items(q)) : \A x \in S, y \in Items(q) \ S : ~Before(q, y, x)}
Pages(q, offset) ==
  LET upTo(n) == FirstRows(q, Min({n, Cardinality(Items(q))}))
  IN  UNION {{S \ T : T \in {P \in upTo(offset) : P \subseteq S}} : S \in upTo(offset + PageSize)}

\* The current holder of a call sign: an active licence first, then the newest.
Holders(c) ==
  LET all == {u \in Keys : Header(u) # None /\ Header(u).call_sign = <<c>>}
      active == {u \in all : Header(u).status = <<"A">>}
      candidates == IF active # {} THEN active ELSE all
  IN  {u \in candidates : \A v \in candidates : Granted(v) <= Granted(u)}

\* The subjects the FRN holds besides the one asked for.
RelatedIdentities(frn, c) == {u \in Keys : views[u] = frn /\ <<Call[u]>> # c}

-----------------------------------------------------------------------------
(* Requests                                                                *)

\* (Mutant: the log is read before the rows.)
DetailLogFirst == <<"holder", "changes", "header", "entity", "related">>

\* The statements of each endpoint, in order.  The sections of a service and FCC's own
\* history table are read like the entity and left out.
Detail == <<"holder", "header", "entity", "changes", "related">>
TowerDetail == <<"registration", "entity", "changes", "related">>
Statements(q) ==
  CASE q.kind = "detail" -> Detail
    [] q.kind = "tower" -> TowerDetail
    [] q.kind = "search" -> <<"search">>
    [] q.kind = "identity" -> <<"identity">>
    [] q.kind = "tool" -> <<"where">>
    [] OTHER -> <<"count", "rows">>

\* Ghost: what is there to be shown when the request begins.
Shown(q) ==
  CASE q.kind \in {"browse", "history", "newhams"} -> Items(q)
    [] q.kind = "detail" -> {u \in Keys : Header(u) # None /\ Header(u).call_sign = <<q.of>>
                                          /\ Header(u).status = <<"A">>}
    [] OTHER -> {}

Open(q, hit) ==
  [q |-> q, status |-> None, todo |-> Statements(q), hit |-> hit,
   page |-> 1, total |-> 0, seen |-> {}, got |-> [s \in {} |-> None],
   start |-> Shown(q), disturbed |-> FALSE, commits |-> 0]

Init == LoadInit /\ req = None

\* resolve_sort
Accepted(q) == q.kind = "browse" => q.sort \in Endpoint(q.service).sortable

Begin ==
  /\ req = None
  /\ \E q \in Queries :
       req' = IF Accepted(q) THEN Open(q, FALSE) ELSE [Open(q, FALSE) EXCEPT !.status = 400]
  /\ UNCHANGED loadVars

Turn(statement) == req # None /\ req.status = None /\ Head(req.todo) = statement

\* The statement returned r; the last one makes the answer.
Learnt(got, statement, r) ==
  [s \in DOMAIN got \cup {statement} |-> IF s = statement THEN r ELSE got[s]]
Got(r) ==
  [req EXCEPT !.got = Learnt(@, Head(req.todo), r), !.todo = Tail(@),
              !.status = IF Len(req.todo) = 1 THEN 200 ELSE None]
Fails(status) == [req EXCEPT !.status = status]

\* (Mutant: the count joins the entities, the rows left-join them.)
CountJoined ==
  /\ Turn("count")
  /\ req' = [req EXCEPT !.todo = Tail(@), !.total =
                Cardinality({x \in Items(req.q) : req.q.kind = "browse" => Entity(x) # None})]
  /\ UNCHANGED loadVars

Count ==
  /\ Turn("count")
  /\ req' = [req EXCEPT !.total = Cardinality(Items(req.q)), !.todo = Tail(@)]
  /\ UNCHANGED loadVars

\* One page; the client asks for the next while page * page_size < total.
ReadPage ==
  /\ Turn("rows")
  /\ \E rows \in Pages(req.q, (req.page - 1) * PageSize) :
       LET read == [req EXCEPT !.seen = @ \cup rows]
       IN  req' = IF req.page * PageSize < req.total
                  THEN [read EXCEPT !.page = @ + 1, !.todo = Statements(req.q)]
                  ELSE [read EXCEPT !.status = 200]
  /\ UNCHANGED loadVars

ResolveHolder ==
  /\ Turn("holder")
  /\ IF Holders(req.q.of) = {} THEN req' = Fails(404)
     ELSE \E u \in Holders(req.q.of) : req' = Got(u)
  /\ UNCHANGED loadVars

ReadHeader ==
  /\ Turn("header")
  /\ req' = Got(Header(req.got.holder))
  /\ UNCHANGED loadVars

\* tower_detail starts from the row itself.
ReadRegistration ==
  /\ Turn("registration")
  /\ req' = IF Header(req.q.of) = None THEN Fails(404)
            ELSE [Got(req.q.of) EXCEPT !.got = [header |-> Header(req.q.of), holder |-> req.q.of]]
  /\ UNCHANGED loadVars

\* (Mutant: the entity of the call sign.)
ReadEntityByCallSign ==
  /\ Turn("entity")
  /\ \E u \in Keys : /\ Entity(u) # None /\ Entity(u).call_sign = req.got.header.call_sign
                     /\ req' = Got(Entity(u))
  /\ UNCHANGED loadVars

ReadEntity ==
  /\ Turn("entity")
  /\ req' = Got(Entity(req.got.holder))
  /\ UNCHANGED loadVars

Subject(q) == IF q.kind = "tower" THEN Call[q.of] ELSE q.of

ReadChanges ==
  /\ Turn("changes")
  /\ req' = Got({e \in events : e.subject = <<Subject(req.q)>>})
  /\ UNCHANGED loadVars

\* Only with an FRN to look for; without the view the statement raises.
ReadRelated ==
  /\ Turn("related")
  /\ req' = IF req.got.entity = None \/ req.got.entity.frn = None THEN Got({})
            ELSE IF views = Dropped THEN Fails(500)
            ELSE Got(RelatedIdentities(req.got.entity.frn, req.got.header.call_sign))
  /\ UNCHANGED loadVars

ByFrn ==
  /\ Turn("identity")
  /\ req' = IF views = Dropped THEN Fails(500) ELSE Got({u \in Keys : views[u] = <<req.q.of>>})
  /\ UNCHANGED loadVars

\* One arm per table, all in one statement; the client follows a hit to its detail.
Search ==
  /\ Turn("search")
  /\ \/ \E f \in ToSet(Files), u \in Keys :
          /\ tables[f][u] # None
          /\ req' = Open([kind |-> "detail", of |-> tables[f][u].call_sign[1]], TRUE)
     \/ req' = Got({})
  /\ UNCHANGED loadVars

\* A browse tool's call, up to the WHERE clause the API makes of it.
ToolWhere ==
  /\ Turn("where")
  /\ req' = Got(Forwarded(req.q.service, req.q.supplied) \cap Endpoint(req.q.service).params)
  /\ UNCHANGED loadVars

Close ==
  /\ req # None /\ req.status # None
  /\ req' = None
  /\ UNCHANGED loadVars

Answer ==
  \/ Begin \/ Count \/ ReadPage \/ Search \/ ByFrn \/ ToolWhere
  \/ ResolveHolder \/ ReadHeader \/ ReadRegistration \/ ReadEntity \/ ReadChanges \/ ReadRelated
  \/ Close

\* Ghost: has a commit taken something out of what a request is about, moved it, or
\* come between its count and its rows?
Disturbs(q, todo) ==
  \/ ~(Shown(q) \subseteq Shown(q)')
  \/ q.kind = "browse" /\ \E u \in Shown(q) : Place(q, u)' # Place(q, u)
  \/ todo = <<"rows">> /\ Shown(q)' # Shown(q)

\* A load, or time, moves on under a request; an answer is looked at when it is made.
LoadStep ==
  /\ Load
  /\ req # None => req.status = None /\ req.commits < MaxCommits
  /\ IF req = None THEN req' = req
     ELSE \E r \in {req} : req' = [r EXCEPT !.disturbed = @ \/ Disturbs(r.q, r.todo), !.commits = @ + 1]

Next == Answer \/ LoadStep
Spec == Init /\ [][Next]_vars

-----------------------------------------------------------------------------
(* Properties of the answers                                               *)

Answered(kind) == req # None /\ req.status = 200 /\ req.q.kind = kind

\* pagination.py: a client that pages through a listing while files are loaded has
\* seen everything that was there when it began, if nothing was committed between
\* the count and the rows of a page, nothing it lists left or changed place, and no
\* other row has the same place (call signs are reused; id makes events unique).
NothingMissed ==
  \A kind \in {"browse", "history", "newhams"} : Answered(kind) /\ ~req.disturbed =>
    \A x \in req.start :
      (\A y \in Items(req.q) \ {x} : Place(req.q, y) # Place(req.q, x)) => x \in req.seen

\* personal_services.py: "Resolve the CURRENT holder ... so two holders' data is never
\* blended", also when the call sign passes on while the page is put together.
OneHolder ==
  Answered("detail") =>
    /\ req.got.header.call_sign = <<req.q.of>>
    /\ req.got.entity # None => req.got.entity.usi = req.got.header.usi
    /\ ~req.disturbed /\ req.start # {} =>
         /\ req.got.holder \in req.start \cup Shown(req.q)
         /\ \A u \in req.start : Granted(u) <= Granted(req.got.holder)

\* The change log is read after the rows it explains and committed with them: a
\* version that a daily file brought is shown with the changes it made.
LogExplainsRows ==
  (Answered("detail") \/ Answered("tower")) =>
    \A f \in ToSet(Files), e \in events :
      LET row == IF f = "HD" THEN req.got.header ELSE req.got.entity
      IN  base[f] = 0 /\ row # None /\ e.file = f /\ <<e.key>> = row.usi /\ e.day = row.text[1]
            => e \in req.got.changes

\* search.py: every hit leads to a page, also one found by the name in a file loaded
\* after the licences' own.
HitsResolve == req # None /\ req.hit => req.status # 404

\* tools.py: a filter given to a tool narrows the listing of the services it is meant
\* for and of no other.
ToolFiltersApply ==
  Answered("tool") =>
    Cardinality(req.got.where) = Cardinality({p \in req.q.supplied : MeantFor(req.q.service, p)})
=============================================================================
