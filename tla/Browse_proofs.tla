----------------------------- MODULE Browse_proofs -----------------------------
(****************************************************************************)
(* Theorems about Browse: what a reader of several committed statements may *)
(* conclude from its answers, for every list of queries and page size.      *)
(****************************************************************************)
EXTENDS Mirror_proofs

-----------------------------------------------------------------------------
(* A request, and what each step makes of it                               *)

IsRequest(r) ==
  r = [q |-> r.q, status |-> r.status, todo |-> r.todo, hit |-> r.hit, page |-> r.page,
       total |-> r.total, seen |-> r.seen, got |-> r.got, start |-> r.start,
       disturbed |-> r.disturbed, commits |-> r.commits]

\* s goes on with what r was asked.
GoesOn(r, s) ==
  /\ IsRequest(s)
  /\ s.q = r.q /\ s.hit = r.hit /\ s.start = r.start /\ s.disturbed = r.disturbed

ReqOK ==
  req = None \/ /\ IsRequest(req)
                /\ req.disturbed \in BOOLEAN /\ req.hit \in BOOLEAN
                /\ req.q \in Queries \/ req.q.kind = "detail"

LEMMA Renewed ==
  ASSUME NEW r, IsRequest(r), NEW got, NEW todo, NEW status
  PROVE  [r EXCEPT !.got = got, !.todo = todo, !.status = status]
           = [q |-> r.q, status |-> status, todo |-> todo, hit |-> r.hit, page |-> r.page,
              total |-> r.total, seen |-> r.seen, got |-> got, start |-> r.start,
              disturbed |-> r.disturbed, commits |-> r.commits]
<1>1. PICK a, b, c : /\ a = [r EXCEPT !.got = got] /\ b = [a EXCEPT !.todo = todo]
                     /\ c = [b EXCEPT !.status = status]
  OBVIOUS
<1>2. a = [q |-> r.q, status |-> r.status, todo |-> r.todo, hit |-> r.hit, page |-> r.page,
           total |-> r.total, seen |-> r.seen, got |-> got, start |-> r.start,
           disturbed |-> r.disturbed, commits |-> r.commits]
  BY <1>1 DEF IsRequest
<1>3. b = [q |-> r.q, status |-> r.status, todo |-> todo, hit |-> r.hit, page |-> r.page,
           total |-> r.total, seen |-> r.seen, got |-> got, start |-> r.start,
           disturbed |-> r.disturbed, commits |-> r.commits]
  BY <1>1, <1>2
<1>4. c = [q |-> r.q, status |-> status, todo |-> todo, hit |-> r.hit, page |-> r.page,
           total |-> r.total, seen |-> r.seen, got |-> got, start |-> r.start,
           disturbed |-> r.disturbed, commits |-> r.commits]
  BY <1>1, <1>3
<1>5. c = [r EXCEPT !.got = got, !.todo = todo, !.status = status]
  BY <1>1
<1> QED
  BY <1>4, <1>5

LEMMA GotEffect ==
  ASSUME IsRequest(req), NEW x, NEW s, s = Got(x)
  PROVE  /\ GoesOn(req, s) /\ s.todo = Tail(req.todo)
         /\ s.got = Learnt(req.got, Head(req.todo), x)
         /\ s.status = IF Len(req.todo) = 1 THEN 200 ELSE None
<1>1. PICK status : status = IF Len(req.todo) = 1 THEN 200 ELSE None
  OBVIOUS
<1>2. PICK got, todo : got = Learnt(req.got, Head(req.todo), x) /\ todo = Tail(req.todo)
  OBVIOUS
<1>3. s = [req EXCEPT !.got = got, !.todo = todo, !.status = status]
  BY <1>1, <1>2 DEF Got
<1>4. s = [q |-> req.q, status |-> status, todo |-> todo, hit |-> req.hit, page |-> req.page,
                 total |-> req.total, seen |-> req.seen, got |-> got, start |-> req.start,
                 disturbed |-> req.disturbed, commits |-> req.commits]
  BY <1>3, Renewed
<1> QED
  BY <1>1, <1>2, <1>4 DEF GoesOn, IsRequest

LEMMA FailsEffect ==
  ASSUME IsRequest(req), NEW n, NEW s, s = Fails(n)
  PROVE  GoesOn(req, s) /\ s.todo = req.todo /\ s.got = req.got /\ s.status = n
<1>1. s = [req EXCEPT !.status = n]
  BY DEF Fails
<1>2. s = [q |-> req.q, status |-> n, todo |-> req.todo, hit |-> req.hit, page |-> req.page,
                 total |-> req.total, seen |-> req.seen, got |-> req.got, start |-> req.start,
                 disturbed |-> req.disturbed, commits |-> req.commits]
  BY <1>1 DEF IsRequest
<1> QED
  BY <1>2 DEF GoesOn, IsRequest

\* s has just been asked for q.
Asked(s, q, hit, status) ==
  /\ IsRequest(s) /\ s.q = q /\ s.hit = hit /\ s.status = status /\ s.todo = Statements(q)
  /\ s.got = [x \in {} |-> None] /\ s.start = Shown(q) /\ s.disturbed = FALSE
  /\ s.seen = {} /\ s.page = 1

LEMMA OpenEffect ==
  ASSUME NEW q, NEW hit, NEW s, s = Open(q, hit)
  PROVE  Asked(s, q, hit, None)
BY DEF Open, IsRequest, Asked

LEMMA RefusedEffect ==
  ASSUME NEW q, NEW hit, NEW s, s = [Open(q, hit) EXCEPT !.status = 400]
  PROVE  Asked(s, q, hit, 400)
BY DEF Open, IsRequest, Asked

\* A listing's steps: the count; a page, after which the next one is asked for or the
\* listing is at its end.
LEMMA CountEffect ==
  ASSUME IsRequest(req), Count
  PROVE  /\ req.status = None /\ Head(req.todo) = "count"
         /\ GoesOn(req, req') /\ req'.todo = Tail(req.todo) /\ req'.got = req.got
         /\ req'.status = None /\ req'.total = Cardinality(Items(req.q))
         /\ req'.page = req.page /\ req'.seen = req.seen
<1>1. PICK total, todo : total = Cardinality(Items(req.q)) /\ todo = Tail(req.todo)
  OBVIOUS
<1>2. req' = [req EXCEPT !.total = total, !.todo = todo] /\ req.status = None /\ Head(req.todo) = "count"
  BY <1>1 DEF Count, Turn
<1>3. req' = [q |-> req.q, status |-> req.status, todo |-> todo, hit |-> req.hit, page |-> req.page,
                 total |-> total, seen |-> req.seen, got |-> req.got, start |-> req.start,
                 disturbed |-> req.disturbed, commits |-> req.commits]
  BY <1>2 DEF IsRequest
<1> QED
  BY <1>1, <1>2, <1>3 DEF GoesOn, IsRequest

LEMMA PageEffect ==
  ASSUME IsRequest(req), ReadPage
  PROVE  /\ req.status = None /\ Head(req.todo) = "rows"
         /\ GoesOn(req, req') /\ req'.got = req.got /\ req'.total = req.total
         /\ \E rows \in Pages(req.q, (req.page - 1) * PageSize) : req'.seen = req.seen \cup rows
         /\ IF req.page * PageSize < req.total
              THEN req'.page = req.page + 1 /\ req'.todo = Statements(req.q) /\ req'.status = None
            ELSE req'.page = req.page /\ req'.todo = req.todo /\ req'.status = 200
<1>1. PICK rows, seen, read :
        /\ rows \in Pages(req.q, (req.page - 1) * PageSize)
        /\ seen = req.seen \cup rows
        /\ read = [req EXCEPT !.seen = seen]
        /\ req' = IF req.page * PageSize < req.total
                    THEN [read EXCEPT !.page = read.page + 1, !.todo = Statements(req.q)]
                  ELSE [read EXCEPT !.status = 200]
  BY DEF ReadPage
<1>2. read = [q |-> req.q, status |-> req.status, todo |-> req.todo, hit |-> req.hit, page |-> req.page,
                 total |-> req.total, seen |-> seen, got |-> req.got, start |-> req.start,
                 disturbed |-> req.disturbed, commits |-> req.commits]
  BY <1>1 DEF IsRequest
<1>3. IsRequest(read) /\ read.page = req.page
  BY <1>2 DEF IsRequest
<1>4. req.status = None /\ Head(req.todo) = "rows"
  BY DEF ReadPage, Turn
<1>5. CASE req.page * PageSize < req.total
  <2>1. PICK page, todo : page = req.page + 1 /\ todo = Statements(req.q)
    OBVIOUS
  <2>2. req' = [read EXCEPT !.page = page, !.todo = todo]
    BY <1>1, <1>3, <1>5, <2>1
  <2>3. req' = [q |-> req.q, status |-> req.status, todo |-> todo, hit |-> req.hit, page |-> page,
                 total |-> req.total, seen |-> seen, got |-> req.got, start |-> req.start,
                 disturbed |-> req.disturbed, commits |-> req.commits]
    BY <1>2, <2>2
  <2> QED
    BY <1>1, <1>4, <1>5, <2>1, <2>3 DEF GoesOn, IsRequest
<1>6. CASE ~(req.page * PageSize < req.total)
  <2>1. req' = [read EXCEPT !.status = 200]
    BY <1>1, <1>6
  <2>2. req' = [q |-> req.q, status |-> 200, todo |-> req.todo, hit |-> req.hit, page |-> req.page,
                 total |-> req.total, seen |-> seen, got |-> req.got, start |-> req.start,
                 disturbed |-> req.disturbed, commits |-> req.commits]
    BY <1>2, <2>1
  <2> QED
    BY <1>1, <1>4, <1>6, <2>2 DEF GoesOn, IsRequest
<1> QED
  BY <1>5, <1>6

\* A load under a request changes what is known to have disturbed it and nothing else.
LEMMA LoadUnder ==
  ASSUME ReqOK, req # None, LoadStep
  PROVE  /\ Load /\ req.status = None /\ IsRequest(req')
         /\ req'.q = req.q /\ req'.status = req.status /\ req'.todo = req.todo /\ req'.hit = req.hit
         /\ req'.page = req.page /\ req'.total = req.total /\ req'.seen = req.seen
         /\ req'.got = req.got /\ req'.start = req.start
         /\ \E q, todo : /\ q = req.q /\ todo = req.todo
                         /\ req'.disturbed = (req.disturbed \/ Disturbs(q, todo))
<1>1. PICK r : r = req /\ req' = [r EXCEPT !.disturbed = @ \/ Disturbs(r.q, r.todo), !.commits = @ + 1]
  BY DEF LoadStep
<1>2. PICK q, todo : q = r.q /\ todo = r.todo
  OBVIOUS
<1>3. PICK disturbed, commits : disturbed = (r.disturbed \/ Disturbs(q, todo)) /\ commits = r.commits + 1
  OBVIOUS
<1>4. req' = [r EXCEPT !.disturbed = disturbed, !.commits = commits]
  BY <1>1, <1>2, <1>3
<1>5. IsRequest(r)
  BY <1>1 DEF ReqOK
<1>6. req' = [q |-> r.q, status |-> r.status, todo |-> r.todo, hit |-> r.hit, page |-> r.page,
                 total |-> r.total, seen |-> r.seen, got |-> r.got, start |-> r.start,
                 disturbed |-> disturbed, commits |-> commits]
  BY <1>4, <1>5 DEF IsRequest
<1>7. Load /\ req.status = None
  BY DEF LoadStep
<1>8. req'.disturbed = (req.disturbed \/ Disturbs(q, todo))
  <2>1. req'.disturbed = disturbed
    BY <1>6
  <2>2. r = req
    BY <1>1
  <2> QED
    BY <1>3, <2>1, <2>2, Zenon
<1>9. q = req.q /\ todo = req.todo
  BY <1>1, <1>2
<1>10. /\ IsRequest(req')
       /\ req'.q = req.q /\ req'.status = req.status /\ req'.todo = req.todo /\ req'.hit = req.hit
       /\ req'.page = req.page /\ req'.total = req.total /\ req'.seen = req.seen
       /\ req'.got = req.got /\ req'.start = req.start
  BY <1>1, <1>6 DEF IsRequest
<1> QED
  BY <1>7, <1>8, <1>9, <1>10
FromClient == req = None /\ \E q \in Queries : Asked(req', q, FALSE, None) \/ Asked(req', q, FALSE, 400)

\* The client follows a hit of its search.
FromSearch ==
  \E f \in ToSet(Files), u \in Keys :
    tables[f][u] # None /\ Asked(req', [kind |-> "detail", of |-> tables[f][u].call_sign[1]], TRUE, None)

LEMMA AnswerEffect ==
  ASSUME ReqOK, Answer
  PROVE  \/ req' = None
         \/ FromClient
         \/ req # None /\ req.status = None /\ FromSearch
         \/ req # None /\ req.status = None /\ GoesOn(req, req')
<1>1. CASE Begin
  <2>1. PICK q \in Queries : req = None /\
          req' = IF Accepted(q) THEN Open(q, FALSE) ELSE [Open(q, FALSE) EXCEPT !.status = 400]
    BY <1>1 DEF Begin
  <2>2. Asked(req', q, FALSE, None) \/ Asked(req', q, FALSE, 400)
    BY <2>1, OpenEffect, RefusedEffect
  <2> QED
    BY <2>1, <2>2 DEF FromClient
<1>2. CASE Close
  BY <1>2 DEF Close
<1>3. CASE ~Begin /\ ~Close
  <2>1. req # None /\ req.status = None
    BY <1>3 DEF Answer, Count, ReadPage, Search, ByFrn, ToolWhere, ResolveHolder, ReadHeader,
       ReadRegistration, ReadEntity, ReadChanges, ReadRelated, Turn
  <2>2. IsRequest(req)
    BY <2>1 DEF ReqOK
  <2>3. ASSUME NEW x, req' = Got(x)
        PROVE  GoesOn(req, req')
    BY <2>2, <2>3, GotEffect
  <2>4. ASSUME NEW n, req' = Fails(n)
        PROVE  GoesOn(req, req')
    BY <2>2, <2>4, FailsEffect
  <2>5. CASE Search
    <3>1. CASE req' = Got({})
      BY <2>1, <2>3, <3>1
    <3>2. ASSUME NEW f \in ToSet(Files), NEW u \in Keys, tables[f][u] # None,
                 req' = Open([kind |-> "detail", of |-> tables[f][u].call_sign[1]], TRUE)
          PROVE  FromSearch
      <4>1. PICK q : q = [kind |-> "detail", of |-> tables[f][u].call_sign[1]]
        OBVIOUS
      <4>2. Asked(req', q, TRUE, None)
        BY <3>2, <4>1, OpenEffect
      <4> QED
        BY <3>2, <4>1, <4>2 DEF FromSearch
    <3> QED
      BY <2>1, <2>5, <3>1, <3>2 DEF Search
  <2>6. CASE ReadRegistration
    <3>1. CASE req' = Fails(404)
      BY <2>1, <2>4, <3>1
    <3>2. CASE req' = [Got(req.q.of) EXCEPT !.got = [header |-> Header(req.q.of), holder |-> req.q.of]]
      <4>1. PICK s, got : s = Got(req.q.of) /\ got = [header |-> Header(req.q.of), holder |-> req.q.of]
        OBVIOUS
      <4>2. GoesOn(req, s) /\ req' = [s EXCEPT !.got = got]
        BY <2>2, <3>2, <4>1, GotEffect
      <4> QED
        BY <2>1, <4>2 DEF GoesOn, IsRequest
    <3> QED
      BY <2>6, <3>1, <3>2 DEF ReadRegistration
  <2>7. CASE Count \/ ReadPage
    BY <2>1, <2>2, <2>7, CountEffect, PageEffect
  <2>8. CASE ByFrn \/ ToolWhere \/ ReadHeader \/ ReadEntity \/ ReadChanges
    BY <2>1, <2>3, <2>4, <2>8 DEF ByFrn, ToolWhere, ReadHeader, ReadEntity, ReadChanges
  <2>9. CASE ResolveHolder
    BY <2>1, <2>3, <2>4, <2>9 DEF ResolveHolder
  <2>10. CASE ReadRelated
    BY <2>1, <2>3, <2>4, <2>10 DEF ReadRelated
  <2> QED
    BY <1>3, <2>5, <2>6, <2>7, <2>8, <2>9, <2>10 DEF Answer
<1> QED
  BY <1>1, <1>2, <1>3

LEMMA NothingElse ==
  ASSUME [Next]_vars
  PROVE  (Answer /\ UNCHANGED loadVars) \/ LoadStep \/ UNCHANGED vars
BY DEF Next, Answer, Begin, Count, ReadPage, Search, ByFrn, ToolWhere, ResolveHolder,
     ReadHeader, ReadRegistration, ReadEntity, ReadChanges, ReadRelated, Close

LEMMA RequestsAlways == Spec => []ReqOK
<1>1. Init => ReqOK
  BY DEF Init, ReqOK
<1>2. ASSUME ReqOK, [Next]_vars
      PROVE  ReqOK'
  <2>1. CASE Answer
    <3>1. CASE FromClient
      BY <3>1 DEF FromClient, Asked, ReqOK, IsRequest
    <3>2. CASE FromSearch
      <4>1. PICK q : q.kind = "detail" /\ Asked(req', q, TRUE, None)
        BY <3>2 DEF FromSearch
      <4> QED
        BY <4>1 DEF Asked, ReqOK, IsRequest
    <3>3. CASE req # None /\ GoesOn(req, req')
      BY <1>2, <3>3 DEF GoesOn, ReqOK, IsRequest
    <3>4. CASE req' = None
      BY <3>4 DEF ReqOK
    <3> QED
      BY <1>2, <2>1, <3>1, <3>2, <3>3, <3>4, AnswerEffect
  <2>2. CASE LoadStep
    <3>1. CASE req = None
      BY <2>2, <3>1 DEF LoadStep, ReqOK
    <3>2. CASE req # None
      <4>1. /\ IsRequest(req') /\ req'.q = req.q /\ req'.hit = req.hit
            /\ \E q, todo : req'.disturbed = (req.disturbed \/ Disturbs(q, todo))
        BY <1>2, <2>2, <3>2, LoadUnder
      <4>2. req'.disturbed \in BOOLEAN
        BY <4>1
      <4>3. req.hit \in BOOLEAN /\ (req.q \in Queries \/ req.q.kind = "detail")
        BY <1>2, <3>2 DEF ReqOK
      <4> QED
        BY <4>1, <4>2, <4>3 DEF ReqOK, IsRequest
    <3> QED
      BY <3>1, <3>2
  <2>3. CASE UNCHANGED vars
    BY <1>2, <2>3 DEF vars, ReqOK, IsRequest
  <2> QED
    BY <1>2, <2>1, <2>2, <2>3, NothingElse
<1> QED
  BY <1>1, <1>2, PTL DEF Spec

-----------------------------------------------------------------------------
(* What is there to be shown, and the events                               *)

LEMMA ShownSame ==
  ASSUME NEW q, UNCHANGED loadVars
  PROVE  Shown(q)' = Shown(q) /\ Items(q)' = Items(q) /\ \A x : Place(q, x)' = Place(q, x)
<1>1. Items(q)' = Items(q)
  BY DEF loadVars, Items, Licences, ChangeHistory, NewHams, Header, Entity
<1>2. Shown(q)' = Shown(q)
  BY <1>1 DEF loadVars, Shown, Header
<1>3. \A x : Place(q, x)' = Place(q, x)
  BY DEF loadVars, Place, Entity
<1> QED
  BY <1>1, <1>2, <1>3

\* Nothing that an undisturbed request began with has gone.
Undisturbed ==
  \A q : req # None /\ req.q = q /\ ~req.disturbed => req.start \subseteq Shown(q)

LEMMA UndisturbedAlways == Spec => []Undisturbed
<1>1. Init => Undisturbed
  BY DEF Init, Undisturbed
<1>2. ASSUME ReqOK, Undisturbed, [Next]_vars
      PROVE  Undisturbed'
  <2>1. SUFFICES ASSUME NEW q, req' # None, req'.q = q, ~req'.disturbed
                 PROVE  req'.start \subseteq Shown(q)'
    BY DEF Undisturbed
  <2>2. CASE Answer /\ UNCHANGED loadVars
    <3>1. Shown(q)' = Shown(q)
      BY <2>2, ShownSame
    <3>2. ASSUME NEW r, NEW hit, NEW n, Asked(req', r, hit, n)
          PROVE  req'.start = Shown(q)
      <4>1. r = q /\ req'.start = Shown(r)
        BY <2>1, <3>2 DEF Asked
      <4> QED
        BY <4>1
    <3>3. CASE req # None /\ GoesOn(req, req')
      <4>1. req.q = q /\ ~req.disturbed /\ req'.start = req.start
        BY <2>1, <3>3 DEF GoesOn
      <4>2. req.start \subseteq Shown(q)
        BY <1>2, <3>3, <4>1 DEF Undisturbed
      <4> QED
        BY <3>1, <4>1, <4>2
    <3>4. CASE FromClient \/ FromSearch
      BY <3>1, <3>2, <3>4 DEF FromClient, FromSearch
    <3> QED
      BY <1>2, <2>1, <2>2, <3>3, <3>4, AnswerEffect
  <2>3. CASE LoadStep
    <3>1. req # None
      BY <2>1, <2>3 DEF LoadStep
    <3>2. PICK r, todo : /\ req'.q = req.q /\ req'.start = req.start
                         /\ r = req.q /\ todo = req.todo
                         /\ req'.disturbed = (req.disturbed \/ Disturbs(r, todo))
      BY <1>2, <2>3, <3>1, LoadUnder
    <3>3. r = q
      BY <2>1, <3>2
    <3>4. ~req.disturbed /\ ~Disturbs(r, todo)
      BY <2>1, <3>2
    <3>5. Shown(q) \subseteq Shown(q)'
      <4>1. ~Disturbs(q, todo)
        BY <3>3, <3>4
      <4> QED
        BY <4>1 DEF Disturbs
    <3>6. req.start \subseteq Shown(q)
      BY <1>2, <3>1, <3>2, <3>3, <3>4 DEF Undisturbed
    <3> QED
      BY <3>2, <3>5, <3>6
  <2>4. CASE UNCHANGED vars
    <3>1. Shown(q)' = Shown(q) /\ req' = req
      BY <2>4, ShownSame DEF vars
    <3> QED
      BY <1>2, <2>1, <3>1 DEF Undisturbed
  <2> QED
    BY <1>2, <2>2, <2>3, <2>4, NothingElse
<1> QED
  BY <1>1, <1>2, RequestsAlways, PTL DEF Spec

\* An event is about a licence touched on its day, and a grant or a column of its file.
EventsOK ==
  \A e \in events :
    /\ e.day \in Days /\ e.file \in ToSet(Files) /\ e.key \in Keys
    /\ e.key \in Touched[e.day] /\ e.subject = <<Call[e.key]>>
    /\ e.field = "license_granted" \/ e.field \in ToSet(Schema[e.file])

LEMMA EventsAlways == Spec => []EventsOK
<1>1. Init => EventsOK
  <2>1. SUFFICES ASSUME Init PROVE EventsOK
    OBVIOUS
  <2> QED
    BY <2>1, EmptyAtFirst DEF EventsOK
<1>2. ASSUME DataInv, EventsOK, [Next]_vars
      PROVE  EventsOK'
  <2>1. CASE LoadDaily
    <3>1. PICK f, d, new : DailyStep(f, d, new)
      BY <1>2, <2>1, DailyEffect
    <3>2. d \in Days /\ f \in ToSet(Files) /\ events' = events \cup new
      BY <3>1 DEF DailyStep
    <3>3. ASSUME NEW e \in new
          PROVE  /\ e.day \in Days /\ e.file \in ToSet(Files) /\ e.key \in Keys
                 /\ e.key \in Touched[e.day] /\ e.subject = <<Call[e.key]>>
                 /\ e.field = "license_granted" \/ e.field \in ToSet(Schema[e.file])
      BY <3>1, <3>2, <3>3, TouchedAreKeys DEF DailyStep, DayEvents
    <3> QED
      BY <1>2, <3>2, <3>3 DEF EventsOK
  <2>2. CASE events' = events
    BY <1>2, <2>2 DEF EventsOK
  <2>3. CASE LoadComplete \/ UNCHANGED loadVars
    BY <2>2, <2>3 DEF LoadComplete, loadVars
  <2> QED
    BY <1>2, <2>1, <2>2, <2>3, OtherLoads, LoadsOnly
<1> QED
  BY <1>1, <1>2, DataAlways, PTL DEF Spec

-----------------------------------------------------------------------------
(* Detail pages                                                            *)

\* The row of u in file f as a request read it: while no dump has been loaded, the
\* table's own is no older.
RowRead(f, u, row) == \E v \in Days : row = Kept(u, v, f) /\ (base[f] = 0 => AtLeast(f, u, v))

Explained(got) ==
  \A f \in ToSet(Files), e \in events :
    LET row == IF f = "HD" THEN got.header ELSE got.entity
    IN  base[f] = 0 /\ row # None /\ e.file = f /\ <<e.key>> = row.usi /\ e.day = row.text[1]
          => e \in got.changes

AfterHeader == <<"entity", "changes", "related">>
AfterEntity == <<"changes", "related">>
Finished == {"holder", "header", "entity", "changes", "related"}

\* How far a page is: the statements to come and those that have been answered.
InOrder(q, todo, read) ==
  \/ q.kind = "detail" /\ todo = Detail /\ read = {}
  \/ q.kind = "detail" /\ todo = <<"header", "entity", "changes", "related">> /\ read = {"holder"}
  \/ q.kind = "tower" /\ todo = TowerDetail /\ read = {}
  \/ todo = AfterHeader /\ read = {"holder", "header"}
  \/ todo = AfterEntity /\ read = {"holder", "header", "entity"}
  \/ todo = <<"related">> /\ read = {"holder", "header", "entity", "changes"}
  \/ todo = <<>> /\ read = Finished

\* The rows on a page are of one licence, and it is of the call sign asked for.
PageRows(q, got) ==
  /\ "holder" \in DOMAIN got =>
       got.holder \in Keys /\ tables["HD"][got.holder] # None /\ Call[got.holder] = Subject(q)
  /\ "header" \in DOMAIN got => RowRead("HD", got.holder, got.header)
  /\ "entity" \in DOMAIN got => got.entity = None \/ RowRead("EN", got.holder, got.entity)
  /\ "changes" \in DOMAIN got => Explained(got)

PageOf(q, todo, got, status) ==
  /\ InOrder(q, todo, DOMAIN got)
  /\ status = 200 <=> todo = <<>>
  /\ PageRows(q, got)

PageOK ==
  \A q, todo, got, status :
    /\ req # None /\ req.q = q /\ req.todo = todo /\ req.got = got /\ req.status = status
    /\ q.kind \in {"detail", "tower"}
    => PageOf(q, todo, got, status)

LEMMA Todos ==
  /\ Head(Detail) = "holder" /\ Tail(Detail) = <<"header", "entity", "changes", "related">> /\ Len(Detail) = 5
  /\ Head(<<"header", "entity", "changes", "related">>) = "header"
  /\ Tail(<<"header", "entity", "changes", "related">>) = AfterHeader
  /\ Len(<<"header", "entity", "changes", "related">>) = 4
  /\ Head(TowerDetail) = "registration" /\ Tail(TowerDetail) = AfterHeader /\ Len(TowerDetail) = 4
  /\ Head(AfterHeader) = "entity" /\ Tail(AfterHeader) = AfterEntity /\ Len(AfterHeader) = 3
  /\ Head(AfterEntity) = "changes" /\ Tail(AfterEntity) = <<"related">> /\ Len(AfterEntity) = 2
  /\ Head(<<"related">>) = "related" /\ Tail(<<"related">>) = <<>> /\ Len(<<"related">>) = 1
  /\ Len(<<>>) = 0
BY DEF Detail, TowerDetail, AfterHeader, AfterEntity

LEMMA StillToRead ==
  /\ <<"header", "entity", "changes", "related">> # <<>> /\ AfterHeader # <<>>
  /\ AfterEntity # <<>> /\ <<"related">> # <<>>
BY DEF AfterHeader, AfterEntity

\* What a load does to the rows already read.
LEMMA RowReadStays ==
  ASSUME DataInv, RowsPlaced, Load, NEW f \in ToSet(Files), NEW u \in Keys, NEW row, RowRead(f, u, row)
  PROVE  RowRead(f, u, row)'
<1>1. PICK v \in Days : row = Kept(u, v, f) /\ (base[f] = 0 => AtLeast(f, u, v))
  BY DEF RowRead
<1>2. SUFFICES ASSUME base'[f] = 0
               PROVE  AtLeast(f, u, v)'
  BY <1>1 DEF RowRead
<1>3. base[f] = 0
  <2>1. base[f] \in Nat
    <3>1. base[f] \in CutDays \cup {0}
      BY DEF DataInv, RestOK
    <3>2. \A c \in CutDays : c \in Nat
      BY DaysAreNat, LoadAssumption
    <3> QED
      BY <3>1, <3>2
  <2> QED
    BY <1>2, <2>1, BaseStays
<1>4. AtLeast(f, u, v) /\ v \in Nat
  BY <1>1, <1>3, DaysAreNat
<1>5. CASE LoadDaily
  <2>1. PICK g, d, new : DailyStep(g, d, new)
    BY <1>5, DailyEffect
  <2>2. CASE g = f /\ u \in Touched[d]
    <3>1. Daily /\ d \in job.days /\ d \in Days /\ d \in Nat
      BY <2>1, DaysAreNat DEF DailyStep, Daily
    <3>2. tables'[f][u] = Kept(u, d, f) /\ tables'[f][u] # None
      BY <2>1, <2>2, RowAfterDay
    <3>3. tables'[f][u].text[1] = d
      BY <3>1, <3>2, VersionKept
    <3>4. PICK w \in Days : w = tables[f][u].text[1]
      <4>1. PICK w \in Days : tables[f][u] = Kept(u, w, f)
        BY <1>4 DEF AtLeast, DataInv, RowsOK
      <4> QED
        BY <4>1, VersionKept
    <3>5. CameInOrder(f, w)
      BY <1>4, <3>4 DEF RowsPlaced, AtLeast
    <3>6. w <= d
      BY <1>3, <3>1, <3>5 DEF CameInOrder, Frontier
    <3>7. v <= w
      BY <1>4, <3>4 DEF AtLeast
    <3>8. v <= d
      BY <1>4, <3>1, <3>4, <3>6, <3>7, DaysAreNat
    <3> QED
      BY <3>2, <3>3, <3>8 DEF AtLeast
  <2>3. CASE ~(g = f /\ u \in Touched[d])
    <3>1. tables'[f][u] = tables[f][u]
      BY <2>1, <2>3, RowAfterDay
    <3> QED
      BY <1>4, <3>1 DEF AtLeast
  <2> QED
    BY <2>2, <2>3
<1>6. CASE LoadComplete
  <2>1. PICK g, c : DumpStep(g, c)
    BY <1>6, DumpEffect
  <2>2. g # f
    <3>1. base' = [base EXCEPT ![g] = c] /\ c \in Days /\ c # 0
      BY <2>1, DaysAreNat DEF DumpStep
    <3> QED
      BY <1>2, <3>1 DEF DataInv, RestOK
  <2>3. tables'[f][u] = tables[f][u]
    BY <2>1, <2>2, RowAfterDump
  <2> QED
    BY <1>4, <2>3 DEF AtLeast
<1>7. CASE tables' = tables
  BY <1>4, <1>7 DEF AtLeast
<1> QED
  BY <1>5, <1>6, <1>7, OtherLoads

\* A load that comes after the change log was read brings no change that leads to a row
\* already read.
LEMMA ExplainedStays ==
  ASSUME DataInv, DaysInOrder, RowsPlaced, Load, NEW q, NEW got, PageRows(q, got), "holder" \in DOMAIN got,
         "header" \in DOMAIN got, "entity" \in DOMAIN got, Explained(got)
  PROVE  Explained(got)'
<1>1. SUFFICES ASSUME NEW f \in ToSet(Files), NEW e \in events', NEW row,
                      row = IF f = "HD" THEN got.header ELSE got.entity,
                      base'[f] = 0, row # None, e.file = f, <<e.key>> = row.usi, e.day = row.text[1]
               PROVE  e \in got.changes
  BY DEF Explained
<1>2. base[f] = 0
  <2>1. base[f] \in Nat
    <3>1. base[f] \in CutDays \cup {0}
      BY DEF DataInv, RestOK
    <3>2. \A c \in CutDays : c \in Nat
      BY DaysAreNat, LoadAssumption
    <3> QED
      BY <3>1, <3>2
  <2> QED
    BY <1>1, <2>1, BaseStays
<1>3. CASE e \in events
  BY <1>1, <1>2, <1>3 DEF Explained
<1>4. CASE e \notin events
  <2>1. PICK g, d, new : DailyStep(g, d, new) /\ e \in new
    <3>1. LoadDaily
      BY <1>1, <1>4, OtherLoads DEF LoadComplete
    <3>2. PICK g, d, new : DailyStep(g, d, new)
      BY <3>1, DailyEffect
    <3> QED
      BY <1>1, <1>4, <3>2 DEF DailyStep
  <2>2. PICK h : h = got.holder /\ h \in Keys
    BY DEF PageRows
  <2>3. RowRead(f, h, row)
    BY <1>1, <2>2, FilesAre DEF PageRows
  <2>4. PICK v \in Days : row = Kept(h, v, f) /\ AtLeast(f, h, v)
    BY <1>2, <2>3 DEF RowRead
  <2>5. g = f /\ e.key \in Touched[d] /\ e.day = d /\ d \in Days /\ d \in job.days /\ Daily
    BY <1>1, <2>1 DEF DailyStep, DayEvents, Daily
  <2>6. e.key = h /\ d = v
    <3>1. row.usi = <<h>> /\ row.text[1] = v
      BY <2>2, <2>4, KeptIsRow, VersionKept
    <3> QED
      BY <1>1, <2>5, <3>1
  <2>7. PICK w \in Days : tables[f][h] = Kept(h, w, f) /\ tables[f][h] # None
    BY <2>2, <2>4 DEF AtLeast, DataInv, RowsOK
  <2>8. tables[f][h].text[1] = w
    BY <2>2, <2>7, VersionKept
  <2>9. v <= w
    BY <2>4, <2>8 DEF AtLeast
  <2>10. w <= d
    <3>1. CameInOrder(f, w)
      BY <2>2, <2>7, <2>8 DEF RowsPlaced
    <3> QED
      BY <1>2, <2>5, <3>1 DEF CameInOrder, Frontier
  <2>11. w = d
    BY <2>5, <2>6, <2>9, <2>10, DaysAreNat
  <2>12. tables[f][e.key] # None /\ tables[f][e.key] = Kept(e.key, d, f)
    BY <2>6, <2>7, <2>11
  <2> QED
    BY <2>1, <2>5, <2>12 DEF DailyStep, DayEvents
<1> QED
  BY <1>3, <1>4


LEMMA Added ==
  ASSUME NEW s, NEW x, NEW got, NEW more, more = Learnt(got, s, x)
  PROVE  DOMAIN more = {s} \cup DOMAIN got /\ more[s] = x /\ \A y \in DOMAIN got : y # s => more[y] = got[y]
BY DEF Learnt

\* A row that is read now.
LEMMA RowNow ==
  ASSUME DataInv, NEW f \in ToSet(Files), NEW u \in Keys, tables[f][u] # None
  PROVE  RowRead(f, u, tables[f][u])
<1>1. PICK v \in Days : tables[f][u] = Kept(u, v, f)
  BY DEF DataInv, RowsOK
<1>2. AtLeast(f, u, v)
  BY <1>1, VersionKept, DaysAreNat DEF AtLeast
<1> QED
  BY <1>1, <1>2 DEF RowRead

\* The page after one more statement; r is what it returned.
LEMMA PageGoesOn ==
  ASSUME DataInv, EventsOK, NEW q, NEW todo, NEW got, NEW status, PageOf(q, todo, got, status),
         q.kind \in {"detail", "tower"}, todo # <<>>,
         NEW s, s = Head(todo), NEW r, NEW more, more = Learnt(got, s, r),
         s = "holder" => r \in Holders(q.of),
         s = "header" => r = tables["HD"][got.holder],
         s = "entity" => r = tables["EN"][got.holder],
         s = "changes" => r = {e \in events : e.subject = <<Subject(q)>>},
         s # "registration"
  PROVE  PageOf(q, Tail(todo), more, IF Len(todo) = 1 THEN 200 ELSE None)
<1>1. InOrder(q, todo, DOMAIN got) /\ PageRows(q, got)
  BY DEF PageOf
<1>2. None # 200
  BY BrowseAssumption
<1>3. DOMAIN more = {s} \cup DOMAIN got /\ more[s] = r /\ \A y \in DOMAIN got : y # s => more[y] = got[y]
  BY DEF Learnt
<1>4. "HD" \in ToSet(Files) /\ "EN" \in ToSet(Files)
  BY FilesAre
<1>5. CASE q.kind = "detail" /\ todo = Detail /\ DOMAIN got = {}
  <2>1. s = "holder" /\ Tail(todo) = <<"header", "entity", "changes", "related">> /\ Len(todo) = 5
        /\ Len(Tail(todo)) = 4
    BY <1>5, Todos
  <2>2. DOMAIN more = {"holder"} /\ more.holder = r
    BY <1>3, <1>5, <2>1
  <2>3. r \in Keys /\ tables["HD"][r] # None /\ tables["HD"][r].call_sign = <<q.of>>
    BY <2>1 DEF Holders, Header
  <2>4. Call[r] = Subject(q)
    <3>1. tables["HD"][r].call_sign = <<Call[r]>>
      BY <1>4, <2>3, KeptIsRow DEF DataInv, RowsOK
    <3> QED
      BY <1>5, <2>3, <3>1 DEF Subject
  <2>5. PageRows(q, more)
    BY <2>2, <2>3, <2>4 DEF PageRows
  <2>6. InOrder(q, Tail(todo), DOMAIN more)
    BY <1>5, <2>1, <2>2 DEF InOrder
  <2> QED
    <3>1. Tail(todo) # <<>>
      BY <2>1, StillToRead
    <3> QED
      BY <1>2, <2>1, <2>5, <2>6, <3>1 DEF PageOf
<1>6. CASE q.kind = "detail" /\ todo = <<"header", "entity", "changes", "related">> /\ DOMAIN got = {"holder"}
  <2>1. s = "header" /\ Tail(todo) = AfterHeader /\ Len(todo) = 4 /\ Len(Tail(todo)) = 3
    BY <1>6, Todos
  <2>2. DOMAIN more = {"holder", "header"} /\ more.holder = got.holder /\ more.header = r
    BY <1>3, <1>6, <2>1
  <2>3. got.holder \in Keys /\ tables["HD"][got.holder] # None /\ Call[got.holder] = Subject(q)
    BY <1>1, <1>6 DEF PageRows
  <2>4. RowRead("HD", got.holder, r)
    BY <1>4, <2>1, <2>3, RowNow
  <2>5. PageRows(q, more)
    BY <2>2, <2>3, <2>4 DEF PageRows
  <2>6. InOrder(q, Tail(todo), DOMAIN more)
    BY <2>1, <2>2 DEF InOrder
  <2> QED
    <3>1. Tail(todo) # <<>>
      BY <2>1, StillToRead
    <3> QED
      BY <1>2, <2>1, <2>5, <2>6, <3>1 DEF PageOf
<1>7. CASE todo = AfterHeader /\ DOMAIN got = {"holder", "header"}
  <2>1. s = "entity" /\ Tail(todo) = AfterEntity /\ Len(todo) = 3 /\ Len(Tail(todo)) = 2
    BY <1>7, Todos
  <2>2. /\ DOMAIN more = {"holder", "header", "entity"} /\ more.holder = got.holder
        /\ more.header = got.header /\ more.entity = r
    BY <1>3, <1>7, <2>1
  <2>3. /\ got.holder \in Keys /\ tables["HD"][got.holder] # None /\ Call[got.holder] = Subject(q)
        /\ RowRead("HD", got.holder, got.header)
    BY <1>1, <1>7 DEF PageRows
  <2>4. r = None \/ RowRead("EN", got.holder, r)
    BY <1>4, <2>1, <2>3, RowNow
  <2>5. PageRows(q, more)
    BY <2>2, <2>3, <2>4 DEF PageRows
  <2>6. InOrder(q, Tail(todo), DOMAIN more)
    BY <2>1, <2>2 DEF InOrder
  <2> QED
    <3>1. Tail(todo) # <<>>
      BY <2>1, StillToRead
    <3> QED
      BY <1>2, <2>1, <2>5, <2>6, <3>1 DEF PageOf
<1>8. CASE todo = AfterEntity /\ DOMAIN got = {"holder", "header", "entity"}
  <2>1. s = "changes" /\ Tail(todo) = <<"related">> /\ Len(todo) = 2 /\ Len(Tail(todo)) = 1
    BY <1>8, Todos
  <2>2. /\ DOMAIN more = {"holder", "header", "entity", "changes"} /\ more.holder = got.holder
        /\ more.header = got.header /\ more.entity = got.entity /\ more.changes = r
    BY <1>3, <1>8, <2>1
  <2>3. /\ got.holder \in Keys /\ tables["HD"][got.holder] # None /\ Call[got.holder] = Subject(q)
        /\ RowRead("HD", got.holder, got.header)
        /\ got.entity = None \/ RowRead("EN", got.holder, got.entity)
    BY <1>1, <1>8 DEF PageRows
  <2>4. ASSUME NEW f \in ToSet(Files), NEW e \in events, NEW row,
               row = IF f = "HD" THEN got.header ELSE got.entity, row # None, <<e.key>> = row.usi
        PROVE  e \in r
    <3>1. PICK h : h = got.holder /\ h \in Keys
      BY <2>3
    <3>2. RowRead(f, h, row)
      BY <2>3, <2>4, <3>1, FilesAre
    <3>3. row.usi = <<h>>
      BY <3>1, <3>2, KeptIsRow DEF RowRead
    <3>4. e.key = h
      BY <2>4, <3>3
    <3>5. e.subject = <<Subject(q)>>
      BY <2>3, <3>1, <3>4 DEF EventsOK
    <3> QED
      BY <2>1, <3>5
  <2>5. Explained(more)
    BY <2>2, <2>4 DEF Explained
  <2>6. PageRows(q, more)
    BY <2>2, <2>3, <2>5 DEF PageRows
  <2>7. InOrder(q, Tail(todo), DOMAIN more)
    BY <2>1, <2>2 DEF InOrder
  <2> QED
    BY <1>2, <2>1, <2>6, <2>7, Todos DEF PageOf
<1>9. CASE todo = <<"related">> /\ DOMAIN got = {"holder", "header", "entity", "changes"}
  <2>1. s = "related" /\ Tail(todo) = <<>> /\ Len(todo) = 1
    BY <1>9, Todos
  <2>2. /\ DOMAIN more = Finished /\ more.holder = got.holder
        /\ more.header = got.header /\ more.entity = got.entity /\ more.changes = got.changes
    BY <1>3, <1>9, <2>1 DEF Finished
  <2>3. /\ got.holder \in Keys /\ tables["HD"][got.holder] # None /\ Call[got.holder] = Subject(q)
        /\ RowRead("HD", got.holder, got.header)
        /\ got.entity = None \/ RowRead("EN", got.holder, got.entity)
        /\ Explained(got)
    BY <1>1, <1>9 DEF PageRows
  <2>4. Explained(more)
    BY <2>2, <2>3 DEF Explained
  <2>5. PageRows(q, more)
    BY <2>2, <2>3, <2>4 DEF PageRows
  <2>6. InOrder(q, Tail(todo), DOMAIN more)
    BY <2>1, <2>2 DEF InOrder
  <2> QED
    BY <2>1, <2>5, <2>6 DEF PageOf
<1>10. ~(q.kind = "tower" /\ todo = TowerDetail)
  BY Todos
<1> QED
  BY <1>1, <1>5, <1>6, <1>7, <1>8, <1>9, <1>10 DEF InOrder


LEMMA PageBegins ==
  ASSUME NEW q, NEW got, got = [x \in {} |-> None], NEW status, status # 200, q.kind \in {"detail", "tower"}
  PROVE  PageOf(q, Statements(q), got, status)
<1>1. DOMAIN got = {}
  OBVIOUS
<1>2. PageRows(q, got)
  BY <1>1 DEF PageRows
<1>3. CASE q.kind = "detail"
  <2>1. Statements(q) = Detail /\ Statements(q) # <<>>
    <3>1. Statements(q) = Detail
      BY <1>3 DEF Statements
    <3> QED
      BY <3>1, Todos
  <2> QED
    BY <1>1, <1>2, <1>3, <2>1 DEF PageOf, InOrder
<1>4. CASE q.kind = "tower"
  <2>1. Statements(q) = TowerDetail /\ Statements(q) # <<>>
    <3>1. Statements(q) = TowerDetail
      BY <1>4 DEF Statements
    <3> QED
      BY <3>1, Todos
  <2> QED
    BY <1>1, <1>2, <1>4, <2>1 DEF PageOf, InOrder
<1> QED
  BY <1>3, <1>4

LEMMA Turns ==
  ASSUME NEW q, NEW todo, NEW read, InOrder(q, todo, read), todo # <<>>, q.kind \in {"detail", "tower"}
  PROVE  /\ Head(todo) \in {"holder", "header", "registration", "entity", "changes", "related"}
         /\ Head(todo) = "registration" => q.kind = "tower" /\ todo = TowerDetail
BY Todos DEF InOrder

LEMMA Registered ==
  ASSUME DataInv, NEW q, q.kind = "tower", q.of \in Keys, tables["HD"][q.of] # None,
         NEW got, got = [header |-> tables["HD"][q.of], holder |-> q.of]
  PROVE  PageOf(q, AfterHeader, got, None)
<1>1. DOMAIN got = {"holder", "header"} /\ got.holder = q.of /\ got.header = tables["HD"][q.of]
  OBVIOUS
<1>2. RowRead("HD", q.of, tables["HD"][q.of])
  BY FilesAre, RowNow
<1>3. PageRows(q, got)
  BY <1>1, <1>2 DEF PageRows, Subject
<1>4. InOrder(q, AfterHeader, DOMAIN got)
  BY <1>1 DEF InOrder
<1>5. None # 200
  BY BrowseAssumption
<1>6. AfterHeader # <<>>
  BY StillToRead
<1> QED
  BY <1>3, <1>4, <1>5, <1>6 DEF PageOf

LEMMA PageSame ==
  ASSUME UNCHANGED loadVars, NEW q, NEW todo, NEW got, NEW status, PageOf(q, todo, got, status)
  PROVE  PageOf(q, todo, got, status)'
BY DEF PageOf, PageRows, RowRead, AtLeast, Explained, loadVars, ghosts

LEMMA PageAnswer ==
  ASSUME DataInv, EventsOK, ReqOK, PageOK, Answer, UNCHANGED loadVars
  PROVE  PageOK'
<1>1. SUFFICES ASSUME NEW q, NEW todo, NEW got, NEW status,
                      req' # None, req'.q = q, req'.todo = todo, req'.got = got, req'.status = status,
                      q.kind \in {"detail", "tower"}
               PROVE  PageOf(q, todo, got, status)
  BY PageSame DEF PageOK
<1>2. None \notin {200, 400, 404, 500}
  BY BrowseAssumption
<1>3. ASSUME NEW r, NEW hit, NEW n, Asked(req', r, hit, n), n # 200
      PROVE  PageOf(q, todo, got, status)
  BY <1>1, <1>3, PageBegins DEF Asked
<1>4. CASE req # None /\ req.status = None /\ GoesOn(req, req')
  <2>1. PICK todo0, got0 : req.todo = todo0 /\ req.got = got0
    OBVIOUS
  <2>2. IsRequest(req) /\ req.q = q
    BY <1>1, <1>4 DEF GoesOn, ReqOK
  <2>3. PageOf(q, todo0, got0, None)
    BY <1>1, <1>4, <2>1, <2>2 DEF PageOK
  <2>4. todo0 # <<>> /\ InOrder(q, todo0, DOMAIN got0)
    BY <1>2, <2>3 DEF PageOf
  <2>5. PICK s : s = Head(todo0)
    OBVIOUS
  <2>6. s \in {"holder", "header", "registration", "entity", "changes", "related"}
    BY <1>1, <2>4, <2>5, Turns
  <2>7. ASSUME NEW x, req' = Got(x), s # "registration",
               s = "holder" => x \in Holders(q.of),
               s = "header" => x = tables["HD"][got0.holder],
               s = "entity" => x = tables["EN"][got0.holder],
               s = "changes" => x = {e \in events : e.subject = <<Subject(q)>>}
        PROVE  PageOf(q, todo, got, status)
    <3>1. /\ req'.todo = Tail(req.todo) /\ req'.got = Learnt(req.got, Head(req.todo), x)
          /\ req'.status = IF Len(req.todo) = 1 THEN 200 ELSE None
      BY <2>2, <2>7, GotEffect
    <3>2. /\ todo = Tail(todo0) /\ got = Learnt(got0, s, x)
          /\ status = IF Len(todo0) = 1 THEN 200 ELSE None
      BY <1>1, <2>1, <2>5, <3>1
    <3>3. PICK more, n : more = Learnt(got0, s, x) /\ n = IF Len(todo0) = 1 THEN 200 ELSE None
      OBVIOUS
    <3>4. PageOf(q, Tail(todo0), more, n)
      BY <1>1, <2>3, <2>4, <2>5, <2>7, <3>3, PageGoesOn
    <3> QED
      BY <3>2, <3>3, <3>4
  <2>8. ASSUME NEW n, req' = Fails(n), n # 200
        PROVE  PageOf(q, todo, got, status)
    <3>1. req'.todo = req.todo /\ req'.got = req.got /\ req'.status = n
      BY <2>2, <2>8, FailsEffect
    <3>2. todo = todo0 /\ got = got0 /\ status = n
      BY <1>1, <2>1, <3>1
    <3> QED
      BY <2>3, <2>4, <2>8, <3>2 DEF PageOf
  <2>9. CASE ResolveHolder
    <3>1. s = "holder"
      BY <2>1, <2>5, <2>9 DEF ResolveHolder, Turn
    <3>2. CASE req' = Fails(404)
      BY <2>8, <3>2
    <3>3. ASSUME NEW u \in Holders(q.of), req' = Got(u)
          PROVE  PageOf(q, todo, got, status)
      BY <2>7, <3>1, <3>3
    <3> QED
      BY <2>2, <2>9, <3>2, <3>3 DEF ResolveHolder
  <2>10. CASE ReadHeader
    <3>1. s = "header" /\ req' = Got(tables["HD"][got0.holder])
      BY <2>1, <2>5, <2>10 DEF ReadHeader, Turn, Header
    <3> QED
      BY <2>7, <3>1
  <2>11. CASE ReadEntity
    <3>1. s = "entity" /\ req' = Got(tables["EN"][got0.holder])
      BY <2>1, <2>5, <2>11 DEF ReadEntity, Turn, Entity
    <3> QED
      BY <2>7, <3>1
  <2>12. CASE ReadChanges
    <3>1. s = "changes" /\ req' = Got({e \in events : e.subject = <<Subject(q)>>})
      BY <2>1, <2>2, <2>5, <2>12 DEF ReadChanges, Turn
    <3> QED
      BY <2>7, <3>1
  <2>13. CASE ReadRelated
    <3>1. s = "related"
      BY <2>1, <2>5, <2>13 DEF ReadRelated, Turn
    <3>2. req' = Fails(500) \/ \E x : req' = Got(x)
      BY <2>13 DEF ReadRelated
    <3> QED
      BY <2>7, <2>8, <3>1, <3>2
  <2>14. CASE ReadRegistration
    <3>1. s = "registration"
      BY <2>1, <2>5, <2>14 DEF ReadRegistration, Turn
    <3>2. q.kind = "tower" /\ todo0 = TowerDetail
      BY <1>1, <2>4, <2>5, <3>1, Turns
    <3>3. CASE req' = Fails(404)
      BY <2>8, <3>3
    <3>4. CASE tables["HD"][q.of] # None
      <4>1. PICK r, new : r = Got(q.of) /\ new = [header |-> tables["HD"][q.of], holder |-> q.of]
        OBVIOUS
      <4>2. req' = [r EXCEPT !.got = new]
        BY <2>2, <2>14, <3>4, <4>1 DEF ReadRegistration, Header
      <4>3. IsRequest(r) /\ r.todo = Tail(req.todo) /\ r.status = IF Len(req.todo) = 1 THEN 200 ELSE None
        BY <2>2, <4>1, GotEffect DEF GoesOn
      <4>4. req'.todo = r.todo /\ req'.status = r.status /\ req'.got = new
        BY <4>2, <4>3 DEF IsRequest
      <4>5. r.todo = AfterHeader /\ r.status = None
        <5>1. req.todo = TowerDetail
          BY <2>1, <3>2
        <5>2. Tail(req.todo) = AfterHeader /\ Len(req.todo) = 4
          BY <5>1, Todos
        <5> QED
          BY <4>3, <5>2
      <4>6. q.of \in Keys
        BY <1>4, <2>2, <3>2, BrowseAssumption DEF ReqOK
      <4>7. PageOf(q, AfterHeader, new, None)
        BY <3>2, <3>4, <4>1, <4>6, Registered
      <4> QED
        BY <1>1, <4>4, <4>5, <4>7
    <3> QED
      BY <2>2, <2>14, <3>3, <3>4 DEF ReadRegistration, Header
  <2>15. CASE Count \/ ReadPage \/ Search \/ ByFrn \/ ToolWhere
    BY <2>1, <2>5, <2>6, <2>15 DEF Count, ReadPage, Search, ByFrn, ToolWhere, Turn
  <2>16. ~Begin /\ ~Close
    BY <1>1, <1>4 DEF Begin, Close
  <2> QED
    BY <2>9, <2>10, <2>11, <2>12, <2>13, <2>14, <2>15, <2>16 DEF Answer
<1>5. CASE FromClient
  <2>1. PICK r : Asked(req', r, FALSE, None) \/ Asked(req', r, FALSE, 400)
    BY <1>5 DEF FromClient
  <2>2. PICK hit, n : (n = None \/ n = 400) /\ Asked(req', r, hit, n)
    BY <2>1
  <2>3. n # 200
    BY <1>2, <2>2
  <2> QED
    BY <1>3, <2>2, <2>3
<1>6. CASE FromSearch
  BY <1>2, <1>3, <1>6 DEF FromSearch
<1> QED
  BY <1>1, <1>4, <1>5, <1>6, AnswerEffect

LEMMA PageLoad ==
  ASSUME DataInv, DaysInOrder, RowsPlaced, ReqOK, PageOK, LoadStep
  PROVE  PageOK'
<1>1. SUFFICES ASSUME NEW q, NEW todo, NEW got, NEW status,
                      req' # None, req'.q = q, req'.todo = todo, req'.got = got, req'.status = status,
                      q.kind \in {"detail", "tower"}
               PROVE  PageOf(q, todo, got, status)'
  BY DEF PageOK
<1>2. req # None
  BY <1>1 DEF LoadStep
<1>3. Load /\ req.q = q /\ req.todo = todo /\ req.got = got /\ req.status = status /\ req.status = None
  BY <1>1, <1>2, LoadUnder
<1>4. PageOf(q, todo, got, status)
  BY <1>1, <1>2, <1>3 DEF PageOK
<1>5. InOrder(q, todo, DOMAIN got) /\ (status = 200 <=> todo = <<>>) /\ PageRows(q, got)
  BY <1>4 DEF PageOf
<1>6. /\ "header" \in DOMAIN got => "holder" \in DOMAIN got
      /\ "entity" \in DOMAIN got => "holder" \in DOMAIN got
      /\ "changes" \in DOMAIN got => {"holder", "header", "entity"} \subseteq DOMAIN got
  BY <1>5 DEF InOrder, Finished
<1>7. "HD" \in ToSet(Files) /\ "EN" \in ToSet(Files)
  BY FilesAre
<1>8. "holder" \in DOMAIN got =>
        got.holder \in Keys /\ tables'["HD"][got.holder] # None /\ Call[got.holder] = Subject(q)
  BY <1>3, <1>5, <1>7, RowsStay DEF PageRows
<1>9. "header" \in DOMAIN got => RowRead("HD", got.holder, got.header)'
  <2>1. SUFFICES ASSUME "header" \in DOMAIN got PROVE RowRead("HD", got.holder, got.header)'
    OBVIOUS
  <2>2. PICK h, row : h = got.holder /\ row = got.header
    OBVIOUS
  <2>3. RowRead("HD", h, row) /\ h \in Keys
    BY <1>5, <1>6, <2>1, <2>2 DEF PageRows
  <2>4. RowRead("HD", h, row)'
    BY <1>3, <1>7, <2>3, RowReadStays
  <2> QED
    BY <2>2, <2>4
<1>10. "entity" \in DOMAIN got => got.entity = None \/ RowRead("EN", got.holder, got.entity)'
  <2>1. SUFFICES ASSUME "entity" \in DOMAIN got, got.entity # None
                 PROVE  RowRead("EN", got.holder, got.entity)'
    OBVIOUS
  <2>2. PICK h, row : h = got.holder /\ row = got.entity
    OBVIOUS
  <2>3. RowRead("EN", h, row) /\ h \in Keys
    BY <1>5, <1>6, <2>1, <2>2 DEF PageRows
  <2>4. RowRead("EN", h, row)'
    BY <1>3, <1>7, <2>3, RowReadStays
  <2> QED
    BY <2>2, <2>4
<1>11. "changes" \in DOMAIN got => Explained(got)'
  <2>1. SUFFICES ASSUME "changes" \in DOMAIN got PROVE Explained(got)'
    OBVIOUS
  <2>2. Explained(got)
    BY <1>5, <2>1 DEF PageRows
  <2> QED
    BY <1>3, <1>5, <1>6, <2>1, <2>2, ExplainedStays
<1>12. PageRows(q, got)'
  BY <1>8, <1>9, <1>10, <1>11 DEF PageRows
<1> QED
  BY <1>5, <1>12 DEF PageOf


LEMMA PagesAlways == Spec => []PageOK
<1>1. Init => PageOK
  BY DEF Init, PageOK
<1>2. ASSUME DataInv, DaysInOrder, RowsPlaced, EventsOK, ReqOK, PageOK, [Next]_vars
      PROVE  PageOK'
  <2>1. CASE UNCHANGED vars
    <3>1. SUFFICES ASSUME NEW q, NEW todo, NEW got, NEW status, PageOf(q, todo, got, status)
                   PROVE  PageOf(q, todo, got, status)'
      BY <1>2, <2>1 DEF vars, PageOK
    <3> QED
      BY <2>1, <3>1, PageSame DEF vars
  <2> QED
    BY <1>2, <2>1, NothingElse, PageAnswer, PageLoad
<1> QED
  BY <1>1, <1>2, DataAlways, OrderAlways, HamsAlways, EventsAlways, RequestsAlways, PTL DEF Spec

LEMMA LengthsTell ==
  ASSUME NEW s, NEW t, Len(s) # Len(t)
  PROVE  s # t
OBVIOUS

LEMMA PageIsFinished ==
  ASSUME PageOK, NEW q, NEW got, req # None, req.q = q, req.got = got, req.status = 200,
         q.kind \in {"detail", "tower"}
  PROVE  DOMAIN got = Finished /\ PageRows(q, got)
<1>1. PICK todo : todo = req.todo
  OBVIOUS
<1>2. PageOf(q, todo, got, 200)
  BY <1>1 DEF PageOK
<1>3. todo = <<>> /\ InOrder(q, todo, DOMAIN got) /\ PageRows(q, got)
  BY <1>2 DEF PageOf
<1>4. /\ <<>> # Detail /\ <<>> # <<"header", "entity", "changes", "related">> /\ <<>> # TowerDetail
      /\ <<>> # AfterHeader /\ <<>> # AfterEntity /\ <<>> # <<"related">>
  <2>1. <<>> # Detail /\ <<>> # <<"header", "entity", "changes", "related">>
    BY Todos, LengthsTell, 0 # 5, 0 # 4
  <2>2. <<>> # TowerDetail /\ <<>> # AfterHeader
    BY Todos, LengthsTell, 0 # 4, 0 # 3
  <2>3. <<>> # AfterEntity /\ <<>> # <<"related">>
    BY Todos, LengthsTell, 0 # 2, 0 # 1
  <2> QED
    BY <2>1, <2>2, <2>3
<1> QED
  BY <1>3, <1>4 DEF InOrder

\* The change log is committed with the rows it explains and read after them: as long as
\* no dump was loaded, the changes that led to each row on a page are on it, whichever
\* files were loaded while the page was put together.
THEOREM LogExplainsRowsAlways == Spec => []LogExplainsRows
<1>1. ASSUME PageOK
      PROVE  LogExplainsRows
  <2>1. SUFFICES ASSUME Answered("detail") \/ Answered("tower")
                 PROVE  Explained(req.got)
    BY DEF LogExplainsRows, Explained
  <2>2. PICK q, got : q = req.q /\ got = req.got
    OBVIOUS
  <2>3. "changes" \in DOMAIN got /\ PageRows(q, got)
    BY <1>1, <2>1, <2>2, PageIsFinished DEF Answered, Finished
  <2> QED
    BY <2>2, <2>3 DEF PageRows
<1> QED
  BY <1>1, PagesAlways, PTL

-----------------------------------------------------------------------------
(* The holder of a call sign                                               *)

LEMMA GrantedDay ==
  ASSUME NEW d \in Days, NEW u \in Touched[d]
  PROVE  Granted(u) \in Days /\ Granted(u) <= d
<1>1. PICK S : S = {e \in Days : u \in Touched[e]}
  OBVIOUS
<1>2. S \subseteq Nat /\ d \in S /\ S \subseteq Days
  BY <1>1, DaysAreNat
<1>3. Min(S) \in S /\ \A y \in S : Min(S) <= y
  BY <1>2, Least
<1>4. Granted(u) = Min(S)
  BY <1>1 DEF Granted
<1> QED
  BY <1>2, <1>3, <1>4

\* A call sign that some licence has or had has a current holder.
LEMMA HoldersExist ==
  ASSUME DataInv, NEW u \in Keys, tables["HD"][u] # None
  PROVE  Holders(Call[u]) # {}
<1>1. PICK c : c = Call[u]
  OBVIOUS
<1>2. PICK all : all = {v \in Keys : Header(v) # None /\ Header(v).call_sign = <<c>>}
  OBVIOUS
<1>3. PICK active : active = {v \in all : Header(v).status = <<"A">>}
  OBVIOUS
<1>4. PICK cs : cs = IF active # {} THEN active ELSE all
  OBVIOUS
<1>5. Holders(c) = {v \in cs : \A w \in cs : Granted(w) <= Granted(v)}
  BY <1>2, <1>3, <1>4 DEF Holders
<1>6. u \in all
  <2>1. tables["HD"][u].call_sign = <<Call[u]>>
    BY FilesAre, KeptIsRow DEF DataInv, RowsOK
  <2> QED
    BY <1>1, <1>2, <2>1 DEF Header
<1>7. cs # {} /\ cs \subseteq all
  BY <1>3, <1>4, <1>6
<1>8. \A v \in cs : Granted(v) \in Days
  <2>1. SUFFICES ASSUME NEW v \in cs PROVE Granted(v) \in Days
    OBVIOUS
  <2>2. v \in Keys /\ tables["HD"][v] # None
    BY <1>2, <1>7 DEF Header
  <2>3. PICK d \in Days : v \in Touched[d]
    BY <2>2, FilesAre DEF DataInv, RowsOK
  <2> QED
    BY <2>3, GrantedDay
<1>9. PICK G : G = {Granted(v) : v \in cs}
  OBVIOUS
<1>10. G \in SUBSET (1..Len(Touched)) /\ G # {}
  BY <1>7, <1>8, <1>9 DEF Days
<1>11. Reading!Top(G) \in G /\ \A g \in G : Reading!Top(G) >= g
  BY <1>10, DaysAreNat, Reading!TopIsMember
<1>12. PICK v \in cs : Granted(v) = Reading!Top(G)
  BY <1>9, <1>11
<1>13. \A w \in cs : Granted(w) <= Granted(v)
  <2>1. SUFFICES ASSUME NEW w \in cs PROVE Granted(w) <= Granted(v)
    OBVIOUS
  <2>2. Granted(w) \in G /\ Granted(w) \in Nat /\ Granted(v) \in Nat
    BY <1>8, <1>9, DaysAreNat
  <2>3. PICK a, b : a = Granted(w) /\ b = Granted(v)
    OBVIOUS
  <2>4. b >= a
    BY <1>11, <1>12, <2>2, <2>3
  <2> QED
    BY <2>2, <2>3, <2>4
<1> QED
  BY <1>1, <1>5, <1>13

\* One more statement of a detail page of a call sign.
LEMMA DetailGoesOn ==
  ASSUME ReqOK, PageOK, Answer, req # None, req.status = None, GoesOn(req, req'), req' # None,
         NEW q, req.q = q, q.kind = "detail"
  PROVE  /\ \/ req'.got = req.got
            \/ \E x : /\ req'.got = Learnt(req.got, Head(req.todo), x)
                      /\ Head(req.todo) = "holder" => x \in Holders(q.of) /\ DOMAIN req.got = {}
         /\ req'.status = 404 => Holders(q.of) = {}
<1>1. IsRequest(req)
  BY DEF ReqOK
<1>2. PICK todo, got : req.todo = todo /\ req.got = got
  OBVIOUS
<1>3. PageOf(q, todo, got, None)
  BY <1>2 DEF PageOK
<1>4. None # 200 /\ None # 404
  BY BrowseAssumption
<1>5. todo # <<>> /\ InOrder(q, todo, DOMAIN got)
  BY <1>3, <1>4 DEF PageOf
<1>6. PICK s : s = Head(todo)
  OBVIOUS
<1>7. s \in {"holder", "header", "entity", "changes", "related"}
  BY <1>5, <1>6, Turns
<1>8. s = "holder" => DOMAIN got = {}
  BY <1>5, <1>6, Todos DEF InOrder
<1>9. ASSUME NEW x, req' = Got(x)
      PROVE  req'.got = Learnt(req.got, Head(req.todo), x) /\ req'.status # 404
  <2>1. /\ req'.got = Learnt(req.got, Head(req.todo), x)
        /\ req'.status = IF Len(req.todo) = 1 THEN 200 ELSE None
    BY <1>1, <1>9, GotEffect
  <2> QED
    BY <1>4, <2>1
<1>10. ASSUME NEW n, req' = Fails(n)
       PROVE  req'.got = req.got /\ req'.status = n
  BY <1>1, <1>10, FailsEffect
<1>11. CASE ResolveHolder
  <2>1. CASE req' = Fails(404) /\ Holders(q.of) = {}
    BY <1>10, <2>1
  <2>2. ASSUME NEW u \in Holders(q.of), req' = Got(u)
        PROVE  /\ \E x : /\ req'.got = Learnt(req.got, Head(req.todo), x)
                         /\ Head(req.todo) = "holder" => x \in Holders(q.of) /\ DOMAIN req.got = {}
               /\ req'.status # 404
    BY <1>2, <1>6, <1>8, <1>9, <2>2
  <2> QED
    BY <1>11, <2>1, <2>2 DEF ResolveHolder
<1>12. CASE ReadHeader \/ ReadEntity \/ ReadChanges
  <2>1. s # "holder"
    BY <1>2, <1>6, <1>12 DEF ReadHeader, ReadEntity, ReadChanges, Turn
  <2>2. PICK x : req' = Got(x)
    BY <1>12 DEF ReadHeader, ReadEntity, ReadChanges
  <2> QED
    BY <1>2, <1>6, <1>9, <2>1, <2>2
<1>13. CASE ReadRelated
  <2>1. s # "holder"
    BY <1>2, <1>6, <1>13 DEF ReadRelated, Turn
  <2>2. req' = Fails(500) \/ \E x : req' = Got(x)
    BY <1>13 DEF ReadRelated
  <2> QED
    BY <1>2, <1>6, <1>9, <1>10, <2>1, <2>2
<1>14. ~(Count \/ ReadPage \/ Search \/ ByFrn \/ ToolWhere \/ ReadRegistration)
  BY <1>2, <1>6, <1>7 DEF Count, ReadPage, Search, ByFrn, ToolWhere, ReadRegistration, Turn
<1>15. ~Begin /\ ~Close
  BY DEF Begin, Close
<1> QED
  BY <1>11, <1>12, <1>13, <1>14, <1>15 DEF Answer

-----------------------------------------------------------------------------
(* Hits and holders                                                         *)

\* A hit stands for a call sign that some licence has, and a licence stays.
HitFound(q) == q.kind = "detail" /\ \E u \in Keys : tables["HD"][u] # None /\ Call[u] = q.of

HitsFound ==
  \A q : req # None /\ req.q = q /\ req.hit => HitFound(q) /\ req.status # 404

LEMMA HitIsFound ==
  ASSUME DataInv, StoredInv, NEW f \in ToSet(Files), NEW u \in Keys, tables[f][u] # None,
         NEW q, q = [kind |-> "detail", of |-> tables[f][u].call_sign[1]]
  PROVE  HitFound(q)
<1>1. PICK v \in Days : tables[f][u] = Kept(u, v, f)
  BY DEF DataInv, RowsOK
<1>2. tables[f][u].call_sign = <<Call[u]>>
  BY <1>1, KeptIsRow
<1>3. q.kind = "detail" /\ q.of = Call[u]
  BY <1>2
<1>4. tables["HD"][u] # None
  BY FilesAre DEF StoredInv, Headed
<1> QED
  BY <1>3, <1>4 DEF HitFound

LEMMA HitsAlways == Spec => []HitsFound
<1>1. Init => HitsFound
  BY DEF Init, HitsFound
<1>2. ASSUME DataInv, StoredInv, ReqOK, PageOK, HitsFound, [Next]_vars
      PROVE  HitsFound'
  <2>1. SUFFICES ASSUME NEW q, req' # None, req'.q = q, req'.hit
                 PROVE  HitFound(q)' /\ req'.status # 404
    BY DEF HitsFound
  <2>2. None # 404
    BY BrowseAssumption
  <2>3. CASE Answer /\ UNCHANGED loadVars
    <3>1. HitFound(q)' <=> HitFound(q)
      BY <2>3 DEF HitFound, loadVars
    <3>2. CASE FromClient
      BY <2>1, <3>2 DEF FromClient, Asked
    <3>3. CASE FromSearch
      <4>1. PICK f, u, r :
              /\ f \in ToSet(Files) /\ u \in Keys
              /\ tables[f][u] # None /\ r = [kind |-> "detail", of |-> tables[f][u].call_sign[1]]
              /\ Asked(req', r, TRUE, None)
        BY <3>3 DEF FromSearch
      <4>2. r = q /\ req'.status = None
        BY <2>1, <4>1 DEF Asked
      <4>3. HitFound(r)
        BY <1>2, <4>1, HitIsFound
      <4> QED
        BY <2>2, <3>1, <4>2, <4>3
    <3>4. CASE req # None /\ req.status = None /\ GoesOn(req, req')
      <4>1. req.q = q /\ req.hit
        BY <2>1, <3>4 DEF GoesOn
      <4>2. HitFound(q)
        BY <1>2, <3>4, <4>1 DEF HitsFound
      <4>3. q.kind = "detail" /\ Holders(q.of) # {}
        BY <1>2, <4>2, HoldersExist DEF HitFound
      <4>4. req'.status # 404
        BY <1>2, <2>1, <2>3, <3>4, <4>1, <4>3, DetailGoesOn
      <4> QED
        BY <3>1, <4>2, <4>4
    <3> QED
      BY <1>2, <2>1, <2>3, <3>2, <3>3, <3>4, AnswerEffect
  <2>4. CASE LoadStep
    <3>1. req # None
      BY <2>1, <2>4 DEF LoadStep
    <3>2. Load /\ req.status = None /\ req'.status = req.status /\ req'.q = req.q /\ req'.hit = req.hit
      BY <1>2, <2>4, <3>1, LoadUnder
    <3>3. HitFound(q)
      BY <1>2, <2>1, <3>1, <3>2 DEF HitsFound
    <3>4. HitFound(q)'
      BY <1>2, <3>2, <3>3, RowsStay, FilesAre DEF HitFound
    <3> QED
      BY <2>2, <3>2, <3>4
  <2>5. CASE UNCHANGED vars
    BY <1>2, <2>1, <2>5 DEF vars, loadVars, HitsFound, HitFound
  <2> QED
    BY <1>2, <2>3, <2>4, <2>5, NothingElse
<1> QED
  BY <1>1, <1>2, DataAlways, OrderAlways, RequestsAlways, PagesAlways, PTL DEF Spec

\* search.py: a hit always leads to a page, whatever files are loaded between the search
\* and the page.
THEOREM HitsResolveAlways == Spec => []HitsResolve
<1>1. HitsFound => HitsResolve
  BY DEF HitsFound, HitsResolve
<1> QED
  BY <1>1, HitsAlways, PTL

-----------------------------------------------------------------------------
(* The holder shown                                                        *)

\* The holder shown is an active one, and no older than those the request began with.
HolderOK ==
  \A q, got, start :
    /\ req # None /\ req.q = q /\ req.got = got /\ req.start = start
    /\ q.kind = "detail" /\ "holder" \in DOMAIN got /\ ~req.disturbed /\ start # {}
    => /\ got.holder \in Shown(q)
       /\ \A u \in start : Granted(u) <= Granted(got.holder)

LEMMA HolderAlways == Spec => []HolderOK
<1>1. Init => HolderOK
  BY DEF Init, HolderOK
<1>2. ASSUME DataInv, ReqOK, PageOK, Undisturbed, HolderOK, [Next]_vars
      PROVE  HolderOK'
  <2>1. SUFFICES ASSUME NEW q, NEW got, NEW start, req' # None, req'.q = q, req'.got = got, req'.start = start,
                        q.kind = "detail", "holder" \in DOMAIN got, ~req'.disturbed, start # {}
                 PROVE  got.holder \in Shown(q)' /\ \A u \in start : Granted(u) <= Granted(got.holder)
    BY DEF HolderOK
  <2>2. CASE Answer /\ UNCHANGED loadVars
    <3>1. Shown(q)' = Shown(q)
      BY <2>2, ShownSame
    <3>2. CASE FromClient \/ FromSearch
      <4>1. PICK r, hit, n : Asked(req', r, hit, n)
        BY <3>2 DEF FromClient, FromSearch
      <4> QED
        BY <2>1, <4>1 DEF Asked
    <3>3. CASE req # None /\ req.status = None /\ GoesOn(req, req')
      <4>1. req.q = q /\ req.start = start /\ ~req.disturbed
        BY <2>1, <3>3 DEF GoesOn
      <4>2. PICK got0, s : got0 = req.got /\ s = Head(req.todo)
        OBVIOUS
      <4>3. \/ got = got0
            \/ \E x : /\ got = Learnt(got0, s, x)
                      /\ s = "holder" => x \in Holders(q.of) /\ DOMAIN got0 = {}
        BY <1>2, <2>1, <2>2, <3>3, <4>1, <4>2, DetailGoesOn
      <4>4. "holder" \in DOMAIN got0 => /\ got0.holder \in Shown(q)
                                        /\ \A u \in start : Granted(u) <= Granted(got0.holder)
        BY <1>2, <2>1, <3>3, <4>1, <4>2 DEF HolderOK
      <4>5. CASE got = got0
        BY <2>1, <3>1, <4>4, <4>5
      <4>6. ASSUME NEW x, got = Learnt(got0, s, x), s = "holder", x \in Holders(q.of)
            PROVE  got.holder \in Shown(q) /\ \A u \in start : Granted(u) <= Granted(got.holder)
        <5>1. got.holder = x
          BY <4>6 DEF Learnt
        <5>2. start \subseteq Shown(q)
          BY <1>2, <3>3, <4>1 DEF Undisturbed
        <5>3. PICK c : c = q.of
          OBVIOUS
        <5>4. PICK all : all = {u \in Keys : Header(u) # None /\ Header(u).call_sign = <<c>>}
          OBVIOUS
        <5>5. PICK active : active = {u \in all : Header(u).status = <<"A">>}
          OBVIOUS
        <5>6. Shown(q) = active
          BY <2>1, <5>3, <5>4, <5>5 DEF Shown
        <5>7. active # {}
          BY <2>1, <5>2, <5>6
        <5>8. Holders(c) = {u \in active : \A v \in active : Granted(v) <= Granted(u)}
          BY <5>4, <5>5, <5>7 DEF Holders
        <5>9. x \in active /\ \A v \in active : Granted(v) <= Granted(x)
          BY <4>6, <5>3, <5>8
        <5> QED
          BY <5>1, <5>2, <5>6, <5>9
      <4>7. ASSUME NEW x, got = Learnt(got0, s, x), s # "holder"
            PROVE  got.holder \in Shown(q) /\ \A u \in start : Granted(u) <= Granted(got.holder)
        <5>1. "holder" \in DOMAIN got0 /\ got.holder = got0.holder
          BY <2>1, <4>7 DEF Learnt
        <5> QED
          BY <4>4, <5>1
      <4> QED
        BY <3>1, <4>3, <4>5, <4>6, <4>7
    <3> QED
      BY <1>2, <2>1, <2>2, <3>2, <3>3, AnswerEffect
  <2>3. CASE LoadStep
    <3>1. req # None
      BY <2>1, <2>3 DEF LoadStep
    <3>2. PICK r, todo : /\ req'.q = req.q /\ req'.start = req.start /\ req'.got = req.got
                         /\ r = req.q /\ todo = req.todo
                         /\ req'.disturbed = (req.disturbed \/ Disturbs(r, todo))
      BY <1>2, <2>3, <3>1, LoadUnder
    <3>3. r = q
      BY <2>1, <3>2
    <3>4. ~req.disturbed /\ ~Disturbs(r, todo)
      BY <2>1, <3>2
    <3>5. Shown(q) \subseteq Shown(q)'
      <4>1. ~Disturbs(q, todo)
        BY <3>3, <3>4
      <4> QED
        BY <4>1 DEF Disturbs
    <3>6. got.holder \in Shown(q) /\ \A u \in start : Granted(u) <= Granted(got.holder)
      BY <1>2, <2>1, <3>1, <3>2, <3>3, <3>4 DEF HolderOK
    <3> QED
      BY <3>5, <3>6
  <2>4. CASE UNCHANGED vars
    <3>1. Shown(q)' = Shown(q) /\ req' = req
      BY <2>4, ShownSame DEF vars
    <3> QED
      BY <1>2, <2>1, <3>1 DEF HolderOK
  <2> QED
    BY <1>2, <2>2, <2>3, <2>4, NothingElse
<1> QED
  BY <1>1, <1>2, DataAlways, RequestsAlways, PagesAlways, UndisturbedAlways, PTL DEF Spec

\* personal_services.py: a page is of one licence of the call sign asked for, also when
\* the call sign passes on or the licence changes while the page is put together; and if
\* an active licence was there throughout, it or a newer active one is the one shown.
THEOREM OneHolderAlways == Spec => []OneHolder
<1>1. ASSUME PageOK, HolderOK
      PROVE  OneHolder
  <2>1. SUFFICES ASSUME Answered("detail")
                 PROVE  /\ req.got.header.call_sign = <<req.q.of>>
                        /\ req.got.entity # None => req.got.entity.usi = req.got.header.usi
                        /\ ~req.disturbed /\ req.start # {} =>
                             /\ req.got.holder \in req.start \cup Shown(req.q)
                             /\ \A u \in req.start : Granted(u) <= Granted(req.got.holder)
    BY DEF OneHolder
  <2>2. PICK q, got, start : q = req.q /\ got = req.got /\ start = req.start
    OBVIOUS
  <2>3. q.kind = "detail" /\ DOMAIN got = Finished /\ PageRows(q, got)
    BY <1>1, <2>1, <2>2, PageIsFinished DEF Answered
  <2>4. PICK h : h = got.holder /\ h \in Keys /\ Call[h] = q.of
    BY <2>3 DEF PageRows, Finished, Subject
  <2>5. got.header.call_sign = <<q.of>> /\ got.header.usi = <<h>>
    <3>1. RowRead("HD", h, got.header)
      BY <2>3, <2>4 DEF PageRows, Finished
    <3> QED
      BY <2>4, <3>1, KeptIsRow, FilesAre DEF RowRead
  <2>6. got.entity # None => got.entity.usi = <<h>>
    <3>1. got.entity # None => RowRead("EN", h, got.entity)
      BY <2>3, <2>4 DEF PageRows, Finished
    <3> QED
      BY <2>4, <3>1, KeptIsRow, FilesAre DEF RowRead
  <2>7. ~req.disturbed /\ start # {} =>
          got.holder \in Shown(q) /\ \A u \in start : Granted(u) <= Granted(got.holder)
    <3>1. "holder" \in DOMAIN got
      BY <2>3 DEF Finished
    <3> QED
      BY <1>1, <2>1, <2>2, <2>3, <3>1 DEF HolderOK, Answered
  <2> QED
    BY <2>2, <2>5, <2>6, <2>7
<1> QED
  BY <1>1, PagesAlways, HolderAlways, PTL

-----------------------------------------------------------------------------
(* The tools                                                               *)

LEMMA ThreeAreFinite ==
  ASSUME NEW a, NEW b, NEW c
  PROVE  IsFiniteSet({a, b, c})
<1>1. IsFiniteSet({a}) /\ IsFiniteSet({b}) /\ IsFiniteSet({c})
  BY FS_Singleton
<1>2. IsFiniteSet({a} \cup {b})
  BY <1>1, FS_Union
<1>3. IsFiniteSet(({a} \cup {b}) \cup {c})
  BY <1>1, <1>2, FS_Union
<1>4. {a, b, c} = ({a} \cup {b}) \cup {c}
  OBVIOUS
<1> QED
  BY <1>3, <1>4

LEMMA ArgumentsAreFinite ==
  ASSUME NEW service
  PROVE  IsFiniteSet(ToolArguments(service))
<1>2. CASE service = "tower"
  <2>1. ToolArguments(service) =
          {"registration_number", "structure_type", "city"}
            \cup ({"state", "status", "height_min"}
                    \cup {"height_max", "constructed_after", "constructed_before"})
    BY <1>2 DEF ToolArguments, TowerParam
  <2>2. IsFiniteSet({"registration_number", "structure_type", "city"}) /\ IsFiniteSet({"state", "status", "height_min"}) /\ IsFiniteSet({"height_max", "constructed_after", "constructed_before"})
    BY ThreeAreFinite
  <2>3. IsFiniteSet({"state", "status", "height_min"} \cup {"height_max", "constructed_after", "constructed_before"})
    BY <2>2, FS_Union
  <2>4. IsFiniteSet({"registration_number", "structure_type", "city"} \cup ({"state", "status", "height_min"} \cup {"height_max", "constructed_after", "constructed_before"}))
    BY <2>2, <2>3, FS_Union
  <2> QED
    BY <2>1, <2>4
<1>3. CASE service # "tower"
  <2>1. ToolArguments(service) =
          {"callsign", "name", "city"}
            \cup ({"state", "status", "operator_class"} \cup {"n_number", "ship_name", "mmsi"})
    BY <1>3 DEF ToolArguments, BaseParams
  <2>2. IsFiniteSet({"callsign", "name", "city"}) /\ IsFiniteSet({"state", "status", "operator_class"}) /\ IsFiniteSet({"n_number", "ship_name", "mmsi"})
    BY ThreeAreFinite
  <2>3. IsFiniteSet({"state", "status", "operator_class"} \cup {"n_number", "ship_name", "mmsi"})
    BY <2>2, FS_Union
  <2>4. IsFiniteSet({"callsign", "name", "city"} \cup ({"state", "status", "operator_class"} \cup {"n_number", "ship_name", "mmsi"}))
    BY <2>2, <2>3, FS_Union
  <2> QED
    BY <2>1, <2>4
<1> QED
  BY <1>2, <1>3

\* The tower tool's names are sent as different parameters of the API.
LEMMA TowerParamInjective ==
  /\ \A p \in DOMAIN TowerParam : TowerParam[p] \in BrowseTowers.params
  /\ \A p, r \in DOMAIN TowerParam : TowerParam[p] = TowerParam[r] => p = r
BY DEF TowerParam, BrowseTowers

\* As many filters as are meant for the service reach its listing.
LEMMA MeantArrive ==
  ASSUME NEW service \in Services \cup {"tower"}, NEW supplied \in SUBSET ToolArguments(service)
  PROVE  Cardinality(Forwarded(service, supplied) \cap Endpoint(service).params)
           = Cardinality({p \in supplied : MeantFor(service, p)})
<1>1. PICK meant : meant = {p \in supplied : MeantFor(service, p)}
  OBVIOUS
<1>2. PICK where : where = Forwarded(service, supplied) \cap Endpoint(service).params
  OBVIOUS
<1>3. IsFiniteSet(supplied)
  BY ArgumentsAreFinite, FS_Subset
<1>4. CASE service \in {"gmrs", "aircraft", "ship"}
  <2>1. Endpoint(service).params = BrowsePersonal(service).params
    BY <1>4 DEF Endpoint
  <2>2. CASE service = "gmrs"
    <3>1. where = supplied \cap BaseParams
      BY <1>2, <2>1, <2>2 DEF Forwarded, BrowseLicenses, BrowsePersonal
    <3>2. meant = supplied \cap BaseParams
      BY <1>1, <2>2 DEF MeantFor, ToolArguments, BaseParams
    <3> QED
      BY <1>1, <1>2, <3>1, <3>2
  <2>3. CASE service = "aircraft"
    <3>1. where = supplied \cap (BaseParams \cup {"n_number"})
      BY <1>2, <2>1, <2>3 DEF Forwarded, BrowseLicenses, BrowsePersonal
    <3>2. meant = supplied \cap (BaseParams \cup {"n_number"})
      BY <1>1, <2>3 DEF MeantFor, ToolArguments, BaseParams
    <3> QED
      BY <1>1, <1>2, <3>1, <3>2
  <2>4. CASE service = "ship"
    <3>1. where = supplied \cap (BaseParams \cup {"ship_name", "mmsi"})
      BY <1>2, <2>1, <2>4 DEF Forwarded, BrowseLicenses, BrowsePersonal
    <3>2. meant = supplied \cap (BaseParams \cup {"ship_name", "mmsi"})
      BY <1>1, <2>4 DEF MeantFor, ToolArguments, BaseParams
    <3> QED
      BY <1>1, <1>2, <3>1, <3>2
  <2> QED
    BY <1>4, <2>2, <2>3, <2>4
<1>5. CASE service = "amateur"
  <2>1. Endpoint(service).params = BaseParams \cup {"class"}
    BY <1>5 DEF Endpoint, BrowseAmateur
  <2>2. PICK base0 : base0 = supplied \cap BaseParams
    OBVIOUS
  <2>3. IsFiniteSet(base0) /\ "class" \notin base0 /\ "operator_class" \notin base0
    <3>1. IsFiniteSet(base0)
      BY <1>3, <2>2, FS_Intersection
    <3> QED
      BY <2>2, <3>1 DEF BaseParams
  <2>4. CASE "operator_class" \in supplied
    <3>1. where = base0 \cup {"class"}
      BY <1>2, <1>5, <2>1, <2>2, <2>4 DEF Forwarded, BrowseLicenses
    <3>2. meant = base0 \cup {"operator_class"}
      BY <1>1, <1>5, <2>2, <2>4 DEF MeantFor, ToolArguments, BaseParams
    <3>3. Cardinality(where) = Cardinality(base0) + 1 /\ Cardinality(meant) = Cardinality(base0) + 1
      BY <2>3, <3>1, <3>2, FS_AddElement
    <3> QED
      BY <1>1, <1>2, <3>3
  <2>5. CASE "operator_class" \notin supplied
    <3>1. where = base0
      BY <1>2, <1>5, <2>1, <2>2, <2>5 DEF Forwarded, BrowseLicenses
    <3>2. meant = base0
      BY <1>1, <1>5, <2>2, <2>5 DEF MeantFor, ToolArguments, BaseParams
    <3> QED
      BY <1>1, <1>2, <3>1, <3>2
  <2> QED
    BY <2>4, <2>5
<1>6. CASE service = "tower"
  <2>1. supplied \subseteq DOMAIN TowerParam
    BY <1>6 DEF ToolArguments
  <2>2. where = {TowerParam[p] : p \in supplied}
    <3>1. where = {TowerParam[p] : p \in supplied} \cap BrowseTowers.params
      BY <1>2, <1>6 DEF Forwarded, BrowseTowersTool, Endpoint
    <3> QED
      BY <2>1, <3>1, TowerParamInjective
  <2>3. meant = supplied
    BY <1>1, <1>6, <2>1 DEF MeantFor, TowerParam
  <2>4. PICK f : f = [p \in supplied |-> TowerParam[p]]
    OBVIOUS
  <2>5. f \in [supplied -> where] /\ (\A t \in where : \E p \in supplied : f[p] = t)
        /\ \A p, r \in supplied : f[p] = f[r] => p = r
    BY <2>1, <2>2, <2>4, TowerParamInjective
  <2>6. f \in Surjection(supplied, where) /\ f \in Injection(supplied, where)
    BY <2>5 DEF Surjection, Injection, IsInjective
  <2>7. Cardinality(where) = Cardinality(supplied)
    BY <1>3, <2>6, FS_Surjection
  <2> QED
    BY <1>1, <1>2, <2>3, <2>7
<1> QED
  BY <1>4, <1>5, <1>6 DEF Services

\* A tool's call is one statement.
ToolOK ==
  \A q, got :
    req # None /\ req.q = q /\ req.got = got /\ q.kind = "tool" =>
      IF req.status = 200
        THEN got.where = Forwarded(q.service, q.supplied) \cap Endpoint(q.service).params
      ELSE req.todo = <<"where">>

LEMMA ToolsAlways == Spec => []ToolOK
<1>1. Init => ToolOK
  BY DEF Init, ToolOK
<1>2. ASSUME ReqOK, ToolOK, [Next]_vars
      PROVE  ToolOK'
  <2>1. SUFFICES ASSUME NEW q, NEW got, req' # None, req'.q = q, req'.got = got, q.kind = "tool"
                 PROVE  IF req'.status = 200
                          THEN got.where = Forwarded(q.service, q.supplied) \cap Endpoint(q.service).params
                        ELSE req'.todo = <<"where">>
    BY DEF ToolOK
  <2>2. None \notin {200, 400, 404, 500}
    BY BrowseAssumption
  <2>3. CASE Answer
    <3>1. ASSUME NEW r, NEW hit, NEW n, Asked(req', r, hit, n), n # 200
          PROVE  req'.status # 200 /\ req'.todo = <<"where">>
      <4>1. r = q /\ req'.status # 200 /\ req'.todo = Statements(r)
        BY <2>1, <3>1 DEF Asked
      <4> QED
        BY <2>1, <4>1 DEF Statements
    <3>2. CASE FromClient
      <4>1. PICK r, n : (n = None \/ n = 400) /\ Asked(req', r, FALSE, n)
        BY <3>2 DEF FromClient
      <4>2. n # 200
        BY <2>2, <4>1
      <4>3. PICK hit : hit = FALSE
        OBVIOUS
      <4>4. Asked(req', r, hit, n)
        BY <4>1, <4>3
      <4> QED
        BY <3>1, <4>2, <4>4
    <3>3. CASE FromSearch
      BY <2>2, <3>1, <3>3 DEF FromSearch
    <3>4. CASE req # None /\ req.status = None /\ GoesOn(req, req')
      <4>1. IsRequest(req) /\ req.q = q
        BY <1>2, <2>1, <3>4 DEF GoesOn, ReqOK
      <4>2. req.todo = <<"where">>
        BY <1>2, <2>1, <2>2, <3>4, <4>1 DEF ToolOK
      <4>3. Head(req.todo) = "where" /\ Len(req.todo) = 1
        BY <4>2
      <4>4. ToolWhere
        BY <2>1, <2>3, <3>4, <4>3 DEF Answer, Begin, Count, ReadPage, Search, ByFrn, ResolveHolder, ReadHeader,
          ReadRegistration, ReadEntity, ReadChanges, ReadRelated, Close, Turn
      <4>5. PICK x : /\ x = Forwarded(q.service, q.supplied) \cap Endpoint(q.service).params
                     /\ req' = Got(x)
        BY <4>1, <4>4 DEF ToolWhere
      <4>6. req'.got = Learnt(req.got, Head(req.todo), x) /\ req'.status = IF Len(req.todo) = 1 THEN 200 ELSE None
        BY <4>1, <4>5, GotEffect
      <4>7. got.where = x
        BY <2>1, <4>3, <4>6 DEF Learnt
      <4> QED
        BY <4>3, <4>5, <4>6, <4>7
    <3> QED
      BY <1>2, <2>1, <2>3, <3>2, <3>3, <3>4, AnswerEffect
  <2>4. CASE LoadStep
    <3>1. req # None
      BY <2>1, <2>4 DEF LoadStep
    <3>2. req'.q = req.q /\ req'.got = req.got /\ req'.status = req.status /\ req'.todo = req.todo
      BY <1>2, <2>4, <3>1, LoadUnder
    <3> QED
      BY <1>2, <2>1, <3>1, <3>2 DEF ToolOK
  <2>5. CASE UNCHANGED vars
    BY <1>2, <2>1, <2>5 DEF vars, ToolOK
  <2> QED
    BY <1>2, <2>3, <2>4, <2>5, NothingElse
<1> QED
  BY <1>1, <1>2, RequestsAlways, PTL DEF Spec

\* tools.py: for each service, every filter that a tool describes for it narrows the
\* listing the API answers with, and no other does.
THEOREM ToolFiltersApplyAlways == Spec => []ToolFiltersApply
<1>1. ASSUME ReqOK, ToolOK
      PROVE  ToolFiltersApply
  <2>1. SUFFICES ASSUME Answered("tool")
                 PROVE  Cardinality(req.got.where) =
                          Cardinality({p \in req.q.supplied : MeantFor(req.q.service, p)})
    BY DEF ToolFiltersApply
  <2>2. PICK q, got : q = req.q /\ got = req.got
    OBVIOUS
  <2>3. q.kind = "tool" /\ req # None /\ req.status = 200
    BY <2>1, <2>2 DEF Answered
  <2>4. got.where = Forwarded(q.service, q.supplied) \cap Endpoint(q.service).params
    BY <1>1, <2>2, <2>3 DEF ToolOK
  <2>5. q \in Queries
    BY <1>1, <2>2, <2>3 DEF ReqOK
  <2>6. q.service \in Services \cup {"tower"} /\ q.supplied \in SUBSET ToolArguments(q.service)
    BY <2>3, <2>5, BrowseAssumption
  <2>7. Cardinality(got.where) = Cardinality({p \in q.supplied : MeantFor(q.service, p)})
    BY <2>4, <2>6, MeantArrive
  <2> QED
    BY <2>2, <2>7
<1> QED
  BY <1>1, RequestsAlways, ToolsAlways, PTL

-----------------------------------------------------------------------------
(* Listings                                                                *)

Listings == {"browse", "history", "newhams"}

Less(p, r) == \E i \in DOMAIN p : p[i] < r[i] /\ \A j \in 1..(i - 1) : p[j] = r[j]

LEMMA PlacesDiffer ==
  ASSUME NEW n \in Nat, NEW p \in [1..n -> Int], NEW r \in [1..n -> Int], p # r
  PROVE  Less(p, r) \/ Less(r, p)
<1>1. PICK D : D = {i \in 1..n : p[i] # r[i]}
  OBVIOUS
<1>2. D # {} /\ D \subseteq Nat
  <2>1. p = [i \in 1..n |-> p[i]] /\ r = [i \in 1..n |-> r[i]]
    OBVIOUS
  <2>2. PICK i \in 1..n : p[i] # r[i]
    BY <2>1
  <2>3. i \in D /\ \A j \in D : j \in Nat
    BY <1>1, <2>2
  <2> QED
    BY <2>3
<1>3. Min(D) \in D /\ \A j \in D : Min(D) <= j
  BY <1>2, Least
<1>4. PICK i : i = Min(D)
  OBVIOUS
<1>5. i \in 1..n /\ p[i] # r[i] /\ p[i] \in Int /\ r[i] \in Int
  BY <1>1, <1>3, <1>4
<1>6. \A j \in 1..(i - 1) : p[j] = r[j]
  <2>1. SUFFICES ASSUME NEW j \in 1..(i - 1), p[j] # r[j] PROVE FALSE
    OBVIOUS
  <2>2. j \in 1..n
    BY <1>5
  <2>3. i <= j
    BY <1>1, <1>3, <1>4, <2>1, <2>2
  <2> QED
    BY <1>5, <2>1, <2>3
<1>7. DOMAIN p = 1..n /\ DOMAIN r = 1..n
  OBVIOUS
<1>8. p[i] < r[i] \/ r[i] < p[i]
  BY <1>5
<1> QED
  BY <1>5, <1>6, <1>7, <1>8 DEF Less

LEMMA NotBeforeItself ==
  ASSUME NEW n \in Nat, NEW p \in [1..n -> Int]
  PROVE  ~Less(p, p)
BY DEF Less

LEMMA PlaceOfOne ==
  ASSUME NEW a \in Int
  PROVE  <<a>> \in [1..1 -> Int]
OBVIOUS

LEMMA PlaceOfTwo ==
  ASSUME NEW a \in Int, NEW b \in Int
  PROVE  <<a, b>> \in [1..2 -> Int]
OBVIOUS

LEMMA PlaceOfFour ==
  ASSUME NEW a \in Int, NEW b \in Int, NEW c \in Int, NEW d \in Int
  PROVE  <<a, b, c, d>> \in [1..4 -> Int]
OBVIOUS

LEMMA ItemsAreFinite ==
  ASSUME DataInv, NEW q, q.kind \in Listings
  PROVE  IsFiniteSet(Items(q))
<1>1. IsFiniteSet(Keys) /\ IsFiniteSet(events)
  BY FileAssumption DEF DataInv, RestOK
<1>2. Licences(q) \in SUBSET Keys /\ ChangeHistory(q) \in SUBSET events /\ NewHams \in SUBSET events
  BY DEF Licences, ChangeHistory, NewHams
<1>3. IsFiniteSet(Licences(q)) /\ IsFiniteSet(ChangeHistory(q)) /\ IsFiniteSet(NewHams)
  BY <1>1, <1>2, FS_Subset
<1> QED
  BY <1>3 DEF Items, Listings

LEMMA ColumnIsNumber ==
  ASSUME EventsOK, NEW e \in events
  PROVE  Column(e) \in Int
<1>1. CASE e.field = "license_granted"
  BY <1>1 DEF Column
<1>2. CASE e.field # "license_granted"
  <2>1. e.field \in ToSet(Schema[e.file])
    BY <1>2 DEF EventsOK
  <2>2. \E i \in 1..Len(Schema[e.file]) : Schema[e.file][i] = e.field
    <3>1. PICK s : s = Schema[e.file]
      OBVIOUS
    <3>2. DOMAIN s = 1..Len(s)
      <4>1. e.file = "HD" \/ e.file = "EN"
        BY FilesAre DEF EventsOK
      <4> QED
        BY <3>1, <4>1 DEF Schema
    <3> QED
      BY <2>1, <3>1, <3>2 DEF ToSet
  <2>3. Column(e) \in 1..Len(Schema[e.file])
    BY <1>2, <2>2 DEF Column
  <2> QED
    BY <2>3
<1> QED
  BY <1>1, <1>2

\* The places of a listing's items can be compared.
LEMMA PlacesCompare ==
  ASSUME DataInv, EventsOK, NEW q, q.kind \in Listings
  PROVE  \E n \in Nat : \A x \in Items(q) : Place(q, x) \in [1..n -> Int]
<1>1. CASE q.kind = "browse" /\ q.sort = "call_sign"
  <2>1. SUFFICES ASSUME NEW x \in Items(q) PROVE Place(q, x) \in [1..1 -> Int]
    OBVIOUS
  <2>2. x \in Keys /\ Place(q, x) = <<Signed(q, Call[x])>>
    BY <1>1, <2>1 DEF Items, Licences, Place
  <2>3. Signed(q, Call[x]) \in Int
    BY <2>2, BrowseAssumption DEF Signed
  <2> QED
    BY <2>2, <2>3, PlaceOfOne
<1>2. CASE q.kind = "browse" /\ q.sort # "call_sign"
  <2>1. SUFFICES ASSUME NEW x \in Items(q) PROVE Place(q, x) \in [1..2 -> Int]
    OBVIOUS
  <2>2. PICK a : a = IF Entity(x) = None THEN 1000 ELSE Signed(q, Entity(x).text[1])
    OBVIOUS
  <2>3. x \in Keys /\ Place(q, x) = <<a, Call[x]>>
    BY <1>2, <2>1, <2>2 DEF Items, Licences, Place
  <2>4. a \in Int
    <3>1. SUFFICES ASSUME tables["EN"][x] # None PROVE Signed(q, tables["EN"][x].text[1]) \in Int
      BY <2>2 DEF Entity
    <3>2. PICK v \in Days : tables["EN"][x] = Kept(x, v, "EN")
      BY <2>3, <3>1, FilesAre DEF DataInv, RowsOK
    <3>3. tables["EN"][x].text[1] = v /\ v \in Int
      BY <2>3, <3>2, FilesAre, VersionKept, DaysAreNat
    <3> QED
      BY <3>3 DEF Signed
  <2> QED
    BY <2>3, <2>4, PlaceOfTwo, BrowseAssumption
<1>3. CASE q.kind = "history"
  <2>1. SUFFICES ASSUME NEW x \in Items(q) PROVE Place(q, x) \in [1..4 -> Int]
    OBVIOUS
  <2>2. PICK a, b, c, d : /\ a = -x.day /\ b = (IF x.file = "EN" THEN 0 ELSE 1)
                          /\ c = -x.key /\ d = -Column(x)
    OBVIOUS
  <2>3. x \in events
    BY <1>3, <2>1 DEF Items, ChangeHistory
  <2>4. Place(q, x) = <<a, b, c, d>>
    <3>1. Place(q, x) = <<-x.day, IF x.file = "EN" THEN 0 ELSE 1, -x.key, -Column(x)>>
      BY <1>3 DEF Place
    <3> QED
      BY <2>2, <3>1
  <2>5. x.day \in Int /\ x.key \in Int
    <3>1. x.day \in Days /\ x.key \in Keys
      BY <2>3 DEF EventsOK
    <3>2. \A u \in Keys : u \in Int
      BY BrowseAssumption
    <3>3. \A v \in Days : v \in Int
      BY DaysAreNat
    <3> QED
      BY <3>1, <3>2, <3>3
  <2>6. a \in Int /\ b \in Int /\ c \in Int /\ d \in Int
    BY <2>2, <2>3, <2>5, ColumnIsNumber
  <2> QED
    BY <2>4, <2>6, PlaceOfFour
<1>4. CASE q.kind = "newhams"
  <2>1. SUFFICES ASSUME NEW x \in Items(q) PROVE Place(q, x) \in [1..2 -> Int]
    OBVIOUS
  <2>2. x \in events
    BY <1>4, <2>1 DEF Items, NewHams
  <2>3. Granted(x.key) \in Int /\ Call[x.key] \in Int
    <3>1. PICK d, u : d = x.day /\ u = x.key
      OBVIOUS
    <3>2. d \in Days /\ u \in Keys /\ u \in Touched[d]
      BY <2>2, <3>1 DEF EventsOK
    <3>3. Granted(u) \in Days
      BY <3>2, GrantedDay
    <3> QED
      BY <3>1, <3>2, <3>3, DaysAreNat, BrowseAssumption
  <2>4. PICK a : a = -Granted(x.key)
    OBVIOUS
  <2>5. Place(q, x) = <<a, Call[x.key]>>
    <3>1. Place(q, x) = <<-Granted(x.key), Call[x.key]>>
      BY <1>4 DEF Place
    <3> QED
      BY <2>4, <3>1
  <2> QED
    BY <2>3, <2>4, <2>5, PlaceOfTwo
<1> QED
  BY <1>1, <1>2, <1>3, <1>4 DEF Listings

LEMMA BeforeIsLess ==
  ASSUME NEW q, NEW x, NEW y
  PROVE  Before(q, x, y) <=> Less(Place(q, x), Place(q, y))
BY DEF Before, Less

\* How many items come before x, and whether it has its place to itself.
Ahead(q, x) == {y \in Items(q) : Before(q, y, x)}
Rank(q, x) == Cardinality(Ahead(q, x))
Alone(q, x) == \A y \in Items(q) \ {x} : Place(q, y) # Place(q, x)

LEMMA RankOf ==
  ASSUME DataInv, EventsOK, NEW q, q.kind \in Listings, NEW x \in Items(q)
  PROVE  /\ IsFiniteSet(Ahead(q, x)) /\ x \notin Ahead(q, x)
         /\ Rank(q, x) \in Nat /\ Cardinality(Items(q)) \in Nat
         /\ Rank(q, x) < Cardinality(Items(q))
<1>1. IsFiniteSet(Items(q)) /\ Ahead(q, x) \in SUBSET Items(q)
  BY ItemsAreFinite DEF Ahead
<1>2. x \notin Ahead(q, x)
  BY PlacesCompare, BeforeIsLess, NotBeforeItself DEF Ahead
<1>3. IsFiniteSet(Ahead(q, x)) /\ Cardinality(Ahead(q, x)) <= Cardinality(Items(q))
      /\ Cardinality(Items(q)) # Cardinality(Ahead(q, x))
  BY <1>1, <1>2, FS_Subset
<1>4. Cardinality(Ahead(q, x)) \in Nat /\ Cardinality(Items(q)) \in Nat
  BY <1>1, <1>3, FS_CardinalityType
<1> QED
  BY <1>2, <1>3, <1>4 DEF Rank

\* The first n items, if there are as many.
LEMMA FirstOnes ==
  ASSUME DataInv, EventsOK, NEW q, q.kind \in Listings, NEW n \in Nat,
         NEW S \in FirstRows(q, Min({n, Cardinality(Items(q))})), NEW x \in Items(q)
  PROVE  /\ S \in SUBSET Items(q) /\ \A y \in S, z \in Items(q) \ S : ~Before(q, z, y)
         /\ x \in S => Rank(q, x) < n
         /\ x \notin S /\ Alone(q, x) => n <= Rank(q, x)
<1>1. PICK N : N = Cardinality(Items(q)) /\ N \in Nat
  BY RankOf
<1>2. PICK m : m = Min({n, N}) /\ m \in {n, N} /\ m <= n /\ m <= N
  <2>1. {n, N} \subseteq Nat
    BY <1>1
  <2> QED
    BY <2>1, Least
<1>3. /\ S \in SUBSET Items(q) /\ Cardinality(S) = m
      /\ \A y \in S, z \in Items(q) \ S : ~Before(q, z, y)
  <2>1. S \in FirstRows(q, m)
    BY <1>1, <1>2
  <2> QED
    BY <2>1 DEF FirstRows, kSubset
<1>4. IsFiniteSet(S)
  BY <1>3, ItemsAreFinite, FS_Subset
<1>5. ASSUME x \in S
      PROVE  Rank(q, x) < n
  <2>1. Ahead(q, x) \in SUBSET S /\ Ahead(q, x) # S
    BY <1>3, <1>5, RankOf DEF Ahead
  <2>2. Cardinality(Ahead(q, x)) <= m /\ Cardinality(Ahead(q, x)) # m
    BY <1>3, <1>4, <2>1, FS_Subset
  <2>3. Rank(q, x) \in Nat
    BY RankOf
  <2> QED
    BY <1>1, <1>2, <2>2, <2>3 DEF Rank
<1>6. ASSUME x \notin S, Alone(q, x)
      PROVE  n <= Rank(q, x)
  <2>1. S \in SUBSET Ahead(q, x)
    <3>1. SUFFICES ASSUME NEW y \in S PROVE y \in Ahead(q, x)
      OBVIOUS
    <3>2. y \in Items(q) /\ Place(q, y) # Place(q, x) /\ ~Before(q, x, y)
      BY <1>3, <1>6, <3>1 DEF Alone
    <3>3. PICK k \in Nat : Place(q, x) \in [1..k -> Int] /\ Place(q, y) \in [1..k -> Int]
      BY <3>2, PlacesCompare
    <3>4. Before(q, y, x)
      BY <3>2, <3>3, BeforeIsLess, PlacesDiffer
    <3> QED
      BY <3>2, <3>4 DEF Ahead
  <2>2. Cardinality(S) <= Cardinality(Ahead(q, x))
    BY <2>1, RankOf, FS_Subset
  <2>3. m <= Rank(q, x) /\ Rank(q, x) \in Nat /\ Rank(q, x) < N
    BY <1>1, <1>3, <2>2, RankOf DEF Rank
  <2> QED
    BY <1>1, <1>2, <2>3
<1> QED
  BY <1>3, <1>5, <1>6

\* A page has every item whose rank it is for and whose place is its own.
LEMMA OnThePage ==
  ASSUME DataInv, EventsOK, NEW q, q.kind \in Listings, NEW offset \in Nat,
         NEW rows \in Pages(q, offset), NEW x \in Items(q), Alone(q, x), offset <= Rank(q, x)
  PROVE  x \in rows \/ offset + PageSize <= Rank(q, x)
<1>1. PICK S \in FirstRows(q, Min({offset + PageSize, Cardinality(Items(q))})),
           T \in FirstRows(q, Min({offset, Cardinality(Items(q))})) : rows = S \ T
  BY DEF Pages
<1>2. offset + PageSize \in Nat
  BY BrowseAssumption
<1>3. x \notin T
  <2>1. x \in T => Rank(q, x) < offset
    BY <1>1, FirstOnes
  <2>2. Rank(q, x) \in Nat
    BY RankOf
  <2> QED
    BY <2>1, <2>2
<1>4. x \notin S => offset + PageSize <= Rank(q, x)
  BY <1>1, <1>2, FirstOnes
<1> QED
  BY <1>1, <1>3, <1>4


\* Each item that has its place to itself has been seen, or is not before the page that
\* comes next.
Paged(q, page, start, seen) ==
  \A x \in start : Alone(q, x) => x \in seen \/ (page - 1) * PageSize <= Rank(q, x)
AllSeen(q, start, seen) == \A x \in start : Alone(q, x) => x \in seen

ListOK ==
  \A q, todo, page, total, start, seen :
    /\ req # None /\ req.q = q /\ req.todo = todo /\ req.page = page /\ req.total = total
    /\ req.start = start /\ req.seen = seen /\ q.kind \in Listings
    => /\ req.status = None =>
            /\ page \in Nat \ {0} /\ (todo = <<"count", "rows">> \/ todo = <<"rows">>)
            /\ ~req.disturbed => /\ Paged(q, page, start, seen)
                                 /\ todo = <<"rows">> => total = Cardinality(Items(q))
       /\ req.status = 200 /\ ~req.disturbed => AllSeen(q, start, seen)

LEMMA Heads ==
  /\ Head(<<"count", "rows">>) = "count" /\ Tail(<<"count", "rows">>) = <<"rows">>
  /\ Len(<<"count", "rows">>) = 2
  /\ Head(<<"rows">>) = "rows" /\ Len(<<"rows">>) = 1
OBVIOUS

LEMMA NextPage ==
  ASSUME NEW page \in Nat \ {0}
  PROVE  /\ (page - 1) * PageSize \in Nat /\ page * PageSize \in Nat
         /\ page * PageSize = (page - 1) * PageSize + PageSize
<1>1. PageSize \in Nat
  BY BrowseAssumption
<1> QED
  BY <1>1

\* After a page.
LEMMA PageSeen ==
  ASSUME DataInv, EventsOK, NEW q, q.kind \in Listings, NEW page \in Nat \ {0},
         NEW start \in SUBSET Items(q), NEW seen, Paged(q, page, start, seen),
         NEW rows \in Pages(q, (page - 1) * PageSize)
  PROVE  /\ Paged(q, page + 1, start, seen \cup rows)
         /\ Cardinality(Items(q)) <= page * PageSize => AllSeen(q, start, seen \cup rows)
<1>1. PICK offset \in Nat : offset = (page - 1) * PageSize /\ page * PageSize = offset + PageSize
  BY NextPage
<1>2. ASSUME NEW x \in start, Alone(q, x), x \notin seen \cup rows
      PROVE  page * PageSize <= Rank(q, x)
  <2>1. offset <= Rank(q, x)
    BY <1>1, <1>2 DEF Paged
  <2>2. x \in rows \/ offset + PageSize <= Rank(q, x)
    BY <1>1, <1>2, <2>1, OnThePage
  <2> QED
    BY <1>1, <1>2, <2>2
<1>3. (page + 1) - 1 = page
  OBVIOUS
<1>4. Paged(q, page + 1, start, seen \cup rows)
  BY <1>2, <1>3 DEF Paged
<1>5. ASSUME Cardinality(Items(q)) <= page * PageSize, NEW x \in start, Alone(q, x)
      PROVE  x \in seen \cup rows
  <2>1. SUFFICES ASSUME x \notin seen \cup rows PROVE FALSE
    OBVIOUS
  <2>2. page * PageSize <= Rank(q, x)
    BY <1>2, <1>5, <2>1
  <2>3. PICK a, b, c : a = Cardinality(Items(q)) /\ b = page * PageSize /\ c = Rank(q, x)
    OBVIOUS
  <2>4. a \in Nat /\ b \in Nat /\ c \in Nat /\ c < a
    BY <1>5, <2>3, RankOf, NextPage
  <2>5. a <= b /\ b <= c
    BY <1>5, <2>2, <2>3
  <2> QED
    BY <2>4, <2>5
<1> QED
  BY <1>4, <1>5 DEF AllSeen

LEMMA FiniteAfter ==
  ASSUME NEW q, NEW x
  PROVE  (DataInv /\ EventsOK /\ q.kind \in Listings /\ x \in Items(q)
            => IsFiniteSet(Ahead(q, x)) /\ Rank(q, x) \in Nat)'
<1>1. DataInv /\ EventsOK /\ q.kind \in Listings /\ x \in Items(q)
        => IsFiniteSet(Ahead(q, x)) /\ Rank(q, x) \in Nat
  BY RankOf
<1> QED
  BY <1>1, PTL

\* A load that takes nothing away and moves nothing.
LEMMA PagedStays ==
  ASSUME DataInv, EventsOK, DataInv', EventsOK', NEW q, q.kind \in Listings, NEW todo, ~Disturbs(q, todo),
         NEW page, NEW start \in SUBSET Items(q), NEW seen, page \in Nat \ {0}, Paged(q, page, start, seen)
  PROVE  Paged(q, page, start, seen)'
<1>1. Shown(q) = Items(q) /\ Shown(q)' = Items(q)'
  BY DEF Shown, Listings
<1>2. Items(q) \subseteq Items(q)'
  BY <1>1 DEF Disturbs
<1>3. \A x \in Items(q) : Place(q, x)' = Place(q, x)
  <2>1. CASE q.kind = "browse"
    BY <1>1, <2>1 DEF Disturbs
  <2>2. CASE q.kind = "history"
    BY <2>2 DEF Place
  <2>3. CASE q.kind = "newhams"
    BY <2>3 DEF Place
  <2> QED
    BY <2>1, <2>2, <2>3 DEF Listings
<1>4. ASSUME NEW x \in Items(q), Alone(q, x)'
      PROVE  Alone(q, x)
  BY <1>2, <1>3, <1>4 DEF Alone
<1>5. ASSUME NEW x \in Items(q)
      PROVE  Rank(q, x) <= Rank(q, x)' /\ Rank(q, x) \in Nat /\ Rank(q, x)' \in Nat
  <2>1. x \in Items(q)'
    BY <1>2
  <2>2. Ahead(q, x) \in SUBSET Ahead(q, x)'
    <3>1. SUFFICES ASSUME NEW y \in Items(q), Before(q, y, x)
                   PROVE  y \in Items(q)' /\ Before(q, y, x)'
      BY DEF Ahead
    <3>2. Before(q, y, x)' <=> Less(Place(q, y)', Place(q, x)')
      BY DEF Before, Less
    <3>3. Before(q, y, x) <=> Less(Place(q, y), Place(q, x))
      BY BeforeIsLess
    <3> QED
      BY <1>2, <1>3, <1>5, <3>1, <3>2, <3>3
  <2>3. IsFiniteSet(Ahead(q, x)') /\ Rank(q, x)' \in Nat
    BY <2>1, FiniteAfter
  <2>4. Rank(q, x) \in Nat
    BY RankOf
  <2>5. Cardinality(Ahead(q, x)) <= Cardinality(Ahead(q, x)')
    BY <2>2, <2>3, FS_Subset
  <2> QED
    BY <2>3, <2>4, <2>5 DEF Rank
<1>6. SUFFICES ASSUME NEW x \in start, Alone(q, x)', x \notin seen
               PROVE  (page - 1) * PageSize <= Rank(q, x)'
  BY DEF Paged
<1>7. (page - 1) * PageSize <= Rank(q, x)
  BY <1>4, <1>6 DEF Paged
<1>8. (page - 1) * PageSize \in Nat
  BY NextPage
<1> QED
  BY <1>5, <1>6, <1>7, <1>8


LEMMA ListSame ==
  ASSUME UNCHANGED loadVars, NEW q, NEW page, NEW start, NEW seen
  PROVE  /\ Items(q)' = Items(q)
         /\ Paged(q, page, start, seen)' <=> Paged(q, page, start, seen)
         /\ AllSeen(q, start, seen)' <=> AllSeen(q, start, seen)
<1>1. Items(q)' = Items(q) /\ \A x : Place(q, x)' = Place(q, x)
  BY ShownSame
<1>2. \A x, y : Before(q, x, y)' <=> Before(q, x, y)
  <2>1. SUFFICES ASSUME NEW x, NEW y PROVE Before(q, x, y)' <=> Before(q, x, y)
    OBVIOUS
  <2>2. Before(q, x, y)' <=> Less(Place(q, x)', Place(q, y)')
    BY DEF Before, Less
  <2> QED
    BY <1>1, <2>2, BeforeIsLess
<1>3. \A x : Rank(q, x)' = Rank(q, x)
  <2>1. SUFFICES ASSUME NEW x PROVE Rank(q, x)' = Rank(q, x)
    OBVIOUS
  <2>2. Ahead(q, x)' = Ahead(q, x)
    BY <1>1, <1>2 DEF Ahead
  <2> QED
    BY <2>2 DEF Rank
<1>4. \A x : Alone(q, x)' <=> Alone(q, x)
  BY <1>1 DEF Alone
<1> QED
  BY <1>1, <1>3, <1>4 DEF Paged, AllSeen

\* What ListOK says of one request.
ListOf(q, todo, page, total, start, seen, status, quiet) ==
  /\ status = None =>
       /\ page \in Nat \ {0} /\ (todo = <<"count", "rows">> \/ todo = <<"rows">>)
       /\ quiet = 1 => /\ Paged(q, page, start, seen)
                       /\ todo = <<"rows">> => total = Cardinality(Items(q))
  /\ status = 200 /\ quiet = 1 => AllSeen(q, start, seen)

LEMMA ListAnswer ==
  ASSUME DataInv, EventsOK, ReqOK, Undisturbed, ListOK, Answer, UNCHANGED loadVars,
         NEW q, NEW todo, NEW page, NEW total, NEW start, NEW seen, NEW status, NEW quiet,
         req' # None, req'.q = q, req'.todo = todo, req'.page = page, req'.total = total,
         req'.start = start, req'.seen = seen, q.kind \in Listings, req'.status = status,
         quiet = IF req'.disturbed THEN 0 ELSE 1
  PROVE  ListOf(q, todo, page, total, start, seen, status, quiet)
<1>1. None \notin {200, 400, 404, 500}
  BY BrowseAssumption
<1>2. CASE FromClient
  <2>1. PICK r, n : (n = None \/ n = 400) /\ Asked(req', r, FALSE, n)
    BY <1>2 DEF FromClient
  <2>2. /\ r = q /\ status # 200 /\ todo = Statements(q) /\ start = Shown(q)
        /\ seen = {} /\ page = 1
    BY <1>1, <2>1 DEF Asked
  <2>3. todo = <<"count", "rows">> /\ start = Items(q)
    BY <2>2 DEF Statements, Shown, Listings
  <2>4. Paged(q, 1, start, seen)
    <3>1. SUFFICES ASSUME NEW x \in Items(q) PROVE (1 - 1) * PageSize <= Rank(q, x)
      BY <2>3 DEF Paged
    <3>2. Rank(q, x) \in Nat /\ PageSize \in Nat
      BY RankOf, BrowseAssumption
    <3> QED
      BY <3>2
  <2> QED
    BY <2>2, <2>3, <2>4, Heads DEF ListOf
<1>3. CASE FromSearch
  BY <1>3 DEF FromSearch, Asked, Listings
<1>4. CASE req # None /\ req.status = None /\ GoesOn(req, req')
  <2>1. IsRequest(req) /\ req.q = q /\ req.start = start
    BY <1>4 DEF GoesOn, ReqOK
  <2>2. PICK todo0, page0, total0, seen0 :
          req.todo = todo0 /\ req.page = page0 /\ req.total = total0 /\ req.seen = seen0
    OBVIOUS
  <2>3. /\ page0 \in Nat \ {0} /\ (todo0 = <<"count", "rows">> \/ todo0 = <<"rows">>)
        /\ quiet = 1 => /\ Paged(q, page0, start, seen0)
                        /\ todo0 = <<"rows">> => total0 = Cardinality(Items(q))
    <3>1. quiet = 1 => ~req.disturbed
      BY <1>4 DEF GoesOn
    <3> QED
      BY <1>4, <2>1, <2>2, <3>1 DEF ListOK
  <2>4. quiet = 1 => start \in SUBSET Items(q)
    <3>1. quiet = 1 => ~req.disturbed
      BY <1>4 DEF GoesOn
    <3>2. Shown(q) = Items(q)
      BY DEF Shown, Listings
    <3> QED
      BY <1>4, <2>1, <3>1, <3>2 DEF Undisturbed
  <2>5. PICK h : h = Head(todo0) /\ (h = "count" \/ h = "rows")
    BY <2>3, Heads
  <2>6. CASE Count
    <3>1. /\ Head(todo0) = "count" /\ todo = Tail(todo0) /\ status = None
          /\ total = Cardinality(Items(q)) /\ page = page0 /\ seen = seen0
      BY <2>1, <2>2, <2>6, CountEffect
    <3>2. todo = <<"rows">>
      BY <2>3, <3>1, Heads
    <3>3. page \in Nat \ {0} /\ (quiet = 1 => Paged(q, page, start, seen))
      BY <2>3, <3>1
    <3>4. status = None /\ None # 200 /\ total = Cardinality(Items(q))
      BY <1>1, <3>1
    <3> QED
      BY <3>2, <3>3, <3>4, Zenon DEF ListOf
  <2>7. CASE ReadPage
    <3>1. /\ Head(todo0) = "rows" /\ total = total0
          /\ \E rows \in Pages(q, (page0 - 1) * PageSize) : seen = seen0 \cup rows
          /\ IF page0 * PageSize < total0
               THEN page = page0 + 1 /\ todo = Statements(q) /\ status = None
             ELSE page = page0 /\ todo = todo0 /\ status = 200
      BY <2>1, <2>2, <2>7, PageEffect
    <3>2. PICK rows \in Pages(q, (page0 - 1) * PageSize) : seen = seen0 \cup rows
      BY <3>1
    <3>3. todo0 = <<"rows">>
      BY <2>3, <3>1, Heads
    <3>4. quiet = 1 => /\ Paged(q, page0 + 1, start, seen)
                       /\ Cardinality(Items(q)) <= page0 * PageSize => AllSeen(q, start, seen)
      BY <2>3, <2>4, <3>2, PageSeen
    <3>5. CASE page0 * PageSize < total0
      <4>1. page = page0 + 1 /\ todo = <<"count", "rows">> /\ status = None
        BY <3>1, <3>5 DEF Statements, Listings
      <4>2. page \in Nat \ {0} /\ todo # <<"rows">>
        BY <2>3, <4>1, Heads
      <4> QED
        BY <1>1, <3>4, <4>1, <4>2 DEF ListOf
    <3>6. CASE ~(page0 * PageSize < total0)
      <4>1. status = 200 /\ status # None
        BY <1>1, <3>1, <3>6
      <4>2. ASSUME quiet = 1
            PROVE  AllSeen(q, start, seen)
        <5>1. total0 = Cardinality(Items(q)) /\ Cardinality(Items(q)) \in Nat
          BY <2>3, <3>3, <4>2, ItemsAreFinite, FS_CardinalityType
        <5>2. page0 * PageSize \in Nat
          BY <2>3, NextPage
        <5>3. Cardinality(Items(q)) <= page0 * PageSize
          BY <3>6, <5>1, <5>2
        <5> QED
          BY <3>4, <4>2, <5>3
      <4> QED
        BY <4>1, <4>2 DEF ListOf
    <3> QED
      BY <3>5, <3>6
  <2>8. Count \/ ReadPage
    BY <1>4, <2>2, <2>5 DEF Answer, Begin, Search, ByFrn, ToolWhere, ResolveHolder, ReadHeader,
       ReadRegistration, ReadEntity, ReadChanges, ReadRelated, Close, Turn
  <2> QED
    BY <2>6, <2>7, <2>8
<1> QED
  BY <1>2, <1>3, <1>4, AnswerEffect

LEMMA ListsAlways == Spec => []ListOK
<1>1. Init => ListOK
  BY DEF Init, ListOK
<1>2. ASSUME DataInv, EventsOK, DataInv', EventsOK', ReqOK, Undisturbed, ListOK, [Next]_vars
      PROVE  ListOK'
  <2>1. SUFFICES ASSUME NEW q, NEW todo, NEW page, NEW total, NEW start, NEW seen, NEW status, NEW quiet,
                        req' # None, req'.q = q, req'.todo = todo, req'.page = page, req'.total = total,
                        req'.start = start, req'.seen = seen, q.kind \in Listings, req'.status = status,
                        quiet = IF req'.disturbed THEN 0 ELSE 1
                 PROVE  ListOf(q, todo, page, total, start, seen, status, quiet)'
    BY DEF ListOK, ListOf
  <2>2. CASE Answer /\ UNCHANGED loadVars
    <3>1. ListOf(q, todo, page, total, start, seen, status, quiet)
      BY <1>2, <2>1, <2>2, ListAnswer
    <3> QED
      BY <2>2, <3>1, ListSame DEF ListOf
  <2>3. CASE LoadStep
    <3>1. req # None
      BY <2>1, <2>3 DEF LoadStep
    <3>2. PICK r, rest : /\ req'.q = req.q /\ req'.start = req.start /\ req'.todo = req.todo
                         /\ req'.page = req.page /\ req'.total = req.total /\ req'.seen = req.seen
                         /\ req'.status = req.status /\ req.status = None
                         /\ r = req.q /\ rest = req.todo
                         /\ req'.disturbed = (req.disturbed \/ Disturbs(r, rest))
      BY <1>2, <2>3, <3>1, LoadUnder
    <3>3. r = q /\ rest = todo
      BY <2>1, <3>2
    <3>4. page \in Nat \ {0} /\ (todo = <<"count", "rows">> \/ todo = <<"rows">>)
      BY <1>2, <2>1, <3>1, <3>2 DEF ListOK
    <3>5. ASSUME quiet = 1
          PROVE  /\ Paged(q, page, start, seen)'
                 /\ todo = <<"rows">> => total = Cardinality(Items(q)')
      <4>1. ~req'.disturbed
        BY <2>1, <3>5
      <4>2. ~req.disturbed /\ ~Disturbs(r, rest)
        BY <3>2, <4>1
      <4>3. ~Disturbs(q, todo)
        BY <3>3, <4>2
      <4>4. Paged(q, page, start, seen) /\ (todo = <<"rows">> => total = Cardinality(Items(q)))
        BY <1>2, <2>1, <3>1, <3>2, <4>2 DEF ListOK
      <4>5. Shown(q) = Items(q) /\ Shown(q)' = Items(q)'
        BY <2>1 DEF Shown, Listings
      <4>6. start \in SUBSET Items(q)
        BY <1>2, <2>1, <3>1, <3>2, <4>2, <4>5 DEF Undisturbed
      <4>7. Paged(q, page, start, seen)'
        BY <1>2, <2>1, <3>4, <4>3, <4>4, <4>6, PagedStays
      <4>8. todo = <<"rows">> => Items(q)' = Items(q)
        BY <4>3, <4>5 DEF Disturbs
      <4> QED
        BY <4>4, <4>7, <4>8
    <3>6. status = None /\ None # 200
      BY <2>1, <3>2, BrowseAssumption
    <3> QED
      BY <3>4, <3>5, <3>6 DEF ListOf
  <2>4. CASE UNCHANGED vars
    <3>1. req' = req /\ UNCHANGED loadVars
      BY <2>4 DEF vars
    <3>2. ListOf(q, todo, page, total, start, seen, status, quiet)
      BY <1>2, <2>1, <3>1 DEF ListOK, ListOf
    <3> QED
      BY <3>1, <3>2, ListSame DEF ListOf
  <2> QED
    BY <1>2, <2>2, <2>3, <2>4, NothingElse
<1> QED
  BY <1>1, <1>2, DataAlways, EventsAlways, RequestsAlways, UndisturbedAlways, PTL DEF Spec

\* pagination.py: a client that pages through a listing to its end has seen everything
\* that was there when it began and has its place to itself, if no commit came between
\* a count and its rows or took away or moved what it lists; however much is added.
THEOREM NothingMissedAlways == Spec => []NothingMissed
<1>1. ASSUME ListOK
      PROVE  NothingMissed
  <2>1. SUFFICES ASSUME NEW kind \in {"browse", "history", "newhams"}, Answered(kind), ~req.disturbed,
                        NEW x \in req.start,
                        \A y \in Items(req.q) \ {x} : Place(req.q, y) # Place(req.q, x)
                 PROVE  x \in req.seen
    BY DEF NothingMissed
  <2>2. PICK q, start, seen : q = req.q /\ start = req.start /\ seen = req.seen
    OBVIOUS
  <2>3. q.kind \in Listings /\ req # None /\ req.status = 200
    BY <2>1, <2>2 DEF Answered, Listings
  <2>4. AllSeen(q, start, seen)
    BY <1>1, <2>1, <2>2, <2>3 DEF ListOK
  <2>5. x \in start /\ Alone(q, x)
    BY <2>1, <2>2 DEF Alone
  <2> QED
    BY <2>2, <2>4, <2>5 DEF AllSeen
<1> QED
  BY <1>1, ListsAlways, PTL

==============================================================================
