-------------------------------- MODULE Notifier --------------------------------
(***************************************************************************)
(* From a change event to a message: notifier/app/matcher.py and           *)
(* dispatch.py (the loop that records deliveries and enqueues one RQ job   *)
(* each) and jobs.py (the workers that send them), while the ingestor      *)
(* commits events, users and admins create, edit and delete watches and    *)
(* channels, and any process may die between two statements.               *)
(*                                                                         *)
(* Every notifier connection is in autocommit mode (db.py), so each        *)
(* statement is a step.  Row ids are never reused (BIGSERIAL).  Redis/RQ   *)
(* is external: a job is dequeued by one worker and forgotten when it      *)
(* returns; a job that raises, or whose worker dies, is put in RQ's        *)
(* registry of scheduled jobs (Retry(max=3, interval=...)), out of which   *)
(* only a worker run with a scheduler, as worker.py's is not, takes it.    *)
(***************************************************************************)
EXTENDS Integers

CONSTANTS
  Dispatchers, Workers,  \* processes running dispatch.run_once / worker.work
  WatchIds, Events, Channels,
  Owner,        \* Owner[c]: the user whose channel c is
  EventRow,     \* EventRow[e]: the columns of e the matcher reads
  Forms,        \* the watch rows create_watch can be asked for
  Senderless,   \* channels whose channel_type is not in SENDERS
  MaxAttempts,  \* settings.max_delivery_attempts
  MaxEdits,     \* bound: edits of watches and deletions of rows
  MaxFaults,    \* bound: crashes and unreachable servers
  None          \* SQL NULL

Id       == WatchIds \X Events
Delivery == [status : {"pending", "sent", "failed"}, attempts : Nat]
WatchRow == [user : {Owner[c] : c \in Channels}, type : {f.type : f \in Forms},
             value : {f.value : f \in Forms}, service : {f.service : f \in Forms},
             active : BOOLEAN, channel : Channels]

ASSUME NotifierAssumption ==
  /\ MaxAttempts \in Nat \ {0}
  /\ MaxEdits \in Nat /\ MaxFaults \in Nat
  /\ Senderless \subseteq Channels
  /\ Dispatchers \cap Workers = {}
  /\ None \notin Id /\ None \notin Delivery /\ None \notin WatchRow

VARIABLES
  events,      \* committed change_events
  channels,    \* notification_channels
  watch,       \* watches: a row, or None if not created yet or deleted
  deliveries,  \* notification_deliveries, or None
  queue,       \* jobs waiting in the RQ queue, per delivery
  scheduled,   \* jobs in RQ's scheduled registry
  dpc, found, made,  \* dispatchers: place, matches to insert, ids to enqueue
  wpc, wid,    \* workers: place, delivery being sent
  arrived,     \* messages that reached the recipient, per delivery
  gone,        \* watches deleted
  edits, faults

tables  == <<events, channels, watch, gone>>
rq      == <<queue, scheduled>>
disp    == <<dpc, found, made>>
work    == <<wpc, wid>>
vars    == <<tables, deliveries, rq, disp, work, arrived, edits, faults>>

--------------------------------------------------------------------------------
\* _MATCH_SQL's join condition; a comparison with NULL is not true.
Same(v, col) == col # None /\ v = col
Subject(w, e) ==
  \/ w.type \in {"callsign", "asr_registration_number"} /\ Same(w.value, e.key)
  \/ w.type = "uls_id" /\ Same(w.value, e.uls)
  \/ w.type = "frn" /\ Same(w.value, e.frn)
InScope(w, e) == w.service = None \/ Same(w.service, e.service)

Matches(id) ==
  /\ watch[id[1]] # None /\ id[2] \in events
  /\ watch[id[1]].active
  /\ Subject(watch[id[1]], EventRow[id[2]])
  /\ InScope(watch[id[1]], EventRow[id[2]])

\* (Mutant: an event that has any delivery is taken for dealt with.)
NewMatchesByEvent ==
  {id \in Id : Matches(id) /\ \A w \in WatchIds : deliveries[<<w, id[2]>>] = None}

NewMatches == {id \in Id : Matches(id) /\ deliveries[id] = None}

Init ==
  /\ events = {} /\ channels = Channels /\ gone = {}
  /\ watch = [w \in WatchIds |-> None]
  /\ deliveries = [id \in Id |-> None]
  /\ queue = [id \in Id |-> 0] /\ scheduled = queue
  /\ dpc = [d \in Dispatchers |-> "idle"]
  /\ found = [d \in Dispatchers |-> {}] /\ made = found
  /\ wpc = [w \in Workers |-> "idle"] /\ wid = [w \in Workers |-> None]
  /\ arrived = queue
  /\ edits = 0 /\ faults = 0

Fault == faults < MaxFaults /\ faults' = faults + 1
Edit  == edits < MaxEdits /\ edits' = edits + 1

--------------------------------------------------------------------------------
(* The ingestor, the users and the admin.                                  *)

CommitEvent(e) ==
  /\ e \notin events
  /\ events' = events \cup {e}
  /\ UNCHANGED <<channels, watch, gone, deliveries, rq, disp, work, arrived, edits, faults>>

\* UNIQUE (user_id, subject_type, subject_value, channel_id)
Unique(w, row) ==
  \A v \in WatchIds \ {w} :
    watch[v] # None =>
      \/ watch[v].user # row.user \/ watch[v].channel # row.channel
      \/ watch[v].type # row.type \/ watch[v].value # row.value

\* create_watch: the channel must be one of the user's.
CreateWatch(w, form, c) ==
  LET row == [user |-> Owner[c], type |-> form.type, value |-> form.value,
              service |-> form.service, active |-> TRUE, channel |-> c]
  IN
  /\ watch[w] = None /\ w \notin gone /\ c \in channels
  /\ Unique(w, row)
  /\ watch' = [watch EXCEPT ![w] = row]
  /\ UNCHANGED <<events, channels, gone, deliveries, rq, disp, work, arrived, edits, faults>>

\* admin.update_watch; any channel will do, also another user's.
UpdateWatch(w, value, active, c) ==
  LET row == [watch[w] EXCEPT !.value = value, !.active = active, !.channel = c]
  IN
  /\ watch[w] # None /\ c \in channels /\ Edit
  /\ Unique(w, row)
  /\ watch' = [watch EXCEPT ![w] = row]
  /\ UNCHANGED <<events, channels, gone, deliveries, rq, disp, work, arrived, faults>>

\* ON DELETE CASCADE: from a watch to its deliveries, from a channel to its watches.
DeleteWatches(ws) ==
  /\ watch' = [w \in WatchIds |-> IF w \in ws THEN None ELSE watch[w]]
  /\ deliveries' = [id \in Id |-> IF id[1] \in ws THEN None ELSE deliveries[id]]
  /\ gone' = gone \cup ws
  /\ Edit
  /\ UNCHANGED <<events, rq, disp, work, arrived, faults>>
DeleteWatch(w) == watch[w] # None /\ DeleteWatches({w}) /\ UNCHANGED channels
\* (Mutant: no cascade from the channel to its watches.)
DeleteChannelAlone(c) ==
  /\ c \in channels /\ Edit
  /\ channels' = channels \ {c}
  /\ UNCHANGED <<events, watch, gone, deliveries, rq, disp, work, arrived, faults>>
DeleteChannel(c) ==
  /\ c \in channels
  /\ DeleteWatches({w \in WatchIds : watch[w] # None /\ watch[w].channel = c})
  /\ channels' = channels \ {c}

--------------------------------------------------------------------------------
(* dispatch.run_once                                                       *)

\* find_new_matches; finding none changes nothing.
Match(d) ==
  /\ dpc[d] = "idle" /\ NewMatches # {}
  /\ dpc' = [dpc EXCEPT ![d] = "insert"]
  /\ found' = [found EXCEPT ![d] = NewMatches]
  /\ UNCHANGED <<tables, deliveries, rq, made, work, arrived, edits, faults>>

EndRun(d) ==
  /\ dpc' = [dpc EXCEPT ![d] = "idle"]
  /\ found' = [found EXCEPT ![d] = {}]
  /\ made' = [made EXCEPT ![d] = {}]

\* (Mutant: every match is enqueued, not only the rows RETURNING reports.)
InsertEveryMatch(d) ==
  /\ dpc[d] = "insert"
  /\ \E id \in found[d] :
       /\ watch[id[1]] # None
       /\ found' = [found EXCEPT ![d] = @ \ {id}]
       /\ deliveries' = [deliveries EXCEPT ![id] =
                           IF @ = None THEN [status |-> "pending", attempts |-> 0] ELSE @]
       /\ made' = [made EXCEPT ![d] = @ \cup {id}]
  /\ UNCHANGED <<tables, rq, dpc, work, arrived, edits, faults>>

\* (Mutant: an id is collected before its row is inserted, only if rows are left.)
InsertDropsLast(d) ==
  /\ dpc[d] = "insert"
  /\ \E id \in found[d] :
       /\ watch[id[1]] # None /\ deliveries[id] = None
       /\ found' = [found EXCEPT ![d] = @ \ {id}]
       /\ deliveries' = [deliveries EXCEPT ![id] = [status |-> "pending", attempts |-> 0]]
       /\ made' = IF found[d] = {id} THEN made ELSE [made EXCEPT ![d] = @ \cup {id}]
  /\ UNCHANGED <<tables, rq, dpc, work, arrived, edits, faults>>

\* record_pending_deliveries, one INSERT ... ON CONFLICT DO NOTHING RETURNING id.
Insert(d) ==
  /\ dpc[d] = "insert"
  /\ \E id \in found[d] :
       /\ watch[id[1]] # None
       /\ found' = [found EXCEPT ![d] = @ \ {id}]
       /\ IF deliveries[id] = None
            THEN /\ deliveries' = [deliveries EXCEPT ![id] = [status |-> "pending", attempts |-> 0]]
                 /\ made' = [made EXCEPT ![d] = @ \cup {id}]
            ELSE UNCHANGED <<deliveries, made>>
  /\ UNCHANGED <<tables, rq, dpc, work, arrived, edits, faults>>

\* The watch was deleted after the SELECT: the foreign key rejects the INSERT,
\* the exception ends run_once, and `new_ids` is gone with it.
InsertRejected(d) ==
  /\ dpc[d] = "insert"
  /\ \E id \in found[d] : watch[id[1]] = None
  /\ EndRun(d)
  /\ UNCHANGED <<tables, deliveries, rq, work, arrived, edits, faults>>

InsertDone(d) ==
  /\ dpc[d] = "insert" /\ found[d] = {}
  /\ IF made[d] = {} THEN EndRun(d)
                     ELSE dpc' = [dpc EXCEPT ![d] = "enqueue"] /\ UNCHANGED <<found, made>>
  /\ UNCHANGED <<tables, deliveries, rq, work, arrived, edits, faults>>

\* queue.enqueue(send_delivery, id, retry=...), one call per new delivery.
Enqueue(d) ==
  /\ dpc[d] = "enqueue"
  /\ \E id \in made[d] :
       /\ queue' = [queue EXCEPT ![id] = @ + 1]
       /\ IF made[d] = {id} THEN EndRun(d)
                            ELSE made' = [made EXCEPT ![d] = @ \ {id}] /\ UNCHANGED <<dpc, found>>
  /\ UNCHANGED <<tables, deliveries, scheduled, work, arrived, edits, faults>>

\* The process dies, or Postgres or Redis cannot be reached.
DispatcherCrash(d) ==
  /\ dpc[d] # "idle"
  /\ EndRun(d) /\ Fault
  /\ UNCHANGED <<tables, deliveries, rq, work, arrived, edits>>

--------------------------------------------------------------------------------
(* jobs.send_delivery in an RQ worker                                      *)

Dequeue(w) ==
  /\ wpc[w] = "idle"
  /\ \E id \in Id :
       /\ queue[id] > 0
       /\ queue' = [queue EXCEPT ![id] = @ - 1]
       /\ wid' = [wid EXCEPT ![w] = id]
  /\ wpc' = [wpc EXCEPT ![w] = "load"]
  /\ UNCHANGED <<tables, deliveries, scheduled, disp, arrived, edits, faults>>

\* (Mutant: the row is marked sent before the sender runs, so that no one else sends
\* it.)
LoadMarksSent(w) ==
  /\ wpc[w] = "load"
  /\ deliveries' = IF deliveries[wid[w]] = None THEN deliveries
                   ELSE [deliveries EXCEPT ![wid[w]].status = "sent"]
  /\ wpc' = [wpc EXCEPT ![w] = IF deliveries[wid[w]] = None THEN "ack" ELSE "send"]
  /\ UNCHANGED <<tables, rq, disp, wid, arrived, edits, faults>>

\* _LOAD_DELIVERY_SQL; whatever the delivery's status is.
Load(w) ==
  /\ wpc[w] = "load"
  /\ wpc' = [wpc EXCEPT ![w] =
       IF deliveries[wid[w]] = None THEN "ack"
       ELSE IF watch[wid[w][1]].channel \in Senderless THEN "mark_failed"
       ELSE "send"]
  /\ UNCHANGED <<tables, deliveries, rq, disp, wid, arrived, edits, faults>>

\* (Mutant: a sender that raised is called again.)
SendAgain(w) ==
  /\ wpc[w] = "send"
  /\ \E reached, raised \in BOOLEAN :
       /\ reached \/ raised
       /\ arrived' = [arrived EXCEPT ![wid[w]] = IF reached THEN @ + 1 ELSE @]
       /\ wpc' = [wpc EXCEPT ![w] = IF raised THEN "send" ELSE "mark_sent"]
  /\ UNCHANGED <<tables, deliveries, rq, disp, wid, edits, faults>>

\* sender(...) returns, or raises: nothing was delivered, or it was but the
\* answer did not come in time.
Send(w) ==
  /\ wpc[w] = "send"
  /\ \E reached, raised \in BOOLEAN :
       /\ reached \/ raised
       /\ arrived' = [arrived EXCEPT ![wid[w]] = IF reached THEN @ + 1 ELSE @]
       /\ wpc' = [wpc EXCEPT ![w] = IF raised THEN "mark_failed" ELSE "mark_sent"]
  /\ UNCHANGED <<tables, deliveries, rq, disp, wid, edits, faults>>

\* An UPDATE of a deleted row changes nothing.
Update(id, status) ==
  deliveries' = IF deliveries[id] = None THEN deliveries
                ELSE [deliveries EXCEPT ![id] = [status |-> status, attempts |-> @.attempts + 1]]

MarkSent(w) ==
  /\ wpc[w] = "mark_sent"
  /\ Update(wid[w], "sent")
  /\ wpc' = [wpc EXCEPT ![w] = "ack"]
  /\ UNCHANGED <<tables, rq, disp, wid, arrived, edits, faults>>

\* _mark_failed.  It returns normally: for RQ the job succeeded.
MarkFailed(w) ==
  /\ wpc[w] = "mark_failed"
  /\ Update(wid[w], IF deliveries[wid[w]] # None /\ deliveries[wid[w]].attempts + 1 >= MaxAttempts
                    THEN "failed" ELSE "pending")
  /\ wpc' = [wpc EXCEPT ![w] = "ack"]
  /\ UNCHANGED <<tables, rq, disp, wid, arrived, edits, faults>>

\* The job returned; RQ forgets it.
Ack(w) ==
  /\ wpc[w] = "ack"
  /\ wpc' = [wpc EXCEPT ![w] = "idle"]
  /\ wid' = [wid EXCEPT ![w] = None]
  /\ UNCHANGED <<tables, deliveries, rq, disp, arrived, edits, faults>>

\* The worker dies or Postgres cannot be reached: the job raises.
WorkerCrash(w) ==
  /\ wpc[w] # "idle" /\ Fault
  /\ wpc' = [wpc EXCEPT ![w] = "idle"]
  /\ wid' = [wid EXCEPT ![w] = None]
  /\ scheduled' = [scheduled EXCEPT ![wid[w]] = @ + 1]
  /\ UNCHANGED <<tables, deliveries, queue, disp, arrived, edits>>

--------------------------------------------------------------------------------
Dispatch(d) == Match(d) \/ Insert(d) \/ InsertRejected(d) \/ InsertDone(d) \/ Enqueue(d)
Work(w)     == Dequeue(w) \/ Load(w) \/ Send(w) \/ MarkSent(w) \/ MarkFailed(w) \/ Ack(w)

Next ==
  \/ \E e \in Events : CommitEvent(e)
  \/ \E w \in WatchIds, form \in Forms, c \in Channels : CreateWatch(w, form, c)
  \/ \E w \in WatchIds, form \in Forms, active \in BOOLEAN, c \in Channels :
       UpdateWatch(w, form.value, active, c)
  \/ \E w \in WatchIds : DeleteWatch(w)
  \/ \E c \in Channels : DeleteChannel(c)
  \/ \E d \in Dispatchers : Dispatch(d) \/ DispatcherCrash(d)
  \/ \E w \in Workers : Work(w) \/ WorkerCrash(w)

Spec == Init /\ [][Next]_vars

\* The dispatch loop and the workers go on (compose: restart: unless-stopped).
Fairness ==
  /\ \A d \in Dispatchers : WF_vars(Dispatch(d))
  /\ \A w \in Workers : WF_vars(Work(w))

FairSpec == Spec /\ Fairness

--------------------------------------------------------------------------------
(* Properties.                                                             *)

\* The shape of the tables, of RQ's registries and of the processes' locals.
TypeOK ==
  /\ events \subseteq Events /\ channels \subseteq Channels /\ gone \subseteq WatchIds
  /\ watch \in [WatchIds -> WatchRow \cup {None}]
  /\ \A w \in WatchIds : watch[w] # None => watch[w].channel \in channels
  /\ deliveries \in [Id -> Delivery \cup {None}]
  /\ queue \in [Id -> Nat] /\ scheduled \in [Id -> Nat] /\ arrived \in [Id -> Nat]
  /\ dpc \in [Dispatchers -> {"idle", "insert", "enqueue"}]
  /\ found \in [Dispatchers -> SUBSET Id] /\ made \in [Dispatchers -> SUBSET Id]
  /\ wpc \in [Workers -> {"idle", "load", "send", "mark_sent", "mark_failed", "ack"}]
  /\ wid \in [Workers -> Id \cup {None}]

Carriers(id) == {d \in Dispatchers : id \in made[d]} \cup {w \in Workers : wid[w] = id}

\* A delivery never has two jobs, wherever they are: "two dispatch runs racing each
\* other cannot double-send" (architecture.md section 6; the matcher's anti-join,
\* the unique constraint and RETURNING together), with crashes and deletions.
OneJob ==
  \A id \in Id :
    /\ queue[id] + scheduled[id] <= 1
    /\ queue[id] + scheduled[id] = 1 => Carriers(id) = {}
    /\ \A x, y \in Carriers(id) : x = y

\* No message is ever sent twice, whatever dies when.
AtMostOnce == \A id \in Id : arrived[id] <= 1

\* A delivery marked sent was delivered, though another worker's run of the job,
\* the deletion of the watch or a late answer may have come between.
SentArrived ==
  \A id \in Id : deliveries[id] # None /\ deliveries[id].status = "sent" => arrived[id] > 0

\* The anti-join looks at pairs, not at a high-water mark: no event, in whatever
\* order the ingestor commits it, is passed over for a watch that matches it.
EveryMatchRecorded ==
  \A id \in Id : Matches(id) ~> deliveries[id] # None \/ ~Matches(id)

HasJob(id) == queue[id] + scheduled[id] > 0 \/ Carriers(id) # {}

\* dispatch.py: "enqueue jobs for newly created deliveries": a delivery nobody has
\* tried yet has a job, or is about to, unless a process died or a watch was deleted
\* under a running dispatcher (whose INSERT the foreign key then rejects).
NewHasJob ==
  \A id \in Id :
    deliveries[id] # None /\ deliveries[id].status = "pending" /\ deliveries[id].attempts = 0
      => HasJob(id) \/ faults > 0 \/ gone # {}

\* architecture.md section 7: a failed send is retried until the delivery is sent or
\* MAX_DELIVERY_ATTEMPTS make it failed.
PendingEnds ==
  \A id \in Id :
    deliveries[id] # None /\ deliveries[id].status = "pending"
      ~> deliveries[id] = None \/ deliveries[id].status # "pending"
================================================================================
