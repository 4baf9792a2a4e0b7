---------------------------- MODULE Notifier_proofs ----------------------------
(***************************************************************************)
(* Proofs about Notifier, for any number of dispatchers, workers, watches, *)
(* events, edits and faults: a delivery never has two jobs (OneJobAlways), *)
(* no message is sent twice (AtMostOnceAlways), and a delivery marked sent *)
(* was delivered (SentArrivedAlways).                                      *)
(*                                                                         *)
(* A job is born only with its delivery row, and a row only for a watch    *)
(* that exists and never had one for this event.  Inv therefore carries    *)
(* Fresh: a delivery that does not exist, of a watch that was not deleted, *)
(* has no job and no message.  From there on its one job is passed from    *)
(* hand to hand.  TypeCorrect and NewHasJobAlways stand on Inv.            *)
(***************************************************************************)
EXTENDS Notifier, TLAPS

Typed ==
  /\ deliveries \in [Id -> Delivery \cup {None}]
  /\ queue \in [Id -> Nat] /\ scheduled \in [Id -> Nat] /\ arrived \in [Id -> Nat]
  /\ made \in [Dispatchers -> SUBSET Id] /\ found \in [Dispatchers -> SUBSET Id]
  /\ wpc \in [Workers -> {"idle", "load", "send", "mark_sent", "mark_failed", "ack"}]
  /\ wid \in [Workers -> Id \cup {None}]
  /\ \A w \in Workers : wpc[w] # "idle" => wid[w] \in Id

\* Deleted watches are gone.
GoneInv ==
  /\ watch = [w \in WatchIds |-> watch[w]]
  /\ gone \subseteq WatchIds
  /\ \A w \in gone : watch[w] = None

NoCarrier(id) == (\A d \in Dispatchers : id \notin made[d]) /\ (\A w \in Workers : wid[w] # id)

\* A delivery that never was has no job and no message.
Fresh(id) ==
  id[1] \notin gone /\ deliveries[id] = None =>
    queue[id] = 0 /\ scheduled[id] = 0 /\ arrived[id] = 0 /\ NoCarrier(id)

\* At most one job, in one place.
Single(id) ==
  /\ queue[id] + scheduled[id] <= 1
  /\ queue[id] + scheduled[id] = 1 => NoCarrier(id)
  /\ \A d, e \in Dispatchers : id \in made[d] /\ id \in made[e] => d = e
  /\ \A w, v \in Workers : wid[w] = id /\ wid[v] = id => w = v
  /\ \A d \in Dispatchers, w \in Workers : ~(id \in made[d] /\ wid[w] = id)

\* Once the message has arrived, whatever job is left is past sending it.
Once(id) ==
  /\ arrived[id] <= 1
  /\ arrived[id] = 1 =>
       /\ queue[id] = 0
       /\ \A d \in Dispatchers : id \notin made[d]
       /\ \A w \in Workers : wid[w] = id => wpc[w] \in {"mark_sent", "mark_failed", "ack"}

\* Sent, or about to be marked so, means delivered.
Sent(id) ==
  /\ deliveries[id] # None /\ deliveries[id].status = "sent" => arrived[id] > 0
  /\ \A w \in Workers : wid[w] = id /\ wpc[w] = "mark_sent" => arrived[id] > 0

Good(id) == Fresh(id) /\ Single(id) /\ Once(id) /\ Sent(id)

Inv == Typed /\ GoneInv /\ \A id \in Id : Good(id)

USE NotifierAssumption

\* Initially there is nothing.
LEMMA InitInv == Init => Inv
<1> SUFFICES ASSUME Init PROVE Inv OBVIOUS
<1>1. Typed BY DEF Init, Typed
<1>2. GoneInv BY DEF Init, GoneInv
<1>3. ASSUME NEW id \in Id PROVE Good(id)
  <2>1. /\ queue[id] = 0 /\ scheduled[id] = 0 /\ arrived[id] = 0 /\ deliveries[id] = None
        /\ \A d \in Dispatchers : made[d] = {}
        /\ \A w \in Workers : wid[w] = None /\ wpc[w] = "idle"
    BY DEF Init
  <2> QED BY <2>1 DEF Good, Fresh, Single, Once, Sent, NoCarrier
<1> QED BY <1>1, <1>2, <1>3 DEF Inv

jobs == <<deliveries, queue, scheduled, arrived, made, wpc, wid>>

\* Steps of the ingestor, the users and the admin that delete nothing.
LEMMA JobsUnchanged ==
  ASSUME Inv, UNCHANGED jobs, found' \in [Dispatchers -> SUBSET Id], gone' = gone, GoneInv'
  PROVE  Inv'
<1>1. Typed' BY DEF Inv, Typed, jobs
<1>2. ASSUME NEW id \in Id PROVE Good(id)'
  <2>1. Good(id) BY DEF Inv
  <2> QED BY <2>1 DEF Good, Fresh, Single, Once, Sent, NoCarrier, jobs
<1> QED BY <1>1, <1>2 DEF Inv

\* A dispatcher's run ends, or comes to nothing: `new_ids` shrinks.
LEMMA MadeShrinks ==
  ASSUME Inv, NEW d \in Dispatchers, NEW S \in SUBSET made[d],
         made' = [made EXCEPT ![d] = S], found' \in [Dispatchers -> SUBSET Id],
         UNCHANGED <<deliveries, queue, scheduled, arrived, wpc, wid, gone>>, GoneInv'
  PROVE  Inv'
<1>1. \A e \in Dispatchers : made'[e] \subseteq made[e] BY DEF Inv, Typed
<1>2. Typed' BY DEF Inv, Typed
<1>3. ASSUME NEW id \in Id PROVE Good(id)'
  <2>1. Good(id) BY DEF Inv
  <2>2. Fresh(id)' BY <1>1, <2>1 DEF Good, Fresh, NoCarrier
  <2>3. Single(id)' BY <1>1, <2>1 DEF Good, Single, NoCarrier
  <2>4. Once(id)' BY <1>1, <2>1 DEF Good, Once
  <2>5. Sent(id)' BY <2>1 DEF Good, Sent
  <2> QED BY <2>2, <2>3, <2>4, <2>5 DEF Good
<1> QED BY <1>2, <1>3 DEF Inv

\* A worker goes on from one place to another with the same delivery.
LEMMA WorkerMoves ==
  ASSUME Inv, NEW w \in Workers, wpc[w] # "idle",
         NEW c \in {"load", "send", "mark_sent", "mark_failed", "ack"},
         wpc' = [wpc EXCEPT ![w] = c],
         UNCHANGED <<queue, scheduled, made, found, wid, gone>>, GoneInv',
         deliveries' \in [Id -> Delivery \cup {None}], arrived' \in [Id -> Nat],
         \A id \in Id : deliveries'[id] = None <=> deliveries[id] = None,
         \A id \in Id : id # wid[w] => deliveries'[id] = deliveries[id] /\ arrived'[id] = arrived[id],
         Once(wid[w])', Sent(wid[w])'
  PROVE  Inv'
<1> DEFINE it == wid[w]
<1>1. it \in Id BY DEF Inv, Typed
<1>2. Typed' BY DEF Inv, Typed
<1>3. \A v \in Workers : wpc'[v] = IF v = w THEN c ELSE wpc[v] BY DEF Inv, Typed
<1>4. ASSUME NEW id \in Id PROVE Good(id)'
  <2>1. Good(id) BY DEF Inv
  <2>2. Single(id)' BY <2>1 DEF Good, Single, NoCarrier
  <2>3. Fresh(id)'
    <3>1. CASE id = it BY <2>1, <3>1 DEF Good, Fresh, NoCarrier
    <3>2. CASE id # it BY <2>1, <3>2 DEF Good, Fresh, NoCarrier
    <3> QED BY <3>1, <3>2
  <2>4. Once(id)' /\ Sent(id)'
    <3>1. CASE id = it BY <3>1
    <3>2. CASE id # it
      <4>1. \A v \in Workers : wid[v] = id => wpc'[v] = wpc[v] BY <1>3, <3>2
      <4>2. Once(id)' BY <2>1, <3>2, <4>1 DEF Good, Once
      <4>3. Sent(id)' BY <2>1, <3>2, <4>1 DEF Good, Sent
      <4> QED BY <4>2, <4>3
    <3> QED BY <3>1, <3>2
  <2> QED BY <2>2, <2>3, <2>4 DEF Good
<1> QED BY <1>2, <1>4 DEF Inv

\* INSERT ... RETURNING: the delivery is fresh, and its first job is this one.
LEMMA InsertInv ==
  ASSUME Inv, NEW d \in Dispatchers, Insert(d)
  PROVE  Inv'
<1>1. PICK new \in found[d] :
        /\ watch[new[1]] # None
        /\ found' = [found EXCEPT ![d] = @ \ {new}]
        /\ IF deliveries[new] = None
             THEN /\ deliveries' = [deliveries EXCEPT ![new] = [status |-> "pending", attempts |-> 0]]
                  /\ made' = [made EXCEPT ![d] = @ \cup {new}]
             ELSE UNCHANGED <<deliveries, made>>
  BY DEF Insert
<1>2. /\ UNCHANGED <<queue, scheduled, arrived, wpc, wid, gone, watch>>
  BY DEF Insert, tables, rq, work
<1>3. new \in Id /\ GoneInv /\ GoneInv' /\ found' \in [Dispatchers -> SUBSET Id]
  BY <1>1, <1>2 DEF Inv, Typed, GoneInv
<1>4. CASE deliveries[new] # None
  <2>1. UNCHANGED jobs BY <1>1, <1>2, <1>4 DEF jobs
  <2> QED BY <1>2, <1>3, <2>1, JobsUnchanged
<1>5. CASE deliveries[new] = None
  <2>1. new[1] \notin gone BY <1>1, <1>3 DEF GoneInv
  <2>2. queue[new] = 0 /\ scheduled[new] = 0 /\ arrived[new] = 0 /\ NoCarrier(new)
    BY <1>3, <1>5, <2>1 DEF Inv, Good, Fresh
  <2>3. [status |-> "pending", attempts |-> 0] \in Delivery BY DEF Delivery
  <2>4. /\ deliveries' = [deliveries EXCEPT ![new] = [status |-> "pending", attempts |-> 0]]
        /\ made' = [made EXCEPT ![d] = made[d] \cup {new}]
    BY <1>1, <1>5
  <2>5. Typed' BY <1>2, <1>3, <2>3, <2>4 DEF Inv, Typed
  <2>6. \A e \in Dispatchers, id \in Id :
          id \in made'[e] <=> id \in made[e] \/ (e = d /\ id = new)
    BY <2>4 DEF Inv, Typed
  <2>7. deliveries'[new] # None /\ deliveries'[new].status = "pending"
    BY <1>3, <2>3, <2>4 DEF Inv, Typed
  <2>8. ASSUME NEW id \in Id PROVE Good(id)'
    <3>1. Good(id) BY DEF Inv
    <3>2. CASE id = new
      <4>1. Fresh(id)' BY <2>7, <3>2 DEF Fresh
      <4>2. Single(id)' BY <1>2, <2>2, <2>6, <3>2 DEF Single, NoCarrier
      <4>3. Once(id)' BY <1>2, <2>2, <3>2 DEF Once
      <4>4. Sent(id)' BY <1>2, <2>2, <2>7, <3>1, <3>2 DEF Good, Sent, NoCarrier
      <4> QED BY <4>1, <4>2, <4>3, <4>4 DEF Good
    <3>3. CASE id # new
      <4>1. deliveries'[id] = deliveries[id] /\ \A e \in Dispatchers : id \in made'[e] <=> id \in made[e]
        BY <2>4, <2>6, <3>3 DEF Inv, Typed
      <4>2. Fresh(id)' BY <1>2, <3>1, <4>1 DEF Good, Fresh, NoCarrier
      <4>3. Single(id)' BY <1>2, <3>1, <4>1 DEF Good, Single, NoCarrier
      <4>4. Once(id)' /\ Sent(id)' BY <1>2, <3>1, <4>1 DEF Good, Once, Sent
      <4> QED BY <4>2, <4>3, <4>4 DEF Good
    <3> QED BY <3>2, <3>3
  <2> QED BY <1>3, <2>5, <2>8 DEF Inv
<1> QED BY <1>4, <1>5

\* Creating and editing watches and committing events: no watch that is gone comes back.
LEMMA OutsideInv ==
  ASSUME Inv,
         \/ \E e \in Events : CommitEvent(e)
         \/ \E w \in WatchIds, form \in Forms, c \in Channels : CreateWatch(w, form, c)
         \/ \E w \in WatchIds, form \in Forms, active \in BOOLEAN, c \in Channels :
              UpdateWatch(w, form.value, active, c)
  PROVE  Inv'
<1>1. UNCHANGED jobs /\ gone' = gone /\ found' = found
  BY DEF CommitEvent, CreateWatch, UpdateWatch, jobs, rq, disp, work
<1>2. GoneInv'
  <2>1. CASE \E e \in Events : CommitEvent(e)
    BY <2>1 DEF CommitEvent, Inv, GoneInv
  <2>2. CASE \E w \in WatchIds, form \in Forms, c \in Channels : CreateWatch(w, form, c)
    BY <2>2 DEF CreateWatch, Inv, GoneInv
  <2>3. CASE \E w \in WatchIds, form \in Forms, active \in BOOLEAN, c \in Channels :
               UpdateWatch(w, form.value, active, c)
    BY <2>3 DEF UpdateWatch, Inv, GoneInv
  <2> QED BY <2>1, <2>2, <2>3
<1>3. found' \in [Dispatchers -> SUBSET Id] BY <1>1 DEF Inv, Typed
<1> QED BY <1>1, <1>2, <1>3, JobsUnchanged

\* Deletions take the delivery rows with them, and the ids are never used again.
LEMMA DeleteInv ==
  ASSUME Inv, NEW ws \in SUBSET WatchIds, DeleteWatches(ws)
  PROVE  Inv'
<1>1. UNCHANGED <<queue, scheduled, arrived, made, found, wpc, wid>>
  BY DEF DeleteWatches, rq, disp, work
<1>2. deliveries' = [id \in Id |-> IF id[1] \in ws THEN None ELSE deliveries[id]]
  BY DEF DeleteWatches
<1>3. Typed' BY <1>1, <1>2 DEF Inv, Typed
<1>4. GoneInv' BY DEF DeleteWatches, Inv, GoneInv
<1>5. ASSUME NEW id \in Id PROVE Good(id)'
  <2>1. Good(id) BY DEF Inv
  <2>2. deliveries'[id] = IF id[1] \in ws THEN None ELSE deliveries[id] BY <1>2
  <2>3. Fresh(id)'
    <3>1. id[1] \notin gone' => id[1] \notin gone /\ id[1] \notin ws BY DEF DeleteWatches
    <3> QED BY <1>1, <2>1, <2>2, <3>1 DEF Good, Fresh, NoCarrier
  <2>4. Single(id)' /\ Once(id)' BY <1>1, <2>1 DEF Good, Single, Once, NoCarrier
  <2>5. Sent(id)' BY <1>1, <2>1, <2>2 DEF Good, Sent
  <2> QED BY <2>3, <2>4, <2>5 DEF Good
<1> QED BY <1>3, <1>4, <1>5 DEF Inv

\* The dispatcher's steps that create and enqueue nothing: it goes on, or its run ends.
LEMMA DispatcherQuietInv ==
  ASSUME Inv, NEW d \in Dispatchers,
         Match(d) \/ InsertRejected(d) \/ InsertDone(d) \/ DispatcherCrash(d)
  PROVE  Inv'
<1>1. UNCHANGED <<deliveries, queue, scheduled, arrived, wpc, wid, gone, watch>>
  BY DEF Match, InsertRejected, InsertDone, DispatcherCrash, tables, rq, work
<1>2. GoneInv' BY <1>1 DEF Inv, GoneInv
<1>3. CASE Match(d)
  <2>1. NewMatches \subseteq Id BY DEF NewMatches
  <2>2. found' \in [Dispatchers -> SUBSET Id] BY <1>3, <2>1 DEF Match, Inv, Typed
  <2>3. UNCHANGED jobs BY <1>1, <1>3 DEF Match, jobs
  <2> QED BY <1>1, <1>2, <2>2, <2>3, JobsUnchanged
<1>4. CASE EndRun(d)
  <2>1. found' \in [Dispatchers -> SUBSET Id] BY <1>4 DEF EndRun, Inv, Typed
  <2>2. made' = [made EXCEPT ![d] = {}] BY <1>4 DEF EndRun
  <2> QED BY <1>1, <1>2, <2>1, <2>2, MadeShrinks
<1>5. CASE UNCHANGED <<found, made>>
  <2>1. UNCHANGED jobs BY <1>1, <1>5 DEF jobs
  <2>2. found' \in [Dispatchers -> SUBSET Id] BY <1>5 DEF Inv, Typed
  <2> QED BY <1>1, <1>2, <2>1, <2>2, JobsUnchanged
<1>6. Match(d) \/ EndRun(d) \/ UNCHANGED <<found, made>>
  BY DEF InsertRejected, InsertDone, DispatcherCrash
<1> QED BY <1>3, <1>4, <1>5, <1>6

\* The job goes from the dispatcher's list into the queue.
LEMMA EnqueueInv ==
  ASSUME Inv, NEW d \in Dispatchers, Enqueue(d)
  PROVE  Inv'
<1>1. PICK new \in made[d] :
        /\ queue' = [queue EXCEPT ![new] = @ + 1]
        /\ IF made[d] = {new} THEN EndRun(d)
                              ELSE made' = [made EXCEPT ![d] = @ \ {new}] /\ UNCHANGED <<dpc, found>>
  BY DEF Enqueue
<1>2. UNCHANGED <<deliveries, scheduled, arrived, wpc, wid, gone, watch>>
  BY DEF Enqueue, tables, work
<1>3. new \in Id /\ GoneInv' BY <1>1, <1>2 DEF Inv, Typed, GoneInv
<1>4. found' \in [Dispatchers -> SUBSET Id] BY <1>1 DEF EndRun, Inv, Typed
<1>5. made' = [made EXCEPT ![d] = made[d] \ {new}] BY <1>1 DEF EndRun
<1>6. Typed' BY <1>1, <1>2, <1>3, <1>4, <1>5 DEF Inv, Typed
<1>7. \A e \in Dispatchers : made'[e] = IF e = d THEN made[d] \ {new} ELSE made[e]
  BY <1>5 DEF Inv, Typed
<1>8. \A id \in Id : queue'[id] = IF id = new THEN queue[id] + 1 ELSE queue[id]
  BY <1>1 DEF Inv, Typed
<1>9. ASSUME NEW id \in Id PROVE Good(id)'
  <2>1. Good(id) /\ queue[id] \in Nat /\ scheduled[id] \in Nat /\ arrived[id] \in Nat
    BY DEF Inv, Typed
  <2>2. CASE id = new
    <3>1. /\ queue[id] = 0 /\ scheduled[id] = 0
          /\ \A w \in Workers : wid[w] # id
          /\ \A e \in Dispatchers : id \in made[e] => e = d
      BY <1>1, <2>1, <2>2 DEF Good, Single, NoCarrier
    <3>2. NoCarrier(id)' BY <1>2, <1>7, <2>2, <3>1 DEF NoCarrier
    <3>3. arrived[id] = 0 BY <1>1, <2>1, <2>2 DEF Good, Once
    <3>4. id[1] \in gone \/ deliveries[id] # None BY <1>1, <2>1, <2>2 DEF Good, Fresh, NoCarrier
    <3>5. Fresh(id)' BY <1>2, <3>4 DEF Fresh
    <3>6. Single(id)' BY <1>2, <1>8, <3>1, <3>2, <2>2 DEF Single, NoCarrier
    <3>7. Once(id)' BY <1>2, <3>3 DEF Once
    <3>8. Sent(id)' BY <1>2, <2>1 DEF Good, Sent
    <3> QED BY <3>5, <3>6, <3>7, <3>8 DEF Good
  <2>3. CASE id # new
    <3>1. queue'[id] = queue[id] /\ \A e \in Dispatchers : id \in made'[e] <=> id \in made[e]
      BY <1>7, <1>8, <2>3
    <3>2. Fresh(id)' BY <1>2, <2>1, <3>1 DEF Good, Fresh, NoCarrier
    <3>3. Single(id)' BY <1>2, <2>1, <3>1 DEF Good, Single, NoCarrier
    <3>4. Once(id)' BY <1>2, <2>1, <3>1 DEF Good, Once
    <3>5. Sent(id)' BY <1>2, <2>1 DEF Good, Sent
    <3> QED BY <3>2, <3>3, <3>4, <3>5 DEF Good
  <2> QED BY <2>2, <2>3
<1> QED BY <1>3, <1>6, <1>9 DEF Inv

\* The job goes from the queue to a worker.
LEMMA DequeueInv ==
  ASSUME Inv, NEW w \in Workers, Dequeue(w)
  PROVE  Inv'
<1>1. PICK new \in Id :
        /\ queue[new] > 0
        /\ queue' = [queue EXCEPT ![new] = @ - 1]
        /\ wid' = [wid EXCEPT ![w] = new]
  BY DEF Dequeue
<1>2. wpc' = [wpc EXCEPT ![w] = "load"] BY DEF Dequeue
<1>3. UNCHANGED <<deliveries, scheduled, arrived, made, found, gone, watch>>
  BY DEF Dequeue, tables, disp
<1>4. GoneInv' BY <1>3 DEF Inv, GoneInv
<1>5. Typed' BY <1>1, <1>2, <1>3 DEF Inv, Typed
<1>6. /\ \A v \in Workers : wid'[v] = IF v = w THEN new ELSE wid[v]
      /\ \A v \in Workers : wpc'[v] = IF v = w THEN "load" ELSE wpc[v]
      /\ \A id \in Id : queue'[id] = IF id = new THEN queue[id] - 1 ELSE queue[id]
  BY <1>1, <1>2 DEF Inv, Typed
<1>7. ASSUME NEW id \in Id PROVE Good(id)'
  <2>1. Good(id) /\ queue[id] \in Nat /\ scheduled[id] \in Nat /\ arrived[id] \in Nat
    BY DEF Inv, Typed
  <2>2. CASE id = new
    <3>1. queue[id] = 1 /\ scheduled[id] = 0 /\ NoCarrier(id)
      BY <1>1, <2>1, <2>2 DEF Good, Single
    <3>2. arrived[id] = 0 BY <2>1, <3>1 DEF Good, Once
    <3>3. id[1] \in gone \/ deliveries[id] # None BY <2>1, <3>1 DEF Good, Fresh
    <3>4. Fresh(id)' BY <1>3, <3>3 DEF Fresh
    <3>5. Single(id)' BY <1>3, <1>6, <2>2, <3>1 DEF Single, NoCarrier
    <3>6. Once(id)' BY <1>3, <3>2 DEF Once
    <3>7. Sent(id)' BY <1>3, <1>6, <2>1, <2>2, <3>1 DEF Good, Sent, NoCarrier
    <3> QED BY <3>4, <3>5, <3>6, <3>7 DEF Good
  <2>3. CASE id # new
    <3>1. queue'[id] = queue[id] /\ \A v \in Workers : wid'[v] = id => wid[v] = id /\ wpc'[v] = wpc[v]
      BY <1>6, <2>3
    <3>2. Fresh(id)' BY <1>3, <2>1, <3>1 DEF Good, Fresh, NoCarrier
    <3>3. Single(id)' BY <1>3, <2>1, <3>1 DEF Good, Single, NoCarrier
    <3>4. Once(id)' BY <1>3, <2>1, <3>1 DEF Good, Once
    <3>5. Sent(id)' BY <1>3, <2>1, <3>1 DEF Good, Sent
    <3> QED BY <3>2, <3>3, <3>4, <3>5 DEF Good
  <2> QED BY <2>2, <2>3
<1> QED BY <1>4, <1>5, <1>7 DEF Inv

\* The worker reads the delivery: nothing of it changes.
LEMMA LoadInv ==
  ASSUME Inv, NEW w \in Workers, Load(w)
  PROVE  Inv'
<1> DEFINE c == IF deliveries[wid[w]] = None THEN "ack"
                ELSE IF watch[wid[w][1]].channel \in Senderless THEN "mark_failed"
                ELSE "send"
<1>1. c \in {"load", "send", "mark_sent", "mark_failed", "ack"} /\ c # "mark_sent" OBVIOUS
<1>2. wpc[w] = "load" /\ wpc' = [wpc EXCEPT ![w] = c] BY DEF Load
<1>3. UNCHANGED <<deliveries, arrived, queue, scheduled, made, found, wid, gone, watch>>
  BY DEF Load, tables, rq, disp
<1>4. GoneInv' BY <1>3 DEF Inv, GoneInv
<1>5. wid[w] \in Id /\ Good(wid[w]) /\ arrived[wid[w]] \in Nat BY <1>2 DEF Inv, Typed
<1>6. \A v \in Workers : wid[v] = wid[w] => v = w BY <1>5 DEF Good, Single
<1>7. arrived[wid[w]] = 0 BY <1>2, <1>5 DEF Good, Once
<1>8. Once(wid[w])' BY <1>3, <1>7 DEF Once
<1>9. wpc'[w] # "mark_sent" BY <1>1, <1>2 DEF Inv, Typed
<1>10. Sent(wid[w])' BY <1>3, <1>5, <1>6, <1>9 DEF Good, Sent
<1>11. deliveries' \in [Id -> Delivery \cup {None}] /\ arrived' \in [Id -> Nat]
  BY <1>3 DEF Inv, Typed
<1> HIDE DEF c
<1> QED BY <1>1, <1>2, <1>3, <1>4, <1>8, <1>10, <1>11, WorkerMoves

\* The one place where a message may arrive; the job moves past it either way.
LEMMA SendInv ==
  ASSUME Inv, NEW w \in Workers, Send(w)
  PROVE  Inv'
<1>1. PICK reached \in BOOLEAN, raised \in BOOLEAN :
        /\ reached \/ raised
        /\ arrived' = [arrived EXCEPT ![wid[w]] = IF reached THEN @ + 1 ELSE @]
        /\ wpc' = [wpc EXCEPT ![w] = IF raised THEN "mark_failed" ELSE "mark_sent"]
  BY DEF Send
<1> DEFINE c == IF raised THEN "mark_failed" ELSE "mark_sent"
<1>2. c \in {"mark_failed", "mark_sent"} /\ wpc' = [wpc EXCEPT ![w] = c] BY <1>1
<1>3. UNCHANGED <<deliveries, queue, scheduled, made, found, wid, gone, watch>> /\ wpc[w] = "send"
  BY DEF Send, tables, rq, disp
<1>4. GoneInv' BY <1>3 DEF Inv, GoneInv
<1>5. wid[w] \in Id /\ Good(wid[w]) /\ arrived[wid[w]] \in Nat BY <1>3 DEF Inv, Typed
<1>6. \A v \in Workers : wid[v] = wid[w] => v = w BY <1>5 DEF Good, Single
<1>7. arrived[wid[w]] = 0 /\ queue[wid[w]] \in Nat /\ scheduled[wid[w]] \in Nat
  BY <1>3, <1>5 DEF Good, Once, Inv, Typed
<1>8. wpc'[w] = c /\ arrived'[wid[w]] = IF reached THEN 1 ELSE 0
  BY <1>1, <1>2, <1>5, <1>7 DEF Inv, Typed
<1>9. queue[wid[w]] = 0 /\ \A d \in Dispatchers : wid[w] \notin made[d]
  BY <1>5, <1>7 DEF Good, Single, NoCarrier
<1>10. Once(wid[w])' BY <1>2, <1>3, <1>6, <1>8, <1>9 DEF Once
<1>11. deliveries[wid[w]] # None /\ deliveries[wid[w]].status = "sent" => FALSE
  BY <1>5, <1>7 DEF Good, Sent
<1>12. Sent(wid[w])' BY <1>1, <1>3, <1>6, <1>8, <1>11 DEF Sent
<1>13. deliveries' \in [Id -> Delivery \cup {None}] /\ arrived' \in [Id -> Nat]
  BY <1>1, <1>3, <1>5 DEF Inv, Typed
<1>14. \A id \in Id : id # wid[w] => arrived'[id] = arrived[id] BY <1>1 DEF Inv, Typed
<1> HIDE DEF c
<1> QED BY <1>2, <1>3, <1>4, <1>10, <1>12, <1>13, <1>14, WorkerMoves

\* What an UPDATE of one delivery changes, and what it does not.
LEMMA UpdateRow ==
  ASSUME Typed, NEW id \in Id, NEW status \in {"pending", "sent", "failed"}, Update(id, status)
  PROVE  /\ deliveries' \in [Id -> Delivery \cup {None}]
         /\ \A i \in Id : deliveries'[i] = None <=> deliveries[i] = None
         /\ \A i \in Id : i # id => deliveries'[i] = deliveries[i]
         /\ deliveries'[id] # None => deliveries'[id].status = status
<1>1. CASE deliveries[id] = None BY <1>1 DEF Update, Typed
<1>2. CASE deliveries[id] # None
  <2> DEFINE row == [status |-> status, attempts |-> deliveries[id].attempts + 1]
  <2>1. deliveries[id] \in Delivery BY <1>2 DEF Typed
  <2>2. row \in Delivery /\ row.status = status BY <2>1 DEF Delivery
  <2>3. deliveries' = [deliveries EXCEPT ![id] = row] BY <1>2 DEF Update
  <2>4. row # None BY <2>2
  <2> HIDE DEF row
  <2> QED BY <1>2, <2>2, <2>3, <2>4 DEF Typed
<1> QED BY <1>1, <1>2

\* The worker writes down how it went.
LEMMA MarkInv ==
  ASSUME Inv, NEW w \in Workers, MarkSent(w) \/ MarkFailed(w)
  PROVE  Inv'
<1>1. /\ wpc[w] \in {"mark_sent", "mark_failed"} /\ wpc' = [wpc EXCEPT ![w] = "ack"]
      /\ UNCHANGED <<arrived, queue, scheduled, made, found, wid, gone, watch>>
  BY DEF MarkSent, MarkFailed, tables, rq, disp
<1>2. PICK status \in {"pending", "sent", "failed"} :
        Update(wid[w], status) /\ (status = "sent" => wpc[w] = "mark_sent")
  BY DEF MarkSent, MarkFailed
<1>3. wid[w] \in Id /\ Good(wid[w]) /\ arrived[wid[w]] \in Nat BY <1>1 DEF Inv, Typed
<1>4. /\ deliveries' \in [Id -> Delivery \cup {None}]
      /\ \A i \in Id : deliveries'[i] = None <=> deliveries[i] = None
      /\ \A i \in Id : i # wid[w] => deliveries'[i] = deliveries[i]
      /\ deliveries'[wid[w]] # None => deliveries'[wid[w]].status = status
  BY <1>2, <1>3, UpdateRow DEF Inv
<1>5. GoneInv' BY <1>1 DEF Inv, GoneInv
<1>6. wpc'[w] = "ack" /\ \A v \in Workers : v # w => wpc'[v] = wpc[v] BY <1>1 DEF Inv, Typed
<1>7. Once(wid[w])' BY <1>1, <1>3, <1>6 DEF Good, Once
<1>8. \A v \in Workers : wid[v] = wid[w] => v = w BY <1>3 DEF Good, Single
<1>9. status = "sent" => arrived[wid[w]] > 0 BY <1>2, <1>3 DEF Good, Sent
<1>10. Sent(wid[w])' BY <1>1, <1>4, <1>6, <1>8, <1>9 DEF Sent
<1>11. arrived' \in [Id -> Nat] BY <1>1 DEF Inv, Typed
<1> QED BY <1>1, <1>4, <1>5, <1>7, <1>10, <1>11, WorkerMoves

\* The worker lets go of the job: it is done, or RQ puts it among the scheduled ones.
LEMMA ReleaseInv ==
  ASSUME Inv, NEW w \in Workers, Ack(w) \/ WorkerCrash(w)
  PROVE  Inv'
<1>1. /\ wpc' = [wpc EXCEPT ![w] = "idle"] /\ wid' = [wid EXCEPT ![w] = None]
      /\ UNCHANGED <<deliveries, queue, arrived, made, found, gone, watch>> /\ wpc[w] # "idle"
  BY DEF Ack, WorkerCrash, tables, rq, disp
<1> DEFINE it == wid[w]
<1>2. it \in Id BY <1>1 DEF Inv, Typed
<1>3. scheduled' = scheduled \/ scheduled' = [scheduled EXCEPT ![it] = @ + 1]
  BY DEF Ack, WorkerCrash, rq
<1>4. GoneInv' BY <1>1 DEF Inv, GoneInv
<1>5. Typed' BY <1>1, <1>2, <1>3 DEF Inv, Typed
<1>6. /\ \A v \in Workers : wid'[v] = IF v = w THEN None ELSE wid[v]
      /\ \A v \in Workers : wpc'[v] = IF v = w THEN "idle" ELSE wpc[v]
      /\ \A id \in Id : id # it => scheduled'[id] = scheduled[id]
      /\ scheduled'[it] \in {scheduled[it], scheduled[it] + 1}
  BY <1>1, <1>2, <1>3 DEF Inv, Typed
<1>7. ASSUME NEW id \in Id PROVE Good(id)'
  <2>1. Good(id) /\ queue[id] \in Nat /\ scheduled[id] \in Nat /\ arrived[id] \in Nat
    BY DEF Inv, Typed
  <2>2. \A v \in Workers : wid'[v] = id => wid[v] = id /\ wpc'[v] = wpc[v] BY <1>6
  <2>3. Once(id)' /\ Sent(id)' BY <1>1, <2>1, <2>2 DEF Good, Once, Sent
  <2>4. CASE id = it
    <3>1. queue[id] = 0 /\ scheduled[id] = 0 /\ \A d \in Dispatchers : id \notin made[d]
      BY <2>1, <2>4 DEF Good, Single, NoCarrier
    <3>2. \A v \in Workers : wid[v] = id => v = w BY <2>1, <2>4 DEF Good, Single
    <3>3. id[1] \in gone \/ deliveries[id] # None BY <2>1, <2>4 DEF Good, Fresh, NoCarrier
    <3>4. NoCarrier(id)' BY <1>1, <1>6, <3>1, <3>2 DEF NoCarrier
    <3>5. Single(id)' BY <1>1, <1>6, <2>4, <3>1, <3>4 DEF Single, NoCarrier
    <3>6. Fresh(id)' BY <1>1, <3>3 DEF Fresh
    <3> QED BY <2>3, <3>5, <3>6 DEF Good
  <2>5. CASE id # it
    <3>1. scheduled'[id] = scheduled[id] BY <1>6, <2>5
    <3>2. Single(id)' BY <1>1, <2>1, <2>2, <3>1 DEF Good, Single, NoCarrier
    <3>3. Fresh(id)' BY <1>1, <2>1, <2>2, <3>1 DEF Good, Fresh, NoCarrier
    <3> QED BY <2>3, <3>2, <3>3 DEF Good
  <2> QED BY <2>4, <2>5
<1> QED BY <1>4, <1>5, <1>7 DEF Inv

\* Every step, and none, keeps the invariant.
LEMMA StepInv == Inv /\ [Next]_vars => Inv'
<1> SUFFICES ASSUME Inv, [Next]_vars PROVE Inv' OBVIOUS
<1>1. CASE \/ \E e \in Events : CommitEvent(e)
           \/ \E w \in WatchIds, form \in Forms, c \in Channels : CreateWatch(w, form, c)
           \/ \E w \in WatchIds, form \in Forms, active \in BOOLEAN, c \in Channels :
                UpdateWatch(w, form.value, active, c)
  BY <1>1, OutsideInv
<1>2. ASSUME NEW w \in WatchIds, DeleteWatch(w) PROVE Inv'
  <2>1. DeleteWatches({w}) /\ {w} \in SUBSET WatchIds BY <1>2 DEF DeleteWatch
  <2> QED BY <2>1, DeleteInv
<1>3. ASSUME NEW c \in Channels, DeleteChannel(c) PROVE Inv'
  <2> DEFINE ws == {w \in WatchIds : watch[w] # None /\ watch[w].channel = c}
  <2>1. DeleteWatches(ws) /\ ws \in SUBSET WatchIds BY <1>3 DEF DeleteChannel
  <2> HIDE DEF ws
  <2> QED BY <2>1, DeleteInv
<1>4. ASSUME NEW d \in Dispatchers, Dispatch(d) \/ DispatcherCrash(d) PROVE Inv'
  BY <1>4, DispatcherQuietInv, InsertInv, EnqueueInv DEF Dispatch
<1>5. ASSUME NEW w \in Workers, Work(w) \/ WorkerCrash(w) PROVE Inv'
  BY <1>5, DequeueInv, LoadInv, SendInv, MarkInv, ReleaseInv DEF Work
<1>6. CASE UNCHANGED vars
  <2>1. UNCHANGED jobs /\ gone' = gone /\ found' = found /\ watch' = watch
    BY <1>6 DEF vars, jobs, tables, rq, disp, work
  <2>2. GoneInv' /\ found' \in [Dispatchers -> SUBSET Id] BY <2>1 DEF Inv, GoneInv, Typed
  <2> QED BY <2>1, <2>2, JobsUnchanged
<1> QED BY <1>1, <1>2, <1>3, <1>4, <1>5, <1>6 DEF Next

\* The invariant holds of the specification.
THEOREM Invariance == Spec => []Inv
BY InitInv, StepInv, PTL DEF Spec

\* OneJob: however many dispatchers race, processes die and watches are deleted, a
\* delivery never has two jobs, in the queue, in RQ's registry or in a process.
THEOREM OneJobAlways == Spec => []OneJob
<1>1. Inv => OneJob
  <2> SUFFICES ASSUME Inv, NEW id \in Id
               PROVE  /\ queue[id] + scheduled[id] <= 1
                      /\ queue[id] + scheduled[id] = 1 => Carriers(id) = {}
                      /\ \A x, y \in Carriers(id) : x = y
    BY DEF OneJob
  <2>1. Single(id) BY DEF Inv, Good
  <2>2. queue[id] + scheduled[id] = 1 => Carriers(id) = {}
    BY <2>1 DEF Single, NoCarrier, Carriers
  <2>3. \A x, y \in Carriers(id) : x = y BY <2>1 DEF Single, Carriers
  <2> QED BY <2>1, <2>2, <2>3 DEF Single
<1> QED BY <1>1, Invariance, PTL

\* AtMostOnce: a sender that times out after delivering, and a worker that dies after
\* sending, never lead to a second message.
THEOREM AtMostOnceAlways == Spec => []AtMostOnce
<1>1. Inv => AtMostOnce BY DEF Inv, Good, Once, AtMostOnce
<1> QED BY <1>1, Invariance, PTL

\* SentArrived: a delivery marked sent was delivered.
THEOREM SentArrivedAlways == Spec => []SentArrived
<1>1. Inv => SentArrived BY DEF Inv, Good, Sent, SentArrived
<1> QED BY <1>1, Invariance, PTL

--------------------------------------------------------------------------------
(* The tables, and the processes' places.                                  *)

\* Watches are rows with an existing channel; an idle worker holds nothing.
Tables ==
  /\ events \subseteq Events /\ channels \subseteq Channels
  /\ watch \in [WatchIds -> WatchRow \cup {None}]
  /\ \A w \in WatchIds : watch[w] # None => watch[w].channel \in channels
  /\ dpc \in [Dispatchers -> {"idle", "insert", "enqueue"}]
  /\ \A w \in Workers : wpc[w] = "idle" => wid[w] = None

\* A row is written for a watch.
LEMMA WatchWritten ==
  ASSUME Tables, NEW w \in WatchIds, NEW row \in WatchRow, row.channel \in channels,
         watch' = [watch EXCEPT ![w] = row], UNCHANGED <<events, channels, dpc, wpc, wid>>
  PROVE  Tables' /\ \A v \in WatchIds : watch[v] # None => watch'[v] # None
<1>1. \A v \in WatchIds : watch'[v] = IF v = w THEN row ELSE watch[v] BY DEF Tables
<1>2. watch' \in [WatchIds -> WatchRow \cup {None}] BY DEF Tables
<1>3. row # None OBVIOUS
<1> QED BY <1>1, <1>2, <1>3 DEF Tables

\* create_watch and admin.update_watch write rows.
LEMMA WritesRow ==
  ASSUME Tables,
         \/ \E w \in WatchIds, form \in Forms, c \in Channels : CreateWatch(w, form, c)
         \/ \E w \in WatchIds, form \in Forms, active \in BOOLEAN, c \in Channels :
              UpdateWatch(w, form.value, active, c)
  PROVE  Tables' /\ \A v \in WatchIds : watch[v] # None => watch'[v] # None
<1>1. ASSUME NEW w \in WatchIds, NEW form \in Forms, NEW c \in Channels, CreateWatch(w, form, c)
      PROVE  Tables' /\ \A v \in WatchIds : watch[v] # None => watch'[v] # None
  <2> DEFINE row == [user |-> Owner[c], type |-> form.type, value |-> form.value,
                     service |-> form.service, active |-> TRUE, channel |-> c]
  <2>1. row \in WatchRow /\ row.channel = c BY DEF WatchRow
  <2>2. c \in channels /\ watch' = [watch EXCEPT ![w] = row] /\ UNCHANGED <<events, channels, dpc, wpc, wid>>
    BY <1>1 DEF CreateWatch, disp, work
  <2> HIDE DEF row
  <2> QED BY <2>1, <2>2, WatchWritten
<1>2. ASSUME NEW w \in WatchIds, NEW form \in Forms, NEW active \in BOOLEAN, NEW c \in Channels,
             UpdateWatch(w, form.value, active, c)
      PROVE  Tables' /\ \A v \in WatchIds : watch[v] # None => watch'[v] # None
  <2>1. PICK old \in WatchRow : old = watch[w] BY <1>2 DEF UpdateWatch, Tables
  <2> DEFINE row == [old EXCEPT !.value = form.value, !.active = active, !.channel = c]
  <2>2. row \in WatchRow /\ row.channel = c BY DEF WatchRow
  <2>3. c \in channels /\ watch' = [watch EXCEPT ![w] = row] /\ UNCHANGED <<events, channels, dpc, wpc, wid>>
    BY <1>2, <2>1 DEF UpdateWatch, disp, work
  <2> HIDE DEF row
  <2> QED BY <2>2, <2>3, WatchWritten
<1> QED BY <1>1, <1>2

\* Watches go, each with its channel or alone.
LEMMA DeleteTables ==
  ASSUME Inv, Tables, (\E w \in WatchIds : DeleteWatch(w)) \/ (\E c \in Channels : DeleteChannel(c))
  PROVE  Tables'
<1>1. PICK ws : DeleteWatches(ws) BY DEF DeleteWatch, DeleteChannel
<1>2. /\ watch' = [w \in WatchIds |-> IF w \in ws THEN None ELSE watch[w]]
      /\ UNCHANGED <<events, dpc, wpc, wid>>
  BY <1>1 DEF DeleteWatches, disp, work
<1>3. watch' \in [WatchIds -> WatchRow \cup {None}] BY <1>2 DEF Tables
<1>4. channels' \subseteq Channels BY DEF DeleteWatch, DeleteChannel, Tables
<1>5. \A w \in WatchIds : watch'[w] # None => watch'[w].channel \in channels'
  <2>1. CASE channels' = channels BY <1>2, <2>1 DEF Tables
  <2>2. ASSUME NEW c \in Channels, DeleteChannel(c)
        PROVE  \A w \in WatchIds : watch'[w] # None => watch'[w].channel \in channels'
    <3>1. /\ watch' = [w \in WatchIds |-> IF w \in {v \in WatchIds : watch[v] # None /\ watch[v].channel = c}
                                            THEN None ELSE watch[w]]
          /\ channels' = channels \ {c}
      BY <2>2 DEF DeleteChannel, DeleteWatches
    <3> QED BY <3>1 DEF Tables
  <2> QED BY <2>1, <2>2 DEF DeleteWatch
<1> QED BY <1>2, <1>3, <1>4, <1>5 DEF Tables

LEMMA StepTables == Inv /\ Tables /\ [Next]_vars => Tables'
<1> SUFFICES ASSUME Inv, Tables, [Next]_vars PROVE Tables' OBVIOUS
<1>1. ASSUME NEW e \in Events, CommitEvent(e) PROVE Tables'
  BY <1>1 DEF CommitEvent, Tables, disp, work
<1>2. CASE \/ \E w \in WatchIds, form \in Forms, c \in Channels : CreateWatch(w, form, c)
           \/ \E w \in WatchIds, form \in Forms, active \in BOOLEAN, c \in Channels :
                UpdateWatch(w, form.value, active, c)
  BY <1>2, WritesRow
<1>3. CASE (\E w \in WatchIds : DeleteWatch(w)) \/ (\E c \in Channels : DeleteChannel(c))
  BY <1>3, DeleteTables
<1>4. ASSUME NEW d \in Dispatchers, Dispatch(d) \/ DispatcherCrash(d) PROVE Tables'
  <2>1. UNCHANGED <<events, channels, watch, wpc, wid>>
    BY <1>4 DEF Dispatch, Match, Insert, InsertRejected, InsertDone, Enqueue, DispatcherCrash, tables, work
  <2>2. dpc' \in [Dispatchers -> {"idle", "insert", "enqueue"}]
    BY <1>4 DEF Dispatch, Match, Insert, InsertRejected, InsertDone, Enqueue, DispatcherCrash, EndRun, Tables
  <2> QED BY <2>1, <2>2 DEF Tables
<1>5. ASSUME NEW w \in Workers, Work(w) \/ WorkerCrash(w) PROVE Tables'
  <2>1. UNCHANGED <<events, channels, watch, dpc>>
    BY <1>5 DEF Work, Dequeue, Load, Send, MarkSent, MarkFailed, Ack, WorkerCrash, tables, disp
  <2>2. \A v \in Workers \ {w} : wpc'[v] = wpc[v] /\ wid'[v] = wid[v]
    BY <1>5 DEF Work, Dequeue, Load, Send, MarkSent, MarkFailed, Ack, WorkerCrash, Inv, Typed
  <2>3. wpc'[w] = "idle" => wid'[w] = None
    BY <1>5 DEF Work, Dequeue, Load, Send, MarkSent, MarkFailed, Ack, WorkerCrash, Inv, Typed
  <2> QED BY <2>1, <2>2, <2>3 DEF Tables
<1>6. CASE UNCHANGED vars BY <1>6 DEF vars, tables, disp, work, Tables
<1> QED BY <1>1, <1>2, <1>3, <1>4, <1>5, <1>6 DEF Next

\* Every watch has a channel there is, and rows, registries and locals their types.
THEOREM TypeCorrect == Spec => []TypeOK
<1>1. Init => Tables BY DEF Init, Tables
<1>2. Inv /\ Tables => TypeOK BY DEF Inv, Typed, GoneInv, Tables, TypeOK
<1> QED BY <1>1, <1>2, StepTables, Invariance, PTL DEF Spec

--------------------------------------------------------------------------------
(* No delivery is left without a job before it was tried.                  *)

Untried(id) == deliveries[id] # None /\ deliveries[id].status = "pending" /\ deliveries[id].attempts = 0

\* A worker past its UPDATE carries a delivery no more.
Carried(id) ==
  \/ queue[id] + scheduled[id] > 0
  \/ \E d \in Dispatchers : id \in made[d]
  \/ \E w \in Workers : wid[w] = id /\ wpc[w] # "ack"

\* While nothing has failed and no watch was deleted, what is to be inserted can be.
TriedInv ==
  /\ faults \in Nat
  /\ faults = 0 /\ gone = {} =>
       /\ \A id \in Id : Untried(id) => Carried(id)
       /\ \A d \in Dispatchers : \A id \in found[d] : watch[id[1]] # None

LEMMA OutsideTried ==
  ASSUME TriedInv, UNCHANGED <<deliveries, queue, scheduled, made, found, wid, wpc, faults, gone>>,
         \A w \in WatchIds : watch[w] # None => watch'[w] # None, found \in [Dispatchers -> SUBSET Id]
  PROVE  TriedInv'
<1>1. \A id \in Id : Untried(id)' = Untried(id) /\ Carried(id)' = Carried(id) BY DEF Untried, Carried
<1>2. \A d \in Dispatchers : \A id \in found[d] : id[1] \in WatchIds BY DEF Id
<1> QED BY <1>1, <1>2 DEF TriedInv

LEMMA DeleteTried ==
  ASSUME Inv, TriedInv, (\E w \in WatchIds : DeleteWatch(w)) \/ (\E c \in Channels : DeleteChannel(c))
  PROVE  TriedInv'
<1>1. PICK ws : DeleteWatches(ws) BY DEF DeleteWatch, DeleteChannel
<1>2. /\ watch' = [w \in WatchIds |-> IF w \in ws THEN None ELSE watch[w]]
      /\ deliveries' = [id \in Id |-> IF id[1] \in ws THEN None ELSE deliveries[id]]
      /\ gone' = gone \cup ws
      /\ UNCHANGED <<queue, scheduled, made, found, wid, wpc, faults>>
  BY <1>1 DEF DeleteWatches, rq, disp, work
<1>3. CASE ws # {} BY <1>2, <1>3 DEF TriedInv
<1>4. CASE ws = {}
  <2>1. deliveries' = deliveries BY <1>2, <1>4 DEF Inv, Typed
  <2>2. \A w \in WatchIds : watch'[w] = watch[w] BY <1>2, <1>4
  <2>3. gone' = gone BY <1>2, <1>4
  <2> QED BY <1>2, <2>1, <2>2, <2>3, OutsideTried DEF Inv, Typed
<1> QED BY <1>3, <1>4

LEMMA DispatchTried ==
  ASSUME Inv, TriedInv, NEW d \in Dispatchers, Dispatch(d) \/ DispatcherCrash(d)
  PROVE  TriedInv'
<1>1. CASE DispatcherCrash(d)
  <2>1. faults \in Nat /\ faults' = faults + 1 BY <1>1 DEF DispatcherCrash, Fault, TriedInv
  <2> QED BY <2>1 DEF TriedInv
<1>2. CASE Match(d)
  <2>1. /\ found' = [found EXCEPT ![d] = NewMatches]
        /\ UNCHANGED <<deliveries, queue, scheduled, made, wid, wpc, faults, gone, watch>>
    BY <1>2 DEF Match, tables, rq, work
  <2>2. \A e \in Dispatchers : \A id \in found'[e] : id \in found[e] \/ watch[id[1]] # None
    BY <2>1 DEF Inv, Typed, NewMatches, Matches
  <2>3. \A id \in Id : Untried(id)' = Untried(id) /\ Carried(id)' = Carried(id)
    BY <2>1 DEF Untried, Carried
  <2> QED BY <2>1, <2>2, <2>3 DEF TriedInv
<1>3. CASE Insert(d)
  <2>1. PICK id \in found[d] :
          /\ found' = [found EXCEPT ![d] = @ \ {id}]
          /\ IF deliveries[id] = None
               THEN /\ deliveries' = [deliveries EXCEPT ![id] = [status |-> "pending", attempts |-> 0]]
                    /\ made' = [made EXCEPT ![d] = @ \cup {id}]
               ELSE UNCHANGED <<deliveries, made>>
    BY <1>3 DEF Insert
  <2>2. UNCHANGED <<queue, scheduled, wid, wpc, faults, gone, watch>> BY <1>3 DEF Insert, tables, rq, work
  <2>3. \A e \in Dispatchers : found'[e] \subseteq found[e] BY <2>1 DEF Inv, Typed
  <2>4. \A e \in Dispatchers : made[e] \subseteq made'[e] BY <2>1 DEF Inv, Typed
  <2>5. \A i \in Id : deliveries'[i] = deliveries[i] \/ i \in made'[d]
    BY <2>1 DEF Inv, Typed
  <2>6. \A i \in Id : Carried(i) => Carried(i)' BY <2>2, <2>4 DEF Carried
  <2>7. \A i \in Id : Untried(i)' => Untried(i) \/ Carried(i)' BY <2>5 DEF Untried, Carried
  <2> QED BY <2>2, <2>3, <2>6, <2>7 DEF TriedInv
<1>4. CASE InsertRejected(d)
  <2>1. UNCHANGED <<faults, gone>> /\ \E id \in found[d] : watch[id[1]] = None
    BY <1>4 DEF InsertRejected, tables
  <2> QED BY <2>1 DEF TriedInv
<1>5. CASE InsertDone(d)
  <2>1. UNCHANGED <<deliveries, queue, scheduled, wid, wpc, faults, gone, watch>>
    BY <1>5 DEF InsertDone, tables, rq, work
  <2>2. \A e \in Dispatchers : made'[e] = made[e] /\ found'[e] = found[e]
    BY <1>5 DEF InsertDone, EndRun, Inv, Typed
  <2>3. \A i \in Id : Untried(i)' = Untried(i) /\ Carried(i)' = Carried(i) BY <2>1, <2>2 DEF Untried, Carried
  <2> QED BY <2>1, <2>2, <2>3 DEF TriedInv
<1>6. CASE Enqueue(d)
  <2>1. PICK id \in made[d] :
          /\ queue' = [queue EXCEPT ![id] = @ + 1]
          /\ IF made[d] = {id} THEN EndRun(d)
                               ELSE made' = [made EXCEPT ![d] = @ \ {id}] /\ UNCHANGED <<dpc, found>>
    BY <1>6 DEF Enqueue
  <2>2. UNCHANGED <<deliveries, scheduled, wid, wpc, faults, gone, watch>> BY <1>6 DEF Enqueue, tables, work
  <2>3. id \in Id /\ \A i \in Id : queue[i] \in Nat /\ scheduled[i] \in Nat BY <2>1 DEF Inv, Typed
  <2>4. \A i \in Id : queue'[i] = IF i = id THEN queue[i] + 1 ELSE queue[i] BY <2>1, <2>3 DEF Inv, Typed
  <2>5. \A e \in Dispatchers : made[e] \subseteq made'[e] \cup {id} /\ found'[e] \subseteq found[e]
    BY <2>1 DEF EndRun, Inv, Typed
  <2>6. queue'[id] + scheduled'[id] > 0 BY <2>2, <2>3, <2>4
  <2>7. \A i \in Id : Carried(i) => Carried(i)'
    <3>1. ASSUME NEW i \in Id, i # id, Carried(i) PROVE Carried(i)'
      BY <2>2, <2>4, <2>5, <3>1 DEF Carried
    <3>2. Carried(id)' BY <2>6 DEF Carried
    <3> QED BY <3>1, <3>2
  <2>8. \A i \in Id : Untried(i)' = Untried(i) BY <2>2 DEF Untried
  <2> QED BY <2>2, <2>5, <2>7, <2>8 DEF TriedInv
<1> QED BY <1>1, <1>2, <1>3, <1>4, <1>5, <1>6 DEF Dispatch

LEMMA WorkTried ==
  ASSUME Inv, Tables, TriedInv, NEW w \in Workers, Work(w) \/ WorkerCrash(w)
  PROVE  TriedInv'
<1>1. CASE WorkerCrash(w)
  <2>1. faults \in Nat /\ faults' = faults + 1 BY <1>1 DEF WorkerCrash, Fault, TriedInv
  <2> QED BY <2>1 DEF TriedInv
<1>2. CASE Work(w)
  <2>1. UNCHANGED <<scheduled, made, found, faults, gone, watch>>
    BY <1>2 DEF Work, Dequeue, Load, Send, MarkSent, MarkFailed, Ack, tables, rq, disp
  <2>2. ASSUME faults = 0, gone = {}, \A i \in Id : Untried(i)' => Untried(i) /\ (Carried(i) => Carried(i)')
        PROVE  TriedInv'
    BY <2>1, <2>2 DEF TriedInv
  <2>3. CASE Dequeue(w)
    <3>1. PICK id \in Id : /\ queue[id] > 0 /\ queue' = [queue EXCEPT ![id] = @ - 1]
                           /\ wid' = [wid EXCEPT ![w] = id]
      BY <2>3 DEF Dequeue
    <3>2. wpc[w] = "idle" /\ wid[w] = None /\ wpc' = [wpc EXCEPT ![w] = "load"] /\ deliveries' = deliveries
      BY <2>3 DEF Dequeue, Tables
    <3>3. \A i \in Id : i # id => queue'[i] = queue[i] BY <3>1 DEF Inv, Typed
    <3>4. \A v \in Workers : v # w => wid'[v] = wid[v] /\ wpc'[v] = wpc[v] BY <3>1, <3>2 DEF Inv, Typed
    <3>5. wid'[w] = id /\ wpc'[w] = "load" BY <3>1, <3>2 DEF Inv, Typed
    <3>6. ASSUME NEW i \in Id, Carried(i) PROVE Carried(i)'
      <4>1. CASE i = id BY <3>5, <4>1 DEF Carried
      <4>2. CASE i # id BY <2>1, <3>2, <3>3, <3>4, <3>6, <4>2 DEF Carried
      <4> QED BY <4>1, <4>2
    <3>7. \A i \in Id : Untried(i)' = Untried(i) BY <3>2 DEF Untried
    <3> QED BY <2>1, <3>6, <3>7 DEF TriedInv
  <2>4. CASE Load(w) \/ Send(w)
    <3>1. UNCHANGED <<deliveries, queue, wid>> /\ wpc[w] \in {"load", "send"} BY <2>4 DEF Load, Send, rq
    <3>2. \A v \in Workers : v # w => wpc'[v] = wpc[v] BY <2>4 DEF Load, Send, Inv, Typed
    <3>3. gone = {} => wpc'[w] # "ack"
      <4>1. CASE Send(w) BY <4>1 DEF Send, Inv, Typed
      <4>2. CASE Load(w)
        <5>1. wid[w] \in Id /\ Good(wid[w]) BY <3>1 DEF Inv, Typed
        <5>2. gone = {} => deliveries[wid[w]] # None BY <5>1 DEF Good, Fresh, NoCarrier
        <5> QED BY <4>2, <5>2 DEF Load, Inv, Typed
      <4> QED BY <2>4, <4>1, <4>2
    <3>4. ASSUME gone = {}, NEW i \in Id, Carried(i) PROVE Carried(i)'
      BY <2>1, <3>1, <3>2, <3>3, <3>4 DEF Carried
    <3>5. \A i \in Id : Untried(i)' = Untried(i) BY <3>1 DEF Untried
    <3> QED BY <2>1, <3>4, <3>5 DEF TriedInv
  <2>5. CASE MarkSent(w) \/ MarkFailed(w)
    <3>1. PICK id \in Id : id = wid[w] BY <2>5 DEF MarkSent, MarkFailed, Inv, Typed
    <3>2. PICK status \in {"pending", "sent", "failed"} : Update(id, status)
      BY <2>5, <3>1 DEF MarkSent, MarkFailed
    <3>3. UNCHANGED <<queue, wid>> /\ wpc' = [wpc EXCEPT ![w] = "ack"]
      BY <2>5 DEF MarkSent, MarkFailed, rq
    <3>4. \A i \in Id : i # id => deliveries'[i] = deliveries[i] BY <3>2, UpdateRow DEF Inv
    <3>5. ~ Untried(id)'
      <4>1. CASE deliveries[id] = None BY <3>2, <4>1 DEF Update, Untried
      <4>2. CASE deliveries[id] # None
        <5>1. PICK row \in Delivery : row = deliveries[id] BY <4>2 DEF Inv, Typed
        <5>2. deliveries' = [deliveries EXCEPT ![id] = [status |-> status, attempts |-> row.attempts + 1]]
          BY <3>2, <4>2, <5>1 DEF Update
        <5>3. deliveries'[id].attempts = row.attempts + 1 BY <5>2 DEF Inv, Typed
        <5>4. row.attempts \in Nat BY DEF Delivery
        <5> QED BY <5>3, <5>4 DEF Untried
      <4> QED BY <4>1, <4>2
    <3>6. \A v \in Workers : v # w => wpc'[v] = wpc[v] BY <3>3 DEF Inv, Typed
    <3>7. ASSUME NEW i \in Id, i # id, Carried(i) PROVE Carried(i)'
      BY <2>1, <3>1, <3>3, <3>6, <3>7 DEF Carried
    <3>8. \A i \in Id : i # id => Untried(i)' = Untried(i) BY <3>4 DEF Untried
    <3> QED BY <2>1, <3>5, <3>7, <3>8 DEF TriedInv
  <2>6. CASE Ack(w)
    <3>1. /\ wpc[w] = "ack" /\ wpc' = [wpc EXCEPT ![w] = "idle"] /\ wid' = [wid EXCEPT ![w] = None]
          /\ UNCHANGED <<deliveries, queue>>
      BY <2>6 DEF Ack, rq
    <3>2. \A v \in Workers : v # w => wpc'[v] = wpc[v] /\ wid'[v] = wid[v] BY <3>1 DEF Inv, Typed
    <3>3. ASSUME NEW i \in Id, Carried(i) PROVE Carried(i)'
      BY <2>1, <3>1, <3>2, <3>3 DEF Carried
    <3>4. \A i \in Id : Untried(i)' = Untried(i) BY <3>1 DEF Untried
    <3> QED BY <2>1, <3>3, <3>4 DEF TriedInv
  <2> QED BY <1>2, <2>3, <2>4, <2>5, <2>6 DEF Work
<1> QED BY <1>1, <1>2

LEMMA StepTried == Inv /\ Tables /\ TriedInv /\ [Next]_vars => TriedInv'
<1> SUFFICES ASSUME Inv, Tables, TriedInv, [Next]_vars PROVE TriedInv' OBVIOUS
<1>1. ASSUME NEW e \in Events, CommitEvent(e) PROVE TriedInv'
  BY <1>1, OutsideTried DEF CommitEvent, Inv, Typed, rq, disp, work
<1>2. CASE \/ \E w \in WatchIds, form \in Forms, c \in Channels : CreateWatch(w, form, c)
           \/ \E w \in WatchIds, form \in Forms, active \in BOOLEAN, c \in Channels :
                UpdateWatch(w, form.value, active, c)
  <2>1. UNCHANGED <<deliveries, queue, scheduled, made, found, wid, wpc, faults, gone>>
    BY <1>2 DEF CreateWatch, UpdateWatch, rq, disp, work
  <2> QED BY <1>2, <2>1, WritesRow, OutsideTried DEF Inv, Typed
<1>3. CASE (\E w \in WatchIds : DeleteWatch(w)) \/ (\E c \in Channels : DeleteChannel(c))
  BY <1>3, DeleteTried
<1>4. ASSUME NEW d \in Dispatchers, Dispatch(d) \/ DispatcherCrash(d) PROVE TriedInv'
  BY <1>4, DispatchTried
<1>5. ASSUME NEW w \in Workers, Work(w) \/ WorkerCrash(w) PROVE TriedInv'
  BY <1>5, WorkTried
<1>6. CASE UNCHANGED vars
  BY <1>6, OutsideTried DEF vars, tables, rq, disp, work, Inv, Typed
<1> QED BY <1>1, <1>2, <1>3, <1>4, <1>5, <1>6 DEF Next

\* A delivery that was recorded and not tried yet has a job, or a process that will
\* give it one, until a process dies or a watch is deleted.
THEOREM NewHasJobAlways == Spec => []NewHasJob
<1>1. Init => Tables /\ TriedInv BY DEF Init, Tables, TriedInv, Untried
<1>2. Inv /\ Tables /\ TriedInv => NewHasJob
  <2> SUFFICES ASSUME Inv, TriedInv, faults = 0, gone = {}, NEW id \in Id, Untried(id)
               PROVE  HasJob(id)
    BY DEF NewHasJob, Untried, TriedInv
  <2>1. Carried(id) BY DEF TriedInv
  <2> QED BY <2>1 DEF Carried, HasJob, Carriers
<1> QED BY <1>1, <1>2, StepTables, StepTried, Invariance, PTL DEF Spec

================================================================================
