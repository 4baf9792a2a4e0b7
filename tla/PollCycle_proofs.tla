---------------------------- MODULE PollCycle_proofs ----------------------------
(***************************************************************************)
(* Theorems about PollCycle, for any days, versions, sweep interval,       *)
(* backoff, outages and errors.                                            *)
(***************************************************************************)
EXTENDS PollCycle, TLAPS

USE PollAssumption

\* What a poll has decided so far still stands.
Locals ==
  /\ pc # "idle" /\ ~due => since <= SweepEvery
  /\ pc = "job" => only = IF due THEN Days ELSE Missing

\* A day that has been waiting since the listing was current shows as new in every
\* listing read from then on: a poll that reads one, or that HEADs the file, sees it.
Newer ==
  \A d \in Days : late[d] >= 1 =>
    /\ index[d] > loaded[d]
    /\ pc \in {"gate", "job"} /\ listing # None => listing[d] > loaded[d]

\* No day waits for longer than the time since the last sweep, and a missing one not
\* beyond a poll whose listing was read too early.
Waits ==
  \A d \in Days :
    /\ late[d] <= since + 1 /\ late[d] <= SweepEvery + 1
    /\ pc # "idle" => late[d] <= since
    /\ loaded[d] = 0 => late[d] <= 1

Inv == TypeOK /\ Locals /\ Newer /\ Waits

--------------------------------------------------------------------------------
(* The pieces of a poll.                                                   *)

LEMMA LeastOf ==
  ASSUME NEW a \in Nat, NEW b \in Nat
  PROVE  Least(a, b) \in Nat /\ Least(a, b) <= a /\ Least(a, b) <= b /\ Least(a, b) \in {a, b}
  BY DEF Least

LEMMA PowerNat == \A n \in 1..5 : Power(n) \in Nat
  BY DEF Power

\* record_failure keeps its counters in bounds.
LEMMA FailureType ==
  ASSUME TypeOK, RecordFailure
  PROVE  failures' \in 0..5 /\ skip' \in 0..MaxBackoff
  <1>1. failures \in 0..5
    BY DEF TypeOK
  <1>2. PICK n : n = Least(failures + 1, 5)
    OBVIOUS
  <1>3. n \in 1..5
    BY <1>1, <1>2 DEF Least
  <1>4. PICK p \in Nat : p = Power(n)
    BY <1>3, PowerNat
  <1>5. failures' = n /\ skip' = Least(p, MaxBackoff)
    BY <1>2, <1>4 DEF RecordFailure
  <1>6. Least(p, MaxBackoff) \in 0..MaxBackoff
    BY LeastOf
  <1>7. QED
    BY <1>3, <1>5, <1>6

\* What the end of a poll does to a day's wait.
LEMMA EndOfPoll ==
  ASSUME TypeOK, NEW how, EndPoll(how), UNCHANGED fcc
  PROVE  /\ pc' = "idle" /\ due' = FALSE /\ listing' = None /\ only' = {}
         /\ late' \in [Days -> 0..(SweepEvery + 2)]
         /\ \A d \in Days :
              \/ late'[d] = 0
              \/ /\ late'[d] <= late[d] + 1 /\ loaded'[d] = loaded[d]
                 /\ up /\ how \in {"ran", "nothing"}
                 /\ index[d] = fcc[d] /\ loaded[d] < index[d]
  <1>1. \A d \in Days : late[d] \in Nat /\ late[d] + 1 \in Nat /\ SweepEvery + 2 \in Nat
    BY DEF TypeOK
  <1>2. \A d \in Days : /\ Least(late[d] + 1, SweepEvery + 2) \in 0..(SweepEvery + 2)
                        /\ Least(late[d] + 1, SweepEvery + 2) <= late[d] + 1
    BY <1>1, LeastOf
  <1>3. \A d \in Days :
          late'[d] = IF d \in Behind' /\ loaded'[d] = loaded[d] /\ up /\ index[d] = fcc[d]
                        /\ how \in {"ran", "nothing"}
                       THEN Least(late[d] + 1, SweepEvery + 2) ELSE 0
    BY DEF EndPoll
  <1>4. late' \in [Days -> 0..(SweepEvery + 2)]
    BY <1>2 DEF EndPoll
  <1>5. \A d \in Days : d \in Behind' => loaded'[d] < fcc[d]
    BY DEF Behind
  <1>6. QED
    BY <1>2, <1>3, <1>4, <1>5 DEF EndPoll

\* A poll that ends without having looked at everything that was asked for.
LEMMA PollEndsOtherwise ==
  ASSUME Inv, NEW how, EndPoll(how), how \notin {"ran", "nothing"}, UNCHANGED fcc, TypeOK'
  PROVE  Inv'
  <1>1. \A d \in Days : late'[d] = 0
    BY EndOfPoll DEF Inv
  <1>2. pc' = "idle" /\ since' \in Nat
    BY DEF EndPoll, TypeOK
  <1>3. QED
    BY <1>1, <1>2 DEF Inv, Locals, Newer, Waits

LEMMA InitInv == Init => Inv
  <1> SUFFICES ASSUME Init PROVE Inv
    OBVIOUS
  <1>1. TypeOK
    <2>1. MaxVersion \in Nat /\ 0 \in Version /\ SweepEvery + 1 \in 0..(SweepEvery + 1) /\ 0 \in 0..(SweepEvery + 2)
      BY DEF Version
    <2>2. /\ fcc \in [Days -> Version] /\ index \in [Days -> Version] /\ loaded \in [Days -> Version]
          /\ late \in [Days -> 0..(SweepEvery + 2)]
      BY <2>1 DEF Init
    <2>3. rev \in {0, 1} /\ age \in 0..RegenEvery
      BY DEF Init
    <2>4. failures \in 0..5 /\ skip \in 0..MaxBackoff /\ since \in 0..(SweepEvery + 1)
      BY <2>1 DEF Init
    <2>5. up \in BOOLEAN /\ due \in BOOLEAN
      BY Zenon DEF Init
    <2>6. QED
      BY <2>2, <2>3, <2>4, <2>5 DEF Init, TypeOK
  <1>2. QED
    BY <1>1 DEF Init, Inv, Locals, Newer, Waits

\* FCC.
LEMMA FeedInv ==
  ASSUME Inv, Regenerate \/ GoDown \/ ComeUp \/ \E d \in Days : Publish(d)
  PROVE  Inv'
  <1>1. UNCHANGED <<loaded, state, poll, outcome, late, busy, errors>>
    BY DEF Regenerate, GoDown, ComeUp, Publish
  <1>2. index' \in [Days -> Version] /\ \A d \in Days : index[d] <= index'[d]
    BY DEF Inv, TypeOK, Version, Regenerate, GoDown, ComeUp, Publish
  <1>3. fcc' \in [Days -> Version]
    BY DEF Inv, TypeOK, Version, Regenerate, GoDown, ComeUp, Publish
  <1>4. rev' \in {0, 1} /\ age' \in 0..RegenEvery /\ up' \in BOOLEAN
    <2>1. rev' \in {rev, NewRev} /\ age' \in {age, 0}
      BY DEF Regenerate, GoDown, ComeUp, Publish
    <2>2. NewRev \in {0, 1}
      BY DEF Inv, TypeOK, NewRev
    <2>3. up' \in BOOLEAN
      BY Zenon DEF Regenerate, GoDown, ComeUp, Publish, Inv, TypeOK
    <2>4. QED
      BY <2>1, <2>2, <2>3 DEF Inv, TypeOK
  <1>5. TypeOK'
    BY <1>1, <1>2, <1>3, <1>4 DEF Inv, TypeOK, state, poll
  <1>6. Newer'
    BY <1>1, <1>2 DEF Inv, TypeOK, Version, Newer, state, poll
  <1>7. QED
    BY <1>1, <1>5, <1>6 DEF Inv, Locals, Waits, Missing, state, poll

LEMMA StartPollInv == ASSUME Inv, StartPoll PROVE Inv'
  <1>1. /\ UNCHANGED <<fcc, index, rev, up, outages, loaded, busy, errors>> /\ pc = "idle"
        /\ age' = Least(age + 1, RegenEvery) /\ since' = Least(since + 1, SweepEvery + 1)
    BY DEF StartPoll
  <1>2. /\ age' \in 0..RegenEvery /\ since' \in 0..(SweepEvery + 1)
        /\ since' = since + 1 \/ since' = SweepEvery + 1
    <2>1. age \in Nat /\ since \in Nat /\ age + 1 \in Nat /\ since + 1 \in Nat /\ SweepEvery + 1 \in Nat
      BY DEF Inv, TypeOK
    <2>2. QED
      BY <1>1, <2>1, LeastOf
  <1>3. CASE skip > 0
    <2>1. skip' = skip - 1 /\ EndPoll("backoff") /\ UNCHANGED <<seen, failures>>
      BY <1>3 DEF StartPoll
    <2>2. TypeOK'
      <3>1. /\ pc' = "idle" /\ due' = FALSE /\ listing' = None /\ only' = {}
            /\ late' \in [Days -> 0..(SweepEvery + 2)]
        BY <1>1, <2>1, EndOfPoll DEF Inv
      <3>2. skip' \in 0..MaxBackoff
        BY <1>3, <2>1 DEF Inv, TypeOK
      <3>3. QED
        BY <1>1, <1>2, <2>1, <3>1, <3>2 DEF Inv, TypeOK
    <2>3. QED
      BY <1>1, <2>1, <2>2, PollEndsOtherwise
  <1>4. CASE ~(skip > 0)
    <2>1. /\ pc' = "fetch" /\ due' \in BOOLEAN /\ (since' > SweepEvery => due')
          /\ UNCHANGED <<seen, failures, skip, listing, only, outcome, late>>
      BY <1>4 DEF StartPoll
    <2>2. due' \in BOOLEAN /\ (~due' => since' <= SweepEvery)
      <3>1. SweepEvery \in Nat /\ since' \in Nat
        BY <1>2
      <3>2. since' > SweepEvery \/ since' <= SweepEvery
        BY <3>1
      <3>3. QED
        BY <2>1, <3>2
    <2>3. TypeOK'
      BY <1>1, <1>2, <2>1, <2>2 DEF Inv, TypeOK
    <2>4. \A d \in Days : late[d] <= since'
      BY <1>2 DEF Inv, Waits, TypeOK
    <2>5. \A d \in Days : late[d] \in Nat
      BY DEF Inv, TypeOK
    <2>6. QED
      BY <1>1, <1>2, <2>1, <2>2, <2>3, <2>4, <2>5 DEF Inv, Locals, Newer, Waits
  <1>5. QED
    BY <1>3, <1>4

LEMMA FetchInv == ASSUME Inv, Fetch PROVE Inv'
  <1>1. /\ UNCHANGED <<feed, loaded, failures, skip, since, due, only, outcome, late, busy, errors>>
        /\ pc = "fetch" /\ pc' = "gate"
        /\ listing' \in {index, None} /\ seen' \in {rev, None, seen}
    BY DEF Fetch
  <1>2. TypeOK'
    BY <1>1 DEF Inv, TypeOK, feed
  <1>3. Newer'
    BY <1>1 DEF Inv, Newer, feed
  <1>4. QED
    BY <1>1, <1>2, <1>3 DEF Inv, Locals, Waits

\* A poll with nothing to do ends: no sweep was due, and no day is missing.
LEMMA GateInv == ASSUME Inv, Gate PROVE Inv'
  <1>1. UNCHANGED <<feed, loaded, seen, since, busy, errors>> /\ pc = "gate"
    BY DEF Gate
  <1>2. CASE listing = None /\ Missing = {} /\ ~due
    <2>1. RecordSuccess /\ EndPoll("nothing")
      BY <1>2 DEF Gate
    <2>2. UNCHANGED fcc
      BY <1>1 DEF feed
    <2>3. TypeOK'
      <3>1. /\ pc' = "idle" /\ due' = FALSE /\ listing' = None /\ only' = {}
            /\ late' \in [Days -> 0..(SweepEvery + 2)]
        BY <2>1, <2>2, EndOfPoll DEF Inv
      <3>2. failures' \in 0..5 /\ skip' \in 0..MaxBackoff
        BY <2>1 DEF RecordSuccess
      <3>3. QED
        BY <1>1, <3>1, <3>2 DEF Inv, TypeOK, feed
    <2>4. since \in Nat /\ since <= SweepEvery
      BY <1>1, <1>2 DEF Inv, TypeOK, Locals
    <2>5. ASSUME NEW d \in Days
          PROVE  /\ late'[d] <= since + 1 /\ late'[d] <= SweepEvery + 1
                 /\ late'[d] >= 1 => index[d] > loaded[d]
                 /\ loaded[d] = 0 => late'[d] <= 1
      <3>1. loaded[d] # 0 /\ late[d] <= since /\ late[d] \in Nat
        BY <1>1, <1>2 DEF Missing, Inv, Waits, TypeOK
      <3>2. late'[d] = 0 \/ (late'[d] <= late[d] + 1 /\ loaded[d] < index[d])
        BY <2>1, <2>2, EndOfPoll DEF Inv
      <3>3. index[d] \in Nat /\ loaded[d] \in Nat /\ late'[d] \in Nat
        BY <2>3 DEF Inv, TypeOK, Version
      <3>4. QED
        BY <2>4, <3>1, <3>2, <3>3
    <2>6. pc' = "idle"
      BY <2>1 DEF EndPoll
    <2>7. QED
      BY <1>1, <2>3, <2>5, <2>6 DEF Inv, Locals, Newer, Waits, feed
  <1>3. CASE ~(listing = None /\ Missing = {} /\ ~due)
    <2>1. /\ pc' = "job" /\ only' = IF due THEN Days ELSE Missing
          /\ UNCHANGED <<failures, skip, due, listing, outcome, late>>
      BY <1>3 DEF Gate
    <2>2. TypeOK'
      BY <1>1, <2>1 DEF Inv, TypeOK, Missing, feed
    <2>3. QED
      BY <1>1, <2>1, <2>2 DEF Inv, Locals, Newer, Waits, Missing, feed
  <1>4. QED
    BY <1>2, <1>3

\* A pass over the pending days ends: it has loaded every day that was waiting and that
\* it was asked for, if FCC could be reached.
LEMMA JobInv == ASSUME Inv, Job PROVE Inv'
  <1>1. /\ UNCHANGED <<feed, seen, busy, errors>> /\ pc = "job"
        /\ loaded' = [d \in Days |-> IF d \in Pending THEN Meta(d) ELSE loaded[d]]
        /\ since' = IF due THEN 0 ELSE since
        /\ RecordSuccess /\ EndPoll("ran") /\ UNCHANGED fcc
    BY DEF Job, feed
  <1>2. ASSUME NEW d \in Days
        PROVE  Meta(d) \in Version
    BY DEF Meta, Inv, TypeOK, Version
  <1>3. /\ loaded' \in [Days -> Version]
        /\ \A d \in Days : loaded'[d] = loaded[d] \/ (d \in Pending /\ loaded'[d] = Meta(d) /\ loaded'[d] > loaded[d])
    <2>1. \A d \in Days : loaded[d] \in Version
      BY DEF Inv, TypeOK
    <2>2. QED
      BY <1>1, <1>2, <2>1 DEF Pending
  <1>4. TypeOK'
    <2>1. /\ pc' = "idle" /\ due' = FALSE /\ listing' = None /\ only' = {}
          /\ late' \in [Days -> 0..(SweepEvery + 2)]
      BY <1>1, EndOfPoll DEF Inv
    <2>2. since' \in 0..(SweepEvery + 1)
      BY <1>1 DEF Inv, TypeOK
    <2>3. failures' \in 0..5 /\ skip' \in 0..MaxBackoff
      BY <1>1 DEF RecordSuccess
    <2>4. QED
      BY <1>1, <1>3, <2>1, <2>2, <2>3 DEF Inv, TypeOK, feed
  <1>5. ASSUME NEW d \in Days, late[d] >= 1, due \/ loaded[d] = 0
        PROVE  late'[d] = 0
    <2>1. only # {} /\ d \in only
      BY <1>1, <1>5 DEF Inv, Locals, Missing
    <2>2. CASE listing # None
      <3>1. Meta(d) > loaded[d]
        BY <1>1, <1>5, <2>2 DEF Inv, Newer, Meta
      <3>2. d \in Pending
        BY <2>1, <3>1 DEF Pending
      <3>3. loaded'[d] # loaded[d]
        BY <1>1, <1>2, <3>1, <3>2 DEF Inv, TypeOK, Version
      <3>4. QED
        BY <1>1, <3>3, EndOfPoll DEF Inv
    <2>3. CASE listing = None
      <3>1. CASE late'[d] # 0
        <4>1. up /\ index[d] = fcc[d] /\ loaded[d] < index[d] /\ loaded'[d] = loaded[d]
          BY <1>1, <3>1, EndOfPoll DEF Inv
        <4>2. Meta(d) > loaded[d]
          BY <2>1, <2>3, <4>1 DEF Meta, Inv, TypeOK, Version
        <4>3. d \in Pending
          BY <2>1, <4>2 DEF Pending
        <4>4. QED
          BY <1>1, <1>2, <4>1, <4>2, <4>3 DEF Inv, TypeOK, Version
      <3>2. QED
        BY <3>1
    <2>4. QED
      BY <2>2, <2>3
  <1>6. ASSUME NEW d \in Days
        PROVE  /\ late'[d] <= since' + 1 /\ late'[d] <= SweepEvery + 1
               /\ late'[d] >= 1 => index[d] > loaded'[d]
               /\ loaded'[d] = 0 => late'[d] <= 1
    <2>1. /\ late[d] \in Nat /\ late'[d] \in Nat /\ index[d] \in Nat /\ since \in Nat
          /\ loaded[d] \in Nat /\ loaded'[d] \in Nat
      BY <1>4 DEF Inv, TypeOK, Version
    <2>2. late[d] <= since /\ (~due => since <= SweepEvery)
      BY <1>1 DEF Inv, Waits, Locals
    <2>3. late'[d] = 0 \/ (late'[d] <= late[d] + 1 /\ loaded'[d] = loaded[d] /\ loaded[d] < index[d])
      BY <1>1, EndOfPoll DEF Inv
    <2>4. CASE due
      BY <1>1, <1>5, <2>1, <2>3, <2>4
    <2>5. CASE ~due
      BY <1>1, <1>5, <2>1, <2>2, <2>3, <2>5
    <2>6. QED
      BY <2>4, <2>5
  <1>7. pc' = "idle"
    BY <1>1 DEF EndPoll
  <1>8. QED
    BY <1>1, <1>4, <1>6, <1>7 DEF Inv, Locals, Newer, Waits, feed

\* A pass that fails half way, or finds the lock held.
LEMMA JobEndsInv == ASSUME Inv, JobSkipped \/ JobFails \/ GateFails PROVE Inv'
  <1>1. PICK how \in {"locked", "failed"} : EndPoll(how)
    BY DEF JobSkipped, JobFails, GateFails
  <1>2. UNCHANGED <<feed, seen>> /\ since' \in {since, 0}
    BY DEF JobSkipped, JobFails, GateFails
  <1>3. failures' \in 0..5 /\ skip' \in 0..MaxBackoff
    BY FailureType DEF Inv, JobSkipped, JobFails, GateFails, RecordSuccess
  <1>4. loaded' \in [Days -> Version]
    <2>1. \A d \in Days : loaded[d] \in Version /\ Meta(d) \in Version
      BY DEF Inv, TypeOK, Meta, Version
    <2>2. QED
      BY <2>1 DEF JobSkipped, JobFails, GateFails, Inv, TypeOK
  <1>5. TypeOK'
    <2>1. /\ pc' = "idle" /\ due' = FALSE /\ listing' = None /\ only' = {}
          /\ late' \in [Days -> 0..(SweepEvery + 2)]
      BY <1>1, <1>2, EndOfPoll DEF Inv, feed
    <2>2. since' \in 0..(SweepEvery + 1)
      BY <1>2 DEF Inv, TypeOK
    <2>3. QED
      BY <1>2, <1>3, <1>4, <2>1, <2>2 DEF Inv, TypeOK, feed
  <1>6. QED
    BY <1>1, <1>2, <1>5, PollEndsOtherwise DEF feed

LEMMA StepInv == Inv /\ [Next]_vars => Inv'
  <1> SUFFICES ASSUME Inv, [Next]_vars PROVE Inv'
    OBVIOUS
  <1>1. CASE UNCHANGED vars
    BY <1>1 DEF vars, feed, state, poll, Inv, TypeOK, Locals, Newer, Waits, Missing
  <1>2. CASE Next
    BY <1>2, FeedInv, StartPollInv, FetchInv, GateInv, JobInv, JobEndsInv DEF Next, Poll
  <1>3. QED
    BY <1>1, <1>2

THEOREM Invariance == Spec => []Inv
  BY InitInv, StepInv, PTL DEF Spec

\* The backoff, the sweep's clock and the locals of a poll stay in their bounds.
THEOREM TypeCorrect == Spec => []TypeOK
  BY Invariance, PTL DEF Inv

\* run_poll_cycle: while the listing is current and FCC can be reached, a missing day
\* waits for two polls at most and a republication for a sweep, whatever outages,
\* failures and stale listings came before.
THEOREM LatencyBoundAlways == Spec => []LatencyBound
  <1>1. Inv => LatencyBound
    BY DEF Inv, Waits, LatencyBound
  <1>2. QED
    BY <1>1, Invariance, PTL

================================================================================
