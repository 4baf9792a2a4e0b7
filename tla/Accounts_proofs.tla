---------------------------- MODULE Accounts_proofs ----------------------------
(***************************************************************************)
(* Theorems about Accounts, for every pool, cap, limit and number of       *)
(* users, requests and restarts.                                           *)
(***************************************************************************)
EXTENDS Accounts, SequenceTheorems, FiniteSetTheorems, TLAPS

Job == [channel : Nat, state : {"queued", "started", "finished", "failed"}]

Types ==
  /\ users \in Seq(Emails \cup {None})
  /\ tokens \in Seq(Token \cup {None})
  /\ channels \in Seq(Channel \cup {None})
  /\ watches \in Seq(Watch \cup {None})
  /\ sessions \subseteq DOMAIN users
  /\ limit \in [Limits -> [hits : Nat, expires : BOOLEAN]]
  /\ jobs \in Seq(Job)
  /\ worker \in [job : Nat, pc : {"load", "send", "mark"}] \cup {None}
  /\ req \in [Pool -> Request \cup {None}]
  /\ requests \in Nat /\ crashes \in Nat
  /\ signIns \in Seq(Nat) /\ Len(signIns) = Len(tokens)

\* The foreign keys, and the unique addresses.
Keys ==
  /\ \A u, v \in Ids(users) : users[u] = users[v] => u = v
  /\ \A t \in Ids(tokens) : tokens[t].user \in Ids(users)
  /\ \A ch \in Ids(channels) : channels[ch].user \in Ids(users)
  /\ \A w \in Ids(watches) : watches[w].user \in Ids(users) /\ watches[w].channel \in Ids(channels)
  /\ \A j \in DOMAIN jobs : jobs[j].channel \in DOMAIN channels
  /\ worker # None => worker.job \in DOMAIN jobs

\* A request names rows there are or were, and what its earlier statements have found
\* out is still so, or the row is gone.
Sound(r) ==
  \/ r \in LinkRequest /\ (r.user = None \/ r.user \in DOMAIN users)
  \/ r \in MailRequest /\ r.token \in DOMAIN tokens
  \/ /\ r \in VerifyRequest /\ r.token \in DOMAIN tokens /\ r.user \in DOMAIN users
     /\ r.pc = "consume" => r.unused
     /\ ~r.unused => tokens[r.token] = None \/ tokens[r.token].consumed
  \/ r \in ChannelRequest /\ r.user \in DOMAIN users
  \/ r \in DropRequest
  \/ r \in TestRequest /\ r.channel \in DOMAIN channels
  \/ /\ r \in WatchRequest /\ r.user \in DOMAIN users /\ r.channel \in DOMAIN channels
     /\ r.pc = "insert" => channels[r.channel] = None \/ channels[r.channel].user = r.user
  \/ r \in UnwatchRequest
  \/ /\ r \in WaitRequest /\ r.job \in DOMAIN jobs /\ r.channel = jobs[r.job].channel
     /\ r.pc = "verify" => r.channel \in arrived

ReqInv == \A c \in Pool : req[c] # None => Sound(req[c])

\* A link that has signed somebody in is used, or gone with its user.
LinkInv == \A t \in DOMAIN tokens : signIns[t] > 0 => tokens[t] = None \/ tokens[t].consumed

\* What is marked as come through has come through, and what is finished is marked.
ArriveInv ==
  /\ VerifiedArrived
  /\ \A j \in DOMAIN jobs : jobs[j].state = "finished" => jobs[j].channel \in arrived
  /\ worker # None => (worker.pc = "mark" => jobs[worker.job].channel \in arrived)

IInv == Types /\ Keys /\ ReqInv /\ LinkInv /\ OwnChannelOnly /\ ArriveInv

--------------------------------------------------------------------------------
(* Tables.                                                                 *)

\* Where the rows of a table are.
LEMMA Rows ==
  ASSUME NEW S, NEW t \in Seq(S)
  PROVE  /\ Len(t) \in Nat /\ DOMAIN t = 1..Len(t)
         /\ \A i \in DOMAIN t : t[i] \in S
         /\ \A i \in Ids(t) : t[i] # None /\ i \in DOMAIN t
  <1>1. Len(t) \in Nat /\ DOMAIN t = 1..Len(t)
    BY LenProperties
  <1>2. \A i \in 1..Len(t) : t[i] \in S
    BY ElementOfSeq
  <1>3. QED
    BY <1>1, <1>2 DEF Ids

\* An INSERT.
LEMMA Insert ==
  ASSUME NEW S, NEW t \in Seq(S), NEW row \in S, row # None
  PROVE  /\ Append(t, row) \in Seq(S)
         /\ Len(Append(t, row)) = Len(t) + 1
         /\ DOMAIN Append(t, row) = DOMAIN t \cup {Len(t) + 1}
         /\ Ids(Append(t, row)) = Ids(t) \cup {Len(t) + 1}
         /\ Len(t) + 1 \notin DOMAIN t
         /\ \A i \in DOMAIN t : Append(t, row)[i] = t[i]
         /\ Append(t, row)[Len(t) + 1] = row
  <1> DEFINE s == Append(t, row)
  <1>1. /\ s \in Seq(S) /\ Len(s) = Len(t) + 1
        /\ \A i \in 1..Len(t) : s[i] = t[i]
        /\ s[Len(t) + 1] = row
    BY AppendProperties
  <1>2. Len(t) \in Nat /\ DOMAIN t = 1..Len(t) /\ DOMAIN s = 1..Len(s)
    BY <1>1, LenProperties
  <1> HIDE DEF s
  <1>3. DOMAIN s = DOMAIN t \cup {Len(t) + 1} /\ Len(t) + 1 \notin DOMAIN t
    BY <1>1, <1>2
  <1>4. Ids(s) = Ids(t) \cup {Len(t) + 1}
    BY <1>1, <1>2, <1>3 DEF Ids
  <1>5. QED
    BY <1>1, <1>2, <1>3, <1>4 DEF s

\* An UPDATE of one row.
LEMMA Update ==
  ASSUME NEW S, NEW n \in Nat, NEW s \in [1..n -> S]
  PROVE  s \in Seq(S) /\ DOMAIN s = 1..n /\ Len(s) = n
  <1>1. s \in Seq(S) /\ DOMAIN s = 1..n
    BY SeqDef
  <1>2. PICK m \in Nat : m = Len(s) /\ DOMAIN s = 1..m
    BY <1>1, LenProperties
  <1>3. m = n
    BY <1>1, <1>2
  <1>4. QED
    BY <1>1, <1>2, <1>3

\* A DELETE.
LEMMA Deletion ==
  ASSUME NEW S, None \in S, NEW t \in Seq(S), NEW gone
  PROVE  /\ Without(t, gone) \in Seq(S)
         /\ DOMAIN Without(t, gone) = DOMAIN t
         /\ Len(Without(t, gone)) = Len(t)
         /\ Ids(Without(t, gone)) = Ids(t) \ gone
         /\ \A i \in DOMAIN t : Without(t, gone)[i] = IF i \in gone THEN None ELSE t[i]
  <1> DEFINE s == Without(t, gone)
  <1>1. Len(t) \in Nat /\ DOMAIN t = 1..Len(t) /\ t \in [1..Len(t) -> S]
    BY LenProperties
  <1>2. s \in [1..Len(t) -> S]
    BY <1>1 DEF Without
  <1>3. s \in Seq(S) /\ DOMAIN s = DOMAIN t /\ Len(s) = Len(t)
    BY <1>1, <1>2, Update
  <1>4. \A i \in DOMAIN t : s[i] = IF i \in gone THEN None ELSE t[i]
    BY DEF Without
  <1> HIDE DEF s
  <1>5. Ids(s) = Ids(t) \ gone
    BY <1>3, <1>4 DEF Ids
  <1>6. QED
    BY <1>3, <1>4, <1>5 DEF s

\* Rows and jobs are numbered.
LEMMA Numbered ==
  ASSUME Types
  PROVE  /\ Len(users) \in Nat /\ DOMAIN users = 1..Len(users)
         /\ Len(tokens) \in Nat /\ DOMAIN tokens = 1..Len(tokens)
         /\ Len(channels) \in Nat /\ DOMAIN channels = 1..Len(channels)
         /\ Len(watches) \in Nat /\ DOMAIN watches = 1..Len(watches)
         /\ Len(jobs) \in Nat /\ DOMAIN jobs = 1..Len(jobs)
  <1>1. Len(users) \in Nat /\ DOMAIN users = 1..Len(users)
    BY LenProperties DEF Types
  <1>2. Len(tokens) \in Nat /\ DOMAIN tokens = 1..Len(tokens)
    BY LenProperties DEF Types
  <1>3. Len(channels) \in Nat /\ DOMAIN channels = 1..Len(channels)
    BY LenProperties DEF Types
  <1>4. Len(watches) \in Nat /\ DOMAIN watches = 1..Len(watches)
    BY LenProperties DEF Types
  <1>5. Len(jobs) \in Nat /\ DOMAIN jobs = 1..Len(jobs)
    BY LenProperties DEF Types
  <1>6. QED
    BY <1>1, <1>2, <1>3, <1>4, <1>5

\* No row and no request is None.
LEMMA NoneIsNoRow ==
  /\ None \notin Emails /\ None \notin Token /\ None \notin Channel /\ None \notin Watch
  /\ None \notin Request
  BY ConstAssumption
--------------------------------------------------------------------------------
(* What one request has found out is not undone by another.                *)

\* Rows are added and deleted, never given to another user; links stay used; jobs keep
\* their channel; what has come through has come through.
Grows ==
  /\ DOMAIN users \subseteq DOMAIN users'
  /\ \A t \in DOMAIN tokens :
       /\ t \in DOMAIN tokens'
       /\ tokens'[t] = None \/ (tokens[t] # None /\ (tokens[t].consumed => tokens'[t].consumed))
  /\ \A ch \in DOMAIN channels :
       /\ ch \in DOMAIN channels'
       /\ channels'[ch] = None \/ (channels[ch] # None /\ channels'[ch].user = channels[ch].user)
  /\ \A j \in DOMAIN jobs : j \in DOMAIN jobs' /\ jobs'[j].channel = jobs[j].channel
  /\ arrived \subseteq arrived'

LEMMA NothingGrows == UNCHANGED <<db, jobs, arrived>> => Grows
  BY DEF Grows, db

\* What is known of a sound request of each shape.
LEMMA SoundMeans ==
  ASSUME NEW r, Sound(r)
  PROVE  /\ r \in Request
         /\ r \in LinkRequest => r.user = None \/ r.user \in DOMAIN users
         /\ r \in MailRequest => r.token \in DOMAIN tokens
         /\ r \in VerifyRequest =>
              /\ r.token \in DOMAIN tokens /\ r.user \in DOMAIN users
              /\ r.pc = "consume" => r.unused
              /\ ~r.unused => tokens[r.token] = None \/ tokens[r.token].consumed
         /\ r \in ChannelRequest => r.user \in DOMAIN users
         /\ r \in TestRequest => r.channel \in DOMAIN channels
         /\ r \in WatchRequest =>
              /\ r.user \in DOMAIN users /\ r.channel \in DOMAIN channels
              /\ r.pc = "insert" => channels[r.channel] = None \/ channels[r.channel].user = r.user
         /\ r \in WaitRequest =>
              /\ r.job \in DOMAIN jobs /\ r.channel = jobs[r.job].channel
              /\ r.pc = "verify" => r.channel \in arrived
  <1>1. r \in LinkRequest => r.op = "link" /\ r.pc \in {"limit", "expire", "select", "insert_token"}
    BY DEF LinkRequest
  <1>2. r \in MailRequest => r.op = "link" /\ r.pc = "mail"
    BY DEF MailRequest
  <1>3. r \in VerifyRequest => r.op = "verify"
    BY DEF VerifyRequest
  <1>4. r \in ChannelRequest => r.op = "channel"
    BY DEF ChannelRequest
  <1>5. r \in DropRequest => r.op = "drop"
    BY DEF DropRequest
  <1>6. r \in TestRequest => r.op = "test" /\ r.pc \in {"auth", "limit", "expire", "own", "enqueue"}
    BY DEF TestRequest
  <1>7. r \in WaitRequest => r.op = "test" /\ r.pc \in {"wait", "verify"}
    BY DEF WaitRequest
  <1>8. r \in WatchRequest => r.op = "watch"
    BY DEF WatchRequest
  <1>9. r \in UnwatchRequest => r.op = "unwatch"
    BY DEF UnwatchRequest
  <1>10. QED
    BY <1>1, <1>2, <1>3, <1>4, <1>5, <1>6, <1>7, <1>8, <1>9 DEF Sound, Request

\* A request that does not move stays sound.
LEMMA SoundStays ==
  ASSUME Grows, NEW r, Sound(r)
  PROVE  Sound(r)'
  <1>1. CASE r \in LinkRequest /\ (r.user = None \/ r.user \in DOMAIN users)
    BY <1>1 DEF Grows, Sound
  <1>2. CASE r \in MailRequest /\ r.token \in DOMAIN tokens
    BY <1>2 DEF Grows, Sound
  <1>3. CASE /\ r \in VerifyRequest /\ r.token \in DOMAIN tokens /\ r.user \in DOMAIN users
             /\ r.pc = "consume" => r.unused
             /\ ~r.unused => tokens[r.token] = None \/ tokens[r.token].consumed
    <2>1. ~r.unused => tokens'[r.token] = None \/ tokens'[r.token].consumed
      BY <1>3 DEF Grows
    <2>2. r.token \in DOMAIN tokens' /\ r.user \in DOMAIN users'
      BY <1>3 DEF Grows
    <2>3. QED
      BY <1>3, <2>1, <2>2 DEF Sound
  <1>4. CASE r \in ChannelRequest /\ r.user \in DOMAIN users
    BY <1>4 DEF Grows, Sound
  <1>5. CASE r \in DropRequest \/ r \in UnwatchRequest
    BY <1>5 DEF Sound
  <1>6. CASE r \in TestRequest /\ r.channel \in DOMAIN channels
    BY <1>6 DEF Grows, Sound
  <1>7. CASE /\ r \in WatchRequest /\ r.user \in DOMAIN users /\ r.channel \in DOMAIN channels
             /\ r.pc = "insert" => channels[r.channel] = None \/ channels[r.channel].user = r.user
    <2>1. r.pc = "insert" => channels'[r.channel] = None \/ channels'[r.channel].user = r.user
      BY <1>7 DEF Grows
    <2>2. r.user \in DOMAIN users' /\ r.channel \in DOMAIN channels'
      BY <1>7 DEF Grows
    <2>3. QED
      BY <1>7, <2>1, <2>2 DEF Sound
  <1>8. CASE /\ r \in WaitRequest /\ r.job \in DOMAIN jobs /\ r.channel = jobs[r.job].channel
             /\ r.pc = "verify" => r.channel \in arrived
    BY <1>8 DEF Grows, Sound
  <1>9. QED
    BY <1>1, <1>2, <1>3, <1>4, <1>5, <1>6, <1>7, <1>8 DEF Sound

\* One connection gets a sound request, or none; the others keep theirs.
LEMMA NewRequest ==
  ASSUME Types, ReqInv, Grows, NEW c \in Pool, NEW r,
         req' = [req EXCEPT ![c] = r], r = None \/ Sound(r)'
  PROVE  ReqInv' /\ req' \in [Pool -> Request \cup {None}]
  <1>1. req \in [Pool -> Request \cup {None}]
    BY DEF Types
  <1>2. r = None \/ r \in Request
    BY DEF Sound, Request
  <1>3. \A d \in Pool : req'[d] = IF d = c THEN r ELSE req[d]
    BY <1>1
  <1>4. ASSUME NEW d \in Pool, req'[d] # None PROVE Sound(req[d])'
    <2>1. CASE d = c
      BY <1>3, <1>4, <2>1 DEF Sound
    <2>2. CASE d # c
      <3>1. PICK q : q = req[d]
        OBVIOUS
      <3>2. q # None /\ Sound(q)
        BY <1>3, <1>4, <2>2, <3>1 DEF ReqInv
      <3>3. Sound(q)' /\ req'[d] = q
        BY <1>3, <2>2, <3>1, <3>2, SoundStays
      <3>4. QED
        BY <3>3 DEF Sound
    <2>3. QED
      BY <2>1, <2>2
  <1>5. QED
    BY <1>1, <1>2, <1>4 DEF ReqInv

\* What a request may have been, given where it is.
LEMMA RequestAt ==
  ASSUME IInv, NEW c \in Pool, NEW pc, At(c, pc), NEW r, r = req[c]
  PROVE  r # None /\ Sound(r) /\ r.pc = pc
  BY DEF IInv, ReqInv, At

\* A step that touches no table and no job.
LEMMA Quiet ==
  ASSUME IInv, UNCHANGED <<db, jobs, worker, ghosts>>, sessions' \subseteq DOMAIN users,
         limit' \in [Limits -> [hits : Nat, expires : BOOLEAN]],
         requests' \in Nat, crashes' \in Nat,
         ReqInv', req' \in [Pool -> Request \cup {None}]
  PROVE  IInv'
  BY DEF IInv, Types, Keys, LinkInv, OwnChannelOnly, ArriveInv, VerifiedArrived, db, ghosts, Ids

\* The same, of one request, which goes on to r.
LEMMA QuietMove ==
  ASSUME IInv, UNCHANGED <<db, jobs, worker, ghosts, sessions, requests, crashes>>,
         limit' \in [Limits -> [hits : Nat, expires : BOOLEAN]],
         NEW c \in Pool, NEW r, req' = [req EXCEPT ![c] = r], r = None \/ Sound(r)
  PROVE  IInv'
  <1>1. Grows
    BY NothingGrows DEF ghosts
  <1>2. ReqInv' /\ req' \in [Pool -> Request \cup {None}]
    BY <1>1, NewRequest, SoundStays DEF IInv
  <1>3. QED
    BY <1>2, Quiet DEF IInv, Types

--------------------------------------------------------------------------------
(* Requests, limits and counts: no table changes.                          *)

\* What a browser asks for is sound.
LEMMA AskedIsSound == ASSUME IInv, NEW r \in Asked PROVE Sound(r)
  <1>1. sessions \subseteq DOMAIN users /\ DOMAIN users \subseteq Nat
    BY Numbered DEF IInv, Types
  <1>2. DOMAIN channels \subseteq Nat /\ DOMAIN watches \subseteq Nat
    BY Numbered DEF IInv
  <1>3. CASE \E e \in Emails : r = [op |-> "link", email |-> e, user |-> None, pc |-> "limit"]
    BY <1>3 DEF Sound, LinkRequest
  <1>4. ASSUME NEW t \in Ids(tokens),
               r = [op |-> "verify", token |-> t, user |-> tokens[t].user, pc |-> "check",
                    unused |-> ~tokens[t].consumed]
        PROVE  Sound(r)
    <2>1. t \in DOMAIN tokens /\ t \in Nat /\ tokens[t] \in Token
      <3>1. tokens \in Seq(Token \cup {None})
        BY DEF IInv, Types
      <3>2. QED
        BY <3>1, Rows, Numbered DEF IInv
    <2>2. tokens[t].user \in DOMAIN users /\ tokens[t].consumed \in BOOLEAN /\ tokens[t].user \in Nat
      BY <2>1 DEF IInv, Keys, Ids, Token
    <2>3. r \in VerifyRequest
      BY <1>4, <2>1, <2>2 DEF VerifyRequest
    <2>4. r.token = t /\ r.user = tokens[t].user /\ r.pc = "check" /\ (~r.unused => tokens[t].consumed)
      BY <1>4, <2>2
    <2>5. QED
      BY <2>1, <2>2, <2>3, <2>4 DEF Sound
  <1>5. CASE \E u \in sessions : r = [op |-> "channel", user |-> u, pc |-> "auth"]
    BY <1>1, <1>5 DEF Sound, ChannelRequest
  <1>6. ASSUME NEW o \in {"drop", "test", "watch"}, NEW u \in sessions, NEW ch \in DOMAIN channels,
               r = [op |-> o, user |-> u, channel |-> ch, pc |-> "auth"]
        PROVE  Sound(r)
    <2>1. u \in DOMAIN users /\ u \in Nat /\ ch \in Nat
      BY <1>1, <1>2
    <2>2. r.user = u /\ r.channel = ch /\ r.pc = "auth"
      BY <1>6
    <2>3. r \in DropRequest \/ r \in TestRequest \/ r \in WatchRequest
      BY <1>6, <2>1 DEF DropRequest, TestRequest, WatchRequest
    <2>4. QED
      BY <2>1, <2>2, <2>3 DEF Sound
  <1>7. CASE \E u \in sessions, w \in DOMAIN watches :
               r = [op |-> "unwatch", user |-> u, watch |-> w, pc |-> "auth"]
    BY <1>1, <1>2, <1>7 DEF Sound, UnwatchRequest
  <1>8. QED
    BY <1>3, <1>4, <1>5, <1>6, <1>7 DEF Asked

LEMMA BeginInv == ASSUME IInv, NEW c \in Pool, Begin(c) PROVE IInv'
  <1>1. PICK r \in Asked : req' = [req EXCEPT ![c] = r]
    BY DEF Begin
  <1>2. Sound(r)
    BY AskedIsSound
  <1>3. ReqInv' /\ req' \in [Pool -> Request \cup {None}]
    <2>1. Grows
      BY NothingGrows DEF Begin, ghosts
    <2>2. QED
      BY <1>1, <1>2, <2>1, NewRequest, SoundStays DEF IInv
  <1>4. QED
    BY <1>3, Quiet DEF Begin, IInv, Types

\* Which requests are at which statement.
Shape(r) ==
  /\ r.pc = "auth" => r \in ChannelRequest \cup DropRequest \cup TestRequest \cup WatchRequest \cup UnwatchRequest
  /\ r.pc \in {"limit", "expire"} => r \in LinkRequest \cup TestRequest
  /\ r.pc \in {"select", "insert_token"} => r \in LinkRequest
  /\ r.pc = "mail" => r \in MailRequest
  /\ r.pc \in {"check", "consume"} => r \in VerifyRequest
  /\ r.pc \in {"count", "insert"} => r \in ChannelRequest \cup WatchRequest
  /\ r.pc = "own" => r \in TestRequest \cup WatchRequest
  /\ r.pc = "enqueue" => r \in TestRequest
  /\ r.pc = "delete" => r \in DropRequest \cup UnwatchRequest
  /\ r.pc \in {"wait", "verify"} => r \in WaitRequest

LEMMA ShapeOfSound == \A r : Sound(r) => Shape(r)
  BY DEF Sound, Shape, LinkRequest, MailRequest, VerifyRequest, ChannelRequest, DropRequest,
         TestRequest, WaitRequest, WatchRequest, UnwatchRequest

\* A request goes on, with nothing new to vouch for.
LEMMA Onward ==
  ASSUME NEW q, Sound(q), NEW pc, NEW r, r = [q EXCEPT !.pc = pc],
         \/ q \in LinkRequest /\ pc \in {"expire", "select", "insert_token"}
         \/ q \in ChannelRequest /\ pc \in {"count", "insert"}
         \/ q \in DropRequest \cup UnwatchRequest /\ pc = "delete"
         \/ q \in TestRequest /\ pc \in {"limit", "expire", "own", "enqueue"}
         \/ q \in WatchRequest /\ pc \in {"count", "own"}
  PROVE  Sound(r)
  <1>1. CASE q \in LinkRequest /\ pc \in {"expire", "select", "insert_token"}
    <2>1. r \in LinkRequest /\ r.user = q.user
      BY <1>1 DEF LinkRequest
    <2>2. QED
      BY <1>1, <2>1, SoundMeans DEF Sound
  <1>2. CASE q \in ChannelRequest /\ pc \in {"count", "insert"}
    <2>1. r \in ChannelRequest /\ r.user = q.user
      BY <1>2 DEF ChannelRequest
    <2>2. QED
      BY <1>2, <2>1, SoundMeans DEF Sound
  <1>3. CASE q \in DropRequest \cup UnwatchRequest /\ pc = "delete"
    BY <1>3 DEF Sound, DropRequest, UnwatchRequest
  <1>4. CASE q \in TestRequest /\ pc \in {"limit", "expire", "own", "enqueue"}
    <2>1. r \in TestRequest /\ r.channel = q.channel
      BY <1>4 DEF TestRequest
    <2>2. QED
      BY <1>4, <2>1, SoundMeans DEF Sound
  <1>5. CASE q \in WatchRequest /\ pc \in {"count", "own"}
    <2>1. r \in WatchRequest /\ r.channel = q.channel /\ r.user = q.user /\ r.pc # "insert"
      BY <1>5 DEF WatchRequest
    <2>2. QED
      BY <1>5, <2>1, SoundMeans DEF Sound
  <1>6. QED
    BY <1>1, <1>2, <1>3, <1>4, <1>5

LEMMA AuthenticateInv == ASSUME IInv, NEW c \in Pool, Authenticate(c) PROVE IInv'
  <1>1. PICK q : q = req[c]
    OBVIOUS
  <1>2. Sound(q) /\ q.pc = "auth"
    BY <1>1, RequestAt DEF Authenticate
  <1>3. q \in ChannelRequest \cup DropRequest \cup TestRequest \cup WatchRequest \cup UnwatchRequest
    BY <1>2, ShapeOfSound DEF Shape
  <1>4. CASE users[q.user] = None
    BY <1>1, <1>4, QuietMove DEF Authenticate, Answer, ghosts, IInv, Types
  <1>5. CASE users[q.user] # None
    <2>1. PICK pc : pc = CASE q.op = "test" -> "limit"
                           [] q.op \in {"channel", "watch"} -> "count"
                           [] OTHER -> "delete"
      OBVIOUS
    <2>2. PICK r : r = [q EXCEPT !.pc = pc]
      OBVIOUS
    <2>3. req' = [req EXCEPT ![c] = r]
      BY <1>1, <1>5, <2>1, <2>2 DEF Authenticate, Goto
    <2>4. Sound(r)
      <3>1. q \in ChannelRequest => pc = "count"
        BY <2>1 DEF ChannelRequest
      <3>2. q \in DropRequest \cup UnwatchRequest => pc = "delete"
        BY <2>1 DEF DropRequest, UnwatchRequest
      <3>3. q \in TestRequest => pc = "limit"
        BY <2>1 DEF TestRequest
      <3>4. q \in WatchRequest => pc = "count"
        BY <2>1 DEF WatchRequest
      <3>5. QED
        BY <1>2, <1>3, <2>2, <3>1, <3>2, <3>3, <3>4, Onward
    <2>5. QED
      BY <2>3, <2>4, QuietMove DEF Authenticate, ghosts, IInv, Types
  <1>6. QED
    BY <1>4, <1>5

\* The step of a request that a limit lets through.
LEMMA AdmittedIsSound ==
  ASSUME NEW q, Sound(q), q.pc \in {"limit", "expire"},
         NEW r, r = [q EXCEPT !.pc = IF q.op = "link" THEN "select" ELSE "own"]
  PROVE  Sound(r)
  <1>1. q \in LinkRequest \cup TestRequest
    BY ShapeOfSound DEF Shape
  <1>2. (q \in LinkRequest => q.op = "link") /\ (q \in TestRequest => q.op # "link")
    BY DEF LinkRequest, TestRequest
  <1>3. QED
    BY <1>1, <1>2, Onward

LEMMA IncrInv == ASSUME IInv, NEW c \in Pool, Incr(c) PROVE IInv'
  <1>1. PICK q : q = req[c]
    OBVIOUS
  <1>2. Sound(q) /\ q.pc = "limit" /\ q \in LinkRequest \cup TestRequest
    BY <1>1, RequestAt, ShapeOfSound DEF Incr, Shape
  <1>3. limit' \in [Limits -> [hits : Nat, expires : BOOLEAN]]
    <2>1. PICK k : k = Key(req[c])
      OBVIOUS
    <2>2. limit' = [limit EXCEPT ![k].hits = limit[k].hits + 1] /\ limit \in [Limits -> [hits : Nat, expires : BOOLEAN]]
      BY <2>1 DEF Incr, IInv, Types
    <2>3. CASE k \in Limits
      BY <2>2, <2>3
    <2>4. CASE k \notin Limits
      BY <2>2, <2>4
    <2>5. QED
      BY <2>3, <2>4
  <1>4. PICK r : req' = [req EXCEPT ![c] = r]
                 /\ \/ r = None
                    \/ r = [q EXCEPT !.pc = "expire"]
                    \/ r = [q EXCEPT !.pc = IF q.op = "link" THEN "select" ELSE "own"]
    BY <1>1 DEF Incr, Answer, Admitted, Goto
  <1>5. r = None \/ Sound(r)
    BY <1>2, <1>4, Onward, AdmittedIsSound
  <1>6. QED
    BY <1>3, <1>4, <1>5, QuietMove DEF Incr, ghosts

LEMMA ExpireInv == ASSUME IInv, NEW c \in Pool, Expire(c) PROVE IInv'
  <1>1. PICK q : q = req[c]
    OBVIOUS
  <1>2. Sound(q) /\ q.pc = "expire"
    BY <1>1, RequestAt DEF Expire
  <1>3. limit' \in [Limits -> [hits : Nat, expires : BOOLEAN]]
    BY DEF Expire, IInv, Types
  <1>4. PICK r : r = [q EXCEPT !.pc = IF q.op = "link" THEN "select" ELSE "own"]
    OBVIOUS
  <1>5. req' = [req EXCEPT ![c] = r] /\ Sound(r)
    BY <1>1, <1>2, <1>4, AdmittedIsSound DEF Expire, Admitted, Goto
  <1>6. QED
    BY <1>3, <1>5, QuietMove DEF Expire, ghosts

LEMMA SelectUserInv == ASSUME IInv, NEW c \in Pool, SelectUser(c) PROVE IInv'
  <1>1. PICK q : q = req[c]
    OBVIOUS
  <1>2. Sound(q) /\ q \in LinkRequest
    BY <1>1, RequestAt, ShapeOfSound DEF SelectUser, Shape
  <1>3. PICK u : u = LET found == {v \in Ids(users) : users[v] = q.email}
                     IN  IF found = {} THEN None ELSE CHOOSE v \in found : TRUE
    OBVIOUS
  <1>4. u = None \/ (u \in DOMAIN users /\ u \in Nat)
    <2>1. u = None \/ u \in Ids(users)
      BY <1>3
    <2>2. QED
      BY <2>1, Numbered DEF IInv, Ids
  <1>5. PICK r : r = [q EXCEPT !.pc = "insert_token", !.user = u]
    OBVIOUS
  <1>6. req' = [req EXCEPT ![c] = r]
    BY <1>1, <1>3, <1>5 DEF SelectUser
  <1>7. r \in LinkRequest /\ r.user = u
    BY <1>2, <1>4, <1>5 DEF LinkRequest
  <1>8. Sound(r)
    BY <1>4, <1>7 DEF Sound
  <1>9. QED
    BY <1>6, <1>8, QuietMove DEF SelectUser, ghosts, IInv, Types

LEMMA CheckTokenInv == ASSUME IInv, NEW c \in Pool, CheckToken(c) PROVE IInv'
  <1>1. PICK q : q = req[c]
    OBVIOUS
  <1>2. Sound(q) /\ q \in VerifyRequest
    BY <1>1, RequestAt, ShapeOfSound DEF CheckToken, Shape
  <1>3. PICK r : /\ req' = [req EXCEPT ![c] = r]
                 /\ \/ r = None
                    \/ /\ r = [q EXCEPT !.pc = "consume"]
                       /\ tokens[q.token] # None /\ ~tokens[q.token].consumed
    BY <1>1 DEF CheckToken, Answer, Goto
  <1>4. ASSUME r # None PROVE Sound(r)
    <2>1. r \in VerifyRequest /\ r.token = q.token /\ r.user = q.user /\ r.unused = q.unused
      BY <1>2, <1>3, <1>4 DEF VerifyRequest
    <2>2. q.unused \in BOOLEAN
      BY <1>2 DEF VerifyRequest
    <2>3. q.unused /\ q.token \in DOMAIN tokens /\ q.user \in DOMAIN users
      BY <1>2, <1>3, <1>4, <2>2, SoundMeans
    <2>4. QED
      BY <2>1, <2>3 DEF Sound
  <1>5. QED
    BY <1>3, <1>4, QuietMove DEF CheckToken, ghosts, IInv, Types

LEMMA CountInv == ASSUME IInv, NEW c \in Pool, Count(c) PROVE IInv'
  <1>1. PICK q : q = req[c]
    OBVIOUS
  <1>2. Sound(q) /\ q \in ChannelRequest \cup WatchRequest
    BY <1>1, RequestAt, ShapeOfSound DEF Count, Shape
  <1>3. PICK r : /\ req' = [req EXCEPT ![c] = r]
                 /\ \/ r = None
                    \/ r = [q EXCEPT !.pc = IF q.op = "channel" THEN "insert" ELSE "own"]
    BY <1>1 DEF Count, Answer, Goto
  <1>4. (q \in ChannelRequest => q.op = "channel") /\ (q \in WatchRequest => q.op # "channel")
    BY DEF ChannelRequest, WatchRequest
  <1>5. r = None \/ Sound(r)
    BY <1>2, <1>3, <1>4, Onward
  <1>6. QED
    BY <1>3, <1>5, QuietMove DEF Count, ghosts, IInv, Types

LEMMA OwnChannelInv == ASSUME IInv, NEW c \in Pool, OwnChannel(c) PROVE IInv'
  <1>1. PICK q : q = req[c]
    OBVIOUS
  <1>2. Sound(q) /\ q \in TestRequest \cup WatchRequest
    BY <1>1, RequestAt, ShapeOfSound DEF OwnChannel, Shape
  <1>3. PICK r : /\ req' = [req EXCEPT ![c] = r]
                 /\ \/ r = None
                    \/ /\ r = [q EXCEPT !.pc = IF q.op = "test" THEN "enqueue" ELSE "insert"]
                       /\ q.channel \in ChannelsOf(q.user)
    BY <1>1 DEF OwnChannel, Answer, Goto
  <1>4. CASE r # None /\ q \in TestRequest
    <2>1. q.op = "test"
      BY <1>4 DEF TestRequest
    <2>2. Sound(r)
      BY <1>2, <1>3, <1>4, <2>1, Onward
    <2>3. QED
      BY <1>3, <2>2, QuietMove DEF OwnChannel, ghosts, IInv, Types
  <1>5. CASE r # None /\ q \in WatchRequest
    <2>1. r \in WatchRequest /\ r.user = q.user /\ r.channel = q.channel
      BY <1>3, <1>5 DEF WatchRequest
    <2>2. channels[q.channel].user = q.user
      BY <1>3, <1>5 DEF ChannelsOf
    <2>3. Sound(r)
      BY <1>2, <1>5, <2>1, <2>2, SoundMeans DEF Sound
    <2>4. QED
      BY <1>3, <2>3, QuietMove DEF OwnChannel, ghosts, IInv, Types
  <1>6. CASE r = None
    BY <1>3, <1>6, QuietMove DEF OwnChannel, ghosts, IInv, Types
  <1>7. QED
    BY <1>2, <1>4, <1>5, <1>6

LEMMA WaitInv == ASSUME IInv, NEW c \in Pool, Wait(c) PROVE IInv'
  <1>1. PICK q : q = req[c]
    OBVIOUS
  <1>2. Sound(q) /\ q \in WaitRequest
    BY <1>1, RequestAt, ShapeOfSound DEF Wait, Shape
  <1>3. PICK r : /\ req' = [req EXCEPT ![c] = r]
                 /\ \/ r = None
                    \/ r = [q EXCEPT !.pc = "verify"] /\ jobs[q.job].state = "finished"
    BY <1>1 DEF Wait, Answer, Goto
  <1>4. ASSUME r # None PROVE Sound(r)
    <2>1. r \in WaitRequest /\ r.channel = q.channel /\ r.job = q.job
      BY <1>2, <1>3, <1>4 DEF WaitRequest
    <2>2. q.job \in DOMAIN jobs /\ q.channel = jobs[q.job].channel
      BY <1>2, SoundMeans
    <2>3. q.channel \in arrived
      BY <1>3, <1>4, <2>2 DEF IInv, ArriveInv
    <2>4. QED
      BY <2>1, <2>2, <2>3 DEF Sound
  <1>5. QED
    BY <1>3, <1>4, QuietMove DEF Wait, ghosts, IInv, Types

\* A window ends, somebody signs out, the API restarts.
LEMMA EnvironmentInv ==
  ASSUME IInv, Restart \/ (\E k \in Limits : WindowEnds(k)) \/ (\E u \in sessions : Logout(u))
  PROVE  IInv'
  <1>1. Fresh \in [hits : Nat, expires : BOOLEAN]
    BY DEF Fresh
  <1>2. limit' \in [Limits -> [hits : Nat, expires : BOOLEAN]]
    BY <1>1 DEF Restart, WindowEnds, Logout, IInv, Types
  <1>3. UNCHANGED <<db, jobs, worker, ghosts>> /\ sessions' \subseteq DOMAIN users
    BY DEF Restart, WindowEnds, Logout, IInv, Types
  <1>4. requests' \in Nat /\ crashes' \in Nat
    BY DEF Restart, WindowEnds, Logout, IInv, Types
  <1>5. req' \in [Pool -> Request \cup {None}] /\ \A c \in Pool : req'[c] = None \/ req'[c] = req[c]
    BY DEF Restart, WindowEnds, Logout, IInv, Types
  <1>6. ReqInv'
    <2> SUFFICES ASSUME NEW c \in Pool, req'[c] # None PROVE Sound(req[c])'
      BY DEF ReqInv
    <2>1. PICK q : q = req[c]
      OBVIOUS
    <2>2. Sound(q) /\ req'[c] = q
      BY <1>5, <2>1 DEF IInv, ReqInv
    <2>3. Sound(q)'
      BY <1>3, <2>2, NothingGrows, SoundStays DEF ghosts
    <2>4. QED
      BY <2>2, <2>3 DEF Sound
  <1>7. QED
    BY <1>2, <1>3, <1>4, <1>5, <1>6, Quiet
--------------------------------------------------------------------------------
(* Deletions: what goes, and what goes with it.                            *)

LEMMA NothingDeleted == ASSUME NEW R, NEW t \in Seq(R) PROVE Without(t, {}) = t
  <1>1. t = [i \in DOMAIN t |-> t[i]]
    BY LenProperties
  <1>2. QED
    BY <1>1 DEF Without

\* Rows go from every table; no row that stays names one that goes.
LEMMA DeletionKeeps ==
  ASSUME IInv, UNCHANGED <<jobs, worker, ghosts>>,
         NEW U, NEW T, NEW C, NEW W,
         users' = Without(users, U), tokens' = Without(tokens, T),
         channels' = Without(channels, C), watches' = Without(watches, W),
         \A t \in Ids(tokens) \ T : tokens[t].user \notin U,
         \A ch \in Ids(channels) \ C : channels[ch].user \notin U,
         \A w \in Ids(watches) \ W : watches[w].user \notin U /\ watches[w].channel \notin C
  PROVE  /\ users' \in Seq(Emails \cup {None}) /\ tokens' \in Seq(Token \cup {None})
         /\ channels' \in Seq(Channel \cup {None}) /\ watches' \in Seq(Watch \cup {None})
         /\ DOMAIN users' = DOMAIN users /\ Len(tokens') = Len(tokens)
         /\ Grows /\ Keys' /\ LinkInv' /\ OwnChannelOnly' /\ ArriveInv'
  <1>1. /\ users' \in Seq(Emails \cup {None}) /\ DOMAIN users' = DOMAIN users
        /\ Ids(users') = Ids(users) \ U
        /\ \A i \in Ids(users') : users'[i] = users[i]
    <2>1. users \in Seq(Emails \cup {None})
      BY DEF IInv, Types
    <2>2. /\ users' \in Seq(Emails \cup {None}) /\ DOMAIN users' = DOMAIN users /\ Len(users') = Len(users)
          /\ Ids(users') = Ids(users) \ U
          /\ \A i \in DOMAIN users : users'[i] = IF i \in U THEN None ELSE users[i]
      BY <2>1, Deletion
    <2>3. \A i \in Ids(users') : i \in DOMAIN users /\ i \notin U
      BY <2>2 DEF Ids
    <2>4. QED
      BY <2>2, <2>3
  <1>2. /\ tokens' \in Seq(Token \cup {None}) /\ DOMAIN tokens' = DOMAIN tokens /\ Len(tokens') = Len(tokens)
        /\ Ids(tokens') = Ids(tokens) \ T
        /\ \A i \in DOMAIN tokens : tokens'[i] = None \/ tokens'[i] = tokens[i]
        /\ \A i \in Ids(tokens') : tokens'[i] = tokens[i]
    <2>1. tokens \in Seq(Token \cup {None})
      BY DEF IInv, Types
    <2>2. /\ tokens' \in Seq(Token \cup {None}) /\ DOMAIN tokens' = DOMAIN tokens /\ Len(tokens') = Len(tokens)
          /\ Ids(tokens') = Ids(tokens) \ T
          /\ \A i \in DOMAIN tokens : tokens'[i] = IF i \in T THEN None ELSE tokens[i]
      BY <2>1, Deletion
    <2>3. \A i \in Ids(tokens') : i \in DOMAIN tokens /\ i \notin T
      BY <2>2 DEF Ids
    <2>4. QED
      BY <2>2, <2>3
  <1>3. /\ channels' \in Seq(Channel \cup {None}) /\ DOMAIN channels' = DOMAIN channels
        /\ Ids(channels') = Ids(channels) \ C
        /\ \A i \in DOMAIN channels : channels'[i] = None \/ channels'[i] = channels[i]
        /\ \A i \in Ids(channels') : channels'[i] = channels[i]
    <2>1. channels \in Seq(Channel \cup {None})
      BY DEF IInv, Types
    <2>2. /\ channels' \in Seq(Channel \cup {None}) /\ DOMAIN channels' = DOMAIN channels /\ Len(channels') = Len(channels)
          /\ Ids(channels') = Ids(channels) \ C
          /\ \A i \in DOMAIN channels : channels'[i] = IF i \in C THEN None ELSE channels[i]
      BY <2>1, Deletion
    <2>3. \A i \in Ids(channels') : i \in DOMAIN channels /\ i \notin C
      BY <2>2 DEF Ids
    <2>4. QED
      BY <2>2, <2>3
  <1>4. /\ watches' \in Seq(Watch \cup {None})
        /\ Ids(watches') = Ids(watches) \ W
        /\ \A i \in Ids(watches') : watches'[i] = watches[i]
    <2>1. watches \in Seq(Watch \cup {None})
      BY DEF IInv, Types
    <2>2. /\ watches' \in Seq(Watch \cup {None}) /\ DOMAIN watches' = DOMAIN watches /\ Len(watches') = Len(watches)
          /\ Ids(watches') = Ids(watches) \ W
          /\ \A i \in DOMAIN watches : watches'[i] = IF i \in W THEN None ELSE watches[i]
      BY <2>1, Deletion
    <2>3. \A i \in Ids(watches') : i \in DOMAIN watches /\ i \notin W
      BY <2>2 DEF Ids
    <2>4. QED
      BY <2>2, <2>3
  <1> USE DEF IInv
  <1>5. Grows
    BY <1>1, <1>2, <1>3 DEF Grows, ghosts
  <1>6. Keys'
    <2>1. \A u, v \in Ids(users') : users'[u] = users'[v] => u = v
      BY <1>1 DEF Keys
    <2>2. \A t \in Ids(tokens') : tokens'[t].user \in Ids(users')
      BY <1>1, <1>2 DEF Keys
    <2>3. \A ch \in Ids(channels') : channels'[ch].user \in Ids(users')
      BY <1>1, <1>3 DEF Keys
    <2>4. \A w \in Ids(watches') : watches'[w].user \in Ids(users') /\ watches'[w].channel \in Ids(channels')
      BY <1>1, <1>3, <1>4 DEF Keys
    <2>5. QED
      BY <1>3, <2>1, <2>2, <2>3, <2>4 DEF Keys, Ids
  <1>7. LinkInv'
    BY <1>2 DEF LinkInv, ghosts
  <1>8. OwnChannelOnly'
    <2>1. ASSUME NEW w \in Ids(watches') \ edited
          PROVE  channels'[watches'[w].channel].user = watches'[w].user
      <3>1. w \in Ids(watches) \ W /\ watches'[w] = watches[w] /\ watches[w].channel \in Ids(channels')
        BY <1>3, <1>4, <2>1 DEF Keys
      <3>2. channels'[watches[w].channel] = channels[watches[w].channel]
        BY <1>3, <3>1
      <3>3. QED
        BY <2>1, <3>1, <3>2 DEF OwnChannelOnly
    <2>2. QED
      BY <2>1 DEF OwnChannelOnly, ghosts, Ids
  <1>9. ArriveInv'
    <2>1. \A ch \in Ids(channels') : channels'[ch].verified => ch \in arrived
      BY <1>3 DEF ArriveInv, VerifiedArrived
    <2>2. ASSUME NEW j \in DOMAIN jobs, jobs[j].state = "finished", channels'[jobs[j].channel] # None
          PROVE  channels'[jobs[j].channel].verified
      <3>1. jobs[j].channel \in DOMAIN channels
        BY DEF Keys
      <3>2. channels'[jobs[j].channel] = channels[jobs[j].channel]
        BY <1>3, <2>2, <3>1
      <3>3. QED
        BY <2>2, <3>2 DEF ArriveInv, VerifiedArrived
    <2>3. QED
      BY <2>1, <2>2 DEF ArriveInv, VerifiedArrived, ghosts, Ids
  <1>10. QED
    BY <1>1, <1>2, <1>3, <1>4, <1>5, <1>6, <1>7, <1>8, <1>9

\* DELETE of a channel or a watch by its user, or of nothing.
LEMMA DeleteInv == ASSUME IInv, NEW c \in Pool, Delete(c) PROVE IInv'
  <1>1. PICK r : r = req[c]
    OBVIOUS
  <1>2. PICK C : C = IF r.op = "drop" THEN {r.channel} \cap ChannelsOf(r.user) ELSE {}
    OBVIOUS
  <1>3. PICK W : W = (IF r.op = "unwatch" THEN {r.watch} \cap WatchesOf(r.user) ELSE {}) \cup On(C)
    OBVIOUS
  <1>4. /\ channels' = Without(channels, C) /\ watches' = Without(watches, W)
        /\ req' = [req EXCEPT ![c] = None]
        /\ UNCHANGED <<users, tokens, sessions, limit, jobs, worker, requests, crashes, ghosts>>
    BY <1>1, <1>2, <1>3 DEF Delete, Answer
  <1>5. users' = Without(users, {}) /\ tokens' = Without(tokens, {})
    BY <1>4, NothingDeleted DEF IInv, Types
  <1>6. \A w \in Ids(watches) \ W : watches[w].channel \notin C
    BY <1>3 DEF On
  <1>7. /\ tokens' \in Seq(Token \cup {None})
        /\ channels' \in Seq(Channel \cup {None}) /\ watches' \in Seq(Watch \cup {None})
        /\ Grows /\ Keys' /\ LinkInv' /\ OwnChannelOnly' /\ ArriveInv'
    BY <1>4, <1>5, <1>6, DeletionKeeps
  <1>8. ReqInv' /\ req' \in [Pool -> Request \cup {None}]
    BY <1>4, <1>7, NewRequest DEF IInv
  <1>9. QED
    BY <1>4, <1>7, <1>8 DEF IInv, Types, ghosts

\* The requests, when rows change under them and none of them moves.
LEMMA UnmovedRequests ==
  ASSUME IInv, Grows, UNCHANGED req
  PROVE  ReqInv' /\ req' \in [Pool -> Request \cup {None}]
  <1>1. ASSUME NEW c \in Pool, req[c] # None PROVE Sound(req[c])'
    <2>1. PICK q : q = req[c]
      OBVIOUS
    <2>2. Sound(q)' /\ req'[c] = q
      BY <1>1, <2>1, SoundStays DEF IInv, ReqInv
    <2>3. QED
      BY <2>2 DEF Sound
  <1>2. QED
    BY <1>1 DEF ReqInv, IInv, Types

\* ON DELETE CASCADE.
LEMMA DeleteUserInv == ASSUME IInv, NEW u \in Ids(users), DeleteUser(u) PROVE IInv'
  <1>1. PICK T : T = {t \in Ids(tokens) : tokens[t].user = u}
    OBVIOUS
  <1>2. PICK C : C = ChannelsOf(u)
    OBVIOUS
  <1>3. PICK W : W = WatchesOf(u) \cup On(C)
    OBVIOUS
  <1>4. /\ users' = Without(users, {u}) /\ tokens' = Without(tokens, T)
        /\ channels' = Without(channels, C) /\ watches' = Without(watches, W)
        /\ requests' \in Nat
        /\ UNCHANGED <<sessions, limit, jobs, worker, req, crashes, ghosts>>
    BY <1>1, <1>2, <1>3 DEF DeleteUser, IInv, Types
  <1>5. /\ \A t \in Ids(tokens) \ T : tokens[t].user \notin {u}
        /\ \A ch \in Ids(channels) \ C : channels[ch].user \notin {u}
        /\ \A w \in Ids(watches) \ W : watches[w].user \notin {u} /\ watches[w].channel \notin C
    BY <1>1, <1>2, <1>3 DEF ChannelsOf, WatchesOf, On
  <1>6. /\ users' \in Seq(Emails \cup {None}) /\ tokens' \in Seq(Token \cup {None})
        /\ channels' \in Seq(Channel \cup {None}) /\ watches' \in Seq(Watch \cup {None})
        /\ DOMAIN users' = DOMAIN users /\ Len(tokens') = Len(tokens)
        /\ Grows /\ Keys' /\ LinkInv' /\ OwnChannelOnly' /\ ArriveInv'
    BY <1>4, <1>5, DeletionKeeps
  <1>7. ReqInv' /\ req' \in [Pool -> Request \cup {None}]
    BY <1>4, <1>6, UnmovedRequests
  <1>8. QED
    BY <1>4, <1>6, <1>7 DEF IInv, Types, ghosts

LEMMA DeleteWatchInv == ASSUME IInv, NEW w \in Ids(watches), DeleteWatchAdmin(w) PROVE IInv'
  <1>1. /\ users' = Without(users, {}) /\ tokens' = Without(tokens, {}) /\ channels' = Without(channels, {})
    BY NothingDeleted DEF DeleteWatchAdmin, IInv, Types
  <1>2. /\ watches' = Without(watches, {w}) /\ requests' \in Nat
        /\ UNCHANGED <<users, tokens, channels, sessions, limit, jobs, worker, req, crashes, ghosts>>
    BY DEF DeleteWatchAdmin, IInv, Types
  <1>3. watches' \in Seq(Watch \cup {None}) /\ Grows /\ Keys' /\ LinkInv' /\ OwnChannelOnly' /\ ArriveInv'
    BY <1>1, <1>2, DeletionKeeps
  <1>4. ReqInv' /\ req' \in [Pool -> Request \cup {None}]
    BY <1>2, <1>3, UnmovedRequests
  <1>5. QED
    BY <1>2, <1>3, <1>4 DEF IInv, Types, ghosts

--------------------------------------------------------------------------------
(* Insertions and updates.                                                 *)

\* A new row is not None.
LEMMA NewRows ==
  ASSUME NEW u \in Nat, NEW ch \in Nat, NEW b \in BOOLEAN
  PROVE  /\ [user |-> u, consumed |-> b, mailed |-> FALSE] \in Token \ {None}
         /\ [user |-> u, verified |-> b] \in Channel \ {None}
         /\ [user |-> u, channel |-> ch] \in Watch \ {None}
  <1>1. [user |-> u, consumed |-> b, mailed |-> FALSE] \in Token
    BY DEF Token
  <1>2. [user |-> u, verified |-> b] \in Channel
    BY DEF Channel
  <1>3. [user |-> u, channel |-> ch] \in Watch
    BY DEF Watch
  <1>4. QED
    BY <1>1, <1>2, <1>3, NoneIsNoRow

\* A new channel, of a user there is.
LEMMA InsertChannelInv == ASSUME IInv, NEW c \in Pool, InsertChannel(c) PROVE IInv'
  <1>1. PICK q : q = req[c]
    OBVIOUS
  <1>2. Sound(q) /\ q \in ChannelRequest
    <2>1. Sound(q) /\ q \in ChannelRequest \cup WatchRequest /\ q.op = "channel"
      BY <1>1, RequestAt, ShapeOfSound DEF InsertChannel, Shape
    <2>2. QED
      BY <2>1 DEF WatchRequest
  <1>3. q.user \in DOMAIN users /\ q.user \in Nat
    BY <1>2, SoundMeans, Numbered DEF IInv
  <1>4. req' = [req EXCEPT ![c] = None]
    BY DEF InsertChannel, Answer
  <1>5. CASE users[q.user] = None
    BY <1>1, <1>4, <1>5, QuietMove DEF InsertChannel, db, ghosts, IInv, Types
  <1>6. CASE users[q.user] # None
    <2>1. PICK row \in Channel : row = [user |-> q.user, verified |-> FALSE] /\ row # None
      BY <1>3, NewRows
    <2>2. /\ channels' = Append(channels, row)
          /\ UNCHANGED <<users, tokens, watches, sessions, limit, jobs, worker, requests, crashes, ghosts>>
      BY <1>1, <1>6, <2>1 DEF InsertChannel
    <2>3. channels \in Seq(Channel \cup {None}) /\ row \in Channel \cup {None}
      BY DEF IInv, Types
    <2>4. /\ channels' \in Seq(Channel \cup {None})
          /\ DOMAIN channels' = DOMAIN channels \cup {Len(channels) + 1}
          /\ Ids(channels') = Ids(channels) \cup {Len(channels) + 1}
          /\ Len(channels) + 1 \notin DOMAIN channels
          /\ \A i \in DOMAIN channels : channels'[i] = channels[i]
          /\ channels'[Len(channels) + 1] = row
      <3>1. PICK S : S = Channel \cup {None}
        OBVIOUS
      <3>2. channels \in Seq(S) /\ row \in S /\ row # None /\ channels' = Append(channels, row)
        BY <2>1, <2>2, <2>3, <3>1
      <3>3. QED
        BY <3>1, <3>2, Insert
    <2>5. Grows
      BY <2>2, <2>4 DEF Grows, ghosts
    <2>6. ReqInv' /\ req' \in [Pool -> Request \cup {None}]
      BY <1>4, <2>5, NewRequest DEF IInv
    <2>7. Ids(channels) \subseteq DOMAIN channels
      BY DEF Ids
    <2>8. Keys'
      <3>1. q.user \in Ids(users)
        BY <1>3, <1>6 DEF Ids
      <3>2. \A ch \in Ids(channels') : channels'[ch].user \in Ids(users)
        BY <2>1, <2>4, <2>7, <3>1 DEF IInv, Keys
      <3>3. QED
        BY <2>2, <2>4, <3>2 DEF IInv, Keys, Ids
    <2>9. OwnChannelOnly'
      <3>1. \A w \in Ids(watches) : channels'[watches[w].channel] = channels[watches[w].channel]
        BY <2>4, <2>7 DEF IInv, Keys
      <3>2. QED
        BY <2>2, <3>1 DEF IInv, OwnChannelOnly, Ids, ghosts
    <2>10. ArriveInv'
      <3>1. \A ch \in Ids(channels') : channels'[ch].verified => ch \in arrived
        BY <2>1, <2>4, <2>7 DEF IInv, ArriveInv, VerifiedArrived
      <3>2. \A j \in DOMAIN jobs : channels'[jobs[j].channel] = channels[jobs[j].channel]
        BY <2>4 DEF IInv, Keys
      <3>3. QED
        BY <2>2, <3>1, <3>2 DEF IInv, ArriveInv, VerifiedArrived, Ids, ghosts
    <2>11. LinkInv'
      BY <2>2 DEF IInv, LinkInv, ghosts
    <2>12. Types'
      BY <2>2, <2>4, <2>6 DEF IInv, Types, ghosts
    <2>13. QED
      BY <2>6, <2>8, <2>9, <2>10, <2>11, <2>12 DEF IInv
  <1>7. QED
    BY <1>5, <1>6

\* A new watch, of a user and on a channel there are; whose the channel is was asked
\* before and cannot have changed.
LEMMA InsertWatchInv == ASSUME IInv, NEW c \in Pool, InsertWatch(c) PROVE IInv'
  <1>1. PICK q : q = req[c]
    OBVIOUS
  <1>2. Sound(q) /\ q \in WatchRequest /\ q.pc = "insert"
    <2>1. Sound(q) /\ q \in ChannelRequest \cup WatchRequest /\ q.op = "watch" /\ q.pc = "insert"
      BY <1>1, RequestAt, ShapeOfSound DEF InsertWatch, Shape
    <2>2. QED
      BY <2>1 DEF ChannelRequest
  <1>3. /\ q.user \in DOMAIN users /\ q.user \in Nat
        /\ q.channel \in DOMAIN channels /\ q.channel \in Nat
        /\ channels[q.channel] = None \/ channels[q.channel].user = q.user
    BY <1>2, SoundMeans, Numbered DEF IInv
  <1>4. req' = [req EXCEPT ![c] = None]
    BY DEF InsertWatch, Answer
  <1>5. CASE UNCHANGED watches
    BY <1>1, <1>4, <1>5, QuietMove DEF InsertWatch, db, ghosts, IInv, Types
  <1>6. CASE ~ UNCHANGED watches
    <2>1. PICK row \in Watch : row = [user |-> q.user, channel |-> q.channel] /\ row # None
      BY <1>3, NewRows
    <2>2. /\ watches' = Append(watches, row)
          /\ users[q.user] # None /\ channels[q.channel] # None
          /\ UNCHANGED <<users, tokens, channels, sessions, limit, jobs, worker, requests, crashes, ghosts>>
      BY <1>1, <1>6, <2>1 DEF InsertWatch
    <2>3. watches \in Seq(Watch \cup {None}) /\ row \in Watch \cup {None}
      BY DEF IInv, Types
    <2>4. /\ watches' \in Seq(Watch \cup {None})
          /\ Ids(watches') = Ids(watches) \cup {Len(watches) + 1}
          /\ \A i \in DOMAIN watches : watches'[i] = watches[i]
          /\ watches'[Len(watches) + 1] = row
      <3>1. PICK S : S = Watch \cup {None}
        OBVIOUS
      <3>2. watches \in Seq(S) /\ row \in S /\ row # None /\ watches' = Append(watches, row)
        BY <2>1, <2>2, <2>3, <3>1
      <3>3. QED
        BY <3>1, <3>2, Insert
    <2>5. Grows
      BY <2>2 DEF Grows, ghosts
    <2>6. ReqInv' /\ req' \in [Pool -> Request \cup {None}]
      BY <1>4, <2>5, NewRequest DEF IInv
    <2>7. Ids(watches) \subseteq DOMAIN watches
      BY DEF Ids
    <2>8. Keys'
      <3>1. q.user \in Ids(users) /\ q.channel \in Ids(channels)
        BY <1>3, <2>2 DEF Ids
      <3>2. \A w \in Ids(watches') : watches'[w].user \in Ids(users) /\ watches'[w].channel \in Ids(channels)
        BY <2>1, <2>4, <2>7, <3>1 DEF IInv, Keys
      <3>3. QED
        BY <2>2, <3>2 DEF IInv, Keys, Ids
    <2>9. OwnChannelOnly'
      <3>1. \A w \in Ids(watches') \ edited : channels[watches'[w].channel].user = watches'[w].user
        BY <1>3, <2>1, <2>2, <2>4, <2>7 DEF IInv, OwnChannelOnly
      <3>2. QED
        BY <2>2, <3>1 DEF OwnChannelOnly, Ids, ghosts
    <2>10. ArriveInv' /\ LinkInv'
      BY <2>2 DEF IInv, ArriveInv, VerifiedArrived, LinkInv, Ids, ghosts
    <2>11. Types'
      BY <2>2, <2>4, <2>6 DEF IInv, Types, ghosts
    <2>12. QED
      BY <2>6, <2>8, <2>9, <2>10, <2>11 DEF IInv
  <1>7. QED
    BY <1>5, <1>6

\* A token changes, but not whose it is and not from used to unused.
LEMMA TokenUpdate ==
  ASSUME IInv, NEW t \in Ids(tokens), NEW row \in Token, tokens' = [tokens EXCEPT ![t] = row],
         row.user = tokens[t].user, tokens[t].consumed => row.consumed,
         UNCHANGED <<users, channels, watches, jobs, arrived>>
  PROVE  /\ tokens' \in Seq(Token \cup {None}) /\ Len(tokens') = Len(tokens)
         /\ DOMAIN tokens' = DOMAIN tokens /\ Grows
         /\ tokens'[t] = row /\ \A i \in DOMAIN tokens \ {t} : tokens'[i] = tokens[i]
         /\ \A i \in Ids(tokens') : tokens'[i].user \in Ids(users)
  <1>1. tokens \in Seq(Token \cup {None}) /\ row \in Token \cup {None} /\ row # None
    BY NoneIsNoRow DEF IInv, Types
  <1>2. /\ tokens' \in Seq(Token \cup {None}) /\ Len(tokens') = Len(tokens)
        /\ DOMAIN tokens' = DOMAIN tokens /\ Ids(tokens') = Ids(tokens)
        /\ tokens'[t] = row /\ \A i \in DOMAIN tokens \ {t} : tokens'[i] = tokens[i]
    <2>1. /\ DOMAIN tokens = 1..Len(tokens) /\ Len(tokens) \in Nat /\ t \in DOMAIN tokens
          /\ tokens \in [1..Len(tokens) -> Token \cup {None}]
      BY <1>1, LenProperties DEF Ids
    <2>2. /\ tokens' \in [1..Len(tokens) -> Token \cup {None}] /\ tokens'[t] = row
          /\ \A i \in DOMAIN tokens \ {t} : tokens'[i] = tokens[i]
      BY <1>1, <2>1
    <2>3. tokens' \in Seq(Token \cup {None}) /\ DOMAIN tokens' = DOMAIN tokens /\ Len(tokens') = Len(tokens)
      BY <2>1, <2>2, Update
    <2>4. QED
      BY <1>1, <2>2, <2>3 DEF Ids
  <1>3. t \in DOMAIN tokens /\ tokens[t] # None /\ Ids(tokens) \subseteq DOMAIN tokens
    BY DEF Ids
  <1>4. Grows
    BY <1>2, <1>3 DEF Grows
  <1>5. \A i \in Ids(tokens') : tokens'[i].user \in Ids(users)
    BY <1>2, <1>3 DEF IInv, Keys
  <1>6. QED
    BY <1>2, <1>4, <1>5

\* The link is in the mail.
LEMMA MailInv == ASSUME IInv, NEW c \in Pool, Mail(c) PROVE IInv'
  <1>1. PICK q : q = req[c]
    OBVIOUS
  <1>2. q.token \in DOMAIN tokens
    BY <1>1, RequestAt, ShapeOfSound, SoundMeans DEF Mail, Shape
  <1>3. req' = [req EXCEPT ![c] = None]
    BY DEF Mail, Answer
  <1>4. CASE UNCHANGED tokens
    BY <1>3, <1>4, QuietMove DEF Mail, db, ghosts, IInv, Types
  <1>5. CASE ~ UNCHANGED tokens
    <2>1. tokens' = [tokens EXCEPT ![q.token].mailed = TRUE] /\ q.token \in Ids(tokens)
      BY <1>1, <1>2, <1>5 DEF Mail, Ids
    <2>2. tokens[q.token] \in Token
      <3>1. tokens \in Seq(Token \cup {None})
        BY DEF IInv, Types
      <3>2. QED
        BY <2>1, <3>1, Rows
    <2>3. PICK row \in Token : row = [tokens[q.token] EXCEPT !.mailed = TRUE]
      BY <2>2 DEF Token
    <2>4. row.user = tokens[q.token].user /\ row.consumed = tokens[q.token].consumed
      BY <2>2, <2>3 DEF Token
    <2>5. tokens' = [tokens EXCEPT ![q.token] = row]
      BY <2>1, <2>3
    <2>6. UNCHANGED <<users, channels, watches, sessions, limit, jobs, worker, requests, crashes, ghosts>>
      BY DEF Mail
    <2>7. /\ tokens' \in Seq(Token \cup {None}) /\ Len(tokens') = Len(tokens)
          /\ DOMAIN tokens' = DOMAIN tokens /\ Grows
          /\ tokens'[q.token] = row /\ \A i \in DOMAIN tokens \ {q.token} : tokens'[i] = tokens[i]
          /\ \A i \in Ids(tokens') : tokens'[i].user \in Ids(users)
      BY <2>1, <2>4, <2>5, <2>6, TokenUpdate DEF ghosts
    <2>8. ReqInv' /\ req' \in [Pool -> Request \cup {None}]
      BY <1>3, <2>7, NewRequest DEF IInv
    <2>9. LinkInv'
      <3>1. tokens[q.token] # None
        BY <2>1 DEF Ids
      <3>2. QED
        BY <2>4, <2>6, <2>7, <3>1 DEF IInv, LinkInv, ghosts
    <2>10. Keys'
      BY <2>6, <2>7 DEF IInv, Keys, Ids
    <2>11. OwnChannelOnly' /\ ArriveInv'
      BY <2>6 DEF IInv, OwnChannelOnly, ArriveInv, VerifiedArrived, Ids, ghosts
    <2>12. Types'
      BY <2>6, <2>7, <2>8 DEF IInv, Types, ghosts
    <2>13. QED
      BY <2>8, <2>9, <2>10, <2>11, <2>12 DEF IInv
  <1>6. QED
    BY <1>4, <1>5

\* A link signs somebody in and is used; if its user went meanwhile, so did it.
LEMMA ConsumeInv == ASSUME IInv, NEW c \in Pool, Consume(c) PROVE IInv'
  <1>1. PICK q : q = req[c]
    OBVIOUS
  <1>2. q.token \in DOMAIN tokens /\ q.user \in DOMAIN users
    BY <1>1, RequestAt, ShapeOfSound, SoundMeans DEF Consume, Shape
  <1>3. req' = [req EXCEPT ![c] = None] /\ sessions' = sessions \cup {q.user}
    BY <1>1 DEF Consume, Answer
  <1>4. /\ UNCHANGED <<users, channels, watches, limit, jobs, worker, requests, crashes, arrived, edited>>
        /\ signIns' = [signIns EXCEPT ![q.token] = @ + 1]
    BY <1>1 DEF Consume
  <1>5. PICK n \in Nat : n = Len(tokens) /\ DOMAIN tokens = 1..n /\ DOMAIN signIns = 1..n
                         /\ signIns \in [1..n -> Nat]
    BY Numbered, LenProperties DEF IInv, Types
  <1>6. signIns' \in [1..n -> Nat] /\ \A t \in 1..n \ {q.token} : signIns'[t] = signIns[t]
    BY <1>2, <1>4, <1>5
  <1>7. signIns' \in Seq(Nat) /\ Len(signIns') = n
    BY <1>6, Update
  <1>8. /\ tokens' \in Seq(Token \cup {None}) /\ Len(tokens') = Len(tokens)
        /\ DOMAIN tokens' = DOMAIN tokens /\ Grows
        /\ tokens'[q.token] = None \/ tokens'[q.token].consumed
        /\ \A i \in DOMAIN tokens \ {q.token} : tokens'[i] = tokens[i]
        /\ \A i \in Ids(tokens') : tokens'[i].user \in Ids(users)
    <2>1. CASE tokens[q.token] = None
      <3>1. UNCHANGED tokens
        BY <1>1, <2>1 DEF Consume
      <3>2. QED
        BY <1>4, <2>1, <3>1, NothingGrows DEF IInv, Types, Keys, Ids, db
    <2>2. CASE tokens[q.token] # None
      <3>1. tokens' = [tokens EXCEPT ![q.token].consumed = TRUE] /\ q.token \in Ids(tokens)
        BY <1>1, <1>2, <2>2 DEF Consume, Ids
      <3>2. tokens[q.token] \in Token
        <4>1. tokens \in Seq(Token \cup {None})
          BY DEF IInv, Types
        <4>2. QED
          BY <3>1, <4>1, Rows
      <3>3. PICK row \in Token : row = [tokens[q.token] EXCEPT !.consumed = TRUE]
        BY <3>2 DEF Token
      <3>4. row.user = tokens[q.token].user /\ row.consumed
        BY <3>2, <3>3 DEF Token
      <3>5. tokens' = [tokens EXCEPT ![q.token] = row]
        BY <3>1, <3>3
      <3>6. QED
        BY <1>4, <3>1, <3>4, <3>5, TokenUpdate
    <2>3. QED
      BY <2>1, <2>2
  <1>9. ReqInv' /\ req' \in [Pool -> Request \cup {None}]
    BY <1>3, <1>8, NewRequest DEF IInv
  <1>10. LinkInv'
    BY <1>4, <1>5, <1>6, <1>8 DEF IInv, LinkInv
  <1>11. Keys'
    BY <1>4, <1>8 DEF IInv, Keys, Ids
  <1>12. OwnChannelOnly' /\ ArriveInv'
    BY <1>4 DEF IInv, OwnChannelOnly, ArriveInv, VerifiedArrived, Ids
  <1>13. Types'
    BY <1>2, <1>3, <1>4, <1>5, <1>7, <1>8, <1>9 DEF IInv, Types
  <1>14. QED
    BY <1>9, <1>10, <1>11, <1>12, <1>13 DEF IInv

\* A new link, and a new user if the address had none.
LEMMA InsertTokenInv == ASSUME IInv, NEW c \in Pool, InsertToken(c) PROVE IInv'
  <1>1. PICK q : q = req[c]
    OBVIOUS
  <1>2. q \in LinkRequest /\ (q.user = None \/ q.user \in DOMAIN users)
    BY <1>1, RequestAt, ShapeOfSound, SoundMeans DEF InsertToken, Shape
  <1>3. q.email \in Emails /\ q.email # None
    BY <1>2, NoneIsNoRow DEF LinkRequest
  <1>4. CASE UNCHANGED tokens /\ req' = [req EXCEPT ![c] = None] /\ UNCHANGED <<users, signIns>>
    BY <1>4, QuietMove DEF InsertToken, db, ghosts, IInv, Types
  <1>5. CASE ~ (UNCHANGED tokens /\ req' = [req EXCEPT ![c] = None] /\ UNCHANGED <<users, signIns>>)
    <2>1. PICK n \in Nat : n = Len(tokens) /\ DOMAIN tokens = 1..n
      BY Numbered DEF IInv
    <2>2. PICK m \in Nat : m = Len(users) /\ DOMAIN users = 1..m
      BY Numbered DEF IInv
    <2>3. PICK u : u = IF q.user = None THEN m + 1 ELSE q.user
      OBVIOUS
    <2>4. PICK row \in Token : row = [user |-> u, consumed |-> FALSE, mailed |-> FALSE] /\ row # None
      <3>1. u \in Nat
        BY <1>2, <2>2, <2>3
      <3>2. [user |-> u, consumed |-> FALSE, mailed |-> FALSE] \in Token \ {None}
        BY <3>1, NewRows
      <3>3. QED
        BY <3>2
    <2>5. /\ tokens' = Append(tokens, row) /\ signIns' = Append(signIns, 0)
          /\ users' = IF q.user = None THEN Append(users, q.email) ELSE users
          /\ q.user = None => \A v \in Ids(users) : users[v] # q.email
          /\ q.user # None => users[q.user] # None
          /\ req' = [req EXCEPT ![c] = [op |-> "link", pc |-> "mail", token |-> n + 1]]
      BY <1>1, <1>5, <2>1, <2>2, <2>3, <2>4 DEF InsertToken, Answer
    <2>6. UNCHANGED <<channels, watches, sessions, limit, jobs, worker, requests, crashes, arrived, edited>>
      BY DEF InsertToken
    <2>7. /\ tokens' \in Seq(Token \cup {None}) /\ Len(tokens') = n + 1
          /\ DOMAIN tokens' = DOMAIN tokens \cup {n + 1}
          /\ Ids(tokens') = Ids(tokens) \cup {n + 1}
          /\ \A i \in DOMAIN tokens : tokens'[i] = tokens[i]
          /\ tokens'[n + 1] = row
      <3>1. PICK S : S = Token \cup {None}
        OBVIOUS
      <3>2. tokens \in Seq(S) /\ row \in S /\ row # None /\ tokens' = Append(tokens, row)
        BY <2>4, <2>5, <3>1 DEF IInv, Types
      <3>3. QED
        BY <2>1, <3>1, <3>2, Insert
    <2>8. /\ users' \in Seq(Emails \cup {None}) /\ DOMAIN users \subseteq DOMAIN users'
          /\ Ids(users') = Ids(users) \cup (IF q.user = None THEN {m + 1} ELSE {})
          /\ \A i \in DOMAIN users : users'[i] = users[i]
          /\ q.user = None => users'[m + 1] = q.email
      <3>1. PICK S : S = Emails \cup {None}
        OBVIOUS
      <3>2. users \in Seq(S) /\ q.email \in S
        BY <1>3, <3>1 DEF IInv, Types
      <3>3. CASE q.user = None
        <4>1. users' = Append(users, q.email)
          BY <2>5, <3>3
        <4>2. QED
          BY <1>3, <2>2, <3>1, <3>2, <3>3, <4>1, Insert
      <3>4. CASE q.user # None
        BY <2>5, <3>1, <3>2, <3>4
      <3>5. QED
        BY <3>3, <3>4
    <2>9. /\ signIns' \in Seq(Nat) /\ Len(signIns') = n + 1
          /\ \A t \in DOMAIN tokens : signIns'[t] = signIns[t]
          /\ signIns'[n + 1] = 0
      <3>1. signIns \in Seq(Nat) /\ Len(signIns) = n
        BY <2>1 DEF IInv, Types
      <3>2. QED
        BY <2>1, <2>5, <3>1, AppendProperties
    <2>10. Grows
      BY <2>6, <2>7, <2>8 DEF Grows
    <2>11. u \in Ids(users')
      BY <1>2, <2>2, <2>3, <2>5, <2>8 DEF Ids
    <2>12. ReqInv' /\ req' \in [Pool -> Request \cup {None}]
      <3>1. PICK r \in MailRequest : r = [op |-> "link", pc |-> "mail", token |-> n + 1]
        <4>1. [op |-> "link", pc |-> "mail", token |-> n + 1] \in MailRequest
          BY DEF MailRequest
        <4>2. QED
          BY <4>1
      <3>2. r.token \in DOMAIN tokens'
        BY <2>7, <3>1
      <3>3. Sound(r)'
        BY <3>2 DEF Sound
      <3>4. req' = [req EXCEPT ![c] = r]
        BY <2>5, <3>1
      <3>5. QED
        BY <2>10, <3>3, <3>4, NewRequest DEF IInv
    <2>13. Ids(users) \subseteq DOMAIN users /\ Ids(tokens) \subseteq DOMAIN tokens
      BY DEF Ids
    <2>14. Keys'
      <3>1. ASSUME NEW v \in Ids(users'), NEW w \in Ids(users'), users'[v] = users'[w]
            PROVE  v = w
        BY <2>5, <2>8, <2>13, <3>1 DEF IInv, Keys
      <3>2. \A t \in Ids(tokens') : tokens'[t].user \in Ids(users')
        BY <2>4, <2>7, <2>8, <2>11, <2>13 DEF IInv, Keys
      <3>3. \A ch \in Ids(channels) : channels[ch].user \in Ids(users')
        BY <2>8 DEF IInv, Keys
      <3>4. \A w \in Ids(watches) : watches[w].user \in Ids(users') /\ watches[w].channel \in Ids(channels)
        BY <2>8 DEF IInv, Keys
      <3>5. QED
        BY <2>6, <3>1, <3>2, <3>3, <3>4 DEF IInv, Keys, Ids
    <2>15. LinkInv'
      BY <2>7, <2>9 DEF IInv, LinkInv
    <2>16. OwnChannelOnly' /\ ArriveInv'
      BY <2>6 DEF IInv, OwnChannelOnly, ArriveInv, VerifiedArrived, Ids
    <2>17. Types'
      BY <2>6, <2>7, <2>8, <2>9, <2>12 DEF IInv, Types
    <2>18. QED
      BY <2>12, <2>14, <2>15, <2>16, <2>17 DEF IInv
  <1>6. QED
    BY <1>4, <1>5

\* A channel is marked verified, after something has come through it.
LEMMA VerifiedKeeps ==
  ASSUME IInv, NEW ch \in DOMAIN channels, ch \in arrived, channels' = Verified(channels, ch),
         UNCHANGED <<users, tokens, watches, ghosts>>
  PROVE  /\ channels' \in Seq(Channel \cup {None}) /\ DOMAIN channels' = DOMAIN channels
         /\ Ids(channels') = Ids(channels)
         /\ \A i \in Ids(channels) : /\ channels'[i].user = channels[i].user
                                     /\ channels[i].verified => channels'[i].verified
                                     /\ channels'[i].verified => i \in arrived
         /\ channels'[ch] = None \/ channels'[ch].verified
         /\ OwnChannelOnly'
  <1>1. /\ DOMAIN channels = 1..Len(channels) /\ Len(channels) \in Nat
        /\ channels \in [1..Len(channels) -> Channel \cup {None}]
    BY LenProperties DEF IInv, Types
  <1>2. CASE channels[ch] = None
    BY <1>2 DEF Verified, IInv, Types, ArriveInv, VerifiedArrived, OwnChannelOnly, Ids, ghosts
  <1>3. CASE channels[ch] # None
    <2>1. channels[ch] \in Channel
      BY <1>1, <1>3
    <2>2. PICK row \in Channel : row = [channels[ch] EXCEPT !.verified = TRUE]
      BY <2>1 DEF Channel
    <2>3. row.user = channels[ch].user /\ row.verified /\ row # None
      BY <2>1, <2>2, NoneIsNoRow DEF Channel
    <2>4. channels' = [channels EXCEPT ![ch] = row]
      BY <1>3, <2>2 DEF Verified
    <2>5. /\ channels' \in [1..Len(channels) -> Channel \cup {None}] /\ channels'[ch] = row
          /\ \A i \in DOMAIN channels \ {ch} : channels'[i] = channels[i]
      BY <1>1, <2>4
    <2>6. channels' \in Seq(Channel \cup {None}) /\ DOMAIN channels' = DOMAIN channels
      BY <1>1, <2>5, Update
    <2>7. Ids(channels') = Ids(channels)
      BY <1>3, <2>3, <2>5, <2>6 DEF Ids
    <2>8. \A i \in Ids(channels) : /\ channels'[i].user = channels[i].user
                                   /\ channels[i].verified => channels'[i].verified
                                   /\ channels'[i].verified => i \in arrived
      BY <2>3, <2>5 DEF IInv, ArriveInv, VerifiedArrived, Ids
    <2>9. OwnChannelOnly'
      <3>1. \A w \in Ids(watches) \ edited : channels'[watches[w].channel].user = watches[w].user
        BY <2>8 DEF IInv, Keys, OwnChannelOnly
      <3>2. QED
        BY <3>1 DEF OwnChannelOnly, ghosts, Ids
    <2>10. QED
      BY <2>3, <2>5, <2>6, <2>7, <2>8, <2>9
  <1>4. QED
    BY <1>2, <1>3

LEMMA VerifyChannelInv == ASSUME IInv, NEW c \in Pool, VerifyChannel(c) PROVE IInv'
  <1>1. PICK q : q = req[c]
    OBVIOUS
  <1>2. Sound(q) /\ q.pc = "verify" /\ q \in WaitRequest
    BY <1>1, RequestAt, ShapeOfSound DEF VerifyChannel, Shape
  <1>3. PICK ch : ch = q.channel
    OBVIOUS
  <1>4. ch \in arrived /\ ch \in DOMAIN channels
    BY <1>2, <1>3, SoundMeans DEF IInv, Keys
  <1>5. /\ req' = [req EXCEPT ![c] = None] /\ channels' = Verified(channels, ch)
        /\ UNCHANGED <<users, tokens, watches, sessions, limit, jobs, worker, requests, crashes, ghosts>>
    BY <1>1, <1>3 DEF VerifyChannel, Answer
  <1>6. /\ channels' \in Seq(Channel \cup {None}) /\ DOMAIN channels' = DOMAIN channels
        /\ Ids(channels') = Ids(channels)
        /\ \A i \in Ids(channels) : /\ channels'[i].user = channels[i].user
                                    /\ channels[i].verified => channels'[i].verified
                                    /\ channels'[i].verified => i \in arrived
        /\ OwnChannelOnly'
    BY <1>4, <1>5, VerifiedKeeps
  <1>7. Grows
    <2>1. \A i \in DOMAIN channels : channels'[i] = None \/ i \in Ids(channels)
      BY <1>6 DEF Ids
    <2>2. \A i \in Ids(channels) : channels[i] # None
      BY DEF Ids
    <2>3. QED
      BY <1>5, <1>6, <2>1, <2>2 DEF Grows, ghosts
  <1>8. ReqInv' /\ req' \in [Pool -> Request \cup {None}]
    BY <1>5, <1>7, NewRequest DEF IInv
  <1>9. Keys'
    BY <1>5, <1>6 DEF IInv, Keys, Ids
  <1>10. ArriveInv'
    <2>1. ASSUME NEW j \in DOMAIN jobs, jobs[j].state = "finished", channels'[jobs[j].channel] # None
          PROVE  channels'[jobs[j].channel].verified
      <3>1. jobs[j].channel \in Ids(channels')
        BY <1>6, <2>1 DEF IInv, Keys, Ids
      <3>2. jobs[j].channel \in Ids(channels) /\ channels[jobs[j].channel] # None
        BY <1>6, <3>1 DEF Ids
      <3>3. QED
        BY <1>6, <2>1, <3>2 DEF IInv, ArriveInv, VerifiedArrived
    <2>2. QED
      BY <1>5, <1>6, <2>1 DEF IInv, ArriveInv, VerifiedArrived, Ids, ghosts
  <1>11. LinkInv'
    BY <1>5 DEF IInv, LinkInv, ghosts
  <1>12. Types'
    BY <1>5, <1>6, <1>8 DEF IInv, Types, ghosts
  <1>13. QED
    BY <1>6, <1>8, <1>9, <1>10, <1>11, <1>12 DEF IInv

\* A job of the queue changes state and keeps its channel; finished only with its channel
\* marked.
LEMMA JobKeeps ==
  ASSUME IInv, NEW j \in DOMAIN jobs, NEW state \in {"started", "finished", "failed"},
         jobs' = [jobs EXCEPT ![j].state = state]
  PROVE  /\ jobs' \in Seq(Job) /\ DOMAIN jobs' = DOMAIN jobs
         /\ \A i \in DOMAIN jobs : jobs'[i].channel = jobs[i].channel
         /\ jobs'[j].state = state
         /\ \A i \in DOMAIN jobs \ {j} : jobs'[i] = jobs[i]
  <1>1. /\ DOMAIN jobs = 1..Len(jobs) /\ Len(jobs) \in Nat /\ jobs \in [1..Len(jobs) -> Job]
    BY LenProperties DEF IInv, Types
  <1>2. /\ jobs' \in [1..Len(jobs) -> Job]
        /\ \A i \in DOMAIN jobs : jobs'[i].channel = jobs[i].channel
        /\ jobs'[j].state = state
        /\ \A i \in DOMAIN jobs \ {j} : jobs'[i] = jobs[i]
    BY <1>1 DEF Job
  <1>3. QED
    BY <1>1, <1>2, Update

\* The worker's steps up to the message that comes through, and its death.
LEMMA WorkerInv ==
  ASSUME IInv, Take \/ LoadChannel \/ SendTest \/ WorkerDies
  PROVE  IInv'
  <1>1. UNCHANGED <<db, sessions, limit, req, requests, edited, signIns>> /\ crashes' \in Nat
    BY DEF Take, LoadChannel, SendTest, WorkerDies, ghosts, IInv, Types
  <1>2. arrived \subseteq arrived'
    BY DEF Take, LoadChannel, SendTest, WorkerDies, ghosts
  <1>3. UNCHANGED jobs \/ \E j \in DOMAIN jobs, state \in {"started", "failed"} :
                             jobs' = [jobs EXCEPT ![j].state = state]
    BY DEF Take, LoadChannel, SendTest, WorkerDies, JobEnds, Working, IInv, Keys
  <1>4. /\ jobs' \in Seq(Job) /\ DOMAIN jobs' = DOMAIN jobs
        /\ \A i \in DOMAIN jobs : jobs'[i].channel = jobs[i].channel
        /\ \A i \in DOMAIN jobs : jobs'[i].state = "finished" => jobs[i].state = "finished"
    <2>1. CASE UNCHANGED jobs
      BY <2>1 DEF IInv, Types
    <2>2. CASE ~ UNCHANGED jobs
      <3>1. PICK j \in DOMAIN jobs, state \in {"started", "failed"} :
                   jobs' = [jobs EXCEPT ![j].state = state]
        BY <1>3, <2>2
      <3>2. QED
        BY <3>1, JobKeeps
    <2>3. QED
      BY <2>1, <2>2
  <1>5. /\ worker' \in [job : Nat, pc : {"load", "send", "mark"}] \cup {None}
        /\ worker' # None => worker'.job \in DOMAIN jobs
        /\ worker' # None => (worker'.pc = "mark" => jobs[worker'.job].channel \in arrived')
    <2>1. CASE Take
      <3>1. PICK j \in DOMAIN jobs : worker' = [job |-> j, pc |-> "load"]
        BY <2>1 DEF Take
      <3>2. j \in Nat
        BY Numbered DEF IInv
      <3>3. QED
        BY <3>1, <3>2
    <2>2. CASE LoadChannel
      <3>1. \/ worker' = None
            \/ worker # None /\ worker' = [worker EXCEPT !.pc = "send"]
        BY <2>2 DEF LoadChannel, Working, JobEnds
      <3>2. QED
        BY <3>1 DEF IInv, Types, Keys
    <2>3. CASE SendTest
      BY <2>3 DEF SendTest, Working, JobEnds, IInv, Types, Keys
    <2>4. CASE WorkerDies
      BY <2>4 DEF WorkerDies
    <2>5. QED
      BY <2>1, <2>2, <2>3, <2>4
  <1>6. Grows
    BY <1>1, <1>2, <1>4 DEF Grows, db
  <1>7. ReqInv' /\ req' \in [Pool -> Request \cup {None}]
    BY <1>1, <1>6, UnmovedRequests
  <1>8. Keys'
    BY <1>1, <1>4, <1>5 DEF IInv, Keys, Ids, db
  <1>9. ArriveInv'
    <2>1. \A j \in DOMAIN jobs : jobs'[j].state = "finished" =>
             jobs[j].channel \in arrived' /\ (channels[jobs[j].channel] # None => channels[jobs[j].channel].verified)
      BY <1>2, <1>4 DEF IInv, ArriveInv, VerifiedArrived
    <2>2. \A ch \in Ids(channels) : channels[ch].verified => ch \in arrived'
      BY <1>2 DEF IInv, ArriveInv, VerifiedArrived
    <2>3. worker' # None => (worker'.pc = "mark" => jobs'[worker'.job].channel \in arrived')
      BY <1>4, <1>5
    <2>4. QED
      BY <1>1, <1>4, <2>1, <2>2, <2>3 DEF ArriveInv, VerifiedArrived, Ids, db
  <1>10. LinkInv' /\ OwnChannelOnly'
    BY <1>1 DEF IInv, LinkInv, OwnChannelOnly, Ids, db
  <1>11. Types'
    BY <1>1, <1>4, <1>5, <1>7 DEF IInv, Types, db
  <1>12. QED
    BY <1>7, <1>8, <1>9, <1>10, <1>11 DEF IInv

\* The message came through: the channel is marked, then the job finished.
LEMMA MarkVerifiedInv == ASSUME IInv, MarkVerified PROVE IInv'
  <1>1. PICK j : j = worker.job
    OBVIOUS
  <1>2. /\ worker # None /\ j \in DOMAIN jobs /\ jobs[j].channel \in arrived
        /\ jobs[j].channel \in DOMAIN channels
    BY <1>1 DEF MarkVerified, Working, IInv, Keys, ArriveInv
  <1>3. PICK ch : ch = jobs[j].channel
    OBVIOUS
  <1>4. /\ channels' = Verified(channels, ch) /\ worker' = None
        /\ jobs' = [jobs EXCEPT ![j].state = "finished"]
        /\ UNCHANGED <<users, tokens, watches, sessions, limit, req, requests, crashes, ghosts>>
    BY <1>1, <1>3 DEF MarkVerified, JobEnds
  <1>5. /\ channels' \in Seq(Channel \cup {None}) /\ DOMAIN channels' = DOMAIN channels
        /\ Ids(channels') = Ids(channels)
        /\ \A i \in Ids(channels) : /\ channels'[i].user = channels[i].user
                                    /\ channels[i].verified => channels'[i].verified
                                    /\ channels'[i].verified => i \in arrived
        /\ channels'[ch] = None \/ channels'[ch].verified
        /\ OwnChannelOnly'
    BY <1>2, <1>3, <1>4, VerifiedKeeps
  <1>6. /\ jobs' \in Seq(Job) /\ DOMAIN jobs' = DOMAIN jobs
        /\ \A i \in DOMAIN jobs : jobs'[i].channel = jobs[i].channel
        /\ \A i \in DOMAIN jobs \ {j} : jobs'[i] = jobs[i]
    BY <1>2, <1>4, JobKeeps
  <1>7. Grows
    <2>1. \A i \in DOMAIN channels : channels'[i] = None \/ i \in Ids(channels)
      BY <1>5 DEF Ids
    <2>2. \A i \in Ids(channels) : channels[i] # None
      BY DEF Ids
    <2>3. QED
      BY <1>4, <1>5, <1>6, <2>1, <2>2 DEF Grows, ghosts
  <1>8. ReqInv' /\ req' \in [Pool -> Request \cup {None}]
    BY <1>4, <1>7, UnmovedRequests
  <1>9. Keys'
    <2>1. \A i \in Ids(channels') : channels'[i].user \in Ids(users)
      BY <1>5 DEF IInv, Keys
    <2>2. \A w \in Ids(watches) : watches[w].user \in Ids(users) /\ watches[w].channel \in Ids(channels')
      BY <1>5 DEF IInv, Keys
    <2>3. \A i \in DOMAIN jobs' : jobs'[i].channel \in DOMAIN channels'
      BY <1>5, <1>6 DEF IInv, Keys
    <2>4. QED
      BY <1>4, <2>1, <2>2, <2>3 DEF IInv, Keys, Ids
  <1>10. ArriveInv'
    <2>1. ASSUME NEW i \in DOMAIN jobs, jobs'[i].state = "finished"
          PROVE  /\ jobs'[i].channel \in arrived
                 /\ channels'[jobs'[i].channel] # None => channels'[jobs'[i].channel].verified
      <3>1. CASE i = j
        BY <1>2, <1>3, <1>5, <1>6, <3>1
      <3>2. CASE i # j
        <4>1. jobs[i].state = "finished" /\ jobs'[i].channel = jobs[i].channel /\ jobs[i].channel \in DOMAIN channels
          BY <1>6, <2>1, <3>2 DEF IInv, Keys
        <4>2. channels'[jobs[i].channel] # None => jobs[i].channel \in Ids(channels)
          BY <1>5, <4>1 DEF Ids
        <4>3. jobs[i].channel \in Ids(channels) => channels[jobs[i].channel] # None
          BY DEF Ids
        <4>4. QED
          BY <1>5, <4>1, <4>2, <4>3 DEF IInv, ArriveInv, VerifiedArrived
      <3>3. QED
        BY <3>1, <3>2
    <2>2. QED
      BY <1>4, <1>5, <1>6, <2>1 DEF ArriveInv, VerifiedArrived, Ids, ghosts
  <1>11. LinkInv'
    BY <1>4 DEF IInv, LinkInv, ghosts
  <1>12. Types'
    BY <1>4, <1>5, <1>6, <1>8 DEF IInv, Types, ghosts
  <1>13. QED
    BY <1>5, <1>8, <1>9, <1>10, <1>11, <1>12 DEF IInv

\* A test send is queued, and its request waits.
LEMMA EnqueueInv == ASSUME IInv, NEW c \in Pool, Enqueue(c) PROVE IInv'
  <1>1. PICK q : q = req[c]
    OBVIOUS
  <1>2. q \in TestRequest /\ q.channel \in DOMAIN channels /\ q.channel \in Nat
    BY <1>1, RequestAt, ShapeOfSound, SoundMeans, Numbered DEF Enqueue, Shape, IInv
  <1>3. PICK n \in Nat : n = Len(jobs) /\ DOMAIN jobs = 1..n
    BY Numbered DEF IInv
  <1>4. PICK job \in Job : job = [channel |-> q.channel, state |-> "queued"]
    <2>1. [channel |-> q.channel, state |-> "queued"] \in Job
      BY <1>2 DEF Job
    <2>2. QED
      BY <2>1
  <1>5. PICK r \in WaitRequest : r = [op |-> "test", pc |-> "wait", channel |-> q.channel, job |-> n + 1]
    <2>1. [op |-> "test", pc |-> "wait", channel |-> q.channel, job |-> n + 1] \in WaitRequest
      BY <1>2 DEF WaitRequest
    <2>2. QED
      BY <2>1
  <1>6. jobs \in Seq(Job) /\ req \in [Pool -> Request \cup {None}]
    BY DEF IInv, Types
  <1>7. /\ jobs' = Append(jobs, job) /\ req' = [req EXCEPT ![c] = r]
        /\ UNCHANGED <<db, sessions, limit, worker, requests, crashes, ghosts>>
    BY <1>1, <1>3, <1>4, <1>5, <1>6 DEF Enqueue
  <1>8. /\ jobs' \in Seq(Job) /\ Len(jobs') = n + 1
        /\ \A i \in 1..n : jobs'[i] = jobs[i]
        /\ jobs'[n + 1] = job
    BY <1>3, <1>6, <1>7, AppendProperties
  <1>9. DOMAIN jobs' = DOMAIN jobs \cup {n + 1}
    BY <1>3, <1>8, LenProperties
  <1>10. Grows
    BY <1>3, <1>7, <1>8, <1>9 DEF Grows, db, ghosts
  <1>11. ReqInv' /\ req' \in [Pool -> Request \cup {None}]
    <2>1. r.job \in DOMAIN jobs' /\ r.channel = jobs'[r.job].channel /\ r.pc # "verify"
      BY <1>4, <1>5, <1>8, <1>9
    <2>2. Sound(r)'
      BY <2>1 DEF Sound
    <2>3. QED
      BY <1>7, <1>10, <2>2, NewRequest DEF IInv
  <1>12. Keys'
    <2>1. \A j \in DOMAIN jobs' : jobs'[j].channel \in DOMAIN channels
      BY <1>2, <1>3, <1>4, <1>8, <1>9 DEF IInv, Keys
    <2>2. QED
      BY <1>7, <1>9, <2>1 DEF IInv, Keys, Ids, db
  <1>13. ArriveInv'
    <2>1. \A j \in DOMAIN jobs' : jobs'[j].state = "finished" => j \in DOMAIN jobs /\ jobs'[j] = jobs[j]
      BY <1>3, <1>4, <1>8, <1>9
    <2>2. worker # None => jobs'[worker.job] = jobs[worker.job]
      BY <1>3, <1>8 DEF IInv, Keys
    <2>3. QED
      BY <1>7, <2>1, <2>2 DEF IInv, ArriveInv, VerifiedArrived, Ids, db, ghosts
  <1>14. LinkInv' /\ OwnChannelOnly'
    BY <1>7 DEF IInv, LinkInv, OwnChannelOnly, Ids, db, ghosts
  <1>15. Types'
    BY <1>7, <1>8, <1>11 DEF IInv, Types, db, ghosts
  <1>16. QED
    BY <1>11, <1>12, <1>13, <1>14, <1>15 DEF IInv

\* The operator gives a user another address, which nobody has.
LEMMA UpdateUserInv ==
  ASSUME IInv, NEW u \in Ids(users), NEW e \in Emails, UpdateUser(u, e)
  PROVE  IInv'
  <1>1. /\ DOMAIN users = 1..Len(users) /\ Len(users) \in Nat
        /\ users \in [1..Len(users) -> Emails \cup {None}]
    BY LenProperties DEF IInv, Types
  <1>2. /\ users' = [users EXCEPT ![u] = e] /\ \A v \in Ids(users) : users[v] # e
        /\ requests' \in Nat
        /\ UNCHANGED <<tokens, channels, watches, sessions, limit, jobs, worker, req, crashes, ghosts>>
    BY DEF UpdateUser, IInv, Types
  <1>3. /\ users' \in [1..Len(users) -> Emails \cup {None}]
        /\ u \in DOMAIN users /\ users[u] # None /\ users'[u] = e /\ e # None
        /\ \A i \in DOMAIN users \ {u} : users'[i] = users[i]
    BY <1>1, <1>2, NoneIsNoRow DEF Ids
  <1>4. users' \in Seq(Emails \cup {None}) /\ DOMAIN users' = DOMAIN users
    BY <1>1, <1>3, Update
  <1>5. Ids(users') = Ids(users)
    BY <1>3, <1>4 DEF Ids
  <1>6. Grows
    BY <1>2, <1>4 DEF Grows, ghosts
  <1>7. ReqInv' /\ req' \in [Pool -> Request \cup {None}]
    BY <1>2, <1>6, UnmovedRequests
  <1>8. Keys'
    <2>1. Ids(users) \subseteq DOMAIN users
      BY DEF Ids
    <2>2. \A v, w \in Ids(users') : users'[v] = users'[w] => v = w
      BY <1>2, <1>3, <1>5, <2>1 DEF IInv, Keys
    <2>3. QED
      BY <1>2, <1>5, <2>2 DEF IInv, Keys, Ids
  <1>9. LinkInv' /\ OwnChannelOnly' /\ ArriveInv'
    BY <1>2 DEF IInv, LinkInv, OwnChannelOnly, ArriveInv, VerifiedArrived, Ids, ghosts
  <1>10. Types'
    BY <1>2, <1>4, <1>7 DEF IInv, Types, ghosts
  <1>11. QED
    BY <1>7, <1>8, <1>9, <1>10 DEF IInv

\* The operator points a watch elsewhere: it counts as edited from then on.
LEMMA UpdateWatchInv ==
  ASSUME IInv, NEW w \in Ids(watches), NEW ch \in DOMAIN channels, UpdateWatch(w, ch)
  PROVE  IInv'
  <1>1. /\ DOMAIN watches = 1..Len(watches) /\ Len(watches) \in Nat
        /\ watches \in [1..Len(watches) -> Watch \cup {None}]
    BY LenProperties DEF IInv, Types
  <1>2. /\ watches' = [watches EXCEPT ![w].channel = ch] /\ channels[ch] # None
        /\ edited' = edited \cup {w} /\ requests' \in Nat
        /\ UNCHANGED <<users, tokens, channels, sessions, limit, jobs, worker, req, crashes, arrived, signIns>>
    BY DEF UpdateWatch, IInv, Types
  <1>3. w \in DOMAIN watches /\ watches[w] # None /\ watches[w] \in Watch
    BY <1>1 DEF Ids
  <1>4. PICK row \in Watch : row = [watches[w] EXCEPT !.channel = ch]
    <2>1. ch \in Nat
      BY Numbered DEF IInv
    <2>2. [watches[w] EXCEPT !.channel = ch] \in Watch
      BY <1>3, <2>1 DEF Watch
    <2>3. QED
      BY <2>2
  <1>5. row.user = watches[w].user /\ row.channel = ch /\ row # None
    BY <1>3, <1>4, NoneIsNoRow DEF Watch
  <1>6. /\ watches' \in [1..Len(watches) -> Watch \cup {None}] /\ watches'[w] = row
        /\ \A i \in DOMAIN watches \ {w} : watches'[i] = watches[i]
    BY <1>1, <1>2, <1>3, <1>4
  <1>7. watches' \in Seq(Watch \cup {None}) /\ DOMAIN watches' = DOMAIN watches
    BY <1>1, <1>6, Update
  <1>8. Ids(watches') = Ids(watches) /\ Ids(watches) \subseteq DOMAIN watches
    BY <1>3, <1>5, <1>6, <1>7 DEF Ids
  <1>9. Grows
    BY <1>2 DEF Grows
  <1>10. ReqInv' /\ req' \in [Pool -> Request \cup {None}]
    BY <1>2, <1>9, UnmovedRequests
  <1>11. Keys'
    <2>1. ch \in Ids(channels)
      BY <1>2 DEF Ids
    <2>2. \A x \in Ids(watches') : watches'[x].user \in Ids(users) /\ watches'[x].channel \in Ids(channels)
      BY <1>5, <1>6, <1>8, <2>1 DEF IInv, Keys
    <2>3. QED
      BY <1>2, <2>2 DEF IInv, Keys, Ids
  <1>12. OwnChannelOnly'
    <2>1. \A x \in Ids(watches') \ edited' : channels[watches'[x].channel].user = watches'[x].user
      BY <1>2, <1>6, <1>8 DEF IInv, OwnChannelOnly
    <2>2. QED
      BY <1>2, <2>1 DEF OwnChannelOnly, Ids
  <1>13. LinkInv' /\ ArriveInv'
    BY <1>2 DEF IInv, LinkInv, ArriveInv, VerifiedArrived, Ids
  <1>14. Types'
    BY <1>2, <1>7, <1>10 DEF IInv, Types
  <1>15. QED
    BY <1>10, <1>11, <1>12, <1>13, <1>14 DEF IInv

--------------------------------------------------------------------------------
(* The invariant of the specification.                                     *)

\* At first there are users, their channels and one cookie.
LEMMA InitInv == Init => IInv
  <1> SUFFICES ASSUME Init PROVE IInv
    OBVIOUS
  <1>1. PICK n \in Nat : /\ n = Len(Registered) /\ n > 0 /\ DOMAIN Registered = 1..n
                         /\ Registered \in [1..n -> Emails]
    BY ConstAssumption, LenProperties
  <1>2. users \in Seq(Emails \cup {None}) /\ DOMAIN users = 1..n /\ Ids(users) = 1..n
    <2>1. users \in [1..n -> Emails \cup {None}] /\ \A i \in 1..n : users[i] # None
      BY <1>1, NoneIsNoRow DEF Init
    <2>2. QED
      BY <1>1, <2>1, Update DEF Ids
  <1>3. /\ channels \in Seq(Channel \cup {None}) /\ DOMAIN channels = 1..n
        /\ \A ch \in 1..n : channels[ch].user = ch /\ ~channels[ch].verified
    <2>1. \A i \in 1..n : [user |-> i, verified |-> FALSE] \in Channel \cup {None}
      BY DEF Channel
    <2>2. channels = [u \in 1..n |-> [user |-> u, verified |-> FALSE]]
      BY <1>1 DEF Init
    <2>3. channels \in [1..n -> Channel \cup {None}]
      BY <2>1, <2>2
    <2>4. QED
      BY <2>2, <2>3, Update
  <1>4. tokens = <<>> /\ watches = <<>> /\ jobs = <<>> /\ signIns = <<>> /\ worker = None
    BY DEF Init
  <1>5. /\ tokens \in Seq(Token \cup {None}) /\ watches \in Seq(Watch \cup {None})
        /\ jobs \in Seq(Job) /\ signIns \in Seq(Nat) /\ Len(signIns) = Len(tokens)
    BY <1>4, EmptySeq
  <1>6. Ids(tokens) = {} /\ Ids(watches) = {} /\ DOMAIN jobs = {} /\ DOMAIN tokens = {}
    BY <1>4 DEF Ids
  <1>7. Types
    BY <1>1, <1>2, <1>3, <1>5, <1>4 DEF Init, Types, Fresh
  <1>8. Keys
    BY <1>1, <1>2, <1>3, <1>4, <1>6, ConstAssumption DEF Init, Keys, Ids
  <1>9. ReqInv /\ LinkInv /\ OwnChannelOnly
    BY <1>6 DEF Init, ReqInv, LinkInv, OwnChannelOnly
  <1>10. ArriveInv
    BY <1>3, <1>4, <1>6 DEF ArriveInv, VerifiedArrived, Ids
  <1>11. QED
    BY <1>7, <1>8, <1>9, <1>10 DEF IInv

LEMMA StepInv == IInv /\ [Next]_vars => IInv'
  <1> SUFFICES ASSUME IInv, [Next]_vars
               PROVE  IInv'
    OBVIOUS
  <1>1. CASE UNCHANGED vars
    <2>1. Grows
      BY <1>1, NothingGrows DEF vars, ghosts
    <2>2. ReqInv' /\ req' \in [Pool -> Request \cup {None}]
      BY <1>1, <2>1, UnmovedRequests DEF vars
    <2>3. QED
      BY <1>1, <2>2, Quiet DEF vars, IInv, Types
  <1>2. ASSUME NEW c \in Pool, Begin(c) \/ Serve(c)
        PROVE  IInv'
    BY <1>2, BeginInv, AuthenticateInv, IncrInv, ExpireInv, SelectUserInv, InsertTokenInv, MailInv,
       CheckTokenInv, ConsumeInv, CountInv, InsertChannelInv, OwnChannelInv, InsertWatchInv, DeleteInv,
       EnqueueInv, WaitInv, VerifyChannelInv DEF Serve
  <1>3. CASE Restart \/ (\E k \in Limits : WindowEnds(k)) \/ (\E u \in sessions : Logout(u))
    BY <1>3, EnvironmentInv
  <1>4. CASE SendTestMessage \/ WorkerDies
    BY <1>4, WorkerInv, MarkVerifiedInv DEF SendTestMessage
  <1>5. CASE Administer
    BY <1>5, DeleteUserInv, UpdateUserInv, DeleteWatchInv, UpdateWatchInv DEF Administer
  <1>6. QED
    BY <1>1, <1>2, <1>3, <1>4, <1>5 DEF Next

\* Foreign keys and unique addresses hold, every request in flight is sound, whatever
\* the operator and other requests delete under it.
THEOREM Invariance == Spec => []IInv
  BY InitInv, StepInv, PTL DEF Spec

\* The constraints of the tables.
THEOREM TypeCorrect == Spec => []TypeOK
  <1>1. IInv => TypeOK
    <2> SUFFICES ASSUME IInv PROVE TypeOK
      OBVIOUS
    <2>1. \A j \in DOMAIN jobs : jobs[j] \in Job
      BY Numbered, ElementOfSeq DEF IInv, Types
    <2>2. QED
      BY <2>1 DEF IInv, Types, Keys, Ids, Job, TypeOK
  <1>2. QED
    BY <1>1, Invariance, PTL

\* Nobody's alerts go to a channel of somebody else's, unless the operator sent them
\* there.
THEOREM OwnChannelAlways == Spec => []OwnChannelOnly
  BY Invariance, PTL DEF IInv

\* What is verified has come through, and what came through and is finished is verified.
THEOREM VerifiedArrivedAlways == Spec => []VerifiedArrived
  BY Invariance, PTL DEF IInv, ArriveInv

--------------------------------------------------------------------------------
(* Links.                                                                  *)

\* Only a sign-in counts as one.
LEMMA SignInsGrow ==
  ASSUME IInv, [Next]_vars, NEW t \in DOMAIN signIns, signIns'[t] # signIns[t]
  PROVE  \E c \in Pool : Consume(c) /\ req[c].token = t
  <1>1. signIns \in Seq(Nat) /\ DOMAIN signIns = 1..Len(signIns)
    BY LenProperties DEF IInv, Types
  <1>2. ASSUME NEW c \in Pool, Begin(c) \/ Serve(c), ~ Consume(c)
        PROVE  signIns'[t] = signIns[t]
    <2>1. CASE InsertToken(c)
      <3>1. UNCHANGED signIns \/ signIns' = Append(signIns, 0)
        BY <2>1 DEF InsertToken
      <3>2. QED
        BY <1>1, <3>1, AppendProperties
    <2>2. CASE ~ InsertToken(c)
      <3>1. UNCHANGED signIns
        BY <1>2, <2>2 DEF Serve, Begin, Authenticate, Incr, Expire, SelectUser, Mail, CheckToken, Count,
             InsertChannel, OwnChannel, InsertWatch, Delete, Enqueue, Wait, VerifyChannel, ghosts
      <3>2. QED
        BY <3>1
    <2>3. QED
      BY <2>1, <2>2
  <1>3. ASSUME NEW c \in Pool, Consume(c) PROVE req[c].token = t
    BY <1>3, <1>1 DEF Consume
  <1>4. CASE SendTestMessage \/ WorkerDies
    BY <1>4 DEF SendTestMessage, Take, LoadChannel, SendTest, MarkVerified, WorkerDies, ghosts
  <1>5. CASE Administer
    BY <1>5 DEF Administer, DeleteUser, UpdateUser, DeleteWatchAdmin, UpdateWatch, ghosts
  <1>6. CASE UNCHANGED vars \/ Restart \/ (\E k \in Limits : WindowEnds(k)) \/ (\E u \in sessions : Logout(u))
    BY <1>6 DEF vars, Restart, WindowEnds, Logout, ghosts
  <1>7. QED
    BY <1>2, <1>3, <1>4, <1>5, <1>6 DEF Next, Serve

\* A link that has signed somebody in does so again only for a visit that began before
\* it was used.
THEOREM UsedLinkStaysDead == Spec => UsedLinkIsDead
  <1>1. ASSUME IInv PROVE \A t \in DOMAIN signIns : signIns[t] \in Nat
    BY <1>1, Rows DEF IInv, Types
  <1>2. ASSUME IInv, [Next]_vars
        PROVE  \A t \in DOMAIN signIns : signIns[t] > 0 /\ signIns'[t] > signIns[t] =>
                 \E c \in Pool : At(c, "consume") /\ req[c].token = t /\ req[c].unused
    <2> SUFFICES ASSUME NEW t \in DOMAIN signIns, signIns'[t] > signIns[t]
                 PROVE  \E c \in Pool : At(c, "consume") /\ req[c].token = t /\ req[c].unused
      OBVIOUS
    <2>1. signIns'[t] # signIns[t]
      BY <1>1, <1>2
    <2>2. PICK c \in Pool : Consume(c) /\ req[c].token = t
      BY <1>2, <2>1, SignInsGrow
    <2>3. PICK q : q = req[c]
      OBVIOUS
    <2>4. At(c, "consume")
      BY <2>2 DEF Consume
    <2>5. q.unused
      BY <1>2, <2>3, <2>4, RequestAt, ShapeOfSound, SoundMeans DEF Shape
    <2>6. QED
      BY <2>2, <2>3, <2>4, <2>5
  <1>3. QED
    BY <1>2, Invariance, PTL DEF Spec, UsedLinkIsDead

\* The other half of "can only be used once": the database says of a link that has
\* signed somebody in that it is used, so the next visit is refused.
THEOREM SignedInMeansUsed == Spec => []LinkInv
  BY Invariance, PTL DEF IInv

--------------------------------------------------------------------------------
(* Rate limits.                                                            *)

\* Counters stay as they are, and so do the requests that are about to set an expiry.
LEMMA LimitFrame ==
  ASSUME LimitsEnd, UNCHANGED limit, crashes' = 0 => crashes = 0,
         crashes' = 0 => \A c \in Pool : At(c, "expire") => req'[c] = req[c]
  PROVE  LimitsEnd'
  <1> SUFFICES ASSUME crashes' = 0, NEW k \in Limits, limit'[k].hits > 0, ~limit'[k].expires
               PROVE  \E c \in Pool : At(c, "expire")' /\ Key(req'[c]) = k
    BY DEF LimitsEnd, Key
  <1>1. PICK c \in Pool : At(c, "expire") /\ Key(req[c]) = k
    BY DEF LimitsEnd
  <1>2. req'[c] = req[c]
    BY <1>1
  <1>3. QED
    BY <1>1, <1>2 DEF At

\* INCR: the first to count is about to set the expiry, those after it find it set or
\* the first still there.
LEMMA IncrLimit ==
  ASSUME IInv, LimitsEnd, NEW c \in Pool, Incr(c)
  PROVE  LimitsEnd'
  <1> SUFFICES ASSUME crashes' = 0, NEW k \in Limits, limit'[k].hits > 0, ~limit'[k].expires
               PROVE  \E d \in Pool : At(d, "expire")' /\ Key(req'[d]) = k
    BY DEF LimitsEnd, Key
  <1>1. PICK i : i = Key(req[c])
    OBVIOUS
  <1>2. /\ limit \in [Limits -> [hits : Nat, expires : BOOLEAN]] /\ req \in [Pool -> Request \cup {None}]
        /\ crashes = 0 /\ At(c, "limit")
        /\ limit' = [limit EXCEPT ![i].hits = limit[i].hits + 1]
    BY <1>1 DEF Incr, IInv, Types
  <1>3. \A d \in Pool \ {c} : req'[d] = req[d]
    BY <1>2 DEF Incr, Goto, Answer, Admitted
  <1>4. CASE limit[k].hits > 0 /\ ~limit[k].expires
    <2>1. PICK d \in Pool : At(d, "expire") /\ Key(req[d]) = k
      BY <1>2, <1>4 DEF LimitsEnd
    <2>2. d # c
      BY <1>2, <2>1 DEF At
    <2>3. QED
      BY <1>3, <2>1, <2>2 DEF At
  <1>5. CASE ~(limit[k].hits > 0 /\ ~limit[k].expires)
    <2>1. k = i /\ limit[i].hits = 0
      BY <1>2, <1>5
    <2>2. Goto(c, "expire")
      <3>1. PICK n : n = limit[Key(req[c])].hits + 1
        OBVIOUS
      <3>2. n = 1
        BY <1>1, <2>1, <3>1
      <3>3. ~(n > MaxHits)
        BY <3>2, ConstAssumption
      <3>4. QED
        BY <3>1, <3>2, <3>3 DEF Incr
    <2>3. PICK q \in Request : q = req[c]
      BY <1>2 DEF At
    <2>4. PICK r : r = [q EXCEPT !.pc = "expire"]
      OBVIOUS
    <2>5. req'[c] = r
      BY <1>2, <2>2, <2>3, <2>4 DEF Goto
    <2>6. q.pc = "limit" /\ Sound(q)
      BY <1>2, <2>3, RequestAt
    <2>7. q \in LinkRequest \cup TestRequest
      BY <2>6, ShapeOfSound DEF Shape
    <2>8. r # None /\ r.pc = "expire" /\ Key(r) = Key(q)
      <3>1. Sound(r)
        BY <2>4, <2>6, <2>7, Onward
      <3>2. r # None
        BY <3>1, SoundMeans, NoneIsNoRow
      <3>3. CASE q \in LinkRequest
        BY <2>4, <3>2, <3>3 DEF LinkRequest, Key
      <3>4. CASE q \in TestRequest
        BY <2>4, <3>2, <3>4 DEF TestRequest, Key
      <3>5. QED
        BY <2>7, <3>3, <3>4
    <2>9. QED
      BY <1>1, <2>1, <2>3, <2>5, <2>8 DEF At
  <1>6. QED
    BY <1>4, <1>5

\* EXPIRE.
LEMMA ExpireLimit ==
  ASSUME IInv, LimitsEnd, NEW c \in Pool, Expire(c)
  PROVE  LimitsEnd'
  <1> SUFFICES ASSUME crashes' = 0, NEW k \in Limits, limit'[k].hits > 0, ~limit'[k].expires
               PROVE  \E d \in Pool : At(d, "expire")' /\ Key(req'[d]) = k
    BY DEF LimitsEnd, Key
  <1>1. PICK i : i = Key(req[c])
    OBVIOUS
  <1>2. /\ limit \in [Limits -> [hits : Nat, expires : BOOLEAN]] /\ req \in [Pool -> Request \cup {None}]
        /\ crashes = 0 /\ limit' = [limit EXCEPT ![i].expires = TRUE]
    BY <1>1 DEF Expire, IInv, Types
  <1>3. \A d \in Pool \ {c} : req'[d] = req[d]
    BY <1>2 DEF Expire, Goto, Admitted
  <1>4. k # i /\ limit'[k] = limit[k]
    BY <1>2
  <1>5. PICK d \in Pool : At(d, "expire") /\ Key(req[d]) = k
    BY <1>2, <1>4 DEF LimitsEnd
  <1>6. QED
    BY <1>1, <1>3, <1>4, <1>5 DEF At

LEMMA StepLimit == IInv /\ LimitsEnd /\ [Next]_vars => LimitsEnd'
  <1> SUFFICES ASSUME IInv, LimitsEnd, [Next]_vars
               PROVE  LimitsEnd'
    OBVIOUS
  <1>1. req \in [Pool -> Request \cup {None}] /\ crashes \in Nat
    BY DEF IInv, Types
  <1>2. ASSUME NEW c \in Pool, Begin(c) \/ Serve(c)
        PROVE  LimitsEnd'
    <2>1. CASE Incr(c)
      BY <2>1, IncrLimit
    <2>2. CASE Expire(c)
      BY <2>2, ExpireLimit
    <2>3. CASE ~Incr(c) /\ ~Expire(c)
      <3>1. UNCHANGED <<limit, crashes>> /\ ~At(c, "expire")
        BY <1>2, <2>3 DEF Begin, Serve, Authenticate, SelectUser, InsertToken, Mail, CheckToken, Consume, Count,
             InsertChannel, OwnChannel, InsertWatch, Delete, Enqueue, Wait, VerifyChannel, At
      <3>2. \A d \in Pool \ {c} : req'[d] = req[d]
        <4>1. \E r : req' = [req EXCEPT ![c] = r]
          BY <1>2, <2>3 DEF Begin, Serve, Authenticate, SelectUser, InsertToken, Mail, CheckToken, Consume, Count,
               InsertChannel, OwnChannel, InsertWatch, Delete, Enqueue, Wait, VerifyChannel, Goto, Answer
        <4>2. QED
          BY <1>1, <4>1
      <3>3. QED
        BY <3>1, <3>2, LimitFrame
    <2>4. QED
      BY <2>1, <2>2, <2>3
  <1>3. CASE SendTestMessage
    BY <1>3, LimitFrame DEF SendTestMessage, Take, LoadChannel, SendTest, MarkVerified
  <1>4. CASE Administer
    BY <1>4, LimitFrame DEF Administer, DeleteUser, UpdateUser, DeleteWatchAdmin, UpdateWatch
  <1>5. CASE UNCHANGED vars \/ \E u \in sessions : Logout(u)
    BY <1>5, LimitFrame DEF vars, Logout
  <1>6. CASE Restart \/ WorkerDies
    BY <1>1, <1>6 DEF Restart, WorkerDies, LimitsEnd
  <1>7. ASSUME NEW k \in Limits, WindowEnds(k) PROVE LimitsEnd'
    BY <1>7 DEF WindowEnds, Fresh, LimitsEnd, At, Key, IInv, Types
  <1>8. QED
    BY <1>2, <1>3, <1>4, <1>5, <1>6, <1>7 DEF Next

\* Unless a process died, every counter that has counted expires or is about to: nobody
\* is locked out for ever.
THEOREM LimitsEndAlways == Spec => []LimitsEnd
  <1>1. Init => LimitsEnd
    BY DEF Init, LimitsEnd, Fresh
  <1>2. QED
    BY <1>1, StepLimit, Invariance, PTL DEF Spec

--------------------------------------------------------------------------------
(* Caps.                                                                   *)

\* The connections whose request has been told there is room, and has yet to use it.
CountedChannels(u) == {c \in Pool : At(c, "insert") /\ req[c].op = "channel" /\ req[c].user = u}
CountedWatches(u) == {c \in Pool : (At(c, "own") \/ At(c, "insert")) /\ req[c].op = "watch" /\ req[c].user = u}

\* One row of the last connection to count was there when it counted, hence the - 1.
CapInv ==
  \A u \in Nat :
    /\ Cardinality(ChannelsOf(u)) + Cardinality(CountedChannels(u)) <= MaxChannels + Cardinality(Pool) - 1
    /\ Cardinality(WatchesOf(u)) + Cardinality(CountedWatches(u)) <= MaxWatches + Cardinality(Pool) - 1

\* What a step may do to a user's rows and to the requests that count on room.
Fits(rows, counted, rows1, counted1, max) ==
  \/ rows1 \subseteq rows /\ counted1 \subseteq counted
  \/ rows1 \subseteq rows /\ Cardinality(rows) < max /\ counted1 \subseteq Pool
  \/ \E row, c : rows1 \subseteq rows \cup {row} /\ c \in counted /\ counted1 \subseteq counted \ {c}

LEMMA FitsKeepsCap ==
  ASSUME NEW rows, IsFiniteSet(rows), NEW counted \in SUBSET Pool, NEW rows1, NEW counted1, NEW max \in Nat,
         Fits(rows, counted, rows1, counted1, max),
         Cardinality(rows) + Cardinality(counted) <= max + Cardinality(Pool) - 1
  PROVE  Cardinality(rows1) + Cardinality(counted1) <= max + Cardinality(Pool) - 1
  <1>1. /\ IsFiniteSet(Pool) /\ Cardinality(Pool) \in Nat
        /\ IsFiniteSet(counted) /\ Cardinality(counted) \in Nat /\ Cardinality(rows) \in Nat
    BY ConstAssumption, FS_Subset, FS_CardinalityType
  <1>2. CASE rows1 \subseteq rows /\ counted1 \subseteq counted
    <2>1. /\ Cardinality(rows1) <= Cardinality(rows) /\ Cardinality(counted1) <= Cardinality(counted)
          /\ Cardinality(rows1) \in Nat /\ Cardinality(counted1) \in Nat
      BY <1>1, <1>2, FS_Subset, FS_CardinalityType
    <2>2. QED
      BY <1>1, <2>1
  <1>3. CASE rows1 \subseteq rows /\ Cardinality(rows) < max /\ counted1 \subseteq Pool
    <2>1. /\ Cardinality(rows1) <= Cardinality(rows) /\ Cardinality(counted1) <= Cardinality(Pool)
          /\ Cardinality(rows1) \in Nat /\ Cardinality(counted1) \in Nat
      BY <1>1, <1>3, FS_Subset, FS_CardinalityType
    <2>2. QED
      BY <1>1, <1>3, <2>1
  <1>4. ASSUME NEW row, NEW c, rows1 \subseteq rows \cup {row}, c \in counted, counted1 \subseteq counted \ {c}
        PROVE  Cardinality(rows1) + Cardinality(counted1) <= max + Cardinality(Pool) - 1
    <2>1. /\ IsFiniteSet(rows \cup {row}) /\ Cardinality(rows \cup {row}) <= Cardinality(rows) + 1
          /\ Cardinality(rows \cup {row}) \in Nat
      <3>1. /\ IsFiniteSet(rows \cup {row})
            /\ Cardinality(rows \cup {row}) = IF row \in rows THEN Cardinality(rows) ELSE Cardinality(rows) + 1
        BY FS_AddElement
      <3>2. QED
        BY <1>1, <3>1
    <2>2. /\ IsFiniteSet(counted \ {c}) /\ Cardinality(counted \ {c}) = Cardinality(counted) - 1
      BY <1>1, <1>4, FS_RemoveElement
    <2>3. /\ Cardinality(rows1) <= Cardinality(rows \cup {row}) /\ Cardinality(rows1) \in Nat
      BY <1>4, <2>1, FS_Subset, FS_CardinalityType
    <2>4. /\ Cardinality(counted1) <= Cardinality(counted \ {c}) /\ Cardinality(counted1) \in Nat
      BY <1>4, <2>2, FS_Subset, FS_CardinalityType
    <2>5. QED
      BY <1>1, <2>1, <2>2, <2>3, <2>4
  <1>5. QED
    BY <1>2, <1>3, <1>4 DEF Fits

LEMMA FiniteRows ==
  ASSUME IInv, NEW u
  PROVE  /\ IsFiniteSet(ChannelsOf(u)) /\ IsFiniteSet(WatchesOf(u))
         /\ CountedChannels(u) \in SUBSET Pool /\ CountedWatches(u) \in SUBSET Pool
  <1>1. PICK n \in Nat : DOMAIN channels = 1..n
    BY Numbered DEF IInv
  <1>2. PICK m \in Nat : DOMAIN watches = 1..m
    BY Numbered DEF IInv
  <1>3. IsFiniteSet(1..n) /\ IsFiniteSet(1..m)
    BY FS_Interval
  <1>4. ChannelsOf(u) \in SUBSET (1..n) /\ WatchesOf(u) \in SUBSET (1..m)
    BY <1>1, <1>2 DEF ChannelsOf, WatchesOf, Ids
  <1>5. QED
    BY <1>3, <1>4, FS_Subset DEF CountedChannels, CountedWatches

\* Only an INSERT gives a user a row.
LEMMA ChannelsShrink ==
  ASSUME IInv, [Next]_vars, \A c \in Pool : ~ InsertChannel(c), NEW u
  PROVE  ChannelsOf(u)' \subseteq ChannelsOf(u)
  <1>1. PICK S : S = Channel \cup {None}
    OBVIOUS
  <1>2. channels \in Seq(S) /\ None \in S /\ (\A i \in DOMAIN channels : channels[i] \in S)
    BY <1>1, Rows DEF IInv, Types
  <1>3. ASSUME NEW gone, channels' = Without(channels, gone)
        PROVE  ChannelsOf(u)' \subseteq ChannelsOf(u)
    <2>1. /\ Ids(channels') \subseteq Ids(channels)
          /\ \A i \in Ids(channels') : channels'[i] = channels[i]
      BY <1>2, <1>3, Deletion DEF Ids
    <2>2. QED
      BY <2>1 DEF ChannelsOf
  <1>4. ASSUME NEW ch, channels' = Verified(channels, ch)
        PROVE  ChannelsOf(u)' \subseteq ChannelsOf(u)
    <2>1. \A i \in Ids(channels') : i \in Ids(channels) /\ channels'[i].user = channels[i].user
      BY <1>1, <1>2, <1>4 DEF Verified, Channel, Ids
    <2>2. QED
      BY <2>1 DEF ChannelsOf
  <1>5. CASE UNCHANGED channels
    BY <1>5 DEF ChannelsOf, Ids
  <1>6. ASSUME NEW c \in Pool, Begin(c) \/ Serve(c)
        PROVE  ChannelsOf(u)' \subseteq ChannelsOf(u)
    <2>1. CASE Delete(c)
      BY <2>1, <1>3 DEF Delete
    <2>2. CASE VerifyChannel(c)
      BY <2>2, <1>4 DEF VerifyChannel
    <2>3. CASE ~ Delete(c) /\ ~ VerifyChannel(c)
      <3>1. UNCHANGED channels
        BY <1>6, <2>3 DEF Begin, Serve, Authenticate, Incr, Expire, SelectUser, InsertToken, Mail, CheckToken,
             Consume, Count, OwnChannel, InsertWatch, Enqueue, Wait, db
      <3>2. QED
        BY <3>1, <1>5
    <2>4. QED
      BY <2>1, <2>2, <2>3
  <1>7. CASE SendTestMessage
    <2>1. CASE MarkVerified
      BY <2>1, <1>4 DEF MarkVerified
    <2>2. CASE Take \/ LoadChannel \/ SendTest
      BY <2>2, <1>5 DEF Take, LoadChannel, SendTest, db
    <2>3. QED
      BY <1>7, <2>1, <2>2 DEF SendTestMessage
  <1>8. CASE Administer
    <2>1. ASSUME NEW v, DeleteUser(v) PROVE ChannelsOf(u)' \subseteq ChannelsOf(u)
      BY <2>1, <1>3 DEF DeleteUser
    <2>2. CASE UNCHANGED channels
      BY <2>2, <1>5
    <2>3. QED
      BY <1>8, <2>1, <2>2 DEF Administer, UpdateUser, DeleteWatchAdmin, UpdateWatch
  <1>9. CASE UNCHANGED vars \/ Restart \/ WorkerDies \/ (\E k \in Limits : WindowEnds(k)) \/ (\E v \in sessions : Logout(v))
    BY <1>9, <1>5 DEF vars, Restart, WorkerDies, WindowEnds, Logout, db
  <1>10. QED
    BY <1>6, <1>7, <1>8, <1>9 DEF Next

LEMMA WatchesShrink ==
  ASSUME IInv, [Next]_vars, \A c \in Pool : ~ InsertWatch(c), NEW u
  PROVE  WatchesOf(u)' \subseteq WatchesOf(u)
  <1>1. PICK S : S = Watch \cup {None}
    OBVIOUS
  <1>2. watches \in Seq(S) /\ None \in S /\ (\A i \in DOMAIN watches : watches[i] \in S)
    BY <1>1, Rows DEF IInv, Types
  <1>3. ASSUME NEW gone, watches' = Without(watches, gone)
        PROVE  WatchesOf(u)' \subseteq WatchesOf(u)
    <2>1. /\ Ids(watches') \subseteq Ids(watches)
          /\ \A i \in Ids(watches') : watches'[i] = watches[i]
      BY <1>2, <1>3, Deletion DEF Ids
    <2>2. QED
      BY <2>1 DEF WatchesOf
  <1>4. ASSUME NEW w \in Ids(watches), NEW ch, watches' = [watches EXCEPT ![w].channel = ch]
        PROVE  WatchesOf(u)' \subseteq WatchesOf(u)
    <2>1. \A i \in Ids(watches') : i \in Ids(watches) /\ watches'[i].user = watches[i].user
      BY <1>1, <1>2, <1>4 DEF Watch, Ids
    <2>2. QED
      BY <2>1 DEF WatchesOf
  <1>5. CASE UNCHANGED watches
    BY <1>5 DEF WatchesOf, Ids
  <1>6. ASSUME NEW c \in Pool, Begin(c) \/ Serve(c)
        PROVE  WatchesOf(u)' \subseteq WatchesOf(u)
    <2>1. CASE Delete(c)
      BY <2>1, <1>3 DEF Delete
    <2>2. CASE ~ Delete(c)
      <3>1. UNCHANGED watches
        BY <1>6, <2>2 DEF Begin, Serve, Authenticate, Incr, Expire, SelectUser, InsertToken, Mail, CheckToken,
             Consume, Count, InsertChannel, OwnChannel, Enqueue, Wait, VerifyChannel, db
      <3>2. QED
        BY <3>1, <1>5
    <2>3. QED
      BY <2>1, <2>2
  <1>7. CASE SendTestMessage
    BY <1>5, <1>7 DEF SendTestMessage, Take, LoadChannel, SendTest, MarkVerified, db
  <1>8. CASE Administer
    <2>1. ASSUME NEW v, DeleteUser(v) PROVE WatchesOf(u)' \subseteq WatchesOf(u)
      BY <2>1, <1>3 DEF DeleteUser
    <2>2. ASSUME NEW w, DeleteWatchAdmin(w) PROVE WatchesOf(u)' \subseteq WatchesOf(u)
      BY <2>2, <1>3 DEF DeleteWatchAdmin
    <2>3. ASSUME NEW w \in Ids(watches), NEW ch, UpdateWatch(w, ch) PROVE WatchesOf(u)' \subseteq WatchesOf(u)
      BY <2>3, <1>4 DEF UpdateWatch
    <2>4. ASSUME NEW v, NEW e, UpdateUser(v, e) PROVE WatchesOf(u)' \subseteq WatchesOf(u)
      BY <2>4, <1>5 DEF UpdateUser
    <2>5. QED
      BY <1>8, <2>1, <2>2, <2>3, <2>4 DEF Administer
  <1>9. CASE UNCHANGED vars \/ Restart \/ WorkerDies \/ (\E k \in Limits : WindowEnds(k)) \/ (\E v \in sessions : Logout(v))
    BY <1>9, <1>5 DEF vars, Restart, WorkerDies, WindowEnds, Logout, db
  <1>10. QED
    BY <1>6, <1>7, <1>8, <1>9 DEF Next

\* A request that has been told there is room.
WithRoom(r) ==
  \/ r.op = "channel" /\ r.pc = "insert"
  \/ r.op = "watch" /\ r.pc \in {"own", "insert"}

LEMMA MoveCounts ==
  ASSUME IInv, NEW c \in Pool, NEW q, q = req[c], NEW r, req' = [req EXCEPT ![c] = r],
         \/ r = None
         \/ ~ WithRoom(r)
         \/ q # None /\ WithRoom(q) /\ r.op = q.op /\ r.user = q.user,
         NEW u
  PROVE  CountedChannels(u)' \subseteq CountedChannels(u) /\ CountedWatches(u)' \subseteq CountedWatches(u)
  <1>1. \A d \in Pool : req'[d] = IF d = c THEN r ELSE req[d]
    BY DEF IInv, Types
  <1>2. CountedChannels(u)' \subseteq CountedChannels(u)
    BY <1>1 DEF CountedChannels, At, WithRoom
  <1>3. CountedWatches(u)' \subseteq CountedWatches(u)
    BY <1>1 DEF CountedWatches, At, WithRoom
  <1>4. QED
    BY <1>2, <1>3

\* Going on to another statement changes nothing else of a request.
LEMMA PcOnly ==
  ASSUME NEW q \in Request, NEW pc, NEW r, r = [q EXCEPT !.pc = pc]
  PROVE  r.pc = pc /\ r.op = q.op /\ (q \in WatchRequest => r.user = q.user)
  <1>1. CASE q \in LinkRequest
    BY <1>1 DEF LinkRequest, WatchRequest
  <1>2. CASE q \in MailRequest
    BY <1>2 DEF MailRequest, WatchRequest
  <1>3. CASE q \in VerifyRequest
    BY <1>3 DEF VerifyRequest, WatchRequest
  <1>4. CASE q \in ChannelRequest
    BY <1>4 DEF ChannelRequest, WatchRequest
  <1>5. CASE q \in DropRequest
    BY <1>5 DEF DropRequest, WatchRequest
  <1>6. CASE q \in TestRequest
    BY <1>6 DEF TestRequest, WatchRequest
  <1>7. CASE q \in WaitRequest
    BY <1>7 DEF WaitRequest, WatchRequest
  <1>8. CASE q \in WatchRequest
    BY <1>8 DEF WatchRequest
  <1>9. CASE q \in UnwatchRequest
    BY <1>9 DEF UnwatchRequest, WatchRequest
  <1>10. QED
    BY <1>1, <1>2, <1>3, <1>4, <1>5, <1>6, <1>7, <1>8, <1>9 DEF Request

\* Only a count makes a request count on room.
LEMMA ServeCounts ==
  ASSUME IInv, NEW c \in Pool, Begin(c) \/ (Serve(c) /\ ~ Count(c)), NEW u
  PROVE  CountedChannels(u)' \subseteq CountedChannels(u) /\ CountedWatches(u)' \subseteq CountedWatches(u)
  <1>1. PICK q : q = req[c]
    OBVIOUS
  <1>2. q # None => q \in Request /\ Shape(q)
    BY <1>1, ShapeOfSound, SoundMeans DEF IInv, ReqInv
  <1>3. CASE Begin(c)
    <2>1. PICK r \in Asked : req' = [req EXCEPT ![c] = r]
      BY <1>3 DEF Begin
    <2>2. r.pc \in {"auth", "limit", "check"}
      BY <2>1 DEF Asked
    <2>3. QED
      BY <1>1, <2>1, <2>2, MoveCounts DEF WithRoom
  <1>4. CASE Authenticate(c)
    <2>1. PICK r : req' = [req EXCEPT ![c] = r] /\ (r = None \/ \E pc \in {"limit", "count", "delete"} : r = [q EXCEPT !.pc = pc])
      BY <1>1, <1>4 DEF Authenticate, Answer, Goto
    <2>2. r = None \/ r.pc \in {"limit", "count", "delete"}
      <3>1. q \in Request
        BY <1>1, <1>2, <1>4 DEF Authenticate, At
      <3>2. QED
        BY <2>1, <3>1, PcOnly
    <2>3. QED
      BY <1>1, <2>1, <2>2, MoveCounts DEF WithRoom
  <1>5. CASE Incr(c) \/ Expire(c)
    <2>1. /\ q # None /\ q \in LinkRequest \cup TestRequest
          /\ \E r : /\ req' = [req EXCEPT ![c] = r]
                    /\ \/ r = None
                       \/ r = [q EXCEPT !.pc = "expire"]
                       \/ r = [q EXCEPT !.pc = IF q.op = "link" THEN "select" ELSE "own"]
      BY <1>1, <1>2, <1>5 DEF Incr, Expire, Answer, Admitted, Goto, At, Shape
    <2>2. PICK r : /\ req' = [req EXCEPT ![c] = r]
                   /\ \/ r = None
                      \/ r = [q EXCEPT !.pc = "expire"]
                      \/ r = [q EXCEPT !.pc = IF q.op = "link" THEN "select" ELSE "own"]
      BY <2>1
    <2>3. q.op \in {"link", "test"}
      BY <2>1 DEF LinkRequest, TestRequest
    <2>4. r = None \/ r.op = q.op
      BY <1>2, <2>1, <2>2, PcOnly
    <2>5. QED
      BY <1>1, <2>2, <2>3, <2>4, MoveCounts DEF WithRoom
  <1>6. CASE SelectUser(c)
    <2>1. PICK v : req' = [req EXCEPT ![c].pc = "insert_token", ![c].user = v]
      BY <1>6 DEF SelectUser
    <2>2. PICK r : r = [q EXCEPT !.pc = "insert_token", !.user = v]
      OBVIOUS
    <2>3. q \in LinkRequest
      BY <1>1, <1>2, <1>6 DEF SelectUser, At, Shape
    <2>4. r.pc = "insert_token" /\ req' = [req EXCEPT ![c] = r]
      BY <1>1, <2>1, <2>2, <2>3 DEF LinkRequest, IInv, Types
    <2>5. QED
      BY <1>1, <2>4, MoveCounts DEF WithRoom
  <1>7. CASE InsertToken(c)
    <2>1. PICK r : req' = [req EXCEPT ![c] = r] /\ (r = None \/ r = [op |-> "link", pc |-> "mail", token |-> Len(tokens) + 1])
      BY <1>7 DEF InsertToken, Answer
    <2>2. r = None \/ r.pc = "mail"
      BY <2>1
    <2>3. QED
      BY <1>1, <2>1, <2>2, MoveCounts DEF WithRoom
  <1>8. CASE CheckToken(c) \/ Wait(c)
    <2>1. PICK r : req' = [req EXCEPT ![c] = r] /\ (r = None \/ \E pc \in {"consume", "verify"} : r = [q EXCEPT !.pc = pc])
      BY <1>1, <1>8 DEF CheckToken, Wait, Answer, Goto
    <2>2. r = None \/ r.pc \in {"consume", "verify"}
      BY <1>1, <1>2, <1>8, <2>1, PcOnly DEF CheckToken, Wait, At
    <2>3. QED
      BY <1>1, <2>1, <2>2, MoveCounts DEF WithRoom
  <1>9. CASE OwnChannel(c)
    <2>1. PICK r : req' = [req EXCEPT ![c] = r] /\ (r = None \/ r = [q EXCEPT !.pc = IF q.op = "test" THEN "enqueue" ELSE "insert"])
      BY <1>1, <1>9 DEF OwnChannel, Answer, Goto
    <2>2. q # None /\ q.pc = "own" /\ q \in TestRequest \cup WatchRequest
      BY <1>1, <1>2, <1>9 DEF OwnChannel, At, Shape
    <2>3. r = None \/ (r.op = q.op /\ (q \in WatchRequest => r.user = q.user))
      BY <1>2, <2>1, <2>2, PcOnly
    <2>4. (q \in TestRequest => q.op = "test") /\ (q \in WatchRequest => q.op = "watch")
      BY DEF TestRequest, WatchRequest
    <2>5. QED
      BY <1>1, <2>1, <2>2, <2>3, <2>4, MoveCounts DEF WithRoom
  <1>10. CASE Enqueue(c)
    <2>1. PICK r : /\ req' = [req EXCEPT ![c] = r]
                   /\ r = [op |-> "test", pc |-> "wait", channel |-> q.channel, job |-> Len(jobs) + 1]
      BY <1>1, <1>10 DEF Enqueue, IInv, Types
    <2>2. r.pc = "wait"
      BY <2>1
    <2>3. QED
      BY <1>1, <2>1, <2>2, MoveCounts DEF WithRoom
  <1>11. CASE req' = [req EXCEPT ![c] = None]
    BY <1>1, <1>11, MoveCounts
  <1>12. QED
    BY <1>3, <1>4, <1>5, <1>6, <1>7, <1>8, <1>9, <1>10, <1>11
    DEF Serve, Mail, Consume, InsertChannel, InsertWatch, Delete, VerifyChannel, Answer

LEMMA CountedShrink ==
  ASSUME IInv, [Next]_vars, \A c \in Pool : ~ Count(c), NEW u
  PROVE  CountedChannels(u)' \subseteq CountedChannels(u) /\ CountedWatches(u)' \subseteq CountedWatches(u)
  <1>1. ASSUME NEW c \in Pool, Begin(c) \/ Serve(c)
        PROVE  CountedChannels(u)' \subseteq CountedChannels(u) /\ CountedWatches(u)' \subseteq CountedWatches(u)
    BY <1>1, ServeCounts
  <1>2. CASE UNCHANGED req
    BY <1>2 DEF CountedChannels, CountedWatches, At
  <1>3. CASE Restart
    BY <1>3 DEF Restart, CountedChannels, CountedWatches, At
  <1>4. CASE SendTestMessage \/ WorkerDies
    BY <1>2, <1>4 DEF SendTestMessage, Take, LoadChannel, SendTest, MarkVerified, WorkerDies
  <1>5. CASE Administer
    BY <1>2, <1>5 DEF Administer, DeleteUser, UpdateUser, DeleteWatchAdmin, UpdateWatch
  <1>6. CASE UNCHANGED vars \/ (\E k \in Limits : WindowEnds(k)) \/ (\E v \in sessions : Logout(v))
    BY <1>2, <1>6 DEF vars, WindowEnds, Logout
  <1>7. QED
    BY <1>1, <1>3, <1>4, <1>5, <1>6 DEF Next

\* A count tells a request there is room only below the cap.
LEMMA CountFits ==
  ASSUME IInv, NEW c \in Pool, Count(c), NEW u
  PROVE  /\ Fits(ChannelsOf(u), CountedChannels(u), ChannelsOf(u)', CountedChannels(u)', MaxChannels)
         /\ Fits(WatchesOf(u), CountedWatches(u), WatchesOf(u)', CountedWatches(u)', MaxWatches)
  <1>1. PICK q : q = req[c]
    OBVIOUS
  <1>2. q # None /\ q.pc = "count" /\ q \in Request /\ q \in ChannelRequest \cup WatchRequest
    BY <1>1, ShapeOfSound, SoundMeans DEF Count, At, IInv, ReqInv, Shape
  <1>3. (q \in ChannelRequest => q.op = "channel") /\ (q \in WatchRequest => q.op = "watch")
    BY DEF ChannelRequest, WatchRequest
  <1>4. ChannelsOf(u)' = ChannelsOf(u) /\ WatchesOf(u)' = WatchesOf(u)
    BY DEF Count, db, ChannelsOf, WatchesOf, Ids
  <1>5. /\ Cardinality(ChannelsOf(u)) \in Nat /\ Cardinality(WatchesOf(u)) \in Nat
        /\ CountedChannels(u)' \subseteq Pool /\ CountedWatches(u)' \subseteq Pool
    BY FiniteRows, FS_CardinalityType DEF CountedChannels, CountedWatches
  <1>6. PICK r : /\ req' = [req EXCEPT ![c] = r]
                 /\ \/ r = None
                    \/ /\ r = [q EXCEPT !.pc = IF q.op = "channel" THEN "insert" ELSE "own"]
                       /\ q.op = "channel" => ~ (Cardinality(ChannelsOf(q.user)) >= MaxChannels)
                       /\ q.op # "channel" => ~ (Cardinality(WatchesOf(q.user)) >= MaxWatches)
    BY <1>1 DEF Count, Answer, Goto
  <1>7. \A d \in Pool : req'[d] = IF d = c THEN r ELSE req[d]
    BY <1>6 DEF IInv, Types
  <1>8. CASE r = None
    BY <1>1, <1>4, <1>6, <1>8, MoveCounts DEF Fits
  <1>9. CASE r # None
    <2>1. /\ r.op = q.op /\ (q.op = "channel" => r.pc = "insert") /\ (q.op = "watch" => r.pc = "own")
          /\ r.user = q.user
      BY <1>2, <1>3, <1>6, <1>9 DEF ChannelRequest, WatchRequest
    <2>2. CASE q.user # u
      <3>1. CountedChannels(u)' \subseteq CountedChannels(u) /\ CountedWatches(u)' \subseteq CountedWatches(u)
        BY <1>7, <2>1, <2>2 DEF CountedChannels, CountedWatches, At
      <3>2. QED
        BY <1>4, <3>1 DEF Fits
    <2>3. CASE q.user = u /\ q.op = "channel"
      <3>1. CountedWatches(u)' \subseteq CountedWatches(u)
        BY <1>7, <2>1, <2>3 DEF CountedWatches, At
      <3>2. Cardinality(ChannelsOf(u)) < MaxChannels
        BY <1>5, <1>6, <1>9, <2>3, ConstAssumption
      <3>3. QED
        BY <1>4, <1>5, <3>1, <3>2 DEF Fits
    <2>4. CASE q.user = u /\ q.op = "watch"
      <3>1. CountedChannels(u)' \subseteq CountedChannels(u)
        BY <1>7, <2>1, <2>4 DEF CountedChannels, At
      <3>2. Cardinality(WatchesOf(u)) < MaxWatches
        BY <1>5, <1>6, <1>9, <2>4, ConstAssumption
      <3>3. QED
        BY <1>4, <1>5, <3>1, <3>2 DEF Fits
    <2>5. QED
      BY <1>2, <1>3, <2>2, <2>3, <2>4
  <1>10. QED
    BY <1>8, <1>9

\* An INSERT uses up the room it was told of.
LEMMA InsertChannelFits ==
  ASSUME IInv, NEW c \in Pool, InsertChannel(c), NEW u
  PROVE  Fits(ChannelsOf(u), CountedChannels(u), ChannelsOf(u)', CountedChannels(u)', MaxChannels)
  <1>1. PICK q : q = req[c]
    OBVIOUS
  <1>2. q # None /\ q.pc = "insert" /\ q.op = "channel" /\ q \in ChannelRequest
    <2>1. q # None /\ q.pc = "insert" /\ q.op = "channel" /\ q \in ChannelRequest \cup WatchRequest
      BY <1>1, ShapeOfSound DEF InsertChannel, At, IInv, ReqInv, Shape
    <2>2. QED
      BY <2>1 DEF WatchRequest
  <1>3. \A d \in Pool : req'[d] = IF d = c THEN None ELSE req[d]
    BY DEF InsertChannel, Answer, IInv, Types
  <1>4. CountedChannels(u)' \subseteq CountedChannels(u) \ {c}
    BY <1>3 DEF CountedChannels, At
  <1>5. CASE channels' = channels
    BY <1>4, <1>5 DEF Fits, ChannelsOf, Ids
  <1>6. CASE channels' # channels
    <2>1. PICK row : row = [user |-> q.user, verified |-> FALSE]
      OBVIOUS
    <2>2. row \in Channel /\ row # None /\ row.user = q.user
      <3>1. q.user \in Nat
        BY <1>2 DEF ChannelRequest
      <3>2. row \in Channel
        BY <2>1, <3>1 DEF Channel
      <3>3. QED
        BY <2>1, <3>2, NoneIsNoRow
    <2>3. channels' = Append(channels, row)
      BY <1>1, <1>6, <2>1 DEF InsertChannel
    <2>4. PICK n : n = Len(channels) + 1
      OBVIOUS
    <2>5. /\ Ids(channels') = Ids(channels) \cup {n}
          /\ \A i \in DOMAIN channels : channels'[i] = channels[i]
          /\ channels'[n] = row
      <3>1. PICK S : S = Channel \cup {None}
        OBVIOUS
      <3>2. channels \in Seq(S) /\ row \in S
        BY <2>2, <3>1 DEF IInv, Types
      <3>3. QED
        BY <2>2, <2>3, <2>4, <3>2, Insert
    <2>6. \A i \in Ids(channels) : i \in DOMAIN channels
      BY DEF Ids
    <2>7. CASE q.user = u
      <3>1. ChannelsOf(u)' \subseteq ChannelsOf(u) \cup {n}
        BY <2>5, <2>6 DEF ChannelsOf
      <3>2. c \in CountedChannels(u)
        BY <1>1, <1>2, <2>7 DEF CountedChannels, At
      <3>3. QED
        BY <1>4, <3>1, <3>2 DEF Fits
    <2>8. CASE q.user # u
      <3>1. ChannelsOf(u)' \subseteq ChannelsOf(u)
        BY <2>2, <2>5, <2>6, <2>8 DEF ChannelsOf
      <3>2. QED
        BY <1>4, <3>1 DEF Fits
    <2>9. QED
      BY <2>7, <2>8
  <1>7. QED
    BY <1>5, <1>6

LEMMA InsertWatchFits ==
  ASSUME IInv, NEW c \in Pool, InsertWatch(c), NEW u
  PROVE  Fits(WatchesOf(u), CountedWatches(u), WatchesOf(u)', CountedWatches(u)', MaxWatches)
  <1>1. PICK q : q = req[c]
    OBVIOUS
  <1>2. q # None /\ q.pc = "insert" /\ q.op = "watch" /\ q \in WatchRequest
    <2>1. q # None /\ q.pc = "insert" /\ q.op = "watch" /\ q \in ChannelRequest \cup WatchRequest
      BY <1>1, ShapeOfSound DEF InsertWatch, At, IInv, ReqInv, Shape
    <2>2. QED
      BY <2>1 DEF ChannelRequest
  <1>3. \A d \in Pool : req'[d] = IF d = c THEN None ELSE req[d]
    BY DEF InsertWatch, Answer, IInv, Types
  <1>4. CountedWatches(u)' \subseteq CountedWatches(u) \ {c}
    BY <1>3 DEF CountedWatches, At
  <1>5. CASE watches' = watches
    BY <1>4, <1>5 DEF Fits, WatchesOf, Ids
  <1>6. CASE watches' # watches
    <2>1. PICK row : row = [user |-> q.user, channel |-> q.channel]
      OBVIOUS
    <2>2. row \in Watch /\ row # None /\ row.user = q.user
      BY <1>2, <2>1, NoneIsNoRow DEF Watch, WatchRequest
    <2>3. watches' = Append(watches, row)
      BY <1>1, <1>6, <2>1 DEF InsertWatch
    <2>4. PICK n : n = Len(watches) + 1
      OBVIOUS
    <2>5. /\ Ids(watches') = Ids(watches) \cup {n}
          /\ \A i \in DOMAIN watches : watches'[i] = watches[i]
          /\ watches'[n] = row
      <3>1. PICK S : S = Watch \cup {None}
        OBVIOUS
      <3>2. watches \in Seq(S) /\ row \in S
        BY <2>2, <3>1 DEF IInv, Types
      <3>3. QED
        BY <2>2, <2>3, <2>4, <3>2, Insert
    <2>6. \A i \in Ids(watches) : i \in DOMAIN watches
      BY DEF Ids
    <2>7. CASE q.user = u
      <3>1. WatchesOf(u)' \subseteq WatchesOf(u) \cup {n}
        BY <2>5, <2>6 DEF WatchesOf
      <3>2. c \in CountedWatches(u)
        BY <1>1, <1>2, <2>7 DEF CountedWatches, At
      <3>3. QED
        BY <1>4, <3>1, <3>2 DEF Fits
    <2>8. CASE q.user # u
      <3>1. WatchesOf(u)' \subseteq WatchesOf(u)
        BY <2>2, <2>5, <2>6, <2>8 DEF WatchesOf
      <3>2. QED
        BY <1>4, <3>1 DEF Fits
    <2>9. QED
      BY <2>7, <2>8
  <1>7. QED
    BY <1>5, <1>6

LEMMA StepCap == IInv /\ CapInv /\ [Next]_vars => CapInv'
  <1> SUFFICES ASSUME IInv, CapInv, [Next]_vars, NEW u \in Nat
               PROVE  /\ Cardinality(ChannelsOf(u)') + Cardinality(CountedChannels(u)')
                           <= MaxChannels + Cardinality(Pool) - 1
                      /\ Cardinality(WatchesOf(u)') + Cardinality(CountedWatches(u)')
                           <= MaxWatches + Cardinality(Pool) - 1
    BY DEF CapInv
  <1>1. Fits(ChannelsOf(u), CountedChannels(u), ChannelsOf(u)', CountedChannels(u)', MaxChannels)
    <2>1. CASE \E c \in Pool : Count(c)
      BY <2>1, CountFits
    <2>2. CASE \E c \in Pool : InsertChannel(c)
      BY <2>2, InsertChannelFits
    <2>3. CASE \A c \in Pool : ~ Count(c) /\ ~ InsertChannel(c)
      BY <2>3, ChannelsShrink, CountedShrink DEF Fits
    <2>4. QED
      BY <2>1, <2>2, <2>3
  <1>2. Fits(WatchesOf(u), CountedWatches(u), WatchesOf(u)', CountedWatches(u)', MaxWatches)
    <2>1. CASE \E c \in Pool : Count(c)
      BY <2>1, CountFits
    <2>2. CASE \E c \in Pool : InsertWatch(c)
      BY <2>2, InsertWatchFits
    <2>3. CASE \A c \in Pool : ~ Count(c) /\ ~ InsertWatch(c)
      BY <2>3, WatchesShrink, CountedShrink DEF Fits
    <2>4. QED
      BY <2>1, <2>2, <2>3
  <1>3. /\ Cardinality(ChannelsOf(u)) + Cardinality(CountedChannels(u)) <= MaxChannels + Cardinality(Pool) - 1
        /\ Cardinality(WatchesOf(u)) + Cardinality(CountedWatches(u)) <= MaxWatches + Cardinality(Pool) - 1
    BY DEF CapInv
  <1>4. MaxChannels \in Nat /\ MaxWatches \in Nat
    BY ConstAssumption
  <1>5. QED
    BY <1>1, <1>2, <1>3, <1>4, FiniteRows, FitsKeepsCap

LEMMA InitCap == Init => CapInv
  <1> SUFFICES ASSUME Init, NEW u \in Nat
               PROVE  /\ Cardinality(ChannelsOf(u)) + Cardinality(CountedChannels(u)) <= MaxChannels + Cardinality(Pool) - 1
                      /\ Cardinality(WatchesOf(u)) + Cardinality(CountedWatches(u)) <= MaxWatches + Cardinality(Pool) - 1
    BY DEF CapInv
  <1>1. CountedChannels(u) = {} /\ CountedWatches(u) = {} /\ WatchesOf(u) = {}
    BY DEF Init, CountedChannels, CountedWatches, WatchesOf, Ids, At
  <1>2. ChannelsOf(u) \subseteq {u}
    BY DEF Init, ChannelsOf, Ids
  <1>3. IsFiniteSet({u}) /\ Cardinality({u}) = 1
    BY FS_Singleton
  <1>4. Cardinality(ChannelsOf(u)) <= 1 /\ Cardinality(ChannelsOf(u)) \in Nat
    <2>1. IsFiniteSet(ChannelsOf(u)) /\ Cardinality(ChannelsOf(u)) <= Cardinality({u})
      BY <1>2, <1>3, FS_Subset
    <2>2. QED
      BY <1>3, <2>1, FS_CardinalityType
  <1>5. Cardinality(Pool) \in Nat /\ Cardinality(Pool) # 0
    BY ConstAssumption, FS_CardinalityType, FS_EmptySet
  <1>6. Cardinality({}) = 0
    BY FS_EmptySet
  <1>7. QED
    BY <1>1, <1>4, <1>5, <1>6, ConstAssumption

\* The caps, which are checked before the INSERT and in another statement, are
\* exceeded by at most one row for each further connection of the pool.
THEOREM CapsHoldAlways == Spec => []CapsHold
  <1>1. IInv /\ CapInv => CapsHold
    <2> SUFFICES ASSUME IInv, CapInv, NEW u \in DOMAIN users
                 PROVE  /\ Cardinality(ChannelsOf(u)) <= MaxChannels + Cardinality(Pool) - 1
                        /\ Cardinality(WatchesOf(u)) <= MaxWatches + Cardinality(Pool) - 1
      BY DEF CapsHold
    <2>1. u \in Nat
      BY Numbered DEF IInv
    <2>2. /\ Cardinality(ChannelsOf(u)) \in Nat /\ Cardinality(CountedChannels(u)) \in Nat
          /\ Cardinality(WatchesOf(u)) \in Nat /\ Cardinality(CountedWatches(u)) \in Nat
          /\ Cardinality(Pool) \in Nat
      BY ConstAssumption, FiniteRows, FS_Subset, FS_CardinalityType
    <2>3. QED
      BY <2>1, <2>2, ConstAssumption DEF CapInv
  <1>2. QED
    BY <1>1, InitCap, StepCap, Invariance, PTL DEF Spec

================================================================================
