------------------------------ MODULE Accounts ------------------------------
(***************************************************************************)
(* The signed-in half of the API: magic links, sessions, rate limits,      *)
(* channels and their test sends, watches, and the operator's edits.  A    *)
(* request holds a connection of the pool from its first statement to its  *)
(* answer, so there are as many at once as the pool has connections.  Each *)
(* SELECT, each Redis command and each write with its commit is a step; a  *)
(* constraint is decided when the write commits.  Rows are numbered by     *)
(* their BIGSERIAL ids and become None when deleted.                       *)
(***************************************************************************)
EXTENDS Integers, Sequences, FiniteSets

CONSTANTS
  Pool,         \* the connections of the pool
  Emails,
  Registered,   \* the e-mails of the users there are at first
  MaxChannels, MaxWatches,   \* MAX_CHANNELS_PER_USER, MAX_WATCHES_PER_USER
  MaxHits,      \* requests a rate limit lets through in a window
  MaxRequests,  \* bound: requests, the operator's edits included
  MaxCrashes,   \* bound: restarts of the API and deaths of the worker
  None

VARIABLES
  users,      \* the e-mail of each
  tokens,     \* magic_link_tokens: user, consumed, mailed
  channels,   \* notification_channels: user, verified
  watches,    \* watches on one subject: user, channel
  sessions,   \* the users for whom somebody holds a session cookie
  limit,      \* Redis: the counter under each key and whether it expires
  jobs,       \* test-send jobs: channel, state
  worker,     \* what the worker is doing: job, pc, or None
  req,        \* the request on each connection, or None
  requests, crashes,   \* how many there have been
  arrived,    \* ghost: the channels a test message has come through
  edited,     \* ghost: the watches an operator has pointed elsewhere
  signIns     \* ghost: per token, how often it signed somebody in

db == <<users, tokens, channels, watches>>
ghosts == <<arrived, edited, signIns>>
vars == <<db, sessions, limit, jobs, worker, req, requests, crashes, ghosts>>

\* The rows of the tables, and the requests: one set for each endpoint.
Token == [user : Nat, consumed : BOOLEAN, mailed : BOOLEAN]
Channel == [user : Nat, verified : BOOLEAN]
Watch == [user : Nat, channel : Nat]

LinkRequest == [op : {"link"}, email : Emails, user : Nat \cup {None},
                pc : {"limit", "expire", "select", "insert_token"}]
MailRequest == [op : {"link"}, pc : {"mail"}, token : Nat]
VerifyRequest == [op : {"verify"}, token : Nat, user : Nat, pc : {"check", "consume"}, unused : BOOLEAN]
ChannelRequest == [op : {"channel"}, user : Nat, pc : {"auth", "count", "insert"}]
DropRequest == [op : {"drop"}, user : Nat, channel : Nat, pc : {"auth", "delete"}]
TestRequest == [op : {"test"}, user : Nat, channel : Nat, pc : {"auth", "limit", "expire", "own", "enqueue"}]
WaitRequest == [op : {"test"}, pc : {"wait", "verify"}, channel : Nat, job : Nat]
WatchRequest == [op : {"watch"}, user : Nat, channel : Nat, pc : {"auth", "count", "own", "insert"}]
UnwatchRequest == [op : {"unwatch"}, user : Nat, watch : Nat, pc : {"auth", "delete"}]
Request == LinkRequest \cup MailRequest \cup VerifyRequest \cup ChannelRequest \cup DropRequest
           \cup TestRequest \cup WaitRequest \cup WatchRequest \cup UnwatchRequest

ASSUME ConstAssumption ==
  /\ IsFiniteSet(Pool) /\ Pool # {}
  /\ Registered \in Seq(Emails) /\ Len(Registered) > 0
  /\ \A u, v \in DOMAIN Registered : Registered[u] = Registered[v] => u = v
  /\ MaxChannels \in Nat \ {0} /\ MaxWatches \in Nat
  /\ MaxHits \in Nat \ {0} /\ MaxRequests \in Nat /\ MaxCrashes \in Nat
  /\ None \notin Emails \cup Token \cup Channel \cup Watch \cup Request

\* request-link is limited per address (and client), test sends per user.
Limits == ({"link"} \X Emails) \cup ({"test"} \X (1..(Len(Registered) + MaxRequests)))
Key(r) == <<r.op, IF r.op = "link" THEN r.email ELSE r.user>>
Fresh == [hits |-> 0, expires |-> FALSE]

\* Everybody has a channel, and the first is signed in.
Init ==
  /\ users = Registered
  /\ tokens = <<>>
  /\ channels = [u \in DOMAIN Registered |-> [user |-> u, verified |-> FALSE]]
  /\ watches = <<>>
  /\ sessions = {1}
  /\ limit = [k \in Limits |-> Fresh]
  /\ jobs = <<>>
  /\ worker = None
  /\ req = [c \in Pool |-> None]
  /\ requests = 0 /\ crashes = 0
  /\ arrived = {} /\ edited = {} /\ signIns = <<>>

Ids(table) == {i \in DOMAIN table : table[i] # None}
ChannelsOf(u) == {c \in Ids(channels) : channels[c].user = u}
WatchesOf(u) == {w \in Ids(watches) : watches[w].user = u}
Without(table, gone) == [i \in DOMAIN table |-> IF i \in gone THEN None ELSE table[i]]

-----------------------------------------------------------------------------
(* Requests                                                                *)

\* What a browser can ask for: the links it was mailed, and with a cookie whatever
\* id it puts into the path.
Asked ==
  {[op |-> "link", email |-> e, user |-> None, pc |-> "limit"] : e \in Emails}
  \cup {[op |-> "verify", token |-> t, user |-> tokens[t].user, pc |-> "check",
         unused |-> ~tokens[t].consumed] : t \in {t \in Ids(tokens) : tokens[t].mailed}}
  \cup {[op |-> "channel", user |-> u, pc |-> "auth"] : u \in sessions}
  \cup {[op |-> o, user |-> u, channel |-> c, pc |-> "auth"] :
          o \in {"drop", "test", "watch"}, u \in sessions, c \in DOMAIN channels}
  \cup {[op |-> "unwatch", user |-> u, watch |-> w, pc |-> "auth"] :
          u \in sessions, w \in DOMAIN watches}

Begin(c) ==
  /\ req[c] = None
  /\ requests < MaxRequests /\ requests' = requests + 1
  /\ \E r \in Asked : req' = [req EXCEPT ![c] = r]
  /\ UNCHANGED <<db, sessions, limit, jobs, worker, crashes, ghosts>>

At(c, pc) == req[c] # None /\ req[c].pc = pc
Goto(c, pc) == req' = [req EXCEPT ![c].pc = pc]
Answer(c) == req' = [req EXCEPT ![c] = None]

\* get_current_user, for every endpoint that needs a session.
Authenticate(c) ==
  /\ At(c, "auth")
  /\ IF users[req[c].user] = None THEN Answer(c)
     ELSE Goto(c, CASE req[c].op = "test" -> "limit"
                    [] req[c].op \in {"channel", "watch"} -> "count"
                    [] OTHER -> "delete")
  /\ UNCHANGED <<db, sessions, limit, jobs, worker, requests, crashes, ghosts>>

Admitted(c) == Goto(c, IF req[c].op = "link" THEN "select" ELSE "own")

\* (Mutant: without EXPIRE.)
IncrOnly(c) ==
  /\ At(c, "limit")
  /\ LET k == Key(req[c])
         hits == limit[k].hits + 1
     IN  /\ limit' = [limit EXCEPT ![k].hits = hits]
         /\ IF hits > MaxHits THEN Answer(c) ELSE Admitted(c)
  /\ UNCHANGED <<db, sessions, jobs, worker, requests, crashes, ghosts>>

\* enforce_rate_limit: INCR ...
Incr(c) ==
  /\ At(c, "limit")
  /\ LET k == Key(req[c])
         hits == limit[k].hits + 1
     IN  /\ limit' = [limit EXCEPT ![k].hits = hits]
         /\ CASE hits = 1 -> Goto(c, "expire")
              [] hits > MaxHits -> Answer(c)
              [] OTHER -> Admitted(c)
  /\ UNCHANGED <<db, sessions, jobs, worker, requests, crashes, ghosts>>

\* ... and EXPIRE, by the request that counted 1.
Expire(c) ==
  /\ At(c, "expire")
  /\ limit' = [limit EXCEPT ![Key(req[c])].expires = TRUE]
  /\ Admitted(c)
  /\ UNCHANGED <<db, sessions, jobs, worker, requests, crashes, ghosts>>

WindowEnds(k) ==
  /\ limit[k].expires
  /\ limit' = [limit EXCEPT ![k] = Fresh]
  /\ UNCHANGED <<db, sessions, jobs, worker, req, requests, crashes, ghosts>>

-----------------------------------------------------------------------------
(* Magic links                                                             *)

SelectUser(c) ==
  /\ At(c, "select")
  /\ LET found == {u \in Ids(users) : users[u] = req[c].email}
     IN  req' = [req EXCEPT ![c].pc = "insert_token",
                            ![c].user = IF found = {} THEN None ELSE CHOOSE u \in found : TRUE]
  /\ UNCHANGED <<db, sessions, limit, jobs, worker, requests, crashes, ghosts>>

\* INSERT of the user if there was none, INSERT of the token, commit.  The first fails
\* if the address was taken meanwhile, the second if the user was deleted: a 500.
InsertToken(c) ==
  /\ At(c, "insert_token")
  /\ LET new == req[c].user = None
         u == IF new THEN Len(users) + 1 ELSE req[c].user
         fails == IF new THEN \E v \in Ids(users) : users[v] = req[c].email ELSE users[u] = None
     IN  IF fails THEN Answer(c) /\ UNCHANGED <<users, tokens, signIns>>
         ELSE /\ users' = IF new THEN Append(users, req[c].email) ELSE users
              /\ tokens' = Append(tokens, [user |-> u, consumed |-> FALSE, mailed |-> FALSE])
              /\ signIns' = Append(signIns, 0)
              /\ req' = [req EXCEPT ![c] = [op |-> "link", pc |-> "mail", token |-> Len(tokens) + 1]]
  /\ UNCHANGED <<channels, watches, sessions, limit, jobs, worker, requests, crashes, arrived, edited>>

\* send_magic_link_email: an SMTP error is logged, and the answer the same.
Mail(c) ==
  /\ At(c, "mail")
  /\ \/ /\ tokens[req[c].token] # None
        /\ tokens' = [tokens EXCEPT ![req[c].token].mailed = TRUE]
     \/ tokens' = tokens
  /\ Answer(c)
  /\ UNCHANGED <<users, channels, watches, sessions, limit, jobs, worker, requests, crashes, ghosts>>

\* (Mutant: whether the link was used is not asked.)
CheckTokenExists(c) ==
  /\ At(c, "check")
  /\ \/ tokens[req[c].token] # None /\ Goto(c, "consume")
     \/ Answer(c)
  /\ UNCHANGED <<db, sessions, limit, jobs, worker, requests, crashes, ghosts>>

\* verify: the SELECT and its checks; the link may also have expired.
CheckToken(c) ==
  /\ At(c, "check")
  /\ LET t == tokens[req[c].token]
     IN  \/ t # None /\ ~t.consumed /\ Goto(c, "consume")
         \/ Answer(c)
  /\ UNCHANGED <<db, sessions, limit, jobs, worker, requests, crashes, ghosts>>

\* UPDATE ... WHERE id, which nobody asks how many rows it changed, and the cookie.
Consume(c) ==
  /\ At(c, "consume")
  /\ LET t == req[c].token
     IN  /\ tokens' = IF tokens[t] = None THEN tokens ELSE [tokens EXCEPT ![t].consumed = TRUE]
         /\ signIns' = [signIns EXCEPT ![t] = @ + 1]
  /\ sessions' = sessions \cup {req[c].user}
  /\ Answer(c)
  /\ UNCHANGED <<users, channels, watches, limit, jobs, worker, requests, crashes, arrived, edited>>

Logout(u) ==
  /\ u \in sessions
  /\ requests < MaxRequests /\ requests' = requests + 1
  /\ sessions' = sessions \ {u}
  /\ UNCHANGED <<db, limit, jobs, worker, req, crashes, ghosts>>

-----------------------------------------------------------------------------
(* Channels and watches                                                    *)

\* (Mutant: one more than the cap.)
CountBeyond(c) ==
  /\ At(c, "count")
  /\ LET u == req[c].user
         full == IF req[c].op = "channel" THEN Cardinality(ChannelsOf(u)) > MaxChannels
                 ELSE Cardinality(WatchesOf(u)) > MaxWatches
     IN  IF full THEN Answer(c) ELSE Goto(c, IF req[c].op = "channel" THEN "insert" ELSE "own")
  /\ UNCHANGED <<db, sessions, limit, jobs, worker, requests, crashes, ghosts>>

\* The cap, counted before the INSERT.
Count(c) ==
  /\ At(c, "count")
  /\ LET u == req[c].user
         full == IF req[c].op = "channel" THEN Cardinality(ChannelsOf(u)) >= MaxChannels
                 ELSE Cardinality(WatchesOf(u)) >= MaxWatches
     IN  IF full THEN Answer(c) ELSE Goto(c, IF req[c].op = "channel" THEN "insert" ELSE "own")
  /\ UNCHANGED <<db, sessions, limit, jobs, worker, requests, crashes, ghosts>>

InsertChannel(c) ==
  /\ At(c, "insert") /\ req[c].op = "channel"
  /\ channels' = IF users[req[c].user] = None THEN channels
                 ELSE Append(channels, [user |-> req[c].user, verified |-> FALSE])
  /\ Answer(c)
  /\ UNCHANGED <<users, tokens, watches, sessions, limit, jobs, worker, requests, crashes, ghosts>>

\* (Mutant: whose channel it is is not asked.)
OwnChannelExists(c) ==
  /\ At(c, "own")
  /\ IF req[c].channel \in Ids(channels)
       THEN Goto(c, IF req[c].op = "test" THEN "enqueue" ELSE "insert")
       ELSE Answer(c)
  /\ UNCHANGED <<db, sessions, limit, jobs, worker, requests, crashes, ghosts>>

\* SELECT id FROM notification_channels WHERE id = ... AND user_id = ...
OwnChannel(c) ==
  /\ At(c, "own")
  /\ IF req[c].channel \in ChannelsOf(req[c].user)
       THEN Goto(c, IF req[c].op = "test" THEN "enqueue" ELSE "insert")
       ELSE Answer(c)
  /\ UNCHANGED <<db, sessions, limit, jobs, worker, requests, crashes, ghosts>>

\* A duplicate is a 409; a channel or user deleted meanwhile breaks a foreign key.
InsertWatch(c) ==
  /\ At(c, "insert") /\ req[c].op = "watch"
  /\ LET w == [user |-> req[c].user, channel |-> req[c].channel]
     IN  watches' = IF users[w.user] = None \/ channels[w.channel] = None
                       \/ \E x \in Ids(watches) : watches[x] = w
                    THEN watches ELSE Append(watches, w)
  /\ Answer(c)
  /\ UNCHANGED <<users, tokens, channels, sessions, limit, jobs, worker, requests, crashes, ghosts>>

On(gone) == {w \in Ids(watches) : watches[w].channel \in gone}

\* DELETE ... WHERE id = ... AND user_id = ...; watches go with their channel.
Delete(c) ==
  /\ At(c, "delete")
  /\ LET r == req[c]
         gone == IF r.op = "drop" THEN {r.channel} \cap ChannelsOf(r.user) ELSE {}
         watch == IF r.op = "unwatch" THEN {r.watch} \cap WatchesOf(r.user) ELSE {}
     IN  /\ channels' = Without(channels, gone)
         /\ watches' = Without(watches, watch \cup On(gone))
  /\ Answer(c)
  /\ UNCHANGED <<users, tokens, sessions, limit, jobs, worker, requests, crashes, ghosts>>

-----------------------------------------------------------------------------
(* Test sends                                                              *)

Enqueue(c) ==
  /\ At(c, "enqueue")
  /\ jobs' = Append(jobs, [channel |-> req[c].channel, state |-> "queued"])
  /\ req' = [req EXCEPT ![c] = [op |-> "test", pc |-> "wait", channel |-> @.channel, job |-> Len(jobs) + 1]]
  /\ UNCHANGED <<db, sessions, limit, worker, requests, crashes, ghosts>>

Verified(table, ch) == IF table[ch] = None THEN table ELSE [table EXCEPT ![ch].verified = TRUE]

\* (Mutant: no deadline.)
WaitForEver(c) ==
  /\ At(c, "wait")
  /\ \/ jobs[req[c].job].state = "finished" /\ Goto(c, "verify")
     \/ jobs[req[c].job].state = "failed" /\ Answer(c)
  /\ UNCHANGED <<db, sessions, limit, jobs, worker, requests, crashes, ghosts>>

\* enqueue_and_wait_for_test_send: finished, failed, or the deadline has passed.
Wait(c) ==
  /\ At(c, "wait")
  /\ \/ jobs[req[c].job].state = "finished" /\ Goto(c, "verify")
     \/ jobs[req[c].job].state = "failed" /\ Answer(c)
     \/ Answer(c)
  /\ UNCHANGED <<db, sessions, limit, jobs, worker, requests, crashes, ghosts>>

VerifyChannel(c) ==
  /\ At(c, "verify")
  /\ channels' = Verified(channels, req[c].channel)
  /\ Answer(c)
  /\ UNCHANGED <<users, tokens, watches, sessions, limit, jobs, worker, requests, crashes, ghosts>>

JobEnds(state) == jobs' = [jobs EXCEPT ![worker.job].state = state] /\ worker' = None
Working(pc) == worker # None /\ worker.pc = pc

Take ==
  /\ worker = None
  /\ \E j \in DOMAIN jobs :
       /\ jobs[j].state = "queued" /\ \A i \in 1..(j - 1) : jobs[i].state # "queued"
       /\ jobs' = [jobs EXCEPT ![j].state = "started"]
       /\ worker' = [job |-> j, pc |-> "load"]
  /\ UNCHANGED <<db, sessions, limit, req, requests, crashes, ghosts>>

\* send_test_message: a channel deleted since is a SendError.
LoadChannel ==
  /\ Working("load")
  /\ IF channels[jobs[worker.job].channel] = None THEN JobEnds("failed")
     ELSE worker' = [worker EXCEPT !.pc = "send"] /\ jobs' = jobs
  /\ UNCHANGED <<db, sessions, limit, req, requests, crashes, ghosts>>

\* The sender returns, or raises: before the message got through or after it, when
\* the answer is lost or job_timeout strikes.
SendTest ==
  /\ Working("send")
  /\ \/ /\ arrived' = arrived \cup {jobs[worker.job].channel}
        /\ \/ worker' = [worker EXCEPT !.pc = "mark"] /\ jobs' = jobs
           \/ JobEnds("failed")
     \/ arrived' = arrived /\ JobEnds("failed")
  /\ UNCHANGED <<db, sessions, limit, req, requests, crashes, edited, signIns>>

\* (Mutant: left to the API's success path.)
MarkVerifiedLater ==
  /\ Working("mark")
  /\ JobEnds("finished")
  /\ UNCHANGED <<db, sessions, limit, req, requests, crashes, ghosts>>

\* is_verified is set before the job counts as finished.
MarkVerified ==
  /\ Working("mark")
  /\ channels' = Verified(channels, jobs[worker.job].channel)
  /\ JobEnds("finished")
  /\ UNCHANGED <<users, tokens, watches, sessions, limit, req, requests, crashes, ghosts>>

SendTestMessage == Take \/ LoadChannel \/ SendTest \/ MarkVerified

-----------------------------------------------------------------------------
(* The operator, whose cookie no statement checks                          *)

UpdateUser(u, e) ==
  /\ requests < MaxRequests /\ requests' = requests + 1
  /\ \A v \in Ids(users) : users[v] # e
  /\ users' = [users EXCEPT ![u] = e]
  /\ UNCHANGED <<tokens, channels, watches, sessions, limit, jobs, worker, req, crashes, ghosts>>

\* (Mutant: watches go with their user but not with his channels.)
DeleteUserOnly(u) ==
  /\ requests < MaxRequests /\ requests' = requests + 1
  /\ users' = Without(users, {u})
  /\ tokens' = Without(tokens, {t \in Ids(tokens) : tokens[t].user = u})
  /\ channels' = Without(channels, ChannelsOf(u))
  /\ watches' = Without(watches, WatchesOf(u))
  /\ UNCHANGED <<sessions, limit, jobs, worker, req, crashes, ghosts>>

\* ON DELETE CASCADE, twice for the watches.
DeleteUser(u) ==
  /\ requests < MaxRequests /\ requests' = requests + 1
  /\ users' = Without(users, {u})
  /\ tokens' = Without(tokens, {t \in Ids(tokens) : tokens[t].user = u})
  /\ channels' = Without(channels, ChannelsOf(u))
  /\ watches' = Without(watches, WatchesOf(u) \cup On(ChannelsOf(u)))
  /\ UNCHANGED <<sessions, limit, jobs, worker, req, crashes, ghosts>>

\* Any existing channel will do.
UpdateWatch(w, ch) ==
  /\ requests < MaxRequests /\ requests' = requests + 1
  /\ channels[ch] # None
  /\ \A x \in WatchesOf(watches[w].user) : watches[x].channel # ch
  /\ watches' = [watches EXCEPT ![w].channel = ch]
  /\ edited' = edited \cup {w}
  /\ UNCHANGED <<users, tokens, channels, sessions, limit, jobs, worker, req, crashes, arrived, signIns>>

DeleteWatchAdmin(w) ==
  /\ requests < MaxRequests /\ requests' = requests + 1
  /\ watches' = Without(watches, {w})
  /\ UNCHANGED <<users, tokens, channels, sessions, limit, jobs, worker, req, crashes, ghosts>>

-----------------------------------------------------------------------------
\* The API restarts: its requests are gone, Redis, Postgres and the cookies are not.
Restart ==
  /\ crashes < MaxCrashes /\ crashes' = crashes + 1
  /\ req' = [c \in Pool |-> None]
  /\ UNCHANGED <<db, sessions, limit, jobs, worker, requests, ghosts>>

\* The job stays "started" until RQ notices, which may be long after.
WorkerDies ==
  /\ worker # None
  /\ crashes < MaxCrashes /\ crashes' = crashes + 1
  /\ worker' = None
  /\ UNCHANGED <<db, sessions, limit, jobs, req, requests, ghosts>>

Serve(c) ==
  \/ Authenticate(c) \/ Incr(c) \/ Expire(c)
  \/ SelectUser(c) \/ InsertToken(c) \/ Mail(c) \/ CheckToken(c) \/ Consume(c)
  \/ Count(c) \/ InsertChannel(c) \/ OwnChannel(c) \/ InsertWatch(c) \/ Delete(c)
  \/ Enqueue(c) \/ Wait(c) \/ VerifyChannel(c)

Administer ==
  \/ \E u \in Ids(users) : DeleteUser(u) \/ \E e \in Emails : UpdateUser(u, e)
  \/ \E w \in Ids(watches) : DeleteWatchAdmin(w) \/ \E ch \in DOMAIN channels : UpdateWatch(w, ch)

Next ==
  \/ \E c \in Pool : Begin(c) \/ Serve(c)
  \/ \E k \in Limits : WindowEnds(k)
  \/ \E u \in sessions : Logout(u)
  \/ SendTestMessage \/ Administer \/ Restart \/ WorkerDies

\* uvicorn keeps serving and its clock running; of the worker nothing is assumed.
Spec == Init /\ [][Next]_vars /\ \A c \in Pool : WF_vars(Serve(c))

-----------------------------------------------------------------------------
(* Properties                                                              *)

\* 001_app_tables.sql's foreign keys and unique columns, under every interleaving.
TypeOK ==
  /\ \A u, v \in Ids(users) : users[u] = users[v] => u = v
  /\ \A t \in Ids(tokens) : users[tokens[t].user] # None
  /\ \A ch \in Ids(channels) : users[channels[ch].user] # None
  /\ \A w \in Ids(watches) : users[watches[w].user] # None /\ channels[watches[w].channel] # None
  /\ \A k \in Limits : limit[k].hits \in Nat
  /\ \A j \in DOMAIN jobs : jobs[j].state \in {"queued", "started", "finished", "failed"}

\* mailer.py: "can only be used once".  It signs in twice only if both visits began
\* before either was done: no visit begun after the first sign-in succeeds.
UsedLinkIsDead ==
  [][\A t \in DOMAIN signIns : signIns[t] > 0 /\ signIns'[t] > signIns[t] =>
       \E c \in Pool : At(c, "consume") /\ req[c].token = t /\ req[c].unused]_vars

\* channels.py, watches.py: requests that count together pass together, and no more.
CapsHold ==
  \A u \in DOMAIN users :
    /\ Cardinality(ChannelsOf(u)) <= MaxChannels + Cardinality(Pool) - 1
    /\ Cardinality(WatchesOf(u)) <= MaxWatches + Cardinality(Pool) - 1

\* watches.py: nobody's alerts go to somebody else's channel, unless an operator sends
\* them there; deletions in between change nothing about it.
OwnChannelOnly ==
  \A w \in Ids(watches) \ edited : channels[watches[w].channel].user = watches[w].user

\* ratelimit.py: a counter that will not expire belongs to a request that is about to
\* see to it, unless the API died there: then it refuses for ever.
LimitsEnd ==
  crashes = 0 => \A k \in Limits : limit[k].hits > 0 /\ ~limit[k].expires =>
    \E c \in Pool : At(c, "expire") /\ Key(req[c]) = k

\* channels.py, jobs.py: a verified channel has had a message come through it, and a
\* send that succeeded is recorded "even if the api already gave up".
VerifiedArrived ==
  /\ \A ch \in Ids(channels) : channels[ch].verified => ch \in arrived
  /\ \A j \in DOMAIN jobs : jobs[j].state = "finished" /\ channels[jobs[j].channel] # None =>
       channels[jobs[j].channel].verified

\* test_send.py: whoever dies, a request is answered.
EveryRequestAnswered == \A c \in Pool : req[c] # None ~> req[c] = None
=============================================================================
