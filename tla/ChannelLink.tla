---------------------------- MODULE ChannelLink -----------------------------
(***************************************************************************)
(* Connecting channels to workspaces (app/api/v1/social_accounts.py): an   *)
(* Instagram account by Instagram Login, which also signs new shops up,    *)
(* Facebook Pages by a form or by Facebook Login (all Pages granted, in    *)
(* one transaction), a WhatsApp number by a form.                          *)
(*                                                                         *)
(* A request looks the channel up, talks to Meta, and inserts or updates   *)
(* its row; rows of one transaction become visible together, and the       *)
(* unique index makes the second of two inserts wait and then fail.  After *)
(* the response a task subscribes Instagram accounts to webhooks and seeds *)
(* the inbox from Graph, while customers write and Meta delivers.          *)
(***************************************************************************)
EXTENDS Naturals, FiniteSets

CONSTANTS
  Channel,      \* Instagram accounts, Pages, WhatsApp numbers
  Platform,     \* [Channel -> {"instagram", "facebook", "whatsapp"}]
  InstagramOf,  \* the Instagram account Meta links to a Page, or None
  Workspace,    \* ids of tenants
  Existing,     \* the workspaces that are there
  Message,      \* messages, numbered as they are written in a channel
  To,           \* [Message -> Channel]
  Chat,         \* the thread of a message, each of one channel
  Threads,      \* how many threads the seed fetches, 5
  PerThread,    \* how many messages of each Meta answers, 20
  Request,      \* requests and their tasks at a time
  MaxRequests,  \* bound: requests
  None          \* no row, no workspace, no channel

ASSUME ChannelLinkAssumption ==
  /\ Platform \in [Channel -> {"instagram", "facebook", "whatsapp"}]
  /\ InstagramOf \in [Channel -> Channel \cup {None}]
  /\ Existing \subseteq Workspace
  /\ Message \subseteq Nat
  /\ To \in [Message -> Channel]
  /\ \A m, n \in Message : Chat[m] = Chat[n] => To[m] = To[n]
  /\ Threads \in Nat /\ PerThread \in Nat
  /\ MaxRequests \in Nat
  /\ None \notin Workspace \cup Channel \cup Request

VARIABLES
  tenants,    \* the tenants table
  row,        \* social_accounts: the workspace of a channel
  held,       \* whose uncommitted insert has the channel's index entry
  req,        \* requests, then their background tasks
  told,       \* workspace and channel of the connects that were answered
  subscribed, \* channels whose webhooks Meta delivers
  sent,       \* messages Meta has
  wire,       \* deliveries under way
  stored,     \* messages in the inbox
  caughtUp,   \* channels a task has subscribed and seeded
  beyond,     \* messages too old for a seed that was fetched
  dropped,    \* messages whose delivery failed, rolled back and answered 200
  requests    \* budget used up

db == <<tenants, row, held, stored>>
meta == <<subscribed, sent, wire>>
seeding == <<caughtUp, beyond, dropped>>
vars == <<tenants, row, held, req, told, subscribed, sent, wire, stored,
          caughtUp, beyond, dropped, requests>>

-----------------------------------------------------------------------------
(* Types *)

Idle == [op |-> "idle"]

Op == {"instagram", "page", "pages", "whatsapp"}

\* by: the caller's workspace, None for an Instagram Login without a session;
\* todo: channels still to look at; at, seen: the one it is at and the row it
\* loaded; done: inserted or updated, not yet committed.
Handling == [op : Op, pc : {"next", "instagram", "subscribe", "write"},
             by : Workspace \cup {None}, todo : SUBSET Channel, at : Channel \cup {None},
             seen : Workspace \cup {None}, done : SUBSET Channel]

\* The task after the response; live: whether subscribing worked
AfterLink == [op : {"task"}, todo : SUBSET Channel, at : Channel \cup {None},
              pc : {"next", "fetch", "store"}, live : BOOLEAN, page : SUBSET Message]

TypeOK ==
  /\ tenants \subseteq Workspace
  /\ row \in [Channel -> Workspace \cup {None}]
  /\ held \in [Channel -> Request \cup {None}]
  /\ req \in [Request -> {Idle} \cup Handling \cup AfterLink]
  /\ told \subseteq (Workspace \X Channel)
  /\ subscribed \subseteq Channel
  /\ {sent, wire, stored, beyond, dropped} \subseteq SUBSET Message
  /\ caughtUp \subseteq Channel
  /\ requests \in Nat

Init ==
  /\ tenants = Existing
  /\ row = [ch \in Channel |-> None]
  /\ held = [ch \in Channel |-> None]
  /\ req = [r \in Request |-> Idle]
  /\ told = {}
  /\ subscribed = {} /\ sent = {} /\ wire = {} /\ stored = {}
  /\ caughtUp = {} /\ beyond = {} /\ dropped = {}
  /\ requests = 0

-----------------------------------------------------------------------------
(* Requests *)

\* The channels a workspace's Channels page lists.
Listed(w) == {ch \in Channel : row[ch] = w}

At(r, op, pc) == req[r] # Idle /\ req[r].op \in op /\ req[r].pc = pc

Goto(r, pc) == req' = [req EXCEPT ![r].pc = pc]

\* The transaction ends without effect: its index entries are free again.
Release(r) == held' = [ch \in Channel |-> IF held[ch] = r THEN None ELSE held[ch]]

Started(op, by, todo) ==
  [op |-> op, pc |-> "next", by |-> by, todo |-> todo, at |-> None, seen |-> None, done |-> {}]

\* What a request may be for: one channel, or the Pages granted on Facebook.
Asked ==
  {[op |-> o, todo |-> {ch}] : o \in {"instagram"}, ch \in {c \in Channel : Platform[c] = "instagram"}}
  \cup {[op |-> "page", todo |-> {ch}] : ch \in {c \in Channel : Platform[c] = "facebook"}}
  \cup {[op |-> "whatsapp", todo |-> {ch}] : ch \in {c \in Channel : Platform[c] = "whatsapp"}}
  \cup {[op |-> "pages", todo |-> {c \in Channel : Platform[c] = "facebook"}]}

\* Someone of a workspace connects, or a shop signs up by Instagram Login; Meta
\* has confirmed the code, the token or the number.
Begin(r, by, asked) ==
  /\ req[r] = Idle
  /\ requests < MaxRequests /\ requests' = requests + 1
  /\ by = None => asked.op = "instagram"
  /\ req' = [req EXCEPT ![r] = Started(asked.op, by, asked.todo)]
  /\ UNCHANGED <<db, told, meta, seeding>>

\* A Page that cannot be linked is skipped, in the form and for the others it is
\* the end of the request.
Refuse(r) ==
  \/ /\ req[r].op = "pages"
     /\ req' = [req EXCEPT ![r].pc = "next", ![r].at = None]
     /\ UNCHANGED held
  \/ /\ req[r].op # "pages"
     /\ req' = [req EXCEPT ![r] = Idle]
     /\ Release(r)

FirstStep(op) ==
  CASE op = "instagram" -> "write" [] op = "whatsapp" -> "subscribe" [] OTHER -> "instagram"

\* The next channel is looked up; one of another workspace is refused.
Load(r, ch) ==
  /\ At(r, Op, "next") /\ ch \in req[r].todo
  /\ LET q == [req[r] EXCEPT !.todo = @ \ {ch}]
         free == row[ch] = None \/ q.by = None \/ row[ch] = q.by
         op == q.op
     IN  \/ /\ free
            /\ req' = [req EXCEPT ![r] = [q EXCEPT !.at = ch, !.seen = row[ch], !.pc = FirstStep(op)]]
            /\ UNCHANGED held
         \/ /\ ~free
            /\ req' = [req EXCEPT ![r] = IF op = "pages" THEN q ELSE Idle]
            /\ IF op = "pages" THEN UNCHANGED held ELSE Release(r)
  /\ UNCHANGED <<tenants, row, stored, told, meta, seeding, requests>>

\* _linked_instagram: a Page whose Instagram account is connected elsewhere is
\* refused, if Meta says which account that is.
CheckInstagram(r) ==
  /\ At(r, {"page", "pages"}, "instagram")
  /\ \/ Goto(r, "subscribe") /\ UNCHANGED held
     \/ /\ InstagramOf[req[r].at] # None
        /\ row[InstagramOf[req[r].at]] \notin {None, req[r].by}
        /\ Refuse(r)
  /\ UNCHANGED <<tenants, row, stored, told, meta, seeding, requests>>

\* Mutant: a subscription that fails is only logged.
SubscribeOrLog(r) ==
  /\ At(r, {"page", "pages", "whatsapp"}, "subscribe")
  /\ subscribed' \in {subscribed, subscribed \cup {req[r].at}}
  /\ Goto(r, "write")
  /\ UNCHANGED <<db, told, sent, wire, seeding, requests>>

\* subscribe_page, subscribe_app: before anything is stored.
Subscribe(r) ==
  /\ At(r, {"page", "pages", "whatsapp"}, "subscribe")
  /\ \/ /\ subscribed' = subscribed \cup {req[r].at}
        /\ Goto(r, "write") /\ UNCHANGED held
     \/ /\ Refuse(r)
        /\ UNCHANGED subscribed
  /\ UNCHANGED <<tenants, row, stored, told, sent, wire, seeding, requests>>

Done(r) == req' = [req EXCEPT ![r].pc = "next", ![r].at = None, ![r].done = @ \cup {req[r].at}]

\* Mutant: the insert overwrites a row that is there (ON CONFLICT DO UPDATE).
WriteOver(r) ==
  /\ At(r, Op, "write")
  /\ \/ /\ req[r].seen = None /\ held[req[r].at] = None
        /\ held' = [held EXCEPT ![req[r].at] = r]
        /\ Done(r)
     \/ /\ req[r].seen # None
        /\ Done(r) /\ UNCHANGED held
  /\ UNCHANGED <<tenants, row, stored, told, meta, seeding, requests>>

\* The flush: the row that was loaded is updated; a new one waits for another
\* transaction that inserts it, and fails with the request if that is committed.
Write(r) ==
  /\ At(r, Op, "write")
  /\ \/ /\ req[r].seen = None /\ row[req[r].at] = None /\ held[req[r].at] = None
        /\ held' = [held EXCEPT ![req[r].at] = r]
        /\ Done(r)
     \/ /\ req[r].seen = None /\ row[req[r].at] # None
        /\ req' = [req EXCEPT ![r] = Idle]
        /\ Release(r)
     \/ /\ req[r].seen # None
        /\ Done(r) /\ UNCHANGED held
  /\ UNCHANGED <<tenants, row, stored, told, meta, seeding, requests>>

\* Mutant: always the caller's.
TargetOfCaller(r) == {req[r].by}

\* The workspace a request writes to: the caller's, the one the Instagram account
\* is linked to already, or a new one.
Target(r) ==
  IF req[r].by # None THEN {req[r].by}
  ELSE IF req[r].seen # None THEN {req[r].seen} ELSE Workspace \ tenants

Task(channels) ==
  [op |-> "task", todo |-> channels, at |-> None, pc |-> "next", live |-> TRUE, page |-> {}]

\* The transaction commits, and the redirect or the 201 says what is connected.
Commit(r) ==
  /\ At(r, Op, "next") /\ req[r].todo = {}
  /\ \/ /\ req[r].done # {}
        /\ \E w \in Target(r) :
             /\ tenants' = tenants \cup {w}
             /\ row' = [ch \in Channel |-> IF held[ch] = r THEN w ELSE row[ch]]
             /\ told' = told \cup ({w} \X req[r].done)
        /\ req' = [req EXCEPT ![r] = Task({ch \in req[r].done : Platform[ch] # "whatsapp"})]
     \/ /\ req[r].done = {}
        /\ req' = [req EXCEPT ![r] = Idle]
        /\ UNCHANGED <<tenants, row, told>>
  /\ Release(r)
  /\ UNCHANGED <<stored, meta, seeding, requests>>

-----------------------------------------------------------------------------
(* The task after the response *)

\* Mutant: the inbox is seeded first.
AfterLoginSeedsFirst(r, ch) ==
  /\ At(r, {"task"}, "next") /\ ch \in req[r].todo
  /\ \/ /\ req[r].at = None
        /\ req' = [req EXCEPT ![r].at = ch, ![r].page = {m \in sent : To[m] = ch}]
        /\ UNCHANGED subscribed
     \/ /\ req[r].at = ch
        /\ req' = [req EXCEPT ![r].todo = @ \ {ch}, ![r].pc = "store"]
        /\ subscribed' = subscribed \cup {ch}
  /\ UNCHANGED <<db, told, sent, wire, seeding, requests>>

\* _after_login subscribes an Instagram account, as best it can; a Page was
\* subscribed by the request.
AfterLogin(r, ch) ==
  /\ At(r, {"task"}, "next") /\ ch \in req[r].todo
  /\ \E ok \in BOOLEAN :
       /\ Platform[ch] # "instagram" => ok
       /\ subscribed' = IF ok THEN subscribed \cup {ch} ELSE subscribed
       /\ req' = [req EXCEPT ![r].todo = @ \ {ch}, ![r].at = ch, ![r].pc = "fetch", ![r].live = ok]
  /\ UNCHANGED <<db, told, sent, wire, seeding, requests>>

\* The messages of a channel that Graph lists for a seed: the newest of each of
\* its newest threads.
Written(ch) == {m \in sent : To[m] = ch}
Newer(m) == {n \in Written(To[m]) : n > m}
Fetched(ch) ==
  {m \in Written(ch) :
     LET last == CHOOSE n \in Written(ch) : Chat[n] = Chat[m] /\ \A k \in Newer(n) : Chat[k] # Chat[n]
     IN  /\ Cardinality({n \in Newer(m) : Chat[n] = Chat[m]}) < PerThread
         /\ Cardinality({Chat[n] : n \in Newer(last)}) < Threads}

\* _backfill, backfill_recent_conversations: the newest threads are fetched,
FetchSeed(r) ==
  /\ At(r, {"task"}, "fetch")
  /\ LET ch == req[r].at
     IN  /\ req' = [req EXCEPT ![r].page = Fetched(ch), ![r].pc = "store"]
         /\ beyond' = beyond \cup (Written(ch) \ Fetched(ch))
  /\ UNCHANGED <<db, told, meta, caughtUp, dropped, requests>>

\* and their messages stored, those that are there already left as they are.
StoreSeed(r) ==
  /\ At(r, {"task"}, "store")
  /\ stored' = stored \cup req[r].page
  /\ caughtUp' = IF req[r].live THEN caughtUp \cup {req[r].at} ELSE caughtUp
  /\ req' = [req EXCEPT ![r].pc = "next", ![r].at = None, ![r].page = {}, ![r].live = TRUE]
  /\ UNCHANGED <<tenants, row, held, told, meta, beyond, dropped, requests>>

EndTask(r) ==
  /\ At(r, {"task"}, "next") /\ req[r].todo = {}
  /\ req' = [req EXCEPT ![r] = Idle]
  /\ UNCHANGED <<db, told, meta, seeding, requests>>

\* A request fails, a seed fails or loses an insert to a delivery, a process dies,
\* or PostgreSQL breaks a deadlock of two requests that insert Pages in opposite
\* orders.
Fail(r) ==
  /\ req[r] # Idle
  /\ req' = [req EXCEPT ![r] = Idle]
  /\ Release(r)
  /\ UNCHANGED <<tenants, row, stored, told, meta, seeding, requests>>

-----------------------------------------------------------------------------
(* Customers and Meta *)

\* A customer writes, or someone of the shop in Meta's app.
Customer(m) ==
  /\ \A n \in sent : To[n] = To[m] => n < m
  /\ sent' = sent \cup {m}
  /\ wire' = IF To[m] \in subscribed THEN wire \cup {m} ELSE wire
  /\ UNCHANGED <<db, req, told, subscribed, seeding, requests>>

\* ingest_event, ingest_whatsapp_message: an account that is not ours is ignored,
\* and the delivery answered as usual. So is one that fails, as when a seed or
\* another delivery has inserted its customer or its conversation in between.
Deliver(m) ==
  /\ m \in wire
  /\ wire' = wire \ {m}
  /\ \/ row[To[m]] = None /\ UNCHANGED <<stored, dropped>>
     \/ row[To[m]] # None /\ stored' = stored \cup {m} /\ UNCHANGED dropped
     \/ row[To[m]] # None /\ dropped' = dropped \cup {m} /\ UNCHANGED stored
  /\ UNCHANGED <<tenants, row, held, req, told, subscribed, sent, caughtUp, beyond, requests>>

Handle(r) ==
  \/ \E ch \in Channel : Load(r, ch) \/ AfterLogin(r, ch)
  \/ CheckInstagram(r) \/ Subscribe(r) \/ Write(r) \/ Commit(r)
  \/ FetchSeed(r) \/ StoreSeed(r) \/ EndTask(r)

Next ==
  \/ \E r \in Request, by \in tenants \cup {None}, asked \in Asked : Begin(r, by, asked)
  \/ \E r \in Request : Handle(r) \/ Fail(r)
  \/ \E m \in Message : Customer(m) \/ Deliver(m)

Spec == Init /\ [][Next]_vars

-----------------------------------------------------------------------------
(* Properties *)

\* A connected channel never moves to another workspace, whichever requests race
\* between the look-up and the insert.
ChannelNeverMoves == [][\A ch \in Channel : row[ch] # None => row'[ch] = row[ch]]_vars

\* A workspace that was told a channel is connected has it on its page, and Meta
\* delivers the webhooks of a Page or number (the callback tells of those Pages
\* only that its one commit has stored).
ToldIsConnected ==
  \A c \in told :
    /\ c[2] \in Listed(c[1])
    /\ Platform[c[2]] # "instagram" => c[2] \in subscribed

\* Connecting leaves no gap between the seed and the webhooks: once the task has
\* subscribed and seeded a channel, a message of its chats is in the inbox or on
\* its way, those included that were delivered before the channel's row was
\* committed, unless it was too old for the seed or its own delivery failed.
NoGap ==
  \A m \in sent : To[m] \in caughtUp => m \in stored \cup wire \cup beyond \cup dropped
=============================================================================
