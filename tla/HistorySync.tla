---------------------------- MODULE HistorySync -----------------------------
(***************************************************************************)
(* "Load older chats" for one connected account (app/api/v1/conversations  *)
(* .py sync_history, app/api/v1/webhooks.py run_history_sync): a sync      *)
(* pulls Meta's pages of older threads, remembers in the account's         *)
(* metadata where it stopped, and a flag there is the lock.                *)
(*                                                                         *)
(* The metadata is one JSON column.  Whoever changes a key of it loads the *)
(* account, builds a new object from the copy, and writes it whole, so a   *)
(* load and its write are two steps with others between them.  A session   *)
(* does not load again what it has (expire_on_commit=False): a sync writes *)
(* every page's cursor into the copy it loaded when it began.  SQLAlchemy  *)
(* sends no UPDATE for an object that equals the loaded one.               *)
(***************************************************************************)
EXTENDS Naturals, FiniteSets

CONSTANTS
  Pages,          \* Meta's pages of older threads, newest first: 1 .. Pages
  PagesPerClick,  \* max_threads / page_size
  Lock,           \* SYNC_LOCK_MINUTES, in ticks
  Click,          \* requests of the dashboard's button
  Writer,         \* other writers of the metadata: webhook stamps, links, logins
  Sync,           \* bound: syncs that exist at the same time
  None,           \* the absence of a key or its null
  MaxMarks,       \* bound: writes of the other writers
  MaxFailures,    \* bound: calls, statements and processes that fail
  MaxLate         \* bound: times a flag expires under a click or a sync

ASSUME SyncAssumption ==
  /\ {Pages, PagesPerClick, Lock} \subseteq Nat \ {0}
  /\ {MaxMarks, MaxFailures, MaxLate} \subseteq Nat
  /\ None \notin Nat

VARIABLES
  meta,    \* social_accounts.metadata, committed
  pulled,  \* pages whose threads are stored
  click,   \* the requests: their step, and their copy of the metadata
  writer,  \* the other writers, likewise
  sync,    \* the background tasks
  used     \* how much of each bound is used up

vars == <<meta, pulled, click, writer, sync, used>>

-----------------------------------------------------------------------------
(* cursor: the last page pulled, 0 where the key is missing, None where it   *)
(* is null, after the last page.  flag: the age of history_syncing_at.  The  *)
(* keys of the other writers are left out: what matters of them is that they *)
(* write these two back.                                                     *)

Meta == [cursor : (0..(Pages - 1)) \cup {None}, flag : (0..Lock) \cup {None}]

Loaded == [pc : {"idle", "loaded"}, copy : Meta]
Task == [pc    : {"idle", "queued", "page", "finally", "clear"},
         copy  : Meta,
         after : 0..(Pages - 1),
         done  : Nat]
Budget == {"marks", "failures", "late"}

New == [cursor |-> 0, flag |-> None]
Idle == [pc |-> "idle", copy |-> New]
NoTask == [pc |-> "idle", copy |-> New, after |-> 0, done |-> 0]
Over == [NoTask EXCEPT !.pc = "finally"]

TypeOK ==
  /\ meta \in Meta
  /\ pulled \subseteq 1..Pages
  /\ click \in [Click -> Loaded] /\ writer \in [Writer -> Loaded]
  /\ sync \in [Sync -> Task]
  /\ used \in [Budget -> Nat]

Init ==
  /\ meta = New
  /\ pulled = {}
  /\ click = [c \in Click |-> Idle] /\ writer = [w \in Writer |-> Idle]
  /\ sync = [s \in Sync |-> NoTask]
  /\ used = [b \in Budget |-> 0]

Use(b, max) == used[b] < max /\ used' = [used EXCEPT ![b] = @ + 1]

\* Mutant: the flag is a lock that does not expire.
FreshForEver(flag) == flag # None

\* The flag keeps another click from starting a sync.
Fresh(flag) == flag # None /\ flag < Lock

\* The page a copy's cursor stands behind; null and a missing key are the start.
Behind(copy) == IF copy.cursor = None THEN 0 ELSE copy.cursor

\* The commit of a session whose copy was loaded as old and is new now.
Write(old, new) == meta' = IF new = old THEN meta ELSE new

-----------------------------------------------------------------------------
(* The click *)

\* sync_history: the SELECT, the look at the flag, and the new flag in the copy.
\* A click that finds a fresh flag changes nothing ("already_running").
LoadClick(c) ==
  /\ click[c].pc = "idle"
  /\ ~Fresh(meta.flag)
  /\ click' = [click EXCEPT ![c] = [pc |-> "loaded", copy |-> [meta EXCEPT !.flag = 0]]]
  /\ UNCHANGED <<meta, pulled, writer, sync, used>>

FreeTask == {s \in Sync : sync[s].pc = "idle"}

\* sync_history: the commit, and the sync as a background task.
CommitClick(c) ==
  /\ click[c].pc = "loaded"
  /\ meta' = click[c].copy
  /\ FreeTask # {}
  /\ sync' = [sync EXCEPT ![CHOOSE s \in FreeTask : TRUE].pc = "queued"]
  /\ click' = [click EXCEPT ![c] = Idle]
  /\ UNCHANGED <<pulled, writer, used>>

-----------------------------------------------------------------------------
(* run_history_sync *)

Put(s, task) == sync' = [sync EXCEPT ![s] = task]

\* The account is loaded, with the cursor: once for the whole task.
Begin(s) ==
  /\ sync[s].pc = "queued"
  /\ Put(s, [pc |-> "page", copy |-> meta, after |-> Behind(meta), done |-> 0])
  /\ UNCHANGED <<meta, pulled, click, writer, used>>

\* Mutants: the cursor is not kept; the end of the list is not seen.
ForgetCursor(page) == None
EndlessCursor(page) == page

\* Meta's cursor behind a page: none behind the last.
CursorOf(page) == IF page = Pages THEN None ELSE page

\* The copy with the cursor of the page the task is on.
Turned(t) == [t.copy EXCEPT !.cursor = CursorOf(t.after + 1)]

\* fetch_conversations_page answers with the page behind the cursor; its threads
\* (Ingest) and the new cursor are one transaction.
PullPage(s) ==
  LET t == sync[s]
      page == t.after + 1
  IN  /\ t.pc = "page"
      /\ pulled' = pulled \cup {page}
      /\ Write(t.copy, Turned(t))
      /\ Put(s, IF t.done + 1 = PagesPerClick \/ page = Pages THEN Over
                ELSE [pc |-> "page", copy |-> Turned(t), after |-> page, done |-> t.done + 1])
      /\ UNCHANGED <<click, writer, used>>

\* Mutant: the cursor is kept where the page's threads are not.
BreakPast(s) ==
  /\ sync[s].pc = "page"
  /\ Use("failures", MaxFailures)
  /\ Write(sync[s].copy, Turned(sync[s]))
  /\ Put(s, Over)
  /\ UNCHANGED <<pulled, click, writer>>

\* Meta does not answer, or the page meets an error: its transaction is rolled
\* back and the sync ends.
Break(s) ==
  /\ sync[s].pc = "page"
  /\ Use("failures", MaxFailures)
  /\ Put(s, Over)
  /\ UNCHANGED <<meta, pulled, click, writer>>

\* The finally: a session of its own loads the account again ...
Reload(s) ==
  /\ sync[s].pc = "finally"
  /\ sync' = [sync EXCEPT ![s].pc = "clear", ![s].copy = meta]
  /\ UNCHANGED <<meta, pulled, click, writer, used>>

\* ... and takes the flag out, whoever set it.
Clear(s) ==
  /\ sync[s].pc = "clear"
  /\ Write(sync[s].copy, [sync[s].copy EXCEPT !.flag = None])
  /\ Put(s, NoTask)
  /\ UNCHANGED <<pulled, click, writer, used>>

\* The finally fails, or the process dies: the flag stays.
Abandon(s) ==
  /\ sync[s].pc # "idle"
  /\ Use("failures", MaxFailures)
  /\ Put(s, NoTask)
  /\ UNCHANGED <<meta, pulled, click, writer>>

-----------------------------------------------------------------------------
(* Everybody else who writes the column *)

\* stamp_webhook_event, link_facebook, facebook_callback, _get_or_create_account.
LoadMark(w) ==
  /\ writer[w].pc = "idle"
  /\ Use("marks", MaxMarks)
  /\ writer' = [writer EXCEPT ![w] = [pc |-> "loaded", copy |-> meta]]
  /\ UNCHANGED <<meta, pulled, click, sync>>

CommitMark(w) ==
  /\ writer[w].pc = "loaded"
  /\ meta' = writer[w].copy
  /\ writer' = [writer EXCEPT ![w] = Idle]
  /\ UNCHANGED <<pulled, click, sync, used>>

\* A request that fails before its commit.
Refuse ==
  /\ \/ \E c \in Click : click[c].pc = "loaded" /\ click' = [click EXCEPT ![c] = Idle]
                         /\ UNCHANGED writer
     \/ \E w \in Writer : writer[w].pc = "loaded" /\ writer' = [writer EXCEPT ![w] = Idle]
                          /\ UNCHANGED click
  /\ Use("failures", MaxFailures)
  /\ UNCHANGED <<meta, pulled, sync>>

\* Time passes for the flag and for every copy of it.
Older(m) == [m EXCEPT !.flag = IF @ = None \/ @ = Lock THEN @ ELSE @ + 1]

\* A flag of a sync that runs, or of a click that has not committed it, expires.
ExpiresUnderWay ==
  \/ Fresh(meta.flag) /\ ~Fresh(Older(meta).flag) /\ FreeTask # Sync
  \/ \E c \in Click : /\ click[c].pc = "loaded" /\ Fresh(click[c].copy.flag)
                       /\ ~Fresh(Older(click[c].copy).flag)

Tick ==
  /\ meta' = Older(meta)
  /\ click' = [c \in Click |-> [click[c] EXCEPT !.copy = Older(@)]]
  /\ writer' = [w \in Writer |-> [writer[w] EXCEPT !.copy = Older(@)]]
  /\ sync' = [s \in Sync |-> [sync[s] EXCEPT !.copy = Older(@)]]
  /\ IF ExpiresUnderWay THEN Use("late", MaxLate) ELSE UNCHANGED used
  /\ UNCHANGED pulled

-----------------------------------------------------------------------------

SyncStep(s) == Begin(s) \/ PullPage(s) \/ Reload(s) \/ Clear(s)

Next ==
  \/ \E c \in Click : LoadClick(c) \/ CommitClick(c)
  \/ \E s \in Sync : SyncStep(s) \/ Break(s) \/ Abandon(s)
  \/ \E w \in Writer : LoadMark(w) \/ CommitMark(w)
  \/ Refuse
  \/ Tick

Spec == Init /\ [][Next]_vars

\* A request or task that runs goes on, time passes, and people click again.
FairSpec ==
  /\ Spec
  /\ WF_vars(Tick)
  /\ \A c \in Click : WF_vars(LoadClick(c) \/ CommitClick(c))
  /\ \A w \in Writer : WF_vars(CommitMark(w))
  /\ \A s \in Sync : WF_vars(SyncStep(s))

-----------------------------------------------------------------------------
(* Properties *)

Covers(m) == 1..Behind(m) \subseteq pulled

\* Whichever copy was written last, and whatever failed in between, the cursor
\* never stands behind a page whose threads are not stored: the next click
\* cannot skip one.
CursorCovers == Covers(meta)

\* A lock whose sync died, or that an old copy brought back, does not block the
\* button for ever.
LockFrees == []<>~Fresh(meta.flag)

\* The flag is the lock: one sync of an account at a time.
OneSyncAtATime ==
  \A s, r \in Sync : sync[s].pc # "idle" /\ sync[r].pc # "idle" => s = r

\* Clicking again and again brings in every page, although copies roll the
\* cursor back, calls fail and processes die (each of these finitely often),
\* provided that syncs do not overlap for ever.
EveryPagePulled == <>[]OneSyncAtATime => <>(pulled = 1..Pages)
=============================================================================
