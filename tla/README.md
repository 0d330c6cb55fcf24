# Sanchar backend: a TLA+ verification project

Sanchar is a multi-tenant FastAPI backend for shops that talk to their customers on Instagram,
Messenger and WhatsApp. Meta posts the chats to a webhook; the backend stores them in Postgres,
answers some of them with a language model or a fixed campaign reply, and shows them in a dashboard
where people of the shop answer too. This directory holds TLA+ models of that code, the
configurations that model-check them, and proofs of their main invariants.

Paths below are relative to the repository (`app/...` stands for `src/app/...` in `PROJECT.json`).

## 1. Inventory

The server runs as several worker processes (`Dockerfile`: `--workers 4`), each an asyncio event
loop. The processes share nothing but Postgres, at READ COMMITTED. A request or background task is
interleaved with others at every `await`; there are no locks in the code, so all coordination is by
Postgres: unique indexes, row locks held to the end of a transaction, `INSERT ... ON CONFLICT`.

| Component | State | Operations | What makes it hard | What makes it correct |
|---|---|---|---|---|
| Webhook ingest: `api/v1/webhooks.py`, `services/leads.py` | customers, conversations, messages, sales_leads, notifications; the request's session; its background tasks | `receive`, `ingest_event`, `ingest_whatsapp_message`, `capture_lead`, `fill_customer_profile` | one transaction for a whole body; select-then-insert races; redelivery; ORM objects loaded once; tasks lost in a crash | nothing is answered or announced twice; what is acknowledged is stored, where the code ensures it; no chat is forgotten; a lead is consistent |
| Reply pipeline: `services/reply_pipeline.py` | message rows by sender, handover_events; in a task: the AI setting it loaded, the photos it planned | `auto_reply`, `share_campaign`, `hand_over_photo`, the stores | commits before each call to Meta or the model; echoes of the bot's own sends race the rows; people answer meanwhile; sends whose answer is lost | the bot is silent while a person is in the chat, or switched off; its rows are its own; a photo gets a person's attention, once |
| History sync and inbox seed: `webhooks.py` 151-247, `conversations.py` 100-127, `social_accounts.py` 655-664 | `social_accounts.metadata`: flag, cursor | `sync_history`, `run_history_sync`, `_backfill` | a JSON column as lock and cursor, read and written whole by several tasks; a lock that expires | no page is skipped; the button is not blocked for ever; in the end every page is there |
| Inbox: `api/v1/conversations.py` | message rows | `reply`, `send_media`, `list_conversations` | the send precedes the row; the echo may insert it first | an unanswered handover stays listed; what was sent is stored |
| Campaigns and referrals: `services/campaigns.py`, `api/v1/campaigns.py` | campaigns, campaign_links, chats' links | `apply_referral`, mapping, publishing, deletion | a unique-index race inside the ingest transaction; deletions under a publish or an assignment | staff hear once of an ad; nothing names a campaign that is gone |
| Channel linking: `api/v1/social_accounts.py` | social_accounts, tenants | login callbacks, `link_whatsapp`, `link_facebook`, `_after_login` | check, calls to Meta, insert; several Pages in one transaction; customers write meanwhile | a channel belongs to one workspace, the one that was told; no message falls between the seed and the webhooks |
| Shop media: `api/v1/shop_media.py`, `services/storage.py` | shop_media, the storage, the feed | feed sync, upload, post, delete | publish before the commit; sync against publish; row and file apart | an upload can be sent; no post has two rows |
| Accounts: `api/v1/auth.py`, `users.py`, `core/tenant.py` | users, tenants, roles, mailed links | register, verify, login, inviting, changing and removing people | sign-up races; links that outlive an address; stale rows written back | every workspace has an owner; nobody is confirmed but by their own link |
| Knowledge: `api/v1/knowledge.py` | knowledge_documents | add, save, delete a topic | the total is checked, then inserted | the prompt stays under the cap |
| Administration: `admin.py`, `tenants.py` | `tenants.ai_auto_reply` | switch a tenant's AI | read by tasks that are under way | the switch is honoured by later tasks |
| Notifications, audit | rows added in the caller's transaction | add, mark read | none of their own | told once (through the callers) |
| Email: `services/email.py` | mails queued in a process | send after the response | a mail is lost with its process | a link names a row that was committed |
| Dashboard figures, Meta clients, migrations, scripts | none that matters here | reads, or pure I/O | none | (only through their callers) |

Interactions: `receive` commits, answers Meta and leaves `fill_customer_profile` and
`run_auto_reply` tasks that run one after the other behind the response. A task, the dashboard and
the people in Meta's own apps all send through Meta, which echoes each send back to `receive` (on
Instagram and Messenger). The history sync and the seed after a connect write the same tables as the
webhooks. Connecting a channel makes its webhooks deliverable; a sign-up by Instagram makes a
workspace. Photos of the shop are what campaigns and people send. The list of hazards, each at its
line, is in `PROJECT.json`.

## 2. Modules

| Module | What it is |
|---|---|
| `ReplyQueue` | abstract: what storing a customer's message promises the one who answers |
| `Ingest` | the webhook request and the storing of a sync page, as concurrent transactions; implements `ReplyQueue` |
| `ReplyPipeline` | the tasks, people and echoes of one chat, behind the queue |
| `HistorySync` | the flag and cursor of "load older chats", and everyone who writes their column |
| `Accounts` | sign-up, mailed links, sign-in, staff |
| `ChannelLink` | connecting channels, and the messages that come meanwhile |
| `Shop` | photos, the Instagram feed, campaigns, and chats that open from an ad |
| `MCIngest`, `MCReplyPipeline`, `MCHistorySync`, `MCAccounts`, `MCChannelLink`, `MCShop` | instances for TLC |
| `Ingest_proofs`, `IngestQueue_proofs`, `IngestRows_proofs`, `ReplyPipeline_proofs`, `HistorySync_proofs`, `Accounts_proofs`, `ChannelLink_proofs`, `Shop_proofs` | theorems, checked by TLAPS |

The modules meet at what they share. A job that `Ingest` starts (`RunReply`) is what `Begin` of
`ReplyPipeline` begins; `ReplyQueue` is the interface. A page that `HistorySync` pulls in one step is
stored by the statements of `Ingest` (`FetchPage` and on). `Deliver` of `ChannelLink` is a whole
request of `Ingest` for a channel that has, or has not yet, a row. A `Referral` of `Shop` is a part
of the transaction of an `Ingest` batch.

Definitions headed "Mutant" are wrong variants of an operation that the models do not use:
`PROJECT.json` names for each property one that breaks it.

### Ingest

A *worker* handles a request. Its `pc` is the statement it is about to run, `todo` what is left of
the body, `tx` its session: the rows it has written and not committed, and what it believes of the
rows it loaded. One action is one statement that reads the database or can wait:

| Code | Actions |
|---|---|
| `receive`, delivery | `Receive`; `Stamp` for Messenger and WhatsApp |
| `_get_or_create_customer` | `LoadCustomer`, `InsertCustomer` |
| `_get_or_create_conversation` | `LoadConversation`, `InsertConversation` |
| the message's `INSERT ... ON CONFLICT`, the profile job, the notification | `StoreMessage` |
| `capture_lead` | `CaptureLead` |
| the session's flush of `last_message_at` and the lead | `FlushEvent` |
| `db.commit()`, queueing the tasks | `Commit` |
| `except`: rollback and 200 | `Fail`, reached from a taken unique key, `BreakDeadlock` or `DbError` |
| the response and its tasks | `Respond`, `RunProfile`, `RaiseProfile`, `RunReply`, `Finish` |
| `run_history_sync`, a page | `FetchPage`, then the same statements |

The accounts are those a workspace has on one platform. A chat is a customer and an account
(`uq_open_conversation`), a customer is a row of the workspace (`uq_customer_external_user`), which
the accounts share: a person who writes to two numbers of a shop has one customer and two chats. A
body may carry several accounts; the stamps are taken one by one, in the order of its entries.
`Opening` are events that carry a referral and no message (a chat opened from an ad): they find or
create the customer and the conversation and move `last_message_at`, and store no message.

`Blockers(w)` is the set of transactions whose uncommitted write a statement waits for: an account
row that is stamped (377-399), a key of a unique index, a row that is being updated. Of a customer row
the code updates the name (89-90, sent by the SELECT of the conversation; 264-266 in
`fill_customer_profile`) and the phone (`capture_lead`); `Updates` is the lock. On WhatsApp the name
and the number come with the payload (433-444). A statement whose blockers are not gone is not enabled;
Postgres breaks a circle of them by failing one member (`InCircle`, `BreakDeadlock`). An insert into
a unique index looks at the committed row after the wait, which is how a lost race shows up. Where
several accounts share a customer, or the customer is known already, a conversation's insert can lose
as well as a customer's.

`broken` notes the bodies in which a statement failed for an outside reason (`DbError`); no action
reads it.

The session is SQLAlchemy's: a row is loaded when an event needs it, what others commit meanwhile is
not seen, and an UPDATE carries the columns that differ from the loaded ones (`dirty`).
`PhoneSeen`, `LastSeen` and `LeadSeen` are the row as the session has it; `Commit` writes the same.

### ReplyPipeline

One chat. A *task* is one `run_auto_reply`; tasks overlap when their messages came in different
requests. A message the business sends is identified by its sender: `<<t, 0>>` is the text of task
`t`, `<<t, i>>` its `i`-th photo, other ids are people's replies. `sent` says that Meta took it,
`row` how it is stored: by the task, by the dashboard, or by the echo, in any order.

| Code | Actions |
|---|---|
| `auto_reply` to the first look | `Begin`; `Check`, or `PhotoCheck` for a photo |
| the model | `Generate`, `Recheck` |
| `share_campaign` | `PlanPhotos`, then `Send` and `Store` for the text and each photo |
| `hand_over_photo` | `PhotoRecent`, `HandOver` |
| send and store | `Send` (taken, refused, or taken with the answer lost), `Store` with `StoredAs` for `ON CONFLICT` |
| the dashboard's `reply` | `OpenReply`, `SendReply`, `StoreReply` |
| an answer in Meta's app | `AnswerInApp` |
| `ingest_event` of an echo | `Echo` |
| `set_tenant_ai` | `SetAi` |

Rows carry two times: `at` is `created_at`, which Postgres takes at the *start* of the transaction,
and `saved` is when others can see it. The dashboard's transaction begins before the send, so the
two differ there, and it is why a person's reply does not always silence the bot for a full pause
counted from when it is sent.

`send_media` takes the same steps as `reply`. What is proved of the two times is `PersonSilencesBot`.

### ReplyQueue

Messages become stored a set at a time: `Take` (by webhook: one reply is owed per chat with a new
customer message, in the same step) or `Recall` (from Meta's history: no reply). A reply that is owed
is started (`Answer`) or lost (`Lose`). `Ingest` implements it with `owed` as the union of the
workers' queued jobs and `answered` as the messages a job was started for (`ImplementsQueue`):
`Commit` is `Take` or `Recall`, `RunReply` is `Answer`, `Crash` and `RaiseProfile` are `Lose`, all
else stutters.

### HistorySync

One connected account. `meta` is `social_accounts.metadata` with the cursor and the flag; each click,
writer and sync has the `copy` it loaded, and what it commits is built from that copy. The flag is an
age in ticks (`Lock` is `SYNC_LOCK_MINUTES`); `Tick` ages it and all copies of it, as it is a date.

| Code | Actions |
|---|---|
| `sync_history` | `LoadClick` (the look at the flag), `CommitClick` (the flag, the task) |
| `run_history_sync` | `Begin`; `PullPage` per page, with `Write` for SQLAlchemy's "no UPDATE for an equal value"; `Break`; the `finally` as `Reload` and `Clear`; `Abandon` for a process that dies |
| `stamp_webhook_event`, `link_facebook`, `facebook_callback`, `_get_or_create_account` | `LoadMark`, `CommitMark`: they write the cursor and flag they loaded back |
| a request that fails before its commit | `Refuse` |

### Accounts

`users` and `tenants` are the tables; a request keeps what it loaded in `req` until it commits, and
what is not committed is seen by nobody. `queued` mails are in a process's memory, `mailed` ones with
people. `past` records what the properties refer to and no action reads.

| Code | Actions |
|---|---|
| `register` | `Register` (the look for the address), `RegisterCommit` (tenant and owner, or `IntegrityError`) |
| `register` of an unconfirmed address, `resend_verification` | `Resend` |
| the background mail | `SendMail` |
| `verify_email` | `LinkLoad`, `LinkCommit` |
| `login` | `Login`; what `require_role` and the tenant dependency read is `MayManage`, `Active` |
| `create_user` | `Invite`, `InviteCommit` |
| `update_user` | `Change`, `ChangeCommit`: `Merged` writes the columns that differ from the loaded row, the roles as a difference of sets |
| `delete_user` | `Remove`, `RemoveCommit` |
| any failure before the commit | `Fail` |

### ChannelLink

`row` is which workspace a channel belongs to; `held` whose uncommitted insert has its entry in the
unique index, for which other inserts wait. A request handles one channel, or (Facebook Login) all
Pages granted, in one transaction, and becomes a background task when it has committed.

| Code | Actions |
|---|---|
| `instagram_finish`, `link_facebook`, `facebook_callback`, `link_whatsapp` | `Begin`; per channel `Load` (the row, and the refusal of another workspace's), `CheckInstagram` (`_linked_instagram`), `Subscribe`, `Write` (the flush); `Commit` |
| `_after_login`, `_backfill` | `AfterLogin` (subscribes Instagram accounts), `FetchSeed`, `StoreSeed`, `EndTask` |
| failing calls, dying processes, broken deadlocks | `Fail` |
| customers, and Meta's deliveries to `receive` | `Customer`, `Deliver` (ignored where the channel has no row; stored; or rolled back and answered 200, as when the seed has inserted the customer in between) |

Messages are numbered as they are written. A seed reads the newest `Threads` (5) threads of a channel,
and of each the newest `PerThread` (20) messages, which is what Meta answers (`Fetched`).

`told` records which workspace was answered that which channel is connected, `caughtUp` which
channels a task has subscribed and seeded, `beyond` the messages that were too old for a seed, and
`dropped` those whose delivery failed.

### Shop

A row of `shop_media` is an upload (id in `Photo`) or of the feed (id in `Post`); `files` is the
storage, `feed` Instagram. `links` maps ads to campaigns; `held` is the index entry of an ad that a
batch is registering.

| Code | Actions |
|---|---|
| `upload_media` | `Upload` (bytes), `UploadCommit` (row) |
| `delete_media` | `Delete`, `DeleteCommit` (row), `Unstore` (bytes, may fail) |
| `post_to_instagram`, `publish_post` | `PublishLoad`, `Publish` (Instagram takes it; the answer may be lost), `Record` (the commit, or a constraint) |
| `_sync_instagram` | `SyncFetch`, `SyncCommit` (the upsert, `Synced` per row) |
| `create_campaign`, `delete_campaign` | `Create`, `Drop` |
| `update_media` | `Assign`, `AssignCommit` |
| `add_link`, `map_link` | `Map`, `MapCommit` |
| `apply_referral`, in an ingest transaction | `Referral` (the look-up), `Register` (the insert), `TagCommit` |
| the shop's own posts; failures | `OwnPost`; `Fail` |

## 3. Runs

`tlc -config <run>.cfg <module>`; the run, its cfg and its properties are listed in `PROJECT.json`.

Passing:

| Run | Shows |
|---|---|
| `MCIngestInstagram` | Two requests over two chats in opposite order, one with two messages of a chat, the other with an echo and a referral that carries no message; redelivered, with one failing statement and one crash. No message is answered twice (`AnsweredOnce`) and staff hear of nothing twice (`ToldOnce`); a job is for a stored customer message (`ReplyOnlyToStored`); a body is stored whole or not at all (`WholeBatch`); a chat with a stored message has a reply job, started, queued or lost by a recorded cause (`NoChatForgotten`); the whole implements `ReplyQueue` (`ImplementsQueue`). |
| `MCIngestWhatsApp` | Two numbers of a workspace, one customer who writes to both and one who writes to one; a body of the first number and two of both, which take the stamps in opposite order; redelivered, with a failing statement and a crash. `AckedIsStored`: of a body that is *private* (one account, whose customers write to no other account of the workspace) what was answered 200 is stored, unless a statement failed in it for an outside reason. The stamp is the first write of every WhatsApp request, and serialises the bodies a private one could race with. The two other bodies can wait for each other here, and one of them is rolled back. `NewChatAnnounced`: staff hear of each chat exactly once (where there are no echoes, which open a chat silently). |
| `MCIngestLeads` | Numbers in one chat by three webhooks, two at a time, and a sync over the same messages. `ToldOnce`: here with leads to be told of. `NumberMeansLead`: `customers.phone` and `sales_leads` agree on whether there is a number. `EveryRequestEnds` (liveness): whatever requests and sync wait for, deadlocks included, each of them ends. |
| `MCPipelineInstagram` | A photo and a question, echoes in any order, one person in the app or the dashboard, the AI switch, a lost answer, a crash. `OwnReplyLabelled`: the bot's rows end up the bot's. `AttentionKept`: an unanswered handover stays in the inbox's list. `PersonSilencesBot`. `AiOffIsQuiet`: a task that begins after the switch says nothing, not even to a photo. `SentReplyKept`: a person's reply that Meta took has its row, also when the echo makes the insert fail. |
| `MCPipelineWhatsApp` | No echoes, one task at a time, two photos and two price questions in a chat from a campaign, a person: every photo is flagged (`PhotoFlagged`), and in the end (`PhotoIsRaised`, liveness). `HandoverOnce`: a task that begins after a handover was committed makes no other within the pause. `PhotosOnce`: one that begins after a campaign's photo was stored with its `campaign_id` sends none within the cooldown. Both hold with overlapping tasks and echoes too, which is proved (section 4). |
| `MCHistorySync` | Three pages, two per click, the button clicked for ever; another writer, a failure or crash and an expiry under a running sync at any point. `CursorCovers`: the cursor never stands behind a page that is not stored, so none is skipped. `LockFrees` (liveness): the flag does not block the button for ever. `EveryPagePulled` (liveness): every page comes in, although copies roll the cursor back, if syncs do not overlap for ever. |
| `MCAccounts` | Three people, two workspaces, one address in two spellings. `WorkspaceHasOwner`, `ConfirmedByOwnLink`, `NoStaleWrite`, `LinkNamesARow`, `SignedUpOnce`. |
| `MCChannelLink` | An Instagram account, two Pages (the first linked to it) and a number; two workspaces and a sign-up; two connects. `ToldIsConnected`, `ChannelNeverMoves`, `NoGap`: once a channel is subscribed and seeded, each message of its chats is in the inbox, on its way, older than what the seed read, or lost because its own delivery failed. It says that the order subscribe, fetch, store leaves nothing in between; it does not say that connecting loses nothing. |
| `MCShop` | One upload, two posts, two campaigns, one ad that two chats open from. `UploadsCanBeSent`, `PanelIsConsistent`, `AdToldOnce`. |

Violated, each a sentence of the repository that the code does not keep (`findings` quotes them):

| Run | The sentence | What happens |
|---|---|---|
| `MCIngestLostRace` | Meta retries the loser of a first-message race | it fails at the customer's insert and was answered 200, so it is not retried and its messages are lost |
| `MCIngestPhoto` | a photo is flagged for a person | a later text in the same body takes its place |
| `MCPipelineSelfPause` | our own replies do not pause the bot | a fast echo does |

Bounds. They only occur in guards, and every module names its own.

- `Ingest`: two workers, since each race and lock cycle of the code is between two transactions; two
  customers, for opposite lock orders, and on WhatsApp two numbers, for opposite orders of the stamps
  and for a customer of both; up to three messages in a chat, so that a body has two of them and
  another body a third; two deliveries of a body (a third finds what the second finds); one crash and
  one failing statement, at any point (`MaxDeliveries`, `MaxPages`, `MaxDbErrors`, `MaxCrashes`).
- `ReplyPipeline`: two overlapping tasks and one person, a clock to 2 and a pause of 2, so that a
  pause ends within the run; or four tasks one after the other, a clock to 1 and a pause and cooldown
  of 2, so that the second photo and the second price come within them; one lost answer, one switch, one crash (`MaxRunning`, `MaxTime`, `MaxLost`, `MaxToggles`,
  `MaxCrashes`).
- `HistorySync`: three pages, so that one click does not end the list and a rolled-back cursor has
  something to repeat; two syncs, for one beside another; one stale writer (`MaxMarks`), one failure
  (`MaxFailures`), one expiry under way (`MaxLate`). Clicks and time are not bounded.
- `Accounts`: two requests at a time, for each race of two; three people, so that an address freed by
  one can be taken by another beside the owner; three changes or removals (`MaxEdits`). Bodies of a
  PATCH change one field each; several fields at once are several writes of the same row.
- `ChannelLink`: two requests in all (`MaxRequests`), at a time or one after the other, since every race
  of the code is between two. Three messages in two threads of an Instagram account and one to a Page;
  a seed of one thread and one message (`Threads`, `PerThread`), the smallest at which a message is
  too old by either limit.
- `Shop`: two requests at a time; two posts, one published and one of the shop's own; two
  assignments, mappings or deletions (`MaxEdits`), the rest unbounded but by the ids.

`CHECK_DEADLOCK FALSE` in all runs but `MCHistorySync`: when deliveries, edits or the clock are used
up, the model rightly stops. That requests do not wait for ever is `EveryRequestEnds`. Symmetry (over
workers, requests, people, workspaces) is only used in runs without liveness.

Fairness. `Ingest!FairSpec`: a worker continues the request it has (`Work`), which is what an event
loop that is alive does, and includes Postgres breaking a deadlock. `ReplyPipeline!FairSpec`: tasks
and dashboard requests continue. `HistorySync!FairSpec`: the same for syncs and for requests that
have loaded; time passes; and somebody clicks again, without which "in the end" has no meaning there.
Nothing is assumed of Meta (deliveries, echoes, answers), nor of people elsewhere, and no crash is
excluded: a request or task a crash ends has ended.

## 4. Proofs

For every value of the constants that meets the module's `ASSUME` (ids are distinct from `None`,
functions have their domains, `Lower` is idempotent) and, where the last column says so, more:

| Module | Theorem | Says | Where |
|---|---|---|---|
| `Ingest_proofs` | `IngestTypeCorrect` | `Spec => []TypeOK` | |
| | `RepliesOnce` | `Spec => []AnsweredOnce` | |
| | `RepliesToStored` | `Spec => []ReplyOnlyToStored` | |
| `IngestQueue_proofs` | `IngestImplementsQueue` | `Spec => ImplementsQueue`: `Ingest` implements `ReplyQueue` | |
| `IngestRows_proofs` | `StaffToldOnce` | `Spec => []ToldOnce` | |
| | `NewChatsAnnounced` | `Spec => []NewChatAnnounced` | no echoes, no sync |
| | `NumbersMeanLeads` | `Spec => []NumberMeansLead` | not on WhatsApp |
| | `BatchesStoredWhole` | `Spec => []WholeBatch` | no sync, no message in two bodies |
| | `ChatsNotForgotten` | `Spec => []NoChatForgotten` | no sync, no message in two bodies |
| | `LoneMessagesHandedOver` | each stored customer message has a reply job | as above, and one message of a chat in a body |
| | `StampsPreventDeadlock` | `Spec => []PrivateInNoCircle` | on WhatsApp |
| | `AnsweredIsStored` | `Spec => []AckedIsStored` | on WhatsApp |
| `ReplyPipeline_proofs` | `TypeCorrect` | `Spec => []TypeOK` | |
| | `OwnReplies` | `Spec => []OwnReplyLabelled` | |
| | `AttentionStays` | `Spec => []AttentionKept` | |
| | `PersonSilences` | `Spec => []PersonSilencesBot` | |
| | `AiOffStaysQuiet` | `Spec => []AiOffIsQuiet` | |
| | `SentRepliesKept` | `Spec => []SentReplyKept` | |
| | `PhotosAreFlagged` | `Spec => []PhotoFlagged` | no echoes (WhatsApp), a pause > 0 |
| | `OnlyPeopleSilence` | `Spec => []OnlyPeoplePause` | no echoes, a pause > 0 |
| | `PhotosHandedOverOnce` | `Spec => []HandoverOnce` | |
| | `PhotosSentOnce` | `Spec => []PhotosOnce` | |
| `HistorySync_proofs` | `SyncTypeCorrect` | `Spec => []TypeOK` | |
| | `CursorIsCovered` | `Spec => []CursorCovers` | |
| `Accounts_proofs` | `AccountsTypeCorrect` | `Spec => []TypeOK` | |
| | `WorkspaceKeepsOwner` | `Spec => []WorkspaceHasOwner` | |
| | `ConfirmedByLink` | `Spec => []ConfirmedByOwnLink` | |
| | `LinksNameRows` | `Spec => []LinkNamesARow` | |
| | `NoStaleWrites` | `Spec => []NoStaleWrite` | |
| | `OneSignUp` | `Spec => []SignedUpOnce` | |
| `ChannelLink_proofs` | `LinkTypeCorrect` | `Spec => []TypeOK` | |
| | `ChannelStays` | `Spec => ChannelNeverMoves` | |
| | `ToldStaysConnected` | `Spec => []ToldIsConnected` | |
| | `NoGapOnConnect` | `Spec => []NoGap` | |
| `Shop_proofs` | `ShopTypeCorrect` | `Spec => []TypeOK` | |
| | `UploadsStaySendable` | `Spec => []UploadsCanBeSent` | |
| | `PanelStaysConsistent` | `Spec => []PanelIsConsistent` | |
| | `AdIsToldOnce` | `Spec => []AdToldOnce` | |

`Ingest`. `TypeOK` is not inductive: a worker in the middle of an event has a non-empty `todo`
(`Busy`), or `Head(todo)` would be anything, and a session that carries single columns of a lead has
seen that lead (`Sessions`), or `LeadSeen` would take a field of `None`. `IngestInv` adds both. Each
statement is shown to be a `Moves` step (it changes one session and keeps its type), and the steps
outside a transaction are treated one by one.

`AnsweredOnce` needs `OnceInv`: a message that a transaction has inserted is neither committed nor
inserted by another (`OneInserter`, the unique index and the wait on it); a reply is owed only to a
message the transaction itself inserted (`OwedToOwn`); a queued job's message is committed, queued
once and not yet answered (`OneJob`). `Commit` turns owed replies into jobs, and disjointness there
comes from `OneInserter`.

The refinement uses both invariants and `QueueInv`: a webhook's transaction that has stored a
customer's message owes a reply in its chat (`OwesEachChat`), and jobs exist only behind a commit
(`JobsLate`). Then `Commit` is one `Take` of everything the transaction stored.

The rows. `IngestRows_proofs` first says once, per statement, what it does to its session
(`StampEffect` to `FlushEffect`), that no statement touches another session or a committed row
(`StatementFrame`), and that any step is a statement, a commit, or one that writes no row
(`StepKinds`). Each invariant below is then shown for the three kinds.

- `ChatInv`, for half of `ToldOnce`: a session's new chats are not committed and nobody else's, and
  what it announces is among them (`OpensOwn`).
- `LeadInv`, for the other half: a session announces the leads it inserts, and between its flush and
  its commit nobody else writes that lead and there is none (`LeadsOwn`, the unique index and the row
  lock). Before the flush two sessions may both want to insert it, and one of them fails.
- `NumberInv`: a session whose flush writes a number writes a lead, or has seen one
  (`NumbersOwn`), of a customer that exists or is its own (`CustomersOwn`). A WhatsApp customer is
  created with the number, so the property is about the other platforms.
- `BatchInv`: of a webhook's body, what is not yet stored is in its session or still to do. A page of
  the sync stores single messages of bodies, and a message in two bodies ties them, so both are left
  out; Meta puts a message in one body and redelivers that body. `NoChatForgotten` follows with
  `OnceInv` and `QueueInv` above: once a reply job is queued, it is started, or lost by a recorded
  cause (`HandedStays`). `LoneMessagesHandedOver` is the other side of the finding of
  `MCIngestPhoto`: a message is only skipped behind another of the same chat and body.
- `StampInv`, for `AckedIsStored` on WhatsApp, where the account row is stamped before every event and
  there is no sync. What any session has written is of accounts whose stamp it has (`StampsOwn`), and
  a stamp has one holder. The rows of a private body are written under one stamp only, so what such
  a body did not find is still not there at its insert (`FindsOwn`). Before it has its stamp it has
  written nothing and nobody waits for it; after that it waits for nobody: it is in no circle, although
  bodies of several accounts can be (`StampsPreventDeadlock`), it finds no key taken, and is rolled back
  only by an outside failure, which `broken` notes, or with its process, after which Meta delivers it
  again.

`ReplyPipeline`. `OwnReplyLabelled` is inductive with `TypeOK`: the row of a task's message becomes
the bot's in `Store`, and no later echo changes a row that exists. `AttentionKept` follows from it
and `SentInv` (a row is only there for a message that was sent): the only agent rows left are
people's. `PersonSilencesBot` needs `SilenceInv`: people's rows are an agent's; a task has begun in
the past; it has sent nothing before it gets to a send; and at every step behind a look for people,
a person's row the task could have seen is older than the pause (`ClearedOfPeople`). Since `since`
is set when a task begins and again when the model has answered, the statement covers the second
look, the one before the send.

`AiOffIsQuiet` needs `AiInv`: whatever comes before a send is only reached with the setting on that
the task loaded when it began. `SentReplyKept` needs `KeptInv`: a row of a reply is a person's, and
rows are not taken away, so either insert of the two leaves it. `PhotoFlagged` and `OnlyPeoplePause`
need `FlagInv`: without echoes every row of a task is the bot's, so an agent's row that makes a
task stop is a person's; with echoes it need not be, which is the finding of `MCPipelineSelfPause`.
`HandoverOnce` and `PhotosOnce` speak of a task that began after the other's row was committed,
however many tasks run. `OnceInv`: a task about to hand over has seen that the handovers committed
before it began are out of the pause, and later ones do not count against it. `ShareInv`: a row with a
`campaign_id` is the bot's, and a task that will send photos has seen that those stored before it
began are a cooldown away; `PlanInv` that a task has planned nothing before it looks. What the two
do not say is false of the code: of tasks that overlap, and of a row that an echo wrote (section 5).

`HistorySync`. The committed cursor can be overwritten by any copy, so the invariant says of every
copy that it covers its cursor: copies are loaded from rows that do, pages are never taken out of the
inbox, and a sync moves its cursor in the transaction that stores the page.

`Accounts`. The types need that a request which changes a row found one, and rows are never deleted
(`PendingRows`). A workspace keeps its owner because no removal that is under way is of an owner who
stays one (`StayingOwner`, `OwnersStay`): the check of the role is at the load, and only a noted
demotion changes it in between. Confirmation needs what pending requests will do (`LinksFollowed`),
stale writes what they have seen (`NothingStale`), sign-ups that an address is in one row and a
pending sign-up's is in lower case (`Addressed`).

`ChannelLink`. An index entry is only held for a channel without a row (`Fresh`), so a commit inserts
rows and never overwrites one. `ToldIsConnected` needs of each request under way that the row it
loaded is still what it was (`Looked`), that what it has done is its own by the entry it holds or the
row it found (`Claimed`), and that a login without a workspace is for one account (`SignsUp`).
`NoGap` adds, for tasks, that they fetch after they subscribed a channel with a row, and that what was
sent is in the page, too old for it, in the inbox, on its way, or lost with its own delivery (`Seeding`).

`Shop`. An upload's file is there before its row and is taken away after it (`Stored`). That no post
has two rows is by how rows get a post: a commit that finds no row with it (`PostStep`); campaigns
are named only while they exist, by the foreign key at each commit. `AdToldOnce` needs that a batch
which did not find the ad has its index entry from the insert to the commit (`Registering`).

All of these properties were also checked by TLC on the instances of the runs, where the hypotheses
of the last column hold (`LoneMessagesHandedOver` and `OnlyPeopleSilence` excepted: they are the limits
of two findings). `PrivateInNoCircle` is stated in `IngestRows_proofs` only.

Model-checked only: liveness (`EveryRequestEnds`, `PhotoIsRaised`, `LockFrees`, `EveryPagePulled`),
which rests on fairness and is out of the prover's reach. Every invariant and action property of a
passing run is proved.

## 5. Abstractions, and what is not modelled

Abstractions:

- A message is a model value with its chat, timestamp, sender and the number in its text; a name is
  known or not; wording, attachments' contents and prompts are left out.
- `HistorySync`: one connected account. `Ingest`: the accounts of one workspace on one platform. Accounts
  of different platforms give customers ids of their own, and different workspaces share no row.
- A referral without a message (`Opening`) is an event of the chat. What it does to the ad and the
  chat's campaign is in `Shop`; the race to register the ad fails the body, which `Ingest` has as
  `DbError`.
- `last_message_at` is kept as the event it was taken from. The sync takes a thread's `updated_time`,
  which is modelled as the time of its newest message on the page. No property is about the order the
  inbox shows: an event without a message moves it, and concurrent writers overwrite each other.
- A lead's `source` column stands for `conversation_id` and `source_message_id` together.
- A body with nothing to store (deliveries' statuses, ignored events) stamps its account and ends; it
  is left out. An entry with nothing to store stamps its account all the same, so a body with one of
  another account is not private.
- Events that `ingest_event` ignores (unsends, reads, unknown accounts) change nothing and are not
  delivered in `Ingest`; unknown accounts are in `ChannelLink`.
- A page of the sync is one transaction, as in the code; a page that fails ends the sync. Its
  `ON CONFLICT DO UPDATE` also locks the rows of messages that exist; those locks wait for no
  statement of a webhook, and are left out.
- In `ReplyPipeline` an echo's transaction is one step; whether a chat has a campaign, knowledge or
  a connected account is left open (`Check` may always end the task).
- The time between two looks at the clock is not bounded; `Tick` may come anywhere.

What the code leaves open, and no property excludes:

- What was answered 200 and is not stored: the loser of a race to create a customer or a conversation,
  on Instagram to another webhook (`MCIngestLostRace`) or a sync, on Messenger to a sync; on WhatsApp
  bodies of several accounts, and of customers who write to several numbers of a workspace, which can
  race under different stamps or wait for each other's; anywhere, a body in which a statement fails for
  an outside reason, such as a pool that has run dry.
- After a connect, what is older than the seed (five threads, twenty messages each), and what loses
  its insert to the seed and is answered 200. The task has no retry.
- Two concurrent updates of a lead leave the number of one message beside the id of another, and an
  older history page overwrites a newer number.
- Two photos in two requests make two handovers if their tasks overlap: both look (181-189) before
  either commits, although the comment at 190 says "several photos in a row: one handover, one holding
  reply". A campaign's photos go on while a person answers. They are sent again within the cooldown if
  two tasks overlap, or if an echo was stored first: its row gets no `campaign_id` (139), although the
  docstring at 146 says "not again within the cooldown". (Lines of `reply_pipeline.py`.)
- Two clicks at once start two syncs, and a flag that expires lets another one in.
- Two requests that post one photo both publish it.
- A number (WhatsApp) is subscribed before its row is committed, and a webhook in between is dropped;
  numbers have no seed. Whether a Page's Instagram account is connected elsewhere is checked at the
  link only.
- A person invited with capitals in the address can sign up again with it.

Not modelled:

- Knowledge: edits of single rows under one check of the total size, which is not atomic; no text
  promises the cap under concurrency.
- Dashboard figures: read-only aggregates. Migrations, scripts, the load test: run once, by hand.
- Meta's and the model's clients beyond the outcome of a call (taken, refused, answer lost); SMTP and
  the text of mails.
- The connection pool: a statement that gets no connection is a failing statement (`DbError`).
- Expiry of links and tokens, logout, hashing, rate limits; the owner row of a workspace that an
  Instagram sign-up makes (`ChannelLink` has the workspace).
- A PATCH of a campaign's text and price, captions, prices and stock flags, the order of photos,
  marking notifications read.
