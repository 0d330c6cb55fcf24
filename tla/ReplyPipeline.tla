--------------------------- MODULE ReplyPipeline ----------------------------
(***************************************************************************)
(* The bot in one chat (app/services/reply_pipeline.py): the background    *)
(* tasks that answer the customer's messages, the people who answer from   *)
(* the Instagram app or from the dashboard, and Meta's echoes of           *)
(* everything the business sends.                                          *)
(*                                                                         *)
(* A task is one run_auto_reply(message_id); tasks of a chat run at the    *)
(* same time when their messages came in different requests.  Each step is *)
(* what a task does between two awaits whose order with the other actors   *)
(* matters: a SELECT, the LLM call, a send, a commit.                      *)
(*                                                                         *)
(* An outgoing message is identified by who sends it: <<t, 0>> is the text *)
(* of task t, <<t, i>> its i-th campaign photo, and a reply of a person is *)
(* a member of HumanReply.  This stands for the message id Meta assigns.   *)
(***************************************************************************)
EXTENDS Integers, FiniteSets

CONSTANTS
  Task,        \* reply jobs of the chat, by the customer message they are for
  Kind,        \* [Task -> {"photo", "price", "question", "blank"}]
  HumanReply,  \* what people of the shop answer
  None,        \* not sent, not stored
  Photos,      \* in-stock photos of the chat's campaign
  Pause,       \* settings.human_pause_minutes
  Cooldown,    \* PHOTO_COOLDOWN
  Echoes,      \* whether the channel echoes what the business sends
  MaxRunning,  \* bound: tasks of the chat running at the same time
  MaxTime,     \* bound: the clock
  MaxLost,     \* bound: sends that reach the customer but raise in the task
  MaxToggles,  \* bound: switches of the tenant's AI setting
  MaxCrashes   \* bound: server processes that die

OutId == (Task \X (0..Photos)) \cup HumanReply

Time == 0..MaxTime

\* sender_type; created_at and the time of the commit; whether metadata has the
\* campaign_id
Row == [sender : {"agent", "ai"}, at : Time, saved : Time, campaign : BOOLEAN]

ASSUME PipelineAssumption ==
  /\ Kind \in [Task -> {"photo", "price", "question", "blank"}]
  /\ Photos \in Nat /\ Pause \in Nat /\ Cooldown \in Nat
  /\ Echoes \in BOOLEAN
  /\ {MaxRunning, MaxTime, MaxLost, MaxToggles, MaxCrashes} \subseteq Nat
  /\ HumanReply \cap (Task \X (0..Photos)) = {}
  /\ None \notin Row /\ None \notin Time

VARIABLES
  now,        \* Postgres's clock
  \* the database
  row,        \* message rows of outgoing messages
  handovers,  \* photo handover_events
  ai,         \* tenants.ai_auto_reply
  \* the tasks
  pc,         \* what the task does next
  aiSeen,     \* tenant.ai_auto_reply as the task loaded it
  since,      \* when the task began, or came back from the LLM
  next,       \* the outgoing message it is at: 0 the text, then the photos
  plan,       \* how many photos it will send
  \* the outside
  sent,       \* when Meta took an outgoing message, for good
  dash,       \* a dashboard request: its progress
  dashBegan,  \* and when its transaction began
  lost, toggles, crashes  \* budgets used up

taskVars == <<pc, aiSeen, since, next, plan>>
dashVars == <<dash, dashBegan>>
budgets == <<lost, toggles, crashes>>
vars == <<now, row, handovers, ai, taskVars, sent, dashVars, budgets>>

-----------------------------------------------------------------------------
(* Types *)

\* created_at, the time of the commit, and the task that added it
Handover == [at : Time, saved : Time, by : Task]

TaskStep == {"queued", "check", "photosRecent", "generate", "recheck", "photoCheck",
             "photoRecent", "handOver", "send", "store", "done", "crashed"}

TypeOK ==
  /\ now \in Time
  /\ row \in [OutId -> Row \cup {None}]
  /\ handovers \subseteq Handover
  /\ ai \in BOOLEAN
  /\ pc \in [Task -> TaskStep]
  /\ aiSeen \in [Task -> BOOLEAN]
  /\ since \in [Task -> Time]
  /\ next \in [Task -> 0..Photos] /\ plan \in [Task -> 0..Photos]
  /\ sent \in [OutId -> Time \cup {None}]
  /\ dash \in [HumanReply -> {"none", "open", "sent", "stored", "error"}]
  /\ dashBegan \in [HumanReply -> Time]
  /\ {lost, toggles, crashes} \subseteq Nat

Init ==
  /\ now = 0
  /\ row = [id \in OutId |-> None]
  /\ handovers = {}
  /\ ai \in BOOLEAN
  /\ pc = [t \in Task |-> "queued"]
  /\ aiSeen = [t \in Task |-> FALSE]
  /\ since = [t \in Task |-> 0]
  /\ next = [t \in Task |-> 0] /\ plan = [t \in Task |-> 0]
  /\ sent = [id \in OutId |-> None]
  /\ dash = [h \in HumanReply |-> "none"]
  /\ dashBegan = [h \in HumanReply |-> 0]
  /\ lost = 0 /\ toggles = 0 /\ crashes = 0

-----------------------------------------------------------------------------
(* What the code reads *)

\* Mutant: the bot's own messages count too.
AnyoneActive == \E id \in OutId : row[id] # None /\ row[id].at > now - Pause

\* human_active: an agent row within the pause
HumanActive ==
  \E id \in OutId : row[id] # None /\ row[id].sender = "agent" /\ row[id].at > now - Pause

\* Mutant: every photo is handed over.
HandedOverNever == FALSE

\* hand_over_photo: a photo handover within the pause
HandedOverRecently == \E e \in handovers : e.at > now - Pause

\* photos_sent_recently
PhotosSentRecently ==
  \E id \in OutId :
    row[id] # None /\ row[id].sender = "ai" /\ row[id].campaign /\ row[id].at > now - Cooldown

\* Mutant: any answer clears the flag.
NeedsAnyAnswer ==
  \E e \in handovers : ~ \E id \in OutId : row[id] # None /\ row[id].at > e.at

\* list_conversations: a handover that no agent message follows
NeedsAttention ==
  \E e \in handovers :
    ~ \E id \in OutId : row[id] # None /\ row[id].sender = "agent" /\ row[id].at > e.at

Running == {t \in Task : pc[t] \notin {"queued", "done", "crashed"}}

-----------------------------------------------------------------------------
(* Tasks *)

Goto(t, step) == pc' = [pc EXCEPT ![t] = step]

\* A task ran a step that neither sends nor writes.
OnlyTask == UNCHANGED <<now, row, handovers, ai, sent, dashVars, budgets>>

\* The message, the tenant and the account are loaded; a blank message is not
\* answered.
Begin(t) ==
  /\ pc[t] = "queued"
  /\ Cardinality(Running) < MaxRunning
  /\ Goto(t, CASE Kind[t] = "photo" -> "photoCheck"
               [] Kind[t] = "blank" -> "done"
               [] OTHER -> "check")
  /\ aiSeen' = [aiSeen EXCEPT ![t] = ai]
  /\ since' = [since EXCEPT ![t] = now]
  /\ UNCHANGED <<next, plan>> /\ OnlyTask

\* The guards of a text message: the AI setting, a person in the chat, and what
\* this module leaves open (a connected account, the shop's knowledge).
Check(t) ==
  /\ pc[t] = "check"
  /\ \/ Goto(t, "done")
     \/ /\ aiSeen[t] /\ ~HumanActive
        /\ Goto(t, IF Kind[t] = "price" THEN "photosRecent" ELSE "generate")
  /\ UNCHANGED <<aiSeen, since, next, plan>> /\ OnlyTask

\* Mutant: the photos always go along.
PlanEveryTime(t) ==
  /\ pc[t] = "photosRecent"
  /\ plan' = [plan EXCEPT ![t] = Photos]
  /\ Goto(t, "send")
  /\ UNCHANGED <<aiSeen, since, next>> /\ OnlyTask

\* share_campaign: whether the photos go along is decided before the text is sent.
PlanPhotos(t) ==
  /\ pc[t] = "photosRecent"
  /\ plan' = [plan EXCEPT ![t] = IF PhotosSentRecently THEN 0 ELSE Photos]
  /\ Goto(t, "send")
  /\ UNCHANGED <<aiSeen, since, next>> /\ OnlyTask

\* The LLM answers, or answers nothing, or fails twice.
Generate(t) ==
  /\ pc[t] = "generate"
  /\ \/ Goto(t, "recheck")
     \/ Goto(t, "done")
  /\ since' = [since EXCEPT ![t] = now]
  /\ UNCHANGED <<aiSeen, next, plan>> /\ OnlyTask

\* Mutant: nobody is looked for again.
RecheckNothing(t) ==
  /\ pc[t] = "recheck"
  /\ Goto(t, "send")
  /\ UNCHANGED <<aiSeen, since, next, plan>> /\ OnlyTask

\* A person may have answered during the generation.
Recheck(t) ==
  /\ pc[t] = "recheck"
  /\ Goto(t, IF HumanActive THEN "done" ELSE "send")
  /\ UNCHANGED <<aiSeen, since, next, plan>> /\ OnlyTask

\* A photo is left to the person who is in the chat, whatever the AI setting.
PhotoCheck(t) ==
  /\ pc[t] = "photoCheck"
  /\ Goto(t, IF HumanActive THEN "done" ELSE "photoRecent")
  /\ UNCHANGED <<aiSeen, since, next, plan>> /\ OnlyTask

\* Mutant: a photo is flagged only when the AI replies are on.
PhotoRecentIfAi(t) ==
  /\ pc[t] = "photoRecent"
  /\ Goto(t, IF HandedOverRecently \/ ~aiSeen[t] THEN "done" ELSE "handOver")
  /\ UNCHANGED <<aiSeen, since, next, plan>> /\ OnlyTask

\* Several photos in a row: one handover.
PhotoRecent(t) ==
  /\ pc[t] = "photoRecent"
  /\ Goto(t, IF HandedOverRecently THEN "done" ELSE "handOver")
  /\ UNCHANGED <<aiSeen, since, next, plan>> /\ OnlyTask

\* Mutant: the holding reply goes out whatever the AI setting.
HandOverAloud(t) ==
  /\ pc[t] = "handOver"
  /\ handovers' = handovers \cup {[at |-> since[t], saved |-> now, by |-> t]}
  /\ Goto(t, "done") \/ Goto(t, "send")
  /\ UNCHANGED <<now, row, ai, aiSeen, since, next, plan, sent, dashVars, budgets>>

\* The handover is committed, created_at being the start of the transaction; the
\* holding reply follows if the AI was on and there is an account to send it.
HandOver(t) ==
  /\ pc[t] = "handOver"
  /\ handovers' = handovers \cup {[at |-> since[t], saved |-> now, by |-> t]}
  /\ \/ Goto(t, "done")
     \/ aiSeen[t] /\ Goto(t, "send")
  /\ UNCHANGED <<now, row, ai, aiSeen, since, next, plan, sent, dashVars, budgets>>

\* Meta takes the message and answers; or refuses it; or takes it and the answer
\* is lost (a timeout, a body that is no JSON), which the task takes for a failure.
Send(t) ==
  /\ pc[t] = "send"
  /\ \/ /\ sent' = [sent EXCEPT ![<<t, next[t]>>] = now]
        /\ Goto(t, "store")
        /\ UNCHANGED lost
     \/ /\ Goto(t, "done")
        /\ UNCHANGED <<sent, lost>>
     \/ /\ lost < MaxLost /\ lost' = lost + 1
        /\ sent' = [sent EXCEPT ![<<t, next[t]>>] = now]
        /\ Goto(t, "done")
  /\ UNCHANGED <<now, row, handovers, ai, aiSeen, since, next, plan, dashVars, toggles, crashes>>

\* Mutants: the row is labelled a customer's; the echo's row is left as it is.
StoredAsCustomers(t) == [sender |-> "customer", at |-> now, saved |-> now, campaign |-> FALSE]
StoredIfAbsent(t) ==
  LET old == row[<<t, next[t]>>]
  IN  IF old = None
      THEN [sender |-> "ai", at |-> now, saved |-> now, campaign |-> next[t] > 0]
      ELSE old

\* The row _store_ai_message and _store_ai_image leave: their INSERT, or the row
\* of the echo that was first, of which only the sender is changed.
StoredAs(t) ==
  LET old == row[<<t, next[t]>>]
  IN  IF old = None
      THEN [sender |-> "ai", at |-> now, saved |-> now, campaign |-> next[t] > 0]
      ELSE [old EXCEPT !.sender = "ai"]

\* The message is stored as the bot's own and committed; then the next photo.
Store(t) ==
  /\ pc[t] = "store"
  /\ row' = [row EXCEPT ![<<t, next[t]>>] = StoredAs(t)]
  /\ \/ /\ next[t] < plan[t]
        /\ next' = [next EXCEPT ![t] = @ + 1]
        /\ Goto(t, "send")
     \/ /\ next[t] = plan[t]
        /\ Goto(t, "done")
        /\ UNCHANGED next
  /\ UNCHANGED <<now, handovers, ai, aiSeen, since, plan, sent, dashVars, budgets>>

\* A restart loses the tasks in flight.
CrashTask(t) ==
  /\ pc[t] \notin {"done", "crashed"}
  /\ crashes < MaxCrashes /\ crashes' = crashes + 1
  /\ Goto(t, "crashed")
  /\ UNCHANGED <<now, row, handovers, ai, aiSeen, since, next, plan, sent, dashVars, lost, toggles>>

-----------------------------------------------------------------------------
(* People *)

OnlyDash(h, step) ==
  /\ dash' = [dash EXCEPT ![h] = step]
  /\ UNCHANGED <<now, handovers, ai, taskVars, toggles, crashes>>

\* Someone answers from the Instagram app; the server learns of it by the echo.
AnswerInApp(h) ==
  /\ Echoes
  /\ sent[h] = None /\ dash[h] = "none"
  /\ sent' = [sent EXCEPT ![h] = now]
  /\ OnlyDash(h, "none") /\ UNCHANGED <<row, dashBegan, lost>>

\* Someone answers from the dashboard: the request's transaction begins,
OpenReply(h) ==
  /\ sent[h] = None /\ dash[h] = "none"
  /\ dashBegan' = [dashBegan EXCEPT ![h] = now]
  /\ OnlyDash(h, "open") /\ UNCHANGED <<row, sent, lost>>

\* then Meta takes the message, or the request answers 502: because Meta refused
\* it, or because its answer was lost,
SendReply(h) ==
  /\ dash[h] = "open"
  /\ \/ /\ sent' = [sent EXCEPT ![h] = now]
        /\ OnlyDash(h, "sent") /\ UNCHANGED lost
     \/ OnlyDash(h, "error") /\ UNCHANGED <<sent, lost>>
     \/ /\ lost < MaxLost /\ lost' = lost + 1
        /\ sent' = [sent EXCEPT ![h] = now]
        /\ OnlyDash(h, "error")
  /\ UNCHANGED <<row, dashBegan>>

\* Mutant: the transaction is not committed.
StoreReplyUncommitted(h) ==
  /\ dash[h] = "sent"
  /\ OnlyDash(h, IF row[h] = None THEN "stored" ELSE "error")
  /\ UNCHANGED <<row, sent, dashBegan, lost>>

\* then the row is inserted, unless the echo has done so: the insert then fails.
StoreReply(h) ==
  /\ dash[h] = "sent"
  /\ \/ /\ row[h] = None
        /\ row' = [row EXCEPT ![h] = [sender |-> "agent", at |-> dashBegan[h], saved |-> now,
                                      campaign |-> FALSE]]
        /\ OnlyDash(h, "stored")
     \/ /\ row[h] # None
        /\ OnlyDash(h, "error")
        /\ UNCHANGED row
  /\ UNCHANGED <<sent, dashBegan, lost>>

\* The platform (a super admin) switches the tenant's AI replies on or off.
SetAi ==
  /\ toggles < MaxToggles /\ toggles' = toggles + 1
  /\ ai' = ~ai
  /\ UNCHANGED <<now, row, handovers, taskVars, sent, dashVars, lost, crashes>>

-----------------------------------------------------------------------------
(* Meta and time *)

\* ingest_event stores an echo as an agent's message, if its id is not there yet.
Echo(id) ==
  /\ Echoes
  /\ sent[id] # None /\ row[id] = None
  /\ row' = [row EXCEPT ![id] = [sender |-> "agent", at |-> now, saved |-> now, campaign |-> FALSE]]
  /\ UNCHANGED <<now, handovers, ai, taskVars, sent, dashVars, budgets>>

Tick ==
  /\ now < MaxTime /\ now' = now + 1
  /\ UNCHANGED <<row, handovers, ai, taskVars, sent, dashVars, budgets>>

TaskNext(t) ==
  \/ Begin(t) \/ Check(t) \/ PlanPhotos(t) \/ Generate(t) \/ Recheck(t)
  \/ PhotoCheck(t) \/ PhotoRecent(t) \/ HandOver(t) \/ Send(t) \/ Store(t)

\* send_media, with a photo of the panel, takes the same steps as reply.
HumanNext(h) == AnswerInApp(h) \/ OpenReply(h) \/ SendReply(h) \/ StoreReply(h)

Next ==
  \/ \E t \in Task : TaskNext(t) \/ CrashTask(t)
  \/ \E h \in HumanReply : HumanNext(h)
  \/ SetAi
  \/ \E id \in OutId : Echo(id)
  \/ Tick

Spec == Init /\ [][Next]_vars

\* The event loop keeps running the tasks, and a request that was begun.
FairSpec ==
  /\ Spec
  /\ \A t \in Task : WF_vars(TaskNext(t))
  /\ \A h \in HumanReply : WF_vars(SendReply(h) \/ StoreReply(h))

-----------------------------------------------------------------------------
(* Properties *)

\* Once a task is past storing a message it sent, the row is the bot's, whether
\* the echo of it came before, after or not at all.
Settled(t, i) ==
  /\ sent[<<t, i>>] # None
  /\ pc[t] # "crashed" /\ ~(pc[t] = "store" /\ next[t] = i)

OwnReplyLabelled ==
  lost = 0 =>
    \A t \in Task : \A i \in 0..Photos :
      Settled(t, i) => row[<<t, i>>] # None /\ row[<<t, i>>].sender = "ai"

\* A person answered after the handover.
Answered(e) == \E h \in HumanReply : row[h] # None /\ row[h].at > e.at

\* A handover that no person has answered shows in the inbox, apart from the
\* moments between a send and its row: what the bot says does not clear it.
AttentionKept ==
  /\ lost = 0 /\ \A t \in Task : pc[t] \notin {"store", "crashed"}
  /\ \E e \in handovers : ~Answered(e)
  => NeedsAttention

\* A person's reply that is stored before a task begins, or before the LLM has
\* answered it, keeps the task from sending until the pause is over.
PersonSilencesBot ==
  \A t \in Task, i \in 0..Photos, h \in HumanReply :
    /\ sent[<<t, i>>] # None
    /\ row[h] # None /\ row[h].saved < since[t]
    => sent[<<t, i>>] - row[h].at >= Pause

\* Every photo is flagged: when its task is done there is a handover within the
\* pause, or a person is in the chat.
Flagged(t) ==
  \/ \E e \in handovers : e.at > since[t] - Pause
  \/ \E h \in HumanReply : row[h] # None /\ row[h].at > since[t] - Pause

PhotoFlagged == \A t \in Task : Kind[t] = "photo" /\ pc[t] = "done" => Flagged(t)

\* A photo whose task runs is flagged in the end.
PhotoIsRaised ==
  \A t \in Task : Kind[t] = "photo" => (pc[t] = "photoCheck" ~> Flagged(t) \/ pc[t] = "crashed")

\* A tenant's AI replies are off: no task that begins then says anything, not even
\* the reply to a photo.  (One that has begun may still answer.)
AiOffIsQuiet == \A t \in Task, i \in 0..Photos : sent[<<t, i>>] # None => aiSeen[t]

\* A reply from the dashboard that Meta took is in the chat as the person's once
\* its request has ended, also when the echo overtakes it and the request fails.
SentReplyKept ==
  lost = 0 =>
    \A h \in HumanReply :
      sent[h] # None /\ dash[h] \in {"stored", "error"} =>
        row[h] # None /\ row[h].sender = "agent"

\* The photos of a campaign are not sent again in a cooldown: a task that began
\* after one of them was stored with its campaign_id sends none until the cooldown
\* is over, whichever other tasks, people and echoes are in the chat.
PhotosOnce ==
  \A t, u \in Task, i, j \in 1..Photos :
    /\ row[<<t, i>>] # None /\ row[<<t, i>>].campaign /\ row[<<t, i>>].saved < since[u]
    /\ sent[<<u, j>>] # None
    => sent[<<u, j>>] - row[<<t, i>>].at >= Cooldown

\* Several photos in a row make one handover: a task that began after a handover
\* was committed adds none until the pause is over.
HandoverOnce ==
  \A d, e \in handovers : d.saved < e.at => e.saved - d.at >= Pause

\* Only a person makes the bot pause.
OnlyPeoplePause ==
  HumanActive => \E h \in HumanReply : row[h] # None /\ row[h].at > now - Pause
=============================================================================
