------------------------------- MODULE Ingest -------------------------------
(***************************************************************************)
(* Storing what Meta sends (app/api/v1/webhooks.py): the webhook request   *)
(* and the history sync, as concurrent database transactions of several    *)
(* server processes over one Postgres database (READ COMMITTED).           *)
(* The accounts are those one workspace has connected on one platform: a   *)
(* customer is one row of the workspace, a chat belongs to one account.    *)
(*                                                                         *)
(* A worker handles one request at a time.  Every statement that reads     *)
(* the database or can wait for another transaction is a step of its own;  *)
(* what the session only changes in memory is part of the step before the  *)
(* flush that writes it.  A row is identified by the customer or message   *)
(* it is for, so the unique indexes (uq_customer_external_user,            *)
(* uq_open_conversation, idx_unique_external_message,                      *)
(* uq_sales_lead_customer) show up where an insert meets a committed row.  *)
(*                                                                         *)
(* The session is SQLAlchemy's: an object is loaded once per event (once   *)
(* per thread in the sync), what others commit meanwhile stays unseen, and *)
(* an UPDATE carries only the columns that differ from the loaded ones.    *)
(***************************************************************************)
EXTENDS Naturals, Sequences, FiniteSets

CONSTANTS
  Sender,         \* customers, by the id Meta gives them
  Message,        \* Meta's message ids (mid)
  Phone,          \* phone numbers a customer may write
  None,           \* the absence of a phone, a message or a row
  Account,        \* the connected accounts of the workspace
  From,           \* [Message -> Sender]: the customer of the message's chat
  To,             \* [Message -> Account]: the account of the message's chat
  Echo,           \* the messages the business sent, echoed back by Meta
  Opening,        \* referral events that carry no message: a chat opened from an ad
  PhoneIn,        \* [Message -> Phone \cup {None}]: extract_phone of the text
  SentAt,         \* [Message -> Nat]: Meta's timestamp
  Batch,          \* webhook request bodies: sequences of messages
  Page,           \* pages of the history sync: sequences of messages
  Platform,       \* the channel of the accounts
  Worker,         \* requests being handled at the same time
  MaxDeliveries,  \* bound: deliveries of one batch
  MaxPages,       \* bound: pages fetched by history syncs
  MaxDbErrors,    \* bound: statements that fail for an outside reason
  MaxCrashes      \* bound: server processes that die

Lead == [phone : Phone, source : Message]

\* Chats: a customer writing to an account.
Chats == Sender \X Account
ChatOf(m) == <<From[m], To[m]>>

ASSUME IngestAssumption ==
  /\ None \notin Sender \cup Message \cup Phone \cup Lead
  /\ From \in [Message -> Sender]
  /\ To \in [Message -> Account]
  /\ Echo \subseteq Message /\ Opening \subseteq Message \ Echo
  /\ PhoneIn \in [Message -> Phone \cup {None}]
  /\ SentAt \in [Message -> Nat]
  /\ Batch \subseteq Seq(Message)
  /\ Page \subseteq Seq(Message)
  /\ Platform \in {"instagram", "facebook", "whatsapp"}
  /\ {MaxDeliveries, MaxPages, MaxDbErrors, MaxCrashes} \subseteq Nat

VARIABLES
  \* the committed database
  customers,   \* senders with a customer row
  phones,      \* customers.phone
  named,       \* customers whose row has a name
  convos,      \* chats with an open conversation
  stored,      \* messages with a row
  lastAt,      \* conversations.last_message_at, as the event it was taken from
  leads,       \* sales_leads: the number and the message it came from
  notes,       \* "message_received" notifications of the conversation
  leadNotes,   \* "lead_captured" notifications of the customer
  \* the workers
  pc,          \* the statement a worker is about to run
  kind,        \* "webhook" or "history"
  batch,       \* the body or page being ingested
  todo,        \* what is left of it
  tx,          \* the session and its uncommitted writes
  jobs,        \* background tasks queued behind the response
  \* Meta
  deliveries,  \* how often each batch was delivered
  acked,       \* batches answered 200: Meta does not deliver them again
  \* what became of the reply jobs
  replied,     \* how often run_auto_reply was started for a message
  lost,        \* reply jobs that never ran, by cause
  \* budgets used up, and the bodies a statement failed in for an outside reason
  pages, dbErrors, crashes, broken

dbVars == <<customers, phones, named, convos, stored, lastAt, leads, notes, leadNotes>>
procVars == <<pc, kind, batch, todo, tx, jobs>>
metaVars == <<deliveries, acked>>
outVars == <<replied, lost>>
budgets == <<pages, dbErrors, crashes, broken>>
vars == <<dbVars, procVars, metaVars, outVars, budgets>>

-----------------------------------------------------------------------------
(* Types *)

WaNumber == "wa_id"  \* a WhatsApp customer's own number, known from the payload
Column == {"insert", "phone", "source"}

Tx == [stamp     : SUBSET Account,                     \* social_accounts rows updated
       nameless  : BOOLEAN,                            \* the event's customer has no name
       naming    : BOOLEAN,                            \* its row is about to be given one
       name      : SUBSET Sender,                      \* customers given a name
       phone     : [Sender -> Phone \cup {None, WaNumber}],
       customers : SUBSET Sender,                      \* customer rows inserted
       phoneSet  : SUBSET Sender,                      \* customers given a number
       fresh     : BOOLEAN,                            \* convo_is_new
       convos    : SUBSET Chats,                       \* conversation rows inserted
       last      : [Chats -> Message \cup {None}],
       lastSet   : SUBSET Chats,                       \* conversation rows updated
       messages  : SUBSET Message,                     \* message rows inserted
       lead      : [Sender -> Lead \cup {None}],
       dirty     : [Sender -> SUBSET Column],          \* columns the lead's write carries
       leadSet   : SUBSET Sender,                      \* lead rows written
       notes     : SUBSET Chats,
       leadNotes : SUBSET Sender,
       profile   : SUBSET Sender,                      \* profile_jobs
       reply     : [Chats -> Message \cup {None}]]     \* to_reply

EmptyTx ==
  [stamp |-> {}, nameless |-> FALSE, naming |-> FALSE, name |-> {},
   phone |-> [s \in Sender |-> None], customers |-> {}, phoneSet |-> {},
   fresh |-> FALSE, convos |-> {}, last |-> [c \in Chats |-> None], lastSet |-> {},
   messages |-> {}, lead |-> [s \in Sender |-> None], dirty |-> [s \in Sender |-> {}],
   leadSet |-> {}, notes |-> {}, leadNotes |-> {}, profile |-> {},
   reply |-> [c \in Chats |-> None]]

EventStep == {"customer", "newCustomer", "conversation", "newConversation", "message", "lead", "flush"}
TxStep == EventStep \cup {"stamp", "commit"}
Step == TxStep \cup {"idle", "respond", "background"}

Jobs == [profile : SUBSET Sender, reply : SUBSET Message]
NoJobs == [profile |-> {}, reply |-> {}]

TypeOK ==
  /\ customers \subseteq Sender /\ named \subseteq Sender /\ convos \subseteq Chats
  /\ phones \in [Sender -> Phone \cup {None, WaNumber}]
  /\ stored \subseteq Message
  /\ lastAt \in [Chats -> Message \cup {None}]
  /\ leads \in [Sender -> Lead \cup {None}]
  /\ notes \in [Chats -> Nat] /\ leadNotes \in [Sender -> Nat]
  /\ pc \in [Worker -> Step]
  /\ kind \in [Worker -> {"webhook", "history"}]
  /\ batch \in [Worker -> Seq(Message)] /\ todo \in [Worker -> Seq(Message)]
  /\ tx \in [Worker -> Tx]
  /\ jobs \in [Worker -> Jobs]
  /\ deliveries \in [Batch -> Nat] /\ acked \subseteq Batch
  /\ replied \in [Message -> Nat]
  /\ lost \in [{"crash", "exception"} -> SUBSET Message]
  /\ {pages, dbErrors, crashes} \subseteq Nat /\ broken \subseteq Batch

Init ==
  /\ customers = {} /\ named = {} /\ convos = {} /\ stored = {}
  /\ phones = [s \in Sender |-> None]
  /\ lastAt = [c \in Chats |-> None]
  /\ leads = [s \in Sender |-> None]
  /\ notes = [c \in Chats |-> 0] /\ leadNotes = [s \in Sender |-> 0]
  /\ pc = [w \in Worker |-> "idle"]
  /\ kind = [w \in Worker |-> "webhook"]
  /\ batch = [w \in Worker |-> <<>>] /\ todo = [w \in Worker |-> <<>>]
  /\ tx = [w \in Worker |-> EmptyTx]
  /\ jobs = [w \in Worker |-> NoJobs]
  /\ deliveries = [b \in Batch |-> 0] /\ acked = {}
  /\ replied = [m \in Message |-> 0]
  /\ lost = [c \in {"crash", "exception"} |-> {}]
  /\ pages = 0 /\ dbErrors = 0 /\ crashes = 0 /\ broken = {}

-----------------------------------------------------------------------------
(* The event a worker is on *)

Mid(w) == Head(todo[w])
Who(w) == From[Mid(w)]
Chat(w) == ChatOf(Mid(w))
IsWebhook(w) == kind[w] = "webhook"

\* Mutants: one of the two platforms is forgotten.
StampsWhatsAppOnly == Platform = "whatsapp"
StampsFacebookOnly == Platform = "facebook"

\* Only Facebook and WhatsApp stamp the account row, before its first event.
Stamps == Platform # "instagram"

\* What comes next, with the events rest to go and the rows of the accounts
\* stamped written: the entries of a body are stamped one after another.
AfterEvent(rest, stamped) ==
  IF rest = <<>> THEN "commit"
  ELSE IF Stamps /\ To[Head(rest)] \notin stamped THEN "stamp"
  ELSE "customer"

\* The sync stamps nothing (its own write to the row is its commit's).
Stamped(w) == IF IsWebhook(w) THEN tx[w].stamp ELSE Account

\* The thread's last message on a page is where the thread's updated_time is applied.
ThreadEnds(w) == Len(todo[w]) = 1 \/ ChatOf(todo[w][2]) # Chat(w)

\* The sync loads a thread's customer and conversation once for all its messages.
AfterMessage(w) ==
  IF IsWebhook(w) \/ ThreadEnds(w) THEN AfterEvent(Tail(todo[w]), Stamped(w)) ELSE "message"

\* Mutant: the customer's new number is not written.
PhoneOnInsertOnly(t, s) == IF s \in t.customers THEN t.phone[s] ELSE phones[s]

\* What session t sees in the rows of customer s and chat c: its own writes over
\* the committed ones.
PhoneSeen(t, s) == IF s \in t.customers \cup t.phoneSet THEN t.phone[s] ELSE phones[s]

LastSeen(t, c) == IF c \in t.lastSet THEN t.last[c] ELSE lastAt[c]

LeadSeen(t, s) ==
  IF s \notin t.leadSet THEN leads[s]
  ELSE IF "insert" \in t.dirty[s] THEN t.lead[s]
  ELSE [phone  |-> IF "phone" \in t.dirty[s] THEN t.lead[s].phone ELSE leads[s].phone,
        source |-> IF "source" \in t.dirty[s] THEN t.lead[s].source ELSE leads[s].source]

\* last_message_at after the event: a webhook sets it, the sync only moves it forward.
SortKey(w) ==
  LET last == tx[w].last[Chat(w)]
  IN  IF \/ IsWebhook(w)
         \/ ThreadEnds(w) /\ (last = None \/ SentAt[Mid(w)] > SentAt[last])
      THEN Mid(w) ELSE last

\* The row of customer s has been updated by session t: its lock is held.
Updates(t, s) == s \in t.name \cup t.phoneSet

\* The other transactions whose uncommitted write the worker's statement waits for.
Blockers(w) ==
  {v \in Worker \ {w} :
     \/ pc[w] = "stamp" /\ To[Mid(w)] \in tx[v].stamp
     \/ pc[w] = "newCustomer" /\ Who(w) \in tx[v].customers
     \/ pc[w] = "conversation" /\ tx[w].naming /\ Updates(tx[v], Who(w))
     \/ pc[w] = "newConversation" /\ Chat(w) \in tx[v].convos
     \/ pc[w] = "message" /\ Mid(w) \in tx[v].messages
     \/ /\ pc[w] = "lead" /\ PhoneIn[Mid(w)] # tx[w].phone[Who(w)]
        /\ Updates(tx[v], Who(w))
     \/ /\ pc[w] = "flush" /\ SortKey(w) # tx[w].last[Chat(w)]
        /\ Chat(w) \in tx[v].lastSet
     \/ /\ pc[w] = "flush" /\ tx[w].dirty[Who(w)] # {}
        /\ Who(w) \in tx[v].leadSet
     \/ /\ pc[w] = "commit" /\ kind[w] = "history"
        /\ \E i \in DOMAIN batch[w] : To[batch[w][i]] \in tx[v].stamp}

At(w, step) == pc[w] = step /\ Blockers(w) = {}

Goto(w, step) == pc' = [pc EXCEPT ![w] = step]

\* The request is over: its session is closed.
End(w) ==
  /\ Goto(w, "idle")
  /\ kind' = [kind EXCEPT ![w] = "webhook"]
  /\ batch' = [batch EXCEPT ![w] = <<>>]
  /\ todo' = [todo EXCEPT ![w] = <<>>]
  /\ tx' = [tx EXCEPT ![w] = EmptyTx]

\* Mutants: the failed transaction is committed; it is neither committed nor
\* rolled back.
FailCommitting(w) ==
  /\ acked' = IF IsWebhook(w) THEN acked \cup {batch[w]} ELSE acked
  /\ stored' = stored \cup tx[w].messages
  /\ End(w)
  /\ UNCHANGED <<customers, phones, named, convos, lastAt, leads, notes, leadNotes,
                 jobs, deliveries, outVars>>
FailHolding(w) == UNCHANGED <<dbVars, procVars, metaVars, outVars>>

\* An exception inside the transaction: everything is rolled back, and a
\* webhook is answered 200 all the same, so Meta does not deliver it again.
Fail(w) ==
  /\ acked' = IF IsWebhook(w) THEN acked \cup {batch[w]} ELSE acked
  /\ End(w)
  /\ UNCHANGED <<dbVars, jobs, deliveries, outVars>>

\* A statement of the transaction ran: nothing outside the worker changes.
Run(w, session, step) ==
  /\ tx' = [tx EXCEPT ![w] = session]
  /\ Goto(w, step)
  /\ UNCHANGED <<dbVars, kind, batch, jobs, metaVars, outVars, budgets>>

-----------------------------------------------------------------------------
(* Starting work *)

Receive(w, b) ==
  /\ pc[w] = "idle"
  /\ b \notin acked /\ deliveries[b] < MaxDeliveries
  /\ deliveries' = [deliveries EXCEPT ![b] = @ + 1]
  /\ batch' = [batch EXCEPT ![w] = b]
  /\ todo' = [todo EXCEPT ![w] = b]
  /\ Goto(w, AfterEvent(b, {}))
  /\ UNCHANGED <<dbVars, kind, tx, jobs, acked, outVars, budgets>>

\* The sync has fetched a page from Meta and starts storing it; there is none
\* for WhatsApp.
FetchPage(w, p) ==
  /\ pc[w] = "idle" /\ Platform # "whatsapp"
  /\ pages < MaxPages
  /\ pages' = pages + 1
  /\ kind' = [kind EXCEPT ![w] = "history"]
  /\ batch' = [batch EXCEPT ![w] = p]
  /\ todo' = [todo EXCEPT ![w] = p]
  /\ Goto(w, AfterEvent(p, Account))
  /\ UNCHANGED <<dbVars, tx, jobs, metaVars, outVars, dbErrors, crashes, broken>>

\* stamp_webhook_event: the UPDATE of the account row, held to the end of the
\* transaction (the value written is HistorySync's concern).
Stamp(w) ==
  /\ At(w, "stamp")
  /\ Run(w, [tx[w] EXCEPT !.stamp = @ \cup {To[Mid(w)]}], "customer")
  /\ UNCHANGED todo

-----------------------------------------------------------------------------
(* One event, statement by statement *)

\* An Instagram or Messenger webhook leaves the name for later; the sync knows
\* it from the thread's participants, or asks Graph, which may not tell; a
\* WhatsApp webhook may bring it along.
NameUnknown(w) ==
  IF IsWebhook(w) /\ Platform # "whatsapp" THEN {TRUE} ELSE BOOLEAN

\* _get_or_create_customer: the SELECT
LoadCustomer(w) ==
  LET s == Who(w)
      t == tx[w]
      hasNone == s \notin named \cup t.name
  IN  /\ At(w, "customer")
      /\ \/ /\ s \in customers \cup t.customers
            /\ \E unknown \in NameUnknown(w) :
                 Run(w, [t EXCEPT !.nameless = unknown /\ hasNone,
                                  !.naming = ~unknown /\ hasNone,
                                  !.phone[s] = PhoneSeen(t, s)],
                     "conversation")
         \/ /\ s \notin customers \cup t.customers
            /\ Run(w, t, "newCustomer")
      /\ UNCHANGED todo

\* _get_or_create_customer: the INSERT
InsertCustomer(w) ==
  LET s == Who(w)
      t == tx[w]
  IN  /\ At(w, "newCustomer")
      /\ \/ s \in customers /\ Fail(w) /\ UNCHANGED budgets
         \/ /\ s \notin customers
            /\ \E unknown \in NameUnknown(w) :
                 Run(w, [t EXCEPT !.nameless = unknown, !.naming = FALSE,
                                  !.name = IF unknown THEN @ ELSE @ \cup {s},
                                  !.customers = @ \cup {s},
                                  !.phone[s] = IF Platform = "whatsapp" THEN WaNumber ELSE None],
                     "conversation")
            /\ UNCHANGED todo

\* _get_or_create_conversation: the SELECT, which first sends a name the loaded
\* customer was given to the database
LoadConversation(w) ==
  LET c == Chat(w)
      t == [tx[w] EXCEPT !.name = IF tx[w].naming THEN @ \cup {Who(w)} ELSE @]
  IN  /\ At(w, "conversation")
      /\ \/ /\ c \in convos \cup t.convos
            /\ Run(w, [t EXCEPT !.fresh = FALSE, !.last[c] = LastSeen(t, c)], "message")
         \/ /\ c \notin convos \cup t.convos
            /\ Run(w, t, "newConversation")
      /\ UNCHANGED todo

\* _get_or_create_conversation: the INSERT (it can lose only where the customer
\* was known already: a race for a new one is decided by InsertCustomer)
InsertConversation(w) ==
  LET c == Chat(w)
  IN  /\ At(w, "newConversation")
      /\ \/ c \in convos /\ Fail(w) /\ UNCHANGED budgets
         \/ /\ c \notin convos
            /\ Run(w, [tx[w] EXCEPT !.fresh = TRUE, !.convos = @ \cup {c}], "message")
            /\ UNCHANGED todo

\* capture_lead is reached for a customer's new message with a number in it, and
\* by the sync for the ones already stored too; not for WhatsApp webhooks.
Captures(w, new) ==
  /\ Mid(w) \notin Echo \cup Opening /\ PhoneIn[Mid(w)] # None
  /\ \/ kind[w] = "history"
     \/ new /\ Platform # "whatsapp"

\* Mutants: the unique index on mid is gone; echoes are taken for customers'
\* messages; every message is announced.
NewInBatch(w) == Mid(w) \notin Opening \cup tx[w].messages
AnyInbound(w) == IsWebhook(w)

\* The event has a message, and its row does not exist yet, as far as committed
\* or in this transaction.
IsNew(w) == Mid(w) \notin Opening \cup stored \cup tx[w].messages

\* A customer's event, come by webhook: a new chat is announced, a message answered.
Inbound(w) == IsWebhook(w) /\ Mid(w) \notin Echo

AnnouncesAll(w) == Inbound(w)

\* The notification of a new chat.
Announces(w) == Inbound(w) /\ tx[w].fresh

\* The message's INSERT ... ON CONFLICT (none for a referral without a message),
\* the profile job of a nameless customer, the notification of a new chat, and
\* the reply the batch will queue.
StoreMessage(w) ==
  LET m == Mid(w)
      t == tx[w]
      new == IsNew(w)
      asks == IsWebhook(w) /\ Platform # "whatsapp" /\ t.nameless
  IN  /\ At(w, "message")
      /\ Run(w, [t EXCEPT
                   !.messages = IF new THEN @ \cup {m} ELSE @,
                   !.profile = IF asks THEN @ \cup {Who(w)} ELSE @,
                   !.notes = IF Announces(w) THEN @ \cup {Chat(w)} ELSE @,
                   !.reply[Chat(w)] = IF Inbound(w) /\ new THEN m ELSE @],
             IF Captures(w, new) THEN "lead" ELSE "flush")
      /\ UNCHANGED todo

\* Mutant: every number given is announced.
AnnouncesNumber(w, was) == IsWebhook(w)

\* The notification of a new lead; the sync gives none.
AnnouncesLead(w, was) == was = None /\ IsWebhook(w)

\* capture_lead: the customer's phone is written (by the autoflush of the next
\* SELECT, and only if it differs from the loaded one), then the lead is read.
CaptureLead(w) ==
  LET s == Who(w)
      p == PhoneIn[Mid(w)]
      t == tx[w]
      was == LeadSeen(t, s)
      changed == IF was = None THEN {"insert"}
                 ELSE {c \in {"phone"} : was.phone # p} \cup {c \in {"source"} : was.source # Mid(w)}
  IN  /\ At(w, "lead")
      /\ Run(w, [t EXCEPT
                   !.phone[s] = p,
                   !.phoneSet = IF p # t.phone[s] THEN @ \cup {s} ELSE @,
                   !.lead[s] = [phone |-> p, source |-> Mid(w)],
                   !.dirty[s] = @ \cup changed,
                   !.leadNotes = IF AnnouncesLead(w, was) THEN @ \cup {s} ELSE @],
             "flush")
      /\ UNCHANGED todo

\* The event's pending changes reach the database, before the next event's
\* SELECT or the commit: last_message_at and the lead.
FlushEvent(w) ==
  LET s == Who(w)
      c == Chat(w)
      t == tx[w]
      taken == "insert" \in t.dirty[s] /\ s \notin t.leadSet /\ leads[s] # None
  IN  /\ At(w, "flush")
      /\ IF taken THEN Fail(w) /\ UNCHANGED budgets
         ELSE /\ Run(w, [t EXCEPT
                           !.last[c] = SortKey(w),
                           !.lastSet = IF SortKey(w) # t.last[c] THEN @ \cup {c} ELSE @,
                           !.leadSet = IF t.dirty[s] # {} THEN @ \cup {s} ELSE @],
                     AfterMessage(w))
              /\ todo' = [todo EXCEPT ![w] = Tail(@)]

-----------------------------------------------------------------------------
(* The end of the transaction *)

\* Mutants: chats are queued, not messages; one reply for the whole batch.
QueuedChats(t) == {c \in Chats : t.reply[c] # None}
QueuedPerBatch(t) ==
  {m \in Message : /\ t.reply[ChatOf(m)] = m
                   /\ \A c \in Chats : t.reply[c] # None => SentAt[t.reply[c]] <= SentAt[m]}

\* The replies to queue: one per chat, to its newest new message of the batch.
Queued(t) == {m \in Message : t.reply[ChatOf(m)] = m}

Commit(w) ==
  LET t == tx[w]
  IN  /\ At(w, "commit")
      /\ customers' = customers \cup t.customers
      /\ phones' = [s \in Sender |-> PhoneSeen(t, s)]
      /\ named' = named \cup t.name
      /\ convos' = convos \cup t.convos
      /\ stored' = stored \cup t.messages
      /\ lastAt' = [c \in Chats |-> LastSeen(t, c)]
      /\ leads' = [s \in Sender |-> LeadSeen(t, s)]
      /\ notes' = [c \in Chats |-> IF c \in t.notes THEN notes[c] + 1 ELSE notes[c]]
      /\ leadNotes' = [s \in Sender |-> IF s \in t.leadNotes THEN leadNotes[s] + 1 ELSE leadNotes[s]]
      /\ \/ /\ IsWebhook(w)
            /\ jobs' = [jobs EXCEPT ![w] = [profile |-> t.profile,
                                            reply |-> Queued(t)]]
            /\ tx' = [tx EXCEPT ![w] = EmptyTx]
            /\ Goto(w, "respond")
            /\ UNCHANGED <<kind, batch, todo>>
         \/ kind[w] = "history" /\ End(w) /\ UNCHANGED jobs
      /\ UNCHANGED <<metaVars, outVars, budgets>>

\* The worker waits in a circle: following who waits for whom leads back to it.
InCircle(w) ==
  \A S \in SUBSET Worker :
    Blockers(w) \subseteq S /\ (\A v \in S : Blockers(v) \subseteq S) => w \in S

\* Postgres breaks a circle of waiting transactions by failing one of them.
BreakDeadlock(w) ==
  /\ InCircle(w)
  /\ Fail(w)
  /\ UNCHANGED budgets

\* Any statement may fail for a reason outside this module: the connection, the
\* pool, a statement timeout, the race to register the ad of a referral (Shop).
DbError(w) ==
  /\ pc[w] \in TxStep
  /\ dbErrors < MaxDbErrors
  /\ dbErrors' = dbErrors + 1
  /\ broken' = IF IsWebhook(w) THEN broken \cup {batch[w]} ELSE broken
  /\ Fail(w)
  /\ UNCHANGED <<pages, crashes>>

-----------------------------------------------------------------------------
(* The response, and the background tasks that run after it, one by one *)

Respond(w) ==
  /\ pc[w] = "respond"
  /\ acked' = acked \cup {batch[w]}
  /\ Goto(w, "background")
  /\ UNCHANGED <<dbVars, kind, batch, todo, tx, jobs, deliveries, outVars, budgets>>

\* fill_customer_profile finds no name, or stores the one Graph gives, for which
\* it waits while a transaction holds the customer's row.
RunProfile(w, s) ==
  /\ pc[w] = "background" /\ s \in jobs[w].profile
  /\ \/ UNCHANGED named
     \/ (\A v \in Worker : ~Updates(tx[v], s)) /\ named' = named \cup {s}
  /\ jobs' = [jobs EXCEPT ![w].profile = @ \ {s}]
  /\ UNCHANGED <<customers, phones, convos, stored, lastAt, leads, notes, leadNotes,
                 pc, kind, batch, todo, tx, metaVars, outVars, budgets>>

\* The profile lookup raises (an answer that is no JSON): the request's
\* remaining background tasks never run.
RaiseProfile(w, s) ==
  /\ pc[w] = "background" /\ s \in jobs[w].profile
  /\ lost' = [lost EXCEPT !["exception"] = @ \cup jobs[w].reply]
  /\ jobs' = [jobs EXCEPT ![w] = NoJobs]
  /\ UNCHANGED <<dbVars, pc, kind, batch, todo, tx, metaVars, replied, budgets>>

\* run_auto_reply (ReplyPipeline) is started for one message.
RunReply(w, m) ==
  /\ pc[w] = "background" /\ jobs[w].profile = {} /\ m \in jobs[w].reply
  /\ replied' = [replied EXCEPT ![m] = @ + 1]
  /\ jobs' = [jobs EXCEPT ![w].reply = @ \ {m}]
  /\ UNCHANGED <<dbVars, pc, kind, batch, todo, tx, metaVars, lost, budgets>>

Finish(w) ==
  /\ pc[w] = "background" /\ jobs[w] = NoJobs
  /\ End(w)
  /\ UNCHANGED <<dbVars, jobs, metaVars, outVars, budgets>>

\* The server process dies: Postgres rolls its transaction back, and the queued
\* tasks are gone with it.
Crash(w) ==
  /\ pc[w] # "idle"
  /\ crashes < MaxCrashes
  /\ crashes' = crashes + 1
  /\ End(w)
  /\ jobs' = [jobs EXCEPT ![w] = NoJobs]
  /\ lost' = [lost EXCEPT !["crash"] = @ \cup jobs[w].reply]
  /\ UNCHANGED <<dbVars, metaVars, replied, pages, dbErrors, broken>>

-----------------------------------------------------------------------------

\* What a worker does with the request it has.
Work(w) ==
  \/ Stamp(w) \/ LoadCustomer(w) \/ InsertCustomer(w)
  \/ LoadConversation(w) \/ InsertConversation(w)
  \/ StoreMessage(w) \/ CaptureLead(w) \/ FlushEvent(w)
  \/ Commit(w) \/ BreakDeadlock(w)
  \/ Respond(w) \/ Finish(w)
  \/ \E s \in Sender : RunProfile(w, s) \/ RaiseProfile(w, s)
  \/ \E m \in Message : RunReply(w, m)

Next ==
  \E w \in Worker :
    \/ \E b \in Batch : Receive(w, b)
    \/ \E p \in Page : FetchPage(w, p)
    \/ Work(w)
    \/ DbError(w)
    \/ Crash(w)

Spec == Init /\ [][Next]_vars

\* A worker's event loop keeps running what it has begun, and Postgres ends
\* every wait; nothing is assumed of Meta.
FairSpec == Spec /\ \A w \in Worker : WF_vars(Work(w))

-----------------------------------------------------------------------------
(* Properties *)

\* However often Meta delivers a message, in however many requests at once, and
\* whatever fails in between, the bot is started for it at most once.
AnsweredOnce == \A m \in Message : replied[m] <= 1

\* A reply job is only ever queued for a customer's message that is committed:
\* the task reads the stored row.
ReplyOnlyToStored ==
  \A w \in Worker : jobs[w].reply \subseteq stored \ Echo

\* Staff hear once of a new chat and once of a new lead: the races to create the
\* conversation and the lead have one winner, and redelivery does not win again.
ToldOnce ==
  /\ \A c \in Chats : notes[c] <= 1
  /\ \A s \in Sender : leadNotes[s] <= 1

\* Where chats are opened by customers' events alone, staff do hear of each one.
NewChatAnnounced == \A c \in Chats : c \in convos <=> notes[c] = 1

\* A batch is stored whole or not at all, wherever its transaction fails (for
\* batches without a common message, and no sync).
WholeBatch ==
  \A b \in Batch : \A i, j \in DOMAIN b :
    b[i] \in stored => b[j] \in stored \cup Opening

\* "One reply per chat per batch" skips a message only in favour of another of
\* the same chat and batch, so no chat with a stored customer message is left
\* without a reply job (started, queued, or lost by a cause that is recorded).
NoChatForgotten ==
  \A b \in Batch : \A i \in DOMAIN b :
    b[i] \in stored \ Echo =>
      \E j \in DOMAIN b :
        /\ ChatOf(b[j]) = ChatOf(b[i])
        /\ \/ replied[b[j]] > 0
           \/ \E c \in {"crash", "exception"} : b[j] \in lost[c]
           \/ \E w \in Worker : b[j] \in jobs[w].reply

\* A body of one account whose customers write to no other account of the
\* workspace (a customer's row is shared by the accounts they write to).
Private(b) ==
  \E n \in Account : \A i \in DOMAIN b :
    \A m \in Message : From[m] = From[b[i]] => To[m] = n

\* What Meta was told is received is stored, unless a statement failed for an
\* outside reason: on WhatsApp the stamp of the account serialises the bodies a
\* private one could race with, whatever bodies of several accounts or of
\* shared customers do (those can lose).  On Instagram there is no stamp, and the
\* find-or-create races break it.
AckedIsStored ==
  \A b \in acked \ broken :
    Private(b) => \A i \in DOMAIN b : b[i] \in stored \cup Opening

\* A customer has a number exactly when there is a lead of theirs (a number is
\* only ever written with the lead, whichever of two requests is first).
NumberMeansLead == \A s \in Sender : phones[s] # None <=> leads[s] # None

\* The abstract specification: the replies that are owed are the queued jobs.
Queue ==
  INSTANCE ReplyQueue WITH From <- [m \in Message |-> ChatOf(m)],
                           owed <- UNION {jobs[w].reply : w \in Worker},
                           answered <- {m \in Message : replied[m] > 0}

\* Seen through what is stored, owed and answered, requests, transactions, races
\* and crashes are steps of ReplyQueue: a message that becomes stored has the
\* reply of its chat queued in the same step, a reply is started once or lost,
\* and nothing is owed to a message a second time.
ImplementsQueue == Queue!Spec

\* Every request ends: no wait for another transaction's lock is for ever.
EveryRequestEnds == \A w \in Worker : pc[w] # "idle" ~> pc[w] = "idle"
=============================================================================
