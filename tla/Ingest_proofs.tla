---------------------------- MODULE Ingest_proofs ----------------------------
(* Theorems about Ingest, for any customers, messages, batches and workers. *)
EXTENDS Ingest, TLAPS

-----------------------------------------------------------------------------
(* The session after each statement *)

\* A worker on an event has one, a lead is captured from a number, and a webhook
\* request has a body Meta sent.
Busy ==
  \A w \in Worker :
    /\ pc[w] \in EventStep \cup {"stamp"} => todo[w] # <<>>
    /\ pc[w] = "lead" => PhoneIn[Mid(w)] # None
    /\ pc[w] # "idle" /\ IsWebhook(w) => batch[w] \in Batch
    /\ pc[w] = "respond" => IsWebhook(w)

\* The chat of a message is one.
LEMMA ChatType ==
  ASSUME NEW m \in Message
  PROVE  From[m] \in Sender /\ To[m] \in Account /\ ChatOf(m) \in Chats
BY IngestAssumption DEF ChatOf, Chats

\* The event a worker is on, its customer and its chat.
LEMMA CurrentEvent ==
  ASSUME TypeOK, Busy, NEW w \in Worker, pc[w] \in EventStep \cup {"stamp"}
  PROVE  /\ Mid(w) \in Message /\ Who(w) \in Sender /\ Chat(w) \in Chats
         /\ To[Mid(w)] \in Account
         /\ Tail(todo[w]) \in Seq(Message)
<1>1. Mid(w) \in Message /\ Tail(todo[w]) \in Seq(Message)
  BY DEF TypeOK, Busy, Mid
<1>. QED BY <1>1, ChatType DEF Who, Chat

\* What follows an event: the commit, or a statement of another event.
LEMMA AfterEventType ==
  ASSUME NEW rest \in Seq(Message), NEW stamped
  PROVE  /\ AfterEvent(rest, stamped) \in {"commit", "stamp", "customer"}
         /\ AfterEvent(rest, stamped) # "commit" => rest # <<>>
BY DEF AfterEvent

\* The new last_message_at is a message.
LEMMA SortKeyType ==
  ASSUME TypeOK, Busy, NEW w \in Worker, pc[w] \in EventStep
  PROVE  SortKey(w) \in Message \cup {None}
<1>1. tx[w].last[Chat(w)] \in Message \cup {None}
  BY CurrentEvent DEF TypeOK, Tx
<1>. QED BY <1>1, CurrentEvent DEF SortKey

\* A lead that a session writes is one, and is an INSERT unless there is a row.
LeadOK(t) ==
  \A s \in Sender :
    /\ t.dirty[s] # {} => t.lead[s] # None /\ ("insert" \in t.dirty[s] \/ leads[s] # None)
    /\ s \in t.leadSet => t.dirty[s] # {}

\* The statements of an event but the lead's.
PlainStep == {"customer", "newCustomer", "conversation", "newConversation", "message", "flush"}

\* A session that has stored the same messages and owes the same replies.
Like(new, t) ==
  /\ new \in Tx
  /\ new.messages = t.messages /\ new.reply = t.reply
  /\ LeadOK(t) => LeadOK(new)

\* The session a request begins with.
LEMMA EmptyTxFacts ==
  EmptyTx \in Tx /\ EmptyTx.messages = {} /\ (\A c \in Chats : EmptyTx.reply[c] = None) /\ LeadOK(EmptyTx)
BY DEF EmptyTx, Tx, LeadOK

\* What a session sees of a chat's rows is of the rows' types.
LEMMA PhoneSeenType ==
  ASSUME TypeOK, NEW t \in Tx, NEW s \in Sender
  PROVE  PhoneSeen(t, s) \in Phone \cup {None, WaNumber}
BY DEF PhoneSeen, TypeOK, Tx

LEMMA LastSeenType ==
  ASSUME TypeOK, NEW t \in Tx, NEW c \in Chats
  PROVE  LastSeen(t, c) \in Message \cup {None}
BY DEF LastSeen, TypeOK, Tx

LEMMA LeadSeenType ==
  ASSUME TypeOK, NEW t \in Tx, LeadOK(t), NEW s \in Sender
  PROVE  LeadSeen(t, s) \in Lead \cup {None}
<1>1. t.lead[s] \in Lead \cup {None} /\ leads[s] \in Lead \cup {None}
  BY DEF Tx, TypeOK
<1>. QED BY <1>1 DEF LeadSeen, LeadOK, Lead

\* The session each statement leaves.
LEMMA StampSession ==
  ASSUME NEW t \in Tx, NEW n \in Account PROVE Like([t EXCEPT !.stamp = @ \cup {n}], t)
BY DEF Tx, Like, LeadOK

LEMMA LoadCustomerSession ==
  ASSUME NEW t \in Tx, NEW s \in Sender, NEW b \in BOOLEAN, NEW d \in BOOLEAN,
         NEW p \in Phone \cup {None, WaNumber}
  PROVE  Like([t EXCEPT !.nameless = b, !.naming = d, !.phone[s] = p], t)
BY DEF Tx, Like, LeadOK

LEMMA InsertCustomerSession ==
  ASSUME NEW t \in Tx, NEW s \in Sender, NEW b \in BOOLEAN, NEW N \in SUBSET Sender,
         NEW p \in Phone \cup {None, WaNumber}
  PROVE  Like([t EXCEPT !.nameless = b, !.naming = FALSE, !.name = N, !.customers = @ \cup {s},
                        !.phone[s] = p], t)
BY DEF Tx, Like, LeadOK

LEMMA NameSession ==
  ASSUME NEW t \in Tx, NEW N \in SUBSET Sender
  PROVE  Like([t EXCEPT !.name = N], t)
BY DEF Tx, Like, LeadOK

LEMMA LoadConversationSession ==
  ASSUME NEW t \in Tx, NEW c \in Chats, NEW m \in Message \cup {None}
  PROVE  Like([t EXCEPT !.fresh = FALSE, !.last[c] = m], t)
BY DEF Tx, Like, LeadOK

LEMMA InsertConversationSession ==
  ASSUME NEW t \in Tx, NEW c \in Chats
  PROVE  Like([t EXCEPT !.fresh = TRUE, !.convos = @ \cup {c}], t)
BY DEF Tx, Like, LeadOK

LEMMA CaptureLeadSession ==
  ASSUME NEW t \in Tx, NEW s \in Sender, NEW p \in Phone, NEW P \in SUBSET Sender, NEW l \in Lead,
         NEW D \in SUBSET Column, t.dirty[s] \subseteq D,
         D = {} \/ "insert" \in D \/ leads[s] # None, NEW N \in SUBSET Sender
  PROVE  Like([t EXCEPT !.phone[s] = p, !.phoneSet = P, !.lead[s] = l, !.dirty[s] = D,
                        !.leadNotes = N], t)
<1> DEFINE new == [t EXCEPT !.phone[s] = p, !.phoneSet = P, !.lead[s] = l, !.dirty[s] = D, !.leadNotes = N]
<1>1. new \in Tx /\ new.messages = t.messages /\ new.reply = t.reply /\ new.leadSet = t.leadSet
  BY DEF Tx
<1>2. new.lead = [t.lead EXCEPT ![s] = l] /\ new.dirty = [t.dirty EXCEPT ![s] = D]
  BY DEF Tx
<1>3. t.lead \in [Sender -> Lead \cup {None}] /\ t.dirty \in [Sender -> SUBSET Column]
  BY DEF Tx
<1>4. l # None
  BY IngestAssumption
<1>5. LeadOK(t) => LeadOK(new)
  BY <1>1, <1>2, <1>3, <1>4 DEF LeadOK
<1>. QED
  BY <1>1, <1>5 DEF Like

LEMMA FlushSession ==
  ASSUME NEW t \in Tx, NEW c \in Chats, NEW m \in Message \cup {None},
         NEW L \in SUBSET Chats, NEW P \in SUBSET Sender, P \subseteq {s \in Sender : t.dirty[s] # {}} \cup t.leadSet
  PROVE  Like([t EXCEPT !.last[c] = m, !.lastSet = L, !.leadSet = P], t)
BY DEF Tx, Like, LeadOK

-----------------------------------------------------------------------------
(* A statement either fails its transaction or moves the worker on *)

Moves(w, new, step) ==
  /\ Run(w, new, step)
  /\ new \in Tx /\ step \in TxStep
  /\ todo' \in [Worker -> Seq(Message)]
  /\ \A v \in Worker : v # w => todo'[v] = todo[v]
  /\ step \in EventStep \cup {"stamp"} => todo'[w] # <<>>
  /\ step = "lead" => PhoneIn[Head(todo'[w])] # None

\* A statement of an event that goes on to another of the same event.
LEMMA Stays ==
  ASSUME TypeOK, Busy, NEW w \in Worker, pc[w] \in EventStep, UNCHANGED todo,
         NEW new, Like(new, tx[w]), NEW step \in PlainStep, Run(w, new, step)
  PROVE  Moves(w, new, step) /\ Like(new, tx[w])
BY DEF Moves, Like, Busy, TypeOK, TxStep, EventStep, PlainStep

\* Each statement, unless it fails, moves its worker on, and all but
\* StoreMessage store and owe nothing.
LEMMA StampMoves ==
  ASSUME TypeOK, Busy, NEW w \in Worker, Stamp(w)
  PROVE  \E new, step : Moves(w, new, step) /\ Like(new, tx[w])
<1> DEFINE new == [tx[w] EXCEPT !.stamp = @ \cup {To[Mid(w)]}]
<1>1. tx[w] \in Tx /\ pc[w] = "stamp" /\ todo' = todo
  BY DEF TypeOK, Stamp, At
<1>2. Like(new, tx[w])
  BY <1>1, StampSession, CurrentEvent
<1>3. todo[w] # <<>>
  BY <1>1 DEF Busy
<1>4. Moves(w, new, "customer")
  BY <1>1, <1>2, <1>3 DEF Stamp, Moves, Like, TypeOK, TxStep, EventStep
<1>. QED BY <1>2, <1>4

LEMMA LoadCustomerMoves ==
  ASSUME TypeOK, Busy, NEW w \in Worker, LoadCustomer(w)
  PROVE  \E new, step : Moves(w, new, step) /\ Like(new, tx[w])
<1> DEFINE s == Who(w)
           t == tx[w]
           hasNone == s \notin named \cup t.name
<1>1. pc[w] \in EventStep /\ UNCHANGED todo
  BY DEF LoadCustomer, At, EventStep
<1>2. s \in Sender /\ t \in Tx
  BY <1>1, CurrentEvent DEF TypeOK
<1>3. Like(t, t)
  BY <1>2 DEF Like
<1>4. CASE Run(w, t, "newCustomer")
  BY <1>1, <1>3, <1>4, Stays DEF PlainStep
<1>5. CASE \E unknown \in NameUnknown(w) :
             Run(w, [t EXCEPT !.nameless = unknown /\ hasNone, !.naming = ~unknown /\ hasNone,
                              !.phone[s] = PhoneSeen(t, s)],
                 "conversation")
  <2>1. PICK b \in BOOLEAN, d \in BOOLEAN :
               Run(w, [t EXCEPT !.nameless = b, !.naming = d, !.phone[s] = PhoneSeen(t, s)], "conversation")
    BY <1>5
  <2>2. PhoneSeen(t, s) \in Phone \cup {None, WaNumber}
    BY <1>2, PhoneSeenType
  <2>. QED BY <1>1, <1>2, <2>1, <2>2, LoadCustomerSession, Stays DEF PlainStep
<1>. QED
  BY <1>4, <1>5 DEF LoadCustomer

LEMMA InsertCustomerMoves ==
  ASSUME TypeOK, Busy, NEW w \in Worker, InsertCustomer(w), ~Fail(w)
  PROVE  \E new, step : Moves(w, new, step) /\ Like(new, tx[w])
<1> DEFINE s == Who(w)
           t == tx[w]
<1>1. pc[w] \in EventStep /\ UNCHANGED todo
  BY DEF InsertCustomer, At, EventStep
<1>2. s \in Sender /\ t \in Tx /\ t.name \in SUBSET Sender
  BY <1>1, CurrentEvent DEF TypeOK, Tx
<1>3. PICK b \in BOOLEAN, N \in SUBSET Sender, p \in Phone \cup {None, WaNumber} :
             Run(w, [t EXCEPT !.nameless = b, !.naming = FALSE, !.name = N,
                              !.customers = @ \cup {s}, !.phone[s] = p],
                 "conversation")
  BY <1>2 DEF InsertCustomer, NameUnknown
<1>. QED
  BY <1>1, <1>2, <1>3, InsertCustomerSession, Stays DEF PlainStep

LEMMA LoadConversationMoves ==
  ASSUME TypeOK, Busy, NEW w \in Worker, LoadConversation(w)
  PROVE  \E new, step : Moves(w, new, step) /\ Like(new, tx[w])
<1> DEFINE c == Chat(w)
           N == IF tx[w].naming THEN tx[w].name \cup {Who(w)} ELSE tx[w].name
           t == [tx[w] EXCEPT !.name = N]
           found == [t EXCEPT !.fresh = FALSE, !.last[c] = LastSeen(t, c)]
<1>1. pc[w] \in EventStep /\ UNCHANGED todo
  BY DEF LoadConversation, At, EventStep
<1>2. c \in Chats /\ tx[w] \in Tx /\ N \in SUBSET Sender
  BY <1>1, CurrentEvent DEF TypeOK, Tx
<1>3. Like(t, tx[w]) /\ t \in Tx
  BY <1>2, NameSession DEF Like
<1> HIDE DEF N, t
<1>4. LastSeen(t, c) \in Message \cup {None}
  BY <1>2, <1>3, LastSeenType
<1>5. Like(found, t)
  BY <1>2, <1>3, <1>4, LoadConversationSession
<1>6. Like(found, tx[w])
  BY <1>3, <1>5 DEF Like
<1> HIDE DEF found
<1>7. Run(w, t, "newConversation") \/ Run(w, found, "message")
  BY DEF LoadConversation, t, N, found
<1>. QED
  BY <1>1, <1>3, <1>6, <1>7, Stays DEF PlainStep

LEMMA InsertConversationMoves ==
  ASSUME TypeOK, Busy, NEW w \in Worker, InsertConversation(w), ~Fail(w)
  PROVE  \E new, step : Moves(w, new, step) /\ Like(new, tx[w])
<1> DEFINE c == Chat(w)
           t == tx[w]
<1>1. pc[w] \in EventStep /\ UNCHANGED todo
  BY DEF InsertConversation, At, EventStep
<1>2. c \in Chats /\ t \in Tx
  BY <1>1, CurrentEvent DEF TypeOK
<1>3. Run(w, [t EXCEPT !.fresh = TRUE, !.convos = @ \cup {c}], "message")
  BY DEF InsertConversation
<1>. QED
  BY <1>1, <1>2, <1>3, InsertConversationSession, Stays DEF PlainStep

LEMMA CaptureLeadMoves ==
  ASSUME TypeOK, Busy, NEW w \in Worker, CaptureLead(w), LeadOK(tx[w])
  PROVE  \E new, step : Moves(w, new, step) /\ Like(new, tx[w])
<1> DEFINE s == Who(w)
           p == PhoneIn[Mid(w)]
           t == tx[w]
<1>1. pc[w] \in EventStep /\ UNCHANGED todo
  BY DEF CaptureLead, At, EventStep
<1>2. s \in Sender /\ t \in Tx /\ p \in Phone
  BY <1>1, CurrentEvent, IngestAssumption DEF TypeOK, Busy, CaptureLead, At
<1>3. t.phoneSet \in SUBSET Sender /\ t.dirty[s] \in SUBSET Column /\ t.leadNotes \in SUBSET Sender
  BY <1>2 DEF Tx
<1>4. [phone |-> p, source |-> Mid(w)] \in Lead
  BY <1>1, <1>2, CurrentEvent DEF Lead
<1>5. PICK P \in SUBSET Sender, D \in SUBSET Column, N \in SUBSET Sender :
         /\ Run(w, [t EXCEPT !.phone[s] = p, !.phoneSet = P,
                             !.lead[s] = [phone |-> p, source |-> Mid(w)],
                             !.dirty[s] = D, !.leadNotes = N],
                "flush")
         /\ t.dirty[s] \subseteq D
         /\ D = {} \/ "insert" \in D \/ leads[s] # None
  <2> DEFINE was == LeadSeen(t, s)
             changed == IF was = None THEN {"insert"}
                        ELSE {c \in {"phone"} : was.phone # p} \cup {c \in {"source"} : was.source # Mid(w)}
             P == IF p # t.phone[s] THEN t.phoneSet \cup {s} ELSE t.phoneSet
             D == t.dirty[s] \cup changed
             N == IF AnnouncesLead(w, was) THEN t.leadNotes \cup {s} ELSE t.leadNotes
  <2>1. P \in SUBSET Sender /\ D \in SUBSET Column /\ N \in SUBSET Sender
    <3>1. changed \in SUBSET Column
      BY DEF Column
    <3>. QED BY <1>2, <1>3, <3>1
  <2>2. Run(w, [t EXCEPT !.phone[s] = p, !.phoneSet = P,
                         !.lead[s] = [phone |-> p, source |-> Mid(w)],
                         !.dirty[s] = D, !.leadNotes = N],
            "flush")
    BY DEF CaptureLead
  <2>3. D = {} \/ "insert" \in D \/ leads[s] # None
    <3>1. CASE was = None
      BY <3>1
    <3>2. CASE was # None /\ s \notin t.leadSet
      BY <3>2 DEF LeadSeen
    <3>3. CASE s \in t.leadSet
      BY <1>2, <3>3 DEF LeadOK
    <3>. QED BY <3>1, <3>2, <3>3
  <2>. QED BY <2>1, <2>2, <2>3
<1>. QED
  BY <1>1, <1>2, <1>4, <1>5, CaptureLeadSession, Stays DEF PlainStep

LEMMA FlushMoves ==
  ASSUME TypeOK, Busy, NEW w \in Worker, FlushEvent(w), ~Fail(w)
  PROVE  \E new, step : Moves(w, new, step) /\ Like(new, tx[w])
<1> DEFINE s == Who(w)
           c == Chat(w)
           t == tx[w]
           rest == Tail(todo[w])
           goal == AfterMessage(w)
<1>1. pc[w] \in EventStep
  BY DEF FlushEvent, At, EventStep
<1>2. /\ s \in Sender /\ c \in Chats /\ t \in Tx /\ rest \in Seq(Message) /\ SortKey(w) \in Message \cup {None}
      /\ t.lastSet \in SUBSET Chats /\ t.leadSet \in SUBSET Sender
  BY <1>1, CurrentEvent, SortKeyType DEF TypeOK, Tx
<1>3. PICK L \in SUBSET Chats, P \in SUBSET Sender :
         /\ Run(w, [t EXCEPT !.last[c] = SortKey(w), !.lastSet = L, !.leadSet = P], goal)
         /\ P \subseteq {x \in Sender : t.dirty[x] # {}} \cup t.leadSet
  <2> DEFINE L == IF SortKey(w) # t.last[c] THEN t.lastSet \cup {c} ELSE t.lastSet
             P == IF t.dirty[s] # {} THEN t.leadSet \cup {s} ELSE t.leadSet
  <2>1. L \in SUBSET Chats /\ P \in SUBSET Sender
    BY <1>2
  <2>2. P \subseteq {x \in Sender : t.dirty[x] # {}} \cup t.leadSet
    BY <1>2
  <2>3. Run(w, [t EXCEPT !.last[c] = SortKey(w), !.lastSet = L, !.leadSet = P], goal)
    BY DEF FlushEvent
  <2>. QED BY <2>1, <2>2, <2>3
<1>4. todo' = [todo EXCEPT ![w] = rest]
  BY DEF FlushEvent
<1>5. goal \in TxStep /\ goal # "lead" /\ (goal \in EventStep \cup {"stamp"} => rest # <<>>)
  <2>2. todo[w] \in Seq(Message) /\ todo[w] # <<>>
    BY <1>1 DEF TypeOK, Busy
  <2>1. Len(todo[w]) # 1 => rest # <<>>
    <3> SUFFICES ASSUME Len(todo[w]) # 1 PROVE Len(rest) # 0
      OBVIOUS
    <3>. QED BY <2>2
  <2>3. CASE goal = AfterEvent(rest, Stamped(w))
    BY <1>2, <2>3, AfterEventType DEF EventStep, TxStep
  <2>4. CASE goal = "message" /\ ~ThreadEnds(w)
    BY <2>1, <2>4 DEF ThreadEnds, EventStep, TxStep
  <2>. QED BY <2>3, <2>4 DEF AfterMessage
<1>6. Like([t EXCEPT !.last[c] = SortKey(w), !.lastSet = L, !.leadSet = P], t)
  BY <1>2, <1>3, FlushSession
<1>7. Moves(w, [t EXCEPT !.last[c] = SortKey(w), !.lastSet = L, !.leadSet = P], goal)
  BY <1>2, <1>3, <1>4, <1>5, <1>6 DEF Moves, Like, TypeOK
<1>. QED
  BY <1>6, <1>7

\* StoreMessage adds at most the message at hand, which nobody else has stored,
\* and owes a reply to it only then.
Stores(w, new) ==
  LET m == Mid(w)
      added == m \notin Opening \cup stored \cup tx[w].messages
  IN  /\ new.messages = IF added THEN tx[w].messages \cup {m} ELSE tx[w].messages
      /\ \E r \in Message \cup {None} :
           /\ new.reply = [tx[w].reply EXCEPT ![Chat(w)] = r]
           /\ r = tx[w].reply[Chat(w)] \/ (r = m /\ added /\ m \notin Echo)
      /\ LeadOK(tx[w]) => LeadOK(new)

\* StoreMessage moves its worker on too.
LEMMA StoreMessageMoves ==
  ASSUME TypeOK, Busy, NEW w \in Worker, StoreMessage(w)
  PROVE  \E new, step : Moves(w, new, step) /\ Stores(w, new)
<1> DEFINE s == Who(w)
           c == Chat(w)
           m == Mid(w)
           t == tx[w]
           added == m \notin Opening \cup stored \cup t.messages
           M == IF added THEN t.messages \cup {m} ELSE t.messages
           P == IF IsWebhook(w) /\ Platform # "whatsapp" /\ t.nameless THEN t.profile \cup {s} ELSE t.profile
           N == IF Announces(w) THEN t.notes \cup {c} ELSE t.notes
           r == IF Inbound(w) /\ added THEN m ELSE t.reply[c]
           new == [t EXCEPT !.messages = M, !.profile = P, !.notes = N, !.reply[c] = r]
           step == IF Captures(w, added) THEN "lead" ELSE "flush"
<1>1. pc[w] \in EventStep /\ todo' = todo /\ todo[w] # <<>>
  BY DEF StoreMessage, At, EventStep, Busy
<1>2. s \in Sender /\ c \in Chats /\ m \in Message /\ t \in Tx
  BY <1>1, CurrentEvent DEF TypeOK
<1>3. /\ t.messages \in SUBSET Message /\ t.profile \in SUBSET Sender /\ t.notes \in SUBSET Chats
      /\ t.reply[c] \in Message \cup {None}
  BY <1>2 DEF Tx
<1>4. M \in SUBSET Message /\ P \in SUBSET Sender /\ N \in SUBSET Chats /\ r \in Message \cup {None}
  BY <1>2, <1>3
<1>5. new \in Tx /\ new.messages = M /\ new.reply = [t.reply EXCEPT ![c] = r] /\ (LeadOK(t) => LeadOK(new))
  <2> HIDE DEF s, c, t, M, P, N, r
  <2>. QED BY <1>2, <1>4 DEF Tx, LeadOK
<1>6. Run(w, new, step)
  BY DEF StoreMessage, IsNew
<1>7. step \in {"lead", "flush"} /\ (step = "lead" => PhoneIn[Mid(w)] # None)
  BY DEF Captures
<1>8. Stores(w, new)
  <2>1. r = t.reply[c] \/ (r = m /\ added /\ m \notin Echo)
    BY DEF Inbound
  <2>. QED BY <1>4, <1>5, <2>1 DEF Stores
<1>9. Moves(w, new, step)
  BY <1>1, <1>5, <1>6, <1>7 DEF Moves, TypeOK, TxStep, EventStep, Mid
<1>. QED BY <1>8, <1>9

-----------------------------------------------------------------------------
(* Types *)

Sessions == \A w \in Worker : LeadOK(tx[w])

\* The inductive form of the type invariant.
IngestInv == TypeOK /\ Busy /\ Sessions

\* A statement keeps it.
LEMMA MovesKeeps ==
  ASSUME IngestInv, NEW w \in Worker, pc[w] # "idle", NEW new, NEW step,
         Moves(w, new, step), LeadOK(tx[w]) => LeadOK(new)
  PROVE  IngestInv'
<1>1. /\ pc' = [pc EXCEPT ![w] = step] /\ tx' = [tx EXCEPT ![w] = new]
      /\ step \in TxStep /\ new \in Tx /\ todo' \in [Worker -> Seq(Message)]
      /\ UNCHANGED <<dbVars, kind, batch, jobs, metaVars, outVars, budgets>>
  BY DEF Moves, Run, Goto
<1>2. TypeOK'
  BY <1>1 DEF IngestInv, TypeOK, Step, dbVars, metaVars, outVars, budgets
<1>3. Busy'
  BY <1>1 DEF IngestInv, TypeOK, Busy, Moves, Mid, IsWebhook, TxStep, EventStep
<1>4. Sessions'
  BY <1>1 DEF IngestInv, TypeOK, Sessions, LeadOK, dbVars
<1>. QED BY <1>2, <1>3, <1>4 DEF IngestInv

\* The end of a request leaves its worker as it began, and the others alone.
LEMMA EndKeeps ==
  ASSUME IngestInv, NEW w \in Worker, End(w), \A s \in Sender : leads[s] # None => leads'[s] # None
  PROVE  /\ pc' \in [Worker -> Step] /\ kind' \in [Worker -> {"webhook", "history"}]
         /\ batch' \in [Worker -> Seq(Message)] /\ todo' \in [Worker -> Seq(Message)]
         /\ tx' \in [Worker -> Tx]
         /\ Busy' /\ Sessions'
<1>1. /\ pc' = [pc EXCEPT ![w] = "idle"] /\ kind' = [kind EXCEPT ![w] = "webhook"]
      /\ batch' = [batch EXCEPT ![w] = <<>>] /\ todo' = [todo EXCEPT ![w] = <<>>]
      /\ tx' = [tx EXCEPT ![w] = EmptyTx]
  BY DEF End, Goto
<1>2. EmptyTx \in Tx /\ EmptyTx.dirty = [s \in Sender |-> {}] /\ EmptyTx.leadSet = {}
  BY EmptyTxFacts DEF EmptyTx
<1>3. Busy'
  BY <1>1 DEF IngestInv, TypeOK, Busy, Mid, IsWebhook, EventStep
<1>4. Sessions'
  BY <1>1, <1>2 DEF IngestInv, TypeOK, Sessions, LeadOK
<1>. QED
  BY <1>1, <1>2, <1>3, <1>4 DEF IngestInv, TypeOK, Step

\* An exception that rolls the transaction back keeps the invariant.
LEMMA FailKeeps ==
  ASSUME IngestInv, NEW w \in Worker, pc[w] # "idle", Fail(w), {pages', dbErrors', crashes'} \subseteq Nat,
         broken' \subseteq Batch
  PROVE  IngestInv'
<1>1. End(w) /\ UNCHANGED <<dbVars, jobs, deliveries, outVars>> /\ acked' \subseteq Batch
  BY DEF Fail, IngestInv, Busy, TypeOK
<1>2. \A s \in Sender : leads[s] # None => leads'[s] # None
  BY <1>1 DEF dbVars
<1>. QED
  BY <1>1, <1>2, EndKeeps DEF IngestInv, TypeOK, dbVars, outVars

\* It holds at first.
LEMMA InitKeeps == Init => IngestInv
<1> SUFFICES ASSUME Init PROVE IngestInv
  OBVIOUS
<1>1. EmptyTx \in Tx /\ LeadOK(EmptyTx)
  BY EmptyTxFacts
<1>2. TypeOK
  BY <1>1, IngestAssumption DEF Init, TypeOK, NoJobs, Jobs, Step
<1>3. Busy
  BY DEF Init, Busy, EventStep
<1>4. Sessions
  BY <1>1 DEF Init, Sessions
<1>. QED BY <1>2, <1>3, <1>4 DEF IngestInv

\* A delivery and a page of the sync keep it.
LEMMA StartKeeps ==
  ASSUME IngestInv, NEW w \in Worker,
         (\E b \in Batch : Receive(w, b)) \/ (\E p \in Page : FetchPage(w, p))
  PROVE  IngestInv'
<1>1. CASE \E b \in Batch : Receive(w, b)
  <2>1. PICK b \in Batch : Receive(w, b)
    BY <1>1
  <2> DEFINE step == AfterEvent(b, {})
  <2>2. pc' = [pc EXCEPT ![w] = step]
    BY <2>1 DEF Receive, Goto
  <2>3. b \in Seq(Message)
    BY IngestAssumption
  <2>6. step \in TxStep /\ step \notin {"lead", "respond"} /\ (step \in EventStep \cup {"stamp"} => b # <<>>)
    BY <2>3, AfterEventType DEF TxStep, EventStep
  <2> HIDE DEF step
  <2>7. /\ deliveries' = [deliveries EXCEPT ![b] = @ + 1]
        /\ batch' = [batch EXCEPT ![w] = b] /\ todo' = [todo EXCEPT ![w] = b]
        /\ UNCHANGED <<dbVars, kind, tx, jobs, acked, outVars, budgets>>
    BY <2>1 DEF Receive
  <2>8. pc' \in [Worker -> Step]
    BY <2>2, <2>6 DEF IngestInv, TypeOK, Step
  <2>9. deliveries' \in [Batch -> Nat]
    BY <2>7 DEF IngestInv, TypeOK
  <2>4. TypeOK'
    BY <2>3, <2>7, <2>8, <2>9 DEF IngestInv, TypeOK, dbVars, outVars, budgets
  <2>5. Busy'
    BY <2>2, <2>3, <2>6, <2>7 DEF IngestInv, TypeOK, Busy, Mid, IsWebhook
  <2>10. Sessions'
    BY <2>1 DEF Receive, IngestInv, Sessions, LeadOK, dbVars
  <2>. QED BY <2>4, <2>5, <2>10 DEF IngestInv
<1>2. CASE \E p \in Page : FetchPage(w, p)
  <2>1. PICK p \in Page : FetchPage(w, p)
    BY <1>2
  <2> DEFINE step == AfterEvent(p, Account)
  <2>2. pc' = [pc EXCEPT ![w] = step]
    BY <2>1 DEF FetchPage, Goto
  <2>3. p \in Seq(Message)
    BY IngestAssumption
  <2>6. step \in TxStep /\ step \notin {"lead", "respond"} /\ (step \in EventStep \cup {"stamp"} => p # <<>>)
    BY <2>3, AfterEventType DEF TxStep, EventStep
  <2> HIDE DEF step
  <2>7. /\ pages' = pages + 1 /\ kind' = [kind EXCEPT ![w] = "history"]
        /\ batch' = [batch EXCEPT ![w] = p] /\ todo' = [todo EXCEPT ![w] = p]
        /\ UNCHANGED <<dbVars, tx, jobs, metaVars, outVars, dbErrors, crashes, broken>>
    BY <2>1 DEF FetchPage
  <2>8. pc' \in [Worker -> Step] /\ kind' \in [Worker -> {"webhook", "history"}]
    BY <2>2, <2>6, <2>7 DEF IngestInv, TypeOK, Step
  <2>4. TypeOK'
    BY <2>3, <2>7, <2>8 DEF IngestInv, TypeOK, dbVars, metaVars, outVars
  <2>5. Busy'
    BY <2>2, <2>3, <2>6, <2>7 DEF IngestInv, TypeOK, Busy, Mid, IsWebhook
  <2>10. Sessions'
    BY <2>1 DEF FetchPage, IngestInv, Sessions, LeadOK, dbVars
  <2>. QED BY <2>4, <2>5, <2>10 DEF IngestInv
<1>. QED BY <1>1, <1>2

\* A lead is never taken back.
LEMMA LeadsGrow ==
  ASSUME TypeOK, NEW t \in Tx, LeadOK(t), NEW s \in Sender, leads[s] # None
  PROVE  LeadSeen(t, s) # None
<1>1. t.lead[s] \in Lead \cup {None} /\ leads[s] \in Lead \cup {None}
  BY DEF Tx, TypeOK
<1>2. CASE s \in t.leadSet
  <2>1. t.lead[s] \in Lead /\ leads[s] \in Lead
    BY <1>1, <1>2 DEF LeadOK
  <2>2. LeadSeen(t, s) \in Lead
    BY <1>2, <2>1 DEF LeadSeen, Lead
  <2>. QED BY <2>2, IngestAssumption
<1>. QED BY <1>2 DEF LeadSeen

\* The commit keeps it.
LEMMA CommitKeeps ==
  ASSUME IngestInv, NEW w \in Worker, Commit(w)
  PROVE  IngestInv'
<1> DEFINE t == tx[w]
<1>1. t \in Tx /\ LeadOK(t) /\ TypeOK /\ pc[w] = "commit"
  BY DEF IngestInv, TypeOK, Sessions, Commit, At
<1>2. \A s \in Sender : leads[s] # None => leads'[s] # None
  BY <1>1, LeadsGrow DEF Commit
<1>3. /\ customers' \subseteq Sender /\ named' \subseteq Sender /\ convos' \subseteq Chats
      /\ stored' \subseteq Message
  BY <1>1 DEF Commit, TypeOK, Tx
<1>4. /\ phones' \in [Sender -> Phone \cup {None, WaNumber}]
      /\ lastAt' \in [Chats -> Message \cup {None}]
      /\ leads' \in [Sender -> Lead \cup {None}]
  BY <1>1, PhoneSeenType, LastSeenType, LeadSeenType DEF Commit
<1>5. notes' \in [Chats -> Nat] /\ leadNotes' \in [Sender -> Nat]
  BY <1>1 DEF Commit, TypeOK
<1>6. UNCHANGED <<metaVars, outVars, budgets>>
  BY DEF Commit
<1>7. CASE IsWebhook(w) /\ pc' = [pc EXCEPT ![w] = "respond"] /\ tx' = [tx EXCEPT ![w] = EmptyTx]
           /\ UNCHANGED <<kind, batch, todo>>
           /\ jobs' = [jobs EXCEPT ![w] = [profile |-> t.profile,
                                          reply |-> {m \in Message : t.reply[ChatOf(m)] = m}]]
  <2>1. t.profile \in SUBSET Sender
    BY <1>1 DEF Tx
  <2>2. [profile |-> t.profile, reply |-> {m \in Message : t.reply[ChatOf(m)] = m}] \in Jobs
    BY <2>1 DEF Jobs
  <2>3. jobs' \in [Worker -> Jobs]
    BY <1>1, <1>7, <2>2 DEF TypeOK
  <2>4. TypeOK'
    BY <1>1, <1>3, <1>4, <1>5, <1>6, <1>7, <2>3, EmptyTxFacts DEF TypeOK, Step, metaVars, outVars, budgets
  <2>5. Busy'
    BY <1>1, <1>7 DEF IngestInv, TypeOK, Busy, Mid, IsWebhook, EventStep
  <2>6. EmptyTx.dirty = [s \in Sender |-> {}] /\ EmptyTx.leadSet = {}
    BY DEF EmptyTx
  <2>7. Sessions'
    BY <1>1, <1>2, <1>7, <2>6 DEF IngestInv, TypeOK, Sessions, LeadOK
  <2>. QED BY <2>4, <2>5, <2>7 DEF IngestInv
<1>8. CASE End(w) /\ UNCHANGED jobs
  BY <1>1, <1>2, <1>3, <1>4, <1>5, <1>6, <1>8, EndKeeps DEF IngestInv, TypeOK, metaVars, outVars, budgets
<1>. QED
  BY <1>7, <1>8 DEF Commit, Goto, Queued

\* A statement that does not end its transaction, whichever it is.
Statement(w) ==
  \/ Stamp(w) \/ LoadCustomer(w) \/ InsertCustomer(w)
  \/ LoadConversation(w) \/ InsertConversation(w)
  \/ StoreMessage(w) \/ CaptureLead(w) \/ FlushEvent(w)

\* What the statement lemmas say together.
LEMMA StatementMoves ==
  ASSUME IngestInv, NEW w \in Worker, Statement(w), ~Fail(w)
  PROVE  /\ pc[w] # "idle"
         /\ \E new, step : Moves(w, new, step) /\ (Like(new, tx[w]) \/ (StoreMessage(w) /\ Stores(w, new)))
<1>1. TypeOK /\ Busy /\ LeadOK(tx[w])
  BY DEF IngestInv, Sessions
<1>2. pc[w] # "idle"
  BY DEF Statement, Stamp, LoadCustomer, InsertCustomer, LoadConversation, InsertConversation,
         StoreMessage, CaptureLead, FlushEvent, At
<1>. QED
  BY <1>1, <1>2, StampMoves, LoadCustomerMoves, InsertCustomerMoves, LoadConversationMoves,
     InsertConversationMoves, StoreMessageMoves, CaptureLeadMoves, FlushMoves DEF Statement

\* Statements keep it, failed or not.
LEMMA StatementKeeps ==
  ASSUME IngestInv, NEW w \in Worker, Statement(w)
  PROVE  IngestInv'
<1>1. CASE Fail(w)
  <2>1. pc[w] # "idle" /\ UNCHANGED budgets
    <3>1. UNCHANGED budgets
      BY DEF Statement, Stamp, LoadCustomer, InsertCustomer, LoadConversation, InsertConversation,
             StoreMessage, CaptureLead, FlushEvent, Run
    <3>. QED
      BY <3>1 DEF Statement, Stamp, LoadCustomer, InsertCustomer, LoadConversation, InsertConversation,
                  StoreMessage, CaptureLead, FlushEvent, At
  <2>2. {pages', dbErrors', crashes'} \subseteq Nat /\ broken' \subseteq Batch
    BY <2>1 DEF IngestInv, TypeOK, budgets
  <2>. QED BY <1>1, <2>1, <2>2, FailKeeps
<1>2. CASE ~Fail(w)
  <2>1. PICK new, step : Moves(w, new, step) /\ (Like(new, tx[w]) \/ Stores(w, new))
    BY <1>2, StatementMoves
  <2>2. LeadOK(tx[w]) => LeadOK(new)
    BY <2>1 DEF Like, Stores
  <2>3. pc[w] # "idle"
    BY <1>2, StatementMoves
  <2>. QED BY <2>1, <2>2, <2>3, MovesKeeps
<1>. QED BY <1>1, <1>2

\* Who waits in a circle waits for somebody, and somebody waits for them.
LEMMA CircleWaits ==
  ASSUME NEW w \in Worker, InCircle(w)
  PROVE  Blockers(w) # {} /\ \E v \in Worker : w \in Blockers(v)
<1>1. Blockers(w) # {}
  BY DEF InCircle
<1>2. \E v \in Worker : w \in Blockers(v)
  <2>1. SUFFICES ASSUME \A v \in Worker : w \notin Blockers(v) PROVE FALSE
    OBVIOUS
  <2>2. \A v \in Worker : Blockers(v) \subseteq Worker \ {w}
    BY <2>1 DEF Blockers
  <2>. QED BY <2>2 DEF InCircle
<1>. QED BY <1>1, <1>2

\* The steps after the transaction, and the ones that break it off.
LEMMA OutsideKeeps ==
  ASSUME IngestInv, NEW w \in Worker,
         \/ BreakDeadlock(w) \/ DbError(w) \/ Respond(w) \/ Finish(w) \/ Crash(w)
         \/ \E s \in Sender : RunProfile(w, s) \/ RaiseProfile(w, s)
         \/ \E m \in Message : RunReply(w, m)
  PROVE  IngestInv'
<1>1. CASE BreakDeadlock(w)
  <2>1. Blockers(w) # {} /\ Fail(w) /\ UNCHANGED budgets
    BY <1>1, CircleWaits DEF BreakDeadlock
  <2>2. pc[w] # "idle"
    BY <2>1 DEF Blockers
  <2>. QED BY <2>1, <2>2, FailKeeps DEF IngestInv, TypeOK, budgets
<1>2. CASE DbError(w)
  <2>1. pc[w] # "idle"
    BY <1>2 DEF DbError, TxStep, EventStep
  <2>2. Fail(w) /\ {pages', dbErrors', crashes'} \subseteq Nat
    BY <1>2 DEF DbError, IngestInv, TypeOK
  <2>3. broken' \subseteq Batch
    BY <1>2, <2>1 DEF DbError, IngestInv, TypeOK, Busy
  <2>. QED BY <2>1, <2>2, <2>3, FailKeeps
<1>3. CASE Respond(w)
  <2>1. pc' = [pc EXCEPT ![w] = "background"] /\ pc[w] # "idle"
    BY <1>3 DEF Respond, Goto
  <2>3. UNCHANGED <<dbVars, kind, batch, todo, tx, jobs, deliveries, outVars, budgets>>
    BY <1>3 DEF Respond
  <2>4. acked' \subseteq Batch
    BY <1>3, <2>1 DEF Respond, IngestInv, Busy, IsWebhook, TypeOK
  <2>5. TypeOK'
    BY <2>1, <2>3, <2>4 DEF IngestInv, TypeOK, Step, dbVars, outVars, budgets
  <2>6. Busy' /\ Sessions'
    BY <2>1, <2>3 DEF IngestInv, TypeOK, Busy, Sessions, LeadOK, Mid, IsWebhook, EventStep, dbVars
  <2>. QED BY <2>5, <2>6 DEF IngestInv
<1>4. CASE Finish(w) \/ Crash(w)
  <2>1. End(w) /\ UNCHANGED <<dbVars, metaVars, replied, pages, dbErrors, broken>> /\ crashes' \in Nat
    BY <1>4 DEF Finish, Crash, outVars, budgets, IngestInv, TypeOK
  <2>2. jobs' \in [Worker -> Jobs] /\ lost' \in [{"crash", "exception"} -> SUBSET Message]
    <3>1. jobs[w].reply \subseteq Message /\ NoJobs \in Jobs
      BY DEF IngestInv, TypeOK, Jobs, NoJobs
    <3>2. CASE Finish(w)
      BY <3>2 DEF Finish, outVars, IngestInv, TypeOK
    <3>3. CASE Crash(w)
      BY <3>1, <3>3 DEF Crash, IngestInv, TypeOK
    <3>. QED BY <1>4, <3>2, <3>3
  <2>. QED BY <2>1, <2>2, EndKeeps DEF IngestInv, TypeOK, dbVars, metaVars
<1>5. CASE \E s \in Sender : RunProfile(w, s)
  <2>1. PICK s \in Sender : RunProfile(w, s)
    BY <1>5
  <2>2. jobs' \in [Worker -> Jobs] /\ named' \subseteq Sender
    BY <2>1 DEF RunProfile, IngestInv, TypeOK, Jobs
  <2>. QED
    BY <2>1, <2>2 DEF RunProfile, IngestInv, TypeOK, Busy, Sessions, LeadOK, Mid, IsWebhook,
                      metaVars, outVars, budgets
<1>6. CASE \E s \in Sender : RaiseProfile(w, s)
  <2>1. PICK s \in Sender : RaiseProfile(w, s)
    BY <1>6
  <2>2. jobs' \in [Worker -> Jobs] /\ lost' \in [{"crash", "exception"} -> SUBSET Message]
    BY <2>1 DEF RaiseProfile, IngestInv, TypeOK, Jobs, NoJobs
  <2>. QED
    BY <2>1, <2>2 DEF RaiseProfile, IngestInv, TypeOK, Busy, Sessions, LeadOK, Mid, IsWebhook,
                      dbVars, metaVars, budgets
<1>7. CASE \E m \in Message : RunReply(w, m)
  <2>1. PICK m \in Message : RunReply(w, m)
    BY <1>7
  <2>2. jobs' \in [Worker -> Jobs] /\ replied' \in [Message -> Nat]
    <3>1. replied' \in [Message -> Nat]
      BY <2>1 DEF RunReply, IngestInv, TypeOK
    <3>2. jobs' \in [Worker -> Jobs]
      <4>1. jobs \in [Worker -> Jobs] /\ jobs[w].reply \ {m} \in SUBSET Message
        BY DEF IngestInv, TypeOK, Jobs
      <4>2. [jobs[w] EXCEPT !.reply = @ \ {m}] \in Jobs
        BY <4>1 DEF Jobs
      <4>3. jobs' = [jobs EXCEPT ![w] = [jobs[w] EXCEPT !.reply = @ \ {m}]]
        BY <2>1, <4>1 DEF RunReply
      <4>. QED BY <4>1, <4>2, <4>3
    <3>. QED BY <3>1, <3>2
  <2>. QED
    BY <2>1, <2>2 DEF RunReply, IngestInv, TypeOK, Busy, Sessions, LeadOK, Mid, IsWebhook,
                      dbVars, metaVars, budgets
<1>. QED BY <1>1, <1>2, <1>3, <1>4, <1>5, <1>6, <1>7

\* Every step keeps it.
LEMMA NextKeeps == IngestInv /\ [Next]_vars => IngestInv'
<1> SUFFICES ASSUME IngestInv, [Next]_vars PROVE IngestInv'
  OBVIOUS
<1>1. CASE Next
  <2>1. PICK w \in Worker :
          \/ (\E b \in Batch : Receive(w, b)) \/ (\E p \in Page : FetchPage(w, p))
          \/ Work(w) \/ DbError(w) \/ Crash(w)
    BY <1>1 DEF Next
  <2>. QED
    BY <2>1, StartKeeps, StatementKeeps, CommitKeeps, OutsideKeeps DEF Work, Statement
<1>2. CASE UNCHANGED vars
  BY <1>2 DEF IngestInv, TypeOK, Busy, Sessions, LeadOK, Mid, IsWebhook, vars, dbVars, procVars,
              metaVars, outVars, budgets
<1>. QED BY <1>1, <1>2

\* Every variable keeps its type, for any customers, messages, batches and pages
\* and any number of workers, over crashes, failing statements and broken waits.
THEOREM IngestTypeCorrect == Spec => []TypeOK
<1>1. IngestInv => TypeOK
  BY DEF IngestInv
<1>. QED BY <1>1, InitKeeps, NextKeeps, PTL DEF Spec

-----------------------------------------------------------------------------
(* One reply job per message *)

\* A message a transaction has inserted is in no other one, and not committed:
\* the unique index on Meta's message id.
OneInserter ==
  /\ \A w \in Worker : tx[w].messages \cap stored = {}
  /\ \A v, w \in Worker : v # w => tx[v].messages \cap tx[w].messages = {}

\* A reply is owed only to a customer's message the transaction inserted.
OwedToOwn ==
  \A w \in Worker, c \in Chats :
    tx[w].reply[c] # None => tx[w].reply[c] \in tx[w].messages \ Echo

\* A job is for a message that is committed, not answered, and nobody else's.
OneJob ==
  /\ ReplyOnlyToStored
  /\ \A v, w \in Worker : v # w => jobs[v].reply \cap jobs[w].reply = {}
  /\ \A m \in Message : replied[m] > 0 => m \in stored /\ \A w \in Worker : m \notin jobs[w].reply

OnceInv == OneInserter /\ OwedToOwn /\ OneJob /\ AnsweredOnce

\* Most steps store nothing, start nothing and queue nothing.
LEMMA QuietKeepsOnce ==
  ASSUME OnceInv, stored' = stored, replied' = replied,
         \A v \in Worker :
           /\ jobs'[v].reply \subseteq jobs[v].reply
           /\ \/ tx'[v].messages = tx[v].messages /\ tx'[v].reply = tx[v].reply
              \/ tx'[v] = EmptyTx
  PROVE  OnceInv'
<1>1. OneInserter' /\ OwedToOwn'
  BY EmptyTxFacts DEF OnceInv, OneInserter, OwedToOwn
<1>2. OneJob' /\ AnsweredOnce'
  BY DEF OnceInv, OneJob, ReplyOnlyToStored, AnsweredOnce
<1>. QED BY <1>1, <1>2 DEF OnceInv

\* Statements keep OnceInv: only StoreMessage inserts, and it waits for other inserts of
\* the message.
LEMMA StatementKeepsOnce ==
  ASSUME IngestInv, OnceInv, NEW w \in Worker, Statement(w), ~Fail(w)
  PROVE  OnceInv'
<1>1. PICK new, step : Moves(w, new, step) /\ (Like(new, tx[w]) \/ (StoreMessage(w) /\ Stores(w, new)))
  BY StatementMoves
<1>2. /\ tx' = [tx EXCEPT ![w] = new] /\ new \in Tx
      /\ stored' = stored /\ replied' = replied /\ jobs' = jobs
  BY <1>1 DEF Moves, Run, dbVars, outVars
<1>3. tx \in [Worker -> Tx]
  BY DEF IngestInv, TypeOK
<1>4. CASE Like(new, tx[w])
  BY <1>2, <1>3, <1>4, QuietKeepsOnce DEF Like
<1>5. CASE StoreMessage(w) /\ Stores(w, new)
  <2> DEFINE m == Mid(w)
             added == m \notin Opening \cup stored \cup tx[w].messages
  <2>1. \A v \in Worker : v # w => m \notin tx[v].messages
    BY <1>5 DEF StoreMessage, At, Blockers
  <2>2. pc[w] \in EventStep /\ TypeOK /\ Busy
    BY <1>5 DEF StoreMessage, At, EventStep, IngestInv
  <2>3. m \in Message /\ Chat(w) \in Chats /\ tx[w].reply \in [Chats -> Message \cup {None}]
    BY <1>3, <2>2, CurrentEvent DEF Tx
  <2>4. new.messages = IF added THEN tx[w].messages \cup {m} ELSE tx[w].messages
    BY <1>5 DEF Stores
  <2>5. PICK r \in Message \cup {None} :
          /\ new.reply = [tx[w].reply EXCEPT ![Chat(w)] = r]
          /\ r = tx[w].reply[Chat(w)] \/ (r = m /\ added /\ m \notin Echo)
    BY <1>5 DEF Stores
  <2>6. OneInserter'
    BY <1>2, <1>3, <2>1, <2>4 DEF OnceInv, OneInserter
  <2>7. \A c \in Chats : new.reply[c] # None => new.reply[c] \in new.messages \ Echo
    BY <2>3, <2>4, <2>5 DEF OnceInv, OwedToOwn
  <2>8. OwedToOwn'
    BY <1>2, <1>3, <2>7 DEF OnceInv, OwedToOwn
  <2>9. OneJob' /\ AnsweredOnce'
    BY <1>2 DEF OnceInv, OneJob, ReplyOnlyToStored, AnsweredOnce
  <2>. QED BY <2>6, <2>8, <2>9 DEF OnceInv
<1>. QED BY <1>1, <1>4, <1>5

\* The messages of a transaction are new to the database when it commits, and so
\* are its jobs.
LEMMA CommitKeepsOnce ==
  ASSUME IngestInv, OnceInv, NEW w \in Worker, Commit(w)
  PROVE  OnceInv'
<1> DEFINE t == tx[w]
           queued == {m \in Message : t.reply[ChatOf(m)] = m}
<1>1. TypeOK /\ t \in Tx /\ stored' = stored \cup t.messages /\ replied' = replied
  BY DEF Commit, IngestInv, TypeOK, outVars
<1>2. tx' = [tx EXCEPT ![w] = EmptyTx]
  BY DEF Commit, End
<1>3. OneInserter' /\ OwedToOwn'
  BY <1>1, <1>2, EmptyTxFacts DEF OnceInv, OneInserter, OwedToOwn, TypeOK
<1>4. queued \subseteq t.messages \ Echo
  BY IngestAssumption, ChatType DEF OnceInv, OwedToOwn
<1>5. /\ \A v \in Worker : v # w => jobs'[v].reply = jobs[v].reply
      /\ jobs'[w].reply \subseteq jobs[w].reply \/ jobs'[w].reply = queued
  BY <1>1 DEF Commit, Queued, TypeOK
<1>6. OneJob'
  <2>1. ReplyOnlyToStored'
    BY <1>1, <1>4, <1>5 DEF OnceInv, OneJob, ReplyOnlyToStored
  <2>2. \A v \in Worker : v # w => jobs'[v].reply \cap jobs'[w].reply = {}
    BY <1>4, <1>5 DEF OnceInv, OneInserter, OneJob, ReplyOnlyToStored
  <2>3. \A u, v \in Worker : u # v => jobs'[u].reply \cap jobs'[v].reply = {}
    BY <1>5, <2>2 DEF OnceInv, OneJob
  <2>4. \A m \in Message : replied'[m] > 0 => m \in stored' /\ \A v \in Worker : m \notin jobs'[v].reply
    BY <1>1, <1>4, <1>5 DEF OnceInv, OneInserter, OneJob
  <2>. QED BY <2>1, <2>3, <2>4 DEF OneJob
<1>. QED BY <1>1, <1>3, <1>6 DEF OnceInv, AnsweredOnce

\* Starting a job uses it up.
LEMMA RunReplyKeepsOnce ==
  ASSUME IngestInv, OnceInv, NEW w \in Worker, NEW m \in Message, RunReply(w, m)
  PROVE  OnceInv'
<1>1. TypeOK /\ stored' = stored /\ tx' = tx /\ m \in jobs[w].reply
  BY DEF RunReply, IngestInv, dbVars
<1>2. replied' = [replied EXCEPT ![m] = @ + 1] /\ replied \in [Message -> Nat]
  BY <1>1 DEF RunReply, TypeOK
<1>3. /\ \A v \in Worker : v # w => jobs'[v].reply = jobs[v].reply
      /\ jobs'[w].reply = jobs[w].reply \ {m}
  <2>1. jobs \in [Worker -> Jobs]
    BY <1>1 DEF TypeOK
  <2>2. jobs' = [jobs EXCEPT ![w] = [jobs[w] EXCEPT !.reply = @ \ {m}]]
    BY <2>1 DEF RunReply
  <2>3. [jobs[w] EXCEPT !.reply = @ \ {m}].reply = jobs[w].reply \ {m}
    BY <2>1 DEF Jobs
  <2>. QED BY <2>1, <2>2, <2>3
<1>4. replied[m] = 0 /\ m \in stored \ Echo
  BY <1>1, <1>2 DEF OnceInv, OneJob, ReplyOnlyToStored
<1>5. OneInserter' /\ OwedToOwn'
  BY <1>1 DEF OnceInv, OneInserter, OwedToOwn
<1>6. AnsweredOnce'
  BY <1>2, <1>4 DEF OnceInv, AnsweredOnce
<1>7. OneJob'
  <2>1. ReplyOnlyToStored' /\ \A u, v \in Worker : u # v => jobs'[u].reply \cap jobs'[v].reply = {}
    BY <1>1, <1>3 DEF OnceInv, OneJob, ReplyOnlyToStored
  <2>2. \A n \in Message : replied'[n] > 0 => n \in stored' /\ \A v \in Worker : n \notin jobs'[v].reply
    BY <1>1, <1>2, <1>3, <1>4 DEF OnceInv, OneJob
  <2>. QED BY <2>1, <2>2 DEF OneJob
<1>. QED BY <1>5, <1>6, <1>7 DEF OnceInv

\* Every step keeps OnceInv.
LEMMA OnceStep == IngestInv /\ OnceInv /\ [Next]_vars => OnceInv'
<1> SUFFICES ASSUME IngestInv, OnceInv, [Next]_vars PROVE OnceInv'
  OBVIOUS
<1>0. tx \in [Worker -> Tx] /\ jobs \in [Worker -> Jobs] /\ NoJobs.reply = {}
  BY DEF IngestInv, TypeOK, NoJobs
<1>1. CASE Next
  <2>1. PICK w \in Worker :
          \/ (\E b \in Batch : Receive(w, b)) \/ (\E p \in Page : FetchPage(w, p))
          \/ Work(w) \/ DbError(w) \/ Crash(w)
    BY <1>1 DEF Next
  <2>2. CASE (\E b \in Batch : Receive(w, b)) \/ (\E p \in Page : FetchPage(w, p)) \/ Respond(w)
    BY <2>2, QuietKeepsOnce DEF Receive, FetchPage, Respond, dbVars, outVars
  <2>3. CASE Fail(w) \/ Finish(w) \/ Crash(w)
    <3>1. tx' = [tx EXCEPT ![w] = EmptyTx] /\ stored' = stored /\ replied' = replied
      BY <2>3 DEF Fail, Finish, Crash, End, dbVars, outVars
    <3>2. jobs' = jobs \/ jobs' = [jobs EXCEPT ![w] = NoJobs]
      BY <2>3 DEF Fail, Finish, Crash
    <3>. QED BY <1>0, <3>1, <3>2, QuietKeepsOnce
  <2>4. CASE \E s \in Sender : RunProfile(w, s) \/ RaiseProfile(w, s)
    <3>1. tx' = tx /\ stored' = stored /\ replied' = replied
      BY <2>4 DEF RunProfile, RaiseProfile, dbVars, outVars
    <3>2. \A v \in Worker : jobs'[v].reply \subseteq jobs[v].reply
      BY <1>0, <2>4 DEF RunProfile, RaiseProfile, Jobs
    <3>. QED BY <3>1, <3>2, QuietKeepsOnce
  <2>5. CASE Statement(w) /\ ~Fail(w)
    BY <2>5, StatementKeepsOnce
  <2>6. CASE Commit(w)
    BY <2>6, CommitKeepsOnce
  <2>7. CASE \E m \in Message : RunReply(w, m)
    BY <2>7, RunReplyKeepsOnce
  <2>. QED
    BY <2>1, <2>2, <2>3, <2>4, <2>5, <2>6, <2>7 DEF Work, Statement, BreakDeadlock, DbError
<1>2. CASE UNCHANGED vars
  BY <1>2, QuietKeepsOnce DEF vars, dbVars, procVars, outVars
<1>. QED BY <1>1, <1>2

\* OnceInv holds at first.
LEMMA OnceInit == Init => OnceInv
BY EmptyTxFacts
   DEF Init, OnceInv, OneInserter, OwedToOwn, OneJob, ReplyOnlyToStored, AnsweredOnce, NoJobs

\* Whatever is delivered how often, to however many workers, and whatever fails
\* in between: run_auto_reply is started at most once per message.
THEOREM RepliesOnce == Spec => []AnsweredOnce
<1>1. OnceInv => AnsweredOnce
  BY DEF OnceInv
<1>. QED BY <1>1, InitKeeps, NextKeeps, OnceInit, OnceStep, PTL DEF Spec

\* A reply job is only ever queued for a customer's message that is committed.
THEOREM RepliesToStored == Spec => []ReplyOnlyToStored
<1>1. OnceInv => ReplyOnlyToStored
  BY DEF OnceInv, OneJob
<1>. QED BY <1>1, InitKeeps, NextKeeps, OnceInit, OnceStep, PTL DEF Spec
=============================================================================
