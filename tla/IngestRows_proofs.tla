------------------------- MODULE IngestRows_proofs --------------------------
(* Theorems about the rows Ingest leaves: chats, leads and numbers,            *)
(* notifications, batches and what was answered.                               *)
EXTENDS IngestQueue_proofs, SequenceTheorems

-----------------------------------------------------------------------------
(* The session after each statement, field by field *)

SameCustomer(new, t) == new.customers = t.customers /\ new.phone = t.phone /\ new.phoneSet = t.phoneSet
SameChat(new, t) ==
  /\ new.fresh = t.fresh /\ new.convos = t.convos
  /\ new.last = t.last /\ new.lastSet = t.lastSet /\ new.notes = t.notes
SameLead(new, t) ==
  new.lead = t.lead /\ new.dirty = t.dirty /\ new.leadSet = t.leadSet /\ new.leadNotes = t.leadNotes
SameMessages(new, t) == new.messages = t.messages /\ new.reply = t.reply

\* What a statement leaves alone.
LEMMA StatementFrame ==
  ASSUME IngestInv, NEW w \in Worker, Statement(w), ~Fail(w)
  PROVE  /\ UNCHANGED <<dbVars, kind, batch, jobs, metaVars, outVars, budgets>>
         /\ \A v \in Worker : v # w => tx'[v] = tx[v] /\ pc'[v] = pc[v] /\ todo'[v] = todo[v]
         /\ tx[w] \in Tx /\ tx'[w] \in Tx
         /\ pc[w] \in TxStep \ {"commit"} /\ pc'[w] \in TxStep
<1>1. PICK new, step : Moves(w, new, step)
  BY StatementMoves
<1>2. /\ tx' = [tx EXCEPT ![w] = new] /\ pc' = [pc EXCEPT ![w] = step] /\ new \in Tx
      /\ UNCHANGED <<dbVars, kind, batch, jobs, metaVars, outVars, budgets>>
      /\ \A v \in Worker : v # w => todo'[v] = todo[v]
  BY <1>1 DEF Moves, Run, Goto
<1>3. tx \in [Worker -> Tx] /\ pc \in [Worker -> Step]
  BY DEF IngestInv, TypeOK
<1>4. pc[w] \in TxStep \ {"commit"}
  BY DEF Statement, Stamp, LoadCustomer, InsertCustomer, LoadConversation, InsertConversation,
         StoreMessage, CaptureLead, FlushEvent, At, TxStep, EventStep
<1>5. pc'[w] \in TxStep
  BY <1>1, <1>2, <1>3 DEF Moves
<1>. QED BY <1>2, <1>3, <1>4, <1>5

\* The event of a worker, its customer and its chat.
LEMMA AtEvent ==
  ASSUME IngestInv, NEW w \in Worker, pc[w] \in EventStep \cup {"stamp"}
  PROVE  /\ Mid(w) \in Message /\ Who(w) \in Sender /\ Who(w) = From[Mid(w)]
         /\ Chat(w) \in Chats /\ Chat(w) = ChatOf(Mid(w)) /\ To[Mid(w)] \in Account
         /\ todo[w] \in Seq(Message) /\ todo[w] # <<>>
         /\ tx[w] \in Tx /\ tx \in [Worker -> Tx] /\ pc \in [Worker -> Step]
BY CurrentEvent DEF IngestInv, TypeOK, Busy, Who, Chat

LEMMA StampEffect ==
  ASSUME IngestInv, NEW w \in Worker, Stamp(w)
  PROVE  /\ pc[w] = "stamp" /\ \A v \in Worker : v # w => To[Mid(w)] \notin tx[v].stamp
         /\ todo' = todo /\ pc'[w] = "customer" /\ tx'[w].stamp = tx[w].stamp \cup {To[Mid(w)]}
         /\ SameCustomer(tx'[w], tx[w]) /\ SameChat(tx'[w], tx[w])
         /\ SameLead(tx'[w], tx[w]) /\ SameMessages(tx'[w], tx[w]) /\ tx'[w].name = tx[w].name
<1>1. tx \in [Worker -> Tx] /\ pc \in [Worker -> Step]
  BY DEF IngestInv, TypeOK
<1>2. pc[w] = "stamp" /\ \A v \in Worker : v # w => To[Mid(w)] \notin tx[v].stamp
  BY DEF Stamp, At, Blockers
<1>. QED
  BY <1>1, <1>2 DEF Stamp, Run, Goto, Tx, SameCustomer, SameChat, SameLead, SameMessages

LEMMA LoadCustomerEffect ==
  ASSUME IngestInv, NEW w \in Worker, LoadCustomer(w)
  PROVE  /\ pc[w] = "customer" /\ todo' = todo /\ tx'[w].stamp = tx[w].stamp
         /\ SameChat(tx'[w], tx[w]) /\ SameLead(tx'[w], tx[w]) /\ SameMessages(tx'[w], tx[w])
         /\ tx'[w].customers = tx[w].customers /\ tx'[w].phoneSet = tx[w].phoneSet
         /\ tx'[w].name = tx[w].name
         /\ \/ /\ pc'[w] = "conversation" /\ Who(w) \in customers \cup tx[w].customers
               /\ tx'[w].phone = [tx[w].phone EXCEPT ![Who(w)] = PhoneSeen(tx[w], Who(w))]
            \/ /\ pc'[w] = "newCustomer" /\ Who(w) \notin customers \cup tx[w].customers
               /\ tx'[w] = tx[w]
<1>1. tx \in [Worker -> Tx] /\ pc \in [Worker -> Step]
  BY DEF IngestInv, TypeOK
<1>2. pc[w] = "customer" /\ todo' = todo
  BY DEF LoadCustomer, At
<1>3. CASE Who(w) \notin customers \cup tx[w].customers
  BY <1>1, <1>2, <1>3 DEF LoadCustomer, Run, Goto, SameChat, SameLead, SameMessages
<1>4. CASE Who(w) \in customers \cup tx[w].customers
  <2>1. PICK unknown \in NameUnknown(w) :
          Run(w, [tx[w] EXCEPT !.nameless = unknown /\ Who(w) \notin named \cup tx[w].name,
                               !.naming = ~unknown /\ Who(w) \notin named \cup tx[w].name,
                               !.phone[Who(w)] = PhoneSeen(tx[w], Who(w))], "conversation")
    BY <1>4 DEF LoadCustomer
  <2>. QED
    BY <1>1, <1>2, <1>4, <2>1 DEF Run, Goto, Tx, SameChat, SameLead, SameMessages
<1>. QED BY <1>3, <1>4

LEMMA InsertCustomerEffect ==
  ASSUME IngestInv, NEW w \in Worker, InsertCustomer(w), ~Fail(w)
  PROVE  /\ pc[w] = "newCustomer" /\ pc'[w] = "conversation"
         /\ todo' = todo /\ tx'[w].stamp = tx[w].stamp
         /\ SameChat(tx'[w], tx[w]) /\ SameLead(tx'[w], tx[w]) /\ SameMessages(tx'[w], tx[w])
         /\ Who(w) \notin customers /\ \A v \in Worker : v # w => Who(w) \notin tx[v].customers
         /\ tx'[w].customers = tx[w].customers \cup {Who(w)} /\ tx'[w].phoneSet = tx[w].phoneSet
         /\ tx'[w].name \subseteq tx[w].name \cup {Who(w)}
         /\ tx'[w].phone = [tx[w].phone EXCEPT ![Who(w)] = IF Platform = "whatsapp" THEN WaNumber ELSE None]
<1>1. tx \in [Worker -> Tx] /\ pc \in [Worker -> Step]
  BY DEF IngestInv, TypeOK
<1>2. /\ pc[w] = "newCustomer" /\ todo' = todo /\ Who(w) \notin customers
      /\ \A v \in Worker : v # w => Who(w) \notin tx[v].customers
  BY DEF InsertCustomer, At, Blockers
<1>3. PICK unknown \in NameUnknown(w) :
        Run(w, [tx[w] EXCEPT !.nameless = unknown, !.naming = FALSE,
                             !.name = IF unknown THEN @ ELSE @ \cup {Who(w)},
                             !.customers = @ \cup {Who(w)},
                             !.phone[Who(w)] = IF Platform = "whatsapp" THEN WaNumber ELSE None],
            "conversation")
  BY DEF InsertCustomer
<1>. QED
  BY <1>1, <1>2, <1>3 DEF Run, Goto, Tx, SameChat, SameLead, SameMessages

LEMMA LoadConversationEffect ==
  ASSUME IngestInv, NEW w \in Worker, LoadConversation(w)
  PROVE  /\ pc[w] = "conversation" /\ todo' = todo /\ tx'[w].stamp = tx[w].stamp
         /\ SameCustomer(tx'[w], tx[w]) /\ SameLead(tx'[w], tx[w]) /\ SameMessages(tx'[w], tx[w])
         /\ tx'[w].name \subseteq tx[w].name \cup {Who(w)}
         /\ tx'[w].convos = tx[w].convos /\ tx'[w].notes = tx[w].notes /\ tx'[w].lastSet = tx[w].lastSet
         /\ \/ pc'[w] = "message" /\ tx'[w].fresh = FALSE
            \/ /\ pc'[w] = "newConversation" /\ Chat(w) \notin convos \cup tx[w].convos
               /\ SameChat(tx'[w], tx[w])
<1> DEFINE N == IF tx[w].naming THEN tx[w].name \cup {Who(w)} ELSE tx[w].name
           t == [tx[w] EXCEPT !.name = N]
<1>1. tx \in [Worker -> Tx] /\ pc \in [Worker -> Step]
  BY DEF IngestInv, TypeOK
<1>2. pc[w] = "conversation" /\ todo' = todo
  BY DEF LoadConversation, At
<1>3. N \subseteq tx[w].name \cup {Who(w)}
  OBVIOUS
<1>4. t.convos = tx[w].convos /\ SameChat(t, tx[w]) /\ SameCustomer(t, tx[w]) /\ SameLead(t, tx[w])
      /\ SameMessages(t, tx[w]) /\ t.name = N /\ t.stamp = tx[w].stamp
  BY <1>1 DEF Tx, SameChat, SameCustomer, SameLead, SameMessages
<1>5. CASE Chat(w) \notin convos \cup t.convos /\ Run(w, t, "newConversation")
  BY <1>1, <1>2, <1>3, <1>4, <1>5 DEF Run, Goto, SameChat
<1>6. CASE Run(w, [t EXCEPT !.fresh = FALSE, !.last[Chat(w)] = LastSeen(t, Chat(w))], "message")
  <2>1. t \in Tx
    <3>1. N \in SUBSET Sender /\ tx[w] \in Tx
      BY <1>1, <1>2, AtEvent DEF Tx, EventStep
    <3>. QED BY <3>1, NameSession DEF Like
  <2> HIDE DEF t, N
  <2>2. tx'[w] = [t EXCEPT !.fresh = FALSE, !.last[Chat(w)] = LastSeen(t, Chat(w))] /\ pc'[w] = "message"
    BY <1>1, <1>6 DEF Run, Goto
  <2>. QED
    BY <1>2, <1>3, <1>4, <2>1, <2>2 DEF Tx, SameCustomer, SameLead, SameMessages, SameChat
<1>. QED BY <1>5, <1>6 DEF LoadConversation

LEMMA InsertConversationEffect ==
  ASSUME IngestInv, NEW w \in Worker, InsertConversation(w), ~Fail(w)
  PROVE  /\ pc[w] = "newConversation" /\ pc'[w] = "message"
         /\ todo' = todo /\ tx'[w].stamp = tx[w].stamp
         /\ SameCustomer(tx'[w], tx[w]) /\ SameLead(tx'[w], tx[w]) /\ SameMessages(tx'[w], tx[w])
         /\ Chat(w) \notin convos /\ \A v \in Worker : v # w => Chat(w) \notin tx[v].convos
         /\ tx'[w].name = tx[w].name
         /\ tx'[w].fresh = TRUE /\ tx'[w].convos = tx[w].convos \cup {Chat(w)}
         /\ tx'[w].last = tx[w].last /\ tx'[w].lastSet = tx[w].lastSet /\ tx'[w].notes = tx[w].notes
<1>1. tx \in [Worker -> Tx] /\ pc \in [Worker -> Step]
  BY DEF IngestInv, TypeOK
<1>2. /\ pc[w] = "newConversation" /\ todo' = todo /\ Chat(w) \notin convos
      /\ \A v \in Worker : v # w => Chat(w) \notin tx[v].convos
  BY DEF InsertConversation, At, Blockers
<1>3. Run(w, [tx[w] EXCEPT !.fresh = TRUE, !.convos = @ \cup {Chat(w)}], "message")
  BY DEF InsertConversation
<1>. QED
  BY <1>1, <1>2, <1>3 DEF Run, Goto, Tx, SameCustomer, SameLead, SameMessages

LEMMA StoreMessageEffect ==
  ASSUME IngestInv, NEW w \in Worker, StoreMessage(w)
  PROVE  /\ pc[w] = "message" /\ pc'[w] \in {"lead", "flush"}
         /\ pc'[w] = "lead" => PhoneIn[Mid(w)] # None /\ (IsWebhook(w) => Platform # "whatsapp")
         /\ todo' = todo /\ tx'[w].stamp = tx[w].stamp
         /\ SameCustomer(tx'[w], tx[w]) /\ SameLead(tx'[w], tx[w]) /\ tx'[w].name = tx[w].name
         /\ tx'[w].fresh = tx[w].fresh /\ tx'[w].convos = tx[w].convos
         /\ tx'[w].last = tx[w].last /\ tx'[w].lastSet = tx[w].lastSet
         /\ tx'[w].notes = IF Announces(w) THEN tx[w].notes \cup {Chat(w)} ELSE tx[w].notes
         /\ tx'[w].messages = IF IsNew(w) THEN tx[w].messages \cup {Mid(w)} ELSE tx[w].messages
<1>1. tx \in [Worker -> Tx] /\ pc \in [Worker -> Step] /\ kind \in [Worker -> {"webhook", "history"}]
  BY DEF IngestInv, TypeOK
<1>2. pc[w] = "message" /\ todo' = todo
  BY DEF StoreMessage, At
<1>3. pc' = [pc EXCEPT ![w] = IF Captures(w, IsNew(w)) THEN "lead" ELSE "flush"]
  BY DEF StoreMessage, Run, Goto
<1>4. Captures(w, IsNew(w)) => PhoneIn[Mid(w)] # None /\ (IsWebhook(w) => Platform # "whatsapp")
  BY DEF Captures, IsWebhook
<1>5. /\ tx'[w].stamp = tx[w].stamp
      /\ SameCustomer(tx'[w], tx[w]) /\ SameLead(tx'[w], tx[w]) /\ tx'[w].name = tx[w].name
      /\ tx'[w].fresh = tx[w].fresh /\ tx'[w].convos = tx[w].convos
      /\ tx'[w].last = tx[w].last /\ tx'[w].lastSet = tx[w].lastSet
      /\ tx'[w].notes = IF Announces(w) THEN tx[w].notes \cup {Chat(w)} ELSE tx[w].notes
      /\ tx'[w].messages = IF IsNew(w) THEN tx[w].messages \cup {Mid(w)} ELSE tx[w].messages
  BY <1>1 DEF StoreMessage, Run, Tx, SameCustomer, SameLead
<1>. QED BY <1>1, <1>2, <1>3, <1>4, <1>5

LEMMA CaptureLeadEffect ==
  ASSUME IngestInv, NEW w \in Worker, CaptureLead(w)
  PROVE  LET s == Who(w)
             t == tx[w]
             was == LeadSeen(t, s)
         IN  /\ pc[w] = "lead" /\ pc'[w] = "flush" /\ todo' = todo /\ tx'[w].stamp = t.stamp
             /\ SameChat(tx'[w], t) /\ SameMessages(tx'[w], t) /\ tx'[w].name = t.name
             /\ PhoneIn[Mid(w)] # None
             /\ tx'[w].customers = t.customers
             /\ tx'[w].phone = [t.phone EXCEPT ![s] = PhoneIn[Mid(w)]]
             /\ tx'[w].phoneSet = IF PhoneIn[Mid(w)] # t.phone[s] THEN t.phoneSet \cup {s} ELSE t.phoneSet
             /\ tx'[w].leadSet = t.leadSet
             /\ \A c \in Sender : c # s => tx'[w].dirty[c] = t.dirty[c] /\ tx'[w].lead[c] = t.lead[c]
             /\ t.dirty[s] \subseteq tx'[w].dirty[s] /\ tx'[w].lead[s] # None
             /\ "insert" \in tx'[w].dirty[s] <=> was = None \/ "insert" \in t.dirty[s]
             /\ tx'[w].leadNotes = IF AnnouncesLead(w, was) THEN t.leadNotes \cup {s} ELSE t.leadNotes
<1> DEFINE s == Who(w)
           t == tx[w]
           was == LeadSeen(t, s)
           changed == IF was = None THEN {"insert"}
                      ELSE {c \in {"phone"} : was.phone # PhoneIn[Mid(w)]} \cup {c \in {"source"} : was.source # Mid(w)}
           lead == [phone |-> PhoneIn[Mid(w)], source |-> Mid(w)]
<1>1. pc[w] = "lead" /\ todo' = todo
  BY DEF CaptureLead, At
<1>2. tx \in [Worker -> Tx] /\ pc \in [Worker -> Step] /\ s \in Sender /\ Mid(w) \in Message
  BY <1>1, AtEvent DEF EventStep
<1>3. PhoneIn[Mid(w)] # None
  BY <1>1 DEF IngestInv, Busy
<1>4. Run(w, [t EXCEPT !.phone[s] = PhoneIn[Mid(w)],
                       !.phoneSet = IF PhoneIn[Mid(w)] # t.phone[s] THEN @ \cup {s} ELSE @,
                       !.lead[s] = lead,
                       !.dirty[s] = @ \cup changed,
                       !.leadNotes = IF AnnouncesLead(w, was) THEN @ \cup {s} ELSE @], "flush")
  BY DEF CaptureLead
<1> HIDE DEF changed, lead, was
<1>5. /\ tx'[w] = [t EXCEPT !.phone[s] = PhoneIn[Mid(w)],
                            !.phoneSet = IF PhoneIn[Mid(w)] # t.phone[s] THEN @ \cup {s} ELSE @,
                            !.lead[s] = lead,
                            !.dirty[s] = @ \cup changed,
                            !.leadNotes = IF AnnouncesLead(w, was) THEN @ \cup {s} ELSE @]
      /\ pc'[w] = "flush"
  BY <1>2, <1>4 DEF Run, Goto
<1>6. t \in Tx
  BY <1>2
<1>7. /\ SameChat(tx'[w], t) /\ SameMessages(tx'[w], t) /\ tx'[w].stamp = t.stamp /\ tx'[w].name = t.name
      /\ tx'[w].customers = t.customers /\ tx'[w].leadSet = t.leadSet
      /\ tx'[w].phone = [t.phone EXCEPT ![s] = PhoneIn[Mid(w)]]
      /\ tx'[w].phoneSet = IF PhoneIn[Mid(w)] # t.phone[s] THEN t.phoneSet \cup {s} ELSE t.phoneSet
      /\ tx'[w].leadNotes = IF AnnouncesLead(w, was) THEN t.leadNotes \cup {s} ELSE t.leadNotes
      /\ tx'[w].lead = [t.lead EXCEPT ![s] = lead]
      /\ tx'[w].dirty = [t.dirty EXCEPT ![s] = @ \cup changed]
  BY <1>5, <1>6 DEF Tx, SameChat, SameMessages
<1>8. t.lead \in [Sender -> Lead \cup {None}] /\ t.dirty \in [Sender -> SUBSET Column]
  BY <1>6 DEF Tx
<1>9. lead # None
  <2>1. lead \in Lead
    BY <1>2, <1>3, IngestAssumption DEF lead, Lead
  <2>. QED BY <2>1, IngestAssumption
<1>10. "insert" \in changed <=> was = None
  BY DEF changed
<1>. QED BY <1>1, <1>2, <1>3, <1>5, <1>7, <1>8, <1>9, <1>10 DEF was

LEMMA FlushEffect ==
  ASSUME IngestInv, NEW w \in Worker, FlushEvent(w), ~Fail(w)
  PROVE  LET s == Who(w)
             t == tx[w]
         IN  /\ pc[w] = "flush" /\ pc'[w] = AfterMessage(w)
             /\ todo' = [todo EXCEPT ![w] = Tail(@)]
             /\ tx'[w].stamp = t.stamp /\ tx'[w].name = t.name
             /\ SameCustomer(tx'[w], t) /\ SameMessages(tx'[w], t)
             /\ tx'[w].fresh = t.fresh /\ tx'[w].convos = t.convos /\ tx'[w].notes = t.notes
             /\ tx'[w].lastSet \subseteq t.lastSet \cup {Chat(w)}
             /\ tx'[w].lead = t.lead /\ tx'[w].dirty = t.dirty /\ tx'[w].leadNotes = t.leadNotes
             /\ tx'[w].leadSet = IF t.dirty[s] # {} THEN t.leadSet \cup {s} ELSE t.leadSet
             /\ ~("insert" \in t.dirty[s] /\ s \notin t.leadSet /\ leads[s] # None)
             /\ t.dirty[s] # {} => \A v \in Worker : v # w => s \notin tx[v].leadSet
<1> DEFINE s == Who(w)
           t == tx[w]
           c == Chat(w)
           L == IF SortKey(w) # t.last[c] THEN t.lastSet \cup {c} ELSE t.lastSet
<1>1. tx \in [Worker -> Tx] /\ pc \in [Worker -> Step]
  BY DEF IngestInv, TypeOK
<1>2. pc[w] = "flush" /\ (t.dirty[s] # {} => \A v \in Worker : v # w => s \notin tx[v].leadSet)
  BY DEF FlushEvent, At, Blockers
<1>3. /\ ~("insert" \in t.dirty[s] /\ s \notin t.leadSet /\ leads[s] # None)
      /\ Run(w, [t EXCEPT !.last[c] = SortKey(w), !.lastSet = L,
                          !.leadSet = IF t.dirty[s] # {} THEN @ \cup {s} ELSE @],
             AfterMessage(w))
      /\ todo' = [todo EXCEPT ![w] = Tail(@)]
  BY DEF FlushEvent
<1>4. L \subseteq t.lastSet \cup {c}
  OBVIOUS
<1> HIDE DEF L, c, s
<1>5. /\ tx'[w] = [t EXCEPT !.last[c] = SortKey(w), !.lastSet = L,
                            !.leadSet = IF t.dirty[s] # {} THEN @ \cup {s} ELSE @]
      /\ pc'[w] = AfterMessage(w) /\ t \in Tx
  BY <1>1, <1>3 DEF Run, Goto
<1>6. /\ tx'[w].stamp = t.stamp /\ tx'[w].name = t.name
      /\ SameCustomer(tx'[w], t) /\ SameMessages(tx'[w], t)
      /\ tx'[w].fresh = t.fresh /\ tx'[w].convos = t.convos /\ tx'[w].notes = t.notes
      /\ tx'[w].lastSet = L
      /\ tx'[w].lead = t.lead /\ tx'[w].dirty = t.dirty /\ tx'[w].leadNotes = t.leadNotes
      /\ tx'[w].leadSet = IF t.dirty[s] # {} THEN t.leadSet \cup {s} ELSE t.leadSet
  BY <1>5 DEF Tx, SameCustomer, SameMessages
<1>. QED
  BY <1>2, <1>3, <1>4, <1>5, <1>6 DEF s, c

\* Where the worker goes after an event: the sync stays in the thread until it
\* ends, a webhook stamps an account it has not stamped.
LEMMA AfterFlush ==
  ASSUME IngestInv, NEW w \in Worker, FlushEvent(w), ~Fail(w)
  PROVE  /\ pc'[w] \in {"customer", "commit", "message", "stamp"}
         /\ todo'[w] = Tail(todo[w])
         /\ pc'[w] = "commit" => todo'[w] = <<>>
         /\ pc'[w] = "message" => Chat(w)' = Chat(w) /\ Who(w)' = Who(w) /\ ~IsWebhook(w)
         /\ pc'[w] = "stamp" => Stamps /\ To[Mid(w)'] \notin Stamped(w)
         /\ pc'[w] = "customer" => ~Stamps \/ To[Mid(w)'] \in Stamped(w)
<1>1. pc[w] = "flush" /\ pc'[w] = AfterMessage(w) /\ todo' = [todo EXCEPT ![w] = Tail(@)]
  BY FlushEffect
<1>2. todo \in [Worker -> Seq(Message)] /\ todo[w] \in Seq(Message) /\ todo[w] # <<>>
  BY <1>1, AtEvent DEF EventStep, IngestInv, TypeOK
<1>3. todo'[w] = Tail(todo[w]) /\ Mid(w)' = Head(Tail(todo[w]))
  BY <1>1, <1>2 DEF Mid
<1>4. ASSUME pc'[w] = "message"
      PROVE  Chat(w)' = Chat(w) /\ Who(w)' = Who(w) /\ ~IsWebhook(w) /\ ~ThreadEnds(w)
  <2>1. ~IsWebhook(w) /\ ~ThreadEnds(w)
    BY <1>1, <1>4 DEF AfterMessage, AfterEvent
  <2>2. Len(todo[w]) # 1 /\ ChatOf(todo[w][2]) = Chat(w)
    BY <2>1 DEF ThreadEnds
  <2>3. Head(Tail(todo[w])) = todo[w][2]
    <3>1. ASSUME NEW q \in Seq(Message), q # <<>>, Len(q) # 1 PROVE Head(Tail(q)) = q[2]
      <4>1. Len(q) \in Nat /\ Len(q) # 0
        BY <3>1
      <4>2. Len(q) >= 2
        <5>1. \A n \in Nat : n # 0 /\ n # 1 => n >= 2
          OBVIOUS
        <5>. QED BY <3>1, <4>1, <5>1
      <4>3. Tail(q) \in Seq(Message) /\ Len(Tail(q)) = Len(q) - 1 /\ Tail(q)[1] = q[1 + 1]
        BY <3>1, <4>1, <4>2, HeadTailProperties
      <4>. QED BY <4>1, <4>2, <4>3
    <3>. QED BY <1>2, <2>2, <3>1
  <2>4. Chat(w)' = Chat(w)
    BY <1>3, <2>2, <2>3 DEF Chat
  <2>5. Who(w)' = Who(w)
    BY <2>4 DEF Who, Chat, ChatOf
  <2>. QED BY <2>1, <2>4, <2>5
<1>5. CASE pc'[w] = "message"
  BY <1>3, <1>4, <1>5
<1>6. CASE pc'[w] # "message"
  <2>1. pc'[w] = AfterEvent(Tail(todo[w]), Stamped(w))
    BY <1>1, <1>6 DEF AfterMessage
  <2>. QED BY <1>3, <1>6, <2>1 DEF AfterEvent
<1>. QED BY <1>5, <1>6

-----------------------------------------------------------------------------
(* The other steps *)

Same(v) ==
  tx'[v] = tx[v] /\ pc'[v] = pc[v] /\ todo'[v] = todo[v] /\ kind'[v] = kind[v] /\ batch'[v] = batch[v]

Ended(v) == tx'[v] = EmptyTx /\ pc'[v] = "idle" /\ kind'[v] = "webhook"

Started(v) ==
  /\ pc[v] = "idle" /\ tx'[v] = tx[v] /\ todo'[v] = batch'[v]
  /\ \/ /\ batch'[v] \in Batch /\ kind'[v] = kind[v]
        /\ pc'[v] = AfterEvent(batch'[v], {})
     \/ /\ pages < MaxPages /\ Platform # "whatsapp" /\ kind'[v] = "history"
        /\ pc'[v] = AfterEvent(batch'[v], Account)

Responded(v) ==
  /\ pc[v] = "respond" /\ pc'[v] = "background"
  /\ tx'[v] = tx[v] /\ todo'[v] = todo[v] /\ kind'[v] = kind[v] /\ batch'[v] = batch[v]

rows == <<customers, phones, convos, stored, lastAt, leads, notes, leadNotes>>

\* No row is written (but a name), and every session stays or is closed.
Quiet ==
  /\ UNCHANGED rows
  /\ \A v \in Worker : Same(v) \/ Ended(v) \/ Started(v) \/ Responded(v)

\* What the end of a request leaves.
LEMMA EndEffect ==
  ASSUME IngestInv, NEW w \in Worker, End(w)
  PROVE  Ended(w) /\ \A v \in Worker : v # w => Same(v)
<1>1. /\ tx \in [Worker -> Tx] /\ pc \in [Worker -> Step] /\ kind \in [Worker -> {"webhook", "history"}]
      /\ batch \in [Worker -> Seq(Message)] /\ todo \in [Worker -> Seq(Message)]
  BY DEF IngestInv, TypeOK
<1>. QED BY <1>1 DEF End, Goto, Ended, Same

\* The start of a request, from Meta or by the sync.
LEMMA StartIsQuiet ==
  ASSUME IngestInv, NEW w \in Worker,
         (\E b \in Batch : Receive(w, b)) \/ (\E p \in Page : FetchPage(w, p))
  PROVE  Quiet /\ Started(w)
<1>1. /\ tx \in [Worker -> Tx] /\ pc \in [Worker -> Step] /\ kind \in [Worker -> {"webhook", "history"}]
      /\ batch \in [Worker -> Seq(Message)] /\ todo \in [Worker -> Seq(Message)]
  BY DEF IngestInv, TypeOK
<1>2. /\ UNCHANGED rows /\ Started(w)
      /\ \A v \in Worker : v # w => Same(v)
  <2>1. CASE \E b \in Batch : Receive(w, b)
    BY <1>1, <2>1 DEF Receive, Goto, Started, Same, dbVars, rows
  <2>2. CASE \E p \in Page : FetchPage(w, p)
    BY <1>1, <2>2 DEF FetchPage, Goto, Started, Same, dbVars, rows
  <2>. QED BY <2>1, <2>2
<1>. QED BY <1>2 DEF Quiet

\* A row is written by a commit alone.
LEMMA StepKinds ==
  ASSUME IngestInv, [Next]_vars
  PROVE  \/ \E w \in Worker : Statement(w) /\ ~Fail(w)
         \/ \E w \in Worker : Commit(w)
         \/ Quiet
<1>0. /\ tx \in [Worker -> Tx] /\ pc \in [Worker -> Step] /\ kind \in [Worker -> {"webhook", "history"}]
      /\ batch \in [Worker -> Seq(Message)] /\ todo \in [Worker -> Seq(Message)]
  BY DEF IngestInv, TypeOK
<1>1. CASE Next
  <2>1. PICK w \in Worker :
          \/ (\E b \in Batch : Receive(w, b)) \/ (\E p \in Page : FetchPage(w, p))
          \/ Work(w) \/ DbError(w) \/ Crash(w)
    BY <1>1 DEF Next
  <2>2. CASE (\E b \in Batch : Receive(w, b)) \/ (\E p \in Page : FetchPage(w, p))
    BY <2>2, StartIsQuiet
  <2>3. CASE Fail(w) \/ Finish(w) \/ Crash(w)
    <3>1. End(w) /\ UNCHANGED rows
      BY <2>3 DEF Fail, Finish, Crash, dbVars, rows
    <3>. QED BY <3>1, EndEffect DEF Quiet
  <2>4. CASE Respond(w)
    <3>1. UNCHANGED rows /\ Responded(w) /\ \A v \in Worker : v # w => Same(v)
      BY <1>0, <2>4 DEF Respond, Goto, Responded, Same, dbVars, rows
    <3>. QED BY <3>1 DEF Quiet
  <2>5. CASE \/ \E s \in Sender : RunProfile(w, s) \/ RaiseProfile(w, s)
             \/ \E m \in Message : RunReply(w, m)
    BY <2>5 DEF RunProfile, RaiseProfile, RunReply, Quiet, Same, dbVars, rows
  <2>6. CASE Statement(w) /\ ~Fail(w)
    BY <2>6
  <2>7. CASE Commit(w)
    BY <2>7
  <2>. QED
    BY <2>1, <2>2, <2>3, <2>4, <2>5, <2>6, <2>7 DEF Work, Statement, BreakDeadlock, DbError
<1>2. CASE UNCHANGED vars
  BY <1>2 DEF vars, dbVars, procVars, Quiet, Same, rows
<1>. QED BY <1>1, <1>2

LEMMA CommitEffect ==
  ASSUME IngestInv, NEW w \in Worker, Commit(w)
  PROVE  /\ pc[w] = "commit" /\ tx[w] \in Tx /\ LeadOK(tx[w])
         /\ tx'[w] = EmptyTx /\ pc'[w] \in {"respond", "idle"} /\ \A v \in Worker : v # w => Same(v)
<1>1. /\ tx \in [Worker -> Tx] /\ pc \in [Worker -> Step] /\ kind \in [Worker -> {"webhook", "history"}]
      /\ batch \in [Worker -> Seq(Message)] /\ todo \in [Worker -> Seq(Message)] /\ LeadOK(tx[w])
  BY DEF IngestInv, TypeOK, Sessions
<1>2. CASE End(w)
  BY <1>1, <1>2, EndEffect DEF Commit, At, Ended
<1>3. CASE ~End(w)
  BY <1>1, <1>3 DEF Commit, At, Goto, Same
<1>. QED BY <1>2, <1>3

\* The session a request begins with has written nothing.
LEMMA EmptySession ==
  /\ EmptyTx.stamp = {} /\ EmptyTx.fresh = FALSE
  /\ EmptyTx.customers = {} /\ EmptyTx.phoneSet = {} /\ EmptyTx.convos = {} /\ EmptyTx.lastSet = {}
  /\ EmptyTx.messages = {} /\ EmptyTx.leadSet = {} /\ EmptyTx.notes = {} /\ EmptyTx.leadNotes = {}
  /\ EmptyTx.name = {}
  /\ \A s \in Sender : EmptyTx.phone[s] = None /\ EmptyTx.dirty[s] = {}
BY DEF EmptyTx

-----------------------------------------------------------------------------
(* Chats: opened once, announced once *)

AtMessage == {"message", "lead", "flush"}

\* A worker past the message has it, if there is one.
HasMessage(w) == pc[w] \in {"lead", "flush"} => Mid(w) \in Opening \cup stored \cup tx[w].messages

\* A chat is announced by the session that opens it, which nobody else does:
\* uq_open_conversation.
OpensOwn(w) ==
  /\ tx[w].convos \cap convos = {}
  /\ \A v \in Worker : v # w => tx[v].convos \cap tx[w].convos = {}
  /\ tx[w].notes \subseteq tx[w].convos
  /\ pc[w] = "message" /\ IsWebhook(w) /\ tx[w].fresh => Chat(w) \in tx[w].convos

ChatTold == \A c \in Chats : notes[c] <= 1 /\ (notes[c] > 0 => c \in convos)

ChatInv ==
  /\ \A w \in Worker : HasMessage(w) /\ OpensOwn(w)
  /\ ChatTold

LEMMA ChatInit == Init => ChatInv
BY EmptySession DEF Init, ChatInv, HasMessage, OpensOwn, ChatTold

\* Steps that write no row keep it.
LEMMA QuietKeepsChat ==
  ASSUME IngestInv, ChatInv, Quiet
  PROVE  ChatInv'
<1>1. ChatTold'
  BY DEF ChatInv, Quiet, rows, ChatTold
<1>2. \A v \in Worker : tx'[v] = EmptyTx \/ tx'[v] = tx[v]
  BY DEF Quiet, Same, Ended, Started, Responded
<1>3. convos' = convos /\ stored' = stored
  BY DEF Quiet, rows
<1>. SUFFICES ASSUME NEW w \in Worker PROVE HasMessage(w)' /\ OpensOwn(w)'
  BY <1>1 DEF ChatInv
<1>4. CASE Same(w)
  <2>1. Mid(w)' = Mid(w) /\ Chat(w)' = Chat(w) /\ IsWebhook(w)' = IsWebhook(w)
    BY <1>4 DEF Same, Mid, Chat, IsWebhook
  <2>2. HasMessage(w)'
    BY <1>3, <1>4, <2>1 DEF ChatInv, HasMessage, Same
  <2>3. OpensOwn(w)'
    BY <1>2, <1>3, <1>4, <2>1, EmptySession DEF ChatInv, OpensOwn, Same
  <2>. QED BY <2>2, <2>3
<1>5. CASE Ended(w)
  BY <1>5, EmptySession DEF HasMessage, OpensOwn, Ended
<1>6. CASE Started(w) \/ Responded(w)
  <2>1. tx'[w] = tx[w] /\ pc'[w] \notin AtMessage
    BY <1>6 DEF Started, Responded, AtMessage, AfterEvent
  <2>2. HasMessage(w)'
    BY <2>1 DEF HasMessage, AtMessage
  <2>3. OpensOwn(w)'
    BY <1>2, <1>3, <2>1, EmptySession DEF ChatInv, OpensOwn, AtMessage
  <2>. QED BY <2>2, <2>3
<1>. QED BY <1>4, <1>5, <1>6 DEF Quiet

\* The commit of what a session opened and announced.
LEMMA CommitKeepsChat ==
  ASSUME IngestInv, ChatInv, NEW w \in Worker, Commit(w)
  PROVE  ChatInv'
<1> DEFINE t == tx[w]
<1>1. /\ pc[w] = "commit" /\ t \in Tx /\ tx'[w] = EmptyTx /\ pc'[w] \notin AtMessage
      /\ \A v \in Worker : v # w => Same(v)
  BY CommitEffect DEF AtMessage
<1>2. /\ convos' = convos \cup t.convos /\ stored' = stored \cup t.messages
      /\ notes' = [c \in Chats |-> IF c \in t.notes THEN notes[c] + 1 ELSE notes[c]]
  BY DEF Commit
<1>3. OpensOwn(w) /\ ChatTold /\ notes \in [Chats -> Nat]
  BY DEF ChatInv, IngestInv, TypeOK
<1>4. ChatTold'
  <2> SUFFICES ASSUME NEW c \in Chats
               PROVE  notes'[c] <= 1 /\ (notes'[c] > 0 => c \in convos')
    BY DEF ChatTold
  <2>1. CASE c \in t.notes
    <3>1. c \in t.convos /\ c \notin convos
      BY <1>3, <2>1 DEF OpensOwn
    <3>2. notes[c] = 0
      BY <1>3, <3>1 DEF ChatTold
    <3>. QED BY <1>2, <2>1, <3>1, <3>2
  <2>2. CASE c \notin t.notes
    BY <1>2, <1>3, <2>2 DEF ChatTold
  <2>. QED BY <2>1, <2>2
<1>. SUFFICES ASSUME NEW v \in Worker PROVE HasMessage(v)' /\ OpensOwn(v)'
  BY <1>4 DEF ChatInv
<1>6. CASE v = w
  BY <1>1, <1>6, EmptySession DEF HasMessage, OpensOwn, AtMessage
<1>7. CASE v # w
  <2>1. /\ tx'[v] = tx[v] /\ pc'[v] = pc[v] /\ Mid(v)' = Mid(v) /\ Chat(v)' = Chat(v)
        /\ IsWebhook(v)' = IsWebhook(v)
    BY <1>1, <1>7 DEF Same, Mid, Chat, IsWebhook
  <2>2. HasMessage(v) /\ OpensOwn(v)
    BY DEF ChatInv
  <2>3. HasMessage(v)'
    BY <1>2, <2>1, <2>2 DEF HasMessage
  <2>4. OpensOwn(v)'
    <3>1. tx[v].convos \cap convos' = {}
      BY <1>2, <1>3, <1>7, <2>2 DEF OpensOwn
    <3>2. \A u \in Worker : u # v => tx'[u].convos \cap tx'[v].convos = {}
      BY <1>1, <2>1, <2>2, EmptySession DEF OpensOwn, Same
    <3>. QED BY <2>1, <2>2, <3>1, <3>2 DEF OpensOwn
  <2>. QED BY <2>3, <2>4
<1>. QED BY <1>6, <1>7

\* A statement leaves what the others have, and the committed rows.
LEMMA StatementKeepsOthersChat ==
  ASSUME IngestInv, ChatInv, NEW w \in Worker, Statement(w), ~Fail(w), HasMessage(w)', OpensOwn(w)'
  PROVE  ChatInv'
<1>1. /\ UNCHANGED <<convos, stored, notes, kind>>
      /\ \A v \in Worker : v # w => tx'[v] = tx[v] /\ pc'[v] = pc[v] /\ todo'[v] = todo[v]
  BY StatementFrame DEF dbVars
<1>2. ChatTold'
  BY <1>1 DEF ChatInv, ChatTold
<1>3. ASSUME NEW v \in Worker, v # w PROVE HasMessage(v)' /\ OpensOwn(v)'
  <2>1. /\ tx'[v] = tx[v] /\ pc'[v] = pc[v] /\ Mid(v)' = Mid(v) /\ Chat(v)' = Chat(v)
        /\ IsWebhook(v)' = IsWebhook(v)
    BY <1>1, <1>3 DEF Mid, Chat, IsWebhook
  <2>2. HasMessage(v)'
    BY <1>1, <2>1 DEF ChatInv, HasMessage
  <2>3. \A u \in Worker : u # v => tx'[u].convos \cap tx'[v].convos = {}
    <3>1. tx'[w].convos \cap tx'[v].convos = {}
      BY <1>3 DEF OpensOwn
    <3>2. ASSUME NEW u \in Worker, u # v, u # w PROVE tx'[u].convos \cap tx'[v].convos = {}
      BY <1>1, <1>3, <3>2 DEF ChatInv, OpensOwn
    <3>. QED BY <3>1, <3>2
  <2>4. OpensOwn(v)'
    BY <1>1, <2>1, <2>3 DEF ChatInv, OpensOwn
  <2>. QED BY <2>2, <2>4
<1>. QED BY <1>2, <1>3 DEF ChatInv

\* A statement before the conversation, or after the message, but the last.
LEMMA AwayKeepsChat ==
  ASSUME IngestInv, ChatInv, NEW w \in Worker, Statement(w), ~Fail(w), todo' = todo,
         SameChat(tx'[w], tx[w]), SameMessages(tx'[w], tx[w]),
         \/ pc'[w] \notin AtMessage
         \/ pc[w] \in {"lead", "flush"} /\ pc'[w] \in {"lead", "flush"}
  PROVE  ChatInv'
<1>1. UNCHANGED <<convos, stored, kind>> /\ \A v \in Worker : v # w => tx'[v] = tx[v]
  BY StatementFrame DEF dbVars
<1>2. Mid(w)' = Mid(w) /\ HasMessage(w) /\ OpensOwn(w)
  BY DEF Mid, ChatInv
<1>3. HasMessage(w)'
  BY <1>1, <1>2 DEF HasMessage, AtMessage, SameMessages
<1>4. OpensOwn(w)'
  BY <1>1, <1>2 DEF OpensOwn, AtMessage, SameChat
<1>. QED BY <1>3, <1>4, StatementKeepsOthersChat

LEMMA LoadConversationKeepsChat ==
  ASSUME IngestInv, ChatInv, NEW w \in Worker, LoadConversation(w), Statement(w), ~Fail(w)
  PROVE  ChatInv'
<1>1. UNCHANGED <<convos, stored, kind>> /\ \A v \in Worker : v # w => tx'[v] = tx[v]
  BY StatementFrame DEF dbVars
<1>2. /\ tx'[w].convos = tx[w].convos /\ tx'[w].notes = tx[w].notes
      /\ pc'[w] = "newConversation" \/ (pc'[w] = "message" /\ tx'[w].fresh = FALSE)
  BY LoadConversationEffect
<1>3. HasMessage(w)'
  BY <1>2 DEF HasMessage
<1>4. OpensOwn(w)'
  BY <1>1, <1>2 DEF ChatInv, OpensOwn
<1>. QED BY <1>3, <1>4, StatementKeepsOthersChat

LEMMA InsertConversationKeepsChat ==
  ASSUME IngestInv, ChatInv, NEW w \in Worker, InsertConversation(w), Statement(w), ~Fail(w)
  PROVE  ChatInv'
<1> DEFINE t == tx[w]
           c == Chat(w)
<1>1. UNCHANGED <<convos, stored, kind>> /\ \A v \in Worker : v # w => tx'[v] = tx[v]
  BY StatementFrame DEF dbVars
<1>2. /\ pc'[w] = "message" /\ todo' = todo
      /\ c \notin convos /\ \A v \in Worker : v # w => c \notin tx[v].convos
      /\ tx'[w].convos = t.convos \cup {c} /\ tx'[w].notes = t.notes
  BY InsertConversationEffect
<1>3. Chat(w)' = c /\ OpensOwn(w)
  BY <1>2 DEF Mid, Chat, ChatInv
<1>4. HasMessage(w)'
  BY <1>2 DEF HasMessage
<1>5. OpensOwn(w)'
  BY <1>1, <1>2, <1>3 DEF OpensOwn
<1>. QED BY <1>4, <1>5, StatementKeepsOthersChat

LEMMA StoreMessageKeepsChat ==
  ASSUME IngestInv, ChatInv, NEW w \in Worker, StoreMessage(w), Statement(w), ~Fail(w)
  PROVE  ChatInv'
<1> DEFINE t == tx[w]
           c == Chat(w)
<1>1. UNCHANGED <<convos, stored, kind>> /\ \A v \in Worker : v # w => tx'[v] = tx[v]
  BY StatementFrame DEF dbVars
<1>2. /\ pc[w] = "message" /\ pc'[w] \in {"lead", "flush"} /\ todo' = todo
      /\ tx'[w].convos = t.convos
      /\ tx'[w].notes = IF Announces(w) THEN t.notes \cup {c} ELSE t.notes
      /\ tx'[w].messages = IF IsNew(w) THEN t.messages \cup {Mid(w)} ELSE t.messages
  BY StoreMessageEffect
<1>3. Mid(w)' = Mid(w) /\ OpensOwn(w)
  BY <1>2 DEF Mid, ChatInv
<1>4. HasMessage(w)'
  BY <1>1, <1>2, <1>3 DEF HasMessage, IsNew
<1>5. OpensOwn(w)'
  BY <1>1, <1>2, <1>3 DEF OpensOwn, Announces, Inbound
<1>. QED BY <1>4, <1>5, StatementKeepsOthersChat

LEMMA FlushKeepsChat ==
  ASSUME IngestInv, ChatInv, NEW w \in Worker, FlushEvent(w), Statement(w), ~Fail(w)
  PROVE  ChatInv'
<1>1. UNCHANGED <<convos, stored, kind>> /\ \A v \in Worker : v # w => tx'[v] = tx[v]
  BY StatementFrame DEF dbVars
<1>2. /\ tx'[w].fresh = tx[w].fresh /\ tx'[w].convos = tx[w].convos /\ tx'[w].notes = tx[w].notes
  BY FlushEffect
<1>3. /\ pc'[w] \in {"customer", "commit", "message", "stamp"}
      /\ pc'[w] = "message" => ~IsWebhook(w)
  BY AfterFlush
<1>4. HasMessage(w)'
  BY <1>3 DEF HasMessage
<1>5. OpensOwn(w)'
  BY <1>1, <1>2, <1>3 DEF ChatInv, OpensOwn, IsWebhook
<1>. QED BY <1>4, <1>5, StatementKeepsOthersChat

LEMMA ChatStep == IngestInv /\ ChatInv /\ [Next]_vars => ChatInv'
<1> SUFFICES ASSUME IngestInv, ChatInv, [Next]_vars PROVE ChatInv'
  OBVIOUS
<1>1. CASE \E w \in Worker : Statement(w) /\ ~Fail(w)
  <2>1. PICK w \in Worker : Statement(w) /\ ~Fail(w)
    BY <1>1
  <2>2. CASE Stamp(w)
    BY <2>1, <2>2, StampEffect, AwayKeepsChat DEF AtMessage
  <2>3. CASE LoadCustomer(w)
    <3>1. SameChat(tx'[w], tx[w]) /\ SameMessages(tx'[w], tx[w]) /\ todo' = todo
          /\ pc'[w] \notin AtMessage
      BY <2>3, LoadCustomerEffect DEF AtMessage
    <3>. QED BY <2>1, <3>1, AwayKeepsChat
  <2>4. CASE InsertCustomer(w)
    BY <2>1, <2>4, InsertCustomerEffect, AwayKeepsChat DEF AtMessage
  <2>5. CASE LoadConversation(w)
    BY <2>1, <2>5, LoadConversationKeepsChat
  <2>6. CASE InsertConversation(w)
    BY <2>1, <2>6, InsertConversationKeepsChat
  <2>7. CASE StoreMessage(w)
    BY <2>1, <2>7, StoreMessageKeepsChat
  <2>8. CASE CaptureLead(w)
    BY <2>1, <2>8, CaptureLeadEffect, AwayKeepsChat
  <2>9. CASE FlushEvent(w)
    BY <2>1, <2>9, FlushKeepsChat
  <2>. QED
    BY <2>1, <2>2, <2>3, <2>4, <2>5, <2>6, <2>7, <2>8, <2>9 DEF Statement
<1>. QED BY <1>1, StepKinds, QuietKeepsChat, CommitKeepsChat

-----------------------------------------------------------------------------
(* Leads: inserted once, announced once *)

\* A session sees a lead where there is a row or where it has written one.
LEMMA SeesLead ==
  ASSUME TypeOK, NEW t \in Tx, LeadOK(t), NEW s \in Sender
  PROVE  LeadSeen(t, s) = None <=> leads[s] = None /\ s \notin t.leadSet
<1>1. t.lead[s] \in Lead \cup {None} /\ leads[s] \in Lead \cup {None}
  BY DEF Tx, TypeOK
<1>2. CASE s \notin t.leadSet
  BY <1>2 DEF LeadSeen
<1>3. CASE s \in t.leadSet
  <2>1. t.lead[s] # None /\ ("insert" \in t.dirty[s] \/ leads[s] # None)
    BY <1>3 DEF LeadOK
  <2>2. CASE "insert" \in t.dirty[s]
    BY <1>3, <2>1, <2>2 DEF LeadSeen
  <2>3. CASE "insert" \notin t.dirty[s]
    <3>1. LeadSeen(t, s) \in Lead
      BY <1>1, <1>3, <2>1, <2>3 DEF LeadSeen, Lead
    <3>. QED BY <1>3, <3>1, IngestAssumption
  <2>. QED BY <2>2, <2>3
<1>. QED BY <1>2, <1>3

\* A session announces the leads it inserts, and writes a lead by the end of the
\* event; nobody else writes it meanwhile, and nobody else inserted it:
\* uq_sales_lead_customer.
LeadsOwn(w) ==
  \A s \in Sender :
    /\ s \in tx[w].leadNotes => "insert" \in tx[w].dirty[s]
    /\ tx[w].dirty[s] # {} => s \in tx[w].leadSet \/ (pc[w] = "flush" /\ Who(w) = s)
    /\ "insert" \in tx[w].dirty[s] /\ s \in tx[w].leadSet => leads[s] = None
    /\ s \in tx[w].leadSet => \A v \in Worker : v # w => s \notin tx[v].leadSet

LeadTold == \A s \in Sender : leadNotes[s] <= 1 /\ (leadNotes[s] > 0 => leads[s] # None)

LeadInv == (\A w \in Worker : LeadsOwn(w)) /\ LeadTold

LEMMA LeadInit == Init => LeadInv
BY EmptySession DEF Init, LeadInv, LeadsOwn, LeadTold

\* Steps that write no row keep it.
LEMMA QuietKeepsLead ==
  ASSUME IngestInv, LeadInv, Quiet
  PROVE  LeadInv'
<1>1. LeadTold'
  BY DEF LeadInv, Quiet, rows, LeadTold
<1>2. \A v \in Worker : tx'[v] = EmptyTx \/ tx'[v] = tx[v]
  BY DEF Quiet, Same, Ended, Started, Responded
<1>3. leads' = leads
  BY DEF Quiet, rows
<1>. SUFFICES ASSUME NEW w \in Worker PROVE LeadsOwn(w)'
  BY <1>1 DEF LeadInv
<1>4. \A s \in Sender : s \in tx'[w].leadSet => \A v \in Worker : v # w => s \notin tx'[v].leadSet
  BY <1>2, EmptySession DEF LeadInv, LeadsOwn
<1>5. CASE Same(w)
  <2>1. Who(w)' = Who(w)
    BY <1>5 DEF Same, Mid, Who
  <2>. QED BY <1>3, <1>4, <1>5, <2>1 DEF LeadInv, LeadsOwn, Same
<1>6. CASE Ended(w)
  BY <1>6, EmptySession DEF LeadsOwn, Ended
<1>7. CASE Started(w) \/ Responded(w)
  <2>1. tx'[w] = tx[w] /\ pc[w] # "flush"
    BY <1>7 DEF Started, Responded
  <2>. QED BY <1>3, <1>4, <2>1 DEF LeadInv, LeadsOwn
<1>. QED BY <1>5, <1>6, <1>7 DEF Quiet

\* The commit of the leads a session wrote and announced.
LEMMA CommitKeepsLead ==
  ASSUME IngestInv, LeadInv, NEW w \in Worker, Commit(w)
  PROVE  LeadInv'
<1> DEFINE t == tx[w]
<1>1. /\ pc[w] = "commit" /\ t \in Tx /\ LeadOK(t) /\ tx'[w] = EmptyTx /\ TypeOK
      /\ \A v \in Worker : v # w => Same(v)
  BY CommitEffect DEF IngestInv
<1>2. /\ leads' = [s \in Sender |-> LeadSeen(t, s)]
      /\ leadNotes' = [s \in Sender |-> IF s \in t.leadNotes THEN leadNotes[s] + 1 ELSE leadNotes[s]]
  BY DEF Commit
<1>3. LeadsOwn(w) /\ LeadTold /\ leadNotes \in [Sender -> Nat]
  BY <1>1 DEF LeadInv, TypeOK
<1>4. \A s \in Sender : leads'[s] = None <=> leads[s] = None /\ s \notin t.leadSet
  BY <1>1, <1>2, SeesLead
<1>5. LeadTold'
  <2> SUFFICES ASSUME NEW s \in Sender
               PROVE  leadNotes'[s] <= 1 /\ (leadNotes'[s] > 0 => leads'[s] # None)
    BY DEF LeadTold
  <2>1. CASE s \in t.leadNotes
    <3>1. s \in t.leadSet /\ leads[s] = None
      BY <1>1, <1>3, <2>1 DEF LeadsOwn
    <3>2. leadNotes[s] = 0
      BY <1>3, <3>1 DEF LeadTold
    <3>. QED BY <1>2, <1>4, <2>1, <3>1, <3>2
  <2>2. CASE s \notin t.leadNotes
    BY <1>2, <1>3, <1>4, <2>2 DEF LeadTold
  <2>. QED BY <2>1, <2>2
<1>. SUFFICES ASSUME NEW v \in Worker PROVE LeadsOwn(v)'
  BY <1>5 DEF LeadInv
<1>6. CASE v = w
  BY <1>1, <1>6, EmptySession DEF LeadsOwn
<1>7. CASE v # w
  <2>1. tx'[v] = tx[v] /\ pc'[v] = pc[v] /\ Who(v)' = Who(v)
    BY <1>1, <1>7 DEF Same, Mid, Who
  <2>2. \A s \in Sender : s \in tx[v].leadSet => s \notin t.leadSet
    BY <1>7 DEF LeadInv, LeadsOwn
  <2>3. \A s \in Sender : "insert" \in tx[v].dirty[s] /\ s \in tx[v].leadSet => leads'[s] = None
    BY <1>4, <2>2 DEF LeadInv, LeadsOwn
  <2>4. \A s \in Sender : s \in tx[v].leadSet => \A u \in Worker : u # v => s \notin tx'[u].leadSet
    BY <1>1, EmptySession DEF LeadInv, LeadsOwn, Same
  <2>. QED BY <2>1, <2>3, <2>4 DEF LeadInv, LeadsOwn
<1>. QED BY <1>6, <1>7

\* A statement leaves what the others have, and the committed rows.
LEMMA StatementKeepsOthersLead ==
  ASSUME IngestInv, LeadInv, NEW w \in Worker, Statement(w), ~Fail(w), LeadsOwn(w)'
  PROVE  LeadInv'
<1>1. /\ UNCHANGED <<leads, leadNotes>>
      /\ \A v \in Worker : v # w => tx'[v] = tx[v] /\ pc'[v] = pc[v] /\ todo'[v] = todo[v]
  BY StatementFrame DEF dbVars
<1>2. ASSUME NEW v \in Worker, v # w PROVE LeadsOwn(v)'
  <2>1. tx'[v] = tx[v] /\ pc'[v] = pc[v] /\ Who(v)' = Who(v)
    BY <1>1, <1>2 DEF Mid, Who
  <2>2. \A s \in Sender : s \in tx[v].leadSet => \A u \in Worker : u # v => s \notin tx'[u].leadSet
    <3>1. \A s \in Sender : s \in tx[v].leadSet => s \notin tx'[w].leadSet
      BY <1>1, <1>2 DEF LeadsOwn
    <3>. QED BY <1>1, <3>1 DEF LeadInv, LeadsOwn
  <2>. QED BY <1>1, <2>1, <2>2 DEF LeadInv, LeadsOwn
<1>. QED BY <1>1, <1>2 DEF LeadInv, LeadTold

\* A statement that has nothing to do with the lead.
LEMMA AwayKeepsLead ==
  ASSUME IngestInv, LeadInv, NEW w \in Worker, Statement(w), ~Fail(w),
         SameLead(tx'[w], tx[w]), pc[w] # "flush"
  PROVE  LeadInv'
<1>1. UNCHANGED leads /\ \A v \in Worker : v # w => tx'[v] = tx[v]
  BY StatementFrame DEF dbVars
<1>2. LeadsOwn(w)'
  BY <1>1 DEF LeadInv, LeadsOwn, SameLead
<1>. QED BY <1>2, StatementKeepsOthersLead

LEMMA CaptureLeadKeepsLead ==
  ASSUME IngestInv, LeadInv, NEW w \in Worker, CaptureLead(w), Statement(w), ~Fail(w)
  PROVE  LeadInv'
<1> DEFINE t == tx[w]
           s == Who(w)
           was == LeadSeen(t, s)
<1>1. UNCHANGED leads /\ \A v \in Worker : v # w => tx'[v] = tx[v]
  BY StatementFrame DEF dbVars
<1>2. /\ pc[w] = "lead" /\ pc'[w] = "flush" /\ todo' = todo
      /\ tx'[w].leadSet = t.leadSet
      /\ \A c \in Sender : c # s => tx'[w].dirty[c] = t.dirty[c]
      /\ "insert" \in tx'[w].dirty[s] <=> was = None \/ "insert" \in t.dirty[s]
      /\ tx'[w].leadNotes = IF AnnouncesLead(w, was) THEN t.leadNotes \cup {s} ELSE t.leadNotes
  BY CaptureLeadEffect
<1>3. s \in Sender /\ t \in Tx /\ LeadOK(t) /\ TypeOK /\ LeadsOwn(w) /\ Who(w)' = s
  BY <1>2, AtEvent DEF EventStep, IngestInv, Sessions, LeadInv, Mid, Who
<1>4. was = None => leads[s] = None /\ s \notin t.leadSet
  BY <1>3, SeesLead
<1>5. LeadsOwn(w)'
  <2> SUFFICES ASSUME NEW c \in Sender
               PROVE  /\ c \in tx'[w].leadNotes => "insert" \in tx'[w].dirty[c]
                      /\ tx'[w].dirty[c] # {} => c \in tx'[w].leadSet \/ (pc'[w] = "flush" /\ Who(w)' = c)
                      /\ "insert" \in tx'[w].dirty[c] /\ c \in tx'[w].leadSet => leads[c] = None
                      /\ c \in tx'[w].leadSet => \A v \in Worker : v # w => c \notin tx[v].leadSet
    BY <1>1 DEF LeadsOwn
  <2>1. CASE c # s
    BY <1>2, <1>3, <2>1 DEF LeadsOwn
  <2>2. CASE c = s
    BY <1>2, <1>3, <1>4, <2>2 DEF LeadsOwn, AnnouncesLead
  <2>. QED BY <2>1, <2>2
<1>. QED BY <1>5, StatementKeepsOthersLead

LEMMA FlushKeepsLead ==
  ASSUME IngestInv, LeadInv, NEW w \in Worker, FlushEvent(w), Statement(w), ~Fail(w)
  PROVE  LeadInv'
<1> DEFINE t == tx[w]
           s == Who(w)
<1>1. UNCHANGED leads /\ \A v \in Worker : v # w => tx'[v] = tx[v]
  BY StatementFrame DEF dbVars
<1>2. /\ pc[w] = "flush"
      /\ tx'[w].dirty = t.dirty /\ tx'[w].leadNotes = t.leadNotes
      /\ tx'[w].leadSet = IF t.dirty[s] # {} THEN t.leadSet \cup {s} ELSE t.leadSet
      /\ ~("insert" \in t.dirty[s] /\ s \notin t.leadSet /\ leads[s] # None)
      /\ t.dirty[s] # {} => \A v \in Worker : v # w => s \notin tx[v].leadSet
  BY FlushEffect
<1>3. LeadsOwn(w)
  BY DEF LeadInv
<1>4. LeadsOwn(w)'
  BY <1>1, <1>2, <1>3 DEF LeadsOwn
<1>. QED BY <1>4, StatementKeepsOthersLead

LEMMA LeadStep == IngestInv /\ LeadInv /\ [Next]_vars => LeadInv'
<1> SUFFICES ASSUME IngestInv, LeadInv, [Next]_vars PROVE LeadInv'
  OBVIOUS
<1>1. CASE \E w \in Worker : Statement(w) /\ ~Fail(w)
  <2>1. PICK w \in Worker : Statement(w) /\ ~Fail(w)
    BY <1>1
  <2>2. CASE Stamp(w) \/ LoadCustomer(w) \/ InsertCustomer(w)
    <3>1. SameLead(tx'[w], tx[w]) /\ pc[w] # "flush"
      BY <2>1, <2>2, StampEffect, LoadCustomerEffect, InsertCustomerEffect
    <3>. QED BY <2>1, <3>1, AwayKeepsLead
  <2>3. CASE LoadConversation(w) \/ InsertConversation(w) \/ StoreMessage(w)
    <3>1. SameLead(tx'[w], tx[w]) /\ pc[w] # "flush"
      BY <2>1, <2>3, LoadConversationEffect, InsertConversationEffect, StoreMessageEffect
    <3>. QED BY <2>1, <3>1, AwayKeepsLead
  <2>4. CASE CaptureLead(w)
    BY <2>1, <2>4, CaptureLeadKeepsLead
  <2>5. CASE FlushEvent(w)
    BY <2>1, <2>5, FlushKeepsLead
  <2>. QED BY <2>1, <2>2, <2>3, <2>4, <2>5 DEF Statement
<1>. QED BY <1>1, StepKinds, QuietKeepsLead, CommitKeepsLead

\* Staff hear at most once of a new chat and of a new lead, for any number of
\* requests and syncs at once, deliveries, failed statements and crashes.
THEOREM StaffToldOnce == Spec => []ToldOnce
<1>1. ChatInv /\ LeadInv => ToldOnce
  BY DEF ChatInv, LeadInv, ChatTold, LeadTold, ToldOnce
<1>. QED
  BY <1>1, InitKeeps, NextKeeps, ChatInit, ChatStep, LeadInit, LeadStep, PTL DEF Spec

-----------------------------------------------------------------------------
(* Without syncs and echoes, every new chat is announced *)

AllWebhooks == \A w \in Worker : IsWebhook(w)

\* Where no page is fetched, every request is a webhook.
LEMMA WebhooksStep ==
  ASSUME MaxPages = 0 \/ Platform = "whatsapp", IngestInv, AllWebhooks, [Next]_vars
  PROVE  AllWebhooks'
<1>1. pages \in Nat /\ kind \in [Worker -> {"webhook", "history"}]
  BY DEF IngestInv, TypeOK
<1>2. CASE \E w \in Worker : Statement(w) /\ ~Fail(w)
  BY <1>2, StatementFrame DEF AllWebhooks, IsWebhook
<1>3. CASE \E w \in Worker : Commit(w)
  BY <1>1, <1>3 DEF Commit, End, AllWebhooks, IsWebhook
<1>4. CASE Quiet
  <2>1. ~(pages < MaxPages /\ Platform # "whatsapp")
    BY <1>1
  <2>. QED BY <1>4, <2>1 DEF Quiet, Same, Ended, Started, Responded, AllWebhooks, IsWebhook
<1>. QED BY <1>2, <1>3, <1>4, StepKinds

\* A session announces each chat it opens, at the chat's first event.
AnnouncesOwn(w) ==
  \A s \in tx[w].convos :
    s \in tx[w].notes \/ (pc[w] = "message" /\ tx[w].fresh /\ Chat(w) = s)

AnnounceInv == AllWebhooks /\ NewChatAnnounced /\ \A w \in Worker : AnnouncesOwn(w)

LEMMA AnnounceInit == Init => AnnounceInv
BY EmptySession DEF Init, AnnounceInv, AllWebhooks, IsWebhook, NewChatAnnounced, AnnouncesOwn

LEMMA StatementKeepsAnnounced ==
  ASSUME Echo = {}, IngestInv, AnnounceInv, NEW w \in Worker, Statement(w), ~Fail(w)
  PROVE  NewChatAnnounced' /\ \A v \in Worker : AnnouncesOwn(v)'
<1>1. /\ UNCHANGED <<convos, notes>>
      /\ \A v \in Worker : v # w => tx'[v] = tx[v] /\ pc'[v] = pc[v] /\ todo'[v] = todo[v]
  BY StatementFrame DEF dbVars
<1>2. NewChatAnnounced'
  BY <1>1 DEF AnnounceInv, NewChatAnnounced
<1>3. \A v \in Worker : v # w => AnnouncesOwn(v)'
  BY <1>1 DEF AnnounceInv, AnnouncesOwn, Mid, Chat
<1>4. AnnouncesOwn(w)'
  <2>1. ASSUME SameChat(tx'[w], tx[w]), pc[w] # "message" PROVE AnnouncesOwn(w)'
    BY <2>1 DEF AnnounceInv, AnnouncesOwn, SameChat
  <2>2. CASE Stamp(w) \/ LoadCustomer(w) \/ InsertCustomer(w) \/ CaptureLead(w)
    <3>1. SameChat(tx'[w], tx[w]) /\ pc[w] # "message"
      BY <2>2, StampEffect, LoadCustomerEffect, InsertCustomerEffect, CaptureLeadEffect
    <3>. QED BY <2>1, <3>1
  <2>3. CASE LoadConversation(w)
    <3>1. pc[w] = "conversation" /\ tx'[w].convos = tx[w].convos /\ tx'[w].notes = tx[w].notes
      BY <2>3, LoadConversationEffect
    <3>. QED BY <3>1 DEF AnnounceInv, AnnouncesOwn
  <2>4. CASE InsertConversation(w)
    <3>1. /\ pc[w] = "newConversation" /\ pc'[w] = "message" /\ tx'[w].fresh /\ todo' = todo
          /\ tx'[w].convos = tx[w].convos \cup {Chat(w)} /\ tx'[w].notes = tx[w].notes
      BY <2>4, InsertConversationEffect
    <3>. QED BY <3>1 DEF AnnounceInv, AnnouncesOwn, Mid, Chat
  <2>5. CASE StoreMessage(w)
    <3>1. /\ tx'[w].convos = tx[w].convos
          /\ tx'[w].notes = IF Announces(w) THEN tx[w].notes \cup {Chat(w)} ELSE tx[w].notes
      BY <2>5, StoreMessageEffect
    <3>2. Announces(w) <=> tx[w].fresh
      BY DEF AnnounceInv, AllWebhooks, Announces, Inbound
    <3>. QED BY <3>1, <3>2 DEF AnnounceInv, AnnouncesOwn
  <2>6. CASE FlushEvent(w)
    <3>1. pc[w] = "flush" /\ tx'[w].convos = tx[w].convos /\ tx'[w].notes = tx[w].notes
      BY <2>6, FlushEffect
    <3>. QED BY <3>1 DEF AnnounceInv, AnnouncesOwn
  <2>. QED BY <2>2, <2>3, <2>4, <2>5, <2>6 DEF Statement
<1>. QED BY <1>2, <1>3, <1>4

LEMMA CommitKeepsAnnounced ==
  ASSUME IngestInv, ChatInv, AnnounceInv, NEW w \in Worker, Commit(w)
  PROVE  NewChatAnnounced' /\ \A v \in Worker : AnnouncesOwn(v)'
<1> DEFINE t == tx[w]
<1>1. pc[w] = "commit" /\ t \in Tx /\ tx'[w] = EmptyTx /\ \A v \in Worker : v # w => Same(v)
  BY CommitEffect
<1>2. /\ convos' = convos \cup t.convos
      /\ notes' = [c \in Chats |-> IF c \in t.notes THEN notes[c] + 1 ELSE notes[c]]
  BY DEF Commit
<1>3. t.notes \subseteq t.convos /\ t.convos \cap convos = {} /\ ChatTold /\ notes \in [Chats -> Nat]
  BY DEF ChatInv, OpensOwn, IngestInv, TypeOK
<1>4. NewChatAnnounced'
  <2> SUFFICES ASSUME NEW s \in Chats PROVE s \in convos' <=> notes'[s] = 1
    BY DEF NewChatAnnounced
  <2>1. CASE s \in t.convos
    <3>1. s \in t.notes /\ s \notin convos
      BY <1>1, <1>3, <2>1 DEF AnnounceInv, AnnouncesOwn
    <3>2. notes[s] = 0
      BY <1>3, <3>1 DEF ChatTold
    <3>. QED BY <1>2, <2>1, <3>1, <3>2
  <2>2. CASE s \notin t.convos
    BY <1>2, <1>3, <2>2 DEF AnnounceInv, NewChatAnnounced
  <2>. QED BY <2>1, <2>2
<1>5. AnnouncesOwn(w)'
  BY <1>1, EmptySession DEF AnnouncesOwn
<1>6. \A v \in Worker : v # w => AnnouncesOwn(v)'
  BY <1>1 DEF AnnounceInv, AnnouncesOwn, Same, Mid, Chat
<1>. QED BY <1>4, <1>5, <1>6

LEMMA QuietKeepsAnnounced ==
  ASSUME IngestInv, AnnounceInv, Quiet
  PROVE  NewChatAnnounced' /\ \A v \in Worker : AnnouncesOwn(v)'
<1>1. NewChatAnnounced'
  BY DEF AnnounceInv, NewChatAnnounced, Quiet, rows
<1>2. ASSUME NEW v \in Worker PROVE AnnouncesOwn(v)'
  <2>1. CASE Same(v)
    BY <2>1 DEF AnnounceInv, AnnouncesOwn, Same, Mid, Chat
  <2>2. CASE Ended(v)
    BY <2>2, EmptySession DEF AnnouncesOwn, Ended
  <2>3. CASE Started(v) \/ Responded(v)
    BY <2>3 DEF AnnounceInv, AnnouncesOwn, Started, Responded
  <2>. QED BY <2>1, <2>2, <2>3 DEF Quiet
<1>. QED BY <1>1, <1>2

\* Where no message is an echo and no sync opens chats silently, staff hear of
\* every chat that exists, exactly once, whatever requests race to open it.
THEOREM NewChatsAnnounced ==
  ASSUME Echo = {}, MaxPages = 0
  PROVE  Spec => []NewChatAnnounced
<1>1. IngestInv /\ ChatInv /\ AnnounceInv /\ [Next]_vars => AnnounceInv'
  <2> SUFFICES ASSUME IngestInv, ChatInv, AnnounceInv, [Next]_vars PROVE AnnounceInv'
    OBVIOUS
  <2>1. AllWebhooks'
    BY WebhooksStep DEF AnnounceInv
  <2>. QED
    BY <2>1, StepKinds, StatementKeepsAnnounced, CommitKeepsAnnounced, QuietKeepsAnnounced DEF AnnounceInv
<1>2. AnnounceInv => NewChatAnnounced
  BY DEF AnnounceInv
<1>. QED
  BY <1>1, <1>2, InitKeeps, NextKeeps, ChatInit, ChatStep, AnnounceInit, PTL DEF Spec

-----------------------------------------------------------------------------
(* Numbers and leads: off WhatsApp, a number comes with a lead *)

AtCustomer == {"conversation", "newConversation", "message", "lead", "flush"}

\* A session inserts the customer it is on if nobody has: uq_customer_external_user.
CustomersOwn(w) ==
  /\ tx[w].customers \cap customers = {}
  /\ \A v \in Worker : v # w => tx[v].customers \cap tx[w].customers = {}
  /\ pc[w] = "newCustomer" => Who(w) \notin tx[w].customers
  /\ pc[w] \in AtCustomer => Who(w) \in customers \cup tx[w].customers

\* A session's numbers and leads are of customers it has; a number it has loaded
\* or will write is one, and it writes a number with a lead and a lead with one.
NumbersOwn(w) ==
  LET t == tx[w]
  IN  \A s \in Sender :
        /\ s \in t.phoneSet \/ t.dirty[s] # {} => s \in customers \cup t.customers
        /\ s \in t.phoneSet => t.phone[s] # None /\ (leads[s] # None \/ t.dirty[s] # {})
        /\ s \in t.customers /\ s \notin t.phoneSet => t.phone[s] = None
        /\ t.phone[s] # None => s \in t.phoneSet \/ phones[s] # None
        /\ t.dirty[s] # {} => s \in t.phoneSet \/ phones[s] # None

LeadsOfCustomers == \A s \in Sender : leads[s] # None => s \in customers

NumberInv ==
  /\ \A w \in Worker : CustomersOwn(w) /\ NumbersOwn(w)
  /\ LeadsOfCustomers /\ NumberMeansLead

LEMMA NumberInit == Init => NumberInv
<1> SUFFICES ASSUME Init PROVE NumberInv
  OBVIOUS
<1>1. \A w \in Worker : tx[w] = EmptyTx /\ pc[w] = "idle"
  BY DEF Init
<1>2. \A s \in Sender : phones[s] = None /\ leads[s] = None
  BY DEF Init
<1>3. \A w \in Worker : CustomersOwn(w)
  BY <1>1, EmptySession DEF CustomersOwn, AtCustomer
<1>4. \A w \in Worker : NumbersOwn(w)
  BY <1>1, EmptySession DEF NumbersOwn
<1>. QED BY <1>2, <1>3, <1>4 DEF NumberInv, LeadsOfCustomers, NumberMeansLead

\* Steps that write no row keep it.
LEMMA QuietKeepsNumber ==
  ASSUME IngestInv, NumberInv, Quiet
  PROVE  NumberInv'
<1>1. LeadsOfCustomers' /\ NumberMeansLead'
  BY DEF NumberInv, Quiet, rows, LeadsOfCustomers, NumberMeansLead
<1>2. \A v \in Worker : tx'[v] = EmptyTx \/ tx'[v] = tx[v]
  BY DEF Quiet, Same, Ended, Started, Responded
<1>3. UNCHANGED <<customers, phones, leads>>
  BY DEF Quiet, rows
<1>. SUFFICES ASSUME NEW w \in Worker PROVE CustomersOwn(w)' /\ NumbersOwn(w)'
  BY <1>1 DEF NumberInv
<1>4. CASE tx'[w] = EmptyTx /\ ~Same(w)
  <2>1. pc'[w] # "newCustomer" /\ pc'[w] \notin AtCustomer
    BY <1>4 DEF Quiet, Ended, Started, Responded, AfterEvent, AtCustomer
  <2>2. CustomersOwn(w)'
    BY <1>4, <2>1, EmptySession DEF CustomersOwn
  <2>3. NumbersOwn(w)'
    BY <1>4, EmptySession DEF NumbersOwn
  <2>. QED BY <2>2, <2>3
<1>5. CASE tx'[w] = tx[w]
  <2>1. \/ pc'[w] = pc[w] /\ Who(w)' = Who(w)
        \/ pc'[w] # "newCustomer" /\ pc'[w] \notin AtCustomer
    BY DEF Quiet, Same, Ended, Started, Responded, AfterEvent, AtCustomer, Mid, Who
  <2>2. CustomersOwn(w)'
    BY <1>2, <1>3, <1>5, <2>1, EmptySession DEF NumberInv, CustomersOwn
  <2>3. NumbersOwn(w)'
    BY <1>3, <1>5 DEF NumberInv, NumbersOwn
  <2>. QED BY <2>2, <2>3
<1>. QED BY <1>2, <1>4, <1>5 DEF Same

\* The commit of the numbers and leads a session wrote.
LEMMA CommitKeepsNumber ==
  ASSUME IngestInv, LeadInv, NumberInv, NEW w \in Worker, Commit(w)
  PROVE  NumberInv'
<1> DEFINE t == tx[w]
<1>1. /\ pc[w] = "commit" /\ t \in Tx /\ LeadOK(t) /\ tx'[w] = EmptyTx /\ TypeOK
      /\ pc'[w] # "newCustomer" /\ pc'[w] \notin AtCustomer
      /\ \A v \in Worker : v # w => Same(v)
  BY CommitEffect DEF IngestInv, AtCustomer
<1>2. /\ customers' = customers \cup t.customers
      /\ phones' = [s \in Sender |-> PhoneSeen(t, s)]
      /\ leads' = [s \in Sender |-> LeadSeen(t, s)]
  BY DEF Commit
<1>3. LeadsOwn(w) /\ CustomersOwn(w) /\ NumbersOwn(w) /\ LeadsOfCustomers /\ NumberMeansLead
  BY DEF LeadInv, NumberInv
<1>4. \A s \in Sender : leads'[s] # None <=> leads[s] # None \/ t.dirty[s] # {}
  <2>1. \A s \in Sender : leads'[s] = None <=> leads[s] = None /\ s \notin t.leadSet
    BY <1>1, <1>2, SeesLead
  <2>2. \A s \in Sender : s \in t.leadSet <=> t.dirty[s] # {}
    BY <1>1, <1>3 DEF LeadOK, LeadsOwn
  <2>. QED BY <2>1, <2>2
<1>5. NumberMeansLead'
  <2> SUFFICES ASSUME NEW s \in Sender PROVE phones'[s] # None <=> leads'[s] # None
    BY DEF NumberMeansLead
  <2>1. phones'[s] = PhoneSeen(t, s)
    BY <1>2
  <2>2. CASE s \in t.phoneSet
    BY <1>3, <1>4, <2>1, <2>2 DEF NumbersOwn, PhoneSeen
  <2>3. CASE s \in t.customers /\ s \notin t.phoneSet
    <3>1. phones'[s] = None
      BY <1>3, <2>1, <2>3 DEF NumbersOwn, PhoneSeen
    <3>2. leads[s] = None /\ phones[s] = None
      BY <1>3, <2>3 DEF CustomersOwn, LeadsOfCustomers, NumberMeansLead
    <3>3. t.dirty[s] = {}
      BY <1>3, <2>3, <3>2 DEF NumbersOwn
    <3>. QED BY <1>4, <3>1, <3>2, <3>3
  <2>4. CASE s \notin t.customers \cup t.phoneSet
    <3>1. phones'[s] = phones[s]
      BY <2>1, <2>4 DEF PhoneSeen
    <3>2. t.dirty[s] # {} => phones[s] # None
      BY <1>3, <2>4 DEF NumbersOwn
    <3>. QED BY <1>3, <1>4, <3>1, <3>2 DEF NumberMeansLead
  <2>. QED BY <2>2, <2>3, <2>4
<1>6. LeadsOfCustomers'
  BY <1>2, <1>3, <1>4 DEF LeadsOfCustomers, NumbersOwn
<1>7. \A s \in Sender : phones[s] # None => phones'[s] # None
  BY <1>3, <1>4, <1>5 DEF NumberMeansLead
<1>. SUFFICES ASSUME NEW v \in Worker PROVE CustomersOwn(v)' /\ NumbersOwn(v)'
  BY <1>5, <1>6 DEF NumberInv
<1>8. CASE v = w
  <2>1. CustomersOwn(v)'
    BY <1>1, <1>8, EmptySession DEF CustomersOwn
  <2>2. NumbersOwn(v)'
    BY <1>1, <1>8, EmptySession DEF NumbersOwn
  <2>. QED BY <2>1, <2>2
<1>9. CASE v # w
  <2>1. tx'[v] = tx[v] /\ pc'[v] = pc[v] /\ Who(v)' = Who(v)
    BY <1>1, <1>9 DEF Same, Mid, Who
  <2>2. CustomersOwn(v) /\ NumbersOwn(v)
    BY DEF NumberInv
  <2>3. CustomersOwn(v)'
    <3>1. tx[v].customers \cap customers' = {}
      BY <1>2, <1>3, <1>9, <2>2 DEF CustomersOwn
    <3>2. \A u \in Worker : u # v => tx'[u].customers \cap tx[v].customers = {}
      BY <1>1, <2>2, EmptySession DEF CustomersOwn, Same
    <3>. QED BY <1>2, <2>1, <2>2, <3>1, <3>2 DEF CustomersOwn
  <2>4. NumbersOwn(v)'
    BY <1>2, <1>4, <1>7, <2>1, <2>2 DEF NumbersOwn
  <2>. QED BY <2>3, <2>4
<1>. QED BY <1>8, <1>9

\* A statement leaves what the others have, and the committed rows.
LEMMA StatementKeepsOthersNumber ==
  ASSUME IngestInv, NumberInv, NEW w \in Worker, Statement(w), ~Fail(w),
         CustomersOwn(w)', NumbersOwn(w)'
  PROVE  NumberInv'
<1>1. /\ UNCHANGED <<customers, phones, leads>>
      /\ \A v \in Worker : v # w => tx'[v] = tx[v] /\ pc'[v] = pc[v] /\ todo'[v] = todo[v]
  BY StatementFrame DEF dbVars
<1>2. LeadsOfCustomers' /\ NumberMeansLead'
  BY <1>1 DEF NumberInv, LeadsOfCustomers, NumberMeansLead
<1>3. ASSUME NEW v \in Worker, v # w PROVE CustomersOwn(v)' /\ NumbersOwn(v)'
  <2>1. tx'[v] = tx[v] /\ pc'[v] = pc[v] /\ Who(v)' = Who(v)
    BY <1>1, <1>3 DEF Mid, Who
  <2>2. NumbersOwn(v)'
    BY <1>1, <2>1 DEF NumberInv, NumbersOwn
  <2>3. \A u \in Worker : u # v => tx'[u].customers \cap tx'[v].customers = {}
    <3>1. tx'[w].customers \cap tx'[v].customers = {}
      BY <1>3 DEF CustomersOwn
    <3>2. ASSUME NEW u \in Worker, u # v, u # w PROVE tx'[u].customers \cap tx'[v].customers = {}
      BY <1>1, <1>3, <3>2 DEF NumberInv, CustomersOwn
    <3>. QED BY <3>1, <3>2
  <2>4. CustomersOwn(v)'
    BY <1>1, <2>1, <2>3 DEF NumberInv, CustomersOwn
  <2>. QED BY <2>2, <2>4
<1>. QED BY <1>2, <1>3 DEF NumberInv

\* A statement that writes neither a customer nor a lead.
LEMMA AwayKeepsNumber ==
  ASSUME IngestInv, NumberInv, NEW w \in Worker, Statement(w), ~Fail(w),
         SameCustomer(tx'[w], tx[w]), tx'[w].dirty = tx[w].dirty, pc'[w] # "newCustomer",
         \/ pc'[w] \notin AtCustomer
         \/ pc[w] \in AtCustomer /\ Who(w)' = Who(w)
  PROVE  NumberInv'
<1>1. /\ UNCHANGED <<customers, phones, leads>>
      /\ \A v \in Worker : v # w => tx'[v] = tx[v]
  BY StatementFrame DEF dbVars
<1>2. CustomersOwn(w)'
  BY <1>1 DEF NumberInv, CustomersOwn, SameCustomer
<1>3. NumbersOwn(w)'
  BY <1>1 DEF NumberInv, NumbersOwn, SameCustomer
<1>. QED BY <1>2, <1>3, StatementKeepsOthersNumber

LEMMA LoadCustomerKeepsNumber ==
  ASSUME IngestInv, NumberInv, NEW w \in Worker, LoadCustomer(w), Statement(w), ~Fail(w)
  PROVE  NumberInv'
<1> DEFINE t == tx[w]
           s == Who(w)
<1>1. /\ UNCHANGED <<customers, phones, leads>>
      /\ \A v \in Worker : v # w => tx'[v] = tx[v]
  BY StatementFrame DEF dbVars
<1>2. /\ pc[w] = "customer" /\ todo' = todo /\ SameLead(tx'[w], t)
      /\ tx'[w].customers = t.customers /\ tx'[w].phoneSet = t.phoneSet
      /\ \/ /\ pc'[w] = "conversation" /\ s \in customers \cup t.customers
            /\ tx'[w].phone = [t.phone EXCEPT ![s] = PhoneSeen(t, s)]
         \/ /\ pc'[w] = "newCustomer" /\ s \notin customers \cup t.customers
            /\ tx'[w] = t
  BY LoadCustomerEffect
<1>3. Who(w)' = s /\ s \in Sender /\ t.phone \in [Sender -> Phone \cup {None, WaNumber}]
  BY <1>2, AtEvent DEF EventStep, Mid, Who, Tx
<1>4. CustomersOwn(w) /\ NumbersOwn(w)
  BY DEF NumberInv
<1>5. CustomersOwn(w)'
  BY <1>1, <1>2, <1>3, <1>4 DEF CustomersOwn, AtCustomer
<1>6. NumbersOwn(w)'
  <2>1. CASE tx'[w] = t
    BY <1>1, <1>4, <2>1 DEF NumbersOwn
  <2>2. CASE tx'[w].phone = [t.phone EXCEPT ![s] = PhoneSeen(t, s)]
    <3> SUFFICES ASSUME NEW c \in Sender
                 PROVE  /\ c \in t.phoneSet \/ t.dirty[c] # {} => c \in customers \cup t.customers
                        /\ c \in t.phoneSet => tx'[w].phone[c] # None /\ (leads[c] # None \/ t.dirty[c] # {})
                        /\ c \in t.customers /\ c \notin t.phoneSet => tx'[w].phone[c] = None
                        /\ tx'[w].phone[c] # None => c \in t.phoneSet \/ phones[c] # None
                        /\ t.dirty[c] # {} => c \in t.phoneSet \/ phones[c] # None
      BY <1>1, <1>2 DEF NumbersOwn, SameLead
    <3>1. CASE c # s
      BY <1>3, <1>4, <2>2, <3>1 DEF NumbersOwn
    <3>2. CASE c = s
      <4>1. tx'[w].phone[c] = PhoneSeen(t, s)
        BY <1>3, <2>2, <3>2
      <4>. QED BY <1>4, <3>2, <4>1 DEF NumbersOwn, PhoneSeen
    <3>. QED BY <3>1, <3>2
  <2>. QED BY <1>2, <2>1, <2>2
<1>. QED BY <1>5, <1>6, StatementKeepsOthersNumber

LEMMA InsertCustomerKeepsNumber ==
  ASSUME Platform # "whatsapp", IngestInv, NumberInv,
         NEW w \in Worker, InsertCustomer(w), Statement(w), ~Fail(w)
  PROVE  NumberInv'
<1> DEFINE t == tx[w]
           s == Who(w)
<1>1. /\ UNCHANGED <<customers, phones, leads>>
      /\ \A v \in Worker : v # w => tx'[v] = tx[v]
  BY StatementFrame DEF dbVars
<1>2. /\ pc[w] = "newCustomer" /\ pc'[w] = "conversation" /\ todo' = todo /\ SameLead(tx'[w], t)
      /\ s \notin customers /\ \A v \in Worker : v # w => s \notin tx[v].customers
      /\ tx'[w].customers = t.customers \cup {s} /\ tx'[w].phoneSet = t.phoneSet
      /\ tx'[w].phone = [t.phone EXCEPT ![s] = None]
  BY InsertCustomerEffect
<1>3. Who(w)' = s /\ s \in Sender /\ t.phone \in [Sender -> Phone \cup {None, WaNumber}]
  BY <1>2, AtEvent DEF EventStep, Mid, Who, Tx
<1>4. CustomersOwn(w) /\ NumbersOwn(w) /\ s \notin t.customers
  BY <1>2 DEF NumberInv, CustomersOwn
<1>5. CustomersOwn(w)'
  BY <1>1, <1>2, <1>3, <1>4 DEF CustomersOwn
<1>6. NumbersOwn(w)'
  <2> SUFFICES ASSUME NEW c \in Sender
               PROVE  /\ c \in t.phoneSet \/ t.dirty[c] # {} => c \in customers \cup tx'[w].customers
                      /\ c \in t.phoneSet => tx'[w].phone[c] # None /\ (leads[c] # None \/ t.dirty[c] # {})
                      /\ c \in tx'[w].customers /\ c \notin t.phoneSet => tx'[w].phone[c] = None
                      /\ tx'[w].phone[c] # None => c \in t.phoneSet \/ phones[c] # None
                      /\ t.dirty[c] # {} => c \in t.phoneSet \/ phones[c] # None
    BY <1>1, <1>2 DEF NumbersOwn, SameLead
  <2>1. CASE c # s
    BY <1>2, <1>3, <1>4, <2>1 DEF NumbersOwn
  <2>2. CASE c = s
    BY <1>2, <1>3, <1>4, <2>2 DEF NumbersOwn
  <2>. QED BY <2>1, <2>2
<1>. QED BY <1>5, <1>6, StatementKeepsOthersNumber

LEMMA CaptureLeadKeepsNumber ==
  ASSUME IngestInv, LeadInv, NumberInv, NEW w \in Worker, CaptureLead(w), Statement(w), ~Fail(w)
  PROVE  NumberInv'
<1> DEFINE t == tx[w]
           s == Who(w)
           p == PhoneIn[Mid(w)]
<1>1. /\ UNCHANGED <<customers, phones, leads>>
      /\ \A v \in Worker : v # w => tx'[v] = tx[v]
  BY StatementFrame DEF dbVars
<1>2. /\ pc[w] = "lead" /\ pc'[w] = "flush" /\ todo' = todo /\ p # None
      /\ tx'[w].customers = t.customers
      /\ tx'[w].phone = [t.phone EXCEPT ![s] = p]
      /\ tx'[w].phoneSet = IF p # t.phone[s] THEN t.phoneSet \cup {s} ELSE t.phoneSet
      /\ \A c \in Sender : c # s => tx'[w].dirty[c] = t.dirty[c]
      /\ t.dirty[s] \subseteq tx'[w].dirty[s]
      /\ "insert" \in tx'[w].dirty[s] <=> LeadSeen(t, s) = None \/ "insert" \in t.dirty[s]
  BY CaptureLeadEffect
<1>3. /\ Who(w)' = s /\ s \in Sender /\ t \in Tx /\ t.phone \in [Sender -> Phone \cup {None, WaNumber}]
      /\ TypeOK /\ LeadOK(t)
  BY <1>2, AtEvent DEF EventStep, Mid, Who, Tx, IngestInv, Sessions
<1>4. CustomersOwn(w) /\ NumbersOwn(w) /\ s \in customers \cup t.customers
  BY <1>2 DEF NumberInv, CustomersOwn, AtCustomer
<1>5. leads[s] # None \/ tx'[w].dirty[s] # {}
  <2>1. LeadSeen(t, s) # None => leads[s] # None \/ s \in t.leadSet
    BY <1>3, SeesLead
  <2>2. s \in t.leadSet => t.dirty[s] # {}
    BY <1>3 DEF LeadOK
  <2>. QED BY <1>2, <2>1, <2>2
<1>6. CustomersOwn(w)'
  BY <1>1, <1>2, <1>3, <1>4 DEF CustomersOwn, AtCustomer
<1>7. NumbersOwn(w)'
  <2> SUFFICES ASSUME NEW c \in Sender
               PROVE  /\ c \in tx'[w].phoneSet \/ tx'[w].dirty[c] # {} => c \in customers \cup t.customers
                      /\ c \in tx'[w].phoneSet => tx'[w].phone[c] # None /\ (leads[c] # None \/ tx'[w].dirty[c] # {})
                      /\ c \in t.customers /\ c \notin tx'[w].phoneSet => tx'[w].phone[c] = None
                      /\ tx'[w].phone[c] # None => c \in tx'[w].phoneSet \/ phones[c] # None
                      /\ tx'[w].dirty[c] # {} => c \in tx'[w].phoneSet \/ phones[c] # None
    BY <1>1, <1>2 DEF NumbersOwn
  <2>1. CASE c # s
    BY <1>2, <1>3, <1>4, <2>1 DEF NumbersOwn
  <2>2. CASE c = s
    <3>1. tx'[w].phone[s] = p
      BY <1>2, <1>3
    <3>2. s \notin tx'[w].phoneSet => t.phone[s] = p /\ s \notin t.phoneSet
      BY <1>2
    <3>3. s \in tx'[w].phoneSet \/ (phones[s] # None /\ s \notin t.customers)
      BY <1>2, <1>3, <1>4, <3>2 DEF NumbersOwn
    <3>. QED BY <1>2, <1>4, <1>5, <2>2, <3>1, <3>3
  <2>. QED BY <2>1, <2>2
<1>. QED BY <1>6, <1>7, StatementKeepsOthersNumber

LEMMA NumberStep ==
  ASSUME Platform # "whatsapp"
  PROVE  IngestInv /\ LeadInv /\ NumberInv /\ [Next]_vars => NumberInv'
<1> SUFFICES ASSUME IngestInv, LeadInv, NumberInv, [Next]_vars PROVE NumberInv'
  OBVIOUS
<1>1. CASE \E w \in Worker : Statement(w) /\ ~Fail(w)
  <2>1. PICK w \in Worker : Statement(w) /\ ~Fail(w)
    BY <1>1
  <2>2. CASE Stamp(w)
    BY <2>1, <2>2, StampEffect, AwayKeepsNumber DEF AtCustomer, SameLead
  <2>3. CASE LoadCustomer(w)
    BY <2>1, <2>3, LoadCustomerKeepsNumber
  <2>4. CASE InsertCustomer(w)
    BY <2>1, <2>4, InsertCustomerKeepsNumber
  <2>5. CASE LoadConversation(w) \/ InsertConversation(w) \/ StoreMessage(w)
    <3>1. /\ SameCustomer(tx'[w], tx[w]) /\ SameLead(tx'[w], tx[w]) /\ todo' = todo
          /\ pc[w] \in AtCustomer /\ pc'[w] # "newCustomer"
      BY <2>1, <2>5, LoadConversationEffect, InsertConversationEffect, StoreMessageEffect DEF AtCustomer
    <3>2. Who(w)' = Who(w)
      BY <3>1 DEF Mid, Who
    <3>. QED BY <2>1, <3>1, <3>2, AwayKeepsNumber DEF SameLead
  <2>6. CASE CaptureLead(w)
    BY <2>1, <2>6, CaptureLeadKeepsNumber
  <2>7. CASE FlushEvent(w)
    <3>1. SameCustomer(tx'[w], tx[w]) /\ tx'[w].dirty = tx[w].dirty /\ pc[w] \in AtCustomer
      BY <2>1, <2>7, FlushEffect DEF AtCustomer
    <3>2. pc'[w] \in {"customer", "commit", "stamp"} \/ (pc'[w] = "message" /\ Who(w)' = Who(w))
      BY <2>1, <2>7, AfterFlush
    <3>. QED BY <2>1, <3>1, <3>2, AwayKeepsNumber DEF AtCustomer
  <2>. QED BY <2>1, <2>2, <2>3, <2>4, <2>5, <2>6, <2>7 DEF Statement
<1>. QED BY <1>1, StepKinds, QuietKeepsNumber, CommitKeepsNumber

\* On Instagram and Messenger a customer has a number exactly when there is a
\* lead of theirs, whatever webhooks and syncs capture numbers at once; on
\* WhatsApp the customer row is created with the number.
THEOREM NumbersMeanLeads ==
  ASSUME Platform # "whatsapp"
  PROVE  Spec => []NumberMeansLead
<1>1. IngestInv /\ LeadInv /\ NumberInv /\ [Next]_vars => NumberInv'
  BY NumberStep
<1>2. NumberInv => NumberMeansLead
  BY DEF NumberInv
<1>. QED
  BY <1>1, <1>2, InitKeeps, NextKeeps, LeadInit, LeadStep, NumberInit, PTL DEF Spec

-----------------------------------------------------------------------------
(* Batches: stored whole, and no chat forgotten *)

In(q) == {q[i] : i \in DOMAIN q}

LEMMA InTail ==
  ASSUME NEW q \in Seq(Message), q # <<>>
  PROVE  In(q) = {Head(q)} \cup In(Tail(q))
<1>1. /\ Tail(q) \in Seq(Message) /\ Len(Tail(q)) = Len(q) - 1 /\ Len(q) \in Nat /\ Len(q) # 0
      /\ \A i \in 1..Len(Tail(q)) : Tail(q)[i] = q[i + 1]
  BY HeadTailProperties
<1>2. DOMAIN q = 1..Len(q) /\ DOMAIN Tail(q) = 1..Len(Tail(q)) /\ Head(q) = q[1]
  BY <1>1
<1>3. ASSUME NEW m, m \in In(q) PROVE m = Head(q) \/ m \in In(Tail(q))
  <2>1. PICK i \in DOMAIN q : q[i] = m
    BY <1>3 DEF In
  <2>2. CASE i = 1
    BY <1>2, <2>1, <2>2
  <2>3. CASE i # 1
    <3>1. i - 1 \in DOMAIN Tail(q) /\ (i - 1) + 1 = i
      BY <1>1, <1>2, <2>1, <2>3
    <3>2. Tail(q)[i - 1] = q[i]
      BY <1>1, <1>2, <3>1
    <3>. QED BY <2>1, <3>1, <3>2 DEF In
  <2>. QED BY <2>2, <2>3
<1>4. Head(q) \in In(q)
  <2>1. 1 \in DOMAIN q
    BY <1>1, <1>2
  <2>. QED BY <1>2, <2>1 DEF In
<1>5. ASSUME NEW m, m \in In(Tail(q)) PROVE m \in In(q)
  <2>1. PICK i \in DOMAIN Tail(q) : Tail(q)[i] = m
    BY <1>5 DEF In
  <2>2. i + 1 \in DOMAIN q
    BY <1>1, <1>2, <2>1
  <2>. QED BY <1>1, <1>2, <2>1, <2>2 DEF In
<1>. QED BY <1>3, <1>4, <1>5

\* A worker stores the messages of its batch, all of them by the commit.
BatchOwn(w) ==
  /\ pc[w] \notin TxStep => tx[w] = EmptyTx
  /\ tx[w].messages \subseteq In(batch[w])
  /\ pc[w] \in TxStep => /\ In(batch[w]) \subseteq Opening \cup stored \cup tx[w].messages \cup In(todo[w])
                         /\ In(todo[w]) \subseteq In(batch[w])
  /\ pc[w] = "commit" => todo[w] = <<>>
  /\ pc[w] = "respond" => In(batch[w]) \subseteq stored \cup Opening

BatchInv == \A w \in Worker : BatchOwn(w)

LEMMA BatchInit == Init => BatchInv
BY EmptySession DEF Init, BatchInv, BatchOwn, TxStep, EventStep

LEMMA QuietKeepsBatch ==
  ASSUME IngestInv, BatchInv, Quiet, NEW w \in Worker
  PROVE  BatchOwn(w)'
<1>1. stored' = stored /\ BatchOwn(w)
  BY DEF Quiet, rows, BatchInv
<1>2. CASE Same(w)
  BY <1>1, <1>2 DEF BatchOwn, Same
<1>3. CASE Ended(w)
  BY <1>3, EmptySession DEF BatchOwn, Ended, TxStep, EventStep
<1>4. CASE Started(w)
  <2>1. pc[w] = "idle" /\ tx'[w] = tx[w] /\ todo'[w] = batch'[w]
    BY <1>4 DEF Started
  <2>2. tx'[w] = EmptyTx
    BY <1>1, <2>1 DEF BatchOwn, TxStep, EventStep
  <2>3. pc'[w] # "respond" /\ (pc'[w] = "commit" => todo'[w] = <<>>)
    BY <1>4 DEF Started, AfterEvent
  <2>. QED BY <2>1, <2>2, <2>3, EmptySession DEF BatchOwn
<1>5. CASE Responded(w)
  <2>1. pc[w] \notin TxStep /\ pc'[w] \notin TxStep /\ pc'[w] # "respond" /\ pc'[w] # "commit"
    BY <1>5 DEF Responded, TxStep, EventStep
  <2>. QED BY <1>1, <1>5, <2>1, EmptySession DEF BatchOwn, Responded
<1>. QED BY <1>2, <1>3, <1>4, <1>5 DEF Quiet

LEMMA CommitKeepsBatch ==
  ASSUME IngestInv, BatchInv, NEW w \in Worker, Commit(w), NEW v \in Worker
  PROVE  BatchOwn(v)'
<1>1. /\ pc[w] = "commit" /\ tx'[w] = EmptyTx /\ pc'[w] \in {"respond", "idle"}
      /\ v # w => Same(v)
  BY CommitEffect
<1>2. stored' = stored \cup tx[w].messages /\ BatchOwn(v) /\ BatchOwn(w)
  BY DEF Commit, BatchInv
<1>3. CASE v = w
  <2>1. In(batch[w]) \subseteq stored' \cup Opening
    <3>1. In(<<>>) = {}
      BY DEF In
    <3>. QED BY <1>1, <1>2, <3>1 DEF BatchOwn, TxStep
  <2>2. pc'[w] = "respond" => batch'[w] = batch[w]
    <3>1. CASE End(w)
      BY <3>1, EndEffect DEF Ended
    <3>2. CASE ~End(w)
      BY <3>2 DEF Commit
    <3>. QED BY <3>1, <3>2
  <2>. QED BY <1>1, <1>3, <2>1, <2>2, EmptySession DEF BatchOwn, TxStep, EventStep
<1>4. CASE v # w
  BY <1>1, <1>2, <1>4 DEF BatchOwn, Same
<1>. QED BY <1>3, <1>4

LEMMA StatementKeepsBatch ==
  ASSUME IngestInv, ChatInv, BatchInv, NEW w \in Worker, Statement(w), ~Fail(w), NEW v \in Worker
  PROVE  BatchOwn(v)'
<1>1. /\ UNCHANGED <<stored, batch>>
      /\ v # w => tx'[v] = tx[v] /\ pc'[v] = pc[v] /\ todo'[v] = todo[v]
      /\ pc[w] \in TxStep \ {"commit"} /\ pc'[w] \in TxStep
  BY StatementFrame DEF dbVars
<1>2. BatchOwn(v) /\ BatchOwn(w)
  BY DEF BatchInv
<1>3. CASE v # w
  BY <1>1, <1>2, <1>3 DEF BatchOwn
<1>4. ASSUME todo' = todo, SameMessages(tx'[w], tx[w]), pc'[w] = "commit" => todo[w] = <<>>
      PROVE  BatchOwn(w)'
  BY <1>1, <1>2, <1>4 DEF BatchOwn, SameMessages, TxStep, EventStep
<1>5. ASSUME Stamp(w) PROVE BatchOwn(w)'
  BY <1>4, <1>5, StampEffect
<1>6. ASSUME LoadCustomer(w) \/ InsertCustomer(w) \/ LoadConversation(w) \/ InsertConversation(w) \/ CaptureLead(w)
      PROVE  BatchOwn(w)'
  <2>1. SameMessages(tx'[w], tx[w]) /\ todo' = todo /\ pc'[w] # "commit"
    BY <1>6, LoadCustomerEffect, InsertCustomerEffect, LoadConversationEffect, InsertConversationEffect,
       CaptureLeadEffect
  <2>. QED BY <1>4, <2>1
<1>7. ASSUME StoreMessage(w) PROVE BatchOwn(w)'
  <2>1. /\ pc[w] = "message" /\ todo' = todo /\ pc'[w] \in {"lead", "flush"}
        /\ tx'[w].messages = IF IsNew(w) THEN tx[w].messages \cup {Mid(w)} ELSE tx[w].messages
    BY <1>7, StoreMessageEffect
  <2>2. Mid(w) \in In(todo[w])
    <3>1. todo[w] \in Seq(Message) /\ todo[w] # <<>>
      BY <2>1, AtEvent DEF EventStep
    <3>. QED BY <3>1, InTail DEF Mid
  <2>. QED BY <1>1, <1>2, <2>1, <2>2 DEF BatchOwn, TxStep, EventStep
<1>8. ASSUME FlushEvent(w) PROVE BatchOwn(w)'
  <2>1. /\ pc[w] = "flush" /\ todo' = [todo EXCEPT ![w] = Tail(@)] /\ tx'[w].messages = tx[w].messages
        /\ pc'[w] = "commit" => todo'[w] = <<>>
    BY <1>8, FlushEffect, AfterFlush DEF SameMessages
  <2>2. /\ todo[w] \in Seq(Message) /\ todo[w] # <<>> /\ todo'[w] = Tail(todo[w])
        /\ Mid(w) \in Opening \cup stored \cup tx[w].messages
    BY <2>1, AtEvent DEF EventStep, IngestInv, TypeOK, ChatInv, HasMessage
  <2>3. In(todo[w]) = {Mid(w)} \cup In(todo'[w])
    BY <2>2, InTail DEF Mid
  <2>. QED BY <1>1, <1>2, <2>1, <2>2, <2>3 DEF BatchOwn, TxStep, EventStep
<1>. QED BY <1>3, <1>5, <1>6, <1>7, <1>8 DEF Statement

LEMMA BatchStep == IngestInv /\ ChatInv /\ BatchInv /\ [Next]_vars => BatchInv'
BY StepKinds, QuietKeepsBatch, CommitKeepsBatch, StatementKeepsBatch DEF BatchInv

\* Only the messages of its batch become stored, all of them, when a webhook
\* commits.
LEMMA CommitStoresBatch ==
  ASSUME IngestInv, BatchInv, AllWebhooks, NEW w \in Worker, Commit(w)
  PROVE  /\ batch[w] \in Batch /\ tx[w].messages \subseteq In(batch[w])
         /\ stored' = stored \cup tx[w].messages /\ In(batch[w]) \subseteq stored' \cup Opening
<1>1. pc[w] = "commit" /\ stored' = stored \cup tx[w].messages
  BY CommitEffect DEF Commit
<1>2. In(<<>>) = {}
  BY DEF In
<1>. QED BY <1>1, <1>2 DEF BatchInv, BatchOwn, TxStep, IngestInv, Busy, AllWebhooks

\* No message is in two batches.
DisjointBatches == \A b, c \in Batch : In(b) \cap In(c) # {} => b = c

LEMMA WholeStep ==
  ASSUME DisjointBatches, IngestInv, BatchInv, AllWebhooks, WholeBatch, [Next]_vars
  PROVE  WholeBatch'
<1>1. CASE stored' = stored
  BY <1>1 DEF WholeBatch
<1>2. CASE \E w \in Worker : Commit(w)
  <2>1. PICK w \in Worker : Commit(w)
    BY <1>2
  <2>2. /\ batch[w] \in Batch /\ tx[w].messages \subseteq In(batch[w])
        /\ stored' = stored \cup tx[w].messages /\ In(batch[w]) \subseteq stored' \cup Opening
    BY <2>1, CommitStoresBatch
  <2> SUFFICES ASSUME NEW b \in Batch, NEW i \in DOMAIN b, NEW j \in DOMAIN b, b[i] \in stored'
               PROVE  b[j] \in stored' \cup Opening
    BY DEF WholeBatch
  <2>3. CASE b[i] \in stored
    BY <2>2, <2>3 DEF WholeBatch
  <2>4. CASE b[i] \in tx[w].messages
    <3>1. b[i] \in In(b) /\ b[j] \in In(b)
      BY DEF In
    <3>2. b = batch[w]
      BY <2>2, <2>4, <3>1 DEF DisjointBatches
    <3>. QED BY <2>2, <3>1, <3>2
  <2>. QED BY <2>2, <2>3, <2>4
<1>. QED BY <1>1, <1>2, StepKinds, StatementFrame DEF dbVars, Quiet, rows

\* Where no sync runs and no message comes in two different bodies, a body is
\* stored whole or not at all: it is one transaction, and nothing of it is
\* skipped.
THEOREM BatchesStoredWhole ==
  ASSUME MaxPages = 0, DisjointBatches
  PROVE  Spec => []WholeBatch
<1>1. Init => AllWebhooks /\ WholeBatch
  BY DEF Init, AllWebhooks, IsWebhook, WholeBatch
<1>2. IngestInv /\ AllWebhooks /\ [Next]_vars => AllWebhooks'
  BY WebhooksStep
<1>3. IngestInv /\ BatchInv /\ AllWebhooks /\ WholeBatch /\ [Next]_vars => WholeBatch'
  BY WholeStep
<1>. QED
  BY <1>1, <1>2, <1>3, InitKeeps, NextKeeps, ChatInit, ChatStep, BatchInit, BatchStep, PTL DEF Spec

\* The reply to a message has been started, queued or lost by a recorded cause.
Handed(m) ==
  \/ replied[m] > 0
  \/ \E c \in {"crash", "exception"} : m \in lost[c]
  \/ \E w \in Worker : m \in jobs[w].reply

\* A step that takes no job keeps what is handed over.
LEMMA HandedFrame ==
  ASSUME NEW m \in Message, Handed(m), UNCHANGED outVars,
         \A v \in Worker : jobs[v].reply \subseteq jobs'[v].reply
  PROVE  Handed(m)'
BY DEF Handed, outVars

LEMMA HandedStays ==
  ASSUME IngestInv, JobsLate, [Next]_vars, NEW m \in Message, Handed(m)
  PROVE  Handed(m)'
<1>0. /\ jobs \in [Worker -> Jobs] /\ replied \in [Message -> Nat] /\ NoJobs.reply = {}
      /\ lost \in [{"crash", "exception"} -> SUBSET Message]
  BY DEF IngestInv, TypeOK, NoJobs
<1>1. CASE UNCHANGED <<jobs, outVars>>
  BY <1>1, HandedFrame
<1>2. CASE Next
  <2>1. PICK w \in Worker :
          \/ (\E b \in Batch : Receive(w, b)) \/ (\E p \in Page : FetchPage(w, p))
          \/ Work(w) \/ DbError(w) \/ Crash(w)
    BY <1>2 DEF Next
  <2>2. CASE \/ (\E b \in Batch : Receive(w, b)) \/ (\E p \in Page : FetchPage(w, p))
             \/ Respond(w) \/ Finish(w) \/ Fail(w)
    BY <1>1, <2>2 DEF Receive, FetchPage, Respond, Finish, Fail
  <2>3. CASE Statement(w) /\ ~Fail(w)
    BY <1>1, <2>3, StatementFrame
  <2>4. CASE Commit(w)
    <3>1. pc[w] = "commit" /\ UNCHANGED outVars
      BY <2>4, CommitEffect DEF Commit
    <3>2. jobs[w].reply = {}
      BY <1>0, <3>1 DEF JobsLate
    <3>3. \A v \in Worker : v # w => jobs'[v] = jobs[v]
      BY <1>0, <2>4 DEF Commit
    <3>4. \A v \in Worker : jobs[v].reply \subseteq jobs'[v].reply
      BY <3>2, <3>3
    <3>. QED BY <3>1, <3>4, HandedFrame
  <2>5. CASE \E s \in Sender : RunProfile(w, s)
    <3>1. PICK s \in Sender : RunProfile(w, s)
      BY <2>5
    <3>2. jobs' = [jobs EXCEPT ![w] = [jobs[w] EXCEPT !.profile = @ \ {s}]] /\ UNCHANGED outVars
      BY <1>0, <3>1 DEF RunProfile
    <3>3. [jobs[w] EXCEPT !.profile = @ \ {s}].reply = jobs[w].reply
      BY <1>0 DEF Jobs
    <3>4. \A v \in Worker : jobs'[v].reply = jobs[v].reply
      BY <1>0, <3>2, <3>3
    <3>. QED BY <3>2, <3>4, HandedFrame
  <2>6. CASE Crash(w) \/ \E s \in Sender : RaiseProfile(w, s)
    <3>1. PICK c \in {"crash", "exception"} : lost' = [lost EXCEPT ![c] = @ \cup jobs[w].reply]
      BY <2>6 DEF Crash, RaiseProfile
    <3>2. jobs' = [jobs EXCEPT ![w] = NoJobs] /\ replied' = replied
      BY <2>6 DEF Crash, RaiseProfile
    <3>3. \A v \in Worker : v # w => jobs'[v] = jobs[v]
      BY <1>0, <3>2
    <3>4. jobs[w].reply \subseteq lost'[c] /\ \A d \in {"crash", "exception"} : lost[d] \subseteq lost'[d]
      BY <1>0, <3>1
    <3>. QED BY <3>2, <3>3, <3>4 DEF Handed
  <2>7. CASE \E n \in Message : RunReply(w, n)
    <3>1. PICK n \in Message : RunReply(w, n)
      BY <2>7
    <3>2. /\ replied' = [replied EXCEPT ![n] = @ + 1] /\ lost' = lost
          /\ jobs' = [jobs EXCEPT ![w] = [jobs[w] EXCEPT !.reply = @ \ {n}]]
      BY <1>0, <3>1 DEF RunReply
    <3>3. [jobs[w] EXCEPT !.reply = @ \ {n}].reply = jobs[w].reply \ {n}
      BY <1>0 DEF Jobs
    <3>4. CASE m = n
      BY <1>0, <3>2, <3>4 DEF Handed
    <3>5. CASE m # n
      <4>1. replied'[m] = replied[m] /\ \A v \in Worker : m \in jobs[v].reply => m \in jobs'[v].reply
        BY <1>0, <3>2, <3>3, <3>5
      <4>. QED BY <3>2, <4>1 DEF Handed
    <3>. QED BY <3>4, <3>5
  <2>. QED
    BY <2>1, <2>2, <2>3, <2>4, <2>5, <2>6, <2>7 DEF Work, Statement, BreakDeadlock, DbError
<1>. QED BY <1>1, <1>2 DEF vars, procVars

\* What a committed chat of a batch is owed.
LEMMA CommitHandsOver ==
  ASSUME IngestInv, OnceInv, OwesEachChat, BatchInv, AllWebhooks, NEW w \in Worker, Commit(w),
         NEW m \in tx[w].messages \ Echo
  PROVE  \E n \in In(batch[w]) : ChatOf(n) = ChatOf(m) /\ Handed(n)'
<1> DEFINE t == tx[w]
<1>1. t \in Tx /\ m \in Message /\ ChatOf(m) \in Chats /\ jobs \in [Worker -> Jobs]
  BY CommitEffect, ChatType DEF Tx, IngestInv, TypeOK
<1>2. PICK n \in Message : n = t.reply[ChatOf(m)] /\ n # None
  BY <1>1, IngestAssumption DEF OwesEachChat, AllWebhooks, Tx
<1>3. ChatOf(n) = ChatOf(m) /\ n \in t.messages
  BY <1>1, <1>2 DEF OwesEachChat, OnceInv, OwedToOwn
<1>4. n \in Queued(t)
  BY <1>2, <1>3 DEF Queued
<1>5. n \in jobs'[w].reply
  <2>1. jobs' = [jobs EXCEPT ![w] = [profile |-> t.profile, reply |-> Queued(t)]]
    BY DEF Commit, AllWebhooks, IsWebhook
  <2>. QED BY <1>1, <1>4, <2>1
<1>6. n \in In(batch[w])
  BY <1>3 DEF BatchInv, BatchOwn
<1>7. Handed(n)'
  BY <1>5 DEF Handed
<1>. QED BY <1>3, <1>6, <1>7

LEMMA ForgottenStep ==
  ASSUME DisjointBatches, IngestInv, OnceInv, QueueInv, BatchInv, AllWebhooks, NoChatForgotten, [Next]_vars
  PROVE  NoChatForgotten'
<1> SUFFICES ASSUME NEW b \in Batch, NEW i \in DOMAIN b, b[i] \in stored' \ Echo
             PROVE  \E j \in DOMAIN b : ChatOf(b[j]) = ChatOf(b[i]) /\ Handed(b[j])'
  BY DEF NoChatForgotten, Handed
<1>1. \A j \in DOMAIN b : b[j] \in Message
  BY IngestAssumption
<1>2. CASE b[i] \in stored
  <2>1. PICK j \in DOMAIN b : ChatOf(b[j]) = ChatOf(b[i]) /\ Handed(b[j])
    BY <1>2 DEF NoChatForgotten, Handed
  <2>2. Handed(b[j])'
    BY <1>1, <2>1, HandedStays DEF QueueInv
  <2>. QED BY <2>1, <2>2
<1>3. CASE b[i] \notin stored
  <2>1. PICK w \in Worker : Commit(w)
    BY <1>3, StepKinds, StatementFrame DEF dbVars, Quiet, rows
  <2>2. b[i] \in tx[w].messages \ Echo /\ b = batch[w]
    <3>1. b[i] \in In(b) /\ b[i] \in tx[w].messages
      BY <1>3, <2>1, CommitStoresBatch DEF In
    <3>. QED BY <2>1, <3>1, CommitStoresBatch DEF DisjointBatches
  <2>3. PICK n \in In(b) : ChatOf(n) = ChatOf(b[i]) /\ Handed(n)'
    BY <2>1, <2>2, CommitHandsOver DEF QueueInv
  <2>4. PICK j \in DOMAIN b : b[j] = n
    BY <2>3 DEF In
  <2>. QED BY <2>3, <2>4
<1>. QED BY <1>2, <1>3

\* "One reply per chat per batch" leaves no chat without a reply: of a stored
\* customer's message some message of the same chat and body was handed to the
\* pipeline, or lost by a cause that is recorded.
THEOREM ChatsNotForgotten ==
  ASSUME MaxPages = 0, DisjointBatches
  PROVE  Spec => []NoChatForgotten
<1>1. Init => AllWebhooks /\ NoChatForgotten
  BY DEF Init, AllWebhooks, IsWebhook, NoChatForgotten
<1>2. IngestInv /\ AllWebhooks /\ [Next]_vars => AllWebhooks'
  BY WebhooksStep
<1>3. Init => QueueInv
  BY EmptyTxFacts DEF Init, QueueInv, OwesEachChat, JobsLate, NoJobs
<1>4. IngestInv /\ OnceInv /\ QueueInv /\ [Next]_vars => QueueInv'
  BY QueueStep
<1>5. IngestInv /\ OnceInv /\ QueueInv /\ BatchInv /\ AllWebhooks /\ NoChatForgotten /\ [Next]_vars
        => NoChatForgotten'
  BY ForgottenStep
<1>. QED
  BY <1>1, <1>2, <1>3, <1>4, <1>5, InitKeeps, NextKeeps, ChatInit, ChatStep, BatchInit, BatchStep,
     OnceInit, OnceStep, PTL DEF Spec

\* Where each body has one message of a chat, as Meta mostly sends them, every
\* stored customer message was itself handed to the pipeline, or lost by a cause
\* that is recorded: photos are only passed over behind another of their body.
THEOREM LoneMessagesHandedOver ==
  ASSUME MaxPages = 0, DisjointBatches,
         \A b \in Batch : \A i, j \in DOMAIN b : ChatOf(b[i]) = ChatOf(b[j]) => i = j
  PROVE  Spec => [](\A b \in Batch : \A i \in DOMAIN b : b[i] \in stored \ Echo => Handed(b[i]))
<1>1. NoChatForgotten => \A b \in Batch : \A i \in DOMAIN b : b[i] \in stored \ Echo => Handed(b[i])
  BY DEF NoChatForgotten, Handed
<1>. QED BY <1>1, ChatsNotForgotten, PTL

-----------------------------------------------------------------------------
(* On WhatsApp, what was answered of a private body is stored *)

\* What a session has written is of accounts it has stamped, and it captures no
\* lead.
Covered(w) ==
  LET t == tx[w]
  IN  /\ \A s \in t.customers \cup t.name : \E m \in Message : From[m] = s /\ To[m] \in t.stamp
      /\ \A c \in t.convos \cup t.lastSet : \E m \in Message : ChatOf(m) = c /\ To[m] \in t.stamp
      /\ \A m \in t.messages : To[m] \in t.stamp
      /\ t.phoneSet = {} /\ t.leadSet = {} /\ \A s \in Sender : t.dirty[s] = {}

\* An account's stamp is held by one session, and an event is handled under it.
StampsOwn(w) ==
  /\ \A v \in Worker : v # w => tx[v].stamp \cap tx[w].stamp = {}
  /\ pc[w] \in EventStep => To[Mid(w)] \in tx[w].stamp
  /\ pc[w] # "lead"
  /\ Covered(w)

\* A private body waits for its stamp with empty hands, and finds under it what it
\* found: nobody else commits the customer or the chat it is about to insert.
FindsOwn(w) ==
  /\ pc[w] = "stamp" => tx[w] = EmptyTx
  /\ pc[w] = "newCustomer" => Who(w) \notin customers
  /\ pc[w] = "newConversation" => Chat(w) \notin convos

StampInv ==
  /\ AllWebhooks
  /\ \A w \in Worker : StampsOwn(w) /\ (Private(batch[w]) => FindsOwn(w))

LEMMA StampInit == Init => StampInv
BY EmptySession
   DEF Init, StampInv, AllWebhooks, IsWebhook, StampsOwn, FindsOwn, Covered, EventStep

\* The event at hand is one of the body.
LEMMA MidInBatch ==
  ASSUME IngestInv, BatchInv, NEW w \in Worker, pc[w] \in EventStep \cup {"stamp"}
  PROVE  Mid(w) \in In(batch[w]) /\ In(Tail(todo[w])) \subseteq In(batch[w])
<1>1. todo[w] \in Seq(Message) /\ todo[w] # <<>>
  BY AtEvent
<1>2. In(todo[w]) \subseteq In(batch[w])
  BY DEF BatchInv, BatchOwn, TxStep
<1>. QED BY <1>1, <1>2, InTail DEF Mid

\* Whoever writes to a private body's customers writes to its account.
LEMMA PrivateAccount ==
  ASSUME NEW b \in Seq(Message), Private(b), NEW x \in In(b), NEW m \in Message,
         From[m] = From[x] \/ m \in In(b)
  PROVE  To[m] = To[x]
<1>1. PICK n \in Account : \A i \in DOMAIN b : \A y \in Message : From[y] = From[b[i]] => To[y] = n
  BY DEF Private
<1>2. PICK i \in DOMAIN b : b[i] = x
  BY DEF In
<1>3. To[x] = n /\ x \in Message
  BY <1>1, <1>2
<1>4. CASE From[m] = From[x]
  BY <1>1, <1>2, <1>3, <1>4
<1>5. CASE m \in In(b)
  BY <1>1, <1>3, <1>5 DEF In
<1>. QED BY <1>4, <1>5

\* The rows a private body's event is about are in nobody else's hands.
LEMMA PrivateRows ==
  ASSUME IngestInv, BatchInv, StampInv, NEW w \in Worker, Private(batch[w]), pc[w] \in EventStep,
         NEW v \in Worker, v # w
  PROVE  /\ Who(w) \notin tx[v].customers \cup tx[v].name
         /\ Chat(w) \notin tx[v].convos \cup tx[v].lastSet
         /\ Mid(w) \notin tx[v].messages
<1>1. /\ Mid(w) \in In(batch[w]) /\ Mid(w) \in Message /\ batch[w] \in Seq(Message)
      /\ Who(w) = From[Mid(w)] /\ Chat(w) = ChatOf(Mid(w))
  BY MidInBatch, AtEvent DEF IngestInv, TypeOK
<1>2. To[Mid(w)] \notin tx[v].stamp /\ Covered(v)
  BY DEF StampInv, StampsOwn
<1>3. \A m \in Message : From[m] = Who(w) => To[m] = To[Mid(w)]
  BY <1>1, PrivateAccount
<1>4. \A m \in Message : ChatOf(m) = Chat(w) => To[m] = To[Mid(w)]
  BY <1>1 DEF ChatOf
<1>. QED BY <1>2, <1>3, <1>4 DEF Covered

\* So it waits for nobody but at the stamp, and nobody waits for it there.
LEMMA PrivateWaits ==
  ASSUME IngestInv, BatchInv, StampInv, NEW w \in Worker, Private(batch[w])
  PROVE  ~InCircle(w)
<1>1. CASE pc[w] = "stamp"
  <2>1. tx[w] = EmptyTx
    BY <1>1 DEF StampInv, FindsOwn
  <2>2. \A v \in Worker : w \notin Blockers(v)
    BY <2>1, EmptySession DEF Blockers, Updates
  <2>. QED BY <2>2, CircleWaits
<1>2. CASE pc[w] # "stamp"
  <2>1. \A v \in Worker : tx[v].phoneSet = {} /\ tx[v].leadSet = {}
    BY DEF StampInv, StampsOwn, Covered
  <2>2. kind[w] = "webhook"
    BY DEF StampInv, AllWebhooks, IsWebhook
  <2>3. CASE pc[w] \in EventStep
    <3>1. ASSUME NEW v \in Worker, v # w PROVE v \notin Blockers(w)
      BY <1>2, <2>1, <2>2, <2>3, <3>1, PrivateRows DEF Blockers, Updates
    <3>2. Blockers(w) = {}
      BY <3>1 DEF Blockers
    <3>. QED BY <3>2, CircleWaits
  <2>4. CASE pc[w] \notin EventStep
    <3>1. Blockers(w) = {}
      BY <1>2, <2>2, <2>4 DEF Blockers, EventStep
    <3>. QED BY <3>1, CircleWaits
  <2>. QED BY <2>3, <2>4
<1>. QED BY <1>1, <1>2

\* No statement of it meets a row it did not find.
LEMMA PrivateNeverFails ==
  ASSUME IngestInv, StampInv, NEW w \in Worker, Private(batch[w]), Statement(w)
  PROVE  ~Fail(w)
<1>1. pc \in [Worker -> Step] /\ FindsOwn(w)
  BY DEF IngestInv, TypeOK, StampInv
<1>2. Fail(w) => pc'[w] = "idle"
  BY <1>1 DEF Fail, End, Goto
<1>3. ASSUME NEW new, NEW step, Run(w, new, step), step # "idle" PROVE ~Fail(w)
  BY <1>1, <1>2, <1>3 DEF Run, Goto
<1>4. CASE LoadCustomer(w)
  BY <1>3, <1>4 DEF LoadCustomer
<1>9. CASE Stamp(w) \/ StoreMessage(w) \/ CaptureLead(w)
  BY <1>3, <1>9 DEF Stamp, StoreMessage, CaptureLead
<1>5. CASE InsertCustomer(w)
  BY <1>1, <1>3, <1>5 DEF InsertCustomer, At, FindsOwn
<1>6. CASE LoadConversation(w)
  BY <1>3, <1>6 DEF LoadConversation
<1>7. CASE InsertConversation(w)
  BY <1>1, <1>3, <1>7 DEF InsertConversation, At, FindsOwn
<1>8. CASE FlushEvent(w)
  <2>1. pc[w] = "flush"
    BY <1>8 DEF FlushEvent, At
  <2>2. tx[w].dirty[Who(w)] = {}
    BY <2>1, AtEvent DEF EventStep, StampInv, StampsOwn, Covered
  <2>3. AfterMessage(w) # "idle"
    BY DEF AfterMessage, AfterEvent
  <2>. QED BY <1>3, <1>8, <2>2, <2>3 DEF FlushEvent
<1>. QED BY <1>4, <1>5, <1>6, <1>7, <1>8, <1>9 DEF Statement

LEMMA QuietKeepsStamp ==
  ASSUME Platform = "whatsapp", IngestInv, BatchInv, StampInv, Quiet, NEW w \in Worker
  PROVE  StampsOwn(w)' /\ (Private(batch[w])' => FindsOwn(w)')
<1>1. UNCHANGED <<customers, convos>> /\ StampsOwn(w) /\ (Private(batch[w]) => FindsOwn(w))
  BY DEF Quiet, rows, StampInv
<1>2. \A v \in Worker : tx'[v] = EmptyTx \/ tx'[v] = tx[v]
  BY DEF Quiet, Same, Ended, Started, Responded
<1>3. \A v \in Worker : v # w => tx'[v].stamp \cap tx'[w].stamp = {}
  BY <1>1, <1>2, EmptySession DEF StampsOwn
<1>4. CASE Same(w)
  <2>1. Mid(w)' = Mid(w) /\ Chat(w)' = Chat(w) /\ Who(w)' = Who(w)
    BY <1>4 DEF Same, Mid, Chat, Who
  <2>2. StampsOwn(w)'
    BY <1>1, <1>3, <1>4, <2>1 DEF StampsOwn, Covered, Same
  <2>3. Private(batch[w])' => FindsOwn(w)'
    BY <1>1, <1>4, <2>1 DEF FindsOwn, Same, Private
  <2>. QED BY <2>2, <2>3
<1>5. CASE tx'[w] = EmptyTx /\ pc'[w] \in {"idle", "stamp", "commit"}
  BY <1>3, <1>5, EmptySession DEF StampsOwn, FindsOwn, Covered, EventStep
<1>6. CASE Started(w)
  <2>1. pc'[w] = AfterEvent(batch'[w], {}) /\ pc[w] = "idle" /\ tx'[w] = tx[w]
    BY <1>6 DEF Started
  <2>2. pc'[w] \in {"stamp", "commit"}
    BY <2>1 DEF AfterEvent, Stamps
  <2>3. tx[w] = EmptyTx
    BY <2>1 DEF BatchInv, BatchOwn, TxStep, EventStep
  <2>. QED BY <1>5, <2>1, <2>2, <2>3
<1>7. CASE Responded(w)
  <2>1. pc'[w] = "background" /\ tx'[w] = tx[w]
    BY <1>7 DEF Responded
  <2>. QED BY <1>1, <1>3, <2>1 DEF StampsOwn, FindsOwn, Covered, EventStep
<1>8. CASE Ended(w)
  BY <1>5, <1>8 DEF Ended
<1>. QED BY <1>4, <1>6, <1>7, <1>8 DEF Quiet

LEMMA CommitKeepsStamp ==
  ASSUME IngestInv, BatchInv, StampInv, NEW w \in Worker, Commit(w), NEW v \in Worker
  PROVE  StampsOwn(v)' /\ (Private(batch[v])' => FindsOwn(v)')
<1>1. /\ pc[w] = "commit" /\ tx'[w] = EmptyTx /\ pc'[w] \in {"respond", "idle"}
      /\ \A u \in Worker : u # w => Same(u)
  BY CommitEffect
<1>2. customers' = customers \cup tx[w].customers /\ convos' = convos \cup tx[w].convos
  BY DEF Commit
<1>3. StampsOwn(v) /\ (Private(batch[v]) => FindsOwn(v))
  BY DEF StampInv
<1>4. \A u \in Worker : tx'[u] = EmptyTx \/ tx'[u] = tx[u]
  BY <1>1 DEF Same
<1>5. CASE v = w
  BY <1>1, <1>4, <1>5, EmptySession DEF StampsOwn, FindsOwn, Covered, EventStep
<1>6. CASE v # w
  <2>1. /\ tx'[v] = tx[v] /\ pc'[v] = pc[v] /\ batch'[v] = batch[v]
        /\ Mid(v)' = Mid(v) /\ Chat(v)' = Chat(v) /\ Who(v)' = Who(v)
    BY <1>1, <1>6 DEF Same, Mid, Chat, Who
  <2>2. StampsOwn(v)'
    BY <1>3, <1>4, <2>1, EmptySession DEF StampsOwn, Covered
  <2>3. ASSUME Private(batch[v]) PROVE FindsOwn(v)'
    <3>1. pc[v] \in {"newCustomer", "newConversation"} =>
            Who(v) \notin tx[w].customers /\ Chat(v) \notin tx[w].convos
      BY <1>6, <2>3, PrivateRows DEF EventStep
    <3>. QED BY <1>2, <1>3, <2>1, <2>3, <3>1 DEF FindsOwn
  <2>4. Private(batch[v])' => Private(batch[v])
    BY <2>1 DEF Private
  <2>. QED BY <2>2, <2>3, <2>4
<1>. QED BY <1>5, <1>6

\* What a statement but the stamp's writes is of the event at hand.
LEMMA WritesOwn ==
  ASSUME IngestInv, NEW w \in Worker, Statement(w), ~Fail(w), ~Stamp(w), pc[w] # "lead",
         tx[w].dirty[Who(w)] = {}
  PROVE  LET t == tx[w]
         IN  /\ pc[w] \in EventStep /\ tx'[w].stamp = t.stamp
             /\ tx'[w].customers \subseteq t.customers \cup {Who(w)}
             /\ tx'[w].name \subseteq t.name \cup {Who(w)}
             /\ tx'[w].convos \subseteq t.convos \cup {Chat(w)}
             /\ tx'[w].lastSet \subseteq t.lastSet \cup {Chat(w)}
             /\ tx'[w].messages \subseteq t.messages \cup {Mid(w)}
             /\ tx'[w].phoneSet = t.phoneSet /\ tx'[w].dirty = t.dirty /\ tx'[w].leadSet = t.leadSet
<1>1. CASE LoadCustomer(w)
  BY <1>1, LoadCustomerEffect DEF EventStep, SameChat, SameLead, SameMessages
<1>6. CASE InsertCustomer(w)
  BY <1>6, InsertCustomerEffect DEF EventStep, SameChat, SameLead, SameMessages
<1>2. CASE LoadConversation(w)
  BY <1>2, LoadConversationEffect DEF EventStep, SameCustomer, SameLead, SameMessages
<1>7. CASE InsertConversation(w)
  BY <1>7, InsertConversationEffect DEF EventStep, SameCustomer, SameLead, SameMessages
<1>3. CASE StoreMessage(w)
  BY <1>3, StoreMessageEffect DEF EventStep, SameCustomer, SameLead
<1>4. CASE FlushEvent(w)
  BY <1>4, FlushEffect DEF EventStep, SameCustomer, SameMessages
<1>5. ~CaptureLead(w)
  BY CaptureLeadEffect
<1>. QED BY <1>1, <1>2, <1>3, <1>4, <1>5, <1>6, <1>7 DEF Statement

LEMMA StatementKeepsStamp ==
  ASSUME Platform = "whatsapp", IngestInv, BatchInv, StampInv, NEW w \in Worker, Statement(w), ~Fail(w)
  PROVE  \A v \in Worker : StampsOwn(v)' /\ (Private(batch[v])' => FindsOwn(v)')
<1> DEFINE t == tx[w]
<1>1. /\ UNCHANGED <<customers, convos, batch, kind>>
      /\ \A v \in Worker : v # w => tx'[v] = tx[v] /\ pc'[v] = pc[v] /\ todo'[v] = todo[v]
  BY StatementFrame DEF dbVars
<1>2. StampsOwn(w) /\ Covered(w) /\ IsWebhook(w) /\ pc[w] # "lead" /\ \A s \in Sender : t.dirty[s] = {}
  BY DEF StampInv, StampsOwn, Covered, AllWebhooks
<1>3. pc[w] \in EventStep \cup {"stamp"} /\ (pc[w] = "stamp" => Stamp(w))
  BY DEF Statement, Stamp, LoadCustomer, InsertCustomer, LoadConversation, InsertConversation,
         StoreMessage, CaptureLead, FlushEvent, At, EventStep
<1>4. /\ Mid(w) \in Message /\ Who(w) = From[Mid(w)] /\ Chat(w) = ChatOf(Mid(w)) /\ Who(w) \in Sender
      /\ Mid(w) \in In(batch[w]) /\ In(Tail(todo[w])) \subseteq In(batch[w]) /\ batch[w] \in Seq(Message)
      /\ todo[w] \in Seq(Message) /\ todo[w] # <<>>
  BY <1>3, AtEvent, MidInBatch DEF IngestInv, TypeOK
\* The stamps stay one session's each,
<1>5. /\ \A v \in Worker : v # w => tx[v].stamp \cap tx'[w].stamp = {}
      /\ To[Mid(w)] \in tx'[w].stamp /\ t.stamp \subseteq tx'[w].stamp
  <2>1. CASE Stamp(w)
    BY <1>2, <2>1, StampEffect DEF StampsOwn
  <2>2. CASE ~Stamp(w)
    BY <1>2, <1>3, <1>4, <2>2, WritesOwn DEF StampsOwn
  <2>. QED BY <2>1, <2>2
\* what is written is under one,
<1>6. Covered(w)'
  <2>1. CASE Stamp(w)
    <3>1. /\ tx'[w].customers = t.customers /\ tx'[w].name = t.name /\ tx'[w].convos = t.convos
          /\ tx'[w].lastSet = t.lastSet /\ tx'[w].messages = t.messages /\ tx'[w].phoneSet = t.phoneSet
          /\ tx'[w].leadSet = t.leadSet /\ tx'[w].dirty = t.dirty
      BY <2>1, StampEffect DEF SameCustomer, SameChat, SameLead, SameMessages
    <3>. QED BY <1>2, <1>5, <3>1 DEF Covered
  <2>2. CASE ~Stamp(w)
    <3>1. /\ tx'[w].stamp = t.stamp
          /\ tx'[w].customers \subseteq t.customers \cup {Who(w)}
          /\ tx'[w].name \subseteq t.name \cup {Who(w)}
          /\ tx'[w].convos \subseteq t.convos \cup {Chat(w)}
          /\ tx'[w].lastSet \subseteq t.lastSet \cup {Chat(w)}
          /\ tx'[w].messages \subseteq t.messages \cup {Mid(w)}
          /\ tx'[w].phoneSet = t.phoneSet /\ tx'[w].dirty = t.dirty /\ tx'[w].leadSet = t.leadSet
      BY <1>2, <1>4, <2>2, WritesOwn
    <3>. QED BY <1>2, <1>4, <1>5, <3>1 DEF Covered
  <2>. QED BY <2>1, <2>2
\* no lead is captured,
<1>7. pc'[w] # "lead"
  <2>1. ~CaptureLead(w)
    BY <1>2, CaptureLeadEffect
  <2>2. CASE StoreMessage(w)
    BY <1>2, <2>2, StoreMessageEffect
  <2>3. CASE Stamp(w) \/ LoadCustomer(w) \/ InsertCustomer(w)
    BY <2>3, StampEffect, LoadCustomerEffect, InsertCustomerEffect
  <2>4. CASE LoadConversation(w) \/ InsertConversation(w) \/ FlushEvent(w)
    BY <2>4, LoadConversationEffect, InsertConversationEffect, AfterFlush
  <2>. QED BY <2>1, <2>2, <2>3, <2>4 DEF Statement
\* and the next event waits for its stamp unless it is held.
<1>8. /\ ~FlushEvent(w) => Mid(w)' = Mid(w) /\ Who(w)' = Who(w) /\ Chat(w)' = Chat(w) /\ pc'[w] # "stamp"
      /\ FlushEvent(w) => pc'[w] \in {"customer", "commit", "stamp"}
      /\ pc'[w] \in EventStep => To[Mid(w)'] \in tx'[w].stamp
  <2>1. CASE FlushEvent(w)
    <3>1. pc'[w] \in {"customer", "commit", "stamp"} /\ (pc'[w] = "customer" => To[Mid(w)'] \in t.stamp)
      BY <1>2, <2>1, AfterFlush DEF Stamped, Stamps
    <3>. QED BY <1>5, <2>1, <3>1 DEF EventStep
  <2>2. CASE ~FlushEvent(w)
    <3>1. todo' = todo /\ pc'[w] # "stamp"
      <4>1. CASE Stamp(w) \/ LoadCustomer(w) \/ InsertCustomer(w)
        BY <4>1, StampEffect, LoadCustomerEffect, InsertCustomerEffect
      <4>2. CASE LoadConversation(w) \/ InsertConversation(w) \/ StoreMessage(w) \/ CaptureLead(w)
        BY <4>2, LoadConversationEffect, InsertConversationEffect, StoreMessageEffect, CaptureLeadEffect
      <4>. QED BY <2>2, <4>1, <4>2 DEF Statement
    <3>. QED BY <1>5, <2>2, <3>1 DEF Mid, Who, Chat
  <2>. QED BY <2>1, <2>2
<1>9. StampsOwn(w)'
  BY <1>1, <1>5, <1>6, <1>7, <1>8 DEF StampsOwn
\* What a private body has not found, it inserts, and it stamps once.
<1>10. ASSUME Private(batch[w]) PROVE FindsOwn(w)'
  <2>1. pc'[w] = "newCustomer" => Who(w)' \notin customers
    <3>1. CASE LoadCustomer(w)
      BY <1>8, <3>1, LoadCustomerEffect DEF LoadCustomer, FlushEvent, At
    <3>2. CASE ~LoadCustomer(w)
      BY <1>8, <3>2, StampEffect, InsertCustomerEffect, LoadConversationEffect, InsertConversationEffect,
         StoreMessageEffect, CaptureLeadEffect DEF Statement
    <3>. QED BY <3>1, <3>2
  <2>2. pc'[w] = "newConversation" => Chat(w)' \notin convos
    <3>1. CASE LoadConversation(w)
      BY <1>8, <3>1, LoadConversationEffect DEF LoadConversation, FlushEvent, At
    <3>2. CASE ~LoadConversation(w)
      BY <1>8, <3>2, StampEffect, LoadCustomerEffect, InsertCustomerEffect, InsertConversationEffect,
         StoreMessageEffect, CaptureLeadEffect DEF Statement
    <3>. QED BY <3>1, <3>2
  <2>3. pc'[w] # "stamp"
    <3>1. SUFFICES ASSUME FlushEvent(w), pc'[w] = "stamp" PROVE FALSE
      BY <1>8
    <3>2. todo'[w] = Tail(todo[w]) /\ To[Mid(w)'] \notin t.stamp /\ pc[w] = "flush"
      BY <1>2, <3>1, AfterFlush, FlushEffect DEF Stamped
    <3>3. todo'[w] # <<>> /\ todo'[w] \in Seq(Message)
      <4>1. IngestInv'
        BY StatementKeeps
      <4>. QED BY <3>1, <4>1 DEF IngestInv, Busy, TypeOK
    <3>4. Mid(w)' \in In(batch[w]) /\ Mid(w)' \in Message
      <4>1. ASSUME NEW q \in Seq(Message), q # <<>> PROVE Head(q) \in In(q) /\ Head(q) \in Message
        BY <4>1, InTail
      <4>2. Mid(w)' = Head(todo'[w])
        BY DEF Mid
      <4>. QED BY <1>4, <3>2, <3>3, <4>1, <4>2
    <3>5. To[Mid(w)'] = To[Mid(w)]
      BY <1>4, <1>10, <3>4, PrivateAccount
    <3>. QED BY <1>2, <3>2, <3>5 DEF StampsOwn, EventStep
  <2>. QED BY <1>1, <2>1, <2>2, <2>3 DEF FindsOwn
<1>11. ASSUME NEW v \in Worker, v # w PROVE StampsOwn(v)' /\ (Private(batch[v]) => FindsOwn(v)')
  <2>1. /\ tx'[v] = tx[v] /\ pc'[v] = pc[v]
        /\ Mid(v)' = Mid(v) /\ Chat(v)' = Chat(v) /\ Who(v)' = Who(v)
    BY <1>1, <1>11 DEF Mid, Chat, Who
  <2>2. StampsOwn(v) /\ (Private(batch[v]) => FindsOwn(v))
    BY DEF StampInv
  <2>3. \A u \in Worker : u # v => tx'[u].stamp \cap tx'[v].stamp = {}
    <3>1. tx'[w].stamp \cap tx'[v].stamp = {}
      BY <1>5, <1>11, <2>1
    <3>. QED BY <1>1, <2>1, <2>2, <3>1 DEF StampsOwn
  <2>4. Covered(v)'
    BY <2>1, <2>2 DEF StampsOwn, Covered
  <2>5. StampsOwn(v)'
    BY <2>1, <2>2, <2>3, <2>4 DEF StampsOwn
  <2>. QED BY <1>1, <2>1, <2>2, <2>5 DEF FindsOwn
<1>12. \A v \in Worker : Private(batch[v])' => Private(batch[v])
  BY <1>1 DEF Private
<1>. QED BY <1>9, <1>10, <1>11, <1>12

LEMMA StampStep ==
  ASSUME Platform = "whatsapp"
  PROVE  IngestInv /\ BatchInv /\ StampInv /\ [Next]_vars => StampInv'
<1> SUFFICES ASSUME IngestInv, BatchInv, StampInv, [Next]_vars PROVE StampInv'
  OBVIOUS
<1>1. AllWebhooks'
  BY WebhooksStep DEF StampInv
<1>2. \A w \in Worker : StampsOwn(w)' /\ (Private(batch[w])' => FindsOwn(w)')
  BY StepKinds, QuietKeepsStamp, CommitKeepsStamp, StatementKeepsStamp
<1>. QED BY <1>1, <1>2 DEF StampInv

\* What is newly answered was committed, has failed for an outside reason, or is
\* not private.
LEMMA AckedStep ==
  ASSUME IngestInv, BatchInv, StampInv, AckedIsStored, [Next]_vars
  PROVE  AckedIsStored'
<1>1. stored \subseteq stored'
  BY StepKinds, StatementFrame DEF Commit, dbVars, Quiet, rows
<1>2. broken \subseteq broken' /\ \A b \in acked' \ acked : \E w \in Worker :
        b = batch[w] /\ (Respond(w) \/ DbError(w) \/ (Fail(w) /\ (Statement(w) \/ BreakDeadlock(w))))
  <2>1. CASE UNCHANGED vars
    BY <2>1 DEF vars, metaVars, budgets
  <2>2. CASE Next
    <3>1. PICK w \in Worker :
            \/ (\E b \in Batch : Receive(w, b)) \/ (\E p \in Page : FetchPage(w, p))
            \/ Work(w) \/ DbError(w) \/ Crash(w)
      BY <2>2 DEF Next
    <3>2. CASE Statement(w) /\ ~Fail(w)
      BY <3>2, StatementFrame DEF metaVars, budgets
    <3>3. CASE Fail(w) /\ (Statement(w) \/ BreakDeadlock(w))
      <4>1. acked' \subseteq acked \cup {batch[w]}
        BY <3>3 DEF Fail
      <4>2. broken' = broken
        BY <3>3 DEF BreakDeadlock, budgets, Statement, Stamp, LoadCustomer, InsertCustomer,
                    LoadConversation, InsertConversation, StoreMessage, CaptureLead, FlushEvent, Run
      <4>. QED BY <3>3, <4>1, <4>2
    <3>4. CASE DbError(w)
      BY <3>4 DEF DbError, Fail
    <3>5. CASE Respond(w)
      BY <3>5 DEF Respond, budgets
    <3>6. CASE \/ (\E b \in Batch : Receive(w, b)) \/ (\E p \in Page : FetchPage(w, p))
               \/ Commit(w) \/ Finish(w) \/ Crash(w)
               \/ \E s \in Sender : RunProfile(w, s) \/ RaiseProfile(w, s)
               \/ \E m \in Message : RunReply(w, m)
      BY <3>6 DEF Receive, FetchPage, Commit, Finish, Crash, RunProfile, RaiseProfile, RunReply, metaVars,
                  budgets
    <3>7. BreakDeadlock(w) => Fail(w)
      BY DEF BreakDeadlock
    <3>. QED BY <3>1, <3>2, <3>3, <3>4, <3>5, <3>6, <3>7 DEF Work, Statement
  <2>. QED BY <2>1, <2>2
<1> SUFFICES ASSUME NEW b \in acked' \ broken', Private(b), NEW i \in DOMAIN b
             PROVE  b[i] \in stored' \cup Opening
  BY DEF AckedIsStored, Private
<1>3. CASE b \in acked
  BY <1>1, <1>2, <1>3 DEF AckedIsStored
<1>4. CASE b \notin acked
  <2>1. PICK w \in Worker :
          b = batch[w] /\ (Respond(w) \/ DbError(w) \/ (Fail(w) /\ (Statement(w) \/ BreakDeadlock(w))))
    BY <1>2, <1>4
  <2>2. ~(Fail(w) /\ (Statement(w) \/ BreakDeadlock(w)))
    BY <2>1, PrivateWaits, PrivateNeverFails DEF BreakDeadlock
  <2>3. ~DbError(w)
    BY <2>1 DEF DbError, StampInv, AllWebhooks
  <2>4. pc[w] = "respond"
    BY <2>1, <2>2, <2>3 DEF Respond
  <2>5. In(b) \subseteq stored \cup Opening
    BY <2>1, <2>4 DEF BatchInv, BatchOwn
  <2>. QED BY <1>1, <2>5 DEF In
<1>. QED BY <1>3, <1>4

\* No body that is private to an account waits in a circle.
PrivateInNoCircle == \A w \in Worker : Private(batch[w]) => ~InCircle(w)

\* A private body is never the victim of a deadlock, in whatever order it has its
\* customers, though bodies of several accounts can wait for each other's stamps:
\* before it has its stamp nobody waits for it, and after that it waits for nobody.
THEOREM StampsPreventDeadlock ==
  ASSUME Platform = "whatsapp"
  PROVE  Spec => []PrivateInNoCircle
<1>1. IngestInv /\ BatchInv /\ StampInv /\ [Next]_vars => StampInv'
  BY StampStep
<1>2. IngestInv /\ BatchInv /\ StampInv => PrivateInNoCircle
  BY PrivateWaits DEF PrivateInNoCircle
<1>. QED
  BY <1>1, <1>2, InitKeeps, NextKeeps, ChatInit, ChatStep, BatchInit, BatchStep, StampInit, PTL DEF Spec

\* What Meta is told of a private body is true on WhatsApp: it is stored when it
\* is answered, unless a statement failed for an outside reason, for any accounts,
\* any other bodies (that share customers or stamp several accounts, and may lose),
\* any overlap, redelivery, failing statement and crash.
THEOREM AnsweredIsStored ==
  ASSUME Platform = "whatsapp"
  PROVE  Spec => []AckedIsStored
<1>1. IngestInv /\ BatchInv /\ StampInv /\ [Next]_vars => StampInv'
  BY StampStep
<1>2. IngestInv /\ BatchInv /\ StampInv /\ AckedIsStored /\ [Next]_vars => AckedIsStored'
  BY AckedStep
<1>3. Init => AckedIsStored
  BY DEF Init, AckedIsStored
<1>. QED
  BY <1>1, <1>2, <1>3, InitKeeps, NextKeeps, ChatInit, ChatStep, BatchInit, BatchStep, StampInit, PTL
     DEF Spec
=============================================================================
