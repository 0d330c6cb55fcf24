------------------------ MODULE ReplyPipeline_proofs ------------------------
(* Theorems about ReplyPipeline, for any tasks, people, photos and times. *)
EXTENDS ReplyPipeline, TLAPS

-----------------------------------------------------------------------------
(* Type correctness *)

\* Every step keeps the variables in their types.
LEMMA TypeStep == TypeOK /\ [Next]_vars => TypeOK'
<1> SUFFICES ASSUME TypeOK, [Next]_vars PROVE TypeOK'
  OBVIOUS
<1> USE PipelineAssumption
<1> USE DEF TypeOK, Goto, OnlyTask, taskVars, dashVars, budgets, TaskStep
<1>1. ASSUME NEW t \in Task, Begin(t) PROVE TypeOK'
  <2>1. pc'[t] \in TaskStep /\ pc' \in [Task -> TaskStep]
    BY <1>1 DEF Begin
  <2>. QED BY <1>1, <2>1 DEF Begin
<1>2. ASSUME NEW t \in Task, Check(t) PROVE TypeOK'
  BY <1>2 DEF Check
<1>3. ASSUME NEW t \in Task, PlanPhotos(t) PROVE TypeOK'
  BY <1>3 DEF PlanPhotos
<1>4. ASSUME NEW t \in Task, Generate(t) PROVE TypeOK'
  BY <1>4 DEF Generate
<1>5. ASSUME NEW t \in Task, Recheck(t) PROVE TypeOK'
  BY <1>5 DEF Recheck
<1>6. ASSUME NEW t \in Task, PhotoCheck(t) PROVE TypeOK'
  BY <1>6 DEF PhotoCheck
<1>7. ASSUME NEW t \in Task, PhotoRecent(t) PROVE TypeOK'
  BY <1>7 DEF PhotoRecent
<1>8. ASSUME NEW t \in Task, HandOver(t) PROVE TypeOK'
  BY <1>8 DEF HandOver, Handover
<1>9. ASSUME NEW t \in Task, Send(t) PROVE TypeOK'
  <2>1. <<t, next[t]>> \in OutId
    BY DEF OutId
  <2>. QED BY <1>9, <2>1 DEF Send
<1>10. ASSUME NEW t \in Task, Store(t) PROVE TypeOK'
  <2>1. <<t, next[t]>> \in OutId
    BY DEF OutId
  <2>2. StoredAs(t) \in Row
    BY <2>1 DEF StoredAs, Row
  <2>3. row' \in [OutId -> Row \cup {None}]
    BY <1>10, <2>1, <2>2 DEF Store
  <2>4. next' \in [Task -> 0..Photos]
    BY <1>10 DEF Store
  <2>. QED BY <1>10, <2>3, <2>4 DEF Store
<1>11. ASSUME NEW t \in Task, CrashTask(t) PROVE TypeOK'
  BY <1>11 DEF CrashTask
<1>12. ASSUME NEW h \in HumanReply, HumanNext(h) PROVE TypeOK'
  <2>1. h \in OutId
    BY DEF OutId
  <2>2. CASE AnswerInApp(h)
    BY <2>1, <2>2 DEF AnswerInApp, OnlyDash
  <2>3. CASE OpenReply(h)
    BY <2>1, <2>3 DEF OpenReply, OnlyDash
  <2>4. CASE SendReply(h)
    BY <2>1, <2>4 DEF SendReply, OnlyDash
  <2>5. CASE StoreReply(h)
    <3>1. [sender |-> "agent", at |-> dashBegan[h], saved |-> now, campaign |-> FALSE] \in Row
      BY DEF Row
    <3>. QED BY <2>1, <2>5, <3>1 DEF StoreReply, OnlyDash
  <2>. QED BY <1>12, <2>2, <2>3, <2>4, <2>5 DEF HumanNext
<1>13. CASE SetAi
  BY <1>13 DEF SetAi
<1>14. ASSUME NEW id \in OutId, Echo(id) PROVE TypeOK'
  <2>1. [sender |-> "agent", at |-> now, saved |-> now, campaign |-> FALSE] \in Row
    BY DEF Row
  <2>. QED BY <1>14, <2>1 DEF Echo
<1>15. CASE Tick
  BY <1>15 DEF Tick, Time
<1>16. CASE UNCHANGED vars
  BY <1>16 DEF vars
<1>. QED
  BY <1>1, <1>2, <1>3, <1>4, <1>5, <1>6, <1>7, <1>8, <1>9, <1>10, <1>11, <1>12,
     <1>13, <1>14, <1>15, <1>16 DEF Next, TaskNext

\* Every reachable state is well typed.
THEOREM TypeCorrect == Spec => []TypeOK
<1>1. Init => TypeOK
  BY PipelineAssumption DEF Init, TypeOK, TaskStep, Time
<1>. QED
  BY <1>1, TypeStep, PTL DEF Spec

-----------------------------------------------------------------------------
(* The bot's own messages *)

\* What every step leaves of a bot message that is settled: it stays the bot's
\* row, and a message only becomes settled by being stored.
LEMMA LabelStep == TypeOK /\ OwnReplyLabelled /\ [Next]_vars => OwnReplyLabelled'
<1> SUFFICES ASSUME TypeOK, OwnReplyLabelled, [Next]_vars, lost' = 0,
                    NEW u \in Task, NEW i \in 0..Photos, Settled(u, i)'
             PROVE  row'[<<u, i>>] # None /\ row'[<<u, i>>].sender = "ai"
  BY DEF OwnReplyLabelled
<1> DEFINE id == <<u, i>>
           Labelled == row[id] # None /\ row[id].sender = "ai"
<1> USE PipelineAssumption
<1>a. id \in OutId /\ id \notin HumanReply
  BY DEF OutId
<1>b. lost = 0 /\ Settled(u, i) => Labelled
  BY DEF OwnReplyLabelled
<1>c. ASSUME UNCHANGED <<row, sent, lost, next>>,
             pc' = pc \/ \E t \in Task, step \in TaskStep :
                          pc' = [pc EXCEPT ![t] = step] /\ pc[t] \notin {"store", "crashed"}
      PROVE  Labelled'
  BY <1>b, <1>c DEF Settled, TypeOK, TaskStep
<1>1. ASSUME NEW t \in Task, TaskNext(t), ~Send(t), ~Store(t) PROVE Labelled'
  <2>1. UNCHANGED <<row, sent, lost, next>>
    BY <1>1 DEF TaskNext, OnlyTask, budgets, Begin, Check, PlanPhotos, Generate, Recheck,
                PhotoCheck, PhotoRecent, HandOver
  <2>2. \E step \in TaskStep : pc' = [pc EXCEPT ![t] = step]
    <3>1. CASE Begin(t)
      BY <3>1 DEF Begin, Goto, TaskStep
    <3>2. CASE ~Begin(t)
      BY <1>1, <3>2 DEF TaskNext, Check, PlanPhotos, Generate, Recheck, PhotoCheck,
                        PhotoRecent, HandOver, Goto, TaskStep
    <3>. QED BY <3>1, <3>2
  <2>3. pc[t] \notin {"store", "crashed"}
    BY <1>1 DEF TaskNext, Begin, Check, PlanPhotos, Generate, Recheck, PhotoCheck,
                PhotoRecent, HandOver
  <2>. QED BY <1>c, <2>1, <2>2, <2>3
<1>2. ASSUME NEW t \in Task, Send(t) PROVE Labelled'
  <2>1. <<t, next[t]>> \in OutId
    BY DEF OutId, TypeOK
  <2>2. lost' = lost
    BY <1>2 DEF Send, TypeOK
  <2>3. row' = row /\ next' = next
    BY <1>2 DEF Send
  <2>4. CASE u = t /\ i = next[t]
    <3>1. pc'[t] # "store"
      BY <2>3, <2>4 DEF Settled
    <3>2. sent' = sent
      BY <1>2, <2>2, <3>1 DEF Send, Goto, TypeOK
    <3>. QED BY <1>2, <1>b, <2>2, <2>3, <2>4, <3>2 DEF Settled, Send
  <2>5. CASE ~(u = t /\ i = next[t])
    <3>1. sent'[id] = sent[id]
      BY <1>2, <1>a, <2>1, <2>5 DEF Send, TypeOK
    <3>2. Settled(u, i)
      BY <1>2, <2>3, <2>5, <3>1 DEF Settled, Send, Goto, TypeOK
    <3>. QED BY <1>b, <2>2, <2>3, <3>2
  <2>. QED BY <2>4, <2>5
<1>3. ASSUME NEW t \in Task, Store(t) PROVE Labelled'
  <2>1. <<t, next[t]>> \in OutId
    BY DEF OutId, TypeOK
  <2>2. StoredAs(t) # None /\ StoredAs(t).sender = "ai"
    <3> DEFINE old == row[<<t, next[t]>>]
    <3>1. old = None \/ old \in Row
      BY <2>1 DEF TypeOK
    <3>2. CASE old = None
      <4>1. StoredAs(t) = [sender |-> "ai", at |-> now, saved |-> now, campaign |-> next[t] > 0]
        BY <3>2 DEF StoredAs
      <4>2. [sender |-> "ai", at |-> now, saved |-> now, campaign |-> next[t] > 0] \in Row
        BY DEF TypeOK, Row
      <4>. QED BY <4>1, <4>2
    <3>3. CASE old \in Row /\ old # None
      <4>1. StoredAs(t) = [old EXCEPT !.sender = "ai"]
        BY <3>3 DEF StoredAs
      <4>2. ASSUME NEW r \in Row
            PROVE  [r EXCEPT !.sender = "ai"] \in Row /\ [r EXCEPT !.sender = "ai"].sender = "ai"
        BY DEF Row
      <4>. QED BY <3>3, <4>1, <4>2
    <3>. QED BY <3>1, <3>2, <3>3
  <2>3. row' = [row EXCEPT ![<<t, next[t]>>] = StoredAs(t)] /\ sent' = sent /\ lost' = lost
    BY <1>3 DEF Store, budgets
  <2>4. CASE u = t /\ i = next[t]
    BY <1>a, <2>2, <2>3, <2>4 DEF TypeOK
  <2>5. CASE ~(u = t /\ i = next[t])
    <3>1. row'[id] = row[id]
      BY <1>a, <2>1, <2>3, <2>5 DEF TypeOK
    <3>2. Settled(u, i)
      BY <1>3, <2>3, <2>5 DEF Settled, Store, Goto, TypeOK
    <3>. QED BY <1>b, <2>3, <3>1, <3>2
  <2>. QED BY <2>4, <2>5
<1>4. ASSUME NEW t \in Task, CrashTask(t) PROVE Labelled'
  <2>1. Settled(u, i)
    BY <1>4 DEF CrashTask, Goto, Settled, TypeOK
  <2>. QED BY <1>4, <1>b, <2>1 DEF CrashTask
<1>5. ASSUME NEW h \in HumanReply, HumanNext(h) PROVE Labelled'
  <2>1. sent'[id] = sent[id] /\ row'[id] = row[id]
    BY <1>5, <1>a DEF HumanNext, AnswerInApp, OpenReply, SendReply, StoreReply, TypeOK
  <2>2. UNCHANGED <<pc, next>> /\ (lost' = lost \/ lost' = lost + 1)
    BY <1>5 DEF HumanNext, AnswerInApp, OpenReply, SendReply, StoreReply, OnlyDash, taskVars
  <2>3. lost = 0
    BY <1>a, <1>b, <2>2 DEF TypeOK
  <2>. QED BY <1>b, <2>1, <2>2, <2>3 DEF Settled
<1>6. ASSUME NEW e \in OutId, Echo(e) PROVE Labelled'
  <2>1. UNCHANGED <<sent, lost, pc, next>>
    BY <1>6 DEF Echo, taskVars, budgets
  <2>2. Labelled
    BY <1>b, <2>1 DEF Settled
  <2>. QED BY <1>6, <1>a, <2>2 DEF Echo, TypeOK
<1>7. CASE SetAi \/ Tick \/ UNCHANGED vars
  BY <1>7, <1>b DEF SetAi, Tick, vars, taskVars, budgets, Settled
<1>. QED
  BY <1>1, <1>2, <1>3, <1>4, <1>5, <1>6, <1>7 DEF Next

\* "Our own replies echo back under the id we stored": whatever the order of the
\* echo and the store, the stored message ends up as the bot's.
THEOREM OwnReplies == Spec => []OwnReplyLabelled
<1>1. Init => OwnReplyLabelled
  BY DEF Init, OwnReplyLabelled, Settled, OutId
<1>. QED
  BY <1>1, LabelStep, TypeCorrect, PTL DEF Spec

-----------------------------------------------------------------------------
(* What a person's reply does to the bot *)

\* Steps at which the task has found no person in the chat and goes on to send,
\* and steps at which it has sent nothing yet.
Cleared == {"photosRecent", "photoRecent", "handOver", "send", "store"}
Unsent == {"queued", "check", "photosRecent", "generate", "recheck", "photoCheck",
           "photoRecent", "handOver"}

\* A row the task could have seen when it last looked is out of the pause.
ClearedOfPeople ==
  \A t \in Task, h \in HumanReply :
    pc[t] \in Cleared /\ row[h] # None /\ row[h].saved < since[t] => now - row[h].at >= Pause

SilenceInv ==
  /\ \A h \in HumanReply : row[h] # None => row[h].sender = "agent"
  /\ \A t \in Task : since[t] <= now
  /\ \A t \in Task, i \in 0..Photos : pc[t] \in Unsent => sent[<<t, i>>] = None
  /\ ClearedOfPeople
  /\ PersonSilencesBot

\* A row is only there for a message that was sent.
SentInv ==
  \A t \in Task :
    /\ pc[t] = "store" => sent[<<t, next[t]>>] # None
    /\ \A i \in 0..Photos : row[<<t, i>>] # None => sent[<<t, i>>] # None

\* Every step keeps SentInv.
LEMMA SentStep == TypeOK /\ SentInv /\ [Next]_vars => SentInv'
<1> SUFFICES ASSUME TypeOK, SentInv, [Next]_vars, NEW u \in Task
             PROVE  /\ pc'[u] = "store" => sent'[<<u, next'[u]>>] # None
                    /\ \A i \in 0..Photos : row'[<<u, i>>] # None => sent'[<<u, i>>] # None
  BY DEF SentInv
<1> USE PipelineAssumption
<1>a. /\ pc[u] = "store" => sent[<<u, next[u]>>] # None
      /\ \A i \in 0..Photos : row[<<u, i>>] # None => sent[<<u, i>>] # None
  BY DEF SentInv
<1>b. /\ \A t \in Task, i \in 0..Photos : <<t, i>> \in OutId /\ <<t, i>> \notin HumanReply
      /\ now # None
  BY DEF OutId, TypeOK
<1>1. ASSUME NEW t \in Task, TaskNext(t), ~Send(t), ~Store(t)
      PROVE  UNCHANGED <<row, sent, next>> /\ (pc'[u] = "store" => pc[u] = "store")
  <2>1. UNCHANGED <<row, sent, next>>
    BY <1>1 DEF TaskNext, OnlyTask, Begin, Check, PlanPhotos, Generate, Recheck,
                PhotoCheck, PhotoRecent, HandOver
  <2>2. CASE Begin(t)
    BY <2>1, <2>2 DEF Begin, Goto, TypeOK
  <2>3. CASE ~Begin(t)
    BY <1>1, <2>1, <2>3 DEF TaskNext, Check, PlanPhotos, Generate, Recheck, PhotoCheck,
                            PhotoRecent, HandOver, Goto, TypeOK
  <2>. QED BY <2>2, <2>3
<1>2. ASSUME NEW t \in Task, Send(t)
      PROVE  /\ pc'[u] = "store" => sent'[<<u, next'[u]>>] # None
             /\ \A i \in 0..Photos : row'[<<u, i>>] # None => sent'[<<u, i>>] # None
  <2>1. row' = row /\ next' = next
    BY <1>2 DEF Send
  <2>2. sent' = sent \/ sent' = [sent EXCEPT ![<<t, next[t]>>] = now]
    BY <1>2 DEF Send
  <2>3. \A i \in 0..Photos : sent[<<u, i>>] # None => sent'[<<u, i>>] # None
    BY <1>b, <2>2 DEF TypeOK
  <2>4. CASE u = t
    <3>1. pc'[u] = "store" => sent' = [sent EXCEPT ![<<t, next[t]>>] = now]
      BY <1>2, <2>4 DEF Send, Goto, TypeOK
    <3>2. pc'[u] = "store" => sent'[<<u, next'[u]>>] # None
      BY <1>b, <2>1, <2>4, <3>1 DEF TypeOK
    <3>. QED BY <1>a, <2>1, <2>3, <3>2
  <2>5. CASE u # t
    <3>1. pc'[u] = pc[u] /\ next[u] \in 0..Photos
      BY <1>2, <2>5 DEF Send, Goto, TypeOK
    <3>. QED BY <1>a, <2>1, <2>3, <3>1
  <2>. QED BY <2>4, <2>5
<1>3. ASSUME NEW t \in Task, Store(t)
      PROVE  /\ pc'[u] = "store" => sent'[<<u, next'[u]>>] # None
             /\ \A i \in 0..Photos : row'[<<u, i>>] # None => sent'[<<u, i>>] # None
  <2>1. sent' = sent /\ row' = [row EXCEPT ![<<t, next[t]>>] = StoredAs(t)]
    BY <1>3 DEF Store
  <2>2. pc'[u] = "store" => pc[u] = "store" /\ next'[u] = next[u]
    BY <1>3 DEF Store, Goto, TypeOK
  <2>3. sent[<<t, next[t]>>] # None
    BY <1>3 DEF SentInv, Store
  <2>4. ASSUME NEW i \in 0..Photos, row'[<<u, i>>] # None PROVE sent'[<<u, i>>] # None
    <3>1. CASE <<u, i>> = <<t, next[t]>>
      BY <2>1, <2>3, <3>1
    <3>2. CASE <<u, i>> # <<t, next[t]>>
      BY <1>a, <1>b, <2>1, <2>4, <3>2 DEF TypeOK
    <3>. QED BY <3>1, <3>2
  <2>. QED BY <1>a, <2>1, <2>2, <2>4
<1>4. ASSUME NEW t \in Task, CrashTask(t)
      PROVE  UNCHANGED <<row, sent, next>> /\ (pc'[u] = "store" => pc[u] = "store")
  BY <1>4 DEF CrashTask, Goto, TypeOK
<1>5. ASSUME NEW h \in HumanReply, HumanNext(h)
      PROVE  /\ UNCHANGED <<pc, next>>
             /\ \A i \in 0..Photos : row'[<<u, i>>] = row[<<u, i>>] /\ sent'[<<u, i>>] = sent[<<u, i>>]
  BY <1>5, <1>b DEF HumanNext, AnswerInApp, OpenReply, SendReply, StoreReply, OnlyDash, taskVars, TypeOK
<1>6. ASSUME NEW e \in OutId, Echo(e)
      PROVE  \A i \in 0..Photos : row'[<<u, i>>] # None => sent'[<<u, i>>] # None
  BY <1>6, <1>a, <1>b DEF Echo, TypeOK
<1>7. ASSUME NEW e \in OutId, Echo(e) PROVE UNCHANGED <<pc, next, sent>>
  BY <1>7 DEF Echo, taskVars
<1>8. CASE SetAi \/ Tick \/ UNCHANGED vars
  BY <1>8, <1>a DEF SetAi, Tick, vars, taskVars
<1>9. next[u] \in 0..Photos
  BY DEF TypeOK
<1>. QED
  BY <1>a, <1>1, <1>2, <1>3, <1>4, <1>5, <1>6, <1>7, <1>8, <1>9 DEF Next

\* A handover no person has answered stays in the inbox's attention list: between
\* a send and its row an echo may hide it, after that nothing the bot says does.
THEOREM AttentionStays == Spec => []AttentionKept
<1>1. Init => SentInv
  BY DEF Init, SentInv, OutId
<1>2. TypeOK /\ SentInv /\ OwnReplyLabelled => AttentionKept
  <2> SUFFICES ASSUME TypeOK, SentInv, OwnReplyLabelled, lost = 0,
                      \A t \in Task : pc[t] \notin {"store", "crashed"},
                      NEW e \in handovers, ~Answered(e),
                      NEW id \in OutId, row[id] # None, row[id].sender = "agent", row[id].at > e.at
               PROVE  FALSE
    BY DEF AttentionKept, NeedsAttention
  <2>1. id \notin HumanReply
    BY DEF Answered
  <2>2. PICK t \in Task, i \in 0..Photos : id = <<t, i>>
    BY <2>1 DEF OutId
  <2>3. Settled(t, i)
    BY <2>2 DEF SentInv, Settled
  <2>. QED BY <2>2, <2>3 DEF OwnReplyLabelled
<1>. QED
  BY <1>1, <1>2, SentStep, OwnReplies, TypeCorrect, PTL DEF Spec

-----------------------------------------------------------------------------

\* A task that sees no person in the chat has no person's row within the pause.
LEMMA NobodyThere ==
  ASSUME TypeOK, SilenceInv, ~HumanActive, NEW h \in HumanReply, row[h] # None
  PROVE  now - row[h].at >= Pause
<1>1. h \in OutId /\ row[h] \in Row /\ row[h].sender = "agent"
  BY DEF OutId, TypeOK, SilenceInv
<1>2. ~(row[h].at > now - Pause)
  BY <1>1 DEF HumanActive
<1>. QED
  BY <1>1, <1>2, PipelineAssumption DEF TypeOK, Row, Time

\* Steps of a task that neither send nor write, taken by the task t.
QuietTaskStep(t) ==
  \/ Begin(t) \/ Check(t) \/ PlanPhotos(t) \/ Generate(t) \/ Recheck(t)
  \/ PhotoCheck(t) \/ PhotoRecent(t) \/ HandOver(t) \/ CrashTask(t)

\* Such a step may only enter Cleared by looking for a person, and may only
\* reset its time while it has sent nothing.
LEMMA QuietStep ==
  ASSUME TypeOK, SilenceInv, NEW t \in Task, QuietTaskStep(t)
  PROVE  /\ UNCHANGED <<now, row, sent>>
         /\ \A u \in Task : u # t => pc'[u] = pc[u] /\ since'[u] = since[u]
         /\ pc'[t] \in Unsent => pc[t] \in Unsent
         /\ since'[t] = since[t] \/ (since'[t] = now /\ pc[t] \in Unsent /\ pc'[t] \notin Cleared)
         /\ pc'[t] \in Cleared => pc[t] \in Cleared \/ ~HumanActive
<1> USE DEF TypeOK, Goto, OnlyTask, Unsent, Cleared
<1>1. CASE Begin(t)
  <2>1. pc'[t] \in {"photoCheck", "done", "check"}
    BY <1>1 DEF Begin
  <2>. QED BY <1>1, <2>1 DEF Begin
<1>2. CASE Check(t)
  BY <1>2 DEF Check
<1>3. CASE PlanPhotos(t) \/ Generate(t) \/ Recheck(t)
  BY <1>3 DEF PlanPhotos, Generate, Recheck
<1>4. CASE PhotoCheck(t) \/ PhotoRecent(t) \/ HandOver(t)
  BY <1>4 DEF PhotoCheck, PhotoRecent, HandOver
<1>5. CASE CrashTask(t)
  BY <1>5 DEF CrashTask
<1>. QED
  BY <1>1, <1>2, <1>3, <1>4, <1>5 DEF QuietTaskStep

\* Every step keeps SilenceInv.
LEMMA SilenceStep == TypeOK /\ SilenceInv /\ [Next]_vars => SilenceInv'
<1> SUFFICES ASSUME TypeOK, SilenceInv, [Next]_vars PROVE SilenceInv'
  OBVIOUS
<1> USE PipelineAssumption
<1>a. TypeOK'
  BY TypeStep
<1>b. /\ \A h \in HumanReply : h \in OutId
      /\ \A h \in HumanReply : row[h] = None \/ row[h] \in Row
      /\ \A t \in Task, i \in 0..Photos : <<t, i>> \in OutId /\ <<t, i>> \notin HumanReply
      /\ \A t \in Task : next[t] \in 0..Photos
  BY DEF OutId, TypeOK
<1>1. ASSUME NEW t \in Task, QuietTaskStep(t) PROVE SilenceInv'
  <2>1. \A h \in HumanReply : row'[h] # None => row'[h].sender = "agent"
    BY <1>1, QuietStep DEF SilenceInv
  <2>2. \A u \in Task : since'[u] <= now'
    BY <1>1, QuietStep DEF SilenceInv, TypeOK, Time
  <2>3. \A u \in Task, i \in 0..Photos : pc'[u] \in Unsent => sent'[<<u, i>>] = None
    BY <1>1, QuietStep DEF SilenceInv
  <2>4. ClearedOfPeople'
    <3> SUFFICES ASSUME NEW u \in Task, NEW h \in HumanReply, pc'[u] \in Cleared,
                        row'[h] # None, row'[h].saved < since'[u]
                 PROVE  now' - row'[h].at >= Pause
      BY DEF ClearedOfPeople
    <3>1. UNCHANGED <<now, row>> /\ since'[u] = since[u] /\ (pc[u] \in Cleared \/ ~HumanActive)
      BY <1>1, QuietStep
    <3>. QED BY <3>1, NobodyThere DEF SilenceInv, ClearedOfPeople
  <2>5. PersonSilencesBot'
    <3> SUFFICES ASSUME NEW u \in Task, NEW i \in 0..Photos, NEW h \in HumanReply,
                        sent'[<<u, i>>] # None, row'[h] # None, row'[h].saved < since'[u]
                 PROVE  sent'[<<u, i>>] - row'[h].at >= Pause
      BY DEF PersonSilencesBot
    <3>1. UNCHANGED <<row, sent>> /\ (since'[u] = since[u] \/ pc[u] \in Unsent)
      BY <1>1, QuietStep
    <3>. QED BY <3>1 DEF SilenceInv, PersonSilencesBot
  <2>. QED BY <2>1, <2>2, <2>3, <2>4, <2>5 DEF SilenceInv
<1>2. ASSUME NEW t \in Task, Send(t) PROVE SilenceInv'
  <2>1. /\ UNCHANGED <<now, row, since>> /\ pc[t] = "send"
        /\ \A u \in Task : pc'[u] = pc[u] \/ (pc'[u] \in {"store", "done"} /\ u = t)
        /\ sent' = sent \/ sent' = [sent EXCEPT ![<<t, next[t]>>] = now]
    BY <1>2 DEF Send, Goto, TypeOK
  <2>2. \A u \in Task, i \in 0..Photos :
           sent'[<<u, i>>] = sent[<<u, i>>] \/ (u = t /\ sent'[<<u, i>>] = now)
    BY <1>b, <2>1 DEF TypeOK
  <2>3. \A u \in Task, i \in 0..Photos : pc'[u] \in Unsent => sent'[<<u, i>>] = None
    BY <2>1, <2>2 DEF SilenceInv, Unsent
  <2>4. ClearedOfPeople'
    BY <2>1 DEF SilenceInv, ClearedOfPeople, Cleared
  <2>5. PersonSilencesBot'
    <3> SUFFICES ASSUME NEW u \in Task, NEW i \in 0..Photos, NEW h \in HumanReply,
                        sent'[<<u, i>>] # None, row[h] # None, row[h].saved < since[u]
                 PROVE  sent'[<<u, i>>] - row[h].at >= Pause
      BY <2>1 DEF PersonSilencesBot
    <3>1. CASE sent'[<<u, i>>] = sent[<<u, i>>]
      BY <3>1 DEF SilenceInv, PersonSilencesBot
    <3>2. CASE u = t /\ sent'[<<u, i>>] = now
      BY <2>1, <3>2 DEF SilenceInv, ClearedOfPeople, Cleared
    <3>. QED BY <2>2, <3>1, <3>2
  <2>. QED BY <2>1, <2>3, <2>4, <2>5 DEF SilenceInv
<1>3. ASSUME NEW t \in Task, Store(t) PROVE SilenceInv'
  <2>1. /\ UNCHANGED <<now, since, sent>> /\ pc[t] = "store"
        /\ \A u \in Task : pc'[u] = pc[u] \/ (pc'[u] \in {"send", "done"} /\ u = t)
    BY <1>3 DEF Store, Goto, TypeOK
  <2>2. \A h \in HumanReply : row'[h] = row[h]
    BY <1>3, <1>b DEF Store, TypeOK
  <2>3. \A u \in Task, i \in 0..Photos : pc'[u] \in Unsent => sent'[<<u, i>>] = None
    BY <2>1 DEF SilenceInv, Unsent
  <2>4. ClearedOfPeople'
    BY <2>1, <2>2 DEF SilenceInv, ClearedOfPeople, Cleared
  <2>5. PersonSilencesBot'
    BY <2>1, <2>2 DEF SilenceInv, PersonSilencesBot
  <2>. QED BY <2>1, <2>2, <2>3, <2>4, <2>5 DEF SilenceInv
<1>4. ASSUME UNCHANGED <<now, pc, since>>,
             \A t \in Task, i \in 0..Photos : sent'[<<t, i>>] = sent[<<t, i>>],
             \A h \in HumanReply :
               \/ row'[h] = row[h]
               \/ row'[h] # None /\ row'[h].sender = "agent" /\ row'[h].saved = now
      PROVE  SilenceInv'
  <2>1. \A t \in Task, h \in HumanReply :
           row'[h] # None /\ row'[h].saved < since'[t] => row'[h] = row[h]
    BY <1>4 DEF SilenceInv, TypeOK, Time
  <2>2. ClearedOfPeople' /\ PersonSilencesBot'
    BY <1>4, <2>1 DEF SilenceInv, ClearedOfPeople, PersonSilencesBot
  <2>. QED BY <1>4, <2>2 DEF SilenceInv
<1>5. ASSUME NEW h \in HumanReply, HumanNext(h) PROVE SilenceInv'
  <2>1. UNCHANGED <<now, pc, since>>
    BY <1>5 DEF HumanNext, AnswerInApp, OpenReply, SendReply, StoreReply, OnlyDash, taskVars
  <2>2. \A t \in Task, i \in 0..Photos : sent'[<<t, i>>] = sent[<<t, i>>]
    <3>1. sent' = sent \/ sent' = [sent EXCEPT ![h] = now]
      BY <1>5 DEF HumanNext, AnswerInApp, OpenReply, SendReply, StoreReply
    <3>2. ASSUME NEW t \in Task, NEW i \in 0..Photos PROVE sent'[<<t, i>>] = sent[<<t, i>>]
      <4>1. <<t, i>> \in OutId /\ <<t, i>> # h
        BY <1>b
      <4>. QED BY <3>1, <4>1 DEF TypeOK
    <3>. QED BY <3>2
  <2>3. row' = row \/ row' = [row EXCEPT ![h] = [sender |-> "agent", at |-> dashBegan[h],
                                                 saved |-> now, campaign |-> FALSE]]
    BY <1>5 DEF HumanNext, AnswerInApp, OpenReply, SendReply, StoreReply
  <2>4. [sender |-> "agent", at |-> dashBegan[h], saved |-> now, campaign |-> FALSE] \in Row
    BY DEF TypeOK, Row
  <2>5. \A g \in HumanReply :
          \/ row'[g] = row[g]
          \/ row'[g] # None /\ row'[g].sender = "agent" /\ row'[g].saved = now
    <3> SUFFICES ASSUME NEW g \in HumanReply, row'[g] # row[g]
                 PROVE  row'[g] # None /\ row'[g].sender = "agent" /\ row'[g].saved = now
      OBVIOUS
    <3>1. row'[g] = [sender |-> "agent", at |-> dashBegan[h], saved |-> now, campaign |-> FALSE]
      BY <1>b, <2>3 DEF TypeOK
    <3>2. row'[g] \in Row
      BY <2>4, <3>1
    <3>3. row'[g].sender = "agent" /\ row'[g].saved = now
      BY <3>1
    <3>. QED BY <3>2, <3>3
  <2>. QED BY <1>4, <2>1, <2>2, <2>5
<1>6. ASSUME NEW id \in OutId, Echo(id) PROVE SilenceInv'
  <2>1. UNCHANGED <<now, pc, since, sent>>
    BY <1>6 DEF Echo, taskVars
  <2>2. [sender |-> "agent", at |-> now, saved |-> now, campaign |-> FALSE] \in Row
    BY DEF TypeOK, Row
  <2>3. \A g \in HumanReply :
          \/ row'[g] = row[g]
          \/ row'[g] # None /\ row'[g].sender = "agent" /\ row'[g].saved = now
    BY <1>6, <1>b, <2>2 DEF Echo, TypeOK
  <2>. QED BY <1>4, <2>1, <2>3
<1>7. CASE SetAi \/ UNCHANGED vars
  BY <1>4, <1>7 DEF SetAi, vars, taskVars
<1>8. CASE Tick
  <2>1. now' = now + 1 /\ UNCHANGED <<row, pc, since, sent>>
    BY <1>8 DEF Tick, taskVars
  <2>2. \A t \in Task : since'[t] <= now'
    BY <2>1 DEF SilenceInv, TypeOK, Time
  <2>3. ClearedOfPeople'
    BY <1>b, <2>1 DEF SilenceInv, ClearedOfPeople, TypeOK, Time, Row
  <2>. QED BY <2>1, <2>2, <2>3 DEF SilenceInv, PersonSilencesBot
<1>. QED
  BY <1>1, <1>2, <1>3, <1>5, <1>6, <1>7, <1>8 DEF Next, TaskNext, QuietTaskStep

\* Once a person's reply is stored, no task that begins (or comes back from the
\* LLM) after it sends anything before the pause is over.
THEOREM PersonSilences == Spec => []PersonSilencesBot
<1>1. Init => SilenceInv
  BY DEF Init, SilenceInv, ClearedOfPeople, PersonSilencesBot, OutId, Cleared
<1>2. SilenceInv => PersonSilencesBot
  BY DEF SilenceInv
<1>. QED
  BY <1>1, <1>2, SilenceStep, TypeCorrect, PTL DEF Spec

-----------------------------------------------------------------------------
(* The AI setting *)

\* Steps a task only comes to with the AI setting it loaded on.
Speaking == {"photosRecent", "generate", "recheck", "send", "store"}

AiInv ==
  /\ \A t \in Task : pc[t] \in Speaking => aiSeen[t]
  /\ \A t \in Task, i \in 0..Photos : pc[t] = "queued" => sent[<<t, i>>] = None
  /\ AiOffIsQuiet

\* A step of a task that neither sends nor stores keeps AiInv: only Begin loads
\* the setting, and a task that begins has sent nothing.
LEMMA QuietKeepsAi ==
  ASSUME TypeOK, AiInv, NEW t \in Task, QuietTaskStep(t)
  PROVE  AiInv'
<1> USE DEF TypeOK, Goto, OnlyTask
<1>1. /\ sent' = sent /\ \A u \in Task : u # t => pc'[u] = pc[u] /\ aiSeen'[u] = aiSeen[u]
      /\ pc'[t] # "queued"
      /\ pc[t] # "queued" => aiSeen'[t] = aiSeen[t]
      /\ pc'[t] \in Speaking => aiSeen'[t]
  <2> USE DEF AiInv, Speaking
  <2>1. CASE Begin(t)
    <3>1. pc'[t] \in {"photoCheck", "done", "check"}
      BY <2>1 DEF Begin
    <3>. QED BY <2>1, <3>1 DEF Begin
  <2>2. CASE Check(t)
    BY <2>2 DEF Check
  <2>3. CASE PlanPhotos(t) \/ Generate(t) \/ Recheck(t)
    BY <2>3 DEF PlanPhotos, Generate, Recheck
  <2>4. CASE PhotoCheck(t) \/ PhotoRecent(t) \/ HandOver(t)
    BY <2>4 DEF PhotoCheck, PhotoRecent, HandOver
  <2>5. CASE CrashTask(t)
    BY <2>5 DEF CrashTask
  <2>. QED
    BY <2>1, <2>2, <2>3, <2>4, <2>5 DEF QuietTaskStep
<1>. QED BY <1>1 DEF AiInv, AiOffIsQuiet

\* Every step keeps AiInv.
LEMMA AiStep == TypeOK /\ AiInv /\ [Next]_vars => AiInv'
<1> SUFFICES ASSUME TypeOK, AiInv, [Next]_vars PROVE AiInv'
  OBVIOUS
<1>a. \A t \in Task, i \in 0..Photos : <<t, i>> \in OutId /\ <<t, i>> \notin HumanReply
  BY PipelineAssumption DEF OutId
<1>1. ASSUME NEW t \in Task, QuietTaskStep(t) PROVE AiInv'
  BY <1>1, QuietKeepsAi
<1>2. ASSUME NEW t \in Task, Send(t) PROVE AiInv'
  <2>1. /\ UNCHANGED aiSeen /\ pc[t] = "send" /\ aiSeen[t]
        /\ \A u \in Task : pc'[u] = pc[u] \/ (u = t /\ pc'[u] \in {"store", "done"})
        /\ sent' = sent \/ sent' = [sent EXCEPT ![<<t, next[t]>>] = now]
    BY <1>2 DEF Send, Goto, TypeOK, AiInv, Speaking
  <2>2. \A u \in Task, i \in 0..Photos : u # t => sent'[<<u, i>>] = sent[<<u, i>>]
    BY <1>a, <2>1 DEF TypeOK
  <2>. QED BY <2>1, <2>2 DEF AiInv, AiOffIsQuiet, Speaking
<1>3. ASSUME NEW t \in Task, Store(t) PROVE AiInv'
  <2>1. /\ UNCHANGED <<aiSeen, sent>> /\ aiSeen[t]
        /\ \A u \in Task : pc'[u] = pc[u] \/ (u = t /\ pc'[u] \in {"send", "done"})
    BY <1>3 DEF Store, Goto, TypeOK, AiInv, Speaking
  <2>. QED BY <2>1 DEF AiInv, AiOffIsQuiet, Speaking
<1>4. ASSUME NEW h \in HumanReply, HumanNext(h) PROVE AiInv'
  <2>1. UNCHANGED <<pc, aiSeen>>
    BY <1>4 DEF HumanNext, AnswerInApp, OpenReply, SendReply, StoreReply, OnlyDash, taskVars
  <2>2. \A t \in Task, i \in 0..Photos : sent'[<<t, i>>] = sent[<<t, i>>]
    BY <1>4, <1>a DEF HumanNext, AnswerInApp, OpenReply, SendReply, StoreReply, TypeOK
  <2>. QED BY <2>1, <2>2 DEF AiInv, AiOffIsQuiet
<1>5. CASE SetAi \/ (\E id \in OutId : Echo(id)) \/ Tick \/ UNCHANGED vars
  BY <1>5 DEF SetAi, Echo, Tick, vars, taskVars, AiInv, AiOffIsQuiet
<1>. QED
  BY <1>1, <1>2, <1>3, <1>4, <1>5 DEF Next, TaskNext, QuietTaskStep

\* However the tenant's AI setting is switched, a task says something only if the
\* setting it loaded was on: no text, no photo and no holding reply.
THEOREM AiOffStaysQuiet == Spec => []AiOffIsQuiet
<1>1. Init => AiInv
  BY DEF Init, AiInv, AiOffIsQuiet, Speaking, OutId
<1>2. AiInv => AiOffIsQuiet
  BY DEF AiInv
<1>. QED BY <1>1, <1>2, AiStep, TypeCorrect, PTL DEF Spec

-----------------------------------------------------------------------------
(* Replies from the dashboard *)

\* A request that is open has sent nothing, and one that has ended left the row,
\* its own or the echo's, of what Meta took.
KeptInv ==
  /\ \A h \in HumanReply : row[h] # None => row[h].sender = "agent"
  /\ \A h \in HumanReply : dash[h] = "open" => sent[h] = None
  /\ lost = 0 =>
       \A h \in HumanReply : sent[h] # None /\ dash[h] \in {"stored", "error"} => row[h] # None

\* A row of a reply that appears is a person's, and rows do not go.
LEMMA ReplyRows ==
  ASSUME TypeOK, KeptInv, [Next]_vars, NEW h \in HumanReply
  PROVE  /\ row'[h] = row[h] \/ (row[h] = None /\ row'[h] # None /\ row'[h].sender = "agent")
         /\ lost' = lost \/ lost' = lost + 1
<1> USE PipelineAssumption
<1>a. /\ h \in OutId /\ \A t \in Task, i \in 0..Photos : <<t, i>> \in OutId /\ <<t, i>> # h
      /\ \A t \in Task : next[t] \in 0..Photos
  BY DEF OutId, TypeOK
<1>b. ASSUME NEW at \in Time
      PROVE  [sender |-> "agent", at |-> at, saved |-> now, campaign |-> FALSE] # None
  <2>1. [sender |-> "agent", at |-> at, saved |-> now, campaign |-> FALSE] \in Row
    BY DEF Row, TypeOK
  <2>. QED BY <2>1
<1>1. ASSUME NEW t \in Task, TaskNext(t) \/ CrashTask(t)
      PROVE  row'[h] = row[h] /\ (lost' = lost \/ lost' = lost + 1)
  <2>1. CASE Store(t)
    BY <1>a, <2>1 DEF Store, TypeOK, budgets
  <2>2. CASE Send(t)
    BY <2>2 DEF Send
  <2>3. CASE QuietTaskStep(t)
    BY <2>3 DEF QuietTaskStep, OnlyTask, budgets, Begin, Check, PlanPhotos, Generate, Recheck,
                PhotoCheck, PhotoRecent, HandOver, CrashTask
  <2>. QED BY <1>1, <2>1, <2>2, <2>3 DEF TaskNext, QuietTaskStep
<1>2. ASSUME NEW g \in HumanReply, HumanNext(g)
      PROVE  /\ row'[h] = row[h] \/ (row[h] = None /\ row'[h] # None /\ row'[h].sender = "agent")
             /\ lost' = lost \/ lost' = lost + 1
  BY <1>a, <1>b, <1>2 DEF HumanNext, AnswerInApp, OpenReply, SendReply, StoreReply, TypeOK
<1>3. ASSUME NEW id \in OutId, Echo(id)
      PROVE  /\ row'[h] = row[h] \/ (row[h] = None /\ row'[h] # None /\ row'[h].sender = "agent")
             /\ lost' = lost
  BY <1>a, <1>b, <1>3 DEF Echo, budgets, TypeOK
<1>4. CASE SetAi \/ Tick \/ UNCHANGED vars
  BY <1>4 DEF SetAi, Tick, vars, budgets
<1>. QED BY <1>1, <1>2, <1>3, <1>4 DEF Next

\* What a step does to the send and the request of a reply.
LEMMA ReplyRequests ==
  ASSUME TypeOK, KeptInv, [Next]_vars, NEW h \in HumanReply
  PROVE  \/ dash'[h] = dash[h] /\ sent'[h] = sent[h]
         \/ dash'[h] = "none"
         \/ dash'[h] = "open" /\ sent'[h] = None
         \/ dash'[h] = "sent"
         \/ dash'[h] \in {"stored", "error"} /\ (sent'[h] # None => row'[h] # None \/ lost' = lost + 1)
<1> USE PipelineAssumption
<1>a. /\ h \in OutId /\ \A t \in Task, i \in 0..Photos : <<t, i>> \in OutId /\ <<t, i>> # h
      /\ \A t \in Task : next[t] \in 0..Photos
  BY DEF OutId, TypeOK
<1>1. ASSUME NEW t \in Task, TaskNext(t) \/ CrashTask(t)
      PROVE  dash'[h] = dash[h] /\ sent'[h] = sent[h]
  <2>1. CASE Store(t)
    BY <2>1 DEF Store, dashVars
  <2>2. CASE Send(t)
    BY <1>a, <2>2 DEF Send, dashVars, TypeOK
  <2>3. CASE QuietTaskStep(t)
    BY <2>3 DEF QuietTaskStep, OnlyTask, dashVars, Begin, Check, PlanPhotos, Generate, Recheck,
                PhotoCheck, PhotoRecent, HandOver, CrashTask
  <2>. QED BY <1>1, <2>1, <2>2, <2>3 DEF TaskNext, QuietTaskStep
<1>2. ASSUME NEW g \in HumanReply, HumanNext(g), g # h
      PROVE  dash'[h] = dash[h] /\ sent'[h] = sent[h]
  <2>1. g \in OutId
    BY DEF OutId
  <2>. QED
    BY <1>a, <1>2, <2>1 DEF HumanNext, AnswerInApp, OpenReply, SendReply, StoreReply, OnlyDash, TypeOK
<1>3. CASE AnswerInApp(h)
  BY <1>3 DEF AnswerInApp, OnlyDash, TypeOK
<1>4. CASE OpenReply(h)
  BY <1>4 DEF OpenReply, OnlyDash, TypeOK
<1>5. CASE SendReply(h)
  <2>1. sent[h] = None
    BY <1>5 DEF SendReply, KeptInv
  <2>2. CASE OnlyDash(h, "sent")
    BY <2>2 DEF OnlyDash, TypeOK
  <2>3. CASE OnlyDash(h, "error") /\ sent' = sent
    BY <2>1, <2>3 DEF OnlyDash, TypeOK
  <2>4. CASE OnlyDash(h, "error") /\ lost' = lost + 1
    BY <2>4 DEF OnlyDash, TypeOK
  <2>. QED BY <1>5, <2>2, <2>3, <2>4 DEF SendReply
<1>6. CASE StoreReply(h)
  <2>1. row'[h] # None
    <3>1. [sender |-> "agent", at |-> dashBegan[h], saved |-> now, campaign |-> FALSE] \in Row
      BY DEF Row, TypeOK
    <3>. QED BY <1>6, <1>a, <3>1 DEF StoreReply, TypeOK
  <2>2. dash'[h] \in {"stored", "error"}
    BY <1>6 DEF StoreReply, OnlyDash, TypeOK
  <2>. QED BY <2>1, <2>2
<1>7. CASE SetAi \/ (\E id \in OutId : Echo(id)) \/ Tick \/ UNCHANGED vars
  BY <1>7 DEF SetAi, Echo, Tick, vars, dashVars
<1>. QED
  BY <1>1, <1>2, <1>3, <1>4, <1>5, <1>6, <1>7 DEF Next, HumanNext

\* A reply from the dashboard that Meta took is in the chat as the person's once
\* its request has ended, whether its own insert or the echo's came first.
THEOREM SentRepliesKept == Spec => []SentReplyKept
<1>1. Init => KeptInv
  BY DEF Init, KeptInv, OutId
<1>2. TypeOK /\ KeptInv /\ [Next]_vars => KeptInv'
  <2> SUFFICES ASSUME TypeOK, KeptInv, [Next]_vars, NEW h \in HumanReply
               PROVE  /\ row'[h] # None => row'[h].sender = "agent"
                      /\ dash'[h] = "open" => sent'[h] = None
                      /\ lost' = 0 /\ sent'[h] # None /\ dash'[h] \in {"stored", "error"} => row'[h] # None
    BY DEF KeptInv
  <2>1. /\ row[h] # None => row[h].sender = "agent"
        /\ dash[h] = "open" => sent[h] = None
        /\ lost = 0 /\ sent[h] # None /\ dash[h] \in {"stored", "error"} => row[h] # None
    BY DEF KeptInv
  <2>2. /\ row'[h] = row[h] \/ (row[h] = None /\ row'[h] # None /\ row'[h].sender = "agent")
        /\ lost' = lost \/ lost' = lost + 1
    BY ReplyRows
  <2>3. lost' = 0 => lost = 0 /\ lost' # lost + 1
    BY <2>2 DEF TypeOK
  <2>. QED BY <2>1, <2>2, <2>3, ReplyRequests
<1>3. KeptInv => SentReplyKept
  BY DEF KeptInv, SentReplyKept
<1>. QED BY <1>1, <1>2, <1>3, TypeCorrect, PTL DEF Spec

-----------------------------------------------------------------------------
(* Photos of customers are flagged *)

\* Where a photo's task goes, and where it only comes once the photo is flagged.
PhotoStep == {"queued", "photoCheck", "photoRecent", "handOver", "send", "store", "done", "crashed"}
Raised == {"send", "store", "done"}

FlagInv ==
  /\ \A t \in Task : since[t] <= now
  /\ \A t \in Task, i \in 0..Photos : row[<<t, i>>] # None => row[<<t, i>>].sender = "ai"
  /\ \A t \in Task : Kind[t] = "photo" => pc[t] \in PhotoStep
  /\ \A t \in Task : Kind[t] = "photo" /\ pc[t] \in Raised => Flagged(t)

\* Where nothing is echoed, it is a person that makes a photo's task stop.
LEMMA PersonFlags ==
  ASSUME TypeOK, FlagInv, NEW t \in Task, HumanActive
  PROVE  Flagged(t)
<1>1. PICK id \in OutId : row[id] # None /\ row[id].sender = "agent" /\ row[id].at > now - Pause
  BY DEF HumanActive
<1>2. id \in HumanReply
  BY <1>1 DEF FlagInv, OutId
<1>3. row[id].at \in Int /\ now \in Int /\ since[t] \in Int /\ Pause \in Int /\ since[t] <= now
  BY <1>1, PipelineAssumption DEF TypeOK, Row, Time, FlagInv
<1>4. row[id].at > since[t] - Pause
  BY <1>1, <1>3
<1>. QED BY <1>1, <1>2, <1>4 DEF Flagged

\* So does a handover of late.
LEMMA HandoverFlags ==
  ASSUME TypeOK, FlagInv, NEW t \in Task, HandedOverRecently
  PROVE  Flagged(t)
<1>1. PICK e \in handovers : e.at > now - Pause
  BY DEF HandedOverRecently
<1>2. e.at \in Int /\ now \in Int /\ since[t] \in Int /\ Pause \in Int /\ since[t] <= now
  BY PipelineAssumption DEF TypeOK, Handover, Time, FlagInv
<1>3. e.at > since[t] - Pause
  BY <1>1, <1>2
<1>. QED BY <1>1, <1>3 DEF Flagged

\* A flag stays while its task keeps its time: handovers and a person's rows do.
LEMMA FlagStays ==
  ASSUME NEW t \in Task, Flagged(t), since'[t] = since[t], handovers \subseteq handovers',
         \A h \in HumanReply : row[h] # None => row'[h] = row[h]
  PROVE  Flagged(t)'
BY DEF Flagged

\* What a step that only moves a task does to a photo's task.
LEMMA QuietKeepsFlags ==
  ASSUME TypeOK, FlagInv, Pause > 0, NEW t \in Task, QuietTaskStep(t)
  PROVE  FlagInv'
<1> USE PipelineAssumption
<1>1. /\ UNCHANGED <<now, row>> /\ handovers \subseteq handovers'
      /\ \A u \in Task : u # t => pc'[u] = pc[u] /\ since'[u] = since[u]
      /\ since'[t] \in {since[t], now}
  BY DEF QuietTaskStep, OnlyTask, Begin, Check, PlanPhotos, Generate, Recheck, PhotoCheck,
         PhotoRecent, HandOver, CrashTask, Goto, TypeOK
<1>2. ASSUME Kind[t] = "photo"
      PROVE  /\ pc'[t] \in PhotoStep
             /\ pc'[t] \in Raised => Flagged(t)'
  <2> USE DEF TypeOK, Goto, PhotoStep, Raised, FlagInv
  <2>1. CASE Begin(t)
    BY <1>2, <2>1 DEF Begin
  <2>2. CASE Check(t) \/ PlanPhotos(t) \/ Generate(t) \/ Recheck(t)
    BY <1>2, <2>2 DEF Check, PlanPhotos, Generate, Recheck
  <2>3. CASE PhotoCheck(t)
    <3>1. /\ pc' = [pc EXCEPT ![t] = IF HumanActive THEN "done" ELSE "photoRecent"]
          /\ UNCHANGED <<since, handovers, row>>
      BY <2>3 DEF PhotoCheck, OnlyTask
    <3>2. pc'[t] = "done" => Flagged(t)
      BY <3>1, PersonFlags
    <3>3. pc'[t] = "done" => Flagged(t)'
      BY <3>1, <3>2, FlagStays
    <3>. QED BY <3>1, <3>3
  <2>4. CASE PhotoRecent(t)
    <3>1. /\ pc' = [pc EXCEPT ![t] = IF HandedOverRecently THEN "done" ELSE "handOver"]
          /\ UNCHANGED <<since, handovers, row>>
      BY <2>4 DEF PhotoRecent, OnlyTask
    <3>2. pc'[t] = "done" => Flagged(t)
      BY <3>1, HandoverFlags
    <3>3. pc'[t] = "done" => Flagged(t)'
      BY <3>1, <3>2, FlagStays
    <3>. QED BY <3>1, <3>3
  <2>5. CASE HandOver(t)
    <3>1. handovers' = handovers \cup {[at |-> since[t], saved |-> now, by |-> t]} /\ since' = since
      BY <2>5 DEF HandOver
    <3>2. since[t] > since[t] - Pause
      BY DEF Time
    <3>3. Flagged(t)'
      <4> DEFINE e == [at |-> since[t], saved |-> now, by |-> t]
      <4>1. e \in handovers' /\ e.at > since'[t] - Pause
        BY <3>1, <3>2
      <4>. QED BY <4>1 DEF Flagged
    <3>4. pc'[t] \in {"done", "send"}
      BY <2>5 DEF HandOver
    <3>. QED BY <3>3, <3>4
  <2>6. CASE CrashTask(t)
    BY <2>6 DEF CrashTask
  <2>. QED
    BY <2>1, <2>2, <2>3, <2>4, <2>5, <2>6 DEF QuietTaskStep
<1>3. \A u \in Task : u # t /\ Flagged(u) => Flagged(u)'
  BY <1>1, FlagStays
<1>4. \A u \in Task : Kind[u] = "photo" => pc'[u] \in PhotoStep /\ (pc'[u] \in Raised => Flagged(u)')
  BY <1>1, <1>2, <1>3 DEF FlagInv
<1>5. \A u \in Task : since'[u] <= now'
  BY <1>1 DEF FlagInv, TypeOK, Time
<1>. QED BY <1>1, <1>4, <1>5 DEF FlagInv

\* Every step keeps FlagInv where nothing is echoed.
LEMMA FlagStep ==
  ASSUME TypeOK, FlagInv, ~Echoes, Pause > 0, [Next]_vars
  PROVE  FlagInv'
<1> USE PipelineAssumption
<1>a. /\ \A h \in HumanReply : h \in OutId
      /\ \A t \in Task, i \in 0..Photos : <<t, i>> \in OutId /\ <<t, i>> \notin HumanReply
      /\ \A t \in Task : next[t] \in 0..Photos
  BY DEF OutId, TypeOK
<1>1. ASSUME NEW t \in Task, QuietTaskStep(t) PROVE FlagInv'
  BY <1>1, QuietKeepsFlags
<1>b. ASSUME UNCHANGED <<since, handovers>>, now <= now',
             \A h \in HumanReply : row[h] # None => row'[h] = row[h],
             \A t \in Task, i \in 0..Photos : row'[<<t, i>>] = row[<<t, i>>]
                                              \/ row'[<<t, i>>].sender = "ai",
             \A t \in Task : pc'[t] = pc[t] \/ (pc[t] \in Raised /\ pc'[t] \in Raised)
      PROVE  FlagInv'
  <2>1. \A t \in Task : since'[t] <= now'
    BY <1>b, TypeStep DEF FlagInv, TypeOK, Time
  <2>2. \A t \in Task : Flagged(t) => Flagged(t)'
    BY <1>b, FlagStays
  <2>. QED BY <1>b, <2>1, <2>2 DEF FlagInv, Raised, PhotoStep
<1>2. ASSUME NEW t \in Task, Send(t) PROVE FlagInv'
  <2>1. /\ UNCHANGED <<now, row, since, handovers>>
        /\ \A u \in Task : pc'[u] = pc[u] \/ (pc[u] \in Raised /\ pc'[u] \in Raised)
    BY <1>2 DEF Send, Goto, TypeOK, Raised
  <2>2. now <= now'
    BY <2>1 DEF TypeOK, Time
  <2>. QED BY <1>b, <2>1, <2>2
<1>3. ASSUME NEW t \in Task, Store(t) PROVE FlagInv'
  <2>1. /\ UNCHANGED <<now, since, handovers>>
        /\ \A u \in Task : pc'[u] = pc[u] \/ (pc[u] \in Raised /\ pc'[u] \in Raised)
    BY <1>3 DEF Store, Goto, TypeOK, Raised
  <2>2. row' = [row EXCEPT ![<<t, next[t]>>] = StoredAs(t)]
    BY <1>3 DEF Store
  <2>3. StoredAs(t).sender = "ai"
    <3> DEFINE old == row[<<t, next[t]>>]
    <3>1. old = None \/ old \in Row
      BY <1>a DEF TypeOK
    <3>2. \A r \in Row : [r EXCEPT !.sender = "ai"].sender = "ai"
      BY DEF Row
    <3>. QED BY <3>1, <3>2 DEF StoredAs
  <2>4. now <= now'
    BY <2>1 DEF TypeOK, Time
  <2>5. \A h \in HumanReply : row'[h] = row[h]
    BY <1>a, <2>2 DEF TypeOK
  <2>6. \A u \in Task, i \in 0..Photos : row'[<<u, i>>] = row[<<u, i>>] \/ row'[<<u, i>>].sender = "ai"
    BY <1>a, <2>2, <2>3 DEF TypeOK
  <2>. QED BY <1>b, <2>1, <2>4, <2>5, <2>6
<1>4. ASSUME NEW h \in HumanReply, HumanNext(h) PROVE FlagInv'
  <2>1. UNCHANGED <<now, since, handovers, pc>>
    BY <1>4 DEF HumanNext, AnswerInApp, OpenReply, SendReply, StoreReply, OnlyDash, taskVars
  <2>2. now <= now'
    BY <2>1 DEF TypeOK, Time
  <2>3. /\ \A g \in HumanReply : row[g] # None => row'[g] = row[g]
        /\ \A t \in Task, i \in 0..Photos : row'[<<t, i>>] = row[<<t, i>>]
    BY <1>4, <1>a DEF HumanNext, AnswerInApp, OpenReply, SendReply, StoreReply, TypeOK
  <2>. QED BY <1>b, <2>1, <2>2, <2>3
<1>5. ASSUME NEW id \in OutId, Echo(id) PROVE FALSE
  BY <1>5 DEF Echo
<1>6. CASE SetAi \/ Tick \/ UNCHANGED vars
  <2>1. UNCHANGED <<since, handovers, row, pc>>
    BY <1>6 DEF SetAi, Tick, vars, taskVars
  <2>2. now <= now'
    BY <1>6 DEF SetAi, Tick, vars, TypeOK, Time
  <2>. QED BY <1>b, <2>1, <2>2
<1>. QED
  BY <1>1, <1>2, <1>3, <1>4, <1>5, <1>6 DEF Next, TaskNext, QuietTaskStep

\* Where the channel echoes nothing (an echo of the bot's own message passes for a
\* person until it is relabelled) and there is a pause at all: however many tasks
\* run at once, a photo's task is only done when the photo is flagged.
THEOREM PhotosAreFlagged ==
  ASSUME ~Echoes, Pause > 0
  PROVE  Spec => []PhotoFlagged
<1>1. Init => FlagInv
  BY PipelineAssumption DEF Init, FlagInv, PhotoStep, Raised, OutId
<1>2. TypeOK /\ FlagInv /\ [Next]_vars => FlagInv'
  BY FlagStep
<1>3. FlagInv => PhotoFlagged
  BY DEF FlagInv, PhotoFlagged, Raised
<1>. QED BY <1>1, <1>2, <1>3, TypeCorrect, PTL DEF Spec

\* Where nothing is echoed, the bot's own messages never pause it; with echoes
\* they can (the run MCPipelineSelfPause).
THEOREM OnlyPeopleSilence ==
  ASSUME ~Echoes, Pause > 0
  PROVE  Spec => []OnlyPeoplePause
<1>1. Init => FlagInv
  BY PipelineAssumption DEF Init, FlagInv, PhotoStep, Raised, OutId
<1>2. TypeOK /\ FlagInv /\ [Next]_vars => FlagInv'
  BY FlagStep
<1>3. FlagInv => OnlyPeoplePause
  <2>1. SUFFICES ASSUME FlagInv, HumanActive
                 PROVE  \E h \in HumanReply : row[h] # None /\ row[h].at > now - Pause
    BY DEF OnlyPeoplePause
  <2>2. PICK id \in OutId : row[id] # None /\ row[id].sender = "agent" /\ row[id].at > now - Pause
    BY <2>1 DEF HumanActive
  <2>3. id \in HumanReply
    BY <2>1, <2>2 DEF FlagInv, OutId
  <2>. QED BY <2>2, <2>3
<1>. QED BY <1>1, <1>2, <1>3, TypeCorrect, PTL DEF Spec

-----------------------------------------------------------------------------
(* Photos in a row are handed over once *)

\* A task about to hand over has seen that the handovers committed before it began
\* are out of the pause.
OnceInv ==
  /\ \A t \in Task : since[t] <= now
  /\ \A e \in handovers : e.at <= now
  /\ \A t \in Task, e \in handovers : pc[t] = "handOver" /\ e.saved < since[t] => now - e.at >= Pause
  /\ HandoverOnce

\* A step that hands nothing over keeps OnceInv, if a task begins anew only away
\* from the handover, and comes to it only by finding none.
LEMMA OnceStays ==
  ASSUME TypeOK, OnceInv, UNCHANGED <<now, handovers>>,
         \A t \in Task :
           /\ since'[t] = since[t] \/ (since'[t] = now /\ pc'[t] # "handOver")
           /\ pc'[t] = "handOver" => pc[t] = "handOver" \/ ~HandedOverRecently
  PROVE  OnceInv'
<1> USE PipelineAssumption
<1>1. \A t \in Task, e \in handovers : pc'[t] = "handOver" /\ e.saved < since'[t] => now - e.at >= Pause
  <2> SUFFICES ASSUME NEW t \in Task, NEW e \in handovers, pc'[t] = "handOver", e.saved < since'[t]
               PROVE  now - e.at >= Pause
    OBVIOUS
  <2>1. CASE ~HandedOverRecently
    <3>1. ~(e.at > now - Pause)
      BY <2>1 DEF HandedOverRecently
    <3>2. e.at \in Int /\ now \in Int /\ Pause \in Int
      BY DEF TypeOK, Handover, Time
    <3>. QED BY <3>1, <3>2
  <2>2. CASE pc[t] = "handOver"
    BY <2>2 DEF OnceInv
  <2>. QED BY <2>1, <2>2
<1>2. now \in Int /\ \A t \in Task : since[t] \in Int
  BY DEF TypeOK, Time
<1>. QED BY <1>1, <1>2 DEF OnceInv, HandoverOnce

\* Every step keeps OnceInv, however many tasks run.
LEMMA OnceStep == TypeOK /\ OnceInv /\ [Next]_vars => OnceInv'
<1> SUFFICES ASSUME TypeOK, OnceInv, [Next]_vars PROVE OnceInv'
  OBVIOUS
<1> USE PipelineAssumption
<1>a. /\ now \in Int /\ Pause \in Int /\ \A t \in Task : since[t] \in Int
      /\ \A e \in handovers : e.at \in Int /\ e.saved \in Int
  BY DEF TypeOK, Handover, Time
<1>1. ASSUME NEW t \in Task, TaskNext(t), ~HandOver(t) PROVE OnceInv'
  <2>1. UNCHANGED <<now, handovers>>
    BY <1>1 DEF TaskNext, OnlyTask, Begin, Check, PlanPhotos, Generate, Recheck, PhotoCheck,
                PhotoRecent, Send, Store
  <2>2. CASE Begin(t)
    <3>1. pc'[t] \in {"photoCheck", "done", "check"} /\ since'[t] = now
          /\ \A u \in Task : u # t => pc'[u] = pc[u] /\ since'[u] = since[u]
      BY <2>2 DEF Begin, Goto, TypeOK
    <3>. QED BY <2>1, <3>1, OnceStays
  <2>3. CASE ~Begin(t)
    <3>1. \A u \in Task :
            /\ since'[u] = since[u] \/ (since'[u] = now /\ pc'[u] # "handOver")
            /\ pc'[u] = "handOver" => pc[u] = "handOver" \/ ~HandedOverRecently
      BY <1>1, <2>3 DEF TaskNext, Check, PlanPhotos, Generate, Recheck, PhotoCheck, PhotoRecent,
                        Send, Store, Goto, TypeOK
    <3>. QED BY <2>1, <3>1, OnceStays
  <2>. QED BY <2>2, <2>3
<1>2. ASSUME NEW t \in Task, HandOver(t) PROVE OnceInv'
  <2> DEFINE new == [at |-> since[t], saved |-> now, by |-> t]
  <2>1. /\ handovers' = handovers \cup {new} /\ UNCHANGED <<now, since>>
        /\ pc[t] = "handOver" /\ \A u \in Task : pc'[u] = "handOver" => pc[u] = "handOver"
    BY <1>2 DEF HandOver, Goto, TypeOK
  <2>2. new.at <= now /\ new.at = since[t] /\ new.saved = now
    BY DEF OnceInv
  <2>3. \A u \in Task, e \in handovers' : pc'[u] = "handOver" /\ e.saved < since'[u] => now - e.at >= Pause
    <3> SUFFICES ASSUME NEW u \in Task, NEW e \in handovers', pc'[u] = "handOver", e.saved < since[u]
                 PROVE  now - e.at >= Pause
      BY <2>1
    <3>1. e # new
      BY <1>a, <2>2 DEF OnceInv
    <3>. QED BY <2>1, <3>1 DEF OnceInv
  <2>4. \A d, e \in handovers' : d.saved < e.at => e.saved - d.at >= Pause
    <3> SUFFICES ASSUME NEW d \in handovers', NEW e \in handovers', d.saved < e.at
                 PROVE  e.saved - d.at >= Pause
      OBVIOUS
    <3>1. d # new
      BY <1>a, <2>1, <2>2 DEF OnceInv
    <3>2. CASE e = new
      BY <2>1, <2>2, <3>1, <3>2 DEF OnceInv
    <3>3. CASE e # new
      BY <2>1, <3>1, <3>3 DEF OnceInv, HandoverOnce
    <3>. QED BY <3>2, <3>3
  <2>. QED BY <2>1, <2>2, <2>3, <2>4 DEF OnceInv, HandoverOnce
<1>3. CASE Tick
  <2>1. now' = now + 1 /\ UNCHANGED <<handovers, since, pc>>
    BY <1>3 DEF Tick, taskVars
  <2>. QED BY <1>a, <2>1 DEF OnceInv, HandoverOnce
<1>4. CASE \/ \E t \in Task : CrashTask(t)
           \/ \E h \in HumanReply : HumanNext(h)
           \/ SetAi \/ (\E id \in OutId : Echo(id)) \/ UNCHANGED vars
  <2>1. UNCHANGED <<now, handovers, since>>
    BY <1>4 DEF CrashTask, HumanNext, AnswerInApp, OpenReply, SendReply, StoreReply, OnlyDash,
                SetAi, Echo, vars, taskVars
  <2>2. \A t \in Task : pc'[t] = pc[t] \/ pc'[t] = "crashed"
    BY <1>4 DEF CrashTask, HumanNext, AnswerInApp, OpenReply, SendReply, StoreReply, OnlyDash,
                SetAi, Echo, vars, taskVars, Goto, TypeOK
  <2>. QED BY <2>1, <2>2, OnceStays
<1>. QED BY <1>1, <1>2, <1>3, <1>4 DEF Next, TaskNext

\* A photo whose task began after another's handover was committed makes none until
\* the pause is over, whatever runs at the same time and whatever the clock does
\* between the look, the handover and its commit.
THEOREM PhotosHandedOverOnce == Spec => []HandoverOnce
<1>1. Init => OnceInv
  BY PipelineAssumption DEF Init, OnceInv, HandoverOnce
<1>2. OnceInv => HandoverOnce
  BY DEF OnceInv
<1>. QED BY <1>1, <1>2, OnceStep, TypeCorrect, PTL DEF Spec

-----------------------------------------------------------------------------
(* The campaign's photos are sent once *)

\* A task has planned nothing before it looks, and is within its plan.
PlanInv ==
  \A t \in Task : next[t] <= plan[t] /\ (pc[t] \in Unsent => plan[t] = 0)

\* Every step keeps PlanInv.
LEMMA PlanStep == TypeOK /\ PlanInv /\ [Next]_vars => PlanInv'
<1> SUFFICES ASSUME TypeOK, PlanInv, [Next]_vars, NEW u \in Task
             PROVE  next'[u] <= plan'[u] /\ (pc'[u] \in Unsent => plan'[u] = 0)
  BY DEF PlanInv
<1> USE PipelineAssumption
<1>a. next[u] <= plan[u] /\ (pc[u] \in Unsent => plan[u] = 0)
  BY DEF PlanInv
<1>1. ASSUME NEW t \in Task, Begin(t) \/ Check(t) \/ Generate(t) \/ Recheck(t)
                             \/ PhotoCheck(t) \/ PhotoRecent(t) \/ HandOver(t)
      PROVE  UNCHANGED <<next, plan>> /\ (pc'[u] = pc[u] \/ pc[u] \in Unsent)
  BY <1>1 DEF Begin, Check, Generate, Recheck, PhotoCheck, PhotoRecent, HandOver, Goto, TypeOK, Unsent
<1>2. ASSUME NEW t \in Task, PlanPhotos(t)
      PROVE  next'[u] <= plan'[u] /\ (pc'[u] \in Unsent => plan'[u] = 0)
  <2>1. CASE u = t
    BY <1>a, <1>2, <2>1 DEF PlanPhotos, Goto, TypeOK, Unsent
  <2>2. CASE u # t
    BY <1>a, <1>2, <2>2 DEF PlanPhotos, Goto, TypeOK
  <2>. QED BY <2>1, <2>2
<1>3. ASSUME NEW t \in Task, Send(t)
      PROVE  UNCHANGED <<next, plan>> /\ (pc'[u] \in Unsent => pc[u] \in Unsent)
  BY <1>3 DEF Send, Goto, TypeOK, Unsent
<1>4. ASSUME NEW t \in Task, Store(t)
      PROVE  next'[u] <= plan'[u] /\ plan' = plan /\ (pc'[u] \in Unsent => pc[u] \in Unsent)
  <2>1. plan' = plan /\ (pc'[u] \in Unsent => pc[u] \in Unsent)
    BY <1>4 DEF Store, Goto, TypeOK, Unsent
  <2>2. next'[u] <= plan[u]
    BY <1>a, <1>4 DEF Store, TypeOK
  <2>. QED BY <2>1, <2>2
<1>5. CASE \E t \in Task : CrashTask(t)
  BY <1>a, <1>5 DEF CrashTask, Goto, TypeOK, Unsent
<1>6. CASE (\E h \in HumanReply : HumanNext(h)) \/ SetAi \/ (\E id \in OutId : Echo(id)) \/ Tick
           \/ UNCHANGED vars
  BY <1>a, <1>6 DEF HumanNext, AnswerInApp, OpenReply, SendReply, StoreReply, OnlyDash, SetAi, Echo,
                    Tick, vars, taskVars
<1>. QED BY <1>a, <1>1, <1>2, <1>3, <1>4, <1>5, <1>6 DEF Next, TaskNext

Photo == 1..Photos

\* A photo's row that has its campaign_id and was committed before the task u began.
StoredBefore(id, u) == row[id] # None /\ row[id].campaign /\ row[id].saved < since[u]

\* Such rows are the bot's, and a task that will send photos has seen that they are
\* out of the cooldown.
ShareInv ==
  /\ \A id \in OutId : row[id] # None /\ row[id].campaign => row[id].sender = "ai"
  /\ \A u \in Task, t \in Task, i \in Photo :
       pc[u] \in {"send", "store"} /\ plan[u] > 0 /\ StoredBefore(<<t, i>>, u)
         => now - row[<<t, i>>].at >= Cooldown
  /\ PhotosOnce

\* Every step keeps ShareInv, however many tasks run.
LEMMA ShareStep == TypeOK /\ SilenceInv /\ PlanInv /\ ShareInv /\ [Next]_vars => ShareInv'
<1> SUFFICES ASSUME TypeOK, SilenceInv, PlanInv, ShareInv, [Next]_vars PROVE ShareInv'
  OBVIOUS
<1> USE PipelineAssumption
<1>a. /\ now \in Int /\ now # None /\ Cooldown \in Int /\ \A t \in Task : since[t] \in Int /\ since[t] <= now
      /\ \A id \in OutId : row[id] # None => row[id].at \in Int /\ row[id].saved \in Int
      /\ \A t \in Task, i \in Photo : <<t, i>> \in OutId /\ <<t, i>> \notin HumanReply
  BY DEF TypeOK, Row, Time, SilenceInv, OutId, Photo
<1>1. ASSUME NEW t \in Task, QuietTaskStep(t) PROVE ShareInv'
  <2>1. /\ UNCHANGED <<now, row, sent>>
        /\ \A u \in Task : u # t => pc'[u] = pc[u] /\ since'[u] = since[u]
        /\ since'[t] = since[t] \/ (pc[t] \in Unsent /\ pc'[t] \notin Cleared)
    BY <1>1, QuietStep
  <2>2. \A u \in Task : u # t => plan'[u] = plan[u]
    BY <1>1 DEF QuietTaskStep, OnlyTask, Begin, Check, PlanPhotos, Generate, Recheck, PhotoCheck,
                PhotoRecent, HandOver, CrashTask, TypeOK
  <2>3. pc[t] \in Unsent \/ pc'[t] = "crashed"
    BY <1>1 DEF QuietTaskStep, Begin, Check, PlanPhotos, Generate, Recheck, PhotoCheck,
                PhotoRecent, HandOver, CrashTask, Goto, TypeOK, Unsent
  <2>4. pc'[t] \in {"send", "store"} /\ plan'[t] > 0 => ~PhotosSentRecently /\ since' = since
    <3>1. CASE PlanPhotos(t)
      BY <3>1 DEF PlanPhotos, TypeOK
    <3>2. CASE ~PlanPhotos(t) /\ ~CrashTask(t)
      <4>1. plan' = plan
        BY <1>1, <3>2 DEF QuietTaskStep, Begin, Check, Generate, Recheck, PhotoCheck,
                    PhotoRecent, HandOver
      <4>2. pc[t] \in Unsent
        BY <1>1, <3>2 DEF QuietTaskStep, Begin, Check, Generate, Recheck, PhotoCheck,
                    PhotoRecent, HandOver, Unsent
      <4>. QED BY <4>1, <4>2 DEF PlanInv
    <3>3. CASE CrashTask(t)
      BY <3>3 DEF CrashTask, Goto, TypeOK
    <3>. QED BY <3>1, <3>2, <3>3
  <2>5. ASSUME NEW u \in Task, NEW v \in Task, NEW i \in Photo, pc'[u] \in {"send", "store"}, plan'[u] > 0,
               StoredBefore(<<v, i>>, u)'
        PROVE  now - row[<<v, i>>].at >= Cooldown
    <3>1. CASE u # t
      BY <2>1, <2>2, <2>5, <3>1 DEF ShareInv, StoredBefore
    <3>2. CASE u = t
      <4>1. ~PhotosSentRecently
        BY <2>4, <2>5, <3>2
      <4>2. row[<<v, i>>] # None /\ row[<<v, i>>].campaign /\ row[<<v, i>>].sender = "ai"
        BY <1>a, <2>1, <2>5 DEF StoredBefore, ShareInv
      <4>3. ~(row[<<v, i>>].at > now - Cooldown)
        BY <1>a, <4>1, <4>2 DEF PhotosSentRecently
      <4>. QED BY <1>a, <4>2, <4>3
    <3>. QED BY <3>1, <3>2
  <2>6. ASSUME NEW v \in Task, NEW u \in Task, NEW i \in Photo, NEW j \in Photo,
               StoredBefore(<<v, i>>, u)', sent[<<u, j>>] # None
        PROVE  sent[<<u, j>>] - row[<<v, i>>].at >= Cooldown
    <3>1. since'[u] = since[u]
      BY <2>1, <2>6 DEF SilenceInv, Photo
    <3>. QED BY <2>1, <2>6, <3>1 DEF ShareInv, PhotosOnce, StoredBefore, Photo
  <2>. QED BY <2>1, <2>5, <2>6 DEF ShareInv, PhotosOnce, StoredBefore, Photo
<1>2. ASSUME NEW t \in Task, Send(t) PROVE ShareInv'
  <2> DEFINE n == next[t]
  <2>1. /\ UNCHANGED <<now, row, since, plan>> /\ pc[t] = "send" /\ n \in 0..Photos
        /\ \A u \in Task : u # t => pc'[u] = pc[u]
        /\ sent' = sent \/ sent' = [sent EXCEPT ![<<t, n>>] = now]
    BY <1>2 DEF Send, Goto, TypeOK
  <2>2. \A u \in Task, j \in Photo :
          sent'[<<u, j>>] = sent[<<u, j>>] \/ (u = t /\ j = n /\ sent'[<<u, j>>] = now)
    BY <1>a, <2>1 DEF TypeOK
  <2>3. n \in Photo => plan[t] > 0
    BY DEF PlanInv, Photo, TypeOK
  <2>4. ASSUME NEW v \in Task, NEW u \in Task, NEW i \in Photo, NEW j \in Photo,
               StoredBefore(<<v, i>>, u), sent'[<<u, j>>] # None
        PROVE  sent'[<<u, j>>] - row[<<v, i>>].at >= Cooldown
    <3>1. CASE sent'[<<u, j>>] = sent[<<u, j>>]
      BY <2>4, <3>1 DEF ShareInv, PhotosOnce, StoredBefore, Photo
    <3>2. CASE u = t /\ j = n /\ sent'[<<u, j>>] = now
      BY <2>1, <2>3, <2>4, <3>2 DEF ShareInv
    <3>. QED BY <2>2, <3>1, <3>2
  <2>5. \A u \in Task : pc'[u] \in {"send", "store"} => pc[u] \in {"send", "store"}
    BY <2>1
  <2>. QED BY <2>1, <2>4, <2>5 DEF ShareInv, PhotosOnce, StoredBefore, Photo
<1>3. ASSUME UNCHANGED <<now, sent, since, plan>>,
             \A u \in Task : pc'[u] \in {"send", "store"} => pc[u] \in {"send", "store"},
             \A id \in OutId :
               row'[id] # None /\ row'[id].campaign =>
                 /\ row'[id].sender = "ai"
                 /\ \/ row'[id].saved = now
                    \/ /\ row[id] # None /\ row[id].campaign
                       /\ row'[id].at = row[id].at /\ row'[id].saved = row[id].saved
      PROVE  ShareInv'
  <2>1. ASSUME NEW u \in Task, NEW v \in Task, NEW i \in Photo, StoredBefore(<<v, i>>, u)'
        PROVE  StoredBefore(<<v, i>>, u) /\ row'[<<v, i>>].at = row[<<v, i>>].at
    <3>1. row'[<<v, i>>].saved # now
      BY <1>3, <1>a, <2>1 DEF StoredBefore
    <3>. QED BY <1>3, <1>a, <2>1, <3>1 DEF StoredBefore
  <2>2. \A id \in OutId : row'[id] # None /\ row'[id].campaign => row'[id].sender = "ai"
    BY <1>3
  <2>3. \A u \in Task, v \in Task, i \in Photo :
          pc'[u] \in {"send", "store"} /\ plan'[u] > 0 /\ StoredBefore(<<v, i>>, u)'
            => now' - row'[<<v, i>>].at >= Cooldown
    BY <1>3, <2>1 DEF ShareInv
  <2>4. PhotosOnce'
    <3> SUFFICES ASSUME NEW v \in Task, NEW u \in Task, NEW i \in Photo, NEW j \in Photo,
                        StoredBefore(<<v, i>>, u)', sent'[<<u, j>>] # None
                 PROVE  sent'[<<u, j>>] - row'[<<v, i>>].at >= Cooldown
      BY DEF PhotosOnce, StoredBefore, Photo
    <3>. QED BY <1>3, <2>1 DEF ShareInv, PhotosOnce, StoredBefore, Photo
  <2>. QED BY <2>2, <2>3, <2>4 DEF ShareInv
<1>4. ASSUME NEW t \in Task, Store(t) PROVE ShareInv'
  <2>1. /\ UNCHANGED <<now, sent, since, plan>> /\ pc[t] = "store"
        /\ \A u \in Task : u # t => pc'[u] = pc[u]
        /\ row' = [row EXCEPT ![<<t, next[t]>>] = StoredAs(t)]
    BY <1>4 DEF Store, Goto, TypeOK
  <2>2. \A id \in OutId : row'[id] = IF id = <<t, next[t]>> THEN StoredAs(t) ELSE row[id]
    BY <2>1 DEF TypeOK
  <2>3. <<t, next[t]>> \in OutId
    BY DEF OutId, TypeOK
  <2>4. \/ StoredAs(t).sender = "ai" /\ StoredAs(t).saved = now
        \/ /\ row[<<t, next[t]>>] # None
           /\ StoredAs(t) = [row[<<t, next[t]>>] EXCEPT !.sender = "ai"]
    BY DEF StoredAs
  <2>5. row[<<t, next[t]>>] # None => row[<<t, next[t]>>] \in Row
    BY <2>3 DEF TypeOK
  <2>6. ASSUME row[<<t, next[t]>>] # None, StoredAs(t) = [row[<<t, next[t]>>] EXCEPT !.sender = "ai"]
        PROVE  /\ StoredAs(t).sender = "ai" /\ StoredAs(t).at = row[<<t, next[t]>>].at
               /\ StoredAs(t).saved = row[<<t, next[t]>>].saved
               /\ StoredAs(t).campaign = row[<<t, next[t]>>].campaign
    BY <2>5, <2>6 DEF Row
  <2>7. \A id \in OutId :
          row'[id] # None /\ row'[id].campaign =>
            /\ row'[id].sender = "ai"
            /\ \/ row'[id].saved = now
               \/ /\ row[id] # None /\ row[id].campaign
                  /\ row'[id].at = row[id].at /\ row'[id].saved = row[id].saved
    BY <2>2, <2>4, <2>6 DEF ShareInv
  <2>8. \A u \in Task : pc'[u] \in {"send", "store"} => pc[u] \in {"send", "store"}
    BY <2>1
  <2>. QED BY <1>3, <2>1, <2>7, <2>8
<1>5. ASSUME NEW id \in OutId, Echo(id) PROVE ShareInv'
  <2>1. /\ UNCHANGED <<now, sent, since, plan, pc>>
        /\ \A k \in OutId : k # id => row'[k] = row[k]
        /\ row'[id] = [sender |-> "agent", at |-> now, saved |-> now, campaign |-> FALSE]
    BY <1>5 DEF Echo, taskVars, TypeOK
  <2>. QED BY <1>3, <2>1 DEF ShareInv
<1>6. ASSUME NEW h \in HumanReply, HumanNext(h) PROVE ShareInv'
  <2>1. UNCHANGED <<now, pc, since, plan>>
    BY <1>6 DEF HumanNext, AnswerInApp, OpenReply, SendReply, StoreReply, OnlyDash, taskVars
  <2>2. h \in OutId
    BY DEF OutId
  <2>3. \A id \in OutId : id # h => row'[id] = row[id] /\ sent'[id] = sent[id]
    BY <1>6 DEF HumanNext, AnswerInApp, OpenReply, SendReply, StoreReply, TypeOK
  <2>4. row'[h] = row[h] \/ row'[h] = [sender |-> "agent", at |-> dashBegan[h], saved |-> now, campaign |-> FALSE]
    BY <1>6, <2>2 DEF HumanNext, AnswerInApp, OpenReply, SendReply, StoreReply, TypeOK
  <2>5. \A id \in OutId : row'[id] # None /\ row'[id].campaign => row[id] = row'[id]
    BY <2>3, <2>4
  <2>6. \A t \in Task, i \in Photo : row'[<<t, i>>] = row[<<t, i>>] /\ sent'[<<t, i>>] = sent[<<t, i>>]
    BY <1>a, <2>3
  <2>. QED BY <2>1, <2>5, <2>6 DEF ShareInv, PhotosOnce, StoredBefore, Photo
<1>7. CASE SetAi \/ UNCHANGED vars
  <2>1. UNCHANGED <<now, row, sent, pc, since, plan>>
    BY <1>7 DEF SetAi, vars, taskVars
  <2>. QED BY <2>1 DEF ShareInv, PhotosOnce, StoredBefore
<1>8. CASE Tick
  <2>1. now' = now + 1 /\ UNCHANGED <<row, sent, pc, since, plan>>
    BY <1>8 DEF Tick, taskVars
  <2>2. ASSUME NEW u \in Task, NEW v \in Task, NEW i \in Photo,
               pc[u] \in {"send", "store"}, plan[u] > 0, StoredBefore(<<v, i>>, u)
        PROVE  now' - row[<<v, i>>].at >= Cooldown
    <3>1. now - row[<<v, i>>].at >= Cooldown /\ row[<<v, i>>].at \in Int
      BY <1>a, <2>2 DEF ShareInv, StoredBefore
    <3>. QED BY <1>a, <2>1, <3>1
  <2>. QED BY <2>1, <2>2 DEF ShareInv, PhotosOnce, StoredBefore
<1>. QED
  BY <1>1, <1>2, <1>4, <1>5, <1>6, <1>7, <1>8 DEF Next, TaskNext, QuietTaskStep

\* A task that begins after a campaign's photo was stored with its campaign_id sends
\* none of them again until the cooldown is over: it has seen the row, whatever
\* other tasks, people and echoes do.
THEOREM PhotosSentOnce == Spec => []PhotosOnce
<1>1. Init => SilenceInv /\ PlanInv /\ ShareInv
  BY PipelineAssumption
     DEF Init, SilenceInv, ClearedOfPeople, PersonSilencesBot, PlanInv, ShareInv, PhotosOnce, StoredBefore,
         OutId, Photo, Unsent
<1>2. ShareInv => PhotosOnce
  BY DEF ShareInv
<1>. QED BY <1>1, <1>2, SilenceStep, PlanStep, ShareStep, TypeCorrect, PTL DEF Spec
=============================================================================
