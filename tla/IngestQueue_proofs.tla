------------------------- MODULE IngestQueue_proofs -------------------------
(* Ingest implements ReplyQueue, for any customers, messages and workers. *)
EXTENDS Ingest_proofs

-----------------------------------------------------------------------------
(* What a transaction owes *)

\* A reply is owed in the chat of its message, and a webhook that has stored a
\* customer's message owes a reply in its chat.
OwesEachChat ==
  \A w \in Worker :
    /\ \A c \in Chats : tx[w].reply[c] # None => ChatOf(tx[w].reply[c]) = c
    /\ IsWebhook(w) => \A m \in tx[w].messages \ Echo : tx[w].reply[ChatOf(m)] # None

\* Steps that store nothing keep it.
LEMMA QuietKeepsOwes ==
  ASSUME OwesEachChat,
         \A v \in Worker : \/ tx'[v] = EmptyTx
                           \/ /\ tx'[v].messages = tx[v].messages /\ tx'[v].reply = tx[v].reply
                              /\ kind'[v] \in {kind[v], "history"}
  PROVE  OwesEachChat'
BY EmptyTxFacts, ChatType DEF OwesEachChat, IsWebhook

\* So does every statement: StoreMessage owes the reply with the message.
LEMMA StatementKeepsOwes ==
  ASSUME IngestInv, OwesEachChat, NEW w \in Worker, Statement(w), ~Fail(w)
  PROVE  OwesEachChat' /\ UNCHANGED <<stored, jobs, replied>>
<1>1. PICK new, step : Moves(w, new, step) /\ (Like(new, tx[w]) \/ (StoreMessage(w) /\ Stores(w, new)))
  BY StatementMoves
<1>2. /\ tx' = [tx EXCEPT ![w] = new] /\ kind' = kind
      /\ stored' = stored /\ replied' = replied /\ jobs' = jobs
  BY <1>1 DEF Moves, Run, dbVars, outVars
<1>3. tx \in [Worker -> Tx]
  BY DEF IngestInv, TypeOK
<1>4. CASE Like(new, tx[w])
  BY <1>2, <1>3, <1>4, QuietKeepsOwes DEF Like
<1>5. CASE StoreMessage(w)
  <2> DEFINE m == Mid(w)
             x == Chat(w)
             answers == Inbound(w) /\ IsNew(w)
  <2>1. pc[w] \in EventStep /\ TypeOK /\ Busy
    BY <1>5 DEF StoreMessage, At, EventStep, IngestInv
  <2>2. m \in Message /\ x \in Chats /\ x = ChatOf(m)
    BY <2>1, CurrentEvent DEF Chat
  <2>3. tx[w].reply \in [Chats -> Message \cup {None}] /\ tx[w].messages \subseteq Message
    BY <1>3 DEF Tx
  <2>4. /\ tx'[w].messages = IF IsNew(w) THEN tx[w].messages \cup {m} ELSE tx[w].messages
        /\ tx'[w].reply = [tx[w].reply EXCEPT ![x] = IF answers THEN m ELSE @]
    BY <1>3, <1>5 DEF StoreMessage, Run, Tx
  <2>5. \A c \in Chats : tx'[w].reply[c] # None => ChatOf(tx'[w].reply[c]) = c
    BY <2>2, <2>3, <2>4 DEF OwesEachChat
  <2>6. IsWebhook(w) => \A n \in tx'[w].messages \ Echo : tx'[w].reply[ChatOf(n)] # None
    <3> SUFFICES ASSUME IsWebhook(w), NEW n \in tx'[w].messages \ Echo
                 PROVE  tx'[w].reply[ChatOf(n)] # None
      OBVIOUS
    <3>1. n \in Message /\ ChatOf(n) \in Chats /\ m # None
      BY <2>2, <2>3, <2>4, ChatType, IngestAssumption
    <3>2. CASE n \in tx[w].messages
      BY <2>2, <2>3, <2>4, <3>1, <3>2 DEF OwesEachChat
    <3>3. CASE n \notin tx[w].messages
      <4>1. n = m /\ answers
        BY <2>4, <3>3 DEF Inbound
      <4>. QED BY <2>2, <2>3, <2>4, <3>1, <4>1
    <3>. QED BY <3>2, <3>3
  <2>7. \A v \in Worker : v # w => tx'[v] = tx[v]
    BY <1>2, <1>3
  <2>. QED BY <1>2, <2>5, <2>6, <2>7 DEF OwesEachChat, IsWebhook
<1>. QED BY <1>1, <1>2, <1>4, <1>5

-----------------------------------------------------------------------------
(* Steps of ReplyQueue *)

Owed == UNION {jobs[w].reply : w \in Worker}
Answered == {m \in Message : replied[m] > 0}

\* A step that changes neither what is stored nor jobs nor answers is a stutter.
LEMMA Stutters ==
  ASSUME UNCHANGED <<stored, jobs, replied>>
  PROVE  UNCHANGED <<stored, Owed, Answered>>
BY DEF Owed, Answered

\* A worker's jobs that are gone are gone from what is owed: no other has them.
LEMMA Gone ==
  ASSUME TypeOK, OneJob, NEW w \in Worker, NEW M \in SUBSET jobs[w].reply,
         jobs'[w].reply = jobs[w].reply \ M,
         \A v \in Worker : v # w => jobs'[v].reply = jobs[v].reply
  PROVE  M \in SUBSET Owed /\ Owed' = Owed \ M
BY DEF OneJob, Owed

\* The commit of a webhook stores its messages and queues their replies; that of
\* a sync only stores.
LEMMA CommitIsTake ==
  ASSUME IngestInv, OnceInv, OwesEachChat, NEW w \in Worker, Commit(w), jobs[w].reply = {}
  PROVE  Queue!Next
<1> DEFINE S == tx[w].messages
           R == Queued(tx[w])
<1>1. TypeOK /\ tx[w] \in Tx /\ jobs \in [Worker -> Jobs]
  BY DEF IngestInv, TypeOK
<1>2. stored' = stored \cup S /\ S \in SUBSET (Message \ stored) /\ Answered' = Answered
  BY <1>1 DEF Commit, OnceInv, OneInserter, Tx, outVars, Answered
<1>3. CASE IsWebhook(w)
  <2>1. jobs' = [jobs EXCEPT ![w] = [profile |-> tx[w].profile, reply |-> R]]
    BY <1>3 DEF Commit, IsWebhook
  <2>2. Owed' = Owed \cup R
    BY <1>1, <2>1 DEF Owed
  <2>3. R \subseteq S \ Echo
    BY <1>1, IngestAssumption, ChatType DEF Queued, OnceInv, OwedToOwn
  <2>4. \A m \in S \ Echo : \E n \in R : ChatOf(n) = ChatOf(m)
    <3> SUFFICES ASSUME NEW m \in S \ Echo PROVE \E n \in R : ChatOf(n) = ChatOf(m)
      OBVIOUS
    <3> DEFINE n == tx[w].reply[ChatOf(m)]
    <3>1. m \in Message /\ ChatOf(m) \in Chats
      BY <1>1, ChatType DEF Tx
    <3>2. n # None /\ n \in Message
      BY <1>1, <1>3, <3>1 DEF OwesEachChat, Tx
    <3>3. ChatOf(n) = ChatOf(m)
      BY <3>1, <3>2 DEF OwesEachChat
    <3>. QED BY <3>2, <3>3 DEF Queued
  <2>5. \A m, n \in R : ChatOf(m) = ChatOf(n) => m = n
    BY DEF Queued
  <2>9. S \subseteq Message
    BY <1>1 DEF Tx
  <2>6. Queue!OnePerChat(S, R) /\ R \in SUBSET S
    <3> HIDE DEF S, R
    <3>. QED BY <2>3, <2>4, <2>5, <2>9 DEF Queue!OnePerChat
  <2>7. PICK T \in SUBSET (Message \ stored) : T = S
    BY <1>2
  <2>8. Queue!Take(T)
    BY <1>2, <2>2, <2>6, <2>7 DEF Queue!Take, Owed, Answered
  <2>. QED BY <2>8 DEF Queue!Next
<1>4. CASE kind[w] = "history"
  <2>1. jobs' = jobs
    BY <1>4 DEF Commit, IsWebhook
  <2>2. PICK T \in SUBSET (Message \ stored) : T = S
    BY <1>2
  <2>3. Queue!Recall(T)
    BY <1>2, <2>1, <2>2 DEF Queue!Recall, Owed, Answered
  <2>. QED BY <2>3 DEF Queue!Next
<1>. QED BY <1>3, <1>4 DEF Commit

\* Starting a job answers its message.
LEMMA RunIsAnswer ==
  ASSUME IngestInv, OnceInv, NEW w \in Worker, NEW m \in Message, RunReply(w, m)
  PROVE  Queue!Next
<1>1. TypeOK /\ jobs \in [Worker -> Jobs] /\ stored' = stored /\ m \in jobs[w].reply
  BY DEF RunReply, IngestInv, TypeOK, dbVars
<1>2. replied' = [replied EXCEPT ![m] = @ + 1] /\ replied \in [Message -> Nat]
  BY <1>1 DEF RunReply, TypeOK
<1>3. /\ \A v \in Worker : v # w => jobs'[v].reply = jobs[v].reply
      /\ jobs'[w].reply = jobs[w].reply \ {m}
  <2>1. jobs' = [jobs EXCEPT ![w] = [jobs[w] EXCEPT !.reply = @ \ {m}]]
    BY <1>1 DEF RunReply
  <2>2. [jobs[w] EXCEPT !.reply = @ \ {m}].reply = jobs[w].reply \ {m}
    BY <1>1 DEF Jobs
  <2>. QED BY <1>1, <2>1, <2>2
<1>4. Owed' = Owed \ {m} /\ m \in Owed
  <2>1. {m} \in SUBSET jobs[w].reply /\ OneJob
    BY <1>1 DEF OnceInv
  <2>2. {m} \in SUBSET Owed /\ Owed' = Owed \ {m}
    BY <1>1, <1>3, <2>1, Gone
  <2>. QED BY <2>2
<1>5. Answered' = Answered \cup {m}
  BY <1>2 DEF Answered
<1>6. Queue!Answer(m)
  BY <1>1, <1>4, <1>5 DEF Queue!Answer, Owed, Answered
<1>. QED BY <1>6 DEF Queue!Next

\* A crash, or a task that raises, loses the jobs behind it.
LEMMA EndIsLose ==
  ASSUME IngestInv, OnceInv, NEW w \in Worker,
         Crash(w) \/ \E s \in Sender : RaiseProfile(w, s)
  PROVE  Queue!Next
<1>1. TypeOK /\ jobs \in [Worker -> Jobs]
  BY DEF IngestInv, TypeOK
<1>2. stored' = stored /\ replied' = replied /\ jobs' = [jobs EXCEPT ![w] = NoJobs]
  BY DEF Crash, RaiseProfile, dbVars
<1>3. Owed' = Owed \ jobs[w].reply /\ jobs[w].reply \in SUBSET Owed
  <2>1. jobs'[w].reply = jobs[w].reply \ jobs[w].reply
    BY <1>1, <1>2 DEF NoJobs
  <2>2. \A v \in Worker : v # w => jobs'[v].reply = jobs[v].reply
    BY <1>1, <1>2
  <2>. QED BY <1>1, <2>1, <2>2, Gone DEF OnceInv
<1>4. PICK M \in SUBSET UNION {jobs[v].reply : v \in Worker} : M = jobs[w].reply
  BY <1>3 DEF Owed
<1>5. Queue!Lose(M)
  BY <1>2, <1>3, <1>4 DEF Queue!Lose, Owed, Answered
<1>. QED BY <1>5 DEF Queue!Next

-----------------------------------------------------------------------------
(* Every step *)

\* A worker has jobs only behind its response.
JobsLate == \A w \in Worker : pc[w] \notin {"respond", "background"} => jobs[w] = NoJobs

QueueInv == OwesEachChat /\ JobsLate

LEMMA QueueStep ==
  ASSUME IngestInv, OnceInv, QueueInv, [Next]_vars
  PROVE  QueueInv' /\ (Queue!Next \/ UNCHANGED <<stored, Owed, Answered>>)
<1>0. TypeOK /\ tx \in [Worker -> Tx] /\ jobs \in [Worker -> Jobs] /\ pc \in [Worker -> Step]
      /\ kind \in [Worker -> {"webhook", "history"}] /\ NoJobs.reply = {}
  BY DEF IngestInv, TypeOK, NoJobs
<1>1. CASE Next
  <2>1. PICK w \in Worker :
          \/ (\E b \in Batch : Receive(w, b)) \/ (\E p \in Page : FetchPage(w, p))
          \/ Work(w) \/ DbError(w) \/ Crash(w)
    BY <1>1 DEF Next
  <2>2. CASE (\E b \in Batch : Receive(w, b)) \/ (\E p \in Page : FetchPage(w, p))
    <3>1. UNCHANGED <<stored, jobs, replied, tx>> /\ pc[w] = "idle"
      BY <2>2 DEF Receive, FetchPage, dbVars, outVars
    <3>2. /\ \A v \in Worker : v # w => pc'[v] = pc[v] /\ kind'[v] = kind[v]
          /\ kind'[w] \in {kind[w], "history"}
      BY <1>0, <2>2 DEF Receive, FetchPage, Goto
    <3>3. OwesEachChat'
      BY <3>1, <3>2, QuietKeepsOwes DEF QueueInv
    <3>4. JobsLate'
      BY <3>1, <3>2 DEF QueueInv, JobsLate
    <3>. QED BY <3>1, <3>3, <3>4, Stutters DEF QueueInv
  <2>3. CASE Respond(w)
    <3>1. UNCHANGED <<stored, jobs, replied, tx, kind>> /\ pc[w] = "respond"
          /\ pc' = [pc EXCEPT ![w] = "background"]
      BY <2>3 DEF Respond, Goto, dbVars, outVars
    <3>2. OwesEachChat'
      BY <3>1, QuietKeepsOwes DEF QueueInv
    <3>3. JobsLate'
      BY <1>0, <3>1 DEF QueueInv, JobsLate
    <3>. QED BY <3>1, <3>2, <3>3, Stutters DEF QueueInv
  <2>4. CASE (Fail(w) /\ pc[w] \notin {"respond", "background"}) \/ Finish(w)
    <3>1. UNCHANGED <<stored, jobs, replied>> /\ End(w) /\ jobs[w] = NoJobs
      BY <2>4 DEF Fail, Finish, QueueInv, JobsLate, dbVars, outVars
    <3>2. OwesEachChat'
      BY <1>0, <3>1, QuietKeepsOwes DEF End, QueueInv
    <3>3. JobsLate'
      BY <1>0, <3>1 DEF End, Goto, QueueInv, JobsLate
    <3>. QED BY <3>1, <3>2, <3>3, Stutters DEF QueueInv
  <2>5. CASE Crash(w)
    <3>1. End(w) /\ jobs' = [jobs EXCEPT ![w] = NoJobs]
      BY <2>5 DEF Crash
    <3>2. OwesEachChat'
      BY <1>0, <3>1, QuietKeepsOwes DEF End, QueueInv
    <3>3. JobsLate'
      BY <1>0, <3>1 DEF End, Goto, QueueInv, JobsLate
    <3>. QED BY <2>5, <3>2, <3>3, EndIsLose DEF QueueInv
  <2>6. CASE \E s \in Sender : RaiseProfile(w, s)
    <3>1. UNCHANGED <<tx, kind, pc>> /\ jobs' = [jobs EXCEPT ![w] = NoJobs]
      BY <2>6 DEF RaiseProfile
    <3>2. OwesEachChat'
      BY <3>1, QuietKeepsOwes DEF QueueInv
    <3>3. JobsLate'
      BY <1>0, <3>1 DEF QueueInv, JobsLate
    <3>. QED BY <2>6, <3>2, <3>3, EndIsLose DEF QueueInv
  <2>7. CASE \E s \in Sender : RunProfile(w, s)
    <3>1. /\ UNCHANGED <<tx, kind, pc, stored, replied>> /\ pc[w] = "background"
          /\ \A v \in Worker : jobs'[v].reply = jobs[v].reply /\ (v # w => jobs'[v] = jobs[v])
      <4>1. PICK s \in Sender : RunProfile(w, s)
        BY <2>7
      <4>2. jobs' = [jobs EXCEPT ![w] = [jobs[w] EXCEPT !.profile = @ \ {s}]]
        BY <1>0, <4>1 DEF RunProfile
      <4>3. [jobs[w] EXCEPT !.profile = @ \ {s}].reply = jobs[w].reply
        BY <1>0 DEF Jobs
      <4>4. UNCHANGED <<tx, kind, pc, stored, replied>> /\ pc[w] = "background"
        BY <4>1 DEF RunProfile, procVars, outVars
      <4>5. \A v \in Worker : v # w => jobs'[v] = jobs[v]
        BY <1>0, <4>2
      <4>6. jobs'[w].reply = jobs[w].reply
        BY <1>0, <4>2, <4>3
      <4>. QED BY <4>4, <4>5, <4>6
    <3>2. OwesEachChat'
      BY <3>1, QuietKeepsOwes DEF QueueInv
    <3>3. JobsLate'
      BY <3>1 DEF QueueInv, JobsLate
    <3>4. Owed' = Owed /\ Answered' = Answered
      BY <3>1 DEF Owed, Answered
    <3>. QED BY <3>1, <3>2, <3>3, <3>4 DEF QueueInv
  <2>8. CASE \E m \in Message : RunReply(w, m)
    <3>1. /\ UNCHANGED <<tx, kind, pc>> /\ pc[w] = "background"
          /\ \A v \in Worker : v # w => jobs'[v] = jobs[v]
      BY <1>0, <2>8 DEF RunReply
    <3>2. OwesEachChat'
      BY <3>1, QuietKeepsOwes DEF QueueInv
    <3>3. JobsLate'
      BY <3>1 DEF QueueInv, JobsLate
    <3>. QED BY <2>8, <3>2, <3>3, RunIsAnswer DEF QueueInv
  <2>9. CASE Statement(w) /\ ~Fail(w)
    <3>1. OwesEachChat' /\ UNCHANGED <<stored, jobs, replied>>
      BY <2>9, StatementKeepsOwes DEF QueueInv
    <3>2. pc[w] \notin {"respond", "background"}
      BY <2>9 DEF Statement, Stamp, LoadCustomer, InsertCustomer, LoadConversation, InsertConversation,
                  StoreMessage, CaptureLead, FlushEvent, At
    <3>3. \A v \in Worker : v # w => pc'[v] = pc[v]
      BY <1>0, <2>9, StatementMoves DEF Moves, Run, Goto
    <3>4. JobsLate'
      BY <3>1, <3>2, <3>3 DEF QueueInv, JobsLate
    <3>. QED BY <3>1, <3>4, Stutters DEF QueueInv
  <2>10. CASE Commit(w)
    <3>1. pc[w] = "commit" /\ jobs[w].reply = {} /\ jobs[w] = NoJobs
      BY <1>0, <2>10 DEF Commit, At, QueueInv, JobsLate
    <3>2. Queue!Next
      BY <2>10, <3>1, CommitIsTake DEF QueueInv
    <3>3. tx' = [tx EXCEPT ![w] = EmptyTx] /\ \A v \in Worker : v # w => kind'[v] = kind[v]
      BY <1>0, <2>10 DEF Commit, End
    <3>4. OwesEachChat'
      BY <1>0, <3>3, QuietKeepsOwes DEF QueueInv
    <3>5. /\ \A v \in Worker : v # w => pc'[v] = pc[v] /\ jobs'[v] = jobs[v]
          /\ pc'[w] = "respond" \/ jobs'[w] = jobs[w]
      BY <1>0, <2>10 DEF Commit, End, Goto
    <3>6. JobsLate'
      BY <3>1, <3>5 DEF QueueInv, JobsLate
    <3>. QED BY <3>2, <3>4, <3>6 DEF QueueInv
  <2>11. CASE (BreakDeadlock(w) \/ DbError(w)) \/ (Statement(w) /\ Fail(w))
    <3>1. Fail(w)
      BY <2>11 DEF BreakDeadlock, DbError
    <3>2. pc[w] \notin {"respond", "background"}
      <4>1. CASE BreakDeadlock(w)
        BY <4>1, CircleWaits DEF BreakDeadlock, Blockers
      <4>2. CASE DbError(w)
        BY <4>2 DEF DbError, TxStep, EventStep
      <4>3. CASE Statement(w)
        BY <4>3 DEF Statement, Stamp, LoadCustomer, InsertCustomer, LoadConversation,
                    InsertConversation, StoreMessage, CaptureLead, FlushEvent, At
      <4>. QED BY <2>11, <4>1, <4>2, <4>3
    <3>. QED BY <2>4, <3>1, <3>2
  <2>. QED
    BY <2>1, <2>2, <2>3, <2>4, <2>5, <2>6, <2>7, <2>8, <2>9, <2>10, <2>11 DEF Work, Statement
<1>2. CASE UNCHANGED vars
  <2>1. UNCHANGED <<stored, jobs, replied, tx, kind, pc>>
    BY <1>2 DEF vars, dbVars, procVars, outVars
  <2>2. OwesEachChat'
    BY <2>1, QuietKeepsOwes DEF QueueInv
  <2>. QED BY <2>1, <2>2, Stutters DEF QueueInv, JobsLate
<1>. QED BY <1>1, <1>2

\* Requests, transactions, races and crashes implement ReplyQueue: a message that
\* becomes stored has its chat's reply queued in the same step, and a reply is
\* started once or lost, never owed again.
THEOREM IngestImplementsQueue == Spec => ImplementsQueue
<1>1. Init => QueueInv /\ Queue!Init
  BY EmptyTxFacts DEF Init, QueueInv, OwesEachChat, JobsLate, NoJobs, Queue!Init
<1>2. IngestInv /\ OnceInv /\ QueueInv /\ [Next]_vars
        => QueueInv' /\ [Queue!Next]_<<stored, Owed, Answered>>
  BY QueueStep
<1>3. IngestInv /\ OnceInv /\ QueueInv /\ [Next]_vars
        => [Queue!Next]_<<stored, UNION {jobs[w].reply : w \in Worker}, {m \in Message : replied[m] > 0}>>
  BY <1>2 DEF Owed, Answered
<1>. QED
  BY <1>1, <1>2, <1>3, InitKeeps, NextKeeps, OnceInit, OnceStep, PTL
     DEF Spec, ImplementsQueue, Queue!Spec
=============================================================================
