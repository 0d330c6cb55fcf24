------------------------- MODULE HistorySync_proofs -------------------------
(* Theorems about HistorySync, for any pages, clicks, writers and syncs. *)
EXTENDS HistorySync, TLAPS

-----------------------------------------------------------------------------
(* Copies of the metadata *)

LEMMA NewType == New \in Meta
  BY SyncAssumption DEF New, Meta

\* Time leaves the cursor of a copy alone.
LEMMA OlderCopy ==
  ASSUME NEW m \in Meta
  PROVE  Older(m) \in Meta /\ Behind(Older(m)) = Behind(m)
  BY SyncAssumption DEF Older, Meta, Behind

\* A page's new cursor is in range, and stands behind no page beyond it.
LEMMA TurnedCopy ==
  ASSUME NEW t \in Task
  PROVE  /\ Turned(t) \in Meta
         /\ 1..Behind(Turned(t)) \subseteq 1..(t.after + 1)
<1>1. t.copy \in Meta /\ t.after \in 0..(Pages - 1)
  BY DEF Task
<1>2. CASE t.after + 1 = Pages
  <2>1. Turned(t) = [t.copy EXCEPT !.cursor = None]
    BY <1>2 DEF Turned, CursorOf
  <2>2. Turned(t) \in Meta /\ Turned(t).cursor = None
    BY <1>1, <2>1 DEF Meta
  <2>. QED BY <1>1, <2>2 DEF Behind
<1>3. CASE t.after + 1 # Pages
  <2>1. Turned(t) = [t.copy EXCEPT !.cursor = t.after + 1]
    BY <1>3 DEF Turned, CursorOf
  <2>2. t.after + 1 \in 0..(Pages - 1) /\ t.after + 1 # None
    BY <1>1, <1>3, SyncAssumption
  <2>3. Turned(t) \in Meta /\ Turned(t).cursor = t.after + 1
    BY <1>1, <2>1, <2>2 DEF Meta
  <2>. QED BY <1>1, <2>2, <2>3 DEF Behind
<1>. QED BY <1>2, <1>3

\* A click's task goes to one of the slots.
LEMMA QueuedTask ==
  ASSUME NEW c \in Click, CommitClick(c)
  PROVE  \E s \in Sync : sync' = [sync EXCEPT ![s].pc = "queued"]
<1> DEFINE s == CHOOSE r \in FreeTask : TRUE
<1>1. s \in FreeTask
  BY DEF CommitClick
<1>2. s \in Sync
  BY <1>1 DEF FreeTask
<1>. QED BY <1>2 DEF CommitClick

-----------------------------------------------------------------------------
(* Type correctness *)

\* Every step keeps the variables in their types.
LEMMA TypeStep == TypeOK /\ [Next]_vars => TypeOK'
<1> SUFFICES ASSUME TypeOK, [Next]_vars PROVE TypeOK'
  OBVIOUS
<1> USE SyncAssumption
<1> USE DEF TypeOK
<1>a. New \in Meta /\ NoTask \in Task /\ Over \in Task /\ Idle \in Loaded
  BY NewType DEF NoTask, Over, Task, Idle, Loaded
<1>b. ASSUME NEW b \in Budget, NEW max \in Nat, Use(b, max) PROVE used' \in [Budget -> Nat]
  BY <1>b DEF Use
<1>c. ASSUME NEW m \in Meta PROVE [m EXCEPT !.flag = 0] \in Meta /\ [m EXCEPT !.flag = None] \in Meta
  BY DEF Meta
<1>1. ASSUME NEW c \in Click, LoadClick(c) PROVE TypeOK'
  <2>1. [pc |-> "loaded", copy |-> [meta EXCEPT !.flag = 0]] \in Loaded
    BY <1>c DEF Loaded
  <2>. QED BY <1>1, <2>1 DEF LoadClick
<1>2. ASSUME NEW c \in Click, CommitClick(c) PROVE TypeOK'
  <2>1. meta' \in Meta
    BY <1>2 DEF CommitClick, Loaded
  <2>2. PICK s \in Sync : sync' = [sync EXCEPT ![s].pc = "queued"]
    BY <1>2, QueuedTask
  <2>3. sync' \in [Sync -> Task]
    <3>1. [sync[s] EXCEPT !.pc = "queued"] \in Task
      BY DEF Task
    <3>. QED BY <2>2, <3>1
  <2>. QED BY <1>2, <1>a, <2>1, <2>3 DEF CommitClick
<1>3. ASSUME NEW s \in Sync, Begin(s) PROVE TypeOK'
  <2>1. [pc |-> "page", copy |-> meta, after |-> Behind(meta), done |-> 0] \in Task
    BY DEF Task, Meta, Behind
  <2>. QED BY <1>3, <2>1 DEF Begin, Put
<1>4. ASSUME NEW s \in Sync, PullPage(s) PROVE TypeOK'
  <2>1. sync[s] \in Task
    OBVIOUS
  <2>2. meta' \in Meta
    BY <1>4, <2>1, TurnedCopy DEF PullPage, Write
  <2>3. pulled' \subseteq 1..Pages
    <3>1. sync[s].after \in 0..(Pages - 1) /\ Pages \in Nat
      BY <2>1 DEF Task
    <3>2. sync[s].after + 1 \in 1..Pages
      BY <3>1
    <3>3. pulled' = pulled \cup {sync[s].after + 1}
      BY <1>4 DEF PullPage
    <3>. QED BY <3>2, <3>3
  <2>4. sync' \in [Sync -> Task]
    <3>1. CASE sync[s].done + 1 = PagesPerClick \/ sync[s].after + 1 = Pages
      BY <1>4, <1>a, <3>1 DEF PullPage, Put
    <3>2. CASE ~(sync[s].done + 1 = PagesPerClick \/ sync[s].after + 1 = Pages)
      <4>1. [pc |-> "page", copy |-> Turned(sync[s]), after |-> sync[s].after + 1,
             done |-> sync[s].done + 1] \in Task
        BY <2>1, <3>2, TurnedCopy DEF Task
      <4>. QED BY <1>4, <3>2, <4>1 DEF PullPage, Put
    <3>. QED BY <3>1, <3>2
  <2>. QED BY <1>4, <2>2, <2>3, <2>4 DEF PullPage
<1>5. ASSUME NEW s \in Sync, Break(s) \/ Abandon(s) PROVE TypeOK'
  BY <1>5, <1>a, <1>b DEF Break, Abandon, Put, Budget
<1>6. ASSUME NEW s \in Sync, Reload(s) PROVE TypeOK'
  BY <1>6 DEF Reload, Task
<1>7. ASSUME NEW s \in Sync, Clear(s) PROVE TypeOK'
  <2>1. sync[s].copy \in Meta
    BY DEF Task
  <2>2. meta' \in Meta
    BY <1>7, <1>c, <2>1 DEF Clear, Write
  <2>. QED BY <1>7, <1>a, <2>2 DEF Clear, Put
<1>8. ASSUME NEW w \in Writer, LoadMark(w) PROVE TypeOK'
  <2>1. [pc |-> "loaded", copy |-> meta] \in Loaded
    BY DEF Loaded
  <2>. QED BY <1>8, <1>b, <2>1 DEF LoadMark, Budget
<1>9. ASSUME NEW w \in Writer, CommitMark(w) PROVE TypeOK'
  <2>1. meta' \in Meta
    BY <1>9 DEF CommitMark, Loaded
  <2>. QED BY <1>9, <1>a, <2>1 DEF CommitMark
<1>10. CASE Refuse
  BY <1>10, <1>a, <1>b DEF Refuse, Budget
<1>11. CASE Tick
  <2>1. meta' \in Meta
    BY <1>11, OlderCopy DEF Tick
  <2>2. click' \in [Click -> Loaded] /\ writer' \in [Writer -> Loaded]
    BY <1>11, OlderCopy DEF Tick, Loaded
  <2>3. sync' \in [Sync -> Task]
    BY <1>11, OlderCopy DEF Tick, Task
  <2>4. used' \in [Budget -> Nat] /\ pulled' = pulled
    BY <1>11, <1>b DEF Tick, Budget
  <2>. QED BY <2>1, <2>2, <2>3, <2>4
<1>12. CASE UNCHANGED vars
  BY <1>12 DEF vars
<1>. QED
  BY <1>1, <1>2, <1>3, <1>4, <1>5, <1>6, <1>7, <1>8, <1>9, <1>10, <1>11, <1>12 DEF Next, SyncStep

\* Metadata, copies and tasks stay of their types: no cursor runs beyond the
\* last page, whatever copies are written back.
THEOREM SyncTypeCorrect == Spec => []TypeOK
<1>1. Init => TypeOK
  BY NewType, SyncAssumption DEF Init, TypeOK, Idle, Loaded, NoTask, Task
<1>. QED BY <1>1, TypeStep, PTL DEF Spec

-----------------------------------------------------------------------------
(* The cursor *)

\* The cursor of every copy that may still be written stands behind stored pages
\* only, and so does the place a task has got to.
EveryCopyCovers ==
  /\ Covers(meta)
  /\ \A c \in Click : Covers(click[c].copy)
  /\ \A w \in Writer : Covers(writer[w].copy)
  /\ \A s \in Sync : Covers(sync[s].copy) /\ 1..sync[s].after \subseteq pulled

\* Every step keeps it.
LEMMA CopiesStep == TypeOK /\ EveryCopyCovers /\ [Next]_vars => EveryCopyCovers'
<1> SUFFICES ASSUME TypeOK, EveryCopyCovers, [Next]_vars PROVE EveryCopyCovers'
  OBVIOUS
<1> USE SyncAssumption
<1> USE DEF TypeOK, EveryCopyCovers, Covers
<1>a. /\ Covers(New) /\ Covers(Idle.copy) /\ Covers(NoTask.copy) /\ Covers(Over.copy)
      /\ 1..NoTask.after \subseteq pulled /\ 1..Over.after \subseteq pulled
  BY DEF New, Idle, NoTask, Over, Behind
<1>b. ASSUME NEW m \in Meta, Covers(m)
      PROVE  Covers([m EXCEPT !.flag = 0]) /\ Covers([m EXCEPT !.flag = None]) /\ Covers(Older(m))
  BY <1>b, OlderCopy DEF Behind, Meta
<1>1. ASSUME NEW c \in Click, LoadClick(c) PROVE EveryCopyCovers'
  <2>1. \A d \in Click : click'[d].copy = click[d].copy \/ click'[d].copy = [meta EXCEPT !.flag = 0]
    BY <1>1 DEF LoadClick
  <2>. QED BY <1>1, <1>b, <2>1 DEF LoadClick
<1>2. ASSUME NEW c \in Click, CommitClick(c) PROVE EveryCopyCovers'
  <2>1. \A d \in Click : click'[d].copy = click[d].copy \/ click'[d].copy = Idle.copy
    BY <1>2 DEF CommitClick
  <2>2. \A s \in Sync : sync'[s].copy = sync[s].copy /\ sync'[s].after = sync[s].after
    BY <1>2, QueuedTask DEF Task
  <2>. QED BY <1>2, <1>a, <2>1, <2>2 DEF CommitClick
<1>3. ASSUME NEW s \in Sync, Begin(s) \/ Reload(s) PROVE EveryCopyCovers'
  <2>1. UNCHANGED <<meta, pulled, click, writer>>
    BY <1>3 DEF Begin, Reload
  <2>2. \A r \in Sync : /\ sync'[r].copy = sync[r].copy \/ sync'[r].copy = meta
                        /\ sync'[r].after = sync[r].after \/ sync'[r].after = Behind(meta)
    BY <1>3 DEF Begin, Reload, Put, Task
  <2>. QED BY <2>1, <2>2
<1>4. ASSUME NEW s \in Sync, Break(s) \/ Abandon(s) PROVE EveryCopyCovers'
  <2>1. UNCHANGED <<meta, pulled, click, writer>>
    BY <1>4 DEF Break, Abandon
  <2>2. \A r \in Sync : sync'[r] = sync[r] \/ sync'[r] = Over \/ sync'[r] = NoTask
    BY <1>4 DEF Break, Abandon, Put
  <2>. QED BY <1>a, <2>1, <2>2
<1>5. ASSUME NEW s \in Sync, PullPage(s) PROVE EveryCopyCovers'
  <2>1. sync[s] \in Task /\ sync[s].after \in Nat
    BY DEF Task
  <2>2. pulled \subseteq pulled' /\ 1..(sync[s].after + 1) \subseteq pulled'
    BY <1>5, <2>1 DEF PullPage
  <2>3. 1..Behind(Turned(sync[s])) \subseteq pulled'
    BY <2>1, <2>2, TurnedCopy
  <2>4. Covers(meta)'
    BY <1>5, <2>2, <2>3 DEF PullPage, Write
  <2>5. ASSUME NEW r \in Sync PROVE Covers(sync[r].copy)' /\ (1..sync[r].after \subseteq pulled)'
    <3>1. CASE r # s
      BY <1>5, <2>2, <3>1 DEF PullPage, Put
    <3>2. CASE r = s /\ sync'[s] = Over
      BY <1>a, <2>2, <3>2
    <3>3. CASE r = s /\ sync'[s].copy = Turned(sync[s]) /\ sync'[s].after = sync[s].after + 1
      BY <2>2, <2>3, <3>3
    <3>. QED BY <1>5, <3>1, <3>2, <3>3 DEF PullPage, Put
  <2>. QED BY <1>5, <2>2, <2>4, <2>5 DEF PullPage
<1>6. ASSUME NEW s \in Sync, Clear(s) PROVE EveryCopyCovers'
  <2>1. sync[s].copy \in Meta
    BY DEF Task
  <2>2. Covers(meta)'
    BY <1>6, <1>b, <2>1 DEF Clear, Write
  <2>. QED BY <1>6, <1>a, <2>2 DEF Clear, Put
<1>7. ASSUME NEW w \in Writer, LoadMark(w) \/ CommitMark(w) PROVE EveryCopyCovers'
  BY <1>7, <1>a DEF LoadMark, CommitMark
<1>8. CASE Refuse
  BY <1>8, <1>a DEF Refuse
<1>9. CASE Tick
  <2>1. /\ \A c \in Click : click[c].copy \in Meta
        /\ \A w \in Writer : writer[w].copy \in Meta
        /\ \A s \in Sync : sync[s].copy \in Meta
    BY DEF Loaded, Task
  <2>2. /\ \A c \in Click : click'[c].copy = Older(click[c].copy)
        /\ \A w \in Writer : writer'[w].copy = Older(writer[w].copy)
        /\ \A s \in Sync : sync'[s].copy = Older(sync[s].copy) /\ sync'[s].after = sync[s].after
        /\ meta' = Older(meta) /\ pulled' = pulled
    BY <1>9 DEF Tick, Loaded, Task
  <2>. QED BY <1>b, <2>1, <2>2
<1>10. CASE UNCHANGED vars
  BY <1>10 DEF vars
<1>. QED
  BY <1>1, <1>2, <1>3, <1>4, <1>5, <1>6, <1>7, <1>8, <1>9, <1>10 DEF Next, SyncStep

\* The cursor never skips a page that is not stored, whichever of the copies is
\* written last.
THEOREM CursorIsCovered == Spec => []CursorCovers
<1>1. Init => EveryCopyCovers
  BY DEF Init, EveryCopyCovers, Covers, New, Idle, NoTask, Behind
<1>2. EveryCopyCovers => CursorCovers
  BY DEF EveryCopyCovers, CursorCovers
<1>. QED BY <1>1, <1>2, CopiesStep, SyncTypeCorrect, PTL DEF Spec
=============================================================================
