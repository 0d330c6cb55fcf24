------------------------- MODULE ChannelLink_proofs -------------------------
(* Theorems about ChannelLink, for any channels, workspaces, messages and      *)
(* requests at a time.                                                         *)
EXTENDS ChannelLink, TLAPS

-----------------------------------------------------------------------------
(* Types *)

\* A request or task that is past "next" is at a channel.
Placed == \A r \in Request : req[r] # Idle /\ req[r].pc # "next" => req[r].at \in Channel

TypeInv == TypeOK /\ Placed

\* What a request is, by its operation.
LEMMA RequestShape ==
  ASSUME TypeInv, NEW r \in Request
  PROVE  /\ req[r] # Idle /\ req[r].op \in Op => req[r] \in Handling
         /\ req[r] # Idle /\ req[r].op \in {"task"} => req[r] \in AfterLink
         /\ req[r] # Idle /\ req[r].pc # "next" => req[r].at \in Channel
<1>1. req[r] \in {Idle} \cup Handling \cup AfterLink
  BY DEF TypeInv, TypeOK
<1>. QED BY <1>1 DEF TypeInv, Placed, Handling, AfterLink, Op

\* Every step keeps the variables in their types.
LEMMA TypeStep == TypeInv /\ [Next]_vars => TypeInv'
<1> SUFFICES ASSUME TypeInv, [Next]_vars PROVE TypeInv'
  OBVIOUS
<1> USE ChannelLinkAssumption
<1> USE DEF db, meta, seeding
<1>a. ASSUME NEW r \in Request, NEW q \in {Idle} \cup Handling \cup AfterLink,
             q # Idle /\ q.pc # "next" => q.at \in Channel,
             req' = [req EXCEPT ![r] = q]
      PROVE  req' \in [Request -> {Idle} \cup Handling \cup AfterLink] /\ Placed'
  BY <1>a DEF TypeInv, TypeOK, Placed
<1>b. ASSUME NEW r \in Request, Release(r) PROVE held' \in [Channel -> Request \cup {None}]
  BY <1>b DEF Release, TypeInv, TypeOK
<1>c. ASSUME NEW r \in Request, Refuse(r), At(r, {"page", "pages", "whatsapp"}, req[r].pc)
      PROVE  /\ req' \in [Request -> {Idle} \cup Handling \cup AfterLink] /\ Placed'
             /\ held' \in [Channel -> Request \cup {None}]
  <2>1. req[r] \in Handling
    BY <1>c, RequestShape DEF At, Op
  <2>2. CASE req[r].op = "pages"
    <3>1. [req[r] EXCEPT !.pc = "next", !.at = None] \in Handling
      BY <2>1 DEF Handling
    <3>2. req' = [req EXCEPT ![r] = [req[r] EXCEPT !.pc = "next", !.at = None]] /\ UNCHANGED held
      BY <1>c, <2>2 DEF Refuse
    <3>. QED BY <1>a, <2>1, <3>1, <3>2 DEF Handling, TypeInv, TypeOK
  <2>3. CASE req[r].op # "pages"
    BY <1>a, <1>b, <1>c, <2>3 DEF Refuse
  <2>. QED BY <2>2, <2>3
<1>1. ASSUME NEW r \in Request, NEW by \in tenants \cup {None}, NEW asked \in Asked, Begin(r, by, asked)
      PROVE  TypeInv'
  <2>1. Started(asked.op, by, asked.todo) \in Handling
    BY <1>1 DEF Started, Asked, Handling, Op, TypeInv, TypeOK
  <2>2. req' = [req EXCEPT ![r] = Started(asked.op, by, asked.todo)]
    BY <1>1 DEF Begin
  <2>3. Started(asked.op, by, asked.todo).pc = "next"
    BY DEF Started
  <2>4. req' \in [Request -> {Idle} \cup Handling \cup AfterLink] /\ Placed'
    BY <1>a, <2>1, <2>2, <2>3
  <2>. QED BY <1>1, <2>4 DEF Begin, TypeInv, TypeOK
<1>2. ASSUME NEW r \in Request, NEW ch \in Channel, Load(r, ch) PROVE TypeInv'
  <2> DEFINE q == [req[r] EXCEPT !.todo = @ \ {ch}]
             p == [q EXCEPT !.at = ch, !.seen = row[ch], !.pc = FirstStep(req[r].op)]
  <2>1. req[r] \in Handling /\ req[r].pc = "next"
    BY <1>2, RequestShape DEF Load, At
  <2>2. q \in Handling /\ q.pc = "next" /\ q.op = req[r].op /\ q.by = req[r].by
    BY <2>1 DEF Handling
  <2>3. p \in Handling /\ p.at = ch
    BY <2>1, <2>2 DEF Handling, FirstStep, TypeInv, TypeOK
  <2>4. PICK z \in {Idle, q, p} : req' = [req EXCEPT ![r] = z]
    BY <1>2, <2>2 DEF Load
  <2>5. z \in {Idle} \cup Handling \cup AfterLink /\ (z # Idle /\ z.pc # "next" => z.at \in Channel)
    BY <2>2, <2>3, <2>4
  <2>6. held' = held \/ Release(r)
    BY <1>2 DEF Load
  <2>7. held' \in [Channel -> Request \cup {None}]
    BY <1>b, <2>6 DEF TypeInv, TypeOK
  <2>. QED BY <1>2, <1>a, <2>4, <2>5, <2>7 DEF Load, TypeInv, TypeOK
<1>3. ASSUME NEW r \in Request, CheckInstagram(r) PROVE TypeInv'
  <2>1. req[r] \in Handling /\ req[r].at \in Channel
    BY <1>3, RequestShape DEF CheckInstagram, At, Op
  <2>2. [req[r] EXCEPT !.pc = "subscribe"] \in Handling
    BY <2>1 DEF Handling
  <2>3. CASE Goto(r, "subscribe") /\ UNCHANGED held
    <3>1. req' = [req EXCEPT ![r] = [req[r] EXCEPT !.pc = "subscribe"]]
      BY <2>3 DEF Goto
    <3>2. [req[r] EXCEPT !.pc = "subscribe"].at \in Channel
      BY <2>1 DEF Handling
    <3>. QED BY <1>3, <1>a, <2>2, <2>3, <3>1, <3>2 DEF CheckInstagram, TypeInv, TypeOK
  <2>4. CASE Refuse(r)
    <3>1. At(r, {"page", "pages", "whatsapp"}, req[r].pc)
      BY <1>3 DEF CheckInstagram, At
    <3>. QED BY <1>3, <1>c, <2>4, <3>1 DEF CheckInstagram, TypeInv, TypeOK
  <2>. QED BY <1>3, <2>3, <2>4 DEF CheckInstagram
<1>4. ASSUME NEW r \in Request, Subscribe(r) PROVE TypeInv'
  <2>1. req[r] \in Handling /\ req[r].at \in Channel
    BY <1>4, RequestShape DEF Subscribe, At, Op
  <2>2. CASE Refuse(r) /\ UNCHANGED subscribed
    <3>1. At(r, {"page", "pages", "whatsapp"}, req[r].pc)
      BY <1>4 DEF Subscribe, At
    <3>. QED BY <1>4, <1>c, <2>2, <3>1 DEF Subscribe, TypeInv, TypeOK
  <2>3. CASE subscribed' = subscribed \cup {req[r].at} /\ Goto(r, "write") /\ UNCHANGED held
    <3>1. req' = [req EXCEPT ![r] = [req[r] EXCEPT !.pc = "write"]]
      BY <2>3 DEF Goto
    <3>2. [req[r] EXCEPT !.pc = "write"] \in Handling /\ [req[r] EXCEPT !.pc = "write"].at \in Channel
      BY <2>1 DEF Handling
    <3>. QED BY <1>4, <1>a, <2>1, <2>3, <3>1, <3>2 DEF Subscribe, TypeInv, TypeOK
  <2>. QED BY <1>4, <2>2, <2>3 DEF Subscribe
<1>5. ASSUME NEW r \in Request, Write(r) PROVE TypeInv'
  <2>1. req[r] \in Handling /\ req[r].at \in Channel
    BY <1>5, RequestShape DEF Write, At
  <2> DEFINE d == [req[r] EXCEPT !.pc = "next", !.at = None, !.done = @ \cup {req[r].at}]
  <2>2. d \in Handling /\ d.pc = "next"
    BY <2>1 DEF Handling
  <2>3. \/ req' = [req EXCEPT ![r] = d] /\ held' = [held EXCEPT ![req[r].at] = r]
        \/ req' = [req EXCEPT ![r] = d] /\ held' = held
        \/ req' = [req EXCEPT ![r] = Idle] /\ Release(r)
    BY <1>5 DEF Write, Done
  <2>4. held' \in [Channel -> Request \cup {None}]
    BY <1>b, <2>1, <2>3 DEF TypeInv, TypeOK
  <2>. QED BY <1>5, <1>a, <2>2, <2>3, <2>4 DEF Write, TypeInv, TypeOK
<1>6. ASSUME NEW r \in Request, Commit(r) PROVE TypeInv'
  <2>1. req[r] \in Handling
    BY <1>6, RequestShape DEF Commit, At
  <2>2. CASE req[r].done = {}
    BY <1>6, <1>a, <1>b, <2>2 DEF Commit, TypeInv, TypeOK
  <2>3. CASE req[r].done # {}
    <3>1. PICK w \in Target(r) :
             /\ tenants' = tenants \cup {w}
             /\ row' = [ch \in Channel |-> IF held[ch] = r THEN w ELSE row[ch]]
             /\ told' = told \cup ({w} \X req[r].done)
      BY <1>6, <2>3 DEF Commit
    <3>2. w \in Workspace
      BY <2>1 DEF Target, Handling
    <3>3. Task({ch \in req[r].done : Platform[ch] # "whatsapp"}) \in AfterLink
      BY <2>1 DEF Task, AfterLink, Handling
    <3>4. req' = [req EXCEPT ![r] = Task({ch \in req[r].done : Platform[ch] # "whatsapp"})]
      BY <1>6, <2>3 DEF Commit
    <3>5. req' \in [Request -> {Idle} \cup Handling \cup AfterLink] /\ Placed'
      BY <1>a, <3>3, <3>4 DEF Task
    <3>6. {w} \X req[r].done \subseteq Workspace \X Channel
      BY <2>1, <3>2 DEF Handling
    <3>. QED BY <1>6, <1>b, <3>1, <3>2, <3>5, <3>6 DEF Commit, TypeInv, TypeOK
  <2>. QED BY <2>2, <2>3
<1>7. ASSUME NEW r \in Request, NEW ch \in Channel, AfterLogin(r, ch) PROVE TypeInv'
  <2>1. req[r] \in AfterLink
    BY <1>7, RequestShape DEF AfterLogin, At
  <2>2. PICK ok \in BOOLEAN :
           /\ subscribed' = IF ok THEN subscribed \cup {ch} ELSE subscribed
           /\ req' = [req EXCEPT ![r].todo = @ \ {ch}, ![r].at = ch, ![r].pc = "fetch", ![r].live = ok]
    BY <1>7 DEF AfterLogin
  <2> DEFINE q == [req[r] EXCEPT !.todo = @ \ {ch}, !.at = ch, !.pc = "fetch", !.live = ok]
  <2>3. q \in AfterLink /\ q.at = ch
    BY <2>1 DEF AfterLink
  <2>4. req' = [req EXCEPT ![r] = q]
    BY <2>2
  <2>5. req' \in [Request -> {Idle} \cup Handling \cup AfterLink] /\ Placed'
    BY <1>a, <2>3, <2>4
  <2>. QED BY <1>7, <2>2, <2>5 DEF AfterLogin, TypeInv, TypeOK
<1>8. ASSUME NEW r \in Request, FetchSeed(r) PROVE TypeInv'
  <2>1. req[r] \in AfterLink /\ req[r].at \in Channel
    BY <1>8, RequestShape DEF FetchSeed, At
  <2> DEFINE q == [req[r] EXCEPT !.page = Fetched(req[r].at), !.pc = "store"]
  <2>0. Fetched(req[r].at) \subseteq Message /\ Written(req[r].at) \subseteq Message
    BY DEF Fetched, Written, TypeInv, TypeOK
  <2>2. q \in AfterLink /\ q.at \in Channel
    BY <2>0, <2>1 DEF AfterLink
  <2>3. req' = [req EXCEPT ![r] = q]
    BY <1>8 DEF FetchSeed
  <2>4. req' \in [Request -> {Idle} \cup Handling \cup AfterLink] /\ Placed'
    BY <1>a, <2>2, <2>3
  <2>. QED BY <1>8, <2>0, <2>4 DEF FetchSeed, TypeInv, TypeOK
<1>9. ASSUME NEW r \in Request, StoreSeed(r) PROVE TypeInv'
  <2>1. req[r] \in AfterLink /\ req[r].at \in Channel
    BY <1>9, RequestShape DEF StoreSeed, At
  <2> DEFINE q == [req[r] EXCEPT !.pc = "next", !.at = None, !.page = {}, !.live = TRUE]
  <2>2. q \in AfterLink /\ q.pc = "next"
    BY <2>1 DEF AfterLink
  <2>3. req[r].page \subseteq Message
    BY <2>1 DEF AfterLink
  <2>4. req' = [req EXCEPT ![r] = q]
    BY <1>9 DEF StoreSeed
  <2>5. req' \in [Request -> {Idle} \cup Handling \cup AfterLink] /\ Placed'
    BY <1>a, <2>2, <2>4
  <2>. QED BY <1>9, <2>1, <2>3, <2>5 DEF StoreSeed, TypeInv, TypeOK
<1>10. ASSUME NEW r \in Request, EndTask(r) PROVE TypeInv'
  BY <1>10, <1>a DEF EndTask, TypeInv, TypeOK
<1>11. ASSUME NEW r \in Request, Fail(r) PROVE TypeInv'
  BY <1>11, <1>a, <1>b DEF Fail, TypeInv, TypeOK
<1>12. ASSUME NEW m \in Message, Customer(m) \/ Deliver(m) PROVE TypeInv'
  BY <1>12 DEF Customer, Deliver, TypeInv, TypeOK, Placed
<1>13. CASE UNCHANGED vars
  BY <1>13 DEF vars, TypeInv, TypeOK, Placed
<1>. QED
  BY <1>1, <1>2, <1>3, <1>4, <1>5, <1>6, <1>7, <1>8, <1>9, <1>10, <1>11, <1>12, <1>13
  DEF Next, Handle

LEMMA InitTyped == Init => TypeInv
BY ChannelLinkAssumption DEF Init, TypeInv, TypeOK, Placed

\* Every reachable state is well typed.
THEOREM LinkTypeCorrect == Spec => []TypeOK
<1>1. Spec => []TypeInv
  BY InitTyped, TypeStep, PTL DEF Spec
<1>. QED BY <1>1, PTL DEF TypeInv

-----------------------------------------------------------------------------
(* Channels stay where they are *)

\* An index entry is held for a channel that has no row.
Fresh == \A r \in Request, ch \in Channel : held[ch] = r => row[ch] = None

\* How a step may change the rows.
LEMMA RowStep ==
  ASSUME TypeInv, [Next]_vars
  PROVE  \/ row' = row
         \/ \E r \in Request : \E w \in Target(r) :
              /\ Commit(r) /\ req[r].done # {}
              /\ row' = [ch \in Channel |-> IF held[ch] = r THEN w ELSE row[ch]]
<1>1. ASSUME NEW r \in Request, Commit(r), row' # row
      PROVE  \E w \in Target(r) :
               /\ req[r].done # {}
               /\ row' = [ch \in Channel |-> IF held[ch] = r THEN w ELSE row[ch]]
  BY <1>1 DEF Commit
<1>2. (\E r \in Request : Commit(r)) \/ row' = row
  <2>1. ASSUME NEW r \in Request, NEW ch \in Channel, Load(r, ch) \/ AfterLogin(r, ch) PROVE row' = row
    BY <2>1 DEF Load, AfterLogin, db
  <2>2. ASSUME NEW r \in Request, CheckInstagram(r) \/ Subscribe(r) \/ Write(r) PROVE row' = row
    BY <2>2 DEF CheckInstagram, Subscribe, Write
  <2>3. ASSUME NEW r \in Request, FetchSeed(r) \/ StoreSeed(r) \/ EndTask(r) \/ Fail(r)
        PROVE  row' = row
    BY <2>3 DEF FetchSeed, StoreSeed, EndTask, Fail, db
  <2>4. ASSUME NEW m \in Message, Customer(m) \/ Deliver(m) PROVE row' = row
    BY <2>4 DEF Customer, Deliver, db
  <2>. QED BY <2>1, <2>2, <2>3, <2>4 DEF Next, Begin, Handle, db, vars
<1>. QED BY <1>1, <1>2

\* How a step may change who holds a channel's index entry.
LEMMA HeldStep ==
  ASSUME TypeInv, [Next]_vars
  PROVE  \/ held' = held
         \/ \E r \in Request : Release(r) /\ (req'[r] = Idle \/ req'[r].op = "task")
         \/ \E r \in Request : /\ Write(r) /\ req[r].at \in Channel
                               /\ held[req[r].at] = None /\ row[req[r].at] = None
                               /\ held' = [held EXCEPT ![req[r].at] = r]
<1> DEFINE P == \/ held' = held
                \/ \E r \in Request : Release(r) /\ (req'[r] = Idle \/ req'[r].op = "task")
                \/ \E r \in Request : /\ Write(r) /\ req[r].at \in Channel
                                      /\ held[req[r].at] = None /\ row[req[r].at] = None
                                      /\ held' = [held EXCEPT ![req[r].at] = r]
<1>1. ASSUME NEW r \in Request, NEW ch \in Channel, Load(r, ch) PROVE P
  BY <1>1 DEF Load, TypeInv, TypeOK
<1>2. ASSUME NEW r \in Request, CheckInstagram(r) PROVE P
  BY <1>2 DEF CheckInstagram, Refuse, TypeInv, TypeOK
<1>3. ASSUME NEW r \in Request, Subscribe(r) PROVE P
  BY <1>3 DEF Subscribe, Refuse, TypeInv, TypeOK
<1>4. ASSUME NEW r \in Request, Write(r) PROVE P
  <2>1. req[r].at \in Channel
    BY <1>4, RequestShape DEF Write, At
  <2>. QED BY <1>4, <2>1 DEF Write, TypeInv, TypeOK
<1>5. ASSUME NEW r \in Request, Commit(r) PROVE P
  BY <1>5 DEF Commit, Task, TypeInv, TypeOK
<1>6. ASSUME NEW r \in Request, Fail(r) PROVE P
  BY <1>6 DEF Fail, TypeInv, TypeOK
<1>7. CASE UNCHANGED held
  BY <1>7
<1>. QED
  BY <1>1, <1>2, <1>3, <1>4, <1>5, <1>6, <1>7
  DEF Next, Begin, Handle, AfterLogin, FetchSeed, StoreSeed, EndTask, Customer, Deliver, db, vars

\* The entries stay fresh: an entry is taken when there is no row, and its holder is
\* the one who inserts the row and gives the entry up with it.
LEMMA FreshStep == TypeInv /\ Fresh /\ [Next]_vars => Fresh'
<1> SUFFICES ASSUME TypeInv, Fresh, [Next]_vars, NEW s \in Request, NEW ch \in Channel, held'[ch] = s
             PROVE  row'[ch] = None
  BY DEF Fresh
<1> USE ChannelLinkAssumption
<1>1. held[ch] = s \/ row[ch] = None
  BY HeldStep DEF Release, TypeInv, TypeOK
<1>2. row[ch] = None
  BY <1>1 DEF Fresh
<1>3. ASSUME NEW r \in Request, Commit(r) PROVE held[ch] # r
  BY <1>3 DEF Commit, Release, TypeInv, TypeOK
<1>. QED BY <1>2, <1>3, RowStep DEF TypeInv, TypeOK

\* A channel that has a row keeps it.
LEMMA RowsStay ==
  ASSUME TypeInv, Fresh, [Next]_vars, NEW ch \in Channel, row[ch] # None
  PROVE  row'[ch] = row[ch]
BY RowStep DEF Fresh, TypeInv, TypeOK

\* Whichever requests race between the look-up and the insert, a connected channel
\* stays with its workspace: no insert overwrites a committed row, and an update
\* leaves the workspace alone.
THEOREM ChannelStays == Spec => ChannelNeverMoves
<1>1. Init => Fresh
  BY DEF Init, Fresh
<1>2. Spec => [](TypeInv /\ Fresh)
  BY <1>1, InitTyped, TypeStep, FreshStep, PTL DEF Spec
<1>3. TypeInv /\ Fresh /\ [Next]_vars => [\A ch \in Channel : row[ch] # None => row'[ch] = row[ch]]_vars
  BY RowsStay
<1>. QED BY <1>2, <1>3, PTL DEF Spec, ChannelNeverMoves

-----------------------------------------------------------------------------
(* What the callback tells is so *)

\* The row a request loaded is still what it was, and its own; its Page or number
\* is subscribed before it is written.
Looked(q) ==
  q.pc # "next" =>
    /\ q.seen # None => row[q.at] = q.seen /\ (q.by # None => q.by = q.seen)
    /\ q.pc = "write" /\ Platform[q.at] # "instagram" => q.at \in subscribed

\* Instagram Login is for Instagram accounts.
Logins(q) == q.op = "instagram" => \A ch \in q.todo : Platform[ch] = "instagram"

\* What a request has done is its own, by the entry it holds or by the row it found.
Claimed(r, q) ==
  \A ch \in q.done :
    /\ held[ch] = r \/ (row[ch] # None /\ row[ch] = IF q.by # None THEN q.by ELSE q.seen)
    /\ Platform[ch] # "instagram" => ch \in subscribed

\* A login without a workspace is for one account.
SignsUp(q) ==
  q.by = None =>
    /\ q.op = "instagram"
    /\ q.pc # "next" => q.todo = {} /\ q.done = {}
    /\ q.done # {} => q.todo = {}
    /\ \A c, d \in q.todo : c = d

Handled(r, q) ==
  q # Idle /\ q.op \in Op => Looked(q) /\ Logins(q) /\ Claimed(r, q) /\ SignsUp(q)

LinkInv == TypeInv /\ Fresh /\ \A r \in Request : Handled(r, req[r])

\* A subscription is not given up.
LEMMA SubscribedStays == TypeInv /\ [Next]_vars => subscribed \subseteq subscribed'
<1> SUFFICES ASSUME TypeInv, [Next]_vars PROVE subscribed \subseteq subscribed'
  OBVIOUS
<1>1. ASSUME NEW r \in Request, NEW ch \in Channel, Load(r, ch) \/ AfterLogin(r, ch)
      PROVE  subscribed \subseteq subscribed'
  BY <1>1 DEF Load, AfterLogin, meta
<1>2. ASSUME NEW r \in Request, Subscribe(r) PROVE subscribed \subseteq subscribed'
  BY <1>2 DEF Subscribe
<1>3. ASSUME NEW r \in Request, CheckInstagram(r) \/ Write(r) \/ Commit(r) PROVE subscribed' = subscribed
  BY <1>3 DEF CheckInstagram, Write, Commit, meta
<1>4. ASSUME NEW r \in Request, FetchSeed(r) \/ StoreSeed(r) \/ EndTask(r) \/ Fail(r)
      PROVE  subscribed' = subscribed
  BY <1>4 DEF FetchSeed, StoreSeed, EndTask, Fail, meta
<1>5. ASSUME NEW m \in Message, Customer(m) \/ Deliver(m) PROVE subscribed' = subscribed
  BY <1>5 DEF Customer, Deliver
<1>. QED BY <1>1, <1>2, <1>3, <1>4, <1>5 DEF Next, Begin, Handle, meta, vars

\* An entry that is held stays so until its holder is done.
LEMMA EntryStays ==
  ASSUME TypeInv, [Next]_vars, NEW r \in Request, NEW ch \in Channel, held[ch] = r,
         req'[r] # Idle, req'[r].op \in Op
  PROVE  held'[ch] = r
<1> USE ChannelLinkAssumption
<1>1. ASSUME NEW s \in Request, Release(s), req'[s] = Idle \/ req'[s].op = "task"
      PROVE  held'[ch] = r
  BY <1>1 DEF Release, Op
<1>2. ASSUME NEW s \in Request, held[req[s].at] = None, held' = [held EXCEPT ![req[s].at] = s]
      PROVE  held'[ch] = r
  BY <1>2 DEF TypeInv, TypeOK
<1>. QED BY <1>1, <1>2, HeldStep

\* The steps of others leave a request as it should be.
LEMMA HandledStays ==
  ASSUME TypeInv, Fresh, TypeInv', [Next]_vars,
         NEW r \in Request, Handled(r, req[r]), req'[r] = req[r]
  PROVE  Handled(r, req[r])'
<1> SUFFICES ASSUME req[r] # Idle, req[r].op \in Op
             PROVE  (Looked(req[r]) /\ Logins(req[r]) /\ Claimed(r, req[r]) /\ SignsUp(req[r]))'
  BY DEF Handled
<1>1. req[r] \in Handling /\ (req[r].pc # "next" => req[r].at \in Channel)
  BY RequestShape
<1>2. Looked(req[r]) /\ Logins(req[r]) /\ Claimed(r, req[r]) /\ SignsUp(req[r])
  BY DEF Handled
<1>3. subscribed \subseteq subscribed'
  BY SubscribedStays
<1>4. Looked(req[r])'
  <2>1. req[r].seen # None /\ req[r].pc # "next" => row'[req[r].at] = req[r].seen
    BY <1>1, <1>2, RowsStay DEF Looked
  <2>. QED BY <1>1, <1>2, <1>3, <2>1 DEF Looked
<1>5. Claimed(r, req[r])'
  <2> SUFFICES ASSUME NEW ch \in req[r].done
               PROVE  /\ \/ held'[ch] = r
                         \/ row'[ch] # None /\ row'[ch] = IF req[r].by # None THEN req[r].by ELSE req[r].seen
                      /\ Platform[ch] # "instagram" => ch \in subscribed'
    BY DEF Claimed
  <2>1. ch \in Channel
    BY <1>1 DEF Handling
  <2>2. held[ch] = r => held'[ch] = r
    BY <2>1, EntryStays
  <2>3. row[ch] # None => row'[ch] = row[ch]
    BY <2>1, RowsStay
  <2>. QED BY <1>2, <1>3, <2>2, <2>3 DEF Claimed
<1>6. (Logins(req[r]) /\ SignsUp(req[r]))'
  BY <1>2 DEF Logins, SignsUp
<1>. QED BY <1>4, <1>5, <1>6

\* The step of a request itself leads to one that is as it should be.
LEMMA HandledStep ==
  ASSUME LinkInv, TypeInv', [Next]_vars, NEW r \in Request, req'[r] # req[r]
  PROVE  Handled(r, req[r])'
<1> USE ChannelLinkAssumption
<1>a. req \in [Request -> {Idle} \cup Handling \cup AfterLink] /\ Handled(r, req[r]) /\ TypeInv
  BY DEF LinkInv, TypeInv, TypeOK
<1>b. subscribed \subseteq subscribed'
  BY <1>a, SubscribedStays
\* What was claimed stays claimed while the request goes on as the same one.
<1>c. ASSUME req[r] \in Handling, req'[r] \in Handling, req'[r].by = req[r].by,
             req[r].by = None /\ req[r].done # {} => req'[r].seen = req[r].seen,
             NEW ch \in req[r].done
      PROVE  /\ \/ held'[ch] = r
                \/ row'[ch] # None /\ row'[ch] = IF req'[r].by # None THEN req'[r].by ELSE req'[r].seen
             /\ Platform[ch] # "instagram" => ch \in subscribed'
  <2>1. ch \in Channel /\ req[r].op \in Op /\ req[r] # Idle /\ req'[r].op \in Op /\ req'[r] # Idle
    BY <1>c DEF Handling, Op, Idle
  <2>2. held[ch] = r => held'[ch] = r
    BY <1>a, <2>1, EntryStays
  <2>3. row[ch] # None => row'[ch] = row[ch]
    BY <1>a, <2>1, RowsStay DEF LinkInv
  <2>. QED BY <1>a, <1>b, <1>c, <2>1, <2>2, <2>3 DEF Handled, Claimed
<1>1. ASSUME NEW by \in tenants \cup {None}, NEW asked \in Asked, Begin(r, by, asked)
      PROVE  Handled(r, req[r])'
  <2>1. req'[r] = Started(asked.op, by, asked.todo)
    BY <1>1, <1>a DEF Begin
  <2>2. /\ asked.op = "instagram" => \A ch \in asked.todo : Platform[ch] = "instagram"
        /\ asked.op = "instagram" => \A c, d \in asked.todo : c = d
        /\ by = None => asked.op = "instagram"
    BY <1>1 DEF Begin, Asked
  <2>. QED BY <2>1, <2>2 DEF Started, Handled, Looked, Logins, Claimed, SignsUp
<1>2. ASSUME NEW ch \in Channel, Load(r, ch) PROVE Handled(r, req[r])'
  <2> DEFINE q == [req[r] EXCEPT !.todo = @ \ {ch}]
             p == [q EXCEPT !.at = ch, !.seen = row[ch], !.pc = FirstStep(req[r].op)]
             free == row[ch] = None \/ req[r].by = None \/ row[ch] = req[r].by
  <2>1. req[r] \in Handling /\ req[r].pc = "next" /\ ch \in req[r].todo /\ req[r] # Idle
    BY <1>2, <1>a, RequestShape DEF Load, At
  <2>2. Looked(req[r]) /\ Logins(req[r]) /\ Claimed(r, req[r]) /\ SignsUp(req[r])
    BY <1>a, <2>1 DEF Handled, Handling
  <2>3. /\ q \in Handling /\ q.pc = "next" /\ q.op = req[r].op /\ q.by = req[r].by /\ q.seen = req[r].seen
        /\ q.done = req[r].done /\ q.todo = req[r].todo \ {ch}
    BY <2>1 DEF Handling
  <2>4. \/ free /\ req'[r] = p
        \/ ~free /\ req'[r] = q
        \/ req'[r] = Idle
    BY <1>2, <1>a, <2>3 DEF Load
  <2>5. row' = row
    BY <1>2 DEF Load
  <2>6. CASE req'[r] = Idle
    BY <2>6 DEF Handled
  <2>7. CASE ~free /\ req'[r] = q
    <3>1. Claimed(r, req[r])'
      BY <1>c, <2>1, <2>3, <2>7 DEF Claimed
    <3>. QED BY <2>2, <2>3, <2>7, <3>1 DEF Handled, Looked, Logins, SignsUp
  <2>8. CASE free /\ req'[r] = p
    <3>1. /\ p \in Handling /\ p.at = ch /\ p.op = req[r].op /\ p.by = req[r].by /\ p.seen = row[ch]
          /\ p.done = req[r].done /\ p.todo = req[r].todo \ {ch} /\ p.pc = FirstStep(req[r].op)
      BY <1>a, <2>1 DEF Handling, FirstStep, TypeInv, TypeOK
    <3>2. req[r].by = None => req[r].done = {} /\ p.todo = {}
      BY <2>1, <2>2, <3>1 DEF SignsUp
    <3>3. Claimed(r, req[r])'
      BY <1>c, <2>1, <2>8, <3>1, <3>2 DEF Claimed
    <3>4. p.pc = "write" => Platform[ch] = "instagram"
      BY <2>1, <2>2, <3>1 DEF FirstStep, Logins, Handling, Op
    <3>5. Looked(req[r])'
      BY <2>1, <2>5, <2>8, <3>1, <3>4 DEF Looked, Handling, Op
    <3>. QED BY <2>2, <2>8, <3>1, <3>2, <3>3, <3>5 DEF Handled, Logins, SignsUp
  <2>. QED BY <2>4, <2>6, <2>7, <2>8
\* A Page that is refused is left out.
<1>d. ASSUME Refuse(r), req[r] \in Handling, req[r] # Idle, req[r].pc # "next"
      PROVE  Handled(r, req[r])'
  <2>1. CASE req'[r] = Idle
    BY <2>1 DEF Handled
  <2>2. CASE req[r].op = "pages" /\ req'[r] = [req[r] EXCEPT !.pc = "next", !.at = None]
    <3> DEFINE q == [req[r] EXCEPT !.pc = "next", !.at = None]
    <3>1. /\ q \in Handling /\ q.pc = "next" /\ q.op = req[r].op /\ q.by = req[r].by
          /\ q.seen = req[r].seen /\ q.done = req[r].done /\ q.todo = req[r].todo
      BY <1>d DEF Handling
    <3>2. Claimed(r, req[r])'
      BY <1>c, <1>d, <2>2, <3>1 DEF Claimed
    <3>3. SignsUp(req[r])
      BY <1>a, <1>d DEF Handled, Handling
    <3>. QED BY <2>2, <3>1, <3>2, <3>3 DEF Handled, Looked, Logins, SignsUp
  <2>. QED BY <1>a, <1>d, <2>1, <2>2 DEF Refuse
<1>3. ASSUME CheckInstagram(r) PROVE Handled(r, req[r])'
  <2>1. req[r] \in Handling /\ req[r].pc = "instagram" /\ req[r].op \in {"page", "pages"} /\ req[r] # Idle
    BY <1>3, <1>a, RequestShape DEF CheckInstagram, At, Op
  <2>2. CASE Refuse(r)
    BY <1>d, <2>1, <2>2
  <2>3. CASE Goto(r, "subscribe")
    <3> DEFINE q == [req[r] EXCEPT !.pc = "subscribe"]
    <3>1. /\ q \in Handling /\ q.pc = "subscribe" /\ q.op = req[r].op /\ q.by = req[r].by /\ q.at = req[r].at
          /\ q.seen = req[r].seen /\ q.done = req[r].done /\ q.todo = req[r].todo
      BY <2>1 DEF Handling
    <3>2. req'[r] = q
      BY <1>a, <2>3 DEF Goto
    <3>3. Claimed(r, req[r])'
      BY <1>c, <2>1, <3>1, <3>2 DEF Claimed
    <3>4. Looked(req[r]) /\ SignsUp(req[r])
      BY <1>a, <2>1 DEF Handled, Op
    <3>5. row' = row
      BY <1>3 DEF CheckInstagram
    <3>. QED BY <2>1, <3>1, <3>2, <3>3, <3>4, <3>5 DEF Handled, Looked, Logins, SignsUp
  <2>. QED BY <1>3, <2>2, <2>3 DEF CheckInstagram
<1>4. ASSUME Subscribe(r) PROVE Handled(r, req[r])'
  <2>1. /\ req[r] \in Handling /\ req[r].pc = "subscribe" /\ req[r].op \in {"page", "pages", "whatsapp"}
        /\ req[r] # Idle
    BY <1>4, <1>a, RequestShape DEF Subscribe, At, Op
  <2>2. CASE Refuse(r)
    BY <1>d, <2>1, <2>2
  <2>3. CASE subscribed' = subscribed \cup {req[r].at} /\ Goto(r, "write")
    <3> DEFINE q == [req[r] EXCEPT !.pc = "write"]
    <3>1. /\ q \in Handling /\ q.pc = "write" /\ q.op = req[r].op /\ q.by = req[r].by /\ q.at = req[r].at
          /\ q.seen = req[r].seen /\ q.done = req[r].done /\ q.todo = req[r].todo
      BY <2>1 DEF Handling
    <3>2. req'[r] = q
      BY <1>a, <2>3 DEF Goto
    <3>3. Claimed(r, req[r])'
      BY <1>c, <2>1, <3>1, <3>2 DEF Claimed
    <3>4. Looked(req[r]) /\ SignsUp(req[r])
      BY <1>a, <2>1 DEF Handled, Op
    <3>5. row' = row
      BY <1>4 DEF Subscribe
    <3>. QED BY <2>1, <2>3, <3>1, <3>2, <3>3, <3>4, <3>5 DEF Handled, Looked, Logins, SignsUp
  <2>. QED BY <1>4, <2>2, <2>3 DEF Subscribe
<1>5. ASSUME Write(r) PROVE Handled(r, req[r])'
  <2>1. req[r] \in Handling /\ req[r].pc = "write" /\ req[r] # Idle /\ req[r].at \in Channel
    BY <1>5, <1>a, RequestShape DEF Write, At
  <2>2. CASE req'[r] = Idle
    BY <2>2 DEF Handled
  <2>3. CASE /\ Done(r)
             /\ \/ held' = [held EXCEPT ![req[r].at] = r]
                \/ req[r].seen # None
    <3> DEFINE d == [req[r] EXCEPT !.pc = "next", !.at = None, !.done = @ \cup {req[r].at}]
    <3>1. /\ d \in Handling /\ d.pc = "next" /\ d.op = req[r].op /\ d.by = req[r].by /\ d.seen = req[r].seen
          /\ d.done = req[r].done \cup {req[r].at} /\ d.todo = req[r].todo
      BY <2>1 DEF Handling
    <3>2. req'[r] = d
      BY <1>a, <2>3 DEF Done
    <3>3. Looked(req[r]) /\ Logins(req[r]) /\ SignsUp(req[r])
      BY <1>a, <2>1 DEF Handled, Handling
    <3>4. row' = row /\ subscribed' = subscribed
      BY <1>5 DEF Write, meta
    <3>5. /\ held'[req[r].at] = r
             \/ (row'[req[r].at] # None /\ row'[req[r].at] = IF req[r].by # None THEN req[r].by ELSE req[r].seen)
          /\ Platform[req[r].at] # "instagram" => req[r].at \in subscribed'
      BY <1>a, <2>1, <2>3, <3>3, <3>4 DEF Looked, TypeInv, TypeOK
    <3>6. Claimed(r, req[r])'
      BY <1>c, <2>1, <3>1, <3>2, <3>5 DEF Claimed
    <3>. QED BY <2>1, <3>1, <3>2, <3>3, <3>6 DEF Handled, Looked, Logins, SignsUp
  <2>. QED BY <1>5, <1>a, <2>2, <2>3 DEF Write
<1>6. ASSUME Commit(r) \/ Fail(r) \/ EndTask(r) PROVE Handled(r, req[r])'
  <2>1. req'[r] = Idle \/ req'[r].op = "task"
    BY <1>6, <1>a DEF Commit, Fail, EndTask, Task
  <2>. QED BY <2>1 DEF Handled, Op
<1>7. ASSUME NEW ch \in Channel, AfterLogin(r, ch) PROVE Handled(r, req[r])'
  <2>1. req[r] \in AfterLink
    BY <1>7, <1>a, RequestShape DEF AfterLogin, At
  <2>2. req'[r].op = "task"
    BY <1>7, <1>a, <2>1 DEF AfterLogin, AfterLink
  <2>. QED BY <2>2 DEF Handled, Op
<1>8. ASSUME FetchSeed(r) \/ StoreSeed(r) PROVE Handled(r, req[r])'
  <2>1. req[r] \in AfterLink
    BY <1>8, <1>a, RequestShape DEF FetchSeed, StoreSeed, At
  <2>2. req'[r].op = "task"
    BY <1>8, <1>a, <2>1 DEF FetchSeed, StoreSeed, AfterLink
  <2>. QED BY <2>2 DEF Handled, Op
<1>. QED
  <2>1. ASSUME NEW s \in Request, Handle(s) \/ Fail(s) PROVE s = r
    <3>1. req' = [req EXCEPT ![s] = req'[s]]
      BY <1>a, <2>1 DEF Handle, Load, AfterLogin, CheckInstagram, Subscribe, Refuse, Goto, Write, Done, Commit,
                        FetchSeed, StoreSeed, EndTask, Fail
    <3>. QED BY <1>a, <3>1
  <2>2. ASSUME NEW s \in Request, NEW by \in tenants \cup {None}, NEW asked \in Asked, Begin(s, by, asked)
        PROVE  s = r
    BY <1>a, <2>2 DEF Begin
  <2>3. ~UNCHANGED vars /\ \A m \in Message : ~Customer(m) /\ ~Deliver(m)
    BY DEF vars, Customer, Deliver
  <2>4. \/ Handle(r) \/ Fail(r)
        \/ \E by \in tenants \cup {None}, asked \in Asked : Begin(r, by, asked)
    BY <2>1, <2>2, <2>3 DEF Next
  <2>. QED BY <1>1, <1>2, <1>3, <1>4, <1>5, <1>6, <1>7, <1>8, <2>4 DEF Handle

LEMMA LinkStep == LinkInv /\ [Next]_vars => LinkInv'
<1> SUFFICES ASSUME LinkInv, [Next]_vars PROVE LinkInv'
  OBVIOUS
<1>1. TypeInv' /\ Fresh'
  BY TypeStep, FreshStep DEF LinkInv
<1>2. ASSUME NEW r \in Request PROVE Handled(r, req[r])'
  BY <1>1, HandledStep, HandledStays DEF LinkInv
<1>. QED BY <1>1, <1>2 DEF LinkInv

\* How the record of what was told grows: by what a commit has made so.
LEMMA ToldStep ==
  ASSUME LinkInv, [Next]_vars, NEW c \in told' \ told
  PROVE  /\ c \in Workspace \X Channel
         /\ row'[c[2]] = c[1]
         /\ Platform[c[2]] # "instagram" => c[2] \in subscribed
<1> USE ChannelLinkAssumption
<1>1. PICK r \in Request : Commit(r)
  <2>1. ASSUME NEW r \in Request, NEW ch \in Channel, Load(r, ch) \/ AfterLogin(r, ch) PROVE told' = told
    BY <2>1 DEF Load, AfterLogin
  <2>2. ASSUME NEW r \in Request, CheckInstagram(r) \/ Subscribe(r) \/ Write(r) PROVE told' = told
    BY <2>2 DEF CheckInstagram, Subscribe, Write
  <2>3. ASSUME NEW r \in Request, FetchSeed(r) \/ StoreSeed(r) \/ EndTask(r) \/ Fail(r) PROVE told' = told
    BY <2>3 DEF FetchSeed, StoreSeed, EndTask, Fail
  <2>4. ASSUME NEW m \in Message, Customer(m) \/ Deliver(m) PROVE told' = told
    BY <2>4 DEF Customer, Deliver
  <2>. QED BY <2>1, <2>2, <2>3, <2>4 DEF Next, Begin, Handle, vars
<1>2. req[r] \in Handling /\ req[r].op \in Op /\ req[r] # Idle
  BY <1>1, RequestShape DEF Commit, At, LinkInv
<1>3. PICK w \in Target(r) :
         /\ row' = [ch \in Channel |-> IF held[ch] = r THEN w ELSE row[ch]]
         /\ told' = told \cup ({w} \X req[r].done)
  BY <1>1 DEF Commit
<1>4. c \in {w} \X req[r].done
  BY <1>3
<1>5. c[1] = w /\ c[2] \in req[r].done /\ c = <<c[1], c[2]>>
  BY <1>4
<1>6. w \in Workspace /\ c[2] \in Channel
  BY <1>2, <1>5 DEF Target, Handling, LinkInv, TypeInv, TypeOK
<1>7. Claimed(r, req[r])
  BY <1>2 DEF LinkInv, Handled
<1>8. CASE held[c[2]] = r
  BY <1>3, <1>5, <1>6, <1>7, <1>8 DEF Claimed
<1>9. CASE held[c[2]] # r
  <2>1. row[c[2]] # None /\ row[c[2]] = IF req[r].by # None THEN req[r].by ELSE req[r].seen
    BY <1>5, <1>7, <1>9 DEF Claimed
  <2>2. w = row[c[2]]
    BY <2>1 DEF Target
  <2>. QED BY <1>3, <1>5, <1>6, <1>7, <1>9, <2>2 DEF Claimed
<1>. QED BY <1>8, <1>9

\* A workspace that was told a channel is connected has it, however the requests of
\* several workspaces and sign-ups for one channel overlap.
THEOREM ToldStaysConnected == Spec => []ToldIsConnected
<1>1. Init => LinkInv /\ ToldIsConnected
  BY InitTyped DEF Init, LinkInv, Fresh, Handled, ToldIsConnected
<1>2. LinkInv /\ ToldIsConnected /\ [Next]_vars => ToldIsConnected'
  <2> SUFFICES ASSUME LinkInv, ToldIsConnected, [Next]_vars, NEW c \in told'
               PROVE  /\ c[2] \in Channel /\ row'[c[2]] = c[1]
                      /\ Platform[c[2]] # "instagram" => c[2] \in subscribed'
    BY DEF ToldIsConnected, Listed
  <2>1. subscribed \subseteq subscribed'
    BY SubscribedStays DEF LinkInv
  <2>2. CASE c \notin told
    <3>1. c \in Workspace \X Channel
      BY <2>2, ToldStep
    <3>2. c[2] \in Channel
      BY <3>1
    <3>. QED BY <2>1, <2>2, <3>2, ToldStep
  <2>3. CASE c \in told
    <3>1. c \in Workspace \X Channel
      BY <2>3 DEF LinkInv, TypeInv, TypeOK
    <3>2. c[1] \in Workspace /\ c[2] \in Channel
      BY <3>1
    <3>3. row[c[2]] = c[1] /\ (Platform[c[2]] # "instagram" => c[2] \in subscribed)
      BY <2>3 DEF ToldIsConnected, Listed
    <3>4. row'[c[2]] = row[c[2]]
      BY <3>2, <3>3, RowsStay, ChannelLinkAssumption DEF LinkInv
    <3>. QED BY <2>1, <3>2, <3>3, <3>4
  <2>. QED BY <2>2, <2>3
<1>. QED BY <1>1, <1>2, LinkStep, PTL DEF Spec

-----------------------------------------------------------------------------
(* Connecting leaves no gap *)

\* The messages of a channel's chats are on their way, in the inbox, in the page
\* that a task has fetched, too old for a seed, or lost by their delivery.
Within(ch, page) ==
  \A m \in sent : To[m] = ch => m \in page \cup stored \cup wire \cup beyond \cup dropped

\* A channel that Meta delivers for and that has a row misses nothing from now on.
Connected(ch) == row[ch] # None /\ ch \in subscribed

\* A task is about channels that have rows, and has subscribed the one it is at
\* before it fetches.
Seeding(q) ==
  q # Idle /\ q.op = "task" =>
    /\ \A ch \in q.todo : row[ch] # None /\ (Platform[ch] # "instagram" => ch \in subscribed)
    /\ q.pc # "next" /\ q.live => Connected(q.at)
    /\ q.pc = "store" /\ q.live => Within(q.at, q.page)

SeedInv ==
  /\ LinkInv
  /\ \A r \in Request : Seeding(req[r])
  /\ \A ch \in caughtUp : Connected(ch) /\ Within(ch, {})

\* Connected channels stay connected, and what is within reach stays so.
LEMMA ReachStays ==
  ASSUME LinkInv, [Next]_vars, NEW ch \in Channel, Connected(ch), NEW page
  PROVE  Connected(ch)' /\ (Within(ch, page) => Within(ch, page)')
<1>1. Connected(ch)'
  BY RowsStay, SubscribedStays DEF LinkInv, Connected
<1> SUFFICES ASSUME Within(ch, page), NEW m \in sent', To[m] = ch
             PROVE  m \in page \cup stored' \cup wire' \cup beyond' \cup dropped'
  BY <1>1 DEF Within
<1>2. ASSUME NEW n \in Message, Customer(n) PROVE m \in page \cup stored' \cup wire' \cup beyond' \cup dropped'
  BY <1>2 DEF Customer, Within, Connected, db, seeding
<1>3. ASSUME NEW n \in Message, Deliver(n) PROVE m \in page \cup stored' \cup wire' \cup beyond' \cup dropped'
  BY <1>3 DEF Deliver, Within, Connected
<1>4. ASSUME NEW r \in Request, StoreSeed(r) PROVE m \in page \cup stored' \cup wire' \cup beyond' \cup dropped'
  BY <1>4 DEF StoreSeed, Within, meta
<1>5. CASE UNCHANGED <<sent, wire, stored, beyond, dropped>>
  BY <1>5 DEF Within
<1>6. ASSUME NEW r \in Request, NEW c \in Channel, Load(r, c) \/ AfterLogin(r, c)
      PROVE  UNCHANGED <<sent, wire, stored, beyond, dropped>>
  BY <1>6 DEF Load, AfterLogin, db, meta, seeding
<1>7. ASSUME NEW r \in Request, CheckInstagram(r) \/ Subscribe(r) \/ Write(r) \/ Commit(r)
      PROVE  UNCHANGED <<sent, wire, stored, beyond, dropped>>
  BY <1>7 DEF CheckInstagram, Subscribe, Write, Commit, meta, seeding
<1>8. ASSUME NEW r \in Request, EndTask(r) \/ Fail(r)
      PROVE  UNCHANGED <<sent, wire, stored, beyond, dropped>>
  BY <1>8 DEF EndTask, Fail, db, meta, seeding
<1>9. ASSUME NEW r \in Request, FetchSeed(r)
      PROVE  m \in page \cup stored' \cup wire' \cup beyond' \cup dropped'
  BY <1>9 DEF FetchSeed, Within, db, meta
<1>. QED BY <1>2, <1>3, <1>4, <1>5, <1>6, <1>7, <1>8, <1>9 DEF Next, Begin, Handle, db, meta, seeding, vars

\* A task that does not move stays as it should be.
LEMMA SeedingStays ==
  ASSUME LinkInv, [Next]_vars, NEW r \in Request, Seeding(req[r]), req'[r] = req[r]
  PROVE  Seeding(req[r])'
<1> SUFFICES ASSUME req[r] # Idle, req[r].op = "task"
             PROVE  Seeding(req[r])'
  BY DEF Seeding
<1>1. req[r] \in AfterLink /\ (req[r].pc # "next" => req[r].at \in Channel)
  BY RequestShape DEF LinkInv
<1>2. \A ch \in req[r].todo : row'[ch] # None /\ (Platform[ch] # "instagram" => ch \in subscribed')
  BY <1>1, RowsStay, SubscribedStays DEF LinkInv, Seeding, AfterLink
<1>3. req[r].pc # "next" /\ req[r].live => Connected(req[r].at)'
  BY <1>1, ReachStays DEF Seeding
<1>4. req[r].pc = "store" /\ req[r].live => Within(req[r].at, req[r].page)'
  BY <1>1, ReachStays DEF Seeding
<1>. QED BY <1>2, <1>3, <1>4 DEF Seeding

\* The step of a task itself leads to one that is as it should be.
LEMMA SeedingStep ==
  ASSUME SeedInv, LinkInv', [Next]_vars, NEW r \in Request, req'[r] # req[r]
  PROVE  Seeding(req[r])'
<1> USE ChannelLinkAssumption
<1>a. LinkInv /\ TypeInv /\ Fresh /\ Seeding(req[r]) /\ Handled(r, req[r])
      /\ req \in [Request -> {Idle} \cup Handling \cup AfterLink]
  BY DEF SeedInv, LinkInv, TypeInv, TypeOK
<1>1. ASSUME req'[r] = Idle \/ req'[r].op \in Op PROVE Seeding(req[r])'
  BY <1>1 DEF Seeding, Op
<1>2. ASSUME Commit(r) PROVE Seeding(req[r])'
  <2>1. req[r] \in Handling /\ req[r].op \in Op /\ req[r] # Idle
    BY <1>2, <1>a, RequestShape DEF Commit, At
  <2>2. CASE req[r].done # {}
    <3> DEFINE q == Task({ch \in req[r].done : Platform[ch] # "whatsapp"})
    <3>1. req'[r] = q
      BY <1>2, <1>a, <2>2 DEF Commit
    <3>2. PICK w \in Target(r) :
             /\ row' = [ch \in Channel |-> IF held[ch] = r THEN w ELSE row[ch]]
             /\ subscribed' = subscribed
      BY <1>2, <2>2 DEF Commit, meta
    <3>3. w # None
      BY <1>a, <2>1 DEF Target, Handling, TypeInv, TypeOK
    <3>4. ASSUME NEW ch \in req[r].done
          PROVE  row'[ch] # None /\ (Platform[ch] # "instagram" => ch \in subscribed')
      <4>1. ch \in Channel
        BY <2>1 DEF Handling
      <4>2. held[ch] = r \/ row[ch] # None
        BY <1>a, <2>1 DEF Handled, Claimed
      <4>3. Platform[ch] # "instagram" => ch \in subscribed
        BY <1>a, <2>1 DEF Handled, Claimed
      <4>. QED BY <3>2, <3>3, <4>1, <4>2, <4>3
    <3>5. q.pc = "next" /\ q.todo \subseteq req[r].done
      BY DEF Task
    <3>. QED BY <3>1, <3>4, <3>5 DEF Seeding
  <2>3. CASE req[r].done = {}
    BY <1>1, <1>2, <1>a, <2>3 DEF Commit
  <2>. QED BY <2>2, <2>3
<1>3. ASSUME NEW ch \in Channel, AfterLogin(r, ch) PROVE Seeding(req[r])'
  <2>1. req[r] \in AfterLink /\ ch \in req[r].todo /\ req[r].op = "task" /\ req[r] # Idle
    BY <1>3, <1>a, RequestShape DEF AfterLogin, At
  <2>2. PICK ok \in BOOLEAN :
           /\ Platform[ch] # "instagram" => ok
           /\ subscribed' = IF ok THEN subscribed \cup {ch} ELSE subscribed
           /\ req' = [req EXCEPT ![r].todo = @ \ {ch}, ![r].at = ch, ![r].pc = "fetch", ![r].live = ok]
    BY <1>3 DEF AfterLogin
  <2> DEFINE q == [req[r] EXCEPT !.todo = @ \ {ch}, !.at = ch, !.pc = "fetch", !.live = ok]
  <2>3. req'[r] = q
    BY <1>a, <2>2
  <2>4. q.todo = req[r].todo \ {ch} /\ q.at = ch /\ q.pc = "fetch" /\ q.live = ok
    BY <2>1 DEF AfterLink
  <2>5. row' = row
    BY <1>3 DEF AfterLogin, db
  <2>6. \A c \in q.todo : row'[c] # None /\ (Platform[c] # "instagram" => c \in subscribed')
    BY <1>a, <2>1, <2>2, <2>4, <2>5 DEF Seeding
  <2>7. ok => Connected(ch)'
    BY <1>a, <2>1, <2>2, <2>5 DEF Seeding, Connected
  <2>. QED BY <2>3, <2>4, <2>6, <2>7 DEF Seeding
<1>4. ASSUME FetchSeed(r) PROVE Seeding(req[r])'
  <2>1. req[r] \in AfterLink /\ req[r].op = "task" /\ req[r] # Idle /\ req[r].pc = "fetch"
    BY <1>4, <1>a, RequestShape DEF FetchSeed, At
  <2> DEFINE q == [req[r] EXCEPT !.page = Fetched(req[r].at), !.pc = "store"]
  <2>2. req'[r] = q
    BY <1>4, <1>a DEF FetchSeed
  <2>3. /\ q.todo = req[r].todo /\ q.at = req[r].at /\ q.pc = "store" /\ q.live = req[r].live
        /\ q.page = Fetched(req[r].at)
    BY <2>1 DEF AfterLink
  <2>4. UNCHANGED <<row, subscribed, sent, stored, wire>>
    BY <1>4 DEF FetchSeed, db, meta
  <2>5. \A c \in q.todo : row'[c] # None /\ (Platform[c] # "instagram" => c \in subscribed')
    BY <1>a, <2>1, <2>3, <2>4 DEF Seeding
  <2>6. (req[r].live => Connected(req[r].at))'
    BY <1>a, <2>1, <2>2, <2>3, <2>4 DEF Seeding, Connected
  <2>7. Within(req[r].at, req[r].page)'
    <3>1. beyond' = beyond \cup (Written(req[r].at) \ Fetched(req[r].at))
      BY <1>4 DEF FetchSeed
    <3>. QED BY <2>2, <2>3, <2>4, <3>1 DEF Within, Written
  <2>. QED BY <2>2, <2>3, <2>5, <2>6, <2>7 DEF Seeding
<1>5. ASSUME StoreSeed(r) PROVE Seeding(req[r])'
  <2>1. req[r] \in AfterLink /\ req[r].op = "task" /\ req[r] # Idle
    BY <1>5, <1>a, RequestShape DEF StoreSeed, At
  <2> DEFINE q == [req[r] EXCEPT !.pc = "next", !.at = None, !.page = {}, !.live = TRUE]
  <2>2. req'[r] = q
    BY <1>5, <1>a DEF StoreSeed
  <2>3. q.todo = req[r].todo /\ q.pc = "next"
    BY <2>1 DEF AfterLink
  <2>4. row' = row /\ subscribed' = subscribed
    BY <1>5 DEF StoreSeed, meta
  <2>. QED BY <1>a, <2>1, <2>2, <2>3, <2>4 DEF Seeding
<1>. QED
  <2>1. req'[r] = Idle \/ req[r].op = "task" \/ Commit(r) \/ req'[r].op \in Op
    <3>1. ASSUME NEW s \in Request, NEW by \in tenants \cup {None}, NEW asked \in Asked, Begin(s, by, asked)
          PROVE  req'[r].op \in Op
      BY <1>a, <3>1 DEF Begin, Started, Asked, Op
    <3>2. ASSUME NEW s \in Request, NEW ch \in Channel, Load(s, ch)
          PROVE  req'[r] = Idle \/ req'[r].op \in Op
      <4>1. req[s] \in Handling /\ s = r
        BY <1>a, <3>2, RequestShape DEF Load, At
      <4> DEFINE q == [req[r] EXCEPT !.todo = @ \ {ch}]
                 p == [q EXCEPT !.at = ch, !.seen = row[ch], !.pc = FirstStep(req[r].op)]
      <4>2. q.op \in Op /\ p.op \in Op /\ q.op = req[r].op
        BY <4>1 DEF Handling
      <4>3. req'[r] = Idle \/ req'[r] = q \/ req'[r] = p
        <5>1. req' = [req EXCEPT ![r] = req'[r]] /\ req'[r] \in {Idle, q, p}
          BY <1>a, <3>2, <4>1, <4>2, SMTT(60) DEF Load
        <5>. QED BY <5>1
      <4>. QED BY <4>2, <4>3
    <3>3. ASSUME NEW s \in Request, CheckInstagram(s) \/ Subscribe(s) \/ Write(s)
          PROVE  req'[r] = Idle \/ req'[r].op \in Op
      <4>1. req[s] \in Handling
        BY <1>a, <3>3, RequestShape DEF CheckInstagram, Subscribe, Write, At, Op
      <4>2. s = r
        BY <1>a, <3>3 DEF CheckInstagram, Subscribe, Write, Refuse, Goto, Done
      <4>. QED BY <1>a, <3>3, <4>1, <4>2
             DEF CheckInstagram, Subscribe, Write, Refuse, Goto, Done, Handling
    <3>4. ASSUME NEW s \in Request, Fail(s) \/ EndTask(s) PROVE req'[r] = Idle
      BY <1>a, <3>4 DEF Fail, EndTask
    <3>5. ASSUME NEW s \in Request, Commit(s) PROVE s = r
      BY <1>a, <3>5 DEF Commit
    <3>6. ASSUME NEW s \in Request, FetchSeed(s) \/ StoreSeed(s) \/ \E ch \in Channel : AfterLogin(s, ch)
          PROVE  req[r].op = "task"
      BY <1>a, <3>6 DEF FetchSeed, StoreSeed, AfterLogin, At
    <3>7. ~UNCHANGED vars /\ \A m \in Message : ~Customer(m) /\ ~Deliver(m)
      BY DEF vars, Customer, Deliver
    <3>. QED BY <3>1, <3>2, <3>3, <3>4, <3>5, <3>6, <3>7 DEF Next, Handle
  <2>2. CASE req[r].op = "task"
    <3>1. \/ \E ch \in Channel : AfterLogin(r, ch)
          \/ FetchSeed(r) \/ StoreSeed(r)
          \/ req'[r] = Idle \/ req'[r].op \in Op
      <4>1. ASSUME NEW s \in Request, FetchSeed(s) \/ StoreSeed(s) \/ \E ch \in Channel : AfterLogin(s, ch)
            PROVE  s = r
        BY <1>a, <4>1 DEF FetchSeed, StoreSeed, AfterLogin
      <4>2. ASSUME NEW s \in Request, NEW by \in tenants \cup {None}, NEW asked \in Asked, Begin(s, by, asked)
            PROVE  req'[r].op \in Op
        BY <1>a, <4>2 DEF Begin, Started, Asked, Op
      <4>3. ASSUME NEW s \in Request,
                   CheckInstagram(s) \/ Subscribe(s) \/ Write(s) \/ Commit(s) \/ \E ch \in Channel : Load(s, ch)
            PROVE  FALSE
        <5>1. req[s].op \in Op
          BY <4>3 DEF CheckInstagram, Subscribe, Write, Commit, Load, At, Op
        <5>2. s = r
          BY <1>a, <4>3 DEF CheckInstagram, Subscribe, Write, Commit, Load, Refuse, Goto, Done
        <5>. QED BY <2>2, <5>1, <5>2 DEF Op
      <4>4. ASSUME NEW s \in Request, Fail(s) \/ EndTask(s) PROVE req'[r] = Idle
        BY <1>a, <4>4 DEF Fail, EndTask
      <4>5. ~UNCHANGED vars /\ \A m \in Message : ~Customer(m) /\ ~Deliver(m)
        BY DEF vars, Customer, Deliver
      <4>. QED BY <4>1, <4>2, <4>3, <4>4, <4>5 DEF Next, Handle
    <3>. QED BY <1>1, <1>3, <1>4, <1>5, <3>1
  <2>. QED BY <1>1, <1>2, <2>1, <2>2

\* How a channel comes to be caught up: its page is stored.
LEMMA CaughtUpStep ==
  ASSUME SeedInv, [Next]_vars, NEW ch \in caughtUp' \ caughtUp
  PROVE  ch \in Channel /\ Connected(ch) /\ Within(ch, {})'
<1>1. PICK r \in Request : StoreSeed(r)
  <2>1. ASSUME NEW r \in Request, NEW c \in Channel, Load(r, c) \/ AfterLogin(r, c)
        PROVE  caughtUp' = caughtUp
    BY <2>1 DEF Load, AfterLogin, seeding
  <2>2. ASSUME NEW r \in Request, CheckInstagram(r) \/ Subscribe(r) \/ Write(r) \/ Commit(r)
        PROVE  caughtUp' = caughtUp
    BY <2>2 DEF CheckInstagram, Subscribe, Write, Commit, seeding
  <2>3. ASSUME NEW r \in Request, FetchSeed(r) \/ EndTask(r) \/ Fail(r) PROVE caughtUp' = caughtUp
    BY <2>3 DEF FetchSeed, EndTask, Fail, seeding
  <2>4. ASSUME NEW m \in Message, Customer(m) \/ Deliver(m) PROVE caughtUp' = caughtUp
    BY <2>4 DEF Customer, Deliver, seeding
  <2>. QED BY <2>1, <2>2, <2>3, <2>4 DEF Next, Begin, Handle, vars, seeding
<1>2. /\ req[r] # Idle /\ req[r].op = "task" /\ req[r].pc = "store" /\ req[r].live
      /\ ch = req[r].at /\ stored' = stored \cup req[r].page
  BY <1>1 DEF StoreSeed, At
<1>3. Seeding(req[r])
  BY DEF SeedInv
<1>4. Connected(ch) /\ Within(ch, req[r].page)
  BY <1>2, <1>3 DEF Seeding
<1>5. ch \in Channel
  BY <1>2, RequestShape DEF SeedInv, LinkInv
<1>6. UNCHANGED <<sent, wire, beyond, dropped>>
  BY <1>1 DEF StoreSeed, meta
<1>. QED BY <1>2, <1>4, <1>5, <1>6 DEF Within

\* Once the task has subscribed and seeded a channel, no message falls between the
\* seed and the webhooks: what was written before is in the page it fetched after
\* subscribing, or beyond that page; what comes later is delivered to a channel that
\* has its row, and stored unless that delivery fails.
THEOREM NoGapOnConnect == Spec => []NoGap
<1>1. Init => SeedInv
  BY InitTyped DEF Init, SeedInv, LinkInv, Fresh, Handled, Seeding
<1>2. SeedInv /\ [Next]_vars => SeedInv'
  <2> SUFFICES ASSUME SeedInv, [Next]_vars PROVE SeedInv'
    OBVIOUS
  <2>1. LinkInv /\ LinkInv'
    BY LinkStep DEF SeedInv
  <2>2. ASSUME NEW r \in Request PROVE Seeding(req[r])'
    BY <2>1, SeedingStays, SeedingStep DEF SeedInv
  <2>3. ASSUME NEW ch \in caughtUp' PROVE Connected(ch)' /\ Within(ch, {})'
    <3>1. CASE ch \in caughtUp
      <4>1. ch \in Channel
        BY <2>1, <3>1 DEF LinkInv, TypeInv, TypeOK
      <4>. QED BY <2>1, <3>1, <4>1, ReachStays DEF SeedInv
    <3>2. CASE ch \notin caughtUp
      BY <2>1, <3>2, CaughtUpStep, ReachStays
    <3>. QED BY <3>1, <3>2
  <2>. QED BY <2>1, <2>2, <2>3 DEF SeedInv
<1>3. SeedInv => NoGap
  BY DEF SeedInv, Within, NoGap
<1>. QED BY <1>1, <1>2, <1>3, PTL DEF Spec
=============================================================================
