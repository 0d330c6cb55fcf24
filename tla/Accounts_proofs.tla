--------------------------- MODULE Accounts_proofs ---------------------------
(* Theorems about Accounts, for any people, workspaces, addresses, bodies and  *)
(* requests at a time.                                                         *)
EXTENDS Accounts, TLAPS

-----------------------------------------------------------------------------
(* Types *)

\* What a request under way has loaded, by its operation.
LEMMA PendingShape ==
  ASSUME TypeOK, NEW r \in Request
  PROVE  /\ req[r].op = "register" => req[r].email \in Address
         /\ req[r].op = "invite" => req[r].row \in UserRow
         /\ req[r].op = "change" => /\ req[r].user \in User
                                    /\ req[r].seen \in UserRow
                                    /\ req[r].body \in Body
         /\ req[r].op = "remove" => req[r].user \in User
         /\ req[r].op = "confirm" => req[r].user \in User /\ req[r].seen \in BOOLEAN
<1>1. req[r] \in Pending
  BY DEF TypeOK
<1>. QED BY <1>1 DEF Pending, Idle

\* A row of the table is a UserRow.
LEMMA RowShape ==
  ASSUME TypeOK, NEW u \in Rows
  PROVE  users[u] \in UserRow
BY DEF TypeOK, Rows

\* An owner's row is one.
LEMMA OwnerShape ==
  ASSUME NEW t \in Tenant, NEW e \in Address
  PROVE  Owner(t, e) \in UserRow
BY DEF Owner, UserRow, Role, Status

\* A row that a body is merged into stays one.
LEMMA MergedShape ==
  ASSUME NEW now \in UserRow, NEW c, c.seen \in UserRow, c.body \in UserUpdate
  PROVE  /\ Merged(now, c) \in UserRow
         /\ Merged(now, c).tenant = now.tenant
         /\ Merged(now, c).email = now.email
         /\ Merged(now, c).verified => now.verified \/ c.body.verified = TRUE
         /\ now.status # "deleted" => Merged(now, c).status # "deleted"
<1> USE AccountsAssumption
<1>1. WrittenRoles(now.roles, c.seen.roles, c.body.role) \in SUBSET Role
  BY DEF WrittenRoles, UserRow, UserUpdate
<1>2. /\ Written(now.status, c.seen.status, c.body.status) \in Status
      /\ now.status # "deleted" => Written(now.status, c.seen.status, c.body.status) # "deleted"
  BY DEF Written, UserRow, UserUpdate, Status
<1>3. /\ Written(now.verified, c.seen.verified, c.body.verified) \in BOOLEAN
      /\ Written(now.verified, c.seen.verified, c.body.verified) => now.verified \/ c.body.verified = TRUE
  BY DEF Written, UserRow, UserUpdate
<1>4. now.password \/ c.body.password \in BOOLEAN
  BY DEF UserRow, UserUpdate
<1>. QED BY <1>1, <1>2, <1>3, <1>4 DEF Merged, UserRow

\* A request that changes a row has loaded it, and rows are never deleted.
PendingRows ==
  \A r \in Request : req[r].op \in {"change", "remove", "confirm"} => req[r].user \in Rows

\* Every step keeps the variables in their types.
LEMMA TypeStep == TypeOK /\ PendingRows /\ [Next]_vars => TypeOK'
<1> SUFFICES ASSUME TypeOK, PendingRows, [Next]_vars PROVE TypeOK'
  OBVIOUS
<1> USE AccountsAssumption
<1>1. ASSUME NEW r \in Request, NEW e \in Address, Register(r, e) PROVE TypeOK'
  <2>1. [op |-> "register", email |-> SignUpAddress(e)] \in Pending
    BY DEF Pending, SignUpAddress
  <2>. QED BY <1>1, <2>1 DEF Register, Open, TypeOK
<1>2. ASSUME NEW e \in Address, Resend(e) PROVE TypeOK'
  <2>1. PICK u \in Rows : queued' = queued \cup {Link(u, users[u].email)}
    BY <1>2 DEF Resend, Holder
  <2>2. Link(u, users[u].email) \in Mail
    BY <2>1, RowShape DEF Link, Mail, UserRow, Rows
  <2>. QED BY <1>2, <2>1, <2>2 DEF Resend, TypeOK
<1>3. ASSUME NEW l \in queued, SendMail(l) PROVE TypeOK'
  BY <1>3 DEF SendMail, TypeOK
<1>4. ASSUME NEW r \in Request, NEW l \in mailed, LinkLoad(r, l) PROVE TypeOK'
  <2>1. l.user \in Rows /\ l.user \in User
    BY <1>4 DEF LinkLoad, Rows
  <2>2. users[l.user].verified \in BOOLEAN
    BY <2>1, RowShape DEF UserRow
  <2>3. [op |-> "confirm", user |-> l.user, seen |-> users[l.user].verified] \in Pending
    BY <2>1, <2>2 DEF Pending
  <2>4. {<<"followed", l.user>>} \subseteq Event
    BY <2>1 DEF Event
  <2>. QED BY <1>4, <2>3, <2>4 DEF LinkLoad, Open, Happened, TypeOK
<1>5. ASSUME NEW u \in User, Login(u) PROVE TypeOK'
  BY <1>5 DEF Login, TypeOK
<1>6. ASSUME NEW r \in Request, NEW a \in User, NEW e \in Address, NEW role \in Invited,
             Invite(r, a, e, role)
      PROVE  TypeOK'
  <2>1. a \in Rows /\ users[a].tenant \in Tenant
    BY <1>6, RowShape DEF Invite, MayManage, Active, UserRow
  <2>2. req' = [req EXCEPT ![r] =
                  [op |-> "invite",
                   row |-> [tenant |-> users[a].tenant, email |-> e, roles |-> {role},
                            status |-> "active", verified |-> FALSE, password |-> TRUE]]]
    BY <1>6 DEF Invite, Open
  <2>3. [tenant |-> users[a].tenant, email |-> e, roles |-> {role}, status |-> "active",
         verified |-> FALSE, password |-> TRUE] \in UserRow
    BY <2>1 DEF UserRow, Status
  <2>. QED BY <1>6, <2>2, <2>3 DEF Invite, Pending, TypeOK
<1>7. ASSUME NEW r \in Request, NEW a \in User, NEW u \in User, Remove(r, a, u) PROVE TypeOK'
  <2>1. [op |-> "remove", user |-> u] \in Pending
    BY DEF Pending
  <2>. QED BY <1>7, <2>1 DEF Remove, Open, TypeOK
<1>8. ASSUME NEW r \in Request, NEW a \in User, NEW u \in User, NEW body \in Body,
             Change(r, a, u, body)
      PROVE  TypeOK'
  <2>1. [op |-> "change", user |-> u, seen |-> users[u], body |-> body] \in Pending
    BY <1>8, RowShape DEF Change, Pending
  <2>. QED BY <1>8, <2>1 DEF Change, Open, TypeOK
<1>9. ASSUME NEW r \in Request, RegisterCommit(r) PROVE TypeOK'
  <2>1. Idle \in Pending /\ req[r].email \in Address
    BY <1>9, PendingShape DEF RegisterCommit, Pending
  <2>2. CASE UNCHANGED <<users, tenants, queued, past>>
    BY <1>9, <2>1, <2>2 DEF RegisterCommit, Close, TypeOK
  <2>3. ASSUME NEW t \in Tenant \ tenants, NEW u \in User \ Rows,
               tenants' = tenants \cup {t},
               users' = [users EXCEPT ![u] = Owner(t, req[r].email)],
               queued' = queued \cup {Link(u, req[r].email)},
               Happened({<<"signedUp", u>>})
        PROVE  TypeOK'
    <3>1. Owner(t, req[r].email) \in UserRow
      BY <2>1, OwnerShape
    <3>2. Link(u, req[r].email) \in Mail /\ {<<"signedUp", u>>} \subseteq Event
      BY <2>1 DEF Link, Mail, Event
    <3>. QED BY <1>9, <2>1, <2>3, <3>1, <3>2 DEF RegisterCommit, Close, Happened, TypeOK
  <2>. QED BY <1>9, <2>2, <2>3 DEF RegisterCommit
<1>10. ASSUME NEW r \in Request, LinkCommit(r) PROVE TypeOK'
  <2>1. Idle \in Pending /\ req[r].user \in User /\ req[r].seen \in BOOLEAN
    BY <1>10, PendingShape DEF LinkCommit, Pending
  <2>2. users' \in [User -> UserRow \cup {None}]
    <3>1. users[req[r].user] \in UserRow
      BY <1>10, RowShape DEF LinkCommit, PendingRows
    <3>. QED BY <1>10, <2>1, <3>1 DEF LinkCommit, TypeOK, UserRow
  <2>. QED BY <1>10, <2>1, <2>2 DEF LinkCommit, Close, TypeOK
<1>11. ASSUME NEW r \in Request, InviteCommit(r) PROVE TypeOK'
  <2>1. Idle \in Pending /\ req[r].row \in UserRow
    BY <1>11, PendingShape DEF InviteCommit, Pending
  <2>2. CASE UNCHANGED <<users, queued>>
    BY <1>11, <2>1, <2>2 DEF InviteCommit, Close, TypeOK
  <2>3. ASSUME NEW u \in User \ Rows, users' = [users EXCEPT ![u] = req[r].row],
               queued' = queued \cup {Link(u, req[r].row.email)}
        PROVE  TypeOK'
    <3>1. Link(u, req[r].row.email) \in Mail
      BY <2>1 DEF Link, Mail, UserRow
    <3>. QED BY <1>11, <2>1, <2>3, <3>1 DEF InviteCommit, Close, TypeOK
  <2>. QED BY <1>11, <2>2, <2>3 DEF InviteCommit
<1>12. ASSUME NEW r \in Request, ChangeCommit(r) PROVE TypeOK'
  <2> DEFINE c == req[r]
             row == Merged(users[c.user], c)
  <2>1. /\ c.user \in Rows /\ c.user \in User /\ c.seen \in UserRow /\ c.body \in UserUpdate
        /\ Idle \in Pending
    BY <1>12, PendingShape DEF ChangeCommit, PendingRows, Pending
  <2>2. row \in UserRow
    BY <2>1, RowShape, MergedShape
  <2>3. Noted(c.user, row, c) \subseteq Event
    BY <2>1, <2>2 DEF Noted, Event, UserRow
  <2>4. users' = [users EXCEPT ![c.user] = row] /\ past' = past \cup Noted(c.user, row, c)
    BY <1>12 DEF ChangeCommit, Happened
  <2> HIDE DEF row
  <2>. QED BY <1>12, <2>1, <2>2, <2>3, <2>4 DEF ChangeCommit, Close, TypeOK
<1>13. ASSUME NEW r \in Request, RemoveCommit(r) PROVE TypeOK'
  <2>1. req[r].user \in User /\ users[req[r].user] \in UserRow /\ Idle \in Pending
    BY <1>13, PendingShape, RowShape DEF RemoveCommit, PendingRows, Pending
  <2>2. users' \in [User -> UserRow \cup {None}]
    BY <1>13, <2>1 DEF RemoveCommit, TypeOK, UserRow, Status
  <2>3. {<<"removed", req[r].user>>} \subseteq Event
    BY <2>1 DEF Event
  <2>. QED BY <1>13, <2>1, <2>2, <2>3 DEF RemoveCommit, Close, Happened, TypeOK
<1>14. ASSUME NEW r \in Request, Fail(r) PROVE TypeOK'
  BY <1>14 DEF Fail, Close, Pending, TypeOK
<1>15. CASE UNCHANGED vars
  BY <1>15 DEF vars, TypeOK
<1>. QED
  BY <1>1, <1>2, <1>3, <1>4, <1>5, <1>6, <1>7, <1>8, <1>9, <1>10, <1>11, <1>12, <1>13, <1>14,
     <1>15 DEF Next, CommitStep

\* A commit that writes one row.
Writes(u, row) == u \in User /\ row \in UserRow /\ users' = [users EXCEPT ![u] = row]

\* The rows after it.
LEMMA RowsAfter ==
  ASSUME TypeOK, NEW u, NEW row, Writes(u, row)
  PROVE  /\ users'[u] = row
         /\ \A v \in User \ {u} : users'[v] = users[v]
         /\ Rows' = Rows \cup {u}
<1>1. row # None
  BY AccountsAssumption DEF Writes
<1>. QED BY <1>1 DEF TypeOK, Rows, Writes

\* What a confirmation, a change and a removal write is a row again, that differs
\* from the old one in a few fields.
LEMMA Confirmed ==
  ASSUME TypeOK, PendingRows, NEW r \in Request, LinkCommit(r)
  PROVE  /\ req[r].user \in Rows
         /\ \E row : /\ Writes(req[r].user, row)
                     /\ row.tenant = users[req[r].user].tenant /\ row.email = users[req[r].user].email
                     /\ row.roles = users[req[r].user].roles /\ row.status = users[req[r].user].status
                     /\ row.verified = (users[req[r].user].verified \/ ~req[r].seen)
<1>1. req[r].user \in Rows /\ users[req[r].user] \in UserRow /\ req[r].seen \in BOOLEAN
  BY PendingShape, RowShape DEF LinkCommit, PendingRows
<1> DEFINE row == [users[req[r].user] EXCEPT !.verified = @ \/ ~req[r].seen]
<1>2. users' = [users EXCEPT ![req[r].user] = row]
  BY DEF LinkCommit, TypeOK
<1>3. /\ row \in UserRow
      /\ row.tenant = users[req[r].user].tenant /\ row.email = users[req[r].user].email
      /\ row.roles = users[req[r].user].roles /\ row.status = users[req[r].user].status
      /\ row.verified = (users[req[r].user].verified \/ ~req[r].seen)
  BY <1>1 DEF UserRow
<1> HIDE DEF row
<1>. QED BY <1>1, <1>2, <1>3 DEF Writes, Rows

LEMMA Changed ==
  ASSUME TypeOK, PendingRows, NEW r \in Request, ChangeCommit(r)
  PROVE  /\ req[r].user \in Rows
         /\ \E row : /\ Writes(req[r].user, row)
                     /\ row.tenant = users[req[r].user].tenant /\ row.email = users[req[r].user].email
                     /\ users[req[r].user].status # "deleted" => row.status # "deleted"
                     /\ past' = past \cup Noted(req[r].user, row, req[r])
<1>1. req[r].user \in Rows /\ users[req[r].user] \in UserRow /\ req[r].seen \in UserRow
      /\ req[r].body \in UserUpdate
  BY PendingShape, RowShape, AccountsAssumption DEF ChangeCommit, PendingRows
<1> DEFINE row == Merged(users[req[r].user], req[r])
<1>2. users' = [users EXCEPT ![req[r].user] = row] /\ past' = past \cup Noted(req[r].user, row, req[r])
  BY DEF ChangeCommit, Happened
<1>3. /\ row \in UserRow
      /\ row.tenant = users[req[r].user].tenant /\ row.email = users[req[r].user].email
      /\ users[req[r].user].status # "deleted" => row.status # "deleted"
  BY <1>1, MergedShape
<1> HIDE DEF row
<1>. QED BY <1>1, <1>2, <1>3 DEF Writes, Rows

LEMMA Removed ==
  ASSUME TypeOK, PendingRows, NEW r \in Request, RemoveCommit(r)
  PROVE  /\ req[r].user \in Rows
         /\ \E row : /\ Writes(req[r].user, row)
                     /\ row.tenant = users[req[r].user].tenant /\ row.email = None
                     /\ row.verified = users[req[r].user].verified
<1>1. req[r].user \in Rows /\ users[req[r].user] \in UserRow
  BY PendingShape, RowShape DEF RemoveCommit, PendingRows
<1> DEFINE row == [users[req[r].user] EXCEPT !.status = "deleted", !.password = FALSE, !.email = None]
<1>2. users' = [users EXCEPT ![req[r].user] = row]
  BY DEF RemoveCommit, TypeOK
<1>3. /\ row \in UserRow /\ row.tenant = users[req[r].user].tenant /\ row.email = None
      /\ row.verified = users[req[r].user].verified
  BY <1>1 DEF UserRow, Status
<1> HIDE DEF row
<1>. QED BY <1>1, <1>2, <1>3 DEF Writes, Rows

\* What a sign-up or an invite that finds its address free writes is a new row.
LEMMA SignedUp ==
  ASSUME TypeOK, NEW r \in Request, RegisterCommit(r)
  PROVE  \/ UNCHANGED <<users, tenants, queued, past>>
         \/ \E t \in Tenant \ tenants, u \in User \ Rows :
              /\ Writes(u, Owner(t, req[r].email))
              /\ Holder(req[r].email) = {}
              /\ tenants' = tenants \cup {t}
              /\ queued' = queued \cup {Link(u, req[r].email)}
              /\ past' = past \cup {<<"signedUp", u>>}
<1>1. req[r].email \in Address
  BY PendingShape DEF RegisterCommit
<1>2. \A t \in Tenant : Owner(t, req[r].email) \in UserRow
  BY <1>1, OwnerShape
<1>. QED BY <1>2 DEF RegisterCommit, Happened, Writes

LEMMA Invitee ==
  ASSUME TypeOK, NEW r \in Request, InviteCommit(r)
  PROVE  \/ UNCHANGED <<users, queued>>
         \/ \E u \in User \ Rows :
              /\ Writes(u, req[r].row)
              /\ Holder(req[r].row.email) = {}
              /\ queued' = queued \cup {Link(u, req[r].row.email)}
<1>1. req[r].row \in UserRow
  BY PendingShape DEF InviteCommit
<1>. QED BY <1>1 DEF InviteCommit, Writes

\* Rows are never deleted.
LEMMA RowsStay == TypeOK /\ PendingRows /\ [Next]_vars => Rows \subseteq Rows'
<1> SUFFICES ASSUME TypeOK, PendingRows, [Next]_vars PROVE Rows \subseteq Rows'
  OBVIOUS
<1>1. ASSUME UNCHANGED users PROVE Rows' = Rows
  BY <1>1 DEF Rows
<1>2. ASSUME NEW r \in Request, RegisterCommit(r) PROVE Rows \subseteq Rows'
  BY <1>1, <1>2, SignedUp, RowsAfter
<1>3. ASSUME NEW r \in Request, LinkCommit(r) PROVE Rows \subseteq Rows'
  <2>1. PICK row : Writes(req[r].user, row)
    BY <1>3, Confirmed
  <2>. QED BY <1>3, <2>1, Confirmed, RowsAfter DEF Rows
<1>4. ASSUME NEW r \in Request, InviteCommit(r) PROVE Rows \subseteq Rows'
  BY <1>1, <1>4, Invitee, RowsAfter
<1>5. ASSUME NEW r \in Request, ChangeCommit(r) PROVE Rows \subseteq Rows'
  <2>1. PICK row : Writes(req[r].user, row)
    BY <1>5, Changed
  <2>. QED BY <1>5, <2>1, Changed, RowsAfter DEF Rows
<1>6. ASSUME NEW r \in Request, RemoveCommit(r) PROVE Rows \subseteq Rows'
  <2>1. PICK row : Writes(req[r].user, row)
    BY <1>6, Removed
  <2>. QED BY <1>6, <2>1, Removed, RowsAfter DEF Rows
<1>7. CASE \E r \in Request : CommitStep(r)
  BY <1>2, <1>3, <1>4, <1>5, <1>6, <1>7 DEF CommitStep
<1>8. CASE ~\E r \in Request : CommitStep(r)
  <2>1. UNCHANGED users
    BY <1>8 DEF Next, Register, Resend, SendMail, LinkLoad, Login, Invite, Remove, Change, Fail, vars
  <2>. QED BY <1>1, <2>1
<1>. QED BY <1>7, <1>8

\* A step makes one request wait for something new, or lets one go.
LEMMA PendingStep == TypeOK /\ PendingRows /\ [Next]_vars => PendingRows'
<1> SUFFICES ASSUME TypeOK, PendingRows, [Next]_vars,
                    NEW r \in Request, req'[r].op \in {"change", "remove", "confirm"}
             PROVE  req'[r].user \in Rows'
  BY DEF PendingRows
<1>1. Rows \subseteq Rows'
  BY RowsStay
<1>2. CASE req'[r] = req[r]
  BY <1>1, <1>2 DEF PendingRows
<1>3. CASE req'[r] = Idle
  BY <1>3 DEF Idle
<1>4. ASSUME NEW q \in Request, NEW l \in mailed, LinkLoad(q, l) PROVE req'[r].user \in Rows'
  <2>1. req' = [req EXCEPT ![q] = [op |-> "confirm", user |-> l.user, seen |-> users[l.user].verified]]
    BY <1>4 DEF LinkLoad, Open
  <2>. QED BY <1>1, <1>2, <1>4, <2>1 DEF LinkLoad, TypeOK
<1>5. ASSUME NEW q \in Request, NEW a \in User, NEW u \in User, Remove(q, a, u)
      PROVE  req'[r].user \in Rows'
  BY <1>1, <1>2, <1>5 DEF Remove, Open, TypeOK
<1>6. ASSUME NEW q \in Request, NEW a \in User, NEW u \in User, NEW body \in Body,
             Change(q, a, u, body)
      PROVE  req'[r].user \in Rows'
  BY <1>1, <1>2, <1>6 DEF Change, Open, TypeOK
<1>7. ASSUME NEW q \in Request, NEW e \in Address, Register(q, e) PROVE req'[r] = req[r]
  BY <1>7 DEF Register, Open, TypeOK
<1>8. ASSUME NEW q \in Request, NEW a \in User, NEW e \in Address, NEW role \in Invited,
             Invite(q, a, e, role)
      PROVE  req'[r] = req[r]
  BY <1>8 DEF Invite, Open, TypeOK
<1>9. ASSUME NEW q \in Request, CommitStep(q) \/ Fail(q) PROVE req'[r] \in {req[r], Idle}
  BY <1>9 DEF CommitStep, RegisterCommit, LinkCommit, InviteCommit, ChangeCommit, RemoveCommit, Fail,
              Close, TypeOK
<1>. QED
  BY <1>2, <1>3, <1>4, <1>5, <1>6, <1>7, <1>8, <1>9 DEF Next, Resend, SendMail, Login, vars

\* Every reachable state is well typed.
THEOREM AccountsTypeCorrect == Spec => []TypeOK
<1>1. Init => TypeOK /\ PendingRows
  BY AccountsAssumption DEF Init, TypeOK, PendingRows, Pending, Idle
<1>2. TypeOK /\ PendingRows /\ [Next]_vars => (TypeOK /\ PendingRows)'
  BY TypeStep, PendingStep
<1>. QED BY <1>1, <1>2, PTL DEF Spec

-----------------------------------------------------------------------------
(* What a step does besides *)

\* Only commits write users and tenants.
LEMMA OnlyCommits ==
  ASSUME [Next]_vars, ~\E r \in Request : CommitStep(r)
  PROVE  UNCHANGED <<users, tenants>>
BY DEF Next, Register, Resend, SendMail, LinkLoad, Login, Invite, Remove, Change, Fail, vars

\* What has happened has happened.
LEMMA PastGrows == [Next]_vars => past \subseteq past'
<1> SUFFICES ASSUME [Next]_vars PROVE past \subseteq past'
  OBVIOUS
<1>1. ASSUME NEW r \in Request, CommitStep(r) PROVE past \subseteq past'
  BY <1>1 DEF CommitStep, RegisterCommit, LinkCommit, InviteCommit, ChangeCommit, RemoveCommit, Happened
<1>. QED
  BY <1>1 DEF Next, Register, Resend, SendMail, LinkLoad, Login, Invite, Remove, Change, Fail, Happened, vars

\* Which commit notes a sign-up or a removal.
LEMMA NewEvent ==
  ASSUME TypeOK, [Next]_vars, NEW kind, NEW id, <<kind, id>> \in past' \ past
  PROVE  \/ \E r \in Request : RegisterCommit(r) /\ kind = "signedUp"
         \/ \E r \in Request : RemoveCommit(r) /\ kind = "removed" /\ req[r].user = id
         \/ kind \in {"followed", "vouched", "unvouched", "demoted"}
<1> DEFINE P == \/ \E r \in Request : RegisterCommit(r) /\ kind = "signedUp"
                \/ \E r \in Request : RemoveCommit(r) /\ kind = "removed" /\ req[r].user = id
                \/ kind \in {"followed", "vouched", "unvouched", "demoted"}
<1>1. ASSUME NEW r \in Request, RegisterCommit(r) PROVE P
  <2>1. PICK u : past' = past \cup {<<"signedUp", u>>}
    BY <1>1 DEF RegisterCommit, Happened
  <2>. QED BY <1>1, <2>1
<1>2. ASSUME NEW r \in Request, RemoveCommit(r) PROVE P
  <2>1. past' = past \cup {<<"removed", req[r].user>>}
    BY <1>2 DEF RemoveCommit, Happened
  <2>. QED BY <1>2, <2>1
<1>3. ASSUME NEW r \in Request, ChangeCommit(r) PROVE P
  <2>1. PICK u, row : past' = past \cup Noted(u, row, req[r])
    BY <1>3 DEF ChangeCommit, Happened
  <2>. QED BY <2>1 DEF Noted
<1>4. ASSUME NEW r \in Request, NEW l \in mailed, LinkLoad(r, l) PROVE P
  BY <1>4 DEF LinkLoad, Happened
<1>5. CASE UNCHANGED past
  BY <1>5
<1>. QED
  BY <1>1, <1>2, <1>3, <1>4, <1>5
  DEF Next, CommitStep, LinkCommit, InviteCommit, Register, Resend, SendMail, Login, Invite, Remove, Change,
      Fail, vars

\* A request that commits something was under way before, unchanged.
LEMMA Pended ==
  ASSUME TypeOK, [Next]_vars, NEW r \in Request
  PROVE  \/ req'[r] \in {req[r], Idle}
         \/ req'[r].op = "register"
         \/ req'[r].op = "invite" /\ ~req'[r].row.verified
         \/ \E a, u \in User : Remove(r, a, u) /\ req'[r] = [op |-> "remove", user |-> u]
         \/ \E a, u \in User, body \in Body :
              /\ Change(r, a, u, body)
              /\ req'[r] = [op |-> "change", user |-> u, seen |-> users[u], body |-> body]
         \/ \E l \in mailed :
              /\ LinkLoad(r, l)
              /\ req'[r] = [op |-> "confirm", user |-> l.user, seen |-> users[l.user].verified]
<1> DEFINE P == \/ req'[r] \in {req[r], Idle}
                \/ req'[r].op = "register"
                \/ req'[r].op = "invite" /\ ~req'[r].row.verified
                \/ \E a, u \in User : Remove(r, a, u) /\ req'[r] = [op |-> "remove", user |-> u]
                \/ \E a, u \in User, body \in Body :
                     /\ Change(r, a, u, body)
                     /\ req'[r] = [op |-> "change", user |-> u, seen |-> users[u], body |-> body]
                \/ \E l \in mailed :
                     /\ LinkLoad(r, l)
                     /\ req'[r] = [op |-> "confirm", user |-> l.user, seen |-> users[l.user].verified]
<1>1. ASSUME NEW q \in Request, NEW e \in Address, Register(q, e) PROVE P
  BY <1>1 DEF Register, Open, TypeOK
<1>2. ASSUME NEW q \in Request, NEW a \in User, NEW e \in Address, NEW role \in Invited,
             Invite(q, a, e, role)
      PROVE  P
  <2>1. req' = [req EXCEPT ![q] =
                  [op |-> "invite",
                   row |-> [tenant |-> users[a].tenant, email |-> e, roles |-> {role},
                            status |-> "active", verified |-> FALSE, password |-> TRUE]]]
    BY <1>2 DEF Invite, Open
  <2>2. CASE q = r
    BY <2>1, <2>2 DEF TypeOK
  <2>3. CASE q # r
    BY <2>1, <2>3 DEF TypeOK
  <2>. QED BY <2>2, <2>3
<1>3. ASSUME NEW q \in Request, NEW a \in User, NEW u \in User, Remove(q, a, u) PROVE P
  <2>1. CASE q = r
    BY <1>3, <2>1 DEF Remove, Open, TypeOK
  <2>2. CASE q # r
    BY <1>3, <2>2 DEF Remove, Open, TypeOK
  <2>. QED BY <2>1, <2>2
<1>4. ASSUME NEW q \in Request, NEW a \in User, NEW u \in User, NEW body \in Body,
             Change(q, a, u, body)
      PROVE  P
  <2>1. req' = [req EXCEPT ![q] = [op |-> "change", user |-> u, seen |-> users[u], body |-> body]]
    BY <1>4 DEF Change, Open
  <2>2. CASE q = r
    <3>1. req'[r] = [op |-> "change", user |-> u, seen |-> users[u], body |-> body]
      BY <2>1, <2>2 DEF TypeOK
    <3>. QED BY <1>4, <2>2, <3>1
  <2>3. CASE q # r
    BY <2>1, <2>3 DEF TypeOK
  <2>. QED BY <2>2, <2>3
<1>5. ASSUME NEW q \in Request, NEW l \in mailed, LinkLoad(q, l) PROVE P
  <2>1. req' = [req EXCEPT ![q] = [op |-> "confirm", user |-> l.user, seen |-> users[l.user].verified]]
    BY <1>5 DEF LinkLoad, Open
  <2>2. CASE q = r
    <3>1. req'[r] = [op |-> "confirm", user |-> l.user, seen |-> users[l.user].verified]
      BY <2>1, <2>2 DEF TypeOK
    <3>. QED BY <1>5, <2>2, <3>1
  <2>3. CASE q # r
    BY <2>1, <2>3 DEF TypeOK
  <2>. QED BY <2>2, <2>3
<1>6. ASSUME NEW q \in Request, CommitStep(q) \/ Fail(q) PROVE req'[r] \in {req[r], Idle}
  BY <1>6 DEF CommitStep, RegisterCommit, LinkCommit, InviteCommit, ChangeCommit, RemoveCommit, Fail,
              Close, TypeOK
<1>7. CASE UNCHANGED req
  BY <1>7
<1> HIDE DEF P
<1>8. P
  BY <1>1, <1>2, <1>3, <1>4, <1>5, <1>6, <1>7 DEF Next, Resend, SendMail, Login, vars, P
<1>. QED BY <1>8 DEF P

\* The same, read from what the request is now.
LEMMA Waits ==
  ASSUME TypeOK, [Next]_vars, NEW r \in Request
  PROVE  /\ req'[r].op = "remove" =>
              \/ req'[r] = req[r]
              \/ \E a, u \in User : Remove(r, a, u) /\ req'[r] = [op |-> "remove", user |-> u]
         /\ req'[r].op = "invite" => req'[r] = req[r] \/ ~req'[r].row.verified
         /\ req'[r].op = "confirm" =>
              \/ req'[r] = req[r]
              \/ \E l \in mailed :
                   /\ LinkLoad(r, l)
                   /\ req'[r] = [op |-> "confirm", user |-> l.user, seen |-> users[l.user].verified]
<1>1. CASE req'[r] \in {req[r], Idle}
  BY <1>1 DEF Idle
<1>2. CASE req'[r].op \in {"register", "change"}
  BY <1>2
<1>3. CASE req'[r].op = "invite" /\ ~req'[r].row.verified
  BY <1>3
<1>4. CASE \E a, u \in User : Remove(r, a, u) /\ req'[r] = [op |-> "remove", user |-> u]
  BY <1>4
<1>5. CASE \E l \in mailed :
             /\ LinkLoad(r, l)
             /\ req'[r] = [op |-> "confirm", user |-> l.user, seen |-> users[l.user].verified]
  BY <1>5
<1>6. CASE \E a, u \in User, body \in Body :
             /\ Change(r, a, u, body)
             /\ req'[r] = [op |-> "change", user |-> u, seen |-> users[u], body |-> body]
  BY <1>2, <1>6
<1>. QED BY <1>1, <1>2, <1>3, <1>4, <1>5, <1>6, Pended

-----------------------------------------------------------------------------
(* Every workspace keeps an owner *)

\* An owner whom no request under way removes: delete_user looked at the roles
\* before, and whoever became an owner since is not the workspace's only one.
StayingOwner(t, u) ==
  /\ u \in Rows /\ users[u].tenant = t /\ "owner" \in users[u].roles
  /\ users[u].status # "deleted"
  /\ \A r \in Request : ~(req[r].op = "remove" /\ req[r].user = u)

OwnersStay == \A t \in tenants : Has("demoted", t) \/ \E u \in User : StayingOwner(t, u)

\* An owner stays one, or its workspace is noted.
LEMMA OwnerStep ==
  ASSUME TypeOK, PendingRows, [Next]_vars, NEW t \in tenants, NEW u \in User, StayingOwner(t, u)
  PROVE  Has("demoted", t)' \/ StayingOwner(t, u)'
<1>1. u \in Rows' /\ past \subseteq past'
  BY RowsStay, PastGrows DEF StayingOwner
<1>2. ASSUME NEW r \in Request, req'[r].op = "remove", req'[r].user = u PROVE FALSE
  <2>1. req'[r] # req[r]
    BY <1>2 DEF StayingOwner
  <2>2. PICK a, v \in User : Remove(r, a, v) /\ req'[r] = [op |-> "remove", user |-> v]
    BY <1>2, <2>1, Waits
  <2>3. v = u
    BY <1>2, <2>2
  <2>. QED BY <2>2, <2>3 DEF StayingOwner, Remove
<1>3. SUFFICES \/ Has("demoted", t)'
               \/ users'[u].tenant = t /\ "owner" \in users'[u].roles /\ users'[u].status # "deleted"
  BY <1>1, <1>2 DEF StayingOwner
<1>4. CASE users'[u] = users[u]
  BY <1>4 DEF StayingOwner
<1>5. ASSUME NEW r \in Request, RegisterCommit(r) PROVE users'[u] = users[u]
  BY <1>5, SignedUp, RowsAfter DEF StayingOwner
<1>6. ASSUME NEW r \in Request, InviteCommit(r) PROVE users'[u] = users[u]
  BY <1>6, Invitee, RowsAfter DEF StayingOwner
<1>7. ASSUME NEW r \in Request, LinkCommit(r)
      PROVE  users'[u].tenant = t /\ "owner" \in users'[u].roles /\ users'[u].status # "deleted"
  <2>1. PICK row : /\ Writes(req[r].user, row)
                   /\ row.tenant = users[req[r].user].tenant
                   /\ row.roles = users[req[r].user].roles
                   /\ row.status = users[req[r].user].status
    BY <1>7, Confirmed
  <2>. QED BY <2>1, <1>7, Confirmed, RowsAfter DEF StayingOwner, Rows
<1>8. ASSUME NEW r \in Request, ChangeCommit(r)
      PROVE  \/ Has("demoted", t)'
             \/ users'[u].tenant = t /\ "owner" \in users'[u].roles /\ users'[u].status # "deleted"
  <2>1. PICK row : /\ Writes(req[r].user, row)
                   /\ row.tenant = users[req[r].user].tenant
                   /\ users[req[r].user].status # "deleted" => row.status # "deleted"
                   /\ past' = past \cup Noted(req[r].user, row, req[r])
    BY <1>8, Changed
  <2>2. CASE req[r].user # u
    BY <2>1, <2>2, <1>4, <1>8, Changed, RowsAfter DEF Rows
  <2>3. CASE req[r].user = u
    <3>1. users'[u] = row
      BY <2>1, <2>3, RowsAfter
    <3>2. CASE "owner" \in row.roles
      BY <2>1, <2>3, <3>1, <3>2 DEF StayingOwner
    <3>3. CASE "owner" \notin row.roles
      <4>1. <<"demoted", row.tenant>> \in Noted(u, row, req[r])
        BY <3>3 DEF Noted, StayingOwner
      <4>. QED BY <2>1, <2>3, <4>1 DEF Has, StayingOwner
    <3>. QED BY <3>2, <3>3
  <2>. QED BY <2>2, <2>3
<1>9. ASSUME NEW r \in Request, RemoveCommit(r) PROVE users'[u] = users[u]
  <2>1. req[r].user # u
    BY <1>9 DEF RemoveCommit, StayingOwner
  <2>2. PICK row : Writes(req[r].user, row)
    BY <1>9, Removed
  <2>. QED BY <2>1, <2>2, <1>9, Removed, RowsAfter DEF Rows
<1>10. CASE ~\E r \in Request : CommitStep(r)
  BY <1>4, <1>10, OnlyCommits
<1>. QED BY <1>4, <1>5, <1>6, <1>7, <1>8, <1>9, <1>10 DEF CommitStep

LEMMA OwnersStep == TypeOK /\ PendingRows /\ OwnersStay /\ [Next]_vars => OwnersStay'
<1> SUFFICES ASSUME TypeOK, PendingRows, OwnersStay, [Next]_vars, NEW t \in tenants'
             PROVE  Has("demoted", t)' \/ \E u \in User : StayingOwner(t, u)'
  BY DEF OwnersStay
<1>1. CASE t \in tenants
  <2>1. CASE Has("demoted", t)
    BY <2>1, PastGrows DEF Has
  <2>2. CASE ~Has("demoted", t)
    BY <1>1, <2>2, OwnerStep DEF OwnersStay
  <2>. QED BY <2>1, <2>2
<1>2. CASE t \notin tenants
  <2>1. PICK r \in Request : RegisterCommit(r)
    BY <1>2, OnlyCommits DEF CommitStep, LinkCommit, InviteCommit, ChangeCommit, RemoveCommit
  <2>2. PICK u \in User \ Rows : /\ Writes(u, Owner(t, req[r].email))
    BY <1>2, <2>1, SignedUp
  <2>3. users'[u] = Owner(t, req[r].email) /\ u \in Rows'
    BY <2>2, RowsAfter
  <2>4. ASSUME NEW q \in Request, req'[q].op = "remove", req'[q].user = u PROVE FALSE
    <3>1. req'[q] = req[q] \/ req'[q] = Idle
      BY <2>1 DEF RegisterCommit, Close, TypeOK
    <3>. QED BY <2>4, <3>1, <2>2 DEF PendingRows, Idle
  <2>. QED BY <2>3, <2>4 DEF StayingOwner, Owner
<1>. QED BY <1>1, <1>2

\* Every workspace has an owner who is not removed, as long as no owner of it was
\* made something else: whatever sign-ups and removals race.
THEOREM WorkspaceKeepsOwner == Spec => []WorkspaceHasOwner
<1>1. Init => OwnersStay
  BY DEF Init, OwnersStay
<1>2. Init => TypeOK /\ PendingRows
  BY AccountsAssumption DEF Init, TypeOK, PendingRows, Pending, Idle
<1>3. OwnersStay => WorkspaceHasOwner
  BY DEF OwnersStay, WorkspaceHasOwner, StayingOwner
<1>. QED BY <1>1, <1>2, <1>3, TypeStep, PendingStep, OwnersStep, PTL DEF Spec

-----------------------------------------------------------------------------
(* Nobody is confirmed but by a link of their own, or by their staff *)

\* A confirmation under way is of a link that was followed, and an invite under
\* way confirms nobody.
LinksFollowed ==
  \A r \in Request : /\ req[r].op = "confirm" => Has("followed", req[r].user)
                     /\ req[r].op = "invite" => ~req[r].row.verified

LEMMA FollowedStep == TypeOK /\ LinksFollowed /\ [Next]_vars => LinksFollowed'
<1> SUFFICES ASSUME TypeOK, LinksFollowed, [Next]_vars, NEW r \in Request
             PROVE  /\ req'[r].op = "confirm" => <<"followed", req'[r].user>> \in past'
                    /\ req'[r].op = "invite" => ~req'[r].row.verified
  BY DEF LinksFollowed, Has
<1>1. past \subseteq past'
  BY PastGrows
<1>2. CASE req'[r] = req[r]
  BY <1>1, <1>2 DEF LinksFollowed, Has
<1>3. ASSUME NEW l \in mailed, LinkLoad(r, l),
             req'[r] = [op |-> "confirm", user |-> l.user, seen |-> users[l.user].verified]
      PROVE  req'[r].op = "confirm" /\ <<"followed", req'[r].user>> \in past'
  BY <1>3 DEF LinkLoad, Happened, Has
<1>. QED BY <1>2, <1>3, Waits DEF Idle

\* Who is confirmed after a step was before, or has been noted.
LEMMA VerifiedStep ==
  ASSUME TypeOK, PendingRows, LinksFollowed, [Next]_vars,
         NEW u \in User, u \in Rows', users'[u].verified
  PROVE  (u \in Rows /\ users[u].verified) \/ Has("followed", u)' \/ Has("vouched", u)'
<1> DEFINE P == (u \in Rows /\ users[u].verified) \/ Has("followed", u)' \/ Has("vouched", u)'
<1>1. past \subseteq past'
  BY PastGrows
<1>2. CASE users'[u] = users[u]
  BY <1>2 DEF Rows
<1>3. ASSUME NEW r \in Request, RegisterCommit(r) PROVE P
  <2>1. CASE UNCHANGED users
    BY <1>2, <2>1
  <2>2. ASSUME NEW v \in User \ Rows, NEW t \in Tenant, Writes(v, Owner(t, req[r].email))
        PROVE  P
    <3>1. v # u
      BY <2>2, RowsAfter DEF Owner
    <3>. QED BY <1>2, <2>2, <3>1, RowsAfter
  <2>. QED BY <1>3, <2>1, <2>2, SignedUp
<1>4. ASSUME NEW r \in Request, InviteCommit(r) PROVE P
  <2>1. CASE UNCHANGED users
    BY <1>2, <2>1
  <2>2. ASSUME NEW v \in User \ Rows, Writes(v, req[r].row)
        PROVE  P
    <3>1. v # u
      BY <1>4, <2>2, RowsAfter DEF LinksFollowed, InviteCommit
    <3>. QED BY <1>2, <2>2, <3>1, RowsAfter
  <2>. QED BY <1>4, <2>1, <2>2, Invitee
<1>5. ASSUME NEW r \in Request, LinkCommit(r) PROVE P
  <2>1. PICK row : Writes(req[r].user, row)
    BY <1>5, Confirmed
  <2>2. CASE req[r].user = u
    BY <1>1, <1>5, <2>2 DEF LinksFollowed, LinkCommit, Has
  <2>3. CASE req[r].user # u
    BY <1>2, <2>1, <2>3, <1>5, Confirmed, RowsAfter DEF Rows
  <2>. QED BY <2>2, <2>3
<1>6. ASSUME NEW r \in Request, ChangeCommit(r) PROVE P
  <2>1. PICK row : /\ Writes(req[r].user, row)
                   /\ past' = past \cup Noted(req[r].user, row, req[r])
    BY <1>6, Changed
  <2>2. req[r].user \in Rows
    BY <1>6, Changed
  <2>3. CASE req[r].user = u
    <3>1. users'[u] = row
      BY <2>1, <2>3, RowsAfter
    <3>2. CASE ~users[u].verified
      <4>1. <<"vouched", u>> \in Noted(u, row, req[r])
        BY <3>1, <3>2 DEF Noted
      <4>. QED BY <2>1, <2>3, <4>1 DEF Has
    <3>. QED BY <2>2, <2>3, <3>2
  <2>4. CASE req[r].user # u
    BY <1>2, <2>1, <2>2, <2>4, RowsAfter DEF Rows
  <2>. QED BY <2>3, <2>4
<1>7. ASSUME NEW r \in Request, RemoveCommit(r) PROVE P
  <2>1. PICK row : /\ Writes(req[r].user, row)
                   /\ row.verified = users[req[r].user].verified
    BY <1>7, Removed
  <2>. QED BY <2>1, <1>2, <1>7, Removed, RowsAfter DEF Rows
<1>8. CASE ~\E r \in Request : CommitStep(r)
  BY <1>2, <1>8, OnlyCommits
<1>. QED BY <1>3, <1>4, <1>5, <1>6, <1>7, <1>8 DEF CommitStep

LEMMA ConfirmedStep ==
  TypeOK /\ PendingRows /\ LinksFollowed /\ ConfirmedByOwnLink /\ [Next]_vars => ConfirmedByOwnLink'
<1> SUFFICES ASSUME TypeOK, PendingRows, LinksFollowed, ConfirmedByOwnLink, [Next]_vars,
                    NEW u \in User,
                    u \in signedIn' \/ (u \in Rows' /\ users'[u].verified)
             PROVE  Has("followed", u)' \/ Has("vouched", u)'
  BY DEF ConfirmedByOwnLink
<1>1. past \subseteq past'
  BY PastGrows
<1>2. CASE u \in signedIn \/ (u \in Rows /\ users[u].verified)
  BY <1>1, <1>2 DEF ConfirmedByOwnLink, Has
<1>3. CASE u \in Rows' /\ users'[u].verified
  BY <1>2, <1>3, VerifiedStep
<1>4. CASE u \in signedIn' \ signedIn
  <2>1. CASE \E v \in User : Login(v)
    BY <1>2, <1>4, <2>1 DEF Login
  <2>2. CASE \E r \in Request : LinkCommit(r)
    BY <1>1, <1>4, <2>2 DEF LinkCommit, LinksFollowed, Has
  <2>. QED
    BY <1>4, <2>1, <2>2 DEF Next, CommitStep, RegisterCommit, InviteCommit, ChangeCommit, RemoveCommit,
      Register, Resend, SendMail, LinkLoad, Invite, Remove, Change, Fail, vars
<1>. QED BY <1>2, <1>3, <1>4

\* Nobody is confirmed or signed in before their own link was followed or their
\* staff vouched for them, whoever held the address before.
THEOREM ConfirmedByLink == Spec => []ConfirmedByOwnLink
<1>1. Init => TypeOK /\ PendingRows /\ LinksFollowed /\ ConfirmedByOwnLink
  BY AccountsAssumption
  DEF Init, TypeOK, PendingRows, Pending, Idle, LinksFollowed, ConfirmedByOwnLink, Rows
<1>. QED BY <1>1, TypeStep, PendingStep, FollowedStep, ConfirmedStep, PTL DEF Spec

-----------------------------------------------------------------------------
(* Links name rows *)

LEMMA LinksStep ==
  TypeOK /\ PendingRows /\ LinkNamesARow /\ [Next]_vars => LinkNamesARow'
<1> SUFFICES ASSUME TypeOK, PendingRows, LinkNamesARow, [Next]_vars,
                    NEW l \in queued' \cup mailed'
             PROVE  l.user \in Rows' /\ (users'[l.user].email = l.to \/ Has("removed", l.user)')
  BY DEF LinkNamesARow
<1> DEFINE P == l.user \in Rows' /\ (users'[l.user].email = l.to \/ Has("removed", l.user)')
<1>1. Rows \subseteq Rows' /\ past \subseteq past'
  BY RowsStay, PastGrows
<1>2. ASSUME l \in queued \cup mailed, users'[l.user].email = users[l.user].email PROVE P
  BY <1>1, <1>2 DEF LinkNamesARow, Has
<1>3. ASSUME NEW r \in Request, RegisterCommit(r) PROVE P
  <2>1. CASE UNCHANGED <<users, queued>>
    BY <1>2, <1>3, <2>1 DEF RegisterCommit
  <2>2. ASSUME NEW u \in User \ Rows, NEW t \in Tenant, Writes(u, Owner(t, req[r].email)),
               queued' = queued \cup {Link(u, req[r].email)}
        PROVE  P
    <3>1. CASE l \in queued \cup mailed
      <4>1. l.user \in Rows
        BY <3>1 DEF LinkNamesARow
      <4>2. users'[l.user] = users[l.user]
        BY <2>2, <4>1, RowsAfter DEF Rows
      <4>. QED BY <1>2, <3>1, <4>2
    <3>2. CASE l = Link(u, req[r].email)
      BY <2>2, <3>2, RowsAfter DEF Link, Owner
    <3>. QED BY <1>3, <2>2, <3>1, <3>2 DEF RegisterCommit
  <2>. QED BY <1>3, <2>1, <2>2, SignedUp
<1>4. ASSUME NEW r \in Request, InviteCommit(r) PROVE P
  <2>1. CASE UNCHANGED <<users, queued>>
    BY <1>2, <1>4, <2>1 DEF InviteCommit
  <2>2. ASSUME NEW u \in User \ Rows, Writes(u, req[r].row),
               queued' = queued \cup {Link(u, req[r].row.email)}
        PROVE  P
    <3>1. CASE l \in queued \cup mailed
      <4>1. l.user \in Rows
        BY <3>1 DEF LinkNamesARow
      <4>2. users'[l.user] = users[l.user]
        BY <2>2, <4>1, RowsAfter DEF Rows
      <4>. QED BY <1>2, <3>1, <4>2
    <3>2. CASE l = Link(u, req[r].row.email)
      BY <2>2, <3>2, RowsAfter DEF Link
    <3>. QED BY <1>4, <2>2, <3>1, <3>2 DEF InviteCommit
  <2>. QED BY <1>4, <2>1, <2>2, Invitee
<1>5. ASSUME NEW u \in Rows, NEW row, Writes(u, row),
             row.email = users[u].email \/ Has("removed", u)', UNCHANGED <<queued, mailed>>
      PROVE  P
  <2>1. l \in queued \cup mailed /\ l.user \in Rows
    BY <1>5 DEF LinkNamesARow
  <2>2. CASE l.user = u
    BY <1>1, <1>2, <1>5, <2>1, <2>2, RowsAfter DEF Rows
  <2>3. CASE l.user # u
    BY <1>2, <1>5, <2>1, <2>3, RowsAfter DEF Rows
  <2>. QED BY <2>2, <2>3
<1>6. ASSUME NEW r \in Request, LinkCommit(r) PROVE P
  <2>1. PICK row : /\ Writes(req[r].user, row)
                   /\ row.email = users[req[r].user].email
    BY <1>6, Confirmed
  <2>. QED BY <1>5, <1>6, <2>1, Confirmed DEF LinkCommit
<1>7. ASSUME NEW r \in Request, ChangeCommit(r) PROVE P
  <2>1. PICK row : /\ Writes(req[r].user, row)
                   /\ row.email = users[req[r].user].email
    BY <1>7, Changed
  <2>. QED BY <1>5, <1>7, <2>1, Changed DEF ChangeCommit
<1>8. ASSUME NEW r \in Request, RemoveCommit(r) PROVE P
  <2>1. PICK row : Writes(req[r].user, row)
    BY <1>8, Removed
  <2>2. <<"removed", req[r].user>> \in past'
    BY <1>8 DEF RemoveCommit, Happened
  <2>3. req[r].user \in Rows /\ UNCHANGED <<queued, mailed>>
    BY <1>8, Removed DEF RemoveCommit
  <2>. QED BY <1>5, <2>1, <2>2, <2>3 DEF Has
<1>9. ASSUME NEW e \in Address, Resend(e) PROVE P
  <2>1. PICK u \in Rows : queued' = queued \cup {Link(u, users[u].email)}
    BY <1>9 DEF Resend, Holder
  <2>2. CASE l = Link(u, users[u].email)
    BY <1>1, <1>9, <2>2 DEF Link, Resend
  <2>. QED BY <1>2, <1>9, <2>1, <2>2 DEF Resend
<1>10. ASSUME NEW k \in queued, SendMail(k) PROVE P
  BY <1>2, <1>10 DEF SendMail
<1>11. CASE UNCHANGED <<users, queued, mailed>>
  BY <1>2, <1>11
<1>. QED
  BY <1>3, <1>4, <1>6, <1>7, <1>8, <1>9, <1>10, <1>11
  DEF Next, CommitStep, Register, LinkLoad, Login, Invite, Remove, Change, Fail, vars

\* A link that leaves names a committed row of its address: a rolled-back sign-up
\* or invite mails nothing.
THEOREM LinksNameRows == Spec => []LinkNamesARow
<1>1. Init => TypeOK /\ PendingRows /\ LinkNamesARow
  BY AccountsAssumption DEF Init, TypeOK, PendingRows, Pending, Idle, LinkNamesARow
<1>. QED BY <1>1, TypeStep, PendingStep, LinksStep, PTL DEF Spec

-----------------------------------------------------------------------------
(* What was removed or confirmed is not brought back *)

StillConfirmed(u) == users[u].verified \/ Has("unvouched", u)

\* A removed person's row has no address; who is signed in, or was found
\* confirmed by a link under way, is confirmed or has been noted.
NothingStale ==
  /\ \A u \in User : Has("removed", u) => u \in Rows /\ users[u].email = None
  /\ \A u \in signedIn : u \in Rows /\ StillConfirmed(u)
  /\ \A r \in Request : req[r].op = "confirm" /\ req[r].seen => StillConfirmed(req[r].user)

\* A commit takes no address but of a removed person, and a confirmation only
\* where that is noted.
LEMMA KeptRow ==
  ASSUME TypeOK, PendingRows, [Next]_vars, NEW u \in Rows
  PROVE  /\ users'[u].email = users[u].email
            \/ (users'[u].email = None /\ <<"removed", u>> \in past')
         /\ users[u].email = None => users'[u].email = None
         /\ StillConfirmed(u) => StillConfirmed(u)'
<1> DEFINE P == /\ users'[u].email = users[u].email
                   \/ (users'[u].email = None /\ <<"removed", u>> \in past')
                /\ users[u].email = None => users'[u].email = None
                /\ StillConfirmed(u) => StillConfirmed(u)'
<1>1. u \in User /\ past \subseteq past'
  BY PastGrows DEF Rows
<1>2. CASE users'[u] = users[u]
  BY <1>1, <1>2 DEF StillConfirmed, Has
<1>3. ASSUME NEW r \in Request, RegisterCommit(r) PROVE users'[u] = users[u]
  BY <1>3, <1>1, SignedUp, RowsAfter
<1>4. ASSUME NEW r \in Request, InviteCommit(r) PROVE users'[u] = users[u]
  BY <1>4, <1>1, Invitee, RowsAfter
<1>5. ASSUME NEW r \in Request, LinkCommit(r) PROVE P
  <2>1. PICK row : /\ Writes(req[r].user, row)
                   /\ row.email = users[req[r].user].email
                   /\ row.verified = (users[req[r].user].verified \/ ~req[r].seen)
    BY <1>5, Confirmed
  <2>2. CASE req[r].user = u
    <3>1. users'[u] = row
      BY <1>1, <2>1, <2>2, RowsAfter
    <3>. QED BY <1>1, <2>1, <2>2, <3>1 DEF StillConfirmed, Has
  <2>3. CASE req[r].user # u
    BY <1>1, <1>2, <1>5, <2>1, <2>3, Confirmed, RowsAfter DEF Rows
  <2>. QED BY <2>2, <2>3
<1>6. ASSUME NEW r \in Request, ChangeCommit(r) PROVE P
  <2>1. PICK row : /\ Writes(req[r].user, row)
                   /\ row.email = users[req[r].user].email
                   /\ past' = past \cup Noted(req[r].user, row, req[r])
    BY <1>6, Changed
  <2>2. CASE req[r].user = u
    <3>1. users'[u] = row
      BY <1>1, <2>1, <2>2, RowsAfter
    <3>2. users[u].verified /\ ~row.verified => <<"unvouched", u>> \in past'
      BY <2>1, <2>2 DEF Noted
    <3>. QED BY <1>1, <2>1, <2>2, <3>1, <3>2 DEF StillConfirmed, Has
  <2>3. CASE req[r].user # u
    BY <1>1, <1>2, <1>6, <2>1, <2>3, Changed, RowsAfter DEF Rows
  <2>. QED BY <2>2, <2>3
<1>7. ASSUME NEW r \in Request, RemoveCommit(r) PROVE P
  <2>1. PICK row : /\ Writes(req[r].user, row)
                   /\ row.email = None
                   /\ row.verified = users[req[r].user].verified
    BY <1>7, Removed
  <2>2. <<"removed", req[r].user>> \in past'
    BY <1>7 DEF RemoveCommit, Happened
  <2>3. CASE req[r].user = u
    <3>1. users'[u] = row
      BY <1>1, <2>1, <2>3, RowsAfter
    <3>. QED BY <1>1, <2>1, <2>2, <2>3, <3>1 DEF StillConfirmed, Has
  <2>4. CASE req[r].user # u
    BY <1>1, <1>2, <1>7, <2>1, <2>4, Removed, RowsAfter DEF Rows
  <2>. QED BY <2>3, <2>4
<1>8. CASE ~\E r \in Request : CommitStep(r)
  BY <1>2, <1>8, OnlyCommits
<1>. QED BY <1>2, <1>3, <1>4, <1>5, <1>6, <1>7, <1>8 DEF CommitStep

LEMMA StaleStep == TypeOK /\ PendingRows /\ NothingStale /\ [Next]_vars => NothingStale'
<1> SUFFICES ASSUME TypeOK, PendingRows, NothingStale, [Next]_vars PROVE NothingStale'
  OBVIOUS
<1>1. Rows \subseteq Rows' /\ past \subseteq past'
  BY RowsStay, PastGrows
<1>2. ASSUME NEW u \in User, Has("removed", u)' PROVE u \in Rows' /\ users'[u].email = None
  <2>1. CASE Has("removed", u)
    BY <1>1, <2>1, KeptRow DEF NothingStale
  <2>2. CASE ~Has("removed", u)
    <3>1. PICK r \in Request : RemoveCommit(r) /\ req[r].user = u
      BY <1>2, <2>2, NewEvent DEF Has
    <3>2. PICK row : Writes(u, row) /\ row.email = None
      BY <3>1, Removed
    <3>. QED BY <3>2, RowsAfter
  <2>. QED BY <2>1, <2>2
<1>3. ASSUME NEW u \in signedIn' PROVE u \in Rows' /\ StillConfirmed(u)'
  <2>1. CASE u \in signedIn
    BY <1>1, <2>1, KeptRow DEF NothingStale
  <2>2. CASE \E v \in User : Login(v) /\ u = v
    BY <1>1, <2>2 DEF Login, StillConfirmed, Rows
  <2>3. ASSUME NEW r \in Request, LinkCommit(r), u = req[r].user
        PROVE  u \in Rows' /\ StillConfirmed(u)'
    <3>1. PICK row : /\ Writes(u, row)
                     /\ row.verified = (users[u].verified \/ ~req[r].seen)
      BY <2>3, Confirmed
    <3>2. u \in Rows /\ users'[u] = row
      BY <2>3, <3>1, Confirmed, RowsAfter DEF Rows
    <3>3. req[r].op = "confirm" /\ (req[r].seen => StillConfirmed(u))
      BY <2>3 DEF LinkCommit, NothingStale
    <3>. QED BY <1>1, <3>1, <3>2, <3>3, KeptRow DEF StillConfirmed
  <2>. QED
    BY <2>1, <2>2, <2>3 DEF Next, CommitStep, LinkCommit, RegisterCommit, InviteCommit, ChangeCommit,
      RemoveCommit, Register, Resend, SendMail, LinkLoad, Login, Invite, Remove, Change, Fail, vars
<1>4. ASSUME NEW r \in Request, req'[r].op = "confirm", req'[r].seen
      PROVE  users'[req'[r].user].verified \/ <<"unvouched", req'[r].user>> \in past'
  <2>1. CASE req'[r] = req[r]
    BY <1>4, <2>1, KeptRow DEF NothingStale, PendingRows, StillConfirmed, Has
  <2>2. ASSUME NEW l \in mailed, LinkLoad(r, l),
               req'[r] = [op |-> "confirm", user |-> l.user, seen |-> users[l.user].verified]
        PROVE  users'[req'[r].user].verified \/ <<"unvouched", req'[r].user>> \in past'
    BY <1>4, <2>2 DEF LinkLoad, StillConfirmed
  <2>. QED BY <1>4, <2>1, <2>2, Waits DEF Idle
<1>. QED BY <1>2, <1>3, <1>4 DEF NothingStale, StillConfirmed, Has

\* A removed person's address stays free, and who is signed in stays confirmed,
\* whichever copies of a row are written back late.
THEOREM NoStaleWrites == Spec => []NoStaleWrite
<1>1. Init => TypeOK /\ PendingRows /\ NothingStale
  BY AccountsAssumption
  DEF Init, TypeOK, PendingRows, Pending, Idle, NothingStale, Has
<1>2. NothingStale => NoStaleWrite
  BY DEF NothingStale, NoStaleWrite, StillConfirmed, Rows
<1>. QED BY <1>1, <1>2, TypeStep, PendingStep, StaleStep, PTL DEF Spec

-----------------------------------------------------------------------------
(* One sign-up for an address *)

\* The unique index; and sign-ups store addresses in lower case, which Lower
\* leaves as they are.
Addressed ==
  /\ \A u, v \in Rows : users[u].email # None /\ users[u].email = users[v].email => u = v
  /\ \A u \in User : Has("signedUp", u) =>
       /\ u \in Rows
       /\ users[u].email # None => Lower[users[u].email] = users[u].email
  /\ \A r \in Request : req[r].op = "register" => Lower[req[r].email] = req[r].email

LEMMA AddressStep == TypeOK /\ PendingRows /\ Addressed /\ [Next]_vars => Addressed'
<1> SUFFICES ASSUME TypeOK, PendingRows, Addressed, [Next]_vars PROVE Addressed'
  OBVIOUS
<1>1. /\ Rows \subseteq Rows' /\ past \subseteq past'
      /\ \A u \in Rows : users'[u].email \in {users[u].email, None}
  BY RowsStay, PastGrows, KeptRow
<1>2. ASSUME NEW u \in Rows' \ Rows
      PROVE  \A v \in Rows' : users'[v].email = users'[u].email => v = u
  <2>1. ASSUME NEW r \in Request, NEW row, NEW w \in User \ Rows, Writes(w, row),
               Holder(row.email) = {}
        PROVE  \A v \in Rows' : users'[v].email = users'[u].email => v = u
    <3>1. w = u /\ users'[u] = row /\ \A v \in Rows' \ {u} : v \in Rows /\ users'[v] = users[v]
      BY <1>2, <2>1, RowsAfter DEF Rows
    <3>. QED BY <2>1, <3>1 DEF Holder
  <2>2. ASSUME NEW r \in Request, RegisterCommit(r)
        PROVE  \A v \in Rows' : users'[v].email = users'[u].email => v = u
    <3>1. ~UNCHANGED users
      BY <1>2 DEF Rows
    <3>2. PICK t \in Tenant, w \in User \ Rows :
             /\ Writes(w, Owner(t, req[r].email))
             /\ Holder(req[r].email) = {}
      BY <2>2, <3>1, SignedUp
    <3>3. Holder(Owner(t, req[r].email).email) = {}
      BY <3>2 DEF Owner
    <3>. QED BY <2>1, <2>2, <3>2, <3>3
  <2>3. ASSUME NEW r \in Request, InviteCommit(r)
        PROVE  \A v \in Rows' : users'[v].email = users'[u].email => v = u
    <3>1. ~UNCHANGED users
      BY <1>2 DEF Rows
    <3>2. Holder(req[r].row.email) = {}
      BY <2>3, <3>1 DEF InviteCommit
    <3>. QED BY <2>1, <2>3, <3>1, <3>2, Invitee
  <2>4. ASSUME NEW r \in Request, NEW w \in Rows, NEW row, Writes(w, row)
        PROVE  FALSE
    BY <1>2, <2>4, RowsAfter DEF Rows
  <2>5. ASSUME NEW r \in Request, LinkCommit(r) \/ ChangeCommit(r) \/ RemoveCommit(r) PROVE FALSE
    BY <2>4, <2>5, Confirmed, Changed, Removed
  <2>6. CASE ~\E r \in Request : CommitStep(r)
    BY <1>2, <2>6, OnlyCommits DEF Rows
  <2>. QED BY <2>2, <2>3, <2>5, <2>6 DEF CommitStep
<1>3. ASSUME NEW u \in Rows', NEW v \in Rows', users'[u].email # None,
             users'[u].email = users'[v].email
      PROVE  u = v
  <2>1. CASE u \in Rows /\ v \in Rows
    BY <1>1, <1>3, <2>1 DEF Addressed
  <2>2. CASE u \notin Rows \/ v \notin Rows
    BY <1>2, <1>3, <2>2
  <2>. QED BY <2>1, <2>2
<1>4. ASSUME NEW u \in User, Has("signedUp", u)'
      PROVE  u \in Rows' /\ (users'[u].email # None => Lower[users'[u].email] = users'[u].email)
  <2>1. CASE Has("signedUp", u)
    BY <1>1, <2>1 DEF Addressed
  <2>2. CASE ~Has("signedUp", u)
    <3>1. PICK r \in Request : RegisterCommit(r) /\ ~UNCHANGED past
      BY <1>4, <2>2, NewEvent DEF Has
    <3>2. PICK t \in Tenant, w \in User \ Rows :
             /\ Writes(w, Owner(t, req[r].email))
             /\ past' = past \cup {<<"signedUp", w>>}
      BY <3>1, SignedUp
    <3>3. w = u
      BY <1>4, <2>2, <3>2 DEF Has
    <3>4. Lower[req[r].email] = req[r].email
      BY <3>1 DEF RegisterCommit, Addressed
    <3>. QED BY <3>2, <3>3, <3>4, RowsAfter DEF Owner
  <2>. QED BY <2>1, <2>2
<1>5. ASSUME NEW r \in Request, req'[r].op = "register" PROVE Lower[req'[r].email] = req'[r].email
  <2>1. CASE req'[r] = req[r]
    BY <1>5, <2>1 DEF Addressed
  <2>2. CASE \E e \in Address : Register(r, e)
    BY <2>2, AccountsAssumption DEF Register, Open, SignUpAddress, TypeOK
  <2>3. CASE req'[r] # req[r] /\ ~\E e \in Address : Register(r, e)
    <3>1. ASSUME NEW q \in Request, NEW e \in Address, Register(q, e) PROVE FALSE
      BY <2>3, <3>1 DEF Register, Open, TypeOK
    <3>2. ASSUME NEW q \in Request, CommitStep(q) \/ Fail(q) PROVE req'[r] \in {req[r], Idle}
      BY <3>2 DEF CommitStep, RegisterCommit, LinkCommit, InviteCommit, ChangeCommit, RemoveCommit, Fail,
                  Close, TypeOK
    <3>3. ASSUME NEW q \in Request, NEW a \in User, NEW e \in Address, NEW role \in Invited,
                 Invite(q, a, e, role)
          PROVE  req'[r] = req[r] \/ req'[r].op = "invite"
      BY <3>3 DEF Invite, Open, TypeOK
    <3>4. ASSUME NEW q \in Request, NEW a \in User, NEW u \in User, NEW body \in Body,
                 Change(q, a, u, body)
          PROVE  req'[r] = req[r] \/ req'[r].op = "change"
      BY <3>4 DEF Change, Open, TypeOK
    <3>5. ASSUME NEW q \in Request, NEW l \in mailed, LinkLoad(q, l)
          PROVE  req'[r] = req[r] \/ req'[r].op = "confirm"
      BY <3>5 DEF LinkLoad, Open, TypeOK
    <3>6. ASSUME NEW q \in Request, NEW a \in User, NEW u \in User, Remove(q, a, u)
          PROVE  req'[r] = req[r] \/ req'[r].op = "remove"
      BY <3>6 DEF Remove, Open, TypeOK
    <3>. QED
      BY <1>5, <2>3, <3>1, <3>2, <3>3, <3>4, <3>5, <3>6 DEF Next, Resend, SendMail, Login, Idle, vars
  <2>. QED BY <2>1, <2>2, <2>3
<1>. QED BY <1>3, <1>4, <1>5 DEF Addressed

\* Nobody signs up twice with one address, however it is typed and whichever
\* sign-ups race.
THEOREM OneSignUp == Spec => []SignedUpOnce
<1>1. Init => TypeOK /\ PendingRows /\ Addressed
  BY AccountsAssumption
  DEF Init, TypeOK, PendingRows, Pending, Idle, Addressed, Has, Rows
<1>2. Addressed => SignedUpOnce
  BY DEF Addressed, SignedUpOnce, Rows
<1>. QED BY <1>1, <1>2, TypeStep, PendingStep, AddressStep, PTL DEF Spec
=============================================================================
