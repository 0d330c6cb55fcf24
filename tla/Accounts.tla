------------------------------ MODULE Accounts ------------------------------
(***************************************************************************)
(* Workspaces and the people in them: sign-up, the confirmation of an      *)
(* address by a mailed link, sign-in, and the staff an owner or admin      *)
(* invites, changes and removes (app/api/v1/auth.py, users.py,             *)
(* app/core/tenant.py).                                                    *)
(*                                                                         *)
(* A request loads what it decides on and commits later; between the two   *)
(* other requests commit.  The unique index on users.email decides at the  *)
(* commit.  Mails leave after the response, from memory.                   *)
(***************************************************************************)
EXTENDS Naturals, FiniteSets

CONSTANTS
  User, Tenant,  \* ids the database may give
  Address,       \* addresses as people type them
  Lower,         \* [Address -> Address], str.lower
  Invited,       \* roles people are invited with
  Body,          \* bodies of PATCH /users/{id}
  Request,       \* requests at a time
  MaxEdits,      \* bound: PATCH and DELETE requests on people
  None           \* no row, an unset field, the address of a removed user

Role == {"owner", "admin", "agent"}
Status == {"active", "inactive", "deleted"}

\* users; the password only as present or not
UserRow == [tenant : Tenant, email : Address \cup {None}, roles : SUBSET Role,
            status : Status, verified : BOOLEAN, password : BOOLEAN]

UserUpdate == [role : Role \cup {None}, status : {"active", "inactive", None},
               verified : BOOLEAN \cup {None}, password : BOOLEAN]

ASSUME AccountsAssumption ==
  /\ Lower \in [Address -> Address] /\ \A e \in Address : Lower[Lower[e]] = Lower[e]
  /\ Invited \subseteq Role /\ Body \subseteq UserUpdate
  /\ MaxEdits \in Nat
  /\ None \notin UserRow \cup Address \cup Role \cup Status \cup BOOLEAN

VARIABLES
  users,    \* the table, by id
  tenants,  \* the ids in the tenants table
  req,      \* requests under way: what they loaded
  queued,   \* mails a server process has still to send
  mailed,   \* mails that went out
  signedIn, \* people who got a session
  past,     \* what has happened, for the properties
  edits     \* budget used up

vars == <<users, tenants, req, queued, mailed, signedIn, past, edits>>

-----------------------------------------------------------------------------
(* Types *)

Idle == [op |-> "idle"]

\* A link carries the user's id and goes to the address of the row.
Mail == [to : Address \cup {None}, user : User]

Pending ==
  {Idle}
  \cup [op : {"register"}, email : Address]
  \cup [op : {"invite"}, row : UserRow]
  \cup [op : {"change"}, user : User, seen : UserRow, body : Body]
  \cup [op : {"remove"}, user : User]
  \cup [op : {"confirm"}, user : User, seen : BOOLEAN]

Event == {"followed", "vouched", "unvouched", "removed", "signedUp"} \X User
           \cup {"demoted"} \X Tenant

TypeOK ==
  /\ users \in [User -> UserRow \cup {None}]
  /\ tenants \subseteq Tenant
  /\ req \in [Request -> Pending]
  /\ queued \subseteq Mail /\ mailed \subseteq Mail
  /\ signedIn \subseteq User
  /\ past \subseteq Event
  /\ edits \in Nat

\* A new deployment.
Init ==
  /\ users = [u \in User |-> None]
  /\ tenants = {}
  /\ req = [r \in Request |-> Idle]
  /\ queued = {} /\ mailed = {}
  /\ signedIn = {}
  /\ past = {} /\ edits = 0

-----------------------------------------------------------------------------
(* What the code reads *)

Rows == {u \in User : users[u] # None}

\* SELECT ... WHERE users.email = e
Holder(e) == {u \in Rows : users[u].email = e}

Happened(e) == past' = past \cup e

\* get_current_user, get_current_tenant
Active(u) == u \in signedIn /\ u \in Rows /\ users[u].status = "active"

\* require_role("owner", "admin")
MayManage(u) == Active(u) /\ users[u].roles \cap {"owner", "admin"} # {}

Open(r, pending) == req[r] = Idle /\ req' = [req EXCEPT ![r] = pending]
Close(r) == req' = [req EXCEPT ![r] = Idle]

\* _queue_verification, or the staff invite
Link(u, e) == [to |-> e, user |-> u]

-----------------------------------------------------------------------------
(* Signing up *)

\* Mutant: the address as it was typed.
SignUpAddressAsTyped(e) == e

\* register: the address in lower case
SignUpAddress(e) == Lower[e]

\* register, the address is free;
Register(r, typed) ==
  /\ Holder(SignUpAddress(typed)) = {}
  /\ Open(r, [op |-> "register", email |-> SignUpAddress(typed)])
  /\ UNCHANGED <<users, tenants, queued, mailed, signedIn, past, edits>>

\* or it is that of someone who has not confirmed it, who gets another link,
\* as from resend_verification (where they must be active).
Resend(typed) ==
  /\ \E u \in Holder(SignUpAddress(typed)) :
       /\ ~users[u].verified
       /\ queued' = queued \cup {Link(u, users[u].email)}
  /\ UNCHANGED <<users, tenants, req, mailed, signedIn, past, edits>>

Owner(t, e) == [tenant |-> t, email |-> e, roles |-> {"owner"}, status |-> "active",
                verified |-> FALSE, password |-> TRUE]

\* Mutant: the tenant is committed before the owner.
RegisterTenantFirst(r) ==
  /\ req[r].op = "register"
  /\ \E t \in Tenant \ tenants :
       /\ tenants' = tenants \cup {t}
       /\ \/ /\ Holder(req[r].email) # {}
             /\ UNCHANGED <<users, queued, past>>
          \/ /\ Holder(req[r].email) = {}
             /\ \E u \in User \ Rows :
                  /\ users' = [users EXCEPT ![u] = Owner(t, req[r].email)]
                  /\ queued' = queued \cup {Link(u, req[r].email)}
                  /\ Happened({<<"signedUp", u>>})
  /\ Close(r)
  /\ UNCHANGED <<mailed, signedIn, edits>>

\* The tenant and its owner are committed in one transaction, unless the address
\* was taken meanwhile: then both are rolled back.
RegisterCommit(r) ==
  /\ req[r].op = "register"
  /\ \/ /\ Holder(req[r].email) # {}
        /\ UNCHANGED <<users, tenants, queued, past>>
     \/ /\ Holder(req[r].email) = {}
        /\ \E t \in Tenant \ tenants, u \in User \ Rows :
             /\ tenants' = tenants \cup {t}
             /\ users' = [users EXCEPT ![u] = Owner(t, req[r].email)]
             /\ queued' = queued \cup {Link(u, req[r].email)}
             /\ Happened({<<"signedUp", u>>})
  /\ Close(r)
  /\ UNCHANGED <<mailed, signedIn, edits>>

\* send_verification_email, send_staff_invite_email: the mail goes out.  (If SMTP
\* fails that is logged, and nobody follows the link.)
SendMail(l) ==
  /\ l \in queued
  /\ queued' = queued \ {l}
  /\ mailed' = mailed \cup {l}
  /\ UNCHANGED <<users, tenants, req, signedIn, past, edits>>

\* Mutant: the link names the address, whoever has it now.
LinkLoadByAddress(r, l) ==
  /\ l \in mailed
  /\ \E u \in Holder(l.to) :
       /\ users[u].status = "active"
       /\ Open(r, [op |-> "confirm", user |-> u, seen |-> users[u].verified])
       /\ Happened({<<"followed", l.user>>})
  /\ UNCHANGED <<users, tenants, queued, mailed, signedIn, edits>>

\* verify_email: someone follows a link they got, which has not expired;
LinkLoad(r, l) ==
  /\ l \in mailed
  /\ l.user \in Rows /\ users[l.user].status = "active"
  /\ Open(r, [op |-> "confirm", user |-> l.user, seen |-> users[l.user].verified])
  /\ Happened({<<"followed", l.user>>})
  /\ UNCHANGED <<users, tenants, queued, mailed, signedIn, edits>>

\* they are confirmed, if they were not when loaded, and signed in.
LinkCommit(r) ==
  /\ req[r].op = "confirm"
  /\ users' = [users EXCEPT ![req[r].user].verified = @ \/ ~req[r].seen]
  /\ signedIn' = signedIn \cup {req[r].user}
  /\ Close(r)
  /\ UNCHANGED <<tenants, queued, mailed, past, edits>>

\* login, with the right password; refresh keeps the session going.  (After a
\* logout, or when the tokens have expired, the session is not used any more.)
Login(u) ==
  /\ u \in Rows \ signedIn
  /\ users[u].email # None /\ users[u].password
  /\ users[u].status = "active" /\ users[u].verified
  /\ signedIn' = signedIn \cup {u}
  /\ UNCHANGED <<users, tenants, req, queued, mailed, past, edits>>

-----------------------------------------------------------------------------
(* Staff *)

\* create_user: an owner or admin names an address and a role; the address is
\* not put in lower case.
Invite(r, a, e, role) ==
  /\ MayManage(a)
  /\ Open(r, [op |-> "invite",
              row |-> [tenant |-> users[a].tenant, email |-> e, roles |-> {role}, status |-> "active",
                       verified |-> FALSE, password |-> TRUE]])
  /\ UNCHANGED <<users, tenants, queued, mailed, signedIn, past, edits>>

\* Mutant: the invite is mailed for an address that is taken too.
InviteCommitAnyway(r) ==
  /\ req[r].op = "invite"
  /\ \E u \in User \ Rows :
       /\ \/ /\ Holder(req[r].row.email) # {}
             /\ UNCHANGED users
          \/ /\ Holder(req[r].row.email) = {}
             /\ users' = [users EXCEPT ![u] = req[r].row]
       /\ queued' = queued \cup {Link(u, req[r].row.email)}
  /\ Close(r)
  /\ UNCHANGED <<tenants, mailed, signedIn, past, edits>>

\* The row, its audit entry and its notification are committed, and an invite is
\* queued; or the flush finds the address taken.
InviteCommit(r) ==
  /\ req[r].op = "invite"
  /\ \/ /\ Holder(req[r].row.email) # {}
        /\ UNCHANGED <<users, queued>>
     \/ /\ Holder(req[r].row.email) = {}
        /\ \E u \in User \ Rows :
             /\ users' = [users EXCEPT ![u] = req[r].row]
             /\ queued' = queued \cup {Link(u, req[r].row.email)}
  /\ Close(r)
  /\ UNCHANGED <<tenants, mailed, signedIn, past, edits>>

\* update_user: the row is loaded, a removed one too; only an owner may change an
\* owner.
Change(r, a, u, body) ==
  /\ MayManage(a)
  /\ u \in Rows /\ users[u].tenant = users[a].tenant
  /\ "owner" \in users[u].roles => "owner" \in users[a].roles
  /\ Open(r, [op |-> "change", user |-> u, seen |-> users[u], body |-> body])
  /\ edits < MaxEdits /\ edits' = edits + 1
  /\ UNCHANGED <<users, tenants, queued, mailed, signedIn, past>>

\* Mutant: a field the body leaves out is written too.
WrittenUnset(now, seen, wanted) == wanted

\* A field the body sets is written if it differs from what was loaded.
Written(now, seen, wanted) == IF wanted = None \/ wanted = seen THEN now ELSE wanted

\* user_roles is written as the difference to what was loaded.
WrittenRoles(now, seen, role) ==
  IF role = None THEN now ELSE (now \ (seen \ {role})) \cup ({role} \ seen)

\* Mutant: the row is written back as it was loaded.
MergedWhole(now, c) ==
  [c.seen EXCEPT !.roles = WrittenRoles(c.seen.roles, c.seen.roles, c.body.role),
                 !.status = Written(c.seen.status, c.seen.status, c.body.status),
                 !.verified = Written(c.seen.verified, c.seen.verified, c.body.verified),
                 !.password = c.seen.password \/ c.body.password]

\* The row after the UPDATE.
Merged(now, c) ==
  [now EXCEPT !.roles = WrittenRoles(now.roles, c.seen.roles, c.body.role),
              !.status = Written(now.status, c.seen.status, c.body.status),
              !.verified = Written(now.verified, c.seen.verified, c.body.verified),
              !.password = now.password \/ c.body.password]

\* What the properties need to know of a change.
Noted(u, row, c) ==
  {<<"vouched", u>> : x \in {y \in {1} : row.verified /\ ~users[u].verified}}
  \cup {<<"unvouched", u>> : x \in {y \in {1} : ~row.verified /\ users[u].verified}}
  \cup {<<"demoted", row.tenant>> : x \in {y \in {1} : "owner" \in users[u].roles \ row.roles}}

ChangeCommit(r) ==
  /\ req[r].op = "change"
  /\ LET c == req[r]
         row == Merged(users[c.user], c)
     IN  /\ users' = [users EXCEPT ![c.user] = row]
         /\ Happened(Noted(c.user, row, c))
  /\ Close(r)
  /\ UNCHANGED <<tenants, queued, mailed, signedIn, edits>>

\* delete_user: not oneself, not an owner, not twice.
Remove(r, a, u) ==
  /\ MayManage(a)
  /\ u \in Rows \ {a} /\ users[u].tenant = users[a].tenant
  /\ users[u].status # "deleted" /\ "owner" \notin users[u].roles
  /\ Open(r, [op |-> "remove", user |-> u])
  /\ edits < MaxEdits /\ edits' = edits + 1
  /\ UNCHANGED <<users, tenants, queued, mailed, signedIn, past>>

\* The row stays; the password goes and the address is freed.
RemoveCommit(r) ==
  /\ req[r].op = "remove"
  /\ users' = [users EXCEPT ![req[r].user].status = "deleted", ![req[r].user].password = FALSE,
                            ![req[r].user].email = None]
  /\ Happened({<<"removed", req[r].user>>})
  /\ Close(r)
  /\ UNCHANGED <<tenants, queued, mailed, signedIn, edits>>

-----------------------------------------------------------------------------

\* A request fails: the database does, or the roles it rewrites have changed.
Fail(r) ==
  /\ req[r] # Idle
  /\ Close(r)
  /\ UNCHANGED <<users, tenants, queued, mailed, signedIn, past, edits>>

CommitStep(r) ==
  \/ RegisterCommit(r) \/ LinkCommit(r) \/ InviteCommit(r)
  \/ ChangeCommit(r) \/ RemoveCommit(r)

Next ==
  \/ \E r \in Request, e \in Address : Register(r, e)
  \/ \E e \in Address : Resend(e)
  \/ \E l \in queued : SendMail(l)
  \/ \E r \in Request, l \in mailed : LinkLoad(r, l)
  \/ \E u \in User : Login(u)
  \/ \E r \in Request, a \in User :
       \/ \E e \in Address, role \in Invited : Invite(r, a, e, role)
       \/ \E u \in User : Remove(r, a, u) \/ \E body \in Body : Change(r, a, u, body)
  \/ \E r \in Request : CommitStep(r) \/ Fail(r)

Spec == Init /\ [][Next]_vars

-----------------------------------------------------------------------------
(* Properties *)

Has(kind, id) == <<kind, id>> \in past

\* Every workspace has an owner who is not removed, whatever sign-ups race for an
\* address and whoever removes whom at the same time, as long as no owner was
\* made something else.
WorkspaceHasOwner ==
  \A t \in tenants :
    Has("demoted", t) \/ \E u \in Rows : /\ users[u].tenant = t
                                         /\ "owner" \in users[u].roles
                                         /\ users[u].status # "deleted"

\* Nobody is confirmed, or signed in, before the link of their own row was
\* followed or their staff vouched for them: also when an address was freed and
\* given to someone else, whose link is then another one.
ConfirmedByOwnLink ==
  \A u \in User :
    u \in signedIn \/ (u \in Rows /\ users[u].verified)
    => Has("followed", u) \/ Has("vouched", u)

\* A removed person's address stays free for others, and a confirmed address
\* stays confirmed, whatever changes to the row were under way.
NoStaleWrite ==
  \A u \in Rows :
    /\ Has("removed", u) => users[u].email = None
    /\ u \in signedIn => users[u].verified \/ Has("unvouched", u)

\* A link that is queued or mailed names a committed row of the address it goes
\* to, unless that row was removed.
LinkNamesARow ==
  \A l \in queued \cup mailed :
    l.user \in Rows /\ (users[l.user].email = l.to \/ Has("removed", l.user))

\* Nobody signs up twice with one address, however it is spelled.
SignedUpOnce ==
  \A u, v \in Rows :
    /\ Has("signedUp", u) /\ Has("signedUp", v)
    /\ users[u].email # None /\ users[v].email # None
    /\ Lower[users[u].email] = Lower[users[v].email]
    => u = v
=============================================================================
