-------------------------- MODULE UserProvisioning --------------------------
(***************************************************************************)
(* UserProvisioningService: every authenticated request brings its Firebase *)
(* user into the table users, finding, relinking or creating the row, and  *)
(* makes the configured administrator a platform admin with a workspace of *)
(* its own.  At the grain of its SQL statements, READ COMMITTED; WorkspaceMembers *)
(* adds the requests that change memberships meanwhile.                    *)
(*                                                                         *)
(* The name and the verified flag a row keeps change nothing else and are  *)
(* left out.  Firebase is what hands out the tokens.                       *)
(***************************************************************************)

CONSTANTS
    User,           \* identifiers of rows of users
    Workspace,
    Profile,        \* ADMIN and the others
    Token,          \* the verified tokens: uid, e-mail, is the e-mail verified?
    AdminEmail,     \* the addresses configured, over time, for the bootstrap
    SignIn,         \* requests being provisioned at the same time
    NoOne           \* no user

Uid     == {t.uid : t \in Token}
Email   == {t.email : t \in Token}
Account == [uid : Uid, email : Email]

NoAccount == [uid |-> "none", email |-> "none"]
Pending   == [workspace |-> "none", profile |-> "none"]
Member    == [workspace : Workspace, profile : Profile]

ASSUME UserProvisioningAssumption ==
    /\ "ADMIN" \in Profile
    /\ "none" \notin Workspace \cup Profile \cup Uid \cup Email
    /\ \A t \in Token : t = [uid |-> t.uid, email |-> t.email, verified |-> t.verified]
    /\ \A t \in Token : t.verified \in BOOLEAN
    /\ NoOne \notin User

VARIABLES
    account,        \* the rows of users, committed
    platformAdmin,  \* the users with is_platform_admin, committed
    member,         \* the membership of each user, committed
    workspaces,     \* the rows of workspaces, committed
    signIn          \* the transaction of each request being provisioned

tables == <<account, platformAdmin, member, workspaces>>

(* draft is what a transaction wrote on the row of its user and promoted   *)
(* that it set is_platform_admin; admin is the flag it read.  A refused    *)
(* request keeps the token it came with.                                   *)
Provisioning ==
    [pc : {"idle", "find", "email", "create", "relink", "refresh", "promote", "exists",
           "insert", "commit", "refused"},
     token : Token \cup {NoAccount}, user : User \cup {NoOne}, admin : BOOLEAN,
     draft : Account \cup {NoAccount}, promoted : BOOLEAN, retried : BOOLEAN]

NotSigningIn ==
    [pc |-> "idle", token |-> NoAccount, user |-> NoOne, admin |-> FALSE,
     draft |-> NoAccount, promoted |-> FALSE, retried |-> FALSE]

Writing(q) == signIn[q].draft # NoAccount \/ signIn[q].promoted

(* The two unique constraints of users. *)
Clash(x, y) == x.uid = y.uid \/ x.email = y.email

(* Somebody else's uncommitted row is in the way of writing x on user u. *)
Waits(s, u, x) ==
    \E q \in SignIn \ {s} : Writing(q) /\
        \/ signIn[q].user = u
        \/ Clash(signIn[q].draft, x)
        \/ Clash(account[signIn[q].user], x)

-----------------------------------------------------------------------------
Init ==
    /\ account = [u \in User |-> NoAccount]
    /\ platformAdmin = {}
    /\ member = [u \in User |-> Pending]
    /\ workspaces = {}
    /\ signIn = [s \in SignIn |-> NotSigningIn]

(* isBootstrapAdmin decides what comes after the row of the user. *)
AfterUser(t) == IF t.verified /\ t.email \in AdminEmail THEN "promote" ELSE "commit"

Continue(s, changes) ==
    /\ signIn' = [signIn EXCEPT ![s] = changes]
    /\ UNCHANGED tables

Refuse(s) == Continue(s, [NotSigningIn EXCEPT !.pc = "refused", !.token = signIn[s].token])

(* A violation of uq_users_firebase_uid starts over, once. *)
Retry(s) ==
    IF signIn[s].retried THEN Refuse(s)
    ELSE Continue(s, [NotSigningIn EXCEPT !.pc = "find", !.token = signIn[s].token,
                                          !.retried = TRUE])

(* provision: a request arrives. *)
Arrive(s, t) ==
    /\ signIn[s].pc \in {"idle", "refused"}
    /\ Continue(s, [NotSigningIn EXCEPT !.pc = "find", !.token = t])

(* runInTransaction: SELECT by uid. *)
FindByUid(s) ==
    LET t     == signIn[s].token
        found == {u \in User : account[u].uid = t.uid} IN
    /\ signIn[s].pc = "find"
    /\ \/ found = {} /\ Continue(s, [signIn[s] EXCEPT !.pc = "email"])
       \/ \E u \in found :
            Continue(s, [signIn[s] EXCEPT
              !.user = u, !.admin = u \in platformAdmin,
              !.pc = IF account[u].email # t.email THEN "refresh" ELSE AfterUser(t)])

(* relinkOrCreate: SELECT by e-mail, in a snapshot of its own; only a      *)
(* verified address takes the row it finds.                                *)
FindByEmail(s) ==
    LET t     == signIn[s].token
        found == {u \in User : account[u].email = t.email} IN
    /\ signIn[s].pc = "email"
    /\ \/ found = {} /\ Continue(s, [signIn[s] EXCEPT !.pc = "create"])
       \/ found # {} /\ ~t.verified /\ Refuse(s)
       \/ \E u \in found :
            t.verified /\ Continue(s, [signIn[s] EXCEPT
                            !.user = u, !.admin = u \in platformAdmin, !.pc = "relink"])

(* INSERT or UPDATE of the row of user u, which is to become x. *)
WriteAccount(s, u, x) ==
    LET others == User \ {u} IN
    /\ ~Waits(s, u, x)
    /\ \/ \E o \in others : account[o].uid = x.uid /\ Retry(s)
       \/ /\ \A o \in others : account[o].uid # x.uid
          /\ \E o \in others : account[o].email = x.email
          /\ Refuse(s)
       \/ /\ \A o \in others : ~Clash(account[o], x)
          /\ Continue(s, [signIn[s] EXCEPT !.user = u, !.draft = x,
                                           !.pc = AfterUser(signIn[s].token)])

New(u) == account[u] = NoAccount /\ \A q \in SignIn : signIn[q].user # u

(* Mutant of Create: whoever loses the race is refused. *)
CreateOnce(s) ==
    LET x == [uid |-> signIn[s].token.uid, email |-> signIn[s].token.email] IN
    /\ signIn[s].pc = "create"
    /\ \E u \in User :
        /\ New(u)
        /\ IF \E o \in User : Clash(account[o], x) THEN Refuse(s) ELSE WriteAccount(s, u, x)

Create(s) ==
    /\ signIn[s].pc = "create"
    /\ \E u \in User :
        /\ New(u)
        /\ WriteAccount(s, u, [uid |-> signIn[s].token.uid, email |-> signIn[s].token.email])

Relink(s) ==
    /\ signIn[s].pc = "relink"
    /\ WriteAccount(s, signIn[s].user, [account[signIn[s].user] EXCEPT !.uid = signIn[s].token.uid])

Refresh(s) ==
    /\ signIn[s].pc = "refresh"
    /\ WriteAccount(s, signIn[s].user,
                    [account[signIn[s].user] EXCEPT !.email = signIn[s].token.email])

-----------------------------------------------------------------------------
(* bootstrap, which only promotes. *)
Promote(s) ==
    /\ signIn[s].pc = "promote"
    /\ \/ signIn[s].admin /\ Continue(s, [signIn[s] EXCEPT !.pc = "exists"])
       \/ /\ ~signIn[s].admin
          /\ \A q \in SignIn \ {s} : Writing(q) => signIn[q].user # signIn[s].user
          /\ Continue(s, [signIn[s] EXCEPT !.pc = "exists", !.promoted = TRUE])

MemberExists(s) ==
    /\ signIn[s].pc = "exists"
    /\ Continue(s, [signIn[s] EXCEPT
                      !.pc = IF member[signIn[s].user] = Pending THEN "insert" ELSE "commit"])

(* What s wrote in users becomes visible. *)
Committed(s) ==
    /\ account' = IF signIn[s].draft = NoAccount THEN account
                  ELSE [account EXCEPT ![signIn[s].user] = signIn[s].draft]
    /\ platformAdmin' = IF signIn[s].promoted THEN platformAdmin \cup {signIn[s].user}
                        ELSE platformAdmin
    /\ signIn' = [signIn EXCEPT ![s] = NotSigningIn]

(* INSERT of a workspace and of its ADMIN, the last writes; whoever became *)
(* a member meanwhile breaks uq_workspace_members_user_id (Fail).          *)
InsertMember(s, w) ==
    /\ signIn[s].pc = "insert"
    /\ member[signIn[s].user] = Pending
    /\ workspaces' = workspaces \cup {w}
    /\ member' = [member EXCEPT ![signIn[s].user] = [workspace |-> w, profile |-> "ADMIN"]]
    /\ Committed(s)

Commit(s) ==
    /\ signIn[s].pc = "commit"
    /\ Committed(s)
    /\ UNCHANGED <<member, workspaces>>

(* Any other error, or a lost connection. *)
Fail(s) ==
    /\ signIn[s].pc \notin {"idle", "refused"}
    /\ Continue(s, NotSigningIn)

Provision(s) ==
    \/ \E t \in Token : Arrive(s, t)
    \/ FindByUid(s) \/ FindByEmail(s) \/ Create(s) \/ Relink(s) \/ Refresh(s)
    \/ Promote(s) \/ MemberExists(s) \/ Commit(s) \/ Fail(s)
-----------------------------------------------------------------------------
(* Properties.                                                             *)

Shared(t) == \E o \in Token : o.email = t.email /\ o.uid # t.uid

(* The comment of provision: the front end fires several requests at once, *)
(* whoever loses the race to create the user reads again and goes on: a    *)
(* request of a verified address that only one user has is never refused   *)
(* for the row of that user, with whatever other requests it crosses.      *)
FirstRequestsServed ==
    \A s \in SignIn : signIn[s].pc = "refused" =>
        ~signIn[s].token.verified \/ Shared(signIn[s].token)
=============================================================================
