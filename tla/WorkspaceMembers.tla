-------------------------- MODULE WorkspaceMembers --------------------------
(***************************************************************************)
(* Who belongs to which workspace: UserService.grantProfile and            *)
(* revokeProfile, the bootstrap of UserProvisioningService, and the        *)
(* table workspace_members, at the grain of the SQL statements of a        *)
(* request.                                                                *)
(*                                                                         *)
(* A request reads the membership of its target when its transaction       *)
(* begins, then waits for the row of the workspace it read there, and      *)
(* decides on the membership it read and on counts it takes under that     *)
(* lock.  Its last write commits with it.                                  *)
(***************************************************************************)
EXTENDS UserProvisioning, FiniteSets

CONSTANTS
    Request,        \* the requests that change memberships at the same time
    SameTarget,     \* may two changes of one user's membership overlap?
    AnyFirst        \* may a user who is not made ADMIN enter an empty workspace?

ASSUME WorkspaceMembersAssumption ==
    /\ NoOne \notin Request
    /\ SameTarget \in BOOLEAN /\ AnyFirst \in BOOLEAN

VARIABLES
    lock,           \* who locked each workspace FOR UPDATE
    tx              \* the transaction of each request

requests == <<lock, tx>>
vars == <<tables, signIn, requests>>

(* next is the membership the request leaves to its target, seen the one   *)
(* it read.                                                                *)
Tx == [pc : {"idle", "lock", "assert", "write", "insert", "done", "refused"},
       target : User \cup {NoOne}, seen : Member \cup {Pending},
       next : Member \cup {Pending}]

NoTx == [pc |-> "idle", target |-> NoOne, seen |-> Pending, next |-> Pending]

InProgress(r) == tx[r].pc \in {"lock", "assert", "write", "insert"}

(* Unless SameTarget, nobody else is changing the membership of u. *)
MayChange(u) == SameTarget \/ \A q \in Request : InProgress(q) => tx[q].target # u

MembersOf(w) == {u \in User : member[u].workspace = w}
AdminsOf(w)  == {u \in MembersOf(w) : member[u].profile = "ADMIN"}

End(r, pc) ==
    /\ tx' = [tx EXCEPT ![r] = [NoTx EXCEPT !.pc = pc]]
    /\ lock' = [w \in Workspace |-> IF lock[w] = r THEN NoOne ELSE lock[w]]

-----------------------------------------------------------------------------
MembersInit ==
    /\ Init
    /\ lock = [w \in Workspace |-> NoOne]
    /\ tx = [r \in Request |-> NoTx]

(* The workspace a bootstrap or an approval creates. *)
Fresh(w) == w \notin workspaces /\ \A q \in Request : tx[q].next.workspace # w

(* A step of a request being provisioned; its bootstrap changes the        *)
(* membership of its user like any other request.                          *)
ProvisionStep(s) ==
    /\ \/ Provision(s)
       \/ /\ MayChange(signIn[s].user)
          /\ \E w \in Workspace : Fresh(w) /\ InsertMember(s, w)
    /\ UNCHANGED requests

(* changeMembership: another platform admin asks; the target is read.      *)
Begin(r, u, pc, next) ==
    /\ tx[r].pc = "idle"
    /\ account[u] # NoAccount
    /\ platformAdmin \ {u} # {}
    /\ MayChange(u)
    /\ tx' = [tx EXCEPT ![r] = [pc |-> pc, target |-> u, seen |-> member[u], next |-> next]]
    /\ UNCHANGED <<tables, signIn, lock>>

(* grantProfile of a member changes its profile in the workspace it is in; *)
(* of a pending user, it needs a workspace, an existing or a new one.      *)
ChangeProfile(r, u) ==
    /\ member[u] # Pending
    /\ \E p \in Profile : Begin(r, u, "lock", [member[u] EXCEPT !.profile = p])

Approve(r, u) ==
    /\ member[u] = Pending
    /\ \E w \in workspaces, p \in Profile :
        Begin(r, u, "insert", [workspace |-> w, profile |-> p])

ApproveInNew(r, u) ==
    /\ member[u] = Pending
    /\ \E w \in Workspace :
        /\ Fresh(w)
        /\ Begin(r, u, "insert", [workspace |-> w, profile |-> "ADMIN"])

(* revokeProfile of a user read as pending deletes without a lock.         *)
Revoke(r, u) == Begin(r, u, IF member[u] = Pending THEN "write" ELSE "lock", Pending)

(* Mutant of LockWorkspace: it reads the workspace without its lock. *)
LockWorkspaceUnlocked(r) ==
    /\ tx[r].pc = "lock"
    /\ tx' = [tx EXCEPT ![r].pc = "assert"]
    /\ UNCHANGED <<tables, signIn, lock>>

(* lockWorkspace: waits for the workspace that was read. *)
LockWorkspace(r) ==
    LET w == tx[r].seen.workspace IN
    /\ tx[r].pc = "lock" /\ lock[w] = NoOne
    /\ lock' = [lock EXCEPT ![w] = r]
    /\ tx' = [tx EXCEPT ![r].pc = "assert"]
    /\ UNCHANGED <<tables, signIn>>

(* assertAdminRemains: the profile that was read decides whether there is  *)
(* anything to check; the other members are counted now.                   *)
LastAdmin(t) ==
    /\ t.seen.profile = "ADMIN" /\ t.next.profile # "ADMIN"
    /\ AdminsOf(t.seen.workspace) \ {t.target} = {}
    /\ t.next = Pending => MembersOf(t.seen.workspace) \ {t.target} # {}

AssertAdminRemains(r) ==
    /\ tx[r].pc = "assert"
    /\ IF LastAdmin(tx[r])
       THEN End(r, "refused")
       ELSE tx' = [tx EXCEPT ![r].pc = "write"] /\ UNCHANGED lock
    /\ UNCHANGED <<tables, signIn>>

(* UPDATE or DELETE ... WHERE user_id = target: whatever row is there now. *)
Write(r) ==
    LET u == tx[r].target IN
    /\ tx[r].pc = "write"
    /\ member' = [member EXCEPT ![u] =
                    IF tx[r].next = Pending THEN Pending
                    ELSE IF @ = Pending THEN @
                    ELSE [@ EXCEPT !.profile = tx[r].next.profile]]
    /\ End(r, "done")
    /\ UNCHANGED <<account, platformAdmin, workspaces, signIn>>

(* INSERT: the foreign key waits for the workspace; a user who is already  *)
(* a member breaks uq_workspace_members_user_id.                           *)
Insert(r) ==
    LET u == tx[r].target
        w == tx[r].next.workspace IN
    /\ tx[r].pc = "insert" /\ lock[w] = NoOne
    /\ AnyFirst \/ tx[r].next.profile = "ADMIN" \/ MembersOf(w) # {}
    /\ IF member[u] # Pending
       THEN End(r, "refused") /\ UNCHANGED <<member, workspaces>>
       ELSE /\ member' = [member EXCEPT ![u] = tx[r].next]
            /\ workspaces' = workspaces \cup {w}
            /\ End(r, "done")
    /\ UNCHANGED <<account, platformAdmin, signIn>>

Abort(r) ==
    /\ InProgress(r)
    /\ End(r, "refused")
    /\ UNCHANGED <<tables, signIn>>

Next ==
    \/ \E s \in SignIn : ProvisionStep(s)
    \/ \E r \in Request, u \in User :
        ChangeProfile(r, u) \/ Approve(r, u) \/ ApproveInNew(r, u) \/ Revoke(r, u)
    \/ \E r \in Request :
        LockWorkspace(r) \/ AssertAdminRemains(r) \/ Write(r) \/ Insert(r) \/ Abort(r)

Spec == MembersInit /\ [][Next]_vars
-----------------------------------------------------------------------------
(* Properties. *)

(* INV-0021-07: a workspace with members has at least one ADMIN.           *)
AdminRemains == \A w \in Workspace : MembersOf(w) # {} => AdminsOf(w) # {}
=============================================================================
