----------------------- MODULE WorkspaceMembersProofs -----------------------
(***************************************************************************)
(* Two facts about users, for every set of users, rows, workspaces,        *)
(* requests and sign-ins.                                                  *)
(*                                                                         *)
(* The first requests of a user are served, when whoever has an address    *)
(* that another user verified has no other: a request that loses a race    *)
(* finds the row on its second attempt, because the row is still there,    *)
(* still has its uid and is the only one that has it.                      *)
(*                                                                         *)
(* A workspace that has members has an ADMIN, when no two changes of one   *)
(* user's membership overlap and the first member of a workspace is its    *)
(* ADMIN.  A request that is about to write holds the lock of the          *)
(* workspace its target is in, and what it found there under that lock is  *)
(* still so: whoever else changes a membership of that workspace needs the *)
(* lock.                                                                   *)
(***************************************************************************)
EXTENDS WorkspaceMembers, TLAPS

-----------------------------------------------------------------------------
(* The first requests of a user.                                           *)

(* Another user verified an address of user i: requests of theirs may take *)
(* over the row of i.                                                      *)
Contested(i) ==
    \E o, t \in Token : o.verified /\ t.email = o.email /\ t.uid = i /\ o.uid # i

(* Who may lose the row has no other address to change it to.              *)
SingleAddress ==
    \A t, v \in Token : t.uid = v.uid /\ Contested(t.uid) => t.email = v.email

-----------------------------------------------------------------------------
(* The inductive invariant of the requests being provisioned.              *)

(* What a row has is what one token brought. *)
FromToken(x) == \E t \in Token : x.uid = t.uid /\ x.email = t.email

UserTypes ==
    /\ account \in [User -> Account \cup {NoAccount}]
    /\ signIn \in [SignIn -> Provisioning]

(* No two rows have a uid or an address in common. *)
Rows(A) ==
    \A u \in User : A[u] # NoAccount =>
        /\ FromToken(A[u])
        /\ \A o \in User \ {u} : ~Clash(A[o], A[u])

(* A row that is being written clashes with no other, and keeps its uid or *)
(* goes over to whoever verified its address.                              *)
DraftFits(A, q) ==
    q.draft # NoAccount =>
        /\ q.user \in User /\ FromToken(q.draft)
        /\ \A o \in User \ {q.user} : ~Clash(A[o], q.draft)
        /\ \/ A[q.user] = NoAccount
           \/ q.draft.uid = A[q.user].uid
           \/ /\ q.draft.email = A[q.user].email /\ q.draft.email = q.token.email
              /\ q.draft.uid = q.token.uid /\ q.token.verified

(* A row has one writer at a time, and no two rows that clash are written. *)
Writes(q) == q.draft # NoAccount \/ q.promoted
WriteApart(q, o) ==
    Writes(q) /\ Writes(o) =>
        /\ q.user # o.user
        /\ q.draft # NoAccount => ~Clash(o.draft, q.draft)
OneWriter(T) == \A s, q \in SignIn : s # q => WriteApart(T[s], T[q])

(* What each stage has found.  A request that tries again goes on with the *)
(* row it lost to, unless that row may be lost.                            *)
Stages == {"find", "email", "create", "relink", "refresh"}
SignInFits(A, q) ==
    /\ q.pc # "idle" => q.token \in Token
    /\ q.pc \in {"idle", "refused"} \cup Stages => q.draft = NoAccount /\ ~q.promoted
    /\ q.pc \in {"relink", "refresh", "promote", "exists", "insert", "commit"} => q.user \in User
    /\ q.pc \in {"relink", "refresh"} => A[q.user] # NoAccount
    /\ q.pc = "relink" =>
         /\ q.token.verified
         /\ A[q.user].uid = q.token.uid \/ A[q.user].email = q.token.email
    /\ q.pc = "refresh" => A[q.user].uid = q.token.uid /\ ~Contested(q.token.uid)
    /\ q.retried /\ ~Contested(q.token.uid) =>
         /\ q.pc \notin {"idle", "refused", "email", "create", "relink"}
         /\ \E u \in User : A[u].uid = q.token.uid
    /\ q.pc = "refused" => ~q.token.verified \/ Shared(q.token)

UsersInv ==
    /\ UserTypes /\ Rows(account) /\ OneWriter(signIn)
    /\ \A s \in SignIn : DraftFits(account, signIn[s]) /\ SignInFits(account, signIn[s])

-----------------------------------------------------------------------------
(* What a token brings is no absence of an account. *)
LEMMA Tokens ==
    /\ \A t \in Token : /\ t.uid \in Uid /\ t.email \in Email /\ t.verified \in BOOLEAN
                        /\ t.uid # "none" /\ t.email # "none"
    /\ \A x : FromToken(x) => x.uid \in Uid /\ x.uid # "none" /\ x.email # "none" /\ x # NoAccount
    /\ NoAccount.uid = "none" /\ NoAccount.email = "none"
<1>1. \A t \in Token : t.uid \in Uid /\ t.email \in Email
  BY DEF Uid, Email
<1>2. "none" \notin Uid /\ "none" \notin Email /\ \A t \in Token : t.verified \in BOOLEAN
  BY UserProvisioningAssumption
<1>3. NoAccount.uid = "none" /\ NoAccount.email = "none"
  BY DEF NoAccount
<1>4. ASSUME NEW x, FromToken(x)
      PROVE  x.uid \in Uid /\ x.uid # "none" /\ x.email # "none" /\ x # NoAccount
  BY <1>1, <1>2, <1>3, <1>4 DEF FromToken
<1>. QED
  BY <1>1, <1>2, <1>3, <1>4

(* A user with an address nobody else has does not lose the row. *)
LEMMA UnsharedKeeps ==
    ASSUME SingleAddress, NEW t \in Token, ~Shared(t)
    PROVE  ~Contested(t.uid)
<1>. SUFFICES ASSUME Contested(t.uid) PROVE FALSE
  OBVIOUS
<1>1. PICK o \in Token, v \in Token : v.email = o.email /\ v.uid = t.uid /\ o.uid # t.uid
  BY DEF Contested
<1>2. v.email = t.email
  BY <1>1 DEF SingleAddress
<1>. QED
  BY <1>1, <1>2 DEF Shared

(* Nobody is being provisioned. *)
LEMMA Idle ==
    /\ NotSigningIn \in Provisioning /\ ~Writes(NotSigningIn)
    /\ \A A : DraftFits(A, NotSigningIn) /\ SignInFits(A, NotSigningIn)
<1>1. NotSigningIn \in Provisioning
  BY DEF NotSigningIn, Provisioning
<1>2. /\ NotSigningIn.pc = "idle" /\ NotSigningIn.draft = NoAccount
      /\ NotSigningIn.promoted = FALSE /\ NotSigningIn.retried = FALSE
  BY DEF NotSigningIn
<1>3. ~Writes(NotSigningIn)
  BY <1>2 DEF Writes
<1>4. ASSUME NEW A PROVE DraftFits(A, NotSigningIn) /\ SignInFits(A, NotSigningIn)
  BY <1>2 DEF DraftFits, SignInFits, Stages
<1>. QED
  BY <1>1, <1>3, <1>4

(* At the beginning there are no rows and no requests. *)
LEMMA UsersInit == MembersInit => UsersInv
<1>. SUFFICES ASSUME MembersInit PROVE UsersInv
  OBVIOUS
<1>1. /\ account = [u \in User |-> NoAccount] /\ signIn = [s \in SignIn |-> NotSigningIn]
  BY DEF MembersInit, Init
<1>2. UserTypes
  BY <1>1, Idle DEF UserTypes
<1>3. Rows(account)
  BY <1>1 DEF Rows
<1>4. OneWriter(signIn)
  BY <1>1, Idle DEF OneWriter, WriteApart
<1>5. ASSUME NEW s \in SignIn
      PROVE  DraftFits(account, signIn[s]) /\ SignInFits(account, signIn[s])
  BY <1>1, Idle
<1>. QED
  BY <1>2, <1>3, <1>4, <1>5 DEF UsersInv

-----------------------------------------------------------------------------
(* A request goes on: its new record fits, and what it begins to write is  *)
(* nobody else's.                                                          *)
LEMMA ContinueInv ==
    ASSUME UsersInv, NEW s \in SignIn, NEW q \in Provisioning,
           signIn' = [signIn EXCEPT ![s] = q], UNCHANGED account,
           DraftFits(account, q), SignInFits(account, q),
           \A o \in SignIn \ {s} : WriteApart(q, signIn[o])
    PROVE  UsersInv'
<1>1. \A o \in SignIn : signIn'[o] = IF o = s THEN q ELSE signIn[o]
  BY DEF UsersInv, UserTypes
<1>2. UserTypes'
  BY DEF UsersInv, UserTypes
<1>3. ASSUME NEW o \in SignIn PROVE DraftFits(account, signIn'[o]) /\ SignInFits(account, signIn'[o])
  BY <1>1 DEF UsersInv
<1>4. ASSUME NEW o \in SignIn, NEW p \in SignIn, o # p PROVE WriteApart(signIn'[o], signIn'[p])
  <2>1. CASE o = s
    BY <1>1, <1>4, <2>1
  <2>2. CASE p = s
    <3>1. PICK x : x = signIn[o] /\ signIn'[o] = x /\ signIn'[p] = q
      BY <1>1, <1>4, <2>2
    <3>2. WriteApart(q, x) /\ DraftFits(account, x)
      BY <1>4, <2>2, <3>1 DEF UsersInv
    <3>3. ASSUME x.draft # NoAccount, Writes(q) PROVE ~Clash(q.draft, x.draft)
      <4>1. FromToken(x.draft)
        BY <3>2, <3>3 DEF DraftFits
      <4>2. CASE q.draft = NoAccount
        BY <4>1, <4>2, Tokens DEF Clash
      <4>3. CASE q.draft # NoAccount
        BY <3>2, <3>3, <4>3 DEF WriteApart, Writes, Clash
      <4>. QED
        BY <4>2, <4>3
    <3>4. WriteApart(x, q)
      BY <3>2, <3>3 DEF WriteApart
    <3>. QED
      BY <3>1, <3>4
  <2>3. CASE o # s /\ p # s
    BY <1>1, <1>4, <2>3 DEF UsersInv, OneWriter
  <2>. QED
    BY <2>1, <2>2, <2>3
<1>5. OneWriter(signIn')
  BY <1>4 DEF OneWriter
<1>. QED
  BY <1>2, <1>3, <1>5 DEF UsersInv

(* What the invariant says of one request. *)
LEMMA Request1 ==
    ASSUME UsersInv, NEW s \in SignIn
    PROVE  /\ signIn[s] \in Provisioning
           /\ DraftFits(account, signIn[s]) /\ SignInFits(account, signIn[s])
           /\ \A o \in SignIn \ {s} : WriteApart(signIn[s], signIn[o])
  BY DEF UsersInv, UserTypes, OneWriter

(* A request arrives, or ends without having written. *)
LEMMA ArriveInv ==
    ASSUME UsersInv, NEW s \in SignIn, (\E t \in Token : Arrive(s, t)) \/ Fail(s)
    PROVE  UsersInv'
<1>1. CASE \E t \in Token : Arrive(s, t)
  <2>1. PICK t \in Token : Arrive(s, t)
    BY <1>1
  <2>2. PICK q : q = [NotSigningIn EXCEPT !.pc = "find", !.token = t]
    OBVIOUS
  <2>3. /\ q \in Provisioning /\ q.pc = "find" /\ q.token = t /\ q.draft = NoAccount
        /\ ~q.promoted /\ ~q.retried
    BY <2>2 DEF NotSigningIn, Provisioning
  <2>4. signIn' = [signIn EXCEPT ![s] = q] /\ UNCHANGED account
    BY <2>1, <2>2 DEF Arrive, Continue, tables
  <2>5. DraftFits(account, q) /\ SignInFits(account, q)
    BY <2>3 DEF DraftFits, SignInFits, Stages
  <2>6. \A o \in SignIn \ {s} : WriteApart(q, signIn[o])
    BY <2>3 DEF WriteApart, Writes
  <2>. QED
    BY <2>3, <2>4, <2>5, <2>6, ContinueInv
<1>2. CASE Fail(s)
  <2>1. signIn' = [signIn EXCEPT ![s] = NotSigningIn] /\ UNCHANGED account
    BY <1>2 DEF Fail, Continue, tables
  <2>2. \A o \in SignIn \ {s} : WriteApart(NotSigningIn, signIn[o])
    BY Idle DEF WriteApart
  <2>. QED
    BY <2>1, <2>2, Idle, ContinueInv
<1>. QED
  BY <1>1, <1>2

(* A request is refused: not for the row of a verified user whose address  *)
(* is nobody else's.                                                       *)
LEMMA RefuseInv ==
    ASSUME UsersInv, NEW s \in SignIn, Refuse(s), signIn[s].token \in Token,
           ~signIn[s].token.verified \/ Shared(signIn[s].token)
    PROVE  UsersInv'
<1>1. PICK t \in Token : t = signIn[s].token
  OBVIOUS
<1>2. PICK q : q = [NotSigningIn EXCEPT !.pc = "refused", !.token = t]
  OBVIOUS
<1>3. /\ q \in Provisioning /\ q.pc = "refused" /\ q.token = t /\ q.draft = NoAccount
      /\ ~q.promoted /\ ~q.retried
  BY <1>2 DEF NotSigningIn, Provisioning
<1>4. signIn' = [signIn EXCEPT ![s] = q] /\ UNCHANGED account
  BY <1>1, <1>2 DEF Refuse, Continue, tables
<1>5. DraftFits(account, q) /\ SignInFits(account, q)
  BY <1>1, <1>3 DEF DraftFits, SignInFits, Stages
<1>6. \A o \in SignIn \ {s} : WriteApart(q, signIn[o])
  BY <1>3 DEF WriteApart, Writes
<1>. QED
  BY <1>3, <1>4, <1>5, <1>6, ContinueInv

(* A request that lost to a row with its uid starts over; it has not done  *)
(* so before, unless others may take the row.                              *)
LEMMA RetryInv ==
    ASSUME SingleAddress, UsersInv, NEW s \in SignIn, Retry(s), signIn[s].token \in Token,
           \E u \in User : account[u].uid = signIn[s].token.uid,
           signIn[s].retried => Contested(signIn[s].token.uid)
    PROVE  UsersInv'
<1>1. PICK t \in Token : t = signIn[s].token
  OBVIOUS
<1>2. CASE signIn[s].retried
  <2>1. Shared(t)
    BY <1>1, <1>2, UnsharedKeeps
  <2>. QED
    BY <1>1, <1>2, <2>1, RefuseInv DEF Retry
<1>3. CASE ~signIn[s].retried
  <2>2. PICK q : q = [NotSigningIn EXCEPT !.pc = "find", !.token = t, !.retried = TRUE]
    OBVIOUS
  <2>3. /\ q \in Provisioning /\ q.pc = "find" /\ q.token = t /\ q.draft = NoAccount
        /\ ~q.promoted
    BY <2>2 DEF NotSigningIn, Provisioning
  <2>4. signIn' = [signIn EXCEPT ![s] = q] /\ UNCHANGED account
    BY <1>1, <1>3, <2>2 DEF Retry, Continue, tables
  <2>5. DraftFits(account, q) /\ SignInFits(account, q)
    BY <1>1, <2>3 DEF DraftFits, SignInFits, Stages
  <2>6. \A o \in SignIn \ {s} : WriteApart(q, signIn[o])
    BY <2>3 DEF WriteApart, Writes
  <2>. QED
    BY <2>3, <2>4, <2>5, <2>6, ContinueInv
<1>. QED
  BY <1>2, <1>3

(* What is true or false is TRUE or FALSE. *)
LEMMA Truth == \A x, S : \E b \in BOOLEAN : b = (x \in S)
<1>. SUFFICES ASSUME NEW x, NEW S PROVE \E b \in BOOLEAN : b = (x \in S)
  OBVIOUS
<1>1. (x \in S) \in BOOLEAN
  BY SMT
<1>. QED
  BY <1>1, Zenon

(* SELECT by uid: a row with another address is one that nobody else takes. *)
LEMMA FindByUidInv ==
    ASSUME SingleAddress, UsersInv, NEW s \in SignIn, FindByUid(s)
    PROVE  UsersInv'
<1>1. PICK p \in Provisioning :
        /\ p = signIn[s] /\ SignInFits(account, p) /\ p.pc = "find" /\ p.token \in Token
        /\ p.draft = NoAccount /\ ~p.promoted
  BY Request1 DEF FindByUid, SignInFits, Stages
<1>2. CASE {u \in User : account[u].uid = p.token.uid} = {} /\ Continue(s, [p EXCEPT !.pc = "email"])
  <2>1. PICK q : q = [p EXCEPT !.pc = "email"]
    OBVIOUS
  <2>2. /\ q \in Provisioning /\ q.pc = "email" /\ q.token = p.token /\ q.draft = NoAccount
        /\ ~q.promoted /\ q.retried = p.retried
    BY <1>1, <2>1 DEF Provisioning
  <2>3. signIn' = [signIn EXCEPT ![s] = q] /\ UNCHANGED account
    BY <1>2, <2>1 DEF Continue, tables
  <2>4. DraftFits(account, q) /\ SignInFits(account, q)
    BY <1>1, <1>2, <2>2 DEF DraftFits, SignInFits, Stages
  <2>5. \A o \in SignIn \ {s} : WriteApart(q, signIn[o])
    BY <2>2 DEF WriteApart, Writes
  <2>. QED
    BY <2>2, <2>3, <2>4, <2>5, ContinueInv
<1>3. ASSUME NEW u \in {v \in User : account[v].uid = p.token.uid},
             Continue(s, [p EXCEPT !.user = u, !.admin = u \in platformAdmin,
               !.pc = IF account[u].email # p.token.email THEN "refresh" ELSE AfterUser(p.token)])
      PROVE  UsersInv'
  <2>1. PICK pc : pc = IF account[u].email # p.token.email THEN "refresh" ELSE AfterUser(p.token)
    OBVIOUS
  <2>0. PICK b \in BOOLEAN : b = (u \in platformAdmin)
    BY Truth, Zenon
  <2>2. PICK q : q = [p EXCEPT !.user = u, !.admin = b, !.pc = pc]
    OBVIOUS
  <2>3. pc \in {"refresh", "promote", "commit"}
    BY <2>1 DEF AfterUser
  <2>4. /\ q \in Provisioning /\ q.pc = pc /\ q.token = p.token /\ q.draft = NoAccount
        /\ ~q.promoted /\ q.retried = p.retried /\ q.user = u
    BY <1>1, <2>2, <2>3 DEF Provisioning
  <2>5. signIn' = [signIn EXCEPT ![s] = q] /\ UNCHANGED account
    BY <1>3, <2>0, <2>1, <2>2 DEF Continue, tables
  <2>6. account[u] # NoAccount /\ FromToken(account[u])
    BY <1>1, <1>3, Tokens DEF UsersInv, Rows
  <2>7. pc = "refresh" => ~Contested(p.token.uid)
    <3>1. PICK t \in Token : account[u].uid = t.uid /\ account[u].email = t.email
      BY <2>6 DEF FromToken
    <3>2. pc = "refresh" => account[u].email # p.token.email
      BY <2>1 DEF AfterUser
    <3>. QED
      BY <1>1, <1>3, <3>1, <3>2 DEF SingleAddress
  <2>8. DraftFits(account, q)
    BY <2>4 DEF DraftFits
  <2>9. SignInFits(account, q)
    BY <1>1, <1>3, <2>3, <2>4, <2>6, <2>7 DEF SignInFits, Stages
  <2>10. \A o \in SignIn \ {s} : WriteApart(q, signIn[o])
    BY <2>4 DEF WriteApart, Writes
  <2>. QED
    BY <2>4, <2>5, <2>8, <2>9, <2>10, ContinueInv
<1>. QED
  BY <1>1, <1>2, <1>3 DEF FindByUid

(* SELECT by e-mail: only a verified address takes the row it finds.       *)
LEMMA FindByEmailInv ==
    ASSUME SingleAddress, UsersInv, NEW s \in SignIn, FindByEmail(s)
    PROVE  UsersInv'
<1>1. PICK p \in Provisioning :
        /\ p = signIn[s] /\ SignInFits(account, p) /\ p.pc = "email" /\ p.token \in Token
        /\ p.draft = NoAccount /\ ~p.promoted
  BY Request1 DEF FindByEmail, SignInFits, Stages
<1>2. CASE Continue(s, [p EXCEPT !.pc = "create"])
  <2>1. PICK q : q = [p EXCEPT !.pc = "create"]
    OBVIOUS
  <2>2. /\ q \in Provisioning /\ q.pc = "create" /\ q.token = p.token /\ q.draft = NoAccount
        /\ ~q.promoted /\ q.retried = p.retried
    BY <1>1, <2>1 DEF Provisioning
  <2>3. signIn' = [signIn EXCEPT ![s] = q] /\ UNCHANGED account
    BY <1>2, <2>1 DEF Continue, tables
  <2>4. DraftFits(account, q) /\ SignInFits(account, q)
    BY <1>1, <2>2 DEF DraftFits, SignInFits, Stages
  <2>5. \A o \in SignIn \ {s} : WriteApart(q, signIn[o])
    BY <2>2 DEF WriteApart, Writes
  <2>. QED
    BY <2>2, <2>3, <2>4, <2>5, ContinueInv
<1>3. CASE ~p.token.verified /\ Refuse(s)
  BY <1>1, <1>3, RefuseInv
<1>4. ASSUME NEW u \in {v \in User : account[v].email = p.token.email}, p.token.verified,
             Continue(s, [p EXCEPT !.user = u, !.admin = u \in platformAdmin, !.pc = "relink"])
      PROVE  UsersInv'
  <2>1. PICK b \in BOOLEAN : b = (u \in platformAdmin)
    BY Truth, Zenon
  <2>2. PICK q : q = [p EXCEPT !.user = u, !.admin = b, !.pc = "relink"]
    OBVIOUS
  <2>4. /\ q \in Provisioning /\ q.pc = "relink" /\ q.token = p.token /\ q.draft = NoAccount
        /\ ~q.promoted /\ q.retried = p.retried /\ q.user = u
    BY <1>1, <1>4, <2>2 DEF Provisioning
  <2>5. signIn' = [signIn EXCEPT ![s] = q] /\ UNCHANGED account
    BY <1>4, <2>1, <2>2 DEF Continue, tables
  <2>6. account[u] # NoAccount
    BY <1>1, <1>4, Tokens
  <2>8. DraftFits(account, q)
    BY <2>4 DEF DraftFits
  <2>9. SignInFits(account, q)
    BY <1>1, <1>4, <2>4, <2>6 DEF SignInFits, Stages
  <2>10. \A o \in SignIn \ {s} : WriteApart(q, signIn[o])
    BY <2>4 DEF WriteApart, Writes
  <2>. QED
    BY <2>4, <2>5, <2>8, <2>9, <2>10, ContinueInv
<1>. QED
  BY <1>1, <1>2, <1>3, <1>4 DEF FindByEmail

-----------------------------------------------------------------------------
(* INSERT or UPDATE of a row.                                              *)

(* The row written clashes with no other; who loses to a row with its uid  *)
(* starts over, and who loses to one with its address is refused.          *)
LEMMA WriteAccountInv ==
    ASSUME SingleAddress, UsersInv, NEW s \in SignIn, NEW u \in User, NEW x \in Account,
           WriteAccount(s, u, x), FromToken(x), signIn[s].token \in Token,
           signIn[s].draft = NoAccount, ~signIn[s].promoted,
           \/ account[u] = NoAccount
           \/ x.uid = account[u].uid
           \/ /\ x.email = account[u].email /\ x.email = signIn[s].token.email
              /\ x.uid = signIn[s].token.uid /\ signIn[s].token.verified,
           signIn[s].retried /\ ~Contested(signIn[s].token.uid) =>
             \E o \in User : account[o].uid = signIn[s].token.uid,
           \A o \in User \ {u} : account[o].uid = x.uid =>
             /\ x.uid = signIn[s].token.uid
             /\ signIn[s].retried => Contested(signIn[s].token.uid),
           \A o \in User \ {u} : account[o].email = x.email /\ account[o].uid # x.uid =>
             ~signIn[s].token.verified \/ Shared(signIn[s].token)
    PROVE  UsersInv'
<1>1. PICK p \in Provisioning : p = signIn[s]
  BY Request1
<1>2. CASE \E o \in User \ {u} : account[o].uid = x.uid /\ Retry(s)
  BY <1>2, RetryInv
<1>3. CASE /\ \A o \in User \ {u} : account[o].uid # x.uid
           /\ \E o \in User \ {u} : account[o].email = x.email
           /\ Refuse(s)
  BY <1>3, RefuseInv
<1>4. CASE /\ \A o \in User \ {u} : ~Clash(account[o], x)
           /\ Continue(s, [p EXCEPT !.user = u, !.draft = x, !.pc = AfterUser(p.token)])
  <2>1. PICK pc \in {"promote", "commit"} : pc = AfterUser(p.token)
    BY DEF AfterUser
  <2>2. PICK q : q = [p EXCEPT !.user = u, !.draft = x, !.pc = pc]
    OBVIOUS
  <2>3. /\ q \in Provisioning /\ q.pc = pc /\ q.token = p.token /\ q.draft = x
        /\ q.promoted = p.promoted /\ q.retried = p.retried /\ q.user = u
    BY <2>1, <2>2 DEF Provisioning
  <2>4. signIn' = [signIn EXCEPT ![s] = q] /\ UNCHANGED account
    BY <1>4, <2>1, <2>2 DEF Continue, tables
  <2>5. DraftFits(account, q)
    BY <1>1, <1>4, <2>3 DEF DraftFits
  <2>6. SignInFits(account, q)
    BY <1>1, <2>3 DEF SignInFits, Stages
  <2>7. ASSUME NEW o \in SignIn \ {s} PROVE WriteApart(q, signIn[o])
    <3>1. Writing(o) => signIn[o].user # u /\ ~Clash(signIn[o].draft, x)
      BY DEF WriteAccount, Waits
    <3>. QED
      BY <2>3, <3>1 DEF WriteApart, Writes, Writing
  <2>. QED
    BY <2>3, <2>4, <2>5, <2>6, <2>7, ContinueInv
<1>. QED
  BY <1>1, <1>2, <1>3, <1>4 DEF WriteAccount

(* The row of a user seen for the first time: whoever has the address is   *)
(* the user, unless the address is shared.                                 *)
LEMMA CreateInv ==
    ASSUME SingleAddress, UsersInv, NEW s \in SignIn, Create(s)
    PROVE  UsersInv'
<1>1. PICK p \in Provisioning :
        /\ p = signIn[s] /\ SignInFits(account, p) /\ p.pc = "create" /\ p.token \in Token
        /\ p.draft = NoAccount /\ ~p.promoted
  BY Request1 DEF Create, SignInFits, Stages
<1>2. PICK x : x = [uid |-> p.token.uid, email |-> p.token.email]
  OBVIOUS
<1>3. PICK u \in User : New(u) /\ WriteAccount(s, u, x)
  BY <1>1, <1>2 DEF Create
<1>4. x \in Account /\ x.uid = p.token.uid /\ x.email = p.token.email /\ FromToken(x)
  BY <1>1, <1>2, Tokens DEF Account, FromToken
<1>5. account[u] = NoAccount
  BY <1>3 DEF New
<1>6. p.retried => Contested(p.token.uid)
  BY <1>1 DEF SignInFits
<1>7. ASSUME NEW o \in User \ {u}, account[o].email = x.email, account[o].uid # x.uid
      PROVE  Shared(p.token)
  <2>1. account[o] # NoAccount
    BY <1>1, <1>4, <1>7, Tokens
  <2>2. PICK t \in Token : account[o].uid = t.uid /\ account[o].email = t.email
    BY <2>1 DEF UsersInv, Rows, FromToken
  <2>. QED
    BY <1>4, <1>7, <2>2 DEF Shared
<1>. QED
  BY <1>1, <1>3, <1>4, <1>5, <1>6, <1>7, WriteAccountInv

(* A verified address takes over the row, whose address nobody else has.   *)
LEMMA RelinkInv ==
    ASSUME SingleAddress, UsersInv, NEW s \in SignIn, Relink(s)
    PROVE  UsersInv'
<1>1. PICK p \in Provisioning :
        /\ p = signIn[s] /\ SignInFits(account, p) /\ p.pc = "relink" /\ p.token \in Token
        /\ p.draft = NoAccount /\ ~p.promoted
  BY Request1 DEF Relink, SignInFits, Stages
<1>2. PICK u \in User :
        /\ u = p.user /\ account[u] # NoAccount /\ p.token.verified
        /\ account[u].uid = p.token.uid \/ account[u].email = p.token.email
  BY <1>1 DEF SignInFits
<1>3. PICK x : x = [account[u] EXCEPT !.uid = p.token.uid]
  OBVIOUS
<1>4. account[u] \in Account
  BY <1>2 DEF UsersInv, UserTypes
<1>5. x \in Account /\ x.uid = p.token.uid /\ x.email = account[u].email
  BY <1>1, <1>3, <1>4, Tokens DEF Account
<1>6. FromToken(x)
  <2>1. FromToken(account[u])
    BY <1>2 DEF UsersInv, Rows
  <2>. QED
    BY <1>1, <1>2, <1>5, <2>1 DEF FromToken
<1>7. WriteAccount(s, u, x)
  BY <1>1, <1>2, <1>3 DEF Relink
<1>8. p.retried => Contested(p.token.uid)
  BY <1>1 DEF SignInFits
<1>9. \A o \in User \ {u} : account[o].email # x.email
  BY <1>2, <1>5 DEF UsersInv, Rows, Clash
<1>10. \/ x.uid = account[u].uid
       \/ /\ x.email = account[u].email /\ x.email = p.token.email
          /\ x.uid = p.token.uid /\ p.token.verified
  BY <1>2, <1>5
<1>. QED
  BY <1>1, <1>5, <1>6, <1>7, <1>8, <1>9, <1>10, WriteAccountInv

(* A user with a new address: nobody else has the uid of the row.          *)
LEMMA RefreshInv ==
    ASSUME SingleAddress, UsersInv, NEW s \in SignIn, Refresh(s)
    PROVE  UsersInv'
<1>1. PICK p \in Provisioning :
        /\ p = signIn[s] /\ SignInFits(account, p) /\ p.pc = "refresh" /\ p.token \in Token
        /\ p.draft = NoAccount /\ ~p.promoted
  BY Request1 DEF Refresh, SignInFits, Stages
<1>2. PICK u \in User :
        /\ u = p.user /\ account[u] # NoAccount
        /\ account[u].uid = p.token.uid /\ ~Contested(p.token.uid)
  BY <1>1 DEF SignInFits
<1>3. PICK x : x = [account[u] EXCEPT !.email = p.token.email]
  OBVIOUS
<1>4. account[u] \in Account
  BY <1>2 DEF UsersInv, UserTypes
<1>5. x \in Account /\ x.email = p.token.email /\ x.uid = p.token.uid
  BY <1>1, <1>2, <1>3, <1>4, Tokens DEF Account
<1>6. FromToken(x)
  BY <1>1, <1>5 DEF FromToken
<1>7. WriteAccount(s, u, x)
  BY <1>1, <1>2, <1>3 DEF Refresh
<1>8. \A o \in User \ {u} : account[o].uid # x.uid
  BY <1>2, <1>5 DEF UsersInv, Rows, Clash
<1>9. ASSUME NEW o \in User \ {u}, account[o].email = x.email, account[o].uid # x.uid
      PROVE  Shared(p.token)
  <2>1. account[o] # NoAccount
    BY <1>1, <1>5, <1>9, Tokens
  <2>2. PICK t \in Token : account[o].uid = t.uid /\ account[o].email = t.email
    BY <2>1 DEF UsersInv, Rows, FromToken
  <2>. QED
    BY <1>5, <1>9, <2>2 DEF Shared
<1>. QED
  BY <1>1, <1>2, <1>5, <1>6, <1>7, <1>8, <1>9, WriteAccountInv

-----------------------------------------------------------------------------
(* The bootstrap and the commit.                                           *)

(* The flag is set on a row nobody else writes; then the membership is     *)
(* looked up.                                                              *)
LEMMA BootstrapInv ==
    ASSUME UsersInv, NEW s \in SignIn, Promote(s) \/ MemberExists(s)
    PROVE  UsersInv'
<1>1. PICK p \in Provisioning :
        /\ p = signIn[s] /\ SignInFits(account, p) /\ DraftFits(account, p)
        /\ p.pc \in {"promote", "exists"} /\ p.token \in Token /\ p.user \in User
        /\ \A o \in SignIn \ {s} : WriteApart(p, signIn[o])
  BY Request1 DEF Promote, MemberExists, SignInFits
<1>2. ASSUME NEW q \in Provisioning, q.pc \in {"exists", "insert", "commit"},
             q.token = p.token, q.user = p.user, q.draft = p.draft, q.retried = p.retried,
             Continue(s, q),
             Writes(q) => \/ Writes(p)
                          \/ \A o \in SignIn \ {s} : Writing(o) => signIn[o].user # p.user
      PROVE  UsersInv'
  <2>1. signIn' = [signIn EXCEPT ![s] = q] /\ UNCHANGED account
    BY <1>2 DEF Continue, tables
  <2>2. DraftFits(account, q)
    BY <1>1, <1>2 DEF DraftFits
  <2>3. SignInFits(account, q)
    BY <1>1, <1>2 DEF SignInFits, Stages
  <2>4. ASSUME NEW o \in SignIn \ {s} PROVE WriteApart(q, signIn[o])
    <3>1. WriteApart(p, signIn[o])
      BY <1>1
    <3>. QED
      BY <1>2, <3>1 DEF WriteApart, Writes, Writing
  <2>. QED
    BY <1>2, <2>1, <2>2, <2>3, <2>4, ContinueInv
<1>3. CASE Continue(s, [p EXCEPT !.pc = "exists"])
  <2>1. PICK q : q = [p EXCEPT !.pc = "exists"]
    OBVIOUS
  <2>2. /\ q \in Provisioning /\ q.pc = "exists" /\ q.token = p.token /\ q.draft = p.draft
        /\ q.promoted = p.promoted /\ q.retried = p.retried /\ q.user = p.user
    BY <2>1 DEF Provisioning
  <2>3. Continue(s, q)
    BY <1>3, <2>1
  <2>. QED
    BY <1>2, <2>2, <2>3 DEF Writes
<1>4. CASE /\ \A q \in SignIn \ {s} : Writing(q) => signIn[q].user # p.user
           /\ Continue(s, [p EXCEPT !.pc = "exists", !.promoted = TRUE])
  <2>1. PICK q : q = [p EXCEPT !.pc = "exists", !.promoted = TRUE]
    OBVIOUS
  <2>2. /\ q \in Provisioning /\ q.pc = "exists" /\ q.token = p.token /\ q.draft = p.draft
        /\ q.retried = p.retried /\ q.user = p.user
    BY <2>1 DEF Provisioning
  <2>3. Continue(s, q)
    BY <1>4, <2>1
  <2>. QED
    BY <1>2, <1>4, <2>2, <2>3
<1>5. CASE MemberExists(s)
  <2>1. PICK pc \in {"insert", "commit"} :
          pc = IF member[p.user] = Pending THEN "insert" ELSE "commit"
    OBVIOUS
  <2>2. PICK q : q = [p EXCEPT !.pc = pc]
    OBVIOUS
  <2>3. /\ q \in Provisioning /\ q.pc = pc /\ q.token = p.token /\ q.draft = p.draft
        /\ q.promoted = p.promoted /\ q.retried = p.retried /\ q.user = p.user
    BY <2>1, <2>2 DEF Provisioning
  <2>4. Continue(s, q)
    BY <1>1, <1>5, <2>1, <2>2 DEF MemberExists
  <2>. QED
    BY <1>2, <2>1, <2>3, <2>4 DEF Writes
<1>. QED
  BY <1>1, <1>3, <1>4, <1>5 DEF Promote

(* From row x of a user to what was written of it, y. *)
Succeeds(x, y) ==
    /\ FromToken(x) /\ FromToken(y)
    /\ \/ y.uid = x.uid
       \/ \E o \in Token : o.verified /\ o.uid = y.uid /\ o.email = x.email /\ y.email = x.email

(* A user who is not contested keeps the row, and whoever is about to take *)
(* one over may still do so.                                               *)
LEMMA Succession ==
    ASSUME SingleAddress, NEW x, NEW y, Succeeds(x, y)
    PROVE  /\ ~Contested(x.uid) => y.uid = x.uid
           /\ \A o \in Token : /\ o.verified
                               /\ x.uid = o.uid \/ x.email = o.email
                               => y.uid = o.uid \/ y.email = o.email
<1>1. PICK w \in Token, v \in Token : /\ x.uid = w.uid /\ x.email = w.email
                                      /\ y.uid = v.uid /\ y.email = v.email
  BY DEF Succeeds, FromToken
<1>2. ASSUME NEW o \in Token, o.verified, o.email = x.email, o.uid # x.uid
      PROVE  Contested(x.uid)
  BY <1>1, <1>2 DEF Contested
<1>3. ~Contested(x.uid) => y.uid = x.uid
  BY <1>2 DEF Succeeds
<1>4. ASSUME NEW o \in Token, o.verified, x.uid = o.uid \/ x.email = o.email
      PROVE  y.uid = o.uid \/ y.email = o.email
  <2>1. CASE y.uid = x.uid
    <3>1. CASE x.uid = o.uid
      BY <2>1, <3>1
    <3>2. CASE x.uid # o.uid
      <4>1. Contested(x.uid) /\ x.email = o.email
        BY <1>2, <1>4, <3>2
      <4>2. v.email = w.email
        BY <1>1, <2>1, <4>1 DEF SingleAddress
      <4>. QED
        BY <1>1, <4>1, <4>2
    <3>. QED
      BY <3>1, <3>2
  <2>2. CASE y.uid # x.uid
    <3>1. Contested(x.uid) /\ y.email = x.email
      BY <1>2, <2>2 DEF Succeeds
    <3>2. CASE x.email = o.email
      BY <3>1, <3>2
    <3>3. CASE x.uid = o.uid
      <4>1. o.email = w.email
        BY <1>1, <3>1, <3>3 DEF SingleAddress
      <4>. QED
        BY <1>1, <3>1, <4>1
    <3>. QED
      BY <1>4, <3>2, <3>3
  <2>. QED
    BY <2>1, <2>2
<1>. QED
  BY <1>3, <1>4

(* The row that was written becomes visible. *)
LEMMA CommittedInv ==
    ASSUME SingleAddress, UsersInv, NEW s \in SignIn, signIn[s].pc \in {"insert", "commit"}, Committed(s)
    PROVE  UsersInv'
<1>1. PICK q \in Provisioning :
        /\ q = signIn[s] /\ SignInFits(account, q) /\ DraftFits(account, q)
        /\ q.pc \in {"insert", "commit"} /\ q.token \in Token /\ q.user \in User
        /\ \A o \in SignIn \ {s} : WriteApart(q, signIn[o])
  BY Request1 DEF SignInFits
<1>2. \A o \in SignIn : signIn'[o] = IF o = s THEN NotSigningIn ELSE signIn[o]
  BY DEF Committed, UsersInv, UserTypes
<1>3. PICK A, B : A = account /\ B = account'
  OBVIOUS
<1>4. /\ A \in [User -> Account \cup {NoAccount}] /\ Rows(A)
      /\ \A o \in SignIn : /\ signIn[o] \in Provisioning
                           /\ DraftFits(A, signIn[o]) /\ SignInFits(A, signIn[o])
      /\ DraftFits(A, q)
  BY <1>1, <1>3 DEF UsersInv, UserTypes
<1>5. B = IF q.draft = NoAccount THEN A ELSE [A EXCEPT ![q.user] = q.draft]
  BY <1>1, <1>3 DEF Committed
<1>6. ASSUME NEW o \in SignIn, NEW p \in SignIn, o # p PROVE WriteApart(signIn'[o], signIn'[p])
  <2>1. CASE o = s \/ p = s
    BY <1>2, <2>1, Idle DEF WriteApart
  <2>2. CASE o # s /\ p # s
    BY <1>2, <1>6, <2>2 DEF UsersInv, OneWriter
  <2>. QED
    BY <2>1, <2>2
<1>7. /\ B \in [User -> Account \cup {NoAccount}] /\ Rows(B)
      /\ \A o \in SignIn \ {s} : DraftFits(B, signIn[o]) /\ SignInFits(B, signIn[o])
  <2>1. CASE q.draft = NoAccount
    BY <1>4, <1>5, <2>1
  <2>2. CASE q.draft # NoAccount
    <3>1. PICK u \in User, d \in Account :
            /\ u = q.user /\ d = q.draft /\ d # NoAccount /\ FromToken(d)
            /\ \A o \in User \ {u} : ~Clash(A[o], d)
            /\ \/ A[u] = NoAccount
               \/ d.uid = A[u].uid
               \/ /\ d.email = A[u].email /\ d.email = q.token.email
                  /\ d.uid = q.token.uid /\ q.token.verified
      BY <1>1, <1>4, <2>2 DEF DraftFits, Provisioning
    <3>2. \A o \in User : B[o] = IF o = u THEN d ELSE A[o]
      BY <1>4, <1>5, <2>2, <3>1
    <3>3. B \in [User -> Account \cup {NoAccount}]
      BY <1>4, <1>5, <3>1
    <3>4. Rows(B)
      BY <1>4, <3>1, <3>2 DEF Rows, Clash
    <3>5. ASSUME NEW o \in User, A[o] # NoAccount PROVE Succeeds(A[o], B[o])
      <4>1. FromToken(A[o])
        BY <1>4, <3>5 DEF Rows
      <4>2. CASE o # u
        BY <3>2, <4>1, <4>2 DEF Succeeds
      <4>3. CASE o = u
        BY <1>1, <3>1, <3>2, <3>5, <4>1, <4>3 DEF Succeeds
      <4>. QED
        BY <4>2, <4>3
    <3>6. ASSUME NEW o \in SignIn \ {s} PROVE DraftFits(B, signIn[o])
      <4>1. PICK p : p = signIn[o] /\ DraftFits(A, p) /\ WriteApart(q, p)
        BY <1>1, <1>4
      <4>2. p.draft # NoAccount => p.user # u /\ ~Clash(d, p.draft)
        BY <3>1, <4>1 DEF WriteApart, Writes, Clash
      <4>3. DraftFits(B, p)
        BY <3>2, <4>1, <4>2 DEF DraftFits
      <4>. QED
        BY <4>1, <4>3
    <3>7. ASSUME NEW o \in SignIn \ {s} PROVE SignInFits(B, signIn[o])
      <4>1. PICK p : p = signIn[o] /\ SignInFits(A, p)
        BY <1>4
      <4>2. p.pc \in {"relink", "refresh"} =>
              /\ p.user \in User /\ A[p.user] # NoAccount /\ B[p.user] # NoAccount /\ p.token \in Token
        BY <3>1, <3>2, <4>1 DEF SignInFits
      <4>3. p.pc = "relink" => B[p.user].uid = p.token.uid \/ B[p.user].email = p.token.email
        BY <3>5, <4>1, <4>2, Succession DEF SignInFits
      <4>4. p.pc = "refresh" => B[p.user].uid = p.token.uid
        BY <3>5, <4>1, <4>2, Succession DEF SignInFits
      <4>5. ASSUME p.retried, ~Contested(p.token.uid)
            PROVE  \E v \in User : B[v].uid = p.token.uid
        <5>1. PICK v \in User : A[v].uid = p.token.uid
          BY <4>1, <4>5 DEF SignInFits
        <5>2. p.token \in Token
          BY <4>1, <4>5 DEF SignInFits
        <5>3. A[v] # NoAccount
          BY <5>1, <5>2, Tokens
        <5>4. B[v].uid = A[v].uid
          BY <3>5, <4>5, <5>1, <5>3, Succession
        <5>. QED
          BY <5>1, <5>4
      <4>6. SignInFits(B, p)
        BY <4>1, <4>2, <4>3, <4>4, <4>5 DEF SignInFits
      <4>. QED
        BY <4>1, <4>6
    <3>. QED
      BY <3>3, <3>4, <3>6, <3>7
  <2>. QED
    BY <2>1, <2>2
<1>8. ASSUME NEW o \in SignIn PROVE DraftFits(B, signIn'[o]) /\ SignInFits(B, signIn'[o])
  BY <1>2, <1>7, Idle
<1>9. signIn' \in [SignIn -> Provisioning]
  BY Idle DEF Committed, UsersInv, UserTypes
<1>10. OneWriter(signIn')
  BY <1>6 DEF OneWriter
<1>. QED
  BY <1>3, <1>7, <1>8, <1>9, <1>10 DEF UsersInv, UserTypes

(* Every step keeps the invariant; those of memberships touch no row.      *)
LEMMA UsersNext == SingleAddress /\ UsersInv /\ [Next]_vars => UsersInv'
<1>. SUFFICES ASSUME SingleAddress, UsersInv, [Next]_vars PROVE UsersInv'
  OBVIOUS
<1>1. ASSUME UNCHANGED <<account, signIn>> PROVE UsersInv'
  BY <1>1 DEF UsersInv, UserTypes
<1>2. ASSUME NEW s \in SignIn, Provision(s) PROVE UsersInv'
  <2>1. CASE Commit(s)
    BY <2>1, CommittedInv DEF Commit
  <2>. QED
    BY <1>2, <2>1, ArriveInv, FindByUidInv, FindByEmailInv, CreateInv, RelinkInv, RefreshInv,
       BootstrapInv DEF Provision
<1>3. ASSUME NEW s \in SignIn, NEW w \in Workspace, InsertMember(s, w) PROVE UsersInv'
  BY <1>3, CommittedInv DEF InsertMember
<1>4. ASSUME NEW r \in Request, NEW u \in User,
             ChangeProfile(r, u) \/ Approve(r, u) \/ ApproveInNew(r, u) \/ Revoke(r, u)
      PROVE  UNCHANGED <<account, signIn>>
  BY <1>4 DEF ChangeProfile, Approve, ApproveInNew, Revoke, Begin, tables
<1>5. ASSUME NEW r \in Request,
             LockWorkspace(r) \/ AssertAdminRemains(r) \/ Write(r) \/ Insert(r) \/ Abort(r)
      PROVE  UNCHANGED <<account, signIn>>
  BY <1>5 DEF LockWorkspace, AssertAdminRemains, Write, Insert, Abort, tables
<1>6. CASE UNCHANGED vars
  BY <1>1, <1>6 DEF vars, tables
<1>. QED
  BY <1>1, <1>2, <1>3, <1>4, <1>5, <1>6 DEF Next, ProvisionStep

(* The inductive invariant, for any users, tokens and requests. *)
THEOREM Invariance == ASSUME SingleAddress PROVE Spec => []UsersInv
<1>1. MembersInit => UsersInv
  BY UsersInit
<1>2. UsersInv /\ [Next]_vars => UsersInv'
  BY UsersNext
<1>. QED
  BY <1>1, <1>2, PTL DEF Spec

(* The comment of provision, for any users, tokens and requests: a request *)
(* of a verified address that only one user has is never refused for the   *)
(* row of that user, however many of them race.                            *)
THEOREM AlwaysServed == ASSUME SingleAddress PROVE Spec => []FirstRequestsServed
<1>1. UsersInv => FirstRequestsServed
  BY DEF UsersInv, SignInFits, FirstRequestsServed
<1>. QED
  BY <1>1, Invariance, PTL

(* No two rows ever have a uid or an address in common, and each has those *)
(* of one token: the unique constraints are met by waiting for the rows    *)
(* that are being written.                                                 *)
THEOREM RowsApart == ASSUME SingleAddress PROVE Spec => []Rows(account)
<1>1. UsersInv => Rows(account)
  BY DEF UsersInv
<1>. QED
  BY <1>1, Invariance, PTL

-----------------------------------------------------------------------------
(* The administrators of a workspace.                                     *)

USE WorkspaceMembersAssumption, UserProvisioningAssumption

(* The inductive invariant: the types the argument needs, and more. *)
Types ==
    /\ member \in [User -> Member \cup {Pending}]
    /\ lock \in [Workspace -> Request \cup {NoOne}]
    /\ tx \in [Request -> Tx]
    /\ workspaces \subseteq Workspace

(* A member's workspace is one of those that exist. *)
InWorkspaces == \A u \in User : member[u] # Pending => member[u].workspace \in workspaces

(* One request at a time is about a user, and the membership it read is    *)
(* the one its user has.                                                   *)
OneByOne ==
    \A r \in Request : InProgress(r) =>
        /\ tx[r].target \in User
        /\ member[tx[r].target] = tx[r].seen
        /\ \A q \in Request \ {r} : InProgress(q) => tx[q].target # tx[r].target

(* What each stage has: a membership to change, its lock, and what was     *)
(* found under it.                                                         *)
StageFits(r) ==
    /\ tx[r].pc \in {"lock", "assert"} => tx[r].seen # Pending
    /\ tx[r].pc = "assert" => lock[tx[r].seen.workspace] = r
    /\ tx[r].pc = "write" /\ tx[r].seen # Pending =>
         lock[tx[r].seen.workspace] = r /\ ~LastAdmin(tx[r])
    /\ tx[r].pc = "write" /\ tx[r].seen = Pending => tx[r].next = Pending
    /\ tx[r].pc = "insert" => tx[r].next # Pending

Inv ==
    /\ Types
    /\ InWorkspaces
    /\ OneByOne
    /\ \A r \in Request : StageFits(r)
    /\ AdminRemains

(* No membership is the absence of one. *)
LEMMA PendingNotMember ==
    Pending \notin Member /\ \A m \in Member : m.workspace \in Workspace /\ m.profile \in Profile
  BY DEF Pending, Member

(* At the beginning nobody is a member and nothing is in progress. *)
LEMMA InitInv == MembersInit => Inv
<1>. SUFFICES ASSUME MembersInit PROVE Inv
  OBVIOUS
<1>1. Types
  BY DEF MembersInit, Init, Types, NoTx, Tx
<1>2. \A u \in User : member[u] = Pending
  BY DEF MembersInit, Init
<1>3. \A r \in Request : tx[r].pc = "idle"
  BY DEF MembersInit, NoTx
<1>4. AdminRemains
  BY <1>2 DEF AdminRemains, MembersOf, Pending
<1>. QED
  BY <1>1, <1>2, <1>3, <1>4 DEF Inv, InWorkspaces, OneByOne, StageFits, InProgress

-----------------------------------------------------------------------------
(* Steps of one request that leave the memberships alone. *)

(* What a request holds depends on its own record, its locks and the       *)
(* memberships of the workspace it read.                                   *)
LEMMA OtherStages ==
    ASSUME NEW q \in Request, StageFits(q), tx'[q] = tx[q], UNCHANGED member,
           \A w \in Workspace : lock[w] = q => lock'[w] = q,
           tx[q].seen # Pending => tx[q].seen.workspace \in Workspace
    PROVE  StageFits(q)'
<1>1. LastAdmin(tx[q])' = LastAdmin(tx[q])
  BY DEF LastAdmin, AdminsOf, MembersOf
<1>. QED
  BY <1>1 DEF StageFits

(* A request that writes nothing keeps the invariant if its new record     *)
(* fits and its target, if it has one, is still its own.                   *)
LEMMA RecordOnly ==
    ASSUME Inv, NEW r \in Request, NEW t \in Tx,
           tx' = [tx EXCEPT ![r] = t], UNCHANGED <<member, workspaces>>,
           lock' \in [Workspace -> Request \cup {NoOne}],
           \A q \in Request \ {r}, w \in Workspace : lock[w] = q => lock'[w] = q,
           InProgress(r)' => /\ t.target \in User /\ t.seen = member[t.target]
                             /\ \A q \in Request \ {r} : InProgress(q) => tx[q].target # t.target,
           StageFits(r)'
    PROVE  Inv'
<1>. USE DEF Inv
<1>1. tx'[r] = t /\ \A q \in Request \ {r} : tx'[q] = tx[q]
  BY DEF Types
<1>2. Types'
  BY DEF Types
<1>3. InWorkspaces' /\ AdminRemains'
  BY DEF InWorkspaces, AdminRemains, AdminsOf, MembersOf
<1>4. ASSUME NEW q \in Request \ {r} PROVE InProgress(q)' = InProgress(q)
  BY <1>1 DEF InProgress
<1>5. OneByOne'
  BY <1>1, <1>4 DEF OneByOne
<1>6. ASSUME NEW q \in Request PROVE StageFits(q)'
  <2>1. CASE q = r
    BY <2>1
  <2>2. CASE q # r
    <3>1. tx[q].seen # Pending => tx[q].seen.workspace \in Workspace
      BY PendingNotMember DEF Types, Tx
    <3>. QED
      BY <1>1, <2>2, <3>1, OtherStages
  <2>. QED
    BY <2>1, <2>2
<1>. QED
  BY <1>2, <1>3, <1>5, <1>6

(* A request that ends, or is cut off, without writing. *)
LEMMA EndInv ==
    ASSUME Inv, NEW r \in Request, NEW pc \in {"done", "refused"}, End(r, pc),
           UNCHANGED <<member, workspaces>>
    PROVE  Inv'
<1>. DEFINE t == [NoTx EXCEPT !.pc = pc]
<1>1. t \in Tx /\ t.pc = pc
  BY DEF Tx, NoTx
<1>2. tx'[r] = t
  BY DEF Inv, Types, End
<1>3. ~InProgress(r)' /\ StageFits(r)'
  BY <1>1, <1>2 DEF InProgress, StageFits
<1>4. lock' \in [Workspace -> Request \cup {NoOne}]
  BY DEF Inv, Types, End
<1>5. \A q \in Request \ {r}, w \in Workspace : lock[w] = q => lock'[w] = q
  BY DEF End
<1>6. tx' = [tx EXCEPT ![r] = t]
  BY DEF End
<1>. HIDE DEF t
<1>. QED
  BY <1>1, <1>3, <1>4, <1>5, <1>6, RecordOnly

(* A request that begins is the only one about its target. *)
LEMMA BeginInv ==
    ASSUME Inv, ~SameTarget, NEW r \in Request, NEW u \in User,
           NEW pc \in {"lock", "write", "insert"}, NEW next \in Member \cup {Pending},
           Begin(r, u, pc, next),
           pc = "lock" => member[u] # Pending,
           pc = "write" => member[u] = Pending /\ next = Pending,
           pc = "insert" => next # Pending
    PROVE  Inv'
<1>. DEFINE t == [pc |-> pc, target |-> u, seen |-> member[u], next |-> next]
<1>1. t \in Tx
  BY DEF Tx, Inv, Types
<1>2. tx' = [tx EXCEPT ![r] = t] /\ tx'[r] = t
  BY DEF Begin, Inv, Types
<1>3. \A q \in Request \ {r} : InProgress(q) => tx[q].target # u
  BY DEF Begin, MayChange
<1>4. StageFits(r)'
  BY <1>2 DEF StageFits
<1>5. UNCHANGED <<member, workspaces, lock>>
  BY DEF Begin, tables
<1>. QED
  BY <1>1, <1>2, <1>3, <1>4, <1>5, RecordOnly DEF Inv, Types

(* Whatever a request is for, its first step is a beginning. *)
LEMMA BeginsInv ==
    ASSUME Inv, ~SameTarget, NEW r \in Request, NEW u \in User,
           ChangeProfile(r, u) \/ Approve(r, u) \/ ApproveInNew(r, u) \/ Revoke(r, u)
    PROVE  Inv'
<1>0. member[u] \in Member \cup {Pending}
  BY DEF Inv, Types
<1>1. CASE ChangeProfile(r, u)
  <2>1. PICK p \in Profile : Begin(r, u, "lock", [member[u] EXCEPT !.profile = p])
    BY <1>1 DEF ChangeProfile
  <2>2. member[u] # Pending /\ [member[u] EXCEPT !.profile = p] \in Member
    BY <1>0, <1>1 DEF ChangeProfile, Member
  <2>. QED
    BY <2>1, <2>2, BeginInv
<1>2. CASE Approve(r, u) \/ ApproveInNew(r, u)
  <2>1. PICK w \in Workspace, p \in Profile :
          Begin(r, u, "insert", [workspace |-> w, profile |-> p])
    BY <1>2 DEF Approve, ApproveInNew, Inv, Types
  <2>2. /\ [workspace |-> w, profile |-> p] \in Member
        /\ [workspace |-> w, profile |-> p] # Pending
    BY PendingNotMember DEF Member
  <2>. QED
    BY <2>1, <2>2, BeginInv
<1>3. CASE Revoke(r, u)
  <2>1. CASE member[u] = Pending
    BY <1>3, <2>1, BeginInv DEF Revoke
  <2>2. CASE member[u] # Pending
    BY <1>3, <2>2, BeginInv DEF Revoke
  <2>. QED
    BY <2>1, <2>2
<1>. QED
  BY <1>1, <1>2, <1>3

-----------------------------------------------------------------------------
(* The steps under the lock. *)

(* Waiting for the lock, and deciding under it, write nothing. *)
LEMMA LockInv ==
    ASSUME Inv, NEW r \in Request, LockWorkspace(r) \/ AssertAdminRemains(r) \/ Abort(r)
    PROVE  Inv'
<1>. USE DEF Inv
<1>0. UNCHANGED <<member, workspaces>>
  BY DEF LockWorkspace, AssertAdminRemains, Abort, tables
<1>1. CASE LockWorkspace(r)
  <2>. DEFINE t == [tx[r] EXCEPT !.pc = "assert"]
              w == tx[r].seen.workspace
  <2>1. t \in Tx /\ t.target = tx[r].target /\ t.seen = tx[r].seen /\ t.pc = "assert"
    BY DEF Types, Tx
  <2>2. tx' = [tx EXCEPT ![r] = t] /\ tx'[r] = t
    BY <1>1 DEF LockWorkspace, Types
  <2>3. InProgress(r) /\ tx[r].seen # Pending /\ w \in Workspace
    BY <1>1, PendingNotMember DEF LockWorkspace, InProgress, StageFits, Types, Tx
  <2>4. lock' = [lock EXCEPT ![w] = r] /\ lock[w] = NoOne
    BY <1>1 DEF LockWorkspace
  <2>5. lock' \in [Workspace -> Request \cup {NoOne}] /\ lock'[w] = r
    BY <2>3, <2>4 DEF Types
  <2>6. \A q \in Request \ {r}, v \in Workspace : lock[v] = q => lock'[v] = q
    BY <2>4 DEF Types
  <2>7. StageFits(r)'
    BY <2>1, <2>2, <2>3, <2>5 DEF StageFits
  <2>8. /\ t.target \in User /\ t.seen = member[t.target]
        /\ \A q \in Request \ {r} : InProgress(q) => tx[q].target # t.target
    BY <2>1, <2>3 DEF OneByOne
  <2>. HIDE DEF t, w
  <2>. QED
    BY <1>0, <2>1, <2>2, <2>5, <2>6, <2>7, <2>8, RecordOnly
<1>2. CASE AssertAdminRemains(r) /\ ~LastAdmin(tx[r])
  <2>. DEFINE t == [tx[r] EXCEPT !.pc = "write"]
  <2>1. /\ t \in Tx /\ t.pc = "write"
        /\ t.target = tx[r].target /\ t.seen = tx[r].seen /\ t.next = tx[r].next
    BY DEF Types, Tx
  <2>2. tx' = [tx EXCEPT ![r] = t] /\ tx'[r] = t /\ UNCHANGED lock
    BY <1>2 DEF AssertAdminRemains, Types
  <2>3. /\ InProgress(r) /\ tx[r].seen # Pending
        /\ lock[tx[r].seen.workspace] = r
    BY <1>2 DEF AssertAdminRemains, InProgress, StageFits
  <2>4. ~LastAdmin(tx[r])'
    <3>. HIDE DEF t
    <3>. QED
      BY <1>0, <1>2, <2>1, <2>2 DEF LastAdmin, AdminsOf, MembersOf
  <2>5. StageFits(r)'
    BY <2>1, <2>2, <2>3, <2>4 DEF StageFits
  <2>6. /\ t.target \in User /\ t.seen = member[t.target]
        /\ \A q \in Request \ {r} : InProgress(q) => tx[q].target # t.target
    BY <2>1, <2>3 DEF OneByOne
  <2>7. lock' \in [Workspace -> Request \cup {NoOne}]
    BY <2>2 DEF Types
  <2>. HIDE DEF t
  <2>. QED
    BY <1>0, <2>1, <2>2, <2>5, <2>6, <2>7, RecordOnly
<1>3. CASE AssertAdminRemains(r) /\ LastAdmin(tx[r])
  BY <1>0, <1>3, EndInv DEF AssertAdminRemains
<1>4. CASE Abort(r)
  BY <1>0, <1>4, EndInv DEF Abort
<1>. QED
  BY <1>1, <1>2, <1>3, <1>4

-----------------------------------------------------------------------------
(* The steps that change a membership. *)

(* Only the workspaces a user leaves or enters have other members. *)
LEMMA OtherWorkspaces ==
    ASSUME Types, NEW u \in User, NEW m \in Member \cup {Pending},
           member' = [member EXCEPT ![u] = m],
           NEW w \in Workspace, w \notin {member[u].workspace, m.workspace}
    PROVE  MembersOf(w)' = MembersOf(w) /\ AdminsOf(w)' = AdminsOf(w)
<1>1. \A x \in User : member'[x] = IF x = u THEN m ELSE member[x]
  BY DEF Types
<1>2. MembersOf(w)' = MembersOf(w) /\ u \notin MembersOf(w)
  BY <1>1 DEF MembersOf
<1>3. \A x \in MembersOf(w) : member'[x] = member[x]
  BY <1>1, <1>2 DEF MembersOf
<1>. QED
  BY <1>2, <1>3 DEF AdminsOf

(* Whoever is still in progress after u's membership became m has kept its *)
(* record and its locks, is about somebody else, and does not count on     *)
(* what it found in a workspace that u left or entered.                    *)
OthersUntouched(u, m) ==
    \A q \in Request : InProgress(q)' =>
        /\ tx'[q] = tx[q] /\ tx[q].target # u
        /\ \A w \in Workspace : lock[w] = q => lock'[w] = q
        /\ tx[q].pc = "write" /\ tx[q].seen # Pending =>
             tx[q].seen.workspace \notin {member[u].workspace, m.workspace}

KeepsAdmin(w) == MembersOf(w)' # {} => AdminsOf(w)' # {}

(* One membership changes: the invariant is kept if the workspace left and *)
(* the one entered keep an ADMIN and nobody else counted on them.          *)
LEMMA OneMember ==
    ASSUME Inv, NEW u \in User, NEW m \in Member \cup {Pending},
           member' = [member EXCEPT ![u] = m],
           m # Pending => m.workspace \in workspaces',
           workspaces \subseteq workspaces', workspaces' \subseteq Workspace,
           tx' \in [Request -> Tx], lock' \in [Workspace -> Request \cup {NoOne}],
           OthersUntouched(u, m),
           \A w \in Workspace \cap {member[u].workspace, m.workspace} : KeepsAdmin(w)
    PROVE  Inv'
<1>7. Types
  BY DEF Inv
<1>. USE DEF Inv, OthersUntouched
<1>0. \A x \in User : member'[x] = IF x = u THEN m ELSE member[x]
  BY DEF Types
<1>1. Types'
  BY DEF Types
<1>2. InWorkspaces'
  BY <1>0 DEF InWorkspaces
<1>3. ASSUME NEW q \in Request, InProgress(q)' PROVE InProgress(q)
  BY <1>3 DEF InProgress
<1>4. OneByOne'
  BY <1>0, <1>3 DEF OneByOne
<1>5. ASSUME NEW q \in Request PROVE StageFits(q)'
  <2>1. CASE ~InProgress(q)'
    BY <2>1 DEF InProgress, StageFits
  <2>2. CASE InProgress(q)'
    <3>1. tx'[q] = tx[q] /\ \A w \in Workspace : lock[w] = q => lock'[w] = q
      BY <2>2
    <3>2. tx[q].seen # Pending => tx[q].seen.workspace \in Workspace
      BY PendingNotMember DEF Types, Tx
    <3>3. tx[q].pc = "write" /\ tx[q].seen # Pending => LastAdmin(tx[q])' = LastAdmin(tx[q])
      <4>. SUFFICES ASSUME tx[q].pc = "write", tx[q].seen # Pending
                    PROVE  LastAdmin(tx[q])' = LastAdmin(tx[q])
        OBVIOUS
      <4>. PICK w \in Workspace : w = tx[q].seen.workspace
        BY <3>2
      <4>1. w \notin {member[u].workspace, m.workspace}
        BY <2>2
      <4>2. MembersOf(w)' = MembersOf(w) /\ AdminsOf(w)' = AdminsOf(w)
        BY <1>7, <4>1, OtherWorkspaces DEF MembersOf, AdminsOf
      <4>3. MembersOf(tx[q].seen.workspace)' = MembersOf(tx[q].seen.workspace)
        BY <3>1, <4>2 DEF MembersOf
      <4>4. AdminsOf(tx[q].seen.workspace)' = AdminsOf(tx[q].seen.workspace)
        BY <3>1, <4>2 DEF AdminsOf, MembersOf
      <4>. QED
        BY <3>1, <4>3, <4>4 DEF LastAdmin
    <3>. QED
      BY <3>1, <3>2, <3>3 DEF StageFits
  <2>. QED
    BY <2>1, <2>2
<1>6. AdminRemains'
  <2>. SUFFICES ASSUME NEW w \in Workspace PROVE (MembersOf(w) # {} => AdminsOf(w) # {})'
    BY DEF AdminRemains
  <2>1. CASE w \in {member[u].workspace, m.workspace}
    BY <2>1 DEF KeepsAdmin
  <2>2. CASE w \notin {member[u].workspace, m.workspace}
    <3>1. MembersOf(w)' = MembersOf(w) /\ AdminsOf(w)' = AdminsOf(w)
      BY <1>7, <2>2, OtherWorkspaces DEF MembersOf, AdminsOf
    <3>. QED
      BY <3>1 DEF AdminRemains
  <2>. QED
    BY <2>1, <2>2
<1>. QED
  BY <1>1, <1>2, <1>4, <1>5, <1>6

(* UPDATE or DELETE: the workspace of the target is locked, and under that *)
(* lock an ADMIN was found to remain.                                      *)
LEMMA WriteInv ==
    ASSUME Inv, NEW r \in Request, Write(r) PROVE Inv'
<1>. USE DEF Inv
<1>. DEFINE u == tx[r].target
            seen == tx[r].seen
            next == tx[r].next
<1>1. tx[r].pc = "write" /\ InProgress(r)
  BY DEF Write, InProgress
<1>2. u \in User /\ member[u] = seen /\ next \in Member \cup {Pending} /\ seen \in Member \cup {Pending}
  BY <1>1 DEF OneByOne, Types, Tx
<1>3. CASE seen = Pending
  <2>1. member' = member
    BY <1>1, <1>2, <1>3 DEF Write, StageFits, Types
  <2>. QED
    BY <2>1, EndInv DEF Write
<1>4. CASE seen # Pending
  <2>. PICK m : m = IF next = Pending THEN Pending ELSE [seen EXCEPT !.profile = next.profile]
    OBVIOUS
  <2>. PICK w \in Workspace : w = seen.workspace
    BY <1>2, <1>4, PendingNotMember
  <2>1. member' = [member EXCEPT ![u] = m]
    BY <1>2, <1>4 DEF Write
  <2>2. seen \in Member /\ (next # Pending => next \in Member)
    BY <1>2, <1>4
  <2>3. m \in Member \cup {Pending} /\ m.workspace \in {w, "none"}
    BY <2>2 DEF Member, Pending
  <2>4. next # Pending => m.workspace = w /\ m.profile = next.profile
    BY <2>2 DEF Member
  <2>5. w \in workspaces
    BY <1>2, <1>4 DEF InWorkspaces
  <2>6. lock[w] = r /\ ~LastAdmin(tx[r])
    BY <1>1, <1>4 DEF StageFits
  <2>7. UNCHANGED workspaces /\ End(r, "done")
    BY DEF Write
  <2>8. /\ tx' \in [Request -> Tx] /\ ~InProgress(r)'
        /\ lock' \in [Workspace -> Request \cup {NoOne}]
    BY <2>7 DEF End, NoTx, Tx, Types, InProgress
  <2>9. OthersUntouched(u, m)
    <3>. SUFFICES ASSUME NEW q \in Request, InProgress(q)'
                  PROVE  /\ tx'[q] = tx[q] /\ tx[q].target # u
                         /\ \A v \in Workspace : lock[v] = q => lock'[v] = q
                         /\ tx[q].pc = "write" /\ tx[q].seen # Pending =>
                              tx[q].seen.workspace \notin {member[u].workspace, m.workspace}
      BY DEF OthersUntouched
    <3>1. q # r
      BY <2>8
    <3>2. tx'[q] = tx[q] /\ \A v \in Workspace : lock[v] = q => lock'[v] = q
      BY <2>7, <3>1 DEF End, Types
    <3>3. InProgress(q)
      BY <3>2 DEF InProgress
    <3>4. tx[q].target # u
      BY <1>1, <3>1, <3>3 DEF OneByOne
    <3>5. tx[q].pc = "write" /\ tx[q].seen # Pending =>
            tx[q].seen.workspace # w /\ tx[q].seen.workspace \in Workspace
      BY <2>6, <3>1, PendingNotMember DEF StageFits, Types, Tx
    <3>. QED
      BY <1>2, <2>3, <3>2, <3>4, <3>5
  <2>10. KeepsAdmin(w)
    <3>. USE DEF KeepsAdmin
    <3>1. \A x \in User : member'[x] = IF x = u THEN m ELSE member[x]
      BY <2>1, <1>2 DEF Types
    <3>2. u \in MembersOf(w)
      BY <1>2 DEF MembersOf
    <3>3. AdminsOf(w) # {}
      BY <3>2 DEF AdminRemains
    <3>4. AdminsOf(w) \ {u} \subseteq AdminsOf(w)'
      BY <3>1 DEF AdminsOf, MembersOf
    <3>5. CASE AdminsOf(w) \ {u} # {}
      BY <3>4, <3>5
    <3>6. CASE AdminsOf(w) = {u} /\ next.profile = "ADMIN"
      <4>1. next # Pending
        BY <3>6 DEF Pending
      <4>2. member'[u].workspace = w /\ member'[u].profile = "ADMIN"
        BY <1>2, <2>4, <3>1, <3>6, <4>1
      <4>3. u \in AdminsOf(w)'
        BY <1>2, <4>2 DEF AdminsOf, MembersOf
      <4>. QED
        BY <4>3
    <3>7. CASE AdminsOf(w) = {u} /\ next.profile # "ADMIN"
      <4>1. seen.profile = "ADMIN"
        BY <3>7, <1>2 DEF AdminsOf
      <4>2. next = Pending /\ MembersOf(w) \ {u} = {}
        BY <2>6, <3>7, <4>1 DEF LastAdmin
      <4>3. m = Pending
        BY <4>2
      <4>4. MembersOf(w)' = {}
        BY <3>1, <4>2, <4>3 DEF MembersOf, Pending
      <4>. QED
        BY <4>4
    <3>. QED
      BY <3>3, <3>5, <3>6, <3>7
  <2>11. \A v \in Workspace \cap {member[u].workspace, m.workspace} : KeepsAdmin(v)
    BY <1>2, <2>3, <2>10
  <2>12. m # Pending => m.workspace \in workspaces'
    BY <2>4, <2>5, <2>7
  <2>. HIDE DEF u, seen, next
  <2>. QED
    BY <1>2, <2>1, <2>3, <2>12, <2>7, <2>8, <2>9, <2>11, OneMember DEF Types
<1>. QED
  BY <1>2, <1>3, <1>4

(* INSERT: nobody holds the workspace, so nobody counts on what it found   *)
(* there; the one who enters is its ADMIN or finds one.                    *)
LEMMA InsertInv ==
    ASSUME Inv, ~AnyFirst, NEW r \in Request, Insert(r) PROVE Inv'
<1>. USE DEF Inv
<1>. DEFINE u == tx[r].target
<1>. PICK m : m = tx[r].next
  OBVIOUS
<1>. PICK w : w = m.workspace
  OBVIOUS
<1>1. tx[r].pc = "insert" /\ InProgress(r)
  BY DEF Insert, InProgress
<1>2. u \in User /\ m \in Member /\ w \in Workspace /\ lock[w] = NoOne
  BY <1>1, PendingNotMember DEF OneByOne, Types, Tx, StageFits, Insert
<1>3. CASE member[u] # Pending
  <2>1. End(r, "refused") /\ UNCHANGED <<member, workspaces>>
    BY <1>3 DEF Insert
  <2>. QED
    BY <2>1, EndInv
<1>4. CASE member[u] = Pending
  <2>1. /\ member' = [member EXCEPT ![u] = m]
        /\ workspaces' = workspaces \cup {w}
        /\ End(r, "done")
        /\ m.profile = "ADMIN" \/ MembersOf(w) # {}
    BY <1>4 DEF Insert
  <2>2. /\ tx' \in [Request -> Tx] /\ ~InProgress(r)'
        /\ lock' \in [Workspace -> Request \cup {NoOne}]
    BY <2>1 DEF End, NoTx, Tx, Types, InProgress
  <2>3. member[u].workspace = "none" /\ "none" \notin Workspace
    BY <1>4 DEF Pending
  <2>4. OthersUntouched(u, m)
    <3>. SUFFICES ASSUME NEW q \in Request, InProgress(q)'
                  PROVE  /\ tx'[q] = tx[q] /\ tx[q].target # u
                         /\ \A v \in Workspace : lock[v] = q => lock'[v] = q
                         /\ tx[q].pc = "write" /\ tx[q].seen # Pending =>
                              tx[q].seen.workspace \notin {member[u].workspace, m.workspace}
      BY DEF OthersUntouched
    <3>1. q # r
      BY <2>2
    <3>2. tx'[q] = tx[q] /\ \A v \in Workspace : lock[v] = q => lock'[v] = q
      BY <2>1, <3>1 DEF End, Types
    <3>3. InProgress(q)
      BY <3>2 DEF InProgress
    <3>4. tx[q].target # u
      BY <1>1, <3>1, <3>3 DEF OneByOne
    <3>5. tx[q].pc = "write" /\ tx[q].seen # Pending =>
            tx[q].seen.workspace # w /\ tx[q].seen.workspace \in Workspace
      BY <1>2, PendingNotMember DEF StageFits, Types, Tx
    <3>. QED
      BY <2>3, <3>2, <3>4, <3>5
  <2>5. KeepsAdmin(w)
    <3>1. \A x \in User : member'[x] = IF x = u THEN m ELSE member[x]
      BY <1>2, <2>1 DEF Types
    <3>2. CASE m.profile = "ADMIN"
      <4>1. u \in AdminsOf(w)'
        BY <1>2, <3>1, <3>2 DEF AdminsOf, MembersOf
      <4>. QED
        BY <4>1 DEF KeepsAdmin
    <3>3. CASE MembersOf(w) # {}
      <4>1. PICK x \in AdminsOf(w) : TRUE
        BY <1>2, <3>3 DEF AdminRemains
      <4>2. x \in AdminsOf(w)'
        BY <1>2, <2>3, <3>1, <4>1 DEF AdminsOf, MembersOf
      <4>. QED
        BY <4>2 DEF KeepsAdmin
    <3>. QED
      BY <2>1, <3>2, <3>3
  <2>6. \A v \in Workspace \cap {member[u].workspace, m.workspace} : KeepsAdmin(v)
    BY <2>3, <2>5
  <2>7. /\ m \in Member \cup {Pending} /\ m.workspace \in workspaces'
        /\ workspaces \subseteq workspaces' /\ workspaces' \subseteq Workspace
    BY <1>2, <2>1 DEF Types
  <2>. HIDE DEF u
  <2>. QED
    BY <1>2, <2>1, <2>2, <2>4, <2>6, <2>7, OneMember
<1>. QED
  BY <1>3, <1>4

-----------------------------------------------------------------------------
(* The other steps, and the theorem. *)

(* Steps that change no membership and no request's record. *)
LEMMA MembersAlone ==
    ASSUME Inv, UNCHANGED <<member, requests>>,
           workspaces \subseteq workspaces', workspaces' \subseteq Workspace
    PROVE  Inv'
<1>. USE DEF Inv, requests
<1>1. Types' /\ InWorkspaces' /\ OneByOne' /\ AdminRemains'
  BY DEF Types, InWorkspaces, OneByOne, InProgress, AdminRemains, AdminsOf, MembersOf
<1>2. ASSUME NEW q \in Request PROVE StageFits(q)'
  BY PendingNotMember, OtherStages DEF Types, Tx
<1>. QED
  BY <1>1, <1>2

(* A sign-in writes users and, at its end, at most one membership: that of *)
(* its user, pending until then, as the ADMIN of a workspace nobody has.   *)
LEMMA ProvisionInv ==
    ASSUME Inv, ~SameTarget, NEW s \in SignIn, ProvisionStep(s) PROVE Inv'
<1>. USE DEF Inv
<1>1. CASE Provision(s)
  <2>1. UNCHANGED <<member, workspaces>>
    BY <1>1 DEF Provision, Arrive, FindByUid, FindByEmail, Create, Relink, Refresh, Promote,
                MemberExists, Commit, Fail, WriteAccount, Retry, Refuse, Continue, tables
  <2>. QED
    BY <2>1, MembersAlone DEF ProvisionStep, Types
<1>2. CASE /\ MayChange(signIn[s].user)
           /\ \E w \in Workspace : Fresh(w) /\ InsertMember(s, w)
  <2>. PICK w \in Workspace : Fresh(w) /\ InsertMember(s, w)
    BY <1>2
  <2>. PICK u : u = signIn[s].user
    OBVIOUS
  <2>. PICK m : m = [workspace |-> w, profile |-> "ADMIN"]
    OBVIOUS
  <2>1. /\ member' = [member EXCEPT ![u] = m]
        /\ workspaces' = workspaces \cup {w}
        /\ member[u] = Pending
        /\ UNCHANGED <<lock, tx>>
    BY DEF InsertMember, ProvisionStep, requests
  <2>2. workspaces \subseteq workspaces' /\ workspaces' \subseteq Workspace
    BY <2>1 DEF Types
  <2>3. CASE u \notin User
    <3>1. UNCHANGED member
      BY <2>1, <2>3 DEF Types
    <3>. QED
      BY <2>1, <2>2, <3>1, MembersAlone DEF requests
  <2>4. CASE u \in User
    <3>1. m \in Member /\ m.workspace = w /\ m.profile = "ADMIN"
      BY DEF Member
    <3>2. member[u].workspace = "none" /\ "none" \notin Workspace
      BY <2>1 DEF Pending
    <3>3. OthersUntouched(u, m)
      <4>. SUFFICES ASSUME NEW q \in Request, InProgress(q)'
                    PROVE  /\ tx'[q] = tx[q] /\ tx[q].target # u
                           /\ \A v \in Workspace : lock[v] = q => lock'[v] = q
                           /\ tx[q].pc = "write" /\ tx[q].seen # Pending =>
                                tx[q].seen.workspace \notin {member[u].workspace, m.workspace}
        BY DEF OthersUntouched
      <4>1. InProgress(q)
        BY <2>1 DEF InProgress
      <4>2. tx[q].target # u
        BY <1>2, <4>1 DEF MayChange
      <4>3. tx[q].seen # Pending =>
              tx[q].seen.workspace \in workspaces /\ tx[q].seen.workspace \in Workspace
        BY <4>1 DEF OneByOne, InWorkspaces, Types
      <4>4. w \notin workspaces
        BY DEF Fresh
      <4>. QED
        BY <2>1, <3>1, <3>2, <4>2, <4>3, <4>4
    <3>4. KeepsAdmin(w)
      <4>1. u \in AdminsOf(w)'
        BY <2>1, <2>4, <3>1 DEF AdminsOf, MembersOf, Types
      <4>. QED
        BY <4>1 DEF KeepsAdmin
    <3>5. \A v \in Workspace \cap {member[u].workspace, m.workspace} : KeepsAdmin(v)
      BY <3>1, <3>2, <3>4
    <3>6. /\ tx' \in [Request -> Tx] /\ lock' \in [Workspace -> Request \cup {NoOne}]
          /\ m.workspace \in workspaces'
      BY <2>1, <3>1 DEF Types
    <3>. QED
      BY <2>1, <2>2, <2>4, <3>1, <3>3, <3>5, <3>6, OneMember
  <2>. QED
    BY <2>3, <2>4
<1>. QED
  BY <1>1, <1>2 DEF ProvisionStep

(* Every step keeps the invariant, under the two hypotheses. *)
LEMMA NextInv ==
    ASSUME Inv, ~SameTarget, ~AnyFirst, [Next]_vars PROVE Inv'
<1>1. CASE UNCHANGED vars
  BY <1>1, MembersAlone DEF vars, tables, Inv, Types
<1>2. ASSUME NEW s \in SignIn, ProvisionStep(s) PROVE Inv'
  BY <1>2, ProvisionInv
<1>3. ASSUME NEW r \in Request, NEW u \in User,
             ChangeProfile(r, u) \/ Approve(r, u) \/ ApproveInNew(r, u) \/ Revoke(r, u)
      PROVE  Inv'
  BY <1>3, BeginsInv
<1>4. ASSUME NEW r \in Request,
             LockWorkspace(r) \/ AssertAdminRemains(r) \/ Abort(r)
      PROVE  Inv'
  BY <1>4, LockInv
<1>5. ASSUME NEW r \in Request, Write(r) PROVE Inv'
  BY <1>5, WriteInv
<1>6. ASSUME NEW r \in Request, Insert(r) PROVE Inv'
  BY <1>6, InsertInv
<1>. QED
  BY <1>1, <1>2, <1>3, <1>4, <1>5, <1>6 DEF Next

(* INV-0021-07, of UserService.grantProfile and revokeProfile, with the    *)
(* sign-ins that bootstrap an administrator beside them: unless two        *)
(* requests change the same user at the same time or somebody is approved  *)
(* into an empty workspace without being made its ADMIN, a workspace that  *)
(* has members has an ADMIN.                                               *)
THEOREM AdminAlwaysRemains ==
    ASSUME ~SameTarget, ~AnyFirst PROVE Spec => []AdminRemains
<1>1. MembersInit => Inv
  BY InitInv
<1>2. Inv /\ [Next]_vars => Inv'
  BY NextInv
<1>3. Inv => AdminRemains
  BY DEF Inv
<1>. QED
  BY <1>1, <1>2, <1>3, PTL DEF Spec
=============================================================================
