---------------------------- MODULE LoginProofs ----------------------------
(***************************************************************************)
(* Login, for any people, addresses, sessions and number of rows: its      *)
(* types, and that nobody is entered twice or signed in without a row.     *)
(***************************************************************************)
EXTENDS Login, TLAPS

\* The new account is in the type of rows.
LEMMA NewAccountType ==
  ASSUME NEW p \in People
  PROVE  NewAccount(p) \in Account /\ ~NewAccount(p).admin
BY DirectoryAssumption DEF NewAccount, Account

\* An account is no NULL, nor is a SessionUser.
LEMMA NotNull ==
  /\ NULL \notin Account
  /\ NULL \notin SessionUser
  /\ NULL \notin UserIds
BY NobodyAssumption DEF Account, SessionUser, Roles

\* The one way in which a row comes to hold another account: what was recorded
\* stays recorded, and the unique indexes keep the rows apart.
LEMMA WriteKeeps ==
  ASSUME LoginInv, NEW id \in UserIds, NEW account \in Account,
         Distinct(account, id) \/ Distinct(account, NULL), Write(id, account)
  PROVE  /\ user' \in [UserIds -> Account \cup {NULL}]
         /\ registered' \subseteq People /\ registered \subseteq registered'
         /\ granted' \subseteq People /\ granted \subseteq granted'
         /\ account.username \in registered'
         /\ OneRowPerPerson'
         /\ RowsAreRecorded'
<1>1. user \in [UserIds -> Account \cup {NULL}] /\ registered \subseteq People
      /\ granted \subseteq People
  BY DEF LoginInv, LoginTypeOK
<1>2. account.username \in People /\ account.admin \in BOOLEAN
  BY DEF Account
<1>3. user' \in [UserIds -> Account \cup {NULL}]
  BY <1>1 DEF Write
<1>4. /\ registered' = registered \cup {account.username}
      /\ granted \subseteq granted' /\ granted' \subseteq People
      /\ account.admin => account.username \in granted'
  BY <1>1, <1>2 DEF Write
<1>5. \A a \in UserIds : user'[a] = IF a = id THEN account ELSE user[a]
  BY <1>1 DEF Write
<1>6. Rows' \subseteq Rows \cup {id}
  BY <1>5 DEF Rows
<1>7. \A other \in Rows \ {id} :
        user[other].username # account.username /\ user[other].email # account.email
  BY NotNull DEF Distinct, Rows
<1>8. OneRowPerPerson'
  BY <1>5, <1>6, <1>7 DEF LoginInv, OneRowPerPerson, Rows
<1>9. RowsAreRecorded'
  BY <1>4, <1>5, <1>6 DEF LoginInv, RowsAreRecorded, Rows
<1> QED BY <1>1, <1>2, <1>3, <1>4, <1>8, <1>9

\* A step that records no less keeps right what sessions and logins have.
LEMMA RecordsGrow ==
  ASSUME LoginInv, registered \subseteq registered', granted \subseteq granted'
  PROVE  /\ UNCHANGED session => SessionsAreRegistered' /\ AdministratorsWereGranted'
         /\ \A s \in Sessions : request'[s] = request[s] => AskedIsRecorded(s)'
<1>1. UNCHANGED session => SessionsAreRegistered' /\ AdministratorsWereGranted'
  BY DEF LoginInv, SessionsAreRegistered, AdministratorsWereGranted
<1>2. ASSUME NEW s \in Sessions, request'[s] = request[s] PROVE AskedIsRecorded(s)'
  BY <1>2 DEF LoginInv, AskedIsRecorded
<1> QED BY <1>1, <1>2

\* Idle is a request, and has nothing that could be wrong.
LEMMA IdleIsRequest == Idle \in Request
BY DEF Idle, Request

\* The request of s is over, the tables record no less, the sessions are as before.
LEMMA DoneKeeps ==
  ASSUME LoginInv, NEW s \in Sessions, Done(s), UNCHANGED session,
         registered \subseteq registered', granted \subseteq granted',
         user' \in [UserIds -> Account \cup {NULL}], nextUser' \in 1..(MaxRows + 1),
         registered' \subseteq People, granted' \subseteq People,
         OneRowPerPerson', RowsAreRecorded'
  PROVE  LoginInv'
<1>1. /\ request' \in [Sessions -> Request]
      /\ request'[s] = Idle
      /\ \A t \in Sessions \ {s} : request'[t] = request[t]
  BY IdleIsRequest DEF Done, LoginInv, LoginTypeOK
<1>2. LoginTypeOK'
  BY <1>1 DEF LoginInv, LoginTypeOK, Idle
<1>3. \A t \in Sessions : AskedIsRecorded(t)'
  BY <1>1, RecordsGrow DEF AskedIsRecorded, Idle
<1> QED BY <1>2, <1>3, RecordsGrow DEF LoginInv

\* What flush() writes is an account.
LEMMA EditedType ==
  ASSUME LoginInv, NEW s \in Sessions, request[s].at = "edited", request[s].id \in Rows
  PROVE  EditedAccount(s) \in Account
<1>1. /\ request[s].loaded \in Account /\ request[s].submitted \in Account
      /\ user[request[s].id] \in Account
  BY DEF LoginInv, LoginTypeOK, Request, Rows
<1> QED BY <1>1 DEF EditedAccount, Account, Saved

\* Every step of every request, and of nobody, preserves the invariant.
LEMMA NextLoginInv ==
  ASSUME LoginInv, [Next]_loginVars
  PROVE  LoginInv'
<1>0. /\ user \in [UserIds -> Account \cup {NULL}]
      /\ nextUser \in 1..(MaxRows + 1)
      /\ session \in [Sessions -> SessionUser \cup {NULL}]
      /\ request \in [Sessions -> Request]
      /\ registered \subseteq People /\ granted \subseteq People
      /\ OneRowPerPerson /\ RowsAreRecorded
  BY DEF LoginInv, LoginTypeOK
<1>a. ASSUME NEW s \in Sessions, Done(s), NothingWritten, UNCHANGED session
      PROVE  LoginInv'
  <2>1. OneRowPerPerson' /\ RowsAreRecorded'
    BY <1>0, <1>a DEF NothingWritten, OneRowPerPerson, RowsAreRecorded, Rows
  <2> QED BY <1>0, <1>a, <2>1, DoneKeeps DEF NothingWritten
<1>b. ASSUME NEW account \in Account, Insert(account)
      PROVE  /\ user' \in [UserIds -> Account \cup {NULL}]
             /\ nextUser' \in 1..(MaxRows + 1)
             /\ registered' \subseteq People /\ registered \subseteq registered'
             /\ granted' \subseteq People /\ granted \subseteq granted'
             /\ account.username \in registered'
             /\ OneRowPerPerson' /\ RowsAreRecorded'
  <2>1. nextUser \in UserIds /\ Distinct(account, NULL) /\ Write(nextUser, account)
    BY <1>b DEF Insert, Insertable
  <2>2. nextUser' \in 1..(MaxRows + 1)
    BY <1>0, <1>b, <2>1, DirectoryAssumption DEF Insert, UserIds
  <2> QED BY <2>1, <2>2, WriteKeeps
<1>1. ASSUME NEW s \in Sessions, NEW p \in People, NEW right \in BOOLEAN,
             LoginSearch(s, p, right)
      PROVE  LoginInv'
  <2>1. /\ RolesOf(p) \in SUBSET Roles
        /\ "ROLE_ADMIN" \in RolesOf(p) => p \in granted
    BY <1>0 DEF RolesOf, Roles, RowsAreRecorded
  <2>2. (\E id \in Rows : user[id].username = p) => p \in registered
    BY <1>0 DEF RowsAreRecorded
  <2> DEFINE asked == [username |-> p, roles |-> RolesOf(p)]
  <2> DEFINE at == IF \E id \in Rows : user[id].username = p THEN "known" ELSE "unknown"
  <2>3. asked \in SessionUser /\ asked # NULL
    BY <2>1, NotNull DEF SessionUser
  <2>4. request' = [request EXCEPT ![s] =
          [Idle EXCEPT !.at = at, !.asked = asked, !.right = right]]
    BY <1>1 DEF LoginSearch
  <2>5. /\ request' \in [Sessions -> Request]
        /\ request'[s].at = at /\ request'[s].asked = asked
        /\ \A t \in Sessions \ {s} : request'[t] = request[t]
    <3>1. [Idle EXCEPT !.at = at, !.asked = asked, !.right = right] \in Request
      BY <2>3 DEF Idle, Request
    <3> HIDE DEF asked, at
    <3> QED BY <1>0, <2>4, <3>1 DEF Idle
  <2>6. LoginTypeOK'
    BY <1>0, <1>1, <2>3, <2>5 DEF LoginInv, LoginTypeOK, LoginSearch, NothingWritten
  <2>7. AskedIsRecorded(s)'
    BY <1>1, <2>1, <2>2, <2>5 DEF AskedIsRecorded, LoginSearch, NothingWritten
  <2>8. \A t \in Sessions : AskedIsRecorded(t)'
    BY <1>1, <2>5, <2>7, RecordsGrow DEF LoginSearch, NothingWritten
  <2>9. OneRowPerPerson' /\ RowsAreRecorded'
    BY <1>0, <1>1 DEF LoginSearch, NothingWritten, OneRowPerPerson, RowsAreRecorded, Rows
  <2> QED
    BY <1>1, <2>6, <2>8, <2>9, RecordsGrow DEF LoginInv, LoginSearch, NothingWritten
<1>2. ASSUME NEW s \in Sessions, LoginInsert(s) PROVE LoginInv'
  <2> DEFINE p == request[s].asked.username
  <2>1. request[s].asked \in SessionUser /\ p \in People
    BY <1>0, <1>2 DEF LoginInsert, LoginInv, LoginTypeOK, Request, SessionUser
  <2>2. /\ NewAccount(p) \in Account /\ NewAccount(p).username = p
        /\ Insert(NewAccount(p))
    BY <1>2, <2>1, NewAccountType DEF LoginInsert, NewAccount
  <2>3. /\ request' \in [Sessions -> Request]
        /\ request'[s] = [request[s] EXCEPT !.at = "known"]
        /\ \A t \in Sessions \ {s} : request'[t] = request[t]
    BY <1>0, <1>2 DEF LoginInsert, Request
  <2>4. request'[s].at = "known" /\ request'[s].asked = request[s].asked
    BY <1>0, <2>3 DEF Request
  <2>5. LoginTypeOK'
    BY <1>0, <1>2, <1>b, <2>1, <2>2, <2>3, <2>4, NotNull
    DEF LoginInv, LoginTypeOK, LoginInsert
  <2>6. AskedIsRecorded(s)'
    BY <1>2, <1>b, <2>2, <2>4 DEF LoginInv, AskedIsRecorded, LoginInsert
  <2>7. \A t \in Sessions : AskedIsRecorded(t)'
    BY <1>b, <2>2, <2>3, <2>6, RecordsGrow
  <2> QED BY <1>2, <1>b, <2>2, <2>5, <2>7, RecordsGrow DEF LoginInv, LoginInsert
<1>3. ASSUME NEW s \in Sessions, LoginBind(s) PROVE LoginInv'
  <2>1. /\ request' \in [Sessions -> Request]
        /\ request'[s] = Idle
        /\ \A t \in Sessions \ {s} : request'[t] = request[t]
    BY <1>0, <1>3, IdleIsRequest DEF LoginBind, Done
  <2>2. /\ request[s].asked \in SessionUser
        /\ request[s].asked.username \in registered
        /\ "ROLE_ADMIN" \in request[s].asked.roles => request[s].asked.username \in granted
    BY <1>0, <1>3 DEF LoginBind, LoginInv, LoginTypeOK, AskedIsRecorded, Request
  <2>3. /\ session' \in [Sessions -> SessionUser \cup {NULL}]
        /\ session'[s] \in {request[s].asked, NULL}
        /\ \A t \in Sessions \ {s} : session'[t] = session[t]
    BY <1>0, <1>3, <2>2 DEF LoginBind
  <2>4. LoginTypeOK'
    BY <1>0, <1>3, <2>1, <2>3 DEF LoginInv, LoginTypeOK, LoginBind, NothingWritten, Idle
  <2>5. SessionsAreRegistered' /\ AdministratorsWereGranted'
    BY <1>3, <2>2, <2>3
    DEF LoginInv, SessionsAreRegistered, AdministratorsWereGranted, LoginBind, NothingWritten
  <2>6. \A t \in Sessions : AskedIsRecorded(t)'
    BY <1>3, <2>1, RecordsGrow DEF AskedIsRecorded, Idle, LoginBind, NothingWritten
  <2>7. OneRowPerPerson' /\ RowsAreRecorded'
    BY <1>0, <1>3 DEF LoginBind, NothingWritten, OneRowPerPerson, RowsAreRecorded, Rows
  <2> QED BY <2>4, <2>5, <2>6, <2>7 DEF LoginInv
<1>4. ASSUME NEW s \in Sessions, Logout(s) PROVE LoginInv'
  <2>1. /\ session' \in [Sessions -> SessionUser \cup {NULL}]
        /\ session'[s] = NULL
        /\ \A t \in Sessions \ {s} : session'[t] = session[t]
    BY <1>0, <1>4 DEF Logout
  <2>2. LoginTypeOK'
    BY <1>4, <2>1 DEF LoginInv, LoginTypeOK, Logout, NothingWritten
  <2>3. SessionsAreRegistered' /\ AdministratorsWereGranted'
    BY <1>4, <2>1
    DEF LoginInv, SessionsAreRegistered, AdministratorsWereGranted, Logout, NothingWritten
  <2>4. \A t \in Sessions : AskedIsRecorded(t)'
    BY <1>4, RecordsGrow DEF Logout, NothingWritten
  <2>5. OneRowPerPerson' /\ RowsAreRecorded'
    BY <1>0, <1>4 DEF Logout, NothingWritten, OneRowPerPerson, RowsAreRecorded, Rows
  <2> QED BY <2>2, <2>3, <2>4, <2>5 DEF LoginInv
<1>5. ASSUME NEW s \in Sessions, NEW account \in Account, UserNew(s, account)
      PROVE  LoginInv'
  <2>1. LoginTypeOK'
    BY <1>0, <1>5, <1>b DEF LoginInv, LoginTypeOK, UserNew
  <2> QED BY <1>5, <1>b, <2>1, RecordsGrow DEF LoginInv, UserNew
<1>6. ASSUME NEW s \in Sessions, NEW id \in UserIds, UserDrop(s, id) PROVE LoginInv'
  <2>1. /\ user' \in [UserIds -> Account \cup {NULL}]
        /\ Rows' \subseteq Rows
        /\ \A a \in Rows' : user'[a] = user[a]
    BY <1>0, <1>6 DEF UserDrop, Rows
  <2>2. LoginTypeOK' /\ OneRowPerPerson' /\ RowsAreRecorded'
    BY <1>0, <1>6, <2>1 DEF LoginInv, LoginTypeOK, OneRowPerPerson, RowsAreRecorded, UserDrop
  <2> QED BY <1>6, <2>2, RecordsGrow DEF LoginInv, UserDrop
<1>7. ASSUME NEW s \in Sessions, NEW id \in UserIds, NEW account \in Account,
             UserEditPost(s, id, account)
      PROVE  LoginInv'
  <2>1. user[id] \in Account
    BY <1>0, <1>7 DEF UserEditPost, Rows
  <2>2. /\ request' \in [Sessions -> Request]
        /\ request'[s].at = "edited"
        /\ request'[s].id = id /\ request'[s].loaded = user[id] /\ request'[s].submitted = account
        /\ \A t \in Sessions \ {s} : request'[t] = request[t]
    BY <1>0, <1>7, <2>1 DEF UserEditPost, Idle, Request
  <2>3. LoginTypeOK'
    BY <1>0, <1>7, <2>1, <2>2, NotNull
    DEF LoginInv, LoginTypeOK, UserEditPost, NothingWritten
  <2>4. \A t \in Sessions : AskedIsRecorded(t)'
    BY <1>7, <2>2, RecordsGrow DEF AskedIsRecorded, UserEditPost, NothingWritten
  <2>5. OneRowPerPerson' /\ RowsAreRecorded'
    BY <1>0, <1>7 DEF UserEditPost, NothingWritten, OneRowPerPerson, RowsAreRecorded, Rows
  <2> QED
    BY <1>7, <2>3, <2>4, <2>5, RecordsGrow DEF LoginInv, UserEditPost, NothingWritten
<1>8. ASSUME NEW s \in Sessions, UserEditFlush(s) PROVE LoginInv'
  <2>1. CASE request[s].id \in Rows
    <3>1. /\ request[s].id \in UserIds /\ EditedAccount(s) \in Account
          /\ Distinct(EditedAccount(s), request[s].id)
          /\ Write(request[s].id, EditedAccount(s))
      BY <1>8, <2>1, EditedType DEF UserEditFlush, UserEditPermitted, Rows
    <3> QED BY <1>0, <1>8, <3>1, WriteKeeps, DoneKeeps DEF UserEditFlush
  <2>2. CASE request[s].id \notin Rows
    BY <1>8, <1>a, <2>2 DEF UserEditFlush, NothingWritten
  <2> QED BY <2>1, <2>2
<1>9. ASSUME NEW s \in Sessions, LoginRefused(s) \/ UserEditRefused(s) \/ Abort(s)
      PROVE  LoginInv'
  BY <1>9, <1>a DEF LoginRefused, UserEditRefused, Abort
<1>10. CASE UNCHANGED loginVars
  BY <1>10
  DEF loginVars, LoginInv, LoginTypeOK, OneRowPerPerson, RowsAreRecorded, AskedIsRecorded,
      SessionsAreRegistered, AdministratorsWereGranted, Rows
<1> QED
  BY <1>1, <1>2, <1>3, <1>4, <1>5, <1>6, <1>7, <1>8, <1>9, <1>10 DEF Next, Visit, Answer

LEMMA InitLoginInv == Init => LoginInv
<1> SUFFICES ASSUME Init PROVE LoginInv
  OBVIOUS
<1> DEFINE founder == [NewAccount(Founder) EXCEPT !.admin = TRUE]
<1>1. founder \in Account /\ founder.username = Founder
  BY DirectoryAssumption DEF NewAccount, Account
<1>2. /\ user \in [UserIds -> Account \cup {NULL}]
      /\ \A id \in UserIds : user[id] = IF id = 1 THEN founder ELSE NULL
  BY <1>1 DEF Init
<1> HIDE DEF founder
<1>3. Rows \subseteq {1} /\ \A id \in Rows : user[id] = founder
  BY <1>2 DEF Rows
<1>4. LoginTypeOK
  <2>1. nextUser \in 1..(MaxRows + 1)
    BY DirectoryAssumption DEF Init
  <2>2. /\ request \in [Sessions -> Request]
        /\ session \in [Sessions -> SessionUser \cup {NULL}]
    BY IdleIsRequest DEF Init
  <2>3. \A s \in Sessions : request[s].at = "idle"
    BY DEF Init, Idle
  <2>4. registered \subseteq People /\ granted \subseteq People
    BY DirectoryAssumption DEF Init
  <2> QED BY <1>2, <2>1, <2>2, <2>3, <2>4 DEF LoginTypeOK
<1>5. OneRowPerPerson /\ RowsAreRecorded
  <2>1. \A a, b \in Rows : a = b
    BY <1>3
  <2>2. Founder \in registered /\ Founder \in granted
    BY DEF Init
  <2>3. OneRowPerPerson
    BY <2>1 DEF OneRowPerPerson
  <2>4. RowsAreRecorded
    BY <1>1, <1>3, <2>2 DEF RowsAreRecorded
  <2> QED BY <2>3, <2>4
<1>6. /\ \A s \in Sessions : AskedIsRecorded(s)
      /\ SessionsAreRegistered /\ AdministratorsWereGranted
  BY DEF Init, AskedIsRecorded, SessionsAreRegistered, AdministratorsWereGranted, Idle
<1> QED BY <1>4, <1>5, <1>6 DEF LoginInv

\* The inductive invariant of Login, with its types, holds throughout.
THEOREM LoginInvariant == Spec => []LoginInv
<1>1. LoginInv /\ [Next]_loginVars => LoginInv'
  BY NextLoginInv
<1> QED BY <1>1, InitLoginInv, PTL DEF Spec

\* The rows, the sessions and what a running request has read have their types, and
\* a request has what its next step needs (checkDatabase, addUser, editAction).
THEOREM LoginTypesCorrect == Spec => []LoginTypeOK
<1>1. LoginInv => LoginTypeOK
  BY DEF LoginInv
<1> QED BY <1>1, LoginInvariant, PTL

\* Nobody is signed in by checkDatabase without having had a row.
THEOREM NobodySignsInUnregistered == Spec => []SessionsAreRegistered
<1>1. LoginInv => SessionsAreRegistered
  BY DEF LoginInv
<1> QED BY <1>1, LoginInvariant, PTL

\* Nobody is signed in as an administrator who has never been made one.
THEOREM NobodyAdministersUngranted == Spec => []AdministratorsWereGranted
<1>1. LoginInv => AdministratorsWereGranted
  BY DEF LoginInv
<1> QED BY <1>1, LoginInvariant, PTL
=============================================================================
