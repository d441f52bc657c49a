------------------------------- MODULE Login -------------------------------
(***************************************************************************)
(* Who is in the User table and who is signed in with which roles:         *)
(* LdapSessionUserProvider, which looks a name up in the directory and     *)
(* inserts its row at the first login before the password is tried, and    *)
(* UserController, in whose forms administrators change these rows.        *)
(***************************************************************************)
EXTENDS Naturals

CONSTANTS
  People,     \* usernames
  Addresses,  \* e-mail addresses
  AddressOf,  \* the address that the directory yields for each username
  Founder,    \* the administrator entered when the tables were set up
  Sessions,   \* browser sessions
  MaxRows,    \* bound: how many users are ever inserted
  NULL        \* no row, or nobody

UserIds == 1..MaxRows

ASSUME DirectoryAssumption ==
  /\ AddressOf \in [People -> Addresses]
  /\ Founder \in People
  /\ MaxRows \in Nat \ {0}

\* The absence of a row or of a user is no row and no user.
ASSUME NobodyAssumption ==
  /\ \A p \in People, e \in Addresses, b \in BOOLEAN :
       NULL # [username |-> p, email |-> e, admin |-> b]
  /\ \A p \in People, roles \in SUBSET {"ROLE_USER", "ROLE_ADMIN"} :
       NULL # [username |-> p, roles |-> roles]
  /\ NULL \notin People
  /\ NULL \notin UserIds

VARIABLES
  user,        \* the row under each id of User, or NULL
  nextUser,    \* AUTO_INCREMENT of User
  session,     \* the SessionUser in each session, or NULL
  request,     \* what each session's running request has done so far
  registered,  \* history: the usernames that have ever had a row
  granted      \* history: those whose row has ever said administrator

loginVars == <<user, nextUser, session, request, registered, granted>>

Account == [username : People, email : Addresses, admin : BOOLEAN]

Roles == {"ROLE_USER", "ROLE_ADMIN"}

SessionUser == [username : People, roles : SUBSET Roles]

\* asked: the SessionUser that is to be signed in, if right, the password, is
\* the right one.  id, loaded and submitted: a form on its way to the table.
Request ==
  [at        : {"idle", "unknown", "known", "edited"},
   asked     : SessionUser \cup {NULL},
   right     : BOOLEAN,
   id        : UserIds \cup {NULL},
   loaded    : Account \cup {NULL},
   submitted : Account \cup {NULL}]

Idle == [at |-> "idle", asked |-> NULL, right |-> FALSE,
         id |-> NULL, loaded |-> NULL, submitted |-> NULL]

Rows == {id \in UserIds : user[id] # NULL}

\* The unique indexes on username and email let row id hold this account.
Distinct(account, id) ==
  \A other \in Rows \ {id} :
    /\ user[other].username # account.username
    /\ user[other].email # account.email

Insertable(account) == nextUser \in UserIds /\ Distinct(account, NULL)

\* Row id of User becomes account.
Write(id, account) ==
  /\ user' = [user EXCEPT ![id] = account]
  /\ registered' = registered \cup {account.username}
  /\ granted' = IF account.admin THEN granted \cup {account.username} ELSE granted

Insert(account) ==
  /\ Insertable(account)
  /\ Write(nextUser, account)
  /\ nextUser' = nextUser + 1

NothingWritten == UNCHANGED <<user, nextUser, registered, granted>>

Done(s) == request' = [request EXCEPT ![s] = Idle]

-----------------------------------------------------------------------------
(* Signing in.                                                             *)

\* Mutant of RolesOf: a row is all that it takes.
RolesOfAnyRow(p) ==
  IF \E id \in Rows : user[id].username = p THEN Roles ELSE {"ROLE_USER"}

\* The roles that checkDatabase finds for a name, whose row may be missing.
RolesOf(p) ==
  IF \E id \in Rows : user[id].username = p /\ user[id].admin
  THEN Roles
  ELSE {"ROLE_USER"}

\* The directory knows the name; its row is looked up.
LoginSearch(s, p, right) ==
  /\ request[s] = Idle
  /\ request' = [request EXCEPT ![s] =
       [Idle EXCEPT !.at    = IF \E id \in Rows : user[id].username = p
                              THEN "known" ELSE "unknown",
                    !.asked = [username |-> p, roles |-> RolesOf(p)],
                    !.right = right]]
  /\ NothingWritten
  /\ UNCHANGED session

\* What addUser makes of the directory's entry; adminpriv starts as 0.
NewAccount(p) == [username |-> p, email |-> AddressOf[p], admin |-> FALSE]

LoginInsert(s) ==
  /\ request[s].at = "unknown"
  /\ Insert(NewAccount(request[s].asked.username))
  /\ request' = [request EXCEPT ![s].at = "known"]
  /\ UNCHANGED session

\* Mutant of LoginRefused: the exception of flush() is swallowed.
LoginRefusedUnnoticed(s) ==
  /\ request[s].at = "unknown"
  /\ ~Insertable(NewAccount(request[s].asked.username))
  /\ request' = [request EXCEPT ![s].at = "known"]
  /\ NothingWritten
  /\ UNCHANGED session

\* The name or the address has a row by now: flush() throws, nobody signs in.
LoginRefused(s) ==
  /\ request[s].at = "unknown"
  /\ ~Insertable(NewAccount(request[s].asked.username))
  /\ Done(s)
  /\ NothingWritten
  /\ UNCHANGED session

\* The firewall tries the password; a wrong one ends the session's login, too.
LoginBind(s) ==
  /\ request[s].at = "known"
  /\ session' = [session EXCEPT ![s] =
                   IF request[s].right THEN request[s].asked ELSE NULL]
  /\ Done(s)
  /\ NothingWritten

Logout(s) ==
  /\ request[s] = Idle
  /\ session[s] # NULL
  /\ session' = [session EXCEPT ![s] = NULL]
  /\ UNCHANGED request
  /\ NothingWritten

-----------------------------------------------------------------------------
(* UserController, for sessions whose roles, as of their login, allow it.   *)

IsAdministrator(s) ==
  /\ request[s] = Idle
  /\ session[s] # NULL
  /\ "ROLE_ADMIN" \in session[s].roles

UserNew(s, account) ==
  /\ IsAdministrator(s)
  /\ Insert(account)
  /\ UNCHANGED <<session, request>>

\* Mutant of UserEditPost: a row that does not exist is edited, too.
UserEditPostBlindly(s, id, account) ==
  /\ IsAdministrator(s)
  /\ request' = [request EXCEPT ![s] =
       [Idle EXCEPT !.at = "edited", !.id = id, !.loaded = user[id], !.submitted = account]]
  /\ NothingWritten
  /\ UNCHANGED session

\* POST of the form: the row is loaded and what was submitted is bound to it.
UserEditPost(s, id, account) ==
  /\ IsAdministrator(s)
  /\ id \in Rows
  /\ request' = [request EXCEPT ![s] =
       [Idle EXCEPT !.at = "edited", !.id = id, !.loaded = user[id], !.submitted = account]]
  /\ NothingWritten
  /\ UNCHANGED session

\* A field after flush(): what was submitted as loaded is not written.
Saved(submitted, loaded, now) == IF submitted = loaded THEN now ELSE submitted

EditedAccount(s) ==
  LET q == request[s]
      row == user[q.id]
  IN [username |-> Saved(q.submitted.username, q.loaded.username, row.username),
      email    |-> Saved(q.submitted.email, q.loaded.email, row.email),
      admin    |-> Saved(q.submitted.admin, q.loaded.admin, row.admin)]

UserEditPermitted(s) ==
  request[s].id \in Rows => Distinct(EditedAccount(s), request[s].id)

UserEditFlush(s) ==
  /\ request[s].at = "edited"
  /\ UserEditPermitted(s)
  /\ IF request[s].id \in Rows
     THEN Write(request[s].id, EditedAccount(s))
     ELSE UNCHANGED <<user, registered, granted>>
  /\ Done(s)
  /\ UNCHANGED <<nextUser, session>>

UserEditRefused(s) ==
  /\ request[s].at = "edited"
  /\ ~UserEditPermitted(s)
  /\ Done(s)
  /\ NothingWritten
  /\ UNCHANGED session

\* A user without reservations and items; Desk says what these prevent.
UserDrop(s, id) ==
  /\ IsAdministrator(s)
  /\ id \in Rows
  /\ user' = [user EXCEPT ![id] = NULL]
  /\ UNCHANGED <<nextUser, session, request, registered, granted>>

\* The request dies: the directory does not answer, the database is gone.
Abort(s) ==
  /\ request[s] # Idle
  /\ Done(s)
  /\ NothingWritten
  /\ UNCHANGED session

-----------------------------------------------------------------------------
Init ==
  /\ user = [id \in UserIds |->
               IF id = 1 THEN [NewAccount(Founder) EXCEPT !.admin = TRUE] ELSE NULL]
  /\ nextUser = 2
  /\ session = [s \in Sessions |-> NULL]
  /\ request = [s \in Sessions |-> Idle]
  /\ registered = {Founder}
  /\ granted = {Founder}

Visit(s) ==
  \/ \E p \in People, right \in BOOLEAN : LoginSearch(s, p, right)
  \/ Logout(s)
  \/ \E account \in Account : UserNew(s, account)
  \/ \E id \in UserIds : UserDrop(s, id) \/ \E account \in Account : UserEditPost(s, id, account)

Answer(s) ==
  \/ LoginInsert(s)
  \/ LoginRefused(s)
  \/ LoginBind(s)
  \/ UserEditFlush(s)
  \/ UserEditRefused(s)

Next == \E s \in Sessions : Visit(s) \/ Answer(s) \/ Abort(s)

Spec == Init /\ [][Next]_loginVars

-----------------------------------------------------------------------------
(* Properties.                                                             *)

\* Every variable has its type, and a running request what it needs.
LoginTypeOK ==
  /\ user \in [UserIds -> Account \cup {NULL}]
  /\ nextUser \in 1..(MaxRows + 1)
  /\ session \in [Sessions -> SessionUser \cup {NULL}]
  /\ request \in [Sessions -> Request]
  /\ registered \subseteq People
  /\ granted \subseteq People
  /\ \A s \in Sessions :
       /\ request[s].at \in {"known", "unknown"} => request[s].asked # NULL
       /\ request[s].at = "edited" =>
            request[s].id # NULL /\ request[s].loaded # NULL /\ request[s].submitted # NULL

\* Whoever is signed in has had a row: a first login that loses the race for its
\* row, or whose address somebody else's row has, signs nobody in.
SessionsAreRegistered ==
  \A s \in Sessions : session[s] # NULL => session[s].username \in registered

\* Whoever is signed in as an administrator has been made one, under that name.
AdministratorsWereGranted ==
  \A s \in Sessions :
    session[s] # NULL /\ "ROLE_ADMIN" \in session[s].roles
      => session[s].username \in granted

-----------------------------------------------------------------------------
(* What makes them inductive.                                              *)

\* What the unique indexes say: no person has two rows, no two rows one address.
OneRowPerPerson ==
  \A a, b \in Rows :
    user[a].username = user[b].username \/ user[a].email = user[b].email => a = b

RowsAreRecorded ==
  \A id \in Rows :
    /\ user[id].username \in registered
    /\ user[id].admin => user[id].username \in granted

\* What a login is going to put into its session would be right there.
AskedIsRecorded(s) ==
  LET q == request[s] IN
  /\ q.at = "known" => q.asked.username \in registered
  /\ q.at \in {"known", "unknown"} /\ "ROLE_ADMIN" \in q.asked.roles
       => q.asked.username \in granted

LoginInv ==
  /\ LoginTypeOK
  /\ OneRowPerPerson
  /\ RowsAreRecorded
  /\ \A s \in Sessions : AskedIsRecorded(s)
  /\ SessionsAreRegistered
  /\ AdministratorsWereGranted
=============================================================================
