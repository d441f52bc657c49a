# The WU Regalia closet in TLA+

The program is a Symfony 2.8 / Doctrine 2.4 web application
(`src/AppBundle`) by which a university lends academic regalia: users rent
gowns, caps and hoods, ask for items the closet lacks, and offer donations;
administrators take items back, decide on requests, and keep the tables. This
project models what its controllers do to the database and checks and proves
what can go wrong between them. The repository also holds a copy of the ICU
library, on which the intl extension of PHP rests; two parts of it that keep
state worth a model are modelled as well: the cache of conversion data, which
threads share, and the SCSU converter, whose two ends must agree on eight
moving windows.

## 1. Inventory of the system

| Part | State | Operations | Interacts through | Hard behaviour | What makes it correct |
|---|---|---|---|---|---|
| Renting (`RentController`) | `Reservation`, `Inventory.status_id` | list available items, rent one | tables, mail | two users on one item; two browsers of one user; a status read before and written after somebody else's commit | one reservation per item, one item per type and user, status and reservation agree, honest confirmations |
| Reservations (`ReservationController`) | the same | new, edit, mark as returned (`deleteAction`), notify | tables, mail | two administrators on one rental; forms that touch a reservation but not its item's status | a returned item is free and available; no item stays RENTED without a reservation |
| Special and donation requests (`specialRequestController`, `donationRequestController`) | rows of `Inventory` in a pending status | submit, accept, reject | tables, mail | links in old lists; accept against reject; reject against rent | a request is decided once and stays decided, its owner learns of it |
| Inventory desk (`InventoryController`) | `Inventory` | new, edit, delete | tables | a form held open while others act | an edit changes what its author changed |
| Users (`UserController`) | `User` | new, edit, delete | tables | uniqueness, deletion against rentals | a user with a reservation stays |
| Lookup tables (`StatusController`, `ItemTypeController`, ...) | `Status`, `ItemType`, `Color`, `Major`, `School` | new, edit, delete | tables; other controllers find statuses by name | renaming or deleting a status in use by name | the lookups of the controllers succeed |
| Login (`LdapSessionUserProvider`) | `User`, session roles | look up in LDAP, insert on first login, add ROLE_ADMIN | tables, LDAP, session | two first logins; roles kept in a session | one row per user; a session has its row |
| Reports (`ReportsController`, `DefaultController`, `AccountPageController`) | none | queries | tables | which rows a query sees after returns and verdicts | a report shows what its title says |
| Database and ORM | the tables | SELECT, flush() as one transaction | -- | change sets are computed against what was loaded; rows that have gone are updated in vain | foreign keys, unique indexes |
| ICU converter cache (`ucnv_bld.c`, `ustr_cnv.c`, `ucnv.c`) | blocks of conversion data with reference counts, the table of them, the shared default converter | open, test, clone, close, open from a package, get and release the default, flush | a mutex, a global lock, counts | threads between two critical sections; loads that fail half way; extensions that keep their base table | counts are exact, nothing is lost, an open converter keeps its data |
| ICU SCSU converter (`ucnvscsu.c`, driven by `ucnv.c`) | mode, selected window, eight offsets, order of use; held bytes and units | encode, decode, substitute, flush | the bytes in flight | a character split by the end of a buffer, on either side | what is read is what was written |
| the rest of ICU | tables of data | formatting, collation, regular expressions, other converters | -- | little: sequential and driven by data | not modelled, see 6 |

Requests run in parallel in separate PHP processes. Nothing in the code locks a
row or opens a transaction by hand; a session's file lock serialises the
requests of one browser session, and the database is the only place where
sessions meet. That is where most hazards of PROJECT.json lie. In ICU they lie between the
critical sections of `cnvCacheMutex`, and at the ends of buffers.

## 2. Modules

| Module | Models | Source |
|---|---|---|
| `Closet` | the tables, the constraints of the mapping annotations, what `flush()` writes, the requests under way, the mails; no controller | `Entity/*.php`, Doctrine (external) |
| `Rental` | renting and "Mark as Returned" | `RentController::rentAction`, `ReservationController::deleteAction` |
| `LoanLedger` | abstract: who has which item | -- |
| `SerialRental` | refinement mapping from Rental to LoanLedger | -- |
| `Requests` | submit, accept, reject; both request controllers | `specialRequestController`, `donationRequestController` |
| `WuRegalia` | Rental and Requests over the same tables, with fairness | both |
| `Desk` | the administrators' forms for items, users and reservations, over WuRegalia | `InventoryController`, `UserController` (new, delete), `ReservationController` (new, edit) |
| `RequestBoard` | abstract: the life of an item, which WuRegalia implements | -- |
| `Custody` | abstract: who has which item, and who and what may come and go meanwhile, which Desk implements | -- |
| `Login` | signing in, and the User table under it and under the administrators' forms | `LdapSessionUserProvider`, `SessionUser`, `UserController`, `security.yml` |
| `ConverterCache` | the cache of conversion data and the threads that use it | `ucnv_bld.c`, `ucnv.c`, `ustr_cnv.c`, `ucnv_lmb.c`, `ucnvmbcs.c` |
| `ConverterHandles` | abstract: which tables the converter of each thread converts by | -- |
| `Scsu` | what the SCSU encoder does with a character and the decoder with a byte, as operators | `ucnvscsu.c` |
| `ScsuText` | a text that one converter writes and another reads, cut into buffers in every way | `ucnv.c`, `ucnv_cb.c`, `ucnvscsu.c` |
| `ScsuBuffers` | any bytes, read with large and with small buffers | `ucnv.c`, `ucnvscsu.c` |
| `RentalProofs`, `ClosetProofs`, `DeskProofs`, `LoginProofs`, `ConverterProofs` | theorems about the module of that name, RentalProofs also about SerialRental | -- |
| `ScsuLemmas`, `ScsuProofs`, `ScsuBuffersProofs` | what the operators of Scsu do to a character or a byte; theorems about `ScsuText` and `ScsuBuffers` | -- |
| `MCRental`, `MCWuRegalia`, `MCDesk`, `MCLogin`, `MCConverters`, `MCScsu`, `MCScsuBuffers` | the instances that TLC checks | -- |

`Rental` and `Requests` extend `Closet`; `WuRegalia` extends both, `Desk`
extends `WuRegalia`. `ScsuText` and `ScsuBuffers` extend `Scsu`.

### How a handler becomes actions

A request is one PHP process running one controller method. Other requests can
change the database between its accesses and at no other point that it could
notice, so each handler is a chain of actions cut there:

| Handler | Chain |
|---|---|
| `rentAction` | `RentLoad` (the route converter finds the item) -> `RentCheck` (the user, and the types reserved) -> `RentFlush` (one transaction) or `RentRefused` (a constraint) -> `RentMail`; `RentNobody` (in Desk) when the user has been deleted since the login |
| `deleteAction` | `ReturnLoad` (the reservation) -> `ReturnTouch` (the item, a lazy reference until its setter is called) or `ReturnLost` -> `ReturnFlush` |
| `indexAction` of both request controllers | `SubmitLoad` -> `SubmitFlush` or `SubmitRefused` -> `SubmitMail` |
| `adminChangeStatusAction` | `AcceptLoad` -> `AcceptFlush` -> `AcceptMail` |
| `adminReject...Action` | `RejectLoad` -> `RejectFlush` or `RejectRefused` -> `RejectMail` |
| `InventoryController::editAction` | `FormOpen` (GET: the form shows the row), later `EditPost` (the row is loaded anew, the fields are bound to it) -> `EditFlush` |
| `InventoryController::newAction`, `deleteAction` | `ItemNewPost` -> `ItemNewFlush`; `DropLoad` -> `DropFlush` |
| `UserController::newAction`, `deleteAction` | `UserNew` (one INSERT); `UserDropLoad` -> `UserDropFlush` |
| `ReservationController::newAction`, `editAction` | `ResNewPost` -> `ResNewFlush`; `ResEditPost` -> `ResEditFlush` |
| form_login_ldap with `LdapSessionUserProvider` | `LoginSearch` (the directory, then the row) -> `LoginInsert` or `LoginRefused` (a unique index) if there is none -> `LoginBind` (the password) |
| `UserController::editAction` | `UserEditPost` -> `UserEditFlush` or `UserEditRefused` |
| any of the desk's | `DeskRefused`: a constraint fails at `flush()` |
| any of them | `Abort`: an exception, a fatal error, a lost connection, a deadlock; what is not flushed is rolled back |

`request[s]` is what the request of session `s` has in its local variables and
its object manager. `seen` is the part that makes the system hard: the object
manager compares a new status with the one it *loaded* and omits the UPDATE when
they are equal, whatever the row holds by the time of `flush()` (`FlushStatus`, and field
by field `Saved` in Desk).

In Desk the variable `form` adds what a browser holds between two requests: the
form of an item as it was shown, and what is submitted. `EditPost` needs the form
that `FormOpen` filled, however long ago; the other forms are submitted with any
values their choices offer at that time, so the page that showed them need not
be kept.

### How the functions of ICU become actions

In `ConverterCache` a critical section of `cnvCacheMutex` is one action, and so is
one of the global lock. What a thread does between them is its own: `call[t]` is
the function it is in and what it has loaded or counted so far.

| Function | Chain |
|---|---|
| `ucnv_open`, `ucnv_canCreateConverter` | `Open` -> `LoadPart` for each file (`ucnv_load`: lookup, or load with the base table of an extension, and the count), or `LoadFails` -> `UnloadPart` for what a failed or mere test load holds |
| `ucnv_openPackage` | `OpenPackage`: nothing of it is shared |
| `ucnv_safeClone` | `Clone` -> `CountPart` for each part |
| `ucnv_close` | `Close` -> `UnloadPart` for each part |
| `u_getDefaultConverter`, `u_releaseDefaultConverter` | `GetDefault` (a look without the lock) -> `TakeDefault`; `ReleaseDefault` -> `PutDefault` |
| `ucnv_flushCache` | `FlushCache` -> `DrainDefault` -> `UnloadPart` -> `SweepBegin` -> `SweepEntry` for each entry -> `SweepAgain` -> `SweepEnd`; the loop is cut because threads that need no lock go on during it |

In `ScsuText` an action is what happens to one unit of the text or one byte. The
encoder function works through a buffer character by character and the decoder
byte by byte, and the caller may end either buffer anywhere. So the model has no
buffers but what their ends do: the encoder sees the unit after the one it
converts, or not (`ahead`); a lead surrogate waits for its trail (`lead`); bytes
that do not fit wait in `held`, units in `pending`. `EndText` and
`EndReading` are the calls that flush, which reset the converters.

### What is abstracted

- A row of `User` is its username, which is unique; the fields that only describe
  an item or a user are left out. `Inventory` keeps status, type and owner.
- Lookups of a status by its name succeed, since no modelled handler touches the
  Status table.
- A session has at most one item form open. After a save the browser is
  redirected to the form of the saved row; that page counts as opened only when
  `FormOpen` is taken again.
- `StatusesByHand` bounds the statuses that an administrator picks in a form; a
  status left as shown is always possible, which is what a stale form submits.
- A user who is deleted and entered again under the same name counts as the same
  row, though the id is a new one; a request that held the old row would be
  refused, which is an outcome that `Abort` covers. Renaming a user is not in
  Desk but in `Login`, where rows have ids.
- `Login` has a User table of its own: only Login changes usernames, addresses and
  adminpriv, and only Desk says which users cannot be deleted, so in Login any
  row can. The directory does not change. Login follows Symfony's order (external):
  the provider first, then the password; a wrong one signs the session out. How
  `getUserInfo` cuts names, and the escaping of a username for the search filter, are
  left out; `AddressOf` is the address that results.
- The administrators' pages ask for the role in the session (`IsAdministrator`), as
  it was at the login; in the other modules `AdminSessions` is a constant.
- `new Reservation()` in `newAction` lacks the constructor's arguments, which is a
  warning in PHP 5 and ends the request only in debug mode; the model is of the
  production mode. The redirect after its `flush()` names a route that does not
  exist, which fails after the commit and changes nothing.
- The lists that pages show are not modelled; a link of a list may be followed at
  any time, so a handler is enabled for every row that exists, whatever its
  status. None of the handlers looks at the status, except through the list.
- Listing the types that a user holds reads the reservations and then the items
  one by one; it is one step, `RentCheck`, because a reserved item cannot be
  deleted. Only the desk can change its type, and what is said of types
  (`OnePerType`) is said of Rental without the desk.
- Due dates are left out: nothing modelled reads them.
- `sent` is the set of mails handed to the mailer. They are spooled in memory
  (`config.yml`) and may be lost; what is said of mails is said of those that
  could arrive.
- A refused request (404, access denied, an invalid form) changes nothing and is
  not an action. That includes a call of `setUser` with null, which its type hint refuses
  (`Inventory.php:258`): a user without a row cannot submit a request (`SubmitLoad`), and the
  form of an item cannot take away its owner (`EditPost`).
- In the converter cache simple and composite converters are one thing, with a
  set of parts; the order in which a composite loads them is left open. The tables
  for swapped line ends (swapLFNL), the list of available converters,
  `ucnv_cleanup` and the parsing of names and options are left out. `malloc`
  yields any free blocks, and a load that needs memory needs two free ones
  or fails. Who releases a default converter gives back what it got.
  A file's name is the name in it.
- `ucnv_shareConverterData` has three outcomes (`Shared`): the data is marked and in the
  table; it is neither, when there is no table yet and no memory for one; it is marked
  and in no table, when the table is full and cannot grow. `TableSize` is how many entries
  the table takes before it has to grow; one that has grown is taken to be full again, which
  only allows more failures. `hashed` says whether there is a table, which
  `ucnv_flushCache` tests without a lock (`FlushNothing`).
- Data that was loaded for a mere test is not `whole`; a converter that came to hold such
  data would convert by something that nobody asked for (`TablesOf`), and break
  `ImplementsHandles`.
- In SCSU the arrays of offsets are left out, and the functions without offsets are
  taken to do what those with offsets do, which is what the source says of them. The substitution
  callback is the default one; clones of a converter and a decoder that is flushed in
  the middle of a sequence are not modelled. The encoder waits until its bytes
  are read: the decoder sees only their order. `given` says what the text is
  in correct UTF-16, without looking at either converter.
- `useDynamicWindow` is a closed form, which the proofs are about. The two loops of the
  code, that search for the window and rotate the array in place, are `SearchBackwards` and
  `CopyUp`; `LoopsRotate` compares them with the closed form for every window in every
  state that TLC reaches.
- An INSERT that fails consumes an AUTO_INCREMENT value in InnoDB; ids here have
  no such gaps, which no property sees.

## 3. Runs

The bounds are those of the `.cfg`; `MaxReservations` bounds the reservations
ever inserted, and a rental beyond it is refused as one is when AUTO_INCREMENT
is at its end. `MaxWorkers` is how many requests the PHP server handles at once.

| Run | Instance | What it asks | Result |
|---|---|---|---|
| `rental` | 4 sessions of 4 users, two of them administrators, 2 items of one type, 2 reservations, 3 workers | `TypeOK`, `NoStrandedItem`, `ConfirmationsAreHonest` in every interleaving; `OnePerType` when no user is logged in twice | hold |
| `serial` | 3 sessions, 2 items, 2 types, 3 reservations, one worker | `LedgerConsistent`, `ReturnedItemsAreFree` and the refinement `ImplementsLedger` | hold |
| `closet` | 1 user, 2 administrators, one item, 2 workers, all handlers of Rental and Requests, with fairness | `SystemTypeOK`, `NoStrandedItem`, `ReservedAreCatalogued`, `ReceiptsAreHonest`, `VerdictsAreFinal`, the refinement `ImplementsBoard`, `EveryRequestEnds` | hold |
| `desk` | a user and an administrator, one item, one reservation, 2 workers, all handlers of WuRegalia and Desk | `DeskTypeOK`, `NoDanglingReferences`, the refinement `ImplementsCustody` | hold |
| `login` | 2 persons in 2 browsers, 3 rows | `LoginTypeOK`, `SessionsAreRegistered`, `AdministratorsWereGranted` | hold |
| `converters` | 3 threads, memory for 4 blocks, a base table and an extension of it, 3 converters (one composite), a table with room for both files, symmetric threads and blocks | `CacheTypeOK`, `CountsAreExact`, `NothingLeaks`, `FlushIsComplete`, the refinement `ImplementsHandles` | hold |
| `scsu` | texts of up to 5 units over an alphabet of 13, in every cut | `ScsuTypeOK`, `DecoderFollows`, `DecodedIsGiven`, `ThreeBytesPerUnit`, `WindowUseIsRecency`, `LoopsRotate` | hold |
| `available` | 3 sessions, one item, 2 workers | `AvailableIsFree` | violated |
| `two_browsers` | one user in two sessions, 2 items of one type | `OnePerType` | violated |
| `two_returns` | two administrators' sessions on one rental | `ReturnedItemsAreFree` | violated |
| `full_table` | one thread, memory for 3 blocks, the files of `converters`, a table with room for one | `CachedIsInTable` | violated |
| `scsu_buffers` | any of 8 bytes at a time, targets of one or two units | `BufferSizesDoNotMatter` | violated |

Why the instances are large enough: a conflict here is always about one item or
one user. It takes a victim, which holds what it has read, and other requests that
undo and redo that (rent, return, rent again) before the victim writes. Two
workers suffice for that, since the others may follow one another; `rental`
has three, so that the others overlap too. Two items of one type are what
`OnePerType` needs; the second type of `serial` shows that the check is about types.
Two reservations of one item, one after the other, need `MaxReservations` = 2; the
run `serial` uses more so that items change hands. `closet` has one item because
the handlers of Requests never relate two; its reservation can be made, kept or
returned under every verdict. In `desk` a deletion and what it races with are two
requests about one item and one user, hence two workers, one item and one
reservation; moving a reservation from item to item needs a second item, and is
covered by the theorem `DeskImplementsCustody`, for any number of them.
`StatusesByHand` is empty: a form that was opened before a rental, a return or a verdict
already submits a status other than the one loaded, and no property of `desk` is
about statuses.
`login` needs two browsers for two first logins of one person and for a form beside
a login, and a third row for a person who is deleted and comes back.

A conflict in `converters` is about one block: a thread that has found or counted
it, another that gives it up, and a third that flushes. An extension and its base
are the longest chain of files that there is (`FilesAssumption`: a base table has no
base), four blocks hold both twice, once shared and once outside the cache, and
with them in use the next load finds no memory. `full_table` needs a single thread:
it loads one file, so that the table is full, and then the other. The alphabet of `scsu` has a unit for every branch of
the encoder but those that differ only in a constant; five units are enough to leave
single-byte mode, come back to a window that was redefined meanwhile, and to have
pairs cut in the middle. A second locale (`initialWindowUseJa`) only permutes the windows.

Deadlock is checked in every run. The mutants in PROJECT.json are plausible
mistakes in the mapped code (a dropped foreign key, a status not set, a wrong
lookup); each makes TLC refute the property it is listed with.

### What the violated runs show

1. `available`: `rentAction` loads an item while it is RENTED (from an old
   list). The item is returned, then the rental commits. `setItemStatus(RENTED)`
   is no change for the object manager, which loaded RENTED, so the new
   reservation stands beside a status AVAL. The item is offered to all, and the
   unique index refuses all.
2. `two_browsers`: both requests pass the check of types before either inserts.
   The session lock serialises one session only.
3. `two_returns`: the slower of two "Mark as Returned" on one reservation deletes
   nothing any more, and still sets the item to AVAL, though it has been rented
   again in between.
4. `full_table`: `ucnv_shareConverterData` marks data as cached (`ucnv_bld.c:438`) and
   then puts it into the hash table, without a look at the error. `uhash_put` gives up
   when the table has to grow and there is no memory for it (`uhash.c:486`). The data is
   then marked and in no table, against `ucnv_bld.h:102`: its last client leaves
   it alone because of the mark, no lookup finds it, no flush frees it, and the
   next open loads the file once more. The table starts with room for twice the
   converters that the alias table knows, so it takes files beyond
   those as well as a lack of memory; `TableSize` stands for that room.
5. `scsu_buffers`: SQ0..SQ7 quotes one character from a window. When this is a
   supplementary character and the target has room for one unit, the decoder puts the
   other into its overflow buffer and leaves (`ucnvscsu.c:431`) before it sets its
   state back to readCommand (line 436), so it takes the byte after it as quoted,
   too. The encoder of the same file never quotes such a character (run `scsu`); others may.

### Fairness

`ClosetFairness` is weak fairness of `Handle(s) \/ RequestsHandle(s)` for each
session: a worker that has accepted a request goes on with it. Nothing in a
handler waits for another request, InnoDB resolves lock waits by a timeout, and
PHP ends a script that runs too long. Nothing is assumed of `Start`,
`RequestsStart` and `Abort`: nobody has to click, nothing has to fail. The other
specifications state no fairness and are asked only for safety.

## 4. Theorems

For every finite set of sessions, any users, items, types and workers, and any
bound on reservations (`SessionsAssumption`, `BoundsAssumption`,
`NullAssumption` of `Closet`: NULL is no value and no row), for Login any people,
addresses, sessions and number of rows (`DirectoryAssumption`, `NobodyAssumption`),
and for the converter cache any finite sets of threads and blocks, any files and
any converters made of them (`MemoryAssumption`; `FilesAssumption`: an extension's base
table is no extension, a converter has at least one part), and for SCSU any code units
(`AlphabetAssumption`), either initial order of the windows (`LocaleAssumption`) and texts
of any length (`BoundAssumption`):

| Theorem | Says | Argument |
|---|---|---|
| `TypesCorrect` | `Spec => []TypeOK` | one step per action; `FlushStatusEffect` for what `flush()` returns |
| `NoItemIsStranded`, `MailsAreHonest` | two safety invariants of run `rental` | both from `RentalInv` |
| `SingleSessionOnePerType`, `OnePerTypeWithOneSession` | whoever has a single session never has two items of a type; hence `OneSessionPerUser` gives `[]OnePerType` | `OnePerTypeInv(SingleSession)` |
| `SerialLedgerConsistent`, `SerialAvailableIsFree`, `SerialReturnsFree` | one worker gives `[]LedgerConsistent`, `[]AvailableIsFree` and `ReturnedItemsAreFree`: what the runs `available` and `two_returns` refute takes two requests at once | `SerialInv` |
| `NobodySignsInUnregistered`, `NobodyAdministersUngranted` | the safety invariants of run `login`, for any people, addresses, sessions and rows | `LoginInv` |
| `RentalImplementsLedger` | one worker gives `Spec => LoanLedger!Spec` | `SerialInv` and `InCirculation`; a step of the ledger for each `flush()`, a stutter for the rest |
| `ClosetTypesCorrect`, `NoItemOfTheClosetIsStranded`, `ReservedStayCatalogued`, `ReceiptsStayHonest`, `VerdictsStayFinal` | the safety invariants of run `closet`, of `ClosetSpec` | `ClosetInv` |
| `ClosetSingleSessionOnePerType`, `ClosetOnePerTypeWithOneSession` | the same of `ClosetSpec` | `ClosetInv` and `OnePerTypeInv(SingleSession)` |
| `SerialClosetLedgerConsistent`, `SerialClosetReturnsFree` | one worker gives `[]LedgerConsistent` and `ReturnedItemsAreFree`, of `ClosetSpec` | `ClosetInv` and `SerialInv` |
| `ClosetImplementsBoard` | `ClosetSpec => RequestBoard!Spec` | `ClosetInv`; a step of the board for each flush that creates, decides or deletes |
| `DeskTypesCorrect`, `ReferencesNeverDangle` | with the administrators' forms and deletions, of `DeskSpec` | `DeskInv` |
| `DeskImplementsCustody` | `DeskSpec => Custody!Spec`, for any number of workers | `DeskInv` and `IdsIssued`; every flush makes, ends or changes one loan, or lets one item or user come or go |
| `LoginTypesCorrect` | `LoginTypeOK` | `LoginInv` |
| `CacheTypesCorrect`, `CountsStayExact`, `NothingIsLost`, `FlushCompletes` | the safety properties of run `converters`; `NothingIsLost` when the table has room for all files (`Roomy`) | `CacheInv` |
| `CacheImplementsHandles` | the cache implements ConverterHandles | `HandlesInv` |
| `ScsuTypesCorrect`, `TextIsDecoded`, `DecoderKnowsTheWindows` | three state invariants of run `scsu` | `ScsuInv` |
| `DeclaredSizeIsEnough` | `[]ThreeBytesPerUnit`, for texts of any length | `ScsuInv` and a bound for the bytes of a character |
| `WindowsAgeInOrder` | the action property `WindowUseIsRecency` | the ring of windows is a permutation, and a step moves one window to its end |
| `BuffersTypesCorrect` | `[]BuffersTypeOK`: any bytes, in buffers of any size, keep the decoder in its ranges | `BuffersInv` |
| `OnlyQuotedPairsPartThem`, `BasicWindowsDoNotPart` | how far finding 5 reaches: a small buffer and a large one part only at a quoted supplementary character, and never as long as all windows are of the basic plane | `BuffersInv`, byte by byte |

`NoStrandedItem` is not inductive. A return that loaded an item which is AVAL
omits its UPDATE and deletes its reservation all the same; the item must then
not be RENTED. `RentalInv` adds `Remembers`: while the reservation that such a
return holds still exists, its item is not RENTED. It stays so because only a
`RentFlush` of that item sets RENTED, which the unique index forbids as long as
the reservation exists. `Remembers` also ties a request to the item and the user
of the reservation it holds, which gives the honest confirmations, and
`IdsIssued` keeps ids from being reused.

`OnePerType` holds as long as nobody else can change what the check of types
read. `CheckStands` says that a check that has been passed still holds, and that the
item has the type that was loaded as long as its row is there;
`NoRivals` says that no other running request is the same user's, and `HeldShrinks` shows that every
step but a `RentFlush` only takes items away. The first two are stated for a set of
users: those with a single session, or with one worker all of them.

With one worker, `AcceptedAlone` (a cardinality below one is the empty set) makes
all other requests idle at every step, so what a request has seen is current
(`SeenIsCurrent`). Then a rental never finds its item RENTED, as it would be
reserved, and a return never finds it AVAL, as it would be free; the omitted
UPDATE of run `available` cannot happen.

`Spec` of Rental has neither requests nor desk. `ClosetProofs` and `DeskProofs` carry
what survives over to `ClosetSpec` and `DeskSpec`, with the lemmas of RentalProofs for
the steps of Rental. Requests and verdicts leave reservations alone (`LeavesReservations`), never
put an item on the shelf, and never change the type of one; so `OnePerType`
with one session per user, and `LedgerConsistent` with one worker, hold of `ClosetSpec`
too. Neither holds of `DeskSpec`: a form sets neither the status of an item it
reserves nor that of one it gives up, and it asks nobody what else the user has.

`ClosetInv` rests on one observation: an item whose id has been given out only
*ages* (`Ages`). It keeps its user and its type, is not pending again once it has been
decided on, and does not come back once its row has gone. `FlushStatus` keeps to it
although the status it compares with may be stale, since no handler of Rental
or Requests writes a pending status over a row that exists, but for the one that
means "accepted". So `InHand` (what a request has loaded or just committed) and
`Told` (what a mail has said) stay so, each from the step in which it was
established: `AgedStays`. `ReceiptsAreHonest` and `VerdictsAreFinal` are
instances of `Told`, and `ClosetImplementsBoard` maps every flush to a step of RequestBoard.

`DeskInv` is about references. Five lemmas say what a step may do to the tables:
leave the items' rows and owners (`SameItemsStep`), make or change a
reservation that meets the constraints (`ReserveRowStep`), write a row of
Inventory with an owner who exists (`CatalogueStep`), remove one that is not reserved
(`RemoveStep`), remove a user to whom nothing refers (`UserDropStep`). Every
action of the three modules is one of these, because the constraints are tested in
the transaction of the flush, whatever the handler had loaded. `DeskReady` and
the second half of `DeskTypeOK` add that a form is complete when it is bound.

What the desk does keep, whoever overlaps with whom, is `Custody`: who has which item
changes in single steps, and whom and what a loan is about stays. `HandsOver` lists
what a step can be in that respect, and `EveryStepHandsOver` sorts every action of
Rental, Requests and Desk into that list: a return that comes second `Ends` nothing, an edit of a
reservation that has gone is at rest. `LoansAre` then reads the loans off the
reservations, which needs `UniqueReservation` (no item is reserved twice: what the
unique index enforces, here a conjunct of the invariant), and `IdsIssued` says that an INSERT
overwrites no row. Of statuses Custody says nothing; that they agree with the loans
is `LedgerConsistent`.

`LoginInv` is over what a login still has in hand: `AskedIsRecorded` says that the
roles it has read, and once it is past the insertion the name, are on record, and
`RowsAreRecorded` says the same of the rows. Both only grow, so a deletion or a
new name of the row does not disturb a login under way. `WriteKeeps` is the one
place where the unique indexes matter (`OneRowPerPerson`, a conjunct of `LoginInv`).

`CacheInv` says what is so of the memory when a set of holders counts as
clients (`Sound`): an extension is linked to its base table, which is allocated and
of the right name (`BlocksLinked`); the table of names holds only blocks that are marked
as cached, and all of them when there is room for all files (`TableIsCache`); the counter
of each block is the number of its holders and extensions (`Counted`); and who has no
client is marked as cached (`Kept`). `Sound` is
stated of a memory and a relation, not of the variables, so that the lemmas speak
of `Created`, `AddRef`, `Unload`, `Evicted` one by one and are put together for
`Load`, which may do two of them. Counts are cardinalities of finite sets that
gain or lose one member. `CallsOK` says what each thread may hold in each phase, and
`SweepOK` where the loop of a flush stands: an extension that it has passed is in
use, an entry left behind by the first loop has set `remaining`, and what the
second has passed is in use; an extension is nobody's base, so two loops are
enough. For the refinement `HandlesInv` adds that what is cached was loaded in full, an
extension with its base table (`Complete`), and that what a thread has loaded and has still to load, or to count,
are the parts of one converter (`Whole`).

`ScsuInv` looks ahead. What is still to come is not in any variable, so `Reads` says it:
the decoder in state `d`, given these bytes, yields these units and ends in `d2`.
Induction over data being out of reach, the run is a function from positions to
states, and lemmas add a byte in front (`ReadsOneMore`) or take the first one off
(`ReadsFirst`). `EncodeConveys` is the heart: if the decoder follows the encoder
(`Follows`: same mode, selected window and offsets, and no command begun), the bytes of
any character make it yield that character and follow again. It is proved choice by
choice of the encoder, each by the lemmas about the commands it sends (`Yields...`)
and the arithmetic of offsets (`DynamicOffsetIs`: the code that is sent means the
offset that the encoder keeps, also behind the gap and for extended windows).
Then `WireInv` is inductive: what has been decoded, what waits for room and what
the bytes in flight will yield is together what the text says. Cutting bytes or
units leaves that concatenation as it is (`PutCuts`, `ReadBytePreserves`).
`Yields` asks for the same result with room for one unit and for two; it is what
`scsu_buffers` violates, and what holds of every byte this encoder sends.

`WindowUseIsRecency` says it with relations, not with a sequence: `UsedBefore(e)` is
the order of the encoder's windows by their last use, and a step moves the window
that has been selected behind all others and keeps the order among these.
`MovedToEnd` is what rotating the array in place amounts to, and `IsOrder` that the ring
stays a permutation, so that the search in it ends. `ThreeBytesPerUnit` needs for each
choice of the encoder how many bytes it sends; the
tight ones send three for one unit: a tag, and two bytes or an offset and a byte.

`BuffersInv` bounds what arbitrary bytes can do to a decoder (`Sound`): each
window's offset and the offset plus 127 are characters, whichever code defined it.
Two converters fed the same bytes then stay in one state (`Together`) unless a
supplementary character is quoted, which takes a window beyond the basic plane. What
the theorem assumes of the windows is `[]BasicWindows`, a property of the bytes fed.

Only model-checked: `EveryRequestEnds`, since liveness under fairness is out of the
prover's reach. The five findings are counterexamples of TLC's; for all of them
theorems say under which condition the property holds after all: one worker for
`available` and `two_returns`, one session per user for `two_browsers`,
basic windows for `scsu_buffers`. For
`full_table` it is a table with room for all files (`Roomy`), under which `NothingIsLost`.

## 5. Plan

Still to be written:

1. **Catalogue**: the lookup tables; renaming or deleting a status that other
   controllers find by name.
2. **Overdue** (`notifyAction`: the loop calls `isLate`, which the entity does not
   have, so it ends at the first reservation) and **Reports** (which rows the queries of
   `ReportsController` show after returns and verdicts), as operators checked
   against a reference definition over small tables.
3. The hash table under the converter cache (`uhash.c`), of which the cache knows only that
   it may fail to grow: what it finds after deletions and rehashing.

## 6. Not modelled

Templates, styles, the layout of forms, routing, the access rules beyond
`AdminSessions`, the text of mails; `LoginListener`, which no service
definition registers.

Four things that the code does are no matter of order, so that a model would only
repeat the line; they are listed as hazards and said here:

- The forms of reservations have no status. An item given away through
  `newAction` (`ReservationController.php:50`) remains AVAL and is offered to all; when
  the item of a reservation is exchanged (`:111`), the old one is RENTED without a
  reservation and can only be set free by hand, and the new one is reserved and AVAL.
- The mails about accepted and rejected requests go to `$this->getUser()`, who is
  the administrator that decides, and not to the user of the row
  (`specialRequestController.php:121`, and likewise for donations).
- A form writes what it showed when it was opened: who saves the form of an item, for its
  description say, after the item has been rented, returned or decided on, writes the old
  status back (`InventoryController.php:90`), and likewise the other fields and forms. The repository
  says nowhere which of the two should win.
- A value that defines no SCSU window makes the decoder leave its loop without an
  error, though its header calls such values illegal; the byte is lost.

Of ICU everything but the two parts above: it is a general library of some half a
million lines, of which the program uses a handful of functions through PHP. Most of
it is sequential and driven by tables of data (collation rules, break rules, time
zones, mappings); a model would need the data to say anything, and what it says
could be tested. The other caches that threads share (locale data, services) are not modelled.
