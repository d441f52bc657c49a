--------------------------- MODULE ConverterCache ---------------------------
(***************************************************************************)
(* The cache of conversion data in the ICU library that the repository     *)
(* builds for PHP's intl extension (icu/source/common/ucnv_bld.c), as the  *)
(* threads of a process use it: opening, testing, cloning and closing      *)
(* converters, the shared default converter, and ucnv_flushCache.          *)
(*                                                                         *)
(* The conversion data of one .cnv file is a block of memory with a count  *)
(* of its clients. An extension-only file is a client of its base table.   *)
(* Blocks without clients stay in the cache until it is flushed; blocks    *)
(* outside the cache are freed with their last client. A critical section  *)
(* of cnvCacheMutex is one action, except for the loop of ucnv_flushCache, *)
(* during which threads that need no lock go on.                           *)
(***************************************************************************)
EXTENDS Naturals, FiniteSets

CONSTANTS
  Threads,
  Blocks,     \* the memory for UConverterSharedData
  Names,      \* the .cnv files, by the name in them
  BaseOf,     \* the base table that an extension-only file asks for, or NULL
  Converters, \* what an application asks for: a data-based or a composite one
  PartsOf,    \* the files whose data a converter holds
  Default,    \* the default converter
  TableSize,  \* how many entries the table takes before it has to grow
  NULL

ASSUME FilesAssumption ==
  /\ BaseOf \in [Names -> Names \cup {NULL}]
  /\ \A n \in Names : BaseOf[n] # NULL => BaseOf[BaseOf[n]] = NULL
  /\ PartsOf \in [Converters -> (SUBSET Names) \ {{}}]
  /\ Default \in Converters

ASSUME TableAssumption == TableSize \in Nat \ {0}

ASSUME MemoryAssumption ==
  /\ IsFiniteSet(Threads) /\ IsFiniteSet(Blocks)
  /\ NULL \notin Threads \cup Blocks \cup Names
  /\ Threads \cap Blocks = {}

VARIABLES
  mem,    \* the blocks, and SHARED_DATA_HASHTABLE
  call,   \* what each thread is doing, and the converter it has in hand
  slot,   \* gDefaultConverter: the blocks it holds; none when it is NULL
  mutex,  \* the thread that is in the loop of ucnv_flushCache, or NULL
  sweep   \* the local variables of that loop

vars == <<mem, call, slot, mutex, sweep>>

-----------------------------------------------------------------------------
(* The blocks: which are allocated, the file each was loaded from, its       *)
(* referenceCounter, its sharedDataCached, its base table, and whether all   *)
(* of its data was loaded; the table, and whether there is one yet.          *)

Memory == [used : SUBSET Blocks,
           name : [Blocks -> Names \cup {NULL}],
           refs : [Blocks -> Nat],
           cached : SUBSET Blocks,
           base : [Blocks -> Blocks \cup {NULL}],
           whole : SUBSET Blocks,
           table : [Names -> Blocks \cup {NULL}],
           hashed : BOOLEAN]

NoData == [used |-> {},
           name |-> [b \in Blocks |-> NULL],
           refs |-> [b \in Blocks |-> 0],
           cached |-> {},
           base |-> [b \in Blocks |-> NULL],
           whole |-> {},
           table |-> [n \in Names |-> NULL],
           hashed |-> FALSE]

InTable(m) == {m.table[n] : n \in Names} \ {NULL}

AddRef(m, b) == [m EXCEPT !.refs[b] = @ + 1]

\* A new block has one client, the one that loads it.
Created(m, n, b, base, whole) ==
  [m EXCEPT !.used = @ \cup {b},
            !.name[b] = n,
            !.refs[b] = 1,
            !.base[b] = base,
            !.whole = IF whole THEN @ \cup {b} ELSE @]

\* ucnv_shareConverterData marks a block as cached and puts it into the table. It
\* may leave the block as it is, when there is no table and none can be made; and
\* fail to put it into the table, which then had to grow for it and could not. (A
\* table that did grow is taken to be full again.)
Marked(m, b) == [m EXCEPT !.hashed = TRUE, !.cached = @ \cup {b}]

Shared(m, b) ==
  {[Marked(m, b) EXCEPT !.table[m.name[b]] = b]}
    \cup {same \in {m} : ~m.hashed}
    \cup {lost \in {Marked(m, b)} : Cardinality(InTable(m)) >= TableSize}

\* What memory may be like after a file was found or loaded that needs no base.
BaseLoaded(m, n, b) ==
  IF m.table[n] # NULL THEN {AddRef(m, m.table[n])} ELSE Shared(Created(m, n, b, NULL, TRUE), b)

\* Mutant of LoadedBlock: what is found is not distinguished from what is loaded.
LoadedBlockLookedUp(m, n, b) == m.table[n]

LoadedBlock(m, n, b) == IF m.table[n] # NULL THEN m.table[n] ELSE b

\* An extension takes over the count of its base, which is loaded first.
ExtensionLoaded(m, n, b, spare) ==
  LET taken == LoadedBlock(m, BaseOf[n], spare)
  IN  UNION {Shared(Created(l, n, b, taken, TRUE), b) : l \in BaseLoaded(m, BaseOf[n], spare)}

\* Mutant of Load: what is loaded for a mere test is shared like the rest.
LoadShared(m, n, test, b, spare) ==
  IF test /\ m.table[n] = NULL THEN Shared(Created(m, n, b, NULL, FALSE), b)
  ELSE IF m.table[n] # NULL \/ BaseOf[n] = NULL THEN BaseLoaded(m, n, b)
  ELSE ExtensionLoaded(m, n, b, spare)

\* ucnv_load without a package: b and spare are what malloc yields, if needed. A mere
\* test loads no more of the data than it must, and does not share it; of an
\* extension, it lets go of the base at once and keeps no link.
Load(m, n, test, b, spare) ==
  IF test /\ m.table[n] = NULL THEN {Created(m, n, b, NULL, FALSE)}
  ELSE IF m.table[n] # NULL \/ BaseOf[n] = NULL THEN BaseLoaded(m, n, b)
  ELSE ExtensionLoaded(m, n, b, spare)

Decremented(m, b) == [m EXCEPT !.refs[b] = IF @ > 0 THEN @ - 1 ELSE 0]

Freed(m, b) == [m EXCEPT !.used = @ \ {b}, !.name[b] = NULL,
                         !.refs[b] = 0, !.base[b] = NULL, !.whole = @ \ {b}]

\* Nobody refers to b, and the cache does not keep it.
Unneeded(m, b) == m.refs[b] = 0 /\ b \notin m.cached

\* A base table is unloaded with the last of its extensions; it has no base.
BaseUnloaded(m, b) ==
  LET d == Decremented(m, b) IN IF Unneeded(d, b) THEN Freed(d, b) ELSE d

\* ucnv_deleteSharedConverterData
Deleted(m, b) ==
  IF m.base[b] = NULL THEN Freed(m, b) ELSE Freed(BaseUnloaded(m, m.base[b]), b)

\* Mutant of Unload: the data outside the cache is not deleted either.
UnloadKeeping(m, b) == Decremented(m, b)

\* ucnv_unload
Unload(m, b) ==
  LET d == Decremented(m, b) IN IF Unneeded(d, b) THEN Deleted(d, b) ELSE d

\* uhash_removeElement and the flag, then the deletion.
Evicted(m, b) ==
  Deleted([m EXCEPT !.cached = @ \ {b}, !.table[m.name[b]] = NULL], b)

\* ucnv_load with a package: nothing of it goes into the cache.
Packaged(m, n, b, spare) ==
  IF BaseOf[n] = NULL THEN Created(m, n, b, NULL, TRUE)
  ELSE Created(Created(m, BaseOf[n], spare, NULL, TRUE), n, b, spare, TRUE)

\* Two blocks that malloc may yield.
Malloc(m, b, spare) == b # spare /\ {b, spare} \cap m.used = {}

-----------------------------------------------------------------------------
(* A thread makes one call at a time and has at most one converter. "todo":  *)
(* the names still to be loaded, or when cloning the blocks still to be      *)
(* counted; "held": the blocks it counts as a client of; "test": the data is *)
(* loaded by ucnv_canCreateConverter; "peer": the thread cloned from.        *)

Phases == {"idle", "loading", "cloning", "open", "closing", "getting", "putting",
           "draining", "emptying", "flushing", "sweeping"}

Call == [phase : Phases, todo : SUBSET (Names \cup Blocks), held : SUBSET Blocks,
         test : BOOLEAN, peer : Threads \cup {NULL}]

Idle == [phase |-> "idle", todo |-> {}, held |-> {}, test |-> FALSE, peer |-> NULL]

Sweep == [pass : 0..2, left : SUBSET Blocks, remaining : BOOLEAN]

NoSweep == [pass |-> 0, left |-> {}, remaining |-> FALSE]

At(t, phase) == call[t].phase = phase
Become(t, c) == call' = [call EXCEPT ![t] = c]

Having(phase, held) == [Idle EXCEPT !.phase = phase, !.held = held]

\* The converter of t is given up; "emptying" is the default converter that
\* ucnv_flushCache closes before it goes on.
GivenUp(phase, held) ==
  IF held # {} THEN Having(phase, held)
  ELSE IF phase = "emptying" THEN [Idle EXCEPT !.phase = "flushing"] ELSE Idle

Loading(c, test) ==
  [Idle EXCEPT !.phase = "loading", !.todo = PartsOf[c], !.test = test]

Init ==
  /\ mem = NoData
  /\ call = [t \in Threads |-> Idle]
  /\ slot = {}
  /\ mutex = NULL
  /\ sweep = NoSweep

-----------------------------------------------------------------------------
(* ucnv_open and ucnv_canCreateConverter.                                    *)

Open(t, c, test) ==
  /\ At(t, "idle")
  /\ Become(t, Loading(c, test))
  /\ UNCHANGED <<mem, slot, mutex, sweep>>

\* One call of ucnv_loadSharedData: the lookup and what follows it are one
\* critical section. When all parts are there, a test gives them up again, and
\* so does an open that finds no memory for the UConverter.
LoadPart(t) ==
  /\ At(t, "loading")
  /\ mutex = NULL
  /\ \E n \in call[t].todo, b, spare \in Blocks :
       /\ mem.table[n] = NULL => Malloc(mem, b, spare)
       /\ mem' \in Load(mem, n, call[t].test, b, spare)
       /\ LET held == call[t].held \cup {LoadedBlock(mem, n, b)}
          IN  IF call[t].todo # {n}
              THEN Become(t, [call[t] EXCEPT !.todo = @ \ {n}, !.held = held])
              ELSE \E phase \in {"open", "closing"} :
                     /\ call[t].test => phase = "closing"
                     /\ Become(t, GivenUp(phase, held))
  /\ UNCHANGED <<slot, mutex, sweep>>

\* A file is missing or unusable, or there is no memory. What is held already
\* is given up; a base table that was loaded first stays, if it is in the cache.
LoadFails(t) ==
  /\ At(t, "loading")
  /\ mutex = NULL
  /\ Become(t, GivenUp("closing", call[t].held))
  /\ \/ UNCHANGED mem
     \/ \E n \in call[t].todo, spare \in Blocks \ mem.used :
          /\ ~call[t].test /\ mem.table[n] = NULL /\ BaseOf[n] # NULL
          /\ \E l \in BaseLoaded(mem, BaseOf[n], spare) :
               mem' = Unload(l, LoadedBlock(mem, BaseOf[n], spare))
  /\ UNCHANGED <<slot, mutex, sweep>>

\* ucnv_openPackage: the data of an application is not cached, nor is its base,
\* so no lock is needed.
OpenPackage(t, n) ==
  /\ At(t, "idle")
  /\ \E b, spare \in Blocks, phase \in {"open", "closing"} :
       /\ Malloc(mem, b, spare)
       /\ mem' = Packaged(mem, n, b, spare)
       /\ Become(t, GivenUp(phase, {b}))
  /\ UNCHANGED <<slot, mutex, sweep>>

-----------------------------------------------------------------------------
(* ucnv_safeClone copies a converter that another thread keeps open, and     *)
(* then counts itself as a client of each part.                              *)

Clone(t, peer) ==
  /\ At(t, "idle")
  /\ At(peer, "open")
  /\ Become(t, [Idle EXCEPT !.phase = "cloning", !.todo = call[peer].held, !.peer = peer])
  /\ UNCHANGED <<mem, slot, mutex, sweep>>

\* Mutant of CountPart: the clone does not count itself.
CountPartUncounted(t) ==
  /\ At(t, "cloning")
  /\ mutex = NULL
  /\ \E b \in call[t].todo :
       LET held == call[t].held \cup {b}
       IN  Become(t, IF call[t].todo = {b} THEN Having("open", held)
                     ELSE [call[t] EXCEPT !.todo = @ \ {b}, !.held = held])
  /\ UNCHANGED <<mem, slot, mutex, sweep>>

\* ucnv_incrementRefCount
CountPart(t) ==
  /\ At(t, "cloning")
  /\ mutex = NULL
  /\ \E b \in call[t].todo :
       /\ mem' = AddRef(mem, b)
       /\ LET held == call[t].held \cup {b}
          IN  Become(t, IF call[t].todo = {b} THEN Having("open", held)
                        ELSE [call[t] EXCEPT !.todo = @ \ {b}, !.held = held])
  /\ UNCHANGED <<slot, mutex, sweep>>

\* Whoever shares a converter keeps it until the clones are made.
Unshared(t) == \A u \in Threads : At(u, "cloning") => call[u].peer # t

\* ucnv_close
Close(t) ==
  /\ At(t, "open")
  /\ Unshared(t)
  /\ Become(t, GivenUp("closing", call[t].held))
  /\ UNCHANGED <<mem, slot, mutex, sweep>>

\* ucnv_unloadSharedDataIfReady
UnloadPart(t) ==
  /\ At(t, "closing") \/ At(t, "emptying")
  /\ mutex = NULL
  /\ \E b \in call[t].held :
       /\ mem' = Unload(mem, b)
       /\ Become(t, GivenUp(call[t].phase, call[t].held \ {b}))
  /\ UNCHANGED <<slot, mutex, sweep>>

-----------------------------------------------------------------------------
(* The default converter. Each function looks at gDefaultConverter first     *)
(* without a lock, and again with the global lock.                           *)

\* u_getDefaultConverter
GetDefault(t) ==
  /\ At(t, "idle")
  /\ Become(t, IF slot = {} THEN Loading(Default, FALSE)
               ELSE [Idle EXCEPT !.phase = "getting"])
  /\ UNCHANGED <<mem, slot, mutex, sweep>>

TakeDefault(t) ==
  /\ At(t, "getting")
  /\ Become(t, IF slot = {} THEN Loading(Default, FALSE) ELSE Having("open", slot))
  /\ slot' = {}
  /\ UNCHANGED <<mem, mutex, sweep>>

\* u_releaseDefaultConverter: the caller gives back what it got.
ReleaseDefault(t) ==
  /\ At(t, "open")
  /\ {mem.name[b] : b \in call[t].held} = PartsOf[Default]
  /\ Unshared(t)
  /\ Become(t, IF slot = {} THEN Having("putting", call[t].held)
               ELSE GivenUp("closing", call[t].held))
  /\ UNCHANGED <<mem, slot, mutex, sweep>>

PutDefault(t) ==
  /\ At(t, "putting")
  /\ slot' = IF slot = {} THEN call[t].held ELSE slot
  /\ Become(t, IF slot = {} THEN Idle ELSE GivenUp("closing", call[t].held))
  /\ UNCHANGED <<mem, mutex, sweep>>

-----------------------------------------------------------------------------
(* ucnv_flushCache: u_flushDefaultConverter, then the double loop over the   *)
(* table, in the order that hashing happens to give.                         *)

FlushCache(t) ==
  /\ At(t, "idle")
  /\ Become(t, [Idle EXCEPT !.phase = IF slot = {} THEN "flushing" ELSE "draining"])
  /\ UNCHANGED <<mem, slot, mutex, sweep>>

DrainDefault(t) ==
  /\ At(t, "draining")
  /\ Become(t, IF slot = {} THEN [Idle EXCEPT !.phase = "flushing"]
               ELSE GivenUp("emptying", slot))
  /\ slot' = {}
  /\ UNCHANGED <<mem, mutex, sweep>>

\* There is no table yet; nothing is locked for that test.
FlushNothing(t) ==
  /\ At(t, "flushing")
  /\ ~mem.hashed
  /\ Become(t, Idle)
  /\ UNCHANGED <<mem, slot, mutex, sweep>>

StartPass(pass) == sweep' = [pass |-> pass, left |-> InTable(mem), remaining |-> FALSE]

SweepBegin(t) ==
  /\ At(t, "flushing")
  /\ mem.hashed
  /\ mutex = NULL
  /\ mutex' = t
  /\ StartPass(1)
  /\ Become(t, [Idle EXCEPT !.phase = "sweeping"])
  /\ UNCHANGED <<mem, slot>>

\* Deletes only if the reference counter is 0.
SweepEntry(t) ==
  /\ At(t, "sweeping")
  /\ \E b \in sweep.left :
       IF mem.refs[b] = 0
       THEN /\ mem' = Evicted(mem, b)
            /\ sweep' = [sweep EXCEPT !.left = @ \ {b}]
       ELSE /\ sweep' = [sweep EXCEPT !.left = @ \ {b}, !.remaining = TRUE]
            /\ UNCHANGED mem
  /\ UNCHANGED <<call, slot, mutex>>

\* Mutant of Again: one loop is thought to be enough.
AgainNever == FALSE

\* Unloading an extension may have left its base, seen before, without clients.
Again == sweep.pass = 1 /\ sweep.remaining

SweepAgain(t) ==
  /\ At(t, "sweeping")
  /\ sweep.left = {}
  /\ Again
  /\ StartPass(2)
  /\ UNCHANGED <<mem, call, slot, mutex>>

SweepEnd(t) ==
  /\ At(t, "sweeping")
  /\ sweep.left = {}
  /\ ~Again
  /\ mutex' = NULL
  /\ sweep' = NoSweep
  /\ Become(t, Idle)
  /\ UNCHANGED <<mem, slot>>

-----------------------------------------------------------------------------
Step(t) ==
  \/ LoadPart(t) \/ LoadFails(t) \/ CountPart(t) \/ UnloadPart(t)
  \/ TakeDefault(t) \/ PutDefault(t) \/ DrainDefault(t)
  \/ FlushNothing(t) \/ SweepBegin(t) \/ SweepEntry(t) \/ SweepAgain(t) \/ SweepEnd(t)

Next == \E t \in Threads :
  \/ \E c \in Converters, test \in BOOLEAN : Open(t, c, test)
  \/ \E n \in Names : OpenPackage(t, n)
  \/ \E peer \in Threads : Clone(t, peer)
  \/ Close(t)
  \/ GetDefault(t)
  \/ ReleaseDefault(t)
  \/ FlushCache(t)
  \/ Step(t)

Spec == Init /\ [][Next]_vars

-----------------------------------------------------------------------------
CacheTypeOK ==
  /\ mem \in Memory
  /\ call \in [Threads -> Call]
  /\ slot \in SUBSET Blocks
  /\ mutex \in Threads \cup {NULL}
  /\ sweep \in Sweep

\* Those who count as clients of b: threads, the default converter (NULL stands
\* for it), and extensions whose base it is.
Clients(b) ==
  {t \in Threads : b \in call[t].held}
    \cup {o \in {NULL} : b \in slot}
    \cup {e \in mem.used : mem.base[e] = b}

\* The referenceCounter of every block is the number of its clients, in every
\* interleaving of opening, cloning, closing, failing and flushing.
CountsAreExact == \A b \in mem.used : mem.refs[b] = Cardinality(Clients(b))

\* No block is lost: what nobody uses is in the table, where a later open or a
\* flush finds it. (An entry overwritten in the table, or test data that is not
\* freed, would be lost.) That holds as long as the table has room for every file.
NothingLeaks == \A b \in mem.used : Clients(b) = {} => mem.table[mem.name[b]] = b

\* ucnv_bld.h:102: sharedDataCached says that the data is in the cache. Without it,
\* ucnv_unload keeps data for good that no lookup and no flush will find.
CachedIsInTable == \A b \in mem.cached : mem.table[mem.name[b]] = b

\* The tables that a set of blocks converts by; one that was loaded for a mere test
\* does not convert by anything that was asked for.
TablesOf(m, held) ==
  LET bases == {m.base[b] : b \in held} \ {NULL}
  IN  {IF b \in m.whole THEN m.name[b] ELSE NULL : b \in held \cup bases}

TablesFor(parts) == parts \cup ({BaseOf[n] : n \in parts} \ {NULL})

Opened ==
  [t \in Threads |-> IF call[t].phase \in {"open", "putting"} THEN TablesOf(mem, call[t].held) ELSE {}]

AllContents ==
  {TablesFor(PartsOf[c]) : c \in Converters} \cup {TablesFor({n}) : n \in Names}

\* ConverterCache keeps the promise of ConverterHandles. A block that is freed
\* while a converter uses it, then used for other data, an extension handed out
\* without its base, or test data that became shared, would change what the
\* converter converts by.
Promise == INSTANCE ConverterHandles WITH
  Contents <- AllContents, open <- Opened, spare <- TablesOf(mem, slot)

ImplementsHandles == Promise!Spec

\* When ucnv_flushCache gives back the lock, no entry without clients is left,
\* also not the base tables that lost theirs in the course of it.
FlushIsComplete ==
  [][mutex # NULL /\ mutex' = NULL => \A b \in InTable(mem) : mem.refs[b] > 0]_vars
=============================================================================
