-------------------------- MODULE ConverterProofs --------------------------
(***************************************************************************)
(* Proofs about ConverterCache, for any threads, any memory, any files and *)
(* any converters.                                                         *)
(***************************************************************************)
EXTENDS ConverterCache, FiniteSetTheorems, TLAPS

-----------------------------------------------------------------------------
(* What holds of the memory whoever its clients are. "h" says for each block *)
(* who counts as a client of it without being an extension of it; while a    *)
(* block is loaded or deleted, it may itself be such a client of its base.   *)

Tokens == Threads \cup {NULL} \cup Blocks

Uses(m, h, b) == h[b] \cup {e \in m.used : m.base[e] = b}

BlocksLinked(m) ==
  \A b \in m.used :
    /\ m.name[b] \in Names
    /\ m.base[b] # NULL => m.base[b] \in m.used /\ m.name[m.base[b]] = BaseOf[m.name[b]]

\* There is room in the table for all files, so it never has to grow.
Roomy == IsFiniteSet(Names) /\ Cardinality(Names) <= TableSize

\* The table holds blocks that are marked as cached, under their names; all of them,
\* when there is room.
TableIsCache(m) ==
  /\ m.cached \subseteq m.used
  /\ \A n \in Names :
       m.table[n] # NULL => m.table[n] \in m.cached /\ m.name[m.table[n]] = n
  /\ Roomy => \A b \in m.cached : m.table[m.name[b]] = b

Counted(m, h) ==
  /\ h \in [Blocks -> SUBSET Tokens]
  /\ \A b \in Blocks : h[b] # {} => b \in m.used
  /\ \A b \in m.used : m.refs[b] = Cardinality(Uses(m, h, b))

\* Blocks that are neither cached nor used are freed, but for those of X.
Kept(m, X) == \A b \in m.used : b \in m.cached \/ b \in X \/ m.refs[b] > 0

Sound(m, h, X) ==
  m \in Memory /\ BlocksLinked(m) /\ TableIsCache(m) /\ Counted(m, h) /\ Kept(m, X)

LEMMA UsesFinite ==
  ASSUME NEW m \in Memory, NEW h \in [Blocks -> SUBSET Tokens], NEW b \in Blocks
  PROVE  IsFiniteSet(Uses(m, h, b))
<1>1. IsFiniteSet(Tokens)
  <2>1. IsFiniteSet({NULL})
    BY FS_Singleton
  <2>2. IsFiniteSet(Threads \cup {NULL})
    BY <2>1, FS_Union, MemoryAssumption
  <2> QED BY <2>2, FS_Union, MemoryAssumption DEF Tokens
<1>2. Uses(m, h, b) \subseteq Tokens
  BY DEF Uses, Tokens, Memory
<1> QED BY <1>1, <1>2, FS_Subset

\* A base table is no extension.
LEMMA BaseHasNoBase ==
  ASSUME NEW m \in Memory, BlocksLinked(m), NEW b \in m.used, BaseOf[m.name[b]] = NULL
  PROVE  m.base[b] = NULL
BY MemoryAssumption DEF BlocksLinked, Memory

\* AddRef with a new client x.
LEMMA AddRefSound ==
  ASSUME NEW m, NEW h, NEW X, NEW b \in m.used, NEW x \in Tokens,
         Sound(m, h, X), x \notin Uses(m, h, b)
  PROVE  Sound(AddRef(m, b), [h EXCEPT ![b] = @ \cup {x}], X)
<1> DEFINE a == AddRef(m, b)
           g == [h EXCEPT ![b] = @ \cup {x}]
<1>1. m \in Memory /\ b \in Blocks /\ h \in [Blocks -> SUBSET Tokens]
  BY DEF Sound, Counted, Memory
<1>2. /\ a \in Memory
      /\ a.used = m.used /\ a.name = m.name /\ a.cached = m.cached
      /\ a.base = m.base /\ a.table = m.table
      /\ a.refs = [m.refs EXCEPT ![b] = @ + 1]
  BY <1>1 DEF AddRef, Memory
<1>3. \A y \in Blocks : Uses(a, g, y) = IF y = b THEN Uses(m, h, b) \cup {x} ELSE Uses(m, h, y)
  BY <1>1, <1>2 DEF Uses
<1>4. Cardinality(Uses(m, h, b) \cup {x}) = Cardinality(Uses(m, h, b)) + 1
  BY <1>1, UsesFinite, FS_AddElement
<1>5. g \in [Blocks -> SUBSET Tokens]
  BY <1>1
<1>6. m.refs \in [Blocks -> Nat] /\ m.used \subseteq Blocks
  BY <1>1 DEF Memory
<1>7. \A y \in m.used : a.refs[y] = IF y = b THEN m.refs[b] + 1 ELSE m.refs[y]
  BY <1>2, <1>6
<1>8. Counted(a, g)
  <2>1. \A y \in Blocks : g[y] # {} => y \in a.used
    BY <1>1, <1>2 DEF Sound, Counted
  <2>2. \A y \in a.used : a.refs[y] = Cardinality(Uses(a, g, y))
    BY <1>2, <1>3, <1>4, <1>6, <1>7 DEF Sound, Counted
  <2> QED BY <1>5, <2>1, <2>2 DEF Counted
<1>9. BlocksLinked(a) /\ TableIsCache(a)
  BY <1>2 DEF Sound, BlocksLinked, TableIsCache
<1>10. Kept(a, X)
  BY <1>1, <1>2, <1>6, <1>7 DEF Sound, Kept
<1> QED BY <1>2, <1>8, <1>9, <1>10 DEF Sound

\* Created, of a block without a base and with the client x.
LEMMA CreatedSound ==
  ASSUME NEW m, NEW h, NEW X, NEW n \in Names, NEW b \in Blocks \ m.used,
         NEW whole \in BOOLEAN, NEW x \in Tokens, Sound(m, h, X)
  PROVE  Sound(Created(m, n, b, NULL, whole), [h EXCEPT ![b] = {x}], X)
<1> DEFINE a == Created(m, n, b, NULL, whole)
           g == [h EXCEPT ![b] = {x}]
<1>1. /\ m \in Memory /\ h \in [Blocks -> SUBSET Tokens] /\ m.used \subseteq Blocks
      /\ m.refs \in [Blocks -> Nat] /\ m.name \in [Blocks -> Names \cup {NULL}]
      /\ m.base \in [Blocks -> Blocks \cup {NULL}]
      /\ m.table \in [Names -> Blocks \cup {NULL}]
  BY DEF Sound, Counted, Memory
<1>2. /\ a \in Memory
      /\ a.used = m.used \cup {b}
      /\ a.name = [m.name EXCEPT ![b] = n]
      /\ a.cached = m.cached /\ a.table = m.table
      /\ a.base = [m.base EXCEPT ![b] = NULL]
      /\ a.refs = [m.refs EXCEPT ![b] = 1]
  BY <1>1 DEF Created, Memory
<1> HIDE DEF a
<1>3. b # NULL /\ \A y \in Blocks : y # NULL
  BY MemoryAssumption
<1>4. Uses(a, g, b) = {x}
  <2>1. g[b] = {x}
    BY <1>1
  <2>2. ASSUME NEW e \in a.used, a.base[e] = b PROVE FALSE
    <3>1. e # b
      BY <1>1, <1>2, <1>3, <2>2
    <3>2. e \in m.used /\ m.base[e] = b
      BY <3>1, <1>1, <1>2, <2>2
    <3> QED BY <3>2, <1>3 DEF Sound, BlocksLinked
  <2> QED BY <2>1, <2>2 DEF Uses
<1>5. \A y \in m.used : Uses(a, g, y) = Uses(m, h, y)
  BY <1>1, <1>2, <1>3 DEF Uses
<1>6. g \in [Blocks -> SUBSET Tokens]
  BY <1>1
<1>7. Counted(a, g)
  <2>1. \A y \in Blocks : g[y] # {} => y \in a.used
    BY <1>1, <1>2 DEF Sound, Counted
  <2>2. Cardinality({x}) = 1
    BY FS_Singleton
  <2>3. a.refs[b] = 1
    BY <1>1, <1>2
  <2>4. \A y \in m.used : a.refs[y] = m.refs[y]
    BY <1>1, <1>2
  <2>5. \A y \in a.used : a.refs[y] = Cardinality(Uses(a, g, y))
    BY <1>2, <1>4, <1>5, <2>2, <2>3, <2>4 DEF Sound, Counted
  <2> QED BY <1>6, <2>1, <2>5 DEF Counted
<1>8. BlocksLinked(a)
  BY <1>1, <1>2, <1>3 DEF Sound, BlocksLinked
<1>9. TableIsCache(a)
  <2>1. \A y \in m.cached : y \in m.used /\ a.name[y] = m.name[y]
    BY <1>1, <1>2 DEF Sound, TableIsCache
  <2> QED BY <1>2, <2>1 DEF Sound, TableIsCache
<1>10. Kept(a, X)
  <2>1. a.refs[b] = 1 /\ \A y \in m.used : a.refs[y] = m.refs[y]
    BY <1>1, <1>2
  <2> QED BY <1>1, <1>2, <2>1 DEF Sound, Kept
<1> QED BY <1>2, <1>7, <1>8, <1>9, <1>10 DEF Sound, a

\* When there is room for all files, there is room for the next one.
LEMMA RoomLeft ==
  ASSUME Roomy, NEW m \in Memory, NEW n \in Names, m.table[n] = NULL
  PROVE  ~(Cardinality(InTable(m)) >= TableSize)
<1> DEFINE S == {k \in Names : m.table[k] # NULL}
           f == [k \in S |-> m.table[k]]
<1>1. f \in Surjection(S, InTable(m))
  BY DEF Surjection, InTable
<1>2. IsFiniteSet(Names \ {n}) /\ Cardinality(Names \ {n}) = Cardinality(Names) - 1
  BY FS_RemoveElement DEF Roomy
<1>3. IsFiniteSet(S) /\ Cardinality(S) <= Cardinality(Names \ {n})
  BY <1>2, FS_Subset
<1>4. Cardinality(InTable(m)) <= Cardinality(S) /\ IsFiniteSet(InTable(m))
  BY <1>1, <1>3, FS_Surjection
<1>5. /\ Cardinality(InTable(m)) \in Nat /\ Cardinality(S) \in Nat
      /\ Cardinality(Names) \in Nat /\ Cardinality(Names \ {n}) \in Nat
  BY <1>2, <1>3, <1>4, FS_CardinalityType DEF Roomy
<1> QED BY <1>2, <1>3, <1>4, <1>5, TableAssumption DEF Roomy

\* Shared, of a block whose file is not in the table.
LEMMA SharedSound ==
  ASSUME NEW m, NEW h, NEW X, NEW b \in m.used, NEW a \in Shared(m, b),
         Sound(m, h, X), m.table[m.name[b]] = NULL
  PROVE  /\ Sound(a, h, X)
         /\ a.used = m.used /\ a.name = m.name /\ a.refs = m.refs
         /\ a.base = m.base /\ a.whole = m.whole
         /\ m.cached \subseteq a.cached /\ a.cached \subseteq m.cached \cup {b}
         /\ \A k \in Names : k # m.name[b] => a.table[k] = m.table[k]
<1>1. /\ m \in Memory /\ m.used \subseteq Blocks /\ b \in Blocks /\ b # NULL
      /\ m.name[b] \in Names /\ m.table \in [Names -> Blocks \cup {NULL}]
      /\ m.cached \subseteq m.used
  BY MemoryAssumption DEF Sound, BlocksLinked, TableIsCache, Memory
<1>2. /\ a.used = m.used /\ a.name = m.name /\ a.refs = m.refs
      /\ a.base = m.base /\ a.whole = m.whole
  BY <1>1 DEF Shared, Marked, Memory
<1>3. a \in Memory
  <2> DEFINE d == Marked(m, b)
  <2>1. d \in Memory /\ d.table = m.table
    BY <1>1 DEF Marked, Memory
  <2> HIDE DEF d
  <2>2. [d EXCEPT !.table[m.name[b]] = b] \in Memory
    BY <1>1, <2>1 DEF Memory
  <2> QED BY <1>1, <2>1, <2>2 DEF Shared, d
<1>4. \/ a.cached = m.cached /\ a.table = m.table
      \/ a.cached = m.cached \cup {b} /\ a.table = [m.table EXCEPT ![m.name[b]] = b]
      \/ /\ a.cached = m.cached \cup {b} /\ a.table = m.table
         /\ Cardinality(InTable(m)) >= TableSize
  BY <1>1 DEF Shared, Marked, Memory
<1>5. BlocksLinked(a)
  BY <1>2 DEF Sound, BlocksLinked
<1>6. Counted(a, h)
  BY <1>2 DEF Sound, Counted, Uses
<1>7. Kept(a, X)
  BY <1>2, <1>4 DEF Sound, Kept
<1>8. a.cached \subseteq a.used
  BY <1>1, <1>2, <1>4
<1>9. ASSUME NEW n \in Names, a.table[n] # NULL
      PROVE  a.table[n] \in a.cached /\ a.name[a.table[n]] = n
  BY <1>1, <1>2, <1>4, <1>9 DEF Sound, TableIsCache
<1>10. ASSUME Roomy, NEW y \in a.cached PROVE a.table[a.name[y]] = y
  <2>1. ~(Cardinality(InTable(m)) >= TableSize)
    BY <1>1, <1>10, RoomLeft
  <2>2. \A z \in m.cached : m.table[m.name[z]] = z /\ z # NULL /\ m.name[z] \in Names
    BY <1>1, <1>10, MemoryAssumption DEF Sound, TableIsCache, BlocksLinked
  <2>3. \/ a.cached = m.cached /\ a.table = m.table
        \/ a.cached = m.cached \cup {b} /\ a.table = [m.table EXCEPT ![m.name[b]] = b]
    BY <1>4, <2>1
  <2> QED BY <1>1, <1>2, <1>10, <2>2, <2>3
<1>11. TableIsCache(a)
  BY <1>8, <1>9, <1>10 DEF TableIsCache
<1>12. \A k \in Names : k # m.name[b] => a.table[k] = m.table[k]
  BY <1>1, <1>4
<1> QED BY <1>2, <1>3, <1>4, <1>5, <1>6, <1>7, <1>11, <1>12 DEF Sound

\* Decremented, when the client x goes; if it was the last, b may be deleted.
LEMMA DecrementedSound ==
  ASSUME NEW m, NEW h, NEW X, NEW b \in Blocks, NEW x \in h[b],
         Sound(m, h, X), x \notin Blocks \/ x \notin m.used \/ m.base[x] # b
  PROVE  /\ b \in m.used
         /\ Sound(Decremented(m, b), [h EXCEPT ![b] = @ \ {x}], X \cup {b})
         /\ ~Unneeded(Decremented(m, b), b) =>
              Sound(Decremented(m, b), [h EXCEPT ![b] = @ \ {x}], X)
         /\ Unneeded(Decremented(m, b), b) =>
              b \notin m.cached /\ Uses(Decremented(m, b), [h EXCEPT ![b] = @ \ {x}], b) = {}
<1> DEFINE a == Decremented(m, b)
           g == [h EXCEPT ![b] = @ \ {x}]
<1>1. m \in Memory /\ b \in m.used /\ h \in [Blocks -> SUBSET Tokens]
  BY DEF Sound, Counted
<1>2. /\ m.refs \in [Blocks -> Nat] /\ m.used \subseteq Blocks
      /\ m.refs[b] = Cardinality(Uses(m, h, b))
  BY <1>1 DEF Memory, Sound, Counted
<1>3. x \in Uses(m, h, b)
  BY DEF Uses
<1>4. IsFiniteSet(Uses(m, h, b)) /\ IsFiniteSet(Uses(m, h, b) \ {x})
      /\ Cardinality(Uses(m, h, b) \ {x}) = Cardinality(Uses(m, h, b)) - 1
  BY <1>1, <1>3, UsesFinite, FS_RemoveElement
<1>5. m.refs[b] > 0
  BY <1>2, <1>3, <1>4, FS_EmptySet
<1>6. /\ a \in Memory
      /\ a.used = m.used /\ a.name = m.name /\ a.cached = m.cached
      /\ a.base = m.base /\ a.table = m.table
      /\ a.refs = [m.refs EXCEPT ![b] = @ - 1]
  BY <1>1, <1>2, <1>5 DEF Decremented, Memory
<1>7. \A y \in Blocks : Uses(a, g, y) = IF y = b THEN Uses(m, h, b) \ {x} ELSE Uses(m, h, y)
  BY <1>1, <1>2, <1>6 DEF Uses
<1>8. \A y \in m.used : a.refs[y] = IF y = b THEN m.refs[b] - 1 ELSE m.refs[y]
  BY <1>2, <1>6
<1>9. Counted(a, g)
  <2>1. g \in [Blocks -> SUBSET Tokens]
    BY <1>1
  <2>2. \A y \in Blocks : g[y] # {} => y \in a.used
    BY <1>1, <1>6 DEF Sound, Counted
  <2>3. \A y \in a.used : a.refs[y] = Cardinality(Uses(a, g, y))
    BY <1>2, <1>4, <1>6, <1>7, <1>8 DEF Sound, Counted
  <2> QED BY <2>1, <2>2, <2>3 DEF Counted
<1>10. BlocksLinked(a) /\ TableIsCache(a)
  BY <1>6 DEF Sound, BlocksLinked, TableIsCache
<1>11. Kept(a, X \cup {b})
  BY <1>6, <1>8 DEF Sound, Kept
<1>12. ~Unneeded(a, b) => Kept(a, X)
  BY <1>1, <1>6, <1>8, <1>2, <1>5 DEF Sound, Kept, Unneeded
<1>13. ASSUME Unneeded(a, b) PROVE b \notin m.cached /\ Uses(a, g, b) = {}
  <2>1. b \notin m.cached /\ a.refs[b] = 0
    BY <1>13, <1>6 DEF Unneeded
  <2>2. Cardinality(Uses(a, g, b)) = 0
    BY <2>1, <1>1, <1>6, <1>9 DEF Counted
  <2>3. IsFiniteSet(Uses(a, g, b))
    BY <1>4, <1>7, <1>1, <1>2
  <2> QED BY <2>1, <2>2, <2>3, FS_EmptySet
<1> QED BY <1>1, <1>6, <1>9, <1>10, <1>11, <1>12, <1>13 DEF Sound

\* Freed, of a block that nobody uses and that has no base.
LEMMA FreedSound ==
  ASSUME NEW m, NEW h, NEW X, NEW b \in m.used \ m.cached,
         Sound(m, h, X), Uses(m, h, b) = {}, m.base[b] = NULL
  PROVE  Sound(Freed(m, b), h, X \ {b})
<1> DEFINE a == Freed(m, b)
<1>1. /\ m \in Memory /\ h \in [Blocks -> SUBSET Tokens]
      /\ b \in Blocks /\ b # NULL /\ m.used \subseteq Blocks
      /\ m.refs \in [Blocks -> Nat] /\ m.name \in [Blocks -> Names \cup {NULL}]
      /\ m.base \in [Blocks -> Blocks \cup {NULL}]
  BY MemoryAssumption DEF Sound, Counted, Memory
<1>2. /\ a \in Memory
      /\ a.used = m.used \ {b} /\ a.cached = m.cached /\ a.table = m.table
      /\ a.name = [m.name EXCEPT ![b] = NULL]
      /\ a.refs = [m.refs EXCEPT ![b] = 0]
      /\ a.base = [m.base EXCEPT ![b] = NULL]
  BY <1>1 DEF Freed, Memory
<1> HIDE DEF a
<1>3. \A y \in a.used : y \in m.used /\ a.name[y] = m.name[y] /\ a.refs[y] = m.refs[y]
                         /\ a.base[y] = m.base[y] /\ m.base[y] # b
  BY <1>1, <1>2 DEF Uses
<1>4. h[b] = {}
  BY DEF Uses
<1>5. \A y \in a.used : Uses(a, h, y) = Uses(m, h, y)
  <2> TAKE y \in a.used
  <2>1. y # NULL
    BY <1>1, <1>3, MemoryAssumption
  <2>2. {e \in a.used : a.base[e] = y} = {e \in m.used : m.base[e] = y}
    BY <1>2, <1>3, <2>1
  <2> QED BY <2>2 DEF Uses
<1>6. Counted(a, h)
  BY <1>1, <1>2, <1>3, <1>4, <1>5 DEF Sound, Counted
<1>7. BlocksLinked(a)
  BY <1>1, <1>2, <1>3 DEF Sound, BlocksLinked
<1>8. TableIsCache(a)
  <2>1. \A y \in m.cached : y \in a.used
    BY <1>2 DEF Sound, TableIsCache
  <2> QED BY <2>1, <1>2, <1>3 DEF Sound, TableIsCache
<1>9. Kept(a, X \ {b})
  BY <1>2, <1>3 DEF Sound, Kept
<1> QED BY <1>2, <1>6, <1>7, <1>8, <1>9 DEF Sound, a

\* The link of an extension to its base is as good as another client of it.
LEMMA UnlinkedSound ==
  ASSUME NEW m, NEW h, NEW X, NEW b \in m.used, Sound(m, h, X), m.base[b] # NULL
  PROVE  Sound([m EXCEPT !.base[b] = NULL], [h EXCEPT ![m.base[b]] = @ \cup {b}], X)
<1> DEFINE y == m.base[b]
           a == [m EXCEPT !.base[b] = NULL]
           g == [h EXCEPT ![y] = @ \cup {b}]
<1>1. /\ m \in Memory /\ h \in [Blocks -> SUBSET Tokens]
      /\ b \in Blocks /\ m.used \subseteq Blocks /\ y \in m.used
      /\ m.base \in [Blocks -> Blocks \cup {NULL}]
  BY DEF Sound, Counted, Memory, BlocksLinked
<1>2. /\ a \in Memory
      /\ a.used = m.used /\ a.cached = m.cached /\ a.table = m.table
      /\ a.name = m.name /\ a.refs = m.refs
      /\ a.base = [m.base EXCEPT ![b] = NULL]
  BY <1>1 DEF Memory
<1> HIDE DEF a
<1>3. \A z \in Blocks : z # NULL
  BY MemoryAssumption
<1>4. \A z \in Blocks : Uses(a, g, z) = Uses(m, h, z)
  BY <1>1, <1>2, <1>3 DEF Uses
<1>5. g \in [Blocks -> SUBSET Tokens]
  BY <1>1 DEF Tokens
<1>6. Counted(a, g)
  BY <1>1, <1>2, <1>4, <1>5 DEF Sound, Counted
<1>7. BlocksLinked(a)
  BY <1>1, <1>2 DEF Sound, BlocksLinked
<1>8. TableIsCache(a) /\ Kept(a, X)
  BY <1>2 DEF Sound, TableIsCache, Kept
<1> QED BY <1>2, <1>6, <1>7, <1>8 DEF Sound, a

LEMMA LinkedSound ==
  ASSUME NEW m, NEW h, NEW X, NEW b \in m.used, NEW y \in m.used, Sound(m, h, X),
         m.base[b] = NULL, b \in h[y], m.name[y] = BaseOf[m.name[b]]
  PROVE  Sound([m EXCEPT !.base[b] = y], [h EXCEPT ![y] = @ \ {b}], X)
<1> DEFINE a == [m EXCEPT !.base[b] = y]
           g == [h EXCEPT ![y] = @ \ {b}]
<1>1. /\ m \in Memory /\ h \in [Blocks -> SUBSET Tokens]
      /\ b \in Blocks /\ m.used \subseteq Blocks /\ y \in Blocks
      /\ m.base \in [Blocks -> Blocks \cup {NULL}]
  BY DEF Sound, Counted, Memory, BlocksLinked
<1>2. /\ a \in Memory
      /\ a.used = m.used /\ a.cached = m.cached /\ a.table = m.table
      /\ a.name = m.name /\ a.refs = m.refs
      /\ a.base = [m.base EXCEPT ![b] = y]
  BY <1>1 DEF Memory
<1> HIDE DEF a
<1>3. \A z \in Blocks : z # NULL
  BY MemoryAssumption
<1>4. \A z \in Blocks : Uses(a, g, z) = Uses(m, h, z)
  BY <1>1, <1>2, <1>3 DEF Uses
<1>5. g \in [Blocks -> SUBSET Tokens]
  BY <1>1
<1>6. Counted(a, g)
  BY <1>1, <1>2, <1>4, <1>5 DEF Sound, Counted
<1>7. BlocksLinked(a)
  BY <1>1, <1>2 DEF Sound, BlocksLinked
<1>8. TableIsCache(a) /\ Kept(a, X)
  BY <1>2 DEF Sound, TableIsCache, Kept
<1> QED BY <1>2, <1>6, <1>7, <1>8 DEF Sound, a

-----------------------------------------------------------------------------
(* Loading, unloading and evicting. Between them, only threads and the       *)
(* default converter are clients without being extensions.                   *)

External(h) == h \in [Blocks -> SUBSET (Threads \cup {NULL})]

\* What is left of m in a holds the same data; at most the blocks of S are freed,
\* or lose a client.
SameBut(m, a, S) ==
  /\ a.used \subseteq m.used /\ a.table = m.table /\ a.cached = m.cached
  /\ \A z \in a.used : /\ a.name[z] = m.name[z] /\ a.base[z] = m.base[z]
                       /\ z \in a.whole <=> z \in m.whole
  /\ \A z \in m.used \ S : z \in a.used /\ a.refs[z] = m.refs[z]

\* What BaseUnloaded does when b is a client, and not an extension, of a base y.
LEMMA BaseUnloadedSound ==
  ASSUME NEW m, NEW h, NEW X, NEW y \in Blocks, NEW b \in h[y],
         Sound(m, h, X), m.base[y] = NULL, m.base[b] = NULL
  PROVE  /\ Sound(BaseUnloaded(m, y), [h EXCEPT ![y] = @ \ {b}], X \ {y})
         /\ SameBut(m, BaseUnloaded(m, y), {y})
<1> DEFINE d == Decremented(m, y)
           g == [h EXCEPT ![y] = @ \ {b}]
           a == BaseUnloaded(m, y)
<1>0. m \in Memory /\ m.used \subseteq Blocks /\ m.refs \in [Blocks -> Nat]
      /\ y # NULL /\ m.cached \subseteq m.used
  BY MemoryAssumption DEF Sound, Memory, TableIsCache
<1>1. /\ y \in m.used
      /\ Sound(d, g, X \cup {y})
      /\ ~Unneeded(d, y) => Sound(d, g, X)
      /\ Unneeded(d, y) => y \notin m.cached /\ Uses(d, g, y) = {}
  BY <1>0, DecrementedSound
<1>2. /\ d.used = m.used /\ d.table = m.table /\ d.cached = m.cached
      /\ d.name = m.name /\ d.base = m.base /\ d.whole = m.whole
      /\ \A z \in m.used \ {y} : d.refs[z] = m.refs[z]
      /\ d.refs[y] <= m.refs[y]
  BY <1>0 DEF Decremented, Memory
<1>3. CASE Unneeded(d, y)
  <2>1. a = Freed(d, y)
    BY <1>3 DEF BaseUnloaded
  <2>2. Sound(Freed(d, y), g, (X \cup {y}) \ {y})
    BY <1>1, <1>2, <1>3, FreedSound
  <2>3. (X \cup {y}) \ {y} = X \ {y}
    OBVIOUS
  <2>4. d \in Memory
    BY <1>1 DEF Sound
  <2>5. /\ a.used = m.used \ {y} /\ a.table = m.table /\ a.cached = m.cached
        /\ \A z \in a.used : a.name[z] = m.name[z] /\ a.base[z] = m.base[z]
                              /\ a.refs[z] = m.refs[z] /\ (z \in a.whole <=> z \in m.whole)
    BY <1>0, <1>2, <2>1, <2>4 DEF Freed, Memory
  <2>6. SameBut(m, a, {y})
    BY <2>5 DEF SameBut
  <2> QED BY <2>1, <2>2, <2>3, <2>6
<1>4. CASE ~Unneeded(d, y)
  <2>1. a = d
    BY <1>4 DEF BaseUnloaded
  <2>2. Sound(d, g, X \ {y})
    <3>1. y \in m.cached \/ d.refs[y] > 0
      <4>1. d.refs[y] \in Nat
        BY <1>0, <1>1 DEF Sound, Memory
      <4> QED BY <1>2, <1>4, <4>1 DEF Unneeded
    <3> QED BY <1>1, <1>2, <1>4, <3>1 DEF Sound, Kept
  <2>3. SameBut(m, a, {y})
    BY <1>0, <1>2, <2>1 DEF SameBut
  <2> QED BY <2>1, <2>2, <2>3
<1> QED BY <1>3, <1>4

\* It makes no difference to Freed what base the block has.
LEMMA FreedWhateverBase ==
  ASSUME NEW p \in Memory, NEW q \in Memory, NEW b \in Blocks,
         q.used = p.used, q.name = p.name, q.refs = p.refs, q.whole = p.whole,
         q.cached = p.cached, q.table = p.table, q.hashed = p.hashed,
         q.base = [p.base EXCEPT ![b] = NULL]
  PROVE  Freed(q, b) = Freed(p, b)
BY DEF Freed, Memory

\* ucnv_deleteSharedConverterData, of a block that nobody uses any more.
LEMMA DeletedSound ==
  ASSUME NEW m, NEW h, NEW b \in m.used \ m.cached,
         Sound(m, h, {b}), External(h), Uses(m, h, b) = {}
  PROVE  /\ Sound(Deleted(m, b), h, {})
         /\ SameBut(m, Deleted(m, b), {b, m.base[b]})
         /\ b \notin Deleted(m, b).used
<1> DEFINE a == Deleted(m, b)
<1>0. /\ m \in Memory /\ h \in [Blocks -> SUBSET Tokens]
      /\ b \in Blocks /\ b # NULL /\ b \notin Threads /\ m.used \subseteq Blocks
      /\ m.base \in [Blocks -> Blocks \cup {NULL}]
  BY MemoryAssumption DEF Sound, Counted, Memory
<1>1. CASE m.base[b] = NULL
  <2>1. a = Freed(m, b)
    BY <1>1 DEF Deleted
  <2>2. Sound(Freed(m, b), h, {b} \ {b})
    BY <1>1, FreedSound
  <2>3. {b} \ {b} = {}
    OBVIOUS
  <2>4. /\ a.used = m.used \ {b} /\ a.table = m.table /\ a.cached = m.cached
        /\ \A z \in a.used : a.name[z] = m.name[z] /\ a.base[z] = m.base[z]
                              /\ a.refs[z] = m.refs[z] /\ (z \in a.whole <=> z \in m.whole)
    BY <1>0, <2>1 DEF Freed, Memory
  <2>5. SameBut(m, a, {b, m.base[b]})
    BY <2>4 DEF SameBut
  <2> QED BY <2>1, <2>2, <2>3, <2>4, <2>5
<1>2. CASE m.base[b] # NULL
  <2> DEFINE y == m.base[b]
             m1 == [m EXCEPT !.base[b] = NULL]
             h1 == [h EXCEPT ![y] = @ \cup {b}]
             d == BaseUnloaded(m1, y)
  <2>1. y \in m.used /\ y \in Blocks /\ m.base[y] = NULL /\ y # b
    <3>1. y \in m.used /\ m.name[y] = BaseOf[m.name[b]] /\ m.name[b] \in Names
      BY <1>2 DEF Sound, BlocksLinked
    <3>2. m.name[y] \in Names /\ m.name[y] # NULL
      BY <3>1, MemoryAssumption DEF Sound, BlocksLinked
    <3>3. BaseOf[m.name[y]] = NULL
      BY <3>1, <3>2, FilesAssumption
    <3> QED BY <1>0, <1>2, <3>1, <3>3, BaseHasNoBase DEF Sound
  <2>2. Sound(m1, h1, {b})
    BY <1>2, UnlinkedSound
  <2>3. /\ m1 \in Memory
        /\ m1.used = m.used /\ m1.cached = m.cached /\ m1.table = m.table
        /\ m1.name = m.name /\ m1.refs = m.refs
        /\ m1.whole = m.whole /\ m1.hashed = m.hashed
        /\ m1.base = [m.base EXCEPT ![b] = NULL]
    BY <1>0 DEF Memory
  <2>4. m1.base[b] = NULL /\ m1.base[y] = NULL /\ b \in h1[y]
        /\ \A z \in Blocks : z # b => m1.base[z] = m.base[z]
    BY <1>0, <2>1, <2>3
  <2>5. h = [h1 EXCEPT ![y] = @ \ {b}]
    <3>1. b \notin h[y]
      BY <1>0, <2>1 DEF External
    <3>2. (h[y] \cup {b}) \ {b} = h[y]
      BY <3>1
    <3> QED BY <1>0, <2>1, <3>2
  <2> HIDE DEF m1, h1
  <2>a. Sound(d, [h1 EXCEPT ![y] = @ \ {b}], {b} \ {y}) /\ SameBut(m1, d, {y})
    BY <2>1, <2>2, <2>4, BaseUnloadedSound
  <2>6. /\ Sound(d, h, {b} \ {y})
        /\ d.used \subseteq m.used /\ d.table = m.table /\ d.cached = m.cached
        /\ \A z \in d.used : d.name[z] = m.name[z] /\ d.base[z] = m1.base[z]
                              /\ (z \in d.whole <=> z \in m.whole)
        /\ \A z \in m.used \ {y} : z \in d.used /\ d.refs[z] = m.refs[z]
    BY <2>3, <2>5, <2>a DEF SameBut
  <2> HIDE DEF d
  <2>7. {b} \ {y} = {b}
    BY <2>1
  <2>8. b \in d.used \ d.cached /\ d.base[b] = NULL
    BY <2>1, <2>4, <2>6
  <2>9. Uses(d, h, b) = {}
    <3>1. h[b] = {}
      BY DEF Uses
    <3>2. ASSUME NEW e \in d.used, d.base[e] = b PROVE FALSE
      BY <1>0, <2>4, <2>6, <3>2 DEF Uses
    <3> QED BY <3>1, <3>2 DEF Uses
  <2>10. Sound(Freed(d, b), h, {b} \ {b})
    BY <2>6, <2>7, <2>8, <2>9, FreedSound
  <2>11. {b} \ {b} = {}
    OBVIOUS
  <2>12. a = Freed(d, b)
    <3> DEFINE e == BaseUnloaded(m, y)
               p == Decremented(m, y)
               q == Decremented(m1, y)
    <3>1. a = Freed(e, b)
      BY <1>2 DEF Deleted
    <3>p. p \in Memory
      BY <1>0, <2>1 DEF Decremented, Memory
    <3>q. q \in Memory
      BY <2>1, <2>3 DEF Decremented, Memory
    <3>2. /\ p \in Memory /\ q \in Memory
          /\ q.used = p.used /\ q.name = p.name /\ q.refs = p.refs
          /\ q.cached = p.cached /\ q.table = p.table
          /\ q.whole = p.whole /\ q.hashed = p.hashed
          /\ q.base = [p.base EXCEPT ![b] = NULL]
      BY <1>0, <2>1, <2>3, <3>p, <3>q DEF Decremented, Memory
    <3>3. e = IF Unneeded(p, y) THEN Freed(p, y) ELSE p
      BY DEF BaseUnloaded
    <3>4. d = IF Unneeded(p, y) THEN Freed(q, y) ELSE q
      BY <3>2 DEF d, BaseUnloaded, Unneeded
    <3> HIDE DEF e, p, q
    <3>5. Freed(q, b) = Freed(p, b)
      BY <1>0, <3>2, FreedWhateverBase
    <3> DEFINE u == Freed(p, y)
               v == Freed(q, y)
    <3>a. u \in Memory
      BY <1>0, <2>1, <3>2 DEF Freed, Memory
    <3>b. v \in Memory
      BY <1>0, <2>1, <3>2 DEF Freed, Memory
    <3>c. /\ u.used = p.used \ {y} /\ u.whole = p.whole \ {y}
          /\ u.cached = p.cached /\ u.table = p.table /\ u.hashed = p.hashed
          /\ u.name = [p.name EXCEPT ![y] = NULL] /\ u.refs = [p.refs EXCEPT ![y] = 0]
          /\ u.base = [p.base EXCEPT ![y] = NULL]
      BY <3>2 DEF Freed, Memory
    <3>d. /\ v.used = q.used \ {y} /\ v.whole = q.whole \ {y}
          /\ v.cached = q.cached /\ v.table = q.table /\ v.hashed = q.hashed
          /\ v.name = [q.name EXCEPT ![y] = NULL] /\ v.refs = [q.refs EXCEPT ![y] = 0]
          /\ v.base = [q.base EXCEPT ![y] = NULL]
      BY <3>2 DEF Freed, Memory
    <3>e. p.base \in [Blocks -> Blocks \cup {NULL}]
      BY <3>2 DEF Memory
    <3> HIDE DEF u, v
    <3>6. /\ v.used = u.used /\ v.name = u.name /\ v.refs = u.refs
          /\ v.cached = u.cached /\ v.table = u.table
          /\ v.whole = u.whole /\ v.hashed = u.hashed
          /\ v.base = [u.base EXCEPT ![b] = NULL]
      BY <1>0, <2>1, <3>2, <3>c, <3>d, <3>e
    <3>7. Freed(v, b) = Freed(u, b)
      BY <1>0, <3>a, <3>b, <3>6, FreedWhateverBase
    <3> QED BY <3>1, <3>3, <3>4, <3>5, <3>7 DEF u, v
  <2>13. d \in Memory
    BY <2>6 DEF Sound
  <2>14. /\ a.used = d.used \ {b} /\ a.table = d.table /\ a.cached = d.cached
         /\ \A z \in a.used : a.name[z] = d.name[z] /\ a.base[z] = d.base[z]
                               /\ a.refs[z] = d.refs[z] /\ (z \in a.whole <=> z \in d.whole)
    BY <1>0, <2>6, <2>12, <2>13 DEF Freed, Memory
  <2>15. \A z \in a.used : a.name[z] = m.name[z] /\ a.base[z] = m.base[z]
                            /\ (z \in a.whole <=> z \in m.whole)
    BY <1>0, <2>4, <2>6, <2>14
  <2> HIDE DEF a
  <2>16. \A z \in m.used \ {b, y} : z \in a.used /\ a.refs[z] = m.refs[z]
    BY <2>6, <2>14
  <2>17. Sound(a, h, {})
    BY <2>10, <2>11, <2>12
  <2>18. a.used \subseteq m.used \ {b} /\ a.table = m.table /\ a.cached = m.cached
    BY <2>6, <2>14
  <2> QED BY <2>15, <2>16, <2>17, <2>18 DEF a, SameBut
<1> QED BY <1>1, <1>2

\* ucnv_unload, for the client x.
LEMMA UnloadSound ==
  ASSUME NEW m, NEW h, NEW b \in Blocks, NEW x \in h[b], Sound(m, h, {}), External(h)
  PROVE  /\ Sound(Unload(m, b), [h EXCEPT ![b] = @ \ {x}], {})
         /\ SameBut(m, Unload(m, b), {b, m.base[b]})
<1> DEFINE d == Decremented(m, b)
           g == [h EXCEPT ![b] = @ \ {x}]
<1>1. m \in Memory /\ m.refs \in [Blocks -> Nat] /\ m.used \subseteq Blocks
  BY DEF Sound, Memory
<1>2. x \notin Blocks
  BY MemoryAssumption DEF External
<1>3. /\ b \in m.used
      /\ Sound(d, g, {} \cup {b})
      /\ ~Unneeded(d, b) => Sound(d, g, {})
      /\ Unneeded(d, b) => b \notin m.cached /\ Uses(d, g, b) = {}
  BY <1>2, DecrementedSound
<1>4. SameBut(m, d, {b}) /\ d.base = m.base /\ d.used = m.used /\ d.cached = m.cached
  BY <1>1 DEF Decremented, Memory, SameBut
<1>5. External(g)
  BY DEF External
<1>6. {} \cup {b} = {b}
  OBVIOUS
<1>7. CASE Unneeded(d, b)
  <2>1. Unload(m, b) = Deleted(d, b)
    BY <1>7 DEF Unload
  <2>2. b \in d.used \ d.cached
    BY <1>3, <1>4, <1>7
  <2>3. Sound(Deleted(d, b), g, {}) /\ SameBut(d, Deleted(d, b), {b, d.base[b]})
    BY <1>3, <1>5, <1>6, <1>7, <2>2, DeletedSound
  <2>4. SameBut(m, Deleted(d, b), {b, m.base[b]})
    BY <1>4, <2>3 DEF SameBut
  <2> QED BY <2>1, <2>3, <2>4
<1>8. CASE ~Unneeded(d, b)
  <2>1. Unload(m, b) = d
    BY <1>8 DEF Unload
  <2>2. SameBut(m, d, {b, m.base[b]})
    BY <1>4 DEF SameBut
  <2> QED BY <1>3, <1>8, <2>1, <2>2
<1> QED BY <1>7, <1>8

\* What ucnv_flushCache makes of an entry that nobody uses.
LEMMA EvictedSound ==
  ASSUME NEW m, NEW h, NEW b \in m.cached, Sound(m, h, {}), External(h), m.refs[b] = 0,
         m.table[m.name[b]] = b
  PROVE  LET a == Evicted(m, b) IN
         /\ Sound(a, h, {})
         /\ a.used \subseteq m.used \ {b}
         /\ a.table = [m.table EXCEPT ![m.name[b]] = NULL]
         /\ a.cached = m.cached \ {b}
         /\ \A z \in a.used : a.name[z] = m.name[z] /\ a.base[z] = m.base[z]
                              /\ (z \in a.whole <=> z \in m.whole)
         /\ \A z \in m.used \ {b, m.base[b]} : z \in a.used /\ a.refs[z] = m.refs[z]
<1> DEFINE d == [m EXCEPT !.cached = @ \ {b}, !.table[m.name[b]] = NULL]
<1>1. /\ m \in Memory /\ h \in [Blocks -> SUBSET Tokens] /\ m.used \subseteq Blocks
      /\ m.cached \subseteq m.used /\ m.name[b] \in Names
      /\ m.table \in [Names -> Blocks \cup {NULL}]
      /\ m.table[m.name[b]] = b
  BY DEF Sound, Counted, Memory, TableIsCache, BlocksLinked
<1>2. /\ d \in Memory
      /\ d.used = m.used /\ d.name = m.name /\ d.base = m.base /\ d.refs = m.refs
      /\ d.whole = m.whole
      /\ d.cached = m.cached \ {b}
      /\ d.table = [m.table EXCEPT ![m.name[b]] = NULL]
  BY <1>1 DEF Memory
<1>3. Evicted(m, b) = Deleted(d, b)
  BY DEF Evicted
<1> HIDE DEF d
<1>4. \A y \in Blocks : Uses(d, h, y) = Uses(m, h, y)
  BY <1>2 DEF Uses
<1>5. Uses(d, h, b) = {}
  <2>1. Cardinality(Uses(m, h, b)) = 0
    BY <1>1 DEF Sound, Counted
  <2>2. IsFiniteSet(Uses(m, h, b))
    BY <1>1, UsesFinite
  <2> QED BY <1>1, <1>4, <2>1, <2>2, FS_EmptySet
<1>6. Counted(d, h) /\ BlocksLinked(d)
  BY <1>1, <1>2, <1>4 DEF Sound, Counted, BlocksLinked
<1>7. TableIsCache(d)
  <2>1. ASSUME NEW n \in Names, d.table[n] # NULL
        PROVE  d.table[n] \in d.cached /\ d.name[d.table[n]] = n
    <3>1. n # m.name[b] /\ d.table[n] = m.table[n]
      BY <1>1, <1>2, <2>1
    <3>2. m.table[n] \in m.cached /\ m.name[m.table[n]] = n
      BY <2>1, <3>1 DEF Sound, TableIsCache
    <3> QED BY <1>2, <3>1, <3>2
  <2>2. ASSUME Roomy, NEW y \in d.cached PROVE d.table[d.name[y]] = y
    <3>1. y \in m.cached /\ y # b /\ m.table[m.name[y]] = y /\ m.name[y] \in Names
      BY <1>1, <1>2, <2>2 DEF Sound, TableIsCache, BlocksLinked
    <3> QED BY <1>1, <1>2, <3>1
  <2> QED BY <1>1, <1>2, <2>1, <2>2 DEF TableIsCache
<1>8. Kept(d, {b})
  BY <1>2 DEF Sound, Kept
<1>9. b \in d.used \ d.cached
  BY <1>1, <1>2
<1>10. /\ Sound(Deleted(d, b), h, {})
       /\ SameBut(d, Deleted(d, b), {b, d.base[b]})
       /\ b \notin Deleted(d, b).used
  BY <1>2, <1>5, <1>6, <1>7, <1>8, <1>9, DeletedSound DEF Sound
<1> QED BY <1>2, <1>3, <1>10 DEF SameBut

\* What Load and OpenPackage leave of m: everything, but for new blocks, new
\* clients and new entries.
Grown(m, a) ==
  /\ m.used \subseteq a.used /\ m.cached \subseteq a.cached
  /\ \A y \in m.used : /\ a.name[y] = m.name[y] /\ a.base[y] = m.base[y]
                       /\ a.refs[y] >= m.refs[y]
                       /\ y \in a.whole <=> y \in m.whole
  /\ \A n \in Names : m.table[n] # NULL => a.table[n] = m.table[n]

LEMMA AddRefGrown ==
  ASSUME NEW m \in Memory, NEW b \in Blocks
  PROVE  Grown(m, AddRef(m, b))
BY DEF Grown, AddRef, Memory

LEMMA CreatedGrown ==
  ASSUME NEW m \in Memory, NEW n \in Names, NEW b \in Blocks \ m.used,
         NEW base, NEW whole \in BOOLEAN
  PROVE  Grown(m, Created(m, n, b, base, whole))
BY DEF Grown, Created, Memory

LEMMA SharedGrown ==
  ASSUME NEW m, NEW p \in Memory, Grown(m, p), NEW b \in Blocks, NEW a \in Shared(p, b),
         p.name[b] \in Names, p.table[p.name[b]] = NULL
  PROVE  Grown(m, a)
<1>1. /\ a.used = p.used /\ a.name = p.name /\ a.refs = p.refs
      /\ a.base = p.base /\ a.whole = p.whole /\ p.cached \subseteq a.cached
  BY DEF Shared, Marked, Memory
<1>2. \/ a.table = p.table
      \/ a.table = [p.table EXCEPT ![p.name[b]] = b]
  BY DEF Shared, Marked, Memory
<1>3. \A n \in Names : m.table[n] # NULL => a.table[n] = m.table[n]
  BY <1>2 DEF Grown, Memory
<1> QED BY <1>1, <1>3 DEF Grown

\* A block with a base, which x loads; so far, the block is a client of the base.
LEMMA ExtensionSound ==
  ASSUME NEW m, NEW h, NEW n \in Names, NEW b \in Blocks \ m.used, NEW y \in m.used,
         NEW x \in Tokens, Sound(m, h, {}), b \in h[y], m.name[y] = BaseOf[n]
  PROVE  Sound(Created(m, n, b, y, TRUE), [h EXCEPT ![b] = {x}, ![y] = @ \ {b}], {})
<1> DEFINE a == Created(m, n, b, NULL, TRUE)
           g == [h EXCEPT ![b] = {x}]
<1>1. /\ m \in Memory /\ h \in [Blocks -> SUBSET Tokens] /\ m.used \subseteq Blocks
      /\ b # y /\ y \in Blocks
  BY DEF Sound, Counted, Memory
<1>2. Sound(a, g, {})
  BY CreatedSound
<1>3. /\ b \in a.used /\ y \in a.used /\ a.base[b] = NULL
      /\ a.name[b] = n /\ a.name[y] = m.name[y]
  BY <1>1 DEF Created, Memory
<1>4. b \in g[y] /\ [g EXCEPT ![y] = @ \ {b}] = [h EXCEPT ![b] = {x}, ![y] = @ \ {b}]
  BY <1>1
<1>5. Created(m, n, b, y, TRUE) = [a EXCEPT !.base[b] = y]
  <2> DEFINE c == Created(m, n, b, y, TRUE)
             l == [a EXCEPT !.base[b] = y]
  <2>1. m.base \in [Blocks -> Blocks \cup {NULL}]
    BY <1>1 DEF Memory
  <2>2. a \in Memory /\ c \in Memory
    BY <1>1 DEF Created, Memory
  <2>3. /\ c.used = a.used /\ c.name = a.name /\ c.refs = a.refs
        /\ c.cached = a.cached /\ c.table = a.table
        /\ c.whole = a.whole /\ c.hashed = a.hashed
        /\ a.base = [m.base EXCEPT ![b] = NULL] /\ c.base = [m.base EXCEPT ![b] = y]
    BY <1>1 DEF Created, Memory
  <2> HIDE DEF a, c
  <2>4. c.base = [a.base EXCEPT ![b] = y]
    BY <2>1, <2>3
  <2>5. /\ l \in Memory
        /\ l.used = a.used /\ l.name = a.name /\ l.refs = a.refs
        /\ l.cached = a.cached /\ l.table = a.table /\ l.base = [a.base EXCEPT ![b] = y]
        /\ l.whole = a.whole /\ l.hashed = a.hashed
    BY <1>1, <2>2 DEF Memory
  <2> HIDE DEF l
  <2>6. c = l
    BY <2>2, <2>3, <2>4, <2>5 DEF Memory
  <2> QED BY <2>6 DEF c, l
<1> HIDE DEF a, g
<1>6. Sound([a EXCEPT !.base[b] = y], [g EXCEPT ![y] = @ \ {b}], {})
  BY <1>2, <1>3, <1>4, LinkedSound
<1> QED BY <1>4, <1>5, <1>6

LEMMA BaseLoadedSound ==
  ASSUME NEW m, NEW h, NEW n \in Names, NEW spare \in Blocks, NEW x \in Tokens \ m.used,
         Sound(m, h, {}), m.table[n] = NULL => spare \notin m.used,
         x \notin h[LoadedBlock(m, n, spare)],
         NEW a \in BaseLoaded(m, n, spare)
  PROVE  LET y == LoadedBlock(m, n, spare) IN
         /\ Sound(a, [h EXCEPT ![y] = @ \cup {x}], {})
         /\ Grown(m, a)
         /\ a.used \subseteq m.used \cup {spare}
         /\ y \in a.used /\ a.name[y] = n
         /\ \A k \in Names : k # n => a.table[k] = m.table[k]
<1>1. /\ m \in Memory /\ h \in [Blocks -> SUBSET Tokens] /\ m.used \subseteq Blocks
      /\ m.table \in [Names -> Blocks \cup {NULL}] /\ spare # NULL
  BY MemoryAssumption DEF Sound, Counted, Memory
<1>2. CASE m.table[n] # NULL
  <2> DEFINE y == m.table[n]
  <2>1. LoadedBlock(m, n, spare) = y /\ a = AddRef(m, y)
    BY <1>2 DEF LoadedBlock, BaseLoaded
  <2>2. y \in m.used /\ y \in Blocks /\ m.name[y] = n
    BY <1>1, <1>2 DEF Sound, TableIsCache
  <2>3. x \notin Uses(m, h, y)
    BY <2>1 DEF Uses
  <2>4. Sound(AddRef(m, y), [h EXCEPT ![y] = @ \cup {x}], {})
    BY <2>2, <2>3, AddRefSound
  <2>5. Grown(m, AddRef(m, y))
    BY <1>1, <2>2, AddRefGrown
  <2>6. /\ AddRef(m, y).used = m.used /\ AddRef(m, y).table = m.table
        /\ AddRef(m, y).name = m.name
    BY <1>1 DEF AddRef, Memory
  <2> QED BY <2>1, <2>2, <2>4, <2>5, <2>6
<1>3. CASE m.table[n] = NULL
  <2> DEFINE p == Created(m, n, spare, NULL, TRUE)
             g == [h EXCEPT ![spare] = {x}]
  <2>1. LoadedBlock(m, n, spare) = spare /\ a \in Shared(p, spare)
    BY <1>3 DEF LoadedBlock, BaseLoaded
  <2>2. Sound(p, g, {})
    BY <1>3, CreatedSound
  <2>3. h[spare] = {}
    BY <1>3 DEF Sound, Counted
  <2>4. [h EXCEPT ![spare] = {x}] = [h EXCEPT ![spare] = @ \cup {x}]
    BY <1>1, <2>3
  <2>5. Grown(m, p)
    BY <1>1, <1>3, CreatedGrown
  <2>6. p.used = m.used \cup {spare} /\ p.name[spare] = n /\ p.table = m.table
    BY <1>1 DEF Created, Memory
  <2>7. p \in Memory
    BY <2>2 DEF Sound
  <2> HIDE DEF p, g
  <2>8. /\ Sound(a, g, {}) /\ a.used = p.used /\ a.name = p.name
        /\ \A k \in Names : k # n => a.table[k] = p.table[k]
    BY <1>3, <2>1, <2>2, <2>6, SharedSound
  <2>9. Grown(m, a)
    BY <1>3, <2>1, <2>5, <2>6, <2>7, SharedGrown
  <2> QED BY <2>1, <2>4, <2>6, <2>8, <2>9 DEF g
<1> QED BY <1>2, <1>3

LEMMA LoadSound ==
  ASSUME NEW m, NEW h, NEW n \in Names, NEW test \in BOOLEAN,
         NEW b \in Blocks, NEW spare \in Blocks, NEW x \in Threads \cup {NULL},
         Sound(m, h, {}), External(h), m.table[n] = NULL => Malloc(m, b, spare),
         x \notin h[LoadedBlock(m, n, b)],
         NEW a \in Load(m, n, test, b, spare)
  PROVE  LET y == LoadedBlock(m, n, b) IN
         /\ Sound(a, [h EXCEPT ![y] = @ \cup {x}], {})
         /\ Grown(m, a)
         /\ y \in a.used /\ a.name[y] = n
<1>1. /\ m \in Memory /\ h \in [Blocks -> SUBSET Tokens] /\ m.used \subseteq Blocks
      /\ m.table \in [Names -> Blocks \cup {NULL}]
      /\ x \in Tokens /\ x \notin Blocks
      /\ b # NULL /\ b \notin Threads
  BY MemoryAssumption DEF Sound, Counted, Memory, Tokens
<1>2. CASE ~(test /\ m.table[n] = NULL) /\ (m.table[n] # NULL \/ BaseOf[n] = NULL)
  <2>1. a \in BaseLoaded(m, n, b)
    BY <1>2 DEF Load
  <2>2. x \in Tokens \ m.used /\ (m.table[n] = NULL => b \notin m.used)
    BY <1>1 DEF Malloc
  <2> DEFINE y == LoadedBlock(m, n, b)
  <2>3. /\ Sound(a, [h EXCEPT ![y] = @ \cup {x}], {}) /\ Grown(m, a)
        /\ y \in a.used /\ a.name[y] = n
    <3>1. Sound(m, h, {}) /\ x \notin h[y] /\ n \in Names /\ b \in Blocks
      OBVIOUS
    <3> QED BY ONLY <2>1, <2>2, <3>1, BaseLoadedSound
  <2> QED BY <2>3
<1>3. CASE test /\ m.table[n] = NULL
  <2> DEFINE p == Created(m, n, b, NULL, FALSE)
  <2>1. LoadedBlock(m, n, b) = b /\ a = p
    BY <1>3 DEF LoadedBlock, Load
  <2>2. b \in Blocks \ m.used
    BY <1>3 DEF Malloc
  <2>3. Sound(p, [h EXCEPT ![b] = {x}], {})
    BY <1>1, <1>3, <2>2, CreatedSound
  <2>4. h[b] = {}
    BY <2>2 DEF Sound, Counted
  <2>5. [h EXCEPT ![b] = {x}] = [h EXCEPT ![b] = @ \cup {x}]
    BY <1>1, <2>4
  <2>6. Grown(m, p)
    BY <1>1, <1>3, <2>2, CreatedGrown
  <2>7. b \in p.used /\ p.name[b] = n
    BY <1>1 DEF Created, Memory
  <2> QED BY <2>1, <2>3, <2>5, <2>6, <2>7
<1>4. CASE m.table[n] = NULL /\ ~test /\ BaseOf[n] # NULL
  <2> DEFINE y == LoadedBlock(m, BaseOf[n], spare)
             g == [h EXCEPT ![y] = @ \cup {b}]
             f == [g EXCEPT ![b] = {x}, ![y] = @ \ {b}]
  <2>0. LoadedBlock(m, n, b) = b /\ a \in ExtensionLoaded(m, n, b, spare)
    BY <1>4 DEF LoadedBlock, Load
  <2>a. PICK l \in BaseLoaded(m, BaseOf[n], spare) : a \in Shared(Created(l, n, b, y, TRUE), b)
    BY <2>0 DEF ExtensionLoaded
  <2> DEFINE p == Created(l, n, b, y, TRUE)
  <2>1. BaseOf[n] \in Names /\ BaseOf[n] # n /\ b \notin m.used /\ spare \notin m.used /\ b # spare
    BY <1>4, FilesAssumption DEF Malloc
  <2>2. y \in Blocks
    BY <1>1, <2>1 DEF LoadedBlock
  <2>3. b \notin h[y] /\ b \in Tokens \ m.used
    BY <1>1, <2>1, <2>2 DEF External, Tokens
  <2>4. /\ Sound(l, g, {}) /\ Grown(m, l)
        /\ l.used \subseteq m.used \cup {spare}
        /\ y \in l.used /\ l.name[y] = BaseOf[n]
        /\ \A k \in Names : k # BaseOf[n] => l.table[k] = m.table[k]
    BY <2>1, <2>3, BaseLoadedSound
  <2> HIDE DEF y
  <2>6. b \in Blocks \ l.used /\ l.table[n] = NULL /\ b \in g[y] /\ b # y
    BY <1>1, <1>4, <2>1, <2>2, <2>4
  <2>7. Sound(p, f, {})
    BY <1>1, <2>4, <2>6, ExtensionSound
  <2>8. f = [h EXCEPT ![b] = @ \cup {x}]
    <3>1. h[b] = {}
      BY <2>1 DEF Sound, Counted
    <3>2. (h[y] \cup {b}) \ {b} = h[y]
      BY <2>3
    <3> QED BY <1>1, <2>2, <2>6, <3>1, <3>2
  <2>9. l \in Memory /\ p \in Memory
    BY <2>4, <2>7 DEF Sound
  <2>10. Grown(l, p)
    BY <2>6, <2>9, CreatedGrown
  <2>11. Grown(m, p)
    <3> HIDE DEF p
    <3>1. \A z \in m.used : l.refs[z] >= m.refs[z] /\ p.refs[z] >= l.refs[z]
      BY <2>4, <2>10 DEF Grown
    <3>2. m.refs \in [Blocks -> Nat] /\ l.refs \in [Blocks -> Nat] /\ p.refs \in [Blocks -> Nat]
      BY <1>1, <2>9 DEF Memory
    <3>3. \A z \in m.used : p.refs[z] >= m.refs[z]
      BY <1>1, <3>1, <3>2
    <3>4. m.used \subseteq p.used /\ m.cached \subseteq p.cached
      BY <2>4, <2>10 DEF Grown
    <3>5. \A z \in m.used : /\ p.name[z] = m.name[z] /\ p.base[z] = m.base[z]
                            /\ z \in p.whole <=> z \in m.whole
      BY <2>4, <2>10 DEF Grown
    <3>6. \A k \in Names : m.table[k] # NULL => p.table[k] = m.table[k]
      BY <2>4, <2>10 DEF Grown
    <3> QED BY <3>3, <3>4, <3>5, <3>6 DEF Grown
  <2>12. b \in p.used /\ p.name[b] = n /\ p.table = l.table
    BY <2>6, <2>9 DEF Created, Memory
  <2> HIDE DEF p, f
  <2>13. Sound(a, f, {}) /\ a.used = p.used /\ a.name = p.name
    <3>1. /\ Sound(p, f, {}) /\ b \in p.used /\ a \in Shared(p, b)
          /\ p.table[p.name[b]] = NULL
      BY <2>6, <2>7, <2>12, <2>a DEF p
    <3> QED BY <3>1, SharedSound
  <2>14. Grown(m, a)
    <3>1. /\ p \in Memory /\ Grown(m, p) /\ b \in Blocks /\ a \in Shared(p, b)
          /\ p.name[b] \in Names /\ p.table[p.name[b]] = NULL
      BY <2>6, <2>9, <2>11, <2>12, <2>a DEF p
    <3> QED BY <3>1, SharedGrown
  <2> QED BY <2>0, <2>8, <2>12, <2>13, <2>14
<1> QED BY <1>2, <1>3, <1>4

LEMMA PackagedSound ==
  ASSUME NEW m, NEW h, NEW n \in Names, NEW b \in Blocks, NEW spare \in Blocks,
         NEW x \in Threads \cup {NULL}, Sound(m, h, {}), External(h), Malloc(m, b, spare)
  PROVE  LET a == Packaged(m, n, b, spare) IN
         /\ Sound(a, [h EXCEPT ![b] = @ \cup {x}], {})
         /\ a.cached = m.cached /\ a.table = m.table
         /\ \A y \in m.used : a.name[y] = m.name[y] /\ a.base[y] = m.base[y]
                             /\ a.refs[y] = m.refs[y] /\ (y \in a.whole <=> y \in m.whole)
<1>1. /\ m \in Memory /\ h \in [Blocks -> SUBSET Tokens] /\ m.used \subseteq Blocks
      /\ x \in Tokens /\ x \notin Blocks
      /\ b # NULL /\ b \in Tokens
  BY MemoryAssumption DEF Sound, Counted, Memory, Tokens
<1>2. b \notin m.used /\ spare \notin m.used /\ b # spare
  BY DEF Malloc
<1>3. h[b] = {} /\ h[spare] = {}
  BY <1>2 DEF Sound, Counted
<1>4. [h EXCEPT ![b] = {x}] = [h EXCEPT ![b] = @ \cup {x}]
  BY <1>1, <1>3
<1>5. CASE BaseOf[n] = NULL
  <2> DEFINE a == Created(m, n, b, NULL, TRUE)
  <2>1. Packaged(m, n, b, spare) = a
    BY <1>5 DEF Packaged
  <2>2. Sound(a, [h EXCEPT ![b] = {x}], {})
    BY <1>1, <1>2, CreatedSound
  <2>3. a.cached = m.cached /\ a.table = m.table
        /\ \A y \in m.used : a.name[y] = m.name[y] /\ a.base[y] = m.base[y]
                            /\ a.refs[y] = m.refs[y] /\ (y \in a.whole <=> y \in m.whole)
    BY <1>1, <1>2 DEF Created, Memory
  <2> QED BY <1>4, <2>1, <2>2, <2>3
<1>6. CASE BaseOf[n] # NULL
  <2> DEFINE l == Created(m, BaseOf[n], spare, NULL, TRUE)
             g == [h EXCEPT ![spare] = {b}]
             a == Created(l, n, b, spare, TRUE)
  <2>1. BaseOf[n] \in Names
    BY <1>6, FilesAssumption
  <2>2. Packaged(m, n, b, spare) = a
    BY <1>6 DEF Packaged
  <2>3. Sound(l, g, {})
    BY <1>1, <1>2, <2>1, CreatedSound
  <2>4. /\ l.used = m.used \cup {spare} /\ l.name[spare] = BaseOf[n]
        /\ l.cached = m.cached /\ l.table = m.table
        /\ \A y \in m.used : l.name[y] = m.name[y] /\ l.base[y] = m.base[y]
                            /\ l.refs[y] = m.refs[y] /\ (y \in l.whole <=> y \in m.whole)
    BY <1>1, <1>2 DEF Created, Memory
  <2>5. l \in Memory
    BY <2>3 DEF Sound
  <2> HIDE DEF l
  <2>6. b \in Blocks \ l.used /\ spare \in l.used /\ b \in g[spare]
    BY <1>1, <1>2, <2>4
  <2>7. Sound(a, [g EXCEPT ![b] = {x}, ![spare] = @ \ {b}], {})
    BY <1>1, <2>3, <2>4, <2>6, ExtensionSound
  <2>8. [g EXCEPT ![b] = {x}, ![spare] = @ \ {b}] = [h EXCEPT ![b] = {x}]
    <3>1. {b} \ {b} = h[spare]
      BY <1>3
    <3> QED BY <1>1, <1>2, <3>1
  <2>9. a.cached = m.cached /\ a.table = m.table
        /\ \A y \in m.used : a.name[y] = m.name[y] /\ a.base[y] = m.base[y]
                            /\ a.refs[y] = m.refs[y] /\ (y \in a.whole <=> y \in m.whole)
    BY <1>1, <1>2, <2>4, <2>5 DEF Created, Memory
  <2> QED BY <1>4, <2>2, <2>7, <2>8, <2>9
<1> QED BY <1>5, <1>6

\* A client y takes the place of the client x in the blocks of S.
LEMMA HandedOverSound ==
  ASSUME NEW m, NEW h, NEW g, NEW S \in SUBSET Blocks, Sound(m, h, {}), External(h),
         NEW x \in Threads \cup {NULL}, NEW y \in Threads \cup {NULL},
         \A b \in S : x \in h[b] /\ y \notin h[b],
         g = [b \in Blocks |-> IF b \in S THEN (h[b] \ {x}) \cup {y} ELSE h[b]]
  PROVE  Sound(m, g, {})
<1>1. /\ m \in Memory /\ h \in [Blocks -> SUBSET Tokens] /\ m.used \subseteq Blocks
      /\ x \notin Blocks /\ y \notin Blocks /\ x \in Tokens /\ y \in Tokens
  BY MemoryAssumption DEF Sound, Counted, Memory, Tokens
<1>2. g \in [Blocks -> SUBSET Tokens]
  BY <1>1
<1>3. \A b \in Blocks : g[b] # {} => b \in m.used
  <2>1. \A b \in Blocks : g[b] # {} => h[b] # {}
    BY <1>1
  <2> QED BY <2>1 DEF Sound, Counted
<1>4. ASSUME NEW b \in m.used PROVE m.refs[b] = Cardinality(Uses(m, g, b))
  <2>1. m.refs[b] = Cardinality(Uses(m, h, b))
    BY DEF Sound, Counted
  <2>2. CASE b \notin S
    BY <1>1, <2>1, <2>2 DEF Uses
  <2>3. CASE b \in S
    <3> DEFINE U == Uses(m, h, b)
    <3>1. Uses(m, g, b) = (U \ {x}) \cup {y}
      BY <1>1, <2>3 DEF Uses
    <3>2. x \in U /\ y \notin U \ {x}
      BY <1>1, <2>3 DEF Uses
    <3>3. IsFiniteSet(U)
      BY <1>1, UsesFinite
    <3>4. /\ IsFiniteSet(U \ {x}) /\ Cardinality(U \ {x}) = Cardinality(U) - 1
      BY <3>2, <3>3, FS_RemoveElement
    <3>5. Cardinality((U \ {x}) \cup {y}) = Cardinality(U \ {x}) + 1
      BY <3>2, <3>4, FS_AddElement
    <3>6. Cardinality(U) \in Nat
      BY <3>3, FS_CardinalityType
    <3> HIDE DEF U
    <3> QED BY <2>1, <3>1, <3>4, <3>5, <3>6 DEF U
  <2> QED BY <2>2, <2>3
<1> QED BY <1>2, <1>3, <1>4 DEF Sound, Counted

-----------------------------------------------------------------------------
(* The inductive invariant.                                                  *)

\* Who counts as a client of each block without being an extension.
Holders ==
  [b \in Blocks |-> {t \in Threads : b \in call[t].held} \cup {o \in {NULL} : b \in slot}]

\* What a thread has before it, by the point where it is.
Ready(c) ==
  /\ c.phase = "loading" =>
       /\ c.todo \subseteq Names /\ c.todo # {}
       /\ \A b \in c.held : mem.name[b] \notin c.todo
  /\ c.phase = "cloning" =>
       /\ c.peer \in Threads /\ At(c.peer, "open")
       /\ c.todo \subseteq call[c.peer].held \ c.held
       /\ c.todo # {}
  /\ c.phase \in {"idle", "getting", "draining", "flushing", "sweeping"} => c.held = {}
  /\ c.phase \in {"open", "closing", "emptying", "putting"} => c.held # {}

CallsOK == \A t \in Threads : Ready(call[t]) /\ (At(t, "sweeping") <=> mutex = t)

\* The loop of ucnv_flushCache: extensions that it has passed are in use, and if
\* an entry was left, it knows; in the second loop, every entry is in use.
SweepOK ==
  /\ sweep.left \subseteq InTable(mem)
  /\ mutex = NULL => sweep.left = {} /\ sweep.pass = 0
  /\ mutex # NULL => sweep.pass \in {1, 2}
  /\ mutex # NULL => \A b \in InTable(mem) :
       mem.base[b] # NULL /\ (sweep.pass = 2 \/ b \notin sweep.left) => mem.refs[b] > 0
  /\ sweep.pass = 1 /\ InTable(mem) # sweep.left => sweep.remaining
  /\ sweep.pass = 2 => \A b \in InTable(mem) \ sweep.left : mem.refs[b] > 0

CacheInv == CacheTypeOK /\ Sound(mem, Holders, {}) /\ CallsOK /\ SweepOK

LEMMA HoldersExternal == External(Holders)
BY DEF External, Holders

LEMMA InTableIsCached ==
  ASSUME NEW m \in Memory, TableIsCache(m)
  PROVE  /\ InTable(m) \subseteq m.cached /\ m.cached \subseteq m.used /\ m.used \subseteq Blocks
         /\ \A b \in InTable(m) : m.name[b] \in Names /\ m.table[m.name[b]] = b
<1>1. m.cached \subseteq m.used /\ m.used \subseteq Blocks
  BY DEF TableIsCache, Memory
<1>2. ASSUME NEW b \in InTable(m)
      PROVE  b \in m.cached /\ m.name[b] \in Names /\ m.table[m.name[b]] = b
  <2>1. PICK n \in Names : m.table[n] = b /\ b # NULL
    BY DEF InTable
  <2> QED BY <2>1 DEF TableIsCache
<1> QED BY <1>1, <1>2

\* GivenUp yields a call with these blocks, at a point where nothing else is asked.
LEMMA GivenUpCall ==
  ASSUME NEW phase \in {"open", "closing", "emptying", "putting"}, NEW held \in SUBSET Blocks
  PROVE  /\ GivenUp(phase, held) \in Call /\ Having(phase, held) \in Call
         /\ GivenUp(phase, held).held = held /\ Having(phase, held).held = held
         /\ Having(phase, held).phase = phase
         /\ held # {} => GivenUp(phase, held).phase = phase
         /\ held = {} => GivenUp(phase, held).phase \in {"idle", "flushing"}
BY DEF GivenUp, Having, Idle, Call, Phases

LEMMA IdleCall ==
  ASSUME NEW phase \in {"idle", "getting", "draining", "flushing", "sweeping"}
  PROVE  /\ [Idle EXCEPT !.phase = phase] \in Call
         /\ [Idle EXCEPT !.phase = phase].phase = phase
         /\ [Idle EXCEPT !.phase = phase].held = {}
BY DEF Idle, Call, Phases

LEMMA LoadingCall ==
  ASSUME NEW k \in Converters, NEW test \in BOOLEAN
  PROVE  /\ Loading(k, test) \in Call
         /\ Loading(k, test).phase = "loading"
         /\ Loading(k, test).todo \subseteq Names /\ Loading(k, test).todo # {}
         /\ Loading(k, test).held = {}
BY FilesAssumption DEF Loading, Idle, Call, Phases

\* A step of t, which goes on with c, spoils nothing for the others.
LEMMA CallsKept ==
  ASSUME CacheInv, NEW t \in Threads, NEW c \in Call, Become(t, c),
         At(t, "open") => Unshared(t),
         \A u \in Threads \ {t} : \A b \in call[u].held : mem'.name[b] = mem.name[b],
         \A u \in Threads \ {t} : mutex' = u <=> mutex = u,
         c.phase = "sweeping" <=> mutex' = t,
         Ready(c)'
  PROVE  call' \in [Threads -> Call] /\ CallsOK'
<1>1. call \in [Threads -> Call]
  BY DEF CacheInv, CacheTypeOK
<1>2. call' \in [Threads -> Call] /\ call'[t] = c /\ \A u \in Threads \ {t} : call'[u] = call[u]
  BY <1>1 DEF Become
<1>3. ASSUME NEW u \in Threads \ {t} PROVE Ready(call[u])'
  <2>1. Ready(call[u])
    BY DEF CacheInv, CallsOK
  <2>2. CASE call[u].phase = "cloning"
    <3>1. call[u].peer # t
      BY <2>1, <2>2 DEF Ready, Unshared, At
    <3> QED BY <1>2, <2>1, <2>2, <3>1 DEF Ready, At
  <2>3. CASE call[u].phase # "cloning"
    BY <1>2, <2>1, <2>3 DEF Ready
  <2> QED BY <2>2, <2>3
<1>4. ASSUME NEW u \in Threads \ {t} PROVE At(u, "sweeping")' <=> mutex' = u
  BY <1>2 DEF CacheInv, CallsOK, At
<1>5. Ready(call[t])' /\ (At(t, "sweeping")' <=> mutex' = t)
  BY <1>2 DEF At
<1> QED BY <1>2, <1>3, <1>4, <1>5 DEF CallsOK

\* The loop of a flush is not disturbed.
LEMMA SweepKept ==
  ASSUME CacheInv, UNCHANGED <<mutex, sweep>>,
         \/ mutex = NULL
         \/ /\ mem'.table = mem.table
            /\ \A b \in InTable(mem) : mem'.base[b] = mem.base[b] /\ mem'.refs[b] = mem.refs[b]
  PROVE  SweepOK'
<1>1. SweepOK
  BY DEF CacheInv
<1>2. CASE mutex = NULL
  BY <1>1, <1>2 DEF SweepOK
<1>3. CASE mutex # NULL
  <2>1. InTable(mem') = InTable(mem)
    BY <1>3 DEF InTable
  <2> QED BY <1>1, <1>3, <2>1 DEF SweepOK
<1> QED BY <1>2, <1>3

\* How the holders change with the call of t.
LEMMA HoldersEffect ==
  ASSUME CacheTypeOK, NEW t \in Threads, NEW c, Become(t, c), c.held \in SUBSET Blocks, slot' = slot
  PROVE  /\ c.held = call[t].held => Holders' = Holders
         /\ \A b \in Blocks : c.held = call[t].held \cup {b} =>
              Holders' = [Holders EXCEPT ![b] = @ \cup {t}]
         /\ \A b \in Blocks : c.held = call[t].held \ {b} =>
              Holders' = [Holders EXCEPT ![b] = @ \ {t}]
<1>1. call'[t] = c /\ \A u \in Threads \ {t} : call'[u] = call[u]
  BY DEF CacheTypeOK, Become
<1>2. t # NULL
  BY MemoryAssumption
<1>3. ASSUME c.held = call[t].held PROVE Holders' = Holders
  <2>1. \A u \in Threads : call'[u].held = call[u].held
    BY <1>1, <1>3
  <2> QED BY <2>1 DEF Holders
<1>4. ASSUME NEW b \in Blocks, c.held = call[t].held \cup {b}
      PROVE  Holders' = [Holders EXCEPT ![b] = @ \cup {t}]
  <2>1. \A y \in Blocks : {u \in Threads : y \in call'[u].held}
          = IF y = b THEN {u \in Threads : y \in call[u].held} \cup {t}
            ELSE {u \in Threads : y \in call[u].held}
    BY <1>1, <1>4
  <2>2. \A y \in Blocks : Holders'[y] = IF y = b THEN Holders[y] \cup {t} ELSE Holders[y]
    BY <2>1 DEF Holders
  <2> QED BY <2>2 DEF Holders
<1>5. ASSUME NEW b \in Blocks, c.held = call[t].held \ {b}
      PROVE  Holders' = [Holders EXCEPT ![b] = @ \ {t}]
  <2>1. \A y \in Blocks : {u \in Threads : y \in call'[u].held}
          = IF y = b THEN {u \in Threads : y \in call[u].held} \ {t}
            ELSE {u \in Threads : y \in call[u].held}
    BY <1>1, <1>5
  <2>2. \A y \in Blocks : Holders'[y] = IF y = b THEN Holders[y] \ {t} ELSE Holders[y]
    BY <1>2, <2>1 DEF Holders
  <2> QED BY <2>2 DEF Holders
<1> QED BY <1>3, <1>4, <1>5

\* Who holds a block, holds data.
LEMMA HeldIsUsed ==
  ASSUME CacheInv
  PROVE  /\ slot \subseteq mem.used
         /\ \A t \in Threads : call[t].held \subseteq mem.used /\ call[t].held \subseteq Blocks
<1>1. slot \subseteq Blocks /\ call \in [Threads -> Call]
  BY DEF CacheInv, CacheTypeOK
<1>2. \A b \in Blocks : Holders[b] # {} => b \in mem.used
  BY DEF CacheInv, Sound, Counted
<1>3. \A b \in slot : NULL \in Holders[b]
  BY <1>1 DEF Holders
<1>4. ASSUME NEW t \in Threads, NEW b \in call[t].held PROVE b \in Blocks /\ t \in Holders[b]
  BY <1>1 DEF Holders, Call
<1> QED BY <1>1, <1>2, <1>3, <1>4

LEMMA InitInv == Init => CacheInv
<1> SUFFICES ASSUME Init PROVE CacheInv
  OBVIOUS
<1>1. Idle \in Call /\ Idle.phase = "idle" /\ Idle.held = {}
  BY DEF Idle, Call, Phases
<1>2. CacheTypeOK
  BY <1>1 DEF Init, CacheTypeOK, NoData, Memory, NoSweep, Sweep
<1>3. \A b \in Blocks : Holders[b] = {}
  BY <1>1 DEF Holders, Init
<1>4. Sound(mem, Holders, {})
  BY <1>2, <1>3 DEF Init, NoData, Sound, CacheTypeOK, BlocksLinked, TableIsCache,
                    Counted, Kept, Holders, Tokens
<1>5. CallsOK
  BY <1>1, MemoryAssumption DEF Init, CallsOK, Ready, At
<1>6. SweepOK
  BY DEF Init, SweepOK, NoData, NoSweep, InTable
<1> QED BY <1>2, <1>4, <1>5, <1>6 DEF CacheInv

\* The steps that leave the blocks and their clients alone.
LEMMA QuietStep ==
  ASSUME CacheInv, NEW t \in Threads, NEW c \in Call, Become(t, c),
         UNCHANGED <<mem, slot, mutex, sweep>>,
         c.held = call[t].held, c.phase # "sweeping", mutex # t,
         At(t, "open") => Unshared(t), Ready(c)'
  PROVE  CacheInv'
<1>1. Holders' = Holders
  BY HoldersEffect DEF CacheInv, Call
<1>2. Sound(mem, Holders, {})'
  BY <1>1 DEF CacheInv
<1>3. call' \in [Threads -> Call] /\ CallsOK'
  BY CallsKept
<1>4. SweepOK'
  BY SweepKept
<1> QED BY <1>2, <1>3, <1>4 DEF CacheInv, CacheTypeOK

\* A thread at another point does not have the lock.
LEMMA NotSweeping ==
  ASSUME CacheInv, NEW t \in Threads, call[t].phase # "sweeping"
  PROVE  mutex # t
BY DEF CacheInv, CallsOK, At

\* What Ready asks at the points between the calls.
LEMMA ReadyAtRest ==
  ASSUME NEW c, c.phase \notin {"loading", "cloning"},
         c.phase \in {"idle", "getting", "draining", "flushing", "sweeping"} => c.held = {},
         c.phase \in {"open", "closing", "emptying", "putting"} => c.held # {}
  PROVE  Ready(c) /\ Ready(c)'
BY DEF Ready

\* The data of a block changes only with its being freed.
DataKept ==
  \A y \in mem.used \cap mem'.used :
    /\ mem'.name[y] = mem.name[y] /\ mem'.base[y] = mem.base[y]
    /\ y \in mem'.whole <=> y \in mem.whole

\* A step that changes the blocks and the clients, by a thread that holds the lock
\* or needs none.
LEMMA BlockStep ==
  ASSUME CacheInv, NEW t \in Threads, NEW c \in Call, Become(t, c),
         UNCHANGED <<mutex, sweep>>, slot' \in SUBSET Blocks, Sound(mem', Holders', {}),
         DataKept,
         \/ mutex = NULL
         \/ /\ mem'.table = mem.table
            /\ \A b \in InTable(mem) : mem'.base[b] = mem.base[b] /\ mem'.refs[b] = mem.refs[b],
         call[t].phase # "sweeping", c.phase # "sweeping",
         At(t, "open") => Unshared(t), Ready(c)'
  PROVE  CacheInv'
<1>1. mutex # t
  BY NotSweeping
<1>2. ASSUME NEW u \in Threads \ {t}, NEW b \in call[u].held PROVE mem'.name[b] = mem.name[b]
  <2>1. b \in mem.used /\ b \in Blocks
    BY HeldIsUsed
  <2>2. call'[u] = call[u]
    BY DEF CacheInv, CacheTypeOK, Become
  <2>3. u \in Holders'[b]
    BY <2>1, <2>2 DEF Holders
  <2>4. b \in mem'.used
    BY <2>1, <2>3 DEF Sound, Counted
  <2> QED BY <2>1, <2>4 DEF DataKept
<1>3. call' \in [Threads -> Call] /\ CallsOK'
  BY <1>1, <1>2, CallsKept
<1>4. SweepOK'
  BY SweepKept
<1>5. mem' \in Memory
  BY DEF Sound
<1> QED BY <1>3, <1>4, <1>5 DEF CacheInv, CacheTypeOK

LEMMA OpenStep ==
  ASSUME CacheInv, NEW t \in Threads, NEW k \in Converters, NEW test \in BOOLEAN, Open(t, k, test)
  PROVE  CacheInv'
<1>1. At(t, "idle") /\ Become(t, Loading(k, test)) /\ UNCHANGED <<mem, slot, mutex, sweep>>
  BY DEF Open
<1>2. call[t].held = {} /\ mutex # t
  BY <1>1, NotSweeping DEF CacheInv, CallsOK, Ready, At
<1>3. Ready(Loading(k, test))'
  BY LoadingCall DEF Ready
<1> QED BY <1>1, <1>2, <1>3, LoadingCall, QuietStep DEF At

LEMMA LoadPartStep ==
  ASSUME CacheInv, NEW t \in Threads, LoadPart(t)
  PROVE  CacheInv' /\ DataKept
<1>1. PICK n \in call[t].todo, b \in Blocks, spare \in Blocks :
        /\ mem.table[n] = NULL => Malloc(mem, b, spare)
        /\ mem' \in Load(mem, n, call[t].test, b, spare)
        /\ LET held == call[t].held \cup {LoadedBlock(mem, n, b)}
           IN  IF call[t].todo # {n}
               THEN Become(t, [call[t] EXCEPT !.todo = @ \ {n}, !.held = held])
               ELSE \E phase \in {"open", "closing"} :
                      /\ call[t].test => phase = "closing"
                      /\ Become(t, GivenUp(phase, held))
  BY DEF LoadPart
<1>2. At(t, "loading") /\ mutex = NULL /\ UNCHANGED <<slot, mutex, sweep>>
  BY DEF LoadPart
<1>3. /\ call[t] \in Call /\ call[t].test \in BOOLEAN /\ call[t].held \in SUBSET Blocks
      /\ Sound(mem, Holders, {}) /\ mem \in Memory
  BY DEF CacheInv, CacheTypeOK, Call
<1>4. /\ call[t].todo \subseteq Names /\ n \in Names
      /\ \A y \in call[t].held : mem.name[y] \notin call[t].todo
  BY <1>1, <1>2 DEF CacheInv, CallsOK, Ready, At
<1> DEFINE y == LoadedBlock(mem, n, b)
           held == call[t].held \cup {y}
<1>5. y \in Blocks
  BY <1>3, <1>4 DEF LoadedBlock, Memory
<1>6. t \notin Holders[y]
  <2>1. ASSUME y \in call[t].held PROVE FALSE
    <3>1. y \in mem.used
      BY <2>1, HeldIsUsed
    <3>2. mem.name[y] = n
      <4>1. CASE mem.table[n] = NULL
        BY <1>1, <3>1, <4>1 DEF LoadedBlock, Malloc
      <4>2. CASE mem.table[n] # NULL
        BY <1>3, <1>4, <4>2 DEF LoadedBlock, Sound, TableIsCache
      <4> QED BY <4>1, <4>2
    <3> QED BY <1>4, <2>1, <3>2
  <2> QED BY <1>5, <2>1, MemoryAssumption DEF Holders
<1>7. /\ Sound(mem', [Holders EXCEPT ![y] = @ \cup {t}], {})
      /\ Grown(mem, mem') /\ y \in mem'.used /\ mem'.name[y] = n
  BY <1>1, <1>3, <1>4, <1>6, HoldersExternal, LoadSound
<1> HIDE DEF y
<1>8. PICK c \in Call : /\ Become(t, c) /\ c.held = held /\ c.phase \in {"loading", "open", "closing"}
                        /\ c.phase = "loading" => c.todo = call[t].todo \ {n} /\ c.todo # {}
  <2>1. CASE call[t].todo # {n}
    <3> DEFINE c == [call[t] EXCEPT !.todo = @ \ {n}, !.held = held]
    <3>1. c \in Call /\ c.held = held /\ c.phase = "loading" /\ c.todo = call[t].todo \ {n}
      BY <1>2, <1>3, <1>5 DEF Call, At
    <3>2. Become(t, c)
      BY <1>1, <2>1 DEF y
    <3>3. c.todo # {}
      BY <1>1, <2>1, <3>1
    <3> HIDE DEF c
    <3> QED BY <3>1, <3>2, <3>3
  <2>2. CASE call[t].todo = {n}
    <3>1. PICK phase \in {"open", "closing"} : Become(t, GivenUp(phase, held))
      BY <1>1, <2>2 DEF y
    <3>2. GivenUp(phase, held) \in Call /\ GivenUp(phase, held).held = held
          /\ GivenUp(phase, held).phase = phase
      BY <1>3, <1>5, GivenUpCall
    <3> QED BY <3>1, <3>2
  <2> QED BY <2>1, <2>2
<1>9. Holders' = [Holders EXCEPT ![y] = @ \cup {t}]
  BY <1>2, <1>3, <1>5, <1>8, HoldersEffect DEF CacheInv
<1>10. Ready(c)'
  <2>1. \A z \in call[t].held : mem'.name[z] = mem.name[z]
    BY <1>7, HeldIsUsed DEF Grown
  <2> QED BY <1>4, <1>7, <1>8, <2>1 DEF Ready
<1>11. slot' \in SUBSET Blocks
  BY <1>2 DEF CacheInv, CacheTypeOK
<1>12. DataKept
  BY <1>7 DEF Grown, DataKept
<1> QED BY <1>2, <1>7, <1>8, <1>9, <1>10, <1>11, <1>12, BlockStep DEF At

\* A base table that is loaded and let go of again stays in the cache, if it got
\* there; meanwhile, NULL stands for its client, the extension that failed to load.
LEMMA BaseLetGoSound ==
  ASSUME NEW m, NEW h, NEW n \in Names, NEW spare \in Blocks \ m.used,
         Sound(m, h, {}), External(h), BaseOf[n] = NULL, NEW l \in BaseLoaded(m, n, spare)
  PROVE  LET a == Unload(l, LoadedBlock(m, n, spare)) IN
         /\ Sound(a, h, {})
         /\ \A z \in m.used \cap a.used : a.name[z] = m.name[z] /\ a.base[z] = m.base[z]
                                         /\ (z \in a.whole <=> z \in m.whole)
         /\ \A z \in a.used \ m.used : a.base[z] = NULL /\ z \in a.whole /\ a.name[z] = n
         /\ a.cached \subseteq m.cached \cup (a.used \ m.used)
<1>1. /\ m \in Memory /\ h \in [Blocks -> SUBSET Tokens] /\ m.used \subseteq Blocks
      /\ m.table \in [Names -> Blocks \cup {NULL}] /\ m.refs \in [Blocks -> Nat]
      /\ NULL \in Tokens \ m.used
  BY MemoryAssumption DEF Sound, Counted, Tokens, Memory
<1>2. CASE m.table[n] # NULL
  <2> DEFINE y == m.table[n]
             d == Decremented(l, y)
  <2>1. LoadedBlock(m, n, spare) = y /\ l = AddRef(m, y)
    BY <1>2 DEF LoadedBlock, BaseLoaded
  <2>2. y \in m.cached /\ y \in Blocks /\ m.cached \subseteq m.used
    BY <1>1, <1>2 DEF Sound, TableIsCache
  <2>3. /\ l \in Memory
        /\ l.used = m.used /\ l.name = m.name /\ l.base = m.base /\ l.cached = m.cached
        /\ l.whole = m.whole /\ l.table = m.table /\ l.hashed = m.hashed
        /\ l.refs = [m.refs EXCEPT ![y] = @ + 1]
    BY <1>1, <2>1, <2>2 DEF AddRef, Memory
  <2> HIDE DEF y
  <2>4. /\ d \in Memory
        /\ d.used = l.used /\ d.name = l.name /\ d.base = l.base /\ d.cached = l.cached
        /\ d.whole = l.whole /\ d.table = l.table /\ d.hashed = l.hashed
        /\ d.refs = [l.refs EXCEPT ![y] = IF @ > 0 THEN @ - 1 ELSE 0]
    BY <2>2, <2>3 DEF Decremented, Memory
  <2> HIDE DEF d
  <2>5. l.refs[y] = m.refs[y] + 1 /\ m.refs[y] \in Nat
    BY <1>1, <2>2, <2>3
  <2>6. d.refs = m.refs
    BY <1>1, <2>2, <2>3, <2>4, <2>5
  <2>7. d = m
    BY <1>1, <2>3, <2>4, <2>6 DEF Memory
  <2>8. Unload(l, y) = m
    BY <2>2, <2>7 DEF Unload, Unneeded, d
  <2> QED BY <2>1, <2>2, <2>8 DEF y
<1>3. CASE m.table[n] = NULL
  <2> DEFINE p == Created(m, n, spare, NULL, TRUE)
             g == [h EXCEPT ![spare] = @ \cup {NULL}]
             a == Unload(l, spare)
  <2>1. LoadedBlock(m, n, spare) = spare /\ l \in Shared(p, spare)
    BY <1>3 DEF LoadedBlock, BaseLoaded
  <2>2. h[spare] = {}
    BY DEF Sound, Counted
  <2>3. /\ Sound(l, g, {}) /\ Grown(m, l)
        /\ l.used \subseteq m.used \cup {spare} /\ spare \in l.used /\ l.name[spare] = n
    <3>1. /\ n \in Names /\ spare \in Blocks /\ NULL \in Tokens \ m.used /\ Sound(m, h, {})
          /\ m.table[n] = NULL => spare \notin m.used
          /\ NULL \notin h[LoadedBlock(m, n, spare)] /\ l \in BaseLoaded(m, n, spare)
      BY <1>1, <2>1, <2>2
    <3> QED BY ONLY <2>1, <3>1, BaseLoadedSound
  <2>4. l.cached \subseteq m.cached \cup {spare} /\ spare \in l.whole
    <3>1. p.cached = m.cached /\ spare \in p.whole /\ p \in Memory
      BY <1>1 DEF Created, Memory
    <3> HIDE DEF p
    <3> QED BY <2>1, <3>1 DEF Shared, Marked, Memory
  <2>5. l.base[spare] = NULL
    BY <2>3, BaseHasNoBase DEF Sound
  <2>6. NULL \in g[spare] /\ [g EXCEPT ![spare] = @ \ {NULL}] = h /\ External(g)
    BY <1>1, <2>2 DEF External
  <2> HIDE DEF g
  <2>7. Sound(a, h, {}) /\ SameBut(l, a, {spare, l.base[spare]})
    BY <2>3, <2>6, UnloadSound
  <2> HIDE DEF a
  <2>8. a.cached = l.cached /\ a.used \subseteq l.used
        /\ \A z \in a.used : a.name[z] = l.name[z] /\ a.base[z] = l.base[z]
                            /\ (z \in a.whole <=> z \in l.whole)
    BY <2>7 DEF SameBut
  <2>9. a.cached \subseteq a.used /\ m.cached \subseteq m.used
    BY <2>7 DEF Sound, TableIsCache
  <2>10. \A z \in m.used \cap a.used : a.name[z] = m.name[z] /\ a.base[z] = m.base[z]
                                      /\ (z \in a.whole <=> z \in m.whole)
    BY <2>3, <2>8 DEF Grown
  <2>11. \A z \in a.used \ m.used : a.base[z] = NULL /\ z \in a.whole /\ a.name[z] = n
    BY <2>3, <2>4, <2>5, <2>8
  <2>12. a.cached \subseteq m.cached \cup (a.used \ m.used)
    BY <2>4, <2>8, <2>9
  <2> QED BY <2>1, <2>7, <2>10, <2>11, <2>12 DEF a
<1> QED BY <1>2, <1>3

LEMMA LoadFailsStep ==
  ASSUME CacheInv, NEW t \in Threads, LoadFails(t)
  PROVE  CacheInv' /\ DataKept
<1>c. PICK c : c = GivenUp("closing", call[t].held)
  OBVIOUS
<1>1. /\ At(t, "loading") /\ mutex = NULL /\ Become(t, c) /\ UNCHANGED <<slot, mutex, sweep>>
  BY <1>c DEF LoadFails
<1>2. call[t].held \in SUBSET Blocks /\ slot' \in SUBSET Blocks
  BY <1>1 DEF CacheInv, CacheTypeOK, Call
<1>3. /\ c \in Call /\ c.held = call[t].held /\ c.phase \notin {"loading", "cloning", "sweeping"}
      /\ c.held # {} => c.phase = "closing"
      /\ c.held = {} => c.phase \in {"idle", "flushing"}
  BY <1>c, <1>2, GivenUpCall
<1>4. Ready(c)'
  BY <1>3, ReadyAtRest
<1>5. Holders' = Holders
  BY <1>1, <1>2, <1>3, HoldersEffect DEF CacheInv
<1>6. Sound(mem', Holders, {}) /\ DataKept
  <2>1. CASE UNCHANGED mem
    BY <2>1 DEF CacheInv, DataKept
  <2>2. CASE ~UNCHANGED mem
    <3>1. PICK n \in call[t].todo, spare \in Blocks \ mem.used :
            /\ BaseOf[n] # NULL
            /\ \E l \in BaseLoaded(mem, BaseOf[n], spare) :
                 mem' = Unload(l, LoadedBlock(mem, BaseOf[n], spare))
      BY <2>2 DEF LoadFails
    <3>2. n \in Names
      BY <1>1 DEF CacheInv, CallsOK, Ready, At
    <3>3. BaseOf[n] \in Names /\ BaseOf[BaseOf[n]] = NULL
      BY <3>1, <3>2, FilesAssumption
    <3> QED BY <3>1, <3>3, HoldersExternal, BaseLetGoSound DEF CacheInv, DataKept
  <2> QED BY <2>1, <2>2
<1> QED BY <1>1, <1>2, <1>3, <1>4, <1>5, <1>6, BlockStep DEF At

LEMMA OpenPackageStep ==
  ASSUME CacheInv, NEW t \in Threads, NEW n \in Names, OpenPackage(t, n)
  PROVE  CacheInv' /\ DataKept
<1>1. PICK b \in Blocks, spare \in Blocks, phase \in {"open", "closing"} :
        /\ Malloc(mem, b, spare)
        /\ mem' = Packaged(mem, n, b, spare)
        /\ Become(t, GivenUp(phase, {b}))
  BY DEF OpenPackage
<1>2. At(t, "idle") /\ UNCHANGED <<slot, mutex, sweep>>
  BY DEF OpenPackage
<1>3. call[t].held = {} /\ slot' \in SUBSET Blocks /\ Sound(mem, Holders, {})
  BY <1>2 DEF CacheInv, CallsOK, Ready, At, CacheTypeOK
<1> DEFINE c == GivenUp(phase, {b})
<1>4. c \in Call /\ c.held = {b} /\ c.phase = phase
  BY GivenUpCall
<1> HIDE DEF c
<1>5. Ready(c)'
  BY <1>4, ReadyAtRest
<1>6. Holders' = [Holders EXCEPT ![b] = @ \cup {t}]
  <2>1. c.held = call[t].held \cup {b}
    BY <1>3, <1>4
  <2>2. CacheTypeOK /\ Become(t, c) /\ c.held \in SUBSET Blocks /\ slot' = slot
    BY <1>1, <1>2, <1>4 DEF CacheInv, c
  <2> QED BY <2>1, <2>2, HoldersEffect
<1>7. /\ Sound(mem', [Holders EXCEPT ![b] = @ \cup {t}], {})
      /\ mem'.table = mem.table
      /\ \A y \in mem.used : mem'.name[y] = mem.name[y] /\ mem'.base[y] = mem.base[y]
                            /\ mem'.refs[y] = mem.refs[y]
                            /\ (y \in mem'.whole <=> y \in mem.whole)
  BY <1>1, <1>3, HoldersExternal, PackagedSound
<1>8. InTable(mem) \subseteq mem.used
  BY <1>3, InTableIsCached DEF Sound
<1> QED BY <1>1, <1>2, <1>3, <1>4, <1>5, <1>6, <1>7, <1>8, BlockStep DEF At, c, DataKept

LEMMA CloneStep ==
  ASSUME CacheInv, NEW t \in Threads, NEW peer \in Threads, Clone(t, peer)
  PROVE  CacheInv'
<1>c. PICK c : c = [Idle EXCEPT !.phase = "cloning", !.todo = call[peer].held, !.peer = peer]
  OBVIOUS
<1>1. /\ At(t, "idle") /\ At(peer, "open") /\ Become(t, c)
      /\ UNCHANGED <<mem, slot, mutex, sweep>>
  BY <1>c DEF Clone
<1>2. call[t].held = {} /\ mutex # t /\ t # peer
  BY <1>1, NotSweeping DEF CacheInv, CallsOK, Ready, At
<1>3. call \in [Threads -> Call] /\ call[peer].held \subseteq Blocks
  BY DEF CacheInv, CacheTypeOK, Call
<1>4. /\ c \in Call /\ c.phase = "cloning" /\ c.todo = call[peer].held /\ c.peer = peer
      /\ c.held = {}
  BY <1>c, <1>3 DEF Idle, Call, Phases
<1>5. call'[peer] = call[peer] /\ call[peer].held # {}
  BY <1>1, <1>2, <1>3 DEF Become, CacheInv, CallsOK, Ready, At
<1>6. Ready(c)'
  BY <1>1, <1>4, <1>5 DEF Ready, At
<1> QED BY <1>1, <1>2, <1>4, <1>6, QuietStep DEF At

LEMMA CountPartStep ==
  ASSUME CacheInv, NEW t \in Threads, CountPart(t)
  PROVE  CacheInv' /\ DataKept
<1>1. PICK b \in call[t].todo :
        /\ mem' = AddRef(mem, b)
        /\ LET held == call[t].held \cup {b}
           IN  Become(t, IF call[t].todo = {b} THEN Having("open", held)
                         ELSE [call[t] EXCEPT !.todo = @ \ {b}, !.held = held])
  BY DEF CountPart
<1>2. At(t, "cloning") /\ mutex = NULL /\ UNCHANGED <<slot, mutex, sweep>>
  BY DEF CountPart
<1>3. /\ call[t] \in Call /\ call[t].held \subseteq Blocks /\ slot' \in SUBSET Blocks
      /\ Sound(mem, Holders, {}) /\ mem \in Memory
      /\ call \in [Threads -> Call]
  BY <1>2 DEF CacheInv, CacheTypeOK, Call
<1> DEFINE peer == call[t].peer
<1>4. /\ peer \in Threads /\ At(peer, "open")
      /\ call[t].todo \subseteq call[peer].held \ call[t].held
  BY <1>2 DEF CacheInv, CallsOK, Ready, At
<1>5. b \in mem.used /\ b \in Blocks /\ b \notin call[t].held
  BY <1>1, <1>4, HeldIsUsed
<1>6. t \notin Uses(mem, Holders, b)
  BY <1>3, <1>5, MemoryAssumption DEF Uses, Holders, Memory
<1>7. Sound(mem', [Holders EXCEPT ![b] = @ \cup {t}], {})
  BY <1>1, <1>3, <1>5, <1>6, AddRefSound DEF Tokens
<1>8. PICK c \in Call : /\ Become(t, c) /\ c.held = call[t].held \cup {b}
                        /\ c.phase = "open"
                             \/ /\ c.phase = "cloning" /\ c.peer = peer
                                /\ c.todo = call[t].todo \ {b} /\ c.todo # {}
  <2>1. CASE call[t].todo = {b}
    <3>1. Become(t, Having("open", call[t].held \cup {b}))
      BY <1>1, <2>1
    <3> QED BY <1>3, <1>5, <3>1, GivenUpCall
  <2>2. CASE call[t].todo # {b}
    <3> DEFINE c == [call[t] EXCEPT !.todo = @ \ {b}, !.held = call[t].held \cup {b}]
    <3>1. /\ c \in Call /\ c.held = call[t].held \cup {b} /\ c.phase = "cloning"
          /\ c.todo = call[t].todo \ {b} /\ c.peer = peer
      BY <1>2, <1>3, <1>5 DEF Call, At
    <3>2. Become(t, c)
      BY <1>1, <2>2
    <3> HIDE DEF c
    <3> QED BY <1>1, <2>2, <3>1, <3>2
  <2> QED BY <2>1, <2>2
<1>9. Holders' = [Holders EXCEPT ![b] = @ \cup {t}]
  BY <1>2, <1>3, <1>5, <1>8, HoldersEffect DEF CacheInv
<1>10. Ready(c)'
  <2>1. peer # t
    BY <1>2, <1>4 DEF At
  <2>2. call'[peer] = call[peer]
    BY <1>3, <1>4, <1>8, <2>1 DEF Become
  <2> QED BY <1>4, <1>8, <2>2 DEF Ready, At
<1>11. mem'.name = mem.name /\ mem'.base = mem.base /\ mem'.whole = mem.whole
  BY <1>1, <1>3 DEF AddRef, Memory
<1> QED BY <1>2, <1>3, <1>7, <1>8, <1>9, <1>10, <1>11, BlockStep DEF At, DataKept

LEMMA UnloadPartStep ==
  ASSUME CacheInv, NEW t \in Threads, UnloadPart(t)
  PROVE  CacheInv' /\ DataKept
<1>1. PICK b \in call[t].held :
        mem' = Unload(mem, b) /\ Become(t, GivenUp(call[t].phase, call[t].held \ {b}))
  BY DEF UnloadPart
<1>2. /\ call[t].phase \in {"closing", "emptying"} /\ mutex = NULL
      /\ UNCHANGED <<slot, mutex, sweep>>
  BY DEF UnloadPart, At
<1>3. /\ call[t].held \subseteq Blocks /\ slot' \in SUBSET Blocks
      /\ Sound(mem, Holders, {})
  BY <1>2 DEF CacheInv, CacheTypeOK, Call
<1>c. PICK c : c = GivenUp(call[t].phase, call[t].held \ {b})
  OBVIOUS
<1>4. /\ c \in Call /\ c.held = call[t].held \ {b}
      /\ c.held # {} => c.phase = call[t].phase
      /\ c.held = {} => c.phase \in {"idle", "flushing"}
  BY <1>c, <1>2, <1>3, GivenUpCall
<1>5. t \in Holders[b] /\ b \in Blocks
  BY <1>3 DEF Holders
<1>6. Sound(mem', [Holders EXCEPT ![b] = @ \ {t}], {}) /\ SameBut(mem, mem', {b, mem.base[b]})
  BY <1>1, <1>3, <1>5, HoldersExternal, UnloadSound
<1>7. Holders' = [Holders EXCEPT ![b] = @ \ {t}]
  BY <1>1, <1>2, <1>3, <1>4, <1>5, <1>c, HoldersEffect DEF CacheInv
<1>8. Ready(c)'
  BY <1>2, <1>4, ReadyAtRest
<1>9. DataKept
  BY <1>6 DEF SameBut, DataKept
<1> QED BY <1>1, <1>2, <1>3, <1>4, <1>6, <1>7, <1>8, <1>9, <1>c, BlockStep DEF At

LEMMA CloseStep ==
  ASSUME CacheInv, NEW t \in Threads, Close(t)
  PROVE  CacheInv'
<1>c. PICK c : c = GivenUp("closing", call[t].held)
  OBVIOUS
<1>1. /\ At(t, "open") /\ Unshared(t) /\ Become(t, c) /\ UNCHANGED <<mem, slot, mutex, sweep>>
  BY <1>c DEF Close
<1>2. call[t].held \subseteq Blocks /\ call[t].held # {} /\ mutex # t
  BY <1>1, NotSweeping DEF CacheInv, CallsOK, Ready, CacheTypeOK, Call, At
<1>3. c \in Call /\ c.held = call[t].held /\ c.phase = "closing"
  BY <1>c, <1>2, GivenUpCall
<1>4. Ready(c)'
  BY <1>2, <1>3, ReadyAtRest
<1> QED BY <1>1, <1>2, <1>3, <1>4, QuietStep

LEMMA GetDefaultStep ==
  ASSUME CacheInv, NEW t \in Threads, GetDefault(t)
  PROVE  CacheInv'
<1>c. PICK c : c = IF slot = {} THEN Loading(Default, FALSE) ELSE [Idle EXCEPT !.phase = "getting"]
  OBVIOUS
<1>1. At(t, "idle") /\ Become(t, c) /\ UNCHANGED <<mem, slot, mutex, sweep>>
  BY <1>c DEF GetDefault
<1>2. call[t].held = {} /\ mutex # t
  BY <1>1, NotSweeping DEF CacheInv, CallsOK, Ready, At
<1>3. /\ c \in Call /\ c.held = {}
      /\ \/ c.phase = "loading" /\ c.todo \subseteq Names /\ c.todo # {}
         \/ c.phase = "getting"
  <2>1. CASE slot = {}
    BY <1>c, <2>1, LoadingCall, FilesAssumption
  <2>2. CASE slot # {}
    BY <1>c, <2>2, IdleCall
  <2> QED BY <2>1, <2>2
<1>4. Ready(c)'
  BY <1>3 DEF Ready
<1> QED BY <1>1, <1>2, <1>3, <1>4, QuietStep DEF At

\* The default converter goes from the slot to the thread t, or from t to the slot.
LEMMA TakenSound ==
  ASSUME CacheInv, NEW t \in Threads, NEW c, Become(t, c), call[t].held = {}, c.held = slot,
         slot' = {}, UNCHANGED mem
  PROVE  Sound(mem', Holders', {})
<1>1. /\ call \in [Threads -> Call] /\ slot \in SUBSET Blocks
      /\ Sound(mem, Holders, {})
  BY DEF CacheInv, CacheTypeOK
<1>2. call'[t] = c /\ \A u \in Threads \ {t} : call'[u] = call[u]
  BY <1>1 DEF Become
<1>3. t # NULL /\ t \in Threads \cup {NULL} /\ NULL \in Threads \cup {NULL} /\ NULL \notin Threads
  BY MemoryAssumption
<1>4. \A b \in Blocks : Holders'[b] = {u \in Threads : b \in call'[u].held}
  BY DEF Holders
<1>5. \A b \in slot : NULL \in Holders[b] /\ t \notin Holders[b]
  BY <1>1, <1>3 DEF Holders
<1>6. ASSUME NEW b \in Blocks
      PROVE  Holders'[b] = IF b \in slot THEN (Holders[b] \ {NULL}) \cup {t} ELSE Holders[b]
  <2>1. Holders[b] = {u \in Threads : b \in call[u].held} \cup {o \in {NULL} : b \in slot}
    BY DEF Holders
  <2> QED BY <1>2, <1>3, <1>4, <2>1
<1>7. Holders' = [b \in Blocks |-> IF b \in slot THEN (Holders[b] \ {NULL}) \cup {t} ELSE Holders[b]]
  BY <1>6 DEF Holders
<1> QED BY <1>1, <1>3, <1>5, <1>7, HoldersExternal, HandedOverSound

LEMMA PutSound ==
  ASSUME CacheInv, NEW t \in Threads, NEW c, Become(t, c), c.held = {}, slot = {},
         slot' = call[t].held, UNCHANGED mem
  PROVE  Sound(mem', Holders', {})
<1>1. /\ call \in [Threads -> Call] /\ slot' \in SUBSET Blocks
      /\ Sound(mem, Holders, {})
  BY DEF CacheInv, CacheTypeOK, Call
<1>2. call'[t] = c /\ \A u \in Threads \ {t} : call'[u] = call[u]
  BY <1>1 DEF Become
<1>3. t # NULL /\ t \in Threads \cup {NULL} /\ NULL \in Threads \cup {NULL} /\ NULL \notin Threads
  BY MemoryAssumption
<1>4. \A b \in Blocks : Holders[b] = {u \in Threads : b \in call[u].held}
  BY DEF Holders
<1>5. \A b \in slot' : t \in Holders[b] /\ NULL \notin Holders[b]
  BY <1>1, <1>3, <1>4
<1>6. ASSUME NEW b \in Blocks
      PROVE  Holders'[b] = IF b \in slot' THEN (Holders[b] \ {t}) \cup {NULL} ELSE Holders[b]
  <2>1. Holders'[b] = {u \in Threads : b \in call'[u].held} \cup {o \in {NULL} : b \in slot'}
    BY DEF Holders
  <2> QED BY <1>2, <1>3, <1>4, <2>1
<1>7. Holders' = [b \in Blocks |-> IF b \in slot' THEN (Holders[b] \ {t}) \cup {NULL} ELSE Holders[b]]
  BY <1>6 DEF Holders
<1> QED BY <1>1, <1>3, <1>5, <1>7, HoldersExternal, HandedOverSound

LEMMA TakeDefaultStep ==
  ASSUME CacheInv, NEW t \in Threads, TakeDefault(t)
  PROVE  CacheInv'
<1>c. PICK c : c = IF slot = {} THEN Loading(Default, FALSE) ELSE Having("open", slot)
  OBVIOUS
<1>1. At(t, "getting") /\ Become(t, c) /\ slot' = {} /\ UNCHANGED <<mem, mutex, sweep>>
  BY <1>c DEF TakeDefault
<1>2. call[t].held = {} /\ slot \in SUBSET Blocks
  BY <1>1 DEF CacheInv, CallsOK, Ready, At, CacheTypeOK
<1>3. /\ c \in Call /\ c.held = slot
      /\ \/ c.phase = "loading" /\ c.todo \subseteq Names /\ c.todo # {} /\ c.held = {}
         \/ c.phase = "open" /\ c.held # {}
  <2>1. CASE slot = {}
    BY <1>c, <2>1, LoadingCall, FilesAssumption
  <2>2. CASE slot # {}
    <3>1. Having("open", slot) \in Call /\ Having("open", slot).held = slot
          /\ Having("open", slot).phase = "open"
      BY <1>2, GivenUpCall
    <3> QED BY <1>c, <2>2, <3>1
  <2> QED BY <2>1, <2>2
<1>4. Ready(c)'
  BY <1>3 DEF Ready
<1>5. Sound(mem', Holders', {})
  BY <1>1, <1>2, <1>3, TakenSound
<1> QED BY <1>1, <1>3, <1>4, <1>5, BlockStep DEF At, DataKept

LEMMA ReleaseDefaultStep ==
  ASSUME CacheInv, NEW t \in Threads, ReleaseDefault(t)
  PROVE  CacheInv'
<1>c. PICK c : c = IF slot = {} THEN Having("putting", call[t].held)
                   ELSE GivenUp("closing", call[t].held)
  OBVIOUS
<1>1. /\ At(t, "open") /\ Unshared(t) /\ Become(t, c) /\ UNCHANGED <<mem, slot, mutex, sweep>>
  BY <1>c DEF ReleaseDefault
<1>2. call[t].held \subseteq Blocks /\ call[t].held # {} /\ mutex # t
  BY <1>1, NotSweeping DEF CacheInv, CallsOK, Ready, CacheTypeOK, Call, At
<1>3. c \in Call /\ c.held = call[t].held /\ c.phase \in {"putting", "closing"}
  BY <1>c, <1>2, GivenUpCall
<1>4. Ready(c)'
  BY <1>2, <1>3, ReadyAtRest
<1> QED BY <1>1, <1>2, <1>3, <1>4, QuietStep

LEMMA PutDefaultStep ==
  ASSUME CacheInv, NEW t \in Threads, PutDefault(t)
  PROVE  CacheInv'
<1>1. /\ At(t, "putting") /\ UNCHANGED <<mem, mutex, sweep>>
      /\ slot' = IF slot = {} THEN call[t].held ELSE slot
      /\ Become(t, IF slot = {} THEN Idle ELSE GivenUp("closing", call[t].held))
  BY DEF PutDefault
<1>2. /\ call[t].held \subseteq Blocks /\ call[t].held # {} /\ mutex # t
      /\ Sound(mem, Holders, {})
  BY <1>1, NotSweeping DEF CacheInv, CallsOK, Ready, CacheTypeOK, Call, At
<1>3. CASE slot = {}
  <2>1. Idle \in Call /\ Idle.held = {} /\ Idle.phase = "idle" /\ Ready(Idle)'
    BY DEF Idle, Call, Phases, Ready
  <2>2. Sound(mem', Holders', {})
    BY <1>1, <1>3, <2>1, PutSound
  <2> QED BY <1>1, <1>2, <1>3, <2>1, <2>2, BlockStep DEF At, DataKept
<1>4. CASE slot # {}
  <2>c. PICK c : c = GivenUp("closing", call[t].held)
    OBVIOUS
  <2>1. c \in Call /\ c.held = call[t].held /\ c.phase = "closing" /\ slot' = slot
    BY <1>1, <1>2, <1>4, <2>c, GivenUpCall
  <2>2. Ready(c)'
    BY <1>2, <2>1, ReadyAtRest
  <2> QED BY <1>1, <1>2, <1>4, <2>1, <2>2, <2>c, QuietStep DEF At
<1> QED BY <1>3, <1>4

LEMMA FlushCacheStep ==
  ASSUME CacheInv, NEW t \in Threads, FlushCache(t)
  PROVE  CacheInv'
<1>c. PICK c : c = [Idle EXCEPT !.phase = IF slot = {} THEN "flushing" ELSE "draining"]
  OBVIOUS
<1>1. At(t, "idle") /\ Become(t, c) /\ UNCHANGED <<mem, slot, mutex, sweep>>
  BY <1>c DEF FlushCache
<1>2. call[t].held = {} /\ mutex # t
  BY <1>1, NotSweeping DEF CacheInv, CallsOK, Ready, At
<1>3. c \in Call /\ c.held = {} /\ c.phase \in {"flushing", "draining"}
  BY <1>c, IdleCall
<1>4. Ready(c)'
  BY <1>3, ReadyAtRest
<1> QED BY <1>1, <1>2, <1>3, <1>4, QuietStep DEF At

LEMMA DrainDefaultStep ==
  ASSUME CacheInv, NEW t \in Threads, DrainDefault(t)
  PROVE  CacheInv'
<1>c. PICK c : c = IF slot = {} THEN [Idle EXCEPT !.phase = "flushing"] ELSE GivenUp("emptying", slot)
  OBVIOUS
<1>1. At(t, "draining") /\ Become(t, c) /\ slot' = {} /\ UNCHANGED <<mem, mutex, sweep>>
  BY <1>c DEF DrainDefault
<1>2. call[t].held = {} /\ slot \in SUBSET Blocks
  BY <1>1 DEF CacheInv, CallsOK, Ready, At, CacheTypeOK
<1>3. /\ c \in Call /\ c.held = slot
      /\ \/ c.phase = "flushing" /\ c.held = {}
         \/ c.phase = "emptying" /\ c.held # {}
  <2>1. CASE slot = {}
    BY <1>c, <2>1, IdleCall
  <2>2. CASE slot # {}
    BY <1>c, <1>2, <2>2, GivenUpCall
  <2> QED BY <2>1, <2>2
<1>4. Ready(c)'
  BY <1>3, ReadyAtRest
<1>5. Sound(mem', Holders', {})
  BY <1>1, <1>2, <1>3, TakenSound
<1> QED BY <1>1, <1>3, <1>4, <1>5, BlockStep DEF At, DataKept

LEMMA FlushNothingStep ==
  ASSUME CacheInv, NEW t \in Threads, FlushNothing(t)
  PROVE  CacheInv'
<1>1. At(t, "flushing") /\ Become(t, Idle) /\ UNCHANGED <<mem, slot, mutex, sweep>>
  BY DEF FlushNothing
<1>2. call[t].held = {} /\ mutex # t
  BY <1>1, NotSweeping DEF CacheInv, CallsOK, Ready, At
<1>3. Idle \in Call /\ Idle.held = {} /\ Idle.phase = "idle" /\ Ready(Idle)'
  BY DEF Idle, Call, Phases, Ready
<1> QED BY <1>1, <1>2, <1>3, QuietStep DEF At

LEMMA SweepBeginStep ==
  ASSUME CacheInv, NEW t \in Threads, SweepBegin(t)
  PROVE  CacheInv'
<1>c. PICK c : c = [Idle EXCEPT !.phase = "sweeping"]
  OBVIOUS
<1>1. /\ At(t, "flushing") /\ mutex = NULL /\ mutex' = t /\ Become(t, c)
      /\ sweep' = [pass |-> 1, left |-> InTable(mem), remaining |-> FALSE]
      /\ UNCHANGED <<mem, slot>>
  BY <1>c DEF SweepBegin, StartPass
<1>2. /\ call[t].held = {} /\ t # NULL
      /\ mem \in Memory /\ BlocksLinked(mem) /\ TableIsCache(mem) /\ slot \in SUBSET Blocks
  BY <1>1, MemoryAssumption DEF CacheInv, CallsOK, Ready, At, Sound, CacheTypeOK
<1>3. c \in Call /\ c.held = {} /\ c.phase = "sweeping"
  BY <1>c, IdleCall
<1>4. InTable(mem) \subseteq Blocks
  BY <1>2, InTableIsCached
<1>5. Holders' = Holders
  BY <1>1, <1>2, <1>3, HoldersEffect DEF CacheInv
<1>6. Ready(c)'
  BY <1>3, ReadyAtRest
<1>7. call' \in [Threads -> Call] /\ CallsOK'
  <2>1. ~At(t, "open") /\ \A u \in Threads : u # NULL
    BY <1>1, MemoryAssumption DEF At
  <2> QED BY <1>1, <1>3, <1>6, <2>1, CallsKept
<1>8. sweep' \in Sweep
  BY <1>1, <1>4 DEF Sweep
<1>9. SweepOK'
  BY <1>1, <1>2 DEF SweepOK
<1> QED BY <1>1, <1>2, <1>5, <1>7, <1>8, <1>9 DEF CacheInv, CacheTypeOK

LEMMA SweepEntryStep ==
  ASSUME CacheInv, NEW t \in Threads, SweepEntry(t)
  PROVE  CacheInv' /\ DataKept
<1>1. At(t, "sweeping") /\ mutex = t /\ mutex # NULL /\ UNCHANGED <<call, slot, mutex>>
  BY MemoryAssumption DEF SweepEntry, CacheInv, CallsOK
<1>2. PICK b \in sweep.left :
        IF mem.refs[b] = 0
        THEN /\ mem' = Evicted(mem, b)
             /\ sweep' = [sweep EXCEPT !.left = @ \ {b}]
        ELSE /\ sweep' = [sweep EXCEPT !.left = @ \ {b}, !.remaining = TRUE]
             /\ UNCHANGED mem
  BY DEF SweepEntry
<1>3. /\ Sound(mem, Holders, {}) /\ mem \in Memory /\ TableIsCache(mem)
      /\ sweep \in Sweep /\ sweep.pass \in {1, 2}
      /\ b \in InTable(mem) /\ sweep.left \subseteq InTable(mem)
      /\ mem.refs \in [Blocks -> Nat] /\ mem.table \in [Names -> Blocks \cup {NULL}]
  BY <1>1, <1>2 DEF CacheInv, SweepOK, Sound, CacheTypeOK, Memory
<1>a. /\ InTable(mem) \subseteq mem.used /\ mem.used \subseteq Blocks /\ b \in mem.cached
      /\ \A y \in InTable(mem) : mem.name[y] \in Names /\ mem.table[mem.name[y]] = y
  BY <1>3, InTableIsCached
<1>4. Holders' = Holders
  BY <1>1 DEF Holders
<1>5. CASE mem.refs[b] # 0
  <2>1. /\ sweep' \in Sweep /\ sweep'.left = sweep.left \ {b} /\ sweep'.remaining
        /\ sweep'.pass = sweep.pass /\ UNCHANGED mem
    BY <1>2, <1>3, <1>5 DEF Sweep
  <2>2. mem.refs[b] > 0
    BY <1>3, <1>5, <1>a
  <2>3. SweepOK'
    BY <1>1, <1>3, <2>1, <2>2 DEF CacheInv, SweepOK
  <2>4. CallsOK'
    BY <1>1, <2>1 DEF CacheInv, CallsOK, Ready, At
  <2> QED BY <1>1, <1>4, <2>1, <2>3, <2>4 DEF CacheInv, CacheTypeOK, DataKept
<1>6. CASE mem.refs[b] = 0
  <2>1. /\ sweep' \in Sweep /\ sweep'.left = sweep.left \ {b} /\ sweep'.remaining = sweep.remaining
        /\ sweep'.pass = sweep.pass
    BY <1>2, <1>3, <1>6 DEF Sweep
  <2>2. /\ Sound(mem', Holders, {})
        /\ mem'.table = [mem.table EXCEPT ![mem.name[b]] = NULL]
        /\ \A z \in mem'.used : mem'.name[z] = mem.name[z] /\ mem'.base[z] = mem.base[z]
                               /\ (z \in mem'.whole <=> z \in mem.whole)
        /\ \A z \in mem.used \ {b, mem.base[b]} : z \in mem'.used /\ mem'.refs[z] = mem.refs[z]
    <3>1. /\ Sound(Evicted(mem, b), Holders, {})
          /\ Evicted(mem, b).table = [mem.table EXCEPT ![mem.name[b]] = NULL]
          /\ \A z \in Evicted(mem, b).used :
               Evicted(mem, b).name[z] = mem.name[z] /\ Evicted(mem, b).base[z] = mem.base[z]
               /\ (z \in Evicted(mem, b).whole <=> z \in mem.whole)
          /\ \A z \in mem.used \ {b, mem.base[b]} :
               z \in Evicted(mem, b).used /\ Evicted(mem, b).refs[z] = mem.refs[z]
      <4>1. /\ b \in mem.cached /\ Sound(mem, Holders, {}) /\ External(Holders)
            /\ mem.refs[b] = 0 /\ mem.table[mem.name[b]] = b
        BY <1>3, <1>6, <1>a, HoldersExternal
      <4> QED BY ONLY <4>1, EvictedSound
    <3>2. mem' = Evicted(mem, b)
      BY <1>2, <1>6
    <3> QED BY <3>1, <3>2
  <2>3. InTable(mem') = InTable(mem) \ {b} /\ InTable(mem') \subseteq mem'.used
    <3>1. ASSUME NEW n \in Names, mem.table[n] = b PROVE n = mem.name[b]
      BY <1>3, <1>a, <3>1, MemoryAssumption DEF TableIsCache
    <3>2. \A n \in Names : mem'.table[n] = IF n = mem.name[b] THEN NULL ELSE mem.table[n]
      BY <1>3, <2>2
    <3>3. InTable(mem') = InTable(mem) \ {b}
      <4>1. \A y : y \in InTable(mem') <=> \E n \in Names : mem'.table[n] = y /\ y # NULL
        BY DEF InTable
      <4>2. \A y : y \in InTable(mem) <=> \E n \in Names : mem.table[n] = y /\ y # NULL
        BY DEF InTable
      <4>3. \A y : y \in InTable(mem') <=> y \in InTable(mem) /\ y # b
        BY <1>3, <1>a, <3>1, <3>2, <4>1, <4>2
      <4> QED BY <4>3
    <3>4. mem' \in Memory /\ TableIsCache(mem')
      BY <2>2 DEF Sound
    <3>5. InTable(mem') \subseteq mem'.used
      BY <3>4, InTableIsCached
    <3> QED BY <3>3, <3>5
  <2>4. ASSUME NEW y \in InTable(mem'), mem.base[y] # NULL
        PROVE  mem'.refs[y] = mem.refs[y] /\ mem'.base[y] = mem.base[y]
    <3>1. y \in mem.used /\ y # b /\ y \in mem'.used
      BY <1>a, <2>3
    <3>2. y # mem.base[b]
      <4>1. ASSUME y = mem.base[b] PROVE FALSE
        <5>1. y # NULL
          BY <1>a, <3>1, MemoryAssumption
        <5>2. mem.name[y] = BaseOf[mem.name[b]] /\ mem.name[b] \in Names /\ mem.name[y] \in Names
          BY <1>3, <1>a, <3>1, <4>1, <5>1 DEF Sound, BlocksLinked
        <5>3. BaseOf[mem.name[y]] = NULL
          BY <5>2, FilesAssumption, MemoryAssumption
        <5> QED BY <1>3, <2>4, <3>1, <5>3, BaseHasNoBase DEF Sound
      <4> QED BY <4>1
    <3> QED BY <2>2, <3>1, <3>2
  <2>5. mem.base[b] # NULL => sweep.pass = 1
    BY <1>1, <1>3, <1>6 DEF CacheInv, SweepOK
  <2>6. \A y \in InTable(mem') : sweep.pass = 2 => mem'.refs[y] = mem.refs[y]
    <3>1. ASSUME NEW y \in InTable(mem'), sweep.pass = 2 PROVE mem'.refs[y] = mem.refs[y]
      <4>1. y \in mem.used /\ y # b /\ y # mem.base[b]
        BY <1>a, <2>3, <2>5, <3>1, MemoryAssumption
      <4> QED BY <2>2, <4>1
    <3> QED BY <3>1
  <2>7. SweepOK'
    <3>1. sweep'.left \subseteq InTable(mem') /\ (InTable(mem') # sweep'.left => InTable(mem) # sweep.left)
      BY <1>3, <2>1, <2>3
    <3>2. ASSUME NEW y \in InTable(mem'), mem'.base[y] # NULL, sweep'.pass = 2 \/ y \notin sweep'.left
          PROVE  mem'.refs[y] > 0
      <4>1. y \in InTable(mem) /\ y # b /\ mem.base[y] # NULL /\ (sweep.pass = 2 \/ y \notin sweep.left)
        BY <2>1, <2>2, <2>3, <3>2
      <4>2. mem.refs[y] > 0
        BY <1>1, <4>1 DEF CacheInv, SweepOK
      <4> QED BY <2>4, <4>1, <4>2
    <3>3. ASSUME NEW y \in InTable(mem') \ sweep'.left, sweep'.pass = 2 PROVE mem'.refs[y] > 0
      <4>1. y \in InTable(mem) \ sweep.left
        BY <2>1, <2>3, <3>3
      <4> QED BY <2>1, <2>6, <3>3, <4>1 DEF CacheInv, SweepOK
    <3>4. sweep'.pass = 1 /\ InTable(mem') # sweep'.left => sweep'.remaining
      BY <2>1, <3>1 DEF CacheInv, SweepOK
    <3> QED BY <1>1, <1>3, <2>1, <3>1, <3>2, <3>3, <3>4 DEF SweepOK
  <2>8. CallsOK'
    <3>1. ASSUME NEW u \in Threads PROVE Ready(call[u])'
      <4>1. Ready(call[u])
        BY DEF CacheInv, CallsOK
      <4>2. \A y \in call[u].held : mem'.name[y] = mem.name[y]
        <5>1. ASSUME NEW y \in call[u].held PROVE mem'.name[y] = mem.name[y]
          <6>1. y \in Blocks /\ u \in Holders[y]
            BY HeldIsUsed DEF Holders
          <6>2. y \in mem'.used
            BY <2>2, <6>1 DEF Sound, Counted
          <6> QED BY <2>2, <6>2
        <5> QED BY <5>1
      <4> QED BY <1>1, <4>1, <4>2 DEF Ready, At
    <3> QED BY <1>1, <3>1 DEF CacheInv, CallsOK, At
  <2>9. mem' \in Memory
    BY <2>2 DEF Sound
  <2> QED BY <1>1, <1>4, <2>1, <2>2, <2>7, <2>8, <2>9 DEF CacheInv, CacheTypeOK, DataKept
<1> QED BY <1>5, <1>6

\* In a pass that has come to its end without Again, every entry is in use.
LEMMA SweptIsUsed ==
  ASSUME CacheInv, NEW t \in Threads, At(t, "sweeping"), sweep.left = {}, ~Again
  PROVE  \A b \in InTable(mem) : mem.refs[b] > 0
<1>1. mutex # NULL
  BY MemoryAssumption DEF CacheInv, CallsOK
<1>3. sweep.pass \in {1, 2}
  BY <1>1 DEF CacheInv, SweepOK
<1>4. CASE sweep.pass = 1
  BY <1>4 DEF CacheInv, SweepOK, Again
<1>5. CASE sweep.pass = 2
  BY <1>5 DEF CacheInv, SweepOK
<1> QED BY <1>3, <1>4, <1>5

LEMMA SweepAgainStep ==
  ASSUME CacheInv, NEW t \in Threads, SweepAgain(t)
  PROVE  CacheInv'
<1>1. /\ At(t, "sweeping") /\ sweep.left = {} /\ sweep.pass = 1
      /\ sweep' = [pass |-> 2, left |-> InTable(mem), remaining |-> FALSE]
      /\ UNCHANGED <<mem, call, slot, mutex>>
  BY DEF SweepAgain, StartPass, Again
<1>2. mutex # NULL /\ InTable(mem) \subseteq Blocks
  BY <1>1, InTableIsCached, MemoryAssumption DEF CacheInv, CallsOK, Sound
<1>3. sweep' \in Sweep
  BY <1>1, <1>2 DEF Sweep
<1>4. SweepOK'
  BY <1>1, <1>2 DEF CacheInv, SweepOK
<1>5. Holders' = Holders /\ CallsOK'
  BY <1>1 DEF Holders, CacheInv, CallsOK, Ready, At
<1> QED BY <1>1, <1>3, <1>4, <1>5 DEF CacheInv, CacheTypeOK

LEMMA SweepEndStep ==
  ASSUME CacheInv, NEW t \in Threads, SweepEnd(t)
  PROVE  CacheInv'
<1>1. /\ At(t, "sweeping") /\ mutex' = NULL /\ sweep' = NoSweep /\ Become(t, Idle)
      /\ UNCHANGED <<mem, slot>>
  BY DEF SweepEnd
<1>2. call[t].held = {} /\ mutex = t /\ t # NULL
  BY <1>1, MemoryAssumption DEF CacheInv, CallsOK, Ready, At
<1>3. Idle \in Call /\ Idle.held = {} /\ Idle.phase = "idle" /\ Ready(Idle)'
  BY DEF Idle, Call, Phases, Ready
<1>4. Holders' = Holders
  BY <1>1, <1>2, <1>3, HoldersEffect DEF CacheInv
<1>5. call' \in [Threads -> Call] /\ CallsOK'
  <2>1. ~At(t, "open") /\ \A u \in Threads \ {t} : mutex' = u <=> mutex = u
    BY <1>1, <1>2, MemoryAssumption DEF At
  <2> QED BY <1>1, <1>2, <1>3, <2>1, CallsKept
<1>6. sweep' \in Sweep /\ SweepOK'
  BY <1>1 DEF NoSweep, Sweep, SweepOK
<1> QED BY <1>1, <1>4, <1>5, <1>6 DEF CacheInv, CacheTypeOK

LEMMA NextInv == CacheInv /\ [Next]_vars => CacheInv'
<1> SUFFICES ASSUME CacheInv, [Next]_vars PROVE CacheInv'
  OBVIOUS
<1>1. CASE UNCHANGED vars
  <2>1. UNCHANGED <<mem, call, slot, mutex, sweep>>
    BY <1>1 DEF vars
  <2> QED BY <2>1 DEF CacheInv, CacheTypeOK, Holders, CallsOK, Ready, At, SweepOK,
                    InTable
<1>2. CASE Next
  <2>1. ASSUME NEW t \in Threads, Step(t) PROVE CacheInv'
    BY <2>1, LoadPartStep, LoadFailsStep, CountPartStep, UnloadPartStep, TakeDefaultStep,
       PutDefaultStep, DrainDefaultStep, FlushNothingStep, SweepBeginStep, SweepEntryStep,
       SweepAgainStep, SweepEndStep DEF Step
  <2> QED BY <1>2, <2>1, OpenStep, OpenPackageStep, CloneStep, CloseStep, GetDefaultStep,
             ReleaseDefaultStep, FlushCacheStep DEF Next
<1> QED BY <1>1, <1>2

LEMMA CacheInvAlways == Spec => []CacheInv
<1> QED BY InitInv, NextInv, PTL DEF Spec

-----------------------------------------------------------------------------
(* The theorems.                                                             *)

\* The variables keep their types: above all, no reference counter is decremented
\* below zero, and no entry of the table points outside the memory.
THEOREM CacheTypesCorrect == Spec => []CacheTypeOK
<1>1. CacheInv => CacheTypeOK
  BY DEF CacheInv
<1> QED BY <1>1, CacheInvAlways, PTL

LEMMA ClientsAreUses ==
  ASSUME NEW b \in Blocks
  PROVE  Clients(b) = Uses(mem, Holders, b)
BY DEF Clients, Uses, Holders

\* The referenceCounter of every block is the number of its clients, whatever the
\* threads open, clone, close, fail to load or flush, and however they interleave.
THEOREM CountsStayExact == Spec => []CountsAreExact
<1>1. CacheInv => CountsAreExact
  BY ClientsAreUses DEF CacheInv, CountsAreExact, Sound, Counted, Memory
<1> QED BY <1>1, CacheInvAlways, PTL

\* What nobody uses can be found in the table under its name, when the table has
\* room for every file: no block is lost.
THEOREM NothingIsLost == Roomy /\ Spec => []NothingLeaks
<1>1. ASSUME CacheInv, Roomy, NEW b \in mem.used, Clients(b) = {} PROVE mem.table[mem.name[b]] = b
  <2>1. Sound(mem, Holders, {}) /\ b \in Blocks
    BY <1>1 DEF CacheInv, Sound, Memory
  <2>2. mem.refs[b] = Cardinality({})
    BY <1>1, <2>1, ClientsAreUses DEF Sound, Counted
  <2>3. b \in mem.cached
    BY <2>1, <2>2, FS_EmptySet DEF Sound, Kept
  <2>4. TableIsCache(mem)
    BY <2>1 DEF Sound
  <2> QED BY ONLY <1>1, <2>3, <2>4 DEF TableIsCache
<1>2. Roomy /\ CacheInv => NothingLeaks
  BY <1>1 DEF NothingLeaks
<1> DEFINE Inv == Roomy /\ CacheInv
<1>3. Roomy /\ Init => Inv
  BY InitInv
<1>4. Inv /\ [Next]_vars => Inv'
  BY NextInv DEF Roomy
<1>5. Inv => NothingLeaks
  BY <1>2
<1> HIDE DEF Inv
<1> QED BY <1>3, <1>4, <1>5, PTL DEF Spec

\* Two loops over the table are enough, for any number of entries: when the lock is
\* given back, every entry is in use.
THEOREM FlushCompletes == Spec => FlushIsComplete
<1> DEFINE A == mutex # NULL /\ mutex' = NULL => \A b \in InTable(mem) : mem.refs[b] > 0
<1>1. ASSUME CacheInv, [Next]_vars PROVE [A]_vars
  <2>1. SUFFICES ASSUME Next, mutex # NULL, mutex' = NULL
                 PROVE  \A b \in InTable(mem) : mem.refs[b] > 0
    BY <1>1
  <2>2. PICK t \in Threads : SweepEnd(t)
    BY <2>1, MemoryAssumption
    DEF Next, Step, Open, LoadPart, LoadFails, OpenPackage, Clone, CountPart, Close, UnloadPart,
        GetDefault, TakeDefault, ReleaseDefault, PutDefault, FlushCache, DrainDefault,
        FlushNothing, SweepBegin, SweepEntry, SweepAgain
  <2> QED BY <1>1, <2>2, SweptIsUsed DEF SweepEnd
<1>2. CacheInv /\ [Next]_vars => [A]_vars
  BY <1>1
<1>3. Spec => [][A]_vars
  BY <1>2, CacheInvAlways, PTL DEF Spec
<1> QED BY <1>3 DEF FlushIsComplete

-----------------------------------------------------------------------------
(* ConverterCache implements ConverterHandles. For that, the data that is    *)
(* shared must be complete, and what is held or still to be done must make   *)
(* up what was asked for.                                                    *)

\* The data of b was loaded in full, and with its base when it needs one.
Entire(m, b) == b \in m.whole /\ (BaseOf[m.name[b]] # NULL => m.base[b] # NULL)

\* So is what an open may find; and every base table is loaded in full.
Complete(m) ==
  /\ \A b \in m.cached : Entire(m, b)
  /\ \A b \in m.used : m.base[b] # NULL => m.base[b] \in m.whole

Whole(c) ==
  /\ c.phase = "loading" /\ ~c.test =>
       /\ \E k \in Converters : PartsOf[k] = {mem.name[b] : b \in c.held} \cup c.todo
       /\ \A b \in c.held : Entire(mem, b)
  /\ c.phase = "cloning" => c.held \cup c.todo = call[c.peer].held

HandlesInv == CacheInv /\ Complete(mem) /\ \A t \in Threads : Whole(call[t])

\* What the converters convert by, when each block has the base it should have.
LEMMA TablesAsAsked ==
  ASSUME NEW m \in Memory, BlocksLinked(m), Complete(m), NEW held \in SUBSET m.used,
         \A b \in held : Entire(m, b)
  PROVE  TablesOf(m, held) = TablesFor({m.name[b] : b \in held})
<1>1. \A b \in held : /\ m.name[b] \in Names /\ b \in m.whole
                      /\ m.base[b] = NULL <=> BaseOf[m.name[b]] = NULL
                      /\ m.base[b] # NULL => m.name[m.base[b]] = BaseOf[m.name[b]]
                                             /\ m.base[b] \in m.whole
  BY BaseHasNoBase DEF BlocksLinked, Entire, Complete
<1>2. ASSUME NEW n PROVE n \in TablesOf(m, held) <=> n \in TablesFor({m.name[b] : b \in held})
  <2>1. n \in TablesOf(m, held) <=>
          \/ \E b \in held : n = IF b \in m.whole THEN m.name[b] ELSE NULL
          \/ \E b \in held : /\ m.base[b] # NULL
                             /\ n = IF m.base[b] \in m.whole THEN m.name[m.base[b]] ELSE NULL
    BY DEF TablesOf
  <2>2. n \in TablesFor({m.name[b] : b \in held}) <=>
          \/ \E b \in held : n = m.name[b]
          \/ \E b \in held : BaseOf[m.name[b]] # NULL /\ n = BaseOf[m.name[b]]
    BY DEF TablesFor
  <2> QED BY <1>1, <2>1, <2>2
<1> QED BY <1>2

LEMMA TablesKept ==
  ASSUME CacheInv, CacheInv', DataKept, NEW held, held \subseteq mem.used \cap mem'.used
  PROVE  TablesOf(mem', held) = TablesOf(mem, held)
<1>1. \A b \in held : /\ mem'.name[b] = mem.name[b] /\ mem'.base[b] = mem.base[b]
                      /\ b \in mem'.whole <=> b \in mem.whole
                      /\ mem.base[b] # NULL =>
                           /\ mem'.name[mem.base[b]] = mem.name[mem.base[b]]
                           /\ mem.base[b] \in mem'.whole <=> mem.base[b] \in mem.whole
  <2> TAKE b \in held
  <2>1. /\ mem'.name[b] = mem.name[b] /\ mem'.base[b] = mem.base[b]
        /\ b \in mem'.whole <=> b \in mem.whole
    BY DEF DataKept
  <2>2. mem.base[b] # NULL => mem.base[b] \in mem.used /\ mem.base[b] \in mem'.used
    BY <2>1 DEF CacheInv, Sound, BlocksLinked
  <2> QED BY <2>1, <2>2 DEF DataKept
<1>2. ASSUME NEW n PROVE n \in TablesOf(mem', held) <=> n \in TablesOf(mem, held)
  <2>1. n \in TablesOf(mem, held) <=>
          \/ \E b \in held : n = IF b \in mem.whole THEN mem.name[b] ELSE NULL
          \/ \E b \in held :
               /\ mem.base[b] # NULL
               /\ n = IF mem.base[b] \in mem.whole THEN mem.name[mem.base[b]] ELSE NULL
    BY DEF TablesOf
  <2>2. n \in TablesOf(mem', held) <=>
          \/ \E b \in held : n = IF b \in mem'.whole THEN mem'.name[b] ELSE NULL
          \/ \E b \in held :
               /\ mem'.base[b] # NULL
               /\ n = IF mem'.base[b] \in mem'.whole THEN mem'.name[mem'.base[b]] ELSE NULL
    BY DEF TablesOf
  <2> QED BY <1>1, <2>1, <2>2
<1> QED BY <1>2

LEMMA TablesOfSome ==
  ASSUME NEW held
  PROVE  TablesOf(mem, held) = {} <=> held = {}
BY DEF TablesOf

\* What is shared was loaded in full, and with its base.
LEMMA SharedComplete ==
  ASSUME NEW m \in Memory, NEW b \in Blocks, NEW a \in Shared(m, b), Entire(m, b)
  PROVE  /\ a.used = m.used /\ a.name = m.name /\ a.base = m.base /\ a.whole = m.whole
         /\ a.cached \subseteq m.cached \cup {b} /\ a \in Memory
         /\ Entire(a, b)
<1>1. /\ a.used = m.used /\ a.name = m.name /\ a.base = m.base /\ a.whole = m.whole
      /\ a.cached \subseteq m.cached \cup {b}
  BY DEF Shared, Marked, Memory
<1>2. a \in Memory
  <2> DEFINE p == Marked(m, b)
  <2>1. p \in Memory
    BY DEF Marked, Memory
  <2>2. \/ a = [p EXCEPT !.table[m.name[b]] = b]
        \/ a = m \/ a = p
    BY DEF Shared
  <2> HIDE DEF p
  <2>3. [p EXCEPT !.table[m.name[b]] = b] \in Memory
    BY <2>1 DEF Memory
  <2> QED BY <2>1, <2>2, <2>3
<1> QED BY <1>1, <1>2 DEF Entire

\* What a step adds to the memory m is complete.
Completed(m, a) ==
  /\ \A z \in a.cached : z \in m.cached \cap m.used \/ Entire(a, z)
  /\ \A z \in a.used \ m.used : a.base[z] # NULL => a.base[z] \in a.whole

\* So is what a file is loaded into that needs no base, and it stays in full.
LEMMA BaseLoadedComplete ==
  ASSUME NEW m \in Memory, TableIsCache(m), Complete(m), NEW n \in Names, BaseOf[n] = NULL,
         NEW b \in Blocks, m.table[n] = NULL => b \notin m.used, NEW a \in BaseLoaded(m, n, b)
  PROVE  /\ a \in Memory /\ Completed(m, a)
         /\ Entire(a, LoadedBlock(m, n, b)) /\ a.name[LoadedBlock(m, n, b)] = n
         /\ LoadedBlock(m, n, b) \in Blocks
         /\ m.used \subseteq a.used /\ a.used \subseteq m.used \cup {LoadedBlock(m, n, b)}
<1>0. /\ m.table \in [Names -> Blocks \cup {NULL}] /\ m.cached \subseteq m.used
      /\ m.used \subseteq Blocks
  BY DEF Memory, TableIsCache
<1>1. CASE m.table[n] # NULL
  <2> DEFINE y == m.table[n]
  <2>1. a = AddRef(m, y) /\ LoadedBlock(m, n, b) = y
    BY <1>1 DEF BaseLoaded, LoadedBlock
  <2>2. y \in m.cached /\ m.name[y] = n /\ y \in Blocks
    BY <1>0, <1>1 DEF TableIsCache
  <2>3. /\ a \in Memory /\ a.used = m.used /\ a.cached = m.cached /\ a.name = m.name
        /\ a.base = m.base /\ a.whole = m.whole
    BY <2>1, <2>2 DEF AddRef, Memory
  <2> QED BY <1>0, <2>1, <2>2, <2>3 DEF Completed, Complete, Entire
<1>2. CASE m.table[n] = NULL
  <2> DEFINE p == Created(m, n, b, NULL, TRUE)
  <2>1. a \in Shared(p, b) /\ LoadedBlock(m, n, b) = b
    BY <1>2 DEF BaseLoaded, LoadedBlock
  <2>2. /\ p \in Memory /\ p.used = m.used \cup {b} /\ p.cached = m.cached
        /\ p.name[b] = n /\ p.base[b] = NULL /\ b \in p.whole
    BY DEF Created, Memory
  <2> HIDE DEF p
  <2>3. Entire(p, b)
    BY <2>2 DEF Entire
  <2>4. /\ a.used = p.used /\ a.name = p.name /\ a.base = p.base
        /\ a.cached \subseteq p.cached \cup {b} /\ a \in Memory /\ Entire(a, b)
    BY <2>1, <2>2, <2>3, SharedComplete
  <2> QED BY <1>0, <2>1, <2>2, <2>4 DEF Completed
<1> QED BY <1>1, <1>2

\* Loading shares only complete data, and hands out only such.
LEMMA LoadComplete ==
  ASSUME NEW m \in Memory, TableIsCache(m), Complete(m), NEW n \in Names, NEW test \in BOOLEAN,
         NEW b \in Blocks, NEW spare \in Blocks,
         m.table[n] = NULL => Malloc(m, b, spare), NEW a \in Load(m, n, test, b, spare)
  PROVE  /\ Completed(m, a)
         /\ a.name[LoadedBlock(m, n, b)] = n /\ (test \/ Entire(a, LoadedBlock(m, n, b)))
<1>0. /\ m.table \in [Names -> Blocks \cup {NULL}] /\ m.cached \subseteq m.used
      /\ m.used \subseteq Blocks /\ NULL \notin Blocks
  BY MemoryAssumption DEF Memory, TableIsCache
<1>1. CASE m.table[n] # NULL
  <2> DEFINE y == m.table[n]
  <2>1. a = AddRef(m, y) /\ LoadedBlock(m, n, b) = y
    BY <1>1 DEF Load, BaseLoaded, LoadedBlock
  <2>2. y \in m.cached /\ y \in Blocks /\ m.name[y] = n
    BY <1>0, <1>1 DEF TableIsCache
  <2>3. /\ a.used = m.used /\ a.cached = m.cached /\ a.name = m.name
        /\ a.base = m.base /\ a.whole = m.whole
    BY <2>1, <2>2 DEF AddRef, Memory
  <2> QED BY <1>0, <2>1, <2>2, <2>3 DEF Completed, Complete, Entire
<1>2. CASE m.table[n] = NULL /\ test
  <2>1. a = Created(m, n, b, NULL, FALSE)
    BY <1>2 DEF Load
  <2>2. /\ a.used = m.used \cup {b} /\ a.cached = m.cached /\ a.base[b] = NULL
        /\ a.name[b] = n /\ LoadedBlock(m, n, b) = b
    BY <1>2, <2>1 DEF Created, Memory, LoadedBlock
  <2> QED BY <1>0, <1>2, <2>2 DEF Completed
<1>3. CASE m.table[n] = NULL /\ ~test /\ BaseOf[n] = NULL
  <2>1. a \in BaseLoaded(m, n, b) /\ b \notin m.used
    BY <1>3 DEF Load, Malloc
  <2> QED BY <1>3, <2>1, BaseLoadedComplete
<1>4. CASE m.table[n] = NULL /\ ~test /\ BaseOf[n] # NULL
  <2> DEFINE x == LoadedBlock(m, BaseOf[n], spare)
  <2>1. BaseOf[n] \in Names /\ BaseOf[BaseOf[n]] = NULL /\ b \notin m.used /\ b # spare
        /\ spare \notin m.used
    BY <1>4, FilesAssumption DEF Malloc
  <2>2. LoadedBlock(m, n, b) = b /\ a \in ExtensionLoaded(m, n, b, spare)
    BY <1>4 DEF LoadedBlock, Load
  <2>3. PICK l \in BaseLoaded(m, BaseOf[n], spare) : a \in Shared(Created(l, n, b, x, TRUE), b)
    BY <2>2 DEF ExtensionLoaded
  <2>4. /\ l \in Memory /\ Completed(m, l) /\ Entire(l, x) /\ x \in Blocks
        /\ m.used \subseteq l.used /\ l.used \subseteq m.used \cup {x}
    BY <2>1, BaseLoadedComplete
  <2>5. x # b
    <3>1. x \in m.used \/ x = spare
      BY <1>0, <2>1 DEF LoadedBlock, TableIsCache
    <3> QED BY <2>1, <3>1
  <2> HIDE DEF x
  <2> DEFINE p == Created(l, n, b, x, TRUE)
  <2>6. /\ p \in Memory /\ p.used = l.used \cup {b} /\ p.cached = l.cached
        /\ p.base = [l.base EXCEPT ![b] = x] /\ p.name = [l.name EXCEPT ![b] = n]
        /\ p.whole = l.whole \cup {b}
    BY <2>4 DEF Created, Memory
  <2>7. /\ l.base \in [Blocks -> Blocks \cup {NULL}] /\ l.name \in [Blocks -> Names \cup {NULL}]
        /\ l.used \subseteq Blocks /\ l.cached \subseteq Blocks
    BY <2>4 DEF Memory
  <2> HIDE DEF p
  <2>8. Entire(p, b) /\ p.name[b] = n /\ p.base[b] = x /\ x \in p.whole
    BY <1>0, <2>4, <2>6, <2>7 DEF Entire
  <2>9. \A z \in Blocks \ {b} : Entire(p, z) <=> Entire(l, z)
    BY <2>6, <2>7 DEF Entire
  <2>10. /\ a.used = p.used /\ a.name = p.name /\ a.base = p.base /\ a.whole = p.whole
         /\ a.cached \subseteq p.cached \cup {b} /\ Entire(a, b)
    <3>1. a \in Shared(p, b) /\ p \in Memory /\ Entire(p, b) /\ b \in Blocks
      BY <2>3, <2>6, <2>8 DEF p
    <3> QED BY ONLY <3>1, SharedComplete
  <2>11. ASSUME NEW z \in a.cached PROVE z \in m.cached \cap m.used \/ Entire(a, z)
    <3>1. CASE z = b
      BY <2>10, <3>1
    <3>2. CASE z # b
      <4>1. z \in l.cached /\ z \in Blocks
        BY <2>6, <2>7, <2>10, <3>2
      <4>2. Entire(a, z) <=> Entire(l, z)
        BY <2>9, <2>10, <3>2, <4>1 DEF Entire
      <4> QED BY <2>4, <4>1, <4>2 DEF Completed
    <3> QED BY <3>1, <3>2
  <2>12. ASSUME NEW z \in a.used \ m.used, a.base[z] # NULL PROVE a.base[z] \in a.whole
    <3>1. CASE z = b
      BY <2>8, <2>10, <3>1
    <3>2. CASE z # b
      BY <2>4, <2>6, <2>7, <2>10, <2>12, <3>2 DEF Completed
    <3> QED BY <3>1, <3>2
  <2> QED BY <2>2, <2>8, <2>10, <2>11, <2>12 DEF Completed
<1> QED BY <1>1, <1>2, <1>3, <1>4

\* What a step of t makes of the converters: at most its own changes.
Convertible(c) == c.phase \in {"open", "putting"}

LEMMA OpenedEffect ==
  ASSUME CacheInv, CacheInv', DataKept, NEW t \in Threads, NEW c, Become(t, c)
  PROVE  Opened' = [Opened EXCEPT ![t] = IF Convertible(c) THEN TablesOf(mem', c.held) ELSE {}]
<1>1. call'[t] = c /\ \A u \in Threads \ {t} : call'[u] = call[u]
  BY DEF CacheInv, CacheTypeOK, Become
<1>2. ASSUME NEW u \in Threads \ {t} PROVE TablesOf(mem', call'[u].held) = TablesOf(mem, call[u].held)
  <2>1. PICK held : held = call[u].held
    OBVIOUS
  <2>2. held \subseteq mem.used
    BY <2>1, HeldIsUsed
  <2>3. call'[u].held \subseteq mem'.used
    <3>1. \A b \in call'[u].held : b \in Blocks /\ u \in Holders'[b]
      BY DEF CacheInv, CacheTypeOK, Call, Holders
    <3> QED BY <3>1 DEF CacheInv, Sound, Counted
  <2>4. call'[u].held = held
    BY <1>1, <2>1
  <2>5. TablesOf(mem', held) = TablesOf(mem, held)
    BY <2>2, <2>3, <2>4, TablesKept
  <2> QED BY <2>1, <2>4, <2>5
<1>3. \A u \in Threads : Opened'[u] = IF u = t THEN IF Convertible(c) THEN TablesOf(mem', c.held) ELSE {}
                                     ELSE Opened[u]
  <2>1. Opened'[t] = IF Convertible(c) THEN TablesOf(mem', c.held) ELSE {}
    BY <1>1 DEF Opened, Convertible
  <2>2. \A u \in Threads \ {t} : Opened'[u] = Opened[u]
    BY <1>1, <1>2 DEF Opened
  <2> QED BY <2>1, <2>2
<1> QED BY <1>3 DEF Opened

LEMMA SlotKept ==
  ASSUME CacheInv, CacheInv', DataKept, slot' = slot
  PROVE  TablesOf(mem', slot') = TablesOf(mem, slot)
<1>1. PICK held : held = slot
  OBVIOUS
<1>2. \A b \in slot' : b \in Blocks /\ NULL \in Holders'[b]
  BY DEF CacheInv, CacheTypeOK, Holders
<1>3. held \subseteq mem.used \cap mem'.used
  BY <1>1, <1>2, HeldIsUsed DEF CacheInv, Sound, Counted
<1> QED BY <1>1, <1>3, TablesKept

\* A step of t, which goes on with c, leaves the others what they are converting.
LEMMA WholeKept ==
  ASSUME HandlesInv, CacheInv', DataKept, Complete(mem'), NEW t \in Threads, NEW c, Become(t, c),
         At(t, "open") => Unshared(t), Whole(c)'
  PROVE  HandlesInv'
<1>1. /\ call \in [Threads -> Call] /\ call'[t] = c
      /\ \A u \in Threads \ {t} : call'[u] = call[u]
  BY DEF HandlesInv, CacheInv, CacheTypeOK, Become
<1>2. ASSUME NEW u \in Threads \ {t} PROVE Whole(call[u])'
  <2>1. Whole(call[u]) /\ Ready(call[u])
    BY DEF HandlesInv, CacheInv, CallsOK
  <2>2. ASSUME NEW b \in call[u].held
        PROVE  /\ mem'.name[b] = mem.name[b] /\ mem'.base[b] = mem.base[b]
               /\ b \in mem'.whole <=> b \in mem.whole
    <3>1. b \in mem.used /\ b \in Blocks
      BY HeldIsUsed DEF HandlesInv
    <3>2. u \in Holders'[b]
      BY <1>1, <3>1 DEF Holders
    <3> QED BY <3>1, <3>2 DEF DataKept, CacheInv, Sound, Counted
  <2>3. CASE call[u].phase = "loading" /\ ~call[u].test
    <3>1. {mem'.name[b] : b \in call[u].held} = {mem.name[b] : b \in call[u].held}
      BY <2>2
    <3> QED BY <1>1, <2>1, <2>2, <2>3, <3>1 DEF Whole, Entire
  <2>4. CASE call[u].phase = "cloning"
    <3>1. call[u].peer \in Threads \ {t}
      BY <2>1, <2>4 DEF Ready, Unshared, At
    <3> QED BY <1>1, <2>1, <2>4, <3>1 DEF Whole
  <2>5. CASE ~(call[u].phase = "loading" /\ ~call[u].test) /\ call[u].phase # "cloning"
    BY <1>1, <2>5 DEF Whole
  <2> QED BY <2>3, <2>4, <2>5
<1>3. Whole(call[t])'
  BY <1>1
<1> QED BY <1>2, <1>3 DEF HandlesInv

Simulated ==
  \/ Promise!Next
  \/ Opened' = Opened /\ TablesOf(mem', slot') = TablesOf(mem, slot)

\* The steps that no client of the promise sees.
LEMMA HiddenStep ==
  ASSUME HandlesInv, CacheInv', DataKept, Complete(mem'), NEW t \in Threads, NEW c, Become(t, c),
         ~Convertible(call[t]), ~Convertible(c), slot' = slot, Whole(c)'
  PROVE  HandlesInv' /\ Simulated
<1>1. HandlesInv'
  BY WholeKept DEF Convertible, At
<1>2. Opened' = [Opened EXCEPT ![t] = {}]
  BY OpenedEffect DEF HandlesInv
<1>3. Opened[t] = {} /\ Opened' = Opened
  BY <1>2 DEF Opened, Convertible
<1>4. TablesOf(mem', slot') = TablesOf(mem, slot)
  BY SlotKept DEF HandlesInv
<1> QED BY <1>1, <1>3, <1>4 DEF Simulated

\* A converter is opened.
LEMMA OpeningStep ==
  ASSUME HandlesInv, CacheInv', DataKept, Complete(mem'), NEW t \in Threads, NEW c, Become(t, c),
         ~Convertible(call[t]), c.phase = "open", slot' = slot,
         TablesOf(mem', c.held) \in AllContents
  PROVE  HandlesInv' /\ Simulated
<1>1. HandlesInv'
  BY WholeKept DEF Convertible, At, Whole
<1>2. Opened' = [Opened EXCEPT ![t] = TablesOf(mem', c.held)]
  BY OpenedEffect DEF HandlesInv, Convertible
<1>3. Opened[t] = {}
  BY DEF Opened, Convertible
<1>4. TablesOf(mem', slot') = TablesOf(mem, slot)
  BY SlotKept DEF HandlesInv
<1>5. Promise!Open(t)
  BY <1>2, <1>3, <1>4 DEF Promise!Open
<1> QED BY <1>1, <1>5 DEF Simulated, Promise!Next

\* A converter is closed.
LEMMA ClosingStep ==
  ASSUME HandlesInv, CacheInv', DataKept, Complete(mem'), NEW t \in Threads, NEW c, Become(t, c),
         Convertible(call[t]), At(t, "open") => Unshared(t), c.phase = "closing", slot' = slot
  PROVE  HandlesInv' /\ Simulated
<1>1. HandlesInv'
  BY WholeKept DEF Whole
<1>2. Opened' = [Opened EXCEPT ![t] = {}]
  BY OpenedEffect DEF HandlesInv, Convertible
<1>3. Opened[t] # {}
  <2>1. call[t].held # {}
    BY DEF HandlesInv, CacheInv, CallsOK, Ready, Convertible
  <2> QED BY <2>1, TablesOfSome DEF Opened, Convertible
<1>4. TablesOf(mem', slot') = TablesOf(mem, slot)
  BY SlotKept DEF HandlesInv
<1>5. Promise!Close(t)
  BY <1>2, <1>3, <1>4 DEF Promise!Close
<1> QED BY <1>1, <1>5 DEF Simulated, Promise!Next

\* The data of old blocks stays what it is, and what is new is complete.
LEMMA CompleteKept ==
  ASSUME HandlesInv, CacheInv', DataKept, Completed(mem, mem')
  PROVE  Complete(mem')
<1>1. /\ mem'.cached \subseteq mem'.used /\ Complete(mem)
      /\ BlocksLinked(mem) /\ BlocksLinked(mem')
  BY DEF HandlesInv, CacheInv, Sound, TableIsCache
<1>2. ASSUME NEW b \in mem'.cached PROVE Entire(mem', b)
  <2>1. CASE b \in mem.cached /\ b \in mem.used
    BY <1>1, <2>1 DEF DataKept, Complete, Entire
  <2> QED BY <2>1 DEF Completed
<1>3. ASSUME NEW b \in mem'.used, mem'.base[b] # NULL PROVE mem'.base[b] \in mem'.whole
  <2>1. CASE b \in mem.used
    <3>1. mem'.base[b] = mem.base[b] /\ mem.base[b] \in mem.whole
      BY <1>1, <1>3, <2>1 DEF DataKept, Complete
    <3>2. mem.base[b] \in mem.used /\ mem.base[b] \in mem'.used
      BY <1>1, <1>3, <2>1, <3>1 DEF BlocksLinked
    <3> QED BY <3>1, <3>2 DEF DataKept
  <2>2. CASE b \notin mem.used
    BY <1>3, <2>2 DEF Completed
  <2> QED BY <2>1, <2>2
<1> QED BY <1>2, <1>3 DEF Complete

\* Steps that load nothing.
LEMMA NothingLoaded ==
  ASSUME HandlesInv, CacheInv', DataKept, mem'.cached \subseteq mem.cached,
         mem'.used \subseteq mem.used
  PROVE  Complete(mem')
<1>1. mem.cached \subseteq mem.used
  BY DEF HandlesInv, CacheInv, Sound, TableIsCache
<1>2. Completed(mem, mem')
  BY <1>1 DEF Completed
<1> QED BY <1>2, CompleteKept

LEMMA LoadPartSim ==
  ASSUME HandlesInv, NEW t \in Threads, LoadPart(t)
  PROVE  HandlesInv' /\ Simulated
<1>0. CacheInv' /\ DataKept
  BY LoadPartStep DEF HandlesInv
<1>1. PICK n \in call[t].todo, b \in Blocks, spare \in Blocks :
        /\ mem.table[n] = NULL => Malloc(mem, b, spare)
        /\ mem' \in Load(mem, n, call[t].test, b, spare)
        /\ LET held == call[t].held \cup {LoadedBlock(mem, n, b)}
           IN  IF call[t].todo # {n}
               THEN Become(t, [call[t] EXCEPT !.todo = @ \ {n}, !.held = held])
               ELSE \E phase \in {"open", "closing"} :
                      /\ call[t].test => phase = "closing"
                      /\ Become(t, GivenUp(phase, held))
  BY DEF LoadPart
<1>2. At(t, "loading") /\ UNCHANGED <<slot, mutex, sweep>>
  BY DEF LoadPart
<1>3. /\ call[t] \in Call /\ call[t].test \in BOOLEAN /\ call[t].held \in SUBSET Blocks
      /\ Sound(mem, Holders, {}) /\ mem \in Memory /\ TableIsCache(mem)
      /\ call \in [Threads -> Call]
  BY DEF HandlesInv, CacheInv, CacheTypeOK, Call, Sound
<1>4. /\ call[t].todo \subseteq Names /\ n \in Names
      /\ \A y \in call[t].held : mem.name[y] \notin call[t].todo
  BY <1>1, <1>2 DEF HandlesInv, CacheInv, CallsOK, Ready, At
<1> DEFINE y == LoadedBlock(mem, n, b)
           held == call[t].held \cup {y}
<1>5. /\ Complete(mem') /\ mem'.name[y] = n
      /\ call[t].test \/ Entire(mem', y)
  <2>1. Complete(mem)
    BY DEF HandlesInv
  <2>2. Completed(mem, mem') /\ mem'.name[y] = n /\ (call[t].test \/ Entire(mem', y))
    BY <1>1, <1>3, <1>4, <2>1, LoadComplete
  <2> QED BY <1>0, <2>2, CompleteKept
<1>6. y \in Blocks
  BY <1>3, <1>4 DEF LoadedBlock, Memory
<1> HIDE DEF y
<1>7. PICK c : /\ Become(t, c) /\ c.held = held
               /\ \/ /\ c.phase = "loading" /\ c.test = call[t].test
                     /\ c.todo = call[t].todo \ {n}
                  \/ c.phase = "closing"
                  \/ c.phase = "open" /\ call[t].todo = {n} /\ ~call[t].test
  <2>1. CASE call[t].todo # {n}
    <3> DEFINE c == [call[t] EXCEPT !.todo = @ \ {n}, !.held = held]
    <3>1. /\ c.held = held /\ c.phase = "loading" /\ c.todo = call[t].todo \ {n}
          /\ c.test = call[t].test
      BY <1>2, <1>3 DEF Call, At
    <3>2. Become(t, c)
      BY <1>1, <2>1 DEF y
    <3> HIDE DEF c
    <3> QED BY <3>1, <3>2
  <2>2. CASE call[t].todo = {n}
    <3>1. PICK phase \in {"open", "closing"} :
            (call[t].test => phase = "closing") /\ Become(t, GivenUp(phase, held))
      BY <1>1, <2>2 DEF y
    <3>2. GivenUp(phase, held).held = held /\ GivenUp(phase, held).phase = phase
      BY <1>3, <1>6, GivenUpCall
    <3> QED BY <2>2, <3>1, <3>2
  <2> QED BY <2>1, <2>2
<1>8. /\ call'[t] = c /\ c.held \subseteq mem'.used
      /\ mem' \in Memory /\ BlocksLinked(mem')
  <2>1. call'[t] = c
    BY <1>3, <1>7 DEF Become
  <2>2. \A z \in c.held : z \in Blocks /\ t \in Holders'[z]
    BY <1>3, <1>6, <1>7, <2>1 DEF Holders
  <2> QED BY <1>0, <2>1, <2>2 DEF CacheInv, Sound, Counted
<1>9. \A z \in call[t].held : /\ mem'.name[z] = mem.name[z] /\ mem'.base[z] = mem.base[z]
                              /\ z \in mem'.whole <=> z \in mem.whole
  BY <1>0, <1>7, <1>8, HeldIsUsed DEF DataKept, HandlesInv
<1>10. ASSUME ~call[t].test
       PROVE  /\ \A z \in c.held : Entire(mem', z)
              /\ \E k \in Converters :
                   PartsOf[k] = {mem'.name[z] : z \in c.held} \cup (call[t].todo \ {n})
  <2>1. /\ \A z \in call[t].held : Entire(mem, z)
        /\ \E k \in Converters :
             PartsOf[k] = {mem.name[z] : z \in call[t].held} \cup call[t].todo
    BY <1>2, <1>10 DEF HandlesInv, Whole, At
  <2>2. {mem'.name[z] : z \in c.held} = {mem.name[z] : z \in call[t].held} \cup {n}
    BY <1>5, <1>7, <1>9
  <2>3. \A z \in c.held : Entire(mem', z)
    BY <1>5, <1>7, <1>9, <1>10, <2>1 DEF Entire
  <2> QED BY <2>1, <2>2, <2>3
<1>11. CASE c.phase = "loading"
  <2>1. Whole(c)'
    BY <1>7, <1>10, <1>11 DEF Whole
  <2> QED BY <1>0, <1>2, <1>5, <1>7, <1>11, <2>1, HiddenStep DEF Convertible, At
<1>12. CASE c.phase = "closing"
  <2>1. Whole(c)'
    BY <1>12 DEF Whole
  <2> QED BY <1>0, <1>2, <1>5, <1>7, <1>12, <2>1, HiddenStep DEF Convertible, At
<1>13. CASE c.phase = "open" /\ call[t].todo = {n} /\ ~call[t].test
  <2>1. PICK k \in Converters : PartsOf[k] = {mem'.name[z] : z \in c.held}
    BY <1>10, <1>13
  <2>2. TablesOf(mem', c.held) = TablesFor({mem'.name[z] : z \in c.held})
    BY <1>5, <1>8, <1>10, <1>13, TablesAsAsked
  <2>3. TablesOf(mem', c.held) \in AllContents
    BY <2>1, <2>2 DEF AllContents
  <2> QED BY <1>0, <1>2, <1>5, <1>7, <1>13, <2>3, OpeningStep DEF Convertible, At
<1> QED BY <1>7, <1>11, <1>12, <1>13

LEMMA LoadFailsSim ==
  ASSUME HandlesInv, NEW t \in Threads, LoadFails(t)
  PROVE  HandlesInv' /\ Simulated
<1>0. CacheInv' /\ DataKept
  BY LoadFailsStep DEF HandlesInv
<1>c. PICK c : c = GivenUp("closing", call[t].held)
  OBVIOUS
<1>1. At(t, "loading") /\ Become(t, c) /\ UNCHANGED slot
  BY <1>c DEF LoadFails
<1>2. call[t].held \in SUBSET Blocks /\ mem \in Memory /\ TableIsCache(mem)
  BY DEF HandlesInv, CacheInv, CacheTypeOK, Call, Sound
<1>3. c.phase \in {"closing", "idle", "flushing"}
  BY <1>c, <1>2, GivenUpCall
<1>4. Complete(mem')
  <2>1. CASE UNCHANGED mem
    BY <2>1 DEF HandlesInv
  <2>2. CASE ~UNCHANGED mem
    <3>1. PICK n \in call[t].todo, spare \in Blocks \ mem.used :
            /\ BaseOf[n] # NULL
            /\ \E l \in BaseLoaded(mem, BaseOf[n], spare) :
                 mem' = Unload(l, LoadedBlock(mem, BaseOf[n], spare))
      BY <2>2 DEF LoadFails
    <3>2. n \in Names
      BY <1>1 DEF HandlesInv, CacheInv, CallsOK, Ready, At
    <3>3. BaseOf[n] \in Names /\ BaseOf[BaseOf[n]] = NULL
      BY <3>1, <3>2, FilesAssumption
    <3>4. /\ \A z \in mem'.used \ mem.used :
               mem'.base[z] = NULL /\ z \in mem'.whole /\ mem'.name[z] = BaseOf[n]
          /\ mem'.cached \subseteq mem.cached \cup (mem'.used \ mem.used)
      BY <3>1, <3>3, HoldersExternal, BaseLetGoSound DEF HandlesInv, CacheInv
    <3>5. mem.cached \subseteq mem.used
      BY <1>2 DEF TableIsCache
    <3>6. Completed(mem, mem')
      BY <3>3, <3>4, <3>5 DEF Completed, Entire
    <3> QED BY <1>0, <3>6, CompleteKept
  <2> QED BY <2>1, <2>2
<1>5. Whole(c)'
  BY <1>3 DEF Whole
<1> QED BY <1>0, <1>1, <1>3, <1>4, <1>5, HiddenStep DEF Convertible, At

LEMMA OpenPackageSim ==
  ASSUME HandlesInv, NEW t \in Threads, NEW n \in Names, OpenPackage(t, n)
  PROVE  HandlesInv' /\ Simulated
<1>0. CacheInv' /\ DataKept
  BY OpenPackageStep DEF HandlesInv
<1>1. PICK b \in Blocks, spare \in Blocks, phase \in {"open", "closing"} :
        /\ Malloc(mem, b, spare)
        /\ mem' = Packaged(mem, n, b, spare)
        /\ Become(t, GivenUp(phase, {b}))
  BY DEF OpenPackage
<1>2. At(t, "idle") /\ UNCHANGED slot
  BY DEF OpenPackage
<1>3. mem \in Memory /\ b # NULL /\ spare # NULL /\ b # spare /\ mem.used \subseteq Blocks
      /\ mem.cached \subseteq mem.used
  BY <1>1, MemoryAssumption DEF HandlesInv, CacheInv, CacheTypeOK, Malloc, Memory, Sound, TableIsCache
<1>4. /\ b \in mem'.used /\ mem'.name[b] = n /\ mem'.cached = mem.cached
      /\ Entire(mem', b)
      /\ \A z \in mem'.used \ mem.used : mem'.base[z] # NULL => mem'.base[z] \in mem'.whole
  <2>1. CASE BaseOf[n] = NULL
    <3>1. mem' = Created(mem, n, b, NULL, TRUE)
      BY <1>1, <2>1 DEF Packaged
    <3>2. /\ mem'.used = mem.used \cup {b} /\ mem'.name[b] = n /\ mem'.cached = mem.cached
          /\ mem'.base[b] = NULL /\ b \in mem'.whole
      BY <1>3, <3>1 DEF Created, Memory
    <3> QED BY <2>1, <3>2 DEF Entire
  <2>2. CASE BaseOf[n] # NULL
    <3> DEFINE l == Created(mem, BaseOf[n], spare, NULL, TRUE)
    <3>1. BaseOf[n] \in Names
      BY <2>2, FilesAssumption
    <3>2. /\ l \in Memory /\ l.cached = mem.cached /\ l.used = mem.used \cup {spare}
          /\ l.base[spare] = NULL /\ spare \in l.whole
      BY <1>3, <3>1 DEF Created, Memory
    <3>3. mem' = Created(l, n, b, spare, TRUE)
      BY <1>1, <2>2 DEF Packaged
    <3> HIDE DEF l
    <3>4. /\ mem'.used = l.used \cup {b} /\ mem'.name[b] = n /\ mem'.cached = l.cached
          /\ mem'.base[b] = spare /\ mem'.base[spare] = NULL
          /\ b \in mem'.whole /\ spare \in mem'.whole
      BY <1>3, <3>2, <3>3 DEF Created, Memory
    <3> QED BY <1>3, <3>2, <3>4 DEF Entire
  <2> QED BY <2>1, <2>2
<1>5. Complete(mem')
  <2>1. Completed(mem, mem')
    BY <1>3, <1>4 DEF Completed
  <2> QED BY <1>0, <2>1, CompleteKept
<1>c. PICK c : c = GivenUp(phase, {b})
  OBVIOUS
<1>6. c.held = {b} /\ c.phase = phase
  BY <1>c, GivenUpCall
<1>7. CASE phase = "closing"
  <2>1. Whole(c)'
    BY <1>6, <1>7 DEF Whole
  <2> QED BY <1>0, <1>1, <1>2, <1>5, <1>6, <1>7, <1>c, <2>1, HiddenStep DEF Convertible, At
<1>8. CASE phase = "open"
  <2>1. TablesOf(mem', {b}) = TablesFor({mem'.name[z] : z \in {b}})
    BY <1>0, <1>4, <1>5, TablesAsAsked DEF CacheInv, Sound
  <2>2. {mem'.name[z] : z \in {b}} = {n}
    BY <1>4
  <2>3. TablesOf(mem', c.held) \in AllContents
    BY <1>6, <2>1, <2>2 DEF AllContents
  <2> QED BY <1>0, <1>1, <1>2, <1>5, <1>6, <1>8, <1>c, <2>3, OpeningStep DEF Convertible, At
<1> QED BY <1>7, <1>8

\* The steps that leave the blocks alone.
LEMMA SameData ==
  ASSUME HandlesInv, UNCHANGED mem
  PROVE  DataKept /\ Complete(mem')
BY DEF DataKept, HandlesInv

LEMMA CloneSim ==
  ASSUME HandlesInv, NEW t \in Threads, NEW peer \in Threads, Clone(t, peer)
  PROVE  HandlesInv' /\ Simulated
<1>c. PICK c : c = [Idle EXCEPT !.phase = "cloning", !.todo = call[peer].held, !.peer = peer]
  OBVIOUS
<1>1. /\ At(t, "idle") /\ At(peer, "open") /\ Become(t, c)
      /\ UNCHANGED <<mem, slot, mutex, sweep>>
  BY <1>c DEF Clone
<1>2. CacheInv' /\ DataKept /\ Complete(mem')
  BY <1>1, CloneStep, SameData DEF HandlesInv
<1>3. c.phase = "cloning" /\ c.held \cup c.todo = call[peer].held /\ c.peer = peer
  BY <1>c DEF Idle
<1>4. call'[peer] = call[peer]
  BY <1>1 DEF HandlesInv, CacheInv, CacheTypeOK, Become, At
<1>5. Whole(c)'
  BY <1>3, <1>4 DEF Whole
<1> QED BY <1>1, <1>2, <1>3, <1>5, HiddenStep DEF Convertible, At

LEMMA CountPartSim ==
  ASSUME HandlesInv, NEW t \in Threads, CountPart(t)
  PROVE  HandlesInv' /\ Simulated
<1>0. CacheInv' /\ DataKept
  BY CountPartStep DEF HandlesInv
<1>1. PICK b \in call[t].todo :
        /\ mem' = AddRef(mem, b)
        /\ LET held == call[t].held \cup {b}
           IN  Become(t, IF call[t].todo = {b} THEN Having("open", held)
                         ELSE [call[t] EXCEPT !.todo = @ \ {b}, !.held = held])
  BY DEF CountPart
<1>2. At(t, "cloning") /\ UNCHANGED slot
  BY DEF CountPart
<1>3. /\ call[t] \in Call /\ mem \in Memory /\ call \in [Threads -> Call]
  BY DEF HandlesInv, CacheInv, CacheTypeOK
<1> DEFINE peer == call[t].peer
<1>4. /\ peer \in Threads /\ At(peer, "open") /\ peer # t
      /\ call[t].held \cup call[t].todo = call[peer].held
  BY <1>2 DEF HandlesInv, CacheInv, CallsOK, Ready, Whole, At
<1>5. /\ mem'.cached = mem.cached /\ mem'.name = mem.name /\ mem'.base = mem.base
      /\ mem'.used = mem.used /\ mem'.whole = mem.whole
  BY <1>1, <1>3 DEF AddRef, Memory
<1>6. Complete(mem')
  BY <1>0, <1>5, NothingLoaded
<1>7. CASE call[t].todo = {b}
  <2>c. PICK c : c = Having("open", call[t].held \cup {b})
    OBVIOUS
  <2>1. Become(t, c) /\ c.phase = "open" /\ c.held = call[peer].held
    BY <1>1, <1>4, <1>7, <2>c DEF Having, Idle
  <2>2. Opened[t] = {} /\ Opened[peer] = TablesOf(mem, c.held)
    BY <1>2, <1>4, <2>1 DEF Opened, At
  <2>3. TablesOf(mem', c.held) = TablesOf(mem, c.held)
    BY <1>5 DEF TablesOf
  <2>4. Opened' = [Opened EXCEPT ![t] = Opened[peer]]
    BY <1>0, <2>1, <2>2, <2>3, OpenedEffect DEF HandlesInv, Convertible
  <2>5. Opened[peer] # {}
    <3>1. call[peer].held # {}
      BY <1>4 DEF HandlesInv, CacheInv, CallsOK, Ready, At
    <3> QED BY <2>1, <2>2, <3>1, TablesOfSome
  <2>6. TablesOf(mem', slot') = TablesOf(mem, slot)
    BY <1>2, <1>5 DEF TablesOf
  <2>7. Promise!Clone(t, peer)
    BY <2>2, <2>4, <2>5, <2>6 DEF Promise!Clone
  <2>8. HandlesInv'
    BY <1>0, <1>2, <1>6, <2>1, WholeKept DEF Whole, At
  <2> QED BY <1>4, <2>7, <2>8 DEF Simulated, Promise!Next
<1>8. CASE call[t].todo # {b}
  <2>c. PICK c : c = [call[t] EXCEPT !.todo = @ \ {b}, !.held = call[t].held \cup {b}]
    OBVIOUS
  <2>1. /\ Become(t, c) /\ c.phase = "cloning" /\ c.peer = peer
        /\ c.held \cup c.todo = call[peer].held
    BY <1>1, <1>2, <1>3, <1>4, <1>8, <2>c DEF Call, At
  <2>2. call'[peer] = call[peer]
    BY <1>3, <1>4, <2>1 DEF Become
  <2>3. Whole(c)'
    BY <2>1, <2>2 DEF Whole
  <2> QED BY <1>0, <1>2, <1>6, <2>1, <2>3, HiddenStep DEF Convertible, At
<1> QED BY <1>7, <1>8

LEMMA UnloadPartSim ==
  ASSUME HandlesInv, NEW t \in Threads, UnloadPart(t)
  PROVE  HandlesInv' /\ Simulated
<1>0. CacheInv' /\ DataKept
  BY UnloadPartStep DEF HandlesInv
<1>1. PICK b \in call[t].held :
        mem' = Unload(mem, b) /\ Become(t, GivenUp(call[t].phase, call[t].held \ {b}))
  BY DEF UnloadPart
<1>2. call[t].phase \in {"closing", "emptying"} /\ UNCHANGED slot
  BY DEF UnloadPart, At
<1>3. /\ call[t].held \in SUBSET Blocks /\ b \in Blocks /\ t \in Holders[b]
      /\ Sound(mem, Holders, {})
  BY DEF HandlesInv, CacheInv, CacheTypeOK, Call, Holders
<1>4. SameBut(mem, mem', {b, mem.base[b]})
  BY <1>1, <1>3, HoldersExternal, UnloadSound
<1>5. Complete(mem')
  BY <1>0, <1>4, NothingLoaded DEF SameBut
<1>c. PICK c : c = GivenUp(call[t].phase, call[t].held \ {b})
  OBVIOUS
<1>6. c.phase \in {"closing", "emptying", "idle", "flushing"}
  BY <1>c, <1>2, <1>3, GivenUpCall
<1>7. Whole(c)'
  BY <1>6 DEF Whole
<1> QED BY <1>0, <1>1, <1>2, <1>5, <1>6, <1>7, <1>c, HiddenStep DEF Convertible

LEMMA OpenSim ==
  ASSUME HandlesInv, NEW t \in Threads, NEW k \in Converters, NEW test \in BOOLEAN, Open(t, k, test)
  PROVE  HandlesInv' /\ Simulated
<1>c. PICK c : c = Loading(k, test)
  OBVIOUS
<1>1. At(t, "idle") /\ Become(t, c) /\ UNCHANGED <<mem, slot>>
  BY <1>c DEF Open
<1>2. CacheInv' /\ DataKept /\ Complete(mem')
  BY <1>1, OpenStep, SameData DEF HandlesInv
<1>3. c.phase = "loading" /\ c.held = {} /\ c.todo = PartsOf[k]
  BY <1>c DEF Loading, Idle
<1>4. Whole(c)'
  BY <1>3 DEF Whole
<1> QED BY <1>1, <1>2, <1>3, <1>4, HiddenStep DEF Convertible, At

\* What a thread becomes that loads the default converter.
LEMMA LoadingDefault ==
  ASSUME NEW c, c = Loading(Default, FALSE)
  PROVE  Whole(c)' /\ c.phase = "loading" /\ c.held = {}
<1>1. c.phase = "loading" /\ c.held = {} /\ c.todo = PartsOf[Default]
  BY DEF Loading, Idle
<1> QED BY <1>1, FilesAssumption DEF Whole

LEMMA GetDefaultSim ==
  ASSUME HandlesInv, NEW t \in Threads, GetDefault(t)
  PROVE  HandlesInv' /\ Simulated
<1>c. PICK c : c = IF slot = {} THEN Loading(Default, FALSE) ELSE [Idle EXCEPT !.phase = "getting"]
  OBVIOUS
<1>1. At(t, "idle") /\ Become(t, c) /\ UNCHANGED <<mem, slot>>
  BY <1>c DEF GetDefault
<1>2. CacheInv' /\ DataKept /\ Complete(mem')
  BY <1>1, GetDefaultStep, SameData DEF HandlesInv
<1>3. CASE slot = {}
  BY <1>1, <1>2, <1>3, <1>c, LoadingDefault, HiddenStep DEF Convertible, At
<1>4. CASE slot # {}
  <2>1. c.phase = "getting" /\ Whole(c)'
    BY <1>4, <1>c DEF Idle, Whole
  <2> QED BY <1>1, <1>2, <2>1, HiddenStep DEF Convertible, At
<1> QED BY <1>3, <1>4

LEMMA TakeDefaultSim ==
  ASSUME HandlesInv, NEW t \in Threads, TakeDefault(t)
  PROVE  HandlesInv' /\ Simulated
<1>c. PICK c : c = IF slot = {} THEN Loading(Default, FALSE) ELSE Having("open", slot)
  OBVIOUS
<1>1. At(t, "getting") /\ Become(t, c) /\ slot' = {} /\ UNCHANGED mem
  BY <1>c DEF TakeDefault
<1>2. CacheInv' /\ DataKept /\ Complete(mem')
  BY <1>1, TakeDefaultStep, SameData DEF HandlesInv
<1>3. CASE slot = {}
  BY <1>1, <1>2, <1>3, <1>c, LoadingDefault, HiddenStep DEF Convertible, At
<1>4. CASE slot # {}
  <2>1. c.phase = "open" /\ c.held = slot /\ Whole(c)'
    BY <1>4, <1>c DEF Having, Idle, Whole
  <2>2. HandlesInv'
    BY <1>1, <1>2, <2>1, WholeKept DEF At
  <2>3. Opened[t] = {}
    BY <1>1 DEF Opened, At
  <2>4. Opened' = [Opened EXCEPT ![t] = TablesOf(mem, slot)]
    BY <1>1, <1>2, <2>1, OpenedEffect DEF Convertible, HandlesInv
  <2>5. TablesOf(mem, slot) # {} /\ TablesOf(mem', slot') = {}
    BY <1>1, <1>4 DEF TablesOf
  <2>6. Promise!Take(t)
    BY <2>3, <2>4, <2>5 DEF Promise!Take
  <2> QED BY <2>2, <2>6 DEF Simulated, Promise!Next
<1> QED BY <1>3, <1>4

LEMMA CloseSim ==
  ASSUME HandlesInv, NEW t \in Threads, Close(t)
  PROVE  HandlesInv' /\ Simulated
<1>c. PICK c : c = GivenUp("closing", call[t].held)
  OBVIOUS
<1>1. At(t, "open") /\ Unshared(t) /\ Become(t, c) /\ UNCHANGED <<mem, slot>>
  BY <1>c DEF Close
<1>2. CacheInv' /\ DataKept /\ Complete(mem')
  BY <1>1, CloseStep, SameData DEF HandlesInv
<1>3. c.phase = "closing"
  <2>1. call[t].held # {}
    BY <1>1 DEF HandlesInv, CacheInv, CallsOK, Ready, At
  <2> QED BY <1>c, <2>1 DEF GivenUp, Having, Idle
<1> QED BY <1>1, <1>2, <1>3, ClosingStep DEF Convertible, At

LEMMA ReleaseDefaultSim ==
  ASSUME HandlesInv, NEW t \in Threads, ReleaseDefault(t)
  PROVE  HandlesInv' /\ Simulated
<1>c. PICK c : c = IF slot = {} THEN Having("putting", call[t].held)
                   ELSE GivenUp("closing", call[t].held)
  OBVIOUS
<1>1. At(t, "open") /\ Unshared(t) /\ Become(t, c) /\ UNCHANGED <<mem, slot>>
  BY <1>c DEF ReleaseDefault
<1>2. CacheInv' /\ DataKept /\ Complete(mem')
  BY <1>1, ReleaseDefaultStep, SameData DEF HandlesInv
<1>3. call[t].held # {}
  BY <1>1 DEF HandlesInv, CacheInv, CallsOK, Ready, At
<1>4. CASE slot # {}
  <2>1. c.phase = "closing"
    BY <1>3, <1>4, <1>c DEF GivenUp, Having, Idle
  <2> QED BY <1>1, <1>2, <2>1, ClosingStep DEF Convertible, At
<1>5. CASE slot = {}
  <2>1. c.phase = "putting" /\ c.held = call[t].held /\ Whole(c)'
    BY <1>5, <1>c DEF Having, Idle, Whole
  <2>2. HandlesInv'
    BY <1>1, <1>2, <2>1, WholeKept
  <2>3. Opened' = [Opened EXCEPT ![t] = TablesOf(mem, call[t].held)]
    BY <1>1, <1>2, <2>1, OpenedEffect DEF Convertible, HandlesInv
  <2>4. Opened' = Opened
    BY <1>1, <2>3 DEF Opened, At
  <2> QED BY <1>1, <2>2, <2>4 DEF Simulated
<1> QED BY <1>4, <1>5

LEMMA PutDefaultSim ==
  ASSUME HandlesInv, NEW t \in Threads, PutDefault(t)
  PROVE  HandlesInv' /\ Simulated
<1>c. PICK c : c = IF slot = {} THEN Idle ELSE GivenUp("closing", call[t].held)
  OBVIOUS
<1>1. /\ At(t, "putting") /\ Become(t, c) /\ UNCHANGED mem
      /\ slot' = IF slot = {} THEN call[t].held ELSE slot
  BY <1>c DEF PutDefault
<1>2. CacheInv' /\ DataKept /\ Complete(mem')
  BY <1>1, PutDefaultStep, SameData DEF HandlesInv
<1>3. call[t].held # {}
  BY <1>1 DEF HandlesInv, CacheInv, CallsOK, Ready, At
<1>4. CASE slot # {}
  <2>1. c.phase = "closing" /\ slot' = slot
    BY <1>1, <1>3, <1>4, <1>c DEF GivenUp, Having, Idle
  <2> QED BY <1>1, <1>2, <2>1, ClosingStep DEF Convertible, At
<1>5. CASE slot = {}
  <2>1. c.phase = "idle" /\ Whole(c)'
    BY <1>5, <1>c DEF Idle, Whole
  <2>2. HandlesInv'
    BY <1>1, <1>2, <2>1, WholeKept DEF At
  <2>3. Opened' = [Opened EXCEPT ![t] = {}]
    BY <1>1, <1>2, <2>1, OpenedEffect DEF Convertible, HandlesInv
  <2>4. Opened[t] = TablesOf(mem, call[t].held) /\ Opened[t] # {}
    BY <1>1, <1>3, TablesOfSome DEF Opened, At
  <2>5. TablesOf(mem', slot') = Opened[t] /\ TablesOf(mem, slot) = {}
    BY <1>1, <1>5, <2>4 DEF TablesOf
  <2>6. Promise!GiveBack(t)
    BY <2>3, <2>4, <2>5 DEF Promise!GiveBack
  <2> QED BY <2>2, <2>6 DEF Simulated, Promise!Next
<1> QED BY <1>4, <1>5

LEMMA FlushCacheSim ==
  ASSUME HandlesInv, NEW t \in Threads, FlushCache(t)
  PROVE  HandlesInv' /\ Simulated
<1>c. PICK c : c = [Idle EXCEPT !.phase = IF slot = {} THEN "flushing" ELSE "draining"]
  OBVIOUS
<1>1. At(t, "idle") /\ Become(t, c) /\ UNCHANGED <<mem, slot>>
  BY <1>c DEF FlushCache
<1>2. CacheInv' /\ DataKept /\ Complete(mem')
  BY <1>1, FlushCacheStep, SameData DEF HandlesInv
<1>3. c.phase \in {"flushing", "draining"}
  BY <1>c DEF Idle
<1>4. Whole(c)'
  BY <1>3 DEF Whole
<1> QED BY <1>1, <1>2, <1>3, <1>4, HiddenStep DEF Convertible, At

LEMMA DrainDefaultSim ==
  ASSUME HandlesInv, NEW t \in Threads, DrainDefault(t)
  PROVE  HandlesInv' /\ Simulated
<1>c. PICK c : c = IF slot = {} THEN [Idle EXCEPT !.phase = "flushing"] ELSE GivenUp("emptying", slot)
  OBVIOUS
<1>1. At(t, "draining") /\ Become(t, c) /\ slot' = {} /\ UNCHANGED mem
  BY <1>c DEF DrainDefault
<1>2. CacheInv' /\ DataKept /\ Complete(mem')
  BY <1>1, DrainDefaultStep, SameData DEF HandlesInv
<1>3. c.phase \in {"flushing", "emptying"}
  BY <1>c DEF GivenUp, Having, Idle
<1>4. Whole(c)'
  BY <1>3 DEF Whole
<1>5. CASE slot = {}
  BY <1>1, <1>2, <1>3, <1>4, <1>5, HiddenStep DEF Convertible, At
<1>6. CASE slot # {}
  <2>1. HandlesInv'
    BY <1>1, <1>2, <1>4, WholeKept DEF At
  <2>2. Opened' = [Opened EXCEPT ![t] = {}]
    BY <1>1, <1>2, <1>3, OpenedEffect DEF Convertible, HandlesInv
  <2>3. Opened' = Opened
    BY <1>1, <2>2 DEF Opened, At
  <2>4. TablesOf(mem, slot) # {} /\ TablesOf(mem', slot') = {}
    BY <1>1, <1>6 DEF TablesOf
  <2>5. Promise!Discard
    BY <2>3, <2>4 DEF Promise!Discard
  <2> QED BY <2>1, <2>5 DEF Simulated, Promise!Next
<1> QED BY <1>5, <1>6

LEMMA FlushNothingSim ==
  ASSUME HandlesInv, NEW t \in Threads, FlushNothing(t)
  PROVE  HandlesInv' /\ Simulated
<1>1. At(t, "flushing") /\ Become(t, Idle) /\ UNCHANGED <<mem, slot>>
  BY DEF FlushNothing
<1>2. CacheInv' /\ DataKept /\ Complete(mem')
  BY <1>1, FlushNothingStep, SameData DEF HandlesInv
<1>3. Idle.phase = "idle" /\ Whole(Idle)'
  BY DEF Idle, Whole
<1> QED BY <1>1, <1>2, <1>3, HiddenStep DEF Convertible, At

LEMMA SweepBeginSim ==
  ASSUME HandlesInv, NEW t \in Threads, SweepBegin(t)
  PROVE  HandlesInv' /\ Simulated
<1>c. PICK c : c = [Idle EXCEPT !.phase = "sweeping"]
  OBVIOUS
<1>1. At(t, "flushing") /\ Become(t, c) /\ UNCHANGED <<mem, slot>>
  BY <1>c DEF SweepBegin
<1>2. CacheInv' /\ DataKept /\ Complete(mem')
  BY <1>1, SweepBeginStep, SameData DEF HandlesInv
<1>3. c.phase = "sweeping" /\ Whole(c)'
  BY <1>c DEF Idle, Whole
<1> QED BY <1>1, <1>2, <1>3, HiddenStep DEF Convertible, At

LEMMA SweepEndSim ==
  ASSUME HandlesInv, NEW t \in Threads, SweepEnd(t)
  PROVE  HandlesInv' /\ Simulated
<1>1. At(t, "sweeping") /\ Become(t, Idle) /\ UNCHANGED <<mem, slot>>
  BY DEF SweepEnd
<1>2. CacheInv' /\ DataKept /\ Complete(mem')
  BY <1>1, SweepEndStep, SameData DEF HandlesInv
<1>3. Idle.phase = "idle" /\ Whole(Idle)'
  BY DEF Idle, Whole
<1> QED BY <1>1, <1>2, <1>3, HiddenStep DEF Convertible, At

\* The loop of a flush, and steps that change nothing.
LEMMA SweepSim ==
  ASSUME HandlesInv, CacheInv', DataKept, mem'.cached \subseteq mem.cached,
         mem'.used \subseteq mem.used, UNCHANGED <<call, slot>>
  PROVE  HandlesInv' /\ Simulated
<1>1. Complete(mem')
  BY NothingLoaded
<1>2. ASSUME NEW u \in Threads
      PROVE  /\ Whole(call[u])'
             /\ TablesOf(mem', call'[u].held) = TablesOf(mem, call[u].held)
  <2>1. Whole(call[u])
    BY DEF HandlesInv
  <2>2. \A b \in call[u].held : b \in mem.used /\ b \in mem'.used
    <3>1. Holders' = Holders
      BY DEF Holders
    <3>2. \A b \in call[u].held : b \in Blocks /\ u \in Holders[b] /\ b \in mem.used
      BY HeldIsUsed DEF HandlesInv, Holders
    <3> QED BY <3>1, <3>2 DEF CacheInv, Sound, Counted
  <2>3. \A b \in call[u].held : /\ mem'.name[b] = mem.name[b] /\ mem'.base[b] = mem.base[b]
                                /\ b \in mem'.whole <=> b \in mem.whole
    BY <2>2 DEF DataKept
  <2>4. {mem'.name[b] : b \in call[u].held} = {mem.name[b] : b \in call[u].held}
    BY <2>3
  <2>5. Whole(call[u])'
    BY <2>1, <2>3, <2>4 DEF Whole, Entire
  <2>6. TablesOf(mem', call'[u].held) = TablesOf(mem, call[u].held)
    BY <2>2, TablesKept DEF HandlesInv
  <2> QED BY <2>5, <2>6
<1>3. Opened' = Opened
  BY <1>2 DEF Opened
<1>4. TablesOf(mem', slot') = TablesOf(mem, slot)
  BY SlotKept DEF HandlesInv
<1> QED BY <1>1, <1>2, <1>3, <1>4 DEF HandlesInv, Simulated

LEMMA SweepEntrySim ==
  ASSUME HandlesInv, NEW t \in Threads, SweepEntry(t)
  PROVE  HandlesInv' /\ Simulated
<1>1. CacheInv' /\ DataKept
  BY SweepEntryStep DEF HandlesInv
<1>2. UNCHANGED <<call, slot>>
  BY DEF SweepEntry
<1>3. mem'.cached \subseteq mem.cached /\ mem'.used \subseteq mem.used
  <2>1. PICK b \in sweep.left :
          IF mem.refs[b] = 0
          THEN /\ mem' = Evicted(mem, b)
               /\ sweep' = [sweep EXCEPT !.left = @ \ {b}]
          ELSE /\ sweep' = [sweep EXCEPT !.left = @ \ {b}, !.remaining = TRUE]
               /\ UNCHANGED mem
    BY DEF SweepEntry
  <2>2. b \in mem.cached /\ mem.table[mem.name[b]] = b /\ Sound(mem, Holders, {})
    <3>1. b \in InTable(mem) /\ Sound(mem, Holders, {})
      BY DEF HandlesInv, CacheInv, SweepOK
    <3> QED BY <3>1, InTableIsCached DEF Sound
  <2>3. CASE mem.refs[b] = 0
    <3>1. Evicted(mem, b).cached = mem.cached \ {b} /\ Evicted(mem, b).used \subseteq mem.used
      BY <2>2, <2>3, HoldersExternal, EvictedSound
    <3>2. mem' = Evicted(mem, b)
      BY <2>1, <2>3
    <3> QED BY <3>1, <3>2
  <2>4. CASE mem.refs[b] # 0
    BY <2>1, <2>4
  <2> QED BY <2>3, <2>4
<1> QED BY <1>1, <1>2, <1>3, SweepSim

LEMMA NextSim == HandlesInv /\ [Next]_vars => HandlesInv' /\ Simulated
<1> SUFFICES ASSUME HandlesInv, [Next]_vars PROVE HandlesInv' /\ Simulated
  OBVIOUS
<1>1. ASSUME UNCHANGED <<mem, call, slot>> PROVE HandlesInv' /\ Simulated
  <2>1. CacheInv'
    BY NextInv DEF HandlesInv
  <2> QED BY <1>1, <2>1, SameData, SweepSim
<1>2. CASE UNCHANGED vars
  BY <1>1, <1>2 DEF vars
<1>3. CASE Next
  <2>1. ASSUME NEW t \in Threads, Step(t) PROVE HandlesInv' /\ Simulated
    <3>1. CASE SweepAgain(t)
      BY <1>1, <3>1 DEF SweepAgain
    <3> QED BY <2>1, <3>1, LoadPartSim, LoadFailsSim, CountPartSim, UnloadPartSim, TakeDefaultSim,
               PutDefaultSim, DrainDefaultSim, FlushNothingSim, SweepBeginSim, SweepEntrySim, SweepEndSim
            DEF Step
  <2> QED BY <1>3, <2>1, OpenSim, OpenPackageSim, CloneSim, CloseSim, GetDefaultSim,
             ReleaseDefaultSim, FlushCacheSim DEF Next
<1> QED BY <1>2, <1>3

\* What a thread was given to convert by, it converts by until it closes it, clones
\* included, although blocks are shared, counted, freed and flushed underneath.
THEOREM CacheImplementsHandles == Spec => ImplementsHandles
<1>1. Init => HandlesInv /\ Promise!Init
  <2> SUFFICES ASSUME Init PROVE HandlesInv /\ Promise!Init
    OBVIOUS
  <2>1. \A t \in Threads : call[t].phase = "idle" /\ call[t].held = {}
    BY DEF Init, Idle
  <2>2. Complete(mem) /\ \A t \in Threads : Whole(call[t])
    BY <2>1 DEF Init, NoData, Complete, Whole
  <2>3. Opened = [t \in Threads |-> {}] /\ TablesOf(mem, slot) = {}
    BY <2>1 DEF Init, Opened, TablesOf
  <2> QED BY <2>2, <2>3, InitInv DEF HandlesInv, Promise!Init
<1>2. HandlesInv /\ [Next]_vars => HandlesInv' /\ [Promise!Next]_<<Opened, TablesOf(mem, slot)>>
  BY NextSim DEF Simulated
<1> QED BY <1>1, <1>2, PTL DEF Spec, ImplementsHandles, Promise!Spec
=============================================================================
