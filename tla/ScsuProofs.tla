----------------------------- MODULE ScsuProofs -----------------------------
(***************************************************************************)
(* Proofs about ScsuText: whatever the text, and however text and bytes    *)
(* are cut into buffers, what is read is what was written, and the decoder *)
(* knows the windows of the encoder.                                       *)
(***************************************************************************)
EXTENDS ScsuText, ScsuLemmas

-----------------------------------------------------------------------------
(* The text and the bytes in flight.                                         *)

LEMMA BeginsWith ==
  ASSUME NEW S, NEW s \in Seq(S), NEW t \in Seq(S)
  PROVE  s = SubSeq(s \o t, 1, Len(s))
<1>1. Len(s) \in Nat
  OBVIOUS
<1>2. CASE Len(s) = 0
  <2>1. s = <<>>
    BY <1>2, EmptySeq
  <2>2. SubSeq(s \o t, 1, 0) = <<>>
    BY SubSeqEmpty
  <2> QED BY <1>2, <2>1, <2>2
<1>3. CASE Len(s) # 0
  <2>1. 1 \in 1..Len(s) /\ Len(s) \in 1..Len(s)
    BY <1>1, <1>3
  <2>2. SubSeq(s \o t, 1, Len(s)) = SubSeq(s, 1, Len(s))
    BY <2>1, SubSeqOfConcat1
  <2> QED BY <2>2, SubSeqFull
<1> QED BY <1>2, <1>3

LEMMA HeadOfConcat ==
  ASSUME NEW S, NEW s \in Seq(S), s # <<>>, NEW t \in Seq(S)
  PROVE  /\ s \o t # <<>> /\ Head(s \o t) = Head(s) /\ Tail(s \o t) = Tail(s) \o t
<1>1. Head(s) \in S /\ Tail(s) \in Seq(S)
  BY HeadTailProperties
<1>2. <<Head(s)>> \o Tail(s) = s /\ <<Head(s)>> \in Seq(S)
  BY <1>1, HeadAndTail, OneTuple
<1>3. (<<Head(s)>> \o Tail(s)) \o t = <<Head(s)>> \o (Tail(s) \o t)
  BY <1>1, <1>2, ConcatAssociative
<1>4. PICK u \in Seq(S) : u = Tail(s) \o t
  BY <1>1, ConcatProperties
<1>5. PICK h \in S : h = Head(s)
  BY <1>1
<1>6. <<h>> \o u # <<>> /\ Head(<<h>> \o u) = h /\ Tail(<<h>> \o u) = u
  BY Prefixed
<1> QED BY <1>2, <1>3, <1>4, <1>5, <1>6

\* b is read before the other bytes.
FirstRead(d, b, more, out, d2) ==
  \E o \in Seq(Units), rest \in Seq(Units), d1 \in Decoder :
    out = o \o rest /\ Yields(d, b, o, d1) /\ Reads(d1, more, rest, d2)

LEMMA ReadsFirstThenMore ==
  ASSUME NEW d, NEW bytes, NEW out, NEW d2, Reads(d, bytes, out, d2), bytes # <<>>
  PROVE  FirstRead(d, Head(bytes), Tail(bytes), out, d2)
BY ReadsFirst, SMT DEF FirstRead

LEMMA ReadsFirstOnWire ==
  ASSUME NEW d, NEW s \in Seq(Bytes), s # <<>>, NEW t \in Seq(Bytes), NEW out, NEW d2,
         Reads(d, s \o t, out, d2)
  PROVE  FirstRead(d, Head(s), Tail(s) \o t, out, d2)
<1>1. s \o t # <<>> /\ Head(s \o t) = Head(s) /\ Tail(s \o t) = Tail(s) \o t
  BY HeadOfConcat
<1>2. FirstRead(d, Head(s \o t), Tail(s \o t), out, d2)
  BY <1>1, ReadsFirstThenMore
<1> QED BY <1>1, <1>2

\* What the text says: decoded already, waiting for room, to be read.
Parts(all, written, waiting, rest) == all = written \o (waiting \o rest)

LEMMA PartsMove ==
  ASSUME NEW s \in Seq(Units), NEW a \in Seq(Units), NEW b \in Seq(Units), NEW t \in Seq(Units),
         NEW all, Parts(all, s, <<>>, (a \o b) \o t)
  PROVE  Parts(all, s \o a, b, t)
<1>1. (s \o a) \o (b \o t) = s \o ((a \o b) \o t)
  BY SMT
<1>2. PICK u \in Seq(Units) : u = (a \o b) \o t
  <2>1. PICK v \in Seq(Units) : v = a \o b
    BY ConcatProperties
  <2>2. v \o t \in Seq(Units)
    BY ConcatProperties
  <2> QED BY <2>1, <2>2
<1>3. <<>> \o u = u
  BY ConcatEmptySeq
<1> QED BY <1>1, <1>2, <1>3 DEF Parts

LEMMA PairIsCharacter ==
  ASSUME NEW l, IsLead(l), NEW t, IsTrail(t)
  PROVE  CodePoint(l, t) \in Characters /\ UnitsOf(CodePoint(l, t)) = <<l, t>>
<1>1. l \in Int /\ t \in Int /\ 55296 <= l /\ l <= 56319 /\ 56320 <= t /\ t <= 57343
  BY SMT DEF IsLead, IsTrail
<1>2. PICK q, r : q = l - 55232 /\ r = t - 56320
  OBVIOUS
<1>3. q \in Int /\ r \in Int /\ 64 <= q /\ q <= 1087 /\ 0 <= r /\ r <= 1023
  BY <1>1, <1>2, SMT
<1>4. PICK c : c = CodePoint(l, t)
  OBVIOUS
<1>5. c = 1024 * q + r
  BY <1>1, <1>2, <1>4, SMT DEF CodePoint
<1>6. c \in Int /\ 65536 <= c /\ c <= 1114111
  BY <1>3, <1>5, SMT
<1>7. c \div 1024 = q /\ c % 1024 = r
  BY <1>3, <1>5, SMT
<1>8. 55232 + q = l /\ 56320 + r = t
  BY <1>1, <1>2, SMT
<1>9. c \in Characters
  BY <1>6, CharactersAre, MaxCharacterIs, SMT
<1>10. c \notin Units
  BY <1>6, UnitsAre, SMT
<1>11. UnitsOf(c) = <<55232 + c \div 1024, 56320 + (c % 1024)>>
  BY <1>10, SMT DEF UnitsOf
<1> QED BY <1>4, <1>7, <1>8, <1>9, <1>11, SMT

LEMMA ReplacementIs ==
  /\ Replacement \in Units /\ Replacement \in Characters
  /\ UnitsOf(Replacement) = <<Replacement>> /\ <<Replacement>> \in Seq(Units)
<1>1. Replacement \in Units
  BY SMT DEF Replacement, Units
<1> QED BY <1>1, UnitItself

LEMMA SurrogatesAre ==
  ASSUME NEW u
  PROVE  /\ IsLead(u) => u \in Units /\ u # 0 /\ ~IsTrail(u)
         /\ IsTrail(u) => u \in Units /\ u # 0
<1>1. IsLead(u) => u \in Int /\ 55296 <= u /\ u <= 56319
  BY SMT DEF IsLead
<1>2. IsTrail(u) => u \in Int /\ 56320 <= u /\ u <= 57343
  BY SMT DEF IsTrail
<1> QED BY <1>1, <1>2, UnitsAre, SMT

-----------------------------------------------------------------------------
(* The inductive invariant. What the decoder has written, what waits for     *)
(* room and what it will make of the bytes in flight is what the text says,  *)
(* and unless the text has ended, the decoder will then know the encoder's   *)
(* windows.                                                                  *)

TextInv ==
  /\ enc \in Encoder /\ dec \in Decoder
  /\ lead = open /\ lead \in Units /\ (lead = 0 \/ IsLead(lead))
  /\ (ahead \in Units \/ ahead = None) /\ flush \in BOOLEAN
  /\ held \in Seq(Bytes) /\ wire \in Seq(Bytes)
  /\ pending \in Seq(Units) /\ given \in Seq(Units) /\ decoded \in Seq(Units)
  /\ flush => enc = NewEncoder(WindowUse)

WireInv ==
  \E rest \in Seq(Units), d \in Decoder :
    /\ Reads(dec, wire \o held, rest, d)
    /\ given = decoded \o (pending \o rest)
    /\ ~flush => Follows(d, enc)

ScsuInv == TextInv /\ WireInv

LEMMA SettledMeans ==
  ASSUME ScsuInv, Settled
  PROVE  decoded = given /\ (~flush => Follows(dec, enc))
<1>1. PICK rest \in Seq(Units), d \in Decoder :
        /\ Reads(dec, wire \o held, rest, d)
        /\ given = decoded \o (pending \o rest)
        /\ ~flush => Follows(d, enc)
  BY DEF ScsuInv, WireInv
<1>2. wire = <<>> /\ held = <<>> /\ pending = <<>> /\ decoded \in Seq(Units)
  BY DEF ScsuInv, TextInv, Settled
<1>3. <<>> \o <<>> = <<>>
  BY EmptySeq, ConcatEmptySeq
<1>4. rest = <<>> /\ d = dec
  BY <1>1, <1>2, <1>3, NothingIsRead
<1>5. decoded \o (<<>> \o <<>>) = decoded
  BY <1>2, <1>3, ConcatEmptySeq
<1> QED BY <1>1, <1>2, <1>4, <1>5

LEMMA PutCuts ==
  ASSUME NEW bytes \in Seq(Bytes), NEW least \in 0..1, Put(bytes, least)
  PROVE  /\ wire' \in Seq(Bytes) /\ held' \in Seq(Bytes) /\ wire' \o held' = bytes
         /\ decoded' = <<>> /\ dec' = dec /\ pending' = pending
<1>1. PICK room \in least..Len(bytes) :
        wire' = SubSeq(bytes, 1, room) /\ held' = SubSeq(bytes, room + 1, Len(bytes))
  BY DEF Put
<1>2. room \in 0..Len(bytes)
  OBVIOUS
<1>3. decoded' = <<>> /\ dec' = dec /\ pending' = pending
  BY DEF Put
<1> QED BY <1>1, <1>2, <1>3, Cut

\* A character is written: what is in flight will be read as the character.
LEMMA WriteConveys ==
  ASSUME ScsuInv, Writing, NEW c \in Characters, NEW next, NEW least \in 0..1,
         Write(c, next, least)
  PROVE  /\ enc' \in Encoder /\ dec' = dec /\ pending' = <<>> /\ decoded' = <<>>
         /\ wire' \in Seq(Bytes) /\ held' \in Seq(Bytes)
         /\ \E d \in Decoder : Reads(dec, wire' \o held', UnitsOf(c), d) /\ Follows(d, enc')
<1> DEFINE sent == Encode(enc, c, next)
<1>1. Follows(dec, enc) /\ pending = <<>>
  BY SettledMeans DEF Writing, Settled
<1>2. Conveys(dec, sent, UnitsOf(c))
  BY <1>1, EncodeConveys
<1>3. enc' = sent.e /\ Put(sent.bytes, least)
  BY DEF Write
<1> HIDE DEF sent
<1>4. PICK d : Reads(dec, sent.bytes, UnitsOf(c), d) /\ Follows(d, sent.e)
  BY <1>2 DEF Conveys
<1>5. sent.bytes \in Seq(Bytes) /\ d \in Decoder
  BY <1>4, ReadsTyped
<1>6. /\ wire' \in Seq(Bytes) /\ held' \in Seq(Bytes) /\ wire' \o held' = sent.bytes
      /\ decoded' = <<>> /\ dec' = dec /\ pending' = pending
  BY <1>3, <1>5, PutCuts
<1>7. enc' \in Encoder
  BY <1>3, <1>4 DEF Follows
<1> QED BY <1>1, <1>3, <1>4, <1>5, <1>6, <1>7

\* Then it is enough that it is what the text says.
Written ==
  /\ \E c \in Characters, next \in Units \cup {None}, least \in 0..1 :
       Write(c, next, least) /\ given' = UnitsOf(c)
  /\ Writing /\ flush' = FALSE
  /\ lead' = open' /\ lead' = 0 /\ (ahead' \in Units \/ ahead' = None)

LEMMA WritePreserves == ScsuInv /\ Written => ScsuInv'
<1> SUFFICES ASSUME ScsuInv, Written
             PROVE  ScsuInv'
  OBVIOUS
<1>1. PICK c \in Characters, next \in Units \cup {None}, least \in 0..1 :
        Write(c, next, least) /\ given' = UnitsOf(c)
  BY DEF Written
<1>2. /\ Writing /\ flush' = FALSE
      /\ lead' = open' /\ lead' = 0 /\ (ahead' \in Units \/ ahead' = None)
      /\ 0 \in Units
  BY UnitsAre, SMT DEF Written
<1>3. /\ enc' \in Encoder /\ dec' = dec /\ pending' = <<>> /\ decoded' = <<>>
      /\ wire' \in Seq(Bytes) /\ held' \in Seq(Bytes)
  BY <1>1, <1>2, WriteConveys
<1>4. PICK d \in Decoder : Reads(dec, wire' \o held', UnitsOf(c), d) /\ Follows(d, enc')
  BY <1>1, <1>2, WriteConveys
<1>5. UnitsOf(c) \in Seq(Units) /\ <<>> \in Seq(Units) /\ dec \in Decoder
  BY UnitsOfType, EmptySeq DEF ScsuInv, TextInv
<1>6. <<>> \o (<<>> \o UnitsOf(c)) = UnitsOf(c)
  BY <1>5, ConcatEmptySeq
<1>7. TextInv'
  BY <1>3, <1>5, <1>1, <1>2 DEF TextInv
<1>8. /\ UnitsOf(c) \in Seq(Units) /\ Reads(dec', wire' \o held', UnitsOf(c), d)
      /\ given' = decoded' \o (pending' \o UnitsOf(c))
      /\ ~flush' => Follows(d, enc')
  BY <1>3, <1>4, <1>5, <1>6, <1>1
<1>9. WireInv'
  BY <1>8 DEF WireInv
<1> QED BY <1>7, <1>9 DEF ScsuInv

-----------------------------------------------------------------------------
(* Every step preserves it.                                                  *)

LEMMA NewFollows ==
  /\ NewDecoder \in Decoder /\ NewEncoder(WindowUse) \in Encoder
  /\ Follows(NewDecoder, NewEncoder(WindowUse))
<1>1. initialDynamicOffsets \in [Windows -> Characters]
  <2>1. ASSUME NEW w \in Windows
        PROVE  /\ initialDynamicOffsets[w] \in Int
               /\ 0 <= initialDynamicOffsets[w] /\ initialDynamicOffsets[w] <= 65535
    <3>1. w = 0 \/ w = 1 \/ w = 2 \/ w = 3 \/ w = 4 \/ w = 5 \/ w = 6 \/ w = 7
      BY SMT DEF Windows
    <3> QED BY <3>1, SMT DEF initialDynamicOffsets, Windows
  <2>2. ASSUME NEW w \in Windows
        PROVE  initialDynamicOffsets[w] \in Characters
    BY <2>1, UnitsAre, UnitItself, SMT
  <2>3. initialDynamicOffsets = [w \in Windows |-> initialDynamicOffsets[w]]
    BY SMT DEF initialDynamicOffsets
  <2> QED BY <2>2, <2>3
<1>2. WindowUse \in [Windows -> Windows]
  <2>1. initialWindowUse \in [Windows -> Windows]
    <3>1. ASSUME NEW i \in Windows
          PROVE  initialWindowUse[i] \in Windows
      <4>1. i = 0 \/ i = 1 \/ i = 2 \/ i = 3 \/ i = 4 \/ i = 5 \/ i = 6 \/ i = 7
        BY SMT DEF Windows
      <4> QED BY <4>1, SMT DEF initialWindowUse, Windows
    <3> QED BY <3>1 DEF initialWindowUse
  <2>2. initialWindowUseJa \in [Windows -> Windows]
    <3>1. ASSUME NEW i \in Windows
          PROVE  initialWindowUseJa[i] \in Windows
      <4>1. i = 0 \/ i = 1 \/ i = 2 \/ i = 3 \/ i = 4 \/ i = 5 \/ i = 6 \/ i = 7
        BY SMT DEF Windows
      <4> QED BY <4>1, SMT DEF initialWindowUseJa, Windows
    <3> QED BY <3>1 DEF initialWindowUseJa
  <2> QED BY <2>1, <2>2, LocaleAssumption
<1>3. 0 \in Windows /\ 0 \in Bytes
  BY SMT DEF Windows, Bytes
<1>4. NewDecoder \in Decoder
  BY <1>1, <1>3, StatesAre DEF NewDecoder, Decoder
<1>5. NewEncoder(WindowUse) \in Encoder
  BY <1>1, <1>2, <1>3 DEF NewEncoder, Encoder
<1> QED BY <1>4, <1>5 DEF Follows, Ready, NewDecoder, NewEncoder

LEMMA NextUnits ==
  ASSUME TextInv
  PROVE  /\ \A u \in NextUnit : u \in Units
         /\ \A next \in Visible : next \in Units \/ next = None
         /\ 0 \in Units
<1>1. 0 \in Units
  BY UnitsAre, SMT
<1> QED BY <1>1, AlphabetAssumption DEF NextUnit, Visible, TextInv

LEMMA InitScsuInv == Init => ScsuInv
<1> SUFFICES ASSUME Init
             PROVE  ScsuInv
  OBVIOUS
<1>1. 0 \in Units
  BY UnitsAre, SMT
<1>2. <<>> \in Seq(Units) /\ <<>> \in Seq(Bytes) /\ <<>> \o <<>> = <<>>
  BY EmptySeq, ConcatEmptySeq
<1>3. TextInv
  BY <1>1, <1>2, NewFollows DEF Init, TextInv
<1>4. Reads(NewDecoder, <<>>, <<>>, NewDecoder)
  BY NewFollows, ReadsNothing
<1>5. /\ Reads(dec, wire \o held, <<>>, NewDecoder)
      /\ given = decoded \o (pending \o <<>>)
      /\ Follows(NewDecoder, enc)
  BY <1>2, <1>4, NewFollows DEF Init
<1>6. WireInv
  BY <1>2, <1>5, NewFollows DEF WireInv
<1> QED BY <1>3, <1>6 DEF ScsuInv

\* Steps of the text that write nothing.
LEMMA SilentPreserves ==
  ASSUME ScsuInv, Settled,
         enc' \in Encoder, ~flush' => Follows(dec', enc'), dec' \in Decoder,
         flush' => enc' = NewEncoder(WindowUse), flush' \in BOOLEAN,
         given' \in Seq(Units), decoded' = given',
         lead' = open', lead' \in Units, lead' = 0 \/ IsLead(lead'),
         ahead' \in Units \/ ahead' = None,
         held' = held, wire' = wire, pending' = pending
  PROVE  ScsuInv'
<1>1. /\ wire' = <<>> /\ held' = <<>> /\ pending' = <<>>
      /\ <<>> \in Seq(Units) /\ <<>> \in Seq(Bytes) /\ <<>> \o <<>> = <<>>
  BY EmptySeq, ConcatEmptySeq DEF Settled
<1>2. TextInv'
  BY <1>1 DEF TextInv
<1>3. Reads(dec', <<>>, <<>>, dec')
  BY ReadsNothing
<1>4. given' = decoded' \o (<<>> \o <<>>)
  BY <1>1, ConcatEmptySeq
<1>5. WireInv'
  BY <1>1, <1>3, <1>4 DEF WireInv
<1> QED BY <1>2, <1>5 DEF ScsuInv

\* What the text says, when no lead surrogate is open and when one is.
LEMMA SaysAlone ==
  ASSUME NEW u \in Units, Says(u), open = 0
  PROVE  /\ open' = IF IsLead(u) THEN u ELSE 0
         /\ given' = IF IsLead(u) THEN <<>> ELSE IF IsTrail(u) THEN <<Replacement>> ELSE <<u>>
<1>1. Replaced = <<>>
  BY DEF Replaced
<1>2. PICK s \in Seq(Units) :
        s = IF IsLead(u) THEN <<>> ELSE IF IsTrail(u) THEN <<Replacement>> ELSE <<u>>
  <2>1. <<>> \in Seq(Units) /\ <<Replacement>> \in Seq(Units) /\ <<u>> \in Seq(Units)
    BY EmptySeq, ReplacementIs, OneTuple
  <2> QED BY <2>1
<1>3. open' = (IF IsLead(u) THEN u ELSE 0) /\ given' = <<>> \o s
  BY <1>1, <1>2 DEF Says
<1> QED BY <1>2, <1>3, ConcatEmptySeq

LEMMA WriteUnitWrites == ScsuInv /\ WriteUnit => Written
<1> SUFFICES ASSUME ScsuInv, WriteUnit
             PROVE  Written
  OBVIOUS
<1>1. TextInv
  BY DEF ScsuInv
<1>2. PICK u \in NextUnit, next \in Visible :
        ~IsLead(u) /\ ~IsTrail(u) /\ Write(u, next, 1) /\ Taken(u, next)
  BY DEF WriteUnit
<1>3. u \in Units /\ (next \in Units \/ next = None) /\ 0 \in Units
  BY <1>1, NextUnits
<1>4. Writing /\ lead' = lead /\ flush' = flush /\ lead = 0 /\ open = 0 /\ flush = FALSE
  BY <1>1 DEF WriteUnit, Writing, TextInv
<1>5. given' = <<u>> /\ open' = 0 /\ ahead' = next
  BY <1>2, <1>3, <1>4, SaysAlone DEF Taken
<1>6. UnitsOf(u) = <<u>> /\ u \in Characters /\ 1 \in 0..1
  BY <1>3, UnitItself
<1> QED BY <1>2, <1>3, <1>4, <1>5, <1>6 DEF Written

LEMMA TakeLeadPreserves == ScsuInv /\ TakeLead => ScsuInv'
<1> SUFFICES ASSUME ScsuInv, TakeLead
             PROVE  ScsuInv'
  OBVIOUS
<1>1. TextInv
  BY DEF ScsuInv
<1>2. PICK u \in NextUnit, next \in Visible : IsLead(u) /\ lead' = u /\ Taken(u, next)
  BY DEF TakeLead
<1>3. u \in Units /\ (next \in Units \/ next = None)
  BY <1>1, NextUnits
<1>4. /\ Settled /\ lead = 0 /\ open = 0 /\ flush = FALSE /\ decoded' = <<>>
      /\ enc' = enc /\ flush' = flush /\ dec' = dec
      /\ held' = held /\ wire' = wire /\ pending' = pending
      /\ enc \in Encoder /\ dec \in Decoder
  BY <1>1 DEF TakeLead, Writing, TextInv
<1>5. given' = <<>> /\ open' = u /\ ahead' = next
  BY <1>2, <1>3, <1>4, SaysAlone DEF Taken
<1>6. Follows(dec', enc')
  BY <1>4, SettledMeans
<1>7. given' \in Seq(Units)
  BY <1>5, EmptySeq
<1> QED BY <1>2, <1>3, <1>4, <1>5, <1>6, <1>7, SilentPreserves

LEMMA WritePairWrites == ScsuInv /\ WritePair => Written
<1> SUFFICES ASSUME ScsuInv, WritePair
             PROVE  Written
  OBVIOUS
<1>1. TextInv
  BY DEF ScsuInv
<1>2. PICK u \in NextUnit, next \in Visible :
        IsTrail(u) /\ Write(CodePoint(lead, u), next, 1) /\ Taken(u, next)
  BY DEF WritePair
<1>3. u \in Units /\ (next \in Units \/ next = None) /\ 0 \in Units
  BY <1>1, NextUnits
<1>4. Writing /\ lead' = 0 /\ flush' = FALSE /\ IsLead(lead) /\ open = lead
  BY <1>1 DEF WritePair, Writing, TextInv
<1>5. open # 0 /\ ~IsLead(u)
  BY <1>2, <1>4, SurrogatesAre
<1>6. given' = <<lead, u>> /\ open' = 0 /\ ahead' = next
  BY <1>2, <1>4, <1>5 DEF Taken, Says
<1>7. CodePoint(lead, u) \in Characters /\ UnitsOf(CodePoint(lead, u)) = <<lead, u>> /\ 1 \in 0..1
  BY <1>2, <1>4, PairIsCharacter
<1> QED BY <1>2, <1>3, <1>4, <1>6, <1>7 DEF Written

LEMMA WriteUnmatchedLeadWrites == ScsuInv /\ WriteUnmatchedLead => Written
<1> SUFFICES ASSUME ScsuInv, WriteUnmatchedLead
             PROVE  Written
  OBVIOUS
<1>1. TextInv
  BY DEF ScsuInv
<1>2. PICK u \in NextUnit : ahead' = u
  BY DEF WriteUnmatchedLead
<1>3. u \in Units /\ 0 \in Units
  BY <1>1, NextUnits
<1>4. /\ Writing /\ lead' = 0 /\ flush' = FALSE /\ open # 0 /\ open' = 0
      /\ Write(Replacement, None, 0) /\ given' = Replaced
  BY <1>1 DEF WriteUnmatchedLead, Writing, TextInv, Substitute, SaysNoMore
<1>5. given' = UnitsOf(Replacement)
  BY <1>4, ReplacementIs DEF Replaced
<1>6. 0 \in 0..1 /\ Replacement \in Characters
  BY ReplacementIs
<1> QED BY <1>2, <1>3, <1>4, <1>5, <1>6 DEF Written

LEMMA WriteUnmatchedTrailWrites == ScsuInv /\ WriteUnmatchedTrail => Written
<1> SUFFICES ASSUME ScsuInv, WriteUnmatchedTrail
             PROVE  Written
  OBVIOUS
<1>1. TextInv
  BY DEF ScsuInv
<1>2. PICK u \in NextUnit, next \in Visible : IsTrail(u) /\ Taken(u, next)
  BY DEF WriteUnmatchedTrail
<1>3. u \in Units /\ (next \in Units \/ next = None) /\ 0 \in Units
  BY <1>1, NextUnits
<1>4. /\ Writing /\ lead' = 0 /\ flush' = FALSE /\ open = 0 /\ Write(Replacement, None, 0)
  BY <1>1 DEF WriteUnmatchedTrail, Writing, TextInv, Substitute
<1>5. ~IsLead(u)
  BY <1>2, SurrogatesAre
<1>6. given' = <<Replacement>> /\ open' = 0 /\ ahead' = next
  BY <1>2, <1>3, <1>4, <1>5, SaysAlone DEF Taken
<1>7. 0 \in 0..1 /\ Replacement \in Characters /\ UnitsOf(Replacement) = <<Replacement>>
  BY ReplacementIs
<1> QED BY <1>3, <1>4, <1>6, <1>7 DEF Written

LEMMA EndTextPreserves == ScsuInv /\ EndText => ScsuInv'
<1> SUFFICES ASSUME ScsuInv, EndText
             PROVE  ScsuInv'
  OBVIOUS
<1>1. /\ Settled /\ open = 0 /\ lead' = 0 /\ open' = 0 /\ flush' = TRUE
      /\ decoded' = <<>> /\ given' = Replaced /\ enc' = NewEncoder(WindowUse)
      /\ dec' = dec /\ dec \in Decoder /\ ahead' = None
      /\ held' = held /\ wire' = wire /\ pending' = pending
  BY DEF ScsuInv, TextInv, EndText, Writing, SaysNoMore
<1>2. given' = <<>> /\ <<>> \in Seq(Units)
  BY <1>1, EmptySeq DEF Replaced
<1>3. enc' \in Encoder
  BY <1>1, NewFollows
<1>4. 0 \in Units
  BY UnitsAre, SMT
<1> QED BY <1>1, <1>2, <1>3, <1>4, SilentPreserves

LEMMA EndTruncatedTextPreserves == ScsuInv /\ EndTruncatedText => ScsuInv'
<1> SUFFICES ASSUME ScsuInv, EndTruncatedText
             PROVE  ScsuInv'
  OBVIOUS
<1> DEFINE sent == Encode(enc, Replacement, None)
<1>1. Settled /\ Follows(dec, enc) /\ pending = <<>>
  BY SettledMeans DEF EndTruncatedText, Writing, Settled
<1>2. Conveys(dec, sent, <<Replacement>>)
  BY <1>1, ReplacementIs, EncodeConveys
<1>3. /\ Put(sent.bytes, 0) /\ enc' = NewEncoder(WindowUse) /\ flush' = TRUE
      /\ lead' = 0 /\ open' = 0 /\ given' = <<Replacement>>
      /\ ahead' = None /\ dec \in Decoder
  BY DEF ScsuInv, TextInv, EndTruncatedText, SaysNoMore, Replaced
<1> HIDE DEF sent
<1>4. PICK d : Reads(dec, sent.bytes, <<Replacement>>, d)
  BY <1>2 DEF Conveys
<1>5. sent.bytes \in Seq(Bytes) /\ d \in Decoder
  BY <1>4, ReadsTyped
<1>6. /\ wire' \in Seq(Bytes) /\ held' \in Seq(Bytes) /\ wire' \o held' = sent.bytes
      /\ decoded' = <<>> /\ dec' = dec /\ pending' = <<>>
  <2>1. 0 \in 0..1
    OBVIOUS
  <2> QED BY <1>1, <1>3, <1>5, <2>1, PutCuts
<1>7. 0 \in Units /\ <<>> \in Seq(Units) /\ <<Replacement>> \in Seq(Units) /\ enc' \in Encoder
  BY <1>3, UnitsAre, EmptySeq, ReplacementIs, NewFollows, SMT
<1>8. TextInv'
  BY <1>3, <1>6, <1>7 DEF TextInv
<1>9. <<>> \o (<<>> \o <<Replacement>>) = <<Replacement>>
  BY <1>7, ConcatEmptySeq
<1>10. WireInv'
  BY <1>3, <1>4, <1>5, <1>6, <1>7, <1>9 DEF WireInv
<1> QED BY <1>8, <1>10 DEF ScsuInv

LEMMA PutHeldPreserves == ScsuInv /\ PutHeld => ScsuInv'
<1> SUFFICES ASSUME ScsuInv, PutHeld
             PROVE  ScsuInv'
  OBVIOUS
<1>1. /\ wire = <<>> /\ wire' = held /\ held' = <<>>
      /\ enc' = enc /\ lead' = lead /\ ahead' = ahead /\ flush' = flush
      /\ open' = open /\ given' = given
      /\ dec' = dec /\ pending' = pending /\ decoded' = decoded
  BY DEF PutHeld, encoder, text, decoder
<1>2. held \in Seq(Bytes) /\ <<>> \in Seq(Bytes)
  BY EmptySeq DEF ScsuInv, TextInv
<1>3. wire' \o held' = wire \o held
  BY <1>1, <1>2, ConcatEmptySeq
<1>4. TextInv'
  BY <1>1, <1>2 DEF ScsuInv, TextInv
<1>5. WireInv'
  BY <1>1, <1>3 DEF ScsuInv, WireInv
<1> QED BY <1>4, <1>5 DEF ScsuInv

\* What a byte yields is a part of what is still to be read; the units for which
\* there is room are written, and the others wait.
LEMMA ReadBytePreserves == ScsuInv /\ ReadByte => ScsuInv'
<1> SUFFICES ASSUME ScsuInv, ReadByte
             PROVE  ScsuInv'
  OBVIOUS
<1>1. TextInv /\ wire # <<>> /\ pending = <<>>
  BY DEF ScsuInv, ReadByte
<1>2. PICK rest \in Seq(Units), d \in Decoder :
        /\ Reads(dec, wire \o held, rest, d)
        /\ given = decoded \o (pending \o rest)
        /\ ~flush => Follows(d, enc)
  BY DEF ScsuInv, WireInv
<1>3. wire \in Seq(Bytes) /\ held \in Seq(Bytes)
  BY <1>1 DEF TextInv
<1>4. PICK o \in Seq(Units), rest1 \in Seq(Units), d1 \in Decoder :
        /\ rest = o \o rest1
        /\ Yields(dec, Head(wire), o, d1)
        /\ Reads(d1, Tail(wire) \o held, rest1, d)
  <2>1. PICK s \in Seq(Bytes), t \in Seq(Bytes) : s = wire /\ t = held
    BY <1>3
  <2>2. s # <<>> /\ Reads(dec, s \o t, rest, d)
    BY <1>1, <1>2, <2>1
  <2>3. FirstRead(dec, Head(s), Tail(s) \o t, rest, d)
    BY <2>2, ReadsFirstOnWire
  <2> QED BY <2>1, <2>3 DEF FirstRead
<1>5. PICK room \in 1..2 :
        LET read == Decode(dec, Head(wire), room)
            out == IF read.illegal THEN <<None>> ELSE read.out
            fits == IF Len(out) > room THEN room ELSE Len(out)
        IN  /\ dec' = read.d
            /\ decoded' = decoded \o SubSeq(out, 1, fits)
            /\ pending' = SubSeq(out, fits + 1, Len(out))
  BY DEF ReadByte
<1>6. Decode(dec, Head(wire), room) = Wrote(d1, o)
  BY <1>4 DEF Yields
<1>7. Wrote(d1, o).d = d1 /\ Wrote(d1, o).out = o /\ Wrote(d1, o).illegal = FALSE
  BY DEF Wrote
<1>8. PICK fits \in 0..Len(o) :
        /\ dec' = d1 /\ decoded' = decoded \o SubSeq(o, 1, fits)
        /\ pending' = SubSeq(o, fits + 1, Len(o))
  <2> DEFINE fits == IF Len(o) > room THEN room ELSE Len(o)
  <2>1. fits \in 0..Len(o)
    OBVIOUS
  <2>2. /\ dec' = d1 /\ decoded' = decoded \o SubSeq(o, 1, fits)
        /\ pending' = SubSeq(o, fits + 1, Len(o))
    BY <1>5, <1>6, <1>7
  <2> HIDE DEF fits
  <2> QED BY <2>1, <2>2
<1>9. /\ SubSeq(o, 1, fits) \in Seq(Units) /\ pending' \in Seq(Units)
      /\ SubSeq(o, 1, fits) \o pending' = o
  BY <1>8, Cut
<1>10. /\ enc' = enc /\ lead' = lead /\ ahead' = ahead /\ flush' = flush
       /\ open' = open /\ given' = given /\ held' = held /\ wire' = Tail(wire)
       /\ Tail(wire) \in Seq(Bytes)
  BY <1>1, HeadTailProperties DEF ReadByte, encoder, text, TextInv
<1>11. decoded' \in Seq(Units) /\ decoded \in Seq(Units)
  BY <1>1, <1>8, <1>9, ConcatProperties DEF TextInv
<1>12. TextInv'
  BY <1>1, <1>8, <1>9, <1>10, <1>11 DEF TextInv
<1>13. given' = decoded' \o (pending' \o rest1)
  <2>1. PICK a \in Seq(Units), b \in Seq(Units) :
          a = SubSeq(o, 1, fits) /\ b = pending' /\ o = a \o b
    BY <1>9
  <2>2. PICK s \in Seq(Units) : s = decoded
    BY <1>11
  <2>3. Parts(given, s, <<>>, (a \o b) \o rest1)
    BY <1>1, <1>2, <1>4, <2>1, <2>2 DEF Parts
  <2>4. Parts(given, s \o a, b, rest1)
    BY <2>3, PartsMove
  <2> QED BY <1>8, <1>10, <2>1, <2>2, <2>4 DEF Parts
<1>14. WireInv'
  BY <1>2, <1>4, <1>8, <1>10, <1>13 DEF WireInv
<1> QED BY <1>12, <1>14 DEF ScsuInv

LEMMA ReadPendingPreserves == ScsuInv /\ ReadPending => ScsuInv'
<1> SUFFICES ASSUME ScsuInv, ReadPending
             PROVE  ScsuInv'
  OBVIOUS
<1>1. /\ decoded' = decoded \o pending /\ pending' = <<>>
      /\ enc' = enc /\ lead' = lead /\ ahead' = ahead /\ flush' = flush
      /\ open' = open /\ given' = given
      /\ dec' = dec /\ held' = held /\ wire' = wire
  BY DEF ReadPending, encoder, text
<1>2. decoded \in Seq(Units) /\ pending \in Seq(Units) /\ <<>> \in Seq(Units)
  BY EmptySeq DEF ScsuInv, TextInv
<1>3. decoded' \in Seq(Units)
  BY <1>1, <1>2, ConcatProperties
<1>4. TextInv'
  BY <1>1, <1>2, <1>3 DEF ScsuInv, TextInv
<1>5. ASSUME NEW rest \in Seq(Units)
      PROVE  decoded \o (pending \o rest) = decoded' \o (pending' \o rest)
  <2>1. PICK s \in Seq(Units), p \in Seq(Units) : s = decoded /\ p = pending
    BY <1>2
  <2>2. (s \o p) \o rest = s \o (p \o rest)
    BY SMT
  <2>3. <<>> \o rest = rest
    BY ConcatEmptySeq
  <2> QED BY <1>1, <2>1, <2>2, <2>3
<1>6. WireInv'
  BY <1>1, <1>5 DEF ScsuInv, WireInv
<1> QED BY <1>4, <1>6 DEF ScsuInv

LEMMA EndReadingPreserves == ScsuInv /\ EndReading => ScsuInv'
<1> SUFFICES ASSUME ScsuInv, EndReading
             PROVE  ScsuInv'
  OBVIOUS
<1>1. /\ Settled /\ dec' = NewDecoder /\ flush' = FALSE
      /\ enc' = enc /\ enc = NewEncoder(WindowUse) /\ lead' = lead /\ ahead' = ahead
      /\ open' = open /\ given' = given /\ decoded' = decoded
      /\ held' = held /\ wire' = wire /\ pending' = pending
  BY DEF ScsuInv, TextInv, EndReading, text
<1>2. /\ lead = open /\ lead \in Units /\ (lead = 0 \/ IsLead(lead))
      /\ (ahead \in Units \/ ahead = None) /\ given \in Seq(Units)
  BY DEF ScsuInv, TextInv
<1>3. given' = decoded'
  BY <1>1, SettledMeans
<1>4. enc' \in Encoder /\ dec' \in Decoder /\ Follows(dec', enc')
  BY <1>1, NewFollows
<1> QED BY <1>1, <1>2, <1>3, <1>4, SilentPreserves

LEMMA NextPreserves == ScsuInv /\ [Next]_vars => ScsuInv'
<1> SUFFICES ASSUME ScsuInv, [Next]_vars
             PROVE  ScsuInv'
  OBVIOUS
<1>1. CASE WriteUnit           BY <1>1, WriteUnitWrites, WritePreserves
<1>2. CASE TakeLead            BY <1>2, TakeLeadPreserves
<1>3. CASE WritePair           BY <1>3, WritePairWrites, WritePreserves
<1>4. CASE WriteUnmatchedLead  BY <1>4, WriteUnmatchedLeadWrites, WritePreserves
<1>5. CASE WriteUnmatchedTrail BY <1>5, WriteUnmatchedTrailWrites, WritePreserves
<1>6. CASE EndText             BY <1>6, EndTextPreserves
<1>7. CASE EndTruncatedText    BY <1>7, EndTruncatedTextPreserves
<1>8. CASE PutHeld             BY <1>8, PutHeldPreserves
<1>9. CASE ReadByte            BY <1>9, ReadBytePreserves
<1>10. CASE ReadPending        BY <1>10, ReadPendingPreserves
<1>11. CASE EndReading         BY <1>11, EndReadingPreserves
<1>12. CASE UNCHANGED vars
  <2>1. TextInv'
    BY <1>12 DEF ScsuInv, TextInv, vars
  <2>2. WireInv'
    BY <1>12 DEF ScsuInv, WireInv, vars
  <2> QED BY <2>1, <2>2 DEF ScsuInv
<1> QED BY <1>1, <1>2, <1>3, <1>4, <1>5, <1>6, <1>7, <1>8, <1>9, <1>10, <1>11, <1>12 DEF Next

-----------------------------------------------------------------------------
(* What the invariant says of the properties.                                *)

LEMMA InvTypes == ScsuInv => ScsuTypeOK
BY DEF ScsuInv, TextInv, ScsuTypeOK

LEMMA InvDecoded == ScsuInv => DecodedIsGiven
<1> SUFFICES ASSUME ScsuInv
             PROVE  DecodedIsGiven
  OBVIOUS
<1>1. PICK rest \in Seq(Units) : given = decoded \o (pending \o rest)
  BY DEF ScsuInv, WireInv
<1>2. decoded \in Seq(Units) /\ pending \o rest \in Seq(Units)
  BY ConcatProperties DEF ScsuInv, TextInv
<1>3. decoded = SubSeq(given, 1, Len(decoded))
  BY <1>1, <1>2, BeginsWith
<1>4. Settled => decoded = given
  BY SettledMeans
<1> QED BY <1>3, <1>4 DEF DecodedIsGiven

LEMMA InvFollows == ScsuInv => DecoderFollows
BY SettledMeans DEF DecoderFollows, Follows, Ready

LEMMA ScsuInvariant == Spec => []ScsuInv
BY InitScsuInv, NextPreserves, PTL DEF Spec

\* The converters' states, the bytes and the units stay in their ranges: the
\* arithmetic on offsets, windows and surrogates never leaves them.
THEOREM ScsuTypesCorrect == Spec => []ScsuTypeOK
BY ScsuInvariant, InvTypes, PTL

\* Whatever the text, of any length and over any code units, however it and the
\* bytes are cut into buffers: what has come out of the decoder is a beginning of
\* what the text says, and all of it when nothing is in flight.
THEOREM TextIsDecoded == Spec => []DecodedIsGiven
BY ScsuInvariant, InvDecoded, PTL

\* Between two characters the decoder has the mode, the selected window and the
\* offsets of all windows that the encoder thinks it has.
THEOREM DecoderKnowsTheWindows == Spec => []DecoderFollows
BY ScsuInvariant, InvFollows, PTL

-----------------------------------------------------------------------------
(* The steps of the encoder, by what becomes of its state and of the bytes   *)
(* in flight: a character is written, the last one of a text, a step of the  *)
(* text writes nothing, or bytes only move on.                               *)

WrittenLast ==
  /\ Writing
  /\ Put(Encode(enc, Replacement, None).bytes, 0)
  /\ given' = UnitsOf(Replacement) /\ flush' = TRUE

WritesNothing == wire' \o held' = <<>> /\ given' \in Seq(Units) /\ (enc' = enc \/ flush')

OnlyMoves == enc' = enc /\ given' = given /\ Len(wire' \o held') <= Len(wire \o held)

LEMMA StepKinds ==
  ASSUME ScsuInv, [Next]_vars
  PROVE  Written \/ WrittenLast \/ WritesNothing \/ OnlyMoves
<1>1. held \in Seq(Bytes) /\ wire \in Seq(Bytes) /\ <<>> \o <<>> = <<>>
  BY EmptySeq, ConcatEmptySeq DEF ScsuInv, TextInv
<1>2. given' \in Seq(Units)
  BY NextPreserves DEF ScsuInv, TextInv
<1>3. CASE WriteUnit \/ WritePair \/ WriteUnmatchedLead \/ WriteUnmatchedTrail
  BY <1>3, WriteUnitWrites, WritePairWrites, WriteUnmatchedLeadWrites, WriteUnmatchedTrailWrites
<1>4. CASE TakeLead \/ EndText
  BY <1>1, <1>2, <1>4 DEF TakeLead, EndText, Writing, Settled, WritesNothing
<1>5. CASE EndTruncatedText
  BY <1>5, ReplacementIs DEF ScsuInv, TextInv, EndTruncatedText, SaysNoMore, Replaced, WrittenLast
<1>6. CASE PutHeld
  <2>1. wire' = held /\ held' = <<>> /\ wire = <<>> /\ enc' = enc /\ given' = given
    BY <1>6 DEF PutHeld, encoder, text
  <2>2. wire' \o held' = wire \o held
    BY <1>1, <2>1, ConcatEmptySeq
  <2> QED BY <1>1, <2>1, <2>2 DEF OnlyMoves
<1>7. CASE ReadByte
  <2>1. /\ wire' = Tail(wire) /\ held' = held /\ wire # <<>>
        /\ enc' = enc /\ given' = given
    BY <1>7 DEF ReadByte, encoder, text
  <2>2. Len(Tail(wire)) = Len(wire) - 1 /\ Tail(wire) \in Seq(Bytes)
    BY <1>1, <2>1, HeadTailProperties
  <2>3. Len(Tail(wire) \o held) <= Len(wire \o held)
    BY <1>1, <2>2
  <2> QED BY <2>1, <2>3 DEF OnlyMoves
<1>8. CASE ReadPending \/ EndReading \/ UNCHANGED vars
  BY <1>1, <1>8 DEF ReadPending, EndReading, vars, encoder, text, OnlyMoves
<1> QED BY <1>3, <1>4, <1>5, <1>6, <1>7, <1>8 DEF Next

LEMMA WrittenIs ==
  ASSUME ScsuInv, Written
  PROVE  /\ Moves(enc, enc') \/ ~IsOrder(UseOrder(enc))
         /\ Len(wire' \o held') <= 3 * Len(given')
<1>1. PICK c \in Characters, next \in Units \cup {None}, least \in 0..1 :
        Write(c, next, least) /\ given' = UnitsOf(c)
  BY DEF Written
<1>2. PICK sent : sent = Encode(enc, c, next)
  OBVIOUS
<1>3. enc' = sent.e /\ Put(sent.bytes, least)
  BY <1>1, <1>2 DEF Write
<1>4. Follows(dec, enc)
  BY SettledMeans DEF Written, Writing, Settled
<1>5. sent.bytes \in Seq(Bytes) /\ enc \in Encoder
  BY <1>2, <1>4, EncodeConveys, ReadsTyped DEF Conveys, Follows
<1>6. wire' \o held' = sent.bytes
  BY <1>3, <1>5, PutCuts
<1>7. Fits(sent, c)
  BY <1>2, EncodeTakes
<1>8. IsOrder(UseOrder(enc)) => Moves(enc, sent.e)
  BY <1>2, <1>5, EncodeMoves
<1> QED BY <1>1, <1>3, <1>6, <1>7, <1>8 DEF Fits

LEMMA WrittenLastIs ==
  ASSUME ScsuInv, WrittenLast
  PROVE  Len(wire' \o held') <= 3 * Len(given')
<1>1. PICK sent : sent = Encode(enc, Replacement, None)
  OBVIOUS
<1>2. Follows(dec, enc)
  BY SettledMeans DEF WrittenLast, Writing, Settled
<1>3. sent.bytes \in Seq(Bytes)
  BY <1>1, <1>2, ReplacementIs, EncodeConveys, ReadsTyped DEF Conveys
<1>4. 0 \in 0..1
  OBVIOUS
<1>5. wire' \o held' = sent.bytes
  BY <1>1, <1>3, <1>4, PutCuts DEF WrittenLast
<1>6. Fits(sent, Replacement)
  BY <1>1, ReplacementIs, EncodeTakes
<1> QED BY <1>5, <1>6 DEF Fits, WrittenLast

-----------------------------------------------------------------------------
(* The order of use is inductive together with the invariant above: a new    *)
(* converter's array has every window once, and a step moves one at most.    *)

UseInv == IsOrder(UseOrder(enc))

LEMMA NewOrder == IsOrder(UseOrder(NewEncoder(WindowUse)))
<1> DEFINE order == UseOrder(NewEncoder(WindowUse))
<1>1. \A i : i \in Windows <=> i = 0 \/ i = 1 \/ i = 2 \/ i = 3 \/ i = 4 \/ i = 5 \/ i = 6 \/ i = 7
  BY SMT DEF Windows
<1>2. WindowUse \in [Windows -> Windows]
  BY NewFollows DEF NewEncoder, Encoder
<1>3. ASSUME NEW i \in Windows
      PROVE  order[i] = WindowUse[i]
  <2>1. (0 + i) % 8 = i
    BY SMT DEF Windows
  <2> QED BY <2>1 DEF UseOrder, NewEncoder
<1>4. order = WindowUse
  BY <1>2, <1>3 DEF UseOrder
<1>5. IsOrder(initialWindowUse)
  <2>1. /\ initialWindowUse[0] = 7 /\ initialWindowUse[1] = 0 /\ initialWindowUse[2] = 3
        /\ initialWindowUse[3] = 2 /\ initialWindowUse[4] = 4 /\ initialWindowUse[5] = 5
        /\ initialWindowUse[6] = 6 /\ initialWindowUse[7] = 1
    BY SMT DEF initialWindowUse, Windows
  <2>2. ASSUME NEW w \in Windows
        PROVE  \E i \in Windows : initialWindowUse[i] = w
    BY <1>1, <2>1
  <2>3. ASSUME NEW i \in Windows, NEW j \in Windows, initialWindowUse[i] = initialWindowUse[j]
        PROVE  i = j
    BY <1>1, <2>1, <2>3
  <2>4. \A i \in Windows : initialWindowUse[i] \in Windows
    BY <1>1, <2>1
  <2>5. initialWindowUse \in [Windows -> Windows]
    BY <2>4 DEF initialWindowUse
  <2> QED BY <2>2, <2>3, <2>5 DEF IsOrder
<1>6. IsOrder(initialWindowUseJa)
  <2>1. /\ initialWindowUseJa[0] = 3 /\ initialWindowUseJa[1] = 2 /\ initialWindowUseJa[2] = 4
        /\ initialWindowUseJa[3] = 1 /\ initialWindowUseJa[4] = 0 /\ initialWindowUseJa[5] = 7
        /\ initialWindowUseJa[6] = 5 /\ initialWindowUseJa[7] = 6
    BY SMT DEF initialWindowUseJa, Windows
  <2>2. ASSUME NEW w \in Windows
        PROVE  \E i \in Windows : initialWindowUseJa[i] = w
    BY <1>1, <2>1
  <2>3. ASSUME NEW i \in Windows, NEW j \in Windows, initialWindowUseJa[i] = initialWindowUseJa[j]
        PROVE  i = j
    BY <1>1, <2>1, <2>3
  <2>4. \A i \in Windows : initialWindowUseJa[i] \in Windows
    BY <1>1, <2>1
  <2>5. initialWindowUseJa \in [Windows -> Windows]
    BY <2>4 DEF initialWindowUseJa
  <2> QED BY <2>2, <2>3, <2>5 DEF IsOrder
<1> QED BY <1>4, <1>5, <1>6, LocaleAssumption

LEMMA EncoderMoves ==
  ASSUME ScsuInv, UseInv, [Next]_vars
  PROVE  Moves(enc, enc') \/ flush'
<1>1. Written \/ WrittenLast \/ WritesNothing \/ OnlyMoves
  BY StepKinds
<1>2. CASE enc' = enc
  BY <1>2 DEF Moves
<1> QED BY <1>1, <1>2, WrittenIs DEF UseInv, WrittenLast, WritesNothing, OnlyMoves

LEMMA OrderPreserved == ScsuInv /\ UseInv /\ [Next]_vars => UseInv'
<1> SUFFICES ASSUME ScsuInv, UseInv, [Next]_vars
             PROVE  UseInv'
  OBVIOUS
<1>1. CASE flush'
  <2>1. enc' = NewEncoder(WindowUse)
    BY <1>1, NextPreserves DEF ScsuInv, TextInv
  <2> QED BY <2>1, NewOrder DEF UseInv
<1>2. CASE Moves(enc, enc')
  <2>1. PICK order, moved : order = UseOrder(enc) /\ moved = UseOrder(enc')
    OBVIOUS
  <2>2. moved = order \/ \E at \in Windows : moved = MovedToEnd(order, at)
    BY <1>2, <2>1 DEF Moves, Moved
  <2>3. IsOrder(moved)
    BY <2>1, <2>2, MovedIsOrder DEF UseInv
  <2> QED BY <2>1, <2>3 DEF UseInv
<1> QED BY <1>1, <1>2, EncoderMoves

LEMMA UseInvariant == Spec => [](ScsuInv /\ UseInv)
<1>1. Init => ScsuInv /\ UseInv
  BY InitScsuInv, NewOrder DEF Init, UseInv
<1>2. (ScsuInv /\ UseInv) /\ [Next]_vars => (ScsuInv /\ UseInv)'
  BY NextPreserves, OrderPreserved
<1> QED BY <1>1, <1>2, PTL DEF Spec

\* A window that is selected, and no other, becomes the most recently used one,
\* in texts of any length: the ring of windowUse holds every window once,
\* wherever it begins, so the least recently used one is given up and the search
\* for a window in it ends.
THEOREM WindowsAgeInOrder == Spec => WindowUseIsRecency
<1>1. ASSUME ScsuInv /\ UseInv, [Next]_vars
      PROVE  ~flush' /\ <<enc.window, UseOrder(enc)>>' # <<enc.window, UseOrder(enc)>> =>
               LET others == Windows \ {enc'.window}
               IN  UsedBefore(enc') =
                     (UsedBefore(enc) \cap (others \X others)) \cup (others \X {enc'.window})
  <2>1. ASSUME ~flush', <<enc.window, UseOrder(enc)>>' # <<enc.window, UseOrder(enc)>>
        PROVE  Moved(UseOrder(enc), enc')
    BY <1>1, <2>1, EncoderMoves DEF Moves
  <2>2. ASSUME Moved(UseOrder(enc), enc')
        PROVE  UsedBefore(enc') =
                 (UsedBefore(enc) \cap ((Windows \ {enc'.window}) \X (Windows \ {enc'.window})))
                   \cup ((Windows \ {enc'.window}) \X {enc'.window})
    BY <1>1, <2>2, BeforeMoved DEF UseInv
  <2> QED BY <2>1, <2>2
<1>2. ScsuInv /\ UseInv /\ [Next]_vars =>
        [~flush' /\ <<enc.window, UseOrder(enc)>>' # <<enc.window, UseOrder(enc)>> =>
           LET others == Windows \ {enc'.window}
           IN  UsedBefore(enc') =
                 (UsedBefore(enc) \cap (others \X others)) \cup (others \X {enc'.window})]_vars
  BY <1>1
<1> QED BY <1>2, UseInvariant, PTL DEF Spec, WindowUseIsRecency

\* The size that the converter declares is enough: no character, of any text and
\* in any state of the windows, takes more than three bytes a unit, nor does what
\* replaces an unmatched surrogate.
THEOREM DeclaredSizeIsEnough == Spec => []ThreeBytesPerUnit
<1> DEFINE Short == Len(wire \o held) <= 3 * Len(given)
<1>1. Init => Short
  BY DEF Init
<1>2. ScsuInv /\ Short /\ [Next]_vars => Short'
  <2> SUFFICES ASSUME ScsuInv, Short, [Next]_vars
               PROVE  Short'
    OBVIOUS
  <2>1. CASE Written
    BY <2>1, WrittenIs
  <2>2. CASE WrittenLast
    BY <2>2, WrittenLastIs
  <2>3. CASE WritesNothing
    <3>1. Len(given') \in Nat /\ Len(wire' \o held') = 0
      BY <2>3, EmptySeq DEF WritesNothing
    <3> QED BY <3>1
  <2>4. CASE OnlyMoves
    BY <2>4 DEF OnlyMoves, ScsuInv, TextInv
  <2> QED BY <2>1, <2>2, <2>3, <2>4, StepKinds
<1> HIDE DEF Short
<1>3. Spec => []Short
  BY <1>1, <1>2, ScsuInvariant, PTL DEF Spec
<1> QED BY <1>3 DEF Short, ThreeBytesPerUnit
=============================================================================
