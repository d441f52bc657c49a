------------------------- MODULE ScsuBuffersProofs --------------------------
(***************************************************************************)
(* Proofs about ScsuBuffers, for any bytes: the decoder stays in its       *)
(* ranges, and where the sizes of the buffers matter and where they do     *)
(* not.                                                                    *)
(***************************************************************************)
EXTENDS ScsuBuffers, ScsuLemmas

-----------------------------------------------------------------------------
(* The ranges of a decoder.                                                  *)

\* An offset of a window all of whose characters exist.
Holds(o) == o \in Characters /\ o + 127 \in Characters

\* The first byte of an extended definition leaves five bits for the offset.
Sound(d) ==
  /\ d \in Decoder
  /\ \A w \in Windows : Holds(d.offsets[w])
  /\ d.state = "definePairTwo" => d.one <= 31

\* What a byte leads to: a decoder and what it has written.
SoundResult(r) == Sound(r.d) /\ r.out \in Seq(Units)

LEMMA ByteIs ==
  ASSUME NEW b \in Bytes
  PROVE  b \in Int /\ 0 <= b /\ b <= 255
BY SMT DEF Bytes

LEMMA HoldsIs ==
  ASSUME NEW o
  PROVE  Holds(o) <=> o \in Int /\ 0 <= o /\ o <= 1113984
<1>1. MaxCharacter \in Int /\ MaxCharacter = 1114111
  BY MaxCharacterIs
<1>2. o \in Characters <=> o \in Int /\ 0 <= o /\ o <= MaxCharacter
  BY CharactersAre
<1>3. o + 127 \in Characters <=> o + 127 \in Int /\ 0 <= o + 127 /\ o + 127 <= MaxCharacter
  BY CharactersAre
<1> QED BY <1>1, <1>2, <1>3, SMT DEF Holds

LEMMA DefinedOffsetIs ==
  ASSUME NEW b \in Bytes, ~Reserved(b)
  PROVE  DefinedOffset(b) \in Int /\ 0 <= DefinedOffset(b) /\ DefinedOffset(b) <= 65408
<1>1. b \in Int /\ 0 <= b /\ b <= 255
  BY ByteIs
<1>2. CASE b < gapThreshold
  BY <1>1, <1>2, SMT DEF DefinedOffset, gapThreshold
<1>3. CASE ~(b < gapThreshold) /\ b < reservedStart
  BY <1>1, <1>3, SMT DEF DefinedOffset, gapThreshold, reservedStart, gapOffset
<1>4. CASE ~(b < gapThreshold) /\ ~(b < reservedStart)
  <2>1. DefinedOffset(b) = fixedOffsets[b - fixedThreshold]
    BY <1>4, Zenon DEF DefinedOffset
  <2>2. b >= 249
    BY <1>1, <1>4, SMT DEF Reserved, reservedStart, fixedThreshold
  <2>3. PICK i : i = b - fixedThreshold
    OBVIOUS
  <2>4. i = 0 \/ i = 1 \/ i = 2 \/ i = 3 \/ i = 4 \/ i = 5 \/ i = 6
    BY <1>1, <2>2, <2>3, SMT DEF fixedThreshold
  <2>5. fixedOffsets[i] \in Int /\ 0 <= fixedOffsets[i] /\ fixedOffsets[i] <= 65408
    BY <2>4, FixedOffsetsAre
  <2> QED BY <2>1, <2>3, <2>5
<1> QED BY <1>2, <1>3, <1>4

LEMMA StaticsAreBasic ==
  ASSUME NEW w \in Windows
  PROVE  staticOffsets[w] \in Int /\ 0 <= staticOffsets[w] /\ staticOffsets[w] <= 12288
<1>1. w = 0 \/ w = 1 \/ w = 2 \/ w = 3 \/ w = 4 \/ w = 5 \/ w = 6 \/ w = 7
  BY SMT DEF Windows
<1> QED BY <1>1, SMT DEF staticOffsets, Windows

LEMMA InitialsAreBasic ==
  ASSUME NEW w \in Windows
  PROVE  /\ initialDynamicOffsets[w] \in Int
         /\ 0 <= initialDynamicOffsets[w] /\ initialDynamicOffsets[w] <= 65280
<1>1. w = 0 \/ w = 1 \/ w = 2 \/ w = 3 \/ w = 4 \/ w = 5 \/ w = 6 \/ w = 7
  BY SMT DEF Windows
<1> QED BY <1>1, SMT DEF initialDynamicOffsets, Windows

LEMMA NewIsSound == Sound(NewDecoder)
<1>1. ASSUME NEW w \in Windows
      PROVE  Holds(initialDynamicOffsets[w])
  BY InitialsAreBasic, HoldsIs, SMT
<1>2. initialDynamicOffsets \in [Windows -> Characters]
  <2>1. \A w \in Windows : initialDynamicOffsets[w] \in Characters
    BY <1>1 DEF Holds
  <2>2. initialDynamicOffsets = [w \in Windows |-> initialDynamicOffsets[w]]
    BY SMT DEF initialDynamicOffsets
  <2> QED BY <2>1, <2>2
<1>3. 0 \in Windows /\ 0 \in Bytes
  BY SMT DEF Windows, Bytes
<1>4. NewDecoder \in Decoder
  BY <1>2, <1>3, StatesAre DEF NewDecoder, Decoder
<1> QED BY <1>1, <1>4 DEF NewDecoder, Sound

-----------------------------------------------------------------------------
(* What the decoder does with a byte, whichever it is.                       *)

SingleResult(d, b, r) ==
  \/ Direct(b) /\ r = Wrote(d, <<b>>)
  \/ b >= 128 /\ r = Wrote(d, UnitsOf(d.offsets[d.window] + b - 128))
  \/ b \in SQ0..SQ0 + 7 /\ r = Expect([d EXCEPT !.quote = b - SQ0], "quoteOne")
  \/ r = Expect(d, "definePairOne") \/ r = Expect(d, "quotePairOne")
  \/ r = Read([d EXCEPT !.single = FALSE])
  \/ b \in SC0..SC0 + 7 /\ r = Read([d EXCEPT !.window = b - SC0])
  \/ b \in SD0..SD0 + 7 /\ r = Expect([d EXCEPT !.window = b - SD0], "defineOne")
  \/ r = Illegal(d)

LEMMA SingleResults ==
  ASSUME NEW d, NEW b
  PROVE  SingleResult(d, b, ReadSingle(d, b))
BY DEF ReadSingle, SingleResult

UnicodeResult(d, b, r) ==
  \/ r = Expect([d EXCEPT !.one = b], "quotePairTwo")
  \/ b \in UC0..UC0 + 7 /\ r = Read([d EXCEPT !.single = TRUE, !.window = b - UC0])
  \/ b \in UD0..UD0 + 7 /\ r = Expect([d EXCEPT !.single = TRUE, !.window = b - UD0], "defineOne")
  \/ r = Expect([d EXCEPT !.single = TRUE], "definePairOne")
  \/ r = Expect(d, "quotePairOne") \/ r = Illegal(d)

LEMMA UnicodeResults ==
  ASSUME NEW d, NEW b
  PROVE  UnicodeResult(d, b, ReadUnicode(d, b))
BY DEF ReadUnicode, UnicodeResult

\* The offset of a window defined as extended.
ExtendedOffset(d, b) == 65536 + 32768 * d.one + 128 * b

Result(d, b, room, r) ==
  \/ d.state = "readCommand" /\ r = ReadSingle(d, b)
  \/ d.state = "readCommand" /\ r = ReadUnicode(d, b)
  \/ d.state = "quotePairOne" /\ r = Expect([d EXCEPT !.one = b], "quotePairTwo")
  \/ r = Wrote(In(d, "readCommand"), <<256 * d.one + b>>)
  \/ /\ d.state = "quoteOne"
     /\ r = Wrote(IF Len(Quoted(d, b)) > room THEN d ELSE In(d, "readCommand"), Quoted(d, b))
  \/ /\ d.state = "definePairOne"
     /\ r = Expect([d EXCEPT !.window = b \div 32, !.one = b % 32], "definePairTwo")
  \/ /\ d.state = "definePairTwo"
     /\ r = Read([In(d, "readCommand") EXCEPT !.offsets[d.window] = ExtendedOffset(d, b)])
  \/ r = Read(d)
  \/ /\ ~Reserved(b)
     /\ r = Read([In(d, "readCommand") EXCEPT !.offsets[d.window] = DefinedOffset(b)])

LEMMA Results ==
  ASSUME NEW d \in Decoder, NEW b, NEW room
  PROVE  Result(d, b, room, Decode(d, b, room))
BY DEF Decode, Result, In, ExtendedOffset

LEMMA SoundIn ==
  ASSUME NEW d, Sound(d), NEW s \in DecoderStates, s # "definePairTwo"
  PROVE  Sound([d EXCEPT !.state = s])
BY DEF Sound, Decoder

LEMMA SoundUpdates ==
  ASSUME NEW d, Sound(d)
  PROVE  /\ \A w \in Windows : Sound([d EXCEPT !.quote = w])
         /\ \A w \in Windows : Sound([d EXCEPT !.window = w])
         /\ \A m \in BOOLEAN : Sound([d EXCEPT !.single = m])
         /\ d.state # "definePairTwo" => \A b \in Bytes : Sound([d EXCEPT !.one = b])
BY DEF Sound, Decoder

LEMMA SoundDefines ==
  ASSUME NEW d, Sound(d), NEW o, Holds(o)
  PROVE  Sound([In(d, "readCommand") EXCEPT !.offsets[d.window] = o])
<1>1. o \in Characters
  BY DEF Holds
<1>2. PICK f : f = [d.offsets EXCEPT ![d.window] = o]
  OBVIOUS
<1>3. d.offsets \in [Windows -> Characters] /\ d.window \in Windows
  BY DEF Sound, Decoder
<1>4. f \in [Windows -> Characters]
  BY <1>1, <1>2, <1>3
<1>5. \A w \in Windows : f[w] = o \/ f[w] = d.offsets[w]
  BY <1>2, <1>3
<1>6. \A w \in Windows : Holds(f[w])
  BY <1>5 DEF Sound
<1>7. PICK e : e = [In(d, "readCommand") EXCEPT !.offsets[d.window] = o]
  OBVIOUS
<1>8. e = [In(d, "readCommand") EXCEPT !.offsets = f]
  BY <1>2, <1>7 DEF In, Sound, Decoder
<1>9. e \in Decoder /\ e.offsets = f /\ e.state = "readCommand"
  BY <1>4, <1>8, StatesAre DEF In, Sound, Decoder
<1>10. Sound(e)
  BY <1>6, <1>9 DEF Sound
<1> QED BY <1>7, <1>10

LEMMA SoundResults ==
  ASSUME NEW d, Sound(d)
  PROVE  /\ \A out \in Seq(Units) : SoundResult(Wrote(d, out))
         /\ SoundResult(Read(d)) /\ SoundResult(Illegal(d))
         /\ \A s \in DecoderStates : s # "definePairTwo" => SoundResult(Expect(d, s))
<1>1. <<>> \in Seq(Units)
  BY EmptySeq
<1>2. \A s \in DecoderStates : s # "definePairTwo" => Sound([d EXCEPT !.state = s])
  BY SoundIn
<1> QED BY <1>1, <1>2 DEF SoundResult, Wrote, Read, Illegal, Expect

\* The character of a byte from 128 on in a dynamic window.
LEMMA WindowedIsCharacter ==
  ASSUME NEW d, Sound(d), NEW w \in Windows, NEW b \in Bytes, b >= 128
  PROVE  d.offsets[w] + b - 128 \in Characters
<1>1. PICK o : o = d.offsets[w]
  OBVIOUS
<1>2. o \in Int /\ 0 <= o /\ o <= 1113984
  BY <1>1, HoldsIs DEF Sound
<1>3. b \in Int /\ 128 <= b /\ b <= 255
  BY ByteIs, SMT
<1>4. MaxCharacter \in Int /\ MaxCharacter = 1114111
  BY MaxCharacterIs
<1>5. o + b - 128 \in Characters
  BY <1>2, <1>3, <1>4, CharactersAre, SMT
<1> QED BY <1>1, <1>5

LEMMA QuotedIsUnits ==
  ASSUME NEW d, Sound(d), NEW b \in Bytes
  PROVE  Quoted(d, b) \in Seq(Units)
<1>1. d.quote \in Windows /\ b \in Int /\ 0 <= b /\ b <= 255
  BY ByteIs DEF Sound, Decoder
<1>2. CASE b < 128
  <2>1. PICK c : c = staticOffsets[d.quote] + b
    OBVIOUS
  <2>2. PICK o : o = staticOffsets[d.quote]
    OBVIOUS
  <2>3. o \in Int /\ 0 <= o /\ o <= 12288
    BY <1>1, <2>2, StaticsAreBasic
  <2>4. MaxCharacter \in Int /\ MaxCharacter = 1114111
    BY MaxCharacterIs
  <2>5. c \in Characters
    BY <1>1, <1>2, <2>1, <2>2, <2>3, <2>4, CharactersAre, SMT
  <2> QED BY <1>2, <2>1, <2>5, UnitsOfType DEF Quoted
<1>3. CASE ~(b < 128)
  <2>1. b >= 128
    BY <1>1, <1>3, SMT
  <2>2. PICK c : c = d.offsets[d.quote] + b - 128
    OBVIOUS
  <2>3. c \in Characters
    BY <1>1, <2>1, <2>2, WindowedIsCharacter
  <2> QED BY <1>3, <2>2, <2>3, UnitsOfType DEF Quoted
<1> QED BY <1>2, <1>3

LEMMA SingleIsSound ==
  ASSUME NEW d, Sound(d), d.state = "readCommand", NEW b \in Bytes
  PROVE  SoundResult(ReadSingle(d, b))
<1>b. b \in Int /\ 0 <= b /\ b <= 255
  BY ByteIs
<1>r. PICK r : r = ReadSingle(d, b)
  OBVIOUS
<1>1. CASE Direct(b) /\ r = Wrote(d, <<b>>)
  <2>1. <<b>> \in Seq(Units)
    BY BytesAreUnits, OneTuple
  <2> QED BY <1>1, <2>1, <1>r, SoundResults
<1>2. CASE b >= 128 /\ r = Wrote(d, UnitsOf(d.offsets[d.window] + b - 128))
  <2>1. d.window \in Windows
    BY DEF Sound, Decoder
  <2>2. PICK c : c = d.offsets[d.window] + b - 128
    OBVIOUS
  <2>3. UnitsOf(c) \in Seq(Units)
    BY <1>2, <2>1, <2>2, WindowedIsCharacter, UnitsOfType
  <2> QED BY <1>2, <2>2, <2>3, <1>r, SoundResults
<1>3. CASE b \in SQ0..SQ0 + 7 /\ r = Expect([d EXCEPT !.quote = b - SQ0], "quoteOne")
  <2>1. b - SQ0 \in Windows
    BY <1>3, <1>b, SMT DEF SQ0, Windows
  <2>2. Sound([d EXCEPT !.quote = b - SQ0])
    BY <2>1, SoundUpdates
  <2> QED BY <1>3, <2>2, <1>r, SoundResults, StatesAre
<1>4. CASE r = Expect(d, "definePairOne") \/ r = Expect(d, "quotePairOne") \/ r = Illegal(d)
  BY <1>4, <1>r, SoundResults, StatesAre
<1>5. CASE r = Read([d EXCEPT !.single = FALSE])
  <2>1. Sound([d EXCEPT !.single = FALSE])
    BY SoundUpdates
  <2> QED BY <1>5, <2>1, <1>r, SoundResults
<1>6. CASE b \in SC0..SC0 + 7 /\ r = Read([d EXCEPT !.window = b - SC0])
  <2>1. b - SC0 \in Windows
    BY <1>6, <1>b, SMT DEF SC0, Windows
  <2>2. Sound([d EXCEPT !.window = b - SC0])
    BY <2>1, SoundUpdates
  <2> QED BY <1>6, <2>2, <1>r, SoundResults
<1>7. CASE b \in SD0..SD0 + 7 /\ r = Expect([d EXCEPT !.window = b - SD0], "defineOne")
  <2>1. b - SD0 \in Windows
    BY <1>7, <1>b, SMT DEF SD0, Windows
  <2>2. Sound([d EXCEPT !.window = b - SD0])
    BY <2>1, SoundUpdates
  <2> QED BY <1>7, <2>2, <1>r, SoundResults, StatesAre
<1>8. SingleResult(d, b, r)
  BY <1>r, SingleResults
<1> QED BY <1>1, <1>2, <1>3, <1>4, <1>5, <1>6, <1>7, <1>8 DEF SingleResult

LEMMA UnicodeIsSound ==
  ASSUME NEW d, Sound(d), d.state = "readCommand", NEW b \in Bytes
  PROVE  SoundResult(ReadUnicode(d, b))
<1>b. b \in Int /\ 0 <= b /\ b <= 255
  BY ByteIs
<1>r. PICK r : r = ReadUnicode(d, b)
  OBVIOUS
<1>1. CASE r = Expect([d EXCEPT !.one = b], "quotePairTwo")
  <2>1. Sound([d EXCEPT !.one = b])
    BY SoundUpdates
  <2> QED BY <1>1, <2>1, <1>r, SoundResults, StatesAre
<1>2. CASE b \in UC0..UC0 + 7 /\ r = Read([d EXCEPT !.single = TRUE, !.window = b - UC0])
  <2>1. b - UC0 \in Windows
    BY <1>2, <1>b, SMT DEF UC0, Windows
  <2>2. PICK e : e = [d EXCEPT !.single = TRUE]
    OBVIOUS
  <2>3. Sound(e) /\ [d EXCEPT !.single = TRUE, !.window = b - UC0] = [e EXCEPT !.window = b - UC0]
    BY <2>2, SoundUpdates
  <2>4. Sound([d EXCEPT !.single = TRUE, !.window = b - UC0])
    BY <2>1, <2>3, SoundUpdates
  <2> QED BY <1>2, <2>4, <1>r, SoundResults
<1>3. CASE b \in UD0..UD0 + 7 /\ r = Expect([d EXCEPT !.single = TRUE, !.window = b - UD0], "defineOne")
  <2>1. b - UD0 \in Windows
    BY <1>3, <1>b, SMT DEF UD0, Windows
  <2>2. PICK e : e = [d EXCEPT !.single = TRUE]
    OBVIOUS
  <2>3. Sound(e) /\ [d EXCEPT !.single = TRUE, !.window = b - UD0] = [e EXCEPT !.window = b - UD0]
    BY <2>2, SoundUpdates
  <2>4. Sound([d EXCEPT !.single = TRUE, !.window = b - UD0])
    BY <2>1, <2>3, SoundUpdates
  <2> QED BY <1>3, <2>4, <1>r, SoundResults, StatesAre
<1>4. CASE r = Expect([d EXCEPT !.single = TRUE], "definePairOne")
  <2>1. Sound([d EXCEPT !.single = TRUE])
    BY SoundUpdates
  <2> QED BY <1>4, <2>1, <1>r, SoundResults, StatesAre
<1>5. CASE r = Expect(d, "quotePairOne") \/ r = Illegal(d)
  BY <1>5, <1>r, SoundResults, StatesAre
<1>6. UnicodeResult(d, b, r)
  BY <1>r, UnicodeResults
<1> QED BY <1>1, <1>2, <1>3, <1>4, <1>5, <1>6 DEF UnicodeResult

\* A window defined as extended ends with the last character.
LEMMA ExtendedHolds ==
  ASSUME NEW one \in Bytes, one <= 31, NEW b \in Bytes
  PROVE  Holds(65536 + 32768 * one + 128 * b)
<1>1. /\ one \in Int /\ 0 <= one /\ one <= 31
      /\ b \in Int /\ 0 <= b /\ b <= 255
  BY ByteIs
<1>2. PICK o : o = 65536 + 32768 * one + 128 * b
  OBVIOUS
<1>3. o \in Int /\ 0 <= o /\ o <= 1113984
  BY <1>1, <1>2, SMT
<1> QED BY <1>2, <1>3, HoldsIs

\* The two halves of the first byte of an extended definition.
LEMMA ExtendedHalves ==
  ASSUME NEW b \in Bytes
  PROVE  b \div 32 \in Windows /\ b % 32 \in Bytes /\ b % 32 <= 31
<1>1. b \in Int /\ 0 <= b /\ b <= 255
  BY ByteIs
<1> QED BY <1>1, SMT DEF Windows, Bytes

LEMMA DecodeIsSound ==
  ASSUME NEW d, Sound(d), NEW b \in Bytes, NEW room
  PROVE  SoundResult(Decode(d, b, room))
<1>b. b \in Int /\ 0 <= b /\ b <= 255
  BY ByteIs
<1>d. d \in Decoder /\ d.one \in Bytes /\ d.window \in Windows
  BY DEF Sound, Decoder
<1>i. Sound(In(d, "readCommand"))
  <2>1. "readCommand" # "definePairTwo"
    OBVIOUS
  <2> QED BY <2>1, SoundIn, StatesAre DEF In
<1>r. PICK r : r = Decode(d, b, room)
  OBVIOUS
<1>1. CASE d.state = "readCommand" /\ r = ReadSingle(d, b)
  BY <1>1, <1>r, SingleIsSound
<1>2. CASE d.state = "readCommand" /\ r = ReadUnicode(d, b)
  BY <1>2, <1>r, UnicodeIsSound
<1>3. CASE d.state = "quotePairOne" /\ r = Expect([d EXCEPT !.one = b], "quotePairTwo")
  <2>1. Sound([d EXCEPT !.one = b])
    BY <1>3, SoundUpdates
  <2> QED BY <1>3, <2>1, <1>r, SoundResults, StatesAre
<1>4. CASE r = Wrote(In(d, "readCommand"), <<256 * d.one + b>>)
  <2>1. 256 * d.one + b \in Units
    <3>1. d.one \in Int /\ 0 <= d.one /\ d.one <= 255
      BY <1>d, ByteIs
    <3> QED BY <3>1, <1>b, UnitsAre, SMT
  <2>2. <<256 * d.one + b>> \in Seq(Units)
    BY <2>1, OneTuple
  <2> QED BY <1>4, <2>2, <1>i, <1>r, SoundResults
<1>5. CASE r = Wrote(IF Len(Quoted(d, b)) > room THEN d ELSE In(d, "readCommand"), Quoted(d, b))
  <2>1. PICK e : e = IF Len(Quoted(d, b)) > room THEN d ELSE In(d, "readCommand")
    OBVIOUS
  <2>2. e = d \/ e = In(d, "readCommand")
    BY <2>1
  <2>3. Sound(e)
    BY <2>2, <1>i
  <2>4. SoundResult(Wrote(e, Quoted(d, b)))
    BY <2>3, QuotedIsUnits, SoundResults
  <2> QED BY <1>5, <2>1, <2>4, <1>r
<1>6. CASE /\ d.state = "definePairOne"
           /\ r = Expect([d EXCEPT !.window = b \div 32, !.one = b % 32], "definePairTwo")
  <2>1. PICK w, q : w = b \div 32 /\ q = b % 32
    OBVIOUS
  <2>2. w \in Windows /\ q \in Bytes /\ q <= 31
    BY <2>1, ExtendedHalves
  <2>3. PICK e : e = [[d EXCEPT !.window = w, !.one = q] EXCEPT !.state = "definePairTwo"]
    OBVIOUS
  <2>4. e \in Decoder /\ e.one = q /\ e.offsets = d.offsets
    BY <1>d, <2>2, <2>3, StatesAre DEF Decoder
  <2>5. Sound(e)
    BY <2>2, <2>4 DEF Sound
  <2>6. r.d = e /\ r.out = <<>>
    BY <1>6, <2>1, <2>3 DEF Expect, Read, Wrote
  <2> QED BY <2>5, <2>6, <1>r, EmptySeq DEF SoundResult
<1>7. CASE /\ d.state = "definePairTwo"
           /\ r = Read([In(d, "readCommand") EXCEPT !.offsets[d.window] = ExtendedOffset(d, b)])
  <2>1. PICK o : o = ExtendedOffset(d, b)
    OBVIOUS
  <2>2. Holds(o)
    BY <1>7, <1>d, <2>1, ExtendedHolds DEF Sound, ExtendedOffset
  <2>3. Sound([In(d, "readCommand") EXCEPT !.offsets[d.window] = o])
    BY <2>2, SoundDefines
  <2> QED BY <1>7, <2>1, <2>3, <1>r, SoundResults
<1>8. CASE r = Read(d)
  <2>1. SoundResult(Read(d))
    BY SoundResults
  <2> QED BY <1>8, <2>1, <1>r
<1>9. CASE /\ ~Reserved(b)
           /\ r = Read([In(d, "readCommand") EXCEPT !.offsets[d.window] = DefinedOffset(b)])
  <2>1. PICK o : o = DefinedOffset(b)
    OBVIOUS
  <2>2. Holds(o)
    BY <1>9, <2>1, DefinedOffsetIs, HoldsIs, SMT
  <2>3. Sound([In(d, "readCommand") EXCEPT !.offsets[d.window] = o])
    BY <2>2, SoundDefines
  <2> QED BY <1>9, <2>1, <2>3, <1>r, SoundResults
<1>10. Result(d, b, room, r)
  BY <1>d, <1>r, Results
<1> QED BY <1>1, <1>2, <1>3, <1>4, <1>5, <1>6, <1>7, <1>8, <1>9, <1>10 DEF Result

-----------------------------------------------------------------------------
(* The room that is left.                                                    *)

LEMMA UnitsAreFew ==
  ASSUME NEW c
  PROVE  Len(UnitsOf(c)) = 1 \/ Len(UnitsOf(c)) = 2
BY SMT DEF UnitsOf

LEMMA QuotedIsShort ==
  ASSUME NEW d, NEW b
  PROVE  Len(Quoted(d, b)) = 1 \/ Len(Quoted(d, b)) = 2
BY UnitsAreFew DEF Quoted

\* Both converters write the same; they part only behind a quoted pair.
LEMMA RoomMatters ==
  ASSUME NEW d \in Decoder, NEW b, NEW room \in 1..2
  PROVE  /\ Decode(d, b, room).out = Decode(d, b, 2).out
         /\ \/ Decode(d, b, room).d = Decode(d, b, 2).d
            \/ /\ d.state = "quoteOne" /\ Len(Quoted(d, b)) = 2
               /\ Decode(d, b, 2).out = Quoted(d, b)
<1>1. CASE d.state # "quoteOne"
  <2>1. Decode(d, b, room) = Decode(d, b, 2)
    BY <1>1 DEF Decode
  <2> QED BY <2>1
<1>2. CASE d.state = "quoteOne"
  <2>1. \A k : Decode(d, b, k) = Wrote(IF Len(Quoted(d, b)) > k THEN d ELSE In(d, "readCommand"),
                                       Quoted(d, b))
    BY <1>2, SMT DEF Decode, In
  <2>e. \A e, out : Wrote(e, out).d = e /\ Wrote(e, out).out = out
    BY SMT DEF Wrote
  <2>2. \A k : Decode(d, b, k).out = Quoted(d, b)
    BY <2>1, <2>e
  <2>3. \A k : Decode(d, b, k).d = IF Len(Quoted(d, b)) > k THEN d ELSE In(d, "readCommand")
    BY <2>1, <2>e, Zenon
  <2>4. CASE Len(Quoted(d, b)) = 2
    BY <1>2, <2>2, <2>4
  <2>5. CASE Len(Quoted(d, b)) = 1
    <3>1. ~(Len(Quoted(d, b)) > room) /\ ~(Len(Quoted(d, b)) > 2)
      BY <2>5, SMT
    <3> QED BY <3>1, <2>2, <2>3, Zenon
  <2> QED BY <2>4, <2>5, QuotedIsShort
<1> QED BY <1>1, <1>2
\* In a basic window every character takes one unit, and so does every static one.
LEMMA BasicIsOneUnit ==
  ASSUME NEW d, Sound(d), NEW b \in Bytes, \A w \in Windows : d.offsets[w] + 127 \in Units
  PROVE  Len(Quoted(d, b)) = 1
<1>1. d.quote \in Windows /\ b \in Int /\ 0 <= b /\ b <= 255
  BY ByteIs DEF Sound, Decoder
<1>2. CASE b < 128
  <2>1. PICK c : c = staticOffsets[d.quote] + b
    OBVIOUS
  <2>2. PICK o : o = staticOffsets[d.quote]
    OBVIOUS
  <2>3. o \in Int /\ 0 <= o /\ o <= 12288
    BY <1>1, <2>2, StaticsAreBasic
  <2>4. c \in Units
    BY <1>1, <1>2, <2>1, <2>2, <2>3, UnitsAre, SMT
  <2>5. Quoted(d, b) = <<c>>
    BY <1>2, <2>1, <2>4, UnitItself DEF Quoted
  <2> QED BY <2>5
<1>3. CASE ~(b < 128)
  <2>1. PICK c : c = d.offsets[d.quote] + b - 128
    OBVIOUS
  <2>2. PICK o : o = d.offsets[d.quote]
    OBVIOUS
  <2>3. o \in Int /\ 0 <= o
    BY <1>1, <2>2, HoldsIs DEF Sound
  <2>4. o + 127 \in Int /\ o + 127 <= 65535
    <3>1. o + 127 \in Units
      BY <1>1, <2>2
    <3> QED BY <3>1, UnitsAre
  <2>5. c \in Units
    BY <1>1, <1>3, <2>1, <2>2, <2>3, <2>4, UnitsAre, SMT
  <2>6. Quoted(d, b) = <<c>>
    BY <1>3, <2>1, <2>5, UnitItself DEF Quoted
  <2> QED BY <2>6
<1> QED BY <1>2, <1>3

-----------------------------------------------------------------------------
(* The steps.                                                                *)

\* A byte is fed, and what does not fit the buffer is pending.
Fed(b, room) ==
  /\ b \in Input /\ room \in 1..2 /\ pending = <<>>
  /\ dec' = Decode(dec, b, room).d
  /\ twin' = Decode(twin, b, 2).d /\ expected' = Decode(twin, b, 2).out
  /\ written' \in Seq(Units) /\ pending' \in Seq(Units)
  /\ written' \o pending' = Decode(dec, b, room).out

LEMMA FeedIs ==
  ASSUME Input \subseteq Bytes, Sound(dec), Feed
  PROVE  \E b \in Input, room \in 1..2 : Fed(b, room)
<1>1. PICK b \in Input, room \in 1..2 :
        LET read == Decode(dec, b, room)
            fits == IF Len(read.out) > room THEN room ELSE Len(read.out)
            other == Decode(twin, b, 2)
        IN  /\ dec' = read.d
            /\ written' = SubSeq(read.out, 1, fits)
            /\ pending' = SubSeq(read.out, fits + 1, Len(read.out))
            /\ twin' = other.d /\ expected' = other.out
  BY DEF Feed
<1>2. PICK out : out = Decode(dec, b, room).out
  OBVIOUS
<1>3. PICK fits : fits = IF Len(out) > room THEN room ELSE Len(out)
  OBVIOUS
<1>4. out \in Seq(Units)
  BY <1>2, DecodeIsSound DEF SoundResult
<1>5. Len(out) \in Nat
  BY <1>4
<1>6. fits \in 0..Len(out)
  BY <1>3, <1>5, SMT
<1>7. written' = SubSeq(out, 1, fits) /\ pending' = SubSeq(out, fits + 1, Len(out))
  BY <1>1, <1>2, <1>3
<1>8. /\ written' \in Seq(Units) /\ pending' \in Seq(Units)
      /\ written' \o pending' = out
  BY <1>4, <1>6, <1>7, Cut
<1>9. pending = <<>>
  BY DEF Feed
<1>10. Fed(b, room)
  BY <1>1, <1>2, <1>8, <1>9 DEF Fed
<1> QED BY <1>10

BuffersInv == BuffersTypeOK /\ Sound(dec) /\ Sound(twin)

LEMMA InitKeepsRanges == Init => BuffersInv
BY NewIsSound, EmptySeq DEF Init, BuffersInv, BuffersTypeOK, Sound

LEMMA StepKeepsRanges ==
  ASSUME Input \subseteq Bytes, BuffersInv, [Next]_vars
  PROVE  BuffersInv'
<1> USE DEF BuffersInv
<1>1. CASE Feed
  <2>1. PICK b \in Input, room \in 1..2 : Fed(b, room)
    BY <1>1, FeedIs
  <2>2. b \in Bytes
    OBVIOUS
  <2>3. SoundResult(Decode(dec, b, room)) /\ SoundResult(Decode(twin, b, 2))
    BY <2>2, DecodeIsSound
  <2> QED BY <2>1, <2>3 DEF Fed, SoundResult, Sound, BuffersTypeOK
<1>2. CASE TakePending
  <2>1. written \o pending \in Seq(Units)
    BY ConcatProperties DEF BuffersTypeOK
  <2> QED BY <1>2, <2>1, EmptySeq DEF TakePending, BuffersTypeOK, Sound
<1>3. CASE UNCHANGED vars
  BY <1>3 DEF vars, BuffersTypeOK, Sound
<1> QED BY <1>1, <1>2, <1>3 DEF Next

\* Whatever the bytes, from whatever encoder or none, every offset stays that of a
\* window of characters, so that what is written is UTF-16 and no character is
\* beyond the last one (the five and eight bits of an extended definition, the
\* tables, the gap: ucnvscsu.c, _SCSUToUnicodeWithOffsets).
THEOREM BuffersTypesCorrect ==
  ASSUME Input \subseteq Bytes
  PROVE  Spec => []BuffersTypeOK
<1>1. Init => BuffersInv
  BY InitKeepsRanges
<1>2. BuffersInv /\ [Next]_vars => BuffersInv'
  BY StepKeepsRanges
<1>3. BuffersInv => BuffersTypeOK
  BY DEF BuffersInv
<1> QED BY <1>1, <1>2, <1>3, PTL DEF Spec

\* The size of the target buffer shows in one place only: behind the quoted
\* character that takes two units, where the decoder is left before its state is
\* set back. In every other state and for every other byte both write the same
\* and stay in one state.
THEOREM OnlyQuotedPairsPartThem ==
  ASSUME Input \subseteq Bytes
  PROVE  Spec => OnlyQuotedPairsMatter
<1>1. Init => BuffersInv
  BY InitKeepsRanges
<1>2. BuffersInv /\ [Next]_vars => BuffersInv'
  BY StepKeepsRanges
<1>3. BuffersInv /\ [Next]_vars =>
        [dec = twin /\ pending = <<>> =>
           /\ written' \o pending' = expected'
           /\ dec' = twin' \/ (dec.state = "quoteOne" /\ Len(expected') = 2)]_vars
  <2> SUFFICES ASSUME BuffersInv, Next, dec = twin, pending = <<>>
               PROVE  /\ written' \o pending' = expected'
                      /\ dec' = twin' \/ (dec.state = "quoteOne" /\ Len(expected') = 2)
    OBVIOUS
  <2>1. PICK b \in Input, room \in 1..2 : Fed(b, room)
    BY FeedIs DEF Next, TakePending, BuffersInv
  <2>2. dec \in Decoder
    BY DEF BuffersInv, Sound
  <2>3. /\ Decode(dec, b, room).out = Decode(dec, b, 2).out
        /\ \/ Decode(dec, b, room).d = Decode(dec, b, 2).d
           \/ /\ dec.state = "quoteOne" /\ Len(Quoted(dec, b)) = 2
              /\ Decode(dec, b, 2).out = Quoted(dec, b)
    BY <2>2, RoomMatters
  <2> QED BY <2>1, <2>3 DEF Fed
<1> QED BY <1>1, <1>2, <1>3, PTL DEF Spec, OnlyQuotedPairsMatter

-----------------------------------------------------------------------------
(* Without extended windows.                                                 *)

Together ==
  /\ BuffersInv
  /\ dec = twin
  /\ BufferSizesDoNotMatter

LEMMA StepsTogether ==
  ASSUME Input \subseteq Bytes, Together, BasicWindows, [Next]_vars
  PROVE  Together'
<1>1. BuffersInv'
  BY StepKeepsRanges DEF Together
<1>2. CASE Feed
  <2>1. PICK b \in Input, room \in 1..2 : Fed(b, room)
    BY <1>2, FeedIs DEF Together, BuffersInv
  <2>2. dec = twin /\ Sound(dec) /\ dec \in Decoder /\ b \in Bytes
    BY DEF Together, BuffersInv, Sound
  <2>3. \A w \in Windows : dec.offsets[w] + 127 \in Units
    BY <2>2 DEF BasicWindows
  <2>4. Len(Quoted(dec, b)) # 2
    BY <2>2, <2>3, BasicIsOneUnit
  <2>5. /\ Decode(dec, b, room).out = Decode(dec, b, 2).out
        /\ Decode(dec, b, room).d = Decode(dec, b, 2).d
    BY <2>2, <2>4, RoomMatters
  <2> QED BY <1>1, <2>1, <2>2, <2>5 DEF Fed, Together, BufferSizesDoNotMatter
<1>3. CASE TakePending
  <2>1. written' = expected /\ pending' = <<>> /\ expected' = expected /\ dec' = dec /\ twin' = twin
    BY <1>3 DEF TakePending, Together, BufferSizesDoNotMatter
  <2>2. written' \o pending' = expected
    BY <2>1, ConcatEmptySeq DEF Together, BuffersInv, BuffersTypeOK
  <2> QED BY <1>1, <2>1, <2>2 DEF Together, BufferSizesDoNotMatter
<1>4. CASE UNCHANGED vars
  BY <1>1, <1>4 DEF vars, Together, BufferSizesDoNotMatter
<1> QED BY <1>2, <1>3, <1>4 DEF Next

\* As long as no window is defined as extended, the units that come out are the
\* same for every size of the target buffers: the windows of all scripts of the
\* Basic Multilingual Plane are safe.
THEOREM BasicWindowsDoNotPart ==
  ASSUME Input \subseteq Bytes
  PROVE  Spec /\ []BasicWindows => []BufferSizesDoNotMatter
<1>1. Init => Together
  <2>1. <<>> \o <<>> = <<>>
    BY EmptySeq, ConcatEmptySeq
  <2> QED BY <2>1, InitKeepsRanges DEF Init, Together, BufferSizesDoNotMatter
<1>2. Together /\ BasicWindows /\ [Next]_vars => Together'
  BY StepsTogether
<1>3. Together => BufferSizesDoNotMatter
  BY DEF Together
<1> QED BY <1>1, <1>2, <1>3, PTL DEF Spec
=============================================================================
