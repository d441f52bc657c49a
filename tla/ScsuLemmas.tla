----------------------------- MODULE ScsuLemmas -----------------------------
(***************************************************************************)
(* Lemmas about the operators of Scsu, for any state of the converters and *)
(* any character: what the decoder makes of the bytes that the encoder     *)
(* sends, how the windows age, and how many bytes a character takes.       *)
(***************************************************************************)
EXTENDS Scsu, SequenceTheorems, TLAPS

-----------------------------------------------------------------------------
(* What the decoder makes of a sequence of bytes. The units that a byte      *)
(* yields do not depend on the room there is for them.                       *)

Yields(d, b, out, d2) ==
  /\ d2 \in Decoder /\ out \in Seq(Units)
  /\ \A room \in 1..2 : Decode(d, b, room) = Wrote(d2, out)

\* ds: the states that it goes through; os: what it has still to write.
Goes(d, bytes, out, d2, ds, os) ==
  /\ ds[0] = d /\ ds[Len(bytes)] = d2
  /\ os[0] = out /\ os[Len(bytes)] = <<>>
  /\ \A i \in 1..Len(bytes) :
       \E o \in Seq(Units) : os[i - 1] = o \o os[i] /\ Yields(ds[i - 1], bytes[i], o, ds[i])

Reads(d, bytes, out, d2) ==
  /\ bytes \in Seq(Bytes)
  /\ \E ds \in [0..Len(bytes) -> Decoder], os \in [0..Len(bytes) -> Seq(Units)] :
       Goes(d, bytes, out, d2, ds, os)

LEMMA ReadsNothing ==
  ASSUME NEW d \in Decoder
  PROVE  Reads(d, <<>>, <<>>, d)
<1> DEFINE ds == [i \in 0..0 |-> d]
           os == [i \in 0..0 |-> <<>>]
<1>1. <<>> \in Seq(Bytes) /\ Len(<<>>) = 0 /\ <<>> \in Seq(Units)
  BY EmptySeq
<1>2. ds \in [0..0 -> Decoder] /\ os \in [0..0 -> Seq(Units)] /\ ds[0] = d /\ os[0] = <<>>
  BY <1>1
<1>3. Goes(d, <<>>, <<>>, d, ds, os)
  BY <1>1, <1>2 DEF Goes
<1> QED BY <1>1, <1>2, <1>3 DEF Reads

LEMMA NothingIsRead ==
  ASSUME NEW d, NEW out, NEW d2, Reads(d, <<>>, out, d2)
  PROVE  out = <<>> /\ d2 = d
<1>1. Len(<<>>) = 0
  BY EmptySeq
<1> QED BY <1>1 DEF Reads, Goes

LEMMA ReadsTyped ==
  ASSUME NEW d, NEW bytes, NEW out, NEW d2, Reads(d, bytes, out, d2)
  PROVE  d \in Decoder /\ d2 \in Decoder /\ out \in Seq(Units) /\ bytes \in Seq(Bytes)
<1>1. bytes \in Seq(Bytes) /\ Len(bytes) \in Nat
  BY LenProperties DEF Reads
<1>2. PICK n \in Nat : n = Len(bytes)
  BY <1>1
<1>3. PICK ds \in [0..n -> Decoder], os \in [0..n -> Seq(Units)] : Goes(d, bytes, out, d2, ds, os)
  BY <1>2 DEF Reads
<1>4. ds[0] = d /\ ds[n] = d2 /\ os[0] = out
  BY <1>2, <1>3 DEF Goes
<1> QED BY <1>1, <1>3, <1>4

LEMMA OneTuple ==
  ASSUME NEW S, NEW a \in S
  PROVE  <<a>> \in Seq(S) /\ <<a>> # <<>> /\ Head(<<a>>) = a /\ Tail(<<a>>) = <<>>
OBVIOUS

\* One byte before the others.
LEMMA ReadsOneMore ==
  ASSUME NEW d \in Decoder, NEW b \in Bytes, NEW o \in Seq(Units), NEW d1,
         Yields(d, b, o, d1),
         NEW bytes, NEW out, NEW d2, Reads(d1, bytes, out, d2)
  PROVE  Reads(d, <<b>> \o bytes, o \o out, d2)
<1>1. bytes \in Seq(Bytes) /\ out \in Seq(Units)
  BY ReadsTyped
<1>2. PICK n \in Nat : n = Len(bytes)
  BY <1>1, LenProperties
<1>3. PICK ds \in [0..n -> Decoder], os \in [0..n -> Seq(Units)] : Goes(d1, bytes, out, d2, ds, os)
  BY <1>2 DEF Reads
<1>4. PICK all \in Seq(Bytes) : all = <<b>> \o bytes
  <2>1. <<b>> \in Seq(Bytes)
    BY OneTuple
  <2> QED BY <1>1, <2>1, ConcatProperties
<1>5. /\ Len(all) = n + 1 /\ all[1] = b
      /\ \A i \in 2..n + 1 : all[i] = bytes[i - 1]
  BY <1>1, <1>2, <1>4, ConcatProperties, Z3
<1>6. PICK ds2 : ds2 = [i \in 0..n + 1 |-> IF i = 0 THEN d ELSE ds[i - 1]]
  OBVIOUS
<1>7. PICK os2 : os2 = [i \in 0..n + 1 |-> IF i = 0 THEN o \o out ELSE os[i - 1]]
  OBVIOUS
<1>8. o \o out \in Seq(Units)
  BY <1>1, ConcatProperties
<1>9. ds2 \in [0..n + 1 -> Decoder] /\ os2 \in [0..n + 1 -> Seq(Units)]
  BY <1>3, <1>6, <1>7, <1>8
<1>10. Goes(d, all, o \o out, d2, ds2, os2)
  <2>1. ds2[0] = d /\ ds2[n + 1] = d2 /\ os2[0] = o \o out /\ os2[n + 1] = <<>>
    BY <1>2, <1>3, <1>6, <1>7 DEF Goes
  <2>2. ASSUME NEW i \in 1..n + 1
        PROVE  \E p \in Seq(Units) : os2[i - 1] = p \o os2[i] /\ Yields(ds2[i - 1], all[i], p, ds2[i])
    <3>1. CASE i = 1
      <4>1. os2[0] = o \o os2[1] /\ ds2[0] = d /\ ds2[1] = d1 /\ all[1] = b
        BY <1>3, <1>5, <1>6, <1>7 DEF Goes
      <4>2. i - 1 = 0
        BY <3>1
      <4> QED BY <3>1, <4>1, <4>2
    <3>2. CASE i # 1
      <4>1. i - 1 \in 1..n /\ (i - 1) - 1 = i - 2
        BY <3>2
      <4>2. PICK p \in Seq(Units) :
              os[i - 2] = p \o os[i - 1] /\ Yields(ds[i - 2], bytes[i - 1], p, ds[i - 1])
        BY <1>2, <1>3, <4>1 DEF Goes
      <4>3. /\ os2[i - 1] = os[i - 2] /\ os2[i] = os[i - 1] /\ all[i] = bytes[i - 1]
            /\ ds2[i - 1] = ds[i - 2] /\ ds2[i] = ds[i - 1]
        <5>1. os2[i - 1] = os[i - 2] /\ os2[i] = os[i - 1]
          BY <1>7, <4>1
        <5>2. ds2[i - 1] = ds[i - 2] /\ ds2[i] = ds[i - 1]
          BY <1>6, <4>1
        <5>3. all[i] = bytes[i - 1]
          BY <1>5, <3>2
        <5> QED BY <5>1, <5>2, <5>3
      <4>4. os2[i - 1] = p \o os2[i] /\ Yields(ds2[i - 1], all[i], p, ds2[i])
        BY <4>2, <4>3, Zenon
      <4> QED BY <4>4, Zenon
    <3> QED BY <3>1, <3>2
  <2> QED BY <1>5, <2>1, <2>2 DEF Goes
<1> QED BY <1>4, <1>5, <1>9, <1>10 DEF Reads

\* The first byte, and the others.
LEMMA ReadsFirst ==
  ASSUME NEW d, NEW bytes, NEW out, NEW d2, Reads(d, bytes, out, d2), bytes # <<>>
  PROVE  \E o \in Seq(Units), rest \in Seq(Units), d1 \in Decoder :
           /\ out = o \o rest
           /\ Yields(d, Head(bytes), o, d1)
           /\ Reads(d1, Tail(bytes), rest, d2)
<1>1. bytes \in Seq(Bytes)
  BY ReadsTyped
<1>2. PICK n \in Nat : Len(bytes) = n + 1
  <2>1. Len(bytes) \in Nat \ {0}
    BY <1>1, EmptySeq
  <2>2. Len(bytes) - 1 \in Nat /\ Len(bytes) = (Len(bytes) - 1) + 1
    BY <2>1
  <2> QED BY <2>2
<1>3. PICK ds \in [0..n + 1 -> Decoder], os \in [0..n + 1 -> Seq(Units)] :
        Goes(d, bytes, out, d2, ds, os)
  BY <1>2 DEF Reads
<1>4. PICK tail \in Seq(Bytes) : tail = Tail(bytes)
  BY <1>1, HeadTailProperties
<1>5. Len(tail) = n /\ Head(bytes) = bytes[1] /\ \A i \in 1..n : tail[i] = bytes[i + 1]
  BY <1>1, <1>2, <1>4, HeadTailProperties
<1>6. PICK ds2 : ds2 = [i \in 0..n |-> ds[i + 1]]
  OBVIOUS
<1>7. PICK os2 : os2 = [i \in 0..n |-> os[i + 1]]
  OBVIOUS
<1>8. ds2 \in [0..n -> Decoder] /\ os2 \in [0..n -> Seq(Units)]
  BY <1>3, <1>6, <1>7
<1>9. PICK o \in Seq(Units) : os[0] = o \o os[1] /\ Yields(ds[0], bytes[1], o, ds[1])
  <2>1. 1 \in 1..Len(bytes) /\ 1 - 1 = 0
    BY <1>2
  <2> QED BY <1>3, <2>1 DEF Goes
<1>10. Goes(ds[1], tail, os[1], d2, ds2, os2)
  <2>1. ds2[0] = ds[1] /\ os2[0] = os[1] /\ ds2[n] = d2 /\ os2[n] = <<>>
    BY <1>2, <1>3, <1>6, <1>7 DEF Goes
  <2>2. ASSUME NEW i \in 1..n
        PROVE  \E p \in Seq(Units) : os2[i - 1] = p \o os2[i] /\ Yields(ds2[i - 1], tail[i], p, ds2[i])
    <3>1. PICK p \in Seq(Units) : os[i] = p \o os[i + 1] /\ Yields(ds[i], bytes[i + 1], p, ds[i + 1])
      <4>1. i + 1 \in 1..Len(bytes) /\ (i + 1) - 1 = i
        BY <1>2
      <4> QED BY <1>3, <4>1 DEF Goes
    <3>2. /\ os2[i - 1] = os[i] /\ os2[i] = os[i + 1] /\ tail[i] = bytes[i + 1]
          /\ ds2[i - 1] = ds[i] /\ ds2[i] = ds[i + 1]
      BY <1>5, <1>6, <1>7
    <3> QED BY <3>1, <3>2
  <2> QED BY <1>5, <2>1, <2>2 DEF Goes
<1>11. Reads(ds[1], tail, os[1], d2)
  BY <1>5, <1>8, <1>10 DEF Reads
<1>12. out = o \o os[1] /\ ds[1] \in Decoder /\ os[1] \in Seq(Units) /\ ds[0] = d
  BY <1>3, <1>9 DEF Goes
<1> QED BY <1>4, <1>5, <1>9, <1>11, <1>12

LEMMA HeadAndTail ==
  ASSUME NEW S, NEW s \in Seq(S), s # <<>>
  PROVE  <<Head(s)>> \o Tail(s) = s
<1>1. PICK n \in Nat : Len(s) = n + 1
  <2>1. Len(s) \in Nat \ {0}
    BY EmptySeq
  <2> QED BY <2>1
<1>2. s = SubSeq(s, 1, n + 1)
  BY <1>1, SubSeqFull
<1>3. SubSeq(s, 1, n + 1) = <<s[1]>> \o SubSeq(s, 2, n + 1)
  BY <1>1, SubSeqRecursiveFirst
<1>4. Tail(s) = SubSeq(s, 2, n + 1)
  BY <1>1, TailIsSubSeq
<1>5. Head(s) = s[1]
  OBVIOUS
<1> QED BY <1>2, <1>3, <1>4, <1>5

LEMMA TwoTuple ==
  ASSUME NEW S, NEW a \in S, NEW b \in S
  PROVE  /\ <<a, b>> \in Seq(S) /\ <<a, b>> # <<>>
         /\ Head(<<a, b>>) = a /\ Tail(<<a, b>>) = <<b>>
OBVIOUS

LEMMA ThreeTuple ==
  ASSUME NEW S, NEW a \in S, NEW b \in S, NEW c \in S
  PROVE  /\ <<a, b, c>> \in Seq(S) /\ <<a, b, c>> # <<>>
         /\ Head(<<a, b, c>>) = a /\ Tail(<<a, b, c>>) = <<b, c>>
OBVIOUS

LEMMA TwoConcatenated ==
  ASSUME NEW S, NEW a \in S, NEW b \in S
  PROVE  <<a>> \o <<b>> = <<a, b>>
<1>1. PICK s \in Seq(S) : s = <<a, b>> /\ s # <<>> /\ Head(s) = a /\ Tail(s) = <<b>>
  BY TwoTuple
<1> QED BY <1>1, HeadAndTail

LEMMA Prefixed ==
  ASSUME NEW S, NEW a \in S, NEW s \in Seq(S)
  PROVE  /\ <<a>> \o s \in Seq(S) /\ <<a>> \o s # <<>>
         /\ Head(<<a>> \o s) = a /\ Tail(<<a>> \o s) = s
OBVIOUS

\* The first byte writes something, or only changes the state.
LEMMA ReadsWriting ==
  ASSUME NEW d \in Decoder, NEW bytes \in Seq(Bytes), bytes # <<>>,
         NEW o \in Seq(Units), NEW d1, Yields(d, Head(bytes), o, d1),
         NEW out, NEW d2, Reads(d1, Tail(bytes), out, d2)
  PROVE  Reads(d, bytes, o \o out, d2)
<1>1. Head(bytes) \in Bytes
  BY HeadTailProperties
<1>2. Reads(d, <<Head(bytes)>> \o Tail(bytes), o \o out, d2)
  BY <1>1, ReadsOneMore
<1> QED BY <1>2, HeadAndTail

LEMMA ReadsCommand ==
  ASSUME NEW d \in Decoder, NEW bytes \in Seq(Bytes), bytes # <<>>,
         NEW d1, Yields(d, Head(bytes), <<>>, d1),
         NEW out, NEW d2, Reads(d1, Tail(bytes), out, d2)
  PROVE  Reads(d, bytes, out, d2)
<1>1. <<>> \in Seq(Units) /\ out \in Seq(Units)
  BY ReadsTyped, EmptySeq
<1>2. Reads(d, bytes, <<>> \o out, d2)
  BY <1>1, ReadsWriting
<1> QED BY <1>1, <1>2, ConcatEmptySeq

LEMMA ReadsOne ==
  ASSUME NEW d \in Decoder, NEW b \in Bytes, NEW out \in Seq(Units), NEW d2, Yields(d, b, out, d2)
  PROVE  Reads(d, <<b>>, out, d2)
<1>1. d2 \in Decoder
  BY DEF Yields
<1>2. Reads(d2, <<>>, <<>>, d2)
  BY <1>1, ReadsNothing
<1>3. PICK s \in Seq(Bytes) : s = <<b>> /\ s # <<>> /\ Head(s) = b /\ Tail(s) = <<>>
  BY OneTuple
<1>4. Reads(d, s, out \o <<>>, d2)
  BY <1>2, <1>3, ReadsWriting
<1> QED BY <1>3, <1>4, ConcatEmptySeq

LEMMA ReadsAfter ==
  ASSUME NEW d \in Decoder, NEW b \in Bytes, NEW d1, Yields(d, b, <<>>, d1),
         NEW bytes, NEW out, NEW d2, Reads(d1, bytes, out, d2)
  PROVE  Reads(d, <<b>> \o bytes, out, d2)
<1>1. <<>> \in Seq(Units) /\ out \in Seq(Units)
  BY ReadsTyped, EmptySeq
<1>2. Reads(d, <<b>> \o bytes, <<>> \o out, d2)
  BY <1>1, ReadsOneMore
<1> QED BY <1>1, <1>2, ConcatEmptySeq

LEMMA ReadsTwo ==
  ASSUME NEW d \in Decoder, NEW a \in Bytes, NEW d1, Yields(d, a, <<>>, d1),
         NEW b \in Bytes, NEW out \in Seq(Units), NEW d2, Yields(d1, b, out, d2)
  PROVE  Reads(d, <<a, b>>, out, d2)
<1>1. d1 \in Decoder
  BY DEF Yields
<1>2. Reads(d1, <<b>>, out, d2)
  BY <1>1, ReadsOne
<1>3. PICK s \in Seq(Bytes) : s = <<a, b>> /\ s # <<>> /\ Head(s) = a /\ Tail(s) = <<b>>
  BY TwoTuple
<1>4. Yields(d, Head(s), <<>>, d1) /\ Reads(d1, Tail(s), out, d2)
  BY <1>2, <1>3
<1>5. Reads(d, s, out, d2)
  BY <1>3, <1>4, ReadsCommand
<1> QED BY <1>3, <1>5

LEMMA ReadsThree ==
  ASSUME NEW d \in Decoder, NEW a \in Bytes, NEW d1, Yields(d, a, <<>>, d1),
         NEW b \in Bytes, NEW c \in Bytes, NEW out, NEW d2, Reads(d1, <<b, c>>, out, d2)
  PROVE  Reads(d, <<a, b, c>>, out, d2)
<1>1. PICK s \in Seq(Bytes) : s = <<a, b, c>> /\ s # <<>> /\ Head(s) = a /\ Tail(s) = <<b, c>>
  BY ThreeTuple
<1>2. Yields(d, Head(s), <<>>, d1) /\ Reads(d1, Tail(s), out, d2)
  BY <1>1
<1>3. Reads(d, s, out, d2)
  BY <1>1, <1>2, ReadsCommand
<1> QED BY <1>1, <1>3

LEMMA ReadsFour ==
  ASSUME NEW d \in Decoder, NEW a \in Bytes, NEW d1, Yields(d, a, <<>>, d1),
         NEW b \in Bytes, NEW c \in Bytes, NEW e \in Bytes,
         NEW out, NEW d2, Reads(d1, <<b, c, e>>, out, d2)
  PROVE  Reads(d, <<a, b, c, e>>, out, d2)
<1> DEFINE t == <<a, b, c, e>>
<1>a. t \in Seq(Bytes) /\ t # <<>> /\ Head(t) = a /\ Tail(t) = <<b, c, e>>
  OBVIOUS
<1>1. PICK s \in Seq(Bytes) : s = t /\ s # <<>> /\ Head(s) = a /\ Tail(s) = <<b, c, e>>
  BY <1>a, Zenon
<1>2. Yields(d, Head(s), <<>>, d1) /\ Reads(d1, Tail(s), out, d2)
  BY <1>1
<1>3. Reads(d, s, out, d2)
  BY <1>1, <1>2, ReadsCommand
<1> QED BY <1>1, <1>3

\* Two bytes, the second of which writes, and others after them.
LEMMA ReadsTwoAnd ==
  ASSUME NEW d \in Decoder, NEW a \in Bytes, NEW d1, Yields(d, a, <<>>, d1),
         NEW b \in Bytes, NEW o \in Seq(Units), NEW d2, Yields(d1, b, o, d2),
         NEW bytes \in Seq(Bytes), NEW out, NEW d3, Reads(d2, bytes, out, d3)
  PROVE  Reads(d, <<a, b>> \o bytes, o \o out, d3)
<1>1. d1 \in Decoder
  BY DEF Yields
<1>2. Reads(d1, <<b>> \o bytes, o \o out, d3)
  BY <1>1, ReadsOneMore
<1>3. Reads(d, <<a>> \o (<<b>> \o bytes), o \o out, d3)
  BY <1>2, ReadsAfter
<1>4. <<a>> \o (<<b>> \o bytes) = (<<a>> \o <<b>>) \o bytes
  <2>1. <<a>> \in Seq(Bytes) /\ <<b>> \in Seq(Bytes)
    BY OneTuple
  <2> QED BY <2>1, ConcatAssociative
<1>5. <<a>> \o <<b>> = <<a, b>>
  BY TwoConcatenated
<1> QED BY <1>3, <1>4, <1>5

-----------------------------------------------------------------------------
(* Single bytes.                                                             *)

Ready(d) == d \in Decoder /\ d.state = "readCommand"

In(d, state) == [d EXCEPT !.state = state]

LEMMA Interval ==
  ASSUME NEW m \in Int, NEW c
  PROVE  c \in 0..m <=> c \in Int /\ 0 <= c /\ c <= m
BY SMT

LEMMA Between ==
  ASSUME NEW l \in Int, NEW m \in Int, NEW c
  PROVE  c \in l..m <=> c \in Int /\ l <= c /\ c <= m
BY SMT

LEMMA MaxCharacterIs == MaxCharacter \in Int /\ MaxCharacter = 1114111
BY SMT DEF MaxCharacter

LEMMA CharactersAre ==
  ASSUME NEW c
  PROVE  c \in Characters <=> c \in Int /\ 0 <= c /\ c <= MaxCharacter
<1>1. MaxCharacter \in Int
  BY MaxCharacterIs
<1> QED BY <1>1, Interval, SMT DEF Characters

LEMMA UnitsAre ==
  ASSUME NEW c
  PROVE  c \in Units <=> c \in Int /\ 0 <= c /\ c <= 65535
<1>1. PICK m \in Int : m = 65535
  BY SMT
<1>2. Units = 0..m
  BY <1>1, SMT DEF Units
<1>3. c \in Units <=> c \in Int /\ 0 <= c /\ c <= m
  BY <1>2, Interval, SMT
<1> QED BY <1>1, <1>3, SMT

LEMMA BytesAreUnits ==
  ASSUME NEW c \in Bytes
  PROVE  c \in Units
<1>1. c \in Int /\ 0 <= c /\ c <= 255
  BY SMT DEF Bytes
<1> QED BY <1>1, UnitsAre, SMT

LEMMA DivMod ==
  ASSUME NEW c \in Int
  PROVE  /\ (c % 1024) \in Int /\ (c \div 1024) \in Int
         /\ c = 1024 * (c \div 1024) + (c % 1024) /\ 0 <= (c % 1024) /\ (c % 1024) <= 1023
         /\ (c % 256) \in Int /\ (c \div 256) \in Int
         /\ c = 256 * (c \div 256) + (c % 256) /\ 0 <= (c % 256) /\ (c % 256) <= 255
         /\ (c \div 128) \in Int /\ 128 * (c \div 128) <= c /\ c <= 128 * (c \div 128) + 127
BY SMT

LEMMA UnitsOfType ==
  ASSUME NEW c \in Characters
  PROVE  UnitsOf(c) \in Seq(Units) /\ (c \in Units => UnitsOf(c) = <<c>>)
<1>1. CASE c \in Units
  BY <1>1, SMT DEF UnitsOf
<1>2. CASE c \notin Units
  <2>1. c \in Int /\ 0 <= c /\ c <= 1114111
    BY CharactersAre, MaxCharacterIs
  <2>2. 65536 <= c
    BY <1>2, <2>1, UnitsAre, SMT
  <2>3. PICK q, r : q = c \div 1024 /\ r = c % 1024
    OBVIOUS
  <2>4. q \in Int /\ r \in Int /\ c = 1024 * q + r /\ 0 <= r /\ r <= 1023
    BY <2>1, <2>3, DivMod
  <2>5. 64 <= q /\ q <= 1087
    BY <2>1, <2>2, <2>4, SMT
  <2>6. 55232 + q \in Units /\ 56320 + r \in Units
    BY <2>4, <2>5, UnitsAre, SMT
  <2> QED BY <1>2, <2>3, <2>6, SMT DEF UnitsOf
<1> QED BY <1>1, <1>2

LEMMA UnitItself ==
  ASSUME NEW c \in Units
  PROVE  UnitsOf(c) = <<c>> /\ <<c>> \in Seq(Units) /\ c \in Characters
<1>1. UnitsOf(c) = <<c>> /\ <<c>> \in Seq(Units)
  BY SMT DEF UnitsOf
<1>2. c \in Int /\ 0 <= c /\ c <= 65535
  BY UnitsAre
<1>3. c \in Characters
  BY <1>2, CharactersAre, MaxCharacterIs, SMT
<1> QED BY <1>1, <1>3

LEMMA StatesAre ==
  /\ "readCommand" \in DecoderStates /\ "quotePairOne" \in DecoderStates
  /\ "quotePairTwo" \in DecoderStates /\ "quoteOne" \in DecoderStates
  /\ "definePairOne" \in DecoderStates /\ "definePairTwo" \in DecoderStates
  /\ "defineOne" \in DecoderStates
BY DEF DecoderStates

LEMMA DecoderUpdates ==
  ASSUME NEW d \in Decoder
  PROVE  /\ \A s \in DecoderStates : [d EXCEPT !.state = s] \in Decoder
         /\ \A w \in Windows : [d EXCEPT !.quote = w] \in Decoder
         /\ \A w \in Windows : [d EXCEPT !.window = w] \in Decoder
         /\ \A b \in Bytes : [d EXCEPT !.one = b] \in Decoder
         /\ \A m \in BOOLEAN : [d EXCEPT !.single = m] \in Decoder
BY DEF Decoder

LEMMA DecoderDefines ==
  ASSUME NEW d \in Decoder, NEW w, NEW o \in Characters
  PROVE  [d EXCEPT !.offsets[w] = o] \in Decoder
BY DEF Decoder

LEMMA YieldsDirect ==
  ASSUME NEW d, Ready(d), d.single, NEW c, Direct(c)
  PROVE  c \in Bytes /\ Yields(d, c, <<c>>, d)
<1>1. c \in Bytes /\ c \in Units /\ <<c>> \in Seq(Units)
  <2>1. c \in Int /\ 0 <= c /\ c <= 127
    BY SMT DEF Direct
  <2>2. c \in Bytes
    BY <2>1, SMT DEF Bytes
  <2>3. c \in Units
    BY <2>1, UnitsAre, SMT
  <2> QED BY <2>2, <2>3, OneTuple
<1>2. ReadSingle(d, c) = Wrote(d, <<c>>)
  <2>1. /\ ~(c >= 128) /\ c \notin SQ0..SQ0 + 7 /\ c # SDX /\ c # SQU /\ c # SCU
        /\ c \notin SC0..SC0 + 7 /\ c \notin SD0..SD0 + 7
    BY SMT DEF SC0, SD0, SQ0, SDX, SQU, SCU, Direct
  <2> QED BY <2>1, Zenon DEF ReadSingle
<1>3. \A room : Decode(d, c, room) = Wrote(d, <<c>>)
  BY <1>2, SMT DEF Decode, Ready
<1> QED BY <1>1, <1>3 DEF Yields, Ready

LEMMA YieldsWindowed ==
  ASSUME NEW d, Ready(d), d.single, NEW c \in Characters, InWindow(d.offsets[d.window], c)
  PROVE  /\ 128 + c - d.offsets[d.window] \in Bytes
         /\ Yields(d, 128 + c - d.offsets[d.window], UnitsOf(c), d)
<1>1. PICK offset : offset = d.offsets[d.window]
  OBVIOUS
<1>2. offset \in Int /\ c \in Int
  BY <1>1, CharactersAre, SMT DEF Ready, Decoder
<1>3. PICK b : b = 128 + c - offset
  OBVIOUS
<1>4. b \in Int /\ 128 <= b /\ b <= 255 /\ offset + b - 128 = c
  BY <1>1, <1>2, <1>3, SMT DEF InWindow
<1>5. ReadSingle(d, b) = Wrote(d, UnitsOf(offset + b - 128))
  <2>1. /\ b >= 128 /\ ~Direct(b) /\ b \notin SQ0..SQ0 + 7 /\ b # SDX /\ b # SQU /\ b # SCU
        /\ b \notin SC0..SC0 + 7 /\ b \notin SD0..SD0 + 7
    BY <1>4, SMT DEF SC0, SD0, SQ0, SDX, SQU, SCU, Direct
  <2> QED BY <1>1, <2>1, Zenon DEF ReadSingle
<1>6. \A room : Decode(d, b, room) = Wrote(d, UnitsOf(c))
  BY <1>4, <1>5, SMT DEF Decode, Ready
<1>7. b \in Bytes
  BY <1>4, SMT DEF Bytes
<1> QED BY <1>1, <1>3, <1>6, <1>7, UnitsOfType DEF Yields, Ready

\* The commands of single-byte mode.
LEMMA YieldsQuote ==
  ASSUME NEW d, Ready(d), d.single, NEW w \in Windows
  PROVE  SQ0 + w \in Bytes /\ Yields(d, SQ0 + w, <<>>, In([d EXCEPT !.quote = w], "quoteOne"))
<1> DEFINE d1 == In([d EXCEPT !.quote = w], "quoteOne")
<1>1. PICK b : b = SQ0 + w
  OBVIOUS
<1>2. b \in Int /\ 1 <= b /\ b <= 8 /\ b - SQ0 = w
  BY <1>1, SMT DEF SQ0, Windows
<1>3. ReadSingle(d, b) = Expect([d EXCEPT !.quote = b - SQ0], "quoteOne")
  <2>1. /\ ~Direct(b) /\ ~(b >= 128) /\ b \in SQ0..SQ0 + 7 /\ b # SDX
        /\ b # SQU /\ b # SCU /\ b \notin SC0..SC0 + 7 /\ b \notin SD0..SD0 + 7
    BY <1>2, SMT DEF SC0, SD0, SQ0, SDX, SQU, SCU, Direct
  <2> QED BY <2>1, Zenon DEF ReadSingle
<1>4. ReadSingle(d, b) = Wrote(d1, <<>>)
  BY <1>2, <1>3, Zenon DEF Expect, Read, In
<1>5. \A room : Decode(d, b, room) = Wrote(d1, <<>>)
  BY <1>4, SMT DEF Decode, Ready
<1>6. b \in Bytes
  BY <1>2, SMT DEF Bytes
<1>7. d1 \in Decoder
  BY StatesAre, DecoderUpdates DEF Ready, In
<1> QED BY <1>1, <1>5, <1>6, <1>7, EmptySeq, Zenon DEF Yields

LEMMA YieldsQuotePair ==
  ASSUME NEW d, Ready(d), d.single
  PROVE  SQU \in Bytes /\ Yields(d, SQU, <<>>, In(d, "quotePairOne"))
<1> DEFINE d1 == In(d, "quotePairOne")
<1>1. PICK b : b = SQU
  OBVIOUS
<1>2. b = 14
  BY <1>1, SMT DEF SQU
<1>3. ReadSingle(d, b) = Expect(d, "quotePairOne")
  <2>1. /\ ~Direct(b) /\ ~(b >= 128) /\ b \notin SQ0..SQ0 + 7 /\ b # SDX
        /\ b = SQU /\ b # SCU /\ b \notin SC0..SC0 + 7 /\ b \notin SD0..SD0 + 7
    BY <1>2, SMT DEF SC0, SD0, SQ0, SDX, SQU, SCU, Direct
  <2> QED BY <2>1, Zenon DEF ReadSingle
<1>4. ReadSingle(d, b) = Wrote(d1, <<>>)
  BY <1>2, <1>3, Zenon DEF Expect, Read, In
<1>5. \A room : Decode(d, b, room) = Wrote(d1, <<>>)
  BY <1>4, SMT DEF Decode, Ready
<1>6. b \in Bytes
  BY <1>2, SMT DEF Bytes
<1>7. d1 \in Decoder
  BY StatesAre, DecoderUpdates DEF Ready, In
<1> QED BY <1>1, <1>5, <1>6, <1>7, EmptySeq, Zenon DEF Yields

LEMMA YieldsChange ==
  ASSUME NEW d, Ready(d), d.single
  PROVE  SCU \in Bytes /\ Yields(d, SCU, <<>>, [d EXCEPT !.single = FALSE])
<1> DEFINE d1 == [d EXCEPT !.single = FALSE]
<1>1. PICK b : b = SCU
  OBVIOUS
<1>2. b = 15
  BY <1>1, SMT DEF SCU
<1>3. ReadSingle(d, b) = Read([d EXCEPT !.single = FALSE])
  <2>1. /\ ~Direct(b) /\ ~(b >= 128) /\ b \notin SQ0..SQ0 + 7 /\ b # SDX
        /\ b # SQU /\ b = SCU /\ b \notin SC0..SC0 + 7 /\ b \notin SD0..SD0 + 7
    BY <1>2, SMT DEF SC0, SD0, SQ0, SDX, SQU, SCU, Direct
  <2> QED BY <2>1, Zenon DEF ReadSingle
<1>4. ReadSingle(d, b) = Wrote(d1, <<>>)
  BY <1>2, <1>3, Zenon DEF Expect, Read, In
<1>5. \A room : Decode(d, b, room) = Wrote(d1, <<>>)
  BY <1>4, SMT DEF Decode, Ready
<1>6. b \in Bytes
  BY <1>2, SMT DEF Bytes
<1>7. d1 \in Decoder
  BY StatesAre, DecoderUpdates DEF Ready, In
<1> QED BY <1>1, <1>5, <1>6, <1>7, EmptySeq, Zenon DEF Yields

LEMMA YieldsSelect ==
  ASSUME NEW d, Ready(d), d.single, NEW w \in Windows
  PROVE  SC0 + w \in Bytes /\ Yields(d, SC0 + w, <<>>, [d EXCEPT !.window = w])
<1> DEFINE d1 == [d EXCEPT !.window = w]
<1>1. PICK b : b = SC0 + w
  OBVIOUS
<1>2. b \in Int /\ 16 <= b /\ b <= 23 /\ b - SC0 = w
  BY <1>1, SMT DEF SC0, Windows
<1>3. ReadSingle(d, b) = Read([d EXCEPT !.window = b - SC0])
  <2>1. /\ ~Direct(b) /\ ~(b >= 128) /\ b \notin SQ0..SQ0 + 7 /\ b # SDX
        /\ b # SQU /\ b # SCU /\ b \in SC0..SC0 + 7 /\ b \notin SD0..SD0 + 7
    BY <1>2, SMT DEF SC0, SD0, SQ0, SDX, SQU, SCU, Direct
  <2> QED BY <2>1, Zenon DEF ReadSingle
<1>4. ReadSingle(d, b) = Wrote(d1, <<>>)
  BY <1>2, <1>3, Zenon DEF Expect, Read, In
<1>5. \A room : Decode(d, b, room) = Wrote(d1, <<>>)
  BY <1>4, SMT DEF Decode, Ready
<1>6. b \in Bytes
  BY <1>2, SMT DEF Bytes
<1>7. d1 \in Decoder
  BY StatesAre, DecoderUpdates DEF Ready, In
<1> QED BY <1>1, <1>5, <1>6, <1>7, EmptySeq, Zenon DEF Yields

LEMMA YieldsDefine ==
  ASSUME NEW d, Ready(d), d.single, NEW w \in Windows
  PROVE  SD0 + w \in Bytes /\ Yields(d, SD0 + w, <<>>, In([d EXCEPT !.window = w], "defineOne"))
<1> DEFINE d1 == In([d EXCEPT !.window = w], "defineOne")
<1>1. PICK b : b = SD0 + w
  OBVIOUS
<1>2. b \in Int /\ 24 <= b /\ b <= 31 /\ b - SD0 = w
  BY <1>1, SMT DEF SD0, Windows
<1>3. ReadSingle(d, b) = Expect([d EXCEPT !.window = b - SD0], "defineOne")
  <2>1. /\ ~Direct(b) /\ ~(b >= 128) /\ b \notin SQ0..SQ0 + 7 /\ b # SDX
        /\ b # SQU /\ b # SCU /\ b \notin SC0..SC0 + 7 /\ b \in SD0..SD0 + 7
    BY <1>2, SMT DEF SC0, SD0, SQ0, SDX, SQU, SCU, Direct
  <2> QED BY <2>1, Zenon DEF ReadSingle
<1>4. ReadSingle(d, b) = Wrote(d1, <<>>)
  BY <1>2, <1>3, Zenon DEF Expect, Read, In
<1>5. \A room : Decode(d, b, room) = Wrote(d1, <<>>)
  BY <1>4, SMT DEF Decode, Ready
<1>6. b \in Bytes
  BY <1>2, SMT DEF Bytes
<1>7. d1 \in Decoder
  BY StatesAre, DecoderUpdates DEF Ready, In
<1> QED BY <1>1, <1>5, <1>6, <1>7, EmptySeq, Zenon DEF Yields

LEMMA YieldsExtended ==
  ASSUME NEW d, Ready(d), d.single
  PROVE  SDX \in Bytes /\ Yields(d, SDX, <<>>, In(d, "definePairOne"))
<1> DEFINE d1 == In(d, "definePairOne")
<1>1. PICK b : b = SDX
  OBVIOUS
<1>2. b = 11
  BY <1>1, SMT DEF SDX
<1>3. ReadSingle(d, b) = Expect(d, "definePairOne")
  <2>1. /\ ~Direct(b) /\ ~(b >= 128) /\ b \notin SQ0..SQ0 + 7 /\ b = SDX
        /\ b # SQU /\ b # SCU /\ b \notin SC0..SC0 + 7 /\ b \notin SD0..SD0 + 7
    BY <1>2, SMT DEF SC0, SD0, SQ0, SDX, SQU, SCU, Direct
  <2> QED BY <2>1, Zenon DEF ReadSingle
<1>4. ReadSingle(d, b) = Wrote(d1, <<>>)
  BY <1>2, <1>3, Zenon DEF Expect, Read, In
<1>5. \A room : Decode(d, b, room) = Wrote(d1, <<>>)
  BY <1>4, SMT DEF Decode, Ready
<1>6. b \in Bytes
  BY <1>2, SMT DEF Bytes
<1>7. d1 \in Decoder
  BY StatesAre, DecoderUpdates DEF Ready, In
<1> QED BY <1>1, <1>5, <1>6, <1>7, EmptySeq, Zenon DEF Yields

\* The commands of Unicode mode.
LEMMA YieldsUnicodeQuote ==
  ASSUME NEW d, Ready(d), ~d.single
  PROVE  UQU \in Bytes /\ Yields(d, UQU, <<>>, In(d, "quotePairOne"))
<1> DEFINE d1 == In(d, "quotePairOne")
<1>1. PICK b : b = UQU
  OBVIOUS
<1>2. b = 240
  BY <1>1, SMT DEF UQU
<1>3. ReadUnicode(d, b) = Expect(d, "quotePairOne")
  <2>1. /\ b \in UC0..Urs /\ b \notin UC0..UC0 + 7 /\ b \notin UD0..UD0 + 7 /\ b # UDX
        /\ b = UQU
    BY <1>2, SMT DEF UC0, UD0, UDX, UQU, Urs
  <2> QED BY <2>1, Zenon DEF ReadUnicode
<1>4. ReadUnicode(d, b) = Wrote(d1, <<>>)
  BY <1>2, <1>3, Zenon DEF Expect, Read, In
<1>5. \A room : Decode(d, b, room) = Wrote(d1, <<>>)
  BY <1>4, SMT DEF Decode, Ready
<1>6. b \in Bytes
  BY <1>2, SMT DEF Bytes
<1>7. d1 \in Decoder
  BY StatesAre, DecoderUpdates DEF Ready, In
<1> QED BY <1>1, <1>5, <1>6, <1>7, EmptySeq, Zenon DEF Yields

LEMMA YieldsUnicodeSelect ==
  ASSUME NEW d, Ready(d), ~d.single, NEW w \in Windows
  PROVE  UC0 + w \in Bytes /\ Yields(d, UC0 + w, <<>>, [d EXCEPT !.single = TRUE, !.window = w])
<1> DEFINE d1 == [d EXCEPT !.single = TRUE, !.window = w]
<1>1. PICK b : b = UC0 + w
  OBVIOUS
<1>2. b \in Int /\ 224 <= b /\ b <= 231 /\ b - UC0 = w
  BY <1>1, SMT DEF UC0, Windows
<1>3. ReadUnicode(d, b) = Read([d EXCEPT !.single = TRUE, !.window = b - UC0])
  <2>1. /\ b \in UC0..Urs /\ b \in UC0..UC0 + 7 /\ b \notin UD0..UD0 + 7 /\ b # UDX
        /\ b # UQU
    BY <1>2, SMT DEF UC0, UD0, UDX, UQU, Urs
  <2> QED BY <2>1, Zenon DEF ReadUnicode
<1>4. ReadUnicode(d, b) = Wrote(d1, <<>>)
  BY <1>2, <1>3, Zenon DEF Expect, Read, In
<1>5. \A room : Decode(d, b, room) = Wrote(d1, <<>>)
  BY <1>4, SMT DEF Decode, Ready
<1>6. b \in Bytes
  BY <1>2, SMT DEF Bytes
<1>7. d1 \in Decoder
  BY StatesAre, DecoderUpdates DEF Ready, In
<1> QED BY <1>1, <1>5, <1>6, <1>7, EmptySeq, Zenon DEF Yields

LEMMA YieldsUnicodeDefine ==
  ASSUME NEW d, Ready(d), ~d.single, NEW w \in Windows
  PROVE  UD0 + w \in Bytes /\ Yields(d, UD0 + w, <<>>, In([d EXCEPT !.single = TRUE, !.window = w], "defineOne"))
<1> DEFINE d1 == In([d EXCEPT !.single = TRUE, !.window = w], "defineOne")
<1>1. PICK b : b = UD0 + w
  OBVIOUS
<1>2. b \in Int /\ 232 <= b /\ b <= 239 /\ b - UD0 = w
  BY <1>1, SMT DEF UD0, Windows
<1>3. ReadUnicode(d, b) = Expect([d EXCEPT !.single = TRUE, !.window = b - UD0], "defineOne")
  <2>1. /\ b \in UC0..Urs /\ b \notin UC0..UC0 + 7 /\ b \in UD0..UD0 + 7 /\ b # UDX
        /\ b # UQU
    BY <1>2, SMT DEF UC0, UD0, UDX, UQU, Urs
  <2> QED BY <2>1, Zenon DEF ReadUnicode
<1>4. ReadUnicode(d, b) = Wrote(d1, <<>>)
  BY <1>2, <1>3, Zenon DEF Expect, Read, In
<1>5. \A room : Decode(d, b, room) = Wrote(d1, <<>>)
  BY <1>4, SMT DEF Decode, Ready
<1>6. b \in Bytes
  BY <1>2, SMT DEF Bytes
<1>7. d1 \in Decoder
  BY StatesAre, DecoderUpdates DEF Ready, In
<1> QED BY <1>1, <1>5, <1>6, <1>7, EmptySeq, Zenon DEF Yields

LEMMA YieldsUnicodeExtended ==
  ASSUME NEW d, Ready(d), ~d.single
  PROVE  UDX \in Bytes /\ Yields(d, UDX, <<>>, In([d EXCEPT !.single = TRUE], "definePairOne"))
<1> DEFINE d1 == In([d EXCEPT !.single = TRUE], "definePairOne")
<1>1. PICK b : b = UDX
  OBVIOUS
<1>2. b = 241
  BY <1>1, SMT DEF UDX
<1>3. ReadUnicode(d, b) = Expect([d EXCEPT !.single = TRUE], "definePairOne")
  <2>1. /\ b \in UC0..Urs /\ b \notin UC0..UC0 + 7 /\ b \notin UD0..UD0 + 7 /\ b = UDX
        /\ b # UQU
    BY <1>2, SMT DEF UC0, UD0, UDX, UQU, Urs
  <2> QED BY <2>1, Zenon DEF ReadUnicode
<1>4. ReadUnicode(d, b) = Wrote(d1, <<>>)
  BY <1>2, <1>3, Zenon DEF Expect, Read, In
<1>5. \A room : Decode(d, b, room) = Wrote(d1, <<>>)
  BY <1>4, SMT DEF Decode, Ready
<1>6. b \in Bytes
  BY <1>2, SMT DEF Bytes
<1>7. d1 \in Decoder
  BY StatesAre, DecoderUpdates DEF Ready, In
<1> QED BY <1>1, <1>5, <1>6, <1>7, EmptySeq, Zenon DEF Yields

\* Any other byte of Unicode mode is the first one of a unit.
LEMMA YieldsFirstHalf ==
  ASSUME NEW d, Ready(d), ~d.single, NEW b \in Bytes, b \notin UC0..Urs
  PROVE  Yields(d, b, <<>>, In([d EXCEPT !.one = b], "quotePairTwo"))
<1> DEFINE d1 == In([d EXCEPT !.one = b], "quotePairTwo")
<1>1. ReadUnicode(d, b) = Expect([d EXCEPT !.one = b], "quotePairTwo")
  <2>1. /\ b \notin UC0..UC0 + 7 /\ b \notin UD0..UD0 + 7
        /\ b # UDX /\ b # UQU
    BY SMT DEF UC0, UD0, UDX, UQU, Urs
  <2> QED BY <2>1, Zenon DEF ReadUnicode
<1>2. ReadUnicode(d, b) = Wrote(d1, <<>>)
  BY <1>1, Zenon DEF Expect, Read, In
<1>3. \A room : Decode(d, b, room) = Wrote(d1, <<>>)
  BY <1>2, SMT DEF Decode, Ready
<1>4. d1 \in Decoder
  BY StatesAre, DecoderUpdates DEF Ready, In
<1> QED BY <1>3, <1>4, EmptySeq, Zenon DEF Yields

\* The bytes after a command.
LEMMA YieldsPairOne ==
  ASSUME NEW d \in Decoder, d.state = "quotePairOne", NEW b \in Bytes
  PROVE  Yields(d, b, <<>>, In([d EXCEPT !.one = b], "quotePairTwo"))
<1> DEFINE d1 == In([d EXCEPT !.one = b], "quotePairTwo")
<1>1. \A room : Decode(d, b, room) = Expect([d EXCEPT !.one = b], "quotePairTwo")
  BY SMT DEF Decode
<1>2. \A room : Decode(d, b, room) = Wrote(d1, <<>>)
  BY <1>1, Zenon DEF Expect, Read, In
<1>3. d1 \in Decoder
  BY StatesAre, DecoderUpdates DEF In
<1> QED BY <1>2, <1>3, EmptySeq, Zenon DEF Yields

LEMMA YieldsPairTwo ==
  ASSUME NEW d \in Decoder, d.state = "quotePairTwo",
         NEW b \in Bytes, NEW u \in Units, u = 256 * d.one + b
  PROVE  Yields(d, b, <<u>>, In(d, "readCommand"))
<1> DEFINE d1 == In(d, "readCommand")
<1>1. \A room : Decode(d, b, room) = Wrote(d1, <<u>>)
  BY SMT DEF Decode, In
<1>2. d1 \in Decoder
  BY StatesAre, DecoderUpdates DEF In
<1>3. <<u>> \in Seq(Units)
  BY OneTuple
<1> QED BY <1>1, <1>2, <1>3, Zenon DEF Yields

\* A quoted character of one unit does not depend on the room.
LEMMA YieldsQuoted ==
  ASSUME NEW d \in Decoder, d.state = "quoteOne",
         NEW b \in Bytes, NEW u \in Units, Quoted(d, b) = <<u>>
  PROVE  Yields(d, b, <<u>>, In(d, "readCommand"))
<1> DEFINE d1 == In(d, "readCommand")
<1>1. <<u>> \in Seq(Units) /\ Len(<<u>>) = 1
  BY OneTuple
<1>2. ASSUME NEW room \in 1..2
      PROVE  Decode(d, b, room) = Wrote(d1, <<u>>)
  <2>1. Decode(d, b, room) =
          Wrote(IF Len(Quoted(d, b)) > room THEN d ELSE d1, Quoted(d, b))
    BY SMT DEF Decode, In
  <2>2. ~(Len(Quoted(d, b)) > room)
    BY <1>1
  <2> QED BY <2>1, <2>2
<1>3. d1 \in Decoder
  BY StatesAre, DecoderUpdates DEF In
<1> QED BY <1>1, <1>2, <1>3, Zenon DEF Yields

LEMMA YieldsExtendedOne ==
  ASSUME NEW d \in Decoder, d.state = "definePairOne",
         NEW w \in Windows, NEW q \in 0..31
  PROVE  /\ 32 * w + q \in Bytes
         /\ Yields(d, 32 * w + q, <<>>, In([d EXCEPT !.window = w, !.one = q], "definePairTwo"))
<1> DEFINE d1 == In([d EXCEPT !.window = w, !.one = q], "definePairTwo")
<1>1. PICK b : b = 32 * w + q
  OBVIOUS
<1>2. b \in Bytes /\ b \div 32 = w /\ b % 32 = q
  BY <1>1, SMT DEF Windows, Bytes
<1>3. \A room : Decode(d, b, room) = Expect([d EXCEPT !.window = w, !.one = q], "definePairTwo")
  <2>1. \A room : Decode(d, b, room) =
                    Expect([d EXCEPT !.window = b \div 32, !.one = b % 32], "definePairTwo")
    BY SMT DEF Decode
  <2> QED BY <1>2, <2>1, Zenon
<1>4. \A room : Decode(d, b, room) = Wrote(d1, <<>>)
  BY <1>3, Zenon DEF Expect, Read, In
<1>5. q \in Bytes
  BY SMT DEF Bytes
<1>6. d1 \in Decoder
  BY <1>5, StatesAre, DecoderUpdates DEF In
<1> QED BY <1>1, <1>2, <1>4, <1>6, EmptySeq, Zenon DEF Yields

LEMMA YieldsExtendedTwo ==
  ASSUME NEW d \in Decoder, d.state = "definePairTwo", NEW b \in Bytes, NEW o \in Characters
  PROVE  o = 65536 + 32768 * d.one + 128 * b =>
           Yields(d, b, <<>>, [In(d, "readCommand") EXCEPT !.offsets[d.window] = o])
<1> DEFINE d1 == [In(d, "readCommand") EXCEPT !.offsets[d.window] = o]
<1>1. o = 65536 + 32768 * d.one + 128 * b => \A room : Decode(d, b, room) = Read(d1)
  <2>1. \A room : Decode(d, b, room) = Read([In(d, "readCommand") EXCEPT
                    !.offsets[d.window] = 65536 + 32768 * d.one + 128 * b])
    BY SMT DEF Decode, In
  <2> QED BY <2>1, SMT
<1>2. (\A room : Decode(d, b, room) = Read(d1)) => \A room : Decode(d, b, room) = Wrote(d1, <<>>)
  BY Zenon DEF Read
<1>3. In(d, "readCommand") \in Decoder
  BY StatesAre, DecoderUpdates DEF In
<1>4. d1 \in Decoder
  BY <1>3, DecoderDefines
<1>5. (\A room : Decode(d, b, room) = Wrote(d1, <<>>)) => Yields(d, b, <<>>, d1)
  BY <1>4, EmptySeq, Zenon DEF Yields
<1> HIDE DEF d1
<1>6. o = 65536 + 32768 * d.one + 128 * b => Yields(d, b, <<>>, d1)
  BY <1>1, <1>2, <1>5, SMT
<1> USE DEF d1
<1> QED BY <1>6

LEMMA YieldsDefined ==
  ASSUME NEW d \in Decoder, d.state = "defineOne",
         NEW b \in Bytes, ~Reserved(b), NEW o \in Characters, o = DefinedOffset(b)
  PROVE  Yields(d, b, <<>>, [In(d, "readCommand") EXCEPT !.offsets[d.window] = o])
<1> DEFINE d1 == [In(d, "readCommand") EXCEPT !.offsets[d.window] = o]
<1>1. \A room : Decode(d, b, room) = Read(d1)
  BY SMT DEF Decode, In
<1>2. \A room : Decode(d, b, room) = Wrote(d1, <<>>)
  BY <1>1, Zenon DEF Read
<1>3. In(d, "readCommand") \in Decoder
  BY StatesAre, DecoderUpdates DEF In
<1>4. d1 \in Decoder
  BY <1>3, DecoderDefines
<1> QED BY <1>2, <1>4, EmptySeq, Zenon DEF Yields

-----------------------------------------------------------------------------
(* The encoder: its windows.                                                 *)

LEMMA MinIsMember ==
  ASSUME NEW S \in SUBSET Windows, S # {}
  PROVE  Min(S) \in S
<1>1. \E x \in S : \A y \in S : x <= y
  <2>1. CASE 0 \in S
    BY <2>1, SMT DEF Windows
  <2>2. CASE 0 \notin S /\ 1 \in S
    BY <2>2, SMT DEF Windows
  <2>3. CASE 0 \notin S /\ 1 \notin S /\ 2 \in S
    BY <2>3, SMT DEF Windows
  <2>4. CASE 0 \notin S /\ 1 \notin S /\ 2 \notin S /\ 3 \in S
    BY <2>4, SMT DEF Windows
  <2>5. CASE 0 \notin S /\ 1 \notin S /\ 2 \notin S /\ 3 \notin S /\ 4 \in S
    BY <2>5, SMT DEF Windows
  <2>6. CASE 0 \notin S /\ 1 \notin S /\ 2 \notin S /\ 3 \notin S /\ 4 \notin S /\ 5 \in S
    BY <2>6, SMT DEF Windows
  <2>7. CASE /\ 0 \notin S /\ 1 \notin S /\ 2 \notin S /\ 3 \notin S /\ 4 \notin S /\ 5 \notin S
             /\ 6 \in S
    BY <2>7, SMT DEF Windows
  <2>8. CASE /\ 0 \notin S /\ 1 \notin S /\ 2 \notin S /\ 3 \notin S /\ 4 \notin S /\ 5 \notin S
             /\ 6 \notin S
    <3>1. \A y \in S : y \in Int /\ 7 <= y /\ y <= 7
      BY <2>8, SMT DEF Windows
    <3> QED BY <3>1
  <2> QED BY <2>1, <2>2, <2>3, <2>4, <2>5, <2>6, <2>7, <2>8
<1> QED BY <1>1 DEF Min

LEMMA WindowIsFound ==
  ASSUME NEW offsets, NEW c, WindowsWith(offsets, c) # {}
  PROVE  getWindow(offsets, c) \in Windows /\ InWindow(offsets[getWindow(offsets, c)], c)
<1>1. WindowsWith(offsets, c) \in SUBSET Windows
  BY DEF WindowsWith
<1>2. Min(WindowsWith(offsets, c)) \in WindowsWith(offsets, c)
  BY <1>1, MinIsMember
<1> QED BY <1>2 DEF getWindow, WindowsWith

LEMMA WindowIsUsed ==
  ASSUME NEW e \in Encoder, NEW w \in Windows
  PROVE  LET f == useDynamicWindow(e, w)
         IN  /\ f \in Encoder /\ f.window = w
             /\ f.single = e.single /\ f.offsets = e.offsets
<1> DEFINE used(i) == e.use[(e.next + i) % 8]
           at == CHOOSE i \in Windows : used(i) = w
           place(j) == LET i == ((j - e.next) % 8)
                       IN  IF i < at THEN used(i) ELSE IF i < 7 THEN used(i + 1) ELSE w
           use == [j \in Windows |-> place(j)]
<1>1. useDynamicWindow(e, w) = [e EXCEPT !.window = w, !.use = use]
  BY Zenon DEF useDynamicWindow
<1>2. e.use \in [Windows -> Windows] /\ e.next \in Int
  BY SMT DEF Encoder, Windows
<1>3. ASSUME NEW i \in Int
      PROVE  used(i) \in Windows
  <2>1. (e.next + i) % 8 \in Windows
    BY <1>2, SMT DEF Windows
  <2> QED BY <1>2, <2>1
<1>4. ASSUME NEW j \in Windows
      PROVE  place(j) \in Windows
  <2>1. ((j - e.next) % 8) \in Int /\ ((j - e.next) % 8) + 1 \in Int
    BY <1>2, SMT DEF Windows
  <2>2. used(((j - e.next) % 8)) \in Windows /\ used(((j - e.next) % 8) + 1) \in Windows
    BY <1>3, <2>1
  <2> HIDE DEF used, at
  <2> QED BY <2>2
<1>5. use \in [Windows -> Windows]
  BY <1>4
<1> HIDE DEF use
<1> QED BY <1>1, <1>5 DEF Encoder

LEMMA ModeIsSet ==
  ASSUME NEW e \in Encoder, NEW m \in BOOLEAN
  PROVE  LET f == InMode(e, m)
         IN  /\ f \in Encoder /\ f.single = m
             /\ f.window = e.window /\ f.offsets = e.offsets
BY DEF InMode, Encoder

LEMMA WindowIsDefined ==
  ASSUME NEW e \in Encoder, NEW c, DynamicOffset(c) \in Characters
  PROVE  LET f == DefineWindow(e, c)
         IN  /\ f \in Encoder /\ f.window = e.use[e.next] /\ f.window \in Windows
             /\ f.single = e.single
             /\ f.offsets = [e.offsets EXCEPT ![f.window] = DynamicOffset(c)]
<1> DEFINE w == e.use[e.next]
           e1 == [e EXCEPT !.next = (@ + 1) % 8, !.offsets[w] = DynamicOffset(c)]
<1>1. e.use \in [Windows -> Windows] /\ e.next \in Windows /\ w \in Windows
  BY DEF Encoder
<1>2. (e.next + 1) % 8 \in Windows
  BY <1>1, SMT DEF Windows
<1>3. /\ e1 \in Encoder /\ e1.single = e.single
      /\ e1.offsets = [e.offsets EXCEPT ![w] = DynamicOffset(c)]
  BY <1>1, <1>2 DEF Encoder
<1>4. DefineWindow(e, c) = useDynamicWindow(e1, w)
  BY Zenon DEF DefineWindow
<1> HIDE DEF w, e1
<1>5. LET f == useDynamicWindow(e1, w)
      IN  f \in Encoder /\ f.window = w /\ f.single = e1.single /\ f.offsets = e1.offsets
  BY <1>1, <1>3, WindowIsUsed, Zenon
<1>6. w = e.use[e.next]
  BY DEF w
<1> QED BY <1>1, <1>3, <1>4, <1>5, <1>6, Zenon

LEMMA FixedOffsetsAre ==
  /\ fixedOffsets[0] = 192 /\ fixedOffsets[1] = 592 /\ fixedOffsets[2] = 880
  /\ fixedOffsets[3] = 1328 /\ fixedOffsets[4] = 12352 /\ fixedOffsets[5] = 12448
  /\ fixedOffsets[6] = 65376
BY SMT DEF fixedOffsets

LEMMA FixedIsFound ==
  ASSUME NEW c \in Int, FixedWith(c) # {}
  PROVE  LET i == Min(FixedWith(c))
         IN  /\ i \in Int /\ 0 <= i /\ i <= 6
             /\ fixedOffsets[i] \in Int /\ 192 <= fixedOffsets[i] /\ fixedOffsets[i] <= 65376
             /\ 0 <= c - fixedOffsets[i] /\ c - fixedOffsets[i] <= 127
<1>1. FixedWith(c) \in SUBSET Windows
  BY SMT DEF FixedWith, Windows
<1>2. PICK i : i = Min(FixedWith(c))
  OBVIOUS
<1>3. i \in 0..6 /\ InWindow(fixedOffsets[i], c)
  BY <1>1, <1>2, MinIsMember, SMT DEF FixedWith
<1>4. i = 0 \/ i = 1 \/ i = 2 \/ i = 3 \/ i = 4 \/ i = 5 \/ i = 6
  BY <1>3, SMT
<1>5. fixedOffsets[i] \in Int /\ 192 <= fixedOffsets[i] /\ fixedOffsets[i] <= 65376
  BY <1>4, FixedOffsetsAre, SMT
<1>6. 0 <= c - fixedOffsets[i] /\ c - fixedOffsets[i] <= 127
  BY <1>3, <1>5, SMT DEF InWindow
<1> QED BY <1>2, <1>3, <1>5, <1>6, SMT

LEMMA OffsetRanges ==
  ASSUME NEW c \in Int, HasDynamicOffset(c), FixedWith(c) = {}
  PROVE  \/ 128 <= c /\ c <= 13311
         \/ 65536 <= c /\ c <= 131071
         \/ 57344 <= c /\ c <= 65519
<1>1. InSmallScript(c) \/ IsBehindGap(c)
  BY Zenon DEF HasDynamicOffset
<1> QED BY <1>1, SMT DEF InSmallScript, IsBehindGap

LEMMA DynamicOffsetIs ==
  ASSUME NEW c \in Characters, HasDynamicOffset(c)
  PROVE  /\ DynamicOffset(c) \in Characters /\ InWindow(DynamicOffset(c), c)
         /\ c \in Units =>
              /\ OffsetCode(c) \in Bytes /\ ~Reserved(OffsetCode(c))
              /\ DefinedOffset(OffsetCode(c)) = DynamicOffset(c)
         /\ c \notin Units =>
              /\ OffsetCode(c) - 512 \in 0..511
              /\ DynamicOffset(c) = 65536 + 128 * (OffsetCode(c) - 512)
<1>1. c \in Int /\ 0 <= c /\ c <= 1114111 /\ (c \in Units <=> c <= 65535)
  BY CharactersAre, MaxCharacterIs, UnitsAre, SMT
<1>2. PICK o : o = DynamicOffset(c)
  OBVIOUS
<1>3. PICK code : code = OffsetCode(c)
  OBVIOUS
<1>4. CASE FixedWith(c) # {}
  <2>1. PICK i : i = Min(FixedWith(c))
    OBVIOUS
  <2>2. /\ i \in Int /\ 0 <= i /\ i <= 6 /\ o = fixedOffsets[i] /\ o \in Int
        /\ 192 <= o /\ o <= 65376 /\ 0 <= c - o /\ c - o <= 127
        /\ code = 249 + i /\ c <= 65535
    BY <1>1, <1>2, <1>3, <1>4, <2>1, FixedIsFound, SMT DEF DynamicOffset, OffsetCode, fixedThreshold
  <2>3. code \in Bytes /\ ~Reserved(code)
    BY <2>2, SMT DEF Bytes, Reserved, reservedStart, fixedThreshold
  <2>4. DefinedOffset(code) = o
    <3>1. /\ ~(code < gapThreshold) /\ ~(code < reservedStart)
          /\ code - fixedThreshold = i
      BY <2>2, SMT DEF gapThreshold, reservedStart, fixedThreshold
    <3> QED BY <2>2, <3>1, SMT DEF DefinedOffset
  <2>5. o \in Characters
    BY <2>2, CharactersAre, MaxCharacterIs, SMT
  <2>6. InWindow(o, c)
    BY <1>1, <2>2, SMT DEF InWindow
  <2>7. c \in Units
    BY <1>1, <2>2, SMT
  <2> QED BY <1>2, <1>3, <2>3, <2>4, <2>5, <2>6, <2>7
<1>5. CASE FixedWith(c) = {}
  <2>1. PICK q : q = c \div 128
    OBVIOUS
  <2>2. q \in Int /\ 128 * q <= c /\ c <= 128 * q + 127
    BY <1>1, <2>1, DivMod, SMT
  <2>3. o = 128 * q
    BY <1>2, <1>5, <2>1, SMT DEF DynamicOffset
  <2>4. InWindow(o, c)
    BY <1>1, <2>2, <2>3, SMT DEF InWindow
  <2>5. o \in Characters
    BY <1>1, <2>2, <2>3, CharactersAre, MaxCharacterIs, SMT
  <2>6. \/ 128 <= c /\ c <= 13311
        \/ 65536 <= c /\ c <= 131071
        \/ 57344 <= c /\ c <= 65519
    BY <1>1, <1>5, OffsetRanges, SMT
  <2>7. CASE 128 <= c /\ c <= 13311
    <3>1. code = q /\ 1 <= q /\ q <= 103
      BY <1>1, <1>3, <1>5, <2>1, <2>2, <2>7, SMT DEF OffsetCode, gapOffset
    <3>2. code \in Bytes /\ ~Reserved(code)
      BY <2>2, <3>1, SMT DEF Bytes, Reserved, reservedStart, fixedThreshold
    <3>3. DefinedOffset(code) = o
      BY <2>2, <2>3, <3>1, SMT DEF DefinedOffset, gapThreshold
    <3>4. c \in Units
      BY <1>1, <2>7, SMT
    <3> QED BY <1>2, <1>3, <2>4, <2>5, <3>2, <3>3, <3>4
  <2>8. CASE 57344 <= c /\ c <= 65519
    <3>1. code = (c - 44032) \div 128
      BY <1>1, <1>3, <1>5, <2>8, SMT DEF OffsetCode, gapOffset
    <3>2. code \in Int /\ 128 * code <= c - 44032 /\ c - 44032 <= 128 * code + 127
      BY <1>1, <3>1, DivMod, SMT
    <3>3. code = q - 344 /\ 104 <= code /\ code <= 167
      <4>1. 104 <= code /\ code <= 167
        BY <1>1, <2>8, <3>2, SMT
      <4>2. 128 * (code + 344) <= c /\ c <= 128 * (code + 344) + 127
        BY <1>1, <3>2, SMT
      <4> QED BY <1>1, <2>2, <3>2, <4>1, <4>2, SMT
    <3>4. code \in Bytes /\ ~Reserved(code)
      <4>1. code \in Int /\ 104 <= code /\ code <= 167
        BY <3>2, <3>3
      <4> QED BY <4>1, SMT DEF Bytes, Reserved, reservedStart, fixedThreshold
    <3>5. DefinedOffset(code) = 128 * code + 44032
      BY <3>2, <3>3, SMT DEF DefinedOffset, gapThreshold, reservedStart, gapOffset
    <3>6. DefinedOffset(code) = o
      BY <2>2, <2>3, <3>3, <3>5, SMT
    <3>7. c \in Units
      BY <1>1, <2>8, SMT
    <3> QED BY <1>2, <1>3, <2>4, <2>5, <3>4, <3>6, <3>7
  <2>9. CASE 65536 <= c /\ c <= 131071
    <3>1. code = q /\ 512 <= q /\ q <= 1023
      BY <1>1, <1>3, <1>5, <2>1, <2>2, <2>9, SMT DEF OffsetCode, gapOffset
    <3>2. code - 512 \in 0..511 /\ o = 65536 + 128 * (code - 512)
      BY <2>2, <2>3, <3>1, SMT
    <3>3. c \notin Units
      BY <1>1, <2>9, SMT
    <3> QED BY <1>2, <1>3, <2>4, <2>5, <3>2, <3>3
  <2> QED BY <2>6, <2>7, <2>8, <2>9
<1> QED BY <1>4, <1>5

-----------------------------------------------------------------------------
(* What the encoder sends is read as what it stands for, by a decoder that   *)
(* knows its mode, its selected window and its windows, and the decoder then *)
(* knows those that the encoder has changed to.                              *)

Follows(d, e) ==
  /\ Ready(d) /\ e \in Encoder
  /\ d.single = e.single /\ d.window = e.window /\ d.offsets = e.offsets

Conveys(d, sent, out) == \E d2 : Reads(d, sent.bytes, out, d2) /\ Follows(d2, sent.e)

LEMMA ConveysDirect ==
  ASSUME NEW d, NEW e, Follows(d, e), e.single, NEW c, Direct(c)
  PROVE  Conveys(d, Sent(e, <<c>>), UnitsOf(c))
<1>1. Ready(d) /\ d.single /\ d \in Decoder
  BY DEF Follows, Ready
<1>2. c \in Bytes /\ Yields(d, c, <<c>>, d)
  BY <1>1, YieldsDirect
<1>3. c \in Units
  BY <1>2, BytesAreUnits
<1>4. UnitsOf(c) = <<c>> /\ <<c>> \in Seq(Units)
  BY <1>3, UnitItself
<1>5. Reads(d, <<c>>, <<c>>, d)
  BY <1>1, <1>2, <1>4, ReadsOne
<1> QED BY <1>4, <1>5 DEF Conveys, Sent

LEMMA ConveysWindowed ==
  ASSUME NEW d, NEW e, Follows(d, e), e.single,
         NEW c \in Characters, InWindow(e.offsets[e.window], c)
  PROVE  Conveys(d, Sent(e, <<Windowed(e, c)>>), UnitsOf(c))
<1>1. Ready(d) /\ d.single /\ d \in Decoder
  BY DEF Follows, Ready
<1>2. d.offsets[d.window] = e.offsets[e.window]
  BY DEF Follows
<1>3. Windowed(e, c) \in Bytes /\ Yields(d, Windowed(e, c), UnitsOf(c), d)
  BY <1>1, <1>2, YieldsWindowed DEF Windowed
<1>4. Reads(d, <<Windowed(e, c)>>, UnitsOf(c), d)
  BY <1>1, <1>3, UnitsOfType, ReadsOne
<1> QED BY <1>4 DEF Conveys, Sent

LEMMA QuotedIs ==
  ASSUME NEW d \in Decoder, NEW c \in Units, NEW b \in Bytes,
         \/ b < 128 /\ staticOffsets[d.quote] + b = c
         \/ b >= 128 /\ d.offsets[d.quote] + b - 128 = c
  PROVE  Quoted(d, b) = <<c>>
<1>1. (IF b < 128 THEN staticOffsets[d.quote] + b ELSE d.offsets[d.quote] + b - 128) = c
  BY SMT DEF Bytes
<1>2. Quoted(d, b) = UnitsOf(c)
  BY <1>1, Zenon DEF Quoted
<1> QED BY <1>2, UnitItself

LEMMA ConveysQuoted ==
  ASSUME NEW d, NEW e, Follows(d, e), e.single,
         NEW w \in Windows, NEW c \in Units, NEW b \in Bytes,
         \/ b < 128 /\ staticOffsets[w] + b = c
         \/ b >= 128 /\ e.offsets[w] + b - 128 = c
  PROVE  Conveys(d, Sent(e, <<SQ0 + w, b>>), UnitsOf(c))
<1> DEFINE d1 == In([d EXCEPT !.quote = w], "quoteOne")
           d2 == In(d1, "readCommand")
<1>1. Ready(d) /\ d.single /\ d \in Decoder
  BY DEF Follows, Ready
<1>2. SQ0 + w \in Bytes /\ Yields(d, SQ0 + w, <<>>, d1)
  BY <1>1, YieldsQuote
<1>3. d1 \in Decoder /\ d1.state = "quoteOne" /\ d1.quote = w /\ d1.offsets = e.offsets
  BY <1>1, <1>2 DEF Yields, Follows, Decoder, In
<1>4. Follows(d2, e)
  BY <1>1, StatesAre, DecoderUpdates, <1>3 DEF Follows, Ready, In, Decoder
<1> HIDE DEF d1
<1>5. Quoted(d1, b) = <<c>>
  BY <1>3, QuotedIs
<1>6. Yields(d1, b, <<c>>, d2)
  BY <1>3, <1>5, YieldsQuoted
<1> HIDE DEF d2
<1>7. UnitsOf(c) = <<c>> /\ <<c>> \in Seq(Units)
  BY UnitItself
<1>8. Reads(d, <<SQ0 + w, b>>, <<c>>, d2)
  BY <1>1, <1>2, <1>6, <1>7, ReadsTwo
<1> QED BY <1>4, <1>7, <1>8 DEF Conveys, Sent

LEMMA Halves ==
  ASSUME NEW c \in Units
  PROVE  \E a \in Bytes, b \in Bytes :
           /\ BigEndian(c) = <<a, b>> /\ c = 256 * a + b
           /\ a = c \div 256
<1>1. c \in Int /\ 0 <= c /\ c <= 65535
  BY UnitsAre
<1>2. PICK a, b : a = c \div 256 /\ b = c % 256
  OBVIOUS
<1>3. a \in Int /\ b \in Int /\ c = 256 * a + b /\ 0 <= b /\ b <= 255
  BY <1>1, <1>2, DivMod, SMT
<1>4. a \in Bytes /\ b \in Bytes
  BY <1>1, <1>3, SMT DEF Bytes
<1>5. BigEndian(c) = <<a, b>>
  BY <1>2, Zenon DEF BigEndian
<1> QED BY <1>2, <1>3, <1>4, <1>5, SMT

LEMMA ConveysQuotedUnit ==
  ASSUME NEW d, NEW e, Follows(d, e),
         NEW quote, quote = (IF e.single THEN SQU ELSE UQU), NEW c \in Units
  PROVE  Conveys(d, Sent(e, <<quote>> \o BigEndian(c)), UnitsOf(c))
<1>1. Ready(d) /\ d.single = e.single /\ d \in Decoder /\ e.single \in BOOLEAN
  BY DEF Follows, Ready, Encoder
<1>2. PICK a \in Bytes, b \in Bytes : BigEndian(c) = <<a, b>> /\ c = 256 * a + b
  BY Halves
<1> DEFINE d1 == In(d, "quotePairOne")
           d2 == In([d1 EXCEPT !.one = a], "quotePairTwo")
           d3 == In(d2, "readCommand")
<1>3. quote \in Bytes /\ Yields(d, quote, <<>>, d1)
  BY <1>1, YieldsQuotePair, YieldsUnicodeQuote
<1>4. d1 \in Decoder /\ d1.state = "quotePairOne"
  BY <1>1, <1>3 DEF Yields, Decoder, In
<1>5. Yields(d1, a, <<>>, d2)
  BY <1>4, YieldsPairOne
<1>6. d2 \in Decoder /\ d2.state = "quotePairTwo" /\ d2.one = a
  BY <1>4, <1>5 DEF Yields, Decoder, In
<1>7. Follows(d3, e)
  <2>1. d3 \in Decoder
    BY <1>6, StatesAre, DecoderUpdates DEF In
  <2>2. d3.state = "readCommand" /\ d3.single = d.single /\ d3.window = d.window /\ d3.offsets = d.offsets
    BY <1>1, <2>1 DEF In, Decoder
  <2> QED BY <2>1, <2>2 DEF Follows, Ready
<1> HIDE DEF d1, d2, d3
<1>8. Yields(d2, b, <<c>>, In(d2, "readCommand"))
  BY <1>2, <1>6, YieldsPairTwo, SMT
<1>9. Yields(d2, b, <<c>>, d3)
  BY <1>8 DEF d3
<1>10. UnitsOf(c) = <<c>> /\ <<c>> \in Seq(Units)
  BY UnitItself
<1>11. Reads(d1, <<a, b>>, <<c>>, d3)
  BY <1>4, <1>5, <1>9, <1>10, ReadsTwo, Zenon
<1>12. Reads(d, <<quote>> \o <<a, b>>, <<c>>, d3)
  BY <1>1, <1>3, <1>11, ReadsAfter, Zenon
<1> QED BY <1>2, <1>7, <1>10, <1>12, SMT DEF Conveys, Sent

\* In Unicode mode, a unit whose first byte is no command.
LEMMA ReadsUnit ==
  ASSUME NEW d, NEW e, Follows(d, e), ~e.single,
         NEW c \in Units, c \div 256 \notin UC0..Urs
  PROVE  \E a \in Bytes, b \in Bytes, d1 \in Decoder, d2 \in Decoder :
           /\ BigEndian(c) = <<a, b>>
           /\ Yields(d, a, <<>>, d1) /\ Yields(d1, b, <<c>>, d2) /\ Follows(d2, e)
<1>1. Ready(d) /\ ~d.single /\ d \in Decoder
  BY DEF Follows, Ready
<1>2. PICK a \in Bytes, b \in Bytes : BigEndian(c) = <<a, b>> /\ c = 256 * a + b /\ a = c \div 256
  BY Halves
<1> DEFINE d1 == In([d EXCEPT !.one = a], "quotePairTwo")
           d2 == In(d1, "readCommand")
<1>3. a \notin UC0..Urs
  BY <1>2, Zenon
<1>4. Yields(d, a, <<>>, d1)
  BY <1>1, <1>3, YieldsFirstHalf
<1>5. d1 \in Decoder /\ d1.state = "quotePairTwo" /\ d1.one = a
  BY <1>1, <1>4 DEF Yields, Decoder, In
<1>6. Follows(d2, e)
  <2>1. d2 \in Decoder
    BY <1>5, StatesAre, DecoderUpdates DEF In
  <2>2. d2.state = "readCommand" /\ d2.single = d.single /\ d2.window = d.window /\ d2.offsets = d.offsets
    BY <1>1, <2>1 DEF In, Decoder
  <2> QED BY <2>1, <2>2 DEF Follows, Ready
<1> HIDE DEF d1
<1>7. Yields(d1, b, <<c>>, d2)
  BY <1>2, <1>5, YieldsPairTwo, SMT
<1>8. d2 \in Decoder
  BY <1>6 DEF Follows, Ready
<1> HIDE DEF d2
<1>9. d1 \in Decoder
  BY <1>5
<1> QED BY <1>2, <1>4, <1>6, <1>7, <1>8, <1>9, Zenon

LEMMA SurrogatesAreNoCommands ==
  ASSUME NEW c \in Int, c >= 55296, c <= 57343
  PROVE  c \in Units /\ c \div 256 \notin UC0..Urs
<1>1. c \in Units
  BY UnitsAre
<1>2. PICK a : a = c \div 256
  OBVIOUS
<1>3. a \in Int /\ 256 * a <= c
  BY <1>2, DivMod, SMT
<1>4. a < 224
  BY <1>3, SMT
<1>5. a \notin UC0..Urs
  BY <1>3, <1>4, SMT DEF UC0, Urs
<1> QED BY <1>1, <1>2, <1>5

\* The units whose first byte would be a command are quoted.
MustBeQuoted(c) == c \in 57344..62207

LEMMA MustBeQuotedIs ==
  ASSUME NEW c
  PROVE  MustBeQuoted(c) <=> c \in Int /\ 57344 <= c /\ c <= 62207
<1>1. PICK l \in Int, m \in Int : l = 57344 /\ m = 62207
  BY SMT
<1>2. MustBeQuoted(c) <=> c \in l..m
  BY <1>1, SMT DEF MustBeQuoted
<1>3. MustBeQuoted(c) <=> c \in Int /\ l <= c /\ c <= m
  BY <1>2, Between, SMT
<1> QED BY <1>1, <1>3, SMT

LEMMA NoCommand ==
  ASSUME NEW c \in Units, ~MustBeQuoted(c)
  PROVE  c \div 256 \notin UC0..Urs
<1>1. c \in Int /\ (c < 57344 \/ c > 62207)
  BY UnitsAre, MustBeQuotedIs, SMT
<1>2. PICK a, b : a = c \div 256 /\ b = c % 256
  OBVIOUS
<1>3. a \in Int /\ b \in Int /\ c = 256 * a + b /\ 0 <= b /\ b <= 255
  BY <1>1, <1>2, DivMod, SMT
<1>4. a < 224 \/ a > 242
  BY <1>1, <1>3, SMT
<1>5. a \notin UC0..Urs
  BY <1>3, <1>4, SMT DEF UC0, Urs
<1> QED BY <1>2, <1>5, SMT

LEMMA PairOf ==
  ASSUME NEW c \in Characters, c \notin Units
  PROVE  \E u \in Units, v \in Units :
           /\ UnitsOf(c) = <<u, v>> /\ <<u, v>> = <<u>> \o <<v>>
           /\ u \div 256 \notin UC0..Urs /\ v \div 256 \notin UC0..Urs
<1>1. c \in Int /\ 65536 <= c /\ c <= 1114111
  BY CharactersAre, MaxCharacterIs, UnitsAre, SMT
<1>2. PICK q, r : q = c \div 1024 /\ r = c % 1024
  OBVIOUS
<1>3. q \in Int /\ r \in Int /\ c = 1024 * q + r /\ 0 <= r /\ r <= 1023
  BY <1>1, <1>2, DivMod
<1>4. 64 <= q /\ q <= 1087
  BY <1>1, <1>3, SMT
<1>5. PICK u, v : u = 55232 + q /\ v = 56320 + r
  OBVIOUS
<1>6. /\ u \in Int /\ u >= 55296 /\ u <= 57343
      /\ v \in Int /\ v >= 55296 /\ v <= 57343
  BY <1>3, <1>4, <1>5, SMT
<1>7. UnitsOf(c) = <<u, v>>
  BY <1>2, <1>5, SMT DEF UnitsOf
<1>8. u \in Units /\ u \div 256 \notin UC0..Urs
  BY <1>6, SurrogatesAreNoCommands, SMT
<1>9. v \in Units /\ v \div 256 \notin UC0..Urs
  BY <1>6, SurrogatesAreNoCommands, SMT
<1>10. <<u, v>> = <<u>> \o <<v>>
  BY <1>8, <1>9, TwoConcatenated
<1> QED BY <1>7, <1>8, <1>9, <1>10, Zenon

LEMMA ReadsWrittenOut ==
  ASSUME NEW d, NEW e, Follows(d, e), ~e.single,
         NEW c \in Characters, ~MustBeQuoted(c)
  PROVE  \E d2 : Reads(d, WrittenOut(c), UnitsOf(c), d2) /\ Follows(d2, e)
<1>1. d \in Decoder
  BY DEF Follows, Ready
<1>2. CASE c \in Units
  <2>1. c \div 256 \notin UC0..Urs
    BY <1>2, NoCommand
  <2>2. PICK a \in Bytes, b \in Bytes, d1 \in Decoder, d2 \in Decoder :
          /\ BigEndian(c) = <<a, b>>
          /\ Yields(d, a, <<>>, d1) /\ Yields(d1, b, <<c>>, d2) /\ Follows(d2, e)
    BY <1>2, <2>1, ReadsUnit
  <2>3. UnitsOf(c) = <<c>> /\ <<c>> \in Seq(Units)
    BY <1>2, UnitItself
  <2>4. Reads(d, <<a, b>>, <<c>>, d2)
    BY <1>1, <2>2, <2>3, ReadsTwo
  <2>5. WrittenOut(c) = <<a, b>>
    BY <1>2, <2>2 DEF WrittenOut
  <2> QED BY <2>2, <2>3, <2>4, <2>5
<1>3. CASE c \notin Units
  <2>1. PICK u \in Units, v \in Units :
          /\ UnitsOf(c) = <<u, v>> /\ <<u, v>> = <<u>> \o <<v>>
          /\ u \div 256 \notin UC0..Urs /\ v \div 256 \notin UC0..Urs
    BY <1>3, PairOf
  <2>2. PICK a \in Bytes, b \in Bytes, d1 \in Decoder, d2 \in Decoder :
          /\ BigEndian(u) = <<a, b>>
          /\ Yields(d, a, <<>>, d1) /\ Yields(d1, b, <<u>>, d2) /\ Follows(d2, e)
    BY <2>1, ReadsUnit
  <2>3. PICK a2 \in Bytes, b2 \in Bytes, d3 \in Decoder, d4 \in Decoder :
          /\ BigEndian(v) = <<a2, b2>>
          /\ Yields(d2, a2, <<>>, d3) /\ Yields(d3, b2, <<v>>, d4) /\ Follows(d4, e)
    BY <2>1, <2>2, ReadsUnit
  <2>4. <<u>> \in Seq(Units) /\ <<v>> \in Seq(Units) /\ <<a2, b2>> \in Seq(Bytes)
    BY OneTuple, TwoTuple
  <2>5. Reads(d2, <<a2, b2>>, <<v>>, d4)
    BY <2>3, <2>4, ReadsTwo
  <2>6. Reads(d, <<a, b>> \o <<a2, b2>>, <<u>> \o <<v>>, d4)
    BY <1>1, <2>2, <2>4, <2>5, ReadsTwoAnd
  <2>7. UnitsOf(c)[1] = u /\ UnitsOf(c)[2] = v
    BY <2>1
  <2>8. WrittenOut(c) = <<a, b>> \o <<a2, b2>>
    BY <1>3, <2>2, <2>3, <2>7 DEF WrittenOut
  <2>9. Reads(d, WrittenOut(c), UnitsOf(c), d4)
    BY <2>1, <2>6, <2>8
  <2> QED BY <2>3, <2>9
<1> QED BY <1>2, <1>3

LEMMA ConveysWrittenOut ==
  ASSUME NEW d, NEW e, Follows(d, e), ~e.single,
         NEW c \in Characters, ~MustBeQuoted(c)
  PROVE  Conveys(d, Sent(e, WrittenOut(c)), UnitsOf(c))
<1>1. PICK d2 : Reads(d, WrittenOut(c), UnitsOf(c), d2) /\ Follows(d2, e)
  BY ReadsWrittenOut
<1> QED BY <1>1 DEF Conveys, Sent

LEMMA ConveysChange ==
  ASSUME NEW d, NEW e, Follows(d, e), e.single,
         NEW c \in Characters, ~MustBeQuoted(c)
  PROVE  Conveys(d, Sent(InMode(e, FALSE), <<SCU>> \o WrittenOut(c)), UnitsOf(c))
<1> DEFINE d1 == [d EXCEPT !.single = FALSE]
           f == InMode(e, FALSE)
<1>1. Ready(d) /\ d.single /\ d \in Decoder /\ e \in Encoder
  BY DEF Follows, Ready
<1>2. SCU \in Bytes /\ Yields(d, SCU, <<>>, d1)
  BY <1>1, YieldsChange
<1>3. f \in Encoder /\ ~f.single /\ f.window = e.window /\ f.offsets = e.offsets
  BY <1>1, ModeIsSet
<1>4. Follows(d1, f)
  <2>1. d1 \in Decoder
    BY <1>2 DEF Yields
  <2>2. d1.state = d.state /\ ~d1.single /\ d1.window = d.window /\ d1.offsets = d.offsets
    BY <1>1 DEF Decoder
  <2>3. f.single = d1.single
    BY <1>1 DEF InMode, Decoder, Encoder
  <2> HIDE DEF d1, f
  <2> QED BY <1>1, <1>3, <2>1, <2>2, <2>3 DEF Follows, Ready
<1> HIDE DEF d1, f
<1>5. PICK d2 : Reads(d1, WrittenOut(c), UnitsOf(c), d2) /\ Follows(d2, f)
  BY <1>3, <1>4, ReadsWrittenOut
<1>6. Reads(d, <<SCU>> \o WrittenOut(c), UnitsOf(c), d2)
  BY <1>1, <1>2, <1>5, ReadsAfter
<1> QED BY <1>5, <1>6 DEF Conveys, Sent, f

\* The commands of both modes that lead to single-byte mode.
Selection(d, b, w, d1) ==
  /\ Yields(d, b, <<>>, d1)
  /\ d1.state = "readCommand" /\ d1.single = TRUE
  /\ d1.window = w /\ d1.offsets = d.offsets

LEMMA ReadsSelection ==
  ASSUME NEW d, Ready(d), NEW w \in Windows,
         NEW select, select = IF d.single THEN SC0 ELSE UC0
  PROVE  /\ select + w \in Bytes
         /\ \E d1 \in Decoder : Selection(d, select + w, w, d1)
<1>1. d \in Decoder /\ d.single \in BOOLEAN
  BY DEF Ready, Decoder
<1>2. CASE d.single
  <2> DEFINE d1 == [d EXCEPT !.window = w]
  <2>1. SC0 + w \in Bytes /\ Yields(d, SC0 + w, <<>>, d1)
    BY <1>2, YieldsSelect
  <2>2. d1 \in Decoder
    BY <2>1 DEF Yields
  <2>3. d1.state = "readCommand" /\ d1.single = TRUE /\ d1.window = w /\ d1.offsets = d.offsets
    BY <1>1, <1>2, <2>2 DEF Ready, Decoder, In
  <2> HIDE DEF d1
  <2> QED BY <1>2, <2>1, <2>2, <2>3 DEF Selection
<1>3. CASE ~d.single
  <2> DEFINE d1 == [d EXCEPT !.single = TRUE, !.window = w]
  <2>1. UC0 + w \in Bytes /\ Yields(d, UC0 + w, <<>>, d1)
    BY <1>3, YieldsUnicodeSelect
  <2>2. d1 \in Decoder
    BY <2>1 DEF Yields
  <2>3. d1.state = "readCommand" /\ d1.single = TRUE /\ d1.window = w /\ d1.offsets = d.offsets
    BY <1>1, <2>2 DEF Ready, Decoder, In
  <2> HIDE DEF d1
  <2> QED BY <1>3, <2>1, <2>2, <2>3 DEF Selection
<1> QED BY <1>1, <1>2, <1>3

LEMMA ReadsDefinition ==
  ASSUME NEW d, Ready(d), NEW w \in Windows,
         NEW define, define = IF d.single THEN SD0 ELSE UD0
  PROVE  /\ define + w \in Bytes
         /\ \E d1 \in Decoder :
              /\ Yields(d, define + w, <<>>, d1)
              /\ d1.state = "defineOne" /\ d1.single = TRUE
              /\ d1.window = w /\ d1.offsets = d.offsets
<1>1. d \in Decoder /\ d.single \in BOOLEAN
  BY DEF Ready, Decoder
<1>2. CASE d.single
  <2> DEFINE d1 == In([d EXCEPT !.window = w], "defineOne")
  <2>1. SD0 + w \in Bytes /\ Yields(d, SD0 + w, <<>>, d1)
    BY <1>2, YieldsDefine
  <2>2. d1 \in Decoder
    BY <2>1 DEF Yields
  <2>3. d1.state = "defineOne" /\ d1.single = TRUE /\ d1.window = w /\ d1.offsets = d.offsets
    BY <1>1, <1>2, <2>2 DEF Ready, Decoder, In
  <2> HIDE DEF d1
  <2> QED BY <1>2, <2>1, <2>2, <2>3
<1>3. CASE ~d.single
  <2> DEFINE d1 == In([d EXCEPT !.single = TRUE, !.window = w], "defineOne")
  <2>1. UD0 + w \in Bytes /\ Yields(d, UD0 + w, <<>>, d1)
    BY <1>3, YieldsUnicodeDefine
  <2>2. d1 \in Decoder
    BY <2>1 DEF Yields
  <2>3. d1.state = "defineOne" /\ d1.single = TRUE /\ d1.window = w /\ d1.offsets = d.offsets
    BY <1>1, <2>2 DEF Ready, Decoder, In
  <2> HIDE DEF d1
  <2> QED BY <1>3, <2>1, <2>2, <2>3
<1> QED BY <1>1, <1>2, <1>3

LEMMA ReadsExtension ==
  ASSUME NEW d, Ready(d),
         NEW extend, extend = IF d.single THEN SDX ELSE UDX
  PROVE  /\ extend \in Bytes
         /\ \E d1 \in Decoder :
              /\ Yields(d, extend, <<>>, d1)
              /\ d1.state = "definePairOne" /\ d1.single = TRUE
              /\ d1.offsets = d.offsets
<1>1. d \in Decoder /\ d.single \in BOOLEAN
  BY DEF Ready, Decoder
<1>2. CASE d.single
  <2> DEFINE d1 == In(d, "definePairOne")
  <2>1. SDX \in Bytes /\ Yields(d, SDX, <<>>, d1)
    BY <1>2, YieldsExtended
  <2>2. d1 \in Decoder
    BY <2>1 DEF Yields
  <2>3. d1.state = "definePairOne" /\ d1.single = TRUE /\ d1.offsets = d.offsets
    BY <1>1, <1>2, <2>2 DEF Ready, Decoder, In
  <2> HIDE DEF d1
  <2> QED BY <1>2, <2>1, <2>2, <2>3
<1>3. CASE ~d.single
  <2> DEFINE d1 == In([d EXCEPT !.single = TRUE], "definePairOne")
  <2>1. UDX \in Bytes /\ Yields(d, UDX, <<>>, d1)
    BY <1>3, YieldsUnicodeExtended
  <2>2. d1 \in Decoder
    BY <2>1 DEF Yields
  <2>3. d1.state = "definePairOne" /\ d1.single = TRUE /\ d1.offsets = d.offsets
    BY <1>1, <2>2 DEF Ready, Decoder, In
  <2> HIDE DEF d1
  <2> QED BY <1>3, <2>1, <2>2, <2>3
<1> QED BY <1>1, <1>2, <1>3

\* After a command, a character in the window that is selected then.
LEMMA ReadsInWindow ==
  ASSUME NEW d, NEW f, Follows(d, f), f.single,
         NEW c \in Characters, InWindow(f.offsets[f.window], c)
  PROVE  Windowed(f, c) \in Bytes /\ Yields(d, Windowed(f, c), UnitsOf(c), d)
<1>1. Ready(d) /\ d.single
  BY DEF Follows
<1>2. d.offsets[d.window] = f.offsets[f.window]
  BY DEF Follows
<1> QED BY <1>1, <1>2, YieldsWindowed DEF Windowed

LEMMA ConveysSelected ==
  ASSUME NEW d, NEW e, Follows(d, e),
         NEW select, select = IF e.single THEN SC0 ELSE UC0,
         NEW c \in Characters, WindowsWith(e.offsets, c) # {}
  PROVE  Conveys(d, Selected(e, select, c), UnitsOf(c))
<1> DEFINE w == getWindow(e.offsets, c)
           e1 == InMode(e, TRUE)
           f == useDynamicWindow(e1, w)
<1>1. Ready(d) /\ d \in Decoder /\ e \in Encoder /\ d.single = e.single
  BY DEF Follows, Ready
<1>2. w \in Windows /\ InWindow(e.offsets[w], c)
  BY WindowIsFound
<1>3. e1 \in Encoder /\ e1.single = TRUE /\ e1.offsets = e.offsets
  BY <1>1, ModeIsSet
<1> HIDE DEF e1, w
<1>4. f \in Encoder /\ f.window = w /\ f.single = TRUE /\ f.offsets = e.offsets
  BY <1>2, <1>3, WindowIsUsed
<1>5. Selected(e, select, c) = Sent(f, <<select + f.window, Windowed(f, c)>>)
  <2>1. useDynamicWindow(InMode(e, TRUE), getWindow(e.offsets, c)) = f
    BY DEF w, e1
  <2> HIDE DEF f
  <2> QED BY <2>1 DEF Selected
<1> HIDE DEF f
<1>a. select = IF d.single THEN SC0 ELSE UC0
  BY <1>1
<1>6. PICK d1 \in Decoder :
        /\ Yields(d, select + w, <<>>, d1)
        /\ d1.state = "readCommand" /\ d1.single = TRUE
        /\ d1.window = w /\ d1.offsets = d.offsets
  <2>1. \E d1 \in Decoder : Selection(d, select + w, w, d1)
    BY <1>1, <1>2, <1>a, ReadsSelection
  <2> QED BY <2>1 DEF Selection
<1>7. select + w \in Bytes
  BY <1>1, <1>2, ReadsSelection
<1>8. Follows(d1, f)
  BY <1>4, <1>6 DEF Follows, Ready
<1>9. Windowed(f, c) \in Bytes /\ Yields(d1, Windowed(f, c), UnitsOf(c), d1)
  BY <1>2, <1>4, <1>8, ReadsInWindow
<1>10. UnitsOf(c) \in Seq(Units)
  BY UnitsOfType
<1>11. Reads(d, <<select + w, Windowed(f, c)>>, UnitsOf(c), d1)
  BY <1>1, <1>6, <1>7, <1>9, <1>10, ReadsTwo
<1> QED BY <1>4, <1>5, <1>8, <1>11 DEF Conveys, Sent

LEMMA ConveysAlphanumeric ==
  ASSUME NEW d, NEW e, Follows(d, e), ~e.single, NEW c, Direct(c)
  PROVE  Conveys(d, Sent(InMode(e, TRUE), <<UC0 + e.window, c>>), UnitsOf(c))
<1> DEFINE f == InMode(e, TRUE)
<1>1. Ready(d) /\ d \in Decoder /\ e \in Encoder /\ d.single = e.single /\ e.window \in Windows
  BY DEF Follows, Ready, Encoder
<1>2. f \in Encoder /\ f.single = TRUE /\ f.window = e.window /\ f.offsets = e.offsets
  BY <1>1, ModeIsSet
<1> HIDE DEF f
<1>3. UC0 = IF d.single THEN SC0 ELSE UC0
  BY <1>1
<1>4. PICK d1 \in Decoder :
        /\ Yields(d, UC0 + e.window, <<>>, d1)
        /\ d1.state = "readCommand" /\ d1.single = TRUE
        /\ d1.window = e.window /\ d1.offsets = d.offsets
  <2>1. \E d1 \in Decoder : Selection(d, UC0 + e.window, e.window, d1)
    BY <1>1, <1>3, ReadsSelection
  <2> QED BY <2>1 DEF Selection
<1>5. UC0 + e.window \in Bytes
  BY <1>1, <1>3, ReadsSelection
<1>6. Follows(d1, f)
  BY <1>2, <1>4 DEF Follows, Ready
<1>7. c \in Bytes /\ Yields(d1, c, <<c>>, d1)
  BY <1>4, YieldsDirect DEF Ready
<1>8. c \in Units
  BY <1>7, BytesAreUnits
<1>9. UnitsOf(c) = <<c>> /\ <<c>> \in Seq(Units)
  BY <1>8, UnitItself
<1>10. Reads(d, <<UC0 + e.window, c>>, <<c>>, d1)
  BY <1>1, <1>4, <1>5, <1>7, <1>9, ReadsTwo
<1> QED BY <1>6, <1>9, <1>10 DEF Conveys, Sent, f

\* The decoder has put the window that is selected where the encoder has.
LEMMA FollowsDefinition ==
  ASSUME NEW d \in Decoder, NEW f \in Encoder, NEW o \in Characters,
         d.single = TRUE, d.window = f.window,
         f.single = TRUE, f.offsets = [d.offsets EXCEPT ![f.window] = o]
  PROVE  /\ Follows([In(d, "readCommand") EXCEPT !.offsets[d.window] = o], f)
         /\ f.offsets[f.window] = o
<1> DEFINE d1 == In(d, "readCommand")
           d2 == [d1 EXCEPT !.offsets[d.window] = o]
<1>1. d1 \in Decoder
  BY StatesAre, DecoderUpdates DEF In
<1>2. /\ d1.state = "readCommand" /\ d1.single = TRUE
      /\ d1.window = d.window /\ d1.offsets = d.offsets
  BY <1>1 DEF In, Decoder
<1> HIDE DEF d1
<1>3. d2 \in Decoder
  BY <1>1, DecoderDefines
<1>4. /\ d2.state = "readCommand" /\ d2.single = TRUE
      /\ d2.window = d.window /\ d2.offsets = [d.offsets EXCEPT ![d.window] = o]
  BY <1>1, <1>2 DEF Decoder
<1>5. f.window \in Windows /\ d.offsets \in [Windows -> Characters]
  BY DEF Encoder, Decoder
<1>6. f.offsets[f.window] = o
  BY <1>5
<1> HIDE DEF d2
<1>7. Follows(d2, f)
  BY <1>3, <1>4 DEF Follows, Ready
<1> QED BY <1>6, <1>7 DEF d1, d2

LEMMA ConveysDefined ==
  ASSUME NEW d, NEW e, Follows(d, e),
         NEW define, define = IF e.single THEN SD0 ELSE UD0,
         NEW c \in Characters, c \in Units, HasDynamicOffset(c)
  PROVE  Conveys(d, Defined(e, define, c), UnitsOf(c))
<1> DEFINE o == DynamicOffset(c)
           code == OffsetCode(c)
           e1 == InMode(e, TRUE)
           f == DefineWindow(e1, c)
           w == f.window
<1>1. Ready(d) /\ d \in Decoder /\ e \in Encoder /\ d.single = e.single /\ d.offsets = e.offsets
  BY DEF Follows, Ready
<1>2. /\ o \in Characters /\ InWindow(o, c)
      /\ code \in Bytes /\ ~Reserved(code) /\ DefinedOffset(code) = o
  BY DynamicOffsetIs
<1>3. e1 \in Encoder /\ e1.single = TRUE /\ e1.offsets = e.offsets
  BY <1>1, ModeIsSet
<1> HIDE DEF e1
<1>4. f \in Encoder /\ w \in Windows /\ f.single = TRUE /\ f.offsets = [e.offsets EXCEPT ![w] = o]
  BY <1>2, <1>3, WindowIsDefined
<1>5. Defined(e, define, c) = Sent(f, <<define + w, code, Windowed(f, c)>>)
  <2>1. DefineWindow(InMode(e, TRUE), c) = f
    BY DEF e1
  <2> HIDE DEF f
  <2> QED BY <2>1 DEF Defined
<1>a. w = f.window
  OBVIOUS
<1> HIDE DEF f, o, code, w
<1>6. define = IF d.single THEN SD0 ELSE UD0
  BY <1>1
<1>7. define + w \in Bytes
  BY <1>1, <1>4, <1>6, ReadsDefinition
<1>8. PICK d1 \in Decoder :
        /\ Yields(d, define + w, <<>>, d1)
        /\ d1.state = "defineOne" /\ d1.single = TRUE
        /\ d1.window = w /\ d1.offsets = d.offsets
  BY <1>1, <1>4, <1>6, ReadsDefinition
<1> DEFINE d2 == [In(d1, "readCommand") EXCEPT !.offsets[d1.window] = o]
<1>9. Yields(d1, code, <<>>, d2)
  BY <1>2, <1>8, YieldsDefined
<1>10. Follows(d2, f) /\ f.offsets[f.window] = o
  <2>1. /\ d1.window = f.window
        /\ f.offsets = [d1.offsets EXCEPT ![f.window] = o]
    BY <1>1, <1>4, <1>8, <1>a
  <2> QED BY <1>2, <1>4, <1>8, <2>1, FollowsDefinition
<1> HIDE DEF d2
<1>11. Windowed(f, c) \in Bytes /\ Yields(d2, Windowed(f, c), UnitsOf(c), d2)
  BY <1>2, <1>4, <1>10, ReadsInWindow
<1>12. UnitsOf(c) \in Seq(Units)
  BY UnitsOfType
<1>13. Reads(d1, <<code, Windowed(f, c)>>, UnitsOf(c), d2)
  BY <1>2, <1>9, <1>11, <1>12, ReadsTwo
<1>14. Reads(d, <<define + w, code, Windowed(f, c)>>, UnitsOf(c), d2)
  BY <1>1, <1>2, <1>7, <1>8, <1>11, <1>13, ReadsThree
<1> QED BY <1>5, <1>10, <1>14, <1>a DEF Conveys, Sent

LEMMA ConveysDefinedExtended ==
  ASSUME NEW d, NEW e, Follows(d, e),
         NEW extend, extend = IF e.single THEN SDX ELSE UDX,
         NEW c \in Characters, c \notin Units, HasDynamicOffset(c)
  PROVE  Conveys(d, DefinedExtended(e, extend, c), UnitsOf(c))
<1> DEFINE o == DynamicOffset(c)
           code == OffsetCode(c) - 512
           q == code \div 256
           r == code % 256
           f == DefineWindow(InMode(e, TRUE), c)
           w == f.window
<1>1. Ready(d) /\ d \in Decoder /\ e \in Encoder /\ d.single = e.single /\ d.offsets = e.offsets
  BY DEF Follows, Ready
<1>2. o \in Characters /\ InWindow(o, c) /\ code \in 0..511 /\ o = 65536 + 128 * code
  BY DynamicOffsetIs
<1>3. q \in 0..31 /\ r \in Bytes /\ o = 65536 + 32768 * q + 128 * r
  <2> HIDE DEF code, o
  <2>1. PICK k : k = code
    OBVIOUS
  <2>2. k \in Int /\ 0 <= k /\ k <= 511
    BY <1>2, <2>1, SMT
  <2>3. PICK a, b : a = k \div 256 /\ b = k % 256
    OBVIOUS
  <2>4. a \in Int /\ b \in Int /\ k = 256 * a + b /\ 0 <= b /\ b <= 255
    BY <2>2, <2>3, DivMod
  <2>5. a \in 0..31 /\ b \in Bytes
    BY <2>2, <2>4, SMT DEF Bytes
  <2>6. o = 65536 + 32768 * a + 128 * b
    BY <1>2, <2>1, <2>2, <2>4, SMT
  <2> QED BY <2>1, <2>3, <2>5, <2>6, SMT
<1>5. f \in Encoder /\ w \in Windows /\ f.single = TRUE /\ f.offsets = [e.offsets EXCEPT ![w] = o]
  <2>1. o \in Characters
    BY <1>2
  <2> DEFINE e1 == InMode(e, TRUE)
  <2>2. e1 \in Encoder /\ e1.single = TRUE /\ e1.offsets = e.offsets
    BY <1>1, ModeIsSet
  <2> HIDE DEF e1
  <2>3. LET g == DefineWindow(e1, c)
        IN  g \in Encoder /\ g.window \in Windows /\ g.single = TRUE /\ g.offsets = [e.offsets EXCEPT ![g.window] = o]
    BY <2>1, <2>2, WindowIsDefined
  <2> USE DEF e1
  <2> QED BY <2>3
<1>6. DefinedExtended(e, extend, c) = Sent(f, <<extend, 32 * w + q, r, Windowed(f, c)>>)
  BY Zenon DEF DefinedExtended
<1>a. w = f.window
  OBVIOUS
<1> HIDE DEF f, o, code, q, r, w
<1>7. extend = IF d.single THEN SDX ELSE UDX
  BY <1>1
<1>8. extend \in Bytes
  BY <1>1, <1>7, ReadsExtension
<1>9. PICK d1 \in Decoder :
        /\ Yields(d, extend, <<>>, d1)
        /\ d1.state = "definePairOne" /\ d1.single = TRUE
        /\ d1.offsets = d.offsets
  BY <1>1, <1>7, ReadsExtension
<1> DEFINE d2 == In([d1 EXCEPT !.window = w, !.one = q], "definePairTwo")
           d3 == [In(d2, "readCommand") EXCEPT !.offsets[d2.window] = o]
<1>10. 32 * w + q \in Bytes /\ Yields(d1, 32 * w + q, <<>>, d2)
  <2>1. q \in 0..31
    BY <1>3
  <2> QED BY <1>5, <1>9, <2>1, YieldsExtendedOne
<1>11. d2 \in Decoder
  BY <1>10 DEF Yields
<1>12. /\ d2.state = "definePairTwo" /\ d2.single = TRUE
       /\ d2.window = w /\ d2.one = q /\ d2.offsets = d.offsets
  BY <1>9, <1>11 DEF In, Decoder
<1> HIDE DEF d2
<1>13. Yields(d2, r, <<>>, d3)
  <2>1. o = 65536 + 32768 * d2.one + 128 * r /\ r \in Bytes /\ o \in Characters
    BY <1>2, <1>3, <1>12, SMT
  <2> QED BY <1>11, <1>12, <2>1, YieldsExtendedTwo, SMT
<1>14. Follows(d3, f) /\ f.offsets[f.window] = o
  <2>1. o \in Characters
    BY <1>2
  <2>2. d2.window = f.window /\ f.offsets = [d2.offsets EXCEPT ![f.window] = o]
    BY <1>1, <1>5, <1>12, <1>a
  <2> QED BY <1>5, <1>11, <1>12, <2>1, <2>2, FollowsDefinition
<1> HIDE DEF d3
<1>15. Windowed(f, c) \in Bytes /\ Yields(d3, Windowed(f, c), UnitsOf(c), d3)
  <2>1. InWindow(o, c)
    BY <1>2
  <2> QED BY <1>5, <1>14, <2>1, ReadsInWindow
<1>16. UnitsOf(c) \in Seq(Units) /\ r \in Bytes
  BY <1>3, UnitsOfType
<1>17. Reads(d2, <<r, Windowed(f, c)>>, UnitsOf(c), d3)
  BY <1>11, <1>13, <1>15, <1>16, ReadsTwo
<1>18. Reads(d1, <<32 * w + q, r, Windowed(f, c)>>, UnitsOf(c), d3)
  BY <1>10, <1>15, <1>16, <1>17, ReadsThree
<1>19. Reads(d, <<extend, 32 * w + q, r, Windowed(f, c)>>, UnitsOf(c), d3)
  BY <1>1, <1>8, <1>9, <1>10, <1>15, <1>16, <1>18, ReadsFour
<1> QED BY <1>6, <1>14, <1>19, <1>a DEF Conveys, Sent

-----------------------------------------------------------------------------
(* The choices of the encoder.                                               *)

Big(c) == c > 65535
Low(c) == c < 32
Control(c) == c < 160

FirstChoice(e, c, sent) ==
  \/ Direct(c) /\ sent = Sent(e, <<c>>)
  \/ ~Direct(c) /\ Low(c) /\ sent = Sent(e, <<SQ0, c>>)
  \/ InWindow(e.offsets[e.window], c) /\ sent = Sent(e, <<Windowed(e, c)>>)
  \/ WindowsWith(e.offsets, c) # {} /\ sent = Selected(e, SC0, c)
  \/ Big(c) /\ HasDynamicOffset(c) /\ sent = DefinedExtended(e, SDX, c)
  \/ Big(c) /\ sent = Sent(InMode(e, FALSE), <<SCU>> \o WrittenOut(c))

OtherChoice(e, c, sent, w, static) ==
  \/ ~Low(c) /\ ~Direct(c) /\ Control(c) /\ sent = Sent(e, <<SQ0 + 1, c - 128>>)
  \/ ~Big(c) /\ sent = Sent(e, <<SQU>> \o BigEndian(c))
  \/ /\ ~Big(c) /\ WindowsWith(e.offsets, c) # {}
     /\ sent = Sent(e, <<SQ0 + w, 128 + c - e.offsets[w]>>)
  \/ /\ ~Big(c) /\ WindowsWith(staticOffsets, c) # {}
     /\ sent = Sent(e, <<SQ0 + static, c - staticOffsets[static]>>)
  \/ ~Big(c) /\ HasDynamicOffset(c) /\ sent = Defined(e, SD0, c)
  \/ Ideograph(c) /\ sent = Sent(InMode(e, FALSE), <<SCU>> \o BigEndian(c))

SingleChoice(e, c, sent, w, static) == FirstChoice(e, c, sent) \/ OtherChoice(e, c, sent, w, static)

LEMMA SingleChoices ==
  ASSUME NEW e, NEW c \in Int, NEW next,
         NEW sent, sent = EncodeSingle(e, c, next),
         NEW w, w = getWindow(e.offsets, c),
         NEW static, static = getWindow(staticOffsets, c)
  PROVE  SingleChoice(e, c, sent, w, static)
<1> DEFINE special == c = 65279 \/ c >= 65520
           stays == next = None \/ isInOffsetWindowOrDirect(e.offsets[w], next)
           plain == Ideograph(c) /\ (next = None \/ Ideograph(next))
<1>1. sent = IF Direct(c) THEN Sent(e, <<c>>)
             ELSE IF Low(c) THEN Sent(e, <<SQ0, c>>)
             ELSE IF InWindow(e.offsets[e.window], c) THEN Sent(e, <<Windowed(e, c)>>)
             ELSE IF Big(c) THEN
               IF WindowsWith(e.offsets, c) # {} THEN Selected(e, SC0, c)
               ELSE IF HasDynamicOffset(c) THEN DefinedExtended(e, SDX, c)
               ELSE Sent(InMode(e, FALSE), <<SCU>> \o WrittenOut(c))
             ELSE IF Control(c) THEN Sent(e, <<SQ0 + 1, c - 128>>)
             ELSE IF special THEN Sent(e, <<SQU>> \o BigEndian(c))
             ELSE IF WindowsWith(e.offsets, c) # {} THEN
               IF stays THEN Selected(e, SC0, c)
               ELSE Sent(e, <<SQ0 + w, 128 + c - e.offsets[w]>>)
             ELSE IF WindowsWith(staticOffsets, c) # {}
               THEN Sent(e, <<SQ0 + static, c - staticOffsets[static]>>)
             ELSE IF HasDynamicOffset(c) THEN Defined(e, SD0, c)
             ELSE IF plain THEN Sent(InMode(e, FALSE), <<SCU>> \o BigEndian(c))
             ELSE Sent(e, <<SQU>> \o BigEndian(c))
  BY SMT DEF EncodeSingle, Big, Low, Control
<1>2. plain => Ideograph(c)
  OBVIOUS
<1> HIDE DEF special, stays, plain
<1>3. CASE Direct(c) \/ Low(c) \/ InWindow(e.offsets[e.window], c)
  BY <1>1, <1>3, Zenon DEF SingleChoice, FirstChoice
<1>4. CASE ~(Direct(c) \/ Low(c) \/ InWindow(e.offsets[e.window], c)) /\ Big(c)
  BY <1>1, <1>4, Zenon DEF SingleChoice, FirstChoice
<1>5. CASE ~(Direct(c) \/ Low(c) \/ InWindow(e.offsets[e.window], c)) /\ ~Big(c)
  BY <1>1, <1>2, <1>5, Zenon DEF SingleChoice, FirstChoice, OtherChoice
<1> QED BY <1>3, <1>4, <1>5, Zenon

UnicodeChoice(e, c, sent) ==
  \/ WindowsWith(e.offsets, c) # {} /\ sent = Selected(e, UC0, c)
  \/ Big(c) /\ HasDynamicOffset(c) /\ sent = DefinedExtended(e, UDX, c)
  \/ ~MustBeQuoted(c) /\ sent = Sent(e, WrittenOut(c))
  \/ ~Big(c) /\ sent = Sent(e, <<UQU>> \o BigEndian(c))
  \/ IsAlphanumeric(c) /\ sent = Sent(InMode(e, TRUE), <<UC0 + e.window, c>>)
  \/ ~Big(c) /\ HasDynamicOffset(c) /\ sent = Defined(e, UD0, c)

LEMMA UnicodeChoices ==
  ASSUME NEW e, NEW c \in Int, NEW next, NEW sent, sent = EncodeUnicode(e, c, next)
  PROVE  UnicodeChoice(e, c, sent)
<1> DEFINE more == next # None /\ Ideograph(next)
           pair == next = UnitsOf(c)[1] /\ HasDynamicOffset(c)
           plain == Ideograph(c) \/ more
<1>1. sent = IF Big(c) THEN
               IF WindowsWith(e.offsets, c) # {} /\ ~more THEN Selected(e, UC0, c)
               ELSE IF pair THEN DefinedExtended(e, UDX, c)
               ELSE Sent(e, WrittenOut(c))
             ELSE IF MustBeQuoted(c) THEN Sent(e, <<UQU>> \o BigEndian(c))
             ELSE IF plain THEN Sent(e, WrittenOut(c))
             ELSE IF IsAlphanumeric(c) THEN Sent(InMode(e, TRUE), <<UC0 + e.window, c>>)
             ELSE IF WindowsWith(e.offsets, c) # {} THEN Selected(e, UC0, c)
             ELSE IF HasDynamicOffset(c) THEN Defined(e, UD0, c)
             ELSE Sent(e, WrittenOut(c))
  BY SMT DEF EncodeUnicode, Big, MustBeQuoted
<1>2. Big(c) => ~MustBeQuoted(c)
  <2>1. MustBeQuoted(c) => c <= 62207
    BY MustBeQuotedIs
  <2> QED BY <2>1, SMT DEF Big
<1>3. pair => HasDynamicOffset(c)
  OBVIOUS
<1> HIDE DEF more, pair, plain
<1> QED BY <1>1, <1>2, <1>3 DEF UnicodeChoice

LEMMA CharactersByRange ==
  ASSUME NEW c \in Characters
  PROVE  /\ c \in Int /\ 0 <= c
         /\ Big(c) <=> c \notin Units
         /\ Big(c) => ~MustBeQuoted(c)
         /\ Ideograph(c) => c \in Units /\ ~MustBeQuoted(c)
         /\ IsAlphanumeric(c) => Direct(c)
<1>1. c \in Int /\ 0 <= c
  BY CharactersAre
<1>2. Big(c) <=> c \notin Units
  BY <1>1, UnitsAre, SMT DEF Big
<1>3. MustBeQuoted(c) => 57344 <= c /\ c <= 62207
  BY MustBeQuotedIs
<1>4. Ideograph(c) => c <= 55295
  BY <1>1, SMT DEF Ideograph
<1>5. Big(c) => ~MustBeQuoted(c)
  <2>1. Big(c) => c > 65535
    BY SMT DEF Big
  <2> QED BY <1>1, <1>3, <2>1, SMT
<1>6. Ideograph(c) => c \in Units
  BY <1>1, <1>4, UnitsAre, SMT
<1>7. Ideograph(c) => ~MustBeQuoted(c)
  BY <1>1, <1>3, <1>4, SMT
<1>8. IsAlphanumeric(c) => Direct(c)
  BY <1>1, SMT DEF IsAlphanumeric, Direct
<1> QED BY <1>1, <1>2, <1>5, <1>6, <1>7, <1>8

LEMMA StaticOffsetsAre ==
  /\ staticOffsets[0] = 0 /\ staticOffsets[1] = 128
  /\ \A w \in Windows : staticOffsets[w] \in Int
<1>1. ASSUME NEW w \in Windows
      PROVE  staticOffsets[w] \in Int
  <2>1. w = 0 \/ w = 1 \/ w = 2 \/ w = 3 \/ w = 4 \/ w = 5 \/ w = 6 \/ w = 7
    BY SMT DEF Windows
  <2> QED BY <2>1, SMT DEF staticOffsets, Windows
<1>2. staticOffsets[0] = 0 /\ staticOffsets[1] = 128
  BY SMT DEF staticOffsets, Windows
<1> QED BY <1>1, <1>2

LEMMA SingleConveys ==
  ASSUME NEW d, NEW e, Follows(d, e), e.single, NEW c \in Characters, NEW next
  PROVE  Conveys(d, EncodeSingle(e, c, next), UnitsOf(c))
<1> SUFFICES ASSUME NEW sent, sent = EncodeSingle(e, c, next),
                    NEW w, w = getWindow(e.offsets, c),
                    NEW static, static = getWindow(staticOffsets, c)
             PROVE  Conveys(d, sent, UnitsOf(c))
  OBVIOUS
<1>1. /\ c \in Int /\ 0 <= c /\ (Big(c) <=> c \notin Units)
      /\ Big(c) => ~MustBeQuoted(c)
      /\ Ideograph(c) => c \in Units /\ ~MustBeQuoted(c)
  BY CharactersByRange
<1>2. e \in Encoder /\ e.offsets \in [Windows -> Characters]
  BY DEF Follows, Encoder
<1>3. CASE Direct(c) /\ sent = Sent(e, <<c>>)
  BY <1>3, ConveysDirect
<1>4. CASE ~Direct(c) /\ Low(c) /\ sent = Sent(e, <<SQ0, c>>)
  <2>1. 0 \in Windows /\ SQ0 + 0 = SQ0
    BY SMT DEF Windows, SQ0
  <2>2. c \in Units /\ c \in Bytes /\ c < 128
    BY <1>1, <1>4, UnitsAre, SMT DEF Low, Bytes
  <2>3. staticOffsets[0] + c = c
    BY <1>1, StaticOffsetsAre
  <2>4. Conveys(d, Sent(e, <<SQ0 + 0, c>>), UnitsOf(c))
    BY <2>1, <2>2, <2>3, ConveysQuoted
  <2> QED BY <1>4, <2>1, <2>4
<1>5. CASE InWindow(e.offsets[e.window], c) /\ sent = Sent(e, <<Windowed(e, c)>>)
  BY <1>5, ConveysWindowed
<1>6. CASE WindowsWith(e.offsets, c) # {} /\ sent = Selected(e, SC0, c)
  BY <1>6, ConveysSelected
<1>7. CASE Big(c) /\ HasDynamicOffset(c) /\ sent = DefinedExtended(e, SDX, c)
  BY <1>1, <1>7, ConveysDefinedExtended
<1>8. CASE Big(c) /\ sent = Sent(InMode(e, FALSE), <<SCU>> \o WrittenOut(c))
  BY <1>1, <1>8, ConveysChange
<1>9. CASE ~Low(c) /\ ~Direct(c) /\ Control(c) /\ sent = Sent(e, <<SQ0 + 1, c - 128>>)
  <2>1. 128 <= c /\ c < 160
    BY <1>1, <1>9, SMT DEF Low, Direct, Control
  <2>2. 1 \in Windows
    BY SMT DEF Windows
  <2>3. c - 128 \in Bytes /\ c - 128 < 128
    BY <1>1, <2>1, SMT DEF Bytes
  <2>4. c \in Units
    BY <1>1, <2>1, UnitsAre, SMT
  <2>5. staticOffsets[1] + (c - 128) = c
    BY <1>1, StaticOffsetsAre
  <2>6. Conveys(d, Sent(e, <<SQ0 + 1, c - 128>>), UnitsOf(c))
    BY <2>2, <2>3, <2>4, <2>5, ConveysQuoted
  <2> QED BY <1>9, <2>6
<1>10. CASE ~Big(c) /\ sent = Sent(e, <<SQU>> \o BigEndian(c))
  BY <1>1, <1>10, ConveysQuotedUnit
<1>11. CASE /\ ~Big(c) /\ WindowsWith(e.offsets, c) # {}
            /\ sent = Sent(e, <<SQ0 + w, 128 + c - e.offsets[w]>>)
  <2>1. w \in Windows /\ InWindow(e.offsets[w], c)
    BY <1>11, WindowIsFound
  <2>2. e.offsets[w] \in Int
    BY <1>2, <2>1, CharactersAre
  <2>3. PICK b : b = 128 + c - e.offsets[w]
    OBVIOUS
  <2>4. b \in Bytes /\ b >= 128 /\ e.offsets[w] + b - 128 = c
    BY <1>1, <2>1, <2>2, <2>3, SMT DEF InWindow, Bytes
  <2>5. Conveys(d, Sent(e, <<SQ0 + w, b>>), UnitsOf(c))
    BY <1>1, <1>11, <2>1, <2>4, ConveysQuoted
  <2> QED BY <1>11, <2>3, <2>5
<1>12. CASE /\ ~Big(c) /\ WindowsWith(staticOffsets, c) # {}
            /\ sent = Sent(e, <<SQ0 + static, c - staticOffsets[static]>>)
  <2>1. static \in Windows /\ InWindow(staticOffsets[static], c)
    BY <1>12, WindowIsFound
  <2>2. staticOffsets[static] \in Int
    BY <2>1, StaticOffsetsAre
  <2>3. PICK b : b = c - staticOffsets[static]
    OBVIOUS
  <2>4. b \in Bytes /\ b < 128 /\ staticOffsets[static] + b = c
    BY <1>1, <2>1, <2>2, <2>3, SMT DEF InWindow, Bytes
  <2>5. Conveys(d, Sent(e, <<SQ0 + static, b>>), UnitsOf(c))
    BY <1>1, <1>12, <2>1, <2>4, ConveysQuoted
  <2> QED BY <1>12, <2>3, <2>5
<1>13. CASE ~Big(c) /\ HasDynamicOffset(c) /\ sent = Defined(e, SD0, c)
  BY <1>1, <1>13, ConveysDefined
<1>14. CASE Ideograph(c) /\ sent = Sent(InMode(e, FALSE), <<SCU>> \o BigEndian(c))
  <2>1. WrittenOut(c) = BigEndian(c)
    BY <1>1, <1>14 DEF WrittenOut
  <2>2. Conveys(d, Sent(InMode(e, FALSE), <<SCU>> \o WrittenOut(c)), UnitsOf(c))
    BY <1>1, <1>14, ConveysChange
  <2> QED BY <1>14, <2>1, <2>2
<1>15. SingleChoice(e, c, sent, w, static)
  BY <1>1, SingleChoices
<1>16. CASE FirstChoice(e, c, sent)
  BY <1>3, <1>4, <1>5, <1>6, <1>7, <1>8, <1>16, Zenon DEF FirstChoice
<1>17. CASE OtherChoice(e, c, sent, w, static)
  BY <1>9, <1>10, <1>11, <1>12, <1>13, <1>14, <1>17, Zenon DEF OtherChoice
<1> QED BY <1>15, <1>16, <1>17, Zenon DEF SingleChoice

LEMMA UnicodeConveys ==
  ASSUME NEW d, NEW e, Follows(d, e), ~e.single, NEW c \in Characters, NEW next
  PROVE  Conveys(d, EncodeUnicode(e, c, next), UnitsOf(c))
<1> SUFFICES ASSUME NEW sent, sent = EncodeUnicode(e, c, next)
             PROVE  Conveys(d, sent, UnitsOf(c))
  OBVIOUS
<1>1. /\ c \in Int /\ (Big(c) <=> c \notin Units)
      /\ IsAlphanumeric(c) => Direct(c)
  BY CharactersByRange
<1>2. CASE WindowsWith(e.offsets, c) # {} /\ sent = Selected(e, UC0, c)
  BY <1>2, ConveysSelected
<1>3. CASE Big(c) /\ HasDynamicOffset(c) /\ sent = DefinedExtended(e, UDX, c)
  BY <1>1, <1>3, ConveysDefinedExtended
<1>4. CASE ~MustBeQuoted(c) /\ sent = Sent(e, WrittenOut(c))
  BY <1>4, ConveysWrittenOut
<1>5. CASE ~Big(c) /\ sent = Sent(e, <<UQU>> \o BigEndian(c))
  BY <1>1, <1>5, ConveysQuotedUnit
<1>6. CASE IsAlphanumeric(c) /\ sent = Sent(InMode(e, TRUE), <<UC0 + e.window, c>>)
  BY <1>1, <1>6, ConveysAlphanumeric
<1>7. CASE ~Big(c) /\ HasDynamicOffset(c) /\ sent = Defined(e, UD0, c)
  BY <1>1, <1>7, ConveysDefined
<1>8. UnicodeChoice(e, c, sent)
  BY <1>1, UnicodeChoices
<1> QED BY <1>2, <1>3, <1>4, <1>5, <1>6, <1>7, <1>8 DEF UnicodeChoice

LEMMA EncodeConveys ==
  ASSUME NEW d, NEW e, Follows(d, e), NEW c \in Characters, NEW next
  PROVE  Conveys(d, Encode(e, c, next), UnitsOf(c))
BY SingleConveys, UnicodeConveys DEF Encode

-----------------------------------------------------------------------------
(* The order in which the windows were used.                                 *)

IsOrder(order) ==
  /\ order \in [Windows -> Windows]
  /\ \A w \in Windows : \E i \in Windows : order[i] = w
  /\ \A i, j \in Windows : order[i] = order[j] => i = j

\* The window at a place becomes the last, and those after it move up.
MovedToEnd(order, at) ==
  [i \in Windows |-> IF i < at THEN order[i] ELSE IF i < 7 THEN order[i + 1] ELSE order[at]]

\* From an order to f its selected window was moved to the end.
Moved(order, f) ==
  \E at \in Windows : order[at] = f.window /\ UseOrder(f) = MovedToEnd(order, at)

\* From e to f that or nothing happened.
Moves(e, f) ==
  \/ f.window = e.window /\ UseOrder(f) = UseOrder(e)
  \/ Moved(UseOrder(e), f)

LEMMA WindowsAre ==
  ASSUME NEW i
  PROVE  i \in Windows <=> i \in Int /\ 0 <= i /\ i <= 7
BY SMT DEF Windows

\* Places in the ring: around it and back.
LEMMA Ring ==
  ASSUME NEW n \in Windows, NEW i \in Windows
  PROVE  /\ (n + i) % 8 \in Windows
         /\ (((n + i) % 8) - n) % 8 = i
         /\ (((n + 1) % 8) + i) % 8 = IF i < 7 THEN (n + (i + 1)) % 8 ELSE n
BY SMT DEF Windows

LEMMA MovedIsOrder ==
  ASSUME NEW order, IsOrder(order), NEW at \in Windows
  PROVE  IsOrder(MovedToEnd(order, at)) /\ MovedToEnd(order, at)[7] = order[at]
<1> DEFINE moved == MovedToEnd(order, at)
<1>1. at \in Int /\ 0 <= at /\ at <= 7
  BY WindowsAre
<1>2. ASSUME NEW i \in Windows
      PROVE  /\ moved[i] = IF i < at THEN order[i] ELSE IF i < 7 THEN order[i + 1] ELSE order[at]
             /\ i \in Int /\ 0 <= i /\ i <= 7 /\ (i < 7 => i + 1 \in Windows)
  BY WindowsAre, SMT DEF MovedToEnd
<1>3. 7 \in Windows
  BY SMT DEF Windows
<1>4. ASSUME NEW w \in Windows
      PROVE  \E i \in Windows : moved[i] = w
  <2>1. PICK k \in Windows : order[k] = w
    BY DEF IsOrder
  <2>2. k \in Int /\ 0 <= k /\ k <= 7
    BY WindowsAre
  <2>3. CASE k < at
    BY <2>1, <2>3, <1>2
  <2>4. CASE k = at
    BY <2>1, <2>4, <1>1, <1>2, <1>3, SMT
  <2>5. CASE k > at
    <3>1. k - 1 \in Windows /\ k - 1 < 7 /\ ~(k - 1 < at) /\ (k - 1) + 1 = k
      BY <1>1, <2>2, <2>5, WindowsAre, SMT
    <3> QED BY <2>1, <3>1, <1>2
  <2> QED BY <1>1, <2>2, <2>3, <2>4, <2>5, SMT
<1>5. ASSUME NEW i \in Windows, NEW j \in Windows, moved[i] = moved[j]
      PROVE  i = j
  <2> DEFINE from(k) == IF k < at THEN k ELSE IF k < 7 THEN k + 1 ELSE at
  <2>1. ASSUME NEW k \in Windows
        PROVE  from(k) \in Windows /\ moved[k] = order[from(k)]
    BY <1>1, <1>2
  <2>2. from(i) = from(j)
    BY <1>5, <2>1 DEF IsOrder
  <2> QED BY <1>1, <1>2, <2>2, SMT
<1>6. moved \in [Windows -> Windows]
  BY <1>2 DEF MovedToEnd, IsOrder
<1>7. moved[7] = order[at]
  BY <1>1, <1>2, <1>3, SMT
<1> QED BY <1>4, <1>5, <1>6, <1>7 DEF IsOrder

LEMMA UseMoves ==
  ASSUME NEW e \in Encoder, IsOrder(UseOrder(e)), NEW w \in Windows
  PROVE  Moved(UseOrder(e), useDynamicWindow(e, w))
<1> DEFINE used(i) == e.use[(e.next + i) % 8]
           at == CHOOSE i \in Windows : used(i) = w
           use == [j \in Windows |->
                     LET i == (j - e.next) % 8
                     IN  IF i < at THEN used(i) ELSE IF i < 7 THEN used(i + 1) ELSE w]
           f == useDynamicWindow(e, w)
<1>1. f = [e EXCEPT !.window = w, !.use = use]
  BY Zenon DEF useDynamicWindow
<1>2. e.use \in [Windows -> Windows] /\ e.next \in Windows
  BY DEF Encoder
<1>3. f.next = e.next /\ f.use = use
  BY <1>1 DEF Encoder
<1>4. ASSUME NEW i \in Windows
      PROVE  UseOrder(e)[i] = used(i)
  BY DEF UseOrder
<1>5. \E i \in Windows : used(i) = w
  BY <1>4 DEF IsOrder
<1>6. at \in Windows /\ used(at) = w
  BY <1>5
<1>7. ASSUME NEW i \in Windows
      PROVE  UseOrder(f)[i] = IF i < at THEN used(i) ELSE IF i < 7 THEN used(i + 1) ELSE w
  <2>1. (e.next + i) % 8 \in Windows /\ (((e.next + i) % 8) - e.next) % 8 = i
    BY <1>2, Ring
  <2>2. UseOrder(f)[i] = use[(e.next + i) % 8]
    BY <1>3 DEF UseOrder
  <2> HIDE DEF used, at
  <2> QED BY <2>1, <2>2
<1> HIDE DEF at, f, use
<1>8. ASSUME NEW i \in Windows
      PROVE  UseOrder(f)[i] = MovedToEnd(UseOrder(e), at)[i]
  <2>1. i < 7 => i + 1 \in Windows
    BY WindowsAre, SMT
  <2>2. CASE i < at
    BY <1>4, <1>7, <2>2 DEF MovedToEnd
  <2>3. CASE ~(i < at) /\ i < 7
    BY <1>4, <1>7, <2>1, <2>3 DEF MovedToEnd
  <2>4. CASE ~(i < at) /\ ~(i < 7)
    BY <1>4, <1>6, <1>7, <2>4 DEF MovedToEnd
  <2> QED BY <2>2, <2>3, <2>4
<1>9. UseOrder(f) = MovedToEnd(UseOrder(e), at)
  BY <1>8 DEF UseOrder, MovedToEnd
<1>10. f.window = w
  BY WindowIsUsed DEF f
<1> QED BY <1>4, <1>6, <1>9, <1>10 DEF f, Moved

LEMMA DefinitionMoves ==
  ASSUME NEW e \in Encoder, IsOrder(UseOrder(e)), NEW c, DynamicOffset(c) \in Characters
  PROVE  LET f == DefineWindow(e, c)
         IN  UseOrder(e)[0] = f.window /\ UseOrder(f) = MovedToEnd(UseOrder(e), 0)
<1> DEFINE w == e.use[e.next]
           e1 == [e EXCEPT !.next = (@ + 1) % 8, !.offsets[w] = DynamicOffset(c)]
           order == UseOrder(e)
           turned == UseOrder(e1)
<1>1. e.use \in [Windows -> Windows] /\ e.next \in Windows /\ w \in Windows
  BY DEF Encoder
<1>2. 0 \in Windows /\ 7 \in Windows /\ (e.next + 1) % 8 \in Windows /\ (e.next + 0) % 8 = e.next
  BY <1>1, SMT DEF Windows
<1>3. e1 \in Encoder /\ e1.use = e.use /\ e1.next = (e.next + 1) % 8
  BY <1>1, <1>2 DEF Encoder
<1>4. DefineWindow(e, c) = useDynamicWindow(e1, w)
  BY Zenon DEF DefineWindow
<1>5. order[0] = w
  BY <1>2 DEF UseOrder
<1> HIDE DEF e1
<1>6. ASSUME NEW i \in Windows
      PROVE  turned[i] = IF i < 7 THEN order[i + 1] ELSE order[0]
  <2>1. turned[i] = e.use[(((e.next + 1) % 8) + i) % 8]
    BY <1>3 DEF UseOrder
  <2>2. (((e.next + 1) % 8) + i) % 8 = IF i < 7 THEN (e.next + (i + 1)) % 8 ELSE e.next
    BY <1>1, Ring
  <2>3. i < 7 => i + 1 \in Windows
    BY WindowsAre, SMT
  <2>4. i < 7 => order[i + 1] = e.use[(e.next + (i + 1)) % 8]
    BY <2>3 DEF UseOrder
  <2> HIDE DEF turned, order
  <2> QED BY <1>5, <2>1, <2>2, <2>4
<1>7. turned = MovedToEnd(order, 0)
  <2>1. ASSUME NEW i \in Windows
        PROVE  turned[i] = MovedToEnd(order, 0)[i]
    BY <1>6, WindowsAre DEF MovedToEnd
  <2> QED BY <2>1 DEF UseOrder, MovedToEnd
<1>8. IsOrder(turned) /\ turned[7] = w
  BY <1>2, <1>5, <1>7, MovedIsOrder
<1>12. useDynamicWindow(e1, w).window = w
  BY <1>1, <1>3, WindowIsUsed
<1>9. PICK at \in Windows :
        turned[at] = w /\ UseOrder(useDynamicWindow(e1, w)) = MovedToEnd(turned, at)
  BY <1>1, <1>3, <1>8, <1>12, UseMoves DEF Moved
<1>10. at = 7
  <2> HIDE DEF w, turned
  <2> QED BY <1>2, <1>8, <1>9 DEF IsOrder
<1>11. MovedToEnd(turned, 7) = turned
  <2>1. ASSUME NEW i \in Windows
        PROVE  MovedToEnd(turned, 7)[i] = turned[i]
    BY WindowsAre, SMT DEF MovedToEnd
  <2> QED BY <2>1 DEF UseOrder, MovedToEnd
<1> QED BY <1>4, <1>5, <1>7, <1>9, <1>10, <1>11, <1>12

LEMMA ModeMovesNothing ==
  ASSUME NEW e \in Encoder, NEW m \in BOOLEAN
  PROVE  UseOrder(InMode(e, m)) = UseOrder(e) /\ InMode(e, m).window = e.window
BY DEF UseOrder, InMode, Encoder

LEMMA SelectedMoves ==
  ASSUME NEW e \in Encoder, IsOrder(UseOrder(e)), NEW c, NEW change,
         WindowsWith(e.offsets, c) # {}
  PROVE  Moves(e, Selected(e, change, c).e)
<1> DEFINE g == InMode(e, TRUE)
           w == getWindow(e.offsets, c)
<1>1. g \in Encoder /\ UseOrder(g) = UseOrder(e)
  BY ModeIsSet, ModeMovesNothing
<1>2. w \in Windows
  BY WindowIsFound
<1>3. Selected(e, change, c).e = useDynamicWindow(g, w)
  BY Zenon DEF Selected, Sent
<1> HIDE DEF g, w
<1>4. Moved(UseOrder(g), useDynamicWindow(g, w))
  BY <1>1, <1>2, UseMoves
<1> QED BY <1>1, <1>3, <1>4 DEF Moves

LEMMA DefiningMoves ==
  ASSUME NEW e \in Encoder, IsOrder(UseOrder(e)), NEW c \in Characters, HasDynamicOffset(c)
  PROVE  Moves(e, DefineWindow(InMode(e, TRUE), c))
<1>1. InMode(e, TRUE) \in Encoder /\ UseOrder(InMode(e, TRUE)) = UseOrder(e)
  BY ModeIsSet, ModeMovesNothing
<1>2. DynamicOffset(c) \in Characters
  BY DynamicOffsetIs
<1>3. 0 \in Windows
  BY SMT DEF Windows
<1> QED BY <1>1, <1>2, <1>3, DefinitionMoves DEF Moves, Moved

LEMMA EncodeMoves ==
  ASSUME NEW e \in Encoder, IsOrder(UseOrder(e)), NEW c \in Characters, NEW next
  PROVE  Moves(e, Encode(e, c, next).e)
<1> SUFFICES ASSUME NEW sent, sent = Encode(e, c, next)
             PROVE  Moves(e, sent.e)
  OBVIOUS
<1>1. c \in Int
  BY CharactersAre
<1>2. ASSUME NEW bytes, sent = Sent(e, bytes)
      PROVE  Moves(e, sent.e)
  BY <1>2 DEF Sent, Moves
<1>3. ASSUME NEW bytes, NEW m \in BOOLEAN, sent = Sent(InMode(e, m), bytes)
      PROVE  Moves(e, sent.e)
  BY <1>3, ModeMovesNothing DEF Sent, Moves
<1>4. ASSUME NEW change, WindowsWith(e.offsets, c) # {}, sent = Selected(e, change, c)
      PROVE  Moves(e, sent.e)
  BY <1>4, SelectedMoves
<1>5. ASSUME NEW define, HasDynamicOffset(c), sent = Defined(e, define, c)
      PROVE  Moves(e, sent.e)
  <2>1. sent.e = DefineWindow(InMode(e, TRUE), c)
    BY <1>5 DEF Defined, Sent
  <2> QED BY <1>5, <2>1, DefiningMoves
<1>6. ASSUME NEW define, HasDynamicOffset(c), sent = DefinedExtended(e, define, c)
      PROVE  Moves(e, sent.e)
  <2>1. sent.e = DefineWindow(InMode(e, TRUE), c)
    BY <1>6 DEF DefinedExtended, Sent
  <2> QED BY <1>6, <2>1, DefiningMoves
<1>7. CASE e.single
  <2>1. PICK w, static : SingleChoice(e, c, sent, w, static)
    BY <1>1, <1>7, SingleChoices DEF Encode
  <2>2. CASE FirstChoice(e, c, sent)
    BY <1>2, <1>3, <1>4, <1>6, <2>2, Zenon DEF FirstChoice
  <2>3. CASE OtherChoice(e, c, sent, w, static)
    BY <1>2, <1>3, <1>5, <2>3, Zenon DEF OtherChoice
  <2> QED BY <2>1, <2>2, <2>3 DEF SingleChoice
<1>8. CASE ~e.single
  <2>1. UnicodeChoice(e, c, sent)
    BY <1>1, <1>8, UnicodeChoices DEF Encode
  <2> QED BY <1>2, <1>3, <1>4, <1>5, <1>6, <2>1, Zenon DEF UnicodeChoice
<1> QED BY <1>7, <1>8

\* What it means for the pairs: all others are before it, and in the order they
\* had.
LEMMA BeforeMoved ==
  ASSUME NEW e, IsOrder(UseOrder(e)), NEW f, Moved(UseOrder(e), f)
  PROVE  LET others == Windows \ {f.window}
         IN  UsedBefore(f) = (UsedBefore(e) \cap (others \X others)) \cup (others \X {f.window})
<1> DEFINE order == UseOrder(e)
           moved == UseOrder(f)
           others == Windows \ {f.window}
           before == UsedBefore(e) \cap (others \X others)
<1>1. PICK at \in Windows : order[at] = f.window /\ moved = MovedToEnd(order, at)
  BY DEF Moved
<1>2. IsOrder(moved) /\ moved[7] = f.window /\ 7 \in Windows
  BY <1>1, MovedIsOrder, WindowsAre, SMT
<1>3. ASSUME NEW g, NEW p
      PROVE  p \in UsedBefore(g) <=>
               \E i, j \in Windows : i < j /\ p = <<UseOrder(g)[i], UseOrder(g)[j]>>
  <2>1. ASSUME p \in UsedBefore(g)
        PROVE  \E i, j \in Windows : i < j /\ p = <<UseOrder(g)[i], UseOrder(g)[j]>>
    <3>1. PICK q \in Windows \X Windows :
            q[1] < q[2] /\ p = <<UseOrder(g)[q[1]], UseOrder(g)[q[2]]>>
      BY <2>1 DEF UsedBefore
    <3> QED BY <3>1
  <2>2. ASSUME NEW i \in Windows, NEW j \in Windows, i < j,
               p = <<UseOrder(g)[i], UseOrder(g)[j]>>
        PROVE  p \in UsedBefore(g)
    <3>1. <<i, j>> \in Windows \X Windows
      OBVIOUS
    <3> QED BY <2>2, <3>1 DEF UsedBefore
  <2> QED BY <2>1, <2>2
\* The place in moved that a place in order goes to, and back.
<1> DEFINE from(k) == IF k < at THEN k ELSE IF k < 7 THEN k + 1 ELSE at
           to(k) == IF k < at THEN k ELSE IF k = at THEN 7 ELSE k - 1
<1>4. ASSUME NEW k \in Windows
      PROVE  /\ from(k) \in Windows /\ moved[k] = order[from(k)]
             /\ to(k) \in Windows /\ moved[to(k)] = order[k] /\ k \in Int
  <2>1. k \in Int /\ 0 <= k /\ k <= 7 /\ at \in Int /\ 0 <= at /\ at <= 7
    BY WindowsAre
  <2>2. from(k) \in Windows /\ to(k) \in Windows
    BY <2>1, WindowsAre, SMT
  <2>3. \A i \in Windows :
          moved[i] = IF i < at THEN order[i] ELSE IF i < 7 THEN order[i + 1] ELSE order[at]
    BY <1>1 DEF MovedToEnd
  <2>4. moved[k] = order[from(k)]
    BY <2>1, <2>3
  <2>5. moved[to(k)] = order[k]
    BY <2>1, <2>2, <2>3
  <2> QED BY <2>1, <2>2, <2>4, <2>5
<1>5. at \in Int /\ 0 <= at /\ at <= 7
  BY WindowsAre
<1>6. ASSUME NEW k \in Windows
      PROVE  /\ order[k] \in Windows /\ moved[k] \in Windows
             /\ order[k] = f.window <=> k = at
             /\ moved[k] = f.window <=> k = 7
  <2>1. order[k] \in Windows /\ (order[k] = order[at] => k = at)
    <3> HIDE DEF order
    <3> QED BY DEF IsOrder, order
  <2>2. moved[k] \in Windows /\ (moved[k] = moved[7] => k = 7)
    <3> HIDE DEF moved
    <3> QED BY <1>2 DEF IsOrder
  <2> QED BY <1>1, <1>2, <2>1, <2>2
<1>7. ASSUME NEW p, p \in UsedBefore(f)
      PROVE  p \in before \/ p \in others \X {f.window}
  <2>1. PICK i \in Windows, j \in Windows : i < j /\ p = <<moved[i], moved[j]>>
    BY <1>3, <1>7
  <2>2. i \in Int /\ j \in Int /\ i <= 7 /\ j <= 7
    BY WindowsAre
  <2>3. i # 7
    BY <2>1, <2>2, SMT
  <2>4. moved[i] \in others
    BY <1>6, <2>3
  <2>5. CASE j = 7
    BY <1>2, <2>1, <2>4, <2>5
  <2>6. CASE j # 7
    <3>1. moved[j] \in others
      BY <1>6, <2>6
    <3>2. from(i) < from(j)
      BY <1>5, <2>1, <2>2, <2>6, SMT
    <3>3. p = <<order[from(i)], order[from(j)]>> /\ from(i) \in Windows /\ from(j) \in Windows
      BY <1>4, <2>1
    <3>4. p \in UsedBefore(e)
      BY <1>3, <3>2, <3>3
    <3> QED BY <2>1, <2>4, <3>1, <3>4
  <2> QED BY <2>5, <2>6
<1>8. ASSUME NEW p, p \in before
      PROVE  p \in UsedBefore(f)
  <2>1. PICK i \in Windows, j \in Windows : i < j /\ p = <<order[i], order[j]>>
    BY <1>3, <1>8
  <2>2. i # at /\ j # at
    BY <1>6, <1>8, <2>1
  <2>3. to(i) < to(j)
    BY <1>4, <1>5, <2>1, <2>2, SMT
  <2>4. p = <<moved[to(i)], moved[to(j)]>> /\ to(i) \in Windows /\ to(j) \in Windows
    BY <1>4, <2>1
  <2> QED BY <1>3, <2>3, <2>4
<1>9. ASSUME NEW p, p \in others \X {f.window}
      PROVE  p \in UsedBefore(f)
  <2>1. PICK w \in others : p = <<w, f.window>>
    BY <1>9
  <2>2. PICK i \in Windows : moved[i] = w
    BY <1>2, <2>1 DEF IsOrder
  <2>3. i # 7
    BY <1>2, <2>1, <2>2
  <2>4. i < 7
    BY <2>3, WindowsAre, SMT
  <2> QED BY <1>2, <1>3, <2>1, <2>2, <2>4
<1> HIDE DEF before, others
<1>10. UsedBefore(f) = before \cup (others \X {f.window})
  BY <1>7, <1>8, <1>9
<1> QED BY <1>10 DEF before, others

-----------------------------------------------------------------------------
(* How many bytes a character takes.                                         *)

LEMMA SelectedTakes ==
  ASSUME NEW e, NEW c, NEW change
  PROVE  Len(Selected(e, change, c).bytes) = 2
<1> DEFINE f == useDynamicWindow(InMode(e, TRUE), getWindow(e.offsets, c))
<1>1. Selected(e, change, c).bytes = <<change + f.window, Windowed(f, c)>>
  BY Zenon DEF Selected, Sent
<1> HIDE DEF f
<1> QED BY <1>1

LEMMA DefinedTakes ==
  ASSUME NEW e, NEW c, NEW define
  PROVE  /\ Len(Defined(e, define, c).bytes) = 3
         /\ Len(DefinedExtended(e, define, c).bytes) = 4
<1> DEFINE f == DefineWindow(InMode(e, TRUE), c)
           code == OffsetCode(c) - 512
<1>1. Defined(e, define, c).bytes = <<define + f.window, OffsetCode(c), Windowed(f, c)>>
  BY Zenon DEF Defined, Sent
<1>2. DefinedExtended(e, define, c).bytes =
        <<define, 32 * f.window + code \div 256, code % 256, Windowed(f, c)>>
  BY Zenon DEF DefinedExtended, Sent
<1> HIDE DEF f, code
<1> QED BY <1>1, <1>2

LEMMA WrittenOutTakes ==
  ASSUME NEW c \in Characters, NEW b
  PROVE  /\ Len(WrittenOut(c)) = 2 * Len(UnitsOf(c))
         /\ Len(<<b>> \o WrittenOut(c)) = 2 * Len(UnitsOf(c)) + 1
         /\ Len(<<b>> \o BigEndian(c)) = 3
         /\ Len(UnitsOf(c)) = IF Big(c) THEN 2 ELSE 1
<1>1. Big(c) <=> c \notin Units
  BY CharactersByRange
<1>2. CASE ~Big(c)
  BY <1>1, <1>2 DEF WrittenOut, UnitsOf, BigEndian
<1>3. CASE Big(c)
  BY <1>1, <1>3 DEF WrittenOut, UnitsOf, BigEndian
<1> QED BY <1>2, <1>3


\* What is sent for a character is no longer than declared.
Fits(sent, c) == Len(sent.bytes) <= 3 * Len(UnitsOf(c))

LEMMA Fitting ==
  ASSUME NEW c \in Characters, NEW sent
  PROVE  /\ Len(sent.bytes) \in 1..3 => Fits(sent, c)
         /\ Big(c) /\ Len(sent.bytes) \in 1..6 => Fits(sent, c)
<1>1. Len(UnitsOf(c)) = IF Big(c) THEN 2 ELSE 1
  BY WrittenOutTakes
<1>2. PICK n : n = Len(sent.bytes)
  OBVIOUS
<1>3. 3 * Len(UnitsOf(c)) = IF Big(c) THEN 6 ELSE 3
  BY <1>1
<1>4. n \in 1..3 => n <= IF Big(c) THEN 6 ELSE 3
  BY SMT
<1>5. Big(c) /\ n \in 1..6 => n <= IF Big(c) THEN 6 ELSE 3
  BY SMT
<1> QED BY <1>2, <1>3, <1>4, <1>5 DEF Fits

LEMMA EncodeTakes ==
  ASSUME NEW e, NEW c \in Characters, NEW next
  PROVE  Fits(Encode(e, c, next), c)
<1> SUFFICES ASSUME NEW sent, sent = Encode(e, c, next)
             PROVE  Fits(sent, c)
  OBVIOUS
<1>1. c \in Int
  BY CharactersAre
<1>2. ASSUME NEW f, NEW bytes, sent = Sent(f, bytes), Len(bytes) \in 1..3
      PROVE  Fits(sent, c)
  <2>1. sent.bytes = bytes
    BY <1>2 DEF Sent
  <2> QED BY <1>2, <2>1, Fitting
<1>3. ASSUME NEW a, NEW f, sent = Sent(f, WrittenOut(c)) \/ sent = Sent(f, <<a>> \o WrittenOut(c))
      PROVE  Fits(sent, c)
  <2>1. sent.bytes = WrittenOut(c) \/ sent.bytes = <<a>> \o WrittenOut(c)
    BY <1>3 DEF Sent
  <2>2. \/ Len(sent.bytes) = 2 * Len(UnitsOf(c))
        \/ Len(sent.bytes) = 2 * Len(UnitsOf(c)) + 1
    BY <2>1, WrittenOutTakes, Zenon
  <2>3. Len(UnitsOf(c)) = IF Big(c) THEN 2 ELSE 1
    BY WrittenOutTakes
  <2>4. Len(sent.bytes) \in 1..(IF Big(c) THEN 6 ELSE 3)
    BY <2>2, <2>3
  <2> QED BY <2>4, Fitting
<1>4. ASSUME NEW a, NEW f, sent = Sent(f, <<a>> \o BigEndian(c))
      PROVE  Fits(sent, c)
  <2>1. PICK bytes : bytes = <<a>> \o BigEndian(c)
    OBVIOUS
  <2>2. Len(bytes) = 3
    BY <2>1, WrittenOutTakes, Zenon
  <2>3. sent = Sent(f, bytes)
    BY <1>4, <2>1, Zenon
  <2>4. Len(bytes) \in 1..3
    BY <2>2
  <2> QED BY <1>2, <2>3, <2>4, Zenon
<1>5. ASSUME NEW a, sent = Selected(e, a, c) \/ sent = Defined(e, a, c)
      PROVE  Fits(sent, c)
  BY <1>5, SelectedTakes, DefinedTakes, Fitting
<1>6. ASSUME NEW a, Big(c), sent = DefinedExtended(e, a, c)
      PROVE  Fits(sent, c)
  BY <1>6, DefinedTakes, Fitting
<1>7. ASSUME NEW f, NEW a, NEW b, sent = Sent(f, <<a>>) \/ sent = Sent(f, <<a, b>>)
      PROVE  Fits(sent, c)
  <2>1. Len(<<a>>) \in 1..3 /\ Len(<<a, b>>) \in 1..3
    OBVIOUS
  <2> QED BY <1>2, <1>7, <2>1
<1>8. CASE e.single
  <2>1. PICK w, static : SingleChoice(e, c, sent, w, static)
    BY <1>1, <1>8, SingleChoices DEF Encode
  <2>2. CASE FirstChoice(e, c, sent)
    BY <1>3, <1>5, <1>6, <1>7, <2>2, Zenon DEF FirstChoice
  <2>3. CASE OtherChoice(e, c, sent, w, static)
    BY <1>4, <1>5, <1>7, <2>3, Zenon DEF OtherChoice
  <2> QED BY <2>1, <2>2, <2>3 DEF SingleChoice
<1>9. CASE ~e.single
  <2>1. UnicodeChoice(e, c, sent)
    BY <1>1, <1>9, UnicodeChoices DEF Encode
  <2> QED BY <1>3, <1>4, <1>5, <1>6, <1>7, <2>1, Zenon DEF UnicodeChoice
<1> QED BY <1>8, <1>9

-----------------------------------------------------------------------------
(* Sequences that are cut in two.                                            *)

LEMMA Cut ==
  ASSUME NEW S, NEW s \in Seq(S), NEW k \in 0..Len(s)
  PROVE  /\ SubSeq(s, 1, k) \in Seq(S) /\ SubSeq(s, k + 1, Len(s)) \in Seq(S)
         /\ SubSeq(s, 1, k) \o SubSeq(s, k + 1, Len(s)) = s
<1>1. Len(s) \in Nat
  OBVIOUS
<1>2. SubSeq(s, 1, k) \in Seq(S)
  BY <1>1, SubSeqProperties
<1>3. SubSeq(s, k + 1, Len(s)) \in Seq(S)
  BY <1>1, SubSeqProperties
<1>4. SubSeq(s, 1, k) \o SubSeq(s, k + 1, Len(s)) = SubSeq(s, 1, Len(s))
  <2>1. /\ 1 \in 1..Len(s) + 1 /\ k \in (1 - 1)..Len(s) /\ Len(s) \in k..Len(s)
    BY <1>1
  <2> QED BY <2>1, ConcatAdjacentSubSeq
<1> QED BY <1>2, <1>3, <1>4, SubSeqFull
=============================================================================
