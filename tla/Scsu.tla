-------------------------------- MODULE Scsu --------------------------------
(***************************************************************************)
(* The converter between Unicode and SCSU, the Standard Compression Scheme *)
(* for Unicode, of the ICU library in the repository                       *)
(* (icu/source/common/ucnvscsu.c): what it does with one byte when it      *)
(* decodes, and with one character when it encodes.                        *)
(*                                                                         *)
(* Both directions keep eight dynamic windows of 128 characters. The       *)
(* encoder moves them as it likes and tells the decoder by command bytes.  *)
(***************************************************************************)
EXTENDS Integers, Sequences, FiniteSetsExt

(* Command bytes: in single-byte mode, and in Unicode mode.                  *)
SQ0 == 1    \* quote from window pair 0, ... SQ7
SDX == 11   \* define a window as extended
SQU == 14   \* quote a single Unicode character
SCU == 15   \* change to Unicode mode
SC0 == 16   \* select window 0, ... SC7
SD0 == 24   \* define and select window 0, ... SD7
UC0 == 224  \* select window 0, ... UC7
UD0 == 232  \* define and select window 0, ... UD7
UQU == 240  \* quote a single Unicode character
UDX == 241  \* define a window as extended
Urs == 242  \* reserved

Windows == 0..7
Units == 0..65535
Bytes == 0..255
MaxCharacter == 1114111
Characters == 0..MaxCharacter
None == -1

\* The parameter is the number of a window.
staticOffsets == [w \in Windows |-> <<0, 128, 256, 768, 8192, 8320, 8448, 12288>>[w + 1]]

initialDynamicOffsets ==
  [w \in Windows |-> <<128, 192, 1024, 1536, 2304, 12352, 12448, 65280>>[w + 1]]

\* The table of predefined offsets, for the codes from fixedThreshold on.
fixedOffsets == [i \in 0..6 |-> <<192, 592, 880, 1328, 12352, 12448, 65376>>[i + 1]]

gapThreshold == 104
gapOffset == 44032
reservedStart == 168
fixedThreshold == 249

initialWindowUse == [i \in Windows |-> <<7, 0, 3, 2, 4, 5, 6, 1>>[i + 1]]
initialWindowUseJa == [i \in Windows |-> <<3, 2, 4, 1, 0, 7, 5, 6>>[i + 1]]

InWindow(offset, c) == c - offset \in 0..127

IsLead(u) == u \in 55296..56319
IsTrail(u) == u \in 56320..57343
CodePoint(lead, trail) == 65536 + 1024 * (lead - 55296) + (trail - 56320)

\* UTF-16: a supplementary character is a surrogate pair.
UnitsOf(c) == IF c \in Units THEN <<c>> ELSE <<55232 + c \div 1024, 56320 + (c % 1024)>>

\* The characters that stand for themselves in single-byte mode.
Direct(c) == c \in 32..127 \/ c \in {0, 9, 10, 13}

-----------------------------------------------------------------------------
(* The decoder. One byte yields the next state, the units that are written,  *)
(* and whether it is reported as illegal.                                    *)

DecoderStates == {"readCommand", "quotePairOne", "quotePairTwo", "quoteOne",
                  "definePairOne", "definePairTwo", "defineOne"}

Decoder == [single : BOOLEAN, state : DecoderStates, quote : Windows,
            window : Windows, one : Bytes, offsets : [Windows -> Characters]]

NewDecoder == [single |-> TRUE, state |-> "readCommand", quote |-> 0, window |-> 0,
               one |-> 0, offsets |-> initialDynamicOffsets]

Wrote(d, out) == [d |-> d, out |-> out, illegal |-> FALSE]
Read(d) == Wrote(d, <<>>)
Illegal(d) == [d |-> d, out |-> <<>>, illegal |-> TRUE]
Expect(d, state) == Read([d EXCEPT !.state = state])

ReadSingle(d, b) ==
  CASE Direct(b)           -> Wrote(d, <<b>>)
    [] b >= 128            -> Wrote(d, UnitsOf(d.offsets[d.window] + b - 128))
    [] b \in SQ0..SQ0 + 7  -> Expect([d EXCEPT !.quote = b - SQ0], "quoteOne")
    [] b = SDX             -> Expect(d, "definePairOne")
    [] b = SQU             -> Expect(d, "quotePairOne")
    [] b = SCU             -> Read([d EXCEPT !.single = FALSE])
    [] b \in SC0..SC0 + 7  -> Read([d EXCEPT !.window = b - SC0])
    [] b \in SD0..SD0 + 7  -> Expect([d EXCEPT !.window = b - SD0], "defineOne")
    [] OTHER               -> Illegal(d)

ReadUnicode(d, b) ==
  CASE b \notin UC0..Urs   -> Expect([d EXCEPT !.one = b], "quotePairTwo")
    [] b \in UC0..UC0 + 7  -> Read([d EXCEPT !.single = TRUE, !.window = b - UC0])
    [] b \in UD0..UD0 + 7  -> Expect([d EXCEPT !.single = TRUE, !.window = b - UD0], "defineOne")
    [] b = UDX             -> Expect([d EXCEPT !.single = TRUE], "definePairOne")
    [] b = UQU             -> Expect(d, "quotePairOne")
    [] OTHER               -> Illegal(d)

\* The values that define no window.
Reserved(b) == b = 0 \/ b \in reservedStart..fixedThreshold - 1

DefinedOffset(b) ==
  IF b < gapThreshold THEN 128 * b
  ELSE IF b < reservedStart THEN 128 * b + gapOffset
  ELSE fixedOffsets[b - fixedThreshold]

Quoted(d, b) ==
  UnitsOf(IF b < 128 THEN staticOffsets[d.quote] + b ELSE d.offsets[d.quote] + b - 128)

\* With room for one unit only, the second one of a quoted pair goes to the
\* overflow buffer, and the function is left before the state is set back. A
\* reserved offset is read, and the function left, without an error.
Decode(d, b, room) ==
  LET done == [d EXCEPT !.state = "readCommand"]
  IN  CASE d.state = "readCommand" -> IF d.single THEN ReadSingle(d, b) ELSE ReadUnicode(d, b)
        [] d.state = "quotePairOne" -> Expect([d EXCEPT !.one = b], "quotePairTwo")
        [] d.state = "quotePairTwo" -> Wrote(done, <<256 * d.one + b>>)
        [] d.state = "quoteOne" ->
             Wrote(IF Len(Quoted(d, b)) > room THEN d ELSE done, Quoted(d, b))
        [] d.state = "definePairOne" ->
             Expect([d EXCEPT !.window = b \div 32, !.one = b % 32], "definePairTwo")
        [] d.state = "definePairTwo" ->
             Read([done EXCEPT !.offsets[d.window] = 65536 + 32768 * d.one + 128 * b])
        [] OTHER -> \* defineOne
             Read(IF Reserved(b) THEN d
                  ELSE [done EXCEPT !.offsets[d.window] = DefinedOffset(b)])

-----------------------------------------------------------------------------
(* The encoder: its windows, and the order in which they were used. At       *)
(* nextWindowUseIndex is the least recently used window, and around the      *)
(* array follow the more and more recently used ones.                        *)

Encoder == [single : BOOLEAN, window : Windows, offsets : [Windows -> Characters],
            use : [Windows -> Windows], next : Windows]

NewEncoder(use) == [single |-> TRUE, window |-> 0, offsets |-> initialDynamicOffsets,
                    use |-> use, next |-> 0]

\* The place of the windows from the least recently used one, at 0, to the most
\* recently used one, at 7.
UseOrder(e) == [i \in Windows |-> e.use[(e.next + i) % 8]]

\* The pairs of windows of which the first was used before the second.
UsedBefore(e) ==
  LET order == UseOrder(e)
  IN  {<<order[p[1]], order[p[2]]>> : p \in {q \in Windows \X Windows : q[1] < q[2]}}

\* The windows in whose range c is; getWindow takes the first.
WindowsWith(offsets, c) == {w \in Windows : InWindow(offsets[w], c)}
getWindow(offsets, c) == Min(WindowsWith(offsets, c))

isInOffsetWindowOrDirect(offset, c) == InWindow(offset, c) \/ Direct(c)

\* Mutant of useDynamicWindow: the windows after it do not move up.
useDynamicWindowInPlace(e, window) ==
  [e EXCEPT !.window = window, !.use[(e.next + 7) % 8] = window]

\* window becomes the most recently used, the last before nextWindowUseIndex,
\* and those after it move up: what the loops below compute.
useDynamicWindow(e, window) ==
  LET used(i) == e.use[(e.next + i) % 8]
      at == CHOOSE i \in Windows : used(i) = window
  IN  [e EXCEPT !.window = window,
                !.use = [j \in Windows |->
                           LET i == (j - e.next) % 8
                           IN  IF i < at THEN used(i) ELSE IF i < 7 THEN used(i + 1) ELSE window]]

\* The two loops of useDynamicWindow, which run round the array.
After(i) == IF i = 7 THEN 0 ELSE i + 1

\* The index of window, searched backwards from nextWindowUseIndex.
SearchBackwards(e, window) ==
  LET found[i \in Windows] ==
        LET k == IF i = 0 THEN 7 ELSE i - 1
        IN  IF e.use[k] = window THEN k ELSE found[k]
  IN  found[e.next]

\* Mutant of CopyUp: the loop ends one window early.
CopyUpShort(e, window, at) ==
  LET copied[use \in [Windows -> Windows], i \in Windows] ==
        IF After(i) = e.next \/ After(After(i)) = e.next
        THEN [use EXCEPT ![i] = window]
        ELSE copied[[use EXCEPT ![i] = use[After(i)]], After(i)]
  IN  copied[e.use, at]

\* Each windowUse[i + 1] is copied to [i], in place, up to nextWindowUseIndex.
CopyUp(e, window, at) ==
  LET copied[use \in [Windows -> Windows], i \in Windows] ==
        IF After(i) = e.next
        THEN [use EXCEPT ![i] = window]
        ELSE copied[[use EXCEPT ![i] = use[After(i)]], After(i)]
  IN  copied[e.use, at]

\* The windows of predefined offset that c is in.
FixedWith(c) == {i \in 0..6 : InWindow(fixedOffsets[i], c)}

\* A "small" script; and one behind the gap, without U+FEFF and the specials.
InSmallScript(c) ==
  \/ 128 <= c /\ c < 13312
  \/ 65536 <= c /\ c < 81920
  \/ 118784 <= c /\ c < 131072
IsBehindGap(c) == 57344 <= c /\ c < 65520 /\ c # 65279

\* getDynamicOffset: whether a window can be defined for c, at which offset, and
\* by which code (for an extended window, 512 more than the one that is sent).
HasDynamicOffset(c) == FixedWith(c) # {} \/ InSmallScript(c) \/ IsBehindGap(c)

\* Mutant of DynamicOffset: the code says a predefined offset, the encoder keeps
\* another one.
DynamicOffsetUnfixed(c) == 128 * (c \div 128)

DynamicOffset(c) == IF FixedWith(c) # {} THEN fixedOffsets[Min(FixedWith(c))] ELSE 128 * (c \div 128)

\* Mutant of OffsetCode: the gap is not taken into account.
OffsetCodeWithoutGap(c) ==
  IF FixedWith(c) # {} THEN fixedThreshold + Min(FixedWith(c)) ELSE c \div 128

OffsetCode(c) ==
  IF FixedWith(c) # {} THEN fixedThreshold + Min(FixedWith(c))
  ELSE IF c < gapOffset \/ c > 65535 THEN c \div 128
  ELSE (c - gapOffset) \div 128

\* The least recently used window is redefined for c.
DefineWindow(e, c) ==
  LET window == e.use[e.next]
  IN  useDynamicWindow([e EXCEPT !.next = (@ + 1) % 8, !.offsets[window] = DynamicOffset(c)], window)

Sent(e, bytes) == [e |-> e, bytes |-> bytes]
InMode(e, single) == [e EXCEPT !.single = single]

\* A character in the selected window of e, and one written out in UTF-16BE.
Windowed(e, c) == 128 + c - e.offsets[e.window]
BigEndian(u) == <<u \div 256, u % 256>>
WrittenOut(c) == IF c \in Units THEN BigEndian(c)
                 ELSE BigEndian(UnitsOf(c)[1]) \o BigEndian(UnitsOf(c)[2])

\* Change to a window that has c, or define one: change and define are the
\* command bytes for window 0.
Selected(e, change, c) ==
  LET f == useDynamicWindow(InMode(e, TRUE), getWindow(e.offsets, c))
  IN  Sent(f, <<change + f.window, Windowed(f, c)>>)

\* Mutant of Defined: the window is selected by a command of its own.
DefinedAndSelected(e, define, c) ==
  LET f == DefineWindow(InMode(e, TRUE), c)
  IN  Sent(f, <<define + f.window, OffsetCode(c), SC0 + f.window, Windowed(f, c)>>)

Defined(e, define, c) ==
  LET f == DefineWindow(InMode(e, TRUE), c)
  IN  Sent(f, <<define + f.window, OffsetCode(c), Windowed(f, c)>>)

DefinedExtended(e, define, c) ==
  LET f == DefineWindow(InMode(e, TRUE), c)
      code == OffsetCode(c) - 512
  IN  Sent(f, <<define, 32 * f.window + code \div 256, code % 256, Windowed(f, c)>>)

\* Those that Unicode mode is for: ideographs and syllables, not compressible.
Ideograph(c) == 13312 <= c /\ c < 55296

\* ahead is the unit after c when it is in the buffer, or None.
EncodeSingle(e, c, ahead) ==
  IF Direct(c) THEN Sent(e, <<c>>)
  ELSE IF c < 32 THEN Sent(e, <<SQ0, c>>)
  ELSE IF InWindow(e.offsets[e.window], c) THEN Sent(e, <<Windowed(e, c)>>)
  ELSE IF c > 65535 THEN
    IF WindowsWith(e.offsets, c) # {} THEN Selected(e, SC0, c)
    ELSE IF HasDynamicOffset(c) THEN DefinedExtended(e, SDX, c)
    ELSE Sent(InMode(e, FALSE), <<SCU>> \o WrittenOut(c))
  ELSE IF c < 160 THEN Sent(e, <<SQ0 + 1, c - 128>>)
  ELSE IF c = 65279 \/ c >= 65520 THEN Sent(e, <<SQU>> \o BigEndian(c))
  ELSE IF WindowsWith(e.offsets, c) # {} THEN
    LET w == getWindow(e.offsets, c)
    IN  IF ahead = None \/ isInOffsetWindowOrDirect(e.offsets[w], ahead)
        THEN Selected(e, SC0, c)
        ELSE Sent(e, <<SQ0 + w, 128 + c - e.offsets[w]>>)
  ELSE IF WindowsWith(staticOffsets, c) # {} THEN
    LET w == getWindow(staticOffsets, c)
    IN  Sent(e, <<SQ0 + w, c - staticOffsets[w]>>)
  ELSE IF HasDynamicOffset(c) THEN Defined(e, SD0, c)
  ELSE IF Ideograph(c) /\ (ahead = None \/ Ideograph(ahead))
       THEN Sent(InMode(e, FALSE), <<SCU>> \o BigEndian(c))
  ELSE Sent(e, <<SQU>> \o BigEndian(c))

IsAlphanumeric(c) == c \in 48..57 \/ c \in 65..90 \/ c \in 97..122

EncodeUnicode(e, c, ahead) ==
  LET more == ahead # None /\ Ideograph(ahead)
      known == WindowsWith(e.offsets, c) # {}
      direct == Sent(e, WrittenOut(c))
  IN  IF c > 65535 THEN
        IF known /\ ~more THEN Selected(e, UC0, c)
        ELSE IF ahead = UnitsOf(c)[1] /\ HasDynamicOffset(c) THEN DefinedExtended(e, UDX, c)
        ELSE direct
      ELSE IF c \in 57344..62207 THEN Sent(e, <<UQU>> \o BigEndian(c))
      ELSE IF Ideograph(c) \/ more THEN direct
      ELSE IF IsAlphanumeric(c) THEN Sent(InMode(e, TRUE), <<UC0 + e.window, c>>)
      ELSE IF known THEN Selected(e, UC0, c)
      ELSE IF HasDynamicOffset(c) THEN Defined(e, UD0, c)
      ELSE direct

Encode(e, c, ahead) == IF e.single THEN EncodeSingle(e, c, ahead) ELSE EncodeUnicode(e, c, ahead)
=============================================================================
