------------------------------ MODULE ScsuText ------------------------------
(***************************************************************************)
(* Text that one SCSU converter writes and another one reads: the encoder  *)
(* of Scsu as ucnv_fromUnicode drives it, buffer by buffer, the bytes in   *)
(* flight, and the decoder as ucnv_toUnicode drives it.                    *)
(*                                                                         *)
(* How the caller cuts text and bytes into buffers shows in three ways:    *)
(* whether the encoder sees the unit after the one it converts, how many   *)
(* of the bytes of a character fit into the target, and whether both units *)
(* of a pair do.                                                           *)
(***************************************************************************)
EXTENDS Scsu

CONSTANTS Alphabet,     \* the UTF-16 code units that the text is made of
          WindowUse,    \* the initial windowUse, by the locale of the converter
          MaxUnits      \* the bound on the length of all texts together

ASSUME AlphabetAssumption == Alphabet \subseteq Units
ASSUME LocaleAssumption == WindowUse \in {initialWindowUse, initialWindowUseJa}
ASSUME BoundAssumption == MaxUnits \in Nat

VARIABLES
  enc,      \* the encoder's part of SCSUData
  lead,     \* fromUChar32: a lead surrogate that waits for its trail, or 0
  ahead,    \* the unit that follows in the same source buffer, or None
  flush,    \* the text has been written to its end, but not read to it
  units,    \* how many units have been written
  held,     \* charErrorBuffer: bytes that did not fit into the target
  wire,     \* the bytes in flight
  dec,      \* the decoder's part of SCSUData
  pending,  \* UCharErrorBuffer: units that did not fit into the target
  open,     \* history: a lead surrogate of the text whose trail has not come yet
  given,    \* history: what the last step of the text was, in correct UTF-16
  decoded   \* what has come out of the decoder for it, or None for an error

encoder == <<enc, lead, ahead, flush, units>>
text == <<open, given>>
decoder == <<dec, pending, decoded>>
vars == <<enc, lead, ahead, flush, units, held, wire, dec, pending, open, given, decoded>>

Init ==
  /\ enc = NewEncoder(WindowUse) /\ lead = 0 /\ ahead = None
  /\ flush = FALSE /\ units = 0
  /\ held = <<>> /\ wire = <<>>
  /\ dec = NewDecoder /\ pending = <<>>
  /\ open = 0 /\ given = <<>> /\ decoded = <<>>

\* All that was written has been read. (What the decoder does depends on the
\* order of the bytes alone, so the encoder may as well wait for it.)
Settled == held = <<>> /\ wire = <<>> /\ pending = <<>>

Writing == Settled /\ ~flush

\* The next unit of the text, and what the encoder may see after it.
NextUnit == IF ahead # None THEN {ahead} ELSE Alphabet
Visible == IF units + 1 < MaxUnits THEN Alphabet \cup {None} ELSE {None}

\* subUChars: U+FFFD
Replacement == 65533

\* What a text says: whatever the converters make of it, an unmatched surrogate
\* stands for U+FFFD.
Replaced == IF open = 0 THEN <<>> ELSE <<Replacement>>

Says(u) ==
  /\ open' = IF IsLead(u) THEN u ELSE 0
  /\ given' = IF open # 0 /\ IsTrail(u) THEN <<open, u>>
              ELSE Replaced \o (IF IsLead(u) THEN <<>> ELSE IF IsTrail(u) THEN <<Replacement>> ELSE <<u>>)

SaysNoMore == open' = 0 /\ given' = Replaced

Taken(u, next) == Says(u) /\ ahead' = next /\ units' = units + 1

\* Bytes go out; those that the target has no room for are held.
Put(bytes, least) ==
  /\ \E room \in least..Len(bytes) :
       /\ wire' = SubSeq(bytes, 1, room)
       /\ held' = SubSeq(bytes, room + 1, Len(bytes))
  /\ decoded' = <<>>
  /\ UNCHANGED <<dec, pending>>

\* No character is begun without any room, but for the callback's.
Write(c, next, least) ==
  LET sent == Encode(enc, c, next) IN enc' = sent.e /\ Put(sent.bytes, least)

WriteUnit ==
  /\ Writing /\ lead = 0 /\ units < MaxUnits
  /\ \E u \in NextUnit, next \in Visible :
       /\ ~IsLead(u) /\ ~IsTrail(u)
       /\ Write(u, next, 1)
       /\ Taken(u, next)
  /\ UNCHANGED <<lead, flush>>

\* Mutant of TakeLead: at the end of a buffer the lead surrogate is forgotten.
TakeLeadForgotten ==
  /\ Writing /\ lead = 0 /\ units < MaxUnits
  /\ \E u \in NextUnit, next \in Visible :
       /\ IsLead(u)
       /\ lead' = IF next = None THEN 0 ELSE u
       /\ Taken(u, next)
  /\ decoded' = <<>>
  /\ UNCHANGED <<enc, flush, held, wire, dec, pending>>

\* A lead surrogate is kept, across buffers if it is the last of its own.
TakeLead ==
  /\ Writing /\ lead = 0 /\ units < MaxUnits
  /\ \E u \in NextUnit, next \in Visible :
       /\ IsLead(u)
       /\ lead' = u
       /\ Taken(u, next)
  /\ decoded' = <<>>
  /\ UNCHANGED <<enc, flush, held, wire, dec, pending>>

WritePair ==
  /\ Writing /\ lead # 0 /\ units < MaxUnits
  /\ \E u \in NextUnit, next \in Visible :
       /\ IsTrail(u)
       /\ Write(CodePoint(lead, u), next, 1)
       /\ Taken(u, next)
  /\ lead' = 0
  /\ UNCHANGED flush

\* The callback for unmatched surrogates writes U+FFFD by a call of its own.
Substitute == Write(Replacement, None, 0)

WriteUnmatchedLead ==
  /\ Writing /\ lead # 0 /\ units < MaxUnits
  /\ \E u \in NextUnit :
       /\ ~IsTrail(u)
       /\ ahead' = u
  /\ Substitute
  /\ SaysNoMore
  /\ lead' = 0
  /\ UNCHANGED <<flush, units>>

WriteUnmatchedTrail ==
  /\ Writing /\ lead = 0 /\ units < MaxUnits
  /\ \E u \in NextUnit, next \in Visible :
       /\ IsTrail(u)
       /\ Taken(u, next)
  /\ Substitute
  /\ UNCHANGED <<lead, flush>>

\* The call that flushes resets the encoder when the text is complete,
EndText ==
  /\ Writing /\ ahead = None /\ lead = 0
  /\ enc' = NewEncoder(WindowUse)
  /\ SaysNoMore
  /\ decoded' = <<>>
  /\ flush' = TRUE
  /\ UNCHANGED <<lead, ahead, units, held, wire, dec, pending>>

\* and after the callback when a lead surrogate is left over.
EndTruncatedText ==
  /\ Writing /\ ahead = None /\ lead # 0
  /\ Put(Encode(enc, Replacement, None).bytes, 0)
  /\ SaysNoMore
  /\ enc' = NewEncoder(WindowUse)
  /\ lead' = 0
  /\ flush' = TRUE
  /\ UNCHANGED <<ahead, units>>

\* ucnv_outputOverflowFromUnicode, at the beginning of the next call.
PutHeld ==
  /\ wire = <<>> /\ held # <<>>
  /\ wire' = held /\ held' = <<>>
  /\ UNCHANGED encoder /\ UNCHANGED text /\ UNCHANGED decoder

ReadByte ==
  /\ wire # <<>> /\ pending = <<>>
  /\ \E room \in 1..2 :
       LET read == Decode(dec, Head(wire), room)
           out == IF read.illegal THEN <<None>> ELSE read.out
           fits == IF Len(out) > room THEN room ELSE Len(out)
       IN  /\ dec' = read.d
           /\ decoded' = decoded \o SubSeq(out, 1, fits)
           /\ pending' = SubSeq(out, fits + 1, Len(out))
  /\ wire' = Tail(wire)
  /\ UNCHANGED encoder /\ UNCHANGED text /\ UNCHANGED held

\* ucnv_outputOverflowToUnicode
ReadPending ==
  /\ pending # <<>>
  /\ decoded' = decoded \o pending /\ pending' = <<>>
  /\ UNCHANGED encoder /\ UNCHANGED text /\ UNCHANGED <<dec, held, wire>>

\* The call that flushes the decoder resets it.
EndReading ==
  /\ flush /\ Settled
  /\ dec' = NewDecoder
  /\ flush' = FALSE
  /\ UNCHANGED text /\ UNCHANGED <<enc, lead, ahead, units, held, wire, pending, decoded>>

Next ==
  \/ WriteUnit \/ TakeLead \/ WritePair
  \/ WriteUnmatchedLead \/ WriteUnmatchedTrail
  \/ EndText \/ EndTruncatedText \/ PutHeld \/ ReadByte \/ ReadPending \/ EndReading

Spec == Init /\ [][Next]_vars

-----------------------------------------------------------------------------
ScsuTypeOK ==
  /\ enc \in Encoder /\ dec \in Decoder
  /\ lead \in Units /\ (ahead \in Units \/ ahead = None) /\ flush \in BOOLEAN
  /\ held \in Seq(Bytes) /\ wire \in Seq(Bytes)
  /\ pending \in Seq(Units) /\ open \in Units /\ given \in Seq(Units)

\* What the text says is read, unit by unit, however text and bytes are cut into
\* buffers, and is complete as soon as nothing is in flight.
DecodedIsGiven ==
  /\ decoded = SubSeq(given, 1, Len(decoded))
  /\ Settled => decoded = given

\* Between two characters the decoder is in the mode, has selected the window,
\* and knows all windows as the encoder thinks it does.
DecoderFollows ==
  Settled /\ ~flush =>
    /\ dec.state = "readCommand"
    /\ dec.single = enc.single
    /\ dec.window = enc.window
    /\ dec.offsets = enc.offsets

\* A window that is selected, and no other, becomes the most recently used one;
\* the others keep their order, and every window its place among them, wherever
\* in the array windowUse the order begins: so the window that is given up for a
\* new one is the least recently used, and the search for a window in windowUse
\* ends.
WindowUseIsRecency ==
  [][~flush' /\ <<enc.window, UseOrder(enc)>>' # <<enc.window, UseOrder(enc)>> =>
       LET others == Windows \ {enc'.window}
       IN  UsedBefore(enc') =
             (UsedBefore(enc) \cap (others \X others)) \cup (others \X {enc'.window})]_vars

\* useDynamicWindow rotates its array in place, round its end and from an index
\* that moves: whatever was written, and whichever window is used next, the two
\* loops find it and leave every window where the model says.
LoopsRotate ==
  \A w \in Windows :
    CopyUp(enc, w, SearchBackwards(enc, w)) = useDynamicWindow(enc, w).use

\* The declared size of a converter to buffer allocation: no more than three
\* bytes for a unit of text, the pair of a supplementary character taking two.
ThreeBytesPerUnit == Len(wire \o held) <= 3 * Len(given)
=============================================================================
