---------------------------- MODULE ScsuBuffers -----------------------------
(***************************************************************************)
(* Any SCSU bytes, from whatever encoder, decoded by two converters: one   *)
(* whose target always has room, and one that is given target buffers as   *)
(* small as one unit.                                                      *)
(***************************************************************************)
EXTENDS Scsu

CONSTANT Input    \* the bytes that are fed, a subset of Bytes

VARIABLES
  dec,       \* the converter with small buffers
  pending,   \* its UCharErrorBuffer
  twin,      \* the converter with large buffers
  written,   \* what the one has written for the last byte
  expected   \* what the other has

vars == <<dec, pending, twin, written, expected>>

Init ==
  /\ dec = NewDecoder /\ twin = NewDecoder /\ pending = <<>>
  /\ written = <<>> /\ expected = <<>>

Feed ==
  /\ pending = <<>>
  /\ \E b \in Input, room \in 1..2 :
       LET read == Decode(dec, b, room)
           fits == IF Len(read.out) > room THEN room ELSE Len(read.out)
           other == Decode(twin, b, 2)
       IN  /\ dec' = read.d
           /\ written' = SubSeq(read.out, 1, fits)
           /\ pending' = SubSeq(read.out, fits + 1, Len(read.out))
           /\ twin' = other.d /\ expected' = other.out

\* ucnv_outputOverflowToUnicode
TakePending ==
  /\ pending # <<>>
  /\ written' = written \o pending /\ pending' = <<>>
  /\ UNCHANGED <<dec, twin, expected>>

Next == Feed \/ TakePending

Spec == Init /\ [][Next]_vars

\* Every window is one of the characters that take one unit: none has been
\* defined as extended.
BasicWindows == \A w \in Windows : twin.offsets[w] + 127 \in Units

-----------------------------------------------------------------------------
\* The units that come out do not depend on the sizes of the buffers.
BufferSizesDoNotMatter == written \o pending = expected

\* From one state both write the same for a byte, and stay in one state, but
\* after the quoted character that takes two units.
OnlyQuotedPairsMatter ==
  [][dec = twin /\ pending = <<>> =>
       /\ written' \o pending' = expected'
       /\ dec' = twin' \/ (dec.state = "quoteOne" /\ Len(expected') = 2)]_vars

\* Whatever the bytes, the decoder's window and offsets stay in their ranges, and
\* what it writes is UTF-16.
BuffersTypeOK ==
  /\ dec \in Decoder /\ twin \in Decoder
  /\ pending \in Seq(Units) /\ written \in Seq(Units) /\ expected \in Seq(Units)
=============================================================================
