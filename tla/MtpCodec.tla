-------------------------------- MODULE MtpCodec --------------------------------
(***************************************************************************)
(* How values are laid out in the buffer of a data packet (DataPacket's    *)
(* push and pop, the types of mtp_types.hpp, the conversions of utils.hpp).*)
(*                                                                         *)
(* A buffer is a sequence of fields: a width in bytes and a value.  Bytes  *)
(* within a field are not told apart, as both sides are little-endian; a   *)
(* reader who expects another width than was written reads garbage from    *)
(* there to the end.                                                       *)
(***************************************************************************)
EXTENDS Naturals, Sequences

CONSTANTS
  ByteSize,   (* 2^8: num_chars wraps, and characters are cut, at this      *)
  Garbage     (* what is read where nothing of that shape was written       *)

ASSUME CodecAssumption == ByteSize \in Nat \ {0, 1}

Field(width, value) == [value |-> value, width |-> width]

(* sizeof each integer type.                                                 *)
Width == [UINT8 |-> 1, UINT16 |-> 2, UINT32 |-> 4, UINT64 |-> 8]
IntTypes == DOMAIN Width

-------------------------------------------------------------------------------
(* String: a count, which includes a terminator, and UTF-16 units.           *)

NUL == 0

NoString == [chars |-> <<>>, num_chars |-> 0]

UnboundedString(chars) == [chars |-> chars, num_chars |-> Len(chars) + 1]
MakeString(chars) == [chars |-> chars, num_chars |-> (Len(chars) + 1) % ByteSize]

(* The count was not cut.                                                    *)
Fits(chars) == Len(chars) + 1 < ByteSize

(* to_utf16 widens each byte, to_utf8 cuts each unit.                        *)
to_utf16(bytes) == bytes
to_utf8(chars) == [i \in DOMAIN chars |-> chars[i] % ByteSize]

-------------------------------------------------------------------------------
(* push                                                                      *)

PushInt(type, value) == <<Field(Width[type], value)>>

Units(chars, n) == [i \in 1..n |-> Field(2, (chars \o <<NUL>>)[i])]

(* As many units as the count says, from where the characters are.           *)
PushAllUnits(s) == <<Field(1, s.num_chars)>> \o Units(s.chars, Len(s.chars) + 1)
PushString(s) == <<Field(1, s.num_chars)>> \o Units(s.chars, s.num_chars)

PushArray(type, elements) ==
  <<Field(4, Len(elements))>>
    \o [i \in DOMAIN elements |-> Field(Width[type], elements[i])]

-------------------------------------------------------------------------------
(* pop: the value, and the buffer from the new offset on.                    *)

Popped(value, rest) == [value |-> value, rest |-> rest]
Misread == Popped(Garbage, <<Field(0, Garbage)>>)

Values(fields) == [i \in DOMAIN fields |-> fields[i].value]

(* The next n fields are there and have this width.                          *)
Holds(buffer, n, width) ==
  n <= Len(buffer) /\ \A i \in 1..n : buffer[i].width = width

PopInt(type, buffer) ==
  IF Holds(buffer, 1, Width[type])
    THEN Popped(Head(buffer).value, Tail(buffer))
    ELSE Misread

(* What n units stand for: the last is left out, as the terminator.          *)
StringOf(n, units) ==
  [chars |-> IF n = 0 THEN <<>> ELSE Values(SubSeq(units, 1, n - 1)),
   num_chars |-> n]

PopString(buffer) ==
  LET n    == Head(buffer).value
      tail == Tail(buffer)
  IN  IF Holds(buffer, 1, 1) /\ Holds(tail, n, 2)
        THEN Popped(StringOf(n, tail), SubSeq(tail, n + 1, Len(tail)))
        ELSE Misread

PopArray(type, buffer) ==
  LET n    == Head(buffer).value
      tail == Tail(buffer)
  IN  IF Holds(buffer, 1, 4) /\ Holds(tail, n, Width[type])
        THEN Popped(Values(SubSeq(tail, 1, n)), SubSeq(tail, n + 1, Len(tail)))
        ELSE Misread
===============================================================================
