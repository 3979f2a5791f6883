----------------------------- MODULE MtpCodecProofs -----------------------------
(***************************************************************************)
(* Theorems about MtpCodec: what has been pushed is popped, and the next   *)
(* pop starts where the push ended, whatever comes after it.               *)
(***************************************************************************)
EXTENDS MtpCodec, SequenceTheorems, TLAPS

Fields(V) == [width : Nat, value : V]

(* A field pushed in front of others is read first and leaves the others.    *)
LEMMA FirstField ==
  ASSUME NEW V, NEW f \in Fields(V), NEW s \in Seq(Fields(V)), NEW t \in Seq(Fields(V)),
         NEW all, all = (<<f>> \o s) \o t,
         NEW tail, tail = s \o t
  PROVE  /\ Len(all) = 1 + Len(tail) /\ Len(tail) \in Nat
         /\ all[1] = f
         /\ Head(all) = f
         /\ Tail(all) = tail
<1>1. <<f>> \in Seq(Fields(V)) /\ Len(<<f>>) = 1 /\ <<f>>[1] = f
  OBVIOUS
<1>2. tail \in Seq(Fields(V))
  BY ConcatProperties
<1>3. all = <<f>> \o tail
  BY <1>1, ConcatAssociative
<1>4. /\ all \in Seq(Fields(V))
      /\ Len(all) = 1 + Len(tail)
      /\ \A i \in 1..(1 + Len(tail)) : all[i] = IF i <= 1 THEN f ELSE tail[i - 1]
  BY <1>1, <1>2, <1>3, ConcatProperties
<1>5. Len(tail) \in Nat
  BY <1>2, LenProperties
<1>6. all[1] = f /\ all # <<>>
  BY <1>4, <1>5, EmptySeq
<1>7. Head(all) = f
  BY <1>6
<1>8. Tail(all) = tail
  <2>1. /\ Tail(all) \in Seq(Fields(V))
        /\ Len(Tail(all)) = Len(tail)
        /\ \A i \in 1..Len(Tail(all)) : Tail(all)[i] = all[i + 1]
    BY <1>4, <1>5, <1>6, HeadTailProperties
  <2>2. \A i \in 1..Len(tail) : Tail(all)[i] = tail[i]
    <3> SUFFICES ASSUME NEW i \in 1..Len(tail)
                 PROVE  Tail(all)[i] = tail[i]
      OBVIOUS
    <3>1. i + 1 \in 1..(1 + Len(tail)) /\ ~(i + 1 <= 1) /\ (i + 1) - 1 = i
      BY <1>5
    <3>2. all[i + 1] = tail[i]
      BY <1>4, <3>1
    <3> QED
      BY <2>1, <3>2
  <2> QED
    BY <1>2, <2>1, <2>2, SeqEqual
<1> QED
  BY <1>4, <1>5, <1>6, <1>7, <1>8

(* A block of fields in front of others can be cut off.                      *)
LEMMA AfterBlock ==
  ASSUME NEW F, NEW s \in Seq(F), NEW t \in Seq(F)
  PROVE  /\ Len(s \o t) \in Nat /\ Len(s) \in Nat /\ Len(s) <= Len(s \o t)
         /\ \A i \in 1..Len(s) : (s \o t)[i] = s[i]
         /\ SubSeq(s \o t, Len(s) + 1, Len(s \o t)) = t
<1> DEFINE all == s \o t
<1>1. /\ all \in Seq(F)
      /\ Len(all) = Len(s) + Len(t)
      /\ \A i \in 1..(Len(s) + Len(t)) :
           all[i] = IF i <= Len(s) THEN s[i] ELSE t[i - Len(s)]
  BY ConcatProperties
<1>2. Len(s) \in Nat /\ Len(t) \in Nat
  BY LenProperties
<1> DEFINE cut == SubSeq(all, Len(s) + 1, Len(all))
<1>3. \A i \in (Len(s) + 1)..Len(all) : all[i] \in F
  BY <1>1, <1>2, ElementOfSeq
<1> HIDE DEF all
<1>4. /\ cut \in Seq(F)
      /\ Len(cut) = Len(t)
      /\ \A i \in 1..Len(t) : cut[i] = all[Len(s) + i]
  <2>1. Len(s) + 1 \in Int /\ Len(all) \in Int
    BY <1>1, <1>2
  <2>2. /\ cut \in Seq(F)
        /\ Len(cut) = IF Len(s) + 1 <= Len(all) THEN Len(all) - (Len(s) + 1) + 1 ELSE 0
        /\ \A i \in 1..(Len(all) - (Len(s) + 1) + 1) : cut[i] = all[(Len(s) + 1) + i - 1]
    BY <1>3, <2>1, SubSeqProperties
  <2> HIDE DEF cut
  <2>3. Len(all) - (Len(s) + 1) + 1 = Len(t)
    BY <1>1, <1>2
  <2>4. Len(cut) = Len(t)
    BY <1>1, <1>2, <2>2
  <2>5. ASSUME NEW i \in 1..Len(t)
        PROVE  cut[i] = all[Len(s) + i]
    <3>1. (Len(s) + 1) + i - 1 = Len(s) + i
      BY <1>2
    <3> QED
      BY <2>2, <2>3, <3>1
  <2> QED
    BY <2>2, <2>4, <2>5
<1> HIDE DEF cut
<1>5. \A i \in 1..Len(t) : cut[i] = t[i]
  <2> SUFFICES ASSUME NEW i \in 1..Len(t) PROVE cut[i] = t[i]
    OBVIOUS
  <2>1. Len(s) + i \in 1..(Len(s) + Len(t)) /\ ~(Len(s) + i <= Len(s))
        /\ (Len(s) + i) - Len(s) = i
    BY <1>2
  <2> QED
    BY <1>1, <1>4, <2>1
<1>6. cut = t
  BY <1>4, <1>5, SeqEqual
<1>7. \A i \in 1..Len(s) : all[i] = s[i]
  BY <1>1, <1>2
<1> QED
  BY <1>1, <1>2, <1>6, <1>7 DEF all, cut

-------------------------------------------------------------------------------
(* pop<T>() gives back the integer that was pushed with the same type.       *)
THEOREM IntegersComeBack ==
  ASSUME NEW V, NEW type \in IntTypes, NEW v \in V, NEW rest \in Seq(Fields(V))
  PROVE  PopInt(type, PushInt(type, v) \o rest) = Popped(v, rest)
<1>1. Width[type] \in Nat
  BY DEF Width, IntTypes
<1> DEFINE f == Field(Width[type], v)
<1>2. f \in Fields(V) /\ f.width = Width[type] /\ f.value = v
  BY <1>1 DEF Field, Fields
<1> HIDE DEF f
<1> DEFINE buffer == <<f>> \o rest
<1>3. buffer = (<<f>> \o <<>>) \o rest /\ rest = <<>> \o rest /\ <<>> \in Seq(Fields(V))
  BY <1>2, ConcatEmptySeq, EmptySeq
<1>4. PushInt(type, v) \o rest = buffer
  BY DEF PushInt, f
<1> HIDE DEF buffer
<1>5. Len(buffer) = 1 + Len(rest) /\ Len(rest) \in Nat /\ buffer[1] = f /\ Head(buffer) = f
  BY <1>2, <1>3, FirstField
<1>6. Tail(buffer) = rest
  BY <1>2, <1>3, FirstField
<1>7. Holds(buffer, 1, Width[type])
  BY <1>2, <1>5 DEF Holds
<1> QED
  BY <1>2, <1>4, <1>5, <1>6, <1>7 DEF PopInt

(* The values of the first fields of a block, in front of others.            *)
LEMMA FirstValues ==
  ASSUME NEW V, NEW s \in Seq(Fields(V)), NEW t \in Seq(Fields(V)), NEW n \in 0..Len(s)
  PROVE  /\ Values(SubSeq(s \o t, 1, n)) \in Seq(V)
         /\ Len(Values(SubSeq(s \o t, 1, n))) = n
         /\ \A i \in 1..n : Values(SubSeq(s \o t, 1, n))[i] = s[i].value
<1> DEFINE all == s \o t
           cut == SubSeq(all, 1, n)
<1>1. /\ all \in Seq(Fields(V)) /\ Len(all) \in Nat /\ Len(s) \in Nat /\ Len(s) <= Len(all)
      /\ \A i \in 1..Len(s) : all[i] = s[i]
  BY AfterBlock, ConcatProperties
<1> HIDE DEF all
<1>2. n \in Nat /\ n <= Len(s)
  BY <1>1
<1>3. \A i \in 1..n : all[i] = s[i] /\ s[i] \in Fields(V)
  BY <1>1, <1>2, ElementOfSeq
<1>4. /\ cut \in Seq(Fields(V)) /\ Len(cut) = n
      /\ \A i \in 1..n : cut[i] = s[i]
  <2>1. /\ cut \in Seq(Fields(V))
        /\ Len(cut) = IF 1 <= n THEN n - 1 + 1 ELSE 0
        /\ \A i \in 1..(n - 1 + 1) : cut[i] = all[1 + i - 1]
    BY <1>2, <1>3, SubSeqProperties
  <2> HIDE DEF cut
  <2>2. Len(cut) = n /\ n - 1 + 1 = n
    BY <1>2, <2>1
  <2>3. \A i \in 1..n : cut[i] = s[i]
    <3> SUFFICES ASSUME NEW i \in 1..n PROVE cut[i] = s[i]
      OBVIOUS
    <3>1. 1 + i - 1 = i
      OBVIOUS
    <3> QED
      BY <1>3, <2>1, <2>2, <3>1
  <2> QED
    BY <2>1, <2>2, <2>3
<1> HIDE DEF cut
<1>5. DOMAIN cut = 1..n
  BY <1>4, LenProperties
<1>6. Values(cut) = [i \in 1..n |-> s[i].value]
  BY <1>4, <1>5 DEF Values
<1>7. \A i \in 1..n : s[i].value \in V
  BY <1>3 DEF Fields
<1>8. [i \in 1..n |-> s[i].value] \in Seq(V) /\ Len([i \in 1..n |-> s[i].value]) = n
  BY <1>2, <1>7, LenProperties
<1> QED
  BY <1>6, <1>8 DEF cut, all

(* The first units of a string, all but the last of them for its characters. *)
FirstUnits(chars, n) ==
  [chars |-> IF n = 0 THEN <<>> ELSE SubSeq(chars, 1, n - 1), num_chars |-> n]

(* A string with any count up to that of its units and its terminator:       *)
(* pop<String> takes as many units as push has written.                      *)
LEMMA StringsPop ==
  ASSUME NEW V, Nat \subseteq V, NEW chars \in Seq(Nat), NEW n \in 0..(Len(chars) + 1),
         NEW rest \in Seq(Fields(V))
  PROVE  LET s      == [chars |-> chars, num_chars |-> n]
             popped == PopString(PushString(s) \o rest)
         IN  popped = Popped(FirstUnits(chars, n), rest)
<1> DEFINE units == Units(chars, n)
           tail == units \o rest
           count == Field(1, n)
           buffer == (<<count>> \o units) \o rest
<1>1. Len(chars) \in Nat /\ n \in Nat /\ n <= Len(chars) + 1 /\ n \in V /\ NUL \in Nat
  BY LenProperties DEF NUL
<1>2. \A i \in 1..n : (chars \o <<NUL>>)[i] \in Nat
                     /\ (i <= Len(chars) => (chars \o <<NUL>>)[i] = chars[i])
  <2>1. <<NUL>> \in Seq(Nat) /\ Len(<<NUL>>) = 1
    BY <1>1
  <2>2. /\ chars \o <<NUL>> \in Seq(Nat) /\ Len(chars \o <<NUL>>) = Len(chars) + 1
        /\ \A i \in 1..(Len(chars) + 1) :
             (chars \o <<NUL>>)[i] = IF i <= Len(chars) THEN chars[i] ELSE <<NUL>>[i - Len(chars)]
    BY <2>1, ConcatProperties
  <2> QED
    BY <1>1, <2>2, ElementOfSeq
<1>3. /\ units \in Seq(Fields(V)) /\ Len(units) = n
      /\ \A i \in 1..n : units[i].width = 2 /\ units[i].value = (chars \o <<NUL>>)[i]
  <2>1. \A i \in 1..n : Field(2, (chars \o <<NUL>>)[i]) \in Fields(V)
    BY <1>2 DEF Field, Fields
  <2>2. units = [i \in 1..n |-> Field(2, (chars \o <<NUL>>)[i])]
    BY DEF Units
  <2>3. units \in Seq(Fields(V)) /\ Len(units) = n
    BY <1>1, <2>1, <2>2, LenProperties
  <2>4. \A i \in 1..n : units[i] = Field(2, (chars \o <<NUL>>)[i])
    BY <2>2
  <2> QED
    BY <2>3, <2>4 DEF Field
<1> HIDE DEF units
<1> HIDE DEF count
<1>4. Holds(buffer, 1, 1) /\ Head(buffer).value = n /\ Tail(buffer) = tail
  <2>1. count \in Fields(V) /\ count.width = 1 /\ count.value = n
    BY <1>1 DEF count, Field, Fields
  <2>2. buffer = (<<count>> \o units) \o rest /\ tail = units \o rest
    OBVIOUS
  <2> HIDE DEF buffer, tail
  <2>3. Len(buffer) = 1 + Len(tail) /\ Len(tail) \in Nat
    BY <1>3, <2>1, <2>2, FirstField
  <2>4. buffer[1] = count /\ Head(buffer) = count
    BY <1>3, <2>1, <2>2, FirstField
  <2>5. Tail(buffer) = tail
    BY <1>3, <2>1, <2>2, FirstField
  <2>6. Holds(buffer, 1, 1)
    BY <2>1, <2>3, <2>4 DEF Holds
  <2> QED
    BY <2>1, <2>4, <2>5, <2>6
<1>5. /\ Len(tail) \in Nat /\ n <= Len(tail)
      /\ \A i \in 1..n : tail[i] = units[i]
      /\ SubSeq(tail, n + 1, Len(tail)) = rest
  BY <1>3, AfterBlock
<1>6. Holds(tail, n, 2)
  BY <1>3, <1>5 DEF Holds
<1>7. PushString([chars |-> chars, num_chars |-> n]) \o rest = buffer
  BY DEF PushString, units, count
<1>8. PopString(buffer) = Popped(StringOf(n, tail), rest)
  BY <1>4, <1>5, <1>6 DEF PopString
<1>9. n # 0 => Values(SubSeq(tail, 1, n - 1)) = SubSeq(chars, 1, n - 1)
  <2> SUFFICES ASSUME n # 0 PROVE Values(SubSeq(tail, 1, n - 1)) = SubSeq(chars, 1, n - 1)
    OBVIOUS
  <2>1. n - 1 \in Nat /\ n - 1 <= Len(chars) /\ n - 1 \in 0..Len(units)
    BY <1>1, <1>3
  <2> DEFINE read == Values(SubSeq(tail, 1, n - 1))
             first == SubSeq(chars, 1, n - 1)
  <2>2. /\ read \in Seq(V) /\ Len(read) = n - 1
        /\ \A i \in 1..(n - 1) : read[i] = units[i].value
    <3> DEFINE k == n - 1
    <3>1. k \in 0..Len(units) /\ units \in Seq(Fields(V))
      BY <1>3, <2>1
    <3> HIDE DEF k
    <3>2. /\ Values(SubSeq(units \o rest, 1, k)) \in Seq(V)
          /\ Len(Values(SubSeq(units \o rest, 1, k))) = k
          /\ \A i \in 1..k : Values(SubSeq(units \o rest, 1, k))[i] = units[i].value
      BY <3>1, FirstValues
    <3> QED
      BY <3>2 DEF k
  <2>3. /\ first \in Seq(V) /\ Len(first) = n - 1
        /\ \A i \in 1..(n - 1) : first[i] = chars[i]
    <3>1. \A i \in 1..(n - 1) : chars[i] \in V
      <4>1. \A i \in 1..(n - 1) : i \in 1..Len(chars)
        BY <1>1, <2>1
      <4>2. chars \in [1..Len(chars) -> V]
        BY ElementOfSeq
      <4> QED
        BY ONLY <4>1, <4>2
    <3>2. /\ first \in Seq(V)
          /\ Len(first) = IF 1 <= n - 1 THEN (n - 1) - 1 + 1 ELSE 0
          /\ \A i \in 1..((n - 1) - 1 + 1) : first[i] = chars[1 + i - 1]
      BY <2>1, <3>1, SubSeqProperties
    <3> HIDE DEF first
    <3>3. (n - 1) - 1 + 1 = n - 1 /\ \A i \in 1..(n - 1) : 1 + i - 1 = i
      BY <2>1
    <3>4. Len(first) = n - 1
      BY <2>1, <3>2
    <3>5. ASSUME NEW i \in 1..(n - 1) PROVE first[i] = chars[i]
      BY <3>2, <3>3
    <3> QED
      BY <3>2, <3>4, <3>5
  <2> HIDE DEF read, first
  <2>4. \A i \in 1..(n - 1) : read[i] = first[i]
    <3>1. \A i \in 1..(n - 1) : i \in 1..n /\ i <= Len(chars)
      BY <1>1, <2>1
    <3> QED
      BY <1>2, <1>3, <2>2, <2>3, <3>1
  <2>5. read = first
    BY <2>2, <2>3, <2>4, SeqEqual
  <2> QED
    BY <2>5 DEF read, first
<1>10. StringOf(n, tail) = FirstUnits(chars, n)
  BY <1>9 DEF StringOf, FirstUnits
<1> HIDE DEF buffer, tail
<1> QED
  BY <1>7, <1>8, <1>10, Zenon

(* What is pushed are fields.                                                *)
LEMMA StringFields ==
  ASSUME NEW V, Nat \subseteq V, NEW chars \in Seq(Nat), NEW n \in 0..(Len(chars) + 1)
  PROVE  PushString([chars |-> chars, num_chars |-> n]) \in Seq(Fields(V))
<1> DEFINE all == chars \o <<NUL>>
           units == [i \in 1..n |-> Field(2, all[i])]
<1>1. Len(chars) \in Nat /\ n \in Nat /\ NUL \in Nat
  BY LenProperties DEF NUL
<1>2. all \in Seq(Nat) /\ Len(all) = Len(chars) + 1
  <2>1. <<NUL>> \in Seq(Nat) /\ Len(<<NUL>>) = 1
    BY <1>1
  <2> QED
    BY <2>1, ConcatProperties
<1> HIDE DEF all
<1>3. \A i \in 1..n : all[i] \in V
  <2>1. \A i \in 1..n : i \in 1..Len(all)
    BY <1>1, <1>2
  <2> QED
    BY <1>2, <2>1, ElementOfSeq
<1>4. units \in Seq(Fields(V))
  <2>1. \A i \in 1..n : Field(2, all[i]) \in Fields(V)
    BY <1>3 DEF Field, Fields
  <2> QED
    BY <1>1, <2>1, LenProperties
<1>5. <<Field(1, n)>> \in Seq(Fields(V))
  <2>1. Field(1, n) \in Fields(V)
    BY <1>1 DEF Field, Fields
  <2> QED
    BY <2>1
<1>6. PushString([chars |-> chars, num_chars |-> n]) = <<Field(1, n)>> \o units
  BY DEF PushString, Units, all
<1> HIDE DEF units
<1> QED
  BY <1>4, <1>5, <1>6, ConcatProperties

(* All of them, if the count is theirs.                                      *)
LEMMA AllUnits ==
  ASSUME NEW chars \in Seq(Nat)
  PROVE  FirstUnits(chars, Len(chars) + 1) = [chars |-> chars, num_chars |-> Len(chars) + 1]
<1>1. Len(chars) \in Nat
  BY LenProperties
<1>2. Len(chars) + 1 # 0 /\ Len(chars) + 1 - 1 = Len(chars)
  BY <1>1
<1>3. SubSeq(chars, 1, Len(chars)) = chars
  BY SubSeqFull
<1> QED
  BY <1>2, <1>3 DEF FirstUnits

(* A string whose count was not cut comes back as it was pushed.             *)
THEOREM StringsComeBack ==
  ASSUME NEW V, Nat \subseteq V, NEW chars \in Seq(Nat), Fits(chars),
         NEW rest \in Seq(Fields(V))
  PROVE  LET popped == PopString(PushString(MakeString(chars)) \o rest)
         IN  popped.value.chars = chars /\ popped.rest = rest
<1> DEFINE n == Len(chars) + 1
<1>1. Len(chars) \in Nat
  BY LenProperties
<1>2. n % ByteSize = n
  BY <1>1, CodecAssumption DEF Fits
<1>3. n \in 0..(Len(chars) + 1)
  BY <1>1
<1>4. FirstUnits(chars, n).chars = chars
  <2>1. FirstUnits(chars, n) = [chars |-> chars, num_chars |-> n]
    BY AllUnits
  <2> QED
    BY <2>1
<1>5. MakeString(chars) = [chars |-> chars, num_chars |-> n]
  BY <1>2 DEF MakeString
<1> HIDE DEF n
<1>6. PopString(PushString(MakeString(chars)) \o rest) = Popped(FirstUnits(chars, n), rest)
  BY <1>3, <1>5, StringsPop
<1> QED
  BY <1>4, <1>6 DEF Popped

(* Whatever its length, a string leaves what follows it where pop looks for  *)
(* it: the eight-bit count is wrong for its reader, not for the next.        *)
THEOREM StringsAlign ==
  ASSUME NEW V, Nat \subseteq V, NEW chars \in Seq(Nat), NEW rest \in Seq(Fields(V))
  PROVE  PopString(PushString(MakeString(chars)) \o rest).rest = rest
<1> DEFINE n == (Len(chars) + 1) % ByteSize
<1>1. Len(chars) \in Nat
  BY LenProperties
<1>2. n \in 0..(Len(chars) + 1)
  BY <1>1, CodecAssumption
<1>3. MakeString(chars) = [chars |-> chars, num_chars |-> n]
  BY DEF MakeString
<1> HIDE DEF n
<1>4. PopString(PushString(MakeString(chars)) \o rest) = Popped(FirstUnits(chars, n), rest)
  BY <1>2, <1>3, StringsPop
<1> QED
  BY <1>4 DEF Popped

(* An array comes back as it was pushed.                                     *)
THEOREM ArraysComeBack ==
  ASSUME NEW V, Nat \subseteq V, NEW type \in IntTypes, NEW elements \in Seq(V),
         NEW rest \in Seq(Fields(V))
  PROVE  PopArray(type, PushArray(type, elements) \o rest) = Popped(elements, rest)
<1> DEFINE n == Len(elements)
           w == Width[type]
           block == [i \in DOMAIN elements |-> Field(w, elements[i])]
           tail == block \o rest
           count == Field(4, n)
           buffer == (<<count>> \o block) \o rest
<1>1. n \in Nat /\ n \in V /\ w \in Nat /\ DOMAIN elements = 1..n
  BY LenProperties DEF Width, IntTypes
<1>2. \A i \in 1..n : elements[i] \in V
  BY ElementOfSeq
<1> HIDE DEF n, w
<1>3. /\ block \in Seq(Fields(V)) /\ Len(block) = n
      /\ \A i \in 1..n : block[i].width = w /\ block[i].value = elements[i]
  <2>1. block = [i \in 1..n |-> Field(w, elements[i])]
    BY <1>1
  <2>2. \A i \in 1..n : Field(w, elements[i]) \in Fields(V)
    BY <1>1, <1>2 DEF Field, Fields
  <2>3. block \in Seq(Fields(V)) /\ Len(block) = n
    BY <1>1, <2>1, <2>2, LenProperties
  <2>4. \A i \in 1..n : block[i] = Field(w, elements[i])
    BY <2>1
  <2> QED
    BY <2>3, <2>4 DEF Field
<1> HIDE DEF block
<1> HIDE DEF count
<1>4. Holds(buffer, 1, 4) /\ Head(buffer).value = n /\ Tail(buffer) = tail
  <2>1. count \in Fields(V) /\ count.width = 4 /\ count.value = n
    BY <1>1 DEF count, Field, Fields
  <2>2. buffer = (<<count>> \o block) \o rest /\ tail = block \o rest
    OBVIOUS
  <2> HIDE DEF buffer, tail
  <2>3. Len(buffer) = 1 + Len(tail) /\ Len(tail) \in Nat
    BY <1>3, <2>1, <2>2, FirstField
  <2>4. buffer[1] = count /\ Head(buffer) = count
    BY <1>3, <2>1, <2>2, FirstField
  <2>5. Tail(buffer) = tail
    BY <1>3, <2>1, <2>2, FirstField
  <2>6. Holds(buffer, 1, 4)
    BY <2>1, <2>3, <2>4 DEF Holds
  <2> QED
    BY <2>1, <2>4, <2>5, <2>6
<1>5. /\ Len(tail) \in Nat /\ n <= Len(tail)
      /\ \A i \in 1..n : tail[i] = block[i]
      /\ SubSeq(tail, n + 1, Len(tail)) = rest
  BY <1>3, AfterBlock
<1>6. Holds(tail, n, w)
  BY <1>3, <1>5 DEF Holds
<1>7. Values(SubSeq(tail, 1, n)) = elements
  <2> DEFINE read == Values(SubSeq(tail, 1, n))
  <2>1. /\ read \in Seq(V) /\ Len(read) = n
        /\ \A i \in 1..n : read[i] = block[i].value
    BY <1>1, <1>3, FirstValues
  <2> HIDE DEF read
  <2>2. read = elements
    BY <1>3, <2>1, SeqEqual DEF n
  <2> QED
    BY <2>2 DEF read
<1>8. PushArray(type, elements) \o rest = buffer
  BY DEF PushArray, block, n, w, count
<1>9. PopArray(type, buffer) = Popped(elements, rest)
  BY <1>4, <1>5, <1>6, <1>7 DEF PopArray, w
<1> QED
  BY <1>8, <1>9
===============================================================================
