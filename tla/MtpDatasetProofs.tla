---------------------------- MODULE MtpDatasetProofs ----------------------------
(***************************************************************************)
(* Theorems about MtpDataset: the datasets that are pushed are the ones    *)
(* that are read, for names, objects and lists of any length.              *)
(* Induction is on sets of numbers, as in NumberProofs.                    *)
(***************************************************************************)
EXTENDS MtpDataset, MtpCodecProofs, NumberProofs

-------------------------------------------------------------------------------
(* For each number of blocks, what they make together.                       *)
Flattens(f, F, n, blocks) ==
  /\ f \in [1..n -> Seq(F)]
  /\ f[1] = blocks[1]
  /\ \A i \in 2..n : f[i] = f[i - 1] \o blocks[i]
  /\ FlattenSeq(blocks) = f[n]

(* These are the values of the recursion of the library's FlattenSeq.        *)
LEMMA Flattened ==
  ASSUME NEW F, NEW n \in Nat \ {0}, NEW blocks \in [1..n -> Seq(F)]
  PROVE  \E f : Flattens(f, F, n, blocks)
<1> DEFINE Made1(f) == f = [i \in 1..n |-> IF i = 1 THEN blocks[i]
                                           ELSE f[i - 1] \o blocks[i]]
<1>1. \E g \in [0..n -> Seq(F)] :
        g[0] = <<>> /\ \A k \in 1..n : g[k] = g[k - 1] \o blocks[k]
  <2> DEFINE A == Seq(F)
             step == [p \in (1..n) \X A |-> p[2] \o blocks[p[1]]]
  <2>1. step \in [(1..n) \X A -> A]
    <3>1. ASSUME NEW p \in (1..n) \X A PROVE p[2] \o blocks[p[1]] \in A
      BY ConcatProperties
    <3> QED
      BY <3>1
  <2>2. \A k \in 1..n, s \in A : step[<<k, s>>] = s \o blocks[k]
    OBVIOUS
  <2>3. <<>> \in A /\ n \in Nat
    OBVIOUS
  <2> DEFINE none == <<>>
  <2> HIDE DEF step, A, none
  <2>r. \E g : Recurs(g, A, n, none, step)
    <3>1. none \in A
      BY <2>3 DEF none
    <3> QED
      BY <2>1, <2>3, <3>1, Recursion
  <2>4. PICK g \in [0..n -> A] :
          g[0] = <<>> /\ \A k \in 1..n : g[k] = step[<<k, g[k - 1]>>]
    BY <2>r DEF none, Recurs
  <2>5. \A k \in 1..n : g[k - 1] \in A
    OBVIOUS
  <2>6. \A k \in 1..n : g[k] = g[k - 1] \o blocks[k]
    BY <2>2, <2>4, <2>5
  <2> QED
    BY <2>4, <2>6 DEF A
<1>p. PICK g \in [0..n -> Seq(F)] :
        g[0] = <<>> /\ \A k \in 1..n : g[k] = g[k - 1] \o blocks[k]
  BY <1>1
<1>o. g[1] = blocks[1] /\ 1 \in 1..n
  <2>1. 1 \in 1..n /\ 1 - 1 = 0
    OBVIOUS
  <2>2. g[1] = <<>> \o blocks[1] /\ blocks[1] \in Seq(F)
    BY <1>p, <2>1
  <2> QED
    BY <2>1, <2>2, ConcatEmptySeq
<1>2. \E f : Made1(f)
  <2> DEFINE f == [i \in 1..n |-> g[i]]
  <2>1. ASSUME NEW i \in 1..n PROVE f[i] = IF i = 1 THEN blocks[i] ELSE f[i - 1] \o blocks[i]
    <3>1. CASE i = 1
      BY <1>o, <3>1
    <3>2. CASE i # 1
      <4>1. i - 1 \in 1..n
        BY <3>2
      <4> QED
        BY <1>p, <3>2, <4>1
    <3> QED
      BY <3>1, <3>2
  <2>2. f = [i \in 1..n |-> f[i]]
    OBVIOUS
  <2> HIDE DEF f
  <2>3. Made1(f)
    BY <2>1, <2>2
  <2> HIDE DEF Made1
  <2> QED
    BY <2>3
<1> DEFINE f == CHOOSE h : Made1(h)
<1>3. Made1(f)
  <2> HIDE DEF Made1
  <2> QED
    BY <1>2
<1>4. Len(blocks) = n
  BY LenProperties
<1>5. FlattenSeq(blocks) = f[n]
  BY <1>4 DEF FlattenSeq
<1> HIDE DEF f
<1>6. f[1] = blocks[1] /\ \A i \in 2..n : f[i] = f[i - 1] \o blocks[i]
  <2>1. \A i \in 1..n : f[i] = IF i = 1 THEN blocks[i] ELSE f[i - 1] \o blocks[i]
    BY <1>3
  <2>2. \A i \in 2..n : i \in 1..n /\ i # 1
    OBVIOUS
  <2>3. 1 \in 1..n
    OBVIOUS
  <2> QED
    BY <2>1, <2>2, <2>3
<1>7. \A i \in 1..n : f[i] = g[i]
  <2> DEFINE S == {i \in 0..n : i = 0 \/ f[i] = g[i]}
  <2>1. 0 \in S
    OBVIOUS
  <2>2. ASSUME NEW k \in 1..n, k - 1 \in S PROVE k \in S
    <3>1. CASE k = 1
      BY <1>o, <1>6, <3>1
    <3>2. CASE k # 1
      <4>1. k \in 2..n /\ k - 1 # 0
        BY <3>2
      <4>2. f[k - 1] = g[k - 1]
        BY <2>2, <4>1
      <4>3. f[k] = f[k - 1] \o blocks[k] /\ g[k] = g[k - 1] \o blocks[k]
        BY <1>p, <1>6, <4>1
      <4>4. f[k] = g[k]
        BY <4>2, <4>3
      <4> QED
        BY <4>4
    <3> QED
      BY <3>1, <3>2
  <2> HIDE DEF S
  <2>3. 0..n \subseteq S
    BY <2>1, <2>2, UpTo
  <2> QED
    BY <2>3 DEF S
<1>8. f \in [1..n -> Seq(F)]
  <2>1. f = [i \in 1..n |-> f[i]]
    BY <1>3
  <2>2. \A i \in 1..n : f[i] \in Seq(F)
    BY <1>7
  <2> QED
    BY <2>1, <2>2
<1>9. Flattens(f, F, n, blocks)
  BY <1>5, <1>6, <1>8 DEF Flattens
<1> QED
  BY <1>9

(* No blocks make nothing.                                                   *)
LEMMA FlattenedNone ==
  ASSUME NEW F, NEW blocks \in [1..0 -> Seq(F)]
  PROVE  FlattenSeq(blocks) = <<>> /\ blocks = <<>>
<1>1. blocks \in Seq(Seq(F)) /\ Len(blocks) = 0
  BY LenProperties
<1>2. blocks = <<>>
  BY <1>1, EmptySeq
<1> QED
  BY <1>1, <1>2 DEF FlattenSeq

(* Blocks make a sequence.                                                   *)
LEMMA FlattenedType ==
  ASSUME NEW F, NEW n \in Nat, NEW blocks \in [1..n -> Seq(F)]
  PROVE  FlattenSeq(blocks) \in Seq(F)
<1>1. CASE n = 0
  <2>1. blocks \in [1..0 -> Seq(F)]
    BY <1>1
  <2> QED
    BY <2>1, FlattenedNone, EmptySeq
<1>2. CASE n # 0
  <2>1. n \in Nat \ {0} /\ n \in 1..n
    BY <1>2
  <2>2. PICK f : Flattens(f, F, n, blocks)
    BY <2>1, Flattened
  <2> QED
    BY <2>1, <2>2 DEF Flattens
<1> QED
  BY <1>1, <1>2

(* What there is left of blocks, and of what follows them, after each.       *)
IsChain(r, F, n, blocks, rest) ==
  /\ r \in [0..n -> Seq(F)]
  /\ r[n] = rest
  /\ \A k \in 1..n : r[k - 1] = blocks[k] \o r[k]
  /\ r[0] = FlattenSeq(blocks) \o rest

(* Blocks and what follows them can be taken apart from the front.           *)
LEMMA FlattenedChain ==
  ASSUME NEW F, NEW n \in Nat, NEW blocks \in [1..n -> Seq(F)], NEW rest \in Seq(F)
  PROVE  \E r : IsChain(r, F, n, blocks, rest)
<1>1. PICK r \in [0..n -> Seq(F)] :
        r[n] = rest /\ \A k \in 1..n : r[k - 1] = blocks[k] \o r[k]
  <2> DEFINE A == Seq(F)
             step == [p \in (1..n) \X A |-> blocks[n - p[1] + 1] \o p[2]]
  <2>1. step \in [(1..n) \X A -> A]
    <3>1. ASSUME NEW p \in (1..n) \X A PROVE blocks[n - p[1] + 1] \o p[2] \in A
      <4>1. p[1] \in 1..n /\ p[2] \in A
        OBVIOUS
      <4>2. n - p[1] + 1 \in 1..n
        BY <4>1
      <4> QED
        BY <4>1, <4>2, ConcatProperties
    <3> QED
      BY <3>1
  <2>2. \A k \in 1..n, s \in A : step[<<k, s>>] = blocks[n - k + 1] \o s
    OBVIOUS
  <2>3. rest \in A
    OBVIOUS
  <2> HIDE DEF step, A
  <2>4. PICK q : Recurs(q, A, n, rest, step)
    BY <2>1, <2>3, Recursion
  <2>5. q \in [0..n -> A] /\ q[0] = rest /\ \A k \in 1..n : q[k] = step[<<k, q[k - 1]>>]
    BY <2>4 DEF Recurs
  <2> DEFINE r == [k \in 0..n |-> q[n - k]]
  <2>6. r \in [0..n -> A]
    <3>1. \A k \in 0..n : n - k \in 0..n
      OBVIOUS
    <3> QED
      BY <2>5, <3>1
  <2>7. r[n] = rest
    <3>1. n \in 0..n /\ n - n = 0
      OBVIOUS
    <3> QED
      BY <2>5, <3>1
  <2>8. ASSUME NEW k \in 1..n PROVE r[k - 1] = blocks[k] \o r[k]
    <3> DEFINE j == n - (k - 1)
    <3>1. k - 1 \in 0..n /\ k \in 0..n /\ j \in 1..n /\ j - 1 = n - k /\ n - j + 1 = k
          /\ j - 1 \in 0..n
      OBVIOUS
    <3>2. r[k - 1] = q[j] /\ r[k] = q[n - k]
      BY <3>1
    <3> HIDE DEF j, r
    <3>3. q[j] = step[<<j, q[j - 1]>>] /\ q[j - 1] \in A
      BY <2>5, <3>1
    <3>4. step[<<j, q[j - 1]>>] = blocks[n - j + 1] \o q[j - 1]
      BY <2>2, <3>1, <3>3
    <3> QED
      BY <3>1, <3>2, <3>3, <3>4
  <2> HIDE DEF r
  <2> QED
    BY <2>6, <2>7, <2>8 DEF A
<1>2. r[0] = FlattenSeq(blocks) \o rest
  <2>1. CASE n = 0
    <3>1. blocks \in [1..0 -> Seq(F)]
      BY <2>1
    <3>2. FlattenSeq(blocks) = <<>>
      BY <3>1, FlattenedNone
    <3>3. <<>> \o rest = rest
      BY ConcatEmptySeq
    <3> QED
      BY <1>1, <2>1, <3>2, <3>3
  <2>2. CASE n # 0
    <3>1. n \in Nat \ {0} /\ 1 \in 1..n /\ 1 - 1 = 0 /\ n \in 1..n
      BY <2>2
    <3>0. PICK f : Flattens(f, F, n, blocks)
      BY <3>1, Flattened
    <3>2. /\ f \in [1..n -> Seq(F)]
          /\ f[1] = blocks[1]
          /\ \A i \in 2..n : f[i] = f[i - 1] \o blocks[i]
          /\ FlattenSeq(blocks) = f[n]
      BY <3>0 DEF Flattens
    <3> DEFINE Whole(k) == f[k] \o r[k] = r[0]
               S == {k \in 0..n : k = 0 \/ Whole(k)}
    <3>3. 0 \in S
      OBVIOUS
    <3>4. ASSUME NEW k \in 1..n, k - 1 \in S PROVE k \in S
      <4>1. CASE k = 1
        <5>1. Whole(k) /\ k \in 0..n
          BY <1>1, <3>1, <3>2, <4>1
        <5> HIDE DEF Whole
        <5> QED
          BY <5>1
      <4>2. CASE k # 1
        <5>1. k \in 2..n /\ k - 1 # 0 /\ k - 1 \in 1..n /\ k - 1 \in 0..n /\ k \in 0..n
          BY <4>2
        <5>2. Whole(k - 1)
          <6> HIDE DEF Whole
          <6> QED
            BY <3>4, <5>1
        <5> DEFINE a == f[k - 1]
                   b == blocks[k]
                   c == r[k]
        <5>3. a \in Seq(F) /\ b \in Seq(F) /\ c \in Seq(F)
          BY <1>1, <3>2, <5>1
        <5>5. f[k] = a \o b /\ r[k - 1] = b \o c
          BY <1>1, <3>2, <5>1
        <5>6. a \o r[k - 1] = r[0]
          BY <5>2
        <5>7. c = r[k]
          OBVIOUS
        <5> HIDE DEF a, b, c
        <5>4. (a \o b) \o c = a \o (b \o c)
          BY <5>3, ConcatAssociative, SMTT(30)
        <5>8. Whole(k)
          BY <5>4, <5>5, <5>6, <5>7
        <5> HIDE DEF Whole
        <5> QED
          BY <5>1, <5>8
      <4> QED
        BY <4>1, <4>2
    <3> HIDE DEF S
    <3>5. 0..n \subseteq S
      BY <3>3, <3>4, UpTo
    <3>6. f[n] \o r[n] = r[0]
      BY <3>1, <3>5 DEF S
    <3> QED
      BY <1>1, <3>2, <3>6
  <2> QED
    BY <2>1, <2>2
<1>3. IsChain(r, F, n, blocks, rest)
  BY <1>1, <1>2 DEF IsChain
<1> QED
  BY <1>3

-------------------------------------------------------------------------------
(* A block is read as a value of this type, whatever comes after it.         *)
Reads(F, type, block, value) ==
  /\ block \in Seq(F)
  /\ \A rest \in Seq(F) : ReadOne(type, block \o rest) = Popped(value, rest)

(* A dataset is read as these values, and what follows it is left.           *)
IsDataset(F, types, dataset, values) ==
  /\ dataset \in Seq(F)
  /\ \A rest \in Seq(F) : Read(types, dataset \o rest) = Popped(values, rest)

(* The first values, and one more.                                           *)
LEMMA OneMoreValue ==
  ASSUME NEW V, NEW n \in Nat, NEW values \in [1..n -> V], NEW k \in 1..n
  PROVE  Append([i \in 1..(k - 1) |-> values[i]], values[k]) = [i \in 1..k |-> values[i]]
<1> DEFINE pre == [i \in 1..(k - 1) |-> values[i]]
           all == [i \in 1..k |-> values[i]]
<1>1. k \in Nat /\ k - 1 \in Nat
  OBVIOUS
<1>2. \A i \in 1..k : values[i] \in V
  BY <1>1
<1>3. pre \in Seq(V) /\ Len(pre) = k - 1
  <2>1. \A i \in 1..(k - 1) : values[i] \in V
    BY <1>1
  <2> QED
    BY <1>1, <2>1, LenProperties
<1>4. all \in Seq(V) /\ Len(all) = k
  BY <1>1, <1>2, LenProperties
<1>5. values[k] \in V
  BY <1>1, <1>2
<1>6. \A i \in 1..(k - 1) : pre[i] = values[i]
  OBVIOUS
<1>7. \A i \in 1..k : all[i] = values[i]
  OBVIOUS
<1> HIDE DEF pre, all
<1> DEFINE more == Append(pre, values[k])
<1>8. /\ more \in Seq(V) /\ Len(more) = Len(pre) + 1
      /\ \A i \in 1..Len(pre) : more[i] = pre[i]
      /\ more[Len(pre) + 1] = values[k]
  BY <1>3, <1>5, AppendProperties
<1> HIDE DEF more
<1>9. Len(more) = k
  BY <1>1, <1>3, <1>8
<1>10. \A i \in 1..k : more[i] = all[i]
  <2> SUFFICES ASSUME NEW i \in 1..k PROVE more[i] = all[i]
    OBVIOUS
  <2>1. CASE i = k
    BY <1>1, <1>3, <1>7, <1>8, <2>1
  <2>2. CASE i # k
    <3>1. i \in 1..(k - 1)
      BY <1>1, <2>2
    <3> QED
      BY <1>3, <1>6, <1>7, <1>8, <3>1
  <2> QED
    BY <2>1, <2>2
<1>11. more = all
  BY <1>4, <1>8, <1>9, <1>10, SeqEqual
<1> QED
  BY <1>11 DEF more, pre, all

(* A dataset of any number of members is read member by member to its end by *)
(* whoever expects their types in their order: the values come back, and     *)
(* what follows the dataset is left.  (DataPacket's push and pop.)           *)
THEOREM DatasetsComeBack ==
  ASSUME NEW F, NEW T, NEW V, NEW n \in Nat,
         NEW types \in [1..n -> T], NEW blocks \in [1..n -> Seq(F)],
         NEW values \in [1..n -> V],
         \A i \in 1..n : Reads(F, types[i], blocks[i], values[i])
  PROVE  IsDataset(F, types, FlattenSeq(blocks), values)
<1>0. FlattenSeq(blocks) \in Seq(F)
  BY FlattenedType
<1> SUFFICES ASSUME NEW rest \in Seq(F)
             PROVE  Read(types, FlattenSeq(blocks) \o rest) = Popped(values, rest)
  BY <1>0 DEF IsDataset
<1>1. PICK r : IsChain(r, F, n, blocks, rest)
  BY FlattenedChain
<1> DEFINE buffer == FlattenSeq(blocks) \o rest
<1>2. /\ r \in [0..n -> Seq(F)] /\ r[n] = rest /\ r[0] = buffer
      /\ \A k \in 1..n : r[k - 1] = blocks[k] \o r[k]
  BY <1>1 DEF IsChain
<1> HIDE DEF buffer
<1> DEFINE First(k) == [i \in 1..k |-> values[i]]
           Start == Popped(<<>>, buffer)
           Goes(d) == d = [k \in 0..n |-> IF k = 0 THEN Start ELSE ReadNext(d[k - 1], types[k])]
           w == [k \in 0..n |-> Popped(First(k), r[k])]
<1>3. ASSUME NEW k \in 1..n
      PROVE  ReadNext(Popped(First(k - 1), r[k - 1]), types[k]) = Popped(First(k), r[k])
  <2>1. k \in 0..n /\ k - 1 \in 0..n
    OBVIOUS
  <2>2. r[k - 1] = blocks[k] \o r[k] /\ r[k] \in Seq(F)
    BY <1>2, <2>1
  <2> DEFINE here == r[k]
             before == r[k - 1]
             type == types[k]
             block == blocks[k]
             value == values[k]
  <2>3. Reads(F, type, block, value)
    OBVIOUS
  <2>4. before = block \o here /\ here \in Seq(F)
    BY <2>2
  <2>5. Append(First(k - 1), value) = First(k)
    BY OneMoreValue
  <2> HIDE DEF here, before, type, block, value, First
  <2>6. ReadOne(type, before) = Popped(value, here)
    BY <2>3, <2>4 DEF Reads
  <2>7. ReadNext(Popped(First(k - 1), before), type) = Popped(Append(First(k - 1), value), here)
    <3> DEFINE p == Popped(First(k - 1), before)
               q == Popped(value, here)
    <3>1. p.rest = before /\ p.value = First(k - 1) /\ q.value = value /\ q.rest = here
      BY DEF Popped
    <3>2. ReadOne(type, before) = q
      BY <2>6
    <3> HIDE DEF p, q
    <3>3. ReadOne(type, p.rest) = q
      BY <3>1, <3>2
    <3>4. ReadNext(p, type) = Popped(Append(p.value, q.value), q.rest)
      BY <3>3 DEF ReadNext, Joined
    <3>5. ReadNext(p, type) = Popped(Append(First(k - 1), value), here)
      BY <3>1, <3>4
    <3> QED
      BY <3>5 DEF p
  <2> QED
    BY <2>5, <2>7 DEF here, before, type
<1>4. Popped(First(0), r[0]) = Start
  <2>1. First(0) = <<>>
    OBVIOUS
  <2> QED
    BY <1>2, <2>1
<1> HIDE DEF First, Start
<1>5. Goes(w)
  <2>1. ASSUME NEW k \in 0..n
        PROVE  w[k] = IF k = 0 THEN Start ELSE ReadNext(w[k - 1], types[k])
    <3>1. CASE k = 0
      BY <1>4, <3>1
    <3>2. CASE k # 0
      <4>1. k \in 1..n /\ k - 1 \in 0..n
        BY <3>2
      <4>2. w[k - 1] = Popped(First(k - 1), r[k - 1]) /\ w[k] = Popped(First(k), r[k])
        BY <4>1
      <4> HIDE DEF w
      <4> QED
        BY <1>3, <3>2, <4>1, <4>2
    <3> QED
      BY <3>1, <3>2
  <2>2. w = [k \in 0..n |-> w[k]]
    OBVIOUS
  <2> HIDE DEF w
  <2> QED
    BY <2>1, <2>2
<1> DEFINE d == CHOOSE h : Goes(h)
<1>6. Goes(d)
  <2> HIDE DEF Goes, w
  <2> QED
    BY <1>5
<1>7. Len(types) = n
  BY LenProperties
<1>8. Read(types, buffer) = d[n]
  BY <1>7 DEF Read, Start
<1> HIDE DEF d
<1>9. d[0] = Start /\ \A k \in 1..n : d[k] = ReadNext(d[k - 1], types[k])
  <2>1. \A k \in 0..n : d[k] = IF k = 0 THEN Start ELSE ReadNext(d[k - 1], types[k])
    BY <1>6
  <2>2. 0 \in 0..n /\ \A k \in 1..n : k \in 0..n /\ k # 0
    OBVIOUS
  <2> QED
    BY <2>1, <2>2
<1>10. d[n] = Popped(First(n), r[n])
  <2> DEFINE S == {k \in 0..n : d[k] = Popped(First(k), r[k])}
  <2>1. 0 \in S
    BY <1>4, <1>9
  <2>2. ASSUME NEW k \in 1..n, k - 1 \in S PROVE k \in S
    <3>1. d[k] = Popped(First(k), r[k])
      BY <1>3, <1>9, <2>2
    <3> QED
      BY <3>1
  <2> HIDE DEF S
  <2>3. 0..n \subseteq S
    BY <2>1, <2>2, UpTo
  <2> QED
    BY <2>3 DEF S
<1>11. First(n) = values
  BY DEF First
<1> QED
  BY <1>2, <1>8, <1>10, <1>11 DEF buffer

-------------------------------------------------------------------------------
(* A block is read as a value of this type, in an element of a list or not.  *)
IsValue(F, type, block, value) ==
  /\ type \in Types /\ block \in Seq(F)
  /\ \A rest \in Seq(F) : ReadValue(type, block \o rest) = Popped(value, rest)

(* Values can be read one after another.                                     *)
LEMMA ValuesRead ==
  ASSUME NEW F, NEW type, NEW block, NEW value, IsValue(F, type, block, value)
  PROVE  Reads(F, type, block, value)
<1>1. type # "ELEMENT"
  BY DEF IsValue, Types, IntTypes, Width
<1> QED
  BY <1>1 DEF IsValue, Reads, ReadOne

(* An integer is one.                                                        *)
LEMMA IntValue ==
  ASSUME NEW V, NEW type \in IntTypes, NEW v \in V
  PROVE  IsValue(Fields(V), type, PushInt(type, v), v)
<1> DEFINE F == Fields(V)
           block == PushInt(type, v)
<1>1. Field(Width[type], v) \in F
  BY DEF Field, Fields, Width, IntTypes
<1>2. block \in Seq(F)
  BY <1>1 DEF PushInt
<1>3. ASSUME NEW rest \in Seq(F) PROVE ReadValue(type, block \o rest) = Popped(v, rest)
  <2>1. PopInt(type, block \o rest) = Popped(v, rest)
    BY IntegersComeBack
  <2>2. ReadValue(type, block \o rest) = PopInt(type, block \o rest)
    <3> HIDE DEF block
    <3> QED
      BY DEF ReadValue, IntTypes, Width
  <2> QED
    BY <2>1, <2>2
<1>4. type \in Types
  BY DEF Types
<1> HIDE DEF F, block
<1>5. IsValue(F, type, block, v)
  BY <1>2, <1>3, <1>4 DEF IsValue
<1> QED
  BY <1>5 DEF F, block

(* Arrays are, of the two types the datasets have.                           *)
ElementType(type) == IF type = "AUINT16" THEN "UINT16" ELSE "UINT32"

(* An array of them is a value, whatever its elements.                       *)
LEMMA ArrayValue ==
  ASSUME NEW V, Nat \subseteq V, NEW type \in {"AUINT16", "AUINT32"},
         NEW elements \in Seq(V)
  PROVE  IsValue(Fields(V), type, PushArray(ElementType(type), elements), elements)
<1> DEFINE F == Fields(V)
           et == ElementType(type)
           block == PushArray(et, elements)
<1>1. et \in IntTypes /\ Width[et] \in Nat
  BY DEF ElementType, IntTypes, Width
<1> HIDE DEF et
<1>2. block \in Seq(F)
  <2> DEFINE count == <<Field(4, Len(elements))>>
             fields == [i \in DOMAIN elements |-> Field(Width[et], elements[i])]
  <2>1. Len(elements) \in Nat /\ DOMAIN elements = 1..Len(elements)
    BY LenProperties
  <2>2. \A i \in DOMAIN elements : Field(Width[et], elements[i]) \in F
    BY <1>1, <2>1, ElementOfSeq DEF Field, Fields
  <2>3. fields \in Seq(F)
    BY <2>1, <2>2, LenProperties
  <2>4. Field(4, Len(elements)) \in F
    BY <2>1 DEF Field, Fields
  <2>5. count \in Seq(F)
    BY <2>4
  <2>6. block = count \o fields
    BY DEF PushArray
  <2> HIDE DEF count, fields, block
  <2> QED
    BY <2>3, <2>5, <2>6, ConcatProperties
<1>3. ASSUME NEW rest \in Seq(F) PROVE ReadValue(type, block \o rest) = Popped(elements, rest)
  <2>1. PopArray(et, block \o rest) = Popped(elements, rest)
    BY <1>1, ArraysComeBack
  <2>2. ReadValue(type, block \o rest) = PopArray(et, block \o rest)
    <3> HIDE DEF block
    <3>1. type \notin IntTypes /\ type # "STR"
      BY DEF IntTypes, Width
    <3>2. CASE type = "AUINT16"
      BY <3>1, <3>2 DEF ReadValue, et, ElementType, IntTypes, Width
    <3>3. CASE type = "AUINT32"
      BY <3>1, <3>3 DEF ReadValue, et, ElementType, IntTypes, Width
    <3> QED
      BY <3>2, <3>3
  <2> QED
    BY <2>1, <2>2
<1>4. type \in Types
  BY DEF Types
<1> HIDE DEF F, block
<1>5. IsValue(F, type, block, elements)
  BY <1>2, <1>3, <1>4 DEF IsValue
<1> QED
  BY <1>5 DEF F, block, et

(* The strings of the program: none, or what MakeString makes.               *)
IsString(s) == s = NoString \/ \E chars \in Seq(Nat) : s = MakeString(chars)

(* What a reader makes of a string.                                          *)
AsRead(s) == FirstUnits(s.chars, s.num_chars)

(* Its units and its count.                                                  *)
LEMMA StringParts ==
  ASSUME NEW s, IsString(s)
  PROVE  /\ s.chars \in Seq(Nat)
         /\ s.num_chars \in 0..(Len(s.chars) + 1)
         /\ s.num_chars \in 0..(ByteSize - 1)
         /\ s = [chars |-> s.chars, num_chars |-> s.num_chars]
<1>1. CASE s = NoString
  <2>1. s.chars = <<>> /\ s.num_chars = 0 /\ Len(<<>>) = 0 /\ <<>> \in Seq(Nat)
    BY <1>1 DEF NoString
  <2>2. 0 \in 0..(0 + 1) /\ 0 \in 0..(ByteSize - 1)
    BY CodecAssumption
  <2>3. s = [num_chars |-> 0, chars |-> <<>>]
    BY <1>1 DEF NoString
  <2> QED
    BY <2>1, <2>2, <2>3
<1>2. ASSUME NEW chars \in Seq(Nat), s = MakeString(chars)
      PROVE  /\ s.chars \in Seq(Nat)
             /\ s.num_chars \in 0..(Len(s.chars) + 1)
             /\ s.num_chars \in 0..(ByteSize - 1)
             /\ s = [chars |-> s.chars, num_chars |-> s.num_chars]
  <2>1. Len(chars) \in Nat
    BY LenProperties
  <2> DEFINE n == (Len(chars) + 1) % ByteSize
  <2>2. n \in 0..(Len(chars) + 1) /\ n \in 0..(ByteSize - 1)
    BY <2>1, CodecAssumption
  <2>3. s = [chars |-> chars, num_chars |-> n]
    BY <1>2 DEF MakeString
  <2> HIDE DEF n
  <2>4. s.chars = chars /\ s.num_chars = n
    BY <2>3
  <2> QED
    BY <2>2, <2>3, <2>4
<1> QED
  BY <1>1, <1>2 DEF IsString

(* A string is a value, as far as its count goes.                            *)
LEMMA StringValue ==
  ASSUME NEW V, Nat \subseteq V, NEW s, IsString(s)
  PROVE  IsValue(Fields(V), "STR", PushString(s), AsRead(s))
<1> DEFINE F == Fields(V)
           block == PushString(s)
           n == s.num_chars
           chars == s.chars
<1>1. chars \in Seq(Nat) /\ n \in 0..(Len(chars) + 1) /\ s = [chars |-> chars, num_chars |-> n]
  BY StringParts
<1> HIDE DEF n, chars
<1>2. block \in Seq(F)
  BY <1>1, StringFields
<1>3. ASSUME NEW rest \in Seq(F) PROVE ReadValue("STR", block \o rest) = Popped(AsRead(s), rest)
  <2>1. PopString(block \o rest) = Popped(FirstUnits(chars, n), rest)
    BY <1>1, StringsPop
  <2>2. ReadValue("STR", block \o rest) = PopString(block \o rest)
    <3> HIDE DEF block
    <3> QED
      BY DEF ReadValue, IntTypes, Width
  <2>3. AsRead(s) = FirstUnits(chars, n)
    BY DEF AsRead, chars, n
  <2> QED
    BY <2>1, <2>2, <2>3
<1>4. "STR" \in Types
  BY DEF Types
<1> HIDE DEF F, block
<1>5. IsValue(F, "STR", block, AsRead(s))
  BY <1>2, <1>3, <1>4 DEF IsValue
<1> QED
  BY <1>5 DEF F, block

(* What is read is a string again, and the same one if its count was not cut. *)
LEMMA StringRead ==
  ASSUME NEW s, IsString(s)
  PROVE  IsString(AsRead(s)) /\ (Fits(s.chars) => AsRead(s) = s)
<1>1. CASE s = NoString
  <2>1. s.chars = <<>> /\ s.num_chars = 0
    BY <1>1 DEF NoString
  <2>2. AsRead(s) = NoString
    BY <2>1 DEF AsRead, FirstUnits, NoString
  <2> QED
    BY <1>1, <2>2 DEF IsString
<1>2. ASSUME NEW chars \in Seq(Nat), s = MakeString(chars)
      PROVE  IsString(AsRead(s)) /\ (Fits(s.chars) => AsRead(s) = s)
  <2> DEFINE n == (Len(chars) + 1) % ByteSize
  <2>1. Len(chars) \in Nat
    BY LenProperties
  <2>2. n \in 0..(Len(chars) + 1) /\ n \in 0..(ByteSize - 1)
    BY <2>1, CodecAssumption
  <2>3. s = [chars |-> chars, num_chars |-> n]
    BY <1>2 DEF MakeString
  <2>4. Fits(chars) => n = Len(chars) + 1
    BY <2>1, CodecAssumption DEF Fits
  <2> HIDE DEF n
  <2>5. AsRead(s) = FirstUnits(chars, n) /\ s.chars = chars
    BY <2>3 DEF AsRead
  <2>6. IsString(FirstUnits(chars, n))
    <3>1. CASE n = 0
      BY <3>1 DEF FirstUnits, IsString, NoString
    <3>2. CASE n # 0
      <4> DEFINE cut == SubSeq(chars, 1, n - 1)
      <4>1. cut \in Seq(Nat) /\ Len(cut) = n - 1
        <5>1. n - 1 \in Nat /\ n - 1 <= Len(chars)
          BY <2>1, <2>2, <3>2
        <5>2. \A i \in 1..(n - 1) : chars[i] \in Nat
          <6>1. \A i \in 1..(n - 1) : i \in 1..Len(chars)
            BY <2>1, <5>1
          <6> QED
            BY <6>1, ElementOfSeq
        <5>3. cut \in Seq(Nat) /\ Len(cut) = IF 1 <= n - 1 THEN (n - 1) - 1 + 1 ELSE 0
          BY <5>1, <5>2, SubSeqProperties
        <5> HIDE DEF cut
        <5> QED
          BY <5>1, <5>3
      <4>2. FirstUnits(chars, n) = [num_chars |-> n, chars |-> cut]
        BY <3>2 DEF FirstUnits
      <4> HIDE DEF cut
      <4>3. (Len(cut) + 1) % ByteSize = n
        <5>1. Len(cut) + 1 = n
          BY <2>2, <4>1
        <5>2. n % ByteSize = n
          BY <2>2, CodecAssumption
        <5> QED
          BY <5>1, <5>2
      <4>4. FirstUnits(chars, n) = MakeString(cut)
        BY <4>2, <4>3 DEF MakeString
      <4> QED
        BY <4>1, <4>4 DEF IsString
    <3> QED
      BY <3>1, <3>2
  <2>7. Fits(chars) => FirstUnits(chars, n) = s
    <3> SUFFICES ASSUME Fits(chars) PROVE FirstUnits(chars, n) = s
      OBVIOUS
    <3>1. FirstUnits(chars, Len(chars) + 1) = [chars |-> chars, num_chars |-> Len(chars) + 1]
      BY AllUnits
    <3> QED
      BY <2>3, <2>4, <3>1
  <2> QED
    BY <2>5, <2>6, <2>7
<1> QED
  BY <1>1, <1>2 DEF IsString

(* Three blocks in front of others.                                          *)
InFront(F, a, b, c, rest) ==
  /\ FlattenSeq(<<a, b, c>>) \in Seq(F)
  /\ FlattenSeq(<<a, b, c>>) \o rest = a \o (b \o (c \o rest))

(* They can be taken one by one.                                             *)
LEMMA ThreeBlocks ==
  ASSUME NEW F, NEW a \in Seq(F), NEW b \in Seq(F), NEW c \in Seq(F), NEW rest \in Seq(F)
  PROVE  InFront(F, a, b, c, rest)
<1> DEFINE blocks == <<a, b, c>>
<1>1. blocks \in [1..3 -> Seq(F)] /\ blocks[1] = a /\ blocks[2] = b /\ blocks[3] = c
  OBVIOUS
<1> HIDE DEF blocks
<1>2. 3 \in Nat
  OBVIOUS
<1>3. FlattenSeq(blocks) \in Seq(F)
  BY <1>1, <1>2, FlattenedType
<1>4. PICK r : IsChain(r, F, 3, blocks, rest)
  BY <1>1, <1>2, FlattenedChain
<1>5. r[0] = FlattenSeq(blocks) \o rest /\ r[3] = rest
  BY <1>4 DEF IsChain
<1>6. \A k \in 1..3 : r[k - 1] = blocks[k] \o r[k]
  BY <1>4 DEF IsChain
<1> DEFINE Link(k) == r[k - 1] = blocks[k] \o r[k]
<1>0. 1 \in 1..3 /\ 2 \in 1..3 /\ 3 \in 1..3 /\ 1 - 1 = 0 /\ 2 - 1 = 1 /\ 3 - 1 = 2
  OBVIOUS
<1>l. Link(1) /\ Link(2) /\ Link(3)
  <2>1. \A k \in 1..3 : Link(k)
    BY <1>6
  <2> HIDE DEF Link
  <2> QED
    BY <1>0, <2>1
<1>7. r[0] = blocks[1] \o r[1]
  BY <1>0, <1>l
<1>8. r[1] = blocks[2] \o r[2]
  BY <1>0, <1>l
<1>9. r[2] = blocks[3] \o r[3]
  BY <1>0, <1>l
<1> QED
  BY <1>1, <1>3, <1>5, <1>7, <1>8, <1>9 DEF blocks, InFront

-------------------------------------------------------------------------------
(* Objects.                                                                  *)

(* What a field holds: numbers and codes.                                    *)
Codes == Types \cup ObjectProperties \cup Formats \cup {"GenericFolder"}
           \cup {supported_operations[i] : i \in DOMAIN supported_operations}
           \cup {supported_device_properties[i] : i \in DOMAIN supported_device_properties}
Val == Nat \cup Codes \cup {Garbage}
F1 == Fields(Val)

IsObject(o) ==
  /\ o = Made(o.handle, o.format, o.size, o.name)
  /\ o.handle \in Nat /\ o.format \in Formats /\ o.size \in Nat /\ IsString(o.name)

(* What a reader makes of a property.                                        *)
ItemOf(p, o) ==
  CASE p = "StorageID"        -> Id
    [] p = "Object_Format"    -> o.format
    [] p = "Object_Size"      -> o.size
    [] p = "Object_File_Name" -> AsRead(o.name)
    [] p = "Parent_Object"    -> o.parent
    [] p = "Date_Created"     -> AsRead(DateTime(get_timestamp.created))
    [] p = "Date_Modified"    -> AsRead(DateTime(get_timestamp.modified))

(* What a file system says of dates is a number.                             *)
LEMMA TimestampIsNat == get_timestamp.created \in Nat /\ get_timestamp.modified \in Nat
BY DEF get_timestamp

(* A date is a string, and its count is not cut.                             *)
LEMMA DateIsString ==
  ASSUME NEW timestamp \in Nat
  PROVE  IsString(DateTime(timestamp)) /\ AsRead(DateTime(timestamp)) = DateTime(timestamp)
<1> DEFINE date == <<timestamp + 1, NUL>>
<1>1. date \in Seq(Nat) /\ Len(date) = 2
  BY DEF NUL
<1> HIDE DEF date
<1>2. Fits(date)
  BY <1>1, DatasetAssumption, CodecAssumption DEF Fits
<1>3. IsString(MakeString(date)) /\ IsString(NoString)
  BY <1>1 DEF IsString
<1>4. MakeString(date).chars = date
  BY DEF MakeString
<1>5. AsRead(MakeString(date)) = MakeString(date)
  BY <1>2, <1>3, <1>4, StringRead
<1>6. AsRead(NoString) = NoString
  BY DEF AsRead, FirstUnits, NoString
<1> QED
  BY <1>3, <1>5, <1>6 DEF DateTime, date

(* The property of an object is read as what it is, with the type the lists  *)
(* and the descriptions announce.                                            *)
LEMMA ItemValue ==
  ASSUME NEW o, IsObject(o), NEW p \in ObjectProperties
  PROVE  /\ IsValue(F1, list_type[p], Item(p, o), ItemOf(p, o))
         /\ desc_type[p] = list_type[p]
<1>1. Nat \subseteq Val /\ Formats \subseteq Val
  BY DEF Val, Codes
<1>2. o.parent \in Nat /\ Id \in Nat /\ o.parent = RootHandle
  BY DEF IsObject, Made, RootHandle, Id
<1>3. CASE p = "StorageID"
  <2>1. IsValue(F1, "UINT32", PushInt("UINT32", Id), Id)
    BY <1>1, <1>2, IntValue DEF F1, IntTypes, Width
  <2> QED
    BY <1>3, <2>1 DEF list_type, desc_type, Item, ItemOf
<1>4. CASE p = "Object_Format"
  <2>1. IsValue(F1, "UINT16", PushInt("UINT16", o.format), o.format)
    BY <1>1, IntValue DEF F1, IntTypes, Width, IsObject
  <2> QED
    BY <1>4, <2>1 DEF list_type, desc_type, Item, ItemOf
<1>5. CASE p = "Object_Size"
  <2>1. IsValue(F1, "UINT64", PushInt("UINT64", o.size), o.size)
    BY <1>1, IntValue DEF F1, IntTypes, Width, IsObject
  <2> QED
    BY <1>5, <2>1 DEF list_type, desc_type, Item, ItemOf
<1>6. CASE p = "Object_File_Name"
  <2>1. IsValue(F1, "STR", PushString(o.name), AsRead(o.name))
    BY <1>1, StringValue DEF F1, IsObject
  <2> QED
    BY <1>6, <2>1 DEF list_type, desc_type, Item, ItemOf
<1>7. CASE p = "Parent_Object"
  <2>1. IsValue(F1, "UINT32", PushInt("UINT32", o.parent), o.parent)
    BY <1>1, <1>2, IntValue DEF F1, IntTypes, Width
  <2> QED
    BY <1>7, <2>1 DEF list_type, desc_type, Item, ItemOf
<1>8. CASE p \in {"Date_Created", "Date_Modified"}
  <2>1. ASSUME NEW n \in Nat
        PROVE  IsValue(F1, "STR", PushString(DateTime(n)), AsRead(DateTime(n)))
    BY <1>1, StringValue, DateIsString DEF F1
  <2> QED
    BY <1>8, <2>1, TimestampIsNat DEF list_type, desc_type, Item, ItemOf
<1> QED
  BY <1>3, <1>4, <1>5, <1>6, <1>7, <1>8 DEF ObjectProperties, FileProperties, CommonProperties

(* What a reader makes of an element of a list.                              *)
ElementOf(p, o) == [handle |-> o.handle, prop |-> p, value |-> ItemOf(p, o)]

(* An element of a list is read as the property it is of.                    *)
LEMMA ElementReads ==
  ASSUME NEW o, IsObject(o), NEW p \in ObjectProperties
  PROVE  Reads(F1, "ELEMENT", Element(p, o), ElementOf(p, o))
<1> DEFINE a == PushInt("UINT32", o.handle)
           b == PushInt("UINT16", p)
           c == PushInt("UINT16", list_type[p])
           item == Item(p, o)
           type == list_type[p]
           start == FlattenSeq(<<a, b, c>>)
           element == Element(p, o)
<1>1. Nat \subseteq Val /\ Types \subseteq Val
  BY DEF Val, Codes
<1>2. p \in Val
  BY DEF Val, Codes
<1>3. IsValue(F1, type, item, ItemOf(p, o))
  BY ItemValue
<1>4. type \in Types
  BY <1>3 DEF IsValue
<1>5. type # Garbage
  BY <1>4, DatasetAssumption
<1>6. o.handle \in Val /\ p \in Val /\ type \in Val
  BY <1>1, <1>2, <1>4 DEF IsObject
<1>7. element = start \o item
  BY DEF Element
<1> HIDE DEF type, item, start, element
<1>8. /\ IsValue(F1, "UINT32", a, o.handle)
      /\ IsValue(F1, "UINT16", b, p)
      /\ IsValue(F1, "UINT16", c, type)
  BY <1>6, IntValue DEF F1, IntTypes, Width, type
<1> HIDE DEF a, b, c
<1>9. a \in Seq(F1) /\ b \in Seq(F1) /\ c \in Seq(F1) /\ item \in Seq(F1)
  BY <1>3, <1>8 DEF IsValue
<1>10. start \in Seq(F1)
  <2> DEFINE blocks == <<a, b, c>>
  <2>1. blocks \in [1..3 -> Seq(F1)] /\ 3 \in Nat
    BY <1>9
  <2> HIDE DEF blocks
  <2>2. FlattenSeq(blocks) \in Seq(F1)
    BY <2>1, FlattenedType
  <2> QED
    BY <2>2 DEF start, blocks
<1>11. element \in Seq(F1)
  BY <1>7, <1>9, <1>10, ConcatProperties
<1>12. \A rest \in Seq(F1) :
         /\ PopInt("UINT32", a \o rest) = Popped(o.handle, rest)
         /\ PopInt("UINT16", b \o rest) = Popped(p, rest)
         /\ PopInt("UINT16", c \o rest) = Popped(type, rest)
         /\ ReadValue(type, item \o rest) = Popped(ItemOf(p, o), rest)
  BY <1>3, <1>8 DEF IsValue, ReadValue, IntTypes, Width
<1>13. ASSUME NEW rest \in Seq(F1)
       PROVE  ReadElement(element \o rest) = Popped(ElementOf(p, o), rest)
  <2> DEFINE r3 == item \o rest
             r2 == c \o r3
             r1 == b \o r2
             r0 == a \o r1
  <2>1. r3 \in Seq(F1)
    BY <1>9, ConcatProperties
  <2>2. r2 \in Seq(F1)
    BY <1>9, <2>1, ConcatProperties
  <2>3. r1 \in Seq(F1)
    BY <1>9, <2>2, ConcatProperties
  <2>4. element \o rest = start \o r3
    <3>1. (start \o item) \o rest = start \o (item \o rest)
      BY <1>9, <1>10, ConcatAssociative, SMTT(30)
    <3> QED
      BY <1>7, <3>1
  <2>5. start \o r3 = r0
    <3> HIDE DEF r3
    <3>1. InFront(F1, a, b, c, r3)
      BY <1>9, <2>1, ThreeBlocks
    <3> QED
      BY <3>1 DEF InFront, start
  <2>6. ReadValue(type, r3) = Popped(ItemOf(p, o), rest)
    BY <1>12
  <2> HIDE DEF r3
  <2>7. PopInt("UINT16", r2) = Popped(type, r3)
    BY <1>12, <2>1
  <2> HIDE DEF r2
  <2>8. PopInt("UINT16", r1) = Popped(p, r2)
    BY <1>12, <2>2
  <2> HIDE DEF r1
  <2>9. PopInt("UINT32", r0) = Popped(o.handle, r1)
    BY <1>12, <2>3
  <2> HIDE DEF r0
  <2>10. ReadElement(r0) = Popped(ElementOf(p, o), rest)
    BY <1>5, <2>6, <2>7, <2>8, <2>9 DEF ReadElement, ReadTyped, Popped, ElementOf
  <2> QED
    BY <2>4, <2>5, <2>10
<1>14. ASSUME NEW rest \in Seq(F1)
       PROVE  ReadOne("ELEMENT", element \o rest) = Popped(ElementOf(p, o), rest)
  BY <1>13 DEF ReadOne
<1>15. Reads(F1, "ELEMENT", element, ElementOf(p, o))
  BY <1>11, <1>14 DEF Reads
<1> QED
  BY <1>15 DEF element

(* The members of blocks together are those of each.                         *)
LEMMA FlattenedMembers ==
  ASSUME NEW F, NEW n \in Nat, NEW blocks \in [1..n -> Seq(F)]
  PROVE  \A x : x \in ToSet(FlattenSeq(blocks)) <=> \E k \in 1..n : x \in ToSet(blocks[k])
<1>1. CASE n = 0
  <2>1. blocks \in [1..0 -> Seq(F)]
    BY <1>1
  <2>2. FlattenSeq(blocks) = <<>>
    BY <2>1, FlattenedNone
  <2>3. ToSet(<<>>) = {}
    BY DEF ToSet
  <2> QED
    BY <1>1, <2>2, <2>3
<1>2. CASE n # 0
  <2>1. n \in Nat \ {0} /\ n \in 1..n /\ 1 \in 1..n
    BY <1>2
  <2>2. PICK f : Flattens(f, F, n, blocks)
    BY <2>1, Flattened
  <2>3. /\ f \in [1..n -> Seq(F)] /\ f[1] = blocks[1]
        /\ \A i \in 2..n : f[i] = f[i - 1] \o blocks[i]
        /\ FlattenSeq(blocks) = f[n]
    BY <2>2 DEF Flattens
  <2> DEFINE Has(k) == \A x : x \in ToSet(f[k]) <=> \E j \in 1..k : x \in ToSet(blocks[j])
             S == {k \in 0..n : k = 0 \/ Has(k)}
  <2>4. ASSUME NEW s \in Seq(F), NEW t \in Seq(F)
        PROVE  \A x : x \in ToSet(s \o t) <=> x \in ToSet(s) \/ x \in ToSet(t)
    <3>1. Range(s \o t) = Range(s) \cup Range(t)
      BY RangeConcatenation
    <3>2. \A u : ToSet(u) = Range(u)
      BY DEF ToSet, Range
    <3> QED
      BY <3>1, <3>2, Zenon
  <2>5. ASSUME NEW k \in 1..n, k - 1 \in S PROVE k \in S
    <3>1. CASE k = 1
      <4>1. Has(1)
        <5>1. \A j \in 1..1 : j = 1
          OBVIOUS
        <5>2. 1 \in 1..1
          OBVIOUS
        <5> HIDE DEF ToSet
        <5> QED
          BY <2>3, <5>1, <5>2
      <4>2. k \in 0..n
        OBVIOUS
      <4> HIDE DEF Has
      <4> QED
        BY <3>1, <4>1, <4>2
    <3>2. CASE k # 1
      <4>1. k \in 2..n /\ k - 1 # 0 /\ k - 1 \in 1..n /\ k \in 0..n
        BY <3>2
      <4>2. Has(k - 1)
        <5> HIDE DEF Has
        <5> QED
          BY <2>5, <4>1
      <4>3. f[k] = f[k - 1] \o blocks[k] /\ f[k - 1] \in Seq(F) /\ blocks[k] \in Seq(F)
        BY <2>3, <4>1
      <4>4. \A x : x \in ToSet(f[k]) <=> x \in ToSet(f[k - 1]) \/ x \in ToSet(blocks[k])
        BY <2>4, <4>3
      <4>5. \A j : j \in 1..k <=> j \in 1..(k - 1) \/ j = k
        BY <4>1
      <4>6. Has(k)
        BY <4>2, <4>4, <4>5
      <4> HIDE DEF Has
      <4> QED
        BY <4>1, <4>6
    <3> QED
      BY <3>1, <3>2
  <2>6. 0 \in S
    OBVIOUS
  <2> HIDE DEF S
  <2>7. 0..n \subseteq S
    BY <2>5, <2>6, UpTo
  <2>8. Has(n)
    <3> HIDE DEF Has
    <3> QED
      BY <2>1, <2>7 DEF S
  <2> QED
    BY <2>3, <2>8
<1> QED
  BY <1>1, <1>2

(* The entries of a list, for each object those of its properties that are   *)
(* asked for and that it has.                                                *)
Entries(Os) == [prop : ObjectProperties, of : Os]
Entry(p, o) == [prop |-> p, of |-> o]

(* The entries of one object.                                                *)
LEMMA ElementsListed ==
  ASSUME NEW Os, NEW o \in Os, NEW format, NEW prop
  PROVE  /\ Elements(o, format, prop) \in Seq(Entries(Os))
         /\ \A x : x \in ToSet(Elements(o, format, prop)) <=>
                     \E p \in ObjectProperties : Listed(p, o, format, prop) /\ x = Entry(p, o)
<1> DEFINE E == Entries(Os)
           OneEntry(p) == <<Entry(p, o)>>
           block(p) == IF Listed(p, o, format, prop) THEN OneEntry(p) ELSE <<>>
           blocks == [i \in 1..7 |-> block(list_order[i])]
<1>1. DOMAIN list_order = 1..7
  BY DEF list_order
<1>2. \A i \in 1..7 : list_order[i] \in ObjectProperties
  BY DEF list_order, ObjectProperties, FileProperties, CommonProperties
<1>3. \A p \in ObjectProperties : \E i \in 1..7 : list_order[i] = p
  BY DEF list_order, ObjectProperties, FileProperties, CommonProperties
<1>4. Elements(o, format, prop) = FlattenSeq(blocks)
  BY <1>1 DEF Elements, Entry
<1>5. ASSUME NEW p \in ObjectProperties
      PROVE  /\ block(p) \in Seq(E)
             /\ \A x : x \in ToSet(block(p)) <=> Listed(p, o, format, prop) /\ x = Entry(p, o)
  <2>1. Entry(p, o) \in E
    BY DEF Entries, Entry
  <2> DEFINE e == Entry(p, o)
  <2> HIDE DEF E, e
  <2>2. <<e>> \in Seq(E) /\ <<>> \in Seq(E)
    BY <2>1 DEF e
  <2>3. ToSet(<<e>>) = {e} /\ ToSet(<<>>) = {}
    BY DEF ToSet
  <2>4. OneEntry(p) = <<e>>
    BY DEF e
  <2> HIDE DEF OneEntry
  <2> QED
    BY <2>2, <2>3, <2>4 DEF e
<1> HIDE DEF block, E
<1>6. blocks \in [1..7 -> Seq(E)]
  BY <1>2, <1>5
<1>7. \A i \in 1..7 : blocks[i] = block(list_order[i])
  OBVIOUS
<1> HIDE DEF blocks
<1>8. 7 \in Nat
  OBVIOUS
<1>9. FlattenSeq(blocks) \in Seq(E)
  BY <1>6, <1>8, FlattenedType
<1>10. \A x : x \in ToSet(FlattenSeq(blocks)) <=> \E k \in 1..7 : x \in ToSet(blocks[k])
  BY <1>6, <1>8, FlattenedMembers
<1>11. \A x : (\E k \in 1..7 : x \in ToSet(blocks[k])) <=>
              \E p \in ObjectProperties : Listed(p, o, format, prop) /\ x = Entry(p, o)
  BY <1>2, <1>3, <1>5, <1>7
<1> QED
  BY <1>4, <1>9, <1>10, <1>11 DEF E

(* What a list is, and what its reader makes of it.                          *)
ListIs(listed, Os, objs, format, prop) ==
  /\ listed \in Seq(Entries(Os))
  /\ \A x : x \in ToSet(listed) <=>
              \E o \in ToSet(objs), p \in ObjectProperties :
                Listed(p, o, format, prop) /\ x = Entry(p, o)
  /\ PropList(objs, format, prop) \in Seq(F1)
  /\ ReadList(PropList(objs, format, prop)) =
       Popped([i \in 1..Len(listed) |-> ElementOf(listed[i].prop, listed[i].of)], <<>>)

(* The list of any objects is read to its end, and its elements are those of *)
(* the properties that were asked for, as each object has them.              *)
LEMMA ListReads ==
  ASSUME NEW Os, \A o \in Os : IsObject(o), NEW objs \in Seq(Os), NEW format, NEW prop
  PROVE  \E listed : ListIs(listed, Os, objs, format, prop)
<1> DEFINE E == Entries(Os)
           m == Len(objs)
           parts == [i \in 1..m |-> Elements(objs[i], format, prop)]
           listed == FlattenSeq(parts)
<1>1. m \in Nat /\ DOMAIN objs = 1..m /\ \A i \in 1..m : objs[i] \in Os
  BY LenProperties, ElementOfSeq
<1>2. \A i \in 1..m : parts[i] = Elements(objs[i], format, prop)
  OBVIOUS
<1>3. parts \in [1..m -> Seq(E)]
  <2>1. \A i \in 1..m : Elements(objs[i], format, prop) \in Seq(E)
    BY <1>1, ElementsListed
  <2> QED
    BY <2>1
<1>4. listed = FlattenSeq([i \in DOMAIN objs |-> Elements(objs[i], format, prop)])
  BY <1>1
<1> HIDE DEF parts, m
<1>5. listed \in Seq(E)
  BY <1>1, <1>3, FlattenedType
<1>6. \A x : x \in ToSet(listed) <=> \E k \in 1..m : x \in ToSet(parts[k])
  BY <1>1, <1>3, FlattenedMembers
<1>7. \A x : x \in ToSet(listed) <=>
               \E o \in ToSet(objs), p \in ObjectProperties :
                 Listed(p, o, format, prop) /\ x = Entry(p, o)
  <2>1. ASSUME NEW k \in 1..m
        PROVE  \A x : x \in ToSet(parts[k]) <=>
                        \E p \in ObjectProperties :
                          Listed(p, objs[k], format, prop) /\ x = Entry(p, objs[k])
    <3>1. objs[k] \in Os
      BY <1>1
    <3>2. \A x : x \in ToSet(Elements(objs[k], format, prop)) <=>
                   \E p \in ObjectProperties :
                     Listed(p, objs[k], format, prop) /\ x = Entry(p, objs[k])
      BY <3>1, ElementsListed
    <3> QED
      BY <1>2, <3>2
  <2>2. \A o : o \in ToSet(objs) <=> \E k \in 1..m : o = objs[k]
    BY <1>1 DEF ToSet
  <2> DEFINE Q(x, o) == \E p \in ObjectProperties : Listed(p, o, format, prop) /\ x = Entry(p, o)
             all == ToSet(listed)
             of(k) == ToSet(parts[k])
             objects == ToSet(objs)
  <2>3. \A k \in 1..m : \A x : x \in of(k) <=> Q(x, objs[k])
    BY <2>1
  <2>4. \A x : x \in all <=> \E k \in 1..m : x \in of(k)
    BY <1>6
  <2>5. \A o : o \in objects <=> \E k \in 1..m : o = objs[k]
    BY <2>2
  <2> HIDE DEF Q, all, of, objects
  <2>6. \A x : x \in all <=> \E o \in objects : Q(x, o)
    BY <2>3, <2>4, <2>5
  <2> QED
    BY <2>6 DEF Q, all, objects
<1> DEFINE n == Len(listed)
           blocks == [i \in 1..n |-> Element(listed[i].prop, listed[i].of)]
           values == [i \in 1..n |-> ElementOf(listed[i].prop, listed[i].of)]
           types == [i \in 1..n |-> "ELEMENT"]
           data == FlattenSeq(blocks)
<1>8. PropList(objs, format, prop) = PushInt("UINT32", n) \o data
  <2>1. DOMAIN listed = 1..n
    BY <1>5, LenProperties
  <2> QED
    BY <1>4, <2>1 DEF PropList
<1> HIDE DEF listed
<1>9. n \in Nat /\ \A i \in 1..n : listed[i] \in E
  BY <1>5, LenProperties, ElementOfSeq
<1> HIDE DEF n
<1>10. ASSUME NEW i \in 1..n
       PROVE  Reads(F1, "ELEMENT", Element(listed[i].prop, listed[i].of),
                    ElementOf(listed[i].prop, listed[i].of))
  <2>1. listed[i].prop \in ObjectProperties /\ listed[i].of \in Os
    BY <1>9 DEF Entries
  <2> QED
    BY <2>1, ElementReads
<1>11. blocks \in [1..n -> Seq(F1)]
  BY <1>10 DEF Reads
<1>12. types \in [1..n -> {"ELEMENT"}]
  OBVIOUS
<1>13. \A i \in 1..n : Reads(F1, types[i], blocks[i], values[i])
  BY <1>10
<1>14. values \in [1..n -> {values[i] : i \in 1..n}]
  OBVIOUS
<1>15. values = [i \in 1..n |-> ElementOf(listed[i].prop, listed[i].of)]
  OBVIOUS
<1>16. types = [i \in 1..n |-> "ELEMENT"]
  OBVIOUS
<1> HIDE DEF blocks, types, values
<1>17. data \in Seq(F1)
  BY <1>9, <1>11, FlattenedType
<1>18. <<>> \in Seq(F1)
  OBVIOUS
<1>19. Read(types, data \o <<>>) = Popped(values, <<>>)
  <2> DEFINE none == <<>>
             X == {"ELEMENT"}
             Y == {values[i] : i \in 1..n}
  <2>1. none \in Seq(F1) /\ types \in [1..n -> X] /\ values \in [1..n -> Y]
    BY <1>12, <1>14, <1>18
  <2> HIDE DEF none, X, Y
  <2>2. IsDataset(F1, types, FlattenSeq(blocks), values)
    BY <1>9, <1>11, <1>13, <2>1, DatasetsComeBack
  <2> QED
    BY <2>1, <2>2 DEF none, IsDataset
<1> HIDE DEF data
<1>20. data \o <<>> = data
  BY <1>17, ConcatEmptySeq
<1>21. IsValue(F1, "UINT32", PushInt("UINT32", n), n)
  <2>1. n \in Val /\ "UINT32" \in IntTypes
    BY <1>9 DEF Val, IntTypes, Width
  <2> QED
    BY <2>1, IntValue DEF F1
<1>22. PushInt("UINT32", n) \in Seq(F1)
  BY <1>21 DEF IsValue
<1>23. PopInt("UINT32", PushInt("UINT32", n) \o data) = Popped(n, data)
  BY <1>17, <1>21 DEF IsValue, ReadValue, IntTypes, Width
<1> DEFINE list == PropList(objs, format, prop)
<1>24. list \in Seq(F1) /\ PopInt("UINT32", list) = Popped(n, data)
  BY <1>8, <1>17, <1>22, <1>23, ConcatProperties
<1> HIDE DEF list
<1>25. ReadList(list) = Read([i \in 1..n |-> "ELEMENT"], data)
  <2> DEFINE q == Popped(n, data)
  <2>1. q.value = n /\ q.rest = data
    BY DEF Popped
  <2> HIDE DEF q
  <2> QED
    BY <1>24, <2>1 DEF ReadList, q
<1>26. ReadList(list) = Popped(values, <<>>)
  BY <1>16, <1>19, <1>20, <1>25
<1>27. ListIs(listed, Os, objs, format, prop)
  BY <1>5, <1>7, <1>15, <1>24, <1>26 DEF ListIs, list, n, E
<1> QED
  BY <1>27

-------------------------------------------------------------------------------
(* The datasets.                                                             *)

(* The fields that all the datasets are made of.                             *)
LEMMA Numbers ==
  ASSUME NEW n \in Nat, NEW type \in IntTypes
  PROVE  IsValue(F1, type, PushInt(type, n), n)
<1>1. n \in Val
  BY DEF Val
<1> QED
  BY <1>1, IntValue DEF F1

(* Those that name something of the protocol.                                *)
LEMMA Named ==
  ASSUME NEW c \in Codes, NEW type \in IntTypes
  PROVE  IsValue(F1, type, PushInt(type, c), c)
<1>1. c \in Val
  BY DEF Val
<1> QED
  BY <1>1, IntValue DEF F1

(* The strings of the device itself.                                         *)
LEMMA OwnStrings ==
  /\ IsValue(F1, "STR", PushString(NoString), AsRead(NoString))
  /\ IsValue(F1, "STR", PushString(MakeString(<<1>>)), AsRead(MakeString(<<1>>)))
  /\ IsValue(F1, "STR", PushString(MakeString(<<1, 2>>)), AsRead(MakeString(<<1, 2>>)))
<1>1. Nat \subseteq Val
  BY DEF Val
<1>2. IsString(NoString)
  BY DEF IsString
<1>3. IsString(MakeString(<<1>>))
  <2>1. <<1>> \in Seq(Nat)
    OBVIOUS
  <2> QED
    BY <2>1 DEF IsString
<1>4. IsString(MakeString(<<1, 2>>))
  <2>1. <<1, 2>> \in Seq(Nat)
    OBVIOUS
  <2> QED
    BY <2>1 DEF IsString
<1>5. ASSUME NEW s, IsString(s) PROVE IsValue(F1, "STR", PushString(s), AsRead(s))
  BY <1>1, <1>5, StringValue DEF F1
<1> QED
  BY <1>2, <1>3, <1>4, <1>5

(* Its arrays.                                                               *)
LEMMA OwnArrays ==
  ASSUME NEW type \in {"AUINT16", "AUINT32"}, NEW elements \in Seq(Val)
  PROVE  IsValue(F1, type, PushArray(ElementType(type), elements), elements)
<1>1. Nat \subseteq Val
  BY DEF Val
<1> QED
  BY <1>1, ArrayValue DEF F1

(* A value alone is a dataset.                                               *)
LEMMA OneValue ==
  ASSUME NEW type, NEW block, NEW value, IsValue(F1, type, block, value)
  PROVE  IsDataset(F1, <<type>>, block, <<value>>)
<1> DEFINE types == <<type>>
           blocks == <<block>>
           values == <<value>>
<1>1. block \in Seq(F1)
  BY DEF IsValue
<1>2. /\ types \in [1..1 -> {type}] /\ blocks \in [1..1 -> Seq(F1)] /\ values \in [1..1 -> {value}]
      /\ types[1] = type /\ blocks[1] = block /\ values[1] = value /\ 1 \in Nat
  BY <1>1
<1>3. FlattenSeq(blocks) = block
  <2>1. \A b : b = blocks => Len(b) = 1
    OBVIOUS
  <2>2. 1 \in Nat \ {0}
    OBVIOUS
  <2> HIDE DEF blocks
  <2>3. PICK f : Flattens(f, F1, 1, blocks)
    BY <1>2, <2>2, Flattened
  <2> QED
    BY <1>2, <2>3 DEF Flattens
<1>4. Reads(F1, type, block, value)
  BY ValuesRead
<1> HIDE DEF types, blocks, values
<1>5. \A i \in 1..1 : Reads(F1, types[i], blocks[i], values[i])
  <2>1. \A i \in 1..1 : i = 1
    OBVIOUS
  <2> QED
    BY <1>2, <1>4, <2>1
<1>6. IsDataset(F1, types, FlattenSeq(blocks), values)
  <2> DEFINE X == {type}
             Y == {value}
  <2>1. types \in [1..1 -> X] /\ values \in [1..1 -> Y]
    BY <1>2
  <2> HIDE DEF X, Y
  <2> QED
    BY <1>2, <1>5, <2>1, DatasetsComeBack
<1> QED
  BY <1>3, <1>6 DEF types, values

(* Values one after another are a dataset.                                   *)
LEMMA ManyValues ==
  ASSUME NEW n \in Nat, NEW T, NEW types \in [1..n -> T], NEW blocks, NEW values,
         blocks = [i \in 1..n |-> blocks[i]], values = [i \in 1..n |-> values[i]],
         \A i \in 1..n : IsValue(F1, types[i], blocks[i], values[i])
  PROVE  IsDataset(F1, types, FlattenSeq(blocks), values)
<1>1. \A i \in 1..n : Reads(F1, types[i], blocks[i], values[i])
  BY ValuesRead
<1>2. blocks \in [1..n -> Seq(F1)]
  <2>1. \A i \in 1..n : blocks[i] \in Seq(F1)
    BY DEF IsValue
  <2> QED
    BY <2>1
<1> DEFINE V == {values[i] : i \in 1..n}
<1>3. values \in [1..n -> V]
  OBVIOUS
<1> HIDE DEF V
<1> QED
  BY <1>1, <1>2, <1>3, DatasetsComeBack

(* DeviceInfo, by the types of the standard.                                 *)
DeviceInfoTypes ==
  <<"UINT16", "UINT32", "UINT16", "STR", "UINT16", "AUINT16", "AUINT16",
    "AUINT16", "AUINT16", "AUINT16", "STR", "STR", "STR", "STR">>

(* It is read to its end.                                                    *)
LEMMA DeviceInfoReads == \E values : IsDataset(F1, DeviceInfoTypes, DeviceInfo, values)
<1> DEFINE ops == supported_operations
           none == <<"Undefined">>
           props == supported_device_properties
           formats == supported_playback_formats
           s0 == NoString
           s1 == MakeString(<<1>>)
<1>1. none \in Seq(Val) /\ props \in Seq(Val) /\ formats \in Seq(Val)
  <2>1. "Undefined" \in Val /\ "Association" \in Val
    BY DEF Val, Codes, Formats
  <2>2. "Device_Friendly_Name" \in Val /\ "Synchronization_Partner" \in Val
    BY DEF Val, Codes, supported_device_properties
  <2> QED
    BY <2>1, <2>2 DEF supported_device_properties, supported_playback_formats
<1>2. ops \in Seq(Val)
  <2>1. \A i \in DOMAIN ops : ops[i] \in Val
    BY DEF Val, Codes
  <2>2. DOMAIN ops = 1..13 /\ ops = [i \in 1..13 |-> ops[i]] /\ 13 \in Nat
    BY DEF supported_operations
  <2> QED
    BY <2>1, <2>2, LenProperties
<1> DEFINE array(x) == PushArray("UINT16", x)
           string(x) == PushString(x)
           int(t, x) == PushInt(t, x)
           blocks == <<int("UINT16", 100), int("UINT32", 6), int("UINT16", 110), string(s0),
                       int("UINT16", 0), array(ops), array(none), array(props),
                       array(none), array(formats), string(s1), string(s1), string(s1),
                       string(s1)>>
           values == <<100, 6, 110, AsRead(s0), 0, ops, none, props, none, formats,
                       AsRead(s1), AsRead(s1), AsRead(s1), AsRead(s1)>>
           types == DeviceInfoTypes
<1>3. /\ IsValue(F1, "UINT16", int("UINT16", 100), 100)
      /\ IsValue(F1, "UINT32", int("UINT32", 6), 6)
      /\ IsValue(F1, "UINT16", int("UINT16", 110), 110)
      /\ IsValue(F1, "UINT16", int("UINT16", 0), 0)
  BY Numbers DEF IntTypes, Width
<1>4. \A x \in Seq(Val) : IsValue(F1, "AUINT16", array(x), x)
  <2>1. ElementType("AUINT16") = "UINT16" /\ "AUINT16" \in {"AUINT16", "AUINT32"}
    BY DEF ElementType
  <2> QED
    BY <2>1, OwnArrays
<1>5. IsValue(F1, "STR", string(s0), AsRead(s0)) /\ IsValue(F1, "STR", string(s1), AsRead(s1))
  BY OwnStrings
<1>6. DeviceInfo = FlattenSeq(blocks)
  BY DEF DeviceInfo
<1> HIDE DEF array, string, int, s0, s1, ops, none, props, formats
<1>7. \A i \in 1..14 : IsValue(F1, types[i], blocks[i], values[i])
  BY <1>1, <1>2, <1>3, <1>4, <1>5 DEF DeviceInfoTypes
<1>8. types \in [1..14 -> Types]
  BY DEF DeviceInfoTypes, Types, IntTypes, Width
<1>9. blocks = [i \in 1..14 |-> blocks[i]] /\ values = [i \in 1..14 |-> values[i]]
  OBVIOUS
<1> HIDE DEF blocks, values, types
<1>10. IsDataset(F1, types, FlattenSeq(blocks), values)
  BY <1>7, <1>8, <1>9, ManyValues
<1> QED
  BY <1>6, <1>10 DEF types

(* StorageInfo, likewise.                                                    *)
StorageInfoTypes ==
  <<"UINT16", "UINT16", "UINT16", "UINT64", "UINT64", "UINT32", "STR", "STR">>

(* It is read to its end.                                                    *)
LEMMA StorageInfoReads == \E values : IsDataset(F1, StorageInfoTypes, StorageInfo, values)
<1> DEFINE s0 == NoString
           s2 == MakeString(<<1, 2>>)
           string(x) == PushString(x)
           int(t, x) == PushInt(t, x)
           blocks == <<int("UINT16", 4), int("UINT16", 2), int("UINT16", 0),
                       int("UINT64", 0), int("UINT64", 0), int("UINT32", 0),
                       string(s2), string(s0)>>
           values == <<4, 2, 0, 0, 0, 0, AsRead(s2), AsRead(s0)>>
           types == StorageInfoTypes
<1>1. /\ IsValue(F1, "UINT16", int("UINT16", 4), 4)
      /\ IsValue(F1, "UINT16", int("UINT16", 2), 2)
      /\ IsValue(F1, "UINT16", int("UINT16", 0), 0)
      /\ IsValue(F1, "UINT64", int("UINT64", 0), 0)
      /\ IsValue(F1, "UINT32", int("UINT32", 0), 0)
  BY Numbers DEF IntTypes, Width
<1>2. IsValue(F1, "STR", string(s0), AsRead(s0)) /\ IsValue(F1, "STR", string(s2), AsRead(s2))
  BY OwnStrings
<1>3. StorageInfo = FlattenSeq(blocks)
  BY DEF StorageInfo
<1> HIDE DEF string, int, s0, s2
<1>4. \A i \in 1..8 : IsValue(F1, types[i], blocks[i], values[i])
  BY <1>1, <1>2 DEF StorageInfoTypes
<1>5. types \in [1..8 -> Types]
  BY DEF StorageInfoTypes, Types, IntTypes, Width
<1>6. blocks = [i \in 1..8 |-> blocks[i]] /\ values = [i \in 1..8 |-> values[i]]
  OBVIOUS
<1> HIDE DEF blocks, values, types
<1>7. IsDataset(F1, types, FlattenSeq(blocks), values)
  BY <1>4, <1>5, <1>6, ManyValues
<1> QED
  BY <1>3, <1>7 DEF types

(* DevicePropDesc of a property of the device.                               *)
DevicePropDescTypes == <<"UINT16", "UINT16", "UINT8", "STR", "STR", "UINT32", "UINT8">>

(* It is read to its end, whichever property it describes.                   *)
LEMMA DevicePropDescReads ==
  ASSUME NEW p, Contains(supported_device_properties, p)
  PROVE  \E values : IsDataset(F1, DevicePropDescTypes, DevicePropDesc(p), values)
<1> DEFINE s1 == MakeString(<<1>>)
           string(x) == PushString(x)
           int(t, x) == PushInt(t, x)
           blocks == <<int("UINT16", p), int("UINT16", "STR"), int("UINT8", 0), string(s1),
                       string(s1), int("UINT32", 0), int("UINT8", 0)>>
           values == <<p, "STR", 0, AsRead(s1), AsRead(s1), 0, 0>>
           types == DevicePropDescTypes
<1>1. p \in Codes /\ "STR" \in Codes
  <2>1. PICK i \in 1..Len(supported_device_properties) : supported_device_properties[i] = p
    BY DEF Contains
  <2>2. i \in DOMAIN supported_device_properties
    BY <2>1 DEF supported_device_properties
  <2> QED
    BY <2>1, <2>2 DEF Codes, Types
<1>2. /\ IsValue(F1, "UINT8", int("UINT8", 0), 0)
      /\ IsValue(F1, "UINT32", int("UINT32", 0), 0)
  BY Numbers DEF IntTypes, Width
<1>3. /\ IsValue(F1, "UINT16", int("UINT16", p), p)
      /\ IsValue(F1, "UINT16", int("UINT16", "STR"), "STR")
  BY <1>1, Named DEF IntTypes, Width
<1>4. IsValue(F1, "STR", string(s1), AsRead(s1))
  BY OwnStrings
<1>5. DevicePropDesc(p) = FlattenSeq(blocks)
  BY DEF DevicePropDesc, DevicePropValue
<1> HIDE DEF string, int, s1
<1>6. \A i \in 1..7 : IsValue(F1, types[i], blocks[i], values[i])
  BY <1>2, <1>3, <1>4 DEF DevicePropDescTypes
<1>7. types \in [1..7 -> Types]
  BY DEF DevicePropDescTypes, Types, IntTypes, Width
<1>8. blocks = [i \in 1..7 |-> blocks[i]] /\ values = [i \in 1..7 |-> values[i]]
  OBVIOUS
<1> HIDE DEF blocks, values, types
<1>9. IsDataset(F1, types, FlattenSeq(blocks), values)
  BY <1>6, <1>7, <1>8, ManyValues
<1> QED
  BY <1>5, <1>9 DEF types

(* ObjectInfo: its members in any order.                                     *)
IsInfo(info) ==
  \A m \in DOMAIN InfoType :
    IF InfoType[m] = "STR" THEN IsString(info[m]) ELSE info[m] \in Val
InfoAs(info, m) == IF InfoType[m] = "STR" THEN AsRead(info[m]) ELSE info[m]

(* They are read in the order they are pushed.                               *)
LEMMA InfoReads ==
  ASSUME NEW info, IsInfo(info), NEW n \in Nat, NEW order \in [1..n -> DOMAIN InfoType]
  PROVE  IsDataset(F1, [i \in DOMAIN order |-> InfoType[order[i]]], PushInfo(info, order),
                   [i \in DOMAIN order |-> InfoAs(info, order[i])])
<1> DEFINE types == [i \in 1..n |-> InfoType[order[i]]]
           blocks == [i \in 1..n |-> Push(InfoType[order[i]], info[order[i]])]
           values == [i \in 1..n |-> InfoAs(info, order[i])]
<1>1. DOMAIN order = 1..n
  OBVIOUS
<1>2. ASSUME NEW m \in DOMAIN InfoType
      PROVE  IsValue(F1, InfoType[m], Push(InfoType[m], info[m]), InfoAs(info, m))
  <2>1. CASE InfoType[m] = "STR"
    <3>1. IsString(info[m]) /\ Nat \subseteq Val
      BY <2>1 DEF IsInfo, Val
    <3>2. IsValue(F1, "STR", PushString(info[m]), AsRead(info[m]))
      BY <3>1, StringValue DEF F1
    <3> QED
      BY <2>1, <3>2 DEF Push, InfoAs
  <2>2. CASE InfoType[m] # "STR"
    <3>1. info[m] \in Val
      BY <2>2 DEF IsInfo
    <3>2. InfoType[m] \in IntTypes
      BY <2>2 DEF InfoType, IntTypes, Width
    <3>3. IsValue(F1, InfoType[m], PushInt(InfoType[m], info[m]), info[m])
      BY <3>1, <3>2, IntValue DEF F1
    <3> QED
      BY <2>2, <3>3 DEF Push, InfoAs
  <2> QED
    BY <2>1, <2>2
<1>3. \A i \in 1..n : IsValue(F1, types[i], blocks[i], values[i])
  BY <1>2
<1>4. types \in [1..n -> Types]
  <2>1. \A m \in DOMAIN InfoType : InfoType[m] \in Types
    BY <1>2 DEF IsValue
  <2> QED
    BY <2>1
<1>5. blocks = [i \in 1..n |-> blocks[i]] /\ values = [i \in 1..n |-> values[i]]
  OBVIOUS
<1>6. PushInfo(info, order) = FlattenSeq(blocks)
  BY <1>1 DEF PushInfo
<1> HIDE DEF blocks, values, types
<1>7. IsDataset(F1, types, FlattenSeq(blocks), values)
  BY <1>3, <1>4, <1>5, ManyValues
<1> QED
  BY <1>1, <1>6, <1>7 DEF types, values

(* ObjectPropDesc: the default value has the type that is announced.         *)
LEMMA PropDescReads ==
  ASSUME NEW p \in ObjectProperties
  PROVE  PropDesc(p) \in Seq(F1) /\ ReadDesc(PropDesc(p)).rest = <<>>
<1> DEFINE int(t, x) == PushInt(t, x)
           flag == IF p = "Object_File_Name" THEN 1 ELSE 0
           form == IF p \in {"Date_Created", "Date_Modified"} THEN 3 ELSE 0
           type == desc_type[p]
           startTypes == <<"UINT16", "UINT16", "UINT8">>
           startBlocks == <<int("UINT16", p), int("UINT16", type), int("UINT8", flag)>>
           startValues == <<p, type, flag>>
           endTypes == <<"UINT32", "UINT8">>
           endBlocks == <<int("UINT32", 0), int("UINT8", form)>>
           endValues == <<0, form>>
           default == CASE p = "Object_Format" -> PushInt("UINT16", "Undefined")
                        [] p = "Object_Size"   -> PushInt("UINT64", 0)
                        [] p \in {"StorageID", "Parent_Object"} -> PushInt("UINT32", 0)
                        [] OTHER -> PushString(NoString)
           start == FlattenSeq(startBlocks)
           end == FlattenSeq(endBlocks)
<1>1. PropDesc(p) = (start \o default) \o end
  BY DEF PropDesc
<1>2. p \in Codes /\ type \in Codes /\ flag \in Nat /\ form \in Nat
  <2>1. type \in Types
    BY DEF desc_type, ObjectProperties, FileProperties, CommonProperties, Types, IntTypes, Width
  <2> QED
    BY <2>1 DEF Codes
<1>3. \E v : IsValue(F1, type, default, v)
  <2>1. "Undefined" \in Codes
    BY DEF Codes, Formats
  <2>2. CASE p = "Object_Format"
    <3>1. IsValue(F1, "UINT16", PushInt("UINT16", "Undefined"), "Undefined")
      BY <2>1, Named DEF IntTypes, Width
    <3> QED
      BY <2>2, <3>1 DEF desc_type
  <2>3. CASE p = "Object_Size"
    <3>1. IsValue(F1, "UINT64", PushInt("UINT64", 0), 0)
      BY Numbers DEF IntTypes, Width
    <3> QED
      BY <2>3, <3>1 DEF desc_type
  <2>4. CASE p \in {"StorageID", "Parent_Object"}
    <3>1. IsValue(F1, "UINT32", PushInt("UINT32", 0), 0)
      BY Numbers DEF IntTypes, Width
    <3> QED
      BY <2>4, <3>1 DEF desc_type
  <2>5. CASE p \in {"Object_File_Name", "Date_Created", "Date_Modified"}
    <3>1. IsValue(F1, "STR", PushString(NoString), AsRead(NoString))
      BY OwnStrings
    <3> QED
      BY <2>5, <3>1 DEF desc_type
  <2> QED
    BY <2>2, <2>3, <2>4, <2>5 DEF ObjectProperties, FileProperties, CommonProperties
<1> HIDE DEF default, type, flag, form
<1>4. /\ IsValue(F1, "UINT16", int("UINT16", p), p)
      /\ IsValue(F1, "UINT16", int("UINT16", type), type)
      /\ IsValue(F1, "UINT8", int("UINT8", flag), flag)
      /\ IsValue(F1, "UINT32", int("UINT32", 0), 0)
      /\ IsValue(F1, "UINT8", int("UINT8", form), form)
  BY <1>2, Numbers, Named DEF IntTypes, Width
<1> HIDE DEF int
<1>6. IsDataset(F1, startTypes, start, startValues)
  <2>1. \A i \in 1..3 : IsValue(F1, startTypes[i], startBlocks[i], startValues[i])
    BY <1>4
  <2>2. startTypes \in [1..3 -> Types]
    BY DEF Types, IntTypes, Width
  <2>3. startBlocks = [i \in 1..3 |-> startBlocks[i]] /\ startValues = [i \in 1..3 |-> startValues[i]]
    OBVIOUS
  <2> HIDE DEF startBlocks, startValues, startTypes
  <2> QED
    BY <2>1, <2>2, <2>3, ManyValues
<1>7. IsDataset(F1, endTypes, end, endValues)
  <2>1. \A i \in 1..2 : IsValue(F1, endTypes[i], endBlocks[i], endValues[i])
    BY <1>4
  <2>2. endTypes \in [1..2 -> Types]
    BY DEF Types, IntTypes, Width
  <2>3. endBlocks = [i \in 1..2 |-> endBlocks[i]] /\ endValues = [i \in 1..2 |-> endValues[i]]
    OBVIOUS
  <2> HIDE DEF endBlocks, endValues, endTypes
  <2> QED
    BY <2>1, <2>2, <2>3, ManyValues
<1>8. startValues[2] = type
  OBVIOUS
<1> HIDE DEF startBlocks, startValues, endBlocks, endValues, start, end
<1>9. PICK v : IsValue(F1, type, default, v)
  BY <1>3
<1>10. start \in Seq(F1) /\ end \in Seq(F1) /\ default \in Seq(F1) /\ <<>> \in Seq(F1)
  BY <1>6, <1>7, <1>9 DEF IsDataset, IsValue
<1> DEFINE r1 == default \o end
<1>11. r1 \in Seq(F1) /\ start \o default \in Seq(F1)
  BY <1>10, ConcatProperties
<1>12. PropDesc(p) = start \o r1
  <2>1. (start \o default) \o end = start \o (default \o end)
    BY <1>10, ConcatAssociative, SMTT(30)
  <2> QED
    BY <1>1, <2>1
<1>13. PropDesc(p) \in Seq(F1)
  <2> HIDE DEF r1
  <2> QED
    BY <1>10, <1>11, <1>12, ConcatProperties
<1>14. ReadValue(type, r1) = Popped(v, end)
  BY <1>9, <1>10 DEF IsValue
<1> HIDE DEF r1
<1>15. Read(startTypes, PropDesc(p)) = Popped(startValues, r1)
  BY <1>6, <1>11, <1>12 DEF IsDataset
<1>16. Read(endTypes, end) = Popped(endValues, <<>>)
  <2>1. Read(endTypes, end \o <<>>) = Popped(endValues, <<>>)
    BY <1>7, <1>10 DEF IsDataset
  <2>2. end \o <<>> = end
    BY <1>10, ConcatEmptySeq
  <2> QED
    BY <2>1, <2>2
<1>17. ReadDesc(PropDesc(p)).rest = <<>>
  BY <1>8, <1>14, <1>15, <1>16 DEF ReadDesc, Popped
<1> QED
  BY <1>13, <1>17

(* A whole dataset, and nothing after it.                                    *)
LEMMA WholeDataset ==
  ASSUME NEW types, NEW dataset, NEW values, IsDataset(F1, types, dataset, values)
  PROVE  dataset \in Seq(F1) /\ Read(types, dataset) = Popped(values, <<>>)
<1>1. dataset \in Seq(F1) /\ <<>> \in Seq(F1)
  BY DEF IsDataset
<1>2. Read(types, dataset \o <<>>) = Popped(values, <<>>)
  BY <1>1 DEF IsDataset
<1> QED
  BY <1>1, <1>2, ConcatEmptySeq

(* A whole value, likewise.                                                  *)
LEMMA WholeValue ==
  ASSUME NEW type, NEW block, NEW value, IsValue(F1, type, block, value)
  PROVE  block \in Seq(F1) /\ ReadValue(type, block) = Popped(value, <<>>)
<1>1. block \in Seq(F1) /\ <<>> \in Seq(F1)
  BY DEF IsValue
<1>2. ReadValue(type, block \o <<>>) = Popped(value, <<>>)
  BY <1>1 DEF IsValue
<1> QED
  BY <1>1, <1>2, ConcatEmptySeq

-------------------------------------------------------------------------------
(* What the host makes of an answer.                                         *)

(* The object is one of the program's.                                       *)
ObjectInv == IsObject(object) /\ object.handle = 2

(* The requests, by what they carry.                                         *)
PlainOps == {"GetDeviceInfo", "GetStorageIDs", "GetStorageInfo", "GetObjectHandles",
             "GetObjectInfo", "GetNumObjects"}

(* Every request is of one of these kinds.                                   *)
LEMMA RequestKinds ==
  ASSUME NEW r \in Requests
  PROVE  \/ r.op \in PlainOps
         \/ r.op \in {"GetDevicePropDesc", "GetDevicePropValue"}
         \/ r.op = "GetObjectPropsSupported" /\ r.format \in Formats
         \/ r.op \in {"GetObjectPropDesc", "GetObjectPropValue"} /\ r.prop \in Properties
         \/ r.op = "GetObjectPropList" /\ r.depth \in {0, 1}
              /\ r.format \in {"all", "Association"}
BY DEF Requests, PlainOps

(* What answers to each: the codes, and the data of those that are OK.       *)
LEMMA AnswerCases ==
  ASSUME NEW r \in Requests, Answer(r).code = "OK"
  PROVE  /\ r.op # "GetNumObjects"
         /\ r.op = "GetDeviceInfo" => Answer(r).buffer = DeviceInfo
         /\ r.op = "GetStorageIDs" => Answer(r).buffer = PushArray("UINT32", <<Id>>)
         /\ r.op = "GetStorageInfo" => Answer(r).buffer = StorageInfo
         /\ r.op = "GetObjectHandles" =>
              Answer(r).buffer = PushArray("UINT32", <<Folder.handle, object.handle>>)
         /\ r.op = "GetObjectInfo" => Answer(r).buffer = PushInfo(InfoOf(object), push_order)
         /\ r.op = "GetDevicePropDesc" =>
              /\ Contains(supported_device_properties, r.prop)
              /\ Answer(r).buffer = DevicePropDesc(r.prop)
         /\ r.op = "GetDevicePropValue" => Answer(r).buffer = DevicePropValue
         /\ r.op = "GetObjectPropsSupported" =>
              r.format \in DOMAIN supported
                /\ Answer(r).buffer = PushArray("UINT16", supported[r.format])
         /\ r.op = "GetObjectPropDesc" =>
              r.prop \in ObjectProperties /\ Answer(r).buffer = PropDesc(r.prop)
         /\ r.op = "GetObjectPropValue" =>
              r.prop \in ObjectProperties /\ Answer(r).buffer = Item(r.prop, object)
         /\ r.op = "GetObjectPropList" =>
              Answer(r).buffer =
                PropList(IF r.depth = 0 THEN <<object>> ELSE <<Folder, object>>, r.format, r.prop)
<1>1. \A x, b : Reply(b).code = "OK" /\ Reply(b).buffer = b /\ Refuse(x).code = x
  BY DEF Reply, Refuse
<1> USE DEF Answer
<1>2. r.op = "GetNumObjects" => Answer(r) = Refuse("Invalid_TransactionID")
  OBVIOUS
<1>3. r.op = "GetDeviceInfo" => Answer(r) = Reply(DeviceInfo)
  OBVIOUS
<1>4. r.op = "GetStorageIDs" => Answer(r) = Reply(PushArray("UINT32", <<Id>>))
  OBVIOUS
<1>5. r.op = "GetStorageInfo" => Answer(r) = Reply(StorageInfo)
  OBVIOUS
<1>6. r.op = "GetObjectHandles" =>
        Answer(r) = Reply(PushArray("UINT32", <<Folder.handle, object.handle>>))
  OBVIOUS
<1>7. r.op = "GetObjectInfo" => Answer(r) = Reply(PushInfo(InfoOf(object), push_order))
  OBVIOUS
<1>8. r.op = "GetDevicePropDesc" => Answer(r) = OfDeviceProp(r.prop, DevicePropDesc(r.prop))
  OBVIOUS
<1>9. r.op = "GetDevicePropValue" => Answer(r) = OfDeviceProp(r.prop, DevicePropValue)
  OBVIOUS
<1>10. r.op = "GetObjectPropsSupported" => Answer(r) = GetObjectPropsSupported(r.format)
  OBVIOUS
<1>11. r.op = "GetObjectPropDesc" => Answer(r) = GetObjectPropDesc(r.prop)
  OBVIOUS
<1>12. r.op = "GetObjectPropValue" => Answer(r) = GetObjectPropValue(r.prop)
  OBVIOUS
<1>13. r.op = "GetObjectPropList" =>
         Answer(r) = Reply(PropList(IF r.depth = 0 THEN <<object>> ELSE <<Folder, object>>,
                                    r.format, r.prop))
  OBVIOUS
<1> DEFINE answer == Answer(r)
<1> HIDE DEF Answer, answer
<1>14. \A p, b : OfDeviceProp(p, b).code = "OK" =>
                   Contains(supported_device_properties, p) /\ OfDeviceProp(p, b).buffer = b
  BY <1>1 DEF OfDeviceProp
<1>15. \A f : GetObjectPropsSupported(f).code = "OK" =>
                f \in DOMAIN supported
                  /\ GetObjectPropsSupported(f).buffer = PushArray("UINT16", supported[f])
  BY <1>1 DEF GetObjectPropsSupported
<1>16. \A p : GetObjectPropDesc(p).code = "OK" =>
                p \in ObjectProperties /\ GetObjectPropDesc(p).buffer = PropDesc(p)
  BY <1>1 DEF GetObjectPropDesc
<1>17. \A p : GetObjectPropValue(p).code = "OK" =>
                p \in ObjectProperties /\ GetObjectPropValue(p).buffer = Item(p, object)
  BY <1>1 DEF GetObjectPropValue
<1>18. r.op # "GetNumObjects"
  BY <1>1, <1>2
<1>19. r.op = "GetDevicePropDesc" =>
         Contains(supported_device_properties, r.prop) /\ Answer(r).buffer = DevicePropDesc(r.prop)
  BY <1>8, <1>14
<1>20. r.op = "GetDevicePropValue" => Answer(r).buffer = DevicePropValue
  BY <1>9, <1>14
<1>21. r.op = "GetObjectPropsSupported" =>
         r.format \in DOMAIN supported
           /\ Answer(r).buffer = PushArray("UINT16", supported[r.format])
  BY <1>10, <1>15
<1>22. r.op = "GetObjectPropDesc" =>
         r.prop \in ObjectProperties /\ Answer(r).buffer = PropDesc(r.prop)
  BY <1>11, <1>16
<1>23. r.op = "GetObjectPropValue" =>
         r.prop \in ObjectProperties /\ Answer(r).buffer = Item(r.prop, object)
  BY <1>12, <1>17
<1> QED
  BY <1>1, <1>3, <1>4, <1>5, <1>6, <1>7, <1>13, <1>18, <1>19, <1>20, <1>21, <1>22, <1>23

(* The folder is one of the program's objects.                                *)
LEMMA FolderIsObject == IsObject(Folder) /\ Folder.handle = 1
<1> DEFINE name == MakeString(<<2>>)
<1>1. IsString(name)
  <2>1. <<2>> \in Seq(Nat)
    OBVIOUS
  <2> QED
    BY <2>1 DEF IsString
<1> HIDE DEF name
<1>2. "Association" \in Formats
  BY DEF Formats
<1>3. Folder = Made(1, "Association", 0, name)
  BY DEF Folder, name
<1>4. /\ Folder.handle = 1 /\ Folder.format = "Association" /\ Folder.size = 0
      /\ Folder.name = name
  BY <1>3 DEF Made
<1> QED
  BY <1>1, <1>2, <1>3, <1>4 DEF IsObject

(* The ObjectInfo of an object, and that of the host, have their types.      *)
LEMMA EmptyInfo ==
  /\ DOMAIN NoInfo = DOMAIN InfoType
  /\ \A m \in DOMAIN InfoType :
       IF InfoType[m] = "STR" THEN NoInfo[m] = NoString ELSE NoInfo[m] \in Val
<1>1. "Undefined" \in Val /\ "GenericFolder" \in Val /\ 0 \in Val
  BY DEF Val, Codes, Formats
<1>2. DOMAIN NoInfo = DOMAIN InfoType
  BY DEF NoInfo
<1>3. ASSUME NEW m \in DOMAIN InfoType
      PROVE  IF InfoType[m] = "STR" THEN NoInfo[m] = NoString ELSE NoInfo[m] \in Val
  <2> DEFINE type == InfoType[m]
  <2> HIDE DEF type
  <2>1. NoInfo[m] = CASE type = "STR"                       -> NoString
                      [] m \in {"format", "thumbnail_format"} -> "Undefined"
                      [] m = "association_type"               -> "GenericFolder"
                      [] OTHER                                -> 0
    BY DEF NoInfo, type
  <2>3. type = "STR" => ~(m \in {"format", "thumbnail_format"}) /\ m # "association_type"
    BY DEF InfoType, type
  <2>4. CASE type = "STR"
    BY <2>1, <2>3, <2>4 DEF type
  <2>5. CASE type # "STR"
    BY <1>1, <2>1, <2>5 DEF type
  <2> QED
    BY <2>4, <2>5
<1> QED
  BY <1>2, <1>3

(* That of the object.                                                       *)
LEMMA InfoIsInfo ==
  ASSUME IsObject(object)
  PROVE  IsInfo(InfoOf(object))
<1> DEFINE wrapped == object.size % WordSize
           o == object
           created == DateTime(IF is_file(o) THEN get_timestamp.created ELSE 0)
           modified == DateTime(IF is_file(o) THEN get_timestamp.modified ELSE 0)
<1>1. o.format \in Val /\ o.parent \in Val /\ Id \in Val /\ wrapped \in Val
  <2>1. o.parent = RootHandle /\ o.size \in Nat
    BY DEF IsObject, Made
  <2>2. wrapped \in Nat
    BY <2>1, DatasetAssumption
  <2> HIDE DEF wrapped
  <2> QED
    BY <2>1, <2>2 DEF IsObject, Val, Codes, Id, RootHandle
<1>2. IsString(o.name) /\ IsString(created) /\ IsString(modified)
  BY DateIsString, TimestampIsNat DEF IsObject
<1>3. InfoOf(o) = [NoInfo EXCEPT !.storage_id = Id, !.format = o.format,
                     !.compressed_size = wrapped, !.parent = o.parent,
                     !.filename = o.name, !.created = created, !.modified = modified]
  BY DEF InfoOf
<1>4. IsString(NoString)
  BY DEF IsString
<1> HIDE DEF wrapped, created, modified, o
<1> DEFINE info == InfoOf(o)
<1> HIDE DEF info
<1>5. /\ info.storage_id = Id /\ info.format = o.format /\ info.compressed_size = wrapped
      /\ info.parent = o.parent /\ info.filename = o.name /\ info.created = created
      /\ info.modified = modified
  BY <1>3, EmptyInfo DEF InfoType, info
<1>6. ASSUME NEW m \in DOMAIN InfoType
      PROVE  IF InfoType[m] = "STR" THEN IsString(info[m]) ELSE info[m] \in Val
  <2>1. CASE m \in {"storage_id", "format", "compressed_size", "parent"}
    BY <1>1, <1>5, <2>1 DEF InfoType
  <2>2. CASE m \in {"filename", "created", "modified"}
    BY <1>2, <1>5, <2>2 DEF InfoType
  <2>3. CASE m \notin {"storage_id", "format", "compressed_size", "parent", "filename",
                        "created", "modified"}
    <3>1. info[m] = NoInfo[m]
      BY <1>3, <2>3, EmptyInfo DEF info
    <3> QED
      BY <1>4, <3>1, EmptyInfo
  <2> QED
    BY <2>1, <2>2, <2>3
<1>7. IsInfo(info)
  BY <1>6 DEF IsInfo
<1> QED
  BY <1>7 DEF info, o

(* How the host reads, by operation.                                         *)
LEMMA HostReadsCases ==
  /\ request.op = "GetDeviceInfo" => HostReads = Read(DeviceInfoTypes, got)
  /\ request.op \in {"GetStorageIDs", "GetObjectHandles"} => HostReads = Read(<<"AUINT32">>, got)
  /\ request.op = "GetStorageInfo" => HostReads = Read(StorageInfoTypes, got)
  /\ request.op = "GetObjectInfo" =>
       HostReads = Read([i \in DOMAIN InfoDataset |-> InfoType[InfoDataset[i]]], got)
  /\ request.op = "GetDevicePropDesc" => HostReads = Read(DevicePropDescTypes, got)
  /\ request.op = "GetDevicePropValue" => HostReads = Read(<<"STR">>, got)
  /\ request.op = "GetObjectPropsSupported" => HostReads = Read(<<"AUINT16">>, got)
  /\ request.op = "GetObjectPropDesc" => HostReads = ReadDesc(got)
  /\ request.op = "GetObjectPropValue" => HostReads = ReadValue(desc_type[request.prop], got)
  /\ request.op = "GetObjectPropList" => HostReads = ReadList(got)
<1>1. request.op = "GetDeviceInfo" => HostReads = Read(DeviceInfoTypes, got)
  BY DEF HostReads, DeviceInfoTypes
<1>2. request.op \in {"GetStorageIDs", "GetObjectHandles"} => HostReads = Read(<<"AUINT32">>, got)
  BY DEF HostReads
<1>3. request.op = "GetStorageInfo" => HostReads = Read(StorageInfoTypes, got)
  BY DEF HostReads, StorageInfoTypes
<1>4. request.op = "GetObjectInfo" =>
       HostReads = Read([i \in DOMAIN InfoDataset |-> InfoType[InfoDataset[i]]], got)
  BY DEF HostReads
<1>5. request.op = "GetDevicePropDesc" => HostReads = Read(DevicePropDescTypes, got)
  BY DEF HostReads, DevicePropDescTypes
<1>6. request.op = "GetDevicePropValue" => HostReads = Read(<<"STR">>, got)
  BY DEF HostReads
<1>7. request.op = "GetObjectPropsSupported" => HostReads = Read(<<"AUINT16">>, got)
  BY DEF HostReads
<1>8. request.op = "GetObjectPropDesc" => HostReads = ReadDesc(got)
  BY DEF HostReads
<1>9. request.op = "GetObjectPropValue" => HostReads = ReadValue(desc_type[request.prop], got)
  BY DEF HostReads
<1>10. request.op = "GetObjectPropList" => HostReads = ReadList(got)
  BY DEF HostReads
<1> QED
  BY <1>1, <1>2, <1>3, <1>4, <1>5, <1>6, <1>7, <1>8, <1>9, <1>10

(* The properties named for a format are codes.                              *)
LEMMA SupportedCodes ==
  ASSUME NEW format \in DOMAIN supported
  PROVE  supported[format] \in Seq(Val)
<1>1. ObjectProperties \subseteq Val
  BY DEF Val, Codes
<1>2. /\ "StorageID" \in Val /\ "Object_Format" \in Val /\ "Object_Size" \in Val
      /\ "Object_File_Name" \in Val /\ "Date_Created" \in Val /\ "Date_Modified" \in Val
      /\ "Parent_Object" \in Val
  BY <1>1 DEF ObjectProperties, FileProperties, CommonProperties
<1>3. CASE format = "Undefined"
  BY <1>2, <1>3 DEF supported
<1>4. CASE format = "Association"
  BY <1>2, <1>4 DEF supported
<1> QED
  BY <1>3, <1>4 DEF supported

(* The ObjectInfo of the object is read as it is.                            *)
LEMMA InfoOfReads ==
  ASSUME IsObject(object)
  PROVE  IsDataset(F1, [i \in DOMAIN push_order |-> InfoType[push_order[i]]],
                   PushInfo(InfoOf(object), push_order),
                   [i \in DOMAIN push_order |-> InfoAs(InfoOf(object), push_order[i])])
<1> DEFINE info == InfoOf(object)
<1>1. push_order \in [1..19 -> DOMAIN InfoType] /\ 19 \in Nat
  BY DEF push_order, InfoType
<1>2. IsInfo(info)
  BY InfoIsInfo
<1> HIDE DEF info
<1>3. IsDataset(F1, [i \in DOMAIN push_order |-> InfoType[push_order[i]]],
                PushInfo(info, push_order),
                [i \in DOMAIN push_order |-> InfoAs(info, push_order[i])])
  BY <1>1, <1>2, InfoReads
<1> QED
  BY <1>3 DEF info

(* The objects of a list.                                                    *)
Asked(r) == IF r.depth = 0 THEN <<object>> ELSE <<Folder, object>>

(* Their list is one that can be read.                                       *)
LEMMA AnswerList ==
  ASSUME ObjectInv, NEW r
  PROVE  \E listed : ListIs(listed, {Folder, object}, Asked(r), r.format, r.prop)
<1> DEFINE Os == {Folder, object}
<1>1. \A o \in Os : IsObject(o)
  BY FolderIsObject DEF ObjectInv
<1>2. Asked(r) \in Seq(Os)
  <2> DEFINE a == Folder
             b == object
  <2> HIDE DEF a, b
  <2>1. <<b>> \in Seq({a, b}) /\ <<a, b>> \in Seq({a, b})
    OBVIOUS
  <2> QED
    BY <2>1 DEF Asked, a, b
<1> HIDE DEF Os
<1>3. \E listed : ListIs(listed, Os, Asked(r), r.format, r.prop)
  BY <1>1, <1>2, ListReads
<1> QED
  BY <1>3 DEF Os

(* Every answer that is OK is data that the host reads to its end.           *)
LEMMA AnswerReads ==
  ASSUME ObjectInv, NEW r \in Requests, Answer(r).code = "OK"
  PROVE  /\ Answer(r).buffer \in Seq(F1)
         /\ request = r /\ got = Answer(r).buffer => HostReads.rest = <<>>
<1> DEFINE b == Answer(r).buffer
           Good == b \in Seq(F1) /\ (request = r /\ got = b => HostReads.rest = <<>>)
<1> SUFFICES Good
  OBVIOUS
<1>0. \A v, rest : Popped(v, rest).rest = rest
  BY DEF Popped
<1>a. ASSUME NEW types, NEW values, IsDataset(F1, types, b, values),
             request = r /\ got = b => HostReads = Read(types, got)
      PROVE  Good
  <2>1. b \in Seq(F1) /\ Read(types, b) = Popped(values, <<>>)
    BY <1>a, WholeDataset
  <2> HIDE DEF b
  <2> QED
    BY <1>0, <1>a, <2>1
<1>v. ASSUME NEW type, NEW value, IsValue(F1, type, b, value),
             request = r /\ got = b => HostReads = Read(<<type>>, got)
      PROVE  Good
  <2>1. IsDataset(F1, <<type>>, b, <<value>>)
    BY <1>v, OneValue
  <2> HIDE DEF b
  <2> QED
    BY <1>a, <1>v, <2>1
<1>1. CASE r.op = "GetDeviceInfo"
  <2>1. b = DeviceInfo
    BY <1>1, AnswerCases
  <2>2. request = r /\ got = b => HostReads = Read(DeviceInfoTypes, got)
    BY <1>1, HostReadsCases
  <2> HIDE DEF b, Good
  <2> QED
    BY <1>a, <2>1, <2>2, DeviceInfoReads
<1>2. CASE r.op \in {"GetStorageIDs", "GetObjectHandles"}
  <2> DEFINE ids == IF r.op = "GetStorageIDs" THEN <<Id>> ELSE <<Folder.handle, object.handle>>
  <2>1. b = PushArray("UINT32", ids)
    BY <1>2, AnswerCases
  <2>2. request = r /\ got = b => HostReads = Read(<<"AUINT32">>, got)
    BY <1>2, HostReadsCases
  <2>3. ids \in Seq(Val)
    <3> DEFINE f == Folder.handle
               g == object.handle
    <3>1. f \in Val /\ g \in Val /\ Id \in Val
      BY FolderIsObject DEF ObjectInv, IsObject, Id, Val
    <3> HIDE DEF f, g
    <3>2. <<Id>> \in Seq(Val) /\ <<f, g>> \in Seq(Val)
      BY <3>1
    <3> QED
      BY <3>2 DEF f, g
  <2>4. ElementType("AUINT32") = "UINT32"
    BY DEF ElementType
  <2> HIDE DEF b, Good, ids
  <2>5. IsValue(F1, "AUINT32", b, ids)
    BY <2>1, <2>3, <2>4, OwnArrays
  <2> QED
    BY <1>v, <2>2, <2>5
<1>3. CASE r.op = "GetStorageInfo"
  <2>1. b = StorageInfo
    BY <1>3, AnswerCases
  <2>2. request = r /\ got = b => HostReads = Read(StorageInfoTypes, got)
    BY <1>3, HostReadsCases
  <2> HIDE DEF b, Good
  <2> QED
    BY <1>a, <2>1, <2>2, StorageInfoReads
<1>4. CASE r.op = "GetObjectInfo"
  <2> DEFINE types == [i \in DOMAIN push_order |-> InfoType[push_order[i]]]
             values == [i \in DOMAIN push_order |-> InfoAs(InfoOf(object), push_order[i])]
  <2>1. b = PushInfo(InfoOf(object), push_order)
    BY <1>4, AnswerCases
  <2>2. request = r /\ got = b => HostReads = Read(types, got)
    BY <1>4, HostReadsCases DEF push_order, InfoDataset
  <2>3. IsDataset(F1, types, b, values)
    BY <2>1, InfoOfReads DEF ObjectInv
  <2> HIDE DEF b, Good, types, values
  <2> QED
    BY <1>a, <2>2, <2>3
<1>5. CASE r.op = "GetDevicePropDesc"
  <2>1. b = DevicePropDesc(r.prop) /\ Contains(supported_device_properties, r.prop)
    BY <1>5, AnswerCases
  <2>2. request = r /\ got = b => HostReads = Read(DevicePropDescTypes, got)
    BY <1>5, HostReadsCases
  <2>3. PICK values : IsDataset(F1, DevicePropDescTypes, DevicePropDesc(r.prop), values)
    BY <2>1, DevicePropDescReads
  <2> HIDE DEF b, Good
  <2> QED
    BY <1>a, <2>1, <2>2, <2>3
<1>6. CASE r.op = "GetDevicePropValue"
  <2>1. b = PushString(MakeString(<<1>>))
    BY <1>6, AnswerCases DEF DevicePropValue
  <2>2. request = r /\ got = b => HostReads = Read(<<"STR">>, got)
    BY <1>6, HostReadsCases
  <2>3. IsValue(F1, "STR", PushString(MakeString(<<1>>)), AsRead(MakeString(<<1>>)))
    BY OwnStrings
  <2> HIDE DEF b, Good
  <2> QED
    BY <1>v, <2>1, <2>2, <2>3
<1>7. CASE r.op = "GetObjectPropsSupported"
  <2> DEFINE props == supported[r.format]
  <2>1. b = PushArray("UINT16", props) /\ r.format \in DOMAIN supported
    BY <1>7, AnswerCases
  <2>2. request = r /\ got = b => HostReads = Read(<<"AUINT16">>, got)
    BY <1>7, HostReadsCases
  <2>3. props \in Seq(Val)
    BY <2>1, SupportedCodes
  <2>4. ElementType("AUINT16") = "UINT16"
    BY DEF ElementType
  <2> HIDE DEF b, Good, props
  <2>5. IsValue(F1, "AUINT16", b, props)
    BY <2>1, <2>3, <2>4, OwnArrays
  <2> QED
    BY <1>v, <2>2, <2>5
<1>8. CASE r.op = "GetObjectPropDesc"
  <2>1. b = PropDesc(r.prop) /\ r.prop \in ObjectProperties
    BY <1>8, AnswerCases
  <2>2. request = r /\ got = b => HostReads = ReadDesc(got)
    BY <1>8, HostReadsCases
  <2>3. PropDesc(r.prop) \in Seq(F1) /\ ReadDesc(PropDesc(r.prop)).rest = <<>>
    BY <2>1, PropDescReads
  <2> HIDE DEF b
  <2> QED
    BY <2>1, <2>2, <2>3
<1>9. CASE r.op = "GetObjectPropValue"
  <2>1. b = Item(r.prop, object) /\ r.prop \in ObjectProperties
    BY <1>9, AnswerCases
  <2>2. request = r /\ got = b => HostReads = ReadValue(desc_type[r.prop], got)
    BY <1>9, HostReadsCases
  <2> DEFINE type == desc_type[r.prop]
             value == ItemOf(r.prop, object)
  <2>3. IsValue(F1, type, b, value)
    BY <2>1, ItemValue DEF ObjectInv
  <2> HIDE DEF b, type, value
  <2>4. b \in Seq(F1) /\ ReadValue(type, b) = Popped(value, <<>>)
    BY <2>3, WholeValue
  <2> QED
    BY <1>0, <2>2, <2>4 DEF type
<1>10. CASE r.op = "GetObjectPropList"
  <2>1. b = PropList(Asked(r), r.format, r.prop)
    BY <1>10, AnswerCases DEF Asked
  <2>2. request = r /\ got = b => HostReads = ReadList(got)
    BY <1>10, HostReadsCases
  <2>3. PICK listed : ListIs(listed, {Folder, object}, Asked(r), r.format, r.prop)
    BY AnswerList
  <2> DEFINE values == [i \in 1..Len(listed) |-> ElementOf(listed[i].prop, listed[i].of)]
  <2>4. b \in Seq(F1) /\ ReadList(b) = Popped(values, <<>>)
    BY <2>1, <2>3 DEF ListIs
  <2> HIDE DEF b, values
  <2> QED
    BY <1>0, <2>2, <2>4
<1> HIDE DEF b, Good
<1>11. r.op # "GetNumObjects"
  BY AnswerCases
<1> QED
  BY <1>1, <1>2, <1>3, <1>4, <1>5, <1>6, <1>7, <1>8, <1>9, <1>10, <1>11, RequestKinds DEF PlainOps

(* What a reader makes of a property is what Says has of it.                 *)
LEMMA ItemSays ==
  ASSUME IsObject(object), NEW p \in ObjectProperties,
         is_file(object) \/ p \in CommonProperties
  PROVE  Says(p, ItemOf(p, object))
<1>1. Fits(object.name.chars) => AsRead(object.name) = object.name
  BY StringRead DEF IsObject
<1>2. /\ AsRead(DateTime(get_timestamp.created)) = DateTime(get_timestamp.created)
      /\ AsRead(DateTime(get_timestamp.modified)) = DateTime(get_timestamp.modified)
  BY DateIsString, TimestampIsNat
<1>3. CASE p = "StorageID"
  BY <1>3 DEF Says, ItemOf
<1>4. CASE p = "Object_Format"
  BY <1>4 DEF Says, ItemOf
<1>5. CASE p = "Object_Size"
  BY <1>5 DEF Says, ItemOf
<1>6. CASE p = "Object_File_Name"
  BY <1>1, <1>6 DEF Says, ItemOf
<1>7. CASE p = "Parent_Object"
  BY <1>7 DEF Says, ItemOf
<1>8. CASE p \in {"Date_Created", "Date_Modified"}
  BY <1>2, <1>8 DEF Says, ItemOf, DateOf, CommonProperties
<1> QED
  BY <1>3, <1>4, <1>5, <1>6, <1>7, <1>8 DEF ObjectProperties, FileProperties, CommonProperties

(* The request has been answered with its data, and the host has it.         *)
HostHas ==
  /\ ObjectInv /\ request \in Requests /\ Answer(request).code = "OK"
  /\ got = Answer(request).buffer

(* The value of a property.                                                  *)
LEMMA ValueRead ==
  ASSUME HostHas, request.op = "GetObjectPropValue"
  PROVE  /\ request.prop \in ObjectProperties
         /\ HostReads.value = ItemOf(request.prop, object)
<1> DEFINE p == request.prop
           type == desc_type[p]
           value == ItemOf(p, object)
           b == Item(p, object)
<1>1. p \in ObjectProperties /\ got = b
  BY AnswerCases DEF HostHas
<1>2. HostReads = ReadValue(type, got)
  BY HostReadsCases
<1>3. IsValue(F1, type, b, value)
  BY <1>1, ItemValue DEF HostHas, ObjectInv
<1> HIDE DEF b, type, value
<1>4. HostReads = Popped(value, <<>>)
  BY <1>1, <1>2, <1>3, WholeValue
<1> QED
  BY <1>1, <1>4 DEF Popped, value

(* ObjectInfo.                                                               *)
LEMMA ObjectInfoRead ==
  ASSUME HostHas, request.op = "GetObjectInfo"
  PROVE  LET read == HostReads.value
         IN  /\ read[1] = Id /\ read[2] = object.format
             /\ read[4] = object.size % WordSize
             /\ read[12] = object.parent /\ read[16] = AsRead(object.name)
             /\ read[17] = DateTime(DateOf.created)
             /\ read[18] = DateTime(DateOf.modified)
<1> DEFINE types == [i \in DOMAIN push_order |-> InfoType[push_order[i]]]
           values == [i \in DOMAIN push_order |-> InfoAs(InfoOf(object), push_order[i])]
           b == PushInfo(InfoOf(object), push_order)
           info == InfoOf(object)
           wrapped == object.size % WordSize
           o == object
           created == DateTime(IF is_file(o) THEN get_timestamp.created ELSE 0)
           modified == DateTime(IF is_file(o) THEN get_timestamp.modified ELSE 0)
<1>1. got = b
  BY AnswerCases DEF HostHas
<1>2. HostReads = Read(types, got)
  BY HostReadsCases DEF push_order, InfoDataset
<1>3. IsDataset(F1, types, b, values)
  BY InfoOfReads DEF HostHas, ObjectInv
<1>4. HostReads.value = values
  <2> HIDE DEF b, types, values
  <2>1. HostReads = Popped(values, <<>>)
    BY <1>1, <1>2, <1>3, WholeDataset
  <2> QED
    BY <2>1 DEF Popped
<1>5. info = [NoInfo EXCEPT !.storage_id = Id, !.format = o.format,
                     !.compressed_size = wrapped, !.parent = o.parent,
                     !.filename = o.name, !.created = created, !.modified = modified]
  BY DEF InfoOf
<1> HIDE DEF wrapped, created, modified, o
<1>6. /\ info.storage_id = Id /\ info.format = o.format /\ info.compressed_size = wrapped
      /\ info.parent = o.parent /\ info.filename = o.name /\ info.created = created
      /\ info.modified = modified
  BY <1>5, EmptyInfo DEF InfoType
<1> HIDE DEF info
<1>7. AsRead(created) = created /\ AsRead(modified) = modified
  BY DateIsString, TimestampIsNat DEF created, modified
<1>8. ASSUME NEW i \in 1..19 PROVE values[i] = InfoAs(info, push_order[i])
  BY DEF push_order, info
<1>9. /\ push_order[1] = "storage_id" /\ push_order[2] = "format"
      /\ push_order[4] = "compressed_size" /\ push_order[12] = "parent"
      /\ push_order[16] = "filename" /\ push_order[17] = "created" /\ push_order[18] = "modified"
  BY DEF push_order
<1> HIDE DEF values
<1>10. values[1] = Id /\ values[2] = o.format
  BY <1>6, <1>8, <1>9 DEF InfoAs, InfoType
<1>11. values[4] = wrapped /\ values[12] = o.parent
  BY <1>6, <1>8, <1>9 DEF InfoAs, InfoType
<1>12. values[16] = AsRead(o.name)
  BY <1>6, <1>8, <1>9 DEF InfoAs, InfoType
<1>13. values[17] = created /\ values[18] = modified
  BY <1>6, <1>7, <1>8, <1>9 DEF InfoAs, InfoType
<1>14. created = DateTime(DateOf.created) /\ modified = DateTime(DateOf.modified)
  BY DEF created, modified, o, DateOf
<1> QED
  BY <1>4, <1>10, <1>11, <1>12, <1>13, <1>14 DEF o, wrapped

(* A list: the elements with the object's handle are its properties, those   *)
(* that were asked for and that it has.                                      *)
LEMMA ListRead ==
  ASSUME HostHas, request.op = "GetObjectPropList"
  PROVE  LET list == HostReads.value
             mine == {i \in DOMAIN list : list[i].handle = object.handle}
         IN  /\ \A i \in mine :
                  /\ list[i].prop \in ObjectProperties
                  /\ list[i].value = ItemOf(list[i].prop, object)
             /\ {list[i].prop : i \in mine} =
                  {p \in ObjectProperties : Listed(p, object, request.format, request.prop)}
<1> DEFINE b == PropList(Asked(request), request.format, request.prop)
           o == object
           f == Folder
           asked == Asked(request)
           format == request.format
           prop == request.prop
<1>1. got = b
  BY AnswerCases DEF HostHas, Asked
<1>2. HostReads = ReadList(got)
  BY HostReadsCases
<1>3. PICK listed : ListIs(listed, {f, o}, asked, format, prop)
  BY AnswerList DEF HostHas
<1> DEFINE list == [i \in 1..Len(listed) |-> ElementOf(listed[i].prop, listed[i].of)]
           mine == {i \in DOMAIN list : list[i].handle = o.handle}
<1>4. HostReads.value = list
  BY <1>1, <1>2, <1>3 DEF ListIs, Popped
<1>5. f.handle # o.handle
  BY FolderIsObject DEF HostHas, ObjectInv
<1>6. o \in ToSet(asked)
  BY DEF Asked, ToSet
<1>7. listed \in Seq(Entries({f, o}))
  BY <1>3 DEF ListIs
<1>8. \A x : x \in ToSet(listed) <=>
               \E a \in ToSet(asked), p \in ObjectProperties :
                 Listed(p, a, format, prop) /\ x = Entry(p, a)
  BY <1>3 DEF ListIs
<1> HIDE DEF o, f, asked, format, prop
<1>9. ASSUME NEW i \in 1..Len(listed)
      PROVE  /\ listed[i].prop \in ObjectProperties /\ listed[i].of \in {f, o}
             /\ listed[i] = Entry(listed[i].prop, listed[i].of)
             /\ listed[i] \in ToSet(listed)
  <2>1. listed[i] \in Entries({f, o}) /\ DOMAIN listed = 1..Len(listed)
    BY <1>7, ElementOfSeq, LenProperties
  <2> QED
    BY <2>1 DEF Entries, Entry, ToSet
<1>10. ASSUME NEW i \in 1..Len(listed)
       PROVE  /\ list[i].handle = listed[i].of.handle /\ list[i].prop = listed[i].prop
              /\ list[i].value = ItemOf(listed[i].prop, listed[i].of)
  BY DEF ElementOf
<1>11. DOMAIN list = 1..Len(listed)
  OBVIOUS
<1> HIDE DEF list
<1>12. \A i \in mine : i \in 1..Len(listed) /\ listed[i].of = o
  BY <1>5, <1>9, <1>10, <1>11
<1>13. \A i \in 1..Len(listed) : listed[i].of = o => i \in mine
  BY <1>10, <1>11
<1> HIDE DEF mine
<1>14. \A i \in mine : list[i].prop \in ObjectProperties
                         /\ list[i].value = ItemOf(list[i].prop, o)
  BY <1>9, <1>10, <1>12
<1>15. ASSUME NEW i \in mine PROVE Listed(list[i].prop, o, format, prop)
  <2>1. i \in 1..Len(listed) /\ listed[i].of = o /\ list[i].prop = listed[i].prop
    BY <1>10, <1>12
  <2>2. PICK a \in ToSet(asked), p \in ObjectProperties :
               Listed(p, a, format, prop) /\ listed[i] = Entry(p, a)
    BY <1>8, <1>9, <2>1
  <2>3. p = listed[i].prop /\ a = listed[i].of
    BY <2>2 DEF Entry
  <2> QED
    BY <2>1, <2>2, <2>3
<1>16. ASSUME NEW p \in ObjectProperties, Listed(p, o, format, prop)
       PROVE  \E i \in mine : list[i].prop = p
  <2>1. Entry(p, o) \in ToSet(listed)
    BY <1>6, <1>8, <1>16 DEF asked, o
  <2>2. PICK i \in 1..Len(listed) : listed[i] = Entry(p, o)
    BY <1>7, <2>1, LenProperties DEF ToSet
  <2>3. listed[i].of = o /\ listed[i].prop = p
    BY <2>2 DEF Entry
  <2> QED
    BY <1>10, <1>13, <2>3
<1>17. {list[i].prop : i \in mine} = {p \in ObjectProperties : Listed(p, o, format, prop)}
  BY <1>14, <1>15, <1>16
<1> QED
  BY <1>4, <1>14, <1>17 DEF mine, o, format, prop

-------------------------------------------------------------------------------
(* What the server makes of the host's data.                                 *)

(* What the host tells, and the data that goes with it.                      *)
Tellings ==
  [op : {"SendObjectInfo"}, name : HostNames, format : Formats, size : Sizes]
  \cup [op : {"SetObjectPropValue"}, name : HostNames,
        prop : {"Object_File_Name", "Date_Modified"}]
HostInfo(r) ==
  [NoInfo EXCEPT !.format = r.format, !.compressed_size = r.size,
                 !.filename = MakeString(r.name)]
Dataset(r) ==
  IF r.op = "SendObjectInfo" THEN PushInfo(HostInfo(r), InfoDataset)
                             ELSE PushString(MakeString(r.name))

(* What it carries.                                                          *)
LEMMA TellingParts ==
  ASSUME NEW r \in Tellings
  PROVE  /\ r.name \in HostNames /\ r.name \in Seq(Nat) /\ Fits(r.name)
         /\ \/ r.op = "SendObjectInfo" /\ r.format \in Formats /\ r.size \in Sizes /\ r.size \in Nat
            \/ r.op = "SetObjectPropValue" /\ r.prop \in {"Object_File_Name", "Date_Modified"}
         /\ r \notin Requests
<1>1. r.name \in HostNames
  BY DEF Tellings
<1>2. \/ r.op = "SendObjectInfo" /\ r.format \in Formats /\ r.size \in Sizes
      \/ r.op = "SetObjectPropValue" /\ r.prop \in {"Object_File_Name", "Date_Modified"}
  BY DEF Tellings
<1>3. ASSUME r \in Requests PROVE FALSE
  BY <1>2, <1>3, RequestKinds DEF PlainOps
<1> QED
  BY <1>1, <1>2, <1>3, DatasetAssumption

(* A name of the host is read as it is.                                      *)
LEMMA HostName ==
  ASSUME NEW name \in HostNames
  PROVE  /\ IsString(MakeString(name)) /\ MakeString(name).chars = name
         /\ AsRead(MakeString(name)) = MakeString(name)
<1>1. name \in Seq(Nat) /\ Fits(name)
  BY DatasetAssumption
<1>2. IsString(MakeString(name))
  BY <1>1 DEF IsString
<1>3. MakeString(name).chars = name
  BY DEF MakeString
<1> QED
  BY <1>1, <1>2, <1>3, StringRead

(* The host's ObjectInfo.                                                    *)
LEMMA HostInfoIs ==
  ASSUME NEW r \in Tellings, r.op = "SendObjectInfo"
  PROVE  /\ IsInfo(HostInfo(r))
         /\ HostInfo(r).format = r.format /\ HostInfo(r).compressed_size = r.size
         /\ HostInfo(r).filename = MakeString(r.name)
<1> DEFINE info == HostInfo(r)
           name == MakeString(r.name)
<1>1. r.format \in Val /\ r.size \in Val /\ IsString(name)
  BY TellingParts, HostName DEF Val, Codes
<1>2. info = [NoInfo EXCEPT !.format = r.format, !.compressed_size = r.size,
                            !.filename = name]
  BY DEF HostInfo
<1>3. IsString(NoString)
  BY DEF IsString
<1> HIDE DEF name, info
<1>4. info.format = r.format /\ info.compressed_size = r.size /\ info.filename = name
  BY <1>2, EmptyInfo DEF InfoType
<1>5. ASSUME NEW m \in DOMAIN InfoType
      PROVE  IF InfoType[m] = "STR" THEN IsString(info[m]) ELSE info[m] \in Val
  <2>1. CASE m \in {"format", "compressed_size", "filename"}
    BY <1>1, <1>4, <2>1 DEF InfoType
  <2>2. CASE m \notin {"format", "compressed_size", "filename"}
    <3>1. info[m] = NoInfo[m]
      BY <1>2, <2>2, EmptyInfo
    <3> QED
      BY <1>3, <3>1, EmptyInfo
  <2> QED
    BY <2>1, <2>2
<1>6. IsInfo(info)
  BY <1>5 DEF IsInfo
<1> QED
  BY <1>4, <1>6 DEF info, name

(* ObjectInfo as the host sends it is popped as it was meant, as pop_order   *)
(* is the order of the standard.                                             *)
LEMMA InfoPopped ==
  ASSUME NEW r \in Tellings, r.op = "SendObjectInfo"
  PROVE  /\ Dataset(r) \in Seq(F1)
         /\ PopInfo(Dataset(r)).format = r.format
         /\ PopInfo(Dataset(r)).compressed_size = r.size
         /\ PopInfo(Dataset(r)).filename = MakeString(r.name)
<1> DEFINE info == HostInfo(r)
           b == PushInfo(info, InfoDataset)
           types == [i \in DOMAIN pop_order |-> InfoType[pop_order[i]]]
           values == [i \in DOMAIN pop_order |-> InfoAs(info, pop_order[i])]
           at(m) == CHOOSE i \in DOMAIN pop_order : pop_order[i] = m
<1>1. IsInfo(info)
  BY HostInfoIs
<1>2. pop_order \in [1..19 -> DOMAIN InfoType] /\ 19 \in Nat /\ pop_order = InfoDataset
  BY DEF pop_order, InfoDataset, InfoType
<1>3. IsDataset(F1, types, b, values)
  <2> HIDE DEF info
  <2>1. IsDataset(F1, [i \in DOMAIN pop_order |-> InfoType[pop_order[i]]],
                  PushInfo(info, pop_order),
                  [i \in DOMAIN pop_order |-> InfoAs(info, pop_order[i])])
    BY <1>1, <1>2, InfoReads
  <2> QED
    BY <1>2, <2>1
<1>4. b \in Seq(F1) /\ Read(types, b) = Popped(values, <<>>)
  <2> HIDE DEF b, types, values
  <2> QED
    BY <1>3, WholeDataset
<1>5. PopInfo(b) = [m \in DOMAIN InfoType |-> values[at(m)]]
  <2> HIDE DEF b, values
  <2>1. Read(types, b).value = values
    BY <1>4 DEF Popped
  <2> QED
    BY <2>1 DEF PopInfo
<1>6. ASSUME NEW m \in {"format", "compressed_size", "filename"}
      PROVE  values[at(m)] = InfoAs(info, m)
  <2>1. \E i \in DOMAIN pop_order : pop_order[i] = m
    BY DEF pop_order
  <2>2. at(m) \in DOMAIN pop_order /\ pop_order[at(m)] = m
    BY <2>1
  <2> HIDE DEF at
  <2> QED
    BY <2>2
<1>7. InfoAs(info, "format") = r.format /\ InfoAs(info, "compressed_size") = r.size
  BY HostInfoIs DEF InfoAs, InfoType
<1>8. InfoAs(info, "filename") = MakeString(r.name)
  <2>1. info.filename = MakeString(r.name)
    BY HostInfoIs
  <2>2. AsRead(MakeString(r.name)) = MakeString(r.name)
    BY TellingParts, HostName
  <2> HIDE DEF info
  <2> QED
    BY <2>1, <2>2 DEF InfoAs, InfoType
<1>9. Dataset(r) = b
  BY DEF Dataset
<1> HIDE DEF values, at, b, info
<1>10. PopInfo(b).format = values[at("format")] /\ PopInfo(b).filename = values[at("filename")]
       /\ PopInfo(b).compressed_size = values[at("compressed_size")]
  BY <1>5 DEF InfoType
<1> QED
  BY <1>4, <1>6, <1>7, <1>8, <1>9, <1>10

(* A new name of the host's likewise.                                        *)
LEMMA NamePopped ==
  ASSUME NEW r \in Tellings, r.op = "SetObjectPropValue"
  PROVE  /\ Dataset(r) \in Seq(F1)
         /\ PopString(Dataset(r)).value = MakeString(r.name)
<1> DEFINE s == MakeString(r.name)
           b == PushString(s)
<1>1. IsString(s) /\ AsRead(s) = s /\ Nat \subseteq Val
  BY TellingParts, HostName DEF Val
<1> HIDE DEF s
<1>2. IsValue(F1, "STR", b, s)
  BY <1>1, StringValue DEF F1
<1> HIDE DEF b
<1>3. b \in Seq(F1) /\ ReadValue("STR", b) = Popped(s, <<>>)
  BY <1>2, WholeValue
<1>4. ReadValue("STR", b) = PopString(b)
  BY DEF ReadValue, IntTypes, Width
<1>5. Dataset(r) = b
  BY DEF Dataset, b, s
<1> QED
  BY <1>3, <1>4, <1>5 DEF Popped, s

-------------------------------------------------------------------------------
(* Names of files.                                                           *)

(* A file's name is the characters' bytes up to the first that is none; one  *)
(* whose characters are all bytes keeps its name.                            *)
LEMMA NamesOfFiles ==
  ASSUME NEW chars \in Seq(Nat)
  PROVE  PathName(chars) \in Seq(Nat) /\ (Plain(chars) => PathName(chars) = chars)
<1> DEFINE bytes == to_utf8(chars)
           n == Len(chars)
<1>1. n \in Nat /\ DOMAIN chars = 1..n /\ \A i \in 1..n : chars[i] \in Nat
  BY LenProperties, ElementOfSeq
<1>2. bytes = [i \in 1..n |-> chars[i] % ByteSize]
  BY <1>1 DEF to_utf8
<1>3. \A i \in 1..n : chars[i] % ByteSize \in Nat
  BY <1>1, CodecAssumption
<1> HIDE DEF bytes, n
<1>4. bytes \in Seq(Nat) /\ Len(bytes) = n /\ DOMAIN bytes = 1..n
  BY <1>1, <1>2, <1>3, LenProperties
<1>5. Plain(chars) => bytes = chars /\ ~Contains(bytes, NUL)
  <2> SUFFICES ASSUME Plain(chars) PROVE bytes = chars /\ ~Contains(bytes, NUL)
    OBVIOUS
  <2>1. \A i \in 1..n : chars[i] \in 1..(ByteSize - 1)
    BY <1>1 DEF Plain
  <2>2. \A i \in 1..n : chars[i] % ByteSize = chars[i] /\ chars[i] # 0
    <3> TAKE i \in 1..n
    <3> DEFINE c == chars[i]
    <3>1. c \in 1..(ByteSize - 1)
      BY <2>1
    <3> HIDE DEF c
    <3>2. c % ByteSize = c /\ c # 0
      BY <3>1, CodecAssumption
    <3> QED
      BY <3>2 DEF c
  <2>3. bytes = chars
    BY <1>1, <1>2, <1>4, <2>2, SeqEqual
  <2> QED
    BY <1>4, <2>2, <2>3 DEF Contains, NUL
<1>6. CASE ~Contains(bytes, NUL)
  <2>1. PathName(chars) = bytes
    BY <1>6 DEF PathName, bytes
  <2> QED
    BY <1>4, <1>5, <2>1
<1>7. CASE Contains(bytes, NUL)
  <2> DEFINE I == {i \in 1..n : bytes[i] = NUL}
             first == Min(I)
  <2>1. I \subseteq Nat /\ I # {}
    <3>1. PICK i \in 1..Len(bytes) : bytes[i] = NUL
      BY <1>7 DEF Contains
    <3>2. i \in I
      BY <1>4, <3>1
    <3>3. 1..n \subseteq Nat
      BY <1>1
    <3> QED
      BY <3>2, <3>3
  <2>2. first \in I
    <3> HIDE DEF I
    <3>1. \E m \in I : \A k \in I : m <= k
      BY <2>1, LeastNumber
    <3> QED
      BY <3>1 DEF Min
  <2>3. first \in 1..n
    BY <2>2
  <2>4. c_str(bytes) = first - 1
    <3>1. SelectInSeq(bytes, LAMBDA b : b = NUL) = first
      BY <1>4, <2>1 DEF SelectInSeq
    <3> QED
      BY <3>1 DEF c_str
  <2> HIDE DEF I, first
  <2>5. PathName(chars) = SubSeq(bytes, 1, first - 1)
    BY <1>7, <2>4 DEF PathName, bytes
  <2>6. SubSeq(bytes, 1, first - 1) \in Seq(Nat)
    <3>1. \A i \in 1..(first - 1) : bytes[i] \in Nat
      <4>1. \A i \in 1..(first - 1) : i \in 1..n
        BY <1>1, <2>3
      <4> QED
        BY <1>4, <4>1, ElementOfSeq
    <3>2. first - 1 \in Int
      BY <2>3
    <3> QED
      BY <1>4, <3>1, <3>2, SubSeqProperties
  <2> QED
    BY <1>5, <1>7, <2>5, <2>6
<1> QED
  BY <1>6, <1>7

(* Why a request is refused, and that there is no data then.                 *)
LEMMA RefusalCases ==
  ASSUME NEW r \in Requests, Answer(r).code # "OK"
  PROVE  /\ Answer(r).buffer = <<>>
         /\ \/ r.op = "GetNumObjects" /\ Answer(r).code = "Invalid_TransactionID"
            \/ /\ r.op \in {"GetDevicePropDesc", "GetDevicePropValue"}
               /\ Answer(r).code = "DeviceProp_Not_Supported"
               /\ ~Contains(supported_device_properties, r.prop)
            \/ /\ r.op = "GetObjectPropsSupported"
               /\ Answer(r).code = "Operation_Not_Supported"
               /\ r.format \notin DOMAIN supported
            \/ /\ r.op = "GetObjectPropDesc" /\ Answer(r).code = "Operation_Not_Supported"
               /\ r.prop \notin ObjectProperties
            \/ /\ r.op = "GetObjectPropValue" /\ Answer(r).code = "Invalid_ObjectPropCode"
               /\ \/ r.prop \notin ObjectProperties
                  \/ r.prop \in FileProperties /\ is_directory(object)
<1> DEFINE a == Answer(r)
<1>1. \A x, b : Reply(b).code = "OK" /\ Refuse(x).code = x /\ Refuse(x).buffer = <<>>
  BY DEF Reply, Refuse
<1>2. CASE r.op = "GetNumObjects"
  <2>1. a = Refuse("Invalid_TransactionID")
    BY <1>2 DEF Answer
  <2> QED
    BY <1>1, <1>2, <2>1
<1>3. CASE r.op \in {"GetDeviceInfo", "GetStorageIDs", "GetStorageInfo", "GetObjectHandles",
                     "GetObjectInfo", "GetObjectPropList"}
  <2>1. \E b : a = Reply(b)
    BY <1>3 DEF Answer
  <2> QED
    BY <1>1, <2>1
<1>4. CASE r.op \in {"GetDevicePropDesc", "GetDevicePropValue"}
  <2>1. \E b : a = OfDeviceProp(r.prop, b)
    BY <1>4 DEF Answer
  <2>2. a = Refuse("DeviceProp_Not_Supported") /\ ~Contains(supported_device_properties, r.prop)
    BY <1>1, <2>1 DEF OfDeviceProp
  <2> QED
    BY <1>1, <1>4, <2>2
<1>5. CASE r.op = "GetObjectPropsSupported"
  <2>1. a = GetObjectPropsSupported(r.format)
    BY <1>5 DEF Answer
  <2>2. a = Refuse("Operation_Not_Supported") /\ r.format \notin DOMAIN supported
    BY <1>1, <2>1 DEF GetObjectPropsSupported
  <2> QED
    BY <1>1, <1>5, <2>2
<1>6. CASE r.op = "GetObjectPropDesc"
  <2>1. a = GetObjectPropDesc(r.prop)
    BY <1>6 DEF Answer
  <2>2. a = Refuse("Operation_Not_Supported") /\ r.prop \notin ObjectProperties
    BY <1>1, <2>1 DEF GetObjectPropDesc
  <2> QED
    BY <1>1, <1>6, <2>2
<1>7. CASE r.op = "GetObjectPropValue"
  <2>1. a = GetObjectPropValue(r.prop)
    BY <1>7 DEF Answer
  <2>2. /\ a = Refuse("Invalid_ObjectPropCode")
        /\ \/ r.prop \notin ObjectProperties
           \/ r.prop \in FileProperties /\ is_directory(object)
    BY <1>1, <2>1 DEF GetObjectPropValue
  <2> QED
    BY <1>1, <1>7, <2>2
<1> QED
  BY <1>2, <1>3, <1>4, <1>5, <1>6, <1>7, RequestKinds DEF PlainOps

(* Whatever is answered, its data is made of fields.                         *)
LEMMA AnswerType ==
  ASSUME ObjectInv, NEW r \in Requests
  PROVE  Answer(r).buffer \in Seq(F1)
<1>1. CASE Answer(r).code = "OK"
  BY <1>1, AnswerReads
<1>2. CASE Answer(r).code # "OK"
  <2>1. Answer(r).buffer = <<>>
    BY <1>2, RefusalCases
  <2> QED
    BY <2>1
<1> QED
  BY <1>1, <1>2

-------------------------------------------------------------------------------
(* The invariant.                                                            *)

(* A directory's names are bytes, and there are its kinds.                   *)
EntryInv ==
  /\ entry.kind \in {"dir", "file"} /\ entry.name \in Seq(Nat) /\ entry.size \in Nat
  /\ entry = [kind |-> entry.kind, name |-> entry.name, size |-> entry.size]

FlagsInv == clock \in BOOLEAN /\ kept \in BOOLEAN /\ relisted \in BOOLEAN

(* The name the host gave is the object's until that is made anew from its   *)
(* entry, which has a plain name as well if the file system does as told.    *)
NameInv ==
  given # Null =>
    /\ given \in HostNames
    /\ ~relisted => object.name.chars = given
    /\ relisted  => object.name.chars = entry.name
    /\ kept /\ Plain(given) => entry.name = given

(* What is left of the buffer is as long as the size that is left.           *)
WireInv ==
  /\ packet \in Seq(F1) /\ buf \in Seq(F1) /\ left = Len(buf)

(* Where the request is, what is known of the wire.                          *)
Sending ==
  /\ request \in Requests /\ code = "OK"
  /\ Answer(request).code = "OK" /\ packet = Answer(request).buffer
  /\ pc = "send_header" => got = <<>> /\ buf = packet
  /\ pc = "send" /\ Len(packet) <= Chunk => got = <<>> /\ buf = packet
  /\ pc = "sent" /\ left = 0 /\ Len(packet) <= Chunk => got = packet

Receiving ==
  /\ request \in Tellings /\ code = "OK"
  /\ packet \o buf = Dataset(request)

AnsweredAsk ==
  /\ request \in Requests
  /\ code = "General_Error" \/ code = Answer(request).code
  /\ code = "OK" => /\ packet = Answer(request).buffer /\ left = 0
                    /\ Len(packet) <= Chunk => got = packet

AnsweredTell ==
  /\ request \in Tellings
  /\ code \in {"OK", "General_Error", "Invalid_ObjectPropCode"}
  /\ code = "OK" => left = 0

ControlInv ==
  /\ pc \in {"idle", "send_header", "send", "sent", "receive", "received", "answered"}
  /\ pc = "idle" => code = "OK"
  /\ pc \in {"send_header", "send", "sent"} => Sending
  /\ pc \in {"receive", "received"} => Receiving
  /\ pc = "answered" => AnsweredAsk \/ AnsweredTell

IInv == EntryInv /\ FlagsInv /\ ObjectInv /\ NameInv /\ WireInv /\ ControlInv

-------------------------------------------------------------------------------
(* Answers stand as long as the object and the calendar do.                  *)
LEMMA DateStands ==
  ASSUME clock' = clock, entry' = entry, object' = object
  PROVE  get_timestamp' = get_timestamp /\ \A n : DateTime(n)' = DateTime(n)
BY DEF DateTime, get_timestamp, LeadsToEntry

(* A property stands.                                                        *)
LEMMA ItemStands ==
  ASSUME clock' = clock, entry' = entry, object' = object
  PROVE  \A p, o : Item(p, o)' = Item(p, o)
<1>1. get_timestamp' = get_timestamp /\ \A n : DateTime(n)' = DateTime(n)
  BY DateStands
<1> QED
  BY <1>1 DEF Item

(* An element of a list stands.                                              *)
LEMMA ElementStands ==
  ASSUME clock' = clock, entry' = entry, object' = object
  PROVE  \A p, o : Element(p, o)' = Element(p, o)
<1>1. \A p, o : Item(p, o)' = Item(p, o)
  BY ItemStands
<1> QED
  BY <1>1 DEF Element

(* A list stands.                                                            *)
LEMMA PropListStands ==
  ASSUME clock' = clock, entry' = entry, object' = object
  PROVE  \A objs, f, p : PropList(objs, f, p)' = PropList(objs, f, p)
<1>1. \A p, o : Element(p, o)' = Element(p, o)
  BY ElementStands
<1> QED
  BY <1>1, SMTT(30) DEF PropList

(* ObjectInfo stands.                                                        *)
LEMMA InfoStands ==
  ASSUME clock' = clock, entry' = entry, object' = object
  PROVE  \A o : InfoOf(o)' = InfoOf(o)
<1>1. get_timestamp' = get_timestamp /\ \A n : DateTime(n)' = DateTime(n)
  BY DateStands
<1> QED
  BY <1>1 DEF InfoOf

(* The answer to any request stands.                                         *)
LEMMA AnswerStands ==
  ASSUME clock' = clock, entry' = entry, object' = object, NEW r
  PROVE  Answer(r)' = Answer(r)
<1>1. \A objs, f, p : PropList(objs, f, p)' = PropList(objs, f, p)
  BY PropListStands
<1>2. \A o : InfoOf(o)' = InfoOf(o)
  BY InfoStands
<1>3. \A p, o : Item(p, o)' = Item(p, o)
  BY ItemStands
<1> QED
  BY <1>1, <1>2, <1>3 DEF Answer, GetObjectPropValue

(* What is known of the object stands as long as it does.                    *)
LEMMA ObjectStands ==
  ASSUME IInv, UNCHANGED <<fsys, object, seen>>
  PROVE  EntryInv' /\ FlagsInv' /\ ObjectInv' /\ NameInv'
<1>1. /\ entry' = entry /\ clock' = clock /\ kept' = kept /\ object' = object
      /\ given' = given /\ relisted' = relisted
  BY DEF fsys, seen
<1>2. EntryInv' /\ FlagsInv'
  BY <1>1 DEF IInv, EntryInv, FlagsInv
<1>3. ObjectInv'
  BY <1>1 DEF IInv, ObjectInv
<1>4. NameInv'
  BY <1>1 DEF IInv, NameInv
<1> QED
  BY <1>2, <1>3, <1>4

(* The object that is made from the entry.                                   *)
LEMMA FromEntryIs ==
  ASSUME EntryInv
  PROVE  /\ IsObject(FromEntry(entry)) /\ FromEntry(entry).handle = 2
         /\ FromEntry(entry).name.chars = entry.name
<1> DEFINE name == MakeString(entry.name)
           format == IF entry.kind = "dir" THEN "Association" ELSE "Undefined"
           size == entry.size
           o == FromEntry(entry)
<1>1. IsString(name) /\ name.chars = entry.name
  BY DEF EntryInv, IsString, MakeString
<1>2. format \in Formats /\ size \in Nat
  BY DEF EntryInv, Formats
<1>3. o = Made(2, format, size, name)
  BY DEF FromEntry, to_utf16
<1> HIDE DEF name, format, size, o
<1>4. o.handle = 2 /\ o.format = format /\ o.size = size /\ o.name = name
  BY <1>3 DEF Made
<1> QED
  BY <1>1, <1>2, <1>3, <1>4 DEF IsObject, o

(* The invariant holds at first.                                             *)
LEMMA InitHolds == Init => IInv
<1> SUFFICES ASSUME Init PROVE IInv
  OBVIOUS
<1>1. EntryInv
  <2>1. entry.kind \in {"dir", "file"} /\ entry.name \in Names /\ entry.size \in {0} \cup Sizes
        /\ entry = [kind |-> entry.kind, name |-> entry.name, size |-> entry.size]
    BY DEF Init
  <2>2. entry.name \in Seq(1..(ByteSize - 1))
    BY <2>1, DatasetAssumption
  <2>3. entry.name \in Seq(Nat)
    <3> DEFINE name == entry.name
    <3>1. name \in Seq(1..(ByteSize - 1))
      BY <2>2
    <3> HIDE DEF name
    <3>2. Len(name) \in Nat /\ name = [i \in 1..Len(name) |-> name[i]]
      BY <3>1, LenProperties
    <3> DEFINE B == 1..(ByteSize - 1)
    <3>b. B \subseteq Nat
      BY CodecAssumption
    <3>3. \A i \in 1..Len(name) : name[i] \in Nat
      <4>1. name \in Seq(B)
        BY <3>1
      <4> HIDE DEF B
      <4>2. \A i \in 1..Len(name) : name[i] \in B
        BY <4>1, ElementOfSeq
      <4> QED
        BY <3>b, <4>2
    <3> DEFINE n == Len(name)
    <3>4. name \in [1..n -> Nat]
      BY <3>2, <3>3
    <3> HIDE DEF n
    <3>5. n \in Nat
      BY <3>2 DEF n
    <3>6. name \in Seq(Nat)
      BY <3>4, <3>5
    <3> QED
      BY <3>6 DEF name
  <2>4. entry.size \in Nat
    BY <2>1, DatasetAssumption
  <2> QED
    BY <2>1, <2>3, <2>4 DEF EntryInv
<1>2. FlagsInv
  BY DEF Init, FlagsInv
<1>3. ObjectInv
  BY <1>1, FromEntryIs DEF Init, ObjectInv
<1>4. NameInv
  BY DEF Init, NameInv
<1>5. WireInv
  <2>1. <<>> \in Seq(F1) /\ Len(<<>>) = 0
    OBVIOUS
  <2> QED
    BY <2>1 DEF Init, WireInv
<1>6. ControlInv
  BY DEF Init, ControlInv
<1> QED
  BY <1>1, <1>2, <1>3, <1>4, <1>5, <1>6 DEF IInv

(* The steps of a request that asks.                                         *)
LEMMA AskHolds ==
  ASSUME IInv, NEW r \in Requests, Ask(r)
  PROVE  IInv'
<1>0. UNCHANGED <<fsys, object, seen>> /\ pc = "idle" /\ request' = r /\ got' = <<>>
  BY DEF Ask
<1> DEFINE a == Answer(r)
<1>1. /\ code' = a.code /\ packet' = a.buffer /\ buf' = a.buffer /\ left' = Len(a.buffer)
      /\ pc' = IF a.code = "OK" THEN "send_header" ELSE "answered"
  BY DEF Ask
<1>2. Answer(r)' = Answer(r)
  <2>1. clock' = clock /\ entry' = entry /\ object' = object
    BY <1>0 DEF fsys
  <2> QED
    BY <2>1, AnswerStands
<1>3. WireInv'
  <2>1. a.buffer \in Seq(F1)
    BY AnswerType DEF IInv
  <2> HIDE DEF a
  <2> QED
    BY <1>1, <2>1 DEF WireInv
<1>4. Answer(request)' = a
  BY <1>0, <1>2
<1> HIDE DEF a
<1>5. ControlInv'
  <2>1. CASE a.code = "OK"
    <3>1. Sending'
      BY <1>0, <1>1, <1>4, <2>1 DEF Sending
    <3> QED
      BY <1>1, <2>1, <3>1 DEF ControlInv
  <2>2. CASE a.code # "OK"
    <3>1. AnsweredAsk'
      BY <1>0, <1>1, <1>4, <2>2 DEF AnsweredAsk
    <3> QED
      BY <1>1, <2>2, <3>1 DEF ControlInv
  <2> QED
    BY <2>1, <2>2
<1> QED
  BY <1>0, <1>3, <1>5, ObjectStands DEF IInv

(* A request that has failed on the way.                                     *)
LEMMA FailHolds ==
  ASSUME IInv, UNCHANGED <<fsys, object, seen, request>>, WireInv',
         pc \in {"send_header", "send", "sent", "receive", "received"}, Done("General_Error")
  PROVE  IInv'
<1>1. pc' = "answered" /\ code' = "General_Error" /\ request' = request
  BY DEF Done
<1>2. request \in Requests \/ request \in Tellings
  BY DEF IInv, ControlInv, Sending, Receiving
<1>3. ControlInv'
  <2>1. CASE request \in Requests
    <3>1. AnsweredAsk'
      BY <1>1, <2>1 DEF AnsweredAsk
    <3> QED
      BY <1>1, <3>1 DEF ControlInv
  <2>2. CASE request \in Tellings
    <3>1. AnsweredTell'
      BY <1>1, <2>2 DEF AnsweredTell
    <3> QED
      BY <1>1, <3>1 DEF ControlInv
  <2> QED
    BY <1>2, <2>1, <2>2
<1> QED
  BY <1>3, ObjectStands DEF IInv

(* The header goes out.                                                      *)
LEMMA SendHeaderHolds ==
  ASSUME IInv, SendHeader
  PROVE  IInv'
<1>0. UNCHANGED <<fsys, object, seen, request, wire>> /\ pc = "send_header"
  BY DEF SendHeader
<1>1. /\ packet' = packet /\ buf' = buf /\ left' = left /\ got' = got /\ request' = request
  BY <1>0 DEF wire
<1>2. WireInv'
  BY <1>1 DEF IInv, WireInv
<1>3. CASE pc' = "send" /\ UNCHANGED code
  <2>1. Answer(request)' = Answer(request)
    <3>1. clock' = clock /\ entry' = entry /\ object' = object
      BY <1>0 DEF fsys
    <3> QED
      BY <1>1, <3>1, AnswerStands
  <2>2. Sending
    BY <1>0 DEF IInv, ControlInv
  <2>3. Sending'
    BY <1>0, <1>1, <1>3, <2>1, <2>2 DEF Sending
  <2>4. ControlInv'
    BY <1>3, <2>3 DEF ControlInv
  <2> QED
    BY <1>0, <1>2, <2>4, ObjectStands DEF IInv
<1>4. CASE Done("General_Error")
  BY <1>0, <1>2, <1>4, FailHolds
<1> QED
  BY <1>3, <1>4 DEF SendHeader

(* What a transfer carries, and what it leaves.                              *)
LEMMA Chunks ==
  ASSUME WireInv, NEW n \in Carried
  PROVE  /\ n \in Nat /\ n <= left /\ left - n \in Nat
         /\ left <= Chunk => Chunked = left
         /\ left > Chunk => Chunked = Chunk
         /\ AfterCopy(left - n) \in Seq(F1) /\ Len(AfterCopy(left - n)) = left - n
         /\ AfterChunk(left - n) \in Seq(F1) /\ Len(AfterChunk(left - n)) = left - n
         /\ SubSeq(buf, 1, n) \in Seq(F1)
         /\ SubSeq(buf, 1, n) \o AfterChunk(left - n) = buf
         /\ n = left => SubSeq(buf, 1, n) = buf
<1>1. buf \in Seq(F1) /\ left = Len(buf) /\ left \in Nat
  BY LenProperties DEF WireInv
<1>2. Chunk \in Nat \ {0}
  BY DatasetAssumption
<1>3. /\ left <= Chunk => Chunked = left
      /\ left > Chunk => Chunked = Chunk
      /\ Chunked \in Nat /\ Chunked <= left
  BY <1>1, <1>2 DEF Chunked
<1>4. n \in Nat /\ n <= left /\ left - n \in Nat
  BY <1>1, <1>3 DEF Carried
<1>5. AfterCopy(left - n) \in Seq(F1) /\ Len(AfterCopy(left - n)) = left - n
  <2> DEFINE m == left - n
             f == Field(0, Garbage)
  <2>1. m \in Nat /\ f \in F1
    BY <1>4 DEF Field, F1, Fields, Val
  <2> HIDE DEF m, f
  <2>2. [i \in 1..m |-> f] \in Seq(F1) /\ Len([i \in 1..m |-> f]) = m
    BY <2>1, LenProperties
  <2> QED
    BY <2>2 DEF AfterCopy, m, f
<1>6. \A i \in 1..Len(buf) : buf[i] \in F1
  BY <1>1, ElementOfSeq
<1> DEFINE size == Len(buf)
<1>7. AfterChunk(left - n) = SubSeq(buf, n + 1, size)
  <2>1. Len(buf) - (left - n) + 1 = n + 1
    BY <1>1, <1>4
  <2> QED
    BY <2>1 DEF AfterChunk
<1>8. size \in Nat /\ left = size
  BY <1>1
<1> HIDE DEF size
<1>9. SubSeq(buf, n + 1, size) \in Seq(F1) /\ Len(SubSeq(buf, n + 1, size)) = left - n
  <2>1. \A i \in (n + 1)..size : buf[i] \in F1
    <3>1. \A i \in (n + 1)..size : i \in 1..Len(buf)
      BY <1>4, <1>8 DEF size
    <3> QED
      BY <1>6, <3>1
  <2>2. n + 1 \in Int /\ size \in Int
    BY <1>4, <1>8
  <2> HIDE DEF size
  <2> DEFINE s == SubSeq(buf, n + 1, size)
  <2>3. s \in Seq(F1) /\ Len(s) = IF n + 1 <= size THEN size - (n + 1) + 1 ELSE 0
    BY <2>1, <2>2, SubSeqProperties
  <2> HIDE DEF s
  <2>4. s \in Seq(F1) /\ Len(s) = left - n
    BY <1>4, <1>8, <2>3
  <2> QED
    BY <2>4 DEF s
<1>10. SubSeq(buf, 1, n) \in Seq(F1)
  <2>1. \A i \in 1..n : buf[i] \in F1
    <3>1. \A i \in 1..n : i \in 1..Len(buf)
      BY <1>4, <1>8 DEF size
    <3> QED
      BY <1>6, <3>1
  <2>2. 1 \in Int /\ n \in Int
    BY <1>4
  <2> QED
    BY <2>1, <2>2, SubSeqProperties
<1>11. SubSeq(buf, 1, Len(buf)) = buf
  BY <1>1, SubSeqFull
<1>12. SubSeq(buf, 1, n) \o SubSeq(buf, n + 1, size) = buf
  <2>1. 1 \in 1..(Len(buf) + 1) /\ n \in (1 - 1)..Len(buf) /\ Len(buf) \in n..Len(buf)
    BY <1>1, <1>4
  <2>2. SubSeq(buf, 1, n) \o SubSeq(buf, n + 1, Len(buf)) = SubSeq(buf, 1, Len(buf))
    BY <1>1, <2>1, ConcatAdjacentSubSeq
  <2> QED
    BY <1>11, <2>2 DEF size
<1> QED
  BY <1>1, <1>3, <1>4, <1>5, <1>7, <1>9, <1>10, <1>11, <1>12

(* A buffer goes out.                                                        *)
LEMMA SendChunkHolds ==
  ASSUME IInv, SendChunk
  PROVE  IInv'
<1>0. UNCHANGED <<fsys, object, seen, request, packet>> /\ pc = "send"
  BY DEF SendChunk
<1>1. WireInv /\ Sending /\ left = Len(buf)
  BY <1>0 DEF IInv, ControlInv, WireInv
<1>2. ASSUME NEW n \in Carried, got' = got \o SubSeq(buf, 1, n), left' = left - n,
             buf' = AfterCopy(left'), pc' = NextPc(n, "send", "sent"), UNCHANGED code
      PROVE  IInv'
  <2>1. WireInv'
    BY <1>0, <1>1, <1>2, Chunks DEF WireInv
  <2>2. Answer(request)' = Answer(request)
    <3>1. clock' = clock /\ entry' = entry /\ object' = object
      BY <1>0 DEF fsys
    <3> QED
      BY <1>0, <3>1, AnswerStands
  <2>3. pc' \in {"send", "sent"}
    BY <1>2 DEF NextPc
  <2>4. ASSUME pc' = "send", Len(packet) <= Chunk PROVE FALSE
    <3>1. n = Chunked /\ n # left
      <4>1. ~(n < Chunked) /\ n # left
        BY <1>2, <2>4 DEF NextPc
      <4>2. Chunked \in Nat /\ n \in Nat /\ n <= Chunked
        <5>1. Chunked \in Nat
          BY <1>1, DatasetAssumption, LenProperties DEF Chunked, WireInv
        <5> QED
          BY <5>1 DEF Carried
      <4> QED
        BY <4>1, <4>2
    <3>2. buf = packet
      BY <1>0, <1>1, <2>4 DEF Sending
    <3> QED
      BY <1>1, <2>4, <3>1, <3>2, Chunks
  <2>5. ASSUME left' = 0, Len(packet) <= Chunk PROVE got' = packet
    <3>1. n = left
      BY <1>1, <1>2, <2>5, Chunks
    <3>2. got = <<>> /\ buf = packet /\ packet \in Seq(F1)
      BY <1>0, <1>1, <2>5 DEF Sending, WireInv
    <3>3. SubSeq(buf, 1, n) = buf
      BY <1>1, <3>1, Chunks
    <3>4. <<>> \o packet = packet
      BY <3>2, ConcatEmptySeq
    <3> QED
      BY <1>2, <3>2, <3>3, <3>4
  <2>6. Sending'
    BY <1>0, <1>1, <1>2, <2>2, <2>3, <2>4, <2>5 DEF Sending
  <2>7. ControlInv'
    BY <2>3, <2>6 DEF ControlInv
  <2> QED
    BY <1>0, <2>1, <2>7, ObjectStands DEF IInv
<1>3. CASE Done("General_Error") /\ UNCHANGED <<got, left, buf>>
  <2>1. WireInv'
    BY <1>0, <1>1, <1>3 DEF WireInv
  <2> QED
    BY <1>0, <1>3, <2>1, FailHolds
<1> QED
  BY <1>2, <1>3 DEF SendChunk

(* The loop has ended, with the whole dataset sent or not.                   *)
LEMMA SentHolds ==
  ASSUME IInv, Sent
  PROVE  IInv'
<1>0. UNCHANGED <<fsys, object, seen, request, wire>> /\ pc = "sent"
  BY DEF Sent
<1>1. /\ packet' = packet /\ buf' = buf /\ left' = left /\ got' = got /\ request' = request
  BY <1>0 DEF wire
<1>2. WireInv'
  BY <1>1 DEF IInv, WireInv
<1>3. CASE Done("General_Error")
  BY <1>0, <1>2, <1>3, FailHolds
<1>4. CASE Complete /\ Done("OK")
  <2>1. Answer(request)' = Answer(request)
    <3>1. clock' = clock /\ entry' = entry /\ object' = object
      BY <1>0 DEF fsys
    <3> QED
      BY <1>1, <3>1, AnswerStands
  <2>2. Sending
    BY <1>0 DEF IInv, ControlInv
  <2>3. pc' = "answered" /\ code' = "OK" /\ left = 0
    BY <1>4 DEF Done, Complete
  <2>4. AnsweredAsk'
    BY <1>0, <1>1, <2>1, <2>2, <2>3 DEF Sending, AnsweredAsk
  <2>5. ControlInv'
    BY <2>3, <2>4 DEF ControlInv
  <2> QED
    BY <1>0, <1>2, <2>5, ObjectStands DEF IInv
<1> QED
  BY <1>3, <1>4 DEF Sent

(* The steps of a request that tells.                                        *)
LEMMA TellHolds ==
  ASSUME IInv, NEW r \in Tellings, Tell(r, Dataset(r))
  PROVE  IInv'
<1> DEFINE d == Dataset(r)
<1>0. /\ UNCHANGED <<fsys, object, seen>> /\ pc = "idle" /\ pc' = "receive" /\ code' = code
      /\ request' = r /\ packet' = <<>> /\ buf' = d /\ left' = Len(d)
  BY DEF Tell
<1>1. d \in Seq(F1)
  BY TellingParts, InfoPopped, NamePopped
<1>2. Dataset(request') = d
  BY <1>0
<1> HIDE DEF d
<1>3. <<>> \o d = d /\ <<>> \in Seq(F1)
  BY <1>1, ConcatEmptySeq
<1>4. WireInv'
  BY <1>0, <1>1, <1>3 DEF WireInv
<1>5. code = "OK"
  BY <1>0 DEF IInv, ControlInv
<1>6. Receiving'
  BY <1>0, <1>2, <1>3, <1>5 DEF Receiving
<1>7. ControlInv'
  BY <1>0, <1>6 DEF ControlInv
<1> QED
  BY <1>0, <1>4, <1>7, ObjectStands DEF IInv

(* Those of the host are of this form.                                       *)
LEMMA TellingsAre ==
  /\ SendInfo => \E r \in Tellings : Tell(r, Dataset(r))
  /\ SetName => \E r \in Tellings : Tell(r, Dataset(r))
<1>1. ASSUME SendInfo PROVE \E r \in Tellings : Tell(r, Dataset(r))
  <2>1. PICK name \in HostNames, format \in Formats, size \in Sizes :
          Tell([op |-> "SendObjectInfo", name |-> name, format |-> format, size |-> size],
               PushInfo([NoInfo EXCEPT !.format = format, !.compressed_size = size,
                                       !.filename = MakeString(name)], InfoDataset))
    BY <1>1 DEF SendInfo
  <2> DEFINE r == [op |-> "SendObjectInfo", name |-> name, format |-> format, size |-> size]
             d == PushInfo([NoInfo EXCEPT !.format = format, !.compressed_size = size,
                                          !.filename = MakeString(name)], InfoDataset)
  <2>2. r \in Tellings
    BY DEF Tellings
  <2>3. Dataset(r) = d
    BY DEF Dataset, HostInfo
  <2>4. Tell(r, d)
    BY <2>1
  <2> HIDE DEF r, d
  <2> QED
    BY <2>2, <2>3, <2>4
<1>2. ASSUME SetName PROVE \E r \in Tellings : Tell(r, Dataset(r))
  <2>1. PICK name \in HostNames, p \in {"Object_File_Name", "Date_Modified"} :
          Tell([op |-> "SetObjectPropValue", name |-> name, prop |-> p],
               PushString(MakeString(name)))
    BY <1>2 DEF SetName
  <2> DEFINE r == [op |-> "SetObjectPropValue", name |-> name, prop |-> p]
             d == PushString(MakeString(name))
  <2>2. r \in Tellings
    BY DEF Tellings
  <2>3. Dataset(r) = d
    BY DEF Dataset
  <2>4. Tell(r, d)
    BY <2>1
  <2> HIDE DEF r, d
  <2> QED
    BY <2>2, <2>3, <2>4
<1> QED
  BY <1>1, <1>2

(* A buffer comes in.                                                        *)
LEMMA ReceiveChunkHolds ==
  ASSUME IInv, ReceiveChunk
  PROVE  IInv'
<1>0. UNCHANGED <<fsys, object, seen, request, got>> /\ pc = "receive"
  BY DEF ReceiveChunk
<1>1. WireInv /\ Receiving
  BY <1>0 DEF IInv, ControlInv
<1>2. ASSUME NEW n \in Carried, packet' = packet \o SubSeq(buf, 1, n), left' = left - n,
             buf' = AfterChunk(left'), pc' = NextPc(n, "receive", "received"), UNCHANGED code
      PROVE  IInv'
  <2> DEFINE a == SubSeq(buf, 1, n)
             b == AfterChunk(left - n)
  <2>1. a \in Seq(F1) /\ b \in Seq(F1) /\ a \o b = buf /\ Len(b) = left - n
    BY <1>1, Chunks
  <2>2. packet' = packet \o a /\ buf' = b
    BY <1>2
  <2>3. packet \in Seq(F1)
    BY <1>1 DEF WireInv
  <2> HIDE DEF a, b
  <2>4. WireInv'
    <3>1. packet \o a \in Seq(F1)
      BY <2>1, <2>3, ConcatProperties
    <3> QED
      BY <1>2, <2>1, <2>2, <3>1 DEF WireInv
  <2>5. packet' \o buf' = packet \o buf
    <3> DEFINE c == packet
    <3>0. c \in Seq(F1) /\ a \in Seq(F1) /\ b \in Seq(F1)
      BY <2>1, <2>3
    <3> HIDE DEF c
    <3>1. (c \o a) \o b = c \o (a \o b)
      BY <3>0, ConcatAssociative, SMTT(30)
    <3> QED
      BY <2>1, <2>2, <3>1 DEF c
  <2>6. Receiving'
    BY <1>0, <1>1, <1>2, <2>5 DEF Receiving
  <2>7. pc' \in {"receive", "received"}
    BY <1>2 DEF NextPc
  <2>8. ControlInv'
    BY <2>6, <2>7 DEF ControlInv
  <2> QED
    BY <1>0, <2>4, <2>8, ObjectStands DEF IInv
<1>3. CASE Done("General_Error") /\ UNCHANGED <<packet, left, buf>>
  <2>1. WireInv'
    BY <1>1, <1>3 DEF WireInv
  <2> QED
    BY <1>0, <1>3, <2>1, FailHolds
<1> QED
  BY <1>2, <1>3 DEF ReceiveChunk

(* The loop has ended before the whole dataset came.                         *)
LEMMA NotReceivedHolds ==
  ASSUME IInv, NotReceived
  PROVE  IInv'
<1>0. UNCHANGED <<fsys, object, seen, request, wire>> /\ pc = "received" /\ Done("General_Error")
  BY DEF NotReceived
<1>1. WireInv'
  BY <1>0 DEF IInv, WireInv, wire
<1> QED
  BY <1>0, <1>1, FailHolds

(* When all the data is there it is what the host meant.                     *)
LEMMA ReceivedWhole ==
  ASSUME IInv, pc = "received", Complete
  PROVE  request \in Tellings /\ packet = Dataset(request) /\ left = 0 /\ code = "OK"
<1>1. Receiving /\ WireInv
  BY DEF IInv, ControlInv
<1>2. left = 0 /\ packet \in Seq(F1) /\ buf \in Seq(F1) /\ Len(buf) = 0
  BY <1>1 DEF Complete, WireInv
<1>3. buf = <<>>
  BY <1>2, EmptySeq
<1>4. packet \o <<>> = packet
  BY <1>2, ConcatEmptySeq
<1> QED
  BY <1>1, <1>2, <1>3, <1>4 DEF Receiving

(* The request is answered.                                                  *)
LEMMA ToldHolds ==
  ASSUME IInv, pc = "received", Complete, UNCHANGED <<clock, request, wire>>,
         NEW reason \in {"OK", "Invalid_ObjectPropCode"}, Done(reason)
  PROVE  WireInv' /\ ControlInv'
<1>1. request \in Tellings /\ left = 0
  BY ReceivedWhole
<1>2. pc' = "answered" /\ code' = reason /\ left' = left /\ packet' = packet /\ buf' = buf
      /\ request' = request
  BY DEF Done, wire
<1>3. WireInv'
  BY <1>2 DEF IInv, WireInv
<1>4. AnsweredTell'
  BY <1>1, <1>2 DEF AnsweredTell
<1> QED
  BY <1>2, <1>3, <1>4 DEF ControlInv

(* An entry with the name of a file.                                         *)
LEMMA StoredHolds ==
  ASSUME EntryInv, NEW kind \in {"dir", "file"}, NEW name \in Seq(Nat), NEW size \in Nat,
         Stored([kind |-> kind, name |-> name, size |-> size])
  PROVE  EntryInv' /\ kept' \in BOOLEAN /\ (kept' => entry'.name = name)
<1> DEFINE e == [kind |-> kind, name |-> name, size |-> size]
<1>1. e.kind = kind /\ e.name = name /\ e.size = size
  OBVIOUS
<1>2. CASE e.name # <<>> /\ entry' = e /\ kept' = TRUE
  <2>1. entry' = e
    BY <1>2
  <2>2. EntryInv'
    BY <1>1, <2>1 DEF EntryInv
  <2>3. entry'.name = name
    BY <1>1, <2>1
  <2> QED
    BY <1>2, <2>2, <2>3
<1>3. CASE UNCHANGED entry /\ kept' = FALSE
  BY <1>3 DEF EntryInv
<1> QED
  BY <1>2, <1>3 DEF Stored

(* The object is made from what the host has sent.                           *)
LEMMA SendObjectInfoHolds ==
  ASSUME IInv, SendObjectInfo
  PROVE  IInv'
<1>0. /\ pc = "received" /\ Complete /\ request.op = "SendObjectInfo"
      /\ UNCHANGED <<clock, request, wire>> /\ Done("OK")
      /\ given' = request.name /\ relisted' = FALSE
  BY DEF SendObjectInfo
<1>1. request \in Tellings /\ packet = Dataset(request)
  BY <1>0, ReceivedWhole
<1> DEFINE info == PopInfo(packet)
           name == request.name
           string == MakeString(name)
<1>2. info.format = request.format /\ info.compressed_size = request.size
      /\ info.filename = string
  BY <1>0, <1>1, InfoPopped
<1>3. object' = FromInfo(info)
  BY DEF SendObjectInfo
<1>4. /\ request.format \in Formats /\ request.size \in Nat
      /\ name \in HostNames /\ name \in Seq(Nat) /\ IsString(string) /\ string.chars = name
  BY <1>0, <1>1, TellingParts, HostName
<1> DEFINE kind == IF is_directory(object') THEN "dir" ELSE "file"
           size == IF is_directory(object') THEN 0 ELSE object'.size
           file == PathName(info.filename.chars)
<1>5. Stored([kind |-> kind, name |-> file, size |-> size])
  BY DEF SendObjectInfo
<1> HIDE DEF info, name, string
<1>6. object' = Made(2, request.format, request.size, string)
  BY <1>2, <1>3 DEF FromInfo
<1>7. /\ object'.handle = 2 /\ object'.format = request.format /\ object'.size = request.size
      /\ object'.name = string
  BY <1>6 DEF Made
<1>8. ObjectInv'
  BY <1>4, <1>6, <1>7 DEF ObjectInv, IsObject
<1>9. file = PathName(name)
  BY <1>2, <1>4
<1>10. file \in Seq(Nat) /\ (Plain(name) => file = name)
  BY <1>4, <1>9, NamesOfFiles
<1>11. kind \in {"dir", "file"} /\ size \in Nat
  BY <1>4, <1>7
<1> HIDE DEF kind, size, file
<1>12. EntryInv' /\ kept' \in BOOLEAN /\ (kept' => entry'.name = file)
  BY <1>5, <1>10, <1>11, StoredHolds DEF IInv
<1>13. FlagsInv'
  BY <1>0, <1>12 DEF IInv, FlagsInv
<1>14. NameInv'
  <2>1. given' = name
    BY <1>0 DEF name
  <2> QED
    BY <1>0, <1>4, <1>7, <1>10, <1>12, <2>1 DEF NameInv
<1>15. WireInv' /\ ControlInv'
  BY <1>0, ToldHolds
<1> QED
  BY <1>8, <1>12, <1>13, <1>14, <1>15 DEF IInv

(* The object has the name the host has sent.                                *)
LEMMA SetObjectPropValueHolds ==
  ASSUME IInv, SetObjectPropValue
  PROVE  IInv'
<1>0. /\ pc = "received" /\ Complete /\ request.op = "SetObjectPropValue"
      /\ UNCHANGED <<clock, request, wire>>
  BY DEF SetObjectPropValue
<1>1. request \in Tellings /\ packet = Dataset(request)
  BY <1>0, ReceivedWhole
<1>2. CASE request.prop = "Object_File_Name"
  <2> DEFINE name == request.name
             string == MakeString(name)
             o == object
             file == PathName(object'.name.chars)
  <2>1. /\ object' = [o EXCEPT !.name = PopString(packet).value]
        /\ given' = name /\ relisted' = FALSE /\ Done("OK")
        /\ IF LeadsToEntry THEN Stored([entry EXCEPT !.name = file])
                           ELSE kept' = FALSE /\ UNCHANGED entry
    BY <1>2 DEF SetObjectPropValue
  <2>2. PopString(packet).value = string
    BY <1>0, <1>1, NamePopped
  <2>3. /\ name \in HostNames /\ name \in Seq(Nat) /\ IsString(string) /\ string.chars = name
    BY <1>0, <1>1, TellingParts, HostName
  <2>4. IsObject(o) /\ o.handle = 2
    BY DEF IInv, ObjectInv
  <2> HIDE DEF name, string, o
  <2>5. object' = Made(2, o.format, o.size, string)
    BY <2>1, <2>2, <2>4 DEF IsObject, Made
  <2>6. /\ object'.handle = 2 /\ object'.format = o.format /\ object'.size = o.size
        /\ object'.name = string
    BY <2>5 DEF Made
  <2>7. ObjectInv'
    BY <2>3, <2>4, <2>5, <2>6 DEF ObjectInv, IsObject
  <2>8. file = PathName(name)
    BY <2>3, <2>6
  <2>9. file \in Seq(Nat) /\ (Plain(name) => file = name)
    BY <2>3, <2>8, NamesOfFiles
  <2> HIDE DEF file
  <2>10. EntryInv' /\ kept' \in BOOLEAN /\ (kept' => entry'.name = file)
    <3>1. CASE LeadsToEntry
      <4> DEFINE kind == entry.kind
                 size == entry.size
      <4>1. EntryInv /\ kind \in {"dir", "file"} /\ size \in Nat
        BY DEF IInv, EntryInv
      <4>2. [entry EXCEPT !.name = file] = [kind |-> kind, name |-> file, size |-> size]
        BY <4>1 DEF EntryInv
      <4>3. Stored([kind |-> kind, name |-> file, size |-> size])
        BY <2>1, <3>1, <4>2
      <4> HIDE DEF kind, size
      <4> QED
        BY <2>9, <4>1, <4>3, StoredHolds
    <3>2. CASE ~LeadsToEntry
      <4>1. kept' = FALSE /\ entry' = entry
        BY <2>1, <3>2
      <4> QED
        BY <4>1 DEF IInv, EntryInv
    <3> QED
      BY <3>1, <3>2
  <2>11. FlagsInv'
    BY <1>0, <2>1, <2>10 DEF IInv, FlagsInv
  <2>12. NameInv'
    BY <2>1, <2>3, <2>6, <2>9, <2>10 DEF NameInv
  <2>13. WireInv' /\ ControlInv'
    BY <1>0, <2>1, ToldHolds
  <2> QED
    BY <2>7, <2>10, <2>11, <2>12, <2>13 DEF IInv
<1>3. CASE request.prop # "Object_File_Name"
  <2>1. Done("Invalid_ObjectPropCode") /\ UNCHANGED <<object, entry, kept, given, relisted>>
    BY <1>3 DEF SetObjectPropValue
  <2>2. WireInv' /\ ControlInv'
    BY <1>0, <2>1, ToldHolds
  <2>3. UNCHANGED <<fsys, object, seen>>
    BY <1>0, <2>1 DEF fsys, seen
  <2> QED
    BY <2>2, <2>3, ObjectStands DEF IInv
<1> QED
  BY <1>2, <1>3

(* The request is over.                                                      *)
LEMMA FinishHolds ==
  ASSUME IInv, Finish
  PROVE  IInv'
<1>1. UNCHANGED <<fsys, object, seen>> /\ pc' = "idle" /\ code' = "OK"
      /\ packet' = <<>> /\ buf' = <<>> /\ left' = 0
  BY DEF Finish
<1>2. <<>> \in Seq(F1) /\ Len(<<>>) = 0
  OBVIOUS
<1>3. WireInv'
  BY <1>1, <1>2 DEF WireInv
<1>4. ControlInv'
  BY <1>1 DEF ControlInv
<1> QED
  BY <1>1, <1>3, <1>4, ObjectStands DEF IInv

(* The object is made anew from its entry.                                   *)
LEMMA RelistHolds ==
  ASSUME IInv, Relist
  PROVE  IInv'
<1>1. /\ object' = FromEntry(entry) /\ relisted' = TRUE /\ pc = "idle" /\ pc' = pc
      /\ entry' = entry /\ clock' = clock /\ kept' = kept /\ given' = given /\ code' = code
      /\ packet' = packet /\ buf' = buf /\ left' = left
  BY DEF Relist, fsys, wire
<1> DEFINE o == FromEntry(entry)
<1>2. IsObject(o) /\ o.handle = 2 /\ o.name.chars = entry.name
  BY FromEntryIs DEF IInv
<1> HIDE DEF o
<1>3. object' = o
  BY <1>1 DEF o
<1>4. ObjectInv'
  BY <1>2, <1>3 DEF ObjectInv
<1>5. EntryInv' /\ FlagsInv'
  BY <1>1 DEF IInv, EntryInv, FlagsInv
<1>6. NameInv'
  BY <1>1, <1>2, <1>3 DEF IInv, NameInv
<1>7. WireInv'
  BY <1>1 DEF IInv, WireInv
<1>8. ControlInv'
  BY <1>1 DEF IInv, ControlInv
<1> QED
  BY <1>4, <1>5, <1>6, <1>7, <1>8 DEF IInv

(* Nothing happens.                                                          *)
LEMMA StutterHolds ==
  ASSUME IInv, UNCHANGED vars
  PROVE  IInv'
<1>1. /\ UNCHANGED <<fsys, object, seen>> /\ pc' = pc /\ request' = request /\ code' = code
      /\ packet' = packet /\ buf' = buf /\ left' = left /\ got' = got
  BY DEF vars, wire
<1>2. Answer(request)' = Answer(request)
  <2>1. clock' = clock /\ entry' = entry /\ object' = object
    BY <1>1 DEF fsys
  <2> QED
    BY <1>1, <2>1, AnswerStands
<1>3. WireInv'
  BY <1>1 DEF IInv, WireInv
<1>4. Sending => Sending'
  BY <1>1, <1>2 DEF Sending
<1>5. Receiving => Receiving'
  BY <1>1 DEF Receiving
<1>6. AnsweredAsk => AnsweredAsk'
  BY <1>1, <1>2 DEF AnsweredAsk
<1>7. AnsweredTell => AnsweredTell'
  BY <1>1 DEF AnsweredTell
<1>8. ControlInv'
  BY <1>1, <1>4, <1>5, <1>6, <1>7 DEF IInv, ControlInv
<1> QED
  BY <1>1, <1>3, <1>8, ObjectStands DEF IInv

(* Every step keeps the invariant.                                           *)
LEMMA NextHolds == IInv /\ [Next]_vars => IInv'
<1> SUFFICES ASSUME IInv, [Next]_vars PROVE IInv'
  OBVIOUS
<1>1. ASSUME NEW r \in Requests, Ask(r) PROVE IInv'
  BY <1>1, AskHolds
<1>2. CASE SendInfo \/ SetName
  BY <1>2, TellingsAre, TellHolds
<1>3. CASE SendHeader
  BY <1>3, SendHeaderHolds
<1>4. CASE SendChunk
  BY <1>4, SendChunkHolds
<1>5. CASE Sent
  BY <1>5, SentHolds
<1>6. CASE ReceiveChunk
  BY <1>6, ReceiveChunkHolds
<1>7. CASE NotReceived
  BY <1>7, NotReceivedHolds
<1>8. CASE SendObjectInfo
  BY <1>8, SendObjectInfoHolds
<1>9. CASE SetObjectPropValue
  BY <1>9, SetObjectPropValueHolds
<1>10. CASE Finish
  BY <1>10, FinishHolds
<1>11. CASE Relist
  BY <1>11, RelistHolds
<1>12. CASE UNCHANGED vars
  BY <1>12, StutterHolds
<1> QED
  BY <1>1, <1>2, <1>3, <1>4, <1>5, <1>6, <1>7, <1>8, <1>9, <1>10, <1>11, <1>12 DEF Next

(* The invariant holds always.                                               *)
LEMMA Invariance == Spec => []IInv
BY InitHolds, NextHolds, PTL DEF Spec

-------------------------------------------------------------------------------
(* The theorems.                                                             *)

(* The object and what is on the wire have their types in every state, for   *)
(* every set of names and sizes, and every length of a buffer.               *)
THEOREM TypesHold == Spec => []TypeOK
<1>1. ASSUME IInv PROVE TypeOK
  <2>1. object.name.num_chars \in 0..(ByteSize - 1)
    BY <1>1, StringParts DEF IInv, ObjectInv, IsObject
  <2>2. left \in Nat /\ left = Len(buf)
    BY <1>1, LenProperties DEF IInv, WireInv
  <2>3. entry.kind \in {"dir", "file"} /\ entry.size \in Nat
    BY <1>1 DEF IInv, EntryInv
  <2>4. clock \in BOOLEAN /\ kept \in BOOLEAN /\ relisted \in BOOLEAN
    BY <1>1 DEF IInv, FlagsInv
  <2>5. pc \in {"idle", "send_header", "send", "sent", "receive", "received", "answered"}
    BY <1>1 DEF IInv, ControlInv
  <2> QED
    BY <2>1, <2>2, <2>3, <2>4, <2>5 DEF TypeOK
<1> QED
  BY <1>1, Invariance, PTL

(* What has been delivered is the answer to the request.                     *)
LEMMA DeliveredHas ==
  ASSUME IInv, Delivered
  PROVE  HostHas /\ got = packet /\ left = 0
<1>1. /\ pc = "answered" /\ code = "OK" /\ Len(packet) <= Chunk
      /\ request.op \notin {"SendObjectInfo", "SetObjectPropValue"}
  BY DEF Delivered
<1>2. AnsweredAsk
  <2>1. AnsweredAsk \/ AnsweredTell
    BY <1>1 DEF IInv, ControlInv
  <2>2. ~AnsweredTell
    BY <1>1, TellingParts DEF AnsweredTell
  <2> QED
    BY <2>1, <2>2
<1> QED
  BY <1>1, <1>2 DEF AnsweredAsk, HostHas, IInv

(* A request is answered with OK only if the whole dataset went over the     *)
(* wire, whichever transfers came short or failed: usb::send and receive     *)
(* return what they have transferred and DataPacket compares it.             *)
THEOREM SuccessDelivers == Spec => []SuccessIsDelivered
<1>1. ASSUME IInv PROVE SuccessIsDelivered
  <2> SUFFICES ASSUME pc = "answered", code = "OK"
               PROVE  left = 0 /\ (Delivered => got = packet)
    BY DEF SuccessIsDelivered
  <2>1. left = 0
    BY <1>1 DEF IInv, ControlInv, AnsweredAsk, AnsweredTell
  <2> QED
    BY <1>1, <2>1, DeliveredHas
<1> QED
  BY <1>1, Invariance, PTL

(* The host reads every dataset to its end, for names of any length, those   *)
(* that are too long for their count included, and lists of any objects:     *)
(* the types the handlers push are those they announce.                      *)
THEOREM DatasetsAreAligned == Spec => []DatasetsAlign
<1>1. ASSUME IInv PROVE DatasetsAlign
  BY <1>1, DeliveredHas, AnswerReads DEF DatasetsAlign, HostHas
<1> QED
  BY <1>1, Invariance, PTL

(* GetObjectInfo, GetObjectPropValue and GetObjectPropList say the same of   *)
(* the object, which is what the program knows of it.                        *)
THEOREM AnswersAllAgree == Spec => []AnswersAgree
<1>1. ASSUME IInv PROVE AnswersAgree
  <2> SUFFICES ASSUME Delivered
               PROVE  /\ request.op = "GetObjectPropValue" => Says(request.prop, HostReads.value)
                      /\ request.op = "GetObjectPropList" =>
                           LET list == HostReads.value
                           IN  \A i \in DOMAIN list :
                                 list[i].handle = object.handle =>
                                   Says(list[i].prop, list[i].value)
                      /\ request.op = "GetObjectInfo" =>
                           LET read == HostReads.value
                           IN  /\ Says("StorageID", read[1]) /\ Says("Object_Format", read[2])
                               /\ object.size < WordSize => Says("Object_Size", read[4])
                               /\ Says("Parent_Object", read[12])
                               /\ Says("Object_File_Name", read[16])
                               /\ Says("Date_Created", read[17])
                               /\ Says("Date_Modified", read[18])
    BY DEF AnswersAgree
  <2>1. HostHas /\ IsObject(object)
    BY <1>1, DeliveredHas DEF IInv, ObjectInv
  <2>2. ASSUME request.op = "GetObjectPropValue" PROVE Says(request.prop, HostReads.value)
    <3>1. is_file(object) \/ request.prop \notin FileProperties
      BY <2>1, <2>2 DEF HostHas, Answer, GetObjectPropValue, Refuse, is_file
    <3>2. request.prop \in ObjectProperties /\ HostReads.value = ItemOf(request.prop, object)
      BY <2>1, <2>2, ValueRead
    <3> QED
      BY <2>1, <3>1, <3>2, ItemSays DEF ObjectProperties
  <2>3. ASSUME request.op = "GetObjectPropList",
               NEW i \in DOMAIN HostReads.value, HostReads.value[i].handle = object.handle
        PROVE  Says(HostReads.value[i].prop, HostReads.value[i].value)
    <3> DEFINE list == HostReads.value
               mine == {j \in DOMAIN list : list[j].handle = object.handle}
    <3>1. \A j \in mine : list[j].prop \in ObjectProperties
                            /\ list[j].value = ItemOf(list[j].prop, object)
      BY <2>1, <2>3, ListRead
    <3>2. i \in mine
      BY <2>3
    <3>3. {list[j].prop : j \in mine} \subseteq {p \in ObjectProperties : ForFiles(p, object)}
      <4>1. \A p : Listed(p, object, request.format, request.prop) => ForFiles(p, object)
        BY DEF Listed
      <4> QED
        BY <2>1, <2>3, <4>1, ListRead
    <3> HIDE DEF mine, list
    <3>4. is_file(object) \/ list[i].prop \in CommonProperties
      BY <3>2, <3>3 DEF ForFiles
    <3>5. Says(list[i].prop, list[i].value)
      BY <2>1, <3>1, <3>2, <3>4, ItemSays
    <3> QED
      BY <3>5 DEF list
  <2>4. ASSUME request.op = "GetObjectInfo"
        PROVE  LET read == HostReads.value
               IN  /\ Says("StorageID", read[1]) /\ Says("Object_Format", read[2])
                   /\ object.size < WordSize => Says("Object_Size", read[4])
                   /\ Says("Parent_Object", read[12])
                   /\ Says("Object_File_Name", read[16])
                   /\ Says("Date_Created", read[17])
                   /\ Says("Date_Modified", read[18])
    <3> DEFINE read == HostReads.value
               wrapped == object.size % WordSize
    <3>1. /\ read[1] = Id /\ read[2] = object.format /\ read[4] = wrapped
          /\ read[12] = object.parent /\ read[16] = AsRead(object.name)
          /\ read[17] = DateTime(DateOf.created) /\ read[18] = DateTime(DateOf.modified)
      BY <2>1, <2>4, ObjectInfoRead
    <3>2. object.size < WordSize => wrapped = object.size
      BY <2>1, DatasetAssumption DEF IsObject
    <3>3. Fits(object.name.chars) => AsRead(object.name) = object.name
      BY <2>1, StringRead DEF IsObject
    <3> HIDE DEF read, wrapped
    <3>4. Says("StorageID", read[1]) /\ Says("Object_Format", read[2])
      BY <3>1 DEF Says
    <3>5. object.size < WordSize => Says("Object_Size", read[4])
      BY <3>1, <3>2 DEF Says
    <3>6. Says("Parent_Object", read[12]) /\ Says("Object_File_Name", read[16])
      BY <3>1, <3>3 DEF Says
    <3>7. Says("Date_Created", read[17]) /\ Says("Date_Modified", read[18])
      BY <3>1 DEF Says
    <3> QED
      BY <3>4, <3>5, <3>6, <3>7 DEF read
  <2> QED
    BY <2>2, <2>3, <2>4
<1> QED
  BY <1>1, Invariance, PTL

(* The properties that are announced for an object, by its format.           *)
LEMMA AnnouncedAre ==
  ASSUME NEW o, o.format \in Formats
  PROVE  /\ o.format = "Undefined" => Announced(o) = ObjectProperties
         /\ o.format = "Association" => Announced(o) = CommonProperties
         /\ o.format = "EXIF_JPEG" =>
              Announced(o) = {} /\ ~Contains(supported_playback_formats, o.format)
<1>1. \A x : Contains(supported_playback_formats, x) <=> x \in {"Undefined", "Association"}
  BY DEF Contains, supported_playback_formats
<1>3. ASSUME o.format = "Undefined" PROVE Announced(o) = ObjectProperties
  <2>1. Announced(o) = ToSet(supported["Undefined"])
    BY <1>1, <1>3 DEF Announced
  <2> DEFINE s == <<"StorageID", "Object_Format", "Object_Size", "Object_File_Name",
                    "Date_Created", "Date_Modified", "Parent_Object">>
  <2>2. supported["Undefined"] = s
    BY DEF supported
  <2>3. ToSet(s) = {"StorageID", "Object_Format", "Object_Size", "Object_File_Name",
                    "Date_Created", "Date_Modified", "Parent_Object"}
    BY DEF ToSet
  <2> QED
    BY <2>1, <2>2, <2>3 DEF ObjectProperties, CommonProperties, FileProperties
<1>4. ASSUME o.format = "Association" PROVE Announced(o) = CommonProperties
  <2>1. Announced(o) = ToSet(supported["Association"])
    BY <1>1, <1>4 DEF Announced
  <2> DEFINE s == <<"StorageID", "Object_Format", "Object_File_Name", "Parent_Object">>
  <2>2. supported["Association"] = s
    BY DEF supported
  <2>3. ToSet(s) = {"StorageID", "Object_Format", "Object_File_Name", "Parent_Object"}
    BY DEF ToSet
  <2> QED
    BY <2>1, <2>2, <2>3 DEF CommonProperties
<1>5. ASSUME o.format = "EXIF_JPEG"
      PROVE  Announced(o) = {} /\ ~Contains(supported_playback_formats, o.format)
  BY <1>1, <1>5 DEF Announced
<1> QED
  BY <1>3, <1>4, <1>5

(* Every operation, device property and format the device announces is       *)
(* answered, and so is every property of an object it names for the object's *)
(* format, alone or in a list of all, for every object.                      *)
THEOREM AnnouncedAnswers == Spec => []AnnouncedIsAnswered
<1>1. ASSUME IInv PROVE AnnouncedIsAnswered
  <2> SUFFICES ASSUME pc = "answered", Contains(supported_operations, request.op)
      PROVE /\ code # "Invalid_TransactionID"
            /\ code = "DeviceProp_Not_Supported" =>
                 ~Contains(supported_device_properties, request.prop)
            /\ request.op = "GetObjectPropsSupported" /\ code = "Operation_Not_Supported" =>
                 ~Contains(supported_playback_formats, request.format)
            /\ request.op \in {"GetObjectPropDesc", "GetObjectPropValue"}
                 /\ code \in {"Operation_Not_Supported", "Invalid_ObjectPropCode"} =>
                 request.prop \notin Announced(object)
            /\ request.op = "GetObjectPropList" /\ request.prop = "all" /\ Delivered
                 /\ Contains(supported_playback_formats, object.format)
                 /\ request.format \in {"all", object.format} =>
                 LET list == HostReads.value
                 IN  {list[i].prop : i \in {j \in DOMAIN list : list[j].handle = object.handle}}
                       = Announced(object)
    BY DEF AnnouncedIsAnswered
  <2>1. IsObject(object) /\ object.format \in Formats
    BY <1>1 DEF IInv, ObjectInv, IsObject
  <2>2. request.op # "GetNumObjects"
    BY DEF Contains, supported_operations
  <2>3. \/ code \in {"OK", "General_Error", "Invalid_ObjectPropCode"} /\ request \in Tellings
        \/ code = "General_Error"
        \/ code = "OK"
        \/ request \in Requests /\ code = Answer(request).code /\ code # "OK"
    BY <1>1 DEF IInv, ControlInv, AnsweredAsk, AnsweredTell
  <2>4. request \in Tellings =>
          request.op \notin {"GetObjectPropDesc", "GetObjectPropValue"}
    BY TellingParts
  <2>5. \/ code \in {"OK", "General_Error"}
        \/ code = "Invalid_ObjectPropCode" /\ request.op \notin {"GetObjectPropDesc", "GetObjectPropValue"}
        \/ /\ request.op \in {"GetDevicePropDesc", "GetDevicePropValue"}
           /\ code = "DeviceProp_Not_Supported"
           /\ ~Contains(supported_device_properties, request.prop)
        \/ /\ request.op = "GetObjectPropsSupported"
           /\ code = "Operation_Not_Supported"
           /\ request.format \notin DOMAIN supported
        \/ /\ request.op = "GetObjectPropDesc" /\ code = "Operation_Not_Supported"
           /\ request.prop \notin ObjectProperties
        \/ /\ request.op = "GetObjectPropValue" /\ code = "Invalid_ObjectPropCode"
           /\ \/ request.prop \notin ObjectProperties
              \/ request.prop \in FileProperties /\ is_directory(object)
    <3>1. CASE request \in Requests /\ code = Answer(request).code /\ code # "OK"
      BY <2>2, <3>1, RefusalCases
    <3>2. CASE ~(request \in Requests /\ code = Answer(request).code /\ code # "OK")
      BY <2>3, <2>4, <3>2
    <3> QED
      BY <3>1, <3>2
  <2>6. code # "Invalid_TransactionID"
    BY <2>5
  <2>7. code = "DeviceProp_Not_Supported" =>
          ~Contains(supported_device_properties, request.prop)
    BY <2>5
  <2>8. request.op = "GetObjectPropsSupported" /\ code = "Operation_Not_Supported" =>
          ~Contains(supported_playback_formats, request.format)
    <3>1. \A x : Contains(supported_playback_formats, x) => x \in {"Undefined", "Association"}
      BY DEF Contains, supported_playback_formats
    <3>2. DOMAIN supported = {"Undefined", "Association"}
      BY DEF supported
    <3> QED
      BY <2>5, <3>1, <3>2
  <2>9. ASSUME request.op \in {"GetObjectPropDesc", "GetObjectPropValue"},
               code \in {"Operation_Not_Supported", "Invalid_ObjectPropCode"}
        PROVE  request.prop \notin Announced(object)
    <3>1. \/ request.prop \notin ObjectProperties
          \/ request.prop \in FileProperties /\ object.format = "Association"
      BY <2>5, <2>9 DEF is_directory
    <3>2. /\ Announced(object) \subseteq ObjectProperties
          /\ object.format = "Association" => Announced(object) = CommonProperties
      BY <2>1, AnnouncedAre DEF Formats, ObjectProperties
    <3>3. FileProperties \cap CommonProperties = {}
      BY DEF FileProperties, CommonProperties
    <3> QED
      BY <3>1, <3>2, <3>3
  <2>10. ASSUME request.op = "GetObjectPropList", request.prop = "all", Delivered,
                Contains(supported_playback_formats, object.format),
                request.format \in {"all", object.format}
         PROVE  LET list == HostReads.value
                IN  {list[i].prop : i \in {j \in DOMAIN list : list[j].handle = object.handle}}
                      = Announced(object)
    <3> DEFINE list == HostReads.value
               mine == {j \in DOMAIN list : list[j].handle = object.handle}
               props == {p \in ObjectProperties : Listed(p, object, request.format, request.prop)}
    <3>1. {list[i].prop : i \in mine} = props
      <4>1. HostHas
        BY <1>1, <2>10, DeliveredHas
      <4> QED
        BY <2>10, <4>1, ListRead
    <3>2. \A p : Listed(p, object, request.format, request.prop) <=>
                   p \in CommonProperties \/ object.format # "Association"
      BY <2>10 DEF Listed, ForFiles, is_file, is_directory
    <3>3. props = Announced(object)
      <4>1. CASE object.format = "Undefined"
        BY <2>1, <3>2, <4>1, AnnouncedAre
      <4>2. CASE object.format = "Association"
        <5>1. CommonProperties \subseteq ObjectProperties
          BY DEF ObjectProperties
        <5> QED
          BY <2>1, <3>2, <4>2, <5>1, AnnouncedAre
      <4>3. CASE object.format = "EXIF_JPEG"
        BY <2>1, <2>10, <4>3, AnnouncedAre
      <4> QED
        BY <2>1, <4>1, <4>2, <4>3 DEF Formats
    <3> HIDE DEF mine, props, list
    <3>4. {list[i].prop : i \in mine} = Announced(object)
      BY <3>1, <3>3
    <3> QED
      BY <3>4 DEF mine, list
  <2> QED
    BY <2>6, <2>7, <2>8, <2>9, <2>10
<1> QED
  BY <1>1, Invariance, PTL

(* A name the host gave an object comes back to it from GetObjectInfo and    *)
(* GetObjectPropValue, for every name a String of the protocol can hold:     *)
(* whatever it is while the object is remembered; after a restart, if its    *)
(* characters are single bytes and the file system did as it was told.       *)
THEOREM NamesComeBack == Spec => []NameComesBack
<1>1. ASSUME IInv PROVE NameComesBack
  <2> SUFFICES ASSUME Delivered, given # Null, kept \/ ~relisted, Plain(given) \/ ~relisted
               PROVE  /\ request.op = "GetObjectInfo" => HostReads.value[16].chars = given
                      /\ request.op = "GetObjectPropValue" /\ request.prop = "Object_File_Name" =>
                           HostReads.value.chars = given
    BY DEF NameComesBack
  <2>1. HostHas /\ IsObject(object)
    BY <1>1, DeliveredHas DEF IInv, ObjectInv
  <2>2. given \in HostNames /\ object.name.chars = given
    BY <1>1 DEF IInv, NameInv
  <2>3. AsRead(object.name) = object.name
    BY <2>1, <2>2, DatasetAssumption, StringRead DEF IsObject
  <2>4. request.op = "GetObjectInfo" => HostReads.value[16] = AsRead(object.name)
    BY <2>1, ObjectInfoRead
  <2>5. request.op = "GetObjectPropValue" /\ request.prop = "Object_File_Name" =>
          HostReads.value = AsRead(object.name)
    BY <2>1, ValueRead DEF ItemOf
  <2> QED
    BY <2>2, <2>3, <2>4, <2>5
<1> QED
  BY <1>1, Invariance, PTL
===============================================================================
