-------------------------- MODULE StreamFromFileProofs --------------------------
(***************************************************************************)
(* Theorems about StreamFromFile, for buffers, files and parts of files of *)
(* any size.                                                               *)
(*                                                                         *)
(* The argument: what the host has, what is left of the transfer on its    *)
(* way, what waits in the other half and what is left to read follow one   *)
(* another in the file, and size counts what the host has not been sent,   *)
(* wrapped if it has been sent more than it asked for.                     *)
(***************************************************************************)
EXTENDS StreamFromFile, TLAPS

Types ==
  /\ TypeOK
  /\ pc \in {"header", "first", "loop", "wait", "begin", "last", "returned", "failed"}
  /\ buffers \in [0..1 -> [0..(Chunk - 1) -> Int]]
  /\ intact \in BOOLEAN
  /\ urb \in [state : {"none", "posted", "complete"}, half : 0..1,
              length : 0..Chunk, count : 0..Chunk]
  /\ got \in Seq(Int)
  /\ offset <= request.offset \/ offset <= request.length

(* n bytes of the file in a half, from that at this position on.             *)
Block(half, n, from) == \A k \in 0..(n - 1) : buffers[half][k] = from + k

(* Where the transfer on its way begins in the file.                         *)
Start == request.offset + Len(got) - urb.count

(* Where the part ends in the file, and the size when n is where the next    *)
(* byte to send is.                                                          *)
PartEnd == request.offset + request.size
Remaining(n) == IF n <= PartEnd THEN PartEnd - n ELSE PartEnd - n + SizeMod

Positions ==
  /\ urb.state = "complete" => urb.count = urb.length
  /\ pc \in {"header", "first"} =>
       /\ urb = NoUrb /\ got = <<>> /\ offset = request.offset
       /\ size = request.size
  /\ pc \in {"loop", "last"} =>
       /\ urb.state # "none" /\ urb.length = read /\ urb.half = idx
       /\ Start + read = offset /\ Block(idx, read, Start)
  /\ pc = "wait" =>
       /\ urb.state # "none" /\ urb.length = read /\ urb.half # idx
       /\ Start + read + tmp_read = offset
       /\ Block(urb.half, read, Start) /\ Block(idx, tmp_read, Start + read)
  /\ pc = "begin" =>
       /\ urb = NoUrb
       /\ Start + read = offset /\ Block(idx, read, Start)
  /\ pc \in {"loop", "wait", "begin"} => size = Remaining(Start)
  /\ pc = "last" => Start = PartEnd /\ (ToTheEnd => read = 0)
  /\ pc = "returned" =>
       /\ urb = NoUrb /\ Len(got) \in request.size..(request.size + Chunk)
       /\ ToTheEnd => Len(got) = request.size
  /\ pc = "failed" => urb = NoUrb

IInv == Types /\ Positions /\ HostGetsFile

-------------------------------------------------------------------------------
(* size_t does not wrap below its modulus.                                   *)
LEMMA NoWrap ==
  ASSUME NEW x \in Nat, x < SizeMod
  PROVE  x % SizeMod = x
BY StreamAssumption

(* ... but does once below zero ...                                          *)
LEMMA WrapsOnce ==
  ASSUME NEW x \in Int, -SizeMod <= x, x < 0
  PROVE  x % SizeMod = x + SizeMod
BY StreamAssumption

(* ... and stays below it.                                                   *)
LEMMA Wraps ==
  ASSUME NEW x \in Int
  PROVE  x % SizeMod \in 0..(SizeMod - 1)
BY StreamAssumption

(* The types of what was asked for and of the positions in it.               *)
LEMMA Numbers ==
  ASSUME Types
  PROVE  /\ request.size \in Nat /\ request.offset \in Nat /\ request.length \in Nat
         /\ request.size + request.offset + request.length + Chunk < SizeMod
         /\ Chunk \in Nat /\ 0 < Chunk /\ SizeMod \in Nat
         /\ size \in Nat /\ offset \in Nat /\ read \in 0..Chunk /\ tmp_read \in 0..Chunk
         /\ idx \in 0..1 /\ urb.half \in 0..1
         /\ urb.length \in 0..Chunk /\ urb.count \in 0..urb.length
         /\ Len(got) \in Nat
<1>1. request \in Requests /\ got \in Seq(Int)
  BY DEF Types, TypeOK
<1>2. /\ request.size \in Nat /\ request.offset \in Nat /\ request.length \in Nat
      /\ request.size + request.offset + request.length + Chunk < SizeMod
  BY <1>1, StreamAssumption
<1>3. Chunk \in Nat /\ 0 < Chunk /\ SizeMod \in Nat
  BY StreamAssumption
<1>4. Len(got) \in Nat
  BY <1>1
<1> QED
  BY <1>2, <1>3, <1>4 DEF Types, TypeOK, num_buffers

(* The initial states.                                                       *)
LEMMA InitIInv == Init => IInv
<1> SUFFICES ASSUME Init PROVE IInv
  OBVIOUS
<1> USE StreamAssumption DEF Init
<1>1. request \in Requests /\ size = request.size /\ offset = request.offset
  OBVIOUS
<1>2. /\ size \in 0..(SizeMod - 1) /\ offset \in 0..(SizeMod - 1)
      /\ offset <= request.offset
  BY <1>1
<1>3. buffers \in [0..1 -> [0..(Chunk - 1) -> Int]]
  BY DEF num_buffers
<1>4. intact \in BOOLEAN
  OBVIOUS
<1>5. /\ urb \in [state : {"none", "posted", "complete"}, half : 0..1,
                  length : 0..Chunk, count : 0..Chunk]
      /\ urb = NoUrb /\ urb.state = "none" /\ urb.half = 0 /\ urb.length = 0 /\ urb.count = 0
  BY DEF NoUrb
<1>6. got = <<>> /\ got \in Seq(Int) /\ Len(got) = 0
  OBVIOUS
<1>7. Types
  BY <1>1, <1>2, <1>3, <1>4, <1>5, <1>6 DEF Types, TypeOK, num_buffers
<1>8. Positions
  BY <1>1, <1>5, <1>6 DEF Positions
<1>9. HostGetsFile
  BY <1>6 DEF HostGetsFile
<1> QED
  BY <1>7, <1>8, <1>9 DEF IInv

(* A transfer is posted, or the device is not connected.                     *)
LEMMA BeginTypes ==
  ASSUME NEW half \in 0..1, NEW n \in 0..Chunk,
         urb' = [state |-> "posted", half |-> half, length |-> n, count |-> 0]
  PROVE  /\ urb'.state = "posted" /\ urb'.half = half /\ urb'.length = n /\ urb'.count = 0
         /\ urb' \in [state : {"none", "posted", "complete"}, half : 0..1,
                      length : 0..Chunk, count : 0..Chunk]
BY StreamAssumption

(* A half that is read holds what follows in the file, and the other half    *)
(* what it held.                                                             *)
LEMMA ReadBlock ==
  ASSUME IInv, NEW half \in 0..1, NEW n \in {Available, 0}, ReadInto(half, n)
  PROVE  /\ n \in 0..Chunk /\ offset' = offset + n /\ offset' \in Nat
         /\ offset' <= request.offset \/ offset' <= request.length
         /\ intact' \in BOOLEAN
         /\ buffers' \in [0..1 -> [0..(Chunk - 1) -> Int]]
         /\ \A k \in 0..(n - 1) : buffers'[half][k] = offset + k
         /\ \A b \in 0..1 : b # half => buffers'[b] = buffers[b]
<1> USE DEF IInv
<1>1. Types
  OBVIOUS
<1>2. /\ request.offset \in Nat /\ request.length \in Nat
      /\ Chunk \in Nat /\ offset \in Nat
  BY <1>1, Numbers
<1>3. n \in 0..Chunk /\ (n = 0 \/ (n = Available /\ offset + n <= request.length))
  BY <1>2 DEF Available
<1>4. /\ offset' = offset + n
      /\ buffers' = [buffers EXCEPT ![half] =
           [i \in DOMAIN @ |-> IF i < n THEN offset + i ELSE @[i]]]
  BY DEF ReadInto
<1>5. intact' \in BOOLEAN
  BY DEF ReadInto, Types
<1>6. offset' \in Nat /\ (offset' <= request.offset \/ offset' <= request.length)
  BY <1>2, <1>3, <1>4 DEF Types
<1>7. buffers \in [0..1 -> [0..(Chunk - 1) -> Int]]
  BY DEF Types
<1> DEFINE filled == [i \in 0..(Chunk - 1) |-> IF i < n THEN offset + i ELSE buffers[half][i]]
<1>8. filled \in [0..(Chunk - 1) -> Int]
  BY <1>2, <1>7
<1>9. \A k \in 0..(n - 1) : filled[k] = offset + k
  BY <1>2, <1>3
<1>10. buffers' = [buffers EXCEPT ![half] = filled]
  BY <1>4, <1>7
<1> HIDE DEF filled
<1> QED
  BY <1>3, <1>4, <1>5, <1>6, <1>7, <1>8, <1>9, <1>10

-------------------------------------------------------------------------------
(* The steps of the thread: nothing follows the header of an empty object.   *)
LEMMA HeaderIInv == IInv /\ Header => IInv'
<1> SUFFICES ASSUME IInv, Header PROVE IInv'
  OBVIOUS
<1> USE DEF IInv, Header
<1>1. Types'
  BY DEF Types, TypeOK, num_buffers
<1>2. Positions'
  <2>1. Len(got) = 0 /\ got = <<>> /\ urb = NoUrb /\ size = request.size
    BY DEF Positions
  <2>2. Chunk \in Nat /\ request.size \in Nat
    BY Numbers
  <2> QED
    BY <2>1, <2>2 DEF Positions, ToTheEnd, NoUrb
<1>3. HostGetsFile'
  BY DEF HostGetsFile
<1> QED
  BY <1>1, <1>2, <1>3

(* The first block is on its way.                                            *)
LEMMA FirstIInv == IInv /\ First => IInv'
<1> SUFFICES ASSUME IInv, First PROVE IInv'
  OBVIOUS
<1> USE DEF IInv
<1>1. /\ pc = "first" /\ read' \in {Available, 0} /\ ReadInto(idx, read')
      /\ UNCHANGED <<request, size, tmp_read, idx, got>>
  BY DEF First
<1>2. /\ urb = NoUrb /\ got = <<>> /\ offset = request.offset /\ size = request.size
      /\ urb.state = "none" /\ urb.count = 0 /\ Len(got) = 0
  BY <1>1 DEF Positions, NoUrb
<1>3. /\ idx \in 0..1 /\ request.offset \in Nat /\ request.size \in Nat
      /\ SizeMod \in Nat /\ Chunk \in Nat /\ request.length \in Nat
      /\ request.size + request.offset + request.length + Chunk < SizeMod
  BY Numbers
<1>4. /\ read' \in 0..Chunk /\ offset' = offset + read' /\ offset' \in Nat
      /\ offset' <= request.offset \/ offset' <= request.length
      /\ intact' \in BOOLEAN
      /\ buffers' \in [0..1 -> [0..(Chunk - 1) -> Int]]
      /\ \A k \in 0..(read' - 1) : buffers'[idx][k] = offset + k
  BY <1>1, <1>3, ReadBlock
<1>5. offset' \in 0..(SizeMod - 1)
  BY <1>3, <1>4
<1>6. CASE urb' = [state |-> "posted", half |-> idx, length |-> read', count |-> 0]
           /\ pc' = "loop"
  <2>1. /\ urb'.state = "posted" /\ urb'.half = idx /\ urb'.length = read' /\ urb'.count = 0
        /\ urb' \in [state : {"none", "posted", "complete"}, half : 0..1,
                     length : 0..Chunk, count : 0..Chunk]
    BY <1>3, <1>4, <1>6, BeginTypes
  <2>2. Types'
    <3>1. TypeOK'
      <4>1. /\ read' \in 0..Chunk /\ urb'.length \in 0..Chunk /\ urb'.count \in 0..urb'.length
            /\ urb'.state \in {"none", "posted", "complete"} /\ urb'.half \in 0..1
        BY <1>3, <1>4, <2>1
      <4> QED
        BY <1>1, <1>5, <4>1 DEF Types, TypeOK, num_buffers
    <3> QED
      BY <1>1, <1>4, <1>6, <2>1, <3>1 DEF Types
  <2>3. Start' = offset
    BY <1>1, <1>2, <1>3, <2>1 DEF Start
  <2>4. Block(idx, read, Start)'
    BY <1>1, <1>4, <2>3 DEF Block
  <2>5. (size = Remaining(Start))'
    BY <1>1, <1>2, <1>3, <2>3 DEF Remaining, PartEnd
  <2>6. Positions'
    BY <1>1, <1>4, <1>6, <2>1, <2>3, <2>4, <2>5 DEF Positions
  <2>7. HostGetsFile'
    BY <1>1 DEF HostGetsFile
  <2> QED
    BY <2>2, <2>6, <2>7
<1>7. CASE pc' = "failed" /\ UNCHANGED urb
  <2>1. Types'
    BY <1>1, <1>4, <1>5, <1>7 DEF Types, TypeOK, num_buffers
  <2>2. Positions'
    BY <1>2, <1>7 DEF Positions, NoUrb
  <2>3. HostGetsFile'
    BY <1>1 DEF HostGetsFile
  <2> QED
    BY <2>1, <2>2, <2>3
<1> QED
  BY <1>6, <1>7 DEF First, Begin

(* The block that follows is in the other half, and the one on its way where *)
(* it was.                                                                   *)
LEMMA ReadAheadIInv == IInv /\ ReadAhead => IInv'
<1> SUFFICES ASSUME IInv, ReadAhead PROVE IInv'
  OBVIOUS
<1> USE DEF IInv
<1>1. /\ pc = "loop" /\ idx' = Swapped(idx) /\ tmp_read' \in {Available, 0}
      /\ ReadInto(idx', tmp_read') /\ pc' = "wait"
      /\ UNCHANGED <<request, size, read, urb, got>>
  BY DEF ReadAhead
<1>2. /\ urb.state # "none" /\ urb.length = read /\ urb.half = idx
      /\ Start + read = offset /\ Block(idx, read, Start)
      /\ size = Remaining(Start)
  BY <1>1 DEF Positions
<1>3. /\ idx \in 0..1 /\ request.offset \in Nat /\ request.size \in Nat
      /\ SizeMod \in Nat /\ Chunk \in Nat /\ request.length \in Nat
      /\ request.size + request.offset + request.length + Chunk < SizeMod
      /\ read \in 0..Chunk /\ offset \in Nat /\ Len(got) \in Nat /\ urb.count \in Nat
  BY Numbers
<1>4. idx' \in 0..1 /\ idx' # idx
  BY <1>1, <1>3 DEF Swapped, num_buffers
<1>5. /\ tmp_read' \in 0..Chunk /\ offset' = offset + tmp_read' /\ offset' \in Nat
      /\ offset' <= request.offset \/ offset' <= request.length
      /\ intact' \in BOOLEAN
      /\ buffers' \in [0..1 -> [0..(Chunk - 1) -> Int]]
      /\ \A k \in 0..(tmp_read' - 1) : buffers'[idx'][k] = offset + k
      /\ \A b \in 0..1 : b # idx' => buffers'[b] = buffers[b]
  BY <1>1, <1>4, ReadBlock
<1>6. Types'
  <2>1. offset' < SizeMod
    <3>1. offset' \in Nat /\ (offset' <= request.offset \/ offset' <= request.length)
      BY <1>5
    <3> QED
      BY <1>3, <3>1
  <2>2. TypeOK'
    <3>1. tmp_read' \in 0..Chunk /\ offset' \in Nat
      BY <1>5
    <3>2. offset' \in 0..(SizeMod - 1)
      BY <1>3, <2>1, <3>1
    <3> QED
      BY <1>1, <1>4, <3>1, <3>2 DEF Types, TypeOK, num_buffers
  <2> QED
    BY <1>1, <1>5, <2>2 DEF Types
<1>7. Positions'
  <2>1. Start' = Start /\ Start \in Int
    BY <1>1, <1>3 DEF Start
  <2>2. Block(urb.half, read, Start)'
    BY <1>1, <1>2, <1>3, <1>4, <1>5, <2>1 DEF Block
  <2>3. Block(idx, tmp_read, Start + read)'
    BY <1>1, <1>2, <1>5, <2>1 DEF Block
  <2>4. Start' + read' + tmp_read' = offset'
    BY <1>1, <1>2, <1>3, <1>5, <2>1
  <2>5. urb'.state = "complete" => urb'.count = urb'.length
    BY <1>1 DEF Positions
  <2>6. (size = Remaining(Start))'
    BY <1>1, <1>2, <2>1 DEF Remaining, PartEnd
  <2> QED
    BY <1>1, <1>2, <1>4, <2>2, <2>3, <2>4, <2>5, <2>6 DEF Positions
<1>8. HostGetsFile'
  BY <1>1 DEF HostGetsFile
<1> QED
  BY <1>6, <1>7, <1>8

(* The transfer on its way has been taken whole.                             *)
LEMMA WaitSentIInv == IInv /\ WaitSent => IInv'
<1> SUFFICES ASSUME IInv, WaitSent PROVE IInv'
  OBVIOUS
<1> USE DEF IInv
<1>1. /\ pc = "wait" /\ urb.state = "complete" /\ urb' = NoUrb
      /\ UNCHANGED <<request, offset, tmp_read, idx, intact, buffers, got>>
  BY DEF WaitSent, Wait
<1>2. \/ /\ pc' = "begin" /\ urb.count = read
         /\ size' = Left(size, urb.count) /\ read' = tmp_read
      \/ pc' = "failed" /\ size' = size /\ read' = read
  BY DEF WaitSent, Wait
<1>3. /\ urb.count = read /\ Start + read + tmp_read = offset
      /\ Block(idx, tmp_read, Start + read)
      /\ size = Remaining(Start)
  BY <1>1 DEF Positions
<1>4. /\ request.offset \in Nat /\ request.size \in Nat /\ request.length \in Nat
      /\ request.size + request.offset + request.length + Chunk < SizeMod
      /\ SizeMod \in Nat /\ size \in Nat /\ offset \in Nat /\ read \in 0..Chunk
      /\ tmp_read \in 0..Chunk /\ Chunk \in Nat /\ Len(got) \in Nat /\ urb.count \in Nat
  BY Numbers
<1>5. /\ urb' \in [state : {"none", "posted", "complete"}, half : 0..1,
                   length : 0..Chunk, count : 0..Chunk]
      /\ urb'.state = "none" /\ urb'.count = 0 /\ urb'.half = 0 /\ urb'.length = 0
  BY <1>1, <1>4 DEF NoUrb
<1>6. size' \in 0..(SizeMod - 1)
  <2>1. size - urb.count \in Int
    BY <1>4
  <2>2. Left(size, urb.count) \in 0..(SizeMod - 1)
    BY <2>1, Wraps DEF Left
  <2> QED
    BY <1>2, <2>2 DEF Types, TypeOK
<1>7. Types'
  <2>1. TypeOK'
    BY <1>1, <1>2, <1>4, <1>5, <1>6 DEF Types, TypeOK, num_buffers
  <2> QED
    BY <1>1, <1>2, <1>5, <2>1 DEF Types
<1>8. Positions'
  <2>1. CASE pc' = "failed"
    BY <1>1, <1>5, <2>1 DEF Positions
  <2>2. CASE pc' = "begin" /\ size' = Left(size, urb.count) /\ read' = tmp_read
    <3>1. Start' = Start + read /\ Start \in Int
      BY <1>1, <1>3, <1>4, <1>5 DEF Start
    <3>2. Start' + read' = offset'
      BY <1>1, <1>3, <1>4, <2>2, <3>1
    <3>3. Block(idx, read, Start)'
      BY <1>1, <1>3, <2>2, <3>1 DEF Block
    <3>4. (size = Remaining(Start))'
      <4>1. request' = request /\ Start \in Int /\ Start' = Start + read
        BY <1>1, <3>1
      <4>2. Start' <= offset /\ offset < SizeMod /\ PartEnd \in Nat /\ PartEnd < SizeMod
        <5>1. offset < SizeMod
          BY <1>4 DEF Types, TypeOK
        <5>2. PartEnd \in Nat /\ PartEnd < SizeMod
          BY <1>4 DEF PartEnd
        <5>3. Start' <= offset
          BY <1>3, <1>4, <4>1
        <5> QED
          BY <5>1, <5>2, <5>3
      <4>3. size = Remaining(Start) /\ urb.count = read
        BY <1>3
      <4>4. CASE Start' <= PartEnd
        <5>1. size - urb.count = PartEnd - Start'
          BY <1>4, <4>1, <4>2, <4>3, <4>4 DEF Remaining
        <5>2. PartEnd - Start' \in Nat /\ PartEnd - Start' < SizeMod
          <6>1. size \in 0..(SizeMod - 1) /\ size - urb.count <= size
            BY <1>4 DEF Types, TypeOK
          <6> QED
            BY <1>4, <4>1, <4>2, <4>4, <5>1, <6>1
        <5>3. size' = PartEnd - Start'
          BY <2>2, <5>1, <5>2, NoWrap DEF Left
        <5> QED
          BY <4>1, <4>4, <5>3 DEF Remaining, PartEnd
      <4>5. CASE ~(Start' <= PartEnd) /\ Start <= PartEnd
        <5>1. size - urb.count = PartEnd - Start'
          BY <1>4, <4>1, <4>2, <4>3, <4>5 DEF Remaining
        <5>2. /\ PartEnd - Start' \in Int /\ -SizeMod <= PartEnd - Start'
              /\ PartEnd - Start' < 0
          BY <1>4, <4>1, <4>2, <4>5
        <5>3. size' = PartEnd - Start' + SizeMod
          BY <2>2, <5>1, <5>2, WrapsOnce DEF Left
        <5> QED
          BY <4>1, <4>5, <5>3 DEF Remaining, PartEnd
      <4>6. CASE ~(Start <= PartEnd)
        <5>1. size - urb.count = PartEnd - Start' + SizeMod /\ ~(Start' <= PartEnd)
          BY <1>4, <4>1, <4>2, <4>3, <4>6 DEF Remaining
        <5>2. PartEnd - Start' + SizeMod \in Nat /\ PartEnd - Start' + SizeMod < SizeMod
          BY <1>4, <4>1, <4>2, <5>1
        <5>3. size' = PartEnd - Start' + SizeMod
          BY <2>2, <5>1, <5>2, NoWrap DEF Left
        <5> QED
          BY <4>1, <5>1, <5>3 DEF Remaining, PartEnd
      <4> QED
        BY <4>4, <4>5, <4>6
    <3> QED
      BY <1>1, <1>5, <2>2, <3>2, <3>3, <3>4 DEF Positions
  <2> QED
    BY <1>2, <2>1, <2>2
<1>9. HostGetsFile'
  BY <1>1 DEF HostGetsFile
<1> QED
  BY <1>7, <1>8, <1>9

(* The block that waited is on its way; after the last it is empty.          *)
LEMMA BeginNextIInv == IInv /\ BeginNext => IInv'
<1> SUFFICES ASSUME IInv, BeginNext PROVE IInv'
  OBVIOUS
<1> USE DEF IInv
<1>1. /\ pc = "begin" /\ Begin(read, IF size # 0 THEN "loop" ELSE "last")
      /\ request' = request /\ size' = size /\ offset' = offset /\ read' = read
      /\ tmp_read' = tmp_read /\ idx' = idx /\ intact' = intact
      /\ buffers' = buffers /\ got' = got
  BY DEF BeginNext, AfterLoop, thread
<1>2. /\ urb = NoUrb /\ urb.state = "none" /\ urb.count = 0
      /\ Start + read = offset /\ Block(idx, read, Start)
      /\ size = Remaining(Start)
  BY <1>1 DEF Positions, NoUrb
<1>3. /\ request.offset \in Nat /\ request.size \in Nat /\ request.length \in Nat
      /\ size \in Nat /\ offset \in Nat /\ read \in 0..Chunk /\ idx \in 0..1
      /\ Chunk \in Nat /\ Len(got) \in Nat
  BY Numbers
<1>4. HostGetsFile'
  BY <1>1 DEF HostGetsFile
<1>5. CASE urb' = [state |-> "posted", half |-> idx, length |-> read, count |-> 0]
           /\ pc' = IF size # 0 THEN "loop" ELSE "last"
  <2>1. /\ urb'.state = "posted" /\ urb'.half = idx /\ urb'.length = read /\ urb'.count = 0
        /\ urb' \in [state : {"none", "posted", "complete"}, half : 0..1,
                     length : 0..Chunk, count : 0..Chunk]
    BY <1>3, <1>5, BeginTypes
  <2>2. Types'
    BY <1>1, <1>3, <1>5, <2>1 DEF Types, TypeOK, num_buffers
  <2>3. Start' = Start /\ Start = request.offset + Len(got)
    BY <1>1, <1>2, <1>3, <2>1 DEF Start
  <2>4. Block(idx, read, Start)'
    BY <1>1, <1>2, <2>3 DEF Block
  <2>5. (size = Remaining(Start))'
    BY <1>1, <1>2, <2>3 DEF Remaining, PartEnd
  <2>6. (pc = "last" => Start = PartEnd /\ (ToTheEnd => read = 0))'
    <3> SUFFICES ASSUME size = 0
                 PROVE  Start = PartEnd /\ (ToTheEnd => read = 0)
      BY <1>1, <1>5, <2>3 DEF ToTheEnd, PartEnd
    <3>1. Start \in Int /\ PartEnd \in Nat /\ SizeMod \in Nat /\ offset < SizeMod
          /\ Start <= offset
      <4>1. SizeMod \in Nat /\ offset < SizeMod
        BY Numbers DEF Types, TypeOK
      <4>2. PartEnd \in Nat
        BY <1>3 DEF PartEnd
      <4>3. Start \in Int
        BY <1>3, <2>3
      <4> QED
        BY <1>2, <1>3, <4>1, <4>2, <4>3
    <3>2. Start = PartEnd
      <4>1. Remaining(Start) = 0
        BY <1>2
      <4>2. CASE Start <= PartEnd
        BY <3>1, <4>1, <4>2 DEF Remaining
      <4>3. CASE ~(Start <= PartEnd)
        <5>1. PartEnd - Start + SizeMod = 0
          BY <4>1, <4>3 DEF Remaining
        <5> QED
          BY <1>3, <3>1, <5>1
      <4> QED
        BY <4>2, <4>3
    <3>3. ASSUME ToTheEnd PROVE read = 0
      <4>1. offset <= PartEnd /\ Start + read = offset
        BY <1>2, <1>3, <3>3 DEF Types, ToTheEnd, PartEnd
      <4> QED
        BY <1>3, <3>1, <3>2, <4>1
    <3> QED
      BY <3>2, <3>3
  <2> QED
    BY <1>1, <1>2, <1>4, <1>5, <2>1, <2>2, <2>3, <2>4, <2>5, <2>6 DEF Positions
<1>6. CASE pc' = "failed" /\ UNCHANGED urb
  <2>1. Types'
    BY <1>1, <1>6 DEF Types, TypeOK, num_buffers
  <2>2. Positions'
    BY <1>2, <1>6 DEF Positions
  <2> QED
    BY <1>4, <2>1, <2>2
<1> QED
  BY <1>1, <1>5, <1>6 DEF Begin

(* The last transfer has been taken.                                         *)
LEMMA WaitLastIInv == IInv /\ WaitLast => IInv'
<1> SUFFICES ASSUME IInv, WaitLast PROVE IInv'
  OBVIOUS
<1> USE DEF IInv
<1>1. /\ pc = "last" /\ urb' = NoUrb /\ pc' \in {"returned", "failed"}
      /\ request' = request /\ size' = size /\ offset' = offset /\ read' = read
      /\ tmp_read' = tmp_read /\ idx' = idx /\ intact' = intact
      /\ buffers' = buffers /\ got' = got
  BY DEF WaitLast, Wait, thread
<1>2. /\ urb' \in [state : {"none", "posted", "complete"}, half : 0..1,
                   length : 0..Chunk, count : 0..Chunk]
      /\ urb'.state = "none" /\ urb'.count = 0 /\ urb'.half = 0 /\ urb'.length = 0
  BY <1>1, StreamAssumption DEF NoUrb
<1>3. Types'
  BY <1>1, <1>2 DEF Types, TypeOK, num_buffers
<1>4. Positions'
  <2>1. /\ Start = PartEnd /\ urb.length = read /\ (ToTheEnd => read = 0)
    BY <1>1 DEF Positions
  <2>2. /\ request.size \in Nat /\ request.offset \in Nat /\ Len(got) \in Nat
        /\ Chunk \in Nat /\ read \in 0..Chunk /\ urb.count \in 0..urb.length
    BY Numbers
  <2>3. Len(got) = request.size + urb.count
    BY <2>1, <2>2 DEF Start, PartEnd
  <2>4. Len(got) \in request.size..(request.size + Chunk)
    BY <2>1, <2>2, <2>3
  <2>5. ToTheEnd => Len(got) = request.size
    BY <2>1, <2>2, <2>3
  <2> QED
    BY <1>1, <1>2, <2>4, <2>5 DEF Positions, ToTheEnd
<1>5. HostGetsFile'
  BY <1>1 DEF HostGetsFile
<1> QED
  BY <1>3, <1>4, <1>5

-------------------------------------------------------------------------------
(* The host takes the next byte of the transfer, which is that of the file.  *)
LEMMA ByteIInv == IInv /\ Byte => IInv'
<1> SUFFICES ASSUME IInv, Byte PROVE IInv'
  OBVIOUS
<1> USE DEF IInv
<1>1. /\ urb.state = "posted" /\ urb.count < urb.length
      /\ got' = Append(got, buffers[urb.half][urb.count])
      /\ urb' = [urb EXCEPT !.count = urb.count + 1]
      /\ request' = request /\ size' = size /\ offset' = offset /\ read' = read
      /\ tmp_read' = tmp_read /\ idx' = idx /\ intact' = intact
      /\ buffers' = buffers /\ pc' = pc
  BY DEF Byte, thread
<1>2. /\ request.offset \in Nat /\ offset \in Nat /\ read \in 0..Chunk /\ idx \in 0..1
      /\ Chunk \in Nat /\ Len(got) \in Nat
      /\ urb.half \in 0..1 /\ urb.length \in 0..Chunk /\ urb.count \in 0..urb.length
  BY Numbers
<1>3. /\ urb' \in [state : {"none", "posted", "complete"}, half : 0..1,
                   length : 0..Chunk, count : 0..Chunk]
      /\ urb'.state = urb.state /\ urb'.half = urb.half /\ urb'.length = urb.length
      /\ urb'.count = urb.count + 1 /\ urb'.count \in 0..urb'.length
  <2>1. urb \in [state : {"none", "posted", "complete"}, half : 0..1,
                 length : 0..Chunk, count : 0..Chunk]
    BY DEF Types
  <2>2. urb.count + 1 \in 0..Chunk /\ urb.count + 1 \in 0..urb.length
    BY <1>1, <1>2
  <2> QED
    BY <1>1, <2>1, <2>2
<1>4. buffers[urb.half][urb.count] \in Int /\ got \in Seq(Int)
  BY <1>1, <1>2 DEF Types
<1>5. /\ got' \in Seq(Int) /\ Len(got') = Len(got) + 1
      /\ got'[Len(got) + 1] = buffers[urb.half][urb.count]
      /\ \A k \in 1..Len(got) : got'[k] = got[k]
  BY <1>1, <1>4
<1>6. pc \in {"loop", "wait", "last"}
  BY <1>1 DEF Positions, NoUrb, Types
<1>7. Block(urb.half, urb.length, Start) /\ Start \in Int
  BY <1>2, <1>6 DEF Positions, Start
<1>8. Start' = Start
  BY <1>1, <1>2, <1>3, <1>5 DEF Start
<1>9. Types'
  BY <1>1, <1>3, <1>5 DEF Types, TypeOK, num_buffers
<1>10. Positions'
  <2>1. pc = "last" /\ ToTheEnd => read = 0
    BY DEF Positions
  <2>2. ~(pc = "last" /\ ToTheEnd)
    BY <1>1, <1>2, <2>1 DEF Positions
  <2>3. urb'.state # "complete"
    BY <1>1, <1>3
  <2> QED
    BY <1>1, <1>3, <1>6, <1>8, <2>2, <2>3 DEF Positions, Block, ToTheEnd, Remaining, PartEnd
<1>11. HostGetsFile'
  <2> SUFFICES ASSUME NEW k \in 1..(Len(got) + 1)
               PROVE  got'[k] = request.offset + k - 1
    BY <1>1, <1>5 DEF HostGetsFile
  <2>1. CASE k = Len(got) + 1
    <3>1. urb.count \in 0..(urb.length - 1)
      BY <1>1, <1>2
    <3>2. buffers[urb.half][urb.count] = Start + urb.count
      BY <1>7, <3>1 DEF Block
    <3> QED
      BY <1>2, <1>5, <2>1, <3>2 DEF Start
  <2>2. CASE k # Len(got) + 1
    <3>1. k \in 1..Len(got)
      BY <1>2, <2>2
    <3> QED
      BY <1>5, <3>1 DEF HostGetsFile
  <2> QED
    BY <2>1, <2>2
<1> QED
  BY <1>9, <1>10, <1>11

(* All of the transfer has been taken.                                       *)
LEMMA CompleteIInv == IInv /\ Complete => IInv'
<1> SUFFICES ASSUME IInv, Complete PROVE IInv'
  OBVIOUS
<1> USE DEF IInv
<1>1. /\ urb.state = "posted" /\ urb.count = urb.length
      /\ urb' = [urb EXCEPT !.state = "complete"]
      /\ request' = request /\ size' = size /\ offset' = offset /\ read' = read
      /\ tmp_read' = tmp_read /\ idx' = idx /\ intact' = intact
      /\ buffers' = buffers /\ pc' = pc /\ got' = got
  BY DEF Complete, thread
<1>2. /\ urb' \in [state : {"none", "posted", "complete"}, half : 0..1,
                   length : 0..Chunk, count : 0..Chunk]
      /\ urb'.state = "complete" /\ urb'.half = urb.half /\ urb'.length = urb.length
      /\ urb'.count = urb.count
  BY <1>1 DEF Types
<1>3. Types'
  BY <1>1, <1>2 DEF Types, TypeOK, num_buffers
<1>4. Start' = Start
  BY <1>1, <1>2 DEF Start
<1>5. pc \in {"loop", "wait", "last"}
  BY <1>1 DEF Positions, NoUrb, Types
<1>6. Positions'
  BY <1>1, <1>2, <1>4, <1>5 DEF Positions, Block, ToTheEnd, Remaining, PartEnd
<1>7. HostGetsFile'
  BY <1>1 DEF HostGetsFile
<1> QED
  BY <1>3, <1>6, <1>7

(* The invariant is preserved by every step.                                 *)
LEMMA NextIInv == IInv /\ [Next]_vars => IInv'
<1>1. ASSUME IInv, UNCHANGED vars PROVE IInv'
  <2>1. /\ request' = request /\ size' = size /\ offset' = offset /\ read' = read
        /\ tmp_read' = tmp_read /\ idx' = idx /\ intact' = intact
        /\ buffers' = buffers /\ pc' = pc /\ got' = got /\ urb' = urb
    BY <1>1 DEF vars, thread
  <2> QED
    BY <1>1, <2>1 DEF IInv, Types, TypeOK, Positions, HostGetsFile, ToTheEnd, Start, Block,
       Remaining, PartEnd
<1> QED
  BY <1>1, HeaderIInv, FirstIInv, ReadAheadIInv, WaitSentIInv, BeginNextIInv,
     WaitLastIInv, ByteIInv, CompleteIInv DEF Next, Thread, Endpoint

(* The inductive invariant holds in every state of the thread, the endpoint  *)
(* and the host.                                                             *)
THEOREM AlwaysIInv == Spec => []IInv
<1>1. Init => IInv
  BY InitIInv
<1>2. IInv /\ [Next]_vars => IInv'
  BY NextIInv
<1> QED
  BY <1>1, <1>2, PTL DEF Spec

-------------------------------------------------------------------------------
(* The variables of stream_from_file always have their types.                *)
THEOREM TypeCorrect == Spec => []TypeOK
<1>1. IInv => TypeOK
  BY DEF IInv, Types
<1> QED
  BY <1>1, AlwaysIInv, PTL

(* The host has the bytes of the file in order, whatever part it asked for.  *)
THEOREM HostAlwaysGetsFile == Spec => []HostGetsFile
<1>1. IInv => HostGetsFile
  BY DEF IInv
<1> QED
  BY <1>1, AlwaysIInv, PTL

(* Success means that the host has all it asked for, of a file of any        *)
(* length, and at most a chunk more, that the end of the file ends the data  *)
(* exactly, and that nothing is left on the endpoint.                        *)
THEOREM SuccessAlwaysExact == Spec => []SuccessIsExact
<1>1. IInv => SuccessIsExact
  BY DEF IInv, Positions, SuccessIsExact
<1> QED
  BY <1>1, AlwaysIInv, PTL
===============================================================================
