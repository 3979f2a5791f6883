--------------------------- MODULE StreamToFileProofs ---------------------------
(***************************************************************************)
(* Theorems about StreamToFile, for buffers and objects of any size.       *)
(*                                                                         *)
(* The argument: from the header to the tail, the packets the host has     *)
(* sent are those in the file, then those in the half that waits to be     *)
(* written, then those in the half that is being filled, in this order.    *)
(* The size is what was announced without them, wrapped if there are more, *)
(* and so is zero only when there are as many.                             *)
(***************************************************************************)
EXTENDS StreamToFile, TLAPS

Types ==
  /\ TypeOK
  /\ pc \in {"header", "first", "wait", "loop", "write", "tail", "drain", "drained",
             "returned", "failed"}
  /\ buffers \in [0..1 -> [0..(Chunk - 1) -> Int]]
  /\ intact \in BOOLEAN
  /\ urb \in [state : {"none", "posted", "complete"}, half : 0..1, count : 0..Chunk]
  /\ host \in [announced : Nat, total : Nat, out : Nat, ended : BOOLEAN]
  /\ host.total < SizeMod /\ host.announced < SizeMod

(* n packets of the object in a half, from that at this position on.         *)
Block(half, n, from) == \A k \in 0..(n - 1) : buffers[half][k] = from + k

(* A transfer that did not fill its half has taken the host's last packet.   *)
Ended(transferred) == transferred < Chunk => host.ended

(* The size when n packets have been taken off what was announced.           *)
Remaining(n) ==
  IF n <= host.announced THEN host.announced - n ELSE host.announced - n + SizeMod

Positions ==
  /\ urb.state = "posted" => urb.count < Chunk
  /\ urb.state = "complete" => Ended(urb.count)
  /\ pc \in {"header", "first"} =>
       offset = 0 /\ host.out = 0 /\ urb = NoUrb /\ size = Remaining(0)
  /\ pc = "header" /\ size = 0 => host.ended
  /\ pc = "wait" =>
       /\ urb.state # "none" /\ urb.half = idx /\ offset + urb.count = host.out
       /\ Block(idx, urb.count, offset)
       /\ size = Remaining(offset)
  /\ pc \in {"loop", "tail"} =>
       /\ urb = NoUrb /\ offset + received = host.out /\ Ended(received)
       /\ Block(idx, received, offset)
       /\ size = Remaining(host.out)
  /\ pc = "tail" => size = 0
  /\ pc = "write" =>
       /\ urb.state # "none" /\ urb.half = idx /\ buf # idx
       /\ offset + received + urb.count = host.out
       /\ Block(buf, received, offset) /\ Block(idx, urb.count, offset + received)
       /\ size = Remaining(offset + received)
  /\ pc = "drain" => urb = NoUrb /\ (Exact => host.out = host.total)
  /\ pc = "drained" =>
       urb.state # "none" /\ (Exact => host.out = host.total /\ urb.count = 0)
  /\ pc = "returned" => urb = NoUrb /\ (Exact => host.out = host.total /\ host.ended)

Written ==
  /\ DOMAIN file \subseteq Nat
  /\ BlocksInPlace
  /\ pc \in {"header", "first", "wait", "loop", "write", "tail"} =>
       /\ DOMAIN file \subseteq 0..(offset - 1)
       /\ intact => DOMAIN file = 0..(offset - 1)
  /\ pc \in {"drain", "drained", "returned"} /\ intact =>
       DOMAIN file = 0..(host.announced - 1)

IInv == Types /\ Positions /\ Written

-------------------------------------------------------------------------------
(* size_t does not wrap below its modulus.                                   *)
LEMMA NoWrap ==
  ASSUME NEW x \in Nat, x < SizeMod
  PROVE  x % SizeMod = x
BY StreamAssumption

(* ... but does once below zero ...                                          *)
LEMMA WrapsOnce ==
  ASSUME NEW x \in Int, -SizeMod <= x, x < 0
  PROVE  x % SizeMod = x + SizeMod
BY StreamAssumption

(* ... and stays below it.                                                   *)
LEMMA Wraps ==
  ASSUME NEW x \in Int
  PROVE  x % SizeMod \in 0..(SizeMod - 1)
BY StreamAssumption

(* The initial states.                                                       *)
LEMMA InitIInv == Init => IInv
<1> SUFFICES ASSUME Init PROVE IInv
  OBVIOUS
<1> USE StreamAssumption DEF Init
<1>1. PICK excess \in Excess :
        /\ size + excess >= 0
        /\ host = [announced |-> size, total |-> size + excess,
                   out |-> 0, ended |-> size = 0]
  OBVIOUS
<1>2. size \in 0..MaxSize /\ excess \in Int /\ MaxSize + excess < SizeMod
  OBVIOUS
<1>3. host \in [announced : Nat, total : Nat, out : Nat, ended : BOOLEAN]
      /\ host.total < SizeMod /\ host.out = 0 /\ host.announced = size
      /\ host.announced < SizeMod /\ size = host.announced - 0 /\ 0 <= host.announced
      /\ (size = 0 => host.ended)
  <2>1. size \in Nat /\ size + excess \in Nat /\ size + excess < SizeMod
    BY <1>1, <1>2
  <2> DEFINE none == size = 0
  <2>2. none \in BOOLEAN
    OBVIOUS
  <2>3. host = [announced |-> size, total |-> size + excess, out |-> 0, ended |-> none]
    BY <1>1
  <2>4. size = 0 => none
    OBVIOUS
  <2> HIDE DEF none
  <2> QED
    BY <2>1, <2>2, <2>3, <2>4
<1>4. buffers \in [0..1 -> [0..(Chunk - 1) -> Int]]
  BY DEF num_buffers
<1>5. intact \in BOOLEAN
  OBVIOUS
<1>6. urb \in [state : {"none", "posted", "complete"}, half : 0..1, count : 0..Chunk]
      /\ urb = NoUrb /\ urb.state = "none"
  BY DEF NoUrb
<1>7. DOMAIN file = {}
  OBVIOUS
<1>8. Types
  BY <1>2, <1>3, <1>4, <1>5, <1>6 DEF Types, TypeOK, num_buffers
<1>9. Positions
  BY <1>3, <1>6 DEF Positions, Remaining
<1>10. Written
  BY <1>7 DEF Written, BlocksInPlace
<1> QED
  BY <1>8, <1>9, <1>10 DEF IInv

(* A transfer is posted, or the device is not connected.                     *)
LEMMA BeginTypes ==
  ASSUME NEW half \in 0..1, NEW next, Begin(half, next)
  PROVE  \/ /\ urb' = [state |-> "posted", half |-> half, count |-> 0]
            /\ urb'.state = "posted" /\ urb'.half = half /\ urb'.count = 0
            /\ urb' \in [state : {"none", "posted", "complete"}, half : 0..1, count : 0..Chunk]
            /\ pc' = next
         \/ pc' = "failed" /\ urb' = urb
BY StreamAssumption DEF Begin

(* A write puts a block of packets in their place, behind those before.      *)
LEMMA WriteInPlace ==
  ASSUME IInv, NEW half \in 0..1, Write(half), Block(half, received, offset),
         DOMAIN file \subseteq 0..(offset - 1),
         intact => DOMAIN file = 0..(offset - 1)
  PROVE  /\ intact' \in BOOLEAN /\ (intact' => intact)
         /\ DOMAIN file' \subseteq 0..(offset + received - 1)
         /\ \A i \in DOMAIN file' : file'[i] = i
         /\ intact' => DOMAIN file' = 0..(offset + received - 1)
<1>1. offset \in Nat /\ received \in Nat /\ intact \in BOOLEAN
  BY StreamAssumption DEF IInv, Types, TypeOK
<1>2. CASE UNCHANGED intact /\ file' =
             [i \in DOMAIN file \cup offset..(offset + received - 1) |->
                IF i < offset THEN file[i] ELSE buffers[half][i - offset]]
  <2>1. DOMAIN file' = DOMAIN file \cup offset..(offset + received - 1)
    BY <1>2
  <2>2. ASSUME NEW i \in DOMAIN file'
        PROVE  file'[i] = i
    <3>1. CASE i < offset
      <4>1. i \in DOMAIN file
        BY <1>1, <2>1, <3>1
      <4> QED
        BY <1>2, <2>1, <3>1, <4>1 DEF IInv, Written, BlocksInPlace
    <3>2. CASE ~(i < offset)
      <4>1. i \in offset..(offset + received - 1)
        BY <1>1, <2>1, <3>2
      <4>2. i - offset \in 0..(received - 1) /\ offset + (i - offset) = i
        BY <1>1, <4>1
      <4> QED
        BY <1>2, <2>1, <3>2, <4>2 DEF Block
    <3> QED
      BY <3>1, <3>2
  <2>3. intact' \in BOOLEAN /\ (intact' => intact)
    BY <1>1, <1>2
  <2> QED
    BY <1>1, <2>1, <2>2, <2>3
<1>3. CASE intact' = FALSE /\ UNCHANGED file
  <2>1. \A i \in DOMAIN file : file[i] = i
    BY DEF IInv, Written, BlocksInPlace
  <2>2. intact' \in BOOLEAN /\ ~intact'
    BY <1>3
  <2> QED
    BY <1>1, <1>3, <2>1, <2>2
<1> QED
  BY <1>2, <1>3 DEF Write

-------------------------------------------------------------------------------
(* The steps of the thread: an empty object ends with its header.            *)
LEMMA HeaderIInv == IInv /\ Header => IInv'
<1> SUFFICES ASSUME IInv, Header PROVE IInv'
  OBVIOUS
<1> USE DEF IInv, Header
<1>1. Types'
  BY DEF Types, TypeOK, num_buffers
<1>2. Positions'
  BY DEF Types, TypeOK, Positions, Exact, Remaining, Ended, Block, NoUrb
<1>3. Written'
  BY DEF Positions, Written, BlocksInPlace, Remaining, Types
<1> QED
  BY <1>1, <1>2, <1>3

(* The first half is posted.                                                 *)
LEMMA FirstIInv == IInv /\ First => IInv'
<1> SUFFICES ASSUME IInv, First PROVE IInv'
  OBVIOUS
<1> USE DEF IInv
<1>1. /\ pc = "first" /\ idx \in 0..1 /\ Begin(idx, "wait")
      /\ UNCHANGED <<thread, buffers, host>>
  BY DEF First, Types, TypeOK, num_buffers
<1>2. \/ /\ urb'.state = "posted" /\ urb'.half = idx /\ urb'.count = 0
         /\ urb' \in [state : {"none", "posted", "complete"}, half : 0..1, count : 0..Chunk]
         /\ pc' = "wait"
      \/ pc' = "failed" /\ urb' = urb
  BY <1>1, BeginTypes
<1>3. Types'
  BY <1>1, <1>2 DEF Types, TypeOK, num_buffers, thread
<1>4. Positions'
  <2>1. /\ offset = 0 /\ host.out = 0 /\ urb = NoUrb /\ size = Remaining(0)
    BY <1>1 DEF Positions
  <2>2. UNCHANGED <<offset, host, size, idx, buf, received>>
    BY <1>1 DEF thread
  <2>3. CASE pc' = "failed"
    BY <1>2, <2>1, <2>3 DEF Positions, Ended, NoUrb
  <2>4. CASE pc' = "wait" /\ urb'.state = "posted" /\ urb'.half = idx /\ urb'.count = 0
    <3>1. Block(idx, 0, offset)'
      BY <2>2 DEF Block
    <3>2. offset' + urb'.count = host'.out
      BY <2>1, <2>2, <2>4
    <3>3. (size = Remaining(offset))'
      BY <2>1, <2>2 DEF Remaining
    <3> QED
      BY <2>2, <2>4, <3>1, <3>2, <3>3, StreamAssumption DEF Positions
  <2> QED
    BY <1>2, <2>3, <2>4
<1>5. Written'
  BY <1>1, <1>2 DEF Written, BlocksInPlace, thread
<1> QED
  BY <1>3, <1>4, <1>5

(* What was in the half that is being filled is in one that waits.           *)
LEMMA WaitNextIInv == IInv /\ WaitNext => IInv'
<1> SUFFICES ASSUME IInv, WaitNext PROVE IInv'
  OBVIOUS
<1> USE DEF IInv
<1> DEFINE rest == (size - urb.count) % SizeMod
<1>1. /\ pc = "wait" /\ urb.state = "complete" /\ urb' = NoUrb
      /\ UNCHANGED <<offset, idx, buf, file, intact, buffers, host>>
  BY DEF WaitNext, Wait
<1>2. \/ /\ received' = urb.count /\ size' = rest
         /\ pc' = IF rest = 0 THEN "tail" ELSE "loop"
      \/ received' = received /\ pc' = "failed" /\ size' = size
  BY DEF WaitNext, Wait
<1>3. rest \in 0..(SizeMod - 1)
  <2>1. size - urb.count \in Int
    BY StreamAssumption DEF Types, TypeOK
  <2> QED
    BY <2>1, Wraps
<1>4. rest = Remaining(host.out)
  <2>1. size = Remaining(offset) /\ offset + urb.count = host.out
    BY <1>1 DEF Positions
  <2>2. /\ offset \in Nat /\ urb.count \in Nat /\ SizeMod \in Nat
        /\ host.announced \in Nat /\ host.announced < SizeMod
        /\ host.out \in Nat /\ host.out < SizeMod
    BY StreamAssumption DEF Types, TypeOK
  <2>3. CASE host.out <= host.announced
    <3>1. size - urb.count = host.announced - host.out
      BY <2>1, <2>2, <2>3 DEF Remaining
    <3>2. host.announced - host.out \in Nat /\ host.announced - host.out < SizeMod
      BY <2>2, <2>3
    <3> QED
      BY <2>3, <3>1, <3>2, NoWrap DEF Remaining
  <2>4. CASE ~(host.out <= host.announced) /\ offset <= host.announced
    <3>1. size - urb.count = host.announced - host.out
      BY <2>1, <2>2, <2>4 DEF Remaining
    <3>2. /\ host.announced - host.out \in Int /\ -SizeMod <= host.announced - host.out
          /\ host.announced - host.out < 0
      BY <2>2, <2>4
    <3> QED
      BY <2>4, <3>1, <3>2, WrapsOnce DEF Remaining
  <2>5. CASE ~(offset <= host.announced)
    <3>1. size - urb.count = host.announced - host.out + SizeMod /\ ~(host.out <= host.announced)
      BY <2>1, <2>2, <2>5 DEF Remaining
    <3>2. /\ host.announced - host.out + SizeMod \in Nat
          /\ host.announced - host.out + SizeMod < SizeMod
      BY <2>2, <3>1
    <3> QED
      BY <3>1, <3>2, NoWrap DEF Remaining
  <2> QED
    BY <2>3, <2>4, <2>5
<1> HIDE DEF rest
<1>5. urb' \in [state : {"none", "posted", "complete"}, half : 0..1, count : 0..Chunk]
      /\ urb'.state = "none"
  BY <1>1, StreamAssumption DEF NoUrb
<1>6. Types'
  BY <1>1, <1>2, <1>3, <1>5 DEF Types, TypeOK, num_buffers
<1>7. Positions'
  <2>1. /\ offset + urb.count = host.out /\ Ended(urb.count)
        /\ Block(idx, urb.count, offset)
    BY <1>1 DEF Positions
  <2> QED
    BY <1>1, <1>2, <1>4, <1>5, <2>1 DEF Positions, Remaining, Ended, Block
<1>8. Written'
  BY <1>1, <1>2 DEF Written, BlocksInPlace
<1> QED
  BY <1>6, <1>7, <1>8

(* The other half is posted.                                                 *)
LEMMA LoopIInv == IInv /\ Loop => IInv'
<1> SUFFICES ASSUME IInv, Loop PROVE IInv'
  OBVIOUS
<1> USE DEF IInv
<1>1. /\ pc = "loop" /\ buf' = idx /\ idx' = Swapped(idx) /\ Begin(idx', "write")
      /\ UNCHANGED <<size, offset, received, file, intact, buffers, host>>
  BY DEF Loop
<1>2. idx \in 0..1 /\ idx' \in 0..1 /\ buf' \in 0..1 /\ buf' # idx'
  BY <1>1 DEF Swapped, num_buffers, Types, TypeOK
<1>3. \/ /\ urb'.state = "posted" /\ urb'.half = idx' /\ urb'.count = 0
         /\ urb' \in [state : {"none", "posted", "complete"}, half : 0..1, count : 0..Chunk]
         /\ pc' = "write"
      \/ pc' = "failed" /\ urb' = urb
  BY <1>1, <1>2, BeginTypes
<1>4. Types'
  BY <1>1, <1>2, <1>3 DEF Types, TypeOK, num_buffers
<1>5. Positions'
  <2>1. /\ offset + received = host.out /\ Block(idx, received, offset)
        /\ size = Remaining(host.out)
        /\ urb.state = "none"
    BY <1>1 DEF Positions, NoUrb
  <2>2. CASE pc' = "failed" /\ urb' = urb
    BY <2>1, <2>2 DEF Positions
  <2>3. CASE urb'.state = "posted" /\ urb'.half = idx' /\ urb'.count = 0 /\ pc' = "write"
    <3>1. offset' \in Nat /\ received' \in Nat /\ Chunk \in Nat /\ 0 < Chunk
      BY <1>1, StreamAssumption DEF Types, TypeOK
    <3>2. Block(buf, received, offset)' /\ Block(idx, urb.count, offset + received)'
      BY <1>1, <2>1, <2>3 DEF Block
    <3>3. offset' + received' + urb'.count = host'.out
      BY <1>1, <2>1, <2>3, <3>1
    <3>4. (size = Remaining(offset + received))'
      BY <1>1, <2>1 DEF Remaining
    <3> QED
      BY <1>2, <2>3, <3>1, <3>2, <3>3, <3>4 DEF Positions
  <2> QED
    BY <1>3, <2>2, <2>3
<1>6. Written'
  BY <1>1, <1>3 DEF Written, BlocksInPlace
<1> QED
  BY <1>4, <1>5, <1>6

(* What waited is in the file.                                               *)
LEMMA WriteBlockIInv == IInv /\ WriteBlock => IInv'
<1> SUFFICES ASSUME IInv, WriteBlock PROVE IInv'
  OBVIOUS
<1> USE DEF IInv
<1>1. /\ pc = "write" /\ Write(buf) /\ offset' = (offset + received) % SizeMod
      /\ pc' = "wait" /\ UNCHANGED <<size, received, idx, buf, buffers, urb, host>>
  BY DEF WriteBlock
<1>2. /\ urb.state # "none" /\ urb.half = idx
      /\ offset + received + urb.count = host.out
      /\ Block(buf, received, offset) /\ Block(idx, urb.count, offset + received)
      /\ size = Remaining(offset + received)
  BY <1>1 DEF Positions
<1>3. /\ offset \in Nat /\ received \in Nat /\ urb.count \in Nat /\ buf \in 0..1
      /\ host.out \in 0..host.total /\ host.total \in Nat /\ host.total < SizeMod
  BY StreamAssumption DEF Types, TypeOK, num_buffers
<1>4. offset' = offset + received
  <2>1. offset + received \in Nat /\ offset + received < SizeMod
    BY <1>2, <1>3, StreamAssumption
  <2> QED
    BY <1>1, <2>1, NoWrap
<1>5. /\ intact' \in BOOLEAN /\ (intact' => intact)
      /\ DOMAIN file' \subseteq 0..(offset + received - 1)
      /\ \A i \in DOMAIN file' : file'[i] = i
      /\ intact' => DOMAIN file' = 0..(offset + received - 1)
  BY <1>1, <1>2, <1>3, WriteInPlace DEF Written
<1>6. Types'
  <2>1. offset' \in 0..(SizeMod - 1)
    BY <1>2, <1>3, <1>4, StreamAssumption
  <2> QED
    BY <1>1, <1>5, <2>1 DEF Types, TypeOK
<1>7. Positions'
  BY <1>1, <1>2, <1>3, <1>4 DEF Positions, Remaining, Ended, Block
<1>8. Written'
  <2>1. DOMAIN file' \subseteq Nat
    BY <1>3, <1>5
  <2>2. BlocksInPlace'
    BY <1>5 DEF BlocksInPlace
  <2>3. /\ DOMAIN file' \subseteq 0..(offset' - 1)
        /\ intact' => DOMAIN file' = 0..(offset' - 1)
    <3>1. 0..(offset' - 1) = 0..(offset + received - 1)
      BY <1>3, <1>4
    <3> QED
      BY <1>5, <3>1, Zenon
  <2> QED
    BY <1>1, <2>1, <2>2, <2>3 DEF Written
<1> QED
  BY <1>6, <1>7, <1>8

(* The last block is in the file, and with it the object.                    *)
LEMMA TailIInv == IInv /\ Tail => IInv'
<1> SUFFICES ASSUME IInv, Tail PROVE IInv'
  OBVIOUS
<1> USE DEF IInv
<1>1. /\ pc = "tail" /\ Write(idx)
      /\ pc' = IF received = Chunk THEN "drain" ELSE "returned"
      /\ UNCHANGED <<size, offset, received, idx, buf, buffers, urb, host>>
  BY DEF Tail, NeedsDrain
<1>2. /\ urb = NoUrb /\ urb.state = "none" /\ offset + received = host.out
      /\ Ended(received) /\ Block(idx, received, offset)
      /\ 0 = Remaining(host.out)
  BY <1>1 DEF Positions, NoUrb
<1>3. /\ offset \in Nat /\ received \in 0..Chunk /\ idx \in 0..1 /\ Chunk \in Nat
      /\ host.total \in Nat /\ host.out \in 0..host.total /\ host.ended \in BOOLEAN
      /\ host.announced \in Nat /\ SizeMod \in Nat /\ host.out < SizeMod
  BY StreamAssumption DEF Types, TypeOK, num_buffers
<1>4. /\ intact' \in BOOLEAN /\ (intact' => intact)
      /\ DOMAIN file' \subseteq 0..(offset + received - 1)
      /\ \A i \in DOMAIN file' : file'[i] = i
      /\ intact' => DOMAIN file' = 0..(offset + received - 1)
  BY <1>1, <1>2, <1>3, WriteInPlace DEF Written
<1>5. Types'
  BY <1>1, <1>4 DEF Types, TypeOK
<1>6. host.out = host.announced
  BY <1>2, <1>3 DEF Remaining
<1>7. Positions'
  BY <1>1, <1>2, <1>3, <1>6 DEF Positions, Exact, Ended
<1>8. Written'
  <2>1. DOMAIN file' \subseteq Nat
    BY <1>3, <1>4
  <2>2. BlocksInPlace'
    BY <1>4 DEF BlocksInPlace
  <2>3. 0..(offset + received - 1) = 0..(host'.announced - 1)
    BY <1>1, <1>2, <1>3, <1>6
  <2>4. intact' => DOMAIN file' = 0..(host'.announced - 1)
    BY <1>4, <2>3, Zenon
  <2>5. pc' \in {"drain", "returned"}
    BY <1>1
  <2> QED
    BY <2>1, <2>2, <2>4, <2>5 DEF Written
<1> QED
  BY <1>5, <1>7, <1>8

(* A host that filled the last half has only a null packet left ...          *)
LEMMA DrainIInv == IInv /\ Drain => IInv'
<1> SUFFICES ASSUME IInv, Drain PROVE IInv'
  OBVIOUS
<1> USE DEF IInv
<1>1. pc = "drain" /\ Begin(0, "drained") /\ UNCHANGED <<thread, buffers, host>>
  BY DEF Drain
<1>2. \/ /\ urb'.state = "posted" /\ urb'.half = 0 /\ urb'.count = 0
         /\ urb' \in [state : {"none", "posted", "complete"}, half : 0..1, count : 0..Chunk]
         /\ pc' = "drained"
      \/ pc' = "failed" /\ urb' = urb
  BY <1>1, BeginTypes
<1>3. Types'
  BY <1>1, <1>2 DEF Types, TypeOK, num_buffers, thread
<1>4. Positions'
  BY <1>1, <1>2, StreamAssumption DEF Positions, Exact, Ended, thread
<1>5. Written'
  BY <1>1, <1>2 DEF Written, BlocksInPlace, thread
<1> QED
  BY <1>3, <1>4, <1>5

(* ... which it has now sent.                                                *)
LEMMA DrainedIInv == IInv /\ Drained => IInv'
<1> SUFFICES ASSUME IInv, Drained PROVE IInv'
  OBVIOUS
<1> USE DEF IInv
<1>1. /\ pc = "drained" /\ urb.state = "complete" /\ urb' = NoUrb
      /\ received' \in {urb.count, received} /\ pc' \in {"returned", "failed"}
      /\ UNCHANGED <<size, offset, idx, buf, file, intact, buffers, host>>
  BY DEF Drained, Wait
<1>2. urb' \in [state : {"none", "posted", "complete"}, half : 0..1, count : 0..Chunk]
      /\ urb'.state = "none"
  BY <1>1, StreamAssumption DEF NoUrb
<1>3. Exact => host.out = host.total /\ host.ended
  BY <1>1, StreamAssumption DEF Positions, Ended
<1>4. Types'
  BY <1>1, <1>2 DEF Types, TypeOK, num_buffers
<1>5. Positions'
  BY <1>1, <1>2, <1>3 DEF Positions, Exact, Ended
<1>6. Written'
  BY <1>1 DEF Written, BlocksInPlace
<1> QED
  BY <1>4, <1>5, <1>6

-------------------------------------------------------------------------------
(* The endpoint puts the host's next packet behind those it has put there.   *)
LEMMA PacketIInv == IInv /\ Packet => IInv'
<1> SUFFICES ASSUME IInv, Packet PROVE IInv'
  OBVIOUS
<1> USE DEF IInv
<1>1. /\ urb.state = "posted" /\ host.out < host.total
      /\ buffers' = [buffers EXCEPT ![urb.half][urb.count] = host.out]
      /\ UNCHANGED <<pc, thread>>
  BY DEF Packet
<1>2. /\ urb.half \in 0..1 /\ urb.count \in 0..(Chunk - 1) /\ Chunk \in Nat
      /\ host.out \in Nat /\ host.total \in Nat /\ offset \in Nat /\ received \in Nat
      /\ SizeMod \in Nat /\ idx \in 0..1 /\ buf \in 0..1
  BY <1>1, StreamAssumption DEF Types, TypeOK, Positions, num_buffers
<1>3. /\ host' \in [announced : Nat, total : Nat, out : Nat, ended : BOOLEAN]
      /\ host'.out = host.out + 1 /\ host'.total = host.total
      /\ host'.announced = host.announced /\ host'.ended = host.ended
  BY <1>2 DEF Packet, Types
<1>4. /\ urb' \in [state : {"none", "posted", "complete"}, half : 0..1, count : 0..Chunk]
      /\ urb'.half = urb.half /\ urb'.count = urb.count + 1
      /\ urb'.state = IF urb.count + 1 = Chunk THEN "complete" ELSE "posted"
  <2> DEFINE next == IF urb.count + 1 = Chunk THEN "complete" ELSE "posted"
  <2>1. next \in {"none", "posted", "complete"} /\ urb.count + 1 \in 0..Chunk
    BY <1>2
  <2>2. urb' = [urb EXCEPT !.count = urb.count + 1, !.state = next]
    BY <1>1 DEF Packet
  <2>3. next = IF urb.count + 1 = Chunk THEN "complete" ELSE "posted"
    OBVIOUS
  <2> HIDE DEF next
  <2>4. urb \in [state : {"none", "posted", "complete"}, half : 0..1, count : 0..Chunk]
    BY DEF Types
  <2> QED
    BY <2>1, <2>2, <2>3, <2>4
<1>5. /\ buffers' \in [0..1 -> [0..(Chunk - 1) -> Int]]
      /\ buffers'[urb.half][urb.count] = host.out
      /\ \A b \in 0..1, i \in 0..(Chunk - 1) :
           b # urb.half \/ i # urb.count => buffers'[b][i] = buffers[b][i]
  <2> DEFINE half == urb.half
             at == urb.count
  <2>1. half \in 0..1 /\ at \in 0..(Chunk - 1) /\ host.out \in Int
    BY <1>2 DEF Types
  <2>2. buffers \in [0..1 -> [0..(Chunk - 1) -> Int]]
    BY DEF Types
  <2>3. buffers' = [buffers EXCEPT ![half][at] = host.out]
    BY <1>1
  <2> HIDE DEF half, at
  <2>4. buffers' \in [0..1 -> [0..(Chunk - 1) -> Int]]
    BY <2>1, <2>2, <2>3
  <2>5. buffers'[half][at] = host.out
    BY <2>1, <2>2, <2>3
  <2>6. \A b \in 0..1, i \in 0..(Chunk - 1) :
          b # half \/ i # at => buffers'[b][i] = buffers[b][i]
    BY <2>1, <2>2, <2>3
  <2> QED
    BY <2>4, <2>5, <2>6 DEF half, at
<1>6. Types'
  BY <1>1, <1>2, <1>3, <1>4, <1>5 DEF Types, TypeOK, num_buffers, thread
<1>7. Positions'
  <2>1. /\ pc' = pc /\ size' = size /\ offset' = offset /\ received' = received
        /\ idx' = idx /\ buf' = buf
    BY <1>1 DEF thread
  <2>2. pc \notin {"header", "first", "loop", "tail", "drain", "returned"}
    BY <1>1 DEF Positions, NoUrb
  <2>3. CASE pc = "wait"
    <3>1. /\ urb.half = idx /\ offset + urb.count = host.out
          /\ Block(idx, urb.count, offset) /\ size = Remaining(offset)
      BY <2>3 DEF Positions
    <3>2. Block(idx, urb.count, offset)'
      <4> SUFFICES ASSUME NEW k \in 0..urb.count PROVE buffers'[idx][k] = offset + k
        BY <1>2, <1>4, <2>1 DEF Block
      <4>1. CASE k = urb.count
        BY <1>5, <3>1, <4>1
      <4>2. CASE k # urb.count
        <5>1. k \in 0..(urb.count - 1) /\ k \in 0..(Chunk - 1)
          BY <1>2, <4>2
        <5>2. buffers'[idx][k] = buffers[idx][k]
          BY <1>2, <1>5, <4>2, <5>1
        <5> QED
          BY <3>1, <5>1, <5>2 DEF Block
      <4> QED
        BY <4>1, <4>2
    <3>3. urb'.state # "none" /\ offset' + urb'.count = host'.out
      BY <1>2, <1>3, <1>4, <2>1, <3>1
    <3>4. urb'.half = idx' /\ (size = Remaining(offset))'
      BY <1>3, <1>4, <2>1, <3>1 DEF Remaining
    <3> QED
      BY <1>2, <1>4, <2>1, <2>3, <3>2, <3>3, <3>4 DEF Positions, Ended
  <2>4. CASE pc = "write"
    <3>1. /\ urb.half = idx /\ buf # idx /\ offset + received + urb.count = host.out
          /\ Block(buf, received, offset) /\ Block(idx, urb.count, offset + received)
          /\ size = Remaining(offset + received)
      BY <2>4 DEF Positions
    <3>2. Block(idx, urb.count, offset + received)'
      <4> SUFFICES ASSUME NEW k \in 0..urb.count
                   PROVE  buffers'[idx][k] = offset + received + k
        BY <1>2, <1>4, <2>1 DEF Block
      <4>1. CASE k = urb.count
        BY <1>5, <3>1, <4>1
      <4>2. CASE k # urb.count
        <5>1. k \in 0..(urb.count - 1) /\ k \in 0..(Chunk - 1)
          BY <1>2, <4>2
        <5>2. buffers'[idx][k] = buffers[idx][k]
          BY <1>2, <1>5, <4>2, <5>1
        <5> QED
          BY <3>1, <5>1, <5>2 DEF Block
      <4> QED
        BY <4>1, <4>2
    <3>3. Block(buf, received, offset)'
      <4>1. received \in 0..Chunk
        BY DEF Types, TypeOK
      <4> SUFFICES ASSUME NEW k \in 0..(received - 1)
                   PROVE  buffers'[buf][k] = offset + k
        BY <2>1 DEF Block
      <4>2. k \in 0..(Chunk - 1)
        BY <1>2, <4>1
      <4>3. buffers'[buf][k] = buffers[buf][k]
        BY <1>2, <1>5, <3>1, <4>2
      <4> QED
        BY <3>1, <4>3 DEF Block
    <3>4. urb'.state # "none" /\ offset' + received' + urb'.count = host'.out
      BY <1>2, <1>3, <1>4, <2>1, <3>1
    <3>5. urb'.half = idx' /\ buf' # idx' /\ (size = Remaining(offset + received))'
      BY <1>3, <1>4, <2>1, <3>1 DEF Remaining
    <3> QED
      BY <1>2, <1>4, <2>1, <2>4, <3>2, <3>3, <3>4, <3>5 DEF Positions, Ended
  <2>5. CASE pc = "drained"
    <3>1. ~Exact /\ ~Exact'
      BY <1>1, <1>2, <1>3, <2>5 DEF Positions, Exact
    <3> QED
      BY <1>2, <1>4, <2>1, <2>5, <3>1 DEF Positions, Ended
  <2>6. CASE pc = "failed"
    BY <1>2, <1>4, <2>1, <2>6 DEF Positions, Ended
  <2> QED
    BY <2>2, <2>3, <2>4, <2>5, <2>6 DEF Types
<1>8. Written'
  BY <1>1, <1>3 DEF Written, BlocksInPlace, thread
<1> QED
  BY <1>6, <1>7, <1>8

(* The host ends its transfer.                                               *)
LEMMA LastPacketIInv == IInv /\ LastPacket => IInv'
<1> SUFFICES ASSUME IInv, LastPacket PROVE IInv'
  OBVIOUS
<1> USE DEF IInv
<1>1. /\ urb.state = "posted" /\ host.out = host.total
      /\ UNCHANGED <<pc, thread, buffers>>
  BY DEF LastPacket
<1>2. /\ host' \in [announced : Nat, total : Nat, out : Nat, ended : BOOLEAN]
      /\ host'.out = host.out /\ host'.total = host.total
      /\ host'.announced = host.announced /\ host'.ended
  BY DEF LastPacket, Types
<1>3. /\ urb' \in [state : {"none", "posted", "complete"}, half : 0..1, count : 0..Chunk]
      /\ urb'.half = urb.half /\ urb'.count = urb.count /\ urb'.state = "complete"
  BY DEF LastPacket, Types
<1>4. Types'
  BY <1>1, <1>2, <1>3 DEF Types, TypeOK, num_buffers, thread
<1>5. Positions'
  BY <1>1, <1>2, <1>3 DEF Positions, Exact, Remaining, Ended, Block, NoUrb, thread
<1>6. Written'
  BY <1>1, <1>2 DEF Written, BlocksInPlace, thread
<1> QED
  BY <1>4, <1>5, <1>6

(* The invariant is preserved by every step.                                 *)
LEMMA NextIInv == IInv /\ [Next]_vars => IInv'
<1>1. ASSUME IInv, UNCHANGED vars PROVE IInv'
  BY <1>1 DEF vars, IInv, Types, TypeOK, Positions, Written, BlocksInPlace, Exact, Remaining,
              Ended, Block, NoUrb
<1> QED
  BY <1>1, HeaderIInv, FirstIInv, WaitNextIInv, LoopIInv, WriteBlockIInv, TailIInv,
     DrainIInv, DrainedIInv, PacketIInv, LastPacketIInv DEF Next, Thread, Endpoint

(* The inductive invariant holds in every state of the thread, the endpoint  *)
(* and the host.                                                             *)
THEOREM AlwaysIInv == Spec => []IInv
<1>1. Init => IInv
  BY InitIInv
<1>2. IInv /\ [Next]_vars => IInv'
  BY NextIInv
<1> QED
  BY <1>1, <1>2, PTL DEF Spec

-------------------------------------------------------------------------------
(* The variables of stream_to_file always have their types.                  *)
THEOREM TypeCorrect == Spec => []TypeOK
<1>1. IInv => TypeOK
  BY DEF IInv, Types
<1> QED
  BY <1>1, AlwaysIInv, PTL

(* The half that is written to the file is never the one being filled.       *)
THEOREM WrittenHalfAlwaysIdle == Spec => []WrittenHalfIsIdle
<1>1. IInv => WrittenHalfIsIdle
  BY DEF IInv, Positions, WrittenHalfIsIdle, NoUrb
<1> QED
  BY <1>1, AlwaysIInv, PTL

(* What is in the file is in its place, whatever the host sends.             *)
THEOREM BlocksAlwaysInPlace == Spec => []BlocksInPlace
<1>1. IInv => BlocksInPlace
  BY DEF IInv, Written
<1> QED
  BY <1>1, AlwaysIInv, PTL

(* Success means that as much as was announced is in the file, whatever the  *)
(* host sends, and that a host which sends as much has nothing left for the  *)
(* next request to trip over.                                                *)
THEOREM SuccessAlwaysComplete == Spec => []SuccessIsComplete
<1>1. IInv => SuccessIsComplete
  BY DEF IInv, Positions, Written, SuccessIsComplete
<1> QED
  BY <1>1, AlwaysIInv, PTL
===============================================================================
