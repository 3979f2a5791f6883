---------------------------- MODULE StreamFromFile ----------------------------
(***************************************************************************)
(* DataPacket::stream_from_file: an object, or a part of one, is sent to   *)
(* the host through two buffers, so that one is read from the file while   *)
(* the endpoint empties the other.  Byte i of the file is the number i.    *)
(***************************************************************************)
EXTENDS Integers, Sequences

CONSTANTS
  Chunk,         (* endpoint_buffer_size                                    *)
  SizeMod,       (* size_t holds the residues of this                       *)
  Requests       (* what is asked for, and of how long a file:              *)
                 (* records [size, offset, length]                          *)

ASSUME StreamAssumption ==
  /\ Chunk \in Nat \ {0}
  /\ \A r \in Requests : r.size \in Nat /\ r.offset \in Nat /\ r.length \in Nat
  /\ SizeMod \in Nat \ {0}
  /\ \A r \in Requests : r.size + r.offset + r.length + Chunk < SizeMod

VARIABLES
  pc,            (* where the thread is in stream_from_file                 *)
  request,       (* the parameters it was called with, and the file         *)
  size,          (* size_t size, what is left to send                       *)
  offset,        (* size_t offset, where the next read is                   *)
  read,          (* bytes in the buffer that was posted last                *)
  tmp_read,      (* bytes in the buffer that was read last                  *)
  idx,           (* g_endpoint_in_cur_buf_idx                               *)
  buffers,       (* g_endpoint_in_buf, in two halves                        *)
  intact,        (* history: no read failed                                 *)
  urb,           (* the transfer posted on the in endpoint                  *)
  got            (* the bytes the host has received after the header        *)

thread == <<request, size, offset, read, tmp_read, idx, intact>>
vars == <<pc, thread, buffers, urb, got>>

num_buffers == 2
NoUrb == [state |-> "none", half |-> 0, length |-> 0, count |-> 0]

Init ==
  /\ pc = "header"
  /\ request \in Requests
  /\ size = request.size /\ offset = request.offset
  /\ read = 0 /\ tmp_read = 0 /\ idx = 0
  /\ buffers = [b \in 0..(num_buffers - 1) |-> [i \in 0..(Chunk - 1) |-> -1]]
  /\ intact = TRUE
  /\ urb = NoUrb
  /\ got = <<>>

-------------------------------------------------------------------------------
(* The operations of usb.hpp, usb.cpp and fs.hpp that the loop is made of.   *)

(* snd_dbuf_swap *)
Advanced(i) == i + 1
SameBuffer(i) == i
Swapped(i) == (i + 1) % num_buffers

(* File::read: a full chunk or what there is of one; nothing when it fails,  *)
(* which is only logged.                                                     *)
Available ==
  IF offset >= request.length THEN 0
  ELSE IF request.length - offset > Chunk THEN Chunk
  ELSE request.length - offset

ReadInto(half, n) ==
  /\ \/ n = Available /\ UNCHANGED intact
     \/ n = 0 /\ intact' = FALSE
  /\ buffers' = [buffers EXCEPT ![half] =
       [i \in DOMAIN @ |-> IF i < n THEN offset + i ELSE @[i]]]
  /\ offset' = offset + n

(* begin_xfer: a transfer of n bytes, unless the device is not connected.    *)
Begin(n, next) ==
  \/ /\ urb' = [state |-> "posted", half |-> idx, length |-> n, count |-> 0]
     /\ pc' = next
  \/ /\ pc' = "failed"
     /\ UNCHANGED urb

(* wait_xfer; TRY_RETURNV(sent == read, err::FailedUsbSend)                  *)
Wait(next) ==
  /\ urb.state = "complete"
  /\ urb' = NoUrb
  /\ pc' \in {IF urb.count = read THEN next ELSE "failed", "failed"}

(* size -= sent                                                              *)
LeftOfChunks(n, sent) == (n - Chunk) % SizeMod
Left(n, sent) == (n - sent) % SizeMod

-------------------------------------------------------------------------------
(* stream_from_file                                                          *)

(* The header goes out by itself; nothing follows that of an empty object.   *)
Header ==
  /\ pc = "header"
  /\ idx' = 0
  /\ pc' \in {IF size = 0 THEN "returned" ELSE "first", "failed"}
  /\ UNCHANGED <<request, size, offset, read, tmp_read, intact, buffers, urb, got>>

First ==
  /\ pc = "first"
  /\ read' \in {Available, 0}
  /\ ReadInto(idx, read')
  /\ Begin(read', "loop")
  /\ UNCHANGED <<request, size, tmp_read, idx, got>>

(* The other half is read while the one posted is on its way.                *)
ReadAhead ==
  /\ pc = "loop"
  /\ idx' = Swapped(idx)
  /\ tmp_read' \in {Available, 0}
  /\ ReadInto(idx', tmp_read')
  /\ pc' = "wait"
  /\ UNCHANGED <<request, size, read, urb, got>>

WaitSent ==
  /\ pc = "wait"
  /\ Wait("begin")
  /\ size' = IF pc' = "failed" THEN size ELSE Left(size, urb.count)
  /\ read' = IF pc' = "failed" THEN read ELSE tmp_read
  /\ UNCHANGED <<request, offset, tmp_read, idx, intact, buffers, got>>

(* Past the end of the file this posts an empty transfer, a null packet.     *)
Unwaited == "returned"
AfterLoop == "last"

BeginNext ==
  /\ pc = "begin"
  /\ Begin(read, IF size # 0 THEN "loop" ELSE AfterLoop)
  /\ UNCHANGED <<thread, buffers, got>>

WaitLast ==
  /\ pc = "last"
  /\ Wait("returned")
  /\ UNCHANGED <<thread, buffers, got>>

Thread == Header \/ First \/ ReadAhead \/ WaitSent \/ BeginNext \/ WaitLast

-------------------------------------------------------------------------------
(* The endpoint, and a host that takes what it is sent.                      *)

Byte ==
  /\ urb.state = "posted" /\ urb.count < urb.length
  /\ got' = Append(got, buffers[urb.half][urb.count])
  /\ urb' = [urb EXCEPT !.count = @ + 1]
  /\ UNCHANGED <<pc, thread, buffers>>

Complete ==
  /\ urb.state = "posted" /\ urb.count = urb.length
  /\ urb' = [urb EXCEPT !.state = "complete"]
  /\ UNCHANGED <<pc, thread, buffers, got>>

Endpoint == Byte \/ Complete

Next == Thread \/ Endpoint

(* The thread is scheduled, and the host reads as long as it is sent data.   *)
Spec == Init /\ [][Next]_vars /\ WF_vars(Thread) /\ WF_vars(Endpoint)

-------------------------------------------------------------------------------
(* Properties.                                                               *)

Returned == pc \in {"returned", "failed"}

(* The variables of stream_from_file and the endpoint have their types.      *)
TypeOK ==
  /\ request \in Requests
  /\ size \in 0..(SizeMod - 1) /\ offset \in 0..(SizeMod - 1)
  /\ read \in 0..Chunk /\ tmp_read \in 0..Chunk
  /\ idx \in 0..(num_buffers - 1)
  /\ urb.state \in {"none", "posted", "complete"}
  /\ urb.half \in 0..(num_buffers - 1)
  /\ urb.length \in 0..Chunk /\ urb.count \in 0..urb.length

(* What the host has received is the file from the offset on, in order:      *)
(* reading ahead never changes the half on its way or swaps two blocks.      *)
HostGetsFile ==
  \A k \in 1..Len(got) : got[k] = request.offset + k - 1

ToTheEnd == request.length = request.offset + request.size
Within == request.offset + request.size <= request.length

(* On success the host has all it asked for, and nothing is left on the      *)
(* endpoint to be taken for the response, whatever part of a file of         *)
(* whatever length it is: a file that is shorter never succeeds, as the size *)
(* is never used up, and of one that is longer at most a chunk follows.  The *)
(* end of the file ends the data exactly.                                    *)
SuccessIsExact ==
  pc = "returned" =>
    /\ urb = NoUrb
    /\ Len(got) \in request.size..(request.size + Chunk)
    /\ ToTheEnd => Len(got) = request.size

(* Asked for the file up to its end, the server gets back to its next        *)
(* request, unless it cannot read the file.                                  *)
Returns == ToTheEnd ~> (Returned \/ ~intact)

(* GetPartialObject is a supported operation: the server gets back from      *)
(* sending any part of a file.                                               *)
PartReturns == Within ~> (Returned \/ ~intact)
===============================================================================
