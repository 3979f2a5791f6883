----------------------------- MODULE StreamToFile -----------------------------
(***************************************************************************)
(* DataPacket::stream_to_file: the object a host sends is received through *)
(* two buffers, so that one is written to the file while the endpoint      *)
(* fills the other.  The thread and the endpoint (with the host behind it) *)
(* take turns in any order.                                                *)
(*                                                                         *)
(* Data is counted in USB packets of full size: packet i of the object is  *)
(* the number i.  The host ends its transfer with a short or null packet.  *)
(***************************************************************************)
EXTENDS Integers

CONSTANTS
  Chunk,         (* endpoint_buffer_size, in packets                        *)
  SizeMod,       (* size_t holds the residues of this                       *)
  MaxSize,       (* bound: packets in an object                             *)
  Excess         (* what the host may send beyond (below) what it announced *)

ASSUME StreamAssumption ==
  /\ Chunk \in Nat \ {0} /\ MaxSize \in Nat /\ Excess \subseteq Int
  /\ SizeMod \in Nat /\ SizeMod > MaxSize + Chunk
  /\ \A excess \in Excess : MaxSize + excess < SizeMod

VARIABLES
  pc,            (* where the thread is in stream_to_file                   *)
  size,          (* size_t size, what is left to receive                    *)
  offset,        (* size_t offset, where the next write goes                *)
  received,      (* size_t received, of the transfer last waited for        *)
  idx,           (* g_endpoint_out_cur_buf_idx                              *)
  buf,           (* the buffer void *buf points into                        *)
  buffers,       (* g_endpoint_out_buf, in two halves                       *)
  file,          (* [packet position -> packet] for what has been written   *)
  intact,        (* history: no write failed                                *)
  urb,           (* the transfer posted on the out endpoint                 *)
  host           (* the host: packets it announced and packets it has, how  *)
                 (* many are out, and whether the short or null packet that *)
                 (* ends them is                                            *)

thread == <<size, offset, received, idx, buf, file, intact>>
vars == <<pc, size, offset, received, idx, buf, buffers, file, intact, urb, host>>

num_buffers == 2
NoUrb == [state |-> "none", half |-> 0, count |-> 0]

Init ==
  /\ pc = "header"
  /\ size \in 0..MaxSize
  /\ offset = 0 /\ received = 0 /\ idx = 0 /\ buf = 0
  /\ buffers = [b \in 0..(num_buffers - 1) |-> [i \in 0..(Chunk - 1) |-> -1]]
  /\ file = [i \in {} |-> 0]
  /\ intact = TRUE
  /\ urb = NoUrb
  /\ \E excess \in Excess :
       /\ size + excess >= 0
       /\ host = [announced |-> size, total |-> size + excess,
                   out |-> 0, ended |-> size = 0]

-------------------------------------------------------------------------------
(* The operations of usb.hpp and usb.cpp that the loop is made of.           *)

(* rcv_dbuf_swap *)
SameBuffer(i) == i
Advanced(i) == i + 1
Swapped(i) == (i + 1) % num_buffers

(* begin_xfer: a transfer into one half, unless the device is not connected. *)
Begin(half, next) ==
  \/ /\ urb' = [state |-> "posted", half |-> half, count |-> 0]
     /\ pc' = next
  \/ /\ pc' = "failed"
     /\ UNCHANGED urb

(* wait_xfer: blocks until the completion event, then reads the report.      *)
Wait(next) ==
  /\ urb.state = "complete"
  /\ urb' = NoUrb
  /\ \/ received' = urb.count /\ pc' = next
     \/ UNCHANGED received /\ pc' = "failed"

(* File::write, whose failure is only logged: packets land at their offset.  *)
Write(half) ==
  \/ /\ file' = [i \in DOMAIN file \cup offset..(offset + received - 1) |->
                   IF i < offset THEN file[i] ELSE buffers[half][i - offset]]
     /\ UNCHANGED intact
  \/ /\ intact' = FALSE
     /\ UNCHANGED file

-------------------------------------------------------------------------------
(* stream_to_file                                                            *)

(* The header comes in a transfer of its own; an empty object has no more.   *)
Header ==
  /\ pc = "header"
  /\ idx' = 0
  /\ pc' \in {IF size = 0 THEN "returned" ELSE "first", "failed"}
  /\ UNCHANGED <<size, offset, received, buf, file, intact, buffers, urb, host>>

First ==
  /\ pc = "first"
  /\ Begin(idx, "wait")
  /\ UNCHANGED <<thread, buffers, host>>

WaitNext ==
  /\ pc = "wait"
  /\ LET left == (size - urb.count) % SizeMod
     IN  /\ Wait(IF left = 0 THEN "tail" ELSE "loop")
         /\ size' = IF pc' = "failed" THEN size ELSE left
  /\ UNCHANGED <<offset, idx, buf, file, intact, buffers, host>>

(* The other half is posted before this one is written.                      *)
Loop ==
  /\ pc = "loop"
  /\ buf' = idx
  /\ idx' = Swapped(idx)
  /\ Begin(idx', "write")
  /\ UNCHANGED <<size, offset, received, file, intact, buffers, host>>

WriteBlock ==
  /\ pc = "write"
  /\ Write(buf)
  /\ offset' = (offset + received) % SizeMod
  /\ pc' = "wait"
  /\ UNCHANGED <<size, received, idx, buf, buffers, urb, host>>

(* A transfer that just filled its buffer has not had its null packet yet.   *)
NoDrain == FALSE
AlwaysDrain == TRUE
NeedsDrain == received = Chunk

Tail ==
  /\ pc = "tail"
  /\ Write(idx)
  /\ pc' = IF NeedsDrain THEN "drain" ELSE "returned"
  /\ UNCHANGED <<size, offset, received, idx, buf, buffers, urb, host>>

(* usb::receive always receives into the start of the endpoint's buffer.     *)
Drain ==
  /\ pc = "drain"
  /\ Begin(0, "drained")
  /\ UNCHANGED <<thread, buffers, host>>

Drained ==
  /\ pc = "drained"
  /\ Wait("returned")
  /\ UNCHANGED <<size, offset, idx, buf, file, intact, buffers, host>>

Thread == Header \/ First \/ WaitNext \/ Loop \/ WriteBlock \/ Tail \/ Drain \/ Drained

-------------------------------------------------------------------------------
(* The endpoint and the host.  A transfer is complete when its half is full  *)
(* or when the host's short or null packet arrives.                          *)

Packet ==
  /\ urb.state = "posted" /\ host.out < host.total
  /\ buffers' = [buffers EXCEPT ![urb.half][urb.count] = host.out]
  /\ host' = [host EXCEPT !.out = @ + 1]
  /\ urb' = [urb EXCEPT !.count = @ + 1,
                        !.state = IF urb.count + 1 = Chunk THEN "complete" ELSE @]
  /\ UNCHANGED <<pc, thread>>

LastPacket ==
  /\ urb.state = "posted" /\ host.out = host.total /\ ~host.ended
  /\ host' = [host EXCEPT !.ended = TRUE]
  /\ urb' = [urb EXCEPT !.state = "complete"]
  /\ UNCHANGED <<pc, thread, buffers>>

Endpoint == Packet \/ LastPacket

Next == Thread \/ Endpoint

(* The thread is scheduled and a host that has begun to send goes on.        *)
Spec == Init /\ [][Next]_vars /\ WF_vars(Thread) /\ WF_vars(Endpoint)

-------------------------------------------------------------------------------
(* Properties.                                                               *)

Returned == pc \in {"returned", "failed"}

(* The variables of stream_to_file and the endpoint have their types.        *)
TypeOK ==
  /\ size \in 0..(SizeMod - 1) /\ offset \in 0..(SizeMod - 1)
  /\ received \in 0..Chunk
  /\ idx \in 0..(num_buffers - 1) /\ buf \in 0..(num_buffers - 1)
  /\ urb.half \in 0..(num_buffers - 1) /\ urb.count \in 0..Chunk
  /\ urb.state \in {"none", "posted", "complete"}
  /\ host.out \in 0..host.total

(* The endpoint never fills the half that the thread is about to write out.  *)
WrittenHalfIsIdle ==
  /\ pc = "write" => urb.half # buf
  /\ pc = "tail" => urb.state = "none"

(* Whatever has been written is in its place in the file: no block is        *)
(* skipped, swapped, repeated or overwritten by the next one.                *)
BlocksInPlace == \A i \in DOMAIN file : file[i] = i

Exact == host.total = host.announced

(* When stream_to_file returns success and no write failed, the file holds   *)
(* as much as was announced, whether the host sent as much, less or more (a  *)
(* size that has wrapped never gets to zero), and nothing is posted.  If the *)
(* host sent what it announced it has nothing left that the next request     *)
(* would take.                                                               *)
SuccessIsComplete ==
  pc = "returned" =>
    /\ intact => DOMAIN file = 0..(host.announced - 1)
    /\ urb = NoUrb
    /\ Exact => host.out = host.total /\ host.ended

(* The server gets back to its next request, if the host sends what it       *)
(* announced.                                                                *)
Returns == Exact ~> Returned
===============================================================================
