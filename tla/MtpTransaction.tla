---------------------------- MODULE MtpTransaction ----------------------------
(***************************************************************************)
(* One MTP transaction after another: the host sends a command and, if the *)
(* operation has one, its data; the server answers with data, if any, and  *)
(* a response (Server::process and the handlers it calls).  The endpoints  *)
(* have no memory: a transfer takes place when one side sends it and the   *)
(* other has asked for it.  No transfer fails, and data has the length     *)
(* that was announced: StreamToFile and StreamFromFile are about the rest. *)
(*                                                                         *)
(* The operations fall into classes by what their handlers do on the wire: *)
(*   Plain       no data (sessions, DeleteObject, MoveObject, CopyObject)  *)
(*   Query       a packet of data, or an error found before it is sent     *)
(*   GetObject   the file, or an error found before it is sent             *)
(*   Update      a packet of data is received before anything else         *)
(*               (SendObjectInfo, SetObjectPropValue)                      *)
(*   SendObject  the file is received, unless it cannot be opened          *)
(*   Unknown     an operation that is not implemented                      *)
(*   UnknownData one to which the host sends data (SetDevicePropValue)     *)
(*                                                                         *)
(* Data whose last transfer fills its last packet needs a null packet to   *)
(* end it.  The host sends one; the device does while the in endpoint has  *)
(* its zlt set.  stream_to_file and stream_from_file take care of both     *)
(* themselves, so this is about the other data.                            *)
(***************************************************************************)
EXTENDS Naturals, Sequences

CONSTANTS
  MaxTransactions, (* bound: transactions of the host                       *)
  MaxPayload,      (* bound: transfers of data after the header's           *)
  Null             (* no packet                                             *)

Operations ==
  {"Plain", "Query", "GetObject", "Update", "SendObject", "Unknown", "UnknownData"}
DataIn == {"Query", "GetObject"}
DataOut == {"Update", "SendObject", "UnknownData"}
Codes == {"OK", "Error", "Access_Denied", "Invalid_TransactionID", "Undefined"}

Command(op, tid, size, full) ==
  [type |-> "Command", op |-> op, tid |-> tid, size |-> size, full |-> full]
Data(tid) == [type |-> "Data", op |-> "none", tid |-> tid, size |-> 0]
NullPacket == [type |-> "Null"]
Response(code, tid) == [type |-> "Response", code |-> code, tid |-> tid]

ASSUME TransactionAssumption ==
  /\ MaxTransactions \in Nat /\ MaxPayload \in Nat
  /\ \A tid \in 0..MaxTransactions : Null # Data(tid)
  /\ \A tid \in 0..MaxTransactions, code \in Codes : Null # Response(code, tid)

VARIABLES
  pc,            (* where the server is                                     *)
  request,       (* RequestPacket request                                   *)
  response,      (* ResponsePacket response                                 *)
  left,          (* transfers of the data phase that the handler expects    *)
  stored,        (* transfers it has received                               *)
  listens,       (* the host listens for the response while it still has    *)
                 (* data to send, and keeps the rest if it is an error      *)
  current,       (* the host's transaction, its last command                *)
  before,        (* the operation of the last transaction, if it was OK     *)
  busy,          (* the host has not had the response                       *)
  out,           (* what the host has still to send                         *)
  posted,        (* the packet on the in endpoint                           *)
  zlt,           (* the in endpoint ends full packets with a null packet    *)
  got,           (* transfers of data that the host has had                 *)
  unended        (* the last of them had no end                             *)

server == <<pc, request, response, left, stored>>
host == <<listens, current, before, busy, out, got, unended>>
vars == <<server, host, posted, zlt>>

Init ==
  /\ pc = "receive_request"
  /\ request = Null /\ response = Null
  /\ left = 0 /\ stored = 0
  /\ listens \in BOOLEAN
  /\ current = Command("Plain", 0, 0, FALSE)
  /\ before = "none" /\ busy = FALSE
  /\ out = <<>> /\ posted = Null
  /\ zlt \in BOOLEAN
  /\ got = 0 /\ unended = FALSE

-------------------------------------------------------------------------------
(* The host follows the protocol.                                            *)

HostData(command) ==
  [i \in 1..(command.size + 1) |-> Data(command.tid)]
    \o (IF command.op = "Update" /\ command.full THEN <<NullPacket>> ELSE <<>>)

Start(op, size, full) ==
  /\ ~busy /\ current.tid < MaxTransactions
  /\ full => size > 0 /\ op \in {"Query", "Update"}
  /\ current' = Command(op, current.tid + 1, size, full)
  /\ busy' = TRUE
  /\ out' = out \o <<current'>> \o (IF op \in DataOut THEN HostData(current') ELSE <<>>)
  /\ got' = 0 /\ unended' = FALSE
  /\ UNCHANGED <<server, listens, before, posted, zlt>>

TakeData ==
  /\ busy /\ posted # Null /\ posted.type = "Data"
  /\ got' = got + 1
  /\ unended' = (current.full /\ got' = current.size + 1 /\ ~zlt)
  /\ posted' = Null
  /\ UNCHANGED <<server, listens, current, before, busy, out, zlt>>

(* A host that keeps count of the data takes the response even if the data   *)
(* had no end.  After an error it sends no more of its data, but may still   *)
(* send the null packet when that is all it has left.                        *)
TakeResponse ==
  /\ busy /\ posted # Null /\ posted.type = "Response"
  /\ listens \/ out = <<>>
  /\ busy' = FALSE
  /\ \/ posted.code = "OK" /\ UNCHANGED out
     \/ posted.code # "OK" /\ (out' = <<>> \/ (out = <<NullPacket>> /\ UNCHANGED out))
  /\ before' = IF posted.code = "OK" THEN current.op ELSE "none"
  /\ posted' = Null
  /\ UNCHANGED <<server, listens, current, got, unended, zlt>>

Host == TakeData \/ TakeResponse

-------------------------------------------------------------------------------
(* The server.                                                               *)

(* A data phase is the header, in a transfer of its own, and the rest.       *)
HeaderOnly(size) == 1
OneMore(size) == size + 2
Transfers(size) == size + 1

(* response.update_header(request)                                           *)
NoTransaction(packet) == 0
Transaction(packet) == packet.tid

Respond(code, packet) ==
  /\ pc' = "respond"
  /\ response' = Response(code, Transaction(packet))
  /\ UNCHANGED left

(* The handler goes on to its data phase.                                    *)
GoOn(next, size) ==
  /\ pc' = next
  /\ left' = Transfers(size)
  /\ UNCHANGED response

Handle(packet) ==
  \/ packet.op = "Plain" /\ \E code \in {"OK", "Error"} : Respond(code, packet)
  \/ packet.op \in DataIn /\ (Respond("Error", packet) \/ GoOn("send", packet.size))
  \/ packet.op = "Update" /\ GoOn("receive", packet.size)
  \/ packet.op = "SendObject"
     /\ (Respond("Access_Denied", packet) \/ GoOn("receive", packet.size))
  \/ packet.op \in {"Unknown", "UnknownData"} /\ Respond("Invalid_TransactionID", packet)

(* process: whatever is not a command is answered with an empty response.    *)
ReceiveRequest ==
  /\ pc = "receive_request" /\ out # <<>> /\ Head(out).type # "Null"
  /\ out' = Tail(out)
  /\ request' = Head(out)
  /\ stored' = 0
  /\ IF request'.type = "Command" THEN Handle(request') ELSE Respond("Undefined", request')
  /\ UNCHANGED <<listens, current, before, busy, got, unended, posted, zlt>>

(* DataPacket::receive asks for as many bytes as the data has, and leaves    *)
(* the null packet to the next request, which is too short to be one:        *)
(* process returns at once.                                                  *)
NoRequest ==
  /\ pc = "receive_request" /\ out # <<>> /\ Head(out).type = "Null"
  /\ out' = Tail(out)
  /\ UNCHANGED <<server, listens, current, before, busy, got, unended, posted, zlt>>

(* DataPacket::receive and stream_to_file take what the host sends for data. *)
ReceiveData ==
  /\ pc = "receive" /\ left > 0 /\ out # <<>>
  /\ out' = Tail(out)
  /\ left' = left - 1 /\ stored' = stored + 1
  /\ UNCHANGED <<pc, request, response, listens, current, before, busy, got, unended,
                 posted, zlt>>

(* An update may still fail, for what it names, when its data is there.      *)
Received ==
  /\ pc = "receive" /\ left = 0
  /\ \E code \in IF request.op = "Update" THEN {"OK", "Error"} ELSE {"OK"} :
       Respond(code, request)
  /\ UNCHANGED <<request, stored, host, posted, zlt>>

(* DataPacket::send and stream_from_file: usb::send returns when the host    *)
(* has taken the transfer.  stream_from_file ends its data itself.           *)
SendData ==
  /\ pc = "send" /\ left > 0 /\ posted = Null
  /\ posted' = Data(request.tid)
  /\ left' = left - 1
  /\ zlt' = (zlt /\ ~(request.op = "GetObject" /\ left = request.size))
  /\ UNCHANGED <<pc, request, response, stored, host>>

(* DataPacket::send sets the endpoint's zlt when everything has been sent.   *)
NeverSet == FALSE
SetLast == TRUE

Sent ==
  /\ pc = "send" /\ left = 0 /\ posted = Null
  /\ zlt' = IF request.op = "Query" THEN SetLast ELSE zlt
  /\ Respond("OK", request)
  /\ UNCHANGED <<request, stored, host, posted>>

SendResponse ==
  /\ pc = "respond"
  /\ posted' = response
  /\ pc' = "responding"
  /\ UNCHANGED <<request, response, left, stored, host, zlt>>

(* process returns, and main calls it again.                                 *)
Process ==
  /\ pc = "responding" /\ posted = Null
  /\ pc' = "receive_request"
  /\ UNCHANGED <<request, response, left, stored, host, posted, zlt>>

Server ==
  \/ ReceiveRequest \/ NoRequest \/ ReceiveData \/ Received
  \/ SendData \/ Sent \/ SendResponse \/ Process

Next ==
  \/ Server \/ Host
  \/ \E op \in Operations, size \in 0..MaxPayload, full \in BOOLEAN : Start(op, size, full)

(* The server is scheduled and the host finishes what it has begun.          *)
Spec == Init /\ [][Next]_vars /\ WF_vars(Server) /\ WF_vars(Host)

-------------------------------------------------------------------------------
(* Properties.                                                               *)

(* The variables of the server and of the host have their types.             *)
TypeOK ==
  /\ pc \in {"receive_request", "receive", "send", "respond", "responding"}
  /\ response # Null => response.code \in Codes /\ response.tid \in 0..MaxTransactions
  /\ left \in 0..(MaxPayload + 1) /\ stored \in 0..(MaxPayload + 1)
  /\ got \in 0..(MaxPayload + 1)
  /\ current.tid \in 0..MaxTransactions /\ before \in Operations \cup {"none"}
  /\ busy \in BOOLEAN /\ listens \in BOOLEAN
  /\ zlt \in BOOLEAN /\ unended \in BOOLEAN

(* The server never takes data of an earlier transaction for a request: each *)
(* handler has received all of its data when it says so.                     *)
RequestsAreCommands == request # Null => request.type = "Command"

(* A packet the host receives belongs to the transaction it is in.           *)
AnsweredInTurn == posted # Null => busy /\ posted.tid = current.tid

(* A response that says OK comes after all the data, of the length that was  *)
(* announced: the host has it, or the server has it.                         *)
OkIsComplete ==
  posted # Null /\ posted.type = "Response" /\ posted.code = "OK" =>
    /\ current.op \in DataIn => got = current.size + 1
    /\ current.op \in DataOut => stored = current.size + 1

(* Every transaction the host begins is answered; a SendObject, data for an  *)
(* operation that is not implemented and an update whose data ends with a    *)
(* null packet, if the host listens meanwhile.                               *)
(* (Otherwise it waits for the server to take what it has to send and the    *)
(* server for it to take the response.)                                      *)
HostWaits ==
  ~listens /\ (\/ current.op \in {"SendObject", "UnknownData"}
               \/ current.op = "Update" /\ current.full)

Answered == (busy /\ ~HostWaits) ~> ~busy

(* Only the first query's data, since the start or since a file was sent,    *)
(* can lack the end it needs: after a query that went well it has one.       *)
AskedAgainEnds ==
  busy /\ before = "Query" /\ current.op = "Query" => ~unended
===============================================================================
