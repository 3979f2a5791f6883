-------------------------- MODULE MtpTransactionProofs --------------------------
(***************************************************************************)
(* Theorems about MtpTransaction, for data and transactions of any number. *)
(*                                                                         *)
(* The argument: between two transactions the host has at most a null      *)
(* packet left to send; in a transaction it has what the phase the server  *)
(* is in leaves of the command and its data.  So the next request is       *)
(* always the host's command, and data is never taken for one.             *)
(***************************************************************************)
EXTENDS MtpTransaction, SequenceTheorems, TLAPS

Commands ==
  [type : {"Command"}, op : Operations, tid : 0..MaxTransactions,
   size : 0..MaxPayload, full : BOOLEAN]

Packets == Commands \cup {NullPacket} \cup {Data(tid) : tid \in 0..MaxTransactions}

Types ==
  /\ TypeOK
  /\ current \in Commands /\ out \in Seq(Packets)

(* The host has, behind what it sends first, n transfers of data to send,    *)
(* and the null packet that ends the data, if it has one.                    *)
Trailer == IF current.op = "Update" /\ current.full THEN 1 ELSE 0
Rest(first, n) ==
  /\ Len(out) = first + n + Trailer
  /\ \A i \in 1..n : out[first + i] = Data(current.tid)
  /\ Trailer = 1 => out[first + n + 1] = NullPacket

(* The phases of a transaction.                                              *)
Idle ==
  /\ pc \in {"receive_request", "responding"} /\ posted = Null
  /\ Len(out) \in {0, 1} /\ (Len(out) = 1 => out[1] = NullPacket)

Queued(skip) ==
  /\ skip = 1 => out[1] = NullPacket
  /\ out[skip + 1] = current
  /\ IF current.op \in DataOut THEN Rest(skip + 1, current.size + 1)
                               ELSE Len(out) = skip + 1

Asked ==
  /\ pc \in {"receive_request", "responding"} /\ posted = Null
  /\ got = 0
  /\ \E skip \in {0, 1} : Queued(skip)

Receiving ==
  /\ pc = "receive" /\ posted = Null /\ request = current
  /\ current.op \in DataOut
  /\ left + stored = current.size + 1 /\ Rest(0, left)

Sending ==
  /\ pc = "send" /\ request = current
  /\ current.op \in DataIn /\ Len(out) = 0
  /\ \/ posted = Null /\ got + left = current.size + 1
     \/ posted = Data(current.tid) /\ got + left = current.size

Answering ==
  /\ request = current
  /\ (pc = "respond" /\ posted = Null) \/ (pc = "responding" /\ posted = response)
  /\ \E code \in Codes :
       /\ response = Response(code, current.tid)
       /\ code = "OK" =>
            /\ Rest(0, 0)
            /\ current.op \in DataIn => got = current.size + 1
            /\ current.op \in DataOut => stored = current.size + 1
            /\ current.op = "Query" => zlt

Phases ==
  /\ ~busy => Idle
  /\ busy => Asked \/ Receiving \/ Sending \/ Answering

(* Where the in endpoint's zlt is set.                                       *)
Ends ==
  /\ before = "Query" /\ (busy => current.op # "GetObject") => zlt
  /\ AskedAgainEnds

IInv == Types /\ RequestsAreCommands /\ Phases /\ Ends

-------------------------------------------------------------------------------
(* The kinds of packets are told apart.                                      *)
LEMMA Kinds ==
  /\ \A tid \in 0..MaxTransactions :
       /\ Data(tid).type = "Data" /\ Data(tid).tid = tid /\ Data(tid) \in Packets
       /\ Null # Data(tid)
  /\ NullPacket.type = "Null" /\ NullPacket \in Packets
  /\ \A tid \in 0..MaxTransactions, code \in Codes :
       /\ Response(code, tid).type = "Response"
       /\ Response(code, tid).code = code /\ Response(code, tid).tid = tid
       /\ Null # Response(code, tid)
  /\ \A c \in Commands : /\ c.type = "Command" /\ c.op \in Operations
                         /\ c.tid \in 0..MaxTransactions /\ c.size \in 0..MaxPayload
                         /\ c.full \in BOOLEAN /\ c \in Packets
<1>1. \A tid : Data(tid).type = "Data" /\ Data(tid).tid = tid
  BY DEF Data
<1>2. NullPacket.type = "Null"
  BY DEF NullPacket
<1>3. \A tid, code : /\ Response(code, tid).type = "Response"
                     /\ Response(code, tid).code = code /\ Response(code, tid).tid = tid
  BY DEF Response
<1>4. \A c \in Commands : /\ c.type = "Command" /\ c.op \in Operations
                          /\ c.tid \in 0..MaxTransactions /\ c.size \in 0..MaxPayload
                          /\ c.full \in BOOLEAN
  BY DEF Commands
<1> QED
  BY <1>1, <1>2, <1>3, <1>4, TransactionAssumption DEF Packets

(* What the host sends first is taken.                                       *)
LEMMA Taken ==
  ASSUME out \in Seq(Packets), out # <<>>, out' = Tail(out)
  PROVE  /\ out' \in Seq(Packets) /\ Len(out) \in Nat \ {0}
         /\ Len(out') = Len(out) - 1 /\ Len(out') \in Nat
         /\ \A i \in 1..Len(out') : out'[i] = out[i + 1]
         /\ Head(out) = out[1]
<1>1. Len(out) \in Nat /\ Len(out) # 0
  BY EmptySeq, LenProperties
<1>2. /\ Tail(out) \in Seq(Packets) /\ Len(Tail(out)) = Len(out) - 1
      /\ \A i \in 1..Len(Tail(out)) : Tail(out)[i] = out[i + 1]
  BY HeadTailProperties
<1>3. Head(out) = out[1]
  OBVIOUS
<1> QED
  BY <1>1, <1>2, <1>3

(* The data moves to the front.                                              *)
LEMMA RestMoves ==
  ASSUME Types, NEW first \in Nat, NEW n \in Nat, Rest(first + 1, n),
         out # <<>>, out' = Tail(out), current' = current
  PROVE  Rest(first, n)'
<1>1. /\ Len(out) \in Nat \ {0} /\ Len(out') = Len(out) - 1 /\ Len(out') \in Nat
      /\ \A i \in 1..Len(out') : out'[i] = out[i + 1]
  BY Taken DEF Types
<1>2. Trailer' = Trailer /\ Trailer \in {0, 1}
  BY DEF Trailer
<1>3. /\ Len(out) = first + 1 + n + Trailer
      /\ \A i \in 1..n : out[first + 1 + i] = Data(current.tid)
      /\ Trailer = 1 => out[first + 1 + n + 1] = NullPacket
  BY DEF Rest
<1>4. Len(out') = first + n + Trailer
  BY <1>1, <1>2, <1>3
<1>5. ASSUME NEW i \in 1..n PROVE out'[first + i] = Data(current.tid)
  <2>1. first + i \in 1..Len(out') /\ (first + i) + 1 = first + 1 + i
    BY <1>2, <1>4
  <2> QED
    BY <1>1, <1>3, <2>1
<1>6. Trailer = 1 => out'[first + n + 1] = NullPacket
  <2> SUFFICES ASSUME Trailer = 1 PROVE out'[first + n + 1] = NullPacket
    OBVIOUS
  <2>1. first + n + 1 \in 1..Len(out') /\ (first + n + 1) + 1 = first + 1 + n + 1
    BY <1>4
  <2> QED
    BY <1>1, <1>3, <2>1
<1> HIDE DEF Trailer
<1> QED
  BY <1>2, <1>4, <1>5, <1>6 DEF Rest

(* What the host has to send of a new transaction, in the order it sends it. *)
LEMMA HostDataIsRest ==
  ASSUME NEW c \in Commands
  PROVE  LET data == HostData(c)
             n    == c.size + 1
             e    == IF c.op = "Update" /\ c.full THEN 1 ELSE 0
         IN  /\ data \in Seq(Packets) /\ Len(data) = n + e
             /\ \A i \in 1..n : data[i] = Data(c.tid)
             /\ e = 1 => data[n + 1] = NullPacket
<1> DEFINE n == c.size + 1
           all == [i \in 1..n |-> Data(c.tid)]
           last == IF c.op = "Update" /\ c.full THEN <<NullPacket>> ELSE <<>>
           e == IF c.op = "Update" /\ c.full THEN 1 ELSE 0
<1>1. n \in Nat /\ c.tid \in 0..MaxTransactions
  BY TransactionAssumption DEF Commands
<1>2. all \in Seq(Packets) /\ Len(all) = n /\ \A i \in 1..n : all[i] = Data(c.tid)
  <2>1. \A i \in 1..n : Data(c.tid) \in Packets
    BY <1>1, Kinds
  <2> HIDE DEF n
  <2> QED
    BY <1>1, <2>1, LenProperties
<1>3. last \in Seq(Packets) /\ Len(last) = e /\ (e = 1 => last[1] = NullPacket)
  BY Kinds
<1>4. e \in {0, 1}
  OBVIOUS
<1> HIDE DEF n, all, last, e
<1>5. /\ all \o last \in Seq(Packets) /\ Len(all \o last) = n + e
      /\ \A i \in 1..(n + e) : (all \o last)[i] = IF i <= n THEN all[i] ELSE last[i - n]
  BY <1>2, <1>3, ConcatProperties
<1>6. \A i \in 1..n : (all \o last)[i] = Data(c.tid)
  BY <1>1, <1>2, <1>4, <1>5
<1>7. e = 1 => (all \o last)[n + 1] = NullPacket
  BY <1>1, <1>3, <1>5
<1>8. HostData(c) = all \o last
  BY DEF HostData, all, last, n
<1> QED
  BY <1>5, <1>6, <1>7, <1>8 DEF n, e

(* The initial states.                                                       *)
LEMMA InitIInv == Init => IInv
<1> SUFFICES ASSUME Init PROVE IInv
  OBVIOUS
<1> USE DEF Init
<1>0. 0 \in 0..(MaxPayload + 1) /\ 0 \in 0..MaxPayload /\ 0 \in 0..MaxTransactions
  <2> USE TransactionAssumption
  <2> QED
    OBVIOUS
<1>1. current \in Commands /\ current.op = "Plain" /\ current.tid = 0
  BY <1>0 DEF Commands, Command, Operations
<1>2. out \in Seq(Packets) /\ Len(out) = 0
  BY EmptySeq
<1>3. TypeOK
  <2>1. busy \in BOOLEAN /\ listens \in BOOLEAN /\ zlt \in BOOLEAN /\ unended \in BOOLEAN
    OBVIOUS
  <2>2. left \in 0..(MaxPayload + 1) /\ stored \in 0..(MaxPayload + 1)
        /\ got \in 0..(MaxPayload + 1) /\ current.tid \in 0..MaxTransactions
    BY <1>0, <1>1
  <2> QED
    BY <2>1, <2>2 DEF TypeOK
<1>4. RequestsAreCommands
  BY DEF RequestsAreCommands
<1>5. Phases
  BY <1>2 DEF Phases, Idle
<1>6. Ends
  BY DEF Ends, AskedAgainEnds
<1> QED
  BY <1>1, <1>2, <1>3, <1>4, <1>5, <1>6 DEF IInv, Types

-------------------------------------------------------------------------------
(* The host.                                                                 *)

(* A transaction begins behind what is left of the one before.               *)
LEMMA StartIInv ==
  ASSUME IInv, NEW op \in Operations, NEW size \in 0..MaxPayload, NEW full \in BOOLEAN,
         Start(op, size, full)
  PROVE  IInv'
<1> USE DEF IInv
<1> DEFINE c == Command(op, current.tid + 1, size, full)
           data == IF op \in DataOut THEN HostData(c) ELSE <<>>
<1>1. /\ ~busy /\ current.tid < MaxTransactions /\ current' = c /\ busy' = TRUE
      /\ out' = out \o <<c>> \o data /\ got' = 0 /\ unended' = FALSE
      /\ UNCHANGED <<pc, request, response, left, stored, listens, before, posted, zlt>>
  BY DEF Start, server
<1>2. c \in Commands /\ c \in Packets /\ c.op = op /\ c.size = size /\ c.full = full
      /\ c.tid \in 0..MaxTransactions
  <2>1. current.tid + 1 \in 0..MaxTransactions
    BY <1>1, TransactionAssumption DEF Types, TypeOK
  <2>2. c \in Commands
    BY <2>1 DEF Command, Commands
  <2> QED
    BY <2>1, <2>2, Kinds DEF Command
<1>3. Idle /\ out \in Seq(Packets)
  BY <1>1 DEF Phases, Types
<1> DEFINE e == IF c.op = "Update" /\ c.full THEN 1 ELSE 0
<1>4. /\ data \in Seq(Packets)
      /\ op \notin DataOut => Len(data) = 0
      /\ op \in DataOut => /\ Len(data) = size + 1 + e
                           /\ \A i \in 1..(size + 1) : data[i] = Data(c.tid)
                           /\ e = 1 => data[size + 1 + 1] = NullPacket
  BY <1>2, HostDataIsRest, EmptySeq
<1>5. e \in {0, 1} /\ e = Trailer'
  BY <1>1 DEF Trailer
<1> HIDE DEF c, data, e
<1> DEFINE lead == out \o <<c>>
<1>6. Len(out) \in {0, 1} /\ (Len(out) = 1 => out[1] = NullPacket)
  BY <1>3 DEF Idle
<1>7. /\ lead \in Seq(Packets) /\ Len(lead) = Len(out) + 1
      /\ Len(out) = 1 => lead[1] = NullPacket
      /\ lead[Len(out) + 1] = c
  <2>1. <<c>> \in Seq(Packets) /\ Len(<<c>>) = 1 /\ <<c>>[1] = c
    BY <1>2
  <2>2. /\ lead \in Seq(Packets) /\ Len(lead) = Len(out) + 1
        /\ \A i \in 1..(Len(out) + 1) :
             lead[i] = IF i <= Len(out) THEN out[i] ELSE <<c>>[i - Len(out)]
    BY <1>3, <2>1, ConcatProperties
  <2> HIDE DEF lead
  <2> QED
    BY <1>6, <2>1, <2>2
<1> HIDE DEF lead
<1>8. /\ out' \in Seq(Packets) /\ Len(out') = Len(lead) + Len(data)
      /\ \A i \in 1..(Len(lead) + Len(data)) :
           out'[i] = IF i <= Len(lead) THEN lead[i] ELSE data[i - Len(lead)]
  BY <1>1, <1>4, <1>7, ConcatProperties DEF lead
<1>9. Len(data) \in Nat
  BY <1>4, LenProperties
<1>10. Types'
  <2>1. TypeOK'
    <3>1. busy' \in BOOLEAN /\ unended' \in BOOLEAN
      BY <1>1
    <3>2. got' \in 0..(MaxPayload + 1) /\ current'.tid \in 0..MaxTransactions
      BY <1>1, <1>2, TransactionAssumption
    <3> QED
      BY <1>1, <3>1, <3>2 DEF Types, TypeOK
  <2> QED
    BY <1>1, <1>2, <1>8, <2>1 DEF Types
<1>11. PICK k \in {0, 1} : k = Len(out)
  BY <1>6
<1>12. Queued(k)'
  <2>1. k = 1 => out'[1] = NullPacket
    BY <1>6, <1>7, <1>8, <1>9, <1>11
  <2>2. out'[k + 1] = current'
    BY <1>1, <1>6, <1>7, <1>8, <1>9, <1>11
  <2>3. current'.op \notin DataOut => Len(out') = k + 1
    BY <1>1, <1>2, <1>4, <1>6, <1>7, <1>8, <1>11
  <2>4. current'.op \in DataOut => Rest(k + 1, current.size + 1)'
    <3> SUFFICES ASSUME op \in DataOut PROVE Rest(k + 1, current.size + 1)'
      BY <1>1, <1>2
    <3>1. size \in Nat
      BY TransactionAssumption
    <3>2. Len(out') = k + 1 + (size + 1) + e
      <4>1. Len(data) = size + 1 + e /\ Len(lead) = k + 1
        BY <1>4, <1>7, <1>11
      <4>2. Len(out') = Len(lead) + Len(data)
        BY <1>8
      <4> QED
        BY <1>5, <3>1, <4>1, <4>2
    <3>3. ASSUME NEW i \in 1..(size + 1)
          PROVE  out'[k + 1 + i] = Data(c.tid)
      <4>1. /\ k + 1 + i \in 1..(Len(lead) + Len(data))
            /\ ~(k + 1 + i <= Len(lead))
            /\ (k + 1 + i) - Len(lead) = i
        BY <1>4, <1>5, <1>7, <1>11, <3>1
      <4> QED
        BY <1>4, <1>8, <4>1
    <3>4. ASSUME e = 1
          PROVE  out'[k + 1 + (size + 1) + 1] = NullPacket
      <4>1. /\ k + 1 + (size + 1) + 1 \in 1..(Len(lead) + Len(data))
            /\ ~(k + 1 + (size + 1) + 1 <= Len(lead))
            /\ (k + 1 + (size + 1) + 1) - Len(lead) = size + 1 + 1
        BY <1>4, <1>5, <1>7, <1>11, <3>1, <3>4
      <4> QED
        BY <1>4, <1>5, <1>8, <3>4, <4>1
    <3> QED
      BY <1>1, <1>2, <1>5, <3>2, <3>3, <3>4 DEF Rest
  <2> QED
    BY <2>1, <2>2, <2>3, <2>4 DEF Queued
<1>13. Phases'
  BY <1>1, <1>3, <1>12 DEF Phases, Idle, Asked
<1>14. Ends'
  BY <1>1 DEF Ends, AskedAgainEnds
<1>15. RequestsAreCommands'
  BY <1>1 DEF RequestsAreCommands
<1> QED
  BY <1>10, <1>13, <1>14, <1>15

(* The host takes one more transfer of the data.                             *)
LEMMA TakeDataIInv == IInv /\ TakeData => IInv'
<1> SUFFICES ASSUME IInv, TakeData PROVE IInv'
  OBVIOUS
<1> USE DEF IInv
<1>1. /\ busy /\ posted # Null /\ posted.type = "Data" /\ posted' = Null
      /\ got' = got + 1
      /\ UNCHANGED <<pc, request, response, left, stored, listens, current, before, busy,
                     out, zlt>>
  BY DEF TakeData, server
<1>2. unended' \in BOOLEAN /\ (zlt => ~unended')
  BY DEF TakeData
<1>3. /\ current \in Commands /\ current.size \in 0..MaxPayload
      /\ current.tid \in 0..MaxTransactions /\ MaxPayload \in Nat
      /\ got \in Nat /\ left \in Nat
  BY Kinds, TransactionAssumption DEF Types, TypeOK
<1>4. ~Answering
  BY <1>1, <1>3, Kinds DEF Answering
<1>5. Sending /\ posted = Data(current.tid) /\ got + left = current.size
  BY <1>1, <1>4 DEF Phases, Asked, Receiving, Sending
<1>6. Sending'
  BY <1>1, <1>3, <1>5 DEF Sending
<1>7. Types'
  <2>1. got' \in 0..(MaxPayload + 1)
    BY <1>1, <1>3, <1>5
  <2> QED
    BY <1>1, <1>2, <2>1 DEF Types, TypeOK
<1>8. Phases'
  BY <1>1, <1>6 DEF Phases
<1>9. Ends'
  BY <1>1, <1>2 DEF Ends, AskedAgainEnds
<1>10. RequestsAreCommands'
  BY <1>1 DEF RequestsAreCommands
<1> QED
  BY <1>7, <1>8, <1>9, <1>10

(* The host takes the response.                                              *)
LEMMA TakeResponseIInv == IInv /\ TakeResponse => IInv'
<1> SUFFICES ASSUME IInv, TakeResponse PROVE IInv'
  OBVIOUS
<1> USE DEF IInv
<1>1. /\ busy /\ posted # Null /\ posted.type = "Response" /\ posted' = Null
      /\ busy' = FALSE
      /\ UNCHANGED <<pc, request, response, left, stored, listens, current, got, unended, zlt>>
  BY DEF TakeResponse, server
<1>2. /\ posted.code = "OK" => out' = out
      /\ out' \in {<<>>, out} /\ (out' = <<>> \/ posted.code = "OK" \/ out' = <<NullPacket>>)
      /\ before' = IF posted.code = "OK" THEN current.op ELSE "none"
  BY DEF TakeResponse
<1>3. /\ current \in Commands /\ current.op \in Operations
      /\ current.tid \in 0..MaxTransactions
  BY Kinds DEF Types
<1>4. ~Sending
  BY <1>1, <1>3, Kinds DEF Sending
<1>5. Answering /\ posted = response /\ pc = "responding"
  BY <1>1, <1>4 DEF Phases, Asked, Receiving, Answering
<1>6. PICK code \in Codes :
        /\ posted = Response(code, current.tid) /\ posted.code = code
        /\ code = "OK" => Rest(0, 0) /\ (current.op = "Query" => zlt)
  BY <1>3, <1>5, Kinds DEF Answering
<1>7. Types'
  <2>1. out' \in Seq(Packets)
    BY <1>2, EmptySeq DEF Types
  <2>2. before' \in Operations \cup {"none"}
    BY <1>2, <1>3
  <2>3. busy' \in BOOLEAN
    BY <1>1
  <2> QED
    BY <1>1, <2>1, <2>2, <2>3 DEF Types, TypeOK
<1>8. Idle'
  <2>1. CASE code = "OK"
    BY <1>1, <1>2, <1>5, <1>6, <2>1 DEF Idle, Rest, Trailer
  <2>2. CASE code # "OK"
    <3>1. Len(out') \in {0, 1} /\ (Len(out') = 1 => out'[1] = NullPacket)
      BY <1>2, <1>6, <2>2
    <3> QED
      BY <1>1, <1>5, <3>1 DEF Idle
  <2> QED
    BY <2>1, <2>2
<1>9. Phases'
  BY <1>1, <1>8 DEF Phases
<1>10. Ends'
  <2>1. before' = "Query" => zlt'
    BY <1>1, <1>2, <1>6
  <2> QED
    BY <1>1, <2>1 DEF Ends, AskedAgainEnds
<1>11. RequestsAreCommands'
  BY <1>1 DEF RequestsAreCommands
<1> QED
  BY <1>7, <1>9, <1>10, <1>11

-------------------------------------------------------------------------------
(* The server.                                                               *)

(* What the server is asked for is the host's command: it answers, or goes   *)
(* on to the phase of the data that the command announced.                   *)
LEMMA ReceiveRequestIInv == IInv /\ ReceiveRequest => IInv'
<1> SUFFICES ASSUME IInv, ReceiveRequest PROVE IInv'
  OBVIOUS
<1> USE DEF IInv
<1>1. /\ pc = "receive_request" /\ out # <<>> /\ Head(out).type # "Null"
      /\ out' = Tail(out) /\ request' = Head(out) /\ stored' = 0
      /\ UNCHANGED <<listens, current, before, busy, got, unended, posted, zlt>>
  BY DEF ReceiveRequest
<1>2. /\ current \in Commands /\ current.size \in 0..MaxPayload
      /\ current.tid \in 0..MaxTransactions /\ current.op \in Operations
      /\ current.type = "Command" /\ MaxPayload \in Nat
      /\ NullPacket.type = "Null"
  BY Kinds, TransactionAssumption DEF Types
<1>3. /\ out' \in Seq(Packets) /\ Len(out) \in Nat \ {0}
      /\ Len(out') = Len(out) - 1 /\ Head(out) = out[1]
  BY <1>1, Taken DEF Types
<1>4. out[1] # NullPacket
  BY <1>1, <1>2, <1>3
<1>5. busy /\ Asked
  BY <1>1, <1>3, <1>4 DEF Phases, Idle, Receiving, Sending, Answering
<1>6. Queued(0) /\ posted = Null /\ got = 0
  BY <1>4, <1>5 DEF Asked, Queued
<1>7. /\ request' = current
      /\ IF current.op \in DataOut THEN Rest(1, current.size + 1) ELSE Len(out) = 1
  BY <1>1, <1>3, <1>6 DEF Queued
<1>8. /\ current.op \in DataOut => Rest(0, current.size + 1)'
      /\ current.op \notin DataOut => Len(out') = 0
  <2>1. current.op \in DataOut => Rest(0 + 1, current.size + 1)
    BY <1>7
  <2>2. current.size + 1 \in Nat /\ current' = current
    BY <1>1, <1>2
  <2>3. ASSUME current.op \in DataOut PROVE Rest(0, current.size + 1)'
    <3>1. PICK n \in Nat : n = current.size + 1
      BY <2>2
    <3>2. Rest(0, n)'
      BY <1>1, <2>1, <2>2, <2>3, <3>1, RestMoves
    <3> QED
      BY <2>2, <3>1, <3>2 DEF Rest
  <2> QED
    BY <1>3, <1>7, <2>3
<1>9. Handle(current)
  BY <1>2, <1>7 DEF ReceiveRequest
<1>10. \/ /\ current.op \in DataOut /\ pc' = "receive" /\ left' = current.size + 1
          /\ response' = response
       \/ /\ current.op \in DataIn /\ pc' = "send" /\ left' = current.size + 1
          /\ response' = response
       \/ /\ pc' = "respond" /\ left' = left
          /\ \E code \in Codes : /\ response' = Response(code, current.tid)
                                 /\ code = "OK" => current.op = "Plain"
  BY <1>9 DEF Handle, GoOn, Respond, Transfers, Transaction, DataIn, DataOut, Codes
<1>11. Types'
  <2>1. left' \in 0..(MaxPayload + 1) /\ stored' \in 0..(MaxPayload + 1)
    <3>1. 0 \in 0..(MaxPayload + 1) /\ current.size + 1 \in 0..(MaxPayload + 1)
      BY <1>2
    <3> QED
      BY <1>1, <1>10, <3>1 DEF Types, TypeOK
  <2>2. response' # Null => response'.code \in Codes /\ response'.tid \in 0..MaxTransactions
    BY <1>2, <1>10, Kinds DEF Types, TypeOK
  <2>3. pc' \in {"receive", "send", "respond"}
    BY <1>10
  <2> QED
    BY <1>1, <1>3, <2>1, <2>2, <2>3 DEF Types, TypeOK
<1>12. Receiving' \/ Sending' \/ Answering'
  <2>1. CASE current.op \in DataOut /\ pc' = "receive" /\ left' = current.size + 1
    <3>1. Rest(0, left)'
      BY <1>1, <1>8, <2>1 DEF Rest
    <3>2. left' + stored' = current'.size + 1
      BY <1>1, <1>2, <2>1
    <3> QED
      BY <1>1, <1>6, <1>7, <2>1, <3>1, <3>2 DEF Receiving
  <2>2. CASE current.op \in DataIn /\ pc' = "send" /\ left' = current.size + 1
    <3>1. got' + left' = current'.size + 1 /\ Len(out') = 0
      BY <1>1, <1>2, <1>6, <1>8, <2>2 DEF DataIn, DataOut
    <3> QED
      BY <1>1, <1>6, <1>7, <2>2, <3>1 DEF Sending
  <2>3. ASSUME pc' = "respond",
               NEW code \in Codes, response' = Response(code, current.tid),
               code = "OK" => current.op = "Plain"
        PROVE  Answering'
    <3>1. code = "OK" => Rest(0, 0)' /\ current.op \notin DataIn \cup DataOut
                         /\ current.op # "Query"
      BY <1>1, <1>8, <2>3 DEF Rest, Trailer, DataIn, DataOut
    <3> QED
      BY <1>1, <1>6, <1>7, <2>3, <3>1 DEF Answering
  <2> QED
    BY <1>10, <2>1, <2>2, <2>3
<1>13. Phases'
  BY <1>1, <1>5, <1>12 DEF Phases
<1>14. Ends'
  BY <1>1 DEF Ends, AskedAgainEnds
<1>15. RequestsAreCommands'
  BY <1>2, <1>7 DEF RequestsAreCommands
<1> QED
  BY <1>11, <1>13, <1>14, <1>15

(* What is too short to be a request is the null packet that the host sent   *)
(* at the end of the data before.                                            *)
LEMMA NoRequestIInv == IInv /\ NoRequest => IInv'
<1> SUFFICES ASSUME IInv, NoRequest PROVE IInv'
  OBVIOUS
<1> USE DEF IInv
<1>1. /\ pc = "receive_request" /\ out # <<>> /\ Head(out).type = "Null" /\ out' = Tail(out)
      /\ UNCHANGED <<pc, request, response, left, stored, listens, current, before, busy, got,
                     unended, posted, zlt>>
  BY DEF NoRequest, server
<1>2. /\ out' \in Seq(Packets) /\ Len(out) \in Nat \ {0} /\ Len(out') = Len(out) - 1
      /\ \A i \in 1..Len(out') : out'[i] = out[i + 1]
      /\ Head(out) = out[1]
  BY <1>1, Taken DEF Types
<1>3. current.type = "Command" /\ current.size + 1 \in Nat
  BY Kinds, TransactionAssumption DEF Types
<1>4. Types'
  BY <1>1, <1>2 DEF Types, TypeOK
<1>5. CASE ~busy
  <2>1. Idle'
    BY <1>1, <1>2, <1>5 DEF Phases, Idle
  <2> QED
    BY <1>1, <1>4, <1>5, <2>1 DEF Phases, Ends, AskedAgainEnds, RequestsAreCommands
<1>6. CASE busy
  <2>1. Asked
    BY <1>1, <1>6 DEF Phases, Receiving, Sending, Answering
  <2>2. ~Queued(0)
    BY <1>1, <1>2, <1>3 DEF Queued
  <2>3. Queued(1)
    BY <2>1, <2>2 DEF Asked
  <2>4. /\ out[2] = current
        /\ IF current.op \in DataOut THEN Rest(1 + 1, current.size + 1) ELSE Len(out) = 2
    BY <2>3 DEF Queued
  <2>5. PICK n \in Nat : n = current.size + 1
    BY <1>3
  <2>6. current.op \in DataOut => Rest(1, n)'
    BY <1>1, <2>4, <2>5, RestMoves
  <2>7. Len(out') >= 1
    <3>1. CASE current.op \in DataOut
      <4>1. Trailer \in {0, 1} /\ Len(out) = 1 + 1 + n + Trailer
        BY <2>4, <2>5, <3>1 DEF Rest, Trailer
      <4> QED
        BY <1>2, <2>5, <4>1
    <3>2. CASE current.op \notin DataOut
      BY <1>2, <2>4, <3>2
    <3> QED
      BY <3>1, <3>2
  <2>8. out'[1] = current'
    BY <1>1, <1>2, <2>4, <2>7
  <2>9. Queued(0)'
    <3>1. (current.size + 1)' = n /\ 0 + 1 = 1
      BY <1>1, <2>5
    <3>2. current.op \in DataOut => Rest(0 + 1, current.size + 1)'
      BY <2>6, <3>1
    <3>3. current.op \notin DataOut => Len(out') = 0 + 1
      <4>1. current.op \notin DataOut => Len(out) = 2
        BY <2>4
      <4> QED
        BY <1>2, <4>1
    <3>4. out'[0 + 1] = current'
      BY <2>8, <3>1
    <3>5. current'.op = current.op
      BY <1>1
    <3> QED
      BY <3>2, <3>3, <3>4, <3>5 DEF Queued
  <2>10. Asked'
    BY <1>1, <2>1, <2>9 DEF Asked
  <2> QED
    BY <1>1, <1>4, <1>6, <2>10 DEF Phases, Ends, AskedAgainEnds, RequestsAreCommands
<1> QED
  BY <1>5, <1>6

(* One more transfer of the data is received.                                *)
LEMMA ReceiveDataIInv == IInv /\ ReceiveData => IInv'
<1> SUFFICES ASSUME IInv, ReceiveData PROVE IInv'
  OBVIOUS
<1> USE DEF IInv
<1>1. /\ pc = "receive" /\ left > 0 /\ out # <<>> /\ out' = Tail(out)
      /\ left' = left - 1 /\ stored' = stored + 1
      /\ UNCHANGED <<pc, request, response, listens, current, before, busy, got, unended,
                     posted, zlt>>
  BY DEF ReceiveData
<1>2. busy /\ Receiving
  BY <1>1 DEF Phases, Idle, Asked, Sending, Answering
<1>3. /\ current.size \in 0..MaxPayload /\ MaxPayload \in Nat
      /\ left \in Nat /\ stored \in Nat /\ left + stored = current.size + 1
  BY <1>2, Kinds, TransactionAssumption DEF Types, TypeOK, Receiving
<1>4. out' \in Seq(Packets)
  BY <1>1, Taken DEF Types
<1>5. Types'
  <2>1. left' \in 0..(MaxPayload + 1) /\ stored' \in 0..(MaxPayload + 1)
    BY <1>1, <1>3
  <2> QED
    BY <1>1, <1>4, <2>1 DEF Types, TypeOK
<1>6. Rest(0, left)'
  <2>1. PICK n \in Nat : n = left - 1
    BY <1>1, <1>3
  <2>2. \A i \in 1..n : out[0 + 1 + i] = Data(current.tid)
    <3> SUFFICES ASSUME NEW i \in 1..n PROVE out[0 + 1 + i] = Data(current.tid)
      OBVIOUS
    <3>1. 1 + i \in 1..left /\ 0 + 1 + i = 1 + i /\ 0 + (1 + i) = 1 + i
      BY <1>3, <2>1
    <3> QED
      BY <1>2, <3>1 DEF Receiving, Rest
  <2>3. Rest(0 + 1, n)
    <3>1. 0 + 1 + n = 0 + left /\ 0 + 1 + n + 1 = 0 + left + 1
      BY <1>3, <2>1
    <3> QED
      BY <1>2, <2>2, <3>1 DEF Receiving, Rest
  <2>4. Rest(0, n)'
    BY <1>1, <2>3, RestMoves
  <2> QED
    BY <1>1, <2>1, <2>4 DEF Rest
<1>7. Receiving'
  BY <1>1, <1>2, <1>3, <1>6 DEF Receiving
<1> QED
  BY <1>1, <1>2, <1>5, <1>7 DEF Phases, Ends, AskedAgainEnds, RequestsAreCommands

(* All of the data has been received when the server says so.                *)
LEMMA ReceivedIInv == IInv /\ Received => IInv'
<1> SUFFICES ASSUME IInv, Received PROVE IInv'
  OBVIOUS
<1> USE DEF IInv
<1>1. /\ pc = "receive" /\ left = 0 /\ pc' = "respond" /\ left' = left
      /\ UNCHANGED <<request, stored, listens, current, before, busy, out, got, unended,
                     posted, zlt>>
  BY DEF Received, Respond, host
<1>2. PICK code \in {"OK", "Error"} : response' = Response(code, request.tid)
  BY DEF Received, Respond, Transaction
<1>3. busy /\ Receiving
  BY <1>1 DEF Phases, Idle, Asked, Sending, Answering
<1>4. /\ current.tid \in 0..MaxTransactions /\ request = current /\ code \in Codes
      /\ stored \in Nat
  BY <1>3, Kinds, TransactionAssumption DEF Types, TypeOK, Receiving, Codes
<1>5. Types'
  <2>1. response'.code \in Codes /\ response'.tid \in 0..MaxTransactions
    BY <1>2, <1>4, Kinds
  <2> QED
    BY <1>1, <2>1 DEF Types, TypeOK
<1>6. Answering'
  <2>1. Rest(0, 0)' /\ stored' = current'.size + 1
    <3>1. current.size + 1 \in Nat
      BY Kinds DEF Types
    <3> QED
      BY <1>1, <1>3, <1>4, <3>1 DEF Receiving, Rest, Trailer
  <2>2. current'.op \notin DataIn /\ current'.op # "Query"
    BY <1>1, <1>3 DEF Receiving, DataIn, DataOut
  <2> QED
    BY <1>1, <1>2, <1>3, <1>4, <2>1, <2>2 DEF Answering, Receiving
<1> QED
  BY <1>1, <1>3, <1>5, <1>6 DEF Phases, Ends, AskedAgainEnds, RequestsAreCommands

(* One more transfer of the data is sent.  Only a file's clears zlt.         *)
LEMMA SendDataIInv == IInv /\ SendData => IInv'
<1> SUFFICES ASSUME IInv, SendData PROVE IInv'
  OBVIOUS
<1> USE DEF IInv
<1>1. /\ pc = "send" /\ left > 0 /\ posted = Null /\ posted' = Data(request.tid)
      /\ left' = left - 1
      /\ UNCHANGED <<pc, request, response, stored, listens, current, before, busy, out, got,
                     unended>>
  BY DEF SendData, host
<1>2. busy /\ Sending
  BY <1>1 DEF Phases, Idle, Asked, Receiving, Answering
<1>3. /\ request = current /\ current.tid \in 0..MaxTransactions
      /\ got \in Nat /\ left \in Nat /\ left \in 0..(MaxPayload + 1) /\ MaxPayload \in Nat
      /\ current.size \in 0..MaxPayload
  BY <1>2, Kinds, TransactionAssumption DEF Types, TypeOK, Sending
<1>4. got + left = current.size + 1
  BY <1>1, <1>2, <1>3, Kinds DEF Sending
<1>5. zlt' \in BOOLEAN /\ (current.op # "GetObject" => (zlt => zlt'))
  BY <1>3 DEF SendData
<1>6. Types'
  <2>1. left' \in 0..(MaxPayload + 1)
    BY <1>1, <1>3
  <2> QED
    BY <1>1, <1>5, <2>1 DEF Types, TypeOK
<1>7. Sending'
  BY <1>1, <1>2, <1>3, <1>4 DEF Sending
<1>8. Ends'
  BY <1>1, <1>2, <1>5 DEF Ends, AskedAgainEnds
<1> QED
  BY <1>1, <1>2, <1>6, <1>7, <1>8 DEF Phases, RequestsAreCommands

(* All of the data has been sent; a query's leaves zlt set.                  *)
LEMMA SentIInv == IInv /\ Sent => IInv'
<1> SUFFICES ASSUME IInv, Sent PROVE IInv'
  OBVIOUS
<1> USE DEF IInv
<1>1. /\ pc = "send" /\ left = 0 /\ posted = Null /\ pc' = "respond" /\ left' = left
      /\ response' = Response("OK", request.tid)
      /\ UNCHANGED <<request, stored, listens, current, before, busy, out, got, unended,
                     posted>>
  BY DEF Sent, Respond, Transaction, host
<1>2. busy /\ Sending
  BY <1>1 DEF Phases, Idle, Asked, Receiving, Answering
<1>3. /\ request = current /\ current.tid \in 0..MaxTransactions /\ "OK" \in Codes
      /\ got \in Nat /\ current.size \in Nat /\ current.op \in DataIn
  BY <1>2, Kinds, TransactionAssumption DEF Types, TypeOK, Sending, Codes
<1>4. got = current.size + 1
  BY <1>1, <1>2, <1>3, Kinds DEF Sending
<1>5. zlt' \in BOOLEAN /\ (zlt => zlt') /\ (current.op = "Query" => zlt')
  BY <1>3 DEF Sent, SetLast, Types, TypeOK
<1>6. Types'
  <2>1. response'.code \in Codes /\ response'.tid \in 0..MaxTransactions
    BY <1>1, <1>3, Kinds
  <2> QED
    BY <1>1, <1>5, <2>1 DEF Types, TypeOK
<1>7. Answering'
  <2>1. Rest(0, 0)'
    BY <1>1, <1>2, <1>3 DEF Sending, Rest, Trailer, DataIn
  <2>2. current.op \notin DataOut
    BY <1>3 DEF DataIn, DataOut
  <2> QED
    BY <1>1, <1>2, <1>3, <1>4, <1>5, <2>1, <2>2 DEF Answering, Sending
<1>8. Ends'
  BY <1>1, <1>5 DEF Ends, AskedAgainEnds
<1> QED
  BY <1>1, <1>2, <1>6, <1>7, <1>8 DEF Phases, RequestsAreCommands

(* The response is sent.                                                     *)
LEMMA SendResponseIInv == IInv /\ SendResponse => IInv'
<1> SUFFICES ASSUME IInv, SendResponse PROVE IInv'
  OBVIOUS
<1> USE DEF IInv
<1>1. /\ pc = "respond" /\ pc' = "responding" /\ posted' = response
      /\ UNCHANGED <<request, response, left, stored, listens, current, before, busy, out, got,
                     unended, zlt>>
  BY DEF SendResponse, host
<1>2. busy /\ Answering
  BY <1>1 DEF Phases, Idle, Asked, Receiving, Sending
<1>3. Types'
  BY <1>1 DEF Types, TypeOK
<1>4. Answering'
  BY <1>1, <1>2 DEF Answering, Rest, Trailer
<1> QED
  BY <1>1, <1>2, <1>3, <1>4 DEF Phases, Ends, AskedAgainEnds, RequestsAreCommands

(* The server is ready for the next request when the response is taken.      *)
LEMMA ProcessIInv == IInv /\ Process => IInv'
<1> SUFFICES ASSUME IInv, Process PROVE IInv'
  OBVIOUS
<1> USE DEF IInv
<1>1. /\ pc = "responding" /\ posted = Null /\ pc' = "receive_request"
      /\ UNCHANGED <<request, response, left, stored, listens, current, before, busy, out, got,
                     unended, posted, zlt>>
  BY DEF Process, host
<1>2. ~Answering
  BY <1>1, Kinds DEF Answering, Types
<1>3. Types'
  BY <1>1 DEF Types, TypeOK
<1>4. CASE busy
  <2>1. Asked
    BY <1>1, <1>2, <1>4 DEF Phases, Receiving, Sending
  <2>2. Asked'
    BY <1>1, <2>1 DEF Asked, Queued, Rest, Trailer
  <2> QED
    BY <1>1, <1>3, <1>4, <2>2 DEF Phases, Ends, AskedAgainEnds, RequestsAreCommands
<1>5. CASE ~busy
  <2>1. Idle'
    BY <1>1, <1>5 DEF Phases, Idle
  <2> QED
    BY <1>1, <1>3, <1>5, <2>1 DEF Phases, Ends, AskedAgainEnds, RequestsAreCommands
<1> QED
  BY <1>4, <1>5

(* The invariant is preserved by every step.                                 *)
LEMMA NextIInv == IInv /\ [Next]_vars => IInv'
<1>1. ASSUME IInv, UNCHANGED vars PROVE IInv'
  <2>1. UNCHANGED <<pc, request, response, left, stored, listens, current, before, busy, out,
                    got, unended, posted, zlt>>
    BY <1>1 DEF vars, server, host
  <2> QED
    BY <1>1, <2>1 DEF IInv, Types, TypeOK, RequestsAreCommands, Phases, Idle, Asked, Queued,
       Receiving, Sending, Answering, Rest, Trailer, Ends, AskedAgainEnds
<1> QED
  BY <1>1, StartIInv, TakeDataIInv, TakeResponseIInv, ReceiveRequestIInv, NoRequestIInv,
     ReceiveDataIInv, ReceivedIInv, SendDataIInv, SentIInv, SendResponseIInv, ProcessIInv
     DEF Next, Host, Server

(* The inductive invariant holds in every state of the server and the host.  *)
THEOREM AlwaysIInv == Spec => []IInv
<1>1. Init => IInv
  BY InitIInv
<1>2. IInv /\ [Next]_vars => IInv'
  BY NextIInv
<1> QED
  BY <1>1, <1>2, PTL DEF Spec

-------------------------------------------------------------------------------
(* The variables of the server and of the host always have their types.      *)
THEOREM TypeCorrect == Spec => []TypeOK
<1>1. IInv => TypeOK
  BY DEF IInv, Types
<1> QED
  BY <1>1, AlwaysIInv, PTL

(* The server never takes data for a request.                                *)
THEOREM RequestsAlwaysCommands == Spec => []RequestsAreCommands
<1>1. IInv => RequestsAreCommands
  BY DEF IInv
<1> QED
  BY <1>1, AlwaysIInv, PTL

(* What the host receives is of the transaction it is in.                    *)
THEOREM AlwaysAnsweredInTurn == Spec => []AnsweredInTurn
<1>1. IInv => AnsweredInTurn
  <2> SUFFICES ASSUME IInv, posted # Null PROVE busy /\ posted.tid = current.tid
    BY DEF AnsweredInTurn
  <2>1. busy /\ (Sending \/ Answering)
    BY DEF IInv, Phases, Idle, Asked, Receiving
  <2>2. current.tid \in 0..MaxTransactions
    BY Kinds DEF IInv, Types
  <2>3. CASE Sending
    BY <2>1, <2>2, <2>3, Kinds DEF Sending
  <2>4. CASE Answering
    BY <2>1, <2>2, <2>4, Kinds DEF Answering
  <2> QED
    BY <2>1, <2>3, <2>4
<1> QED
  BY <1>1, AlwaysIInv, PTL

(* A response that says OK comes after all of the data.                      *)
THEOREM OkAlwaysComplete == Spec => []OkIsComplete
<1>1. IInv => OkIsComplete
  <2> SUFFICES ASSUME IInv, posted # Null, posted.type = "Response", posted.code = "OK"
               PROVE  /\ current.op \in DataIn => got = current.size + 1
                      /\ current.op \in DataOut => stored = current.size + 1
    BY DEF OkIsComplete
  <2>1. current.tid \in 0..MaxTransactions
    BY Kinds DEF IInv, Types
  <2>2. Sending \/ Answering
    BY DEF IInv, Phases, Idle, Asked, Receiving
  <2>3. ~Sending
    BY <2>1, Kinds DEF Sending
  <2> QED
    BY <2>1, <2>2, <2>3, Kinds DEF Answering
<1> QED
  BY <1>1, AlwaysIInv, PTL

(* After a query that went well the next one's data has its end.             *)
THEOREM AskedAgainAlwaysEnds == Spec => []AskedAgainEnds
<1>1. IInv => AskedAgainEnds
  BY DEF IInv, Ends
<1> QED
  BY <1>1, AlwaysIInv, PTL
===============================================================================
