--------------------------- MODULE UsbLifecycleProofs ---------------------------
(***************************************************************************)
(* Theorems about UsbLifecycle, for requests of any number of transfers.   *)
(*                                                                         *)
(* The argument: finalize begins only when should_exit is set, which the   *)
(* exit thread does last, so its cancel is over; usbDsExit follows the     *)
(* join of the state thread, so its last look at the device is over; and   *)
(* g_state is not Finalized from usb::initialize to the end of finalize,   *)
(* so that finalize does not return early.                                 *)
(***************************************************************************)
EXTENDS UsbLifecycle, TLAPS

Starting == {"initialize", "start_watcher", "set_initialized", "start_exit"}
Ending == {"finalize", "join_watcher", "usb_exit", "set_finalized", "join_exit", "ended"}
Gone == {"set_finalized", "join_exit", "ended"}

(* Where the threads can be, seen from each other.                           *)
Threads ==
  /\ watcher = "none" =>
       g_state = "Finalized"
       /\ main \notin {"set_initialized", "join_watcher", "usb_exit", "set_finalized"}
  /\ main \in {"initialize", "start_watcher"} => watcher = "none"
  /\ main \in Starting <=> exit = "none"
  /\ should_exit <=> exit = "done"
  /\ main \in Ending => should_exit
  /\ watcher # "none" /\ main \notin {"set_initialized", "join_exit", "ended"} =>
       g_state # "Finalized"
  /\ main \in {"usb_exit"} \cup Gone => watcher \in {"none", "done"}

(* The device is there from usb::initialize to usbDsExit.                    *)
Device ==
  /\ fault => watcher = "none"
  /\ main = "start_watcher" \/ (watcher # "none" /\ main \notin Gone) =>
       session /\ endpoints
  /\ watcher # "none" /\ main \in Gone =>
       ~session /\ xfer = "none" /\ abandoned = {}

(* A transfer that is complete has signalled its endpoint, and so has one    *)
(* before each that was left behind.                                         *)
Waiting ==
  /\ main = "wait" => xfer # "none"
  /\ xfer = "complete" => at \in signalled /\ at \notin abandoned
  /\ abandoned \subseteq signalled

IInv == TypeOK /\ Threads /\ Device /\ Waiting

(* The initial states.                                                       *)
LEMMA InitIInv == Init => IInv
<1> SUFFICES ASSUME Init PROVE IInv
  OBVIOUS
<1> USE LifecycleAssumption DEF Init
<1>1. TypeOK
  <2>1. /\ should_exit \in BOOLEAN /\ g_state_thread_should_exit \in BOOLEAN
        /\ session \in BOOLEAN /\ endpoints \in BOOLEAN
        /\ event \in BOOLEAN /\ fault \in BOOLEAN
    OBVIOUS
  <2>2. /\ left \in 0..MaxTransfers
        /\ signalled \subseteq Endpoints /\ abandoned \subseteq Endpoints
    OBVIOUS
  <2> QED
    BY <2>1, <2>2 DEF TypeOK, UsbState, CableState, Endpoints
<1>2. Threads
  BY DEF Threads, Starting, Ending, Gone
<1>3. Device
  BY DEF Device, Gone
<1>4. Waiting
  BY DEF Waiting
<1> QED
  BY <1>1, <1>2, <1>3, <1>4 DEF IInv

(* What completes signals its endpoint.                                      *)
LEMMA CompleteAllWaiting ==
  ASSUME TypeOK, Waiting, CompleteAll
  PROVE  /\ signalled' \subseteq Endpoints /\ abandoned' = {} /\ at' = at
         /\ xfer' \in {"none", "posted", "complete"}
         /\ xfer = "none" <=> xfer' = "none"
         /\ xfer' = "complete" => at' \in signalled'
<1>1. CASE xfer = "posted"
  <2>1. at \in Pending
    BY <1>1 DEF Pending
  <2> QED
    BY <1>1, <2>1 DEF CompleteAll, Pending, TypeOK
<1>2. CASE xfer # "posted"
  BY <1>2 DEF CompleteAll, Pending, TypeOK, Waiting
<1> QED
  BY <1>1, <1>2

(* The steps of main.                                                        *)
LEMMA MainIInv == IInv /\ Main => IInv'
<1> SUFFICES ASSUME IInv, Main PROVE IInv'
  OBVIOUS
<1> USE LifecycleAssumption
    DEF IInv, TypeOK, Threads, Device, Waiting, Starting, Ending, Gone,
        UsbState, CableState, Endpoints, flags, usb, transfers
<1>1. CASE Initialize
  <2>1. TypeOK'
    <3>1. session' \in BOOLEAN /\ endpoints' \in BOOLEAN
      <4>1. CASE session' = TRUE /\ endpoints' = TRUE
        BY <4>1
      <4>2. ASSUME NEW there \in {<<FALSE, FALSE>>, <<TRUE, TRUE>>, <<TRUE, FALSE>>},
                   session' = there[1], endpoints' = there[2]
            PROVE  session' \in BOOLEAN /\ endpoints' \in BOOLEAN
        <5>1. CASE there = <<FALSE, FALSE>>
          BY <4>2, <5>1
        <5>2. CASE there = <<TRUE, TRUE>>
          BY <4>2, <5>2
        <5>3. CASE there = <<TRUE, FALSE>>
          BY <4>2, <5>3
        <5> QED
          BY <5>1, <5>2, <5>3
      <4> QED
        BY <1>1, <4>1, <4>2 DEF Initialize, InitUsbFailed, InitMtpInterfaceFailed
    <3>2. main' \in {"start_watcher", "start_exit"}
      BY <1>1 DEF Initialize
    <3>3. UNCHANGED <<exit, watcher, g_state, state, flags, left, transfers, cable, event, fault>>
      BY <1>1 DEF Initialize
    <3> QED
      BY <3>1, <3>2, <3>3
  <2>2. Threads'
    BY <1>1 DEF Initialize, Main, InitUsbFailed, InitMtpInterfaceFailed
  <2>3. Device'
    BY <1>1 DEF Initialize, Main, InitUsbFailed, InitMtpInterfaceFailed
  <2>4. Waiting'
    BY <1>1 DEF Initialize, Main, InitUsbFailed, InitMtpInterfaceFailed
  <2> QED
    BY <2>1, <2>2, <2>3, <2>4
<1>2. CASE StartWatcher
  BY <1>2 DEF StartWatcher, Main
<1>3. CASE SetInitialized
  BY <1>3 DEF SetInitialized, Main
<1>4. CASE StartExitThread
  BY <1>4 DEF StartExitThread, Main
<1>5. CASE CheckExit
  BY <1>5 DEF CheckExit, Main
<1>6. CASE WaitReady
  BY <1>6 DEF WaitReady, Main, Connected
<1>7. CASE BeginXfer
  <2>1. /\ main = "begin" /\ main' \in {"begin", "post", "loop"} /\ ~fault
        /\ left' \in 0..MaxTransfers
        /\ UNCHANGED <<exit, watcher, g_state, state, flags, usb, fault>>
    BY <1>7 DEF BeginXfer, Main, GoOn
  <2>2. TypeOK'
    BY <2>1
  <2>3. Threads' /\ Device' /\ Waiting'
    BY <2>1
  <2> QED
    BY <2>2, <2>3
<1>8. CASE Post
  BY <1>8 DEF Post, Main
<1>9. CASE WaitXfer
  <2>1. TypeOK'
    <3>1. left' \in 0..MaxTransfers /\ main' \in {"begin", "loop"}
      BY <1>9 DEF WaitXfer, GoOn
    <3>2. signalled' \subseteq Endpoints /\ abandoned' \subseteq Endpoints
      BY <1>9 DEF WaitXfer
    <3>3. /\ xfer' = "none"
          /\ UNCHANGED <<exit, watcher, g_state, state, flags,
                         session, endpoints, at, cable, event, fault>>
      BY <1>9 DEF WaitXfer
    <3> QED
      BY <3>1, <3>2, <3>3
  <2>2. Threads'
    BY <1>9 DEF WaitXfer, Main, GoOn, OwnReport
  <2>3. Device'
    BY <1>9 DEF WaitXfer, Main, GoOn, OwnReport
  <2>4. Waiting'
    BY <1>9 DEF WaitXfer, Main, GoOn, OwnReport
  <2> QED
    BY <2>1, <2>2, <2>3, <2>4
<1>10. CASE Finalize
  <2>1. TypeOK'
    <3>1. g_state_thread_should_exit' \in BOOLEAN
      BY <1>10 DEF Finalize, StateThreadTold
    <3>2. /\ main' \in {"join_exit", "join_watcher"}
          /\ UNCHANGED <<exit, watcher, g_state, state, should_exit, left, usb, fault>>
      BY <1>10 DEF Finalize
    <3> QED
      BY <3>1, <3>2
  <2>2. Threads'
    BY <1>10 DEF Finalize, Main, StateThreadTold
  <2>3. Device'
    BY <1>10 DEF Finalize, Main, StateThreadTold
  <2>4. Waiting'
    BY <1>10 DEF Finalize, Main, StateThreadTold
  <2> QED
    BY <2>1, <2>2, <2>3, <2>4
<1>11. CASE JoinWatcher
  <2>1. TypeOK'
    BY <1>11 DEF JoinWatcher, Main, StateThreadJoined, Cancel, CompleteAll, Pending
  <2>2. Threads'
    BY <1>11 DEF JoinWatcher, Main, StateThreadJoined, Cancel
  <2>3. Device'
    BY <1>11 DEF JoinWatcher, Main, StateThreadJoined, Cancel
  <2>4. Waiting'
    BY <1>11 DEF JoinWatcher, Main, StateThreadJoined, Cancel, CompleteAll, Pending
  <2> QED
    BY <2>1, <2>2, <2>3, <2>4
<1>12. CASE UsbExit
  BY <1>12 DEF UsbExit, Main
<1>13. CASE SetFinalized
  BY <1>13 DEF SetFinalized, Main
<1>14. CASE JoinExit
  BY <1>14 DEF JoinExit, Main
<1> QED
  BY <1>1, <1>2, <1>3, <1>4, <1>5, <1>6, <1>7, <1>8, <1>9, <1>10, <1>11, <1>12,
     <1>13, <1>14 DEF Main

(* The exit thread, whose cancel comes before the flag that finalize waits   *)
(* for.                                                                      *)
LEMMA ExitIInv == IInv /\ (Press \/ ExitThread) => IInv'
<1> SUFFICES ASSUME IInv, Press \/ ExitThread PROVE IInv'
  OBVIOUS
<1> USE DEF IInv, TypeOK, Threads, Device, Waiting, Starting, Ending, Gone,
        UsbState, CableState, Endpoints, flags, usb, transfers
<1>1. CASE Press
  BY <1>1 DEF Press
<1>2. CASE exit = "first" /\ ExitThread
  <2>1. ExitDoes("cancel") /\ exit' = "second" /\ ~fault
        /\ UNCHANGED <<main, watcher, g_state, state, g_state_thread_should_exit, left>>
    BY <1>2 DEF ExitThread, ExitOrder
  <2>2. UNCHANGED <<should_exit, session, endpoints, cable, event>>
    BY <2>1 DEF ExitDoes
  <2>3. Cancel
    BY <2>1 DEF ExitDoes
  <2>4. TypeOK'
    <3>1. fault' \in BOOLEAN
      BY <2>1, <2>3 DEF Cancel
    <3>2. /\ signalled' \subseteq Endpoints /\ abandoned' \subseteq Endpoints
          /\ xfer' \in {"none", "posted", "complete"} /\ at' = at
      BY <2>3, CompleteAllWaiting DEF Cancel
    <3> QED
      BY <2>1, <2>2, <3>1, <3>2
  <2>5. Threads'
    BY <1>2, <2>1, <2>2
  <2>6. Device'
    BY <1>2, <2>1, <2>2, <2>3, CompleteAllWaiting DEF Cancel
  <2>7. Waiting'
    <3>1. CASE CompleteAll
      BY <2>1, <3>1, CompleteAllWaiting
    <3>2. CASE UNCHANGED transfers
      BY <2>1, <3>2
    <3> QED
      BY <2>3, <3>1, <3>2 DEF Cancel
  <2> QED
    BY <2>4, <2>5, <2>6, <2>7
<1>3. CASE exit = "second" /\ ExitThread
  <2>1. ExitDoes("flag") /\ exit' = "done" /\ ~fault
        /\ UNCHANGED <<main, watcher, g_state, state, g_state_thread_should_exit, left>>
    BY <1>3 DEF ExitThread, ExitOrder
  <2>2. should_exit' = TRUE /\ UNCHANGED <<usb, fault>>
    BY <2>1 DEF ExitDoes
  <2>3. TypeOK'
    <3>1. should_exit' \in BOOLEAN
      BY <2>2
    <3> QED
      BY <2>1, <2>2, <3>1
  <2>4. Threads'
    BY <1>3, <2>1, <2>2
  <2>5. Device' /\ Waiting'
    BY <1>3, <2>1, <2>2
  <2> QED
    BY <2>3, <2>4, <2>5
<1> QED
  BY <1>1, <1>2, <1>3 DEF ExitThread

(* The state thread, which looks at the device only before it is joined.     *)
LEMMA WatcherIInv == IInv /\ StateThread => IInv'
<1> SUFFICES ASSUME IInv, StateThread PROVE IInv'
  OBVIOUS
<1> USE DEF IInv, TypeOK, Threads, Device, Waiting, Starting, Ending, Gone,
        UsbState, CableState, Endpoints, flags, transfers
<1>1. CASE CheckThreadExit
  BY <1>1 DEF StateThread, CheckThreadExit
<1>2. CASE GetState
  <2>1. TypeOK'
    <3>1. fault' \in BOOLEAN
      BY <1>2 DEF GetState
    <3>2. state' \in CableState /\ watcher' \in {"set", "clear"}
      BY <1>2 DEF GetState
    <3> QED
      BY <1>2, <3>1, <3>2 DEF StateThread, GetState
  <2>2. Threads'
    BY <1>2 DEF StateThread, GetState
  <2>3. Device'
    <3>1. session
      BY <1>2 DEF GetState
    <3> QED
      BY <1>2, <3>1 DEF StateThread, GetState
  <2>4. Waiting'
    BY <1>2 DEF StateThread, GetState
  <2> QED
    BY <2>1, <2>2, <2>3, <2>4
<1>3. CASE SetState
  BY <1>3 DEF StateThread, SetState, StateOf
<1>4. CASE ClearEvent
  <2>1. event' \in BOOLEAN
    BY <1>4 DEF ClearEvent
  <2> QED
    BY <1>4, <2>1 DEF StateThread, ClearEvent
<1> QED
  BY <1>1, <1>2, <1>3, <1>4 DEF StateThread

(* The cable and the host.                                                   *)
LEMMA DeviceIInv == IInv /\ (HostTransfer \/ \E s \in CableState : CableTo(s)) => IInv'
<1> USE DEF IInv, TypeOK, Threads, Device, Waiting, Starting, Ending, Gone,
        UsbState, CableState, Endpoints, flags, transfers
<1>1. ASSUME IInv, HostTransfer PROVE IInv'
  <2>1. UNCHANGED <<main, exit, watcher, g_state, state, flags, left,
                    session, endpoints, at, cable, event, fault>>
    BY <1>1 DEF HostTransfer
  <2>2. /\ xfer' \in {xfer, "complete"} /\ (xfer = "none" <=> xfer' = "none")
        /\ signalled' \subseteq Endpoints /\ abandoned' \subseteq abandoned
        /\ watcher # "none" => main \notin Gone
    BY <1>1 DEF HostTransfer
  <2>3. TypeOK'
    BY <1>1, <2>1, <2>2
  <2>4. Threads' /\ Device'
    BY <1>1, <2>1, <2>2
  <2>5. Waiting'
    BY <1>1 DEF HostTransfer
  <2> QED
    BY <2>3, <2>4, <2>5
<1>2. ASSUME IInv, NEW s \in CableState, CableTo(s) PROVE IInv'
  <2>1. /\ UNCHANGED <<main, exit, watcher, g_state, state, flags, left, session, endpoints, fault>>
        /\ cable' = s /\ session
    BY <1>2 DEF CableTo
  <2>2. /\ xfer' \in {"none", "posted", "complete"} /\ (xfer = "none" <=> xfer' = "none")
        /\ signalled' \subseteq Endpoints /\ abandoned' \subseteq abandoned /\ at' = at
    BY <1>2, CompleteAllWaiting DEF CableTo
  <2>3. TypeOK'
    <3>1. event' \in BOOLEAN
      BY <1>2 DEF CableTo
    <3> QED
      BY <1>2, <2>1, <2>2, <3>1
  <2>4. Threads' /\ Device'
    BY <1>2, <2>1, <2>2
  <2>5. Waiting'
    <3>1. CASE CompleteAll
      BY <1>2, <2>1, <3>1, CompleteAllWaiting
    <3>2. CASE UNCHANGED transfers
      BY <1>2, <2>1, <3>2
    <3> QED
      BY <1>2, <3>1, <3>2 DEF CableTo
  <2> QED
    BY <2>3, <2>4, <2>5
<1> QED
  BY <1>1, <1>2

(* A step that changes nothing.                                              *)
LEMMA StutterIInv == IInv /\ UNCHANGED vars => IInv'
  BY DEF IInv, TypeOK, Threads, Device, Waiting, vars, flags, usb, transfers

(* The invariant is preserved by every step.                                 *)
LEMMA NextIInv == IInv /\ [Next]_vars => IInv'
  BY MainIInv, ExitIInv, WatcherIInv, DeviceIInv, StutterIInv DEF Next

(* The inductive invariant holds in every state the three threads reach.     *)
THEOREM AlwaysIInv == Spec => []IInv
<1>1. Init => IInv
  BY InitIInv
<1>2. IInv /\ [Next]_vars => IInv'
  BY NextIInv
<1> QED
  BY <1>1, <1>2, PTL DEF Spec

-------------------------------------------------------------------------------
(* The variables of the three threads and the device always have their       *)
(* types.                                                                    *)
THEOREM TypeCorrect == Spec => []TypeOK
<1>1. IInv => TypeOK
  BY DEF IInv
<1> QED
  BY <1>1, AlwaysIInv, PTL

(* No thread uses the device before it is there or after it is gone.         *)
THEOREM DeviceAlwaysThere == Spec => []DeviceThereWhenUsed
<1>1. IInv => DeviceThereWhenUsed
  BY DEF IInv, Device, DeviceThereWhenUsed, Initialized
<1> QED
  BY <1>1, AlwaysIInv, PTL

(* When main returns both threads have ended and the device is closed.       *)
THEOREM AlwaysEndsClean == Spec => []EndsClean
<1>1. IInv => EndsClean
  BY DEF IInv, Threads, Device, EndsClean, Initialized, Ending, Gone
<1> QED
  BY <1>1, AlwaysIInv, PTL

(* Main blocks only on a transfer that is posted and next in line.           *)
THEOREM AlwaysBlockedOnItsOwn == Spec => []BlockedOnItsOwn
<1>1. IInv => BlockedOnItsOwn
  BY DEF IInv, TypeOK, Waiting, BlockedOnItsOwn
<1> QED
  BY <1>1, AlwaysIInv, PTL

(* Nobody changes g_state once the device is gone.                           *)
THEOREM AlwaysFinalizedIsFinal == Spec => FinalizedIsFinal
<1>1. IInv /\ [Next]_vars => [main \notin {"join_exit", "ended"}]_g_state
  <2> SUFFICES ASSUME IInv, Next, main \in {"join_exit", "ended"}
               PROVE  UNCHANGED g_state
    BY DEF vars
  <2>1. CASE Main
    BY <2>1 DEF Main, Initialize, StartWatcher, SetInitialized, StartExitThread,
               CheckExit, WaitReady, BeginXfer, GoOn, Post, WaitXfer, Finalize, JoinWatcher,
               UsbExit, SetFinalized, JoinExit
  <2>2. CASE Press \/ ExitThread
    BY <2>2 DEF Press, ExitThread
  <2>3. CASE StateThread
    <3>1. watcher \in {"none", "done"}
      BY DEF IInv, Threads, Gone
    <3> QED
      BY <2>3, <3>1 DEF StateThread, CheckThreadExit, GetState, SetState, ClearEvent
  <2>4. CASE HostTransfer \/ \E s \in CableState : CableTo(s)
    BY <2>4 DEF HostTransfer, CableTo
  <2> QED
    BY <2>1, <2>2, <2>3, <2>4 DEF Next
<1> QED
  BY <1>1, AlwaysIInv, PTL DEF Spec, FinalizedIsFinal
===============================================================================
