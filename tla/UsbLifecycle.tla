----------------------------- MODULE UsbLifecycle -----------------------------
(***************************************************************************)
(* The three threads of the program and the USB device they share:         *)
(*   - main, which initialises the device, serves requests until told to   *)
(*     stop, and finalises the device (main.cpp, usb.cpp);                 *)
(*   - the exit thread, which waits for the + button;                      *)
(*   - the state thread, which turns the system's notifications into       *)
(*     g_state.                                                            *)
(* The environment is the cable, with the host at its other end.           *)
(*                                                                         *)
(* A request is a bounded number of transfers, one at a time; what they    *)
(* carry is the matter of the other modules.                               *)
(***************************************************************************)
EXTENDS Naturals

CONSTANT
  MaxTransfers   (* bound: transfers in a request after its first           *)

ASSUME LifecycleAssumption == MaxTransfers \in Nat

VARIABLES
  main,          (* where main is                                           *)
  exit,          (* where exit_thread_func is                               *)
  watcher,       (* where state_change_func is                              *)
  g_state,       (* UsbState                                                *)
  state,         (* the local of state_change_func                          *)
  should_exit,   (* main's flag, which exit_thread_func points to           *)
  g_state_thread_should_exit,
  left,          (* transfers the request at hand still needs               *)
  session,       (* usbDsInitialize has been called, usbDsExit has not      *)
  endpoints,     (* g_endpoint_in and g_endpoint_out have been registered   *)
  at,            (* the endpoint main uses                                  *)
  xfer,          (* the transfer it has posted there                        *)
  signalled,     (* endpoints whose completion event is signalled           *)
  abandoned,     (* endpoints with transfers that main no longer waits for  *)
  cable,         (* what usbDsGetState returns                              *)
  event,         (* the state change event is signalled                     *)
  fault          (* a thread has used an endpoint or a session that is not  *)
                 (* there, and the program has stopped                      *)

flags == <<should_exit, g_state_thread_should_exit>>
transfers == <<at, xfer, signalled, abandoned>>
usb == <<session, endpoints, transfers, cable, event>>
vars == <<main, exit, watcher, g_state, state, flags, left, usb, fault>>

UsbState == {"Finalized", "Initialized", "Busy", "Ready"}
CableState == {"Detached", "Configured", "Suspended"}
Endpoints == {"in", "out"}

Init ==
  /\ main = "initialize" /\ exit = "none" /\ watcher = "none"
  /\ g_state = "Finalized" /\ state = "Detached"
  /\ should_exit = FALSE /\ g_state_thread_should_exit = FALSE
  /\ left = 0
  /\ session = FALSE /\ endpoints = FALSE
  /\ at = "out" /\ xfer = "none" /\ signalled = {} /\ abandoned = {}
  /\ cable = "Detached" /\ event = FALSE
  /\ fault = FALSE

-------------------------------------------------------------------------------
(* check_state                                                               *)
Connected == g_state \in {"Initialized", "Ready"}

(* What is posted completes, which signals the event of its endpoint.        *)
Pending == abandoned \cup (IF xfer = "posted" THEN {at} ELSE {})
CompleteAll ==
  /\ xfer' = IF xfer = "posted" THEN "complete" ELSE xfer
  /\ signalled' = signalled \cup Pending
  /\ abandoned' = {}
  /\ UNCHANGED at

(* cancel                                                                    *)
Cancel ==
  IF session /\ endpoints
    THEN CompleteAll /\ UNCHANGED fault
    ELSE fault' = TRUE /\ UNCHANGED transfers

(* The condition of finalize's join, and the flag that lets it happen.       *)
Unjoined == TRUE
StateThreadJoined == watcher = "done"
Forgotten == FALSE
StateThreadTold == TRUE

-------------------------------------------------------------------------------
(* main                                                                      *)

(* What is there after a failure, as <<session, endpoints>>: of a call of    *)
(* init_usb, which describes the device, or of init_mtp_interface, which     *)
(* registers the endpoints last but for the interrupt endpoint.              *)
InitUsbFailed == {<<TRUE, FALSE>>}
InitMtpInterfaceFailed == {<<TRUE, FALSE>>, <<TRUE, TRUE>>}

(* usb::initialize up to usbDsEnable.  A failure is logged, and undoes       *)
(* nothing.                                                                  *)
Initialize ==
  /\ main = "initialize"
  /\ \/ /\ session' = TRUE /\ endpoints' = TRUE
        /\ main' = "start_watcher"
     \/ /\ \E there \in {<<FALSE, FALSE>>, <<TRUE, TRUE>>}
                        \cup InitUsbFailed \cup InitMtpInterfaceFailed :
             session' = there[1] /\ endpoints' = there[2]
        /\ main' = "start_exit"
  /\ UNCHANGED <<exit, watcher, g_state, state, flags, left, transfers, cable, event, fault>>

(* g_state_thread = std::thread(state_change_func)                           *)
StartWatcher ==
  /\ main = "start_watcher"
  /\ watcher' = "check"
  /\ main' = "set_initialized"
  /\ UNCHANGED <<exit, g_state, state, flags, left, usb, fault>>

(* The state thread is already running and may have set g_state itself.      *)
SetInitialized ==
  /\ main = "set_initialized"
  /\ g_state' = "Initialized"
  /\ main' = "start_exit"
  /\ UNCHANGED <<exit, watcher, state, flags, left, usb, fault>>

StartExitThread ==
  /\ main = "start_exit"
  /\ exit' = "polling"
  /\ main' = "loop"
  /\ UNCHANGED <<watcher, g_state, state, flags, left, usb, fault>>

(* while (!should_exit)                                                      *)
CheckExit ==
  /\ main = "loop"
  /\ main' = IF should_exit THEN "finalize" ELSE "wait_ready"
  /\ UNCHANGED <<exit, watcher, g_state, state, flags, left, usb, fault>>

(* wait_ready: connected at one of its polls, or not within the timeout.     *)
WaitReady ==
  /\ main = "wait_ready"
  /\ main' = IF Connected THEN "begin" ELSE "loop"
  /\ left' = MaxTransfers
  /\ UNCHANGED <<exit, watcher, g_state, state, flags, usb, fault>>

(* Server::process goes on with the request, if only to say that it failed,  *)
(* or returns.                                                               *)
GoOn ==
  \/ left > 0 /\ left' = left - 1 /\ main' = "begin"
  \/ UNCHANGED left /\ main' = "loop"

(* begin_xfer: looks at g_state, then posts, which the device may refuse.    *)
(* Without a request process returns; later it still has its response to     *)
(* send.                                                                     *)
BeginXfer ==
  /\ main = "begin"
  /\ \/ Connected /\ main' = "post" /\ UNCHANGED left
     \/ left = MaxTransfers /\ main' = "loop" /\ UNCHANGED left
     \/ left < MaxTransfers /\ GoOn
  /\ UNCHANGED <<exit, watcher, g_state, state, flags, usb, fault>>

(* A request is received first.                                              *)
Post ==
  /\ main = "post"
  /\ at' \in IF left = MaxTransfers THEN {"out"} ELSE Endpoints
  /\ xfer' = "posted"
  /\ main' = "wait"
  /\ UNCHANGED <<exit, watcher, g_state, state, flags, left, session, endpoints,
                 signalled, abandoned, cable, event, fault>>

(* wait_xfer, with no timeout: the event is signalled, by this transfer or   *)
(* by one whose report could not be read.  It is only cleared when there is  *)
(* a report and it says that this transfer is complete.                      *)
AnyReport == TRUE
OwnReport == xfer = "complete"

WaitXfer ==
  /\ main = "wait" /\ at \in signalled
  /\ \/ OwnReport /\ signalled' = signalled \ {at}
     \/ UNCHANGED signalled
  /\ xfer' = "none"
  /\ abandoned' = IF xfer = "posted" THEN abandoned \cup {at} ELSE abandoned
  /\ GoOn
  /\ UNCHANGED <<exit, watcher, g_state, state, flags,
                 session, endpoints, at, cable, event, fault>>

(* finalize, up to the join of the state thread.                             *)
Finalize ==
  /\ main = "finalize"
  /\ IF g_state = "Finalized"
       THEN main' = "join_exit" /\ UNCHANGED g_state_thread_should_exit
       ELSE main' = "join_watcher" /\ g_state_thread_should_exit' = StateThreadTold
  /\ UNCHANGED <<exit, watcher, g_state, state, should_exit, left, usb, fault>>

JoinWatcher ==
  /\ main = "join_watcher" /\ StateThreadJoined
  /\ Cancel
  /\ main' = "usb_exit"
  /\ UNCHANGED <<exit, watcher, g_state, state, flags, left,
                 session, endpoints, cable, event>>

(* usbDsExit()                                                               *)
UsbExit ==
  /\ main = "usb_exit"
  /\ session' = FALSE
  /\ xfer' = "none" /\ signalled' = {} /\ abandoned' = {}
  /\ main' = "set_finalized"
  /\ UNCHANGED <<exit, watcher, g_state, state, flags, left, endpoints, at, cable, event,
                 fault>>

SetFinalized ==
  /\ main = "set_finalized"
  /\ g_state' = "Finalized"
  /\ main' = "join_exit"
  /\ UNCHANGED <<exit, watcher, state, flags, left, usb, fault>>

JoinExit ==
  /\ main = "join_exit" /\ exit = "done"
  /\ main' = "ended"
  /\ UNCHANGED <<exit, watcher, g_state, state, flags, left, usb, fault>>

Main ==
  /\ ~fault
  /\ \/ Initialize \/ StartWatcher \/ SetInitialized \/ StartExitThread
     \/ CheckExit \/ WaitReady \/ BeginXfer \/ Post \/ WaitXfer
     \/ Finalize \/ JoinWatcher \/ UsbExit \/ SetFinalized \/ JoinExit

-------------------------------------------------------------------------------
(* exit_thread_func                                                          *)

(* + is pressed, or appletMainLoop returns false.                            *)
Press ==
  /\ ~fault /\ exit = "polling"
  /\ exit' = "first"
  /\ UNCHANGED <<main, watcher, g_state, state, flags, left, usb, fault>>

(* cancel() comes first, the flag second.                                    *)
FlagFirst == <<"flag", "cancel">>
ExitOrder == <<"cancel", "flag">>

ExitDoes(what) ==
  \/ /\ what = "cancel"
     /\ Cancel
     /\ UNCHANGED <<should_exit, session, endpoints, cable, event>>
  \/ /\ what = "flag"
     /\ should_exit' = TRUE
     /\ UNCHANGED <<usb, fault>>

ExitThread ==
  /\ ~fault
  /\ \/ exit = "first" /\ ExitDoes(ExitOrder[1]) /\ exit' = "second"
     \/ exit = "second" /\ ExitDoes(ExitOrder[2]) /\ exit' = "done"
  /\ UNCHANGED <<main, watcher, g_state, state, g_state_thread_should_exit, left>>

-------------------------------------------------------------------------------
(* state_change_func                                                         *)

CheckThreadExit ==
  /\ watcher = "check"
  /\ watcher' = IF g_state_thread_should_exit THEN "done" ELSE "wait"
  /\ UNCHANGED <<g_state, state, event, fault>>

(* The system's state as the program's; the two types are not the same.      *)
RawState(s) == s
StateOf(s) == IF s = "Configured" THEN "Ready" ELSE "Busy"

(* eventWait with no timeout, and usbDsGetState if the event is signalled.   *)
GetState ==
  /\ watcher = "wait"
  /\ fault' = ~session
  /\ state' = IF event THEN cable ELSE state
  /\ watcher' = IF event THEN "set" ELSE "clear"
  /\ UNCHANGED <<g_state, event>>

SetState ==
  /\ watcher = "set"
  /\ g_state' = StateOf(state)
  /\ watcher' = "clear"
  /\ UNCHANGED <<state, event, fault>>

(* eventClear, whether or not the event was signalled when it was looked at. *)
ClearEvent ==
  /\ watcher = "clear"
  /\ event' = FALSE
  /\ watcher' = "check"
  /\ UNCHANGED <<g_state, state, fault>>

StateThread ==
  /\ ~fault
  /\ CheckThreadExit \/ GetState \/ SetState \/ ClearEvent
  /\ UNCHANGED <<main, exit, flags, left, session, endpoints, transfers, cable>>

-------------------------------------------------------------------------------
(* The cable and the host: what the device reports to the program.           *)

(* A transfer does not outlive the connection it was posted on.              *)
CableTo(s) ==
  /\ ~fault /\ session /\ endpoints
  /\ cable' = s /\ s # cable
  /\ event' = TRUE
  /\ IF cable = "Configured" THEN CompleteAll ELSE UNCHANGED transfers
  /\ UNCHANGED <<main, exit, watcher, g_state, state, flags, left, session, endpoints, fault>>

(* The transfers of an endpoint are done in the order they were posted.      *)
HostTransfer ==
  /\ ~fault /\ cable = "Configured"
  /\ \/ /\ xfer = "posted" /\ at \notin abandoned
        /\ xfer' = "complete" /\ signalled' = signalled \cup {at}
        /\ UNCHANGED abandoned
     \/ \E e \in abandoned :
          /\ signalled' = signalled \cup {e} /\ abandoned' = abandoned \ {e}
          /\ UNCHANGED xfer
  /\ UNCHANGED <<main, exit, watcher, g_state, state, flags, left,
                 session, endpoints, at, cable, event, fault>>

(* What a host that uses the device does about a transfer that is waiting.   *)
Serve == HostTransfer \/ (xfer = "posted" /\ CableTo("Configured"))

Next ==
  \/ Main \/ Press \/ ExitThread \/ StateThread
  \/ HostTransfer \/ \E s \in CableState : CableTo(s)

(* The threads are scheduled; nobody has to press + or touch the cable.      *)
Spec ==
  /\ Init /\ [][Next]_vars
  /\ WF_vars(Main) /\ WF_vars(ExitThread) /\ WF_vars(StateThread)

(* ... with a host that uses the device.                                     *)
ServedSpec == Spec /\ WF_vars(Serve)

-------------------------------------------------------------------------------
(* Properties.                                                               *)

(* The variables of the three threads and the device have their types.       *)
TypeOK ==
  /\ main \in {"initialize", "start_watcher", "set_initialized", "start_exit", "loop",
              "wait_ready", "begin", "post", "wait", "finalize", "join_watcher",
              "usb_exit", "set_finalized", "join_exit", "ended"}
  /\ g_state \in UsbState /\ state \in CableState
  /\ exit \in {"none", "polling", "first", "second", "done"}
  /\ watcher \in {"none", "check", "wait", "set", "clear", "done"}
  /\ should_exit \in BOOLEAN /\ g_state_thread_should_exit \in BOOLEAN
  /\ left \in 0..MaxTransfers
  /\ at \in Endpoints /\ xfer \in {"none", "posted", "complete"}
  /\ signalled \subseteq Endpoints /\ abandoned \subseteq Endpoints
  /\ cable \in CableState
  /\ session \in BOOLEAN /\ endpoints \in BOOLEAN
  /\ event \in BOOLEAN /\ fault \in BOOLEAN

(* usb::initialize has succeeded.                                            *)
Initialized == watcher # "none"

(* Once initialised, the device is there for every thread that uses it: the  *)
(* exit thread's cancel comes before usbDsExit, and so does the last         *)
(* usbDsGetState of the state thread.                                        *)
DeviceThereWhenUsed == Initialized => ~fault

(* finalize has the last word on g_state: no thread that saw the device      *)
(* connected reports so after the device is gone.                            *)
FinalizedIsFinal ==
  [][main \notin {"join_exit", "ended"}]_g_state

(* main returns, and with it should_exit goes out of scope, only when both   *)
(* threads have ended, the session is closed and no transfer is posted.      *)
EndsClean ==
  main = "ended" /\ Initialized =>
    exit = "done" /\ watcher = "done" /\ ~session /\ xfer = "none" /\ abandoned = {}

(* Where main blocks, the transfer it waits for is posted and is the next    *)
(* the host does on its endpoint, however many waits before have failed and  *)
(* left their transfers behind.                                              *)
BlockedOnItsOwn ==
  main = "wait" /\ at \notin signalled => xfer = "posted" /\ at \notin abandoned

(* "Press + to exit": once + is pressed the program comes to its end, if it  *)
(* could initialise the device.                                              *)
PressToExit ==
  (Initialized /\ exit \notin {"none", "polling"}) ~> (main = "ended")

(* "Wait for usb connection": a host that stays connected is seen to be.     *)
ConnectionIsSeen ==
  <>[](cable = "Configured" /\ watcher \notin {"none", "done"}) => []<>Connected
===============================================================================
