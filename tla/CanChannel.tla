------------------------------ MODULE CanChannel ------------------------------
(***************************************************************************)
(* The client's CAN channel: Can_worker and Can_InterFace in the CAN       *)
(* thread, the button and the label in the GUI thread.  Can_InterFace      *)
(* repairs a device after an error by itself, from a timer; Can_worker     *)
(* takes the signals away before it initialises and connects them again    *)
(* only if that succeeds.  So there are three views of "working": the      *)
(* device, the signals and the label.                                      *)
(*                                                                         *)
(* Requests are single frames (module IsoTp has the others).  The adapter, *)
(* the bus and the server are external: a request on the bus is answered   *)
(* in its turn, or the answer is lost.  Nothing is sent before the first   *)
(* init: m_interface is null then and the program would crash.             *)
(***************************************************************************)
EXTENDS Integers, SequencesExt

CONSTANTS
  MaxRequests,  \* bound: requests posted
  MaxInits,     \* bound: presses of the CAN button
  MaxFaults     \* bound: device errors and unplugged adapters

ASSUME ChannelAssumption ==
  MaxRequests \in Nat /\ MaxInits \in Nat /\ MaxFaults \in Nat

VARIABLES
  adapter,         \* the adapter is plugged in
  device,          \* m_device: "none", "failed" or "up" (it works)
  reconnectTimer,  \* m_reconnectTimer is active
  hears,           \* the signals of Can_InterFace are connected to Can_worker
  label,           \* label_CanStatus
  calls,           \* init and requests posted to the CAN thread
  bus,             \* requests on the bus that are not answered
  requests, inits, faults

channel_vars == <<adapter, device, reconnectTimer, hears, label, calls, bus,
                  requests, inits, faults>>

Init ==
  /\ adapter \in BOOLEAN
  /\ device = "none" /\ reconnectTimer = FALSE
  /\ hears = FALSE /\ label = "none"
  /\ calls = <<>> /\ bus = <<>>
  /\ requests = 0 /\ inits = 0 /\ faults = 0
-----------------------------------------------------------------------------
Works == device = "up"

(* Can_InterFace::init: a new device.  If it does not open, it raises      *)
(* errorOccurred, which starts the reconnect timer.                        *)
InitDevice ==
  /\ device' = IF adapter THEN "up" ELSE "failed"
  /\ reconnectTimer' = ~adapter

(* on_btn_ConnectCan_clicked: the GUI waits (BlockingQueuedConnection)     *)
(* until the CAN thread comes to it, after what is posted already.         *)
GuiFree == label # "initializing"

ConnectCan ==
  /\ GuiFree
  /\ inits < MaxInits /\ inits' = inits + 1
  /\ label' = "initializing"
  /\ calls' = Append(calls, "init")
  /\ UNCHANGED <<adapter, device, reconnectTimer, hears, bus, requests, faults>>

(* Can_worker::init, and what the button makes of its result               *)
init ==
  /\ calls # <<>> /\ Head(calls) = "init" /\ calls' = Tail(calls)
  /\ InitDevice
  /\ hears' = (device' = "up")
  /\ label' = IF device' = "up" THEN "ready" ELSE "failed"
  /\ UNCHANGED <<adapter, bus, requests, inits, faults>>

(* Mutant: the repair takes the signals away, as the worker's init does.   *)
Repair_Deaf == InitDevice /\ hears' = FALSE

Repair == InitDevice /\ UNCHANGED hears

tryReconnect ==
  /\ reconnectTimer
  /\ Repair
  /\ UNCHANGED <<adapter, label, calls, bus, requests, inits, faults>>

(* Mutant: the timer is started only by a device that is down.             *)
errorOccurred_IfDown == reconnectTimer' = (reconnectTimer \/ device = "failed")

errorOccurred == reconnectTimer' = TRUE

(* An error of an open device, the adapter pulled out or not.              *)
DeviceError ==
  /\ faults < MaxFaults /\ faults' = faults + 1
  /\ Works
  /\ errorOccurred
  /\ \/ UNCHANGED <<adapter, device>>
     \/ adapter' = FALSE /\ device' = "failed"
  /\ UNCHANGED <<hears, label, calls, bus, requests, inits>>

PlugIn ==
  /\ ~adapter /\ adapter' = TRUE
  /\ UNCHANGED <<device, reconnectTimer, hears, label, calls, bus, requests,
                 inits, faults>>
-----------------------------------------------------------------------------
(* sendUDSRequest on the CAN channel                                       *)
GuiRequest ==
  /\ GuiFree /\ device # "none"
  /\ requests < MaxRequests /\ requests' = requests + 1
  /\ calls' = Append(calls, "gui")
  /\ UNCHANGED <<adapter, device, reconnectTimer, hears, label, bus, inits, faults>>

(* sendUdsData and sendUdsMessage: a frame for a device that is not open   *)
(* goes nowhere.                                                           *)
Send ==
  /\ calls # <<>> /\ Head(calls) # "init"
  /\ bus' = IF Works THEN Append(bus, Head(calls)) ELSE bus
  /\ calls' = Tail(calls)
  /\ UNCHANGED <<adapter, device, reconnectTimer, hears, label, requests, inits,
                 faults>>

(* onFramesReceived: emitted to Can_worker, if it is connected.            *)
Answer ==
  /\ bus # <<>> /\ Works
  /\ bus' = Tail(bus)
  /\ UNCHANGED <<adapter, device, reconnectTimer, hears, label, calls, requests,
                 inits, faults>>

LoseAnswer ==
  /\ bus # <<>>
  /\ bus' = Tail(bus)
  /\ UNCHANGED <<adapter, device, reconnectTimer, hears, label, calls, requests,
                 inits, faults>>

Manage == ConnectCan \/ init \/ tryReconnect \/ DeviceError \/ PlugIn
-----------------------------------------------------------------------------
ChannelTypeOK ==
  /\ adapter \in BOOLEAN /\ reconnectTimer \in BOOLEAN /\ hears \in BOOLEAN
  /\ device \in {"none", "failed", "up"}
  /\ device = "failed" => reconnectTimer
  /\ Works => adapter
  /\ label \in {"none", "initializing", "ready", "failed"}
  /\ calls \in Seq({"init", "gui", "stress"}) /\ bus \in Seq({"gui", "stress"})
  /\ requests \in 0..MaxRequests /\ inits \in 0..MaxInits /\ faults \in 0..MaxFaults

(* While the label says "ready" an answer that is received is heard: the   *)
(* repair leaves the signals of the last init that succeeded as they are.  *)
(* After one that failed the repaired device is deaf, and the label still  *)
(* says "failed" (can_worker.cpp:21-38).                                   *)
ReadyHears == GuiFree => (label = "ready" <=> hears)

(* A device that does not work comes to work once the adapter is there,    *)
(* whatever init or repair failed in between and without the user          *)
(* (can_interface.cpp:78-94, 114).                                         *)
DeviceBack == (device # "none" /\ ~Works) ~> Works
=============================================================================
