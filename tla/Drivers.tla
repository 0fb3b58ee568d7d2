------------------------------ MODULE Drivers -------------------------------
(***************************************************************************)
(* A driver with a UsbDeviceManager: loading, USB devices that come and    *)
(* go, and unloading.  On Linux the kernel probes and disconnects devices  *)
(* from its own thread, also while the module unloads; in user mode libusb *)
(* queues hotplug events that main handles in order, for ever.             *)
(***************************************************************************)
EXTENDS Naturals, Sequences

CONSTANTS
  Device,
  MaxEvents  \* plugs and unplugs

VARIABLES
  platform,    \* "linux" or "usermode"
  stage,       \* of the driver
  callback,    \* the manager's mCallback
  registered,  \* with the kernel, or with libusb
  plugged,     \* devices that are there
  attached,    \* Linux: devices whose interface holds a UsbDevice
  queue,       \* user mode: hotplug events not handled yet
  events,
  told         \* history: devices the observer need not be told of, or was: they came before
               \* the registration in user mode, or the living callback was called

vars == <<platform, stage, callback, registered, plugged, attached, queue, events, told>>

Event == [device : Device, arrived : BOOLEAN]

TypeOK ==
  /\ platform \in {"linux", "usermode"}
  /\ stage \in {"initial", "context", "loaded", "failed", "unloading", "unloaded"}
  /\ callback \in {"none", "alive", "deleted"}
  /\ registered \in BOOLEAN
  /\ plugged \subseteq Device /\ attached \subseteq Device
  /\ queue \in Seq(Event) /\ events \in 0..MaxEvents
  /\ told \subseteq Device

Init ==
  /\ platform \in {"linux", "usermode"}
  /\ stage = IF platform = "linux" THEN "context" ELSE "initial"
  /\ callback = "none" /\ registered = FALSE
  /\ plugged = {} /\ attached = {}
  /\ queue = <<>> /\ events = 0
  /\ told = {}

-----------------------------------------------------------------------------
(* Loading and unloading.                                                  *)

\* main creates the DriverContext with a libusb context; that of Linux is empty.
CreateContext(ok) ==
  /\ stage = "initial"
  /\ stage' = IF ok THEN "context" ELSE "failed"
  /\ UNCHANGED <<platform, callback, registered, plugged, attached, queue, events, told>>

\* UsbDeviceManager::Create.  On Linux the result of the registration is not
\* tested; in user mode a failure leaves the callback to its UniquePointer.
CreateOnLinux(ok) == callback' = "alive"
CreateInUserMode(ok) == callback' = IF ok THEN "alive" ELSE "deleted"

\* They call ZqOnLoad, here the USB test driver's: it makes the callback and the
\* manager, which it leaves to the context's user data.  A failure is only
\* logged, and main handles events all the same.
OnLoad(ok) ==
  /\ stage = "context" /\ stage' = "loaded"
  /\ registered' = ok
  /\ IF platform = "linux" THEN CreateOnLinux(ok) ELSE CreateInUserMode(ok)
  /\ told' = IF platform = "usermode" THEN plugged ELSE {}
  /\ UNCHANGED <<platform, plugged, attached, queue, events>>

\* CppForwardOnUnload deletes the context, and so the manager: its members go in
\* reverse order, first mCallback.  main of user mode never gets there.
DeleteCallback ==
  /\ platform = "linux" /\ stage = "loaded"
  /\ stage' = "unloading" /\ callback' = "deleted"
  /\ UNCHANGED <<platform, registered, plugged, attached, queue, events, told>>

\* Then mDriver: DriverDeleter unregisters a driver that was registered; the
\* kernel disconnects the devices that are attached before that returns.
UnregisterDevice ==
  /\ stage = "unloading" /\ attached = {}
  /\ stage' = "unloaded" /\ registered' = FALSE
  /\ UNCHANGED <<platform, callback, plugged, attached, queue, events, told>>

-----------------------------------------------------------------------------
(* Devices.                                                                *)

\* libusb queues an event for a registered callback.
Plug(d) ==
  /\ d \notin plugged /\ events < MaxEvents
  /\ plugged' = plugged \cup {d} /\ events' = events + 1
  /\ queue' = IF platform = "usermode" /\ registered
              THEN Append(queue, [device |-> d, arrived |-> TRUE]) ELSE queue
  /\ UNCHANGED <<platform, stage, callback, registered, attached, told>>

Unplug(d) ==
  /\ d \in plugged /\ events < MaxEvents
  /\ plugged' = plugged \ {d} /\ events' = events + 1
  /\ queue' = IF platform = "usermode" /\ registered
              THEN Append(queue, [device |-> d, arrived |-> FALSE]) ELSE queue
  /\ told' = told \ {d}
  /\ UNCHANGED <<platform, stage, callback, registered, attached>>

\* A call of ICallback's onDeviceAttached: it reaches the observer while that is
\* there.  The memory of a deleted one is called too.
Call(d) == told' = IF callback = "alive" THEN told \cup {d} ELSE told

\* onProbe: the interface keeps the new UsbDevice.
OnProbe(d) ==
  /\ platform = "linux" /\ registered /\ d \in plugged \ attached
  /\ attached' = attached \cup {d}
  /\ Call(d)
  /\ UNCHANGED <<platform, stage, callback, registered, plugged, queue, events>>

\* onDisconnect, for a device that left or a driver that is unregistered: the
\* UniquePointer deletes the UsbDevice.  onDeviceDetached tells of no arrival.
OnDisconnect(d) ==
  /\ platform = "linux" /\ registered /\ d \in attached
  /\ d \notin plugged \/ stage = "unloading"
  /\ attached' = attached \ {d}
  /\ UNCHANGED <<platform, stage, callback, registered, plugged, queue, events, told>>

\* UsbDevice::Create opens the device, which fails if it has left and may fail
\* anyway; the handle is closed with the UsbDevice, when the callback returns.
CanOpen(device) == device \in plugged

\* libusb_callback: a device that came or left is told of.  If it cannot be opened
\* the result is not zero, and libusb drops the callback; such a call counts.
LibusbCallback(opened) ==
  /\ queue # <<>>
  /\ opened => CanOpen(Head(queue).device)
  /\ IF Head(queue).arrived
     THEN IF opened THEN Call(Head(queue).device) ELSE told' = told \cup {Head(queue).device}
     ELSE UNCHANGED told
  /\ IF opened THEN UNCHANGED registered /\ queue' = Tail(queue)
     ELSE registered' = FALSE /\ queue' = <<>>
  /\ UNCHANGED <<platform, stage, callback, plugged, attached, events>>

\* main's loop: libusb_handle_events calls the registered callback.
HandleEvents ==
  /\ platform = "usermode" /\ stage = "loaded" /\ registered
  /\ \E opened \in BOOLEAN : LibusbCallback(opened)

Next ==
  \/ \E ok \in BOOLEAN : CreateContext(ok) \/ OnLoad(ok)
  \/ DeleteCallback \/ UnregisterDevice
  \/ \E d \in Device : Plug(d) \/ Unplug(d) \/ OnProbe(d) \/ OnDisconnect(d)
  \/ HandleEvents

Spec == Init /\ [][Next]_vars

-----------------------------------------------------------------------------
\* The kernel's probe of the device has run, or libusb has no more of its arrivals
\* queued for a manager that was made.
Delivered(d) ==
  IF platform = "linux" THEN d \in attached
  ELSE /\ stage = "loaded" /\ callback = "alive"
       /\ [device |-> d, arrived |-> TRUE] \notin {queue[i] : i \in DOMAIN queue}

\* "The manager: ... get notifications for new devices" (Docs/UsbStack.md 4-6): the
\* observer hears of every device that came and is there, on Linux once its probe
\* has run, in user mode once no arrival of it is queued.
NotifiesArrivals == \A d \in plugged : Delivered(d) => d \in told
=============================================================================
