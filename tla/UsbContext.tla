----------------------------- MODULE UsbContext -----------------------------
(***************************************************************************)
(* usb_context on Linux: run() enumerates what is there and posts a loop that *)
(* takes the events of udev's monitor, which has been receiving since the    *)
(* context was constructed.  Events are about the past: when one is handled   *)
(* the device may be gone, or another one may be in its place, and a device   *)
(* that was enumerated may have its event still in the queue.                *)
(*                                                                         *)
(* One port, with one device of one interface, is plugged and unplugged.     *)
(* Paths name the port and not what is in it.  The bus is quiet when the     *)
(* context is constructed, no event is lost, what is there can be opened and  *)
(* its descriptors are well formed; neither the sink nor a handler throws.   *)
(***************************************************************************)
EXTENDS Integers, Sequences, SequencesExt

CONSTANTS
    MaxPlugs, \* bound on how often a device is plugged in
    MaxRuns   \* bound on the calls of run()

ASSUME PlugsAssumption == MaxPlugs \in Nat /\ MaxRuns \in Nat

VARIABLES
    bus,        \* what is in the port: empty, plugged, configured, leaving
    plugs,      \* the number of the device that is, or was last, in it
    queue,      \* the events the monitor has received
    devices,    \* m_devices: the core at the device's path, 0 for none
    interfaces, \* m_interfaces: the core of the one at the interface's path
    cores,      \* the device each core was opened for
    phase,      \* idle, enumerating, running
    list,       \* the paths still to be enumerated
    runs,       \* how often run() was called
    crossed     \* a device's removal was handled when an interface was known
                \* already of a later one at its path (history)

port  == <<bus, plugs, queue, crossed>>
known == <<devices, interfaces, cores>>
ctx   == <<phase, list, runs>>
vars  == <<port, known, ctx>>

Hub == -1  \* the core of the hub the port is in

Event(act, kind) == [act |-> act, kind |-> kind, plug |-> plugs']

Init ==
    /\ \/ bus = "empty" /\ plugs = 0
       \/ bus = "configured" /\ plugs = 1
    /\ queue = <<>> /\ crossed = FALSE
    /\ devices = 0 /\ interfaces = 0 /\ cores = <<>>
    /\ phase = "idle" /\ list = <<>> /\ runs = 0

Exists(kind) ==
    IF kind = "device" THEN bus # "empty" ELSE bus = "configured"
-----------------------------------------------------------------------------
(* The kernel and udev.                                                      *)
Plug ==
    /\ bus = "empty" /\ plugs < MaxPlugs
    /\ bus' = "plugged" /\ plugs' = plugs + 1
    /\ queue' = Append(queue, Event("add", "device"))
    /\ UNCHANGED <<crossed, known, ctx>>

Configure ==
    /\ bus = "plugged" /\ bus' = "configured"
    /\ UNCHANGED <<plugs, crossed, known, ctx>>
    /\ queue' = Append(queue, Event("add", "interface"))

Unconfigure ==
    /\ bus = "configured" /\ bus' = "leaving"
    /\ UNCHANGED <<plugs, crossed, known, ctx>>
    /\ queue' = Append(queue, Event("remove", "interface"))

Unplug ==
    /\ bus \in {"plugged", "leaving"} /\ bus' = "empty"
    /\ UNCHANGED <<plugs, crossed, known, ctx>>
    /\ queue' = Append(queue, Event("remove", "device"))
-----------------------------------------------------------------------------
(* The node of an event is that of the device the event is about.            *)
Opens(plug) == bus # "empty" /\ plug = plugs

(* A core for the device's path: the one that is known, or a new one.        *)
HandleUsbDevice(plug) ==
    IF devices = 0 /\ Opens(plug)
    THEN /\ cores' = Append(cores, plug)
         /\ devices' = Len(cores')
    ELSE UNCHANGED <<devices, cores>>

(* Mutant: an interface opens its device anew.                               *)
ParentAnew ==
    IF bus = "empty"
    THEN /\ interfaces' \in {0, Hub}
         /\ UNCHANGED <<devices, cores>>
    ELSE /\ cores' = Append(cores, plugs)
         /\ interfaces' = Len(cores')
         /\ devices' = IF devices = 0 THEN Len(cores') ELSE devices

(* The parent is looked up in sysfs, by path.  When the device is gone the    *)
(* nearest ancestor is found, whose configuration may have that interface.   *)
HandleParent ==
    IF bus = "empty"
    THEN /\ interfaces' \in {0, Hub}
         /\ UNCHANGED <<devices, cores>>
    ELSE /\ HandleUsbDevice(plugs)
         /\ interfaces' = devices'

AddDevice(kind, plug) ==
    CASE kind = "device" -> HandleUsbDevice(plug) /\ UNCHANGED interfaces
      [] kind = "interface" /\ interfaces # 0 -> UNCHANGED known
      [] OTHER -> HandleParent

(* Mutant: only a device that is gone is forgotten.                          *)
RemoveGone(kind) ==
    /\ UNCHANGED cores
    /\ devices' = IF kind = "device" /\ bus = "empty" THEN 0 ELSE devices
    /\ interfaces' = IF kind = "interface" THEN 0 ELSE interfaces

RemoveDevice(kind) ==
    /\ UNCHANGED cores
    /\ devices' = IF kind = "device" THEN 0 ELSE devices
    /\ interfaces' = IF kind = "interface" THEN 0 ELSE interfaces

HandleMonitor ==
    /\ phase = "running" /\ queue # <<>>
    /\ LET ev == Head(queue)
       IN  /\ IF ev.act = "add" THEN AddDevice(ev.kind, ev.plug) ELSE RemoveDevice(ev.kind)
           /\ crossed' = \/ crossed
                         \/ /\ ev.act = "remove" /\ ev.kind = "device"
                            /\ interfaces # 0
    /\ queue' = Tail(queue)
    /\ UNCHANGED <<bus, plugs, ctx>>
-----------------------------------------------------------------------------
(* run() scans the paths ...                                                 *)
Run ==
    /\ phase = "idle" /\ runs < MaxRuns
    /\ runs' = runs + 1 /\ phase' = "enumerating"
    /\ list' = CASE bus = "empty" -> <<>>
                 [] bus = "configured" -> <<"device", "interface">>
                 [] OTHER -> <<"device">>
    /\ UNCHANGED <<port, known>>

(* ... looks at them one by one, and throws if one is gone by then ...       *)
EnumerateAll ==
    /\ phase = "enumerating" /\ list # <<>>
    /\ IF Exists(Head(list))
       THEN AddDevice(Head(list), plugs) /\ list' = Tail(list) /\ UNCHANGED phase
       ELSE UNCHANGED known /\ list' = <<>> /\ phase' = "idle"
    /\ UNCHANGED <<port, runs>>

(* ... and posts the loop.                                                   *)
PostLoop ==
    /\ phase = "enumerating" /\ list = <<>>
    /\ phase' = "running"
    /\ UNCHANGED <<port, known, list, runs>>

(* The future of run() is cancelled; the monitor goes on receiving.          *)
CancelRun ==
    /\ phase = "running" /\ phase' = "idle"
    /\ UNCHANGED <<port, known, list, runs>>

Next ==
    \/ Plug \/ Configure \/ Unconfigure \/ Unplug
    \/ HandleMonitor \/ Run \/ EnumerateAll \/ PostLoop \/ CancelRun

Spec == Init /\ [][Next]_vars
-----------------------------------------------------------------------------
(* When the events have been handled, the client knows what is there: the     *)
(* device in the port, with a core that was opened for it and not for one     *)
(* that was there before, and its interface, of the same core; whatever the   *)
(* enumeration has seen of what the queue still held.  One order is beyond the *)
(* code: a new device enumerated with its interface before the removal of the *)
(* old one is handled loses its core, and the interface keeps it              *)
(* (linux_usb_context.cpp:84-86, 200-236, 240-267).                           *)
SettlesOnWhatIsThere ==
    phase = "running" /\ queue = <<>> /\ ~crossed =>
        /\ (devices # 0) = Exists("device")
        /\ devices # 0 => cores[devices] = plugs
        /\ interfaces = IF Exists("interface") THEN devices ELSE 0

(* An interface that was reported is one of the device that was reported and  *)
(* not removed since.  Only if the device was gone when the interface's event *)
(* was handled it may be taken for the hub's, and then the event that ends    *)
(* that is in the queue (linux_usb_context.cpp:209-233).                      *)
InterfaceHasItsDevice ==
    CASE interfaces = 0 -> TRUE
      [] interfaces = Hub -> \E ev \in ToSet(queue) : ev.act = "remove" /\ ev.kind = "interface"
      [] OTHER -> interfaces = devices \/ crossed
=============================================================================
