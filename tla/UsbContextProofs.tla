-------------------------- MODULE UsbContextProofs --------------------------
(***************************************************************************)
(* Proofs about UsbContext, for any number of devices plugged in, one after  *)
(* the other, and of runs.                                                   *)
(***************************************************************************)
EXTENDS UsbContext, SequenceTheorems, TLAPS

USE DEF port, known, ctx, vars

(* Whether the queue holds an event of a kind, or the arrival of what is in   *)
(* the port; and whether such an event comes after another.                  *)
Queued(act, kind) == \E i \in DOMAIN queue : queue[i].act = act /\ queue[i].kind = kind
Arrives(i, kind)  == queue[i].act = "add" /\ queue[i].kind = kind /\ queue[i].plug = plugs
Arrival(kind)     == \E i \in DOMAIN queue : Arrives(i, kind)

Events == [act : {"add", "remove"}, kind : {"device", "interface"}, plug : Nat]

ContextTypeOK ==
    /\ bus \in {"empty", "plugged", "configured", "leaving"}
    /\ plugs \in Nat /\ queue \in Seq(Events) /\ crossed \in BOOLEAN
    /\ cores \in Seq(Nat) /\ devices \in 0..Len(cores) /\ interfaces \in {Hub} \cup 0..Len(cores)
    /\ phase \in {"idle", "enumerating", "running"}
    /\ list \in Seq({"device", "interface"}) /\ runs \in Nat
    /\ phase # "enumerating" => list = <<>>

(* What follows in the queue: after a removal, the arrival of what is there   *)
(* now; after an interface's arrival, its removal, unless it is still there.  *)
QueueInv ==
    /\ \A i \in DOMAIN queue : queue[i].act = "remove" /\ Exists(queue[i].kind) =>
          \E j \in DOMAIN queue : i < j /\ Arrives(j, queue[i].kind)
    /\ \A i \in DOMAIN queue :
          queue[i].act = "add" /\ queue[i].kind = "interface" =>
             \/ Exists("interface") /\ queue[i].plug = plugs
             \/ \E j \in DOMAIN queue : /\ i < j /\ queue[j].act = "remove"
                                         /\ queue[j].kind = "interface"

(* What is known is there, or its removal is in the queue.                   *)
KnownInv ==
    /\ devices # 0 => \/ Exists("device") /\ cores[devices] = plugs
                      \/ \E i \in DOMAIN queue : /\ queue[i].act = "remove"
                                                 /\ queue[i].kind = "device"
    /\ interfaces # 0 => Exists("interface") \/ Queued("remove", "interface")
    /\ interfaces = Hub => Queued("remove", "interface")
    /\ interfaces \notin {0, Hub} => interfaces = devices \/ crossed

(* What is there is known, or is still to be enumerated, or its arrival is in *)
(* the queue.                                                                *)
ThereInv ==
    phase # "idle" =>
       /\ Exists("device") /\ devices = 0 => Arrival("device") \/ "device" \in ToSet(list)
       /\ Exists("interface") /\ interfaces = 0 => Arrival("interface") \/ "interface" \in ToSet(list)

ContextInv == ContextTypeOK /\ QueueInv /\ KnownInv /\ ThereInv
-----------------------------------------------------------------------------
(* The invariant is established.                                            *)
LEMMA ContextInitInv == Init => ContextInv
  <1> SUFFICES ASSUME Init PROVE ContextInv
    OBVIOUS
  <1>1. ContextTypeOK
    <2>1. queue \in Seq(Events) /\ cores \in Seq(Nat) /\ list \in Seq({"device", "interface"})
      BY DEF Init
    <2>2. devices \in 0..Len(cores) /\ interfaces \in {Hub} \cup 0..Len(cores)
      <3>1. Len(cores) = 0 /\ devices = 0 /\ interfaces = 0
        BY DEF Init
      <3> QED
        BY <3>1
    <2>3. /\ bus \in {"empty", "plugged", "configured", "leaving"} /\ plugs \in Nat
          /\ phase = "idle" /\ list = <<>> /\ runs \in Nat
      BY DEF Init
    <2>4. crossed \in BOOLEAN
      BY DEF Init
    <2> QED
      BY <2>1, <2>2, <2>3, <2>4 DEF ContextTypeOK
  <1>2. DOMAIN queue = {}
    BY DEF Init
  <1> QED
    BY <1>1, <1>2 DEF Init, ContextInv, QueueInv, KnownInv, ThereInv, Hub

(* An event is received.                                                     *)
LEMMA QueueGrows ==
  ASSUME ContextTypeOK, NEW e \in Events, queue' = Append(queue, e)
  PROVE  /\ queue' \in Seq(Events)
         /\ DOMAIN queue' = DOMAIN queue \cup {Len(queue) + 1}
         /\ queue'[Len(queue) + 1] = e
         /\ \A i \in DOMAIN queue : i \in Nat /\ i < Len(queue) + 1 /\ queue'[i] = queue[i]
  BY DEF ContextTypeOK

(* An event is taken.                                                        *)
LEMMA QueueShrinks ==
  ASSUME ContextTypeOK, queue # <<>>, queue' = Tail(queue)
  PROVE  /\ queue' \in Seq(Events) /\ Head(queue) = queue[1] /\ Head(queue) \in Events
         /\ \A i \in DOMAIN queue' : i + 1 \in DOMAIN queue /\ queue'[i] = queue[i + 1]
         /\ \A i \in DOMAIN queue : i # 1 => i - 1 \in DOMAIN queue' /\ queue'[i - 1] = queue[i]
         /\ 1 \in DOMAIN queue
         /\ \A i \in DOMAIN queue : i \in Nat /\ i >= 1
         /\ \A i \in DOMAIN queue' : i \in Nat /\ i >= 1
  BY DEF ContextTypeOK

(* A path is taken from the list.                                            *)
LEMMA ListShrinks ==
  ASSUME ContextTypeOK, list # <<>>
  PROVE  /\ Head(list) \in {"device", "interface"} /\ Tail(list) \in Seq({"device", "interface"})
         /\ \A x \in ToSet(list) : x = Head(list) \/ x \in ToSet(Tail(list))
  <1>1. /\ Head(list) = list[1] /\ Head(list) \in {"device", "interface"}
        /\ Tail(list) \in Seq({"device", "interface"})
        /\ \A i \in DOMAIN list : i # 1 => i - 1 \in DOMAIN Tail(list) /\ Tail(list)[i - 1] = list[i]
    BY DEF ContextTypeOK
  <1> QED
    BY <1>1 DEF ToSet

(* What the queue still holds when an event was received ...                 *)
LEMMA QueueGrowsInv ==
  ASSUME ContextInv, NEW e \in Events, queue' = Append(queue, e),
         \/ e.act = "remove" /\ ~Exists(e.kind)'
         \/ e.act = "add" /\ Exists(e.kind)' /\ e.plug = plugs',
         \A k \in {"device", "interface"} :
            \/ Exists(k)' => Exists(k) /\ plugs' = plugs
            \/ e.act = "add" /\ e.kind = k,
         Exists("interface") => \/ Exists("interface")' /\ plugs' = plugs
                                \/ e.act = "remove" /\ e.kind = "interface"
  PROVE  QueueInv'
  <1>1. ASSUME NEW i \in DOMAIN queue', queue'[i].act = "remove", Exists(queue[i].kind)'
        PROVE  \E j \in DOMAIN queue' : i < j /\ Arrives(j, queue[i].kind)'
    <2>1. i \in DOMAIN queue /\ queue'[i] = queue[i]
      BY <1>1, QueueGrows DEF ContextInv
    <2>2. queue[i].kind \in {"device", "interface"}
      <3>1. queue[i] \in Events
        BY <2>1 DEF ContextInv, ContextTypeOK
      <3> QED
        BY <3>1 DEF Events
    <2>3. CASE Exists(queue[i].kind) /\ plugs' = plugs
      <3>1. PICK j \in DOMAIN queue : i < j /\ Arrives(j, queue[i].kind)
        BY <1>1, <2>1, <2>3 DEF ContextInv, QueueInv
      <3>2. j \in DOMAIN queue' /\ queue'[j] = queue[j]
        BY QueueGrows DEF ContextInv
      <3> QED
        BY <2>1, <2>3, <3>1, <3>2 DEF Arrives
    <2>4. CASE e.act = "add" /\ e.kind = queue[i].kind
      <3>1. e.plug = plugs'
        BY <2>4
      <3> QED
        BY <2>1, <2>4, <3>1, QueueGrows DEF ContextInv, Arrives
    <2> QED
      BY <1>1, <2>1, <2>2, <2>3, <2>4
  <1>2. ASSUME NEW i \in DOMAIN queue', queue'[i].act = "add", queue'[i].kind = "interface"
        PROVE  \/ Exists("interface")' /\ queue'[i].plug = plugs'
               \/ \E j \in DOMAIN queue' : /\ i < j /\ queue'[j].act = "remove"
                                            /\ queue'[j].kind = "interface"
    <2>1. CASE i \in DOMAIN queue /\ queue'[i] = queue[i]
      BY <1>2, <2>1, QueueGrows DEF ContextInv, QueueInv
    <2>2. CASE queue'[i] = e
      BY <1>2, <2>2
    <2> QED
      BY <2>1, <2>2, QueueGrows DEF ContextInv
  <1> QED
    BY <1>1, <1>2 DEF QueueInv

(* ... and when one was taken.                                               *)
LEMMA QueueShrinksInv ==
  ASSUME ContextInv, queue # <<>>, queue' = Tail(queue), UNCHANGED <<bus, plugs>>
  PROVE  QueueInv'
  <1>1. ASSUME NEW i \in DOMAIN queue', queue'[i].act = "remove", Exists(queue[i].kind)'
        PROVE  \E j \in DOMAIN queue' : i < j /\ Arrives(j, queue[i].kind)'
    <2>1. i + 1 \in DOMAIN queue /\ queue'[i] = queue[i + 1] /\ i \in Nat /\ i >= 1
      BY QueueShrinks DEF ContextInv
    <2>2. PICK j \in DOMAIN queue : i + 1 < j /\ Arrives(j, queue[i + 1].kind)
      BY <1>1, <2>1 DEF ContextInv, QueueInv, Exists
    <2>3. j - 1 \in DOMAIN queue' /\ queue'[j - 1] = queue[j] /\ i < j - 1
      BY <2>1, <2>2, QueueShrinks DEF ContextInv
    <2> QED
      BY <2>1, <2>2, <2>3 DEF Arrives
  <1>2. ASSUME NEW i \in DOMAIN queue', queue'[i].act = "add", queue'[i].kind = "interface"
        PROVE  \/ Exists("interface")' /\ queue'[i].plug = plugs'
               \/ \E j \in DOMAIN queue' : /\ i < j /\ queue'[j].act = "remove"
                                            /\ queue'[j].kind = "interface"
    <2>1. i + 1 \in DOMAIN queue /\ queue'[i] = queue[i + 1] /\ i \in Nat /\ i >= 1
      BY QueueShrinks DEF ContextInv
    <2>2. CASE Exists("interface") /\ queue[i + 1].plug = plugs
      BY <2>1, <2>2 DEF Exists
    <2>3. ASSUME NEW j \in DOMAIN queue, i + 1 < j, queue[j].act = "remove", queue[j].kind = "interface"
          PROVE  \E k \in DOMAIN queue' : i < k /\ queue'[k].act = "remove" /\ queue'[k].kind = "interface"
      <3>1. j - 1 \in DOMAIN queue' /\ queue'[j - 1] = queue[j] /\ i < j - 1
        BY <2>1, <2>3, QueueShrinks DEF ContextInv
      <3> QED
        BY <2>3, <3>1
    <2> QED
      BY <1>2, <2>1, <2>2, <2>3 DEF ContextInv, QueueInv
  <1> QED
    BY <1>1, <1>2 DEF QueueInv

(* A device is opened, or is known.                                          *)
LEMMA DeviceHandled ==
  ASSUME ContextTypeOK, NEW plug \in Nat, HandleUsbDevice(plug)
  PROVE  /\ cores' \in Seq(Nat) /\ devices' \in 0..Len(cores') /\ Len(cores') >= Len(cores)
         /\ devices # 0 => devices' = devices /\ cores'[devices'] = cores[devices]
         /\ devices = 0 => IF Opens(plug) THEN devices' # 0 /\ cores'[devices'] = plug
                                          ELSE devices' = 0
  <1>1. CASE devices = 0 /\ Opens(plug)
    <2>1. cores' = Append(cores, plug) /\ devices' = Len(cores')
      BY <1>1 DEF HandleUsbDevice
    <2>2. /\ cores' \in Seq(Nat) /\ Len(cores') = Len(cores) + 1 /\ cores'[Len(cores) + 1] = plug
          /\ Len(cores) \in Nat
      BY <2>1 DEF ContextTypeOK
    <2> QED
      BY <1>1, <2>1, <2>2
  <1>2. CASE ~(devices = 0 /\ Opens(plug))
    <2>1. cores' = cores /\ devices' = devices
      BY <1>2 DEF HandleUsbDevice
    <2>2. Len(cores) \in Nat
      BY DEF ContextTypeOK
    <2> QED
      BY <1>2, <2>1, <2>2 DEF ContextTypeOK
  <1> QED
    BY <1>1, <1>2

(* What adding a device or an interface does to the maps, whatever is there.*)
LEMMA DeviceAdded ==
  ASSUME ContextTypeOK, NEW kind \in {"device", "interface"}, NEW plug \in Nat,
         AddDevice(kind, plug)
  PROVE  /\ cores' \in Seq(Nat) /\ devices' \in 0..Len(cores')
         /\ interfaces' \in {Hub} \cup 0..Len(cores')
         /\ devices # 0 => devices' = devices /\ cores'[devices'] = cores[devices]
         /\ devices = 0 /\ devices' # 0 => Exists("device") /\ cores'[devices'] = plugs
         /\ devices' = 0 /\ Exists("device") => ~(kind = "device" /\ plug = plugs)
         /\ kind = "device" \/ interfaces # 0 => interfaces' = interfaces
         /\ kind = "interface" /\ interfaces = 0 =>
               IF bus = "empty" THEN interfaces' \in {0, Hub}
                                ELSE interfaces' = devices' /\ interfaces' \notin {0, Hub}
  <1>1. plugs \in Nat /\ Len(cores) \in Nat
    BY DEF ContextTypeOK
  <1>2. CASE kind = "device"
    <2>1. HandleUsbDevice(plug) /\ interfaces' = interfaces
      BY <1>2 DEF AddDevice
    <2>2. interfaces \in {Hub} \cup 0..Len(cores')
      BY <1>1, <2>1, DeviceHandled DEF ContextTypeOK
    <2> QED
      BY <1>2, <2>1, <2>2, DeviceHandled DEF Opens, Exists
  <1>3. CASE kind = "interface" /\ interfaces # 0
    BY <1>1, <1>3 DEF AddDevice, ContextTypeOK
  <1>4. CASE kind = "interface" /\ interfaces = 0
    <2>1. HandleParent
      BY <1>4 DEF AddDevice
    <2>2. CASE bus = "empty"
      BY <1>1, <1>4, <2>1, <2>2 DEF HandleParent, ContextTypeOK, Exists
    <2>3. CASE bus # "empty"
      <3>1. HandleUsbDevice(plugs) /\ interfaces' = devices' /\ Opens(plugs)
        BY <2>1, <2>3 DEF HandleParent, Opens
      <3>2. devices' # 0 /\ devices' \in 0..Len(cores')
        BY <1>1, <3>1, DeviceHandled
      <3>3. devices' # Hub
        BY <1>1, <3>1, <3>2, DeviceHandled DEF Hub
      <3> QED
        BY <1>1, <1>4, <2>3, <3>1, <3>2, <3>3, DeviceHandled DEF Exists
    <2> QED
      BY <2>2, <2>3
  <1> QED
    BY <1>2, <1>3, <1>4

(* The port changes, and the client does not know yet.                       *)
LEMMA PortStep ==
  ASSUME ContextInv, Plug \/ Configure \/ Unconfigure \/ Unplug
  PROVE  ContextInv'
  <1>1. /\ UNCHANGED <<crossed, known, ctx>> /\ plugs' \in Nat
        /\ bus' \in {"empty", "plugged", "configured", "leaving"}
    BY DEF Plug, Configure, Unconfigure, Unplug, ContextInv, ContextTypeOK
  <1>2. PICK a \in {"add", "remove"}, k \in {"device", "interface"} :
           /\ queue' = Append(queue, [act |-> a, kind |-> k, plug |-> plugs'])
           /\ a = "add" => Exists(k)' /\ ~Exists(k)
           /\ a = "remove" => ~Exists(k)' /\ Exists(k)
           /\ \A l \in {"device", "interface"} \ {k} : Exists(l)' <=> Exists(l)
           /\ a = "remove" \/ k = "interface" => plugs' = plugs
           /\ a = "add" /\ k = "device" => ~Exists("interface")
    <2>1. CASE Plug
      BY <2>1 DEF Plug, Event, Exists
    <2>2. CASE Configure
      BY <2>2 DEF Configure, Event, Exists
    <2>3. CASE Unconfigure
      BY <2>3 DEF Unconfigure, Event, Exists
    <2>4. CASE Unplug
      BY <2>4 DEF Unplug, Event, Exists
    <2> QED
      BY <2>1, <2>2, <2>3, <2>4
  <1> DEFINE e == [act |-> a, kind |-> k, plug |-> plugs']
  <1>3. e \in Events /\ e.act = a /\ e.kind = k /\ e.plug = plugs' /\ queue' = Append(queue, e)
    BY <1>1, <1>2 DEF Events
  <1> HIDE DEF e
  <1>4. ContextTypeOK'
    BY <1>1, <1>3, QueueGrows DEF ContextInv, ContextTypeOK
  <1>5. QueueInv'
    BY <1>2, <1>3, QueueGrowsInv
  <1>6. /\ \A b \in {"add", "remove"}, l \in {"device", "interface"} : Queued(b, l) => Queued(b, l)'
        /\ \A l \in {"device", "interface"} : plugs' = plugs /\ Arrival(l) => Arrival(l)'
        /\ Queued(a, k)' /\ (a = "add" => Arrival(k)')
    BY <1>3, QueueGrows DEF ContextInv, Queued, Arrival, Arrives
  <1>7. KnownInv'
    <2>1. devices # 0 =>
            (Exists("device")' /\ cores[devices] = plugs') \/ Queued("remove", "device")'
      BY <1>2, <1>6 DEF ContextInv, KnownInv, Queued
    <2>2. interfaces # 0 => Exists("interface")' \/ Queued("remove", "interface")'
      BY <1>2, <1>6 DEF ContextInv, KnownInv
    <2>3. interfaces = Hub => Queued("remove", "interface")'
      BY <1>2, <1>6 DEF ContextInv, KnownInv
    <2> QED
      BY <1>1, <2>1, <2>2, <2>3 DEF ContextInv, KnownInv, Queued
  <1>8. ThereInv'
    <2>1. \A l \in {"device", "interface"} :
            Exists(l)' => Arrival(l)' \/ (Exists(l) /\ (Arrival(l) => Arrival(l)'))
      BY <1>2, <1>6
    <2> QED
      BY <1>1, <2>1 DEF ContextInv, ThereInv
  <1> QED
    BY <1>4, <1>5, <1>7, <1>8 DEF ContextInv

(* run() lists what is there, looks at it and posts the loop, or gives up.    *)
LEMMA RunStep ==
  ASSUME ContextInv, Run \/ PostLoop \/ CancelRun
  PROVE  ContextInv'
  <1>1. UNCHANGED <<port, known>>
    BY DEF Run, PostLoop, CancelRun
  <1>2. QueueInv' /\ KnownInv'
    BY <1>1 DEF ContextInv, QueueInv, KnownInv, Queued, Arrives, Exists
  <1>3. CASE Run
    <2>1. /\ list' \in Seq({"device", "interface"}) /\ phase' = "enumerating" /\ runs' \in Nat
          /\ Exists("device") => "device" \in ToSet(list')
          /\ Exists("interface") => "interface" \in ToSet(list')
      <3>0. phase' = "enumerating" /\ runs' \in Nat
        BY <1>3 DEF Run, ContextInv, ContextTypeOK
      <3>1. CASE bus = "empty"
        BY <1>3, <3>0, <3>1 DEF Run, Exists
      <3>2. CASE bus = "configured"
        <4>1. list' = <<"device", "interface">>
          BY <1>3, <3>2 DEF Run
        <4>2. list'[1] = "device" /\ list'[2] = "interface" /\ 1 \in DOMAIN list' /\ 2 \in DOMAIN list'
          BY <4>1
        <4>3. "device" \in ToSet(list') /\ "interface" \in ToSet(list')
          BY <4>2 DEF ToSet
        <4>4. list' \in Seq({"device", "interface"})
          BY <4>1
        <4> QED
          BY <3>0, <4>3, <4>4
      <3>3. CASE bus \notin {"empty", "configured"}
        <4>1. list' = <<"device">>
          BY <1>3, <3>3 DEF Run
        <4>2. list'[1] = "device" /\ 1 \in DOMAIN list'
          BY <4>1
        <4>3. "device" \in ToSet(list')
          BY <4>2 DEF ToSet
        <4>4. list' \in Seq({"device", "interface"})
          BY <4>1
        <4> QED
          BY <3>0, <3>3, <4>3, <4>4 DEF Exists
      <3> QED
        BY <3>1, <3>2, <3>3
    <2>2. ContextTypeOK'
      BY <1>1, <2>1 DEF ContextInv, ContextTypeOK
    <2>3. ThereInv'
      BY <1>1, <2>1 DEF ThereInv, Exists
    <2> QED
      BY <1>2, <2>2, <2>3 DEF ContextInv
  <1>4. CASE PostLoop
    <2>1. /\ phase = "enumerating" /\ list = <<>> /\ list' = list /\ phase' = "running"
          /\ runs' = runs
      BY <1>4 DEF PostLoop
    <2>2. ContextTypeOK'
      BY <1>1, <2>1 DEF ContextInv, ContextTypeOK
    <2>3. ThereInv'
      BY <1>1, <2>1 DEF ContextInv, ThereInv, Exists, Arrival, Arrives
    <2> QED
      BY <1>2, <2>2, <2>3 DEF ContextInv
  <1>5. CASE CancelRun
    <2>1. list' = list /\ phase = "running" /\ phase' = "idle" /\ runs' = runs
      BY <1>5 DEF CancelRun
    <2>2. ContextTypeOK'
      BY <1>1, <2>1 DEF ContextInv, ContextTypeOK
    <2>3. ThereInv'
      BY <2>1 DEF ThereInv
    <2> QED
      BY <1>2, <2>2, <2>3 DEF ContextInv
  <1> QED
    BY <1>3, <1>4, <1>5

(* A path is looked at.                                                      *)
LEMMA EnumerateStep ==
  ASSUME ContextInv, EnumerateAll
  PROVE  ContextInv'
  <1> DEFINE kind == Head(list)
  <1>1. /\ UNCHANGED <<port, runs>> /\ phase = "enumerating" /\ list # <<>>
        /\ kind \in {"device", "interface"} /\ Tail(list) \in Seq({"device", "interface"})
        /\ \A x \in ToSet(list) : x = kind \/ x \in ToSet(Tail(list))
    BY ListShrinks DEF EnumerateAll, ContextInv
  <1>2. QueueInv'
    BY <1>1 DEF ContextInv, QueueInv, Arrives, Exists
  <1>3. CASE ~Exists(kind)
    <2>1. UNCHANGED known /\ list' = <<>> /\ phase' = "idle"
      BY <1>3 DEF EnumerateAll
    <2>2. ContextTypeOK'
      BY <1>1, <2>1 DEF ContextInv, ContextTypeOK
    <2>3. KnownInv' /\ ThereInv'
      BY <1>1, <2>1 DEF ContextInv, KnownInv, ThereInv, Queued, Exists
    <2> QED
      BY <1>2, <2>2, <2>3 DEF ContextInv
  <1>4. CASE Exists(kind)
    <2>1. AddDevice(kind, plugs) /\ list' = Tail(list) /\ phase' = phase
      BY <1>4 DEF EnumerateAll
    <2>2. ContextTypeOK /\ plugs \in Nat
      BY DEF ContextInv, ContextTypeOK
    <2> HIDE DEF kind
    <2>3. ContextTypeOK'
      BY <1>1, <2>1, <2>2, DeviceAdded DEF ContextTypeOK
    <2>4. KnownInv'
      <3>1. devices' # 0 => \/ Exists("device") /\ cores'[devices'] = plugs
                            \/ \E i \in DOMAIN queue : /\ queue[i].act = "remove"
                                                       /\ queue[i].kind = "device"
        BY <1>1, <2>1, <2>2, DeviceAdded DEF ContextInv, KnownInv
      <3>2. interfaces' # 0 => Exists("interface") \/ Queued("remove", "interface")
        BY <1>1, <1>4, <2>1, <2>2, DeviceAdded DEF ContextInv, KnownInv, Exists
      <3>3. interfaces' = Hub => Queued("remove", "interface")
        BY <1>1, <1>4, <2>1, <2>2, DeviceAdded DEF ContextInv, KnownInv, Exists, Hub
      <3>4. interfaces' \notin {0, Hub} => interfaces' = devices' \/ crossed
        BY <1>1, <1>4, <2>1, <2>2, DeviceAdded DEF ContextInv, KnownInv, Exists
      <3> QED
        BY <1>1, <3>1, <3>2, <3>3, <3>4 DEF KnownInv, Exists, Queued
    <2>5. ThereInv'
      <3>1. devices' = 0 /\ Exists("device") => devices = 0 /\ kind # "device"
        BY <1>1, <2>1, <2>2, DeviceAdded
      <3>2. interfaces' = 0 /\ Exists("interface") => interfaces = 0 /\ kind # "interface"
        BY <1>1, <2>1, <2>2, DeviceAdded DEF Exists
      <3> QED
        BY <1>1, <2>1, <3>1, <3>2 DEF ContextInv, ThereInv, Exists, Arrival, Arrives
    <2> QED
      BY <1>2, <2>3, <2>4, <2>5 DEF ContextInv
  <1> QED
    BY <1>3, <1>4

(* An event is handled.                                                      *)
LEMMA MonitorStep ==
  ASSUME ContextInv, HandleMonitor
  PROVE  ContextInv'
  <1>1. PICK ev \in Events :
           /\ UNCHANGED <<bus, plugs, ctx>> /\ phase = "running" /\ queue # <<>> /\ queue' = Tail(queue)
           /\ Head(queue) = ev /\ queue[1] = ev /\ 1 \in DOMAIN queue
           /\ IF ev.act = "add" THEN AddDevice(ev.kind, ev.plug) ELSE RemoveDevice(ev.kind)
    <2>1. queue # <<>> /\ queue' = Tail(queue)
      BY DEF HandleMonitor
    <2>2. Head(queue) = queue[1] /\ Head(queue) \in Events /\ 1 \in DOMAIN queue
      BY <2>1, QueueShrinks DEF ContextInv
    <2> QED
      BY <2>1, <2>2 DEF HandleMonitor
  <1>2. /\ ev.act \in {"add", "remove"} /\ ev.kind \in {"device", "interface"} /\ ev.plug \in Nat
    BY <1>1 DEF Events
  <1>3. crossed' \in BOOLEAN /\ (crossed => crossed')
        /\ (ev.act = "remove" /\ ev.kind = "device" /\ interfaces # 0 => crossed')
    BY <1>1 DEF HandleMonitor, ContextInv, ContextTypeOK
  <1>4. QueueInv'
    BY <1>1, QueueShrinksInv
  <1>5. /\ list = <<>> /\ ContextTypeOK /\ queue' \in Seq(Events)
    BY <1>1, QueueShrinks DEF ContextInv, ContextTypeOK
  (* What else was in the queue still is. *)
  <1>6. ASSUME NEW i \in DOMAIN queue, i # 1
        PROVE  \E j \in DOMAIN queue' : queue'[j] = queue[i]
    <2>1. i - 1 \in DOMAIN queue' /\ queue'[i - 1] = queue[i]
      BY <1>1, <1>6, QueueShrinks DEF ContextInv
    <2> QED
      BY <2>1
  <1>7. /\ \A l \in {"device", "interface"} :
              Queued("remove", l) => Queued("remove", l)' \/ (ev.act = "remove" /\ ev.kind = l)
        /\ \A l \in {"device", "interface"} :
              Arrival(l) => Arrival(l)' \/ (ev.act = "add" /\ ev.kind = l /\ ev.plug = plugs)
    <2>1. ASSUME NEW l \in {"device", "interface"}, Queued("remove", l),
                 ~(ev.act = "remove" /\ ev.kind = l)
          PROVE  Queued("remove", l)'
      <3>1. PICK i \in DOMAIN queue : queue[i].act = "remove" /\ queue[i].kind = l
        BY <2>1 DEF Queued
      <3>2. i # 1
        BY <1>1, <2>1, <3>1
      <3>3. PICK j \in DOMAIN queue' : queue'[j] = queue[i]
        BY <1>6, <3>2
      <3> QED
        BY <3>1, <3>3 DEF Queued
    <2>2. ASSUME NEW l \in {"device", "interface"}, Arrival(l),
                 ~(ev.act = "add" /\ ev.kind = l /\ ev.plug = plugs)
          PROVE  Arrival(l)'
      <3>1. PICK i \in DOMAIN queue : Arrives(i, l)
        BY <2>2 DEF Arrival
      <3>2. i # 1
        BY <1>1, <2>2, <3>1 DEF Arrives
      <3>3. PICK j \in DOMAIN queue' : queue'[j] = queue[i]
        BY <1>6, <3>2
      <3> QED
        BY <1>1, <3>1, <3>3 DEF Arrival, Arrives
    <2> QED
      BY <2>1, <2>2
  <1>8. /\ ev.act = "remove" /\ Exists(ev.kind) => Arrival(ev.kind)'
        /\ ev.act = "add" /\ ev.kind = "interface" =>
              (Exists("interface") /\ ev.plug = plugs) \/ Queued("remove", "interface")'
    <2>1. ASSUME ev.act = "remove", Exists(ev.kind)
          PROVE  Arrival(ev.kind)'
      <3>1. PICK j \in DOMAIN queue : 1 < j /\ Arrives(j, ev.kind)
        BY <1>1, <2>1 DEF ContextInv, QueueInv
      <3>2. PICK i \in DOMAIN queue' : queue'[i] = queue[j]
        <4>1. j # 1
          BY <3>1
        <4> QED
          BY <1>6, <4>1
      <3> QED
        BY <1>1, <3>1, <3>2 DEF Arrival, Arrives
    <2>2. ASSUME ev.act = "add", ev.kind = "interface", ~(Exists("interface") /\ ev.plug = plugs)
          PROVE  Queued("remove", "interface")'
      <3>1. PICK j \in DOMAIN queue : 1 < j /\ queue[j].act = "remove" /\ queue[j].kind = "interface"
        BY <1>1, <2>2 DEF ContextInv, QueueInv
      <3>2. PICK i \in DOMAIN queue' : queue'[i] = queue[j]
        <4>1. j # 1
          BY <3>1
        <4> QED
          BY <1>6, <4>1
      <3> QED
        BY <3>1, <3>2 DEF Queued
    <2> QED
      BY <2>1, <2>2
  <1>9. \A l \in {"device", "interface"} : Exists(l)' <=> Exists(l)
    BY <1>1 DEF Exists
  <1>10. /\ devices # 0 => (Exists("device") /\ cores[devices] = plugs) \/ Queued("remove", "device")
         /\ interfaces # 0 => Exists("interface") \/ Queued("remove", "interface")
         /\ interfaces = Hub => Queued("remove", "interface")
         /\ interfaces \notin {0, Hub} => interfaces = devices \/ crossed
         /\ Exists("device") /\ devices = 0 => Arrival("device")
         /\ Exists("interface") /\ interfaces = 0 => Arrival("interface")
    <2>1. ToSet(list) = {}
      BY <1>5 DEF ToSet
    <2> QED
      BY <1>1, <2>1 DEF ContextInv, KnownInv, ThereInv, Queued
  <1>11. SUFFICES /\ cores' \in Seq(Nat) /\ devices' \in 0..Len(cores')
                  /\ interfaces' \in {Hub} \cup 0..Len(cores')
                  /\ devices' # 0 =>
                        (Exists("device") /\ cores'[devices'] = plugs) \/ Queued("remove", "device")'
                  /\ interfaces' # 0 => Exists("interface") \/ Queued("remove", "interface")'
                  /\ interfaces' = Hub => Queued("remove", "interface")'
                  /\ interfaces' \notin {0, Hub} => interfaces' = devices' \/ crossed'
                  /\ Exists("device") /\ devices' = 0 => Arrival("device")'
                  /\ Exists("interface") /\ interfaces' = 0 => Arrival("interface")'
    <2>1. ASSUME cores' \in Seq(Nat), devices' \in 0..Len(cores'), interfaces' \in {Hub} \cup 0..Len(cores')
          PROVE  ContextTypeOK'
      BY <1>1, <1>3, <1>5, <2>1 DEF ContextTypeOK
    <2> QED
      BY <1>1, <1>4, <1>9, <2>1 DEF ContextInv, KnownInv, ThereInv, Queued
  <1>12. CASE ev.act = "add"
    <2>1. AddDevice(ev.kind, ev.plug)
      BY <1>1, <1>12
    <2>2. ev.kind = "interface" /\ interfaces = 0 =>
             IF bus = "empty" THEN interfaces' \in {0, Hub}
                              ELSE interfaces' = devices' /\ interfaces' \notin {0, Hub}
      BY <1>2, <1>5, <2>1, DeviceAdded
    <2>3. bus = "empty" => ~Exists("interface") /\ ~Exists("device")
      BY DEF Exists
    <2> QED
      BY <1>2, <1>3, <1>5, <1>7, <1>8, <1>10, <1>12, <2>1, <2>2, <2>3, DeviceAdded
  <1>13. CASE ev.act = "remove"
    <2>1. /\ cores' = cores
          /\ devices' = IF ev.kind = "device" THEN 0 ELSE devices
          /\ interfaces' = IF ev.kind = "interface" THEN 0 ELSE interfaces
      BY <1>1, <1>13 DEF RemoveDevice
    <2>2. /\ cores' \in Seq(Nat) /\ devices' \in 0..Len(cores')
          /\ interfaces' \in {Hub} \cup 0..Len(cores')
      BY <1>5, <2>1 DEF ContextTypeOK
    <2>3. devices' # 0 => (Exists("device") /\ cores'[devices'] = plugs) \/ Queued("remove", "device")'
      BY <1>2, <1>7, <1>10, <2>1
    <2>4. /\ interfaces' # 0 => Exists("interface") \/ Queued("remove", "interface")'
          /\ interfaces' = Hub => Queued("remove", "interface")'
      BY <1>2, <1>7, <1>10, <2>1 DEF Hub
    <2>5. interfaces' \notin {0, Hub} => interfaces' = devices' \/ crossed'
      <3>1. CASE ev.kind = "device"
        BY <1>3, <1>13, <2>1, <3>1, Zenon
      <3>2. CASE ev.kind = "interface"
        BY <2>1, <3>2
      <3> QED
        BY <1>2, <3>1, <3>2
    <2>6. /\ Exists("device") /\ devices' = 0 => Arrival("device")'
          /\ Exists("interface") /\ interfaces' = 0 => Arrival("interface")'
      BY <1>2, <1>7, <1>8, <1>10, <1>13, <2>1
    <2> QED
      BY <2>2, <2>3, <2>4, <2>5, <2>6
  <1> QED
    BY <1>2, <1>12, <1>13
-----------------------------------------------------------------------------
(* Every step keeps the invariant.                                          *)
LEMMA ContextStep == ContextInv /\ [Next]_vars => ContextInv'
  <1> SUFFICES ASSUME ContextInv, [Next]_vars PROVE ContextInv'
    OBVIOUS
  <1>1. CASE UNCHANGED vars
    BY <1>1 DEF ContextInv, ContextTypeOK, QueueInv, KnownInv, ThereInv, Queued, Arrival, Arrives,
                Exists
  <1> QED
    BY <1>1, PortStep, MonitorStep, RunStep, EnumerateStep DEF Next

(* The invariant always holds.                                              *)
LEMMA ContextInvariance == Spec => []ContextInv
  BY ContextInitInv, ContextStep, PTL DEF Spec

(* Whatever was plugged and unplugged since the context was constructed, and  *)
(* however often run() was called, cancelled or gave up: once the events are  *)
(* handled the client knows the device that is there, by a core opened for    *)
(* it, and its interface (linux_usb_context.cpp:84-86, 200-236, 240-267).     *)
THEOREM Settles == Spec => []SettlesOnWhatIsThere
  <1>1. ContextInv => SettlesOnWhatIsThere
    <2> SUFFICES ASSUME ContextInv, phase = "running", queue = <<>>, ~crossed
                 PROVE  /\ (devices # 0) = Exists("device")
                        /\ devices # 0 => cores[devices] = plugs
                        /\ interfaces = IF Exists("interface") THEN devices ELSE 0
      BY DEF SettlesOnWhatIsThere
    <2>1. DOMAIN queue = {} /\ ToSet(list) = {}
      BY DEF ContextInv, ContextTypeOK, ToSet
    <2>2. ~Queued("remove", "interface") /\ ~Arrival("device") /\ ~Arrival("interface")
      BY <2>1 DEF Queued, Arrival
    <2>3. devices # 0 => Exists("device") /\ cores[devices] = plugs
      BY <2>1 DEF ContextInv, KnownInv
    <2>4. Exists("device") => devices # 0
      BY <2>1, <2>2 DEF ContextInv, ThereInv
    <2>5. Exists("interface") => interfaces # 0
      BY <2>1, <2>2 DEF ContextInv, ThereInv
    <2>6. interfaces # 0 => Exists("interface") /\ interfaces # Hub /\ interfaces = devices
      BY <2>2 DEF ContextInv, KnownInv
    <2>7. (devices # 0) = Exists("device")
      BY <2>3, <2>4 DEF Exists
    <2> QED
      BY <2>3, <2>5, <2>6, <2>7
  <1> QED
    BY <1>1, ContextInvariance, PTL

(* An interface that was reported and not removed is one of the device that   *)
(* is known, or the event that takes it away is in the queue                  *)
(* (linux_usb_context.cpp:209-233).                                           *)
THEOREM InterfacesHaveDevices == Spec => []InterfaceHasItsDevice
  <1>1. ContextInv => InterfaceHasItsDevice
    <2> SUFFICES ASSUME ContextInv PROVE InterfaceHasItsDevice
      OBVIOUS
    <2>1. interfaces = Hub => \E ev \in ToSet(queue) : ev.act = "remove" /\ ev.kind = "interface"
      BY DEF ContextInv, KnownInv, Queued, ToSet
    <2>2. interfaces \notin {0, Hub} => interfaces = devices \/ crossed
      BY DEF ContextInv, KnownInv
    <2> QED
      BY <2>1, <2>2 DEF InterfaceHasItsDevice, Hub
  <1> QED
    BY <1>1, ContextInvariance, PTL
=============================================================================
