----------------------- MODULE PipeCommunicatorProofs -----------------------
(***************************************************************************)
(* What holds of PipeCommunicator for any number of devices, network ids   *)
(* and threads, and for any calls of the database and changes of the bus.  *)
(***************************************************************************)
EXTENDS PipeCommunicator, TLAPS

Steps == {"none", "copy", "update", "offline", "inOffline", "type", "inType"}

Events == [node : Nodes \cup {NoNode}, type : Status, copied : BOOLEAN, step : Steps,
           device : Devices \cup {NoDevice, Nameless}]

Active(t) == event[t].step # "none"

\* Between the two steps of RegOnDeviceChange the handler is ahead of the
\* listener; otherwise they agree, and what is known was told to a handler.
DeviceRegistered ==
  IF Calling("watchDevice") THEN onDeviceChange = caller.on
  ELSE /\ deviceListener = onDeviceChange
       /\ \A d \in Devices : view[d] # "unknown" => onDeviceChange

\* A thread handles the change of a network id.
EventsOfNodes == \A t \in Threads : Active(t) => event[t].node \in Nodes

\* The inductive invariant of the two registrations, which rests on nothing.
PipeInv == TypeOK /\ NoCallAfterClear /\ DeviceRegistered /\ EventsOfNodes

\* The other registration: the listener is there while one is in force, or is
\* being taken back, or could not be taken back.
DataRegistered ==
  dataListener => receiving \/ stuck \/ (Calling("watchData") /\ ~caller.on)

\* What a thread handles is the present state of its device, of which it is
\* the only thread, and which has no other network id on line; if the device
\* is not unsure.
EventsAreTrue ==
  /\ \A t, u \in Threads :
       /\ Active(t) /\ Active(u) /\ Owner[event[t].node] = Owner[event[u].node]
       /\ Owner[event[t].node] \notin unsure
       => t = u
  /\ \A t \in Threads : Active(t) /\ Owner[event[t].node] \notin unsure =>
       /\ event[t].type = IF event[t].node \in online THEN "online" ELSE "offline"
       /\ \A m \in online : Owner[m] = Owner[event[t].node] => m = event[t].node

\* What is on line of a device.
Present(d) == IF \E n \in online : Owner[n] = d THEN "online" ELSE "offline"

\* Thread t tells the listeners of the udid it looked up.
Telling(t) == event[t].step \in {"offline", "inOffline", "type", "inType"}

\* What the database was told of a device without a thread is right; and a
\* thread that has missed the listener works on a device nothing is known of.
\* A thread tells of no device but its own.
ViewInv ==
  /\ \A t \in Threads : Telling(t) =>
       /\ event[t].device \in {Owner[event[t].node], Nameless}
       /\ event[t].device = Owner[event[t].node] \/ Owner[event[t].node] \in unsure
  /\ ~Calling("watchDevice") =>
       /\ \A t \in Threads :
            event[t].step = "update" /\ ~event[t].copied /\ Owner[event[t].node] \notin unsure =>
              view[Owner[event[t].node]] = "unknown"
       /\ \A d \in Devices \ unsure : Handled(d) /\ view[d] # "unknown" => view[d] = Present(d)

\* Thread t has still to enter or to take out network id n.
Enters(t, n) == event[t].step \in {"copy", "update"} /\ event[t].node = n

\* networkId2Udid_ has the right udids, of the ids on line and no others but
\* those pending, each of which has one thread, with its present state; and the
\* list of the bus that ToNodeID holds has none that has left.
NameInv(n) ==
  /\ \A t, u \in Threads : Enters(t, n) /\ Enters(u, n) => t = u
  /\ \A t \in Threads : Enters(t, n) =>
       event[t].type = IF n \in online THEN "online" ELSE "offline"
  /\ n \in online => relations[n] \in {NoDevice, Owner[n]}
  /\ Pending(n) \/ relations[n] = IF n \in online THEN Owner[n] ELSE NoDevice
  /\ n \in report.listed => n \in online

NamesInv ==
  /\ \A n \in Nodes \ doubtful : NameInv(n)
  /\ report.step # "fill" => report.listed = {}

-----------------------------------------------------------------------------
\* Thread t goes on to e, and no other thread does anything.
GoesOn(t, e) == e \in Events /\ event' = [event EXCEPT ![t] = e]

\* So the other threads' events are what they were.
LEMMA OneThread ==
  ASSUME TypeOK, NEW t \in Threads, NEW e, GoesOn(t, e)
  PROVE  /\ event' \in [Threads -> Events]
         /\ event'[t] = e
         /\ \A u \in Threads : u # t => event'[u] = event[u]
BY DEF GoesOn, TypeOK, Events, Steps

\* The fields of an event.
LEMMA EventFields ==
  ASSUME TypeOK, NEW t \in Threads
  PROVE  /\ event[t] \in Events /\ event[t].node \in Nodes \cup {NoNode}
         /\ event[t].type \in Status /\ event[t].copied \in BOOLEAN
         /\ event[t].step \in Steps /\ event[t].device \in Devices \cup {NoDevice, Nameless}
<1>1. event[t] \in Events
      BY DEF TypeOK, Events, Steps
<1>2. QED BY <1>1 DEF Events

\* The thread that has nothing to do.
LEMMA NoEventIdle == NoEvent \in Events /\ NoEvent.step = "none"
BY DEF NoEvent, Events, Steps, Status

\* NotifyAll, seen from its thread.
LEMMA NotifyAllEffect ==
  ASSUME TypeOK, NEW t \in Threads, NEW n \in Nodes, NotifyAll(t, n)
  PROVE  \E e \in Events :
           /\ GoesOn(t, e) /\ e.step = "copy" /\ e.node = n
           /\ e.type = IF n \in online THEN "offline" ELSE "online"
<1>1. PICK k \in Status : k = IF n \in online THEN "offline" ELSE "online"
      BY DEF Status
<1>2. PICK e : e = [NoEvent EXCEPT !.step = "copy", !.node = n, !.type = k]
      OBVIOUS
<1>3. e \in Events /\ e.step = "copy" /\ e.node = n /\ e.type = k
      BY <1>2, NoEventIdle DEF Events, Steps
<1>4. event' = [event EXCEPT ![t] = e]
      BY <1>1, <1>2 DEF NotifyAll
<1>5. QED BY <1>1, <1>3, <1>4 DEF GoesOn

\* CopyListeners, seen from its thread.
LEMMA CopyListenersEffect ==
  ASSUME TypeOK, NEW t \in Threads, CopyListeners(t)
  PROVE  \E e \in Events :
           /\ GoesOn(t, e) /\ e.step = "update" /\ e.node = event[t].node
           /\ e.type = event[t].type /\ e.copied = deviceListener
<1>1. event[t] \in Events /\ deviceListener \in BOOLEAN
      BY EventFields DEF TypeOK
<1>2. PICK e : e = [event[t] EXCEPT !.step = "update", !.copied = deviceListener]
      OBVIOUS
<1>3. /\ e \in Events /\ e.step = "update" /\ e.node = event[t].node
      /\ e.type = event[t].type /\ e.copied = deviceListener
      BY <1>1, <1>2 DEF Events, Steps
<1>4. event' = [event EXCEPT ![t] = e]
      BY <1>2 DEF CopyListeners
<1>5. QED BY <1>3, <1>4 DEF GoesOn

\* UpdateRelationship, seen from its thread.
LEMMA UpdateEffect ==
  ASSUME TypeOK, EventsOfNodes, NEW t \in Threads, UpdateRelationship(t)
  PROVE  /\ event[t].node \in Nodes
         /\ \E e \in Events, u \in GetUdid(event[t].node) :
              /\ GoesOn(t, e)
              /\ unsure' = IF u = Nameless THEN unsure \cup {Owner[event[t].node]} ELSE unsure
              /\ IF ~event[t].copied THEN e.step = "none"
                 ELSE /\ e.step = "offline" /\ e.node = event[t].node
                      /\ e.type = event[t].type /\ e.device = u
<1>1. event[t].node \in Nodes /\ event[t] \in Events
      BY EventFields DEF EventsOfNodes, Active, UpdateRelationship
<1>2. PICK u \in GetUdid(event[t].node) :
        /\ event' = [event EXCEPT ![t] =
             IF ~event[t].copied THEN NoEvent
             ELSE [event[t] EXCEPT !.step = "offline", !.device = u]]
        /\ unsure' = IF u = Nameless THEN unsure \cup {Owner[event[t].node]} ELSE unsure
      BY DEF UpdateRelationship
<1>3. u \in Devices \cup {Nameless}
      BY <1>1, PipeAssumption DEF GetUdid
<1>4. CASE ~event[t].copied
      BY <1>1, <1>2, <1>4, NoEventIdle DEF GoesOn
<1>5. CASE event[t].copied
  <2>1. PICK e : e = [event[t] EXCEPT !.step = "offline", !.device = u]
        OBVIOUS
  <2>2. /\ e \in Events /\ e.step = "offline" /\ e.node = event[t].node
        /\ e.type = event[t].type /\ e.device = u
        BY <1>1, <1>3, <2>1 DEF Events, Steps
  <2>3. event' = [event EXCEPT ![t] = e]
        BY <1>2, <1>5, <2>1
  <2>4. QED BY <1>1, <1>2, <1>5, <2>2, <2>3 DEF GoesOn
<1>6. QED BY <1>4, <1>5

\* What a thread does after a call of the listener.
LEMMA AfterEffect ==
  ASSUME TypeOK, NEW t \in Threads
  PROVE  /\ After(event[t]) \in Events
         /\ IF event[t].step \in {"offline", "inOffline"}
              THEN /\ After(event[t]).step = "type" /\ After(event[t]).node = event[t].node
                   /\ After(event[t]).type = event[t].type
                   /\ After(event[t]).device = event[t].device
              ELSE After(event[t]).step = "none"
<1>1. CASE event[t].step \in {"offline", "inOffline"}
      BY <1>1, EventFields DEF After, Events, Steps
<1>2. CASE event[t].step \notin {"offline", "inOffline"}
      BY <1>2, NoEventIdle DEF After
<1>3. QED BY <1>1, <1>2

\* OnDeviceChanged, seen from its thread.
LEMMA OnDeviceChangedEffect ==
  ASSUME TypeOK, NEW t \in Threads, OnDeviceChanged(t)
  PROVE  \E e \in Events :
           /\ GoesOn(t, e)
           /\ \/ event[t].step = "type" /\ ~onDeviceChange /\ e.step = "none"
              \/ /\ e.node = event[t].node /\ e.type = event[t].type /\ e.device = event[t].device
                 /\ \/ ~onDeviceChange /\ e.step = "type"
                    \/ onDeviceChange /\ e.step \in {"inOffline", "inType"}
<1>1. event[t] \in Events /\ event[t].step \in {"offline", "type"}
      BY EventFields DEF OnDeviceChanged
<1>2. CASE ~onDeviceChange
  <2>1. event' = [event EXCEPT ![t] = After(event[t])]
        BY <1>2 DEF OnDeviceChanged
  <2>2. QED BY <1>1, <1>2, <2>1, AfterEffect DEF GoesOn
<1>3. CASE onDeviceChange
  <2>1. PICK e : e = [event[t] EXCEPT !.step = IF event[t].step = "offline" THEN "inOffline" ELSE "inType"]
        OBVIOUS
  <2>2. /\ e \in Events /\ e.step \in {"inOffline", "inType"} /\ e.node = event[t].node
        /\ e.type = event[t].type /\ e.device = event[t].device
        BY <1>1, <2>1 DEF Events, Steps
  <2>3. event' = [event EXCEPT ![t] = e]
        BY <1>3, <2>1 DEF OnDeviceChanged
  <2>4. QED BY <1>3, <2>2, <2>3 DEF GoesOn
<1>4. onDeviceChange \in BOOLEAN
      BY DEF TypeOK
<1>5. QED BY <1>2, <1>3, <1>4

\* DeviceHandled, seen from its thread.
LEMMA DeviceHandledEffect ==
  ASSUME TypeOK, NEW t \in Threads, DeviceHandled(t)
  PROVE  \E e \in Events :
           /\ GoesOn(t, e)
           /\ \/ event[t].step = "inType" /\ e.step = "none"
              \/ /\ event[t].step = "inOffline" /\ e.step = "type" /\ e.node = event[t].node
                 /\ e.type = event[t].type /\ e.device = event[t].device
<1>1. event[t].step \in {"inOffline", "inType"} /\ event' = [event EXCEPT ![t] = After(event[t])]
      BY DEF DeviceHandled
<1>2. QED BY <1>1, AfterEffect DEF GoesOn

-----------------------------------------------------------------------------
\* Init establishes all of the invariants.
LEMMA PipeInit == Init => PipeInv /\ DataRegistered /\ EventsAreTrue /\ ViewInv /\ NamesInv
<1> SUFFICES ASSUME Init PROVE PipeInv /\ DataRegistered /\ EventsAreTrue /\ ViewInv /\ NamesInv
    OBVIOUS
<1>1. \A t \in Threads : event[t] = NoEvent
      BY DEF Init
<1>2. \A t \in Threads : event[t].step = "none"
      BY <1>1, NoEventIdle
<1>3. NoReport \in [step : {"idle", "pull", "search", "fill", "tell"}, device : Devices \cup {NoDevice},
                    listed : SUBSET Nodes, node : Nodes \cup {NoNode}]
      BY DEF NoReport
<1>4. event \in [Threads -> Events]
      BY NoEventIdle DEF Init
<1>5. TypeOK
      BY <1>3, <1>4 DEF Init, TypeOK, Events, Steps, Status
<1>6. NoCallAfterClear /\ DeviceRegistered /\ EventsOfNodes
      BY <1>2 DEF Init, NoCallAfterClear, InDataHandler, InDeviceHandler, DeviceRegistered,
                  EventsOfNodes, Active, Calling
<1>7. DataRegistered /\ EventsAreTrue
      BY <1>2 DEF Init, DataRegistered, EventsAreTrue, Active, Calling
<1>8. ViewInv
      BY <1>2 DEF Init, ViewInv, Calling, Telling
<1>9. NamesInv
      BY <1>2 DEF Init, NamesInv, NameInv, Enters, NoReport
<1>10. QED BY <1>5, <1>6, <1>7, <1>8, <1>9 DEF PipeInv

\* What is the same to the invariants about devices.
DeviceSame ==
  /\ UNCHANGED <<deviceListener, onDeviceChange, online, event, view, relations, history>>
  /\ caller' = caller \/ (~Calling("watchDevice") /\ ~Calling("watchDevice")')

\* The same, for a step of thread t: neither a registration nor the database.
ThreadSame ==
  UNCHANGED <<caller, dataBusMap, dataListener, onDataReceive, receiving, stuck, receiver,
              deviceListener, onDeviceChange, report>>

\* A step of the database's or of the bus's data side keeps the type
\* invariant and what is known of devices.
LEMMA DataSteps ==
  ASSUME TypeOK,
         \/ Start \/ Stop \/ WatchData \/ NotifyDataListeners \/ OnMessage \/ MessageHandled
         \/ \E on \in BOOLEAN : RegOnDataReceive(on)
  PROVE  TypeOK' /\ DeviceSame /\ UNCHANGED report
<1> DEFINE Callers == [step : {"idle", "watchData", "watchDevice"}, on : BOOLEAN]
<1>1. /\ caller \in Callers /\ caller.on \in BOOLEAN
      /\ {dataBusMap, dataListener, onDataReceive, receiving, stuck} \subseteq BOOLEAN
      /\ receiver \in {"idle", "message", "handling"}
      BY DEF TypeOK
<1>2. ASSUME Return PROVE caller' \in Callers /\ ~Calling("watchDevice")'
      BY <1>2 DEF Return, GoTo, Calling
<1>3. /\ UNCHANGED device
      /\ {dataBusMap', dataListener', onDataReceive', receiving', stuck'} \subseteq BOOLEAN
      /\ receiver' \in {"idle", "message", "handling"}
  <2>1. CASE Start \/ Stop
        BY <1>1, <2>1 DEF Start, Stop
  <2>2. CASE WatchData
        BY <1>1, <2>2 DEF WatchData
  <2>3. CASE NotifyDataListeners \/ OnMessage \/ MessageHandled
        BY <1>1, <2>3 DEF NotifyDataListeners, OnMessage, MessageHandled, data
  <2>4. ASSUME NEW on \in BOOLEAN, RegOnDataReceive(on)
        PROVE  /\ UNCHANGED device
               /\ {dataBusMap', dataListener', onDataReceive', receiving', stuck'} \subseteq BOOLEAN
               /\ receiver' \in {"idle", "message", "handling"}
        BY <1>1, <2>4 DEF RegOnDataReceive
  <2>5. QED BY <2>1, <2>2, <2>3, <2>4
<1>4. /\ caller' \in Callers
      /\ caller' = caller \/ (~Calling("watchDevice") /\ ~Calling("watchDevice")')
  <2>1. CASE Start \/ Stop
        BY <1>1, <2>1 DEF Start, Stop
  <2>2. CASE WatchData
        BY <1>1, <1>2, <2>2 DEF WatchData, Calling
  <2>3. CASE NotifyDataListeners \/ OnMessage \/ MessageHandled
        BY <1>1, <2>3 DEF NotifyDataListeners, OnMessage, MessageHandled
  <2>4. ASSUME NEW on \in BOOLEAN, RegOnDataReceive(on)
        PROVE  /\ caller' \in Callers
               /\ ~Calling("watchDevice") /\ ~Calling("watchDevice")'
        BY <1>1, <2>4 DEF RegOnDataReceive, GoTo, Calling
  <2>5. QED BY <2>1, <2>2, <2>3, <2>4
<1>5. QED BY <1>1, <1>3, <1>4 DEF TypeOK, DeviceSame, device, history

\* FillRelations enters the listed ids that had no entry, and no others.
LEMMA FillEffect ==
  ASSUME TypeOK, FillRelations
  PROVE  /\ relations' \in [Nodes -> Devices \cup {NoDevice, Nameless}]
         /\ \A n \in Nodes :
              IF n \in report.listed /\ relations[n] = NoDevice
                THEN relations'[n] \in GetUdid(n)
                ELSE relations'[n] = relations[n]
         /\ doubtful \subseteq doubtful' /\ doubtful' \subseteq Nodes
         /\ \A n \in Nodes \ doubtful' : n \in report.listed /\ relations[n] = NoDevice =>
              relations'[n] = Owner[n]
<1> DEFINE new == {n \in report.listed : relations[n] = NoDevice}
<1>1. PICK udid \in [new -> Devices \cup {Nameless}] :
        /\ \A n \in new : udid[n] \in GetUdid(n)
        /\ relations' = [n \in Nodes |-> IF n \in new THEN udid[n] ELSE relations[n]]
        /\ doubtful' = doubtful \cup {n \in new : udid[n] = Nameless}
      BY Zenon DEF FillRelations
<1>2. \A n \in new : udid[n] \in {Owner[n], Nameless}
      BY <1>1 DEF GetUdid
<1>3. new \subseteq Nodes
      BY DEF TypeOK
<1>4. QED BY <1>1, <1>2, <1>3 DEF TypeOK

\* A step of the database's that looks a network id up or reports.
LEMMA ReportSteps ==
  ASSUME TypeOK,
         \/ PullCompletes \/ ToNodeID \/ FillRelations \/ Tell
         \/ \E d \in Devices : Report(d)
  PROVE  /\ TypeOK'
         /\ UNCHANGED <<caller, dataBusMap, dataListener, onDataReceive, receiving, stuck,
                        receiver, deviceListener, onDeviceChange, online, event, view, unsure>>
         /\ UNCHANGED <<relations, doubtful>> \/ FillRelations
<1> DEFINE Reports == [step : {"idle", "pull", "search", "fill", "tell"},
                       device : Devices \cup {NoDevice}, listed : SUBSET Nodes,
                       node : Nodes \cup {NoNode}]
<1>1. report \in Reports /\ NoReport \in Reports
      BY DEF TypeOK, NoReport
<1>2. QuietUnlessReport
      BY DEF PullCompletes, ToNodeID, FillRelations, Tell, Report
<1>3. report' \in Reports
  <2>1. ASSUME NEW d \in Devices, Report(d) PROVE report' \in Reports
    <3>1. PICK s \in {"pull", "search"} : s = IF view[d] = "online" THEN "pull" ELSE "search"
          OBVIOUS
    <3>2. report' = [NoReport EXCEPT !.device = d, !.step = s]
          BY <2>1, <3>1 DEF Report
    <3>3. QED BY <1>1, <3>2
  <2>2. CASE PullCompletes
    <3>1. [report EXCEPT !.step = "search"] \in Reports
          BY <1>1
    <3>2. QED BY <1>1, <2>2, <3>1 DEF PullCompletes
  <2>3. CASE ToNodeID
    <3>1. /\ \A n \in Nodes : [report EXCEPT !.step = "tell", !.node = n] \in Reports
          /\ [report EXCEPT !.step = "fill", !.listed = online] \in Reports
          /\ [report EXCEPT !.step = "tell"] \in Reports
          BY <1>1 DEF TypeOK
    <3>2. QED BY <2>3, <3>1 DEF ToNodeID
  <2>4. CASE FillRelations
    <3>1. PICK n \in Nodes \cup {NoNode} :
            report' = [report EXCEPT !.step = "tell", !.listed = {}, !.node = n]
          BY <1>1, <2>4 DEF FillRelations
    <3>2. QED BY <1>1, <3>1
  <2>5. CASE Tell
        BY <1>1, <2>5 DEF Tell
  <2>6. QED BY <2>1, <2>2, <2>3, <2>4, <2>5
<1>4. UNCHANGED <<relations, doubtful>> \/ FillRelations
      BY DEF PullCompletes, ToNodeID, Tell, Report
<1>5. relations' \in [Nodes -> Devices \cup {NoDevice, Nameless}] /\ doubtful' \subseteq Nodes
  <2>1. CASE FillRelations
        BY <2>1, FillEffect
  <2>2. QED BY <1>4, <2>1 DEF TypeOK
<1>6. TypeOK'
      BY <1>2, <1>3, <1>5 DEF TypeOK, QuietUnlessReport, data
<1>7. QED BY <1>2, <1>4, <1>6 DEF QuietUnlessReport, data

\* A step of a thread: it goes on, and only the bus, the relations or what is
\* known of a device changes with it.
LEMMA ThreadSteps ==
  ASSUME TypeOK, EventsOfNodes, NEW t \in Threads,
         \/ \E n \in Nodes : NotifyAll(t, n)
         \/ CopyListeners(t) \/ UpdateRelationship(t) \/ OnDeviceChanged(t) \/ DeviceHandled(t)
  PROVE  /\ TypeOK' /\ ThreadSame
         /\ \E e \in Events : GoesOn(t, e) /\ (e.step = "none" \/ e.node \in Nodes)
         /\ DeviceHandled(t) \/ UNCHANGED view
<1>1. ThreadSame
      BY DEF ThreadSame, NotifyAll, CopyListeners, UpdateRelationship, OnDeviceChanged, DeviceHandled, data
<1>2. Active(t) => event[t].node \in Nodes
      BY DEF EventsOfNodes
<1>3. \E e \in Events : GoesOn(t, e) /\ (e.step = "none" \/ e.node \in Nodes)
  <2>1. CASE \E n \in Nodes : NotifyAll(t, n)
        BY <2>1, NotifyAllEffect
  <2>2. CASE CopyListeners(t)
        BY <1>2, <2>2, CopyListenersEffect DEF CopyListeners, Active
  <2>3. CASE UpdateRelationship(t)
        BY <1>2, <2>3, UpdateEffect
  <2>4. CASE OnDeviceChanged(t)
        BY <1>2, <2>4, OnDeviceChangedEffect DEF OnDeviceChanged, Active
  <2>5. CASE DeviceHandled(t)
        BY <1>2, <2>5, DeviceHandledEffect DEF DeviceHandled, Active
  <2>6. QED BY <2>1, <2>2, <2>3, <2>4, <2>5
<1>4. event' \in [Threads -> Events]
      BY <1>3, OneThread
<1>5. online' \subseteq Nodes
  <2>1. ASSUME NEW n \in Nodes, NotifyAll(t, n) PROVE online' \subseteq Nodes
        BY <2>1 DEF TypeOK, NotifyAll
  <2>2. CASE UNCHANGED online
        BY <2>2 DEF TypeOK
  <2>3. QED BY <2>1, <2>2 DEF CopyListeners, UpdateRelationship, OnDeviceChanged, DeviceHandled
<1>6. relations' \in [Nodes -> Devices \cup {NoDevice, Nameless}]
  <2>1. CASE UpdateRelationship(t)
    <3>1. GetUdid(event[t].node) \subseteq Devices \cup {Nameless}
          BY <2>1, UpdateEffect, PipeAssumption DEF GetUdid
    <3>2. PICK n \in Nodes : n = event[t].node
          BY <2>1, UpdateEffect
    <3>3. \E u \in Devices \cup {NoDevice, Nameless} :
            relations' \in {relations, [relations EXCEPT ![n] = u]}
          BY <2>1, <3>1, <3>2 DEF UpdateRelationship, Relate
    <3>4. QED BY <3>3 DEF TypeOK
  <2>2. CASE ~UpdateRelationship(t)
        BY <2>2 DEF TypeOK, NotifyAll, CopyListeners, OnDeviceChanged, DeviceHandled
  <2>3. QED BY <2>1, <2>2
<1>7. view' \in [Devices -> Status \cup {"unknown"}]
  <2>1. CASE DeviceHandled(t)
    <3>1. Told(event[t]) \in Status
          BY EventFields DEF Told, Status
    <3>2. QED BY <2>1, <3>1 DEF DeviceHandled, TypeOK
  <2>2. CASE ~DeviceHandled(t)
        BY <2>2 DEF TypeOK, NotifyAll, CopyListeners, OnDeviceChanged, UpdateRelationship
  <2>3. QED BY <2>1, <2>2
<1>8. unsure' \subseteq Devices /\ doubtful' \subseteq Nodes
  <2>1. ASSUME NEW n \in Nodes, NotifyAll(t, n)
        PROVE  unsure' \subseteq Devices /\ doubtful' \subseteq Nodes
        BY <2>1, PipeAssumption DEF TypeOK, NotifyAll
  <2>2. CASE UpdateRelationship(t)
    <3>1. event[t].node \in Nodes /\ Owner[event[t].node] \in Devices
          BY <2>2, UpdateEffect, PipeAssumption
    <3>2. doubtful' \subseteq doubtful \cup {event[t].node}
          BY <2>2 DEF UpdateRelationship
    <3>3. unsure' \subseteq unsure \cup {Owner[event[t].node]}
          BY <2>2, UpdateEffect
    <3>4. QED BY <3>1, <3>2, <3>3 DEF TypeOK
  <2>3. CASE CopyListeners(t) \/ OnDeviceChanged(t) \/ DeviceHandled(t)
        BY <2>3 DEF TypeOK, CopyListeners, OnDeviceChanged, DeviceHandled, history
  <2>4. QED BY <2>1, <2>2, <2>3
<1>9. TypeOK'
      BY <1>1, <1>4, <1>5, <1>6, <1>7, <1>8 DEF TypeOK, ThreadSame, Events, Steps
<1>10. DeviceHandled(t) \/ UNCHANGED view
      BY DEF NotifyAll, CopyListeners, OnDeviceChanged, UpdateRelationship
<1>11. QED BY <1>1, <1>3, <1>9, <1>10

-----------------------------------------------------------------------------
\* The steps of the system, as the invariants see them.
DataStep ==
  \/ Start \/ Stop \/ WatchData \/ NotifyDataListeners \/ OnMessage \/ MessageHandled
  \/ \E on \in BOOLEAN : RegOnDataReceive(on)

ReportStep ==
  \/ PullCompletes \/ ToNodeID \/ FillRelations \/ Tell
  \/ \E d \in Devices : Report(d)

ThreadStep(t) ==
  \/ \E n \in Nodes : NotifyAll(t, n)
  \/ CopyListeners(t) \/ UpdateRelationship(t) \/ OnDeviceChanged(t) \/ DeviceHandled(t)

DeviceCall == WatchDevice \/ \E on \in BOOLEAN : RegOnDeviceChange(on)

\* These are all there are.
LEMMA StepKinds ==
  Next => DataStep \/ ReportStep \/ DeviceCall \/ \E t \in Threads : ThreadStep(t)
<1> SUFFICES ASSUME Next PROVE DataStep \/ ReportStep \/ DeviceCall \/ \E t \in Threads : ThreadStep(t)
    OBVIOUS
<1> USE DEF DataStep, ReportStep, DeviceCall, ThreadStep
<1>1. ASSUME NEW on \in BOOLEAN, RegOnDataReceive(on) \/ RegOnDeviceChange(on)
      PROVE  DataStep \/ DeviceCall
      BY <1>1
<1>2. ASSUME NEW t \in Threads, NEW n \in Nodes, NotifyAll(t, n) PROVE ThreadStep(t)
      BY <1>2
<1>3. ASSUME NEW t \in Threads,
             CopyListeners(t) \/ UpdateRelationship(t) \/ OnDeviceChanged(t) \/ DeviceHandled(t)
      PROVE  ThreadStep(t)
      BY <1>3
<1>4. ASSUME NEW d \in Devices, Report(d) PROVE ReportStep
      BY <1>4
<1>5. QED BY Zenon, <1>1, <1>2, <1>3, <1>4 DEF Next

\* A call about devices.
LEMMA DeviceCalls ==
  ASSUME TypeOK, DeviceCall
  PROVE  /\ TypeOK'
         /\ UNCHANGED <<dataBusMap, dataListener, onDataReceive, receiving, stuck, receiver, online,
                        event, relations, report, history>>
         /\ \/ /\ WatchDevice /\ caller.step = "watchDevice" /\ caller'.step = "idle"
               /\ deviceListener' = caller.on /\ \A d \in Devices : view'[d] = "unknown"
               /\ UNCHANGED onDeviceChange
            \/ /\ ~InDeviceHandler /\ caller.step = "idle" /\ caller'.step = "watchDevice"
               /\ onDeviceChange' = caller'.on /\ UNCHANGED <<deviceListener, view>>
<1> DEFINE Callers == [step : {"idle", "watchData", "watchDevice"}, on : BOOLEAN]
<1>1. caller \in Callers /\ caller.on \in BOOLEAN
      BY DEF TypeOK
<1>2. CASE WatchDevice
  <2>1. Return
        BY <1>2 DEF WatchDevice
  <2>2. caller' \in Callers /\ caller'.step = "idle"
        BY <1>1, <2>1 DEF Return, GoTo
  <2>3. /\ caller.step = "watchDevice" /\ deviceListener' = caller.on
        /\ view' = [d \in Devices |-> "unknown"]
        /\ UNCHANGED <<dataBusMap, dataListener, onDataReceive, receiving, stuck, receiver,
                       onDeviceChange, online, event, relations, report, history>>
        BY <1>2 DEF WatchDevice, Calling, data
  <2>4. TypeOK'
        BY <1>1, <2>2, <2>3 DEF TypeOK, history
  <2>5. QED BY <1>2, <2>2, <2>3, <2>4
<1>3. ASSUME NEW on \in BOOLEAN, RegOnDeviceChange(on)
      PROVE  /\ TypeOK'
             /\ UNCHANGED <<dataBusMap, dataListener, onDataReceive, receiving, stuck, receiver,
                            online, event, relations, report, history>>
             /\ ~InDeviceHandler /\ caller.step = "idle" /\ caller'.step = "watchDevice"
             /\ onDeviceChange' = caller'.on /\ UNCHANGED <<deviceListener, view>>
  <2>1. caller' \in Callers /\ caller'.step = "watchDevice" /\ caller'.on = on
        BY <1>3 DEF RegOnDeviceChange, GoTo
  <2>2. /\ UNCHANGED <<dataBusMap, dataListener, onDataReceive, receiving, stuck, receiver,
                       deviceListener, online, event, view, relations, report, history>>
        /\ ~InDeviceHandler /\ caller.step = "idle" /\ onDeviceChange' = on
        BY <1>3 DEF RegOnDeviceChange, Calling, data
  <2>3. TypeOK'
        BY <2>1, <2>2 DEF TypeOK, history
  <2>4. QED BY <2>1, <2>2, <2>3
<1>4. QED BY <1>2, <1>3 DEF DeviceCall

\* A thread gets into the handler only where one is set.
LEMMA OnlyWhereSet ==
  ASSUME TypeOK, EventsOfNodes, NEW t \in Threads, ThreadStep(t),
         InDeviceHandler => onDeviceChange
  PROVE  (InDeviceHandler => onDeviceChange)'
<1>1. onDeviceChange' = onDeviceChange
      BY ThreadSteps DEF ThreadStep, ThreadSame
<1>2. ASSUME InDeviceHandler' PROVE onDeviceChange
  <2>1. PICK u \in Threads : event'[u].step \in {"inOffline", "inType"}
        BY <1>2 DEF InDeviceHandler
  <2>2. CASE u # t
        BY <2>1, <2>2, ThreadSteps, OneThread DEF ThreadStep, InDeviceHandler
  <2>3. CASE u = t
    <3>1. \A e : GoesOn(t, e) => event'[t] = e
          BY OneThread
    <3>2. ASSUME NEW n \in Nodes, NotifyAll(t, n) PROVE FALSE
          BY <2>1, <2>3, <3>1, <3>2, NotifyAllEffect
    <3>3. ~CopyListeners(t)
          BY <2>1, <2>3, <3>1, CopyListenersEffect
    <3>4. ~UpdateRelationship(t)
          BY <2>1, <2>3, <3>1, UpdateEffect
    <3>5. ~DeviceHandled(t)
          BY <2>1, <2>3, <3>1, DeviceHandledEffect
    <3>6. OnDeviceChanged(t) => onDeviceChange
          BY <2>1, <2>3, <3>1, OnDeviceChangedEffect
    <3>7. QED BY <3>2, <3>3, <3>4, <3>5, <3>6 DEF ThreadStep
  <2>4. QED BY <2>2, <2>3
<1>3. QED BY <1>1, <1>2

\* Every step keeps the invariant of the registrations.
LEMMA PipeStep == PipeInv /\ [Next]_vars => PipeInv'
<1> SUFFICES ASSUME PipeInv, [Next]_vars PROVE PipeInv'
    OBVIOUS
<1> USE DEF PipeInv
<1>1. CASE DataStep
  <2>1. /\ TypeOK' /\ DeviceSame
        BY <1>1, DataSteps DEF DataStep
  <2>2. EventsOfNodes' /\ DeviceRegistered'
        BY <2>1 DEF DeviceSame, EventsOfNodes, DeviceRegistered, Active, Calling
  <2>3. (InDeviceHandler => onDeviceChange)'
        BY <2>1 DEF DeviceSame, NoCallAfterClear, InDeviceHandler
  <2>4. (InDataHandler => onDataReceive)'
        BY <1>1 DEF DataStep, NoCallAfterClear, InDataHandler, Start, Stop, WatchData,
                    NotifyDataListeners, OnMessage, MessageHandled, RegOnDataReceive, data
  <2>5. QED BY <2>1, <2>2, <2>3, <2>4 DEF NoCallAfterClear
<1>2. CASE ReportStep
  <2>1. /\ TypeOK' /\ UNCHANGED <<caller, onDataReceive, receiver, deviceListener, onDeviceChange,
                                  event, view>>
        BY <1>2, ReportSteps DEF ReportStep
  <2>2. EventsOfNodes' /\ DeviceRegistered' /\ NoCallAfterClear'
        BY <2>1 DEF EventsOfNodes, DeviceRegistered, Active, Calling, NoCallAfterClear,
                    InDataHandler, InDeviceHandler
  <2>3. QED BY <2>1, <2>2
<1>3. CASE DeviceCall
  <2>1. EventsOfNodes'
        BY <1>3, DeviceCalls DEF EventsOfNodes, Active
  <2>2. NoCallAfterClear'
        BY <1>3, DeviceCalls DEF NoCallAfterClear, InDataHandler, InDeviceHandler
  <2>3. DeviceRegistered'
        BY <1>3, DeviceCalls DEF DeviceRegistered, Calling
  <2>4. QED BY <1>3, <2>1, <2>2, <2>3, DeviceCalls
<1>4. ASSUME NEW t \in Threads, ThreadStep(t) PROVE PipeInv'
  <2>1. TypeOK' /\ ThreadSame
        BY <1>4, ThreadSteps DEF ThreadStep
  <2>2. PICK e \in Events : GoesOn(t, e) /\ (e.step = "none" \/ e.node \in Nodes)
        BY <1>4, ThreadSteps DEF ThreadStep
  <2>3. event'[t] = e /\ \A u \in Threads : u # t => event'[u] = event[u]
        BY <2>2, OneThread
  <2>4. EventsOfNodes'
        BY <2>2, <2>3 DEF EventsOfNodes, Active
  <2>5. NoCallAfterClear'
        BY <1>4, <2>1, OnlyWhereSet DEF NoCallAfterClear, InDataHandler, ThreadSame
  <2>6. DeviceRegistered'
    <3>1. CASE UNCHANGED view
          BY <2>1, <3>1 DEF DeviceRegistered, ThreadSame, Calling
    <3>2. CASE DeviceHandled(t)
          BY <2>1, <3>2 DEF DeviceRegistered, ThreadSame, Calling, DeviceHandled,
                            NoCallAfterClear, InDeviceHandler
    <3>3. QED BY <1>4, <3>1, <3>2, ThreadSteps DEF ThreadStep
  <2>7. QED BY <2>1, <2>4, <2>5, <2>6
<1>5. CASE UNCHANGED vars
      BY <1>5 DEF vars, data, device, history, TypeOK, NoCallAfterClear, DeviceRegistered, EventsOfNodes,
                  InDataHandler, InDeviceHandler, Calling, Active
<1>6. QED BY <1>1, <1>2, <1>3, <1>4, <1>5, StepKinds

\* The registrations' invariant holds throughout.
LEMMA PipeInvariant == Spec => []PipeInv
<1>1. Init => PipeInv
      BY PipeInit
<1>2. QED BY <1>1, PipeStep, PTL DEF Spec

\* A listener that is no longer wanted goes, or is known to be stuck.
LEMMA DataRegisteredStep ==
  ASSUME PipeInv, DataRegistered, [Next]_vars
  PROVE  DataRegistered'
<1> USE DEF DataRegistered, Calling
<1>1. CASE Start \/ Stop
      BY <1>1 DEF Start, Stop
<1>2. CASE WatchData
      BY <1>2 DEF WatchData, Return, GoTo, Refused, PipeInv, TypeOK
<1>3. ASSUME NEW on \in BOOLEAN, RegOnDataReceive(on) PROVE DataRegistered'
      BY <1>3 DEF RegOnDataReceive, GoTo, PipeInv, TypeOK
<1>4. CASE NotifyDataListeners \/ OnMessage \/ MessageHandled \/ UNCHANGED vars
      BY <1>4 DEF NotifyDataListeners, OnMessage, MessageHandled, data, vars
<1>5. CASE ReportStep
      BY <1>5, ReportSteps DEF ReportStep, PipeInv
<1>6. CASE DeviceCall
      BY <1>6, DeviceCalls DEF PipeInv
<1>7. ASSUME NEW t \in Threads, ThreadStep(t) PROVE DataRegistered'
      BY <1>7, ThreadSteps DEF ThreadStep, ThreadSame, PipeInv
<1>8. QED BY <1>1, <1>2, <1>3, <1>4, <1>5, <1>6, <1>7, StepKinds DEF DataStep

-----------------------------------------------------------------------------
\* A thread that only goes on keeps its id and its change.
LEMMA GoesOnSame ==
  ASSUME PipeInv, NEW t \in Threads, ThreadStep(t), ~(\E n \in Nodes : NotifyAll(t, n))
  PROVE  \E e \in Events :
           /\ GoesOn(t, e) /\ Active(t) /\ event[t].node \in Nodes /\ UNCHANGED online
           /\ e.step = "none" \/ (e.node = event[t].node /\ e.type = event[t].type)
<1>1. CASE CopyListeners(t)
      BY <1>1, CopyListenersEffect DEF PipeInv, CopyListeners, Active, EventsOfNodes
<1>2. CASE UpdateRelationship(t)
      BY <1>2, UpdateEffect DEF PipeInv, UpdateRelationship, Active, EventsOfNodes
<1>3. CASE OnDeviceChanged(t)
      BY <1>3, OnDeviceChangedEffect DEF PipeInv, OnDeviceChanged, Active, EventsOfNodes
<1>4. CASE DeviceHandled(t)
      BY <1>4, DeviceHandledEffect DEF PipeInv, DeviceHandled, Active, EventsOfNodes
<1>5. QED BY <1>1, <1>2, <1>3, <1>4 DEF ThreadStep

\* The only change of a device under way is handled as it is.
LEMMA EventsStep ==
  ASSUME PipeInv, EventsAreTrue, [Next]_vars
  PROVE  EventsAreTrue'
<1>1. CASE DataStep \/ ReportStep \/ DeviceCall \/ UNCHANGED vars
  <2>1. UNCHANGED <<event, online, unsure>>
        BY <1>1, DataSteps, ReportSteps, DeviceCalls
           DEF DataStep, ReportStep, DeviceSame, PipeInv, vars, device, history
  <2>2. QED BY <2>1 DEF EventsAreTrue, Active
<1>2. ASSUME NEW t \in Threads, NEW n \in Nodes, NotifyAll(t, n) PROVE EventsAreTrue'
  <2>1. PICK e \in Events : /\ GoesOn(t, e) /\ e.step = "copy" /\ e.node = n
                            /\ e.type = IF n \in online THEN "offline" ELSE "online"
        BY <1>2, NotifyAllEffect DEF PipeInv
  <2>2. event'[t] = e /\ \A u \in Threads : u # t => event'[u] = event[u]
        BY <2>1, OneThread DEF PipeInv
  <2>3. /\ Owner[n] \notin unsure' =>
             \A u \in Threads : Active(u) => Owner[event[u].node] # Owner[n]
        /\ \A d : d # Owner[n] => (d \in unsure' <=> d \in unsure)
        /\ \A m \in online : m = n \/ Owner[m] # Owner[n]
        /\ online' = IF n \in online THEN online \ {n} ELSE online \cup {n}
        BY <1>2 DEF NotifyAll, MayChange, Handled, Active, PipeInv, EventsOfNodes
  <2>4. ASSUME NEW u \in Threads, NEW v \in Threads, Active(u)', Active(v)',
               Owner[event'[u].node] = Owner[event'[v].node], Owner[event'[u].node] \notin unsure'
        PROVE  u = v
        BY <2>1, <2>2, <2>3, <2>4 DEF Active, EventsAreTrue
  <2>5. ASSUME NEW u \in Threads, Active(u)', Owner[event'[u].node] \notin unsure'
        PROVE  /\ event'[u].type = IF event'[u].node \in online' THEN "online" ELSE "offline"
               /\ \A m \in online' : Owner[m] = Owner[event'[u].node] => m = event'[u].node
    <3>1. CASE u = t
          BY <2>1, <2>2, <2>3, <3>1
    <3>2. CASE u # t
      <4>1. /\ Active(u) /\ event'[u] = event[u]
            BY <2>2, <2>5, <3>2 DEF Active
      <4>2. Owner[event[u].node] # Owner[n] /\ Owner[event[u].node] \notin unsure
            BY <2>3, <2>5, <4>1
      <4>3. /\ event[u].type = IF event[u].node \in online THEN "online" ELSE "offline"
            /\ \A m \in online : Owner[m] = Owner[event[u].node] => m = event[u].node
            BY <4>1, <4>2 DEF EventsAreTrue
      <4>4. QED BY <2>3, <4>1, <4>2, <4>3
    <3>3. QED BY <3>1, <3>2
  <2>6. QED BY <2>4, <2>5 DEF EventsAreTrue
<1>3. ASSUME NEW t \in Threads, ThreadStep(t), ~(\E n \in Nodes : NotifyAll(t, n))
      PROVE  EventsAreTrue'
  <2>1. PICK e \in Events :
          /\ GoesOn(t, e) /\ Active(t) /\ UNCHANGED online
          /\ e.step = "none" \/ (e.node = event[t].node /\ e.type = event[t].type)
        BY <1>3, GoesOnSame
  <2>2. event'[t] = e /\ \A u \in Threads : u # t => event'[u] = event[u]
        BY <2>1, OneThread DEF PipeInv
  <2>3. \A u \in Threads : Active(u)' =>
          Active(u) /\ event'[u].node = event[u].node /\ event'[u].type = event[u].type
        BY <2>1, <2>2 DEF Active
  <2>4. unsure \subseteq unsure'
        BY <1>3, UpdateEffect
           DEF ThreadStep, PipeInv, CopyListeners, OnDeviceChanged, DeviceHandled, history
  <2>5. QED BY <2>1, <2>3, <2>4 DEF EventsAreTrue
<1>4. QED BY <1>1, <1>2, <1>3, StepKinds DEF ThreadStep

\* The bus tells the udid of the network id, or none.
LEMMA UdidIsTold ==
  ASSUME NEW n \in Nodes
  PROVE  GetUdid(n) \subseteq {Owner[n], Nameless} /\ Owner[n] \in Devices /\ Owner[n] \notin {NoDevice, Nameless}
BY PipeAssumption DEF GetUdid

\* What is known of devices is right, or there is a thread that will tell.
LEMMA ViewStep ==
  ASSUME PipeInv, EventsAreTrue, ViewInv, [Next]_vars
  PROVE  ViewInv'
<1>1. CASE DataStep \/ ReportStep \/ UNCHANGED vars
  <2>1. /\ UNCHANGED <<event, online, view, unsure>>
        /\ Calling("watchDevice")' = Calling("watchDevice")
        BY <1>1, DataSteps, ReportSteps
           DEF DataStep, ReportStep, DeviceSame, PipeInv, vars, device, history, Calling
  <2>2. QED BY <2>1 DEF ViewInv, Telling, Handled, Present
<1>2. CASE DeviceCall
  <2>1. UNCHANGED <<event, online, unsure>>
        BY <1>2, DeviceCalls DEF PipeInv, history
  <2>2. Calling("watchDevice")' \/ \A d \in Devices : view'[d] = "unknown"
        BY <1>2, DeviceCalls DEF PipeInv, Calling
  <2>3. \A t \in Threads : event[t].step = "update" => Owner[event[t].node] \in Devices
        BY PipeAssumption DEF PipeInv, EventsOfNodes, Active
  <2>4. QED BY <2>1, <2>2, <2>3 DEF ViewInv, Telling, Handled
<1>3. ASSUME NEW t \in Threads, NEW n \in Nodes, NotifyAll(t, n) PROVE ViewInv'
  <2>1. PICK e \in Events : GoesOn(t, e) /\ e.step = "copy" /\ e.node = n
        BY <1>3, NotifyAllEffect DEF PipeInv
  <2>2. /\ event'[t] = e /\ \A u \in Threads : u # t => event'[u] = event[u]
        /\ UNCHANGED <<caller, view>>
        /\ \A d : d # Owner[n] => (d \in unsure' <=> d \in unsure)
        /\ \A u \in Threads : Active(u) /\ Owner[event[u].node] = Owner[n] => Owner[n] \in unsure'
        BY <1>3, <2>1, OneThread DEF PipeInv, NotifyAll, Handled, Active
  <2>3. \A m \in Nodes : m # n => (m \in online' <=> m \in online)
        BY <1>3 DEF NotifyAll
  <2>4. ASSUME NEW d \in Devices, Handled(d)' PROVE Handled(d) /\ Present(d)' = Present(d)
    <3>1. Owner[n] # d
          BY <2>1, <2>2, <2>4 DEF Handled
    <3>2. Handled(d)
          BY <1>3, <2>2, <2>4 DEF Handled, NotifyAll
    <3>3. online \subseteq Nodes /\ online' \subseteq Nodes
          BY <1>3 DEF PipeInv, TypeOK, NotifyAll
    <3>4. \A m : (m \in online' /\ Owner[m] = d) <=> (m \in online /\ Owner[m] = d)
          BY <2>3, <3>1, <3>3
    <3>5. QED BY <3>2, <3>4 DEF Present
  <2>5. ASSUME NEW u \in Threads, event'[u].step \notin {"none", "copy"}
        PROVE  /\ event'[u] = event[u]
               /\ Owner[event[u].node] \in unsure => Owner[event[u].node] \in unsure'
        BY <2>1, <2>2, <2>5 DEF Active
  <2>6. ASSUME NEW u \in Threads, Telling(u)'
        PROVE  /\ event'[u].device \in {Owner[event'[u].node], Nameless}
               /\ event'[u].device = Owner[event'[u].node] \/ Owner[event'[u].node] \in unsure'
        BY <2>5, <2>6 DEF ViewInv, Telling
  <2>7. ASSUME NEW d \in Devices \ unsure', Handled(d)' PROVE d \notin unsure
    <3>1. Owner[n] # d
          BY <2>1, <2>2, <2>7 DEF Handled
    <3>2. QED BY <2>2, <2>7, <3>1
  <2>8. QED BY <2>2, <2>4, <2>5, <2>6, <2>7 DEF ViewInv, Calling
<1>4. ASSUME NEW t \in Threads, CopyListeners(t) PROVE ViewInv'
  <2>1. PICK e \in Events : /\ GoesOn(t, e) /\ e.step = "update" /\ e.node = event[t].node
                            /\ e.copied = deviceListener
        BY <1>4, CopyListenersEffect DEF PipeInv
  <2>2. /\ event'[t] = e /\ \A u \in Threads : u # t => event'[u] = event[u]
        /\ UNCHANGED <<caller, view, online, unsure>> /\ event[t].step = "copy"
        /\ event[t].node \in Nodes /\ Owner[event[t].node] \in Devices
        BY <1>4, <2>1, OneThread, PipeAssumption DEF PipeInv, CopyListeners, EventsOfNodes, Active, history
  <2>3. \A u \in Threads : event'[u].node = event[u].node /\ (event'[u].step # "none" <=> event[u].step # "none")
        BY <2>1, <2>2
  <2>4. \A d \in Devices : Handled(d)' = Handled(d) /\ Present(d)' = Present(d)
        BY <2>2, <2>3 DEF Handled, Present
  <2>5. ~Calling("watchDevice") /\ ~deviceListener => view[Owner[event[t].node]] = "unknown"
        BY <2>2 DEF PipeInv, DeviceRegistered
  <2>6. ASSUME ~Calling("watchDevice"), NEW u \in Threads,
               event'[u].step = "update", ~event'[u].copied, Owner[event'[u].node] \notin unsure
        PROVE  view'[Owner[event'[u].node]] = "unknown"
        BY <2>1, <2>2, <2>5, <2>6 DEF ViewInv
  <2>7. ASSUME NEW u \in Threads, Telling(u)'
        PROVE  /\ event'[u].device \in {Owner[event'[u].node], Nameless}
               /\ event'[u].device = Owner[event'[u].node] \/ Owner[event'[u].node] \in unsure'
        BY <2>1, <2>2, <2>7 DEF ViewInv, Telling
  <2>8. QED BY <2>2, <2>4, <2>6, <2>7 DEF ViewInv, Calling
<1>5. ASSUME NEW t \in Threads, UpdateRelationship(t) PROVE ViewInv'
  <2>1. PICK e \in Events, v \in GetUdid(event[t].node) :
          /\ GoesOn(t, e)
          /\ unsure' = IF v = Nameless THEN unsure \cup {Owner[event[t].node]} ELSE unsure
          /\ IF ~event[t].copied THEN e.step = "none"
             ELSE e.step = "offline" /\ e.node = event[t].node /\ e.device = v
        BY <1>5, UpdateEffect DEF PipeInv
  <2>2. /\ event'[t] = e /\ \A u \in Threads : u # t => event'[u] = event[u]
        /\ UNCHANGED <<caller, view, online>> /\ event[t].step = "update"
        /\ event[t].node \in Nodes /\ v \in {Owner[event[t].node], Nameless}
    <3>1. event[t].node \in Nodes /\ event[t].step = "update" /\ UNCHANGED <<caller, view, online>>
          BY <1>5, UpdateEffect DEF PipeInv, UpdateRelationship
    <3>2. v \in {Owner[event[t].node], Nameless}
          BY <2>1, <3>1, UdidIsTold
    <3>3. QED BY <2>1, <3>1, <3>2, OneThread DEF PipeInv
  <2>3. ASSUME ~Calling("watchDevice"), NEW d \in Devices \ unsure', Handled(d)', view[d] # "unknown"
        PROVE  view[d] = Present(d)
    <3>0. d \notin unsure
          BY <2>1, <2>3
    <3>1. CASE Owner[event[t].node] = d
      <4>1. e.step = "none"
            BY <2>1, <2>2, <2>3, <3>1 DEF Handled
      <4>2. ~event[t].copied
            BY <2>1, <4>1
      <4>3. QED BY <2>2, <2>3, <3>0, <3>1, <4>2 DEF ViewInv
    <3>2. CASE Owner[event[t].node] # d
      <4>1. Handled(d)
            BY <2>2, <2>3, <3>2 DEF Handled
      <4>2. QED BY <2>3, <3>0, <4>1 DEF ViewInv
    <3>3. QED BY <3>1, <3>2
  <2>4. \A d \in Devices : Present(d)' = Present(d)
        BY <2>2 DEF Present
  <2>5. ASSUME NEW u \in Threads, event'[u].step = "update" PROVE event'[u] = event[u]
        BY <2>1, <2>2, <2>5
  <2>6. ASSUME NEW u \in Threads, Telling(u)'
        PROVE  /\ event'[u].device \in {Owner[event'[u].node], Nameless}
               /\ event'[u].device = Owner[event'[u].node] \/ Owner[event'[u].node] \in unsure'
        BY <2>1, <2>2, <2>6 DEF ViewInv, Telling
  <2>7. unsure \subseteq unsure'
        BY <2>1
  <2>8. QED BY <2>2, <2>3, <2>4, <2>5, <2>6, <2>7 DEF ViewInv, Calling
<1>6. ASSUME NEW t \in Threads, OnDeviceChanged(t) PROVE ViewInv'
  <2>1. PICK e \in Events :
          /\ GoesOn(t, e)
          /\ \/ event[t].step = "type" /\ ~onDeviceChange /\ e.step = "none"
             \/ /\ e.node = event[t].node /\ e.device = event[t].device
                /\ e.step \in {"type", "inOffline", "inType"}
        BY <1>6, OnDeviceChangedEffect DEF PipeInv
  <2>2. /\ event'[t] = e /\ \A u \in Threads : u # t => event'[u] = event[u]
        /\ UNCHANGED <<caller, view, online, unsure>> /\ event[t].step \in {"offline", "type"}
        BY <1>6, <2>1, OneThread DEF PipeInv, OnDeviceChanged, history
  <2>3. ASSUME ~Calling("watchDevice"), NEW d \in Devices \ unsure', Handled(d)', view[d] # "unknown"
        PROVE  view[d] = Present(d)
    <3>1. onDeviceChange
          BY <2>3 DEF PipeInv, DeviceRegistered
    <3>2. e.step # "none" /\ e.node = event[t].node
          BY <2>1, <3>1
    <3>3. Handled(d)
          BY <2>2, <2>3, <3>2 DEF Handled
    <3>4. QED BY <2>2, <2>3, <3>3 DEF ViewInv
  <2>4. \A d \in Devices : Present(d)' = Present(d)
        BY <2>2 DEF Present
  <2>5. ASSUME NEW u \in Threads, event'[u].step = "update" PROVE event'[u] = event[u]
        BY <2>1, <2>2, <2>5
  <2>6. ASSUME NEW u \in Threads, Telling(u)'
        PROVE  /\ event'[u].device \in {Owner[event'[u].node], Nameless}
               /\ event'[u].device = Owner[event'[u].node] \/ Owner[event'[u].node] \in unsure'
        BY <2>1, <2>2, <2>6 DEF ViewInv, Telling
  <2>7. QED BY <2>2, <2>3, <2>4, <2>5, <2>6 DEF ViewInv, Calling
<1>7. ASSUME NEW t \in Threads, DeviceHandled(t) PROVE ViewInv'
  <2>1. PICK e \in Events :
          /\ GoesOn(t, e)
          /\ \/ event[t].step = "inType" /\ e.step = "none"
             \/ /\ event[t].step = "inOffline" /\ e.step = "type" /\ e.node = event[t].node
                /\ e.device = event[t].device
        BY <1>7, DeviceHandledEffect DEF PipeInv
  <2>2. /\ event'[t] = e /\ \A u \in Threads : u # t => event'[u] = event[u]
        /\ UNCHANGED <<caller, online, unsure>> /\ event[t].step \in {"inOffline", "inType"}
        /\ event[t].node \in Nodes
        /\ event[t].device \in {Owner[event[t].node], Nameless}
        /\ event[t].device = Owner[event[t].node] \/ Owner[event[t].node] \in unsure
        BY <1>7, <2>1, OneThread
           DEF PipeInv, DeviceHandled, EventsOfNodes, Active, ViewInv, Telling, history
  <2>3. PICK o \in Devices : o = Owner[event[t].node] /\ o # Nameless
        BY <2>2, UdidIsTold
  <2>4. /\ \A d \in Devices : d # o => view'[d] = view[d]
        /\ o \notin unsure => view'[o] = Told(event[t])
    <3>1. view \in [Devices -> Status \cup {"unknown"}]
          BY DEF PipeInv, TypeOK
    <3>2. CASE event[t].device = Nameless
      <4>1. view' = view
            BY <1>7, <3>2 DEF DeviceHandled
      <4>2. o \in unsure
            BY <2>2, <2>3, <3>2
      <4>3. QED BY <4>1, <4>2
    <3>3. CASE event[t].device # Nameless
      <4>1. view' = [view EXCEPT ![o] = Told(event[t])]
            BY <1>7, <2>2, <2>3, <3>3 DEF DeviceHandled
      <4>2. QED BY <3>1, <4>1
    <3>4. QED BY <3>2, <3>3
  <2>5. o \notin unsure => Told(event[t]) = Present(o) \/ event[t].step = "inOffline"
    <3>1. event[t].step = "inType" => Told(event[t]) = event[t].type
          BY DEF Told
    <3>2. ASSUME o \notin unsure
          PROVE  /\ event[t].type = IF event[t].node \in online THEN "online" ELSE "offline"
                 /\ \A m \in online : Owner[m] = Owner[event[t].node] => m = event[t].node
          BY <2>2, <2>3, <3>2 DEF EventsAreTrue, Active
    <3>3. o \notin unsure => event[t].type = Present(o)
          BY <2>3, <3>2 DEF Present
    <3>4. QED BY <2>2, <3>1, <3>3
  <2>6. ASSUME ~Calling("watchDevice"), NEW d \in Devices \ unsure', Handled(d)', view'[d] # "unknown"
        PROVE  view'[d] = Present(d)
    <3>1. CASE d = o
      <4>1. e.step = "none"
            BY <2>1, <2>2, <2>3, <2>6, <3>1 DEF Handled
      <4>2. QED BY <2>1, <2>2, <2>4, <2>5, <2>6, <3>1, <4>1
    <3>2. CASE d # o
      <4>1. Handled(d)
            BY <2>2, <2>3, <2>6, <3>2 DEF Handled
      <4>2. QED BY <2>2, <2>4, <2>6, <3>2, <4>1 DEF ViewInv
    <3>3. QED BY <3>1, <3>2
  <2>7. \A d \in Devices : Present(d)' = Present(d)
        BY <2>2 DEF Present
  <2>8. ASSUME ~Calling("watchDevice"), NEW u \in Threads, event'[u].step = "update",
               ~event'[u].copied, Owner[event'[u].node] \notin unsure
        PROVE  view'[Owner[event'[u].node]] = "unknown"
    <3>1. u # t /\ event'[u] = event[u]
          BY <2>1, <2>2, <2>8
    <3>2. event[u].node \in Nodes /\ Owner[event[u].node] \in Devices /\ Owner[event[u].node] # o
          BY <2>2, <2>3, <2>8, <3>1, PipeAssumption DEF EventsAreTrue, Active, PipeInv, EventsOfNodes
    <3>3. QED BY <2>4, <2>8, <3>1, <3>2 DEF ViewInv
  <2>9. ASSUME NEW u \in Threads, Telling(u)'
        PROVE  /\ event'[u].device \in {Owner[event'[u].node], Nameless}
               /\ event'[u].device = Owner[event'[u].node] \/ Owner[event'[u].node] \in unsure'
        BY <2>1, <2>2, <2>9 DEF ViewInv, Telling
  <2>10. QED BY <2>2, <2>6, <2>7, <2>8, <2>9 DEF ViewInv, Calling
<1>8. QED BY <1>1, <1>2, <1>3, <1>4, <1>5, <1>6, <1>7, StepKinds DEF ThreadStep

\* networkId2Udid_ is right but for the ids that are pending or in doubt.
LEMMA NamesStep == PipeInv /\ NamesInv /\ [Next]_vars => NamesInv'
<1> SUFFICES ASSUME PipeInv, NamesInv, [Next]_vars PROVE NamesInv'
    OBVIOUS
<1>0. /\ relations \in [Nodes -> Devices \cup {NoDevice, Nameless}]
      /\ online \subseteq Nodes /\ doubtful \subseteq Nodes
      BY DEF PipeInv, TypeOK
<1>1. CASE DataStep \/ DeviceCall \/ UNCHANGED vars
  <2>1. UNCHANGED <<event, online, relations, report, doubtful>>
        BY <1>1, DataSteps, DeviceCalls
           DEF DataStep, DeviceSame, PipeInv, vars, device, history
  <2>2. QED BY <2>1 DEF NamesInv, NameInv, Pending, Enters
<1>2. CASE ReportStep
  <2>1. /\ UNCHANGED <<event, online>>
        /\ UNCHANGED <<relations, doubtful>> \/ FillRelations
        BY <1>2, ReportSteps DEF ReportStep, PipeInv
  <2>2. /\ report'.listed = {} \/ (report'.step = "fill" /\ report'.listed = online)
        /\ FillRelations => report'.listed = {}
    <3>1. NoReport.listed = {}
          BY DEF NoReport
    <3>2. ASSUME NEW d \in Devices, Report(d) PROVE report'.listed = {}
      <4>1. PICK s \in {"pull", "search"} : s = IF view[d] = "online" THEN "pull" ELSE "search"
            OBVIOUS
      <4>2. report' = [NoReport EXCEPT !.device = d, !.step = s]
            BY <3>2, <4>1 DEF Report
      <4>3. QED BY <4>2 DEF NoReport
    <3>3. CASE PullCompletes
      <4>1. report.listed = {}
            BY <3>3 DEF PullCompletes, NamesInv
      <4>2. QED BY <3>1, <3>3, <4>1 DEF PullCompletes, PipeInv, TypeOK
    <3>4. FillRelations => report'.listed = {}
      <4>1. \A n : [report EXCEPT !.step = "tell", !.listed = {}, !.node = n].listed = {}
            BY DEF PipeInv, TypeOK
      <4>2. FillRelations => \E n : report' = [report EXCEPT !.step = "tell", !.listed = {}, !.node = n]
            BY Zenon DEF FillRelations
      <4>3. QED BY <4>1, <4>2
    <3>5. Tell => report'.listed = {}
          BY <3>1 DEF Tell
    <3>6. CASE ToNodeID
      <4>1. report.listed = {}
            BY <3>6 DEF ToNodeID, NamesInv
      <4>2. QED BY <3>4, <3>6, <4>1 DEF ToNodeID, PipeInv, TypeOK
    <3>7. QED BY <1>2, <3>2, <3>3, <3>4, <3>5, <3>6 DEF ReportStep
  <2>3. ASSUME NEW n \in Nodes \ doubtful' PROVE NameInv(n)'
    <3>1. n \notin doubtful /\ NameInv(n)
          BY <2>1, <2>3, FillEffect DEF PipeInv, NamesInv
    <3>2. relations'[n] = relations[n] \/ (n \in online /\ relations'[n] = Owner[n])
      <4>1. CASE FillRelations
            BY <2>3, <3>1, <4>1, FillEffect DEF PipeInv, NameInv
      <4>2. CASE ~FillRelations
            BY <2>1, <4>2
      <4>3. QED BY <4>1, <4>2
    <3>3. /\ n \in report'.listed => n \in online
          /\ \A t \in Threads : Enters(t, n)' = Enters(t, n)
          /\ Pending(n)' = Pending(n)
          BY <2>1, <2>2 DEF Enters, Pending
    <3>4. QED BY <2>1, <3>1, <3>2, <3>3 DEF NameInv
  <2>4. QED BY <2>2, <2>3 DEF NamesInv
<1>3. ASSUME NEW t \in Threads, NEW n \in Nodes, NotifyAll(t, n) PROVE NamesInv'
  <2>1. PICK e \in Events : /\ GoesOn(t, e) /\ e.step = "copy" /\ e.node = n
                            /\ e.type = IF n \in online THEN "offline" ELSE "online"
        BY <1>3, NotifyAllEffect DEF PipeInv
  <2>2. /\ event'[t] = e /\ \A u \in Threads : u # t => event'[u] = event[u]
        /\ UNCHANGED <<relations, report>> /\ event[t].step = "none"
        /\ online' = IF n \in online THEN online \ {n} ELSE online \cup {n}
        /\ doubtful' = IF Pending(n) \/ n \in report.listed THEN doubtful \cup {n}
                       ELSE IF n \in online THEN doubtful \ {n} ELSE doubtful
        BY <1>3, <2>1, OneThread DEF PipeInv, NotifyAll
  <2>3. ASSUME n \notin doubtful' PROVE NameInv(n)'
    <3>1. ~Pending(n) /\ n \notin report.listed /\ (n \in online \/ n \notin doubtful)
          BY <2>2, <2>3
    <3>2. \A u \in Threads : Enters(u, n)' <=> u = t
          BY <2>1, <2>2, <3>1 DEF Enters, Pending
    <3>3. Pending(n)'
          BY <2>1, <2>2 DEF Pending
    <3>4. n \in online' => relations[n] = NoDevice
          BY <2>2, <3>1 DEF NamesInv, NameInv
    <3>5. event'[t].type = IF n \in online' THEN "online" ELSE "offline"
          BY <2>1, <2>2
    <3>6. QED BY <2>2, <3>1, <3>2, <3>3, <3>4, <3>5 DEF NameInv
  <2>4. ASSUME NEW m \in Nodes \ doubtful', m # n PROVE NameInv(m)'
    <3>1. m \notin doubtful /\ NameInv(m) /\ (m \in online' <=> m \in online)
          BY <2>2, <2>4 DEF NamesInv
    <3>2. \A u \in Threads : Enters(u, m)' = Enters(u, m) /\ (Enters(u, m) => event'[u] = event[u])
          BY <2>1, <2>2, <2>4 DEF Enters
    <3>3. Pending(m)' = Pending(m)
          BY <3>2 DEF Pending, Enters
    <3>4. QED BY <2>2, <3>1, <3>2, <3>3 DEF NameInv
  <2>5. QED BY <2>2, <2>3, <2>4 DEF NamesInv
<1>4. ASSUME NEW t \in Threads, UpdateRelationship(t) PROVE NamesInv'
  <2>1. PICK n \in Nodes : n = event[t].node
        BY <1>4, UpdateEffect DEF PipeInv
  <2>2. /\ event[t].step = "update" /\ UNCHANGED <<online, report>>
        /\ doubtful' = doubtful \cup {m \in {n} : relations'[m] = Nameless}
        /\ Relate(n, event[t].type)
        BY <1>4, <2>1 DEF UpdateRelationship
  <2>3. PICK e \in Events : GoesOn(t, e) /\ e.step \notin {"copy", "update"}
        BY <1>4, UpdateEffect DEF PipeInv
  <2>4. event'[t] = e /\ \A u \in Threads : u # t => event'[u] = event[u]
        BY <2>3, OneThread DEF PipeInv
  <2>5. \A m \in Nodes : m # n => relations'[m] = relations[m]
        BY <1>0, <2>2 DEF Relate
  <2>6. ASSUME n \notin doubtful' PROVE NameInv(n)'
    <3>1. n \notin doubtful /\ NameInv(n) /\ relations'[n] # Nameless
          BY <2>2, <2>6 DEF NamesInv
    <3>2. Enters(t, n)
          BY <2>1, <2>2 DEF Enters
    <3>3. \A u \in Threads : ~Enters(u, n)'
          BY <2>3, <2>4, <3>1, <3>2 DEF NameInv, Enters
    <3>4. event[t].type = IF n \in online THEN "online" ELSE "offline"
          BY <3>1, <3>2 DEF NameInv
    <3>5. relations'[n] = IF n \in online THEN Owner[n] ELSE NoDevice
      <4>1. CASE n \notin online
            BY <1>0, <2>2, <3>4, <4>1 DEF Relate
      <4>2. CASE n \in online
        <5>1. relations[n] \in {NoDevice, Owner[n]}
              BY <3>1, <4>2 DEF NameInv
        <5>2. PICK u \in GetUdid(n) : relations' =
                IF relations[n] = NoDevice THEN [relations EXCEPT ![n] = u] ELSE relations
              BY <2>2, <3>4, <4>2 DEF Relate
        <5>3. relations[n] = NoDevice => relations'[n] = u
              BY <1>0, <5>2
        <5>4. QED BY <3>1, <4>2, <5>1, <5>2, <5>3, UdidIsTold
      <4>3. QED BY <4>1, <4>2
    <3>6. QED BY <2>2, <3>1, <3>3, <3>5 DEF NameInv
  <2>7. ASSUME NEW m \in Nodes \ doubtful', m # n PROVE NameInv(m)'
    <3>1. m \notin doubtful /\ NameInv(m)
          BY <2>2, <2>7 DEF NamesInv
    <3>2. \A u \in Threads : Enters(u, m)' = Enters(u, m) /\ (Enters(u, m) => event'[u] = event[u])
          BY <2>1, <2>3, <2>4, <2>7 DEF Enters
    <3>3. Pending(m)' = Pending(m)
          BY <3>2 DEF Pending, Enters
    <3>4. QED BY <2>2, <2>5, <2>7, <3>1, <3>2, <3>3 DEF NameInv
  <2>8. QED BY <2>2, <2>6, <2>7 DEF NamesInv
<1>5. ASSUME NEW t \in Threads, CopyListeners(t) \/ OnDeviceChanged(t) \/ DeviceHandled(t)
      PROVE  NamesInv'
  <2>1. UNCHANGED <<online, relations, report, doubtful>>
        BY <1>5 DEF CopyListeners, OnDeviceChanged, DeviceHandled, history
  <2>2. PICK e \in Events :
          /\ GoesOn(t, e)
          /\ IF event[t].step = "copy"
               THEN e.step = "update" /\ e.node = event[t].node /\ e.type = event[t].type
               ELSE event[t].step # "update" /\ e.step \notin {"copy", "update"}
        BY <1>5, CopyListenersEffect, OnDeviceChangedEffect, DeviceHandledEffect
           DEF PipeInv, CopyListeners, OnDeviceChanged, DeviceHandled
  <2>3. event'[t] = e /\ \A u \in Threads : u # t => event'[u] = event[u]
        BY <2>2, OneThread DEF PipeInv
  <2>4. \A u \in Threads, m \in Nodes :
          Enters(u, m)' = Enters(u, m) /\ (Enters(u, m) => event'[u].type = event[u].type)
        BY <2>2, <2>3 DEF Enters
  <2>5. \A m \in Nodes : Pending(m)' = Pending(m)
        BY <2>4 DEF Pending, Enters
  <2>6. QED BY <2>1, <2>4, <2>5 DEF NamesInv, NameInv
<1>6. QED BY <1>1, <1>2, <1>3, <1>4, <1>5, StepKinds DEF ThreadStep

-----------------------------------------------------------------------------
\* The module's type invariant, for any calls, changes and messages.
THEOREM TypeCorrect == Spec => []TypeOK
<1>1. PipeInv => TypeOK
      BY DEF PipeInv
<1>2. QED BY <1>1, PipeInvariant, PTL

\* Neither onDataReceiveHandler_ nor onDeviceChangeHandler_ is called once
\* the database has taken it back, whatever messages and copies of listeners_
\* are under way: it is called and cleared under one mutex.
THEOREM ClearedIsNotCalled == Spec => []NoCallAfterClear
<1>1. PipeInv => NoCallAfterClear
      BY DEF PipeInv
<1>2. QED BY <1>1, PipeInvariant, PTL

\* The database is denied a data handler only without the pipe, with a handler
\* in force, or after it took one back without the pipe; and the last ends with
\* the next time it takes one back.
THEOREM RegisteredAgain == Spec => RegistersAgain
<1>1. Init => DataRegistered
      BY PipeInit
<1>2. PipeInv /\ DataRegistered /\ [Next]_vars => DataRegistered'
      BY DataRegisteredStep
<1>3. PipeInv /\ DataRegistered /\ [Next]_vars =>
        [WatchData /\ caller.on /\ UNCHANGED dataListener => ~dataBusMap \/ receiving \/ stuck]_vars
      BY DEF WatchData, Return, Refused, DataRegistered, Calling, PipeInv, TypeOK
<1>4. QED BY <1>1, <1>2, <1>3, PipeInvariant, PTL DEF Spec, RegistersAgain

\* A database that has registered is told the truth of every device whose last
\* change did not overtake another and had a udid: through any order of
\* registrations, and of the threads of all the other devices.
THEOREM ToldTheTruth == Spec => []ViewIsRight
<1>1. Init => EventsAreTrue /\ ViewInv
      BY PipeInit
<1>2. PipeInv /\ EventsAreTrue /\ [Next]_vars => EventsAreTrue'
      BY EventsStep
<1>3. PipeInv /\ EventsAreTrue /\ ViewInv /\ [Next]_vars => ViewInv'
      BY ViewStep
<1>4. ViewInv => ViewIsRight
      BY DEF ViewInv, ViewIsRight, Present, Calling
<1>5. QED BY <1>1, <1>2, <1>3, <1>4, PipeInvariant, PTL DEF Spec

\* networkId2Udid_ has for every network id that is not in doubt the udid of its
\* device while it is on line, and nothing when it has left; and an id is in
\* doubt no longer than until it leaves in order.
THEOREM NamesAreCurrent == Spec => []NamesCurrent
<1>1. Init => NamesInv
      BY PipeInit
<1>2. PipeInv /\ NamesInv /\ [Next]_vars => NamesInv'
      BY NamesStep
<1>3. NamesInv => NamesCurrent
      BY DEF NamesInv, NameInv, NamesCurrent
<1>4. QED BY <1>1, <1>2, <1>3, PipeInvariant, PTL DEF Spec
=============================================================================
