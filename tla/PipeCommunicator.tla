-------------------------- MODULE PipeCommunicator --------------------------
(***************************************************************************)
(* ProcessCommunicatorImpl over AppPipeMgr over SoftBusAdapter: what the   *)
(* database registers with the bus, and what the bus calls back.           *)
(*                                                                         *)
(* A registration is not atomic: the handler is set under its own mutex,   *)
(* and the communicator is entered in, or taken out of, the adapter's      *)
(* listeners in a second step, which fails if the pipe is not started or   *)
(* the listener is there already.  Device events each run on a detached    *)
(* thread of their own, which copies the listeners first and calls them    *)
(* later; messages come on a thread of the bus.                            *)
(*                                                                         *)
(* The database is not in the repository: one thread of it makes the calls *)
(* below, one after the other, and another one reports the status of an    *)
(* object at a device it was told of.  The bus and the JS layer name a     *)
(* device by a network id, the database by its udid: networkId2Udid_ keeps *)
(* the pairs.  One process has one label, so one pipe and one communicator.*)
(***************************************************************************)
CONSTANTS
  Devices,         (* the udids of the devices the bus reports on          *)
  Nodes,           (* network ids                                          *)
  Owner,           (* the device that joins the network under an id        *)
  Threads,         (* NotifyAll's detached threads.  Bound of a run.       *)
  Calls,           (* what the database does: "data" is for the pipe and   *)
                   (* messages, "device" for changes, "report" for status  *)
  Calm,            (* TRUE in one run: a device changes when the thread of *)
                   (* its last change has ended and no list of the bus is  *)
                   (* in hand, and the bus tells every udid                *)
  NoDevice, Nameless, NoNode

ASSUME PipeAssumption ==
  /\ {NoDevice, Nameless} \cap Devices = {}
  /\ NoDevice # Nameless
  /\ NoNode \notin Nodes
  /\ Owner \in [Nodes -> Devices]
  /\ Calls \subseteq {"data", "device", "report"}
  /\ Calm \in BOOLEAN

VARIABLES
  caller,           (* what the database's call is about to do             *)
  dataBusMap,       (* TRUE: dataBusMap_ has the pipe                      *)
  dataListener,     (* TRUE: dataChangeListeners_ has the communicator     *)
  onDataReceive,    (* TRUE: onDataReceiveHandler_ is set                  *)
  receiving,        (* history: TRUE from the OK answer to a registration  *)
                    (* of a data handler until it is cleared               *)
  stuck,            (* history: TRUE from the call to take the listener out *)
                    (* that failed for want of the pipe until one succeeds *)
  receiver,         (* the bus thread that brings a message                *)
  deviceListener,   (* TRUE: listeners_ has the communicator               *)
  onDeviceChange,   (* TRUE: onDeviceChangeHandler_ is set                 *)
  online,           (* bus: the network ids that are on line               *)
  event,            (* the change thread t of NotifyAll handles            *)
  view,             (* what the database was told of a device since it     *)
                    (* registered                                          *)
  relations,        (* networkId2Udid_: Nameless where a look-up failed,   *)
                    (* NoDevice where there is no entry                    *)
  report,           (* the status the database reports to the listeners    *)
  unsure,           (* history: the devices whose last change began before *)
                    (* the thread of an earlier one had ended, or could    *)
                    (* not be told for want of their udid                  *)
  doubtful          (* history: the network ids that changed before their  *)
                    (* last change was entered or while ToNodeID held them *)
                    (* in a list, or got a Nameless entry; until they are  *)
                    (* seen to leave, and none of that happens             *)

data == <<dataBusMap, dataListener, onDataReceive, receiving, stuck>>
history == <<unsure, doubtful>>
device == <<deviceListener, onDeviceChange, online, event, view, relations, report, history>>
vars == <<caller, data, receiver, device>>

Status == {"online", "offline"}
NoEvent == [step |-> "none", node |-> NoNode, type |-> "offline",
            copied |-> FALSE, device |-> NoDevice]
NoReport == [step |-> "idle", device |-> NoDevice,
             listed |-> {}, node |-> NoNode]

TypeOK ==
  /\ caller \in [step : {"idle", "watchData", "watchDevice"}, on : BOOLEAN]
  /\ {dataBusMap, dataListener, onDataReceive, receiving, stuck} \subseteq BOOLEAN
  /\ receiver \in {"idle", "message", "handling"}
  /\ {deviceListener, onDeviceChange} \subseteq BOOLEAN
  /\ online \subseteq Nodes
  /\ event \in [Threads -> [node : Nodes \cup {NoNode}, type : Status, copied : BOOLEAN,
       step : {"none", "copy", "update", "offline", "inOffline", "type", "inType"},
       device : Devices \cup {NoDevice, Nameless}]]
  /\ view \in [Devices -> Status \cup {"unknown"}]
  /\ relations \in [Nodes -> Devices \cup {NoDevice, Nameless}]
  /\ report \in [step : {"idle", "pull", "search", "fill", "tell"},
                 device : Devices \cup {NoDevice},
                 listed : SUBSET Nodes, node : Nodes \cup {NoNode}]
  /\ unsure \subseteq Devices
  /\ doubtful \subseteq Nodes

Init ==
  /\ caller = [step |-> "idle", on |-> FALSE]
  /\ dataBusMap = FALSE
  /\ dataListener = FALSE
  /\ onDataReceive = FALSE
  /\ receiving = FALSE
  /\ stuck = FALSE
  /\ receiver = "idle"
  /\ deviceListener = FALSE
  /\ onDeviceChange = FALSE
  /\ online = {}
  /\ event = [t \in Threads |-> NoEvent]
  /\ view = [d \in Devices |-> "unknown"]
  /\ relations = [n \in Nodes |-> NoDevice]
  /\ report = NoReport
  /\ unsure = {}
  /\ doubtful = {}

-----------------------------------------------------------------------------
Calling(step) == caller.step = step

GoTo(step, on) == caller' = [step |-> step, on |-> on]

Return == GoTo("idle", FALSE)

\* The handlers run under the mutex they are set under.
InDataHandler == receiver = "handling"
InDeviceHandler == \E t \in Threads : event[t].step \in {"inOffline", "inType"}

-----------------------------------------------------------------------------
\* Start: nothing changes, and the answer is an error, when the pipe is started
\* already or the bus makes no session server for it.
Start ==
  /\ Calling("idle")
  /\ "data" \in Calls
  /\ ~dataBusMap
  /\ dataBusMap' = TRUE
  /\ UNCHANGED <<caller, dataListener, onDataReceive, receiving, stuck, receiver, device>>

\* Stop: the pipe is forgotten, whoever listens to it.  Without one, or when the
\* bus fails, nothing changes.
Stop ==
  /\ Calling("idle")
  /\ "data" \in Calls
  /\ dataBusMap
  /\ dataBusMap' = FALSE
  /\ UNCHANGED <<caller, dataListener, onDataReceive, receiving, stuck, receiver, device>>

\* RegOnDataReceive, first step: the handler is set, or cleared.
RegOnDataReceive(on) ==
  /\ Calling("idle")
  /\ "data" \in Calls
  /\ ~InDataHandler
  /\ onDataReceive' = on
  /\ receiving' = (receiving /\ on)
  /\ GoTo("watchData", on)
  /\ UNCHANGED <<dataBusMap, dataListener, stuck, receiver, device>>

\* Mutant of WatchData: StopWatchDataChange leaves the listener.
NeverErased ==
  /\ Calling("watchData")
  /\ receiver = "idle"
  /\ dataListener' = (dataListener \/ caller.on)
  /\ receiving' = (caller.on /\ (receiving \/ (dataBusMap /\ ~dataListener)))
  /\ Return
  /\ UNCHANGED <<dataBusMap, onDataReceive, stuck, receiver, device>>

\* The adapter does not enter a listener that is there, nor take out one that
\* is not.
Refused == dataListener = caller.on

\* Second step: Start- or StopWatchDataChange.  Without the pipe, or when the
\* adapter refuses, nothing changes and the answer is an error.
WatchData ==
  /\ Calling("watchData")
  /\ \/ /\ ~dataBusMap \/ (receiver = "idle" /\ Refused)
        /\ stuck' = (stuck \/ (dataListener /\ ~caller.on))
        /\ UNCHANGED <<dataListener, receiving>>
     \/ /\ dataBusMap
        /\ receiver = "idle"
        /\ ~Refused
        /\ dataListener' = caller.on
        /\ receiving' = caller.on
        /\ stuck' = FALSE
  /\ Return
  /\ UNCHANGED <<dataBusMap, onDataReceive, receiver, device>>

\* RegOnDeviceChange, first step: the handler is set, or cleared.
RegOnDeviceChange(on) ==
  /\ Calling("idle")
  /\ "device" \in Calls
  /\ ~InDeviceHandler
  /\ onDeviceChange' = on
  /\ GoTo("watchDevice", on)
  /\ UNCHANGED <<data, receiver, deviceListener, online, event, view, relations, report,
                 history>>

\* Second step: Start- or StopWatchDeviceChange, which need no pipe.
WatchDevice ==
  /\ Calling("watchDevice")
  /\ deviceListener' = caller.on
  /\ view' = [d \in Devices |-> "unknown"]
  /\ Return
  /\ UNCHANGED <<data, receiver, onDeviceChange, online, event, relations, report, history>>

-----------------------------------------------------------------------------
\* NotifyDataListeners: dataChangeMutex_ is held from here to the end.  (With
\* no listener the message is dropped.)
NotifyDataListeners ==
  /\ receiver = "idle"
  /\ dataListener
  /\ receiver' = "message"
  /\ UNCHANGED <<caller, data, device>>

\* Mutant of OnMessage: the handler is called, set or not.
HandlerUnchecked ==
  /\ receiver = "message"
  /\ receiver' = "handling"
  /\ UNCHANGED <<caller, data, device>>

\* OnMessage: the handler, if there is one, is called under its mutex.
OnMessage ==
  /\ receiver = "message"
  /\ receiver' = IF onDataReceive THEN "handling" ELSE "idle"
  /\ UNCHANGED <<caller, data, device>>

MessageHandled ==
  /\ receiver = "handling"
  /\ receiver' = "idle"
  /\ UNCHANGED <<caller, data, device>>

-----------------------------------------------------------------------------
\* GetUdidByNodeId: an empty string when the bus cannot tell.
GetUdid(n) == {Owner[n]} \cup (IF Calm THEN {} ELSE {Nameless})

\* No thread has a change of device d in hand.
Handled(d) == \A t \in Threads : event[t].step # "none" => Owner[event[t].node] # d

\* A thread has still to enter or to take out network id n.
Pending(n) == \E t \in Threads : event[t].step \in {"copy", "update"} /\ event[t].node = n

\* A device has one network id at a time.
MayChange(n) ==
  /\ Calm => Handled(Owner[n]) /\ report.step # "fill"
  /\ \A m \in online : m = n \/ Owner[m] # Owner[n]

\* Mutant of NotifyAll: a change of a device's data is an event as well.
InfoToo(t, n) ==
  /\ event[t].step = "none"
  /\ event' = [event EXCEPT ![t] = [NoEvent EXCEPT !.step = "copy", !.node = n, !.type = "info"]]
  /\ UNCHANGED <<caller, data, receiver, deviceListener, onDeviceChange, online, view,
                 relations, report, history>>

\* OnDeviceOnline, OnDeviceOffline: NotifyAll starts a thread.
NotifyAll(t, n) ==
  /\ event[t].step = "none"
  /\ MayChange(n)
  /\ online' = IF n \in online THEN online \ {n} ELSE online \cup {n}
  /\ event' = [event EXCEPT ![t] = [NoEvent EXCEPT !.step = "copy", !.node = n,
       !.type = IF n \in online THEN "offline" ELSE "online"]]
  /\ unsure' = IF Handled(Owner[n]) THEN unsure \ {Owner[n]} ELSE unsure \cup {Owner[n]}
  /\ doubtful' = IF Pending(n) \/ n \in report.listed THEN doubtful \cup {n}
                 ELSE IF n \in online THEN doubtful \ {n} ELSE doubtful
  /\ UNCHANGED <<caller, data, receiver, deviceListener, onDeviceChange, view,
                 relations, report>>

\* The thread copies listeners_: the communicator is in it, or not.
CopyListeners(t) ==
  /\ event[t].step = "copy"
  /\ event' = [event EXCEPT ![t].step = "update", ![t].copied = deviceListener]
  /\ UNCHANGED <<caller, data, receiver, deviceListener, onDeviceChange, online, view,
                 relations, report, history>>

\* Mutant of Relate: the entry of a device that left is kept.
KeepEntry(n, type) ==
  \E u \in GetUdid(n) : relations' =
    IF relations[n] = NoDevice THEN [relations EXCEPT ![n] = u] ELSE relations

\* UpdateRelationship: the entry goes with the device; one that is there
\* already is kept as it is.
Relate(n, type) ==
  \/ type = "offline" /\ relations' = [relations EXCEPT ![n] = NoDevice]
  \/ /\ type = "online"
     /\ \E u \in GetUdid(n) : relations' =
          IF relations[n] = NoDevice THEN [relations EXCEPT ![n] = u] ELSE relations

\* The thread looks the udid up, updates the relations, and goes on to the
\* listeners it copied.
UpdateRelationship(t) ==
  /\ event[t].step = "update"
  /\ Relate(event[t].node, event[t].type)
  /\ \E u \in GetUdid(event[t].node) :
       /\ event' = [event EXCEPT ![t] =
            IF ~@.copied THEN NoEvent ELSE [@ EXCEPT !.step = "offline", !.device = u]]
       /\ unsure' = IF u = Nameless THEN unsure \cup {Owner[event[t].node]} ELSE unsure
  /\ doubtful' = doubtful \cup {n \in {event[t].node} : relations'[n] = Nameless}
  /\ UNCHANGED <<caller, data, receiver, deviceListener, onDeviceChange, online, view,
                 report>>

\* A listener of level LOW is told DEVICE_OFFLINE first, then what happened.
After(e) == IF e.step \in {"offline", "inOffline"} THEN [e EXCEPT !.step = "type"]
                                                   ELSE NoEvent

\* OnDeviceChanged: the handler, if there is one, is called under its mutex.
OnDeviceChanged(t) ==
  /\ event[t].step \in {"offline", "type"}
  /\ ~InDeviceHandler
  /\ event' = [event EXCEPT ![t] =
       IF ~onDeviceChange THEN After(@)
       ELSE [@ EXCEPT !.step = IF event[t].step = "offline" THEN "inOffline" ELSE "inType"]]
  /\ UNCHANGED <<caller, data, receiver, deviceListener, onDeviceChange, online, view,
                 relations, report, history>>

\* Mutant of Told: what happened comes first, DEVICE_OFFLINE after it.
ToldSwapped(e) == IF e.step = "inType" THEN "offline" ELSE e.type

\* What the handler is told by the first call, and by the second.
Told(e) == IF e.step = "inOffline" THEN "offline" ELSE e.type

\* The database is told of the udid the thread looked up.
DeviceHandled(t) ==
  /\ event[t].step \in {"inOffline", "inType"}
  /\ view' = IF event[t].device = Nameless THEN view
             ELSE [view EXCEPT ![event[t].device] = Told(event[t])]
  /\ event' = [event EXCEPT ![t] = After(@)]
  /\ UNCHANGED <<caller, data, receiver, deviceListener, onDeviceChange, online,
                 relations, report, history>>

-----------------------------------------------------------------------------
QuietUnlessReport ==
  UNCHANGED <<caller, data, receiver, deviceListener, onDeviceChange, online, event, view,
            unsure>>

\* The database reports a device it was told of: that it is gone, or that it
\* is there, and then its data is pulled first.
Report(d) ==
  /\ "report" \in Calls
  /\ report.step = "idle"
  /\ view[d] # "unknown"
  /\ report' = [NoReport EXCEPT !.device = d,
                               !.step = IF view[d] = "online" THEN "pull" ELSE "search"]
  /\ QuietUnlessReport /\ UNCHANGED <<relations, doubtful>>

\* The result of the pull is what is reported of the device.  Nothing is, when
\* the session is gone or Sync fails.
PullCompletes ==
  /\ report.step = "pull"
  /\ \E next \in {NoReport, [report EXCEPT !.step = "search"]} : report' = next
  /\ QuietUnlessReport /\ UNCHANGED <<relations, doubtful>>

\* ToNodeID: a network id related to the udid, or else a list of the bus,
\* which may not give one.
ToNodeID ==
  /\ report.step = "search"
  /\ LET known == {n \in Nodes : relations[n] = report.device} IN
       \/ \E n \in known : report' = [report EXCEPT !.step = "tell", !.node = n]
       \/ known = {} /\ report' = [report EXCEPT !.step = "fill", !.listed = online]
       \/ known = {} /\ report' = [report EXCEPT !.step = "tell"]
  /\ QuietUnlessReport /\ UNCHANGED <<relations, doubtful>>

\* Every listed node without an entry gets one; the udid that is looked for
\* is seen among these only.
FillRelations ==
  /\ report.step = "fill"
  /\ LET new == {n \in report.listed : relations[n] = NoDevice} IN
       \E udid \in [new -> Devices \cup {Nameless}] :
         /\ \A n \in new : udid[n] \in GetUdid(n)
         /\ relations' = [n \in Nodes |-> IF n \in new THEN udid[n] ELSE relations[n]]
         /\ doubtful' = doubtful \cup {n \in new : udid[n] = Nameless}
         /\ LET found == {n \in new : udid[n] = report.device} IN
              \E n \in IF found = {} THEN {NoNode} ELSE found :
                report' = [report EXCEPT !.step = "tell", !.listed = {}, !.node = n]
  /\ QuietUnlessReport

\* statusWatcher_->OnChanged.  JSWatcher::Emit drops a status without a
\* network id.
Tell ==
  /\ report.step = "tell"
  /\ report' = NoReport
  /\ QuietUnlessReport /\ UNCHANGED <<relations, doubtful>>

-----------------------------------------------------------------------------
Next ==
  \/ Start
  \/ Stop
  \/ \E on \in BOOLEAN : RegOnDataReceive(on) \/ RegOnDeviceChange(on)
  \/ WatchData
  \/ WatchDevice
  \/ NotifyDataListeners
  \/ OnMessage
  \/ MessageHandled
  \/ \E t \in Threads, n \in Nodes : NotifyAll(t, n)
  \/ \E t \in Threads : CopyListeners(t) \/ UpdateRelationship(t)
  \/ \E t \in Threads : OnDeviceChanged(t) \/ DeviceHandled(t)
  \/ \E d \in Devices : Report(d)
  \/ PullCompletes
  \/ ToNodeID
  \/ FillRelations
  \/ Tell

Spec == Init /\ [][Next]_vars

-----------------------------------------------------------------------------
\* No handler runs after the database has taken it back: once RegOnDataReceive
\* or RegOnDeviceChange has cleared a handler no thread is inside it and none
\* gets in, though copies of the listener and messages are still under way.
NoCallAfterClear ==
  /\ InDataHandler => onDataReceive
  /\ InDeviceHandler => onDeviceChange

\* A data handler can be registered again after any sequence of calls: nothing
\* is entered, and the answer is an error, only when the pipe is not started, a registration is in
\* force, or the last one was taken back when the pipe was stopped already
\* (StopWatchDataChange then leaves the listener in the adapter).
RegistersAgain ==
  [][WatchData /\ caller.on /\ UNCHANGED dataListener
       => ~dataBusMap \/ receiving \/ stuck]_vars

\* A database that has registered is told the truth: when the threads of a
\* device's changes have ended, what it was last told since, if anything, is
\* what the bus says, through any order of registrations and of the threads of
\* other devices.  Excepted is a device whose last change overtook an earlier
\* one, or had no udid, until it changes again with no thread under way.
ViewIsRight ==
  Calling("idle") /\ onDeviceChange =>
    \A d \in Devices \ unsure : Handled(d) /\ view[d] # "unknown" =>
      view[d] = IF \E n \in online : Owner[n] = d THEN "online" ELSE "offline"

\* A device is named by the network id it has: an id whose last change has been
\* entered is in networkId2Udid_ with its device's udid while it is on line, and
\* not at all when it has left, whatever ToNodeID filled in meanwhile.  Excepted
\* is an id whose changes were entered out of order, that left while ToNodeID
\* held it in a list, or whose udid the bus could not tell, until it leaves again.
NamesCurrent ==
  \A n \in Nodes \ doubtful :
    Pending(n) \/ relations[n] = IF n \in online THEN Owner[n] ELSE NoDevice

\* A status that is reported has a network id, without which the listener
\* drops it.
StatusIsNamed == report.step = "tell" => report.node # NoNode
=============================================================================
