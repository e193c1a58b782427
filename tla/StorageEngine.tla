---------------------------- MODULE StorageEngine ----------------------------
(***************************************************************************)
(* FlatObjectStorageEngine: the table of open stores of one process.       *)
(*                                                                         *)
(* A session is one store of the database.  CreateTable opens a handle on  *)
(* it, DeleteTable closes the handle, and between the two the handle lives *)
(* in delegates_.  operationMutex_ makes each critical section atomic, but *)
(* CreateTable is four of them: it looks the session up, RELEASES the lock *)
(* to open and configure the handle, takes the lock again to insert it,    *)
(* and once more to start a pull.  One action below is one such section.   *)
(*                                                                         *)
(* The database (KvStoreDelegateManager, KvStoreNbDelegate) is not part of *)
(* the repository.  It is modelled by what the engine relies on: handles   *)
(* are addresses that may be given out again once closed; all handles on   *)
(* one session share one in-memory store, which vanishes with the last of  *)
(* them; an observer is a raw pointer registered on ONE handle.            *)
(***************************************************************************)
EXTENDS Naturals, FiniteSets

CONSTANTS
  Sessions,    (* session names, the keys of delegates_ and observerMap_   *)
  Threads,     (* threads of the process that call the engine              *)
  Serves,      (* Serves[t]: the sessions thread t works on                *)
  Handles,     (* addresses of KvStoreNbDelegate objects.  Bound of a run. *)
  Watchers,    (* addresses of TableWatcher objects.  Bound of a run.      *)
  Items,       (* item keys of a table                                     *)
  Values,      (* item values                                              *)
  DbFaults,    (* the database calls that may fail                         *)
  NoSession, NoHandle, NoWatcher, NoValue

FaultNames == {"open", "getKvStore", "pragma", "close", "register",
               "unregister", "put", "get", "sync"}

ASSUME EngineAssumption ==
  /\ Serves \in [Threads -> SUBSET Sessions]
  /\ NoSession \notin Sessions
  /\ NoHandle \notin Handles
  /\ NoWatcher \notin Watchers
  /\ NoValue \notin Values
  /\ DbFaults \subseteq FaultNames

VARIABLES
  process,      (* "running", "crashed" by a null dereference, or "ended"  *)
  engine,       (* "new", "open" (isOpened_) or "shut"                     *)
  delegates,    (* delegates_[s], NoHandle when absent                     *)
  observerMap,  (* observerMap_[s], NoWatcher when absent                  *)
  storeOf,      (* database: the session handle h is open on, or NoSession *)
  registered,   (* database: the watchers registered on handle h           *)
  table,        (* database: the contents of session s                     *)
  call,         (* thread t's CreateTable in progress                      *)
  reply,        (* operation, session and result of the last call to end   *)
  mishaps       (* history: what has gone wrong in creating session s      *)

maps == <<delegates, observerMap>>
database == <<storeOf, registered, table>>
vars == <<process, engine, maps, database, call, reply, mishaps>>

Steps == {"idle", "getKvStore", "pragma", "insert", "sync"}
Idle == [pc |-> "idle", session |-> NoSession, handle |-> NoHandle]

Operations == {"none", "Open", "CreateTable", "DeleteTable", "UpdateItem",
               "UpdateItems", "GetItem", "GetItems", "RegisterObserver",
               "UnRegisterObserver", "SyncAllData", "Close"}
Results == {"SUCCESS", "ERR_DB_SET_PROCESS", "ERR_DB_NOT_INIT", "ERR_EXIST",
            "ERR_DB_GETKV_FAIL", "ERR_DB_NOT_EXIST", "ERR_CLOSE_STORAGE",
            "ERR_REGISTER", "ERR_NO_OBSERVER", "ERR_UNRIGSTER",
            "ERR_SINGLE_DEVICE", "DB_STATUS"}

\* Two creations of one session overlapped; Pragma failed and left its handle.
Mishaps == {"overlap", "pragma"}

EmptyTable == [i \in Items |-> NoValue]

TypeOK ==
  /\ process \in {"running", "crashed", "ended"}
  /\ engine \in {"new", "open", "shut"}
  /\ delegates \in [Sessions -> Handles \cup {NoHandle}]
  /\ observerMap \in [Sessions -> Watchers \cup {NoWatcher}]
  /\ storeOf \in [Handles -> Sessions \cup {NoSession}]
  /\ registered \in [Handles -> SUBSET Watchers]
  /\ table \in [Sessions -> [Items -> Values \cup {NoValue}]]
  /\ call \in [Threads -> [pc : Steps,
                           session : Sessions \cup {NoSession},
                           handle : Handles \cup {NoHandle}]]
  /\ reply \in [op : Operations,
                session : Sessions \cup {NoSession},
                result : Results]
  /\ mishaps \in [Sessions -> SUBSET Mishaps]

Init ==
  /\ process = "running"
  /\ engine = "new"
  /\ delegates = [s \in Sessions |-> NoHandle]
  /\ observerMap = [s \in Sessions |-> NoWatcher]
  /\ storeOf = [h \in Handles |-> NoSession]
  /\ registered = [h \in Handles |-> {}]
  /\ table = [s \in Sessions |-> EmptyTable]
  /\ call = [t \in Threads |-> Idle]
  /\ reply = [op |-> "none", session |-> NoSession, result |-> "SUCCESS"]
  /\ mishaps = [s \in Sessions |-> {}]

-----------------------------------------------------------------------------
MayFail(fault) == fault \in DbFaults

Return(op, s, result) ==
  reply' = [op |-> op, session |-> s, result |-> result]

\* Thread t, between two calls, enters an operation on session s.
Enter(t, s) ==
  /\ process = "running"
  /\ call[t].pc = "idle"
  /\ s \in Serves[t]

\* Thread t, inside CreateTable, is about to take the named step.
At(t, step) == process = "running" /\ call[t].pc = step

\* Thread t moves on in CreateTable of session s, with handle h.
GoTo(t, step, s, h) ==
  call' = [call EXCEPT ![t] = [pc |-> step, session |-> s, handle |-> h]]

IsOpen(h) == storeOf[h] # NoSession

HandlesOn(s) == {h \in Handles : storeOf[h] = s}

\* The two checks every operation on an existing table begins with.
Refused(op, s) ==
  /\ \/ /\ engine # "open"
        /\ Return(op, s, "ERR_DB_NOT_INIT")
     \/ /\ engine = "open"
        /\ delegates[s] = NoHandle
        /\ Return(op, s, "ERR_DB_NOT_EXIST")
  /\ UNCHANGED <<process, engine, maps, database, call, mishaps>>

Accepted(s) == engine = "open" /\ delegates[s] # NoHandle

\* A run's bound: a table is only created while an address is left for it.
AddressLeft ==
  Cardinality({t \in Threads : call[t].pc = "getKvStore"})
    < Cardinality({h \in Handles : ~IsOpen(h)})

-----------------------------------------------------------------------------
\* FlatObjectStore constructs the engine and opens it once.
Open ==
  /\ process = "running"
  /\ engine = "new"
  /\ \/ /\ engine' = "open"
        /\ Return("Open", NoSession, "SUCCESS")
     \/ /\ MayFail("open")
        /\ engine' = "shut"
        /\ Return("Open", NoSession, "ERR_DB_SET_PROCESS")
  /\ UNCHANGED <<process, maps, database, call, mishaps>>

\* Called by the destructor of the store: no thread is inside, and the engine
\* is used no more.
Close ==
  /\ process = "running"
  /\ engine = "open"
  /\ \A t \in Threads : call[t].pc = "idle"
  /\ engine' = "shut"
  /\ process' = "ended"
  /\ Return("Close", NoSession, "SUCCESS")
  /\ UNCHANGED <<maps, database, call, mishaps>>

\* Mutant of CreateTable: it does not look the session up.
CreateUnchecked(t, s) ==
  /\ Enter(t, s)
  /\ engine = "open"
  /\ AddressLeft
  /\ GoTo(t, "getKvStore", s, NoHandle)
  /\ UNCHANGED <<process, engine, maps, database, reply, mishaps>>

\* Thread t has looked session s up in CreateTable and not inserted it yet.
Creating(t, s) ==
  call[t].session = s /\ call[t].pc \in {"getKvStore", "pragma", "insert"}

\* CreateTable, first critical section: is the session known already?
CreateTable(t, s) ==
  /\ Enter(t, s)
  /\ \/ /\ engine # "open"
        /\ Return("CreateTable", s, "ERR_DB_NOT_INIT")
        /\ UNCHANGED <<call, mishaps>>
     \/ /\ Accepted(s)
        /\ Return("CreateTable", s, "ERR_EXIST")
        /\ UNCHANGED <<call, mishaps>>
     \/ /\ engine = "open"
        /\ delegates[s] = NoHandle
        /\ AddressLeft
        /\ GoTo(t, "getKvStore", s, NoHandle)
        /\ mishaps' = IF \E u \in Threads : Creating(u, s)
                        THEN [mishaps EXCEPT ![s] = @ \cup {"overlap"}]
                        ELSE mishaps
        /\ UNCHANGED reply
  /\ UNCHANGED <<process, engine, maps, database>>

\* No lock is held.  When the database hands back no handle, the next
\* statement calls Pragma on a null pointer.
GetKvStore(t) ==
  /\ At(t, "getKvStore")
  /\ \/ \E h \in Handles :
          /\ ~IsOpen(h)
          /\ storeOf' = [storeOf EXCEPT ![h] = call[t].session]
          /\ GoTo(t, "pragma", call[t].session, h)
          /\ UNCHANGED process
     \/ /\ MayFail("getKvStore")
        /\ process' = "crashed"
        /\ UNCHANGED <<storeOf, call>>
  /\ UNCHANGED <<engine, maps, registered, table, reply, mishaps>>

\* No lock is held.  When Pragma fails the handle stays open.
Pragma(t) ==
  /\ At(t, "pragma")
  /\ \/ /\ GoTo(t, "insert", call[t].session, call[t].handle)
        /\ UNCHANGED <<reply, mishaps>>
     \/ /\ MayFail("pragma")
        /\ call' = [call EXCEPT ![t] = Idle]
        /\ Return("CreateTable", call[t].session, "ERR_DB_GETKV_FAIL")
        /\ mishaps' = [mishaps EXCEPT ![call[t].session] = @ \cup {"pragma"}]
  /\ UNCHANGED <<process, engine, maps, database>>

\* Second critical section: insert_or_assign, with no second look-up.
InsertTable(t) ==
  /\ At(t, "insert")
  /\ delegates' = [delegates EXCEPT ![call[t].session] = call[t].handle]
  /\ GoTo(t, "sync", call[t].session, NoHandle)
  /\ UNCHANGED <<process, engine, observerMap, database, reply, mishaps>>

\* Mutant of SyncNewTable: the database's own status is returned.
SyncStatusReturned(t) ==
  /\ At(t, "sync")
  /\ call' = [call EXCEPT ![t] = Idle]
  /\ Return("CreateTable", call[t].session, "OK")
  /\ UNCHANGED <<process, engine, maps, database, mishaps>>

\* Third critical section: the pull; CreateTable ignores what it returns.
SyncNewTable(t) ==
  /\ At(t, "sync")
  /\ call' = [call EXCEPT ![t] = Idle]
  /\ Return("CreateTable", call[t].session, "SUCCESS")
  /\ UNCHANGED <<process, engine, maps, database, mishaps>>

\* Mutants of DeleteTable: the handle is closed and stays in delegates_; the
\* handle is forgotten and stays open.
CloseOnly(t, s) ==
  /\ Enter(t, s)
  /\ Accepted(s)
  /\ storeOf' = [storeOf EXCEPT ![delegates[s]] = NoSession]
  /\ registered' = [registered EXCEPT ![delegates[s]] = {}]
  /\ Return("DeleteTable", s, "SUCCESS")
  /\ UNCHANGED <<process, engine, maps, table, call, mishaps>>

EraseOnly(t, s) ==
  /\ Enter(t, s)
  /\ Accepted(s)
  /\ delegates' = [delegates EXCEPT ![s] = NoHandle]
  /\ Return("DeleteTable", s, "SUCCESS")
  /\ UNCHANGED <<process, engine, observerMap, database, call, mishaps>>

\* DeleteTable closes the handle and forgets it; observerMap_ is left alone.
\* The database drops the handle's registrations, and the contents of the
\* session with its last handle.
DeleteTable(t, s) ==
  /\ Enter(t, s)
  /\ \/ Refused("DeleteTable", s)
     \/ /\ Accepted(s)
        /\ storeOf' = [storeOf EXCEPT ![delegates[s]] = NoSession]
        /\ registered' = [registered EXCEPT ![delegates[s]] = {}]
        /\ table' = IF HandlesOn(s) = {delegates[s]}
                      THEN [table EXCEPT ![s] = EmptyTable] ELSE table
        /\ delegates' = [delegates EXCEPT ![s] = NoHandle]
        /\ Return("DeleteTable", s, "SUCCESS")
        /\ UNCHANGED <<process, engine, observerMap, call, mishaps>>
     \/ /\ Accepted(s)
        /\ MayFail("close")
        /\ Return("DeleteTable", s, "ERR_CLOSE_STORAGE")
        /\ UNCHANGED <<process, engine, maps, database, call, mishaps>>

\* Put of one item.
UpdateItem(t, s, i, v) ==
  /\ Enter(t, s)
  /\ \/ Refused("UpdateItem", s)
     \/ /\ Accepted(s)
        /\ table' = [table EXCEPT ![s][i] = v]
        /\ Return("UpdateItem", s, "SUCCESS")
        /\ UNCHANGED <<process, engine, maps, storeOf, registered, call, mishaps>>
     \/ /\ Accepted(s)
        /\ MayFail("put")
        /\ Return("UpdateItem", s, "ERR_CLOSE_STORAGE")
        /\ UNCHANGED <<process, engine, maps, database, call, mishaps>>

\* PutBatch: all the items of data, a function on a set of items, or none.
\* Its caller is the service's retrieve callback, on a thread of its own.
UpdateItems(s, data) ==
  /\ process = "running"
  /\ \/ /\ DOMAIN data = {}
        /\ Return("UpdateItems", s, "ERR_DB_NOT_INIT")
        /\ UNCHANGED <<process, engine, maps, database, call, mishaps>>
     \/ /\ DOMAIN data # {}
        /\ Refused("UpdateItems", s)
     \/ /\ DOMAIN data # {}
        /\ Accepted(s)
        /\ table' = [table EXCEPT ![s] =
                       [i \in Items |-> IF i \in DOMAIN data THEN data[i]
                                                             ELSE @[i]]]
        /\ Return("UpdateItems", s, "SUCCESS")
        /\ UNCHANGED <<process, engine, maps, storeOf, registered, call, mishaps>>
     \/ /\ DOMAIN data # {}
        /\ Accepted(s)
        /\ MayFail("put")
        /\ Return("UpdateItems", s, "ERR_CLOSE_STORAGE")
        /\ UNCHANGED <<process, engine, maps, database, call, mishaps>>

\* Get returns the database's own status when it fails, as it does for an item
\* that is absent.
GetItem(t, s, i) ==
  /\ Enter(t, s)
  /\ \/ Refused("GetItem", s)
     \/ /\ Accepted(s)
        /\ \/ table[s][i] # NoValue /\ Return("GetItem", s, "SUCCESS")
           \/ table[s][i] = NoValue /\ Return("GetItem", s, "DB_STATUS")
           \/ MayFail("get") /\ Return("GetItem", s, "DB_STATUS")
        /\ UNCHANGED <<process, engine, maps, database, call, mishaps>>

\* GetEntries likewise, for a table that is empty.
GetItems(t, s) ==
  /\ Enter(t, s)
  /\ \/ Refused("GetItems", s)
     \/ /\ Accepted(s)
        /\ \/ table[s] # EmptyTable /\ Return("GetItems", s, "SUCCESS")
           \/ table[s] = EmptyTable /\ Return("GetItems", s, "DB_STATUS")
           \/ MayFail("get") /\ Return("GetItems", s, "DB_STATUS")
        /\ UNCHANGED <<process, engine, maps, database, call, mishaps>>

\* The watcher w is a new object: nothing owns its address yet.  A session
\* that has an entry in observerMap_ answers SUCCESS and registers nothing.
RegisterObserver(t, s, w) ==
  /\ Enter(t, s)
  /\ \A u \in Sessions : observerMap[u] # w
  /\ \/ Refused("RegisterObserver", s)
     \/ /\ Accepted(s)
        /\ observerMap[s] # NoWatcher
        /\ Return("RegisterObserver", s, "SUCCESS")
        /\ UNCHANGED <<process, engine, maps, database, call, mishaps>>
     \/ /\ Accepted(s)
        /\ observerMap[s] = NoWatcher
        /\ registered' = [registered EXCEPT ![delegates[s]] = @ \cup {w}]
        /\ observerMap' = [observerMap EXCEPT ![s] = w]
        /\ Return("RegisterObserver", s, "SUCCESS")
        /\ UNCHANGED <<process, engine, delegates, storeOf, table, call, mishaps>>
     \/ /\ Accepted(s)
        /\ observerMap[s] = NoWatcher
        /\ MayFail("register")
        /\ Return("RegisterObserver", s, "ERR_REGISTER")
        /\ UNCHANGED <<process, engine, maps, database, call, mishaps>>

\* Mutant of UnRegisterObserver: the watcher is let go of whatever the database
\* answers.
ForgetObserver(t, s) ==
  /\ Enter(t, s)
  /\ Accepted(s)
  /\ observerMap' = [observerMap EXCEPT ![s] = NoWatcher]
  /\ Return("UnRegisterObserver", s, "ERR_UNRIGSTER")
  /\ UNCHANGED <<process, engine, delegates, database, call, mishaps>>

\* The database refuses to unregister what is not registered on the handle.
UnRegisterObserver(t, s) ==
  /\ Enter(t, s)
  /\ \/ Refused("UnRegisterObserver", s)
     \/ /\ Accepted(s)
        /\ observerMap[s] = NoWatcher
        /\ Return("UnRegisterObserver", s, "ERR_NO_OBSERVER")
        /\ UNCHANGED <<process, engine, maps, database, call, mishaps>>
     \/ /\ Accepted(s)
        /\ observerMap[s] \in registered[delegates[s]]
        /\ registered' = [registered EXCEPT ![delegates[s]] = @ \ {observerMap[s]}]
        /\ observerMap' = [observerMap EXCEPT ![s] = NoWatcher]
        /\ Return("UnRegisterObserver", s, "SUCCESS")
        /\ UNCHANGED <<process, engine, delegates, storeOf, table, call, mishaps>>
     \/ /\ Accepted(s)
        /\ observerMap[s] # NoWatcher
        /\ \/ observerMap[s] \notin registered[delegates[s]]
           \/ MayFail("unregister")
        /\ Return("UnRegisterObserver", s, "ERR_UNRIGSTER")
        /\ UNCHANGED <<process, engine, maps, database, call, mishaps>>

\* Unlike the others, SyncAllData does not look at isOpened_.  Which devices
\* are on line is the caller's input; the data arrives by RemoteWrite.
SyncAllData(t, s, alone) ==
  /\ Enter(t, s)
  /\ \/ delegates[s] = NoHandle /\ Return("SyncAllData", s, "ERR_DB_NOT_EXIST")
     \/ delegates[s] # NoHandle /\ alone /\ Return("SyncAllData", s, "ERR_SINGLE_DEVICE")
     \/ delegates[s] # NoHandle /\ ~alone /\ Return("SyncAllData", s, "SUCCESS")
     \/ /\ delegates[s] # NoHandle /\ ~alone
        /\ MayFail("sync")
        /\ Return("SyncAllData", s, "ERR_UNRIGSTER")
  /\ UNCHANGED <<process, engine, maps, database, call, mishaps>>

\* A peer's write reaches the store, through a pull or the automatic
\* synchronisation, as long as any handle is open on it.
RemoteWrite(s, i, v) ==
  /\ process = "running"
  /\ HandlesOn(s) # {}
  /\ table' = [table EXCEPT ![s][i] = v]
  /\ UNCHANGED <<process, engine, maps, storeOf, registered, call, reply, mishaps>>

-----------------------------------------------------------------------------
CreateSteps(t) ==
  \/ GetKvStore(t)
  \/ Pragma(t)
  \/ InsertTable(t)
  \/ SyncNewTable(t)

Operation(t, s) ==
  \/ CreateTable(t, s)
  \/ DeleteTable(t, s)
  \/ \E i \in Items, v \in Values : UpdateItem(t, s, i, v)
  \/ \E i \in Items : GetItem(t, s, i)
  \/ GetItems(t, s)
  \/ \E w \in Watchers : RegisterObserver(t, s, w)
  \/ UnRegisterObserver(t, s)
  \/ \E alone \in BOOLEAN : SyncAllData(t, s, alone)

\* What happens on the threads of the database and of the object service.
Environment(s) ==
  \/ \E D \in SUBSET Items : \E data \in [D -> Values] : UpdateItems(s, data)
  \/ \E i \in Items, v \in Values : RemoteWrite(s, i, v)

Next ==
  \/ Open
  \/ Close
  \/ \E t \in Threads : CreateSteps(t)
  \/ \E t \in Threads, s \in Sessions : Operation(t, s)
  \/ \E s \in Sessions : Environment(s)

Spec == Init /\ [][Next]_vars

-----------------------------------------------------------------------------
\* Held(t): the handle thread t has opened and not yet inserted.
Held(t) == call[t].handle

\* No call ever reaches a closed handle, or a handle of another session, and
\* no handle is owned twice: a handle in delegates_ is open on the session it
\* is filed under, a handle held by a CreateTable in progress is open on the
\* session being created, is in no entry of delegates_ and is held by no other
\* thread.  At risk: the unlocked window of CreateTable, and addresses the
\* database gives out again after DeleteTable.
HandleOwnership ==
  /\ \A s \in Sessions : delegates[s] # NoHandle => storeOf[delegates[s]] = s
  /\ \A t \in Threads : Held(t) # NoHandle =>
       /\ storeOf[Held(t)] = call[t].session
       /\ \A s \in Sessions : delegates[s] # Held(t)
       /\ \A u \in Threads : u # t => Held(u) # Held(t)

\* A watcher the database may still call is alive: every raw observer pointer
\* registered on an open handle, be it a handle the engine has lost, is the
\* one observerMap_ owns for the handle's session.  So no callback follows a
\* successful UnRegisterObserver.
ObserverAlive ==
  \A h \in Handles : \A w \in registered[h] :
    /\ IsOpen(h)
    /\ observerMap[storeOf[h]] = w

\* The engine loses a handle in two ways only: two creations of one session
\* overlap between CreateTable's unlock and its insertion, or Pragma fails.  In
\* any other session each open handle is in delegates_ or is held by a
\* CreateTable in progress, so DeleteTable can close it.
NoHandleLeak ==
  \A h \in Handles : IsOpen(h) /\ mishaps[storeOf[h]] = {} =>
    \/ delegates[storeOf[h]] = h
    \/ \E t \in Threads : Held(t) = h

\* What was stored in a session is gone once the session is deleted: with no
\* entry in delegates_ and no CreateTable in progress its contents are empty,
\* so a later CreateTable starts afresh.  Only an overlap of two creations or a
\* failed Pragma can leave the contents behind.
DeletedMeansGone ==
  \A s \in Sessions :
    /\ delegates[s] = NoHandle
    /\ \A t \in Threads : call[t].session # s
    /\ mishaps[s] = {}
    => table[s] = EmptyTable

\* A created session is not created again over itself: an entry of delegates_
\* is replaced by another handle only in a session two of whose creations have
\* overlapped, otherwise only erased (CreateTable of a session that exists is
\* answered ERR_EXIST).
NeverReplaced ==
  [][\A s \in Sessions :
       delegates[s] # NoHandle =>
         \/ delegates'[s] \in {delegates[s], NoHandle}
         \/ "overlap" \in mishaps[s]]_vars
=============================================================================
