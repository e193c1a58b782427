------------------------- MODULE ObjectStoreProofs -------------------------
(***************************************************************************)
(* What holds of StorageEngine and of ObjectStore, for any number of       *)
(* sessions, threads, items, handles, watchers and addresses.              *)
(*                                                                         *)
(* First the engine by itself, for any set of failing database calls: no   *)
(* closed handle is used and no observer is dangling whatever the threads  *)
(* do, and a handle is lost, contents outlive their session or a session   *)
(* is created over itself only where Pragma has failed or two creations    *)
(* have overlapped.  Then the object store, for threads with sessions of   *)
(* their own: it implements the engine and the life cycle of each session, *)
(* the two tables agree, and who is filed in watchers_ is called unless a  *)
(* deletion has left the entry behind.                                     *)
(***************************************************************************)
EXTENDS ObjectStore, TLAPS, FiniteSetTheorems

(***************************************************************************)
(* The engine.                                                             *)
(***************************************************************************)

\* What a CreateTable in progress has, at each of its steps.
CallShape ==
  \A t \in Threads :
    /\ call[t].pc = "idle" <=> call[t].session = NoSession
    /\ call[t].pc \in {"pragma", "insert"} <=> call[t].handle # NoHandle

\* A watcher is registered on one handle at most.
SingleRegistration ==
  \A g, h \in Handles : registered[g] \cap registered[h] # {} => g = h

\* The inductive invariant of the engine, whatever the threads do.
EngineInv ==
  /\ TypeOK
  /\ CallShape
  /\ HandleOwnership
  /\ ObserverAlive
  /\ SingleRegistration

-----------------------------------------------------------------------------
\* Init establishes the inductive invariant.
LEMMA EngineInit == Init => EngineInv
BY EngineAssumption
   DEF Init, EngineInv, TypeOK, CallShape, HandleOwnership, ObserverAlive,
       SingleRegistration, Held, IsOpen, Idle, Steps, Operations, Results,
       EmptyTable

\* A step that only sets the reply keeps values in their types.
LEMMA ReplyKeepsType ==
  ASSUME TypeOK, NEW op \in Operations, NEW s \in Sessions \cup {NoSession},
         NEW result \in Results, Return(op, s, result),
         UNCHANGED <<process, engine, maps, database, call, mishaps>>
  PROVE  TypeOK'
BY DEF TypeOK, Return, maps, database

\* So does the refusal of an operation on a table that is not there.
LEMMA RefusedKeepsType ==
  ASSUME TypeOK, NEW op \in Operations, NEW s \in Sessions, Refused(op, s)
  PROVE  TypeOK'
<1>1. UNCHANGED <<process, engine, maps, database, call, mishaps>>
      BY DEF Refused
<1>2. Return(op, s, "ERR_DB_NOT_INIT") \/ Return(op, s, "ERR_DB_NOT_EXIST")
      BY DEF Refused
<1>3. {"ERR_DB_NOT_INIT", "ERR_DB_NOT_EXIST"} \subseteq Results
      BY DEF Results
<1>4. QED
      BY <1>1, <1>2, <1>3, ReplyKeepsType

\* Every step of the engine and of its environment keeps values in their types.
LEMMA TypeStep == TypeOK /\ [Next]_vars => TypeOK'
<1> SUFFICES ASSUME TypeOK, [Next]_vars PROVE TypeOK'
    OBVIOUS
<1>1. CASE Open
      BY <1>1, EngineAssumption DEF Open, Return, TypeOK, Operations, Results, maps, database
<1>2. CASE Close
      BY <1>2, EngineAssumption DEF Close, Return, TypeOK, Operations, Results, maps, database
<1>3. ASSUME NEW t \in Threads, CreateSteps(t) PROVE TypeOK'
  <2>1. CASE GetKvStore(t)
    <3>1. ASSUME NEW h \in Handles, storeOf' = [storeOf EXCEPT ![h] = call[t].session],
                 GoTo(t, "pragma", call[t].session, h),
                 UNCHANGED process
          PROVE  TypeOK'
      <4>1. call' \in [Threads -> [pc : Steps, session : Sessions \cup {NoSession},
                                   handle : Handles \cup {NoHandle}]]
            BY <3>1 DEF GoTo, TypeOK, Steps
      <4>2. storeOf' \in [Handles -> Sessions \cup {NoSession}]
            BY <3>1 DEF TypeOK
      <4>3. QED BY <2>1, <3>1, <4>1, <4>2 DEF GetKvStore, TypeOK, maps
    <3>2. CASE process' = "crashed" /\ UNCHANGED <<storeOf, call>>
          BY <2>1, <3>2 DEF GetKvStore, TypeOK, maps
    <3>3. QED BY <2>1, <3>1, <3>2 DEF GetKvStore
  <2>2. CASE Pragma(t)
    <3>1. CASE /\ GoTo(t, "insert", call[t].session, call[t].handle)
               /\ UNCHANGED <<reply, mishaps>>
      <4>1. call' \in [Threads -> [pc : Steps, session : Sessions \cup {NoSession},
                                   handle : Handles \cup {NoHandle}]]
            BY <3>1 DEF GoTo, TypeOK, Steps
      <4>2. QED BY <2>2, <3>1, <4>1 DEF Pragma, TypeOK, maps, database
    <3>2. CASE /\ call' = [call EXCEPT ![t] = Idle]
               /\ Return("CreateTable", call[t].session, "ERR_DB_GETKV_FAIL")
               /\ mishaps' = [mishaps EXCEPT ![call[t].session] = @ \cup {"pragma"}]
      <4>0. mishaps' \in [Sessions -> SUBSET Mishaps]
            BY <3>2 DEF TypeOK, Mishaps
      <4>1. reply' \in [op : Operations, session : Sessions \cup {NoSession}, result : Results]
            BY <3>2 DEF TypeOK, Return, Operations, Results
      <4>2. Idle \in [pc : Steps, session : Sessions \cup {NoSession},
                      handle : Handles \cup {NoHandle}]
            BY DEF Idle, Steps
      <4>3. QED BY <2>2, <3>2, <4>0, <4>1, <4>2 DEF Pragma, TypeOK, maps, database
    <3>3. QED BY <2>2, <3>1, <3>2 DEF Pragma
  <2>3. CASE InsertTable(t)
    <3>1. call' \in [Threads -> [pc : Steps, session : Sessions \cup {NoSession},
                                 handle : Handles \cup {NoHandle}]]
          BY <2>3 DEF InsertTable, GoTo, TypeOK, Steps
    <3>2. delegates' \in [Sessions -> Handles \cup {NoHandle}]
          BY <2>3 DEF InsertTable, TypeOK
    <3>3. QED BY <2>3, <3>1, <3>2 DEF InsertTable, TypeOK, database
  <2>4. CASE SyncNewTable(t)
    <3>1. reply' \in [op : Operations, session : Sessions \cup {NoSession}, result : Results]
          BY <2>4 DEF SyncNewTable, TypeOK, Return, Operations, Results
    <3>2. Idle \in [pc : Steps, session : Sessions \cup {NoSession},
                    handle : Handles \cup {NoHandle}]
          BY DEF Idle, Steps
    <3>3. QED BY <2>4, <3>1, <3>2 DEF SyncNewTable, TypeOK, maps, database
  <2>5. QED BY <1>3, <2>1, <2>2, <2>3, <2>4 DEF CreateSteps
<1>4. ASSUME NEW t \in Threads, NEW s \in Sessions, Operation(t, s) PROVE TypeOK'
  <2>1. CASE CreateTable(t, s)
    <3>1. mishaps' \in [Sessions -> SUBSET Mishaps]
          BY <2>1 DEF CreateTable, TypeOK, Mishaps
    <3>2. /\ call' \in [Threads -> [pc : Steps, session : Sessions \cup {NoSession},
                                    handle : Handles \cup {NoHandle}]]
          /\ reply' \in [op : Operations, session : Sessions \cup {NoSession}, result : Results]
          BY <2>1 DEF CreateTable, GoTo, Return, TypeOK, Steps, Operations, Results
    <3>3. QED BY <2>1, <3>1, <3>2 DEF CreateTable, TypeOK, maps, database
  <2>2. CASE DeleteTable(t, s)
    <3>1. CASE Refused("DeleteTable", s)
          BY <3>1, RefusedKeepsType DEF Operations
    <3>2. CASE /\ Accepted(s)
               /\ storeOf' = [storeOf EXCEPT ![delegates[s]] = NoSession]
               /\ registered' = [registered EXCEPT ![delegates[s]] = {}]
               /\ table' = IF HandlesOn(s) = {delegates[s]}
                             THEN [table EXCEPT ![s] = EmptyTable] ELSE table
               /\ delegates' = [delegates EXCEPT ![s] = NoHandle]
               /\ Return("DeleteTable", s, "SUCCESS")
               /\ UNCHANGED <<process, engine, observerMap, call, mishaps>>
      <4>1. EmptyTable \in [Items -> Values \cup {NoValue}]
            BY DEF EmptyTable
      <4>2. table' \in [Sessions -> [Items -> Values \cup {NoValue}]]
            BY <3>2, <4>1 DEF TypeOK
      <4>3. reply' \in [op : Operations, session : Sessions \cup {NoSession}, result : Results]
            BY <3>2 DEF Return, Operations, Results
      <4>4. QED BY <3>2, <4>2, <4>3 DEF TypeOK
    <3>3. CASE /\ Return("DeleteTable", s, "ERR_CLOSE_STORAGE")
               /\ UNCHANGED <<process, engine, maps, database, call, mishaps>>
          BY <3>3, ReplyKeepsType DEF Operations, Results
    <3>4. QED BY <2>2, <3>1, <3>2, <3>3 DEF DeleteTable
  <2>3. ASSUME NEW i \in Items, NEW v \in Values, UpdateItem(t, s, i, v) PROVE TypeOK'
    <3>1. CASE Refused("UpdateItem", s)
          BY <3>1, RefusedKeepsType DEF Operations
    <3>2. CASE /\ table' = [table EXCEPT ![s][i] = v]
               /\ Return("UpdateItem", s, "SUCCESS")
               /\ UNCHANGED <<process, engine, maps, storeOf, registered, call, mishaps>>
      <4>1. table' \in [Sessions -> [Items -> Values \cup {NoValue}]]
            BY <3>2 DEF TypeOK
      <4>2. reply' \in [op : Operations, session : Sessions \cup {NoSession}, result : Results]
            BY <3>2 DEF Return, Operations, Results
      <4>3. QED BY <3>2, <4>1, <4>2 DEF TypeOK, maps
    <3>3. CASE /\ Return("UpdateItem", s, "ERR_CLOSE_STORAGE")
               /\ UNCHANGED <<process, engine, maps, database, call, mishaps>>
          BY <3>3, ReplyKeepsType DEF Operations, Results
    <3>4. QED BY <2>3, <3>1, <3>2, <3>3 DEF UpdateItem
  <2>4. ASSUME NEW i \in Items, GetItem(t, s, i) PROVE TypeOK'
    <3>1. CASE Refused("GetItem", s)
          BY <3>1, RefusedKeepsType DEF Operations
    <3>2. CASE /\ \E result \in Results : Return("GetItem", s, result)
               /\ UNCHANGED <<process, engine, maps, database, call, mishaps>>
          BY <3>2, ReplyKeepsType DEF Operations
    <3>3. QED BY <2>4, <3>1, <3>2 DEF GetItem, Results
  <2>5. CASE GetItems(t, s)
    <3>1. CASE Refused("GetItems", s)
          BY <3>1, RefusedKeepsType DEF Operations
    <3>2. CASE /\ \E result \in Results : Return("GetItems", s, result)
               /\ UNCHANGED <<process, engine, maps, database, call, mishaps>>
          BY <3>2, ReplyKeepsType DEF Operations
    <3>3. QED BY <2>5, <3>1, <3>2 DEF GetItems, Results
  <2>6. ASSUME NEW w \in Watchers, RegisterObserver(t, s, w) PROVE TypeOK'
    <3>1. CASE Refused("RegisterObserver", s)
          BY <3>1, RefusedKeepsType DEF Operations
    <3>2. CASE /\ \E result \in Results : Return("RegisterObserver", s, result)
               /\ UNCHANGED <<process, engine, maps, database, call, mishaps>>
          BY <3>2, ReplyKeepsType DEF Operations
    <3>3. CASE /\ registered' = [registered EXCEPT ![delegates[s]] = @ \cup {w}]
               /\ observerMap' = [observerMap EXCEPT ![s] = w]
               /\ Return("RegisterObserver", s, "SUCCESS")
               /\ UNCHANGED <<process, engine, delegates, storeOf, table, call, mishaps>>
      <4>1. registered' \in [Handles -> SUBSET Watchers]
            BY <3>3 DEF TypeOK
      <4>2. reply' \in [op : Operations, session : Sessions \cup {NoSession}, result : Results]
            BY <3>3 DEF Return, Operations, Results
      <4>3. QED BY <3>3, <4>1, <4>2 DEF TypeOK
    <3>4. QED BY <2>6, <3>1, <3>2, <3>3 DEF RegisterObserver, Results
  <2>7. CASE UnRegisterObserver(t, s)
    <3>1. CASE Refused("UnRegisterObserver", s)
          BY <3>1, RefusedKeepsType DEF Operations
    <3>2. CASE /\ \E result \in Results : Return("UnRegisterObserver", s, result)
               /\ UNCHANGED <<process, engine, maps, database, call, mishaps>>
          BY <3>2, ReplyKeepsType DEF Operations
    <3>3. CASE /\ registered' = [registered EXCEPT ![delegates[s]] = @ \ {observerMap[s]}]
               /\ observerMap' = [observerMap EXCEPT ![s] = NoWatcher]
               /\ Return("UnRegisterObserver", s, "SUCCESS")
               /\ UNCHANGED <<process, engine, delegates, storeOf, table, call, mishaps>>
      <4>1. registered' \in [Handles -> SUBSET Watchers]
            BY <3>3 DEF TypeOK
      <4>2. reply' \in [op : Operations, session : Sessions \cup {NoSession}, result : Results]
            BY <3>3 DEF Return, Operations, Results
      <4>3. QED BY <3>3, <4>1, <4>2 DEF TypeOK
    <3>4. QED BY <2>7, <3>1, <3>2, <3>3 DEF UnRegisterObserver, Results
  <2>8. ASSUME NEW alone \in BOOLEAN, SyncAllData(t, s, alone) PROVE TypeOK'
    <3>1. /\ \E result \in Results : Return("SyncAllData", s, result)
          /\ UNCHANGED <<process, engine, maps, database, call, mishaps>>
          BY <2>8 DEF SyncAllData, Results
    <3>2. QED BY <3>1, ReplyKeepsType DEF Operations
  <2>9. QED BY <1>4, <2>1, <2>2, <2>3, <2>4, <2>5, <2>6, <2>7, <2>8 DEF Operation
<1>5. ASSUME NEW s \in Sessions, Environment(s) PROVE TypeOK'
  <2>1. ASSUME NEW D \in SUBSET Items, NEW data \in [D -> Values], UpdateItems(s, data)
        PROVE  TypeOK'
    <3>1. CASE Refused("UpdateItems", s)
          BY <3>1, RefusedKeepsType DEF Operations
    <3>2. CASE /\ \E result \in Results : Return("UpdateItems", s, result)
               /\ UNCHANGED <<process, engine, maps, database, call, mishaps>>
          BY <3>2, ReplyKeepsType DEF Operations
    <3>3. CASE /\ table' = [table EXCEPT ![s] =
                              [i \in Items |-> IF i \in DOMAIN data THEN data[i]
                                                                    ELSE @[i]]]
               /\ Return("UpdateItems", s, "SUCCESS")
               /\ UNCHANGED <<process, engine, maps, storeOf, registered, call, mishaps>>
      <4>1. table' \in [Sessions -> [Items -> Values \cup {NoValue}]]
            BY <3>3 DEF TypeOK
      <4>2. reply' \in [op : Operations, session : Sessions \cup {NoSession}, result : Results]
            BY <3>3 DEF Return, Operations, Results
      <4>3. QED BY <3>3, <4>1, <4>2 DEF TypeOK, maps
    <3>4. QED BY <2>1, <3>1, <3>2, <3>3 DEF UpdateItems, Results
  <2>2. ASSUME NEW i \in Items, NEW v \in Values, RemoteWrite(s, i, v) PROVE TypeOK'
    <3>1. table' \in [Sessions -> [Items -> Values \cup {NoValue}]]
          BY <2>2 DEF RemoteWrite, TypeOK
    <3>2. QED BY <2>2, <3>1 DEF RemoteWrite, TypeOK, maps
  <2>3. QED BY <1>5, <2>1, <2>2 DEF Environment
<1>6. CASE UNCHANGED vars
      BY <1>6 DEF TypeOK, vars, maps, database
<1>7. QED BY <1>1, <1>2, <1>3, <1>4, <1>5, <1>6 DEF Next

\* Type correctness of the engine, in every reachable state.
THEOREM TypeCorrect == Spec => []TypeOK
<1>1. Init => TypeOK
      BY EngineInit DEF EngineInv
<1>2. QED
      BY <1>1, TypeStep, PTL DEF Spec

-----------------------------------------------------------------------------
\* What EngineInv says beyond the types reads these variables only.
Shape == CallShape /\ HandleOwnership /\ ObserverAlive /\ SingleRegistration

\* A step that leaves handles, registrations and calls alone keeps Shape.
LEMMA QuietKeepsShape ==
  ASSUME Shape, UNCHANGED <<maps, storeOf, registered, call>>
  PROVE  Shape'
BY DEF Shape, CallShape, HandleOwnership, ObserverAlive, SingleRegistration,
       Held, IsOpen, maps

\* CreateTable passes its check: no handle is held yet.
LEMMA BeginKeepsShape ==
  ASSUME TypeOK, Shape, NEW t \in Threads, NEW s \in Sessions,
         call[t].pc = "idle", GoTo(t, "getKvStore", s, NoHandle),
         UNCHANGED <<maps, database>>
  PROVE  Shape'
<1> USE EngineAssumption DEF TypeOK, GoTo
<1>1. CallShape'
      BY DEF Shape, CallShape
<1>2. HandleOwnership'
      BY DEF Shape, CallShape, HandleOwnership, Held, maps, database
<1>3. ObserverAlive' /\ SingleRegistration'
      BY DEF Shape, ObserverAlive, SingleRegistration, IsOpen, maps, database
<1>4. QED BY <1>1, <1>2, <1>3 DEF Shape

\* The handle GetKvStore returns was closed: nobody owns it.
LEMMA GetKvStoreKeepsShape ==
  ASSUME TypeOK, Shape, NEW t \in Threads, GetKvStore(t)
  PROVE  Shape'
<1>1. CASE UNCHANGED <<storeOf, call>>
      BY <1>1, QuietKeepsShape DEF GetKvStore, maps
<1>2. ASSUME NEW h \in Handles, ~IsOpen(h),
             storeOf' = [storeOf EXCEPT ![h] = call[t].session],
             GoTo(t, "pragma", call[t].session, h)
      PROVE  Shape'
  <2> USE EngineAssumption DEF TypeOK, GoTo
  <2>1. /\ call[t].pc = "getKvStore" /\ call[t].session \in Sessions
        /\ UNCHANGED <<delegates, observerMap, registered>>
        BY DEF GetKvStore, At, Shape, CallShape, maps
  <2>2. CallShape'
        BY <1>2, <2>1 DEF Shape, CallShape
  <2>3. /\ \A s \in Sessions : delegates[s] # h
        /\ \A u \in Threads : Held(u) # h
    <3>1. ASSUME NEW s \in Sessions, delegates[s] = h PROVE FALSE
      <4>1. storeOf[h] = s
            BY <3>1 DEF Shape, HandleOwnership
      <4>2. QED BY <1>2, <4>1 DEF IsOpen
    <3>2. ASSUME NEW u \in Threads, Held(u) = h PROVE FALSE
      <4>1. call[u].session = NoSession
            BY <1>2, <3>2 DEF Shape, HandleOwnership, IsOpen
      <4>2. call[u].pc \in {"pragma", "insert"}
            BY <3>2 DEF Shape, CallShape, Held
      <4>3. QED BY <4>1, <4>2 DEF Shape, CallShape
    <3>3. QED BY <3>1, <3>2
  <2>4. HandleOwnership'
    <3>1. \A s \in Sessions : delegates'[s] # NoHandle => storeOf'[delegates'[s]] = s
          BY <1>2, <2>1, <2>3 DEF Shape, HandleOwnership
    <3>2. ASSUME NEW u \in Threads, Held(u)' # NoHandle
          PROVE  /\ storeOf'[Held(u)'] = call'[u].session
                 /\ \A s \in Sessions : delegates'[s] # Held(u)'
                 /\ \A x \in Threads : x # u => Held(x)' # Held(u)'
      <4>1. CASE u = t
            BY <1>2, <2>1, <2>3, <4>1 DEF Held
      <4>2. CASE u # t
            BY <1>2, <2>1, <2>3, <3>2, <4>2 DEF Held, Shape, HandleOwnership
      <4>3. QED BY <4>1, <4>2
    <3>3. QED BY <3>1, <3>2 DEF HandleOwnership
  <2>5. registered[h] = {}
        BY <1>2 DEF Shape, ObserverAlive
  <2>6. ObserverAlive' /\ SingleRegistration'
        BY <1>2, <2>1, <2>5 DEF Shape, ObserverAlive, SingleRegistration, IsOpen
  <2>7. QED BY <2>2, <2>4, <2>6 DEF Shape
<1>3. QED BY <1>1, <1>2 DEF GetKvStore

\* A thread that drops its handle, or that never had one, disturbs nobody.
LEMMA IdleKeepsShape ==
  ASSUME TypeOK, Shape, NEW t \in Threads,
         call' = [call EXCEPT ![t] = Idle], UNCHANGED <<maps, storeOf, registered>>
  PROVE  Shape'
<1> USE EngineAssumption DEF TypeOK, Idle
<1>1. CallShape'
      BY DEF Shape, CallShape
<1>2. HandleOwnership'
      BY DEF Shape, HandleOwnership, Held, maps
<1>3. ObserverAlive' /\ SingleRegistration'
      BY DEF Shape, ObserverAlive, SingleRegistration, IsOpen, maps
<1>4. QED BY <1>1, <1>2, <1>3 DEF Shape

\* Pragma keeps the handle or drops it.
LEMMA PragmaKeepsShape ==
  ASSUME TypeOK, Shape, NEW t \in Threads, Pragma(t)
  PROVE  Shape'
<1>1. CASE GoTo(t, "insert", call[t].session, call[t].handle)
  <2> USE EngineAssumption DEF TypeOK, GoTo
  <2>1. CallShape'
        BY <1>1 DEF Pragma, At, Shape, CallShape
  <2>2. HandleOwnership'
        BY <1>1 DEF Pragma, Shape, HandleOwnership, Held, maps, database
  <2>3. ObserverAlive' /\ SingleRegistration'
        BY DEF Pragma, Shape, ObserverAlive, SingleRegistration, IsOpen, maps, database
  <2>4. QED BY <2>1, <2>2, <2>3 DEF Shape
<1>2. CASE call' = [call EXCEPT ![t] = Idle]
      BY <1>2, IdleKeepsShape DEF Pragma, database
<1>3. QED BY <1>1, <1>2 DEF Pragma

\* The inserted handle moves from the thread to the map.
LEMMA InsertKeepsShape ==
  ASSUME TypeOK, Shape, NEW t \in Threads, InsertTable(t)
  PROVE  Shape'
<1> USE EngineAssumption DEF TypeOK, GoTo
<1> DEFINE s == call[t].session
           h == call[t].handle
<1>1. /\ s \in Sessions /\ h \in Handles
      /\ storeOf[h] = s
      /\ delegates' = [delegates EXCEPT ![s] = h]
      /\ call' = [call EXCEPT ![t] = [pc |-> "sync", session |-> s, handle |-> NoHandle]]
      /\ UNCHANGED <<observerMap, storeOf, registered>>
      BY DEF InsertTable, At, Shape, CallShape, HandleOwnership, Held, database
<1>2. CallShape'
      BY <1>1 DEF Shape, CallShape
<1>3. HandleOwnership'
  <2>1. \A u \in Sessions : delegates'[u] # NoHandle => storeOf'[delegates'[u]] = u
        BY <1>1 DEF Shape, HandleOwnership
  <2>2. ASSUME NEW u \in Threads, u # t PROVE Held(u)' = Held(u) /\ Held(u) # h
    <3>1. Held(t) = h /\ h # NoHandle
          BY <1>1 DEF Held
    <3>2. Held(u) # h
          BY <2>2, <3>1 DEF Shape, HandleOwnership
    <3>3. QED BY <1>1, <2>2, <3>2 DEF Held
  <2>3. Held(t)' = NoHandle
        BY <1>1 DEF Held
  <2>4. ASSUME NEW u \in Threads, Held(u)' # NoHandle
        PROVE  /\ storeOf'[Held(u)'] = call'[u].session
               /\ \A x \in Sessions : delegates'[x] # Held(u)'
               /\ \A x \in Threads : x # u => Held(x)' # Held(u)'
        BY <1>1, <2>2, <2>3, <2>4 DEF Shape, HandleOwnership, Held
  <2>5. QED BY <2>1, <2>4 DEF HandleOwnership
<1>4. ObserverAlive' /\ SingleRegistration'
      BY <1>1 DEF Shape, ObserverAlive, SingleRegistration, IsOpen
<1>5. QED BY <1>2, <1>3, <1>4 DEF Shape

\* The closed handle is in no other entry and in no thread's hands.
LEMMA DeleteKeepsShape ==
  ASSUME TypeOK, Shape, NEW t \in Threads, NEW s \in Sessions, DeleteTable(t, s)
  PROVE  Shape'
<1>1. CASE UNCHANGED <<maps, storeOf, registered, call>>
      BY <1>1, QuietKeepsShape
<1>2. CASE /\ Accepted(s)
           /\ storeOf' = [storeOf EXCEPT ![delegates[s]] = NoSession]
           /\ registered' = [registered EXCEPT ![delegates[s]] = {}]
           /\ delegates' = [delegates EXCEPT ![s] = NoHandle]
           /\ UNCHANGED <<observerMap, call>>
  <2> USE EngineAssumption DEF TypeOK
  <2> DEFINE h == delegates[s]
  <2>1. h \in Handles /\ storeOf[h] = s
        BY <1>2 DEF Accepted, Shape, HandleOwnership
  <2>2. CallShape'
        BY <1>2 DEF Shape, CallShape
  <2>3. \A u \in Sessions : u # s => delegates[u] # h
        BY <2>1 DEF Shape, HandleOwnership
  <2>4. HandleOwnership'
    <3>1. \A u \in Sessions : delegates'[u] # NoHandle => storeOf'[delegates'[u]] = u
          BY <1>2, <2>1, <2>3 DEF Shape, HandleOwnership
    <3>2. ASSUME NEW u \in Threads, Held(u)' # NoHandle
          PROVE  /\ storeOf'[Held(u)'] = call'[u].session
                 /\ \A x \in Sessions : delegates'[x] # Held(u)'
                 /\ \A x \in Threads : x # u => Held(x)' # Held(u)'
          BY <1>2, <2>1, <3>2 DEF Shape, HandleOwnership, Held
    <3>3. QED BY <3>1, <3>2 DEF HandleOwnership
  <2>5. ObserverAlive' /\ SingleRegistration'
        BY <1>2, <2>1 DEF Shape, ObserverAlive, SingleRegistration, IsOpen
  <2>6. QED BY <2>2, <2>4, <2>5 DEF Shape
<1>3. QED BY <1>1, <1>2 DEF DeleteTable, Refused, maps, database

\* No watcher is registered for a session whose entry is empty, so the one
\* that is added is the only one.
LEMMA RegisterKeepsShape ==
  ASSUME TypeOK, Shape, NEW t \in Threads, NEW s \in Sessions, NEW w \in Watchers,
         RegisterObserver(t, s, w)
  PROVE  Shape'
<1>1. CASE UNCHANGED <<maps, storeOf, registered, call>>
      BY <1>1, QuietKeepsShape
<1>2. CASE /\ Accepted(s)
           /\ observerMap[s] = NoWatcher
           /\ registered' = [registered EXCEPT ![delegates[s]] = @ \cup {w}]
           /\ observerMap' = [observerMap EXCEPT ![s] = w]
           /\ UNCHANGED <<delegates, storeOf, call>>
  <2> USE EngineAssumption DEF TypeOK
  <2> DEFINE h == delegates[s]
  <2>1. h \in Handles /\ storeOf[h] = s
        BY <1>2 DEF Accepted, Shape, HandleOwnership
  <2>2. CallShape' /\ HandleOwnership'
        BY <1>2 DEF Shape, CallShape, HandleOwnership, Held
  <2>3. \A g \in Handles : storeOf[g] = s => registered[g] = {}
        BY <1>2 DEF Shape, ObserverAlive
  <2>4. \A g \in Handles : w \notin registered[g]
    <3>1. \A u \in Sessions : observerMap[u] # w
          BY DEF RegisterObserver
    <3>2. QED BY <3>1 DEF Shape, ObserverAlive, IsOpen
  <2>5. /\ registered'[h] = {w}
        /\ \A g \in Handles : g # h => registered'[g] = registered[g]
        BY <1>2, <2>1, <2>3
  <2>6. ObserverAlive'
        BY <1>2, <2>1, <2>3, <2>5 DEF Shape, ObserverAlive, IsOpen
  <2>7. SingleRegistration'
        BY <2>1, <2>4, <2>5 DEF Shape, SingleRegistration
  <2>8. QED BY <2>2, <2>6, <2>7 DEF Shape
<1>3. QED BY <1>1, <1>2 DEF RegisterObserver, Refused, maps, database

\* What is forgotten by observerMap_ is unregistered, and was registered
\* nowhere else.
LEMMA UnRegisterKeepsShape ==
  ASSUME TypeOK, Shape, NEW t \in Threads, NEW s \in Sessions, UnRegisterObserver(t, s)
  PROVE  Shape'
<1>1. CASE UNCHANGED <<maps, storeOf, registered, call>>
      BY <1>1, QuietKeepsShape
<1>2. CASE /\ Accepted(s)
           /\ observerMap[s] \in registered[delegates[s]]
           /\ registered' = [registered EXCEPT ![delegates[s]] = @ \ {observerMap[s]}]
           /\ observerMap' = [observerMap EXCEPT ![s] = NoWatcher]
           /\ UNCHANGED <<delegates, storeOf, call>>
  <2> USE EngineAssumption DEF TypeOK
  <2> DEFINE h == delegates[s]
  <2>1. h \in Handles /\ storeOf[h] = s
        BY <1>2 DEF Accepted, Shape, HandleOwnership
  <2>2. CallShape' /\ HandleOwnership'
        BY <1>2 DEF Shape, CallShape, HandleOwnership, Held
  <2>3. \A g \in Handles : storeOf[g] = s /\ g # h => registered[g] = {}
        BY <1>2, <2>1 DEF Shape, ObserverAlive, SingleRegistration
  <2>4. /\ registered'[h] = {}
        /\ \A g \in Handles : g # h => registered'[g] = registered[g]
        BY <1>2, <2>1 DEF Shape, ObserverAlive
  <2>5. ObserverAlive'
        BY <1>2, <2>1, <2>3, <2>4 DEF Shape, ObserverAlive, IsOpen
  <2>6. SingleRegistration'
        BY <2>1, <2>4 DEF Shape, SingleRegistration
  <2>7. QED BY <2>2, <2>5, <2>6 DEF Shape
<1>3. QED BY <1>1, <1>2 DEF UnRegisterObserver, Refused, maps, database

\* Every step keeps Shape.
LEMMA ShapeStep == TypeOK /\ Shape /\ [Next]_vars => Shape'
<1> SUFFICES ASSUME TypeOK, Shape, [Next]_vars PROVE Shape'
    OBVIOUS
<1>1. CASE Open
      BY <1>1, QuietKeepsShape DEF Open, database
<1>2. CASE Close
      BY <1>2, QuietKeepsShape DEF Close, database
<1>3. ASSUME NEW t \in Threads, CreateSteps(t) PROVE Shape'
  <2>1. CASE SyncNewTable(t)
        BY <2>1, IdleKeepsShape DEF SyncNewTable, database
  <2>2. QED BY <1>3, <2>1, GetKvStoreKeepsShape, PragmaKeepsShape, InsertKeepsShape
            DEF CreateSteps
<1>4. ASSUME NEW t \in Threads, NEW s \in Sessions, Operation(t, s) PROVE Shape'
  <2>1. CASE CreateTable(t, s)
    <3>1. CASE UNCHANGED call
          BY <2>1, <3>1, QuietKeepsShape DEF CreateTable, database
    <3>2. CASE GoTo(t, "getKvStore", s, NoHandle)
          BY <2>1, <3>2, BeginKeepsShape DEF CreateTable, Enter
    <3>3. QED BY <2>1, <3>1, <3>2 DEF CreateTable
  <2>2. ASSUME NEW i \in Items, NEW v \in Values, UpdateItem(t, s, i, v) PROVE Shape'
        BY <2>2, QuietKeepsShape DEF UpdateItem, Refused, database
  <2>3. ASSUME NEW i \in Items, GetItem(t, s, i) PROVE Shape'
        BY <2>3, QuietKeepsShape DEF GetItem, Refused, database
  <2>4. CASE GetItems(t, s)
        BY <2>4, QuietKeepsShape DEF GetItems, Refused, database
  <2>5. ASSUME NEW alone \in BOOLEAN, SyncAllData(t, s, alone) PROVE Shape'
        BY <2>5, QuietKeepsShape DEF SyncAllData, database
  <2>6. QED BY <1>4, <2>1, <2>2, <2>3, <2>4, <2>5, DeleteKeepsShape, RegisterKeepsShape,
               UnRegisterKeepsShape
            DEF Operation
<1>5. ASSUME NEW s \in Sessions, Environment(s) PROVE Shape'
  <2>1. ASSUME NEW D \in SUBSET Items, NEW data \in [D -> Values], UpdateItems(s, data)
        PROVE  Shape'
        BY <2>1, QuietKeepsShape DEF UpdateItems, Refused, database
  <2>2. ASSUME NEW i \in Items, NEW v \in Values, RemoteWrite(s, i, v) PROVE Shape'
        BY <2>2, QuietKeepsShape DEF RemoteWrite
  <2>3. QED BY <1>5, <2>1, <2>2 DEF Environment
<1>6. CASE UNCHANGED vars
      BY <1>6, QuietKeepsShape DEF vars, database
<1>7. QED BY <1>1, <1>2, <1>3, <1>4, <1>5, <1>6 DEF Next

\* EngineInv is an invariant.
LEMMA EngineInvariant == Spec => []EngineInv
<1>1. EngineInv /\ [Next]_vars => EngineInv'
      BY TypeStep, ShapeStep DEF EngineInv, Shape
<1>2. QED
      BY <1>1, EngineInit, PTL DEF Spec

\* Handles are owned: no operation, on any thread and after any failure,
\* reaches a handle that is closed or that is another's.
THEOREM HandlesAreOwned == Spec => []HandleOwnership
<1>1. EngineInv => HandleOwnership
      BY DEF EngineInv
<1>2. QED
      BY <1>1, EngineInvariant, PTL

\* Observers are alive: every raw watcher pointer the database holds belongs
\* to the entry of observerMap_ that owns the watcher.
THEOREM ObserversAreAlive == Spec => []ObserverAlive
<1>1. EngineInv => ObserverAlive
      BY DEF EngineInv
<1>2. QED
      BY <1>1, EngineInvariant, PTL

-----------------------------------------------------------------------------
(***************************************************************************)
(* What the engine loses and replaces, and only after which mishaps.       *)
(***************************************************************************)

\* While a thread creates a session, and no other creation of the session has
\* overlapped, it is alone at it and no one else has created it.
CreatorAlone ==
  \A t \in Threads, s \in Sessions :
    Creating(t, s) /\ "overlap" \notin mishaps[s] =>
      /\ delegates[s] = NoHandle
      /\ \A u \in Threads : Creating(u, s) => u = t

\* A session with no open handle has no contents.
EmptyWhenClosed ==
  \A s \in Sessions : HandlesOn(s) = {} => table[s] = EmptyTable

LossInv == CreatorAlone /\ NoHandleLeak /\ EmptyWhenClosed

\* Init establishes it.
LEMMA LossInit == Init => LossInv
BY EngineAssumption
   DEF Init, LossInv, CreatorAlone, NoHandleLeak, EmptyWhenClosed, Creating, Idle, IsOpen

\* A step that leaves delegates_, the open handles and the calls alone, and
\* writes only to tables that have a handle, keeps it.
LEMMA QuietKeepsLoss ==
  ASSUME LossInv, UNCHANGED <<delegates, storeOf, call, mishaps>>,
         \A s \in Sessions : HandlesOn(s) = {} => table'[s] = table[s]
  PROVE  LossInv'
BY DEF LossInv, CreatorAlone, NoHandleLeak, EmptyWhenClosed, Creating, HandlesOn, IsOpen, Held

\* The handle GetKvStore opens is held by the thread.
LEMMA GetKvStoreKeepsLoss ==
  ASSUME EngineInv, LossInv, NEW t \in Threads, GetKvStore(t)
  PROVE  LossInv'
<1> USE EngineAssumption DEF TypeOK
<1>1. CASE UNCHANGED <<storeOf, call>>
      BY <1>1, QuietKeepsLoss DEF GetKvStore, maps
<1>2. ASSUME NEW h \in Handles, ~IsOpen(h),
             storeOf' = [storeOf EXCEPT ![h] = call[t].session],
             GoTo(t, "pragma", call[t].session, h)
      PROVE  LossInv'
  <2>1. /\ call[t].pc = "getKvStore" /\ call[t].session \in Sessions
        /\ UNCHANGED <<delegates, table, mishaps>>
        BY DEF GetKvStore, At, EngineInv, CallShape, maps
  <2>2. \A u \in Threads, s \in Sessions : Creating(u, s)' <=> Creating(u, s)
        BY <1>2, <2>1 DEF Creating, GoTo, EngineInv
  <2>3. CreatorAlone'
        BY <2>1, <2>2 DEF LossInv, CreatorAlone
  <2>4. ASSUME NEW g \in Handles, IsOpen(g)', mishaps'[storeOf'[g]] = {}
        PROVE  delegates'[storeOf'[g]] = g \/ \E u \in Threads : Held(u)' = g
    <3>1. CASE g = h
          BY <1>2, <3>1 DEF GoTo, Held, EngineInv
    <3>2. CASE g # h
      <4>1. storeOf'[g] = storeOf[g] /\ IsOpen(g) /\ mishaps[storeOf[g]] = {}
            BY <1>2, <2>1, <2>4, <3>2 DEF EngineInv, IsOpen
      <4>2. CASE delegates[storeOf[g]] = g
            BY <2>1, <4>1, <4>2
      <4>3. ASSUME NEW u \in Threads, Held(u) = g
            PROVE  Held(u)' = g
            BY <1>2, <2>1, <4>3 DEF GoTo, Held, EngineInv, CallShape
      <4>4. QED BY <4>1, <4>2, <4>3 DEF LossInv, NoHandleLeak
    <3>3. QED BY <3>1, <3>2
  <2>5. EmptyWhenClosed'
        BY <1>2, <2>1 DEF LossInv, EmptyWhenClosed, HandlesOn, IsOpen, EngineInv
  <2>6. QED BY <2>3, <2>4, <2>5 DEF LossInv, NoHandleLeak
<1>3. QED BY <1>1, <1>2 DEF GetKvStore

\* A failing Pragma loses the handle of the session it marks, and no other.
LEMMA PragmaKeepsLoss ==
  ASSUME EngineInv, LossInv, NEW t \in Threads, Pragma(t)
  PROVE  LossInv'
<1> USE EngineAssumption DEF TypeOK
<1> DEFINE s == call[t].session
<1>1. /\ call[t].pc = "pragma" /\ s \in Sessions
      /\ UNCHANGED <<delegates, storeOf, table>>
      BY DEF Pragma, At, EngineInv, CallShape, maps, database
<1>2. EmptyWhenClosed'
      BY <1>1 DEF LossInv, EmptyWhenClosed, HandlesOn
<1>3. CASE GoTo(t, "insert", s, call[t].handle) /\ UNCHANGED mishaps
  <2>1. \A u \in Threads : Held(u)' = Held(u)
        BY <1>3 DEF Held, GoTo, EngineInv
  <2>2. \A u \in Threads, x \in Sessions : Creating(u, x)' <=> Creating(u, x)
        BY <1>1, <1>3 DEF Creating, GoTo, EngineInv
  <2>3. CreatorAlone' /\ NoHandleLeak'
        BY <1>1, <1>3, <2>1, <2>2 DEF LossInv, CreatorAlone, NoHandleLeak, IsOpen
  <2>4. QED BY <1>2, <2>3 DEF LossInv
<1>4. CASE /\ call' = [call EXCEPT ![t] = Idle]
           /\ mishaps' = [mishaps EXCEPT ![s] = @ \cup {"pragma"}]
  <2>1. \A u \in Threads, x \in Sessions : Creating(u, x)' => Creating(u, x)
        BY <1>4 DEF Creating, Idle, EngineInv
  <2>2. \A x \in Sessions : "overlap" \notin mishaps'[x] => "overlap" \notin mishaps[x]
        BY <1>4 DEF EngineInv
  <2>3. CreatorAlone'
        BY <1>1, <2>1, <2>2 DEF LossInv, CreatorAlone
  <2>4. ASSUME NEW g \in Handles, IsOpen(g)', mishaps'[storeOf'[g]] = {}
        PROVE  delegates'[storeOf'[g]] = g \/ \E u \in Threads : Held(u)' = g
    <3>1. /\ storeOf'[g] = storeOf[g] /\ IsOpen(g) /\ storeOf[g] \in Sessions
          /\ storeOf[g] # s /\ mishaps[storeOf[g]] = {}
          BY <1>1, <1>4, <2>4 DEF IsOpen, EngineInv
    <3>2. ASSUME NEW u \in Threads, Held(u) = g
          PROVE  Held(u)' = g
      <4>1. g # NoHandle
            OBVIOUS
      <4>2. call[u].session = storeOf[g]
            BY <3>2, <4>1 DEF EngineInv, HandleOwnership
      <4>3. u # t
            BY <3>1, <4>2
      <4>4. QED BY <1>4, <3>2, <4>3 DEF Held, EngineInv
    <3>3. QED BY <1>1, <3>1, <3>2 DEF LossInv, NoHandleLeak
  <2>5. QED BY <1>2, <2>3, <2>4 DEF LossInv, NoHandleLeak
<1>5. QED BY <1>3, <1>4 DEF Pragma

\* The handle goes from the thread that opened it to the entry, which was free
\* unless creations of the session have overlapped.
LEMMA InsertKeepsLoss ==
  ASSUME EngineInv, LossInv, NEW t \in Threads, InsertTable(t)
  PROVE  LossInv'
<1> USE EngineAssumption DEF TypeOK
<1> DEFINE s == call[t].session
           h == call[t].handle
<1>1. /\ call[t].pc = "insert" /\ s \in Sessions /\ h \in Handles
      /\ storeOf[h] = s
      /\ delegates' = [delegates EXCEPT ![s] = h]
      /\ GoTo(t, "sync", s, NoHandle)
      /\ UNCHANGED <<storeOf, table, mishaps>>
      BY DEF InsertTable, At, EngineInv, CallShape, HandleOwnership, Held, database
<1>2. Creating(t, s)
      BY <1>1 DEF Creating
<1>3. "overlap" \notin mishaps[s] =>
        delegates[s] = NoHandle /\ \A u \in Threads : Creating(u, s) => u = t
      BY <1>1, <1>2 DEF LossInv, CreatorAlone
<1>4. \A u \in Threads, x \in Sessions : Creating(u, x)' => u # t /\ Creating(u, x)
      BY <1>1 DEF Creating, GoTo, EngineInv
<1>5. CreatorAlone'
  <2>1. ASSUME NEW u \in Threads, NEW x \in Sessions, Creating(u, x)',
               "overlap" \notin mishaps'[x]
        PROVE  /\ delegates'[x] = NoHandle
               /\ \A y \in Threads : Creating(y, x)' => y = u
    <3>1. u # t /\ Creating(u, x) /\ "overlap" \notin mishaps[x]
          BY <1>1, <1>4, <2>1
    <3>2. x # s
          BY <1>3, <3>1
    <3>3. delegates'[x] = delegates[x]
          BY <1>1, <3>2 DEF EngineInv
    <3>4. QED BY <1>4, <3>1, <3>3 DEF LossInv, CreatorAlone
  <2>2. QED BY <2>1 DEF CreatorAlone
<1>6. ASSUME NEW g \in Handles, IsOpen(g)', mishaps'[storeOf'[g]] = {}
      PROVE  delegates'[storeOf'[g]] = g \/ \E u \in Threads : Held(u)' = g
  <2>1. /\ IsOpen(g) /\ storeOf'[g] = storeOf[g] /\ storeOf[g] \in Sessions
        /\ mishaps[storeOf[g]] = {}
        BY <1>1, <1>6 DEF IsOpen, EngineInv
  <2>2. CASE g = h
        BY <1>1, <2>1, <2>2 DEF EngineInv
  <2>3. CASE g # h /\ delegates[storeOf[g]] = g
    <3>1. storeOf[g] # s
          BY <1>3, <2>1, <2>3
    <3>2. QED BY <1>1, <2>1, <2>3, <3>1 DEF EngineInv
  <2>4. ASSUME g # h, NEW u \in Threads, Held(u) = g PROVE Held(u)' = g
        BY <1>1, <2>4 DEF GoTo, Held, EngineInv
  <2>5. QED BY <2>1, <2>2, <2>3, <2>4 DEF LossInv, NoHandleLeak
<1>7. EmptyWhenClosed'
      BY <1>1 DEF LossInv, EmptyWhenClosed, HandlesOn
<1>8. QED BY <1>5, <1>6, <1>7 DEF LossInv, NoHandleLeak

\* The steps of CreateTable keep it.
LEMMA CreateKeepsLoss ==
  ASSUME EngineInv, LossInv, NEW t \in Threads, CreateSteps(t)
  PROVE  LossInv'
<1>1. CASE SyncNewTable(t)
  <2>1. /\ call[t].pc = "sync" /\ call' = [call EXCEPT ![t] = Idle]
        /\ UNCHANGED <<delegates, storeOf, table, mishaps>>
        BY <1>1 DEF SyncNewTable, At, maps, database
  <2>2. \A u \in Threads : Held(u)' = Held(u)
        BY <2>1 DEF Held, Idle, EngineInv, TypeOK, CallShape
  <2>3. \A u \in Threads, s \in Sessions : Creating(u, s)' => Creating(u, s)
        BY <2>1 DEF Creating, Idle, EngineInv, TypeOK
  <2>4. CreatorAlone' /\ NoHandleLeak' /\ EmptyWhenClosed'
        BY <2>1, <2>2, <2>3
           DEF LossInv, CreatorAlone, NoHandleLeak, EmptyWhenClosed, HandlesOn, IsOpen
  <2>5. QED BY <2>4 DEF LossInv
<1>2. QED BY <1>1, GetKvStoreKeepsLoss, PragmaKeepsLoss, InsertKeepsLoss DEF CreateSteps

\* CreateTable finds no entry, and marks the session if it is not alone at it.
LEMMA CreateTableKeepsLoss ==
  ASSUME EngineInv, LossInv, NEW t \in Threads, NEW s \in Sessions, CreateTable(t, s)
  PROVE  LossInv'
<1> USE EngineAssumption DEF TypeOK
<1>1. CASE UNCHANGED <<call, mishaps>>
      BY <1>1, QuietKeepsLoss DEF CreateTable, maps, database
<1>2. CASE /\ delegates[s] = NoHandle /\ GoTo(t, "getKvStore", s, NoHandle)
           /\ mishaps' = IF \E u \in Threads : Creating(u, s)
                           THEN [mishaps EXCEPT ![s] = @ \cup {"overlap"}]
                           ELSE mishaps
  <2>1. call[t].pc = "idle" /\ UNCHANGED <<delegates, storeOf, table>>
        BY DEF CreateTable, Enter, maps, database
  <2>2. \A u \in Threads, x \in Sessions :
          Creating(u, x)' <=> (u = t /\ x = s) \/ Creating(u, x)
        BY <1>2, <2>1 DEF Creating, GoTo, EngineInv
  <2>3. \A x \in Sessions : mishaps[x] \subseteq mishaps'[x]
        BY <1>2 DEF EngineInv
  <2>4. "overlap" \notin mishaps'[s] => \A u \in Threads : ~Creating(u, s)
        BY <1>2 DEF EngineInv
  <2>5. CreatorAlone'
        BY <1>2, <2>1, <2>2, <2>3, <2>4 DEF LossInv, CreatorAlone
  <2>6. \A u \in Threads : Held(u)' = Held(u)
        BY <1>2, <2>1 DEF Held, GoTo, EngineInv, CallShape
  <2>7. ASSUME NEW g \in Handles, IsOpen(g)', mishaps'[storeOf'[g]] = {}
        PROVE  delegates'[storeOf'[g]] = g \/ \E u \in Threads : Held(u)' = g
    <3>1. IsOpen(g) /\ storeOf[g] \in Sessions /\ mishaps[storeOf[g]] = {}
          BY <2>1, <2>3, <2>7 DEF IsOpen, EngineInv
    <3>2. QED BY <2>1, <2>6, <3>1 DEF LossInv, NoHandleLeak
  <2>8. EmptyWhenClosed'
        BY <2>1 DEF LossInv, EmptyWhenClosed, HandlesOn
  <2>9. QED BY <2>5, <2>7, <2>8 DEF LossInv, NoHandleLeak
<1>3. QED BY <1>1, <1>2 DEF CreateTable

\* DeleteTable closes the handle it forgets, and empties the session whose last
\* handle that is.
LEMMA DeleteTableKeepsLoss ==
  ASSUME EngineInv, LossInv, NEW t \in Threads, NEW s \in Sessions, DeleteTable(t, s)
  PROVE  LossInv'
<1> USE EngineAssumption DEF TypeOK
<1>1. CASE UNCHANGED <<maps, database, call, mishaps>>
      BY <1>1, QuietKeepsLoss DEF maps, database
<1>2. CASE /\ Accepted(s)
           /\ storeOf' = [storeOf EXCEPT ![delegates[s]] = NoSession]
           /\ table' = IF HandlesOn(s) = {delegates[s]}
                         THEN [table EXCEPT ![s] = EmptyTable] ELSE table
           /\ delegates' = [delegates EXCEPT ![s] = NoHandle]
           /\ UNCHANGED <<call, mishaps>>
  <2> DEFINE h == delegates[s]
  <2>1. h \in Handles /\ storeOf[h] = s
        BY <1>2 DEF Accepted, EngineInv, HandleOwnership
  <2>2. CreatorAlone'
    <3>1. \A u \in Threads, x \in Sessions : Creating(u, x)' <=> Creating(u, x)
          BY <1>2 DEF Creating
    <3>2. \A x \in Sessions : delegates[x] = NoHandle => delegates'[x] = NoHandle
          BY <1>2 DEF EngineInv
    <3>3. QED BY <1>2, <3>1, <3>2 DEF LossInv, CreatorAlone
  <2>3. ASSUME NEW g \in Handles, IsOpen(g)', mishaps'[storeOf'[g]] = {}
        PROVE  delegates'[storeOf'[g]] = g \/ \E u \in Threads : Held(u)' = g
    <3>1. g # h /\ IsOpen(g) /\ storeOf'[g] = storeOf[g]
          BY <1>2, <2>1, <2>3 DEF IsOpen, EngineInv
    <3>2. CASE delegates[storeOf[g]] = g
          BY <1>2, <3>1, <3>2 DEF EngineInv
    <3>3. ASSUME NEW u \in Threads, Held(u) = g PROVE Held(u)' = g
          BY <1>2, <3>3 DEF Held
    <3>4. QED BY <1>2, <2>3, <3>1, <3>2, <3>3 DEF LossInv, NoHandleLeak
  <2>4. ASSUME NEW u \in Sessions, HandlesOn(u)' = {}
        PROVE  table'[u] = EmptyTable
    <3>1. CASE u = s
      <4>1. HandlesOn(s) = {h}
            BY <1>2, <2>1, <2>4, <3>1 DEF HandlesOn, EngineInv
      <4>2. QED BY <1>2, <3>1, <4>1 DEF EngineInv
    <3>2. CASE u # s
      <4>1. HandlesOn(u) = {}
            BY <1>2, <2>1, <2>4, <3>2 DEF HandlesOn, EngineInv
      <4>2. table'[u] = table[u]
            BY <1>2, <3>2 DEF EngineInv
      <4>3. QED BY <4>1, <4>2 DEF LossInv, EmptyWhenClosed
    <3>3. QED BY <3>1, <3>2
  <2>5. QED BY <2>2, <2>3, <2>4 DEF LossInv, NoHandleLeak, EmptyWhenClosed
<1>3. QED BY <1>1, <1>2 DEF DeleteTable, Refused

\* An operation of a thread keeps it.
LEMMA OperationKeepsLoss ==
  ASSUME EngineInv, LossInv, NEW t \in Threads, NEW s \in Sessions, Operation(t, s)
  PROVE  LossInv'
<1>1. ASSUME NEW i \in Items, NEW v \in Values, UpdateItem(t, s, i, v) PROVE LossInv'
  <2>1. CASE UNCHANGED <<maps, database, call, mishaps>>
        BY <2>1, QuietKeepsLoss DEF maps, database
  <2>2. CASE /\ Accepted(s)
             /\ table' = [table EXCEPT ![s][i] = v]
             /\ UNCHANGED <<maps, storeOf, call, mishaps>>
    <3>1. HandlesOn(s) # {}
          BY <2>2, EngineAssumption DEF Accepted, HandlesOn, EngineInv, HandleOwnership, TypeOK
    <3>2. \A u \in Sessions : HandlesOn(u) = {} => table'[u] = table[u]
          BY <2>2, <3>1 DEF EngineInv, TypeOK
    <3>3. QED BY <2>2, <3>2, QuietKeepsLoss DEF maps
  <2>3. QED BY <1>1, <2>1, <2>2 DEF UpdateItem, Refused
<1>2. ASSUME NEW i \in Items, GetItem(t, s, i) PROVE LossInv'
      BY <1>2, QuietKeepsLoss DEF GetItem, Refused, maps, database
<1>3. CASE GetItems(t, s)
      BY <1>3, QuietKeepsLoss DEF GetItems, Refused, maps, database
<1>4. ASSUME NEW w \in Watchers, RegisterObserver(t, s, w) PROVE LossInv'
      BY <1>4, QuietKeepsLoss DEF RegisterObserver, Refused, maps, database
<1>5. CASE UnRegisterObserver(t, s)
      BY <1>5, QuietKeepsLoss DEF UnRegisterObserver, Refused, maps, database
<1>6. ASSUME NEW alone \in BOOLEAN, SyncAllData(t, s, alone) PROVE LossInv'
      BY <1>6, QuietKeepsLoss DEF SyncAllData, maps, database
<1>7. QED BY <1>1, <1>2, <1>3, <1>4, <1>5, <1>6, CreateTableKeepsLoss, DeleteTableKeepsLoss
          DEF Operation

\* The retrieve callback and the peers write only to tables with a handle.
LEMMA EnvironmentKeepsLoss ==
  ASSUME EngineInv, LossInv, NEW s \in Sessions, Environment(s)
  PROVE  LossInv'
<1> USE EngineAssumption DEF TypeOK
<1>1. ASSUME NEW D \in SUBSET Items, NEW data \in [D -> Values], UpdateItems(s, data)
      PROVE  LossInv'
  <2>1. CASE UNCHANGED <<maps, database, call, mishaps>>
        BY <2>1, QuietKeepsLoss DEF maps, database
  <2>2. CASE /\ Accepted(s)
             /\ table' = [table EXCEPT ![s] =
                            [i \in Items |-> IF i \in DOMAIN data THEN data[i]
                                                                  ELSE @[i]]]
             /\ UNCHANGED <<maps, storeOf, call, mishaps>>
    <3>1. HandlesOn(s) # {}
          BY <2>2 DEF Accepted, HandlesOn, EngineInv, HandleOwnership
    <3>2. \A u \in Sessions : HandlesOn(u) = {} => table'[u] = table[u]
          BY <2>2, <3>1 DEF EngineInv
    <3>3. QED BY <2>2, <3>2, QuietKeepsLoss DEF maps
  <2>3. QED BY <1>1, <2>1, <2>2 DEF UpdateItems, Refused
<1>2. ASSUME NEW i \in Items, NEW v \in Values, RemoteWrite(s, i, v) PROVE LossInv'
  <2>1. \A u \in Sessions : HandlesOn(u) = {} => table'[u] = table[u]
        BY <1>2 DEF RemoteWrite, EngineInv
  <2>2. QED BY <1>2, <2>1, QuietKeepsLoss DEF RemoteWrite, maps
<1>3. QED BY <1>1, <1>2 DEF Environment

\* Every step keeps it.
LEMMA LossStep == EngineInv /\ LossInv /\ [Next]_vars => LossInv'
<1> SUFFICES ASSUME EngineInv, LossInv, [Next]_vars PROVE LossInv'
    OBVIOUS
<1>1. CASE Open
      BY <1>1, QuietKeepsLoss DEF Open, maps, database
<1>2. CASE Close
      BY <1>2, QuietKeepsLoss DEF Close, maps, database
<1>3. CASE UNCHANGED vars
      BY <1>3, QuietKeepsLoss DEF vars, maps, database
<1>4. QED BY <1>1, <1>2, <1>3, CreateKeepsLoss, OperationKeepsLoss, EnvironmentKeepsLoss
          DEF Next

\* The two invariants of the engine, together.
LEMMA LossInvariant == Spec => [](EngineInv /\ LossInv)
<1>1. EngineInv /\ LossInv /\ [Next]_vars => (EngineInv /\ LossInv)'
      BY LossStep, TypeStep, ShapeStep DEF EngineInv, Shape
<1>2. QED
      BY <1>1, EngineInit, LossInit, PTL DEF Spec

\* A handle is lost only in a session two of whose creations have overlapped or
\* whose Pragma has failed, whatever else fails and whoever shares it.
THEOREM NoHandleIsLost == Spec => []NoHandleLeak
<1>1. EngineInv /\ LossInv => NoHandleLeak
      BY DEF LossInv
<1>2. QED
      BY <1>1, LossInvariant, PTL

\* A session that has been deleted has no contents left, with the same two
\* exceptions: what is left is what a lost handle keeps.
THEOREM DeletedIsGone == Spec => []DeletedMeansGone
<1>1. EngineInv /\ LossInv => DeletedMeansGone
  <2> SUFFICES ASSUME EngineInv, LossInv, NEW s \in Sessions, delegates[s] = NoHandle,
                      \A t \in Threads : call[t].session # s,
                      mishaps[s] = {}
               PROVE  table[s] = EmptyTable
      BY DEF DeletedMeansGone
  <2>1. ASSUME NEW h \in Handles, storeOf[h] = s PROVE FALSE
    <3>1. IsOpen(h) /\ h # NoHandle
          BY <2>1, EngineAssumption DEF IsOpen
    <3>2. PICK t \in Threads : Held(t) = h
          BY <2>1, <3>1 DEF LossInv, NoHandleLeak
    <3>3. call[t].session = s
          BY <2>1, <3>1, <3>2 DEF EngineInv, HandleOwnership
    <3>4. QED BY <3>3
  <2>2. HandlesOn(s) = {}
        BY <2>1 DEF HandlesOn
  <2>3. QED BY <2>2 DEF LossInv, EmptyWhenClosed
<1>2. QED
      BY <1>1, LossInvariant, PTL

\* A created session is created over itself only after two creations of it
\* have overlapped.
THEOREM CreatedOnce == Spec => NeverReplaced
<1> DEFINE Kept == \A s \in Sessions :
                     delegates[s] # NoHandle =>
                       \/ delegates'[s] \in {delegates[s], NoHandle}
                       \/ "overlap" \in mishaps[s]
<1>1. EngineInv /\ LossInv /\ [Next]_vars => [Kept]_vars
  <2> SUFFICES ASSUME EngineInv, LossInv, Next PROVE Kept
      BY DEF vars, maps
  <2>1. ASSUME NEW t \in Threads, InsertTable(t) PROVE Kept
    <3> DEFINE s == call[t].session
    <3>1. s \in Sessions /\ Creating(t, s) /\ delegates' = [delegates EXCEPT ![s] = call[t].handle]
          BY <2>1 DEF InsertTable, At, Creating, EngineInv, TypeOK, CallShape
    <3>2. delegates[s] # NoHandle => "overlap" \in mishaps[s]
          BY <3>1 DEF LossInv, CreatorAlone
    <3>3. QED BY <3>1, <3>2 DEF EngineInv, TypeOK
  <2>2. ASSUME NEW t \in Threads, NEW s \in Sessions, DeleteTable(t, s) PROVE Kept
        BY <2>2 DEF DeleteTable, Refused, EngineInv, TypeOK, maps
  <2>3. CASE UNCHANGED delegates
        BY <2>3
  <2>4. ASSUME NEW t \in Threads, CreateSteps(t) PROVE Kept
        BY <2>1, <2>3, <2>4 DEF CreateSteps, GetKvStore, Pragma, SyncNewTable, maps
  <2>5. ASSUME NEW t \in Threads, NEW s \in Sessions, Operation(t, s) PROVE Kept
        BY <2>2, <2>3, <2>5
           DEF Operation, CreateTable, UpdateItem, GetItem, GetItems, RegisterObserver,
               UnRegisterObserver, SyncAllData, Refused, maps
  <2>6. ASSUME NEW s \in Sessions, Environment(s) PROVE Kept
        BY <2>3, <2>6 DEF Environment, UpdateItems, RemoteWrite, Refused, maps
  <2>7. QED BY <2>3, <2>4, <2>5, <2>6 DEF Next, Open, Close, maps
<1>2. QED
      BY <1>1, LossInvariant, PTL DEF Spec, NeverReplaced


(***************************************************************************)
(* The object store.                                                       *)
(***************************************************************************)
\* No session is worked on by two threads.
OwnSessions == \A t, u \in Threads : t # u => Serves[t] \cap Serves[u] = {}

\* objects_, watchers_ and the jobs of the threads have their types.
TablesTyped ==
  /\ objects \in [Addresses -> Sessions \cup {NoSession}]
  /\ watchers \in [Addresses -> Watchers \cup {NoWatcher}]
  /\ job \in [Threads -> [step : JobSteps, session : Sessions \cup {NoSession}]]

\* A thread's job is on one of its sessions, and is a CreateTable exactly as
\* long as the engine is inside one for it.
JobShape ==
  \A t \in Threads :
    /\ job[t].step = "none" <=> job[t].session = NoSession
    /\ Busy(t) => job[t].session \in Serves[t]
    /\ job[t].step = "create" <=> call[t].pc # "idle"
    /\ job[t].step = "create" => call[t].session = job[t].session

\* Which of the two tables has the session of a job, at each step of it.
JobPhase ==
  \A t \in Threads :
    LET s == job[t].session
    IN  /\ job[t].step \in {"create", "resume", "cache"} => ObjectsOf(s) = {}
        /\ call[t].pc = "sync" => delegates[s] # NoHandle
        /\ job[t].step \in {"resume", "cache"} => delegates[s] # NoHandle
        /\ job[t].step = "remove" => delegates[s] = NoHandle
        /\ Busy(t) => s \notin bereft
        /\ job[t].step \in {"create", "resume"} => retrievals[s] < MaxRetrievals

\* A handle that is not in delegates_ yet has no watcher.
HeldUnobserved ==
  \A t \in Threads : Held(t) # NoHandle => registered[Held(t)] = {}

\* What the object store adds to the engine's invariant.
TablesInv == JobShape /\ JobPhase /\ HeldUnobserved /\ TablesAgree

\* Creations of one session do not overlap.
NoOverlap == \A s \in Sessions : "overlap" \notin mishaps[s]

StoreInv == StoreTypeOK /\ EngineInv /\ LossInv /\ NoOverlap /\ TablesInv

\* Of a live object and its session, neither left behind by a deletion: one
\* watcher, or none, is filed for the object and owned for the session, and it
\* is registered on the session's handle.
Filed ==
  \A a \in Addresses \ staleKeys :
    LET s == objects[a]
    IN  s # NoSession /\ s \notin outlived =>
          /\ observerMap[s] = watchers[a]
          /\ watchers[a] # NoWatcher =>
               delegates[s] # NoHandle /\ watchers[a] \in registered[delegates[s]]

\* An address no object has is no key of watchers_.
FreeUnwatched ==
  \A a \in Addresses \ staleKeys : objects[a] = NoSession => watchers[a] = NoWatcher

\* A session that has no table, or no object yet, has no observer.
Unobserved ==
  \A s \in Sessions \ outlived :
    delegates[s] = NoHandle \/ (ObjectsOf(s) = {} /\ s \notin bereft) =>
      observerMap[s] = NoWatcher

WatchInv == Filed /\ FreeUnwatched /\ Unobserved

-----------------------------------------------------------------------------
(***************************************************************************)
(* The object store calls the engine as the engine allows, whatever the    *)
(* threads do.                                                             *)
(***************************************************************************)

\* Every step of the store keeps its own tables in their types.
LEMMA TablesTypedStep == TablesTyped /\ [StoreNext]_storeVars => TablesTyped'
<1> SUFFICES ASSUME TablesTyped, [StoreNext]_storeVars PROVE TablesTyped'
    OBVIOUS
<1> USE StoreAssumption DEF TablesTyped, JobSteps, NoJob, SetJob
<1>1. ASSUME NEW t \in Threads, NEW s \in Sessions, CreateObject(t, s) \/ DeleteObject(t, s)
      PROVE  TablesTyped'
      BY <1>1 DEF CreateObject, DeleteObject
<1>2. ASSUME NEW t \in Threads, CreateObjectStep(t) PROVE TablesTyped'
  <2>1. job[t].session \in Sessions \cup {NoSession}
        OBVIOUS
  <2>2. QED BY <1>2, <2>1 DEF CreateObjectStep
<1>3. ASSUME NEW t \in Threads, ResumeObject(t) PROVE TablesTyped'
  <2>1. job[t].session \in Sessions \cup {NoSession}
        OBVIOUS
  <2>2. QED BY <1>3, <2>1 DEF ResumeObject
<1>4. ASSUME NEW t \in Threads, CacheObject(t) PROVE TablesTyped'
  <2>1. job[t].session \in Sessions \cup {NoSession}
        OBVIOUS
  <2>2. QED BY <1>4, <2>1 DEF CacheObject
<1>5. ASSUME NEW t \in Threads, RemoveCacheObject(t) PROVE TablesTyped'
      BY <1>5 DEF RemoveCacheObject
<1>6. ASSUME NEW t \in Threads, NEW a \in Addresses, NEW w \in Watchers, Watch(t, a, w)
      PROVE  TablesTyped'
      BY <1>6 DEF Watch
<1>7. ASSUME NEW t \in Threads, NEW a \in Addresses, UnWatch(t, a) PROVE TablesTyped'
      BY <1>7 DEF UnWatch
<1>8. CASE UNCHANGED <<objects, watchers, job>>
      BY <1>8
<1>9. QED
      BY <1>1, <1>2, <1>3, <1>4, <1>5, <1>6, <1>7, <1>8
         DEF StoreNext, OpenStore, UseObject, Retrieved, PeerWrite, storeVars

\* Every step of the store is a step of the engine, or leaves it alone.
LEMMA StoreStepIsEngineStep == TablesTyped /\ [StoreNext]_storeVars => [Next]_vars
<1> SUFFICES ASSUME TablesTyped, StoreNext PROVE Next \/ UNCHANGED vars
    BY DEF storeVars
<1>1. ASSUME NEW t \in Threads, NEW s \in Sessions, Operation(t, s) PROVE Next
      BY <1>1 DEF Next
<1>2. ASSUME NEW s \in Sessions, Environment(s) PROVE Next
      BY <1>2 DEF Next
<1>3. \A a \in Addresses : objects[a] # NoSession => objects[a] \in Sessions
      BY DEF TablesTyped
<1>4. ASSUME NEW t \in Threads, NEW s \in Sessions, CreateObject(t, s) \/ DeleteObject(t, s)
      PROVE  Next
      BY <1>1, <1>4 DEF CreateObject, DeleteObject, Operation
<1>5. ASSUME NEW t \in Threads, NEW a \in Addresses, UnWatch(t, a) \/ UseObject(t, a)
      PROVE  Next
      BY <1>1, <1>3, <1>5 DEF UnWatch, UseObject, Operation
<1>6. ASSUME NEW t \in Threads, NEW a \in Addresses, NEW w \in Watchers, Watch(t, a, w)
      PROVE  Next
      BY <1>1, <1>3, <1>6 DEF Watch, Operation
<1>7. ASSUME NEW s \in Sessions, PeerWrite(s) \/ Retrieved(s) PROVE Next \/ UNCHANGED vars
      BY <1>2, <1>7 DEF PeerWrite, Retrieved, Environment
<1>8. ASSUME NEW t \in Threads, CreateObjectStep(t) PROVE Next
      BY <1>8 DEF CreateObjectStep, Next
<1>9. ASSUME NEW t \in Threads, ResumeObject(t) \/ CacheObject(t) \/ RemoveCacheObject(t)
      PROVE  UNCHANGED vars
      BY <1>9 DEF ResumeObject, CacheObject, RemoveCacheObject
<1>10. CASE OpenStore
      BY <1>10 DEF OpenStore, Next
<1>11. QED BY <1>4, <1>5, <1>6, <1>7, <1>8, <1>9, <1>10 DEF StoreNext

\* Whatever its callers do, the object store uses the engine as the engine is
\* specified to be used: FlatObjectStore and DistributedObjectStoreImpl add no
\* step of their own to FlatObjectStorageEngine.
THEOREM StoreImplementsEngine == StoreSpec => Spec
<1>1. StoreInit => Init /\ TablesTyped
      BY DEF StoreInit, TablesTyped, NoJob, JobSteps
<1>2. QED
      BY <1>1, TablesTypedStep, StoreStepIsEngineStep, PTL DEF StoreSpec, Spec

-----------------------------------------------------------------------------
(***************************************************************************)
(* The two tables agree, for threads with sessions of their own.           *)
(***************************************************************************)

\* The session a thread works on is nobody else's job.
LEMMA NobodyElse ==
  ASSUME OwnSessions, JobShape, NEW t \in Threads, NEW s \in Serves[t],
         NEW u \in Threads, u # t
  PROVE  job[u].session # s
<1>1. s \in Sessions /\ s # NoSession
      BY EngineAssumption
<1>2. CASE Busy(u)
      BY <1>2 DEF JobShape, OwnSessions
<1>3. CASE ~Busy(u)
      BY <1>1, <1>3 DEF JobShape, Busy
<1>4. QED BY <1>2, <1>3

\* Init establishes the invariant.
LEMMA StoreInitInv == StoreInit => StoreInv
<1> SUFFICES ASSUME StoreInit PROVE StoreInv
    OBVIOUS
<1>1. EngineInv /\ LossInv
      BY EngineInit, LossInit DEF StoreInit
<1>2. StoreTypeOK
      BY <1>1, StoreAssumption DEF StoreInit, StoreTypeOK, EngineInv, NoJob, JobSteps
<1>3. TablesInv
      BY <1>1, EngineAssumption
         DEF StoreInit, Init, TablesInv, JobShape, JobPhase, HeldUnobserved, TablesAgree,
             NoJob, Busy, Idle, Held, ObjectsOf
<1>4. NoOverlap
      BY DEF StoreInit, Init, NoOverlap
<1>5. QED BY <1>1, <1>2, <1>3, <1>4 DEF StoreInv

\* Every step keeps values in their types.  ResumeObject counts a request that
\* CreateObject found room for.
LEMMA StoreTypeStep ==
  ASSUME StoreTypeOK, JobShape, JobPhase, [StoreNext]_storeVars
  PROVE  StoreTypeOK'
<1>1. TypeOK' /\ TablesTyped'
      BY TypeStep, TablesTypedStep, StoreStepIsEngineStep DEF StoreTypeOK, TablesTyped
<1>2. retrievals' \in [Sessions -> 0 .. MaxRetrievals]
  <2>1. CASE UNCHANGED retrievals
        BY <2>1 DEF StoreTypeOK
  <2>2. ASSUME NEW t \in Threads, ResumeObject(t)
        PROVE  retrievals' \in [Sessions -> 0 .. MaxRetrievals]
    <3>1. CASE retrievals' = [retrievals EXCEPT ![job[t].session] = @ + 1]
      <4>1. job[t].step = "resume"
            BY <2>2 DEF ResumeObject
      <4>2. job[t].session \in Sessions => retrievals[job[t].session] + 1 \in 0 .. MaxRetrievals
            BY <4>1, StoreAssumption DEF JobPhase, StoreTypeOK
      <4>3. QED BY <3>1, <4>2 DEF StoreTypeOK
    <3>2. QED BY <2>1, <2>2, <3>1 DEF ResumeObject
  <2>3. ASSUME NEW s \in Sessions, Retrieved(s)
        PROVE  retrievals' \in [Sessions -> 0 .. MaxRetrievals]
        BY <2>3, StoreAssumption DEF Retrieved, StoreTypeOK
  <2>4. QED
        BY <2>1, <2>2, <2>3
           DEF StoreNext, OpenStore, CreateObject, CreateObjectStep, CacheObject,
               RemoveCacheObject, DeleteObject, Watch, UnWatch, UseObject, PeerWrite, storeVars
<1>3. bereft' \subseteq Sessions /\ outlived' \subseteq Sessions /\ staleKeys' \subseteq Addresses
  <2>1. CASE UNCHANGED history
        BY <2>1 DEF history, StoreTypeOK
  <2>2. ASSUME NEW t \in Threads, CacheObject(t)
        PROVE  bereft' \subseteq Sessions /\ UNCHANGED <<outlived, staleKeys>>
    <3>1. job[t].session \in Sessions
          BY <2>2, EngineAssumption DEF CacheObject, JobShape, Busy
    <3>2. QED BY <2>2, <3>1 DEF CacheObject, StoreTypeOK
  <2>3. ASSUME NEW t \in Threads, NEW s \in Sessions, DeleteObject(t, s)
        PROVE  /\ bereft' \subseteq Sessions /\ outlived' \subseteq Sessions
               /\ UNCHANGED staleKeys
        BY <2>3 DEF DeleteObject, StoreTypeOK
  <2>4. ASSUME NEW t \in Threads, RemoveCacheObject(t)
        PROVE  /\ bereft' \subseteq Sessions /\ staleKeys' \subseteq Addresses
               /\ UNCHANGED outlived
        BY <2>4 DEF RemoveCacheObject, Orphaned, LiveObjects, StoreTypeOK
  <2>5. QED
        BY <2>1, <2>2, <2>3, <2>4
           DEF StoreNext, OpenStore, CreateObject, CreateObjectStep, ResumeObject, Watch,
               UnWatch, UseObject, Retrieved, PeerWrite, storeVars, StoreTypeOK
<1>4. QED BY <1>1, <1>2, <1>3 DEF StoreTypeOK, TablesTyped

\* A step that leaves both tables, the calls and the jobs alone, and adds no
\* request, keeps TablesInv.
LEMMA QuietKeepsTables ==
  ASSUME StoreTypeOK, TablesInv,
         UNCHANGED <<delegates, registered, call, objects, job, bereft>>,
         retrievals' \in [Sessions -> 0 .. MaxRetrievals],
         \A s \in Sessions : retrievals'[s] <= retrievals[s]
  PROVE  TablesInv'
<1>1. JobShape' /\ HeldUnobserved' /\ TablesAgree'
      BY DEF TablesInv, JobShape, HeldUnobserved, TablesAgree, Busy, Held, ObjectsOf
<1>2. ASSUME NEW t \in Threads, job[t].step \in {"create", "resume"}
      PROVE  retrievals'[job[t].session] < MaxRetrievals
  <2>1. job[t].session \in Sessions
        BY <1>2 DEF TablesInv, JobShape, StoreTypeOK
  <2>2. retrievals[job[t].session] < MaxRetrievals
        BY <1>2 DEF TablesInv, JobPhase
  <2>3. QED BY <2>1, <2>2, StoreAssumption DEF StoreTypeOK
<1>3. JobPhase'
      BY <1>2 DEF TablesInv, JobPhase, ObjectsOf, Busy
<1>4. QED BY <1>1, <1>3 DEF TablesInv

\* CreateObject begins with a session that neither table has.
LEMMA CreateObjectKeepsTables ==
  ASSUME OwnSessions, StoreInv, NEW t \in Threads, NEW s \in Sessions, CreateObject(t, s)
  PROVE  TablesInv'
<1>1. /\ UNCHANGED <<delegates, registered, objects, retrievals, bereft>>
      /\ s \in Serves[t] /\ job[t].step = "none" /\ call[t].pc = "idle"
      BY DEF CreateObject, CreateTable, Enter, Busy, maps, database, history
<1>2. CASE UNCHANGED call
  <2>1. UNCHANGED job
        BY <1>1, <1>2 DEF CreateObject, SetJob
  <2>2. QED BY <1>1, <1>2, <2>1, QuietKeepsTables DEF StoreInv, StoreTypeOK
<1>3. CASE delegates[s] = NoHandle /\ GoTo(t, "getKvStore", s, NoHandle)
  <2>1. /\ call' = [call EXCEPT ![t] = [pc |-> "getKvStore", session |-> s, handle |-> NoHandle]]
        /\ job' = [job EXCEPT ![t] = [step |-> "create", session |-> s]]
        BY <1>3 DEF CreateObject, GoTo, SetJob, StoreInv, EngineInv, TypeOK
  <2>2. /\ call'[t] = [pc |-> "getKvStore", session |-> s, handle |-> NoHandle]
        /\ job'[t] = [step |-> "create", session |-> s]
        /\ \A u \in Threads : u # t => call'[u] = call[u] /\ job'[u] = job[u]
        BY <2>1 DEF StoreInv, EngineInv, TypeOK, StoreTypeOK
  <2>3. s # NoSession
        BY EngineAssumption
  <2>4. \A u \in Threads : job[u].session # s
        BY <1>1, <2>3, NobodyElse DEF StoreInv, TablesInv, JobShape
  <2>5. /\ ObjectsOf(s) = {} /\ s \notin bereft
        /\ \A u \in Sessions \cup {NoSession} : ObjectsOf(u)' = ObjectsOf(u)
        BY <1>1, <1>3, <2>4 DEF StoreInv, TablesInv, TablesAgree, ObjectsOf
  <2>6. JobShape'
        BY <1>1, <2>2, <2>3 DEF StoreInv, TablesInv, JobShape, Busy
  <2>7. JobPhase'
    <3>1. retrievals[s] < MaxRetrievals
          BY DEF CreateObject, StoreRoom
    <3>2. \A u \in Threads : u # t => job[u].session \in Sessions \cup {NoSession}
          BY DEF StoreInv, StoreTypeOK
    <3>3. QED BY <1>1, <2>2, <2>5, <3>1, <3>2 DEF StoreInv, TablesInv, JobPhase, ObjectsOf, Busy
  <2>8. HeldUnobserved'
        BY <1>1, <2>2 DEF StoreInv, TablesInv, HeldUnobserved, Held
  <2>9. TablesAgree'
    <3>1. ASSUME NEW x \in Sessions, \A u \in Threads : job'[u].session # x
          PROVE  \A u \in Threads : job[u].session # x
          BY <1>1, <2>2, <3>1, EngineAssumption DEF StoreInv, TablesInv, JobShape
    <3>2. QED BY <1>1, <2>5, <3>1 DEF StoreInv, TablesInv, TablesAgree
  <2>10. QED BY <2>6, <2>7, <2>8, <2>9 DEF TablesInv
<1>4. QED BY <1>2, <1>3 DEF CreateObject, CreateTable

\* The steps of CreateTable: the handle opened is one nobody watches, and the
\* session it is inserted for has no object.
LEMMA CreateStepKeepsTables ==
  ASSUME OwnSessions, StoreInv, NEW t \in Threads, CreateObjectStep(t)
  PROVE  TablesInv'
<1> DEFINE s == job[t].session
<1>1. /\ job[t].step = "create" /\ UNCHANGED <<registered, objects, retrievals, bereft>>
      /\ s \in Sessions /\ s \in Serves[t] /\ s = call[t].session
      BY EngineAssumption
         DEF CreateObjectStep, CreateSteps, GetKvStore, Pragma, InsertTable, SyncNewTable,
             database, maps, history, StoreInv, StoreTypeOK, TablesInv, JobShape, Busy
<1>2. \A u \in Threads : u # t => job[u].session # s
      BY <1>1, NobodyElse DEF StoreInv, TablesInv
<1>3. /\ ObjectsOf(s) = {} /\ retrievals[s] < MaxRetrievals /\ s \notin bereft
      /\ \A u \in Threads : ObjectsOf(job[u].session)' = ObjectsOf(job'[u].session)
      BY <1>1 DEF StoreInv, TablesInv, JobPhase, ObjectsOf, Busy
<1>4. ASSUME NEW pc \in Steps \ {"idle", "sync"}, NEW h \in Handles \cup {NoHandle},
             GoTo(t, pc, s, h), h # NoHandle => registered[h] = {},
             UNCHANGED delegates
      PROVE  TablesInv'
  <2>1. /\ call'[t] = [pc |-> pc, session |-> s, handle |-> h] /\ UNCHANGED job
        /\ \A u \in Threads : u # t => call'[u] = call[u]
        BY <1>4 DEF GoTo, StoreInv, StoreTypeOK, TypeOK, CreateObjectStep
  <2>2. JobShape' /\ HeldUnobserved'
        BY <1>1, <1>4, <2>1 DEF StoreInv, TablesInv, JobShape, HeldUnobserved, Busy, Held
  <2>3. JobPhase' /\ TablesAgree'
        BY <1>1, <1>4, <2>1 DEF StoreInv, TablesInv, JobPhase, TablesAgree, ObjectsOf, Busy
  <2>4. QED BY <2>2, <2>3 DEF TablesInv
<1>5. CASE GetKvStore(t)
  <2>1. CASE UNCHANGED call
    <3>1. UNCHANGED <<delegates, job>>
          BY <1>1, <1>5, <2>1 DEF GetKvStore, maps, CreateObjectStep, At, SetJob
    <3>2. QED BY <1>1, <2>1, <3>1, QuietKeepsTables DEF StoreInv, StoreTypeOK
  <2>2. ASSUME NEW h \in Handles, ~IsOpen(h), GoTo(t, "pragma", s, h)
        PROVE  TablesInv'
    <3>1. registered[h] = {}
          BY <2>2 DEF StoreInv, EngineInv, ObserverAlive, TypeOK
    <3>2. UNCHANGED delegates
          BY <1>5 DEF GetKvStore, maps
    <3>3. QED BY <1>4, <2>2, <3>1, <3>2 DEF Steps
  <2>3. QED BY <1>1, <1>5, <2>1, <2>2 DEF GetKvStore
<1>6. CASE Pragma(t)
  <2> DEFINE h == call[t].handle
  <2>1. /\ h \in Handles /\ Held(t) = h /\ UNCHANGED delegates
        /\ call[t].pc = "pragma"
        BY <1>1, <1>6, EngineAssumption
           DEF Pragma, maps, At, Held, StoreInv, EngineInv, CallShape, TypeOK
  <2>2. CASE GoTo(t, "insert", s, h)
    <3>1. registered[h] = {}
          BY <2>1, EngineAssumption DEF StoreInv, TablesInv, HeldUnobserved
    <3>2. QED BY <1>4, <2>1, <2>2, <3>1 DEF Steps
  <2>3. CASE call' = [call EXCEPT ![t] = Idle] /\ reply'.result = "ERR_DB_GETKV_FAIL"
    <3>1. /\ call'[t] = Idle
          /\ \A u \in Threads : u # t => call'[u] = call[u]
          BY <2>3 DEF StoreInv, StoreTypeOK, TypeOK
    <3>2. /\ job'[t] = NoJob
          /\ \A u \in Threads : u # t => job'[u] = job[u]
          BY <2>3, <3>1 DEF CreateObjectStep, Idle, StoreInv, StoreTypeOK
    <3>3. delegates[s] = NoHandle
          BY <1>1, <2>1 DEF StoreInv, LossInv, CreatorAlone, NoOverlap, Creating
    <3>4. JobShape' /\ HeldUnobserved'
          BY <1>1, <3>1, <3>2, EngineAssumption
             DEF StoreInv, TablesInv, JobShape, HeldUnobserved, Busy, Held, Idle, NoJob
    <3>5. JobPhase'
          BY <1>1, <2>1, <3>1, <3>2
             DEF StoreInv, TablesInv, JobPhase, ObjectsOf, Busy, Idle, NoJob
    <3>6. TablesAgree'
      <4>1. ASSUME NEW x \in Sessions, x # s, \A u \in Threads : job'[u].session # x
            PROVE  \A u \in Threads : job[u].session # x
            BY <3>2, <4>1
      <4>2. QED BY <1>1, <1>3, <2>1, <3>3, <4>1 DEF StoreInv, TablesInv, TablesAgree, ObjectsOf
    <3>7. QED BY <3>4, <3>5, <3>6 DEF TablesInv
  <2>4. QED BY <1>1, <1>6, <2>2, <2>3 DEF Pragma, Return
<1>7. CASE InsertTable(t)
  <2> DEFINE h == call[t].handle
  <2>1. /\ h \in Handles
        /\ delegates' = [delegates EXCEPT ![s] = h]
        /\ GoTo(t, "sync", s, NoHandle)
        BY <1>1, <1>7, EngineAssumption
           DEF InsertTable, At, StoreInv, EngineInv, CallShape, TypeOK
  <2>2. /\ call'[t] = [pc |-> "sync", session |-> s, handle |-> NoHandle] /\ UNCHANGED job
        /\ \A u \in Threads : u # t => call'[u] = call[u]
        BY <2>1 DEF GoTo, StoreInv, StoreTypeOK, TypeOK, CreateObjectStep
  <2>3. delegates'[s] = h /\ h # NoHandle
        /\ \A x \in Sessions : x # s => delegates'[x] = delegates[x]
        BY <1>1, <2>1, EngineAssumption DEF StoreInv, StoreTypeOK, TypeOK
  <2>4. JobShape' /\ HeldUnobserved'
        BY <1>1, <2>2 DEF StoreInv, TablesInv, JobShape, HeldUnobserved, Busy, Held
  <2>5. JobPhase'
    <3>1. ASSUME NEW u \in Threads, u # t, Busy(u)
          PROVE  job[u].session \in Sessions /\ delegates'[job[u].session] = delegates[job[u].session]
          BY <1>2, <2>3, <3>1, EngineAssumption DEF StoreInv, TablesInv, JobShape
    <3>2. ASSUME NEW u \in Threads, u # t, call[u].pc = "sync"
          PROVE  Busy(u)
          BY <3>2 DEF StoreInv, TablesInv, JobShape, Busy
    <3>3. QED BY <1>1, <1>3, <2>2, <2>3, <3>1, <3>2
              DEF StoreInv, TablesInv, JobPhase, ObjectsOf, Busy
  <2>6. TablesAgree'
        BY <1>1, <2>2, <2>3 DEF StoreInv, TablesInv, TablesAgree, ObjectsOf
  <2>7. QED BY <2>4, <2>5, <2>6 DEF TablesInv
<1>8. CASE SyncNewTable(t)
  <2>1. /\ call' = [call EXCEPT ![t] = Idle] /\ UNCHANGED delegates
        /\ call[t].pc = "sync" /\ reply'.result = "SUCCESS"
        BY <1>8 DEF SyncNewTable, At, Return, maps
  <2>2. /\ call'[t] = Idle
        /\ \A u \in Threads : u # t => call'[u] = call[u]
        BY <2>1 DEF StoreInv, StoreTypeOK, TypeOK
  <2>3. job' = [job EXCEPT ![t] = [step |-> "resume", session |-> s]]
        BY <2>1, <2>2 DEF CreateObjectStep, SetJob, Idle
  <2>4. /\ job'[t] = [step |-> "resume", session |-> s]
        /\ \A u \in Threads : u # t => job'[u] = job[u]
        BY <2>3 DEF StoreInv, StoreTypeOK
  <2>5. JobShape' /\ HeldUnobserved'
    <3>1. s # NoSession
          BY <1>1, EngineAssumption
    <3>2. JobShape'
          BY <1>1, <2>2, <2>4, <3>1 DEF StoreInv, TablesInv, JobShape, Busy, Idle
    <3>3. HeldUnobserved'
          BY <1>1, <2>2 DEF StoreInv, TablesInv, HeldUnobserved, Held, Idle
    <3>4. QED BY <3>2, <3>3
  <2>6. JobPhase'
        BY <1>1, <1>3, <2>1, <2>2, <2>4
           DEF StoreInv, TablesInv, JobPhase, ObjectsOf, Idle, Busy
  <2>7. TablesAgree'
        BY <1>1, <2>1, <2>4 DEF StoreInv, TablesInv, TablesAgree, ObjectsOf
  <2>8. QED BY <2>5, <2>6, <2>7 DEF TablesInv
<1>9. QED BY <1>5, <1>6, <1>7, <1>8 DEF CreateObjectStep, CreateSteps

\* ResumeObject, and the object allocated for a session that has a table.
LEMMA CacheKeepsTables ==
  ASSUME OwnSessions, StoreInv, StoreTypeOK', NEW t \in Threads,
         ResumeObject(t) \/ CacheObject(t)
  PROVE  TablesInv'
<1>0. PICK s : s = job[t].session
      OBVIOUS
<1>1. /\ job[t].step \in {"resume", "cache"}
      /\ UNCHANGED <<delegates, registered, call>>
      /\ s \in Sessions /\ s # NoSession /\ s \in Serves[t]
      /\ ObjectsOf(s) = {} /\ delegates[s] # NoHandle /\ s \notin bereft
      BY <1>0, EngineAssumption
         DEF ResumeObject, CacheObject, vars, maps, database, StoreInv, StoreTypeOK,
             TablesInv, JobShape, JobPhase, Busy
<1>2. \A u \in Threads : u # t => job[u].session # s
      BY <1>1, NobodyElse DEF StoreInv, TablesInv
<1>3. CASE ResumeObject(t)
  <2>1. /\ job'[t] = [step |-> "cache", session |-> s] /\ UNCHANGED <<objects, bereft>>
        /\ \A u \in Threads : u # t => job'[u] = job[u]
        BY <1>0, <1>3 DEF ResumeObject, SetJob, StoreInv, StoreTypeOK, history
  <2>2. \A x \in Sessions : x # s => retrievals'[x] = retrievals[x]
        BY <1>0, <1>1, <1>3 DEF ResumeObject, StoreInv, StoreTypeOK
  <2>3. JobShape' /\ HeldUnobserved'
        BY <1>0, <1>1, <1>3, <2>1
           DEF ResumeObject, StoreInv, TablesInv, JobShape, HeldUnobserved, Busy, Held
  <2>4. JobPhase'
    <3>1. ASSUME NEW u \in Threads, u # t, Busy(u)
          PROVE  retrievals'[job[u].session] = retrievals[job[u].session]
          BY <1>2, <2>2, <3>1, EngineAssumption DEF StoreInv, TablesInv, JobShape
    <3>2. call[t].pc # "sync"
          BY <1>1 DEF StoreInv, TablesInv, JobShape
    <3>3. QED BY <1>0, <1>1, <2>1, <3>1, <3>2 DEF StoreInv, TablesInv, JobPhase, ObjectsOf, Busy
  <2>5. TablesAgree'
        BY <1>0, <1>1, <2>1 DEF StoreInv, TablesInv, TablesAgree, ObjectsOf
  <2>6. QED BY <2>3, <2>4, <2>5 DEF TablesInv
<1>4. ASSUME NEW a \in Addresses, objects[a] = NoSession,
             objects' = [objects EXCEPT ![a] = s],
             job' = [job EXCEPT ![t] = NoJob], UNCHANGED <<retrievals, bereft>>,
             job[t].step = "cache"
      PROVE  TablesInv'
  <2>1. /\ job'[t] = NoJob
        /\ \A u \in Threads : u # t => job'[u] = job[u]
        BY <1>4 DEF StoreInv, StoreTypeOK
  <2>2. /\ ObjectsOf(s)' = {a}
        /\ \A x \in Sessions : x # s => ObjectsOf(x)' = ObjectsOf(x)
        BY <1>1, <1>4, EngineAssumption DEF StoreInv, StoreTypeOK, ObjectsOf
  <2>3. JobShape' /\ HeldUnobserved'
        BY <1>1, <1>4, <2>1
           DEF StoreInv, TablesInv, JobShape, HeldUnobserved, Busy, Held, NoJob
  <2>4. JobPhase'
    <3>1. ASSUME NEW u \in Threads, u # t, Busy(u), NEW x \in Sessions, x = job[u].session
          PROVE  job[u].step \in {"create", "resume", "cache"} => ObjectsOf(x)' = {}
          BY <1>2, <2>2, <3>1 DEF StoreInv, TablesInv, JobPhase
    <3>2. \A u \in Threads : Busy(u) => job[u].session \in Sessions
          BY EngineAssumption DEF StoreInv, TablesInv, JobShape
    <3>3. \A u \in Threads : call[u].pc = "sync" => job[u].step = "create"
          BY DEF StoreInv, TablesInv, JobShape
    <3>4. QED BY <1>1, <1>4, <2>1, <3>1, <3>2, <3>3
              DEF StoreInv, TablesInv, JobPhase, ObjectsOf, Busy, NoJob
  <2>5. TablesAgree'
        BY <1>0, <1>1, <1>4, <2>1, <2>2 DEF StoreInv, TablesInv, TablesAgree
  <2>6. QED BY <2>3, <2>4, <2>5 DEF TablesInv
<1>5. ASSUME bereft' = bereft \cup {s}, UNCHANGED <<objects, retrievals>>,
             job' = [job EXCEPT ![t] = NoJob], job[t].step = "cache"
      PROVE  TablesInv'
  <2>1. /\ job'[t] = NoJob
        /\ \A u \in Threads : u # t => job'[u] = job[u]
        BY <1>5 DEF StoreInv, StoreTypeOK
  <2>2. JobShape' /\ HeldUnobserved'
        BY <1>1, <1>5, <2>1
           DEF StoreInv, TablesInv, JobShape, HeldUnobserved, Busy, Held, NoJob
  <2>3. JobPhase'
    <3>1. \A u \in Threads : call[u].pc = "sync" => job[u].step = "create"
          BY DEF StoreInv, TablesInv, JobShape
    <3>2. QED BY <1>1, <1>2, <1>5, <2>1, <3>1
              DEF StoreInv, TablesInv, JobPhase, ObjectsOf, Busy, NoJob
  <2>4. TablesAgree'
    <3>1. ASSUME NEW x \in Sessions, x # s, \A u \in Threads : job'[u].session # x
          PROVE  \A u \in Threads : job[u].session # x
          BY <1>0, <2>1, <3>1
    <3>2. QED BY <1>1, <1>5, <3>1 DEF StoreInv, TablesInv, TablesAgree, ObjectsOf
  <2>5. QED BY <2>2, <2>3, <2>4 DEF TablesInv
<1>6. QED BY <1>0, <1>1, <1>3, <1>4, <1>5 DEF CacheObject

\* DeleteObject goes on only when the engine has let go of the table.
LEMMA DeleteObjectKeepsTables ==
  ASSUME OwnSessions, StoreInv, NEW t \in Threads, NEW s \in Sessions, DeleteObject(t, s)
  PROVE  TablesInv'
<1>1. /\ s \in Serves[t] /\ job[t].step = "none" /\ call[t].pc = "idle"
      /\ UNCHANGED <<objects, call, retrievals>>
      BY DEF DeleteObject, DeleteTable, Enter, Busy, Refused
<1>2. CASE UNCHANGED <<maps, database>> /\ reply'.result # "SUCCESS"
  <2>1. UNCHANGED <<job, bereft>>
        BY <1>2 DEF DeleteObject
  <2>2. QED BY <1>1, <1>2, <2>1, QuietKeepsTables DEF StoreInv, StoreTypeOK, maps, database
<1>3. CASE /\ Accepted(s)
           /\ registered' = [registered EXCEPT ![delegates[s]] = {}]
           /\ delegates' = [delegates EXCEPT ![s] = NoHandle]
           /\ reply'.result = "SUCCESS"
  <2>1. /\ job'[t] = [step |-> "remove", session |-> s]
        /\ bereft' = bereft \ {s}
        /\ \A u \in Threads : u # t => job'[u] = job[u]
        BY <1>3 DEF DeleteObject, SetJob, StoreInv, StoreTypeOK
  <2>2. /\ delegates'[s] = NoHandle
        /\ \A x \in Sessions : x # s => delegates'[x] = delegates[x]
        BY <1>3 DEF StoreInv, StoreTypeOK, TypeOK
  <2>3. s # NoSession /\ \A u \in Threads : job[u].session # s
        BY <1>1, NobodyElse, EngineAssumption DEF StoreInv, TablesInv, JobShape
  <2>4. JobShape'
        BY <1>1, <2>1, <2>3 DEF StoreInv, TablesInv, JobShape, Busy
  <2>5. HeldUnobserved'
        BY <1>1, <1>3 DEF StoreInv, TablesInv, HeldUnobserved, Held, EngineInv, TypeOK
  <2>6. JobPhase'
    <3>1. ASSUME NEW u \in Threads, u # t, Busy(u)
          PROVE  delegates'[job[u].session] = delegates[job[u].session]
          BY <2>2, <2>3, <3>1, EngineAssumption DEF StoreInv, TablesInv, JobShape
    <3>2. \A u \in Threads : call[u].pc = "sync" => Busy(u)
          BY DEF StoreInv, TablesInv, JobShape, Busy
    <3>3. QED BY <1>1, <2>1, <2>2, <3>1, <3>2
              DEF StoreInv, TablesInv, JobPhase, ObjectsOf, Busy
  <2>7. TablesAgree'
    <3>1. ASSUME NEW x \in Sessions, \A u \in Threads : job'[u].session # x
          PROVE  x # s /\ \A u \in Threads : job[u].session # x
          BY <1>1, <2>1, <3>1, EngineAssumption DEF StoreInv, TablesInv, JobShape
    <3>2. QED BY <1>1, <2>1, <2>2, <3>1 DEF StoreInv, TablesInv, TablesAgree, ObjectsOf
  <2>8. QED BY <2>4, <2>5, <2>6, <2>7 DEF TablesInv
<1>4. QED BY <1>2, <1>3 DEF DeleteObject, DeleteTable, Refused, Return

\* What RemoveCacheObject takes: the object of its session, if it still has one,
\* and objects of other sessions.
LEMMA Taken ==
  ASSUME StoreInv, NEW t \in Threads, RemoveCacheObject(t),
         NEW s \in Sessions, s = job[t].session
  PROVE  \E gone \in SUBSET Addresses :
           /\ MayGo(s, gone)
           /\ bereft' = bereft \cup Orphaned(gone)
           /\ staleKeys' = staleKeys \cup {a \in gone : watchers[a] # NoWatcher}
           /\ \A a \in Addresses : objects'[a] = IF a \in gone THEN NoSession ELSE objects[a]
           /\ \A x \in Sessions : ObjectsOf(x)' = ObjectsOf(x) \ gone
           /\ ObjectsOf(s)' = {}
<1>1. PICK gone \in SUBSET LiveObjects :
        /\ MayGo(s, gone)
        /\ objects' = [a \in Addresses |-> IF a \in gone THEN NoSession ELSE objects[a]]
        /\ bereft' = bereft \cup Orphaned(gone)
        /\ staleKeys' = staleKeys \cup {a \in gone : watchers[a] # NoWatcher}
      BY DEF RemoveCacheObject
<1>2. gone \in SUBSET Addresses
      BY DEF LiveObjects
<1>3. \A a \in Addresses : objects'[a] = IF a \in gone THEN NoSession ELSE objects[a]
      BY <1>1
<1>4. \A x \in Sessions : ObjectsOf(x)' = ObjectsOf(x) \ gone
      BY <1>3, EngineAssumption DEF ObjectsOf
<1>5. ObjectsOf(s) \ gone = {}
  <2>1. \A a, b \in ObjectsOf(s) : a = b
        BY DEF StoreInv, TablesInv, TablesAgree
  <2>2. QED BY <1>1, <2>1 DEF MayGo
<1>6. QED BY <1>1, <1>2, <1>3, <1>4, <1>5

\* The objects go.  A session that has a table keeps it without its object; one
\* that has none is about to remove its object itself.
LEMMA RemoveKeepsTables ==
  ASSUME OwnSessions, StoreInv, NEW t \in Threads, RemoveCacheObject(t)
  PROVE  TablesInv'
<1>0. PICK s : s = job[t].session
      OBVIOUS
<1>1. /\ job[t].step = "remove" /\ UNCHANGED <<delegates, registered, call, retrievals>>
      /\ s \in Sessions /\ s # NoSession /\ s \in Serves[t] /\ delegates[s] = NoHandle
      /\ s \notin bereft
      BY <1>0, EngineAssumption
         DEF RemoveCacheObject, vars, maps, database, StoreInv, StoreTypeOK, TablesInv,
             JobShape, JobPhase, Busy
<1>2. \A u \in Threads : u # t => job[u].session # s
      BY <1>1, NobodyElse DEF StoreInv, TablesInv
<1>3. /\ job'[t] = NoJob
      /\ \A u \in Threads : u # t => job'[u] = job[u]
      BY DEF RemoveCacheObject, StoreInv, StoreTypeOK
<1>4. PICK gone \in SUBSET Addresses :
        /\ bereft' = bereft \cup Orphaned(gone)
        /\ \A x \in Sessions : ObjectsOf(x)' = ObjectsOf(x) \ gone
        /\ ObjectsOf(s)' = {}
      BY <1>0, <1>1, Taken
<1>5. JobShape' /\ HeldUnobserved'
      BY <1>1, <1>3 DEF StoreInv, TablesInv, JobShape, HeldUnobserved, Busy, Held, NoJob
<1>6. JobPhase'
  <2>1. ASSUME NEW u \in Threads, u # t, Busy(u), NEW x \in Sessions, x = job[u].session
        PROVE  /\ job[u].step \in {"create", "resume", "cache"} => ObjectsOf(x)' = {}
               /\ x \notin bereft'
    <3>1. job[u].step \in {"create", "resume", "cache"} => ObjectsOf(x) = {}
          BY <2>1 DEF StoreInv, TablesInv, JobPhase
    <3>2. ObjectsOf(x) # {} => delegates[x] = NoHandle
          BY <2>1, <3>1 DEF StoreInv, StoreTypeOK, JobSteps, TablesInv, JobPhase, Busy
    <3>3. x \notin bereft /\ x \notin Orphaned(gone)
          BY <2>1, <3>2 DEF StoreInv, TablesInv, JobPhase, Orphaned
    <3>4. QED BY <1>4, <2>1, <3>1, <3>3
  <2>2. \A u \in Threads : Busy(u) => job[u].session \in Sessions
        BY EngineAssumption DEF StoreInv, TablesInv, JobShape
  <2>3. \A u \in Threads : call[u].pc = "sync" => job[u].step = "create"
        BY DEF StoreInv, TablesInv, JobShape
  <2>4. QED BY <1>1, <1>3, <2>1, <2>2, <2>3
            DEF StoreInv, TablesInv, JobPhase, ObjectsOf, Busy, NoJob
<1>7. TablesAgree'
  <2>1. ASSUME NEW x \in Sessions, x # s, \A u \in Threads : job'[u].session # x
        PROVE  /\ delegates'[x] # NoHandle <=> ObjectsOf(x)' # {} \/ x \in bereft'
               /\ x \in bereft' => ObjectsOf(x)' = {}
    <3>1. \A u \in Threads : job[u].session # x
          BY <1>0, <1>3, <2>1
    <3>2. /\ delegates[x] # NoHandle <=> ObjectsOf(x) # {} \/ x \in bereft
          /\ x \in bereft => ObjectsOf(x) = {}
          /\ \A a, b \in ObjectsOf(x) : a = b
          BY <3>1 DEF StoreInv, TablesInv, TablesAgree
    <3>3. x \in Orphaned(gone) <=> ObjectsOf(x) \cap gone # {}
          BY <3>2 DEF Orphaned
    <3>4. QED BY <1>1, <1>4, <2>1, <3>2, <3>3
  <2>2. s \notin bereft'
        BY <1>1, <1>4 DEF Orphaned
  <2>3. \A x \in Sessions : \A a, b \in ObjectsOf(x)' : a = b
        BY <1>4 DEF StoreInv, TablesInv, TablesAgree
  <2>4. QED BY <1>1, <1>4, <2>1, <2>2, <2>3 DEF TablesAgree
<1>8. QED BY <1>5, <1>6, <1>7 DEF TablesInv

\* What Watch and UnWatch register and unregister is on a handle in delegates_.
LEMMA WatchKeepsTables ==
  ASSUME StoreInv, NEW s \in Sessions, Accepted(s), NEW W \in SUBSET Watchers,
         registered' = [registered EXCEPT ![delegates[s]] = W],
         UNCHANGED <<delegates, call, objects, job, retrievals, bereft>>
  PROVE  TablesInv'
<1>1. JobShape' /\ JobPhase' /\ TablesAgree'
      BY DEF StoreInv, TablesInv, JobShape, JobPhase, TablesAgree, Busy, ObjectsOf
<1>2. \A t \in Threads : Held(t)' = Held(t) /\ (Held(t) # NoHandle => Held(t) # delegates[s])
      BY DEF Held, StoreInv, EngineInv, HandleOwnership
<1>3. HeldUnobserved'
      BY <1>2 DEF StoreInv, TablesInv, HeldUnobserved, EngineInv, TypeOK, Held
<1>4. QED BY <1>1, <1>3 DEF TablesInv

\* Every step keeps TablesInv.
LEMMA TablesStep ==
  ASSUME OwnSessions, StoreInv, StoreTypeOK', StoreNext
  PROVE  TablesInv'
<1>1. CASE UNCHANGED <<delegates, registered, call, objects, job, bereft>>
           /\ \A s \in Sessions : retrievals'[s] <= retrievals[s]
      BY <1>1, QuietKeepsTables DEF StoreInv, StoreTypeOK
<1>2. \A a \in Addresses : objects[a] # NoSession => objects[a] \in Sessions
      BY DEF StoreInv, StoreTypeOK
<1>3. ASSUME UNCHANGED retrievals PROVE \A s \in Sessions : retrievals'[s] <= retrievals[s]
      BY <1>3, StoreAssumption DEF StoreInv, StoreTypeOK
<1>4. ASSUME NEW t \in Threads, NEW a \in Addresses, NEW w \in Watchers, Watch(t, a, w)
      PROVE  TablesInv'
  <2> DEFINE s == objects[a]
  <2>1. /\ s \in Sessions /\ RegisterObserver(t, s, w)
        /\ UNCHANGED <<delegates, call, objects, job, retrievals, bereft>>
        BY <1>2, <1>4 DEF Watch, RegisterObserver, Refused, maps, history
  <2>2. CASE UNCHANGED registered
        BY <1>1, <1>3, <2>1, <2>2
  <2>3. CASE Accepted(s) /\ registered' = [registered EXCEPT ![delegates[s]] = @ \cup {w}]
    <3>1. registered[delegates[s]] \cup {w} \in SUBSET Watchers
          BY <2>1, <2>3 DEF Accepted, StoreInv, EngineInv, TypeOK
    <3>2. QED BY <2>1, <2>3, <3>1, WatchKeepsTables
  <2>4. QED BY <2>1, <2>2, <2>3 DEF RegisterObserver, Refused, database
<1>5. ASSUME NEW t \in Threads, NEW a \in Addresses, UnWatch(t, a) PROVE TablesInv'
  <2> DEFINE s == objects[a]
  <2>1. /\ s \in Sessions /\ UnRegisterObserver(t, s)
        /\ UNCHANGED <<delegates, call, objects, job, retrievals, bereft>>
        BY <1>2, <1>5 DEF UnWatch, UnRegisterObserver, Refused, maps, history
  <2>2. CASE UNCHANGED registered
        BY <1>1, <1>3, <2>1, <2>2
  <2>3. CASE Accepted(s)
             /\ registered' = [registered EXCEPT ![delegates[s]] = @ \ {observerMap[s]}]
    <3>1. registered[delegates[s]] \ {observerMap[s]} \in SUBSET Watchers
          BY <2>1, <2>3 DEF Accepted, StoreInv, EngineInv, TypeOK
    <3>2. QED BY <2>1, <2>3, <3>1, WatchKeepsTables
  <2>4. QED BY <2>1, <2>2, <2>3 DEF UnRegisterObserver, Refused, database
<1>6. ASSUME NEW t \in Threads, NEW a \in Addresses, UseObject(t, a) PROVE TablesInv'
      BY <1>1, <1>3, <1>6
         DEF UseObject, UpdateItem, GetItem, GetItems, Refused, maps, database, history
<1>7. ASSUME NEW s \in Sessions, Retrieved(s) PROVE TablesInv'
  <2>1. \A x \in Sessions : retrievals'[x] <= retrievals[x]
        BY <1>7, StoreAssumption DEF Retrieved, StoreInv, StoreTypeOK
  <2>2. UNCHANGED <<delegates, registered, call, objects, job, bereft>>
        BY <1>7 DEF Retrieved, UpdateItems, Refused, vars, maps, database, history
  <2>3. QED BY <1>1, <2>1, <2>2
<1>8. ASSUME NEW s \in Sessions, PeerWrite(s) PROVE TablesInv'
      BY <1>1, <1>3, <1>8 DEF PeerWrite, RemoteWrite, maps, history
<1>9. CASE OpenStore
      BY <1>1, <1>3, <1>9 DEF OpenStore, Open, maps, database, history
<1>10. QED
      BY <1>4, <1>5, <1>6, <1>7, <1>8, <1>9, CreateObjectKeepsTables,
         CreateStepKeepsTables, CacheKeepsTables, DeleteObjectKeepsTables, RemoveKeepsTables
         DEF StoreNext

\* A thread that begins to create a session finds nobody creating it.
LEMMA NoOverlapStep ==
  ASSUME OwnSessions, StoreInv, [StoreNext]_storeVars
  PROVE  NoOverlap'
<1>1. CASE UNCHANGED mishaps
      BY <1>1 DEF StoreInv, NoOverlap
<1>2. ASSUME NEW t \in Threads, NEW s \in Sessions, CreateObject(t, s) PROVE NoOverlap'
  <2>1. CreateTable(t, s) /\ s \in Serves[t] /\ call[t].pc = "idle"
        BY <1>2 DEF CreateObject, CreateTable, Enter
  <2>2. ASSUME NEW u \in Threads, Creating(u, s) PROVE FALSE
    <3>1. u # t /\ job[u].session = s
          BY <2>1, <2>2 DEF Creating, StoreInv, TablesInv, JobShape
    <3>2. QED BY <2>1, <3>1, NobodyElse DEF StoreInv, TablesInv
  <2>3. UNCHANGED mishaps
        BY <2>1, <2>2 DEF CreateTable
  <2>4. QED BY <1>1, <2>3
<1>3. ASSUME NEW t \in Threads, CreateObjectStep(t) PROVE NoOverlap'
  <2>1. CASE Pragma(t)
        BY <2>1 DEF Pragma, StoreInv, NoOverlap, EngineInv, TypeOK
  <2>2. QED BY <1>1, <1>3, <2>1
            DEF CreateObjectStep, CreateSteps, GetKvStore, InsertTable, SyncNewTable
<1>4. ASSUME NEW t \in Threads, NEW s \in Sessions, DeleteObject(t, s) PROVE NoOverlap'
      BY <1>1, <1>4 DEF DeleteObject, DeleteTable, Refused
<1>5. ASSUME NEW t \in Threads, NEW a \in Addresses, NEW w \in Watchers,
             Watch(t, a, w)
      PROVE  NoOverlap'
      BY <1>1, <1>5 DEF Watch, RegisterObserver, Refused
<1>6. ASSUME NEW s \in Sessions, Retrieved(s) \/ PeerWrite(s) PROVE NoOverlap'
      BY <1>1, <1>6 DEF Retrieved, UpdateItems, PeerWrite, RemoteWrite, Refused, vars
<1>7. ASSUME NEW t \in Threads, ResumeObject(t) \/ CacheObject(t) \/ RemoveCacheObject(t)
      PROVE  NoOverlap'
      BY <1>1, <1>7 DEF ResumeObject, CacheObject, RemoveCacheObject, vars
<1>8. CASE OpenStore \/ UNCHANGED storeVars
      BY <1>1, <1>8 DEF OpenStore, Open, storeVars, vars
<1>9. ASSUME NEW t \in Threads, NEW a \in Addresses, UnWatch(t, a) \/ UseObject(t, a)
      PROVE  NoOverlap'
      BY <1>1, <1>9
         DEF UnWatch, UnRegisterObserver, UseObject, UpdateItem, GetItem, GetItems, Refused
<1>10. QED
      BY <1>2, <1>3, <1>4, <1>5, <1>6, <1>7, <1>8, <1>9 DEF StoreNext

\* The invariant is one.
LEMMA StoreInvariant ==
  ASSUME OwnSessions
  PROVE  StoreSpec => []StoreInv
<1>1. StoreInv /\ [StoreNext]_storeVars => StoreInv'
  <2> SUFFICES ASSUME StoreInv, [StoreNext]_storeVars PROVE StoreInv'
      OBVIOUS
  <2>1. StoreTypeOK'
        BY StoreTypeStep DEF StoreInv, TablesInv
  <2>2. EngineInv' /\ LossInv'
    <3>1. [Next]_vars
          BY StoreStepIsEngineStep DEF StoreInv, StoreTypeOK, TablesTyped
    <3>2. QED BY <3>1, LossStep, TypeStep, ShapeStep DEF StoreInv, EngineInv, Shape
  <2>3. CASE StoreNext
        BY <2>1, <2>2, <2>3, TablesStep, NoOverlapStep DEF StoreInv
  <2>4. CASE UNCHANGED storeVars
    <3>1. TablesInv'
          BY <2>4 DEF storeVars, vars, maps, database, history, StoreInv, TablesInv, JobShape,
                      JobPhase, HeldUnobserved, TablesAgree, Busy, Held, ObjectsOf
    <3>2. QED BY <2>1, <2>2, <3>1, NoOverlapStep DEF StoreInv
  <2>5. QED BY <2>3, <2>4
<1>2. QED BY StoreInitInv, <1>1, PTL DEF StoreSpec

\* Every value keeps its type; no request is sent that the service could not
\* have been asked for.
THEOREM StoreTypeCorrect ==
  ASSUME OwnSessions
  PROVE  StoreSpec => []StoreTypeOK
<1>1. StoreInv => StoreTypeOK
      BY DEF StoreInv
<1>2. QED BY <1>1, StoreInvariant, PTL

\* The engine's delegates_ and the store's objects_ agree about every session
\* that no CreateObject or DeleteObject is between, however many threads there
\* are, whichever calls fail, and whatever the service and the peers write.
THEOREM TablesDoAgree ==
  ASSUME OwnSessions
  PROVE  StoreSpec => []TablesAgree
<1>1. StoreInv => TablesAgree
      BY DEF StoreInv, TablesInv
<1>2. QED BY <1>1, StoreInvariant, PTL

-----------------------------------------------------------------------------
(***************************************************************************)
(* A watcher filed for a live object is called, but for what a deletion    *)
(* has left behind.                                                        *)
(***************************************************************************)

\* A step that changes no table, no registration and no history.
LEMMA QuietKeepsWatch ==
  ASSUME WatchInv,
         UNCHANGED <<objects, watchers, observerMap, delegates, registered, history>>
  PROVE  WatchInv'
BY DEF WatchInv, Filed, FreeUnwatched, Unobserved, ObjectsOf, history

\* A handle is inserted for a session that has no object, and no observer.
LEMMA CreateStepKeepsWatch ==
  ASSUME StoreInv, WatchInv, NEW t \in Threads, CreateObjectStep(t)
  PROVE  WatchInv'
<1>0. PICK s : s = job[t].session
      OBVIOUS
<1>1. /\ job[t].step = "create" /\ s = call[t].session /\ ObjectsOf(s) = {}
      /\ s \notin bereft
      /\ UNCHANGED <<objects, watchers, observerMap, registered, history>>
      BY <1>0
         DEF CreateObjectStep, CreateSteps, GetKvStore, Pragma, InsertTable, SyncNewTable,
             database, maps, StoreInv, TablesInv, JobShape, JobPhase, Busy
<1>2. CASE UNCHANGED delegates
      BY <1>1, <1>2, QuietKeepsWatch
<1>3. CASE delegates' = [delegates EXCEPT ![s] = call[t].handle]
  <2>1. \A x \in Sessions : x # s => delegates'[x] = delegates[x]
        BY <1>3 DEF StoreInv, StoreTypeOK, TypeOK
  <2>2. \A a \in Addresses : objects[a] # NoSession =>
          objects[a] \in Sessions /\ objects[a] # s
        BY <1>1 DEF StoreInv, StoreTypeOK, ObjectsOf
  <2>3. Filed' /\ FreeUnwatched'
        BY <1>1, <2>1, <2>2 DEF WatchInv, Filed, FreeUnwatched, history
  <2>4. Unobserved'
        BY <1>1, <2>1 DEF WatchInv, Unobserved, ObjectsOf, history
  <2>5. QED BY <2>3, <2>4 DEF WatchInv
<1>4. QED
      BY <1>1, <1>2, <1>3
         DEF CreateObjectStep, CreateSteps, GetKvStore, Pragma, InsertTable, SyncNewTable, maps

\* The address of a new object is no key of watchers_, and its session has no
\* observer; a session no object could be made for keeps having none.
LEMMA CacheKeepsWatch ==
  ASSUME StoreInv, WatchInv, NEW t \in Threads, CacheObject(t)
  PROVE  WatchInv'
<1>0. PICK s : s = job[t].session
      OBVIOUS
<1>1. /\ UNCHANGED <<watchers, observerMap, delegates, registered, outlived, staleKeys>>
      /\ s \in Sessions /\ s # NoSession
      /\ ObjectsOf(s) = {} /\ s \notin bereft /\ delegates[s] # NoHandle
      BY <1>0, EngineAssumption
         DEF CacheObject, vars, maps, database, StoreInv, TablesInv, JobShape, JobPhase, Busy
<1>2. ASSUME NEW a \in Addresses, objects[a] = NoSession,
             objects' = [objects EXCEPT ![a] = s], UNCHANGED bereft
      PROVE  WatchInv'
  <2>1. objects'[a] = s /\ \A b \in Addresses : b # a => objects'[b] = objects[b]
        BY <1>2 DEF StoreInv, StoreTypeOK
  <2>2. /\ s \notin outlived => observerMap[s] = NoWatcher
        /\ a \notin staleKeys => watchers[a] = NoWatcher
        BY <1>1, <1>2 DEF WatchInv, Unobserved, FreeUnwatched
  <2>3. Filed' /\ FreeUnwatched'
        BY <1>1, <2>1, <2>2 DEF WatchInv, Filed, FreeUnwatched
  <2>4. \A x \in Sessions : x # s => ObjectsOf(x)' = ObjectsOf(x)
        BY <1>2, <2>1, EngineAssumption DEF ObjectsOf
  <2>5. a \in ObjectsOf(s)'
        BY <2>1 DEF ObjectsOf
  <2>6. Unobserved'
        BY <1>1, <1>2, <2>4, <2>5 DEF WatchInv, Unobserved
  <2>7. QED BY <2>3, <2>6 DEF WatchInv
<1>3. CASE bereft' = bereft \cup {s} /\ UNCHANGED objects
  <2>1. Filed' /\ FreeUnwatched'
        BY <1>1, <1>3 DEF WatchInv, Filed, FreeUnwatched
  <2>2. Unobserved'
        BY <1>1, <1>3 DEF WatchInv, Unobserved, ObjectsOf
  <2>3. QED BY <2>1, <2>2 DEF WatchInv
<1>4. QED BY <1>0, <1>2, <1>3 DEF CacheObject

\* Objects go.  Their addresses, if they are keys of watchers_, are stale, and
\* their sessions, if they have tables, are bereft.
LEMMA RemoveKeepsWatch ==
  ASSUME StoreInv, WatchInv, NEW t \in Threads, RemoveCacheObject(t)
  PROVE  WatchInv'
<1>0. PICK s : s = job[t].session
      OBVIOUS
<1>1. /\ UNCHANGED <<watchers, observerMap, delegates, registered, outlived>>
      /\ s \in Sessions
      BY <1>0, EngineAssumption
         DEF RemoveCacheObject, vars, maps, database, StoreInv, TablesInv, JobShape, Busy
<1>2. PICK gone \in SUBSET Addresses :
        /\ bereft' = bereft \cup Orphaned(gone)
        /\ staleKeys' = staleKeys \cup {a \in gone : watchers[a] # NoWatcher}
        /\ \A a \in Addresses : objects'[a] = IF a \in gone THEN NoSession ELSE objects[a]
        /\ \A x \in Sessions : ObjectsOf(x)' = ObjectsOf(x) \ gone
      BY <1>0, <1>1, Taken
<1>3. Filed'
      BY <1>1, <1>2 DEF WatchInv, Filed
<1>4. FreeUnwatched'
      BY <1>1, <1>2 DEF WatchInv, FreeUnwatched
<1>5. Unobserved'
  <2>1. ASSUME NEW x \in Sessions, delegates[x] # NoHandle,
               ObjectsOf(x)' = {}, x \notin bereft'
        PROVE  ObjectsOf(x) = {} /\ x \notin bereft
        BY <1>2, <2>1 DEF Orphaned
  <2>2. QED BY <1>1, <2>1 DEF WatchInv, Unobserved
<1>6. QED BY <1>3, <1>4, <1>5 DEF WatchInv

\* A session is deleted: it has no observer any more, or is one of outlived.
LEMMA DeleteObjectKeepsWatch ==
  ASSUME StoreInv, WatchInv, NEW t \in Threads, NEW s \in Sessions, DeleteObject(t, s)
  PROVE  WatchInv'
<1>1. UNCHANGED <<objects, watchers, observerMap, staleKeys>>
      BY DEF DeleteObject, DeleteTable, Refused, maps
<1>2. CASE UNCHANGED <<maps, database>> /\ reply'.result # "SUCCESS"
      BY <1>1, <1>2, QuietKeepsWatch DEF DeleteObject, maps, database, history
<1>3. CASE /\ Accepted(s)
           /\ registered' = [registered EXCEPT ![delegates[s]] = {}]
           /\ delegates' = [delegates EXCEPT ![s] = NoHandle]
           /\ reply'.result = "SUCCESS"
  <2>1. /\ bereft' = bereft \ {s}
        /\ outlived' = IF observerMap[s] # NoWatcher THEN outlived \cup {s} ELSE outlived
        BY <1>3 DEF DeleteObject
  <2>2. ASSUME NEW x \in Sessions, x # s, delegates[x] # NoHandle
        PROVE  delegates'[x] = delegates[x] /\ registered'[delegates[x]] = registered[delegates[x]]
        BY <1>3, <2>2 DEF Accepted, StoreInv, EngineInv, TypeOK, HandleOwnership
  <2>3. Filed'
    <3>1. SUFFICES ASSUME NEW a \in Addresses, a \notin staleKeys, objects[a] # NoSession,
                          objects[a] \notin outlived'
                   PROVE  /\ observerMap[objects[a]] = watchers[a]
                          /\ watchers[a] # NoWatcher =>
                               /\ delegates'[objects[a]] # NoHandle
                               /\ watchers[a] \in registered'[delegates'[objects[a]]]
          BY <1>1, <3>1 DEF Filed
    <3>2. /\ objects[a] \in Sessions
          /\ observerMap[objects[a]] = watchers[a]
          /\ watchers[a] # NoWatcher =>
               /\ delegates[objects[a]] # NoHandle
               /\ watchers[a] \in registered[delegates[objects[a]]]
          BY <2>1, <3>1 DEF WatchInv, Filed, StoreInv, StoreTypeOK
    <3>3. watchers[a] # NoWatcher => objects[a] # s
          BY <2>1, <3>1, <3>2
    <3>4. QED BY <2>2, <3>2, <3>3
  <2>4. FreeUnwatched'
        BY <1>1 DEF WatchInv, FreeUnwatched
  <2>5. Unobserved'
    <3>1. \A x \in Sessions : x # s => delegates'[x] = delegates[x]
          BY <1>3 DEF StoreInv, StoreTypeOK, TypeOK
    <3>2. \A x \in Sessions : ObjectsOf(x)' = ObjectsOf(x)
          BY <1>1 DEF ObjectsOf
    <3>3. QED BY <1>1, <2>1, <3>1, <3>2 DEF WatchInv, Unobserved
  <2>6. QED BY <2>3, <2>4, <2>5 DEF WatchInv
<1>4. QED BY <1>2, <1>3 DEF DeleteObject, DeleteTable, Refused, Return

\* A watcher is filed when the database has it, unless an entry that a deletion
\* left in observerMap_ answers for it.
LEMMA WatchKeepsWatch ==
  ASSUME StoreInv, WatchInv,
         NEW t \in Threads, NEW a \in Addresses, NEW w \in Watchers, Watch(t, a, w)
  PROVE  WatchInv'
<1>0. PICK s : s = objects[a]
      OBVIOUS
<1>1. /\ s \in Sessions /\ s # NoSession /\ RegisterObserver(t, s, w)
      /\ watchers[a] = NoWatcher
      /\ UNCHANGED <<objects, delegates, history>>
      BY <1>0 DEF Watch, RegisterObserver, Refused, Enter, maps, StoreInv, StoreTypeOK
<1>2. CASE reply'.result # "SUCCESS" /\ UNCHANGED <<observerMap, registered>>
      BY <1>1, <1>2, QuietKeepsWatch DEF Watch
<1>3. CASE /\ Accepted(s) /\ observerMap[s] # NoWatcher
           /\ UNCHANGED <<observerMap, registered>>
  <2>1. a \in staleKeys \/ s \in outlived
        BY <1>0, <1>1, <1>3 DEF WatchInv, Filed
  <2>2. \A b \in Addresses : b # a => watchers'[b] = watchers[b]
        BY DEF Watch, StoreInv, StoreTypeOK
  <2>3. Filed' /\ FreeUnwatched'
        BY <1>0, <1>1, <1>3, <2>1, <2>2 DEF WatchInv, Filed, FreeUnwatched, history
  <2>4. Unobserved'
        BY <1>1, <1>3 DEF WatchInv, Unobserved, ObjectsOf, history
  <2>5. QED BY <2>3, <2>4 DEF WatchInv
<1>4. CASE /\ Accepted(s)
           /\ observerMap[s] = NoWatcher
           /\ registered' = [registered EXCEPT ![delegates[s]] = @ \cup {w}]
           /\ observerMap' = [observerMap EXCEPT ![s] = w]
           /\ reply'.result = "SUCCESS"
  <2>1. /\ delegates[s] \in Handles /\ delegates[s] # NoHandle
        /\ watchers'[a] = w /\ \A b \in Addresses : b # a => watchers'[b] = watchers[b]
        /\ observerMap'[s] = w /\ \A x \in Sessions : x # s => observerMap'[x] = observerMap[x]
        BY <1>1, <1>4 DEF Watch, Accepted, StoreInv, StoreTypeOK, TypeOK
  <2>2. /\ w \in registered'[delegates[s]]
        /\ \A h \in Handles : registered[h] \subseteq registered'[h]
        BY <1>4, <2>1 DEF StoreInv, EngineInv, TypeOK
  <2>3. \A b \in Addresses : objects[b] = s <=> b = a
        BY <1>0, <1>1 DEF StoreInv, TablesInv, TablesAgree, ObjectsOf
  <2>4. Filed'
    <3>1. ASSUME NEW b \in Addresses, b # a, b \notin staleKeys,
                 objects[b] # NoSession, objects[b] \notin outlived
          PROVE  /\ observerMap'[objects[b]] = watchers[b]
                 /\ watchers[b] # NoWatcher =>
                      /\ delegates[objects[b]] # NoHandle
                      /\ watchers[b] \in registered'[delegates[objects[b]]]
      <4>1. /\ objects[b] \in Sessions /\ objects[b] # s
            /\ delegates[objects[b]] \in Handles \cup {NoHandle}
            BY <2>3, <3>1 DEF StoreInv, StoreTypeOK, TypeOK
      <4>2. QED BY <2>1, <2>2, <3>1, <4>1 DEF WatchInv, Filed
    <3>2. QED BY <1>0, <1>1, <2>1, <2>2, <3>1 DEF Filed, history
  <2>5. FreeUnwatched'
        BY <1>0, <1>1, <2>1 DEF WatchInv, FreeUnwatched, history
  <2>6. Unobserved'
    <3>1. ObjectsOf(s) # {}
          BY <1>0 DEF ObjectsOf
    <3>2. QED BY <1>1, <2>1, <3>1 DEF WatchInv, Unobserved, ObjectsOf, history
  <2>7. QED BY <2>4, <2>5, <2>6 DEF WatchInv
<1>5. QED BY <1>1, <1>2, <1>3, <1>4 DEF RegisterObserver, Refused, Return, maps, database

\* A watcher is no longer filed when the database has let go of it.
LEMMA UnWatchKeepsWatch ==
  ASSUME StoreInv, WatchInv, NEW t \in Threads, NEW a \in Addresses, UnWatch(t, a)
  PROVE  WatchInv'
<1>0. PICK s : s = objects[a]
      OBVIOUS
<1>1. /\ s \in Sessions /\ s # NoSession /\ UnRegisterObserver(t, s)
      /\ UNCHANGED <<objects, delegates, history>>
      BY <1>0 DEF UnWatch, UnRegisterObserver, Refused, maps, StoreInv, StoreTypeOK
<1>2. CASE reply'.result # "SUCCESS" /\ UNCHANGED <<observerMap, registered>>
      BY <1>1, <1>2, QuietKeepsWatch DEF UnWatch
<1>3. CASE /\ Accepted(s)
           /\ registered' = [registered EXCEPT ![delegates[s]] = @ \ {observerMap[s]}]
           /\ observerMap' = [observerMap EXCEPT ![s] = NoWatcher]
           /\ reply'.result = "SUCCESS"
  <2>1. /\ watchers'[a] = NoWatcher
        /\ \A b \in Addresses : b # a => watchers'[b] = watchers[b]
        /\ observerMap'[s] = NoWatcher
        /\ \A x \in Sessions : x # s => observerMap'[x] = observerMap[x]
        BY <1>1, <1>3 DEF UnWatch, StoreInv, StoreTypeOK, TypeOK
  <2>2. \A x \in Sessions : x # s /\ delegates[x] # NoHandle =>
           registered'[delegates[x]] = registered[delegates[x]]
        BY <1>1, <1>3 DEF Accepted, StoreInv, EngineInv, TypeOK, HandleOwnership
  <2>3. \A b \in Addresses : objects[b] = s <=> b = a
        BY <1>0, <1>1 DEF StoreInv, TablesInv, TablesAgree, ObjectsOf
  <2>4. Filed'
    <3>1. ASSUME NEW b \in Addresses, b # a, objects[b] # NoSession
          PROVE  objects[b] \in Sessions /\ objects[b] # s
          BY <2>3, <3>1 DEF StoreInv, StoreTypeOK
    <3>2. QED BY <1>0, <1>1, <2>1, <2>2, <3>1 DEF WatchInv, Filed, history
  <2>5. FreeUnwatched'
        BY <1>1, <2>1 DEF WatchInv, FreeUnwatched, history
  <2>6. Unobserved'
        BY <1>1, <2>1 DEF WatchInv, Unobserved, ObjectsOf, history
  <2>7. QED BY <2>4, <2>5, <2>6 DEF WatchInv
<1>4. QED BY <1>1, <1>2, <1>3 DEF UnRegisterObserver, Refused, Return, maps, database

\* Every step keeps WatchInv.
LEMMA WatchStep ==
  ASSUME StoreInv, WatchInv, StoreNext
  PROVE  WatchInv'
<1>1. ASSUME NEW t \in Threads, NEW s \in Sessions, CreateObject(t, s) PROVE WatchInv'
      BY <1>1, QuietKeepsWatch DEF CreateObject, CreateTable, maps, database
<1>2. ASSUME NEW t \in Threads, ResumeObject(t) PROVE WatchInv'
      BY <1>2, QuietKeepsWatch DEF ResumeObject, vars, maps, database
<1>3. ASSUME NEW t \in Threads, NEW a \in Addresses, UseObject(t, a) PROVE WatchInv'
      BY <1>3, QuietKeepsWatch
         DEF UseObject, UpdateItem, GetItem, GetItems, Refused, maps, database
<1>4. ASSUME NEW s \in Sessions, Retrieved(s) PROVE WatchInv'
      BY <1>4, QuietKeepsWatch DEF Retrieved, UpdateItems, Refused, vars, maps, database
<1>5. ASSUME NEW s \in Sessions, PeerWrite(s) PROVE WatchInv'
      BY <1>5, QuietKeepsWatch DEF PeerWrite, RemoteWrite, maps
<1>6. CASE OpenStore
      BY <1>6, QuietKeepsWatch DEF OpenStore, Open, maps, database
<1>7. QED
      BY <1>1, <1>2, <1>3, <1>4, <1>5, <1>6, CreateStepKeepsWatch, CacheKeepsWatch,
         RemoveKeepsWatch, DeleteObjectKeepsWatch, WatchKeepsWatch, UnWatchKeepsWatch
         DEF StoreNext

\* The two invariants together.
LEMMA WatchInvariant ==
  ASSUME OwnSessions
  PROVE  StoreSpec => []WatchInv
<1>1. StoreInit => WatchInv
      BY EngineAssumption
         DEF StoreInit, Init, WatchInv, Filed, FreeUnwatched, Unobserved
<1>2. StoreInv /\ WatchInv /\ [StoreNext]_storeVars => WatchInv'
  <2>1. ASSUME WatchInv, UNCHANGED storeVars PROVE WatchInv'
        BY <2>1, QuietKeepsWatch DEF storeVars, vars, maps, database
  <2>2. QED BY <2>1, WatchStep
<1>3. QED BY <1>1, <1>2, StoreInvariant, PTL DEF StoreSpec

\* Who is filed in watchers_ for a live object is called: whatever addresses
\* objects are given, whichever registrations fail, and whether or not callers
\* UnWatch before DeleteObject, the watcher is the one the engine owns and the
\* database has it on the session's current handle, but for the sessions and
\* the addresses that a deletion left an entry of.
THEOREM WatchedIsObserved ==
  ASSUME OwnSessions
  PROVE  StoreSpec => []WatchedMeansObserved
<1>1. WatchInv => WatchedMeansObserved
      BY DEF WatchInv, Filed, WatchedMeansObserved
<1>2. QED BY <1>1, WatchInvariant, PTL

\* Under the object store too, whatever its callers share and whatever fails,
\* no closed or foreign handle is used and no observer pointer is dangling.
THEOREM StoreIsSafe == StoreSpec => []HandleOwnership /\ []ObserverAlive
BY StoreImplementsEngine, HandlesAreOwned, ObserversAreAlive, PTL

\* The store inherits from the engine what the engine promises of lost handles,
\* of deleted sessions and of sessions created over themselves, whatever its
\* callers share and whatever fails.
THEOREM StoreLosesNothing ==
  StoreSpec => []NoHandleLeak /\ []DeletedMeansGone /\ NeverReplaced
BY StoreImplementsEngine, NoHandleIsLost, DeletedIsGone, CreatedOnce, PTL

-----------------------------------------------------------------------------
(***************************************************************************)
(* The object store implements SessionLifecycle.                           *)
(***************************************************************************)

Watched(s) == delegates[s] # NoHandle /\ registered[delegates[s]] # {}
Stored(s) == IF delegates[s] = NoHandle THEN EmptyTable ELSE table[s]

\* What the life cycle sees of a session does not change.
Same(s) ==
  /\ PhaseOf(s)' = PhaseOf(s)
  /\ Watched(s)' = Watched(s)
  /\ Stored(s)' = Stored(s)

\* The steps of the life cycle, of one session; TakeBack is of several.
Moves(s, from, to) == PhaseOf(s) = from /\ PhaseOf(s)' = to
SameWatch(s) == Watched(s)' = Watched(s)
SameStored(s) == Stored(s)' = Stored(s)
SessionStep(s) ==
  \/ Moves(s, "absent", "created") /\ SameWatch(s)
  \/ Moves(s, "created", "held") /\ SameWatch(s) /\ SameStored(s)
  \/ Moves(s, "held", "held") /\ SameStored(s)
  \/ Moves(s, "created", "created") /\ SameWatch(s)
  \/ Moves(s, "held", "held") /\ SameWatch(s)
  \/ Moves(s, "lost", "lost") /\ SameWatch(s)
  \/ Moves(s, "created", "lost") /\ SameWatch(s) /\ SameStored(s)
  \/ Moves(s, "held", "deleted") /\ ~Watched(s)' /\ Stored(s)' = EmptyTable
  \/ Moves(s, "lost", "absent") /\ ~Watched(s)' /\ Stored(s)' = EmptyTable

\* When nothing changes of any session, the life cycle stutters.
LEMMA LifecycleStutters ==
  ASSUME \A s \in Sessions : Same(s)
  PROVE  UNCHANGED Lifecycle!lifecycle
<1>1. [s \in Sessions |-> PhaseOf(s)]' = [s \in Sessions |-> PhaseOf(s)]
      BY DEF Same
<1>2. [s \in Sessions |-> Watched(s)]' = [s \in Sessions |-> Watched(s)]
      BY DEF Same
<1>3. [s \in Sessions |-> Stored(s)]' = [s \in Sessions |-> Stored(s)]
      BY DEF Same
<1>4. QED BY <1>1, <1>2, <1>3 DEF Lifecycle!lifecycle, Watched, Stored

\* When one session takes a step and nothing changes of the others, the life
\* cycle takes that step.
LEMMA LifecycleMoves ==
  ASSUME NEW s \in Sessions, SessionStep(s), StoreTypeOK', \A x \in Sessions \ {s} : Same(x)
  PROVE  Lifecycle!Next \/ UNCHANGED Lifecycle!lifecycle
<1> DEFINE phase == [x \in Sessions |-> PhaseOf(x)]
           watched == [x \in Sessions |-> Watched(x)]
           contents == [x \in Sessions |-> Stored(x)]
<1>1. phase' = [phase EXCEPT ![s] = PhaseOf(s)']
      BY DEF Same
<1>2. watched' = [watched EXCEPT ![s] = Watched(s)']
      BY DEF Same
<1>3. contents' = [contents EXCEPT ![s] = Stored(s)']
      BY DEF Same
<1>4. Stored(s)' \in [Items -> Values \cup {NoValue}]
      BY DEF StoreTypeOK, TypeOK, Stored, EmptyTable
<1>5. phase[s] = PhaseOf(s) /\ watched[s] = Watched(s)
      OBVIOUS
<1>6. SameWatch(s) => UNCHANGED watched
      BY DEF Same, SameWatch
<1>7. SameStored(s) => UNCHANGED contents
      BY DEF Same, SameStored
<1>8. (\E p : Moves(s, p, p)) => UNCHANGED phase
      BY DEF Same, Moves
<1>9. CASE Moves(s, "absent", "created") /\ SameWatch(s)
  <2>1. Lifecycle!Create(s)
        BY <1>1, <1>3, <1>4, <1>5, <1>6, <1>9
           DEF Moves, Lifecycle!Create, Lifecycle!Move, Watched, Stored
  <2>2. QED BY <2>1 DEF Lifecycle!Next
<1>10. CASE Moves(s, "created", "held") /\ SameWatch(s) /\ SameStored(s)
  <2>1. Lifecycle!HandOut(s)
        BY <1>1, <1>5, <1>6, <1>7, <1>10
           DEF Moves, Lifecycle!HandOut, Lifecycle!Move, Watched, Stored
  <2>2. QED BY <2>1 DEF Lifecycle!Next
<1>11. CASE Moves(s, "held", "held") /\ SameStored(s)
  <2>1. CASE ~Watched(s) /\ Watched(s)'
    <3>1. Lifecycle!Watch(s)
          BY <1>2, <1>5, <1>7, <1>8, <1>11, <2>1 DEF Moves, Lifecycle!Watch, Watched, Stored
    <3>2. QED BY <3>1 DEF Lifecycle!Next
  <2>2. CASE Watched(s) /\ ~Watched(s)'
    <3>1. Lifecycle!UnWatch(s)
          BY <1>2, <1>5, <1>7, <1>8, <1>11, <2>2 DEF Moves, Lifecycle!UnWatch, Watched, Stored
    <3>2. QED BY <3>1 DEF Lifecycle!Next
  <2>3. CASE SameWatch(s)
        BY <1>6, <1>7, <1>8, <1>11, <2>3 DEF Lifecycle!lifecycle, Watched, Stored
  <2>4. QED BY <2>1, <2>2, <2>3 DEF SameWatch, Watched
<1>12. CASE \/ Moves(s, "created", "created") /\ SameWatch(s)
            \/ Moves(s, "held", "held") /\ SameWatch(s)
            \/ Moves(s, "lost", "lost") /\ SameWatch(s)
  <2>1. Lifecycle!Write(s)
        BY <1>3, <1>4, <1>5, <1>6, <1>8, <1>12
           DEF Moves, Lifecycle!Write, Watched, Stored
  <2>2. QED BY <2>1 DEF Lifecycle!Next
<1>13. CASE \/ Moves(s, "held", "deleted") /\ ~Watched(s)' /\ Stored(s)' = EmptyTable
            \/ Moves(s, "lost", "absent") /\ ~Watched(s)' /\ Stored(s)' = EmptyTable
  <2>1. Lifecycle!Delete(s)
        BY <1>1, <1>2, <1>3, <1>5, <1>13
           DEF Moves, Lifecycle!Delete, Lifecycle!Move, Watched, Stored
  <2>2. QED BY <2>1 DEF Lifecycle!Next
<1>14. CASE Moves(s, "created", "lost") /\ SameWatch(s) /\ SameStored(s)
  <2>1. Lifecycle!Lose(s)
        BY <1>1, <1>5, <1>6, <1>7, <1>14
           DEF Moves, Lifecycle!Lose, Lifecycle!Move, Watched, Stored
  <2>2. QED BY <2>1 DEF Lifecycle!Next
<1>15. QED BY <1>9, <1>10, <1>11, <1>12, <1>13, <1>14 DEF SessionStep

\* When sessions lose their objects, one of them after it was deleted, the life
\* cycle takes them back.
LEMMA LifecycleTakesBack ==
  ASSUME NEW s \in Sessions, NEW G \in SUBSET Sessions, s \in G,
         PhaseOf(s) = "deleted",
         \A x \in G : \/ Moves(x, "held", "lost")
                      \/ Moves(x, "deleted", "absent"),
         \A x \in Sessions \ G : PhaseOf(x)' = PhaseOf(x),
         \A x \in Sessions : SameWatch(x) /\ SameStored(x)
  PROVE  Lifecycle!Next
<1> DEFINE phase == [x \in Sessions |-> PhaseOf(x)]
           watched == [x \in Sessions |-> Watched(x)]
           contents == [x \in Sessions |-> Stored(x)]
<1>1. UNCHANGED <<watched, contents>>
      BY DEF SameWatch, SameStored
<1>2. \A x \in G : /\ phase[x] \in DOMAIN Lifecycle!Bereaved
                   /\ PhaseOf(x)' = Lifecycle!Bereaved[phase[x]]
      BY DEF Moves, Lifecycle!Bereaved
<1>3. G \in SUBSET {u \in Sessions : phase[u] \in DOMAIN Lifecycle!Bereaved}
      BY <1>2
<1>4. phase' = [u \in Sessions |-> IF u \in G \cup {s} THEN Lifecycle!Bereaved[phase[u]]
                                                      ELSE phase[u]]
      BY <1>2
<1>5. phase[s] = "deleted"
      OBVIOUS
<1>6. Lifecycle!TakeBack(s)
      BY <1>1, <1>3, <1>4, <1>5 DEF Lifecycle!TakeBack, Watched, Stored
<1>7. QED BY <1>6 DEF Lifecycle!Next

\* The phase of a session with no object, and of one with exactly one.
PhaseFor(h, O, s, B) ==
  CASE h = NoHandle /\ O = {} -> "absent"
    [] h # NoHandle /\ O = {} /\ s \notin B -> "created"
    [] h # NoHandle /\ O = {} /\ s \in B -> "lost"
    [] h # NoHandle /\ Cardinality(O) = 1 -> "held"
    [] h = NoHandle /\ Cardinality(O) = 1 -> "deleted"
    [] OTHER -> "broken"

\* The phase depends on the session's handle and objects and on whether it is
\* bereft, and on nothing else.
LEMMA PhaseByTables ==
  \A s : /\ PhaseOf(s) = PhaseFor(delegates[s], ObjectsOf(s), s, bereft)
         /\ PhaseOf(s)' = PhaseFor(delegates'[s], ObjectsOf(s)', s, bereft')
BY DEF PhaseOf, PhaseFor

\* These are all the phases a session has whose objects number one at most.
PhaseOfNone(h, s, B) ==
  IF h = NoHandle THEN "absent" ELSE IF s \in B THEN "lost" ELSE "created"
PhaseOfOne(h) == IF h = NoHandle THEN "deleted" ELSE "held"

LEMMA PhaseCases ==
  \A s : /\ ObjectsOf(s) = {} => PhaseOf(s) = PhaseOfNone(delegates[s], s, bereft)
         /\ ObjectsOf(s)' = {} => PhaseOf(s)' = PhaseOfNone(delegates'[s], s, bereft')
         /\ (\E a : ObjectsOf(s) = {a}) => PhaseOf(s) = PhaseOfOne(delegates[s])
         /\ (\E a : ObjectsOf(s)' = {a}) => PhaseOf(s)' = PhaseOfOne(delegates'[s])
<1>1. ASSUME NEW h, NEW s, NEW B PROVE PhaseFor(h, {}, s, B) = PhaseOfNone(h, s, B)
      BY FS_EmptySet DEF PhaseFor, PhaseOfNone
<1>2. ASSUME NEW h, NEW s, NEW B, NEW O, NEW a, O = {a}
      PROVE  PhaseFor(h, O, s, B) = PhaseOfOne(h)
  <2>1. Cardinality(O) = 1 /\ O # {}
        BY <1>2, FS_Singleton
  <2>2. QED BY <2>1 DEF PhaseFor, PhaseOfOne
<1>3. QED BY <1>1, <1>2, PhaseByTables

\* A session has no object, or one.
LEMMA NoneOrOne ==
  ASSUME StoreInv, NEW s \in Sessions
  PROVE  ObjectsOf(s) = {} \/ \E a \in Addresses : ObjectsOf(s) = {a}
<1> SUFFICES ASSUME ObjectsOf(s) # {}
             PROVE  \E a \in Addresses : ObjectsOf(s) = {a}
    OBVIOUS
<1>1. PICK a \in Addresses : a \in ObjectsOf(s)
      BY DEF ObjectsOf
<1>2. ObjectsOf(s) = {a}
      BY <1>1 DEF StoreInv, TablesInv, TablesAgree
<1>3. QED BY <1>1, <1>2

\* A session whose handle and object stay, or whose lack of one, with what is registered and stored
\* under the handle, is the same to the life cycle.
LEMMA SameWhen ==
  ASSUME NEW s \in Sessions, delegates'[s] = delegates[s], ObjectsOf(s)' = ObjectsOf(s),
         s \in bereft' <=> s \in bereft,
         delegates[s] # NoHandle =>
           registered'[delegates[s]] = registered[delegates[s]] /\ table'[s] = table[s]
  PROVE  Same(s)
<1>1. PhaseOf(s)' = PhaseOf(s)
      BY DEF PhaseOf
<1>2. QED BY <1>1 DEF Same, Watched, Stored, EmptyTable

\* A step that writes at most one table, and one with a handle, is a write of
\* the life cycle.
LEMMA WriteOrStutter ==
  ASSUME StoreInv, StoreTypeOK', NEW s \in Sessions,
         UNCHANGED <<delegates, registered, objects, bereft>>,
         \A x \in Sessions \ {s} : table'[x] = table[x]
  PROVE  Lifecycle!Next \/ UNCHANGED Lifecycle!lifecycle
<1>1. \A x \in Sessions : ObjectsOf(x)' = ObjectsOf(x)
      BY DEF ObjectsOf
<1>2. \A x \in Sessions \ {s} : Same(x)
      BY <1>1, SameWhen
<1>3. CASE delegates[s] = NoHandle
  <2>1. Same(s)
        BY <1>1, <1>3, SameWhen
  <2>2. QED BY <1>2, <2>1, LifecycleStutters
<1>4. CASE delegates[s] # NoHandle
  <2>1. PhaseOf(s) \in {"created", "held", "lost"} /\ PhaseOf(s)' = PhaseOf(s)
    <3>1. PhaseOf(s) = PhaseFor(delegates[s], ObjectsOf(s), s, bereft)
          BY PhaseByTables
    <3>2. PhaseOf(s)' = PhaseFor(delegates'[s], ObjectsOf(s)', s, bereft')
          BY PhaseByTables
    <3>3. PhaseOf(s)' = PhaseOf(s)
          BY <1>1, <3>1, <3>2
    <3>4. PhaseOf(s) \in {"created", "held", "lost"}
      <4>1. ObjectsOf(s) = {} \/ \E a \in Addresses : ObjectsOf(s) = {a}
            BY NoneOrOne
      <4>2. QED BY <1>4, <4>1, PhaseCases DEF PhaseOfNone, PhaseOfOne
    <3>5. QED BY <3>3, <3>4
  <2>2. SessionStep(s)
        BY <2>1 DEF SessionStep, Moves, SameWatch, Watched
  <2>3. QED BY <1>2, <2>2, LifecycleMoves
<1>5. QED BY <1>3, <1>4

\* The engine's part of CreateObject: a session is created when its handle is
\* inserted, and not before.
LEMMA CreateStepRefines ==
  ASSUME StoreInv, StoreTypeOK', NEW t \in Threads, CreateObjectStep(t)
  PROVE  Lifecycle!Next \/ UNCHANGED Lifecycle!lifecycle
<1>0. PICK s : s = call[t].session
      OBVIOUS
<1>1. UNCHANGED <<registered, table, objects, bereft>>
      BY DEF CreateObjectStep, CreateSteps, GetKvStore, Pragma, InsertTable, SyncNewTable,
             database, history
<1>2. \A x \in Sessions : ObjectsOf(x)' = ObjectsOf(x)
      BY <1>1 DEF ObjectsOf
<1>3. CASE UNCHANGED delegates
      BY <1>1, <1>2, <1>3, SameWhen, LifecycleStutters
<1>4. CASE InsertTable(t)
  <2> DEFINE h == call[t].handle
  <2>1. /\ call[t].pc = "insert" /\ s \in Sessions /\ h \in Handles
        /\ delegates' = [delegates EXCEPT ![s] = h]
        BY <1>0, <1>4, EngineAssumption
           DEF InsertTable, At, StoreInv, EngineInv, CallShape, TypeOK
  <2>2. delegates[s] = NoHandle /\ ObjectsOf(s) = {} /\ s \notin bereft
    <3>1. job[t].step = "create" /\ job[t].session = s /\ Busy(t)
          BY <1>0, <2>1 DEF StoreInv, TablesInv, JobShape, Busy
    <3>2. ObjectsOf(s) = {} /\ s \notin bereft
          BY <3>1 DEF StoreInv, TablesInv, JobPhase
    <3>3. delegates[s] = NoHandle
          BY <1>0, <2>1 DEF StoreInv, LossInv, CreatorAlone, NoOverlap, Creating
    <3>4. QED BY <3>2, <3>3
  <2>3. delegates'[s] = h /\ h # NoHandle /\ registered[h] = {}
        BY <2>1, EngineAssumption
           DEF StoreInv, TablesInv, HeldUnobserved, Held, EngineInv, TypeOK
  <2>4. \A x \in Sessions \ {s} : Same(x)
    <3>1. \A x \in Sessions \ {s} : delegates'[x] = delegates[x]
          BY <2>1 DEF StoreInv, EngineInv, TypeOK
    <3>2. QED BY <1>1, <1>2, <3>1, SameWhen
  <2>5. Moves(s, "absent", "created")
        BY <1>1, <1>2, <2>1, <2>2, <2>3, PhaseCases DEF PhaseOfNone, PhaseOfOne, Moves
  <2>6. Watched(s)' = Watched(s)
        BY <1>1, <2>2, <2>3 DEF Watched
  <2>7. QED BY <2>1, <2>4, <2>5, <2>6, LifecycleMoves DEF SessionStep, SameWatch
<1>5. QED BY <1>3, <1>4
          DEF CreateObjectStep, CreateSteps, GetKvStore, Pragma, SyncNewTable, maps

\* The object is handed out, or none could be made.
LEMMA CacheRefines ==
  ASSUME StoreInv, StoreTypeOK', NEW t \in Threads, CacheObject(t)
  PROVE  Lifecycle!Next \/ UNCHANGED Lifecycle!lifecycle
<1>0. PICK s : s = job[t].session
      OBVIOUS
<1>1. /\ s \in Sessions /\ s # NoSession /\ ObjectsOf(s) = {} /\ delegates[s] # NoHandle
      /\ s \notin bereft
      /\ UNCHANGED <<delegates, registered, table>>
      BY <1>0, EngineAssumption
         DEF CacheObject, vars, maps, database, StoreInv, StoreTypeOK, TablesInv, JobShape,
             JobPhase, Busy
<1>2. PhaseOf(s) = "created"
      BY <1>1, PhaseCases DEF PhaseOfNone, PhaseOfOne
<1>3. SameWatch(s) /\ SameStored(s)
      BY <1>1 DEF SameWatch, SameStored, Watched, Stored, EmptyTable
<1>4. ASSUME NEW a \in Addresses, objects[a] = NoSession,
             objects' = [objects EXCEPT ![a] = s], UNCHANGED bereft
      PROVE  Lifecycle!Next \/ UNCHANGED Lifecycle!lifecycle
  <2>1. /\ ObjectsOf(s)' = {a}
        /\ \A x \in Sessions \ {s} : ObjectsOf(x)' = ObjectsOf(x)
        BY <1>1, <1>4, EngineAssumption DEF StoreInv, StoreTypeOK, ObjectsOf
  <2>2. \A x \in Sessions \ {s} : Same(x)
        BY <1>1, <1>4, <2>1, SameWhen
  <2>3. PhaseOf(s)' = "held"
        BY <1>1, <2>1, PhaseCases DEF PhaseOfNone, PhaseOfOne
  <2>4. QED BY <1>1, <1>2, <1>3, <2>2, <2>3, LifecycleMoves DEF SessionStep, Moves
<1>5. CASE bereft' = bereft \cup {s} /\ UNCHANGED objects
  <2>1. \A x \in Sessions : ObjectsOf(x)' = ObjectsOf(x)
        BY <1>5 DEF ObjectsOf
  <2>2. \A x \in Sessions \ {s} : Same(x)
        BY <1>1, <1>5, <2>1, SameWhen
  <2>3. PhaseOf(s)' = "lost"
        BY <1>1, <1>5, <2>1, PhaseCases DEF PhaseOfNone, PhaseOfOne
  <2>4. QED BY <1>1, <1>2, <1>3, <2>2, <2>3, LifecycleMoves DEF SessionStep, Moves
<1>6. QED BY <1>0, <1>4, <1>5 DEF CacheObject

\* The session is deleted while its object is still there, or has been lost.
LEMMA DeleteRefines ==
  ASSUME OwnSessions, StoreInv, StoreTypeOK',
         NEW t \in Threads, NEW s \in Sessions, DeleteObject(t, s)
  PROVE  Lifecycle!Next \/ UNCHANGED Lifecycle!lifecycle
<1>1. UNCHANGED objects
      BY DEF DeleteObject
<1>2. \A x \in Sessions : ObjectsOf(x)' = ObjectsOf(x)
      BY <1>1 DEF ObjectsOf
<1>3. CASE UNCHANGED <<maps, database>> /\ reply'.result # "SUCCESS"
      BY <1>2, <1>3, SameWhen, LifecycleStutters DEF maps, database, DeleteObject
<1>4. CASE /\ Accepted(s)
           /\ registered' = [registered EXCEPT ![delegates[s]] = {}]
           /\ table' = IF HandlesOn(s) = {delegates[s]}
                         THEN [table EXCEPT ![s] = EmptyTable] ELSE table
           /\ delegates' = [delegates EXCEPT ![s] = NoHandle]
           /\ reply'.result = "SUCCESS"
  <2>1. delegates[s] # NoHandle /\ delegates'[s] = NoHandle
        BY <1>4 DEF Accepted, StoreInv, EngineInv, TypeOK
  <2>2. \A x \in Sessions \ {s} : Same(x)
    <3>1. ASSUME NEW x \in Sessions \ {s}
          PROVE  /\ delegates'[x] = delegates[x]
                 /\ delegates[x] # NoHandle =>
                      registered'[delegates[x]] = registered[delegates[x]] /\ table'[x] = table[x]
          BY <1>4 DEF Accepted, StoreInv, EngineInv, TypeOK, HandleOwnership
    <3>2. bereft' = bereft \ {s}
          BY <1>4 DEF DeleteObject
    <3>3. QED BY <1>2, <3>1, <3>2, SameWhen
  <2>3. ~Watched(s)' /\ Stored(s)' = EmptyTable
        BY <2>1 DEF Watched, Stored, EmptyTable
  <2>4. CASE ObjectsOf(s) = {}
    <3>1. \A u \in Threads : job[u].session # s
          BY NobodyElse, EngineAssumption
             DEF DeleteObject, DeleteTable, Enter, Busy, StoreInv, TablesInv, JobShape
    <3>2. s \in bereft
          BY <2>1, <2>4, <3>1 DEF StoreInv, TablesInv, TablesAgree
    <3>3. Moves(s, "lost", "absent")
          BY <1>2, <2>1, <2>4, <3>2, PhaseCases DEF PhaseOfNone, PhaseOfOne, Moves
    <3>4. QED BY <2>2, <2>3, <3>3, LifecycleMoves DEF SessionStep
  <2>5. ASSUME NEW a \in Addresses, ObjectsOf(s) = {a}
        PROVE  Lifecycle!Next \/ UNCHANGED Lifecycle!lifecycle
    <3>1. Moves(s, "held", "deleted")
          BY <1>2, <2>1, <2>5, PhaseCases DEF PhaseOfNone, PhaseOfOne, Moves
    <3>2. QED BY <2>2, <2>3, <3>1, LifecycleMoves DEF SessionStep
  <2>6. QED BY <2>4, <2>5, NoneOrOne
<1>5. QED BY <1>3, <1>4 DEF DeleteObject, DeleteTable, Refused, Return

\* The object is taken back, and objects of other sessions with it; or it has
\* gone before, with another session's, and nothing happens.
LEMMA RemoveRefines ==
  ASSUME StoreInv, NEW t \in Threads, RemoveCacheObject(t)
  PROVE  Lifecycle!Next \/ UNCHANGED Lifecycle!lifecycle
<1>0. PICK s : s = job[t].session
      OBVIOUS
<1>1. /\ s \in Sessions /\ delegates[s] = NoHandle
      /\ UNCHANGED <<delegates, registered, table>>
      BY <1>0, EngineAssumption
         DEF RemoveCacheObject, vars, maps, database, StoreInv, StoreTypeOK, TablesInv,
             JobShape, JobPhase, Busy
<1>2. PICK gone \in SUBSET Addresses :
        /\ MayGo(s, gone)
        /\ bereft' = bereft \cup Orphaned(gone)
        /\ \A x \in Sessions : ObjectsOf(x)' = ObjectsOf(x) \ gone
      BY <1>0, <1>1, Taken
<1> DEFINE G == {x \in Sessions : ObjectsOf(x) \cap gone # {}}
<1>3. ASSUME NEW x \in Sessions \ G PROVE Same(x)
  <2>1. ObjectsOf(x)' = ObjectsOf(x) /\ x \notin Orphaned(gone)
        BY <1>2, <1>3 DEF Orphaned
  <2>2. QED BY <1>1, <1>2, <2>1, SameWhen
<1>4. CASE ObjectsOf(s) = {}
      BY <1>2, <1>3, <1>4, LifecycleStutters DEF MayGo
<1>5. CASE ObjectsOf(s) # {}
  <2>1. ASSUME NEW x \in G
        PROVE  /\ delegates[x] = NoHandle => Moves(x, "deleted", "absent")
               /\ delegates[x] # NoHandle => Moves(x, "held", "lost")
    <3>1. PICK a \in Addresses : ObjectsOf(x) = {a}
          BY <2>1, NoneOrOne
    <3>2. ObjectsOf(x)' = {}
          BY <1>2, <2>1, <3>1
    <3>3. delegates[x] # NoHandle => x \in bereft'
          BY <1>2, <2>1 DEF Orphaned
    <3>4. QED BY <1>1, <3>1, <3>2, <3>3, PhaseCases DEF PhaseOfNone, PhaseOfOne, Moves
  <2>2. s \in G
        BY <1>1, <1>2, <1>5 DEF MayGo
  <2>3. PhaseOf(s) = "deleted"
        BY <1>1, <2>1, <2>2 DEF Moves
  <2>4. \A x \in Sessions \ G : PhaseOf(x)' = PhaseOf(x)
        BY <1>3 DEF Same
  <2>5. \A x \in Sessions : SameWatch(x) /\ SameStored(x)
        BY <1>1 DEF SameWatch, SameStored, Watched, Stored, EmptyTable
  <2>6. QED BY <1>1, <2>1, <2>2, <2>3, <2>4, <2>5, LifecycleTakesBack
<1>6. QED BY <1>4, <1>5

\* Watch and UnWatch: the first watcher on a handle, and the last.
LEMMA WatchRefines ==
  ASSUME StoreInv, StoreTypeOK', NEW s \in Sessions, ObjectsOf(s) # {}, Accepted(s),
         NEW W, registered' = [registered EXCEPT ![delegates[s]] = W],
         UNCHANGED <<delegates, objects, table, bereft>>
  PROVE  Lifecycle!Next \/ UNCHANGED Lifecycle!lifecycle
<1>1. \A x \in Sessions : ObjectsOf(x)' = ObjectsOf(x)
      BY DEF ObjectsOf
<1>2. \A x \in Sessions \ {s} : Same(x)
  <2>1. \A x \in Sessions \ {s} : delegates[x] # NoHandle =>
          registered'[delegates[x]] = registered[delegates[x]]
        BY DEF Accepted, StoreInv, EngineInv, TypeOK, HandleOwnership
  <2>2. QED BY <1>1, <2>1, SameWhen
<1>3. Moves(s, "held", "held")
  <2>1. PICK a \in Addresses : ObjectsOf(s) = {a}
        BY NoneOrOne
  <2>2. QED BY <1>1, <2>1, PhaseCases DEF PhaseOfNone, PhaseOfOne, Moves, Accepted
<1>4. SameStored(s)
      BY DEF SameStored, Stored, EmptyTable
<1>5. QED BY <1>2, <1>3, <1>4, LifecycleMoves DEF SessionStep

\* Every step of the store is a step of the life cycle, or leaves it alone.
LEMMA StepRefines ==
  ASSUME OwnSessions, StoreInv, StoreTypeOK', StoreNext
  PROVE  Lifecycle!Next \/ UNCHANGED Lifecycle!lifecycle
<1>1. CASE UNCHANGED <<delegates, registered, objects, table, bereft>>
  <2>1. \A x \in Sessions : ObjectsOf(x)' = ObjectsOf(x)
        BY <1>1 DEF ObjectsOf
  <2>2. QED BY <1>1, <2>1, SameWhen, LifecycleStutters
<1>2. \A a \in Addresses : objects[a] # NoSession =>
        objects[a] \in Sessions /\ ObjectsOf(objects[a]) # {}
      BY DEF StoreInv, StoreTypeOK, ObjectsOf
<1>3. ASSUME NEW t \in Threads, NEW a \in Addresses, NEW w \in Watchers, Watch(t, a, w)
      PROVE  Lifecycle!Next \/ UNCHANGED Lifecycle!lifecycle
      BY <1>1, <1>2, <1>3, WatchRefines
         DEF Watch, RegisterObserver, Refused, maps, database, history
<1>4. ASSUME NEW t \in Threads, NEW a \in Addresses, UnWatch(t, a)
      PROVE  Lifecycle!Next \/ UNCHANGED Lifecycle!lifecycle
      BY <1>1, <1>2, <1>4, WatchRefines
         DEF UnWatch, UnRegisterObserver, Refused, maps, database, history
<1>5. ASSUME NEW t \in Threads, NEW a \in Addresses, UseObject(t, a)
      PROVE  Lifecycle!Next \/ UNCHANGED Lifecycle!lifecycle
  <2>1. /\ UNCHANGED <<delegates, registered, objects, bereft>>
        /\ \A x \in Sessions \ {objects[a]} : table'[x] = table[x]
        BY <1>2, <1>5
           DEF UseObject, UpdateItem, GetItem, GetItems, Refused, maps, database, history,
               StoreInv, EngineInv, TypeOK
  <2>2. objects[a] \in Sessions
        BY <1>2, <1>5 DEF UseObject
  <2>3. QED BY <2>1, <2>2, WriteOrStutter
<1>6. ASSUME NEW s \in Sessions, Retrieved(s) \/ PeerWrite(s)
      PROVE  Lifecycle!Next \/ UNCHANGED Lifecycle!lifecycle
  <2>1. /\ UNCHANGED <<delegates, registered, objects, bereft>>
        /\ \A x \in Sessions \ {s} : table'[x] = table[x]
        BY <1>6
           DEF Retrieved, PeerWrite, UpdateItems, RemoteWrite, Refused, vars, maps, database,
               history, StoreInv, EngineInv, TypeOK
  <2>2. QED BY <2>1, WriteOrStutter
<1>7. QED
      BY <1>1, <1>3, <1>4, <1>5, <1>6, CreateStepRefines, CacheRefines, DeleteRefines,
         RemoveRefines
         DEF StoreNext, OpenStore, Open, CreateObject, CreateTable, ResumeObject, vars,
             maps, database, history

\* The object store implements the life cycle: with failing calls, late answers
\* of the service, peers' writes and objects that go in the deletion of another
\* session, each session is created, handed out or lost, watched or unwatched,
\* deleted and taken back, in this order.
THEOREM StoreKeepsLifecycle ==
  ASSUME OwnSessions
  PROVE  StoreSpec => KeepsLifecycle
<1>1. StoreInit => Lifecycle!Init
  <2> SUFFICES ASSUME StoreInit PROVE Lifecycle!Init
      OBVIOUS
  <2>1. ASSUME NEW s \in Sessions
        PROVE  delegates[s] = NoHandle /\ PhaseOf(s) = "absent"
    <3>1. delegates[s] = NoHandle /\ ObjectsOf(s) = {}
          BY EngineAssumption DEF StoreInit, Init, ObjectsOf
    <3>2. QED BY <3>1, PhaseCases DEF PhaseOfNone, PhaseOfOne
  <2>2. QED BY <2>1 DEF Lifecycle!Init
<1>2. StoreInv /\ StoreInv' /\ [StoreNext]_storeVars
        => [Lifecycle!Next]_(Lifecycle!lifecycle)
  <2> SUFFICES ASSUME StoreInv, StoreInv', [StoreNext]_storeVars
               PROVE  Lifecycle!Next \/ UNCHANGED Lifecycle!lifecycle
      OBVIOUS
  <2>1. CASE UNCHANGED storeVars
    <3>1. \A s \in Sessions : Same(s)
      <4>1. \A x \in Sessions : ObjectsOf(x)' = ObjectsOf(x)
            BY <2>1 DEF storeVars, ObjectsOf
      <4>2. QED BY <2>1, <4>1, SameWhen DEF storeVars, vars, maps, database, history
    <3>2. QED BY <3>1, LifecycleStutters
  <2>2. CASE StoreNext
        BY <2>2, StepRefines DEF StoreInv
  <2>3. QED BY <2>1, <2>2
<1>3. QED BY <1>1, <1>2, StoreInvariant, PTL DEF StoreSpec, KeepsLifecycle, Lifecycle!Spec
=============================================================================
