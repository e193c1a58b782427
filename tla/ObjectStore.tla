----------------------------- MODULE ObjectStore -----------------------------
(***************************************************************************)
(* DistributedObjectStoreImpl over FlatObjectStore over the engine.        *)
(*                                                                         *)
(* CreateObject is CreateTable, then a retrieve request to the object      *)
(* service, then an object allocated and cached in objects_.  DeleteObject *)
(* is DeleteTable, then the cached objects of the session deleted.  A      *)
(* thread can be overtaken between any two of these.  watchers_ is keyed   *)
(* by the object's address and has no lock; deleting an object leaves it   *)
(* alone, and the address can be given to the next object.                 *)
(*                                                                         *)
(* Module StorageEngine supplies the engine's actions; each action here    *)
(* conjoins one of them with what the two upper layers do around it.       *)
(***************************************************************************)
EXTENDS StorageEngine

CONSTANTS
  Addresses,      (* addresses of DistributedObjectImpl.  Bound of a run.   *)
  WatchThreads,   (* the thread that calls Watch and UnWatch, if any       *)
  MaxRetrievals   (* retrieve requests unanswered per session.  Bound.      *)

\* watchers_ is not locked: its callers are one thread.
ASSUME StoreAssumption ==
  /\ WatchThreads \subseteq Threads
  /\ \A t, u \in WatchThreads : t = u
  /\ MaxRetrievals \in Nat \ {0}

VARIABLES
  objects,      (* objects_: the session of the live object at an address  *)
  watchers,     (* watchers_: the watcher filed under an address           *)
  job,          (* the CreateObject or DeleteObject thread t is inside     *)
  retrievals,   (* retrieve requests the service has yet to answer         *)
  bereft,       (* history: sessions whose table has lost its object       *)
  outlived,     (* history: sessions deleted with an entry in observerMap_ *)
  staleKeys     (* history: addresses freed while a key of watchers_       *)

history == <<bereft, outlived, staleKeys>>
storeVars == <<vars, objects, watchers, job, retrievals, history>>

NoJob == [step |-> "none", session |-> NoSession]
JobSteps == {"none", "create", "resume", "cache", "remove"}

StoreTypeOK ==
  /\ TypeOK
  /\ objects \in [Addresses -> Sessions \cup {NoSession}]
  /\ watchers \in [Addresses -> Watchers \cup {NoWatcher}]
  /\ job \in [Threads -> [step : JobSteps, session : Sessions \cup {NoSession}]]
  /\ retrievals \in [Sessions -> 0 .. MaxRetrievals]
  /\ bereft \subseteq Sessions
  /\ outlived \subseteq Sessions
  /\ staleKeys \subseteq Addresses

StoreInit ==
  /\ Init
  /\ objects = [a \in Addresses |-> NoSession]
  /\ watchers = [a \in Addresses |-> NoWatcher]
  /\ job = [t \in Threads |-> NoJob]
  /\ retrievals = [s \in Sessions |-> 0]
  /\ bereft = {}
  /\ outlived = {}
  /\ staleKeys = {}

ObjectsOf(s) == {a \in Addresses : objects[a] = s}

Busy(t) == job[t].step # "none"

SetJob(t, step, s) == job' = [job EXCEPT ![t] = [step |-> step, session |-> s]]

\* A run's bounds, for CreateObject: an address is left for the object, and
\* the request it will make can be counted.
StoreRoom(s) ==
  /\ Cardinality({a \in Addresses : objects[a] # NoSession})
       + Cardinality({t \in Threads : job[t].step \in {"create", "resume", "cache"}})
       < Cardinality(Addresses)
  /\ retrievals[s] < MaxRetrievals

-----------------------------------------------------------------------------
\* A CreateTable that is refused makes CreateObject return nullptr.
CreateObject(t, s) ==
  /\ ~Busy(t)
  /\ StoreRoom(s)
  /\ CreateTable(t, s)
  /\ \/ call'[t].pc = "idle" /\ UNCHANGED job
     \/ call'[t].pc # "idle" /\ SetJob(t, "create", s)
  /\ UNCHANGED <<objects, watchers, retrievals, history>>

\* The steps of CreateTable; on its success CreateObject goes on.
CreateObjectStep(t) ==
  /\ job[t].step = "create"
  /\ CreateSteps(t)
  /\ \/ call'[t].pc # "idle" /\ UNCHANGED job
     \/ /\ call'[t].pc = "idle"
        /\ reply'.result = "SUCCESS"
        /\ SetJob(t, "resume", job[t].session)
     \/ /\ call'[t].pc = "idle"
        /\ reply'.result # "SUCCESS"
        /\ job' = [job EXCEPT ![t] = NoJob]
  /\ UNCHANGED <<objects, watchers, retrievals, history>>

\* ResumeObject: the request is sent, or there is no service to send it to.
\* Either way CreateObject goes on.
ResumeObject(t) ==
  /\ process = "running"
  /\ job[t].step = "resume"
  /\ SetJob(t, "cache", job[t].session)
  /\ \/ retrievals' = [retrievals EXCEPT ![job[t].session] = @ + 1]
     \/ UNCHANGED retrievals
  /\ UNCHANGED <<vars, objects, watchers, history>>

\* The object is allocated and appended to objects_, and CreateObject returns
\* it; or there is no memory for it: CreateObject returns nullptr and leaves the
\* table it has created.
CacheObject(t) ==
  /\ process = "running"
  /\ job[t].step = "cache"
  /\ \/ \E a \in Addresses :
          /\ objects[a] = NoSession
          /\ objects' = [objects EXCEPT ![a] = job[t].session]
          /\ UNCHANGED bereft
     \/ /\ bereft' = bereft \cup {job[t].session}
        /\ UNCHANGED objects
  /\ job' = [job EXCEPT ![t] = NoJob]
  /\ UNCHANGED <<vars, watchers, retrievals, outlived, staleKeys>>

\* Mutants of DeleteObject: the cached objects are left; they are removed
\* whatever DeleteTable answered.
DeleteTableOnly(t, s) ==
  /\ ~Busy(t)
  /\ DeleteTable(t, s)
  /\ UNCHANGED <<objects, watchers, job, retrievals, history>>

DeleteRegardless(t, s) ==
  /\ ~Busy(t)
  /\ DeleteTable(t, s)
  /\ SetJob(t, "remove", s)
  /\ UNCHANGED <<objects, watchers, retrievals, history>>

\* Any session may be named, watched or not.  A watcher of it stays in
\* observerMap_.
DeleteObject(t, s) ==
  /\ ~Busy(t)
  /\ DeleteTable(t, s)
  /\ \/ /\ reply'.result = "SUCCESS"
        /\ SetJob(t, "remove", s)
        /\ bereft' = bereft \ {s}
        /\ outlived' = IF observerMap[s] # NoWatcher THEN outlived \cup {s}
                                                     ELSE outlived
     \/ /\ reply'.result # "SUCCESS"
        /\ UNCHANGED <<job, bereft, outlived>>
  /\ UNCHANGED <<objects, watchers, retrievals, staleKeys>>

LiveObjects == {a \in Addresses : objects[a] # NoSession}

\* The cached objects of session s are deleted.  The JS layer passes the id by
\* reference into the first object that goes, so from there on the others are
\* compared with freed memory: any of them may go, or stay.
MayGo(s, gone) ==
  /\ gone \subseteq LiveObjects
  /\ ObjectsOf(s) = {} => gone = {}
  /\ ObjectsOf(s) # {} => gone \cap ObjectsOf(s) # {}

\* The sessions that have a table, and lose their object with the others.
Orphaned(gone) ==
  {s \in Sessions : delegates[s] # NoHandle /\ ObjectsOf(s) \cap gone # {}}

\* watchers_ keeps its keys.  That comparing with freed memory ends the process
\* is a behaviour in which no step follows.
RemoveCacheObject(t) ==
  /\ process = "running"
  /\ job[t].step = "remove"
  /\ \E gone \in SUBSET LiveObjects :
       /\ MayGo(job[t].session, gone)
       /\ objects' = [a \in Addresses |-> IF a \in gone THEN NoSession ELSE objects[a]]
       /\ bereft' = bereft \cup Orphaned(gone)
       /\ staleKeys' = staleKeys \cup {a \in gone : watchers[a] # NoWatcher}
  /\ job' = [job EXCEPT ![t] = NoJob]
  /\ UNCHANGED <<vars, watchers, retrievals, outlived>>

\* Mutant of Watch: the watcher is filed before it is registered.
FileFirst(t, a, w) ==
  /\ t \in WatchThreads
  /\ ~Busy(t)
  /\ objects[a] # NoSession
  /\ watchers[a] = NoWatcher
  /\ RegisterObserver(t, objects[a], w)
  /\ watchers' = [watchers EXCEPT ![a] = w]
  /\ UNCHANGED <<objects, job, retrievals, history>>

\* Watch makes a new WatcherProxy w; an address that is a key of watchers_
\* is answered ERR_EXIST before anything changes.
Watch(t, a, w) ==
  /\ t \in WatchThreads
  /\ ~Busy(t)
  /\ objects[a] # NoSession
  /\ watchers[a] = NoWatcher
  /\ \A b \in Addresses : watchers[b] # w
  /\ RegisterObserver(t, objects[a], w)
  /\ watchers' = IF reply'.result = "SUCCESS" THEN [watchers EXCEPT ![a] = w]
                                              ELSE watchers
  /\ UNCHANGED <<objects, job, retrievals, history>>

UnWatch(t, a) ==
  /\ t \in WatchThreads
  /\ ~Busy(t)
  /\ objects[a] # NoSession
  /\ UnRegisterObserver(t, objects[a])
  /\ watchers' = IF reply'.result = "SUCCESS" THEN [watchers EXCEPT ![a] = NoWatcher]
                                              ELSE watchers
  /\ UNCHANGED <<objects, job, retrievals, history>>

\* Put, Get and Save read the session of a live object and go to the engine.
UseObject(t, a) ==
  /\ ~Busy(t)
  /\ objects[a] # NoSession
  /\ \/ \E i \in Items, v \in Values : UpdateItem(t, objects[a], i, v)
     \/ \E i \in Items : GetItem(t, objects[a], i)
     \/ GetItems(t, objects[a])
  /\ UNCHANGED <<objects, watchers, job, retrievals, history>>

\* The service answers a request, on a thread of its own, whatever has become
\* of the session since.  No data, and the engine is not called.
Retrieved(s) ==
  /\ process = "running"
  /\ retrievals[s] > 0
  /\ retrievals' = [retrievals EXCEPT ![s] = @ - 1]
  /\ \/ UNCHANGED vars
     \/ \E D \in SUBSET Items \ {{}} : \E data \in [D -> Values] : UpdateItems(s, data)
  /\ UNCHANGED <<objects, watchers, job, history>>

\* The constructor of FlatObjectStore; a peer's write.
OpenStore == Open /\ UNCHANGED <<objects, watchers, job, retrievals, history>>

PeerWrite(s) ==
  /\ \E i \in Items, v \in Values : RemoteWrite(s, i, v)
  /\ UNCHANGED <<objects, watchers, job, retrievals, history>>

StoreNext ==
  \/ OpenStore
  \/ \E t \in Threads : \/ CreateObjectStep(t)
                        \/ ResumeObject(t)
                        \/ CacheObject(t)
                        \/ RemoveCacheObject(t)
  \/ \E t \in Threads, s \in Sessions : CreateObject(t, s) \/ DeleteObject(t, s)
  \/ \E t \in Threads, a \in Addresses : UnWatch(t, a) \/ UseObject(t, a)
  \/ \E t \in Threads, a \in Addresses, w \in Watchers : Watch(t, a, w)
  \/ \E s \in Sessions : Retrieved(s) \/ PeerWrite(s)

StoreSpec == StoreInit /\ [][StoreNext]_storeVars

-----------------------------------------------------------------------------
\* The two tables agree whenever nobody is between their updates: a session no
\* thread is creating or deleting has a table in the engine exactly when ONE
\* object is cached for it, unless no object could be allocated for it or its
\* object went in the deletion of another session; it then has the table alone,
\* until DeleteObject succeeds.  It never has two objects.
TablesAgree ==
  \A s \in Sessions :
    /\ \A a, b \in ObjectsOf(s) : a = b
    /\ (\A t \in Threads : job[t].session # s) =>
         /\ delegates[s] # NoHandle <=> ObjectsOf(s) # {} \/ s \in bereft
         /\ s \in bereft => ObjectsOf(s) = {}

\* A live object filed in watchers_ is watched: its watcher is the one the
\* engine owns for the session, and the database calls it through the
\* session's current handle.  What a deletion leaves behind breaks this, and
\* nothing else does: a session that was deleted with an entry in observerMap_,
\* and an address that was freed while a key of watchers_.
WatchedMeansObserved ==
  \A a \in Addresses \ staleKeys :
    LET s == objects[a]
    IN  watchers[a] # NoWatcher /\ s # NoSession /\ s \notin outlived =>
          /\ observerMap[s] = watchers[a]
          /\ delegates[s] # NoHandle
          /\ watchers[a] \in registered[delegates[s]]

-----------------------------------------------------------------------------
PhaseOf(s) ==
  CASE delegates[s] = NoHandle /\ ObjectsOf(s) = {} -> "absent"
    [] delegates[s] # NoHandle /\ ObjectsOf(s) = {} /\ s \notin bereft -> "created"
    [] delegates[s] # NoHandle /\ ObjectsOf(s) = {} /\ s \in bereft -> "lost"
    [] delegates[s] # NoHandle /\ Cardinality(ObjectsOf(s)) = 1 -> "held"
    [] delegates[s] = NoHandle /\ Cardinality(ObjectsOf(s)) = 1 -> "deleted"
    [] OTHER -> "broken"

\* The object store keeps the life cycle of module SessionLifecycle, for
\* threads that work on sessions of their own.
Lifecycle == INSTANCE SessionLifecycle WITH
  Contents <- [Items -> Values \cup {NoValue}],
  Nothing <- EmptyTable,
  phase <- [s \in Sessions |-> PhaseOf(s)],
  watched <- [s \in Sessions |-> delegates[s] # NoHandle /\ registered[delegates[s]] # {}],
  contents <- [s \in Sessions |-> IF delegates[s] = NoHandle THEN EmptyTable ELSE table[s]]

\* Any interleaving of threads on different sessions, with failing calls, a
\* late retrieve answer, peers' writes and objects that go in the deletion of
\* another session, is for each session the life cycle create, hand out or lose,
\* watch or unwatch, delete, take back.
KeepsLifecycle == Lifecycle!Spec
=============================================================================
