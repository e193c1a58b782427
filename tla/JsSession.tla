------------------------------ MODULE JsSession ------------------------------
(***************************************************************************)
(* The JS side: distributed objects that join and leave sessions, and the  *)
(* callbacks they are watched with.                                        *)
(*                                                                         *)
(* on() attaches a callback to the native wrapper of the object's session, *)
(* if it has joined one, and records it under the object's id; joining a   *)
(* session makes a new wrapper and restores the recorded callbacks on it.  *)
(* All of it runs on the JS thread, so a call is one step; module Delivery *)
(* has the other threads and the queue between them and the callbacks.     *)
(*                                                                         *)
(* The native store is cut down to what these calls see of it (modules     *)
(* ObjectStore and StorageEngine have the rest): a session is created once *)
(* and deleted; it is watched through an observer that stays filed when    *)
(* the session is deleted without an UnWatch.                              *)
(***************************************************************************)

CONSTANTS
  Objects,      (* JS objects, by __objectId                               *)
  Sessions,     (* session ids                                             *)
  Callbacks,    (* JS functions                                            *)
  Faults,       (* the native calls that may fail                          *)
  OffWithout,   (* TRUE: callers call off() without a callback, too        *)
  NoObject, NoSession

ASSUME JsAssumption ==
  /\ NoObject \notin Objects
  /\ NoSession \notin Sessions
  /\ Faults \subseteq {"watch", "unwatch", "delete"}
  /\ OffWithout \in BOOLEAN

VARIABLES
  joined,     (* __proxy[__sessionId] of object o                          *)
  created,    (* native: the sessions that exist                           *)
  watched,    (* native: the sessions whose changes are reported           *)
  observers,  (* native: the sessions with an entry in observerMap_        *)
  isWatched,  (* isWatched_ of the wrapper's ChangeEventListener           *)
  handlers,   (* handlers_ of the wrapper's listeners, for either type     *)
  recorded,   (* g_changeCallBacks and g_statusCallBacks of object o       *)
  notifier,   (* NotifierImpl::watchers_: the object watching session s    *)
  wanted,     (* history: the callbacks the caller has put on and not off  *)
  kept,       (* history: callbacks that off() without a callback has left *)
              (* recorded                                                  *)
  failed      (* history: a native call has failed                         *)

native == <<created, watched, observers>>
watching == <<isWatched, watched, observers>>
history == <<wanted, kept>>
vars == <<joined, native, isWatched, handlers, recorded, notifier, history, failed>>

Types == {"change", "status"}
None == [k \in Types |-> {}]

TypeOK ==
  /\ joined \in [Objects -> Sessions \cup {NoSession}]
  /\ created \subseteq Sessions
  /\ watched \subseteq created \cap observers
  /\ observers \subseteq Sessions
  /\ isWatched \in [Objects -> BOOLEAN]
  /\ {handlers, recorded, wanted, kept} \subseteq [Objects -> [Types -> SUBSET Callbacks]]
  /\ notifier \in [Sessions -> Objects \cup {NoObject}]
  /\ failed \in BOOLEAN

Init ==
  /\ joined = [o \in Objects |-> NoSession]
  /\ created = {}
  /\ watched = {}
  /\ observers = {}
  /\ isWatched = [o \in Objects |-> FALSE]
  /\ handlers = [o \in Objects |-> None]
  /\ recorded = [o \in Objects |-> None]
  /\ notifier = [s \in Sessions |-> NoObject]
  /\ wanted = [o \in Objects |-> None]
  /\ kept = [o \in Objects |-> None]
  /\ failed = FALSE

-----------------------------------------------------------------------------
Joined(o) == joined[o] # NoSession

\* ChangeEventListener::Add watches the session unless it is watched; the
\* callback is attached even when that fails.  Where an observer was left,
\* Watch succeeds and nothing more is reported.
StartWatch(o, s) ==
  \/ isWatched[o] /\ UNCHANGED <<watching, failed>>
  \/ /\ ~isWatched[o]
     /\ isWatched' = [isWatched EXCEPT ![o] = TRUE]
     /\ watched' = IF s \in observers THEN watched ELSE watched \cup {s}
     /\ observers' = observers \cup {s}
     /\ UNCHANGED failed
  \/ /\ ~isWatched[o]
     /\ "watch" \in Faults
     /\ failed' = TRUE
     /\ UNCHANGED watching

\* ChangeEventListener::Del and Clear, when no callback is left.  An observer
\* that was left cannot be taken off.
StopWatch(o, s) ==
  \/ ~isWatched[o] /\ UNCHANGED <<watching, failed>>
  \/ /\ isWatched[o] /\ s \in watched
     /\ isWatched' = [isWatched EXCEPT ![o] = FALSE]
     /\ watched' = watched \ {s}
     /\ observers' = observers \ {s}
     /\ UNCHANGED failed
  \/ /\ isWatched[o]
     /\ s \notin watched \/ "unwatch" \in Faults
     /\ failed' = TRUE
     /\ UNCHANGED watching

\* JSWatcher::On.
Attached(o, s, k) ==
  \/ /\ k = "change"
     /\ StartWatch(o, s)
     /\ UNCHANGED notifier
  \/ /\ k = "status"
     /\ notifier' = [notifier EXCEPT ![s] = o]
     /\ UNCHANGED <<watching, failed>>

\* Mutant of Detached: the last callback is taken off, and nothing else is done.
DetachedOnly(o, s, k) == UNCHANGED <<watching, notifier, failed>>

\* JSWatcher::Off has left no callback of type k.
Detached(o, s, k) ==
  \/ /\ k = "change"
     /\ StopWatch(o, s)
     /\ UNCHANGED notifier
  \/ /\ k = "status"
     /\ notifier' = [notifier EXCEPT ![s] = NoObject]
     /\ UNCHANGED <<watching, failed>>

-----------------------------------------------------------------------------
\* recordCallback and deleteCallback; a list with duplicates is a set here,
\* since all that are equal go, and are attached, together.
AddCallback(o, k, c) == recorded' = [recorded EXCEPT ![o][k] = @ \cup {c}]

DelCallback(o, k, c) == recorded' = [recorded EXCEPT ![o][k] = @ \ {c}]

\* on(): the callback is attached when a session is joined, and recorded.
On(o, k, c) ==
  /\ AddCallback(o, k, c)
  /\ wanted' = [wanted EXCEPT ![o][k] = @ \cup {c}]
  /\ kept' = [kept EXCEPT ![o][k] = @ \ {c}]
  /\ \/ /\ ~Joined(o)
        /\ UNCHANGED <<handlers, watching, notifier, failed>>
     \/ /\ Joined(o)
        /\ handlers' = [handlers EXCEPT ![o][k] = @ \cup {c}]
        /\ Attached(o, joined[o], k)
  /\ UNCHANGED <<joined, created>>

\* What off() does to the wrapper: the callbacks in the set gone are detached.
OffWatch(o, k, gone) ==
  \/ /\ ~Joined(o)
     /\ UNCHANGED <<handlers, watching, notifier, failed>>
  \/ /\ Joined(o)
     /\ handlers' = [handlers EXCEPT ![o][k] = @ \ gone]
     /\ IF handlers[o][k] \subseteq gone
          THEN Detached(o, joined[o], k)
          ELSE UNCHANGED <<watching, notifier, failed>>

\* Mutant of Off: the record is kept.
OffKeepsRecord(o, k, c) ==
  /\ wanted' = [wanted EXCEPT ![o][k] = @ \ {c}]
  /\ kept' = [kept EXCEPT ![o][k] = @ \ {c}]
  /\ OffWatch(o, k, {c})
  /\ UNCHANGED <<joined, created, recorded>>

\* off() with a callback.
Off(o, k, c) ==
  /\ DelCallback(o, k, c)
  /\ wanted' = [wanted EXCEPT ![o][k] = @ \ {c}]
  /\ kept' = [kept EXCEPT ![o][k] = @ \ {c}]
  /\ OffWatch(o, k, {c})
  /\ UNCHANGED <<joined, created>>

\* off() without one.  deleteCallback is called with three arguments, the
\* third undefined, and returns because it is not a function.
OffAll(o, k) ==
  /\ OffWithout
  /\ wanted' = [wanted EXCEPT ![o][k] = {}]
  /\ kept' = [kept EXCEPT ![o][k] = recorded[o][k]]
  /\ OffWatch(o, k, Callbacks)
  /\ UNCHANGED <<joined, created, recorded>>

\* The new wrapper has the recorded callbacks attached.
RestoreWatchers(o, s) ==
  /\ handlers' = [handlers EXCEPT ![o] = recorded[o]]
  /\ IF recorded[o]["change"] = {} THEN UNCHANGED <<watching, failed>> ELSE StartWatch(o, s)
  /\ IF recorded[o]["status"] = {} THEN UNCHANGED notifier
                                   ELSE notifier' = [notifier EXCEPT ![s] = o]

\* setSessionId(), joinSession: CreateObject answers no object for a session
\* that exists, and nothing has changed; else the object gets a new wrapper.
\* (setSessionId of an object that has joined another session leaves first.)
Join(o, s) ==
  /\ ~Joined(o)
  /\ s \notin created
  /\ joined' = [joined EXCEPT ![o] = s]
  /\ created' = created \cup {s}
  /\ RestoreWatchers(o, s)
  /\ UNCHANGED <<recorded, history>>

\* UnWatch and DeleteObject of a session that is being left, one after the
\* other: what they answer is not looked at.
Dispose(s, wasWatched) ==
  \E unwatch, delete \in BOOLEAN :
    /\ unwatch => wasWatched /\ s \in watched
    /\ ~unwatch => "unwatch" \in Faults \/ ~wasWatched \/ s \notin watched
    /\ ~delete => "delete" \in Faults
    /\ observers' = IF unwatch THEN observers \ {s} ELSE observers
    /\ watched' = IF unwatch \/ delete THEN watched \ {s} ELSE watched
    /\ created' = IF delete THEN created \ {s} ELSE created
    /\ failed' = (failed \/ (wasWatched /\ ~unwatch) \/ ~delete)

\* Mutants of Leave: the callbacks are not detached; the session is not
\* deleted.
LeaveAttached(o) ==
  /\ Joined(o)
  /\ joined' = [joined EXCEPT ![o] = NoSession]
  /\ handlers' = [handlers EXCEPT ![o] = None]
  /\ isWatched' = [isWatched EXCEPT ![o] = FALSE]
  /\ created' = created \ {joined[o]}
  /\ UNCHANGED <<watched, observers, recorded, notifier, history, failed>>

LeaveUndeleted(o) ==
  /\ Joined(o)
  /\ joined' = [joined EXCEPT ![o] = NoSession]
  /\ handlers' = [handlers EXCEPT ![o] = None]
  /\ isWatched' = [isWatched EXCEPT ![o] = FALSE]
  /\ notifier' = [notifier EXCEPT ![joined[o]] = NoObject]
  /\ UNCHANGED <<native, recorded, history, failed>>

\* leaveSession, destroyObjectSync: the callbacks of both types are cleared,
\* the session is deleted, and the wrapper is left to the collector.
Leave(o) ==
  /\ Joined(o)
  /\ joined' = [joined EXCEPT ![o] = NoSession]
  /\ handlers' = [handlers EXCEPT ![o] = None]
  /\ isWatched' = [isWatched EXCEPT ![o] = FALSE]
  /\ notifier' = [notifier EXCEPT ![joined[o]] = NoObject]
  /\ Dispose(joined[o], isWatched[o])
  /\ UNCHANGED <<recorded, history>>

Next ==
  \/ \E o \in Objects : Leave(o)
  \/ \E o \in Objects, s \in Sessions : Join(o, s)
  \/ \E o \in Objects, k \in Types : OffAll(o, k)
  \/ \E o \in Objects, k \in Types, c \in Callbacks : On(o, k, c) \/ Off(o, k, c)

Spec == Init /\ [][Next]_vars

-----------------------------------------------------------------------------
\* An object that has joined a session has exactly the callbacks attached its
\* caller has put on and not taken off, in whatever session it was then or in
\* none, whatever native call failed.  Those that off() without a callback
\* left recorded may be attached as well.
CallbacksFollow ==
  \A o \in Objects, k \in Types : Joined(o) =>
    /\ wanted[o][k] \subseteq handlers[o][k]
    /\ handlers[o][k] \subseteq wanted[o][k] \cup kept[o][k]

\* A callback that was taken off is not called again until it is put on again,
\* in another session neither.
OffIsKept ==
  \A o \in Objects, k \in Types : handlers[o][k] \subseteq wanted[o][k]

\* isWatched_ is right about the native store through failing calls and
\* re-joining: a watched session's wrapper knows that it is watched, so that
\* it can be taken off, and a wrapper that believes it is watched has an
\* observer, if only one left by the session's earlier life.
WatchAgrees ==
  \A o \in Objects :
    /\ joined[o] \in watched => isWatched[o]
    /\ isWatched[o] => joined[o] \in observers

\* An object's attached callbacks are reached: its session is watched for
\* changes exactly when it has a callback for them, and the notifier knows it
\* for its session exactly when it has a status callback.  The raw JSWatcher
\* pointers of the notifier are those of joined objects, through any failure.
\* isWatched_ does not deny a watch there is.
CallbacksReached ==
  /\ WatchAgrees
  /\ ~failed => \A o \in Objects : Joined(o) =>
       (joined[o] \in watched <=> handlers[o]["change"] # {})
  /\ \A s \in Sessions, o \in Objects :
       notifier[s] = o <=> joined[o] = s /\ handlers[o]["status"] # {}

\* A session exists exactly while one object has joined it, so that a session
\* that was left can be joined again.  A session whose DeleteObject failed
\* may exist without being joined.
SessionsAreJoined ==
  /\ {joined[o] : o \in Objects} \subseteq created \cup {NoSession}
  /\ ~failed => created \subseteq {joined[o] : o \in Objects}
  /\ \A o, p \in Objects : Joined(o) /\ joined[o] = joined[p] => o = p
=============================================================================
