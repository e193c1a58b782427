-------------------------- MODULE JsSessionProofs --------------------------
(***************************************************************************)
(* What holds of JsSession for any number of objects, sessions and         *)
(* callbacks, and for any set of failing native calls: the callbacks a     *)
(* caller has put on follow the object from session to session, and are    *)
(* reached there as long as no native call has failed.                     *)
(***************************************************************************)
EXTENDS JsSession, TLAPS

CallbackLists == [Objects -> [Types -> SUBSET Callbacks]]

\* The record of an object has what its caller wants, and beyond that only
\* what off() without a callback has left there.
RecordFollows ==
  \A o \in Objects, k \in Types :
    /\ wanted[o][k] \subseteq recorded[o][k]
    /\ recorded[o][k] \subseteq wanted[o][k] \cup kept[o][k]

\* An observer that reports nothing is one that a failed call has left.
ObserversReport == ~failed => observers = watched

\* The inductive invariant of the JS objects.
JsInv ==
  /\ TypeOK
  /\ RecordFollows
  /\ CallbacksFollow
  /\ SessionsAreJoined
  /\ ObserversReport
  /\ CallbacksReached

-----------------------------------------------------------------------------
\* The lists f, with the list of type k of object o replaced by S.
Replaced(f, o, k, S) == [f EXCEPT ![o][k] = S]

\* Replacing the list of one type of one object leaves the others.
LEMMA OneList ==
  \A f \in CallbackLists, o \in Objects, k \in Types, S \in SUBSET Callbacks :
    /\ Replaced(f, o, k, S) \in CallbackLists
    /\ \A p \in Objects, j \in Types :
         Replaced(f, o, k, S)[p][j] = IF p = o /\ j = k THEN S ELSE f[p][j]
BY DEF CallbackLists, Types, Replaced

\* Init establishes the inductive invariant.
LEMMA JsInit == Init => JsInv
<1> SUFFICES ASSUME Init PROVE JsInv
    OBVIOUS
<1> USE JsAssumption DEF Init
<1>1. [o \in Objects |-> None] \in CallbackLists
      BY DEF CallbackLists, None
<1>2. TypeOK
      BY <1>1 DEF TypeOK, CallbackLists
<1>3. \A o \in Objects : joined[o] = NoSession
      OBVIOUS
<1>4. RecordFollows /\ CallbacksFollow /\ SessionsAreJoined /\ ObserversReport
      BY <1>3 DEF RecordFollows, CallbacksFollow, SessionsAreJoined, ObserversReport, Joined, None
<1>5. CallbacksReached
      BY <1>3 DEF CallbacksReached, WatchAgrees, Joined
<1>6. QED BY <1>2, <1>4, <1>5 DEF JsInv

\* A call that changes the lists of one type of one object only, and keeps the
\* invariant there, keeps it.
LEMMA ListsStep ==
  ASSUME JsInv, NEW o \in Objects, NEW k \in Types,
         \A p \in Objects, j \in Types : p # o \/ j # k =>
           /\ wanted'[p][j] = wanted[p][j] /\ recorded'[p][j] = recorded[p][j]
           /\ kept'[p][j] = kept[p][j] /\ handlers'[p][j] = handlers[p][j],
         UNCHANGED joined,
         wanted'[o][k] \subseteq recorded'[o][k],
         recorded'[o][k] \subseteq wanted'[o][k] \cup kept'[o][k],
         Joined(o) => /\ wanted'[o][k] \subseteq handlers'[o][k]
                      /\ handlers'[o][k] \subseteq wanted'[o][k] \cup kept'[o][k]
  PROVE  RecordFollows' /\ CallbacksFollow'
<1>1. ASSUME NEW p \in Objects, NEW j \in Types
      PROVE  /\ wanted'[p][j] \subseteq recorded'[p][j]
             /\ recorded'[p][j] \subseteq wanted'[p][j] \cup kept'[p][j]
  <2>1. CASE p = o /\ j = k
        BY <2>1
  <2>2. CASE p # o \/ j # k
    <3>1. /\ wanted[p][j] \subseteq recorded[p][j]
          /\ recorded[p][j] \subseteq wanted[p][j] \cup kept[p][j]
          BY DEF JsInv, RecordFollows
    <3>2. QED BY <2>2, <3>1
  <2>3. QED BY <2>1, <2>2
<1>2. ASSUME NEW p \in Objects, NEW j \in Types, joined'[p] # NoSession
      PROVE  /\ wanted'[p][j] \subseteq handlers'[p][j]
             /\ handlers'[p][j] \subseteq wanted'[p][j] \cup kept'[p][j]
  <2>1. CASE p = o /\ j = k
        BY <1>2, <2>1 DEF Joined
  <2>2. CASE p # o \/ j # k
    <3>1. /\ wanted[p][j] \subseteq handlers[p][j]
          /\ handlers[p][j] \subseteq wanted[p][j] \cup kept[p][j]
          BY <1>2 DEF JsInv, CallbacksFollow, Joined
    <3>2. QED BY <2>2, <3>1
  <2>3. QED BY <2>1, <2>2
<1>3. QED BY <1>1, <1>2 DEF RecordFollows, CallbacksFollow, Joined

\* The sessions of the objects stay, and so does the knowledge about them.
LEMMA SessionsStay ==
  ASSUME JsInv, UNCHANGED <<joined, created>>, failed => failed'
  PROVE  SessionsAreJoined'
BY DEF JsInv, SessionsAreJoined, Joined

-----------------------------------------------------------------------------
\* The watching of session s by object o may have changed, and stayed
\* consistent; that of no other has.
WatchedApart(o, s) ==
  /\ isWatched' \in [Objects -> BOOLEAN]
  /\ watched' \subseteq observers'
  /\ observers' \subseteq Sessions
  /\ failed' \in BOOLEAN
  /\ failed => failed'
  /\ ObserversReport'
  /\ s \in watched' => isWatched'[o]
  /\ isWatched'[o] => s \in observers'
  /\ \A p \in Objects : p # o => isWatched'[p] = isWatched[p]
  /\ \A t \in Sessions : t # s =>
       (t \in watched' <=> t \in watched) /\ (t \in observers' <=> t \in observers)

\* StartWatch and StopWatch have the session watched, or not watched, as long
\* as no call has failed.
LEMMA WatchStarts ==
  ASSUME JsInv, NEW o \in Objects, NEW s \in Sessions,
         s \in watched => isWatched[o], isWatched[o] => s \in observers
  PROVE  /\ StartWatch(o, s) => WatchedApart(o, s) /\ (~failed' => s \in watched')
         /\ StopWatch(o, s) => WatchedApart(o, s) /\ (~failed' => s \notin watched')
         /\ UNCHANGED <<watching, failed>> => WatchedApart(o, s)
<1>1. /\ isWatched \in [Objects -> BOOLEAN] /\ watched \subseteq observers
      /\ observers \subseteq Sessions /\ failed \in BOOLEAN /\ (~failed => observers = watched)
      BY DEF JsInv, TypeOK, ObserversReport
<1>2. UNCHANGED <<watching, failed>> => WatchedApart(o, s)
      BY <1>1 DEF WatchedApart, watching, ObserversReport
<1>3. UNCHANGED watching /\ failed' = TRUE => WatchedApart(o, s)
      BY <1>1 DEF WatchedApart, watching, ObserversReport
<1>4. ASSUME ~isWatched[o], isWatched' = [isWatched EXCEPT ![o] = TRUE],
             watched' = IF s \in observers THEN watched ELSE watched \cup {s},
             observers' = observers \cup {s}, UNCHANGED failed
      PROVE  WatchedApart(o, s) /\ (~failed' => s \in watched')
      BY <1>1, <1>4 DEF WatchedApart, ObserversReport
<1>5. ASSUME isWatched[o], s \in watched, isWatched' = [isWatched EXCEPT ![o] = FALSE],
             watched' = watched \ {s}, observers' = observers \ {s}, UNCHANGED failed
      PROVE  WatchedApart(o, s) /\ (~failed' => s \notin watched')
      BY <1>1, <1>5 DEF WatchedApart, ObserversReport
<1>6. ASSUME StartWatch(o, s) PROVE WatchedApart(o, s) /\ (~failed' => s \in watched')
  <2>1. CASE isWatched[o] /\ UNCHANGED <<watching, failed>>
        BY <1>1, <1>2, <2>1 DEF watching
  <2>2. CASE ~isWatched[o] /\ UNCHANGED watching /\ failed' = TRUE
        BY <1>3, <2>2
  <2>3. QED BY <1>4, <1>6, <2>1, <2>2 DEF StartWatch
<1>7. ASSUME StopWatch(o, s) PROVE WatchedApart(o, s) /\ (~failed' => s \notin watched')
  <2>1. CASE ~isWatched[o] /\ UNCHANGED <<watching, failed>>
        BY <1>2, <2>1 DEF watching
  <2>2. CASE isWatched[o] /\ UNCHANGED watching /\ failed' = TRUE
        BY <1>3, <2>2
  <2>3. QED BY <1>5, <1>7, <2>1, <2>2 DEF StopWatch
<1>8. QED BY <1>2, <1>6, <1>7

\* Where an object's own watching and its entry with the notifier are what
\* its callbacks ask for, and others' are left alone, callbacks are reached.
LEMMA ReachedStep ==
  ASSUME JsInv, NEW o \in Objects, NEW s \in Sessions, joined'[o] = s,
         joined[o] \in {s, NoSession},
         \A p \in Objects : p # o => joined'[p] = joined[p] /\ joined[p] # s,
         \A p \in Objects, j \in Types : p # o => handlers'[p][j] = handlers[p][j],
         WatchedApart(o, s),
         ~failed' => (s \in watched' <=> handlers'[o]["change"] # {}),
         \A t \in Sessions : t # s => notifier'[t] = notifier[t],
         notifier'[s] = IF handlers'[o]["status"] = {} THEN NoObject ELSE o
  PROVE  CallbacksReached'
<1>1. {"change", "status"} = Types /\ NoObject \notin Objects /\ NoSession \notin Sessions
      BY JsAssumption DEF Types
<1>2. /\ joined \in [Objects -> Sessions \cup {NoSession}]
      /\ \A p \in Objects : joined[p] \in Sessions \cup {NoSession}
      /\ observers \subseteq Sessions /\ watched \subseteq observers
      BY DEF JsInv, TypeOK
<1>3. WatchAgrees'
  <2>1. ASSUME NEW p \in Objects
        PROVE  /\ joined'[p] \in watched' => isWatched'[p]
               /\ isWatched'[p] => joined'[p] \in observers'
    <3>1. CASE p = o
          BY <3>1 DEF WatchedApart
    <3>2. CASE p # o
      <4>1. /\ joined[p] \in watched => isWatched[p]
            /\ isWatched[p] => joined[p] \in observers
            BY DEF JsInv, CallbacksReached, WatchAgrees
      <4>2. joined'[p] = joined[p] /\ joined[p] # s /\ isWatched'[p] = isWatched[p]
            BY <3>2 DEF WatchedApart
      <4>3. watched' \subseteq Sessions /\ observers' \subseteq Sessions
            BY DEF WatchedApart
      <4>4. /\ joined[p] \in watched' <=> joined[p] \in watched
            /\ joined[p] \in observers' <=> joined[p] \in observers
            BY <1>1, <1>2, <4>2, <4>3 DEF WatchedApart
      <4>5. QED BY <4>1, <4>2, <4>4
    <3>3. QED BY <3>1, <3>2
  <2>2. QED BY <2>1 DEF WatchAgrees
<1>4. ASSUME ~failed', NEW p \in Objects, joined'[p] # NoSession
      PROVE  joined'[p] \in watched' <=> handlers'[p]["change"] # {}
  <2>1. CASE p = o
        BY <1>4, <2>1
  <2>2. CASE p # o
    <3>1. joined'[p] = joined[p] /\ joined[p] # s /\ handlers'[p]["change"] = handlers[p]["change"]
          BY <1>1, <2>2
    <3>2. ~failed
          BY <1>4 DEF WatchedApart
    <3>3. joined[p] \in watched <=> handlers[p]["change"] # {}
          BY <1>4, <3>1, <3>2 DEF JsInv, CallbacksReached, Joined
    <3>4. joined[p] \in watched' <=> joined[p] \in watched
          BY <1>2, <1>4, <3>1 DEF WatchedApart
    <3>5. QED BY <3>1, <3>3, <3>4
  <2>3. QED BY <2>1, <2>2
<1>5. ASSUME NEW t \in Sessions, NEW p \in Objects
      PROVE  notifier'[t] = p <=> joined'[p] = t /\ handlers'[p]["status"] # {}
  <2>1. \A q \in Objects : notifier[t] = q <=> joined[q] = t /\ handlers[q]["status"] # {}
        BY DEF JsInv, CallbacksReached
  <2>2. CASE t = s
    <3>1. p = o \/ joined'[p] # s
          OBVIOUS
    <3>2. QED BY <1>1, <2>2, <3>1
  <2>3. CASE t # s
    <3>1. notifier'[t] = notifier[t]
          BY <2>3
    <3>2. CASE p = o
      <4>1. joined'[o] # t /\ joined[o] # t
            BY <1>1, <2>3
      <4>2. QED BY <2>1, <3>1, <3>2, <4>1
    <3>3. CASE p # o
          BY <1>1, <2>1, <3>1, <3>3
    <3>4. QED BY <3>2, <3>3
  <2>4. QED BY <2>2, <2>3
<1>6. QED BY <1>3, <1>4, <1>5 DEF CallbacksReached, Joined

-----------------------------------------------------------------------------
\* What an object knows about its own session.
LEMMA OwnSession ==
  ASSUME JsInv, NEW o \in Objects, Joined(o)
  PROVE  /\ joined[o] \in Sessions /\ joined[o] \in created
         /\ \A p \in Objects : p # o => joined[p] # joined[o]
         /\ joined[o] \in watched => isWatched[o]
         /\ isWatched[o] => joined[o] \in observers
         /\ handlers[o]["change"] # {} /\ ~failed => joined[o] \in watched
         /\ handlers[o]["change"] = {} /\ ~failed => joined[o] \notin watched
         /\ notifier[joined[o]] = IF handlers[o]["status"] = {} THEN NoObject ELSE o
<1>1. joined[o] \in Sessions /\ notifier[joined[o]] \in Objects \cup {NoObject}
      BY DEF JsInv, TypeOK, Joined
<1>2. joined[o] \in created /\ \A p \in Objects : p # o => joined[p] # joined[o]
      BY <1>1 DEF JsInv, SessionsAreJoined, Joined
<1>3. /\ joined[o] \in watched => isWatched[o]
      /\ isWatched[o] => joined[o] \in observers
      /\ ~failed => (joined[o] \in watched <=> handlers[o]["change"] # {})
      BY DEF JsInv, CallbacksReached, WatchAgrees
<1>4. PICK s \in Sessions : s = joined[o]
      BY <1>1
<1>5. \A p \in Objects : notifier[s] = p <=> joined[p] = s /\ handlers[p]["status"] # {}
      BY DEF JsInv, CallbacksReached
<1>6. notifier[s] = IF handlers[o]["status"] = {} THEN NoObject ELSE o
      BY <1>1, <1>2, <1>4, <1>5
<1>7. QED BY <1>1, <1>2, <1>3, <1>4, <1>6

\* Calling JSWatcher::On, or Off with a list that becomes empty, or neither
\* where the list is empty or not as it was, has the callbacks reached.
LEMMA WrapperStep ==
  ASSUME JsInv, NEW o \in Objects, NEW k \in Types, Joined(o), UNCHANGED <<joined, created>>,
         \A p \in Objects, j \in Types : p # o \/ j # k => handlers'[p][j] = handlers[p][j],
         \/ Attached(o, joined[o], k) /\ handlers'[o][k] # {}
         \/ Detached(o, joined[o], k) /\ handlers'[o][k] = {}
         \/ /\ UNCHANGED <<watching, notifier, failed>>
            /\ handlers[o][k] = {} <=> handlers'[o][k] = {}
  PROVE  /\ CallbacksReached' /\ WatchedApart(o, joined[o])
         /\ notifier' \in [Sessions -> Objects \cup {NoObject}]
<1>1. PICK s \in Sessions : s = joined[o]
      BY OwnSession
<1>2. /\ s \in watched => isWatched[o]
      /\ isWatched[o] => s \in observers
      /\ ~failed => (s \in watched <=> handlers[o]["change"] # {})
      /\ notifier[s] = IF handlers[o]["status"] = {} THEN NoObject ELSE o
      /\ notifier \in [Sessions -> Objects \cup {NoObject}]
      BY <1>1, OwnSession DEF JsInv, TypeOK
<1>3. /\ StartWatch(o, s) => WatchedApart(o, s) /\ (~failed' => s \in watched')
      /\ StopWatch(o, s) => WatchedApart(o, s) /\ (~failed' => s \notin watched')
      /\ UNCHANGED <<watching, failed>> => WatchedApart(o, s)
      BY <1>2, WatchStarts
<1>4. CASE k = "change"
  <2>1. handlers'[o]["status"] = handlers[o]["status"]
        BY <1>4 DEF Types
  <2>2. /\ WatchedApart(o, s) /\ UNCHANGED notifier
        /\ ~failed' => (s \in watched' <=> handlers'[o]["change"] # {})
        BY <1>1, <1>2, <1>3, <1>4 DEF Attached, Detached, watching
  <2>3. CallbacksReached'
        BY <1>1, <1>2, <2>1, <2>2, OwnSession, ReachedStep
  <2>4. QED BY <1>1, <1>2, <2>2, <2>3
<1>5. CASE k = "status"
  <2>1. handlers'[o]["change"] = handlers[o]["change"]
        BY <1>5 DEF Types
  <2>2. UNCHANGED <<watching, failed>>
        BY <1>5 DEF Attached, Detached
  <2>3. /\ WatchedApart(o, s)
        /\ ~failed' => (s \in watched' <=> handlers'[o]["change"] # {})
        BY <1>2, <1>3, <2>1, <2>2 DEF watching
  <2>4. /\ notifier' \in [Sessions -> Objects \cup {NoObject}]
        /\ \A t \in Sessions : t # s => notifier'[t] = notifier[t]
        /\ notifier'[s] = IF handlers'[o]["status"] = {} THEN NoObject ELSE o
        BY <1>1, <1>2, <1>5 DEF Attached, Detached
  <2>5. CallbacksReached'
        BY <1>1, <2>3, <2>4, OwnSession, ReachedStep
  <2>6. QED BY <1>1, <2>3, <2>4, <2>5
<1>6. QED BY <1>4, <1>5 DEF Types

\* A call that leaves the sessions of the objects as they are keeps the
\* invariant, once its lists and its watching are right.
LEMMA CallStep ==
  ASSUME JsInv, NEW o \in Objects, UNCHANGED <<joined, created>>,
         {handlers', recorded', wanted', kept'} \subseteq CallbackLists,
         RecordFollows', CallbacksFollow', CallbacksReached',
         notifier' \in [Sessions -> Objects \cup {NoObject}],
         \/ Joined(o) /\ WatchedApart(o, joined[o])
         \/ UNCHANGED <<watching, failed>>
  PROVE  JsInv'
<1>1. TypeOK /\ ObserversReport /\ (Joined(o) => joined[o] \in created)
      BY OwnSession DEF JsInv
<1>2. CASE UNCHANGED <<watching, failed>>
  <2>1. TypeOK' /\ ObserversReport'
        BY <1>1, <1>2 DEF TypeOK, ObserversReport, CallbackLists, watching
  <2>2. SessionsAreJoined'
        BY <1>2, SessionsStay
  <2>3. QED BY <2>1, <2>2 DEF JsInv
<1>3. CASE Joined(o) /\ WatchedApart(o, joined[o])
  <2>1. watched' \subseteq created' \cap observers'
    <3>1. \A t \in watched' : t \in created
          BY <1>1, <1>3 DEF WatchedApart, TypeOK
    <3>2. QED BY <1>3, <3>1 DEF WatchedApart
  <2>2. TypeOK'
        BY <1>1, <1>3, <2>1 DEF TypeOK, CallbackLists, WatchedApart
  <2>3. SessionsAreJoined'
        BY <1>3, SessionsStay DEF WatchedApart
  <2>4. QED BY <1>3, <2>2, <2>3 DEF JsInv, WatchedApart
<1>4. QED BY <1>2, <1>3

\* Nothing that is not joined needs its callbacks reached.
LEMMA UnjoinedStep ==
  ASSUME JsInv, NEW o \in Objects, UNCHANGED <<joined, watching, notifier, handlers, failed>>
  PROVE  CallbacksReached'
BY DEF JsInv, CallbacksReached, WatchAgrees, Joined, watching

\* on() keeps the inductive invariant.
LEMMA OnStep ==
  ASSUME JsInv, NEW o \in Objects, NEW k \in Types, NEW c \in Callbacks, On(o, k, c)
  PROVE  JsInv'
<1>1. {handlers, recorded, wanted, kept} \subseteq CallbackLists
      BY DEF JsInv, TypeOK, CallbackLists
<1>2. \A f \in CallbackLists : /\ f[o][k] \cup {c} \in SUBSET Callbacks
                               /\ f[o][k] \ {c} \in SUBSET Callbacks
      BY DEF CallbackLists
<1>3. /\ recorded' = Replaced(recorded, o, k, recorded[o][k] \cup {c})
      /\ wanted' = Replaced(wanted, o, k, wanted[o][k] \cup {c})
      /\ kept' = Replaced(kept, o, k, kept[o][k] \ {c})
      /\ UNCHANGED <<joined, created>>
      BY DEF On, AddCallback, Replaced
<1>4. /\ {recorded', wanted', kept'} \subseteq CallbackLists
      /\ \A p \in Objects, j \in Types : p # o \/ j # k =>
           /\ wanted'[p][j] = wanted[p][j] /\ recorded'[p][j] = recorded[p][j]
           /\ kept'[p][j] = kept[p][j]
      /\ recorded'[o][k] = recorded[o][k] \cup {c}
      /\ wanted'[o][k] = wanted[o][k] \cup {c}
      /\ kept'[o][k] = kept[o][k] \ {c}
      BY <1>1, <1>2, <1>3, OneList
<1>5. /\ wanted[o][k] \subseteq recorded[o][k]
      /\ recorded[o][k] \subseteq wanted[o][k] \cup kept[o][k]
      BY DEF JsInv, RecordFollows
<1>6. wanted'[o][k] \subseteq recorded'[o][k] /\ recorded'[o][k] \subseteq wanted'[o][k] \cup kept'[o][k]
      BY <1>4, <1>5
<1>7. CASE ~Joined(o) /\ UNCHANGED <<handlers, watching, notifier, failed>>
  <2>1. UNCHANGED joined /\ UNCHANGED handlers
        BY <1>3, <1>7
  <2>5. \A p \in Objects, j \in Types : p # o \/ j # k =>
          /\ wanted'[p][j] = wanted[p][j] /\ recorded'[p][j] = recorded[p][j]
          /\ kept'[p][j] = kept[p][j] /\ handlers'[p][j] = handlers[p][j]
        BY <1>4, <2>1
  <2>6. RecordFollows' /\ CallbacksFollow'
        BY <1>6, <1>7, <2>1, <2>5, ListsStep
  <2>2. CallbacksReached'
        BY <1>3, <1>7, UnjoinedStep
  <2>3. notifier' \in [Sessions -> Objects \cup {NoObject}]
        BY <1>7 DEF JsInv, TypeOK
  <2>4. QED BY <1>1, <1>3, <1>4, <1>7, <2>6, <2>2, <2>3, CallStep
<1>8. CASE Joined(o) /\ handlers' = Replaced(handlers, o, k, handlers[o][k] \cup {c})
                     /\ Attached(o, joined[o], k)
  <2>1. /\ handlers' \in CallbackLists
        /\ \A p \in Objects, j \in Types : p # o \/ j # k => handlers'[p][j] = handlers[p][j]
        /\ handlers'[o][k] = handlers[o][k] \cup {c}
        BY <1>1, <1>2, <1>8, OneList
  <2>2. /\ wanted[o][k] \subseteq handlers[o][k]
        /\ handlers[o][k] \subseteq wanted[o][k] \cup kept[o][k]
        BY <1>8 DEF JsInv, CallbacksFollow
  <2>3. /\ wanted'[o][k] \subseteq handlers'[o][k]
        /\ handlers'[o][k] \subseteq wanted'[o][k] \cup kept'[o][k]
        BY <1>4, <2>1, <2>2
  <2>4. RecordFollows' /\ CallbacksFollow'
    <3>1. UNCHANGED joined
          BY <1>3
    <3>2. \A p \in Objects, j \in Types : p # o \/ j # k =>
            /\ wanted'[p][j] = wanted[p][j] /\ recorded'[p][j] = recorded[p][j]
            /\ kept'[p][j] = kept[p][j] /\ handlers'[p][j] = handlers[p][j]
          BY <1>4, <2>1
    <3>3. QED BY <1>6, <2>3, <3>1, <3>2, ListsStep
  <2>5. handlers'[o][k] # {}
        BY <2>1
  <2>6. /\ CallbacksReached' /\ WatchedApart(o, joined[o])
        /\ notifier' \in [Sessions -> Objects \cup {NoObject}]
        BY <1>3, <1>8, <2>1, <2>5, WrapperStep
  <2>7. QED BY <1>3, <1>4, <1>8, <2>1, <2>4, <2>6, CallStep
<1>9. QED BY <1>7, <1>8 DEF On, Replaced

\* What off() does to the wrapper, when the record and what is wanted follow.
LEMMA OffStep ==
  ASSUME JsInv, NEW o \in Objects, NEW k \in Types, NEW gone \in SUBSET Callbacks,
         OffWatch(o, k, gone), UNCHANGED <<joined, created>>,
         {recorded', wanted', kept'} \subseteq CallbackLists,
         \A p \in Objects, j \in Types : p # o \/ j # k =>
           /\ wanted'[p][j] = wanted[p][j] /\ recorded'[p][j] = recorded[p][j]
           /\ kept'[p][j] = kept[p][j],
         wanted'[o][k] = wanted[o][k] \ gone,
         kept[o][k] \ gone \subseteq kept'[o][k],
         wanted'[o][k] \subseteq recorded'[o][k],
         recorded'[o][k] \subseteq wanted'[o][k] \cup kept'[o][k]
  PROVE  JsInv'
<1>1. {handlers, recorded, wanted, kept} \subseteq CallbackLists
      BY DEF JsInv, TypeOK, CallbackLists
<1>2. CASE ~Joined(o) /\ UNCHANGED <<handlers, watching, notifier, failed>>
  <2>1. RecordFollows' /\ CallbacksFollow'
        BY <1>2, ListsStep
  <2>2. CallbacksReached'
        BY <1>2, UnjoinedStep
  <2>3. notifier' \in [Sessions -> Objects \cup {NoObject}]
        BY <1>2 DEF JsInv, TypeOK
  <2>4. QED BY <1>1, <1>2, <2>1, <2>2, <2>3, CallStep
<1>3. CASE /\ Joined(o) /\ handlers' = Replaced(handlers, o, k, handlers[o][k] \ gone)
           /\ IF handlers[o][k] \subseteq gone
                THEN Detached(o, joined[o], k)
                ELSE UNCHANGED <<watching, notifier, failed>>
  <2>1. handlers \in CallbackLists /\ handlers[o][k] \ gone \in SUBSET Callbacks
        BY <1>1 DEF CallbackLists
  <2>2. /\ handlers' \in CallbackLists
        /\ \A p \in Objects, j \in Types : p # o \/ j # k => handlers'[p][j] = handlers[p][j]
        /\ handlers'[o][k] = handlers[o][k] \ gone
        BY <1>3, <2>1, OneList
  <2>3. /\ wanted[o][k] \subseteq handlers[o][k]
        /\ handlers[o][k] \subseteq wanted[o][k] \cup kept[o][k]
        BY <1>3 DEF JsInv, CallbacksFollow
  <2>4. /\ wanted'[o][k] \subseteq handlers'[o][k]
        /\ handlers'[o][k] \subseteq wanted'[o][k] \cup kept'[o][k]
        BY <2>2, <2>3
  <2>5. RecordFollows' /\ CallbacksFollow'
        BY <2>2, <2>4, ListsStep
  <2>6. \/ Detached(o, joined[o], k) /\ handlers'[o][k] = {}
        \/ /\ UNCHANGED <<watching, notifier, failed>>
           /\ handlers[o][k] = {} <=> handlers'[o][k] = {}
        BY <1>3, <2>2
  <2>7. /\ CallbacksReached' /\ WatchedApart(o, joined[o])
        /\ notifier' \in [Sessions -> Objects \cup {NoObject}]
        BY <1>3, <2>2, <2>6, WrapperStep
  <2>8. QED BY <1>3, <2>2, <2>5, <2>7, CallStep
<1>4. QED BY <1>2, <1>3 DEF OffWatch, Replaced

\* joinSession() keeps the inductive invariant.
LEMMA JoinStep ==
  ASSUME JsInv, NEW o \in Objects, NEW s \in Sessions, Join(o, s)
  PROVE  JsInv'
<1>1. /\ joined[o] = NoSession /\ s \notin created /\ s # NoSession
      /\ joined' = [joined EXCEPT ![o] = s] /\ created' = created \cup {s}
      /\ UNCHANGED <<recorded, wanted, kept>>
      /\ handlers' = [handlers EXCEPT ![o] = recorded[o]]
      BY JsAssumption DEF Join, Joined, history, RestoreWatchers
<1>2. TypeOK /\ RecordFollows /\ CallbacksFollow /\ SessionsAreJoined /\ ObserversReport
      BY DEF JsInv
<1>3. \A p \in Objects : joined[p] # s
      BY <1>1, <1>2 DEF SessionsAreJoined
<1>4. /\ joined \in [Objects -> Sessions \cup {NoSession}] /\ joined' \in [Objects -> Sessions \cup {NoSession}]
      /\ joined'[o] = s /\ \A p \in Objects : p # o => joined'[p] = joined[p]
      BY <1>1, <1>2 DEF TypeOK
<1>5. /\ {handlers', recorded', wanted', kept'} \subseteq CallbackLists
      /\ handlers'[o] = recorded[o] /\ \A p \in Objects : p # o => handlers'[p] = handlers[p]
      BY <1>1, <1>2 DEF TypeOK, CallbackLists
<1>6. s \notin watched /\ ~isWatched[o] /\ NoSession \notin observers
      BY <1>1, <1>2, JsAssumption DEF TypeOK, JsInv, CallbacksReached, WatchAgrees
<1>7. WatchedApart(o, s) /\ (~failed' => (s \in watched' <=> recorded[o]["change"] # {}))
  <2>1. /\ StartWatch(o, s) => WatchedApart(o, s) /\ (~failed' => s \in watched')
        /\ UNCHANGED <<watching, failed>> => WatchedApart(o, s)
        BY <1>6, WatchStarts
  <2>2. IF recorded[o]["change"] = {} THEN UNCHANGED <<watching, failed>> ELSE StartWatch(o, s)
        BY DEF Join, RestoreWatchers
  <2>3. QED BY <1>6, <2>1, <2>2 DEF watching
<1>8. /\ notifier' \in [Sessions -> Objects \cup {NoObject}]
      /\ \A t \in Sessions : t # s => notifier'[t] = notifier[t]
      /\ notifier'[s] = IF recorded[o]["status"] = {} THEN NoObject ELSE o
  <2>1. /\ notifier \in [Sessions -> Objects \cup {NoObject}] /\ NoObject \notin Objects
        /\ \A p \in Objects : notifier[s] = p <=> joined[p] = s /\ handlers[p]["status"] # {}
        BY <1>2, JsAssumption DEF TypeOK, JsInv, CallbacksReached
  <2>2. notifier[s] = NoObject
        BY <1>3, <2>1
  <2>3. IF recorded[o]["status"] = {} THEN UNCHANGED notifier
                                      ELSE notifier' = [notifier EXCEPT ![s] = o]
        BY DEF Join, RestoreWatchers
  <2>4. QED BY <2>1, <2>2, <2>3
<1>9. CallbacksReached'
  <2>1. \A p \in Objects, j \in Types : p # o => handlers'[p][j] = handlers[p][j]
        BY <1>5
  <2>2. joined[o] \in {s, NoSession} /\ \A p \in Objects : p # o => joined'[p] = joined[p] /\ joined[p] # s
        BY <1>1, <1>3, <1>4
  <2>3. QED BY <1>4, <1>5, <1>7, <1>8, <2>1, <2>2, ReachedStep
<1>10. RecordFollows'
  <2>1. UNCHANGED <<wanted, recorded, kept>>
        BY <1>1
  <2>2. QED BY <1>2, <2>1 DEF RecordFollows
<1>11. CallbacksFollow'
  <2>1. ASSUME NEW p \in Objects, NEW j \in Types, joined'[p] # NoSession
        PROVE  /\ wanted[p][j] \subseteq handlers'[p][j]
               /\ handlers'[p][j] \subseteq wanted[p][j] \cup kept[p][j]
    <3>1. CASE p = o
          BY <1>2, <1>5, <3>1 DEF RecordFollows
    <3>2. CASE p # o
          BY <1>2, <1>4, <1>5, <2>1, <3>2 DEF CallbacksFollow, Joined
    <3>3. QED BY <3>1, <3>2
  <2>2. QED BY <1>1, <2>1 DEF CallbacksFollow, Joined
<1>12. SessionsAreJoined'
  <2>1. \A p \in Objects : joined'[p] \in created' \cup {NoSession}
        BY <1>1, <1>2, <1>4 DEF SessionsAreJoined
  <2>2. ASSUME ~failed', NEW t \in created' PROVE \E p \in Objects : joined'[p] = t
    <3>1. CASE t = s
          BY <1>4, <3>1
    <3>2. CASE t # s
      <4>1. ~failed /\ t \in created
            BY <1>1, <1>7, <2>2, <3>2 DEF WatchedApart
      <4>2. PICK p \in Objects : joined[p] = t
            BY <1>2, <4>1 DEF SessionsAreJoined
      <4>3. p # o
            BY <1>1, <1>2, <4>1, <4>2, JsAssumption DEF TypeOK
      <4>4. QED BY <1>4, <4>2, <4>3
    <3>3. QED BY <3>1, <3>2
  <2>3. \A p, q \in Objects : joined'[p] # NoSession /\ joined'[p] = joined'[q] => p = q
        BY <1>2, <1>3, <1>4 DEF SessionsAreJoined, Joined
  <2>4. QED BY <2>1, <2>2, <2>3 DEF SessionsAreJoined, Joined
<1>13. TypeOK'
  <2>1. \A t \in watched' : t \in created'
        BY <1>1, <1>2, <1>7 DEF WatchedApart, TypeOK
  <2>2. QED BY <1>1, <1>2, <1>4, <1>5, <1>7, <1>8, <2>1 DEF TypeOK, WatchedApart, CallbackLists
<1>14. QED BY <1>7, <1>9, <1>10, <1>11, <1>12, <1>13 DEF JsInv, WatchedApart

\* leaveSession() keeps the inductive invariant.
LEMMA LeaveStep ==
  ASSUME JsInv, NEW o \in Objects, Leave(o)
  PROVE  JsInv'
<1>1. PICK s \in Sessions : s = joined[o]
      BY OwnSession DEF Leave
<1>2. /\ joined' = [joined EXCEPT ![o] = NoSession] /\ handlers' = [handlers EXCEPT ![o] = None]
      /\ isWatched' = [isWatched EXCEPT ![o] = FALSE] /\ notifier' = [notifier EXCEPT ![s] = NoObject]
      /\ UNCHANGED <<recorded, wanted, kept>>
      BY <1>1 DEF Leave, history
<1>3. PICK unwatch \in BOOLEAN, delete \in BOOLEAN :
        /\ unwatch => isWatched[o] /\ s \in watched
        /\ observers' = IF unwatch THEN observers \ {s} ELSE observers
        /\ watched' = IF unwatch \/ delete THEN watched \ {s} ELSE watched
        /\ created' = IF delete THEN created \ {s} ELSE created
        /\ failed' = (failed \/ (isWatched[o] /\ ~unwatch) \/ ~delete)
      BY <1>1 DEF Leave, Dispose
<1>4. /\ TypeOK /\ RecordFollows /\ CallbacksFollow /\ SessionsAreJoined /\ ObserversReport
      /\ s # NoSession /\ NoObject \notin Objects /\ NoSession \notin Sessions
      BY JsAssumption DEF JsInv
<1>5. /\ joined \in [Objects -> Sessions \cup {NoSession}] /\ joined' \in [Objects -> Sessions \cup {NoSession}]
      /\ joined'[o] = NoSession /\ \A p \in Objects : p # o => joined'[p] = joined[p] /\ joined[p] # s
      BY <1>1, <1>2, <1>4, OwnSession DEF TypeOK, Leave
<1>6. None \in [Types -> SUBSET Callbacks] /\ \A j \in Types : None[j] = {}
      BY DEF None
<1>7. /\ {handlers', recorded', wanted', kept'} \subseteq CallbackLists
      /\ handlers'[o] = None /\ \A p \in Objects : p # o => handlers'[p] = handlers[p]
      BY <1>2, <1>4, <1>6 DEF TypeOK, CallbackLists
<1>8. /\ isWatched \in [Objects -> BOOLEAN] /\ isWatched' \in [Objects -> BOOLEAN] /\ ~isWatched'[o]
      /\ \A p \in Objects : p # o => isWatched'[p] = isWatched[p]
      /\ failed \in BOOLEAN /\ failed' \in BOOLEAN
      /\ watched' \subseteq created' /\ watched' \subseteq observers' /\ observers' \subseteq Sessions
      /\ created' \subseteq Sessions
      BY <1>2, <1>3, <1>4 DEF TypeOK
<1>9. /\ s \in watched => isWatched[o]
      /\ isWatched[o] => s \in observers
      BY <1>1, OwnSession DEF Leave
<1>10. ObserversReport'
  <2>1. ASSUME ~failed' PROVE observers' = watched'
        BY <1>3, <1>4, <1>8, <1>9, <2>1 DEF ObserversReport
  <2>2. QED BY <2>1 DEF ObserversReport
<1>11. TypeOK'
  <2>1. notifier' \in [Sessions -> Objects \cup {NoObject}]
        BY <1>2, <1>4 DEF TypeOK
  <2>2. QED BY <1>5, <1>7, <1>8, <2>1 DEF TypeOK, CallbackLists
<1>12. RecordFollows'
  <2>1. UNCHANGED <<wanted, recorded, kept>>
        BY <1>2
  <2>2. QED BY <1>4, <2>1 DEF RecordFollows
<1>13. CallbacksFollow'
  <2>1. ASSUME NEW p \in Objects, NEW j \in Types, joined'[p] # NoSession
        PROVE  /\ wanted[p][j] \subseteq handlers'[p][j]
               /\ handlers'[p][j] \subseteq wanted[p][j] \cup kept[p][j]
        BY <1>4, <1>5, <1>7, <2>1 DEF CallbacksFollow, Joined
  <2>2. QED BY <1>2, <2>1 DEF CallbacksFollow, Joined
<1>14. SessionsAreJoined'
  <2>1. ASSUME NEW p \in Objects PROVE joined'[p] \in created' \cup {NoSession}
    <3>1. joined[p] \in created \cup {NoSession}
          BY <1>4 DEF SessionsAreJoined
    <3>2. QED BY <1>3, <1>5, <3>1
  <2>2. ASSUME ~failed', NEW t \in created' PROVE \E p \in Objects : joined'[p] = t
    <3>1. ~failed /\ t \in created /\ t # s
          BY <1>3, <1>8, <2>2
    <3>2. PICK p \in Objects : joined[p] = t
          BY <1>4, <3>1 DEF SessionsAreJoined
    <3>3. QED BY <1>1, <1>5, <3>1, <3>2
  <2>3. \A p, q \in Objects : joined'[p] # NoSession /\ joined'[p] = joined'[q] => p = q
        BY <1>4, <1>5 DEF SessionsAreJoined, Joined
  <2>4. QED BY <2>1, <2>2, <2>3 DEF SessionsAreJoined, Joined
<1>15. WatchAgrees'
  <2>1. ASSUME NEW p \in Objects
        PROVE  /\ joined'[p] \in watched' => isWatched'[p]
               /\ isWatched'[p] => joined'[p] \in observers'
    <3>1. CASE p = o
          BY <1>4, <1>5, <1>8, <3>1
    <3>2. CASE p # o
      <4>1. /\ joined[p] \in watched => isWatched[p]
            /\ isWatched[p] => joined[p] \in observers
            BY DEF JsInv, CallbacksReached, WatchAgrees
      <4>2. QED BY <1>3, <1>5, <1>8, <3>2, <4>1
    <3>3. QED BY <3>1, <3>2
  <2>2. QED BY <2>1 DEF WatchAgrees
<1>16. ASSUME ~failed', NEW p \in Objects, joined'[p] # NoSession
       PROVE  joined'[p] \in watched' <=> handlers'[p]["change"] # {}
  <2>1. ~failed /\ p # o
        BY <1>3, <1>5, <1>8, <1>16
  <2>2. joined[p] \in watched <=> handlers[p]["change"] # {}
        BY <1>5, <1>16, <2>1 DEF JsInv, CallbacksReached, Joined
  <2>3. QED BY <1>3, <1>5, <1>7, <2>1, <2>2
<1>17. ASSUME NEW t \in Sessions, NEW p \in Objects
       PROVE  notifier'[t] = p <=> joined'[p] = t /\ handlers'[p]["status"] # {}
  <2>1. \A q \in Objects : notifier[t] = q <=> joined[q] = t /\ handlers[q]["status"] # {}
        BY DEF JsInv, CallbacksReached
  <2>2. notifier'[t] = IF t = s THEN NoObject ELSE notifier[t]
        BY <1>2, <1>4 DEF TypeOK
  <2>3. CASE p = o
        BY <1>1, <1>4, <1>5, <2>1, <2>2, <2>3
  <2>4. CASE p # o
        BY <1>4, <1>5, <1>7, <2>1, <2>2, <2>4
  <2>5. QED BY <2>3, <2>4
<1>18. CallbacksReached'
      BY <1>15, <1>16, <1>17 DEF CallbacksReached, Joined
<1>19. QED BY <1>10, <1>11, <1>12, <1>13, <1>14, <1>18 DEF JsInv

\* Every step keeps the inductive invariant.
LEMMA JsStep == JsInv /\ [Next]_vars => JsInv'
<1> SUFFICES ASSUME JsInv, [Next]_vars PROVE JsInv'
    OBVIOUS
<1>1. ASSUME NEW o \in Objects, Leave(o) PROVE JsInv'
      BY <1>1, LeaveStep
<1>2. ASSUME NEW o \in Objects, NEW s \in Sessions, Join(o, s) PROVE JsInv'
      BY <1>2, JoinStep
<1>3. ASSUME NEW o \in Objects, NEW k \in Types, NEW c \in Callbacks, On(o, k, c) PROVE JsInv'
      BY <1>3, OnStep
<1>4. ASSUME NEW o \in Objects, NEW k \in Types, NEW c \in Callbacks, Off(o, k, c) PROVE JsInv'
  <2>1. {recorded, wanted, kept} \subseteq CallbackLists
        BY DEF JsInv, TypeOK, CallbackLists
  <2>2. \A f \in CallbackLists : f[o][k] \ {c} \in SUBSET Callbacks
        BY DEF CallbackLists
  <2>3. /\ recorded' = Replaced(recorded, o, k, recorded[o][k] \ {c})
        /\ wanted' = Replaced(wanted, o, k, wanted[o][k] \ {c})
        /\ kept' = Replaced(kept, o, k, kept[o][k] \ {c})
        BY <1>4 DEF Off, DelCallback, Replaced
  <2>4. /\ {recorded', wanted', kept'} \subseteq CallbackLists
        /\ \A p \in Objects, j \in Types : p # o \/ j # k =>
             /\ wanted'[p][j] = wanted[p][j] /\ recorded'[p][j] = recorded[p][j]
             /\ kept'[p][j] = kept[p][j]
        /\ recorded'[o][k] = recorded[o][k] \ {c}
        /\ wanted'[o][k] = wanted[o][k] \ {c}
        /\ kept'[o][k] = kept[o][k] \ {c}
        BY <2>1, <2>2, <2>3, OneList
  <2>5. /\ wanted[o][k] \subseteq recorded[o][k]
        /\ recorded[o][k] \subseteq wanted[o][k] \cup kept[o][k]
        BY DEF JsInv, RecordFollows
  <2>6. /\ wanted'[o][k] \subseteq recorded'[o][k]
        /\ recorded'[o][k] \subseteq wanted'[o][k] \cup kept'[o][k]
        /\ kept[o][k] \ {c} \subseteq kept'[o][k]
        BY <2>4, <2>5
  <2>7. OffWatch(o, k, {c}) /\ UNCHANGED <<joined, created>> /\ {c} \in SUBSET Callbacks
        BY <1>4 DEF Off
  <2>8. QED BY <2>4, <2>6, <2>7, OffStep
<1>5. ASSUME NEW o \in Objects, NEW k \in Types, OffAll(o, k) PROVE JsInv'
  <2>1. {recorded, wanted, kept} \subseteq CallbackLists
        BY DEF JsInv, TypeOK, CallbackLists
  <2>2. recorded[o][k] \in SUBSET Callbacks /\ wanted[o][k] \in SUBSET Callbacks
        /\ kept[o][k] \in SUBSET Callbacks
        BY <2>1 DEF CallbackLists
  <2>3. /\ UNCHANGED recorded
        /\ wanted' = Replaced(wanted, o, k, {})
        /\ kept' = Replaced(kept, o, k, recorded[o][k])
        BY <1>5 DEF OffAll, Replaced
  <2>4. /\ {recorded', wanted', kept'} \subseteq CallbackLists
        /\ \A p \in Objects, j \in Types : p # o \/ j # k =>
             /\ wanted'[p][j] = wanted[p][j] /\ recorded'[p][j] = recorded[p][j]
             /\ kept'[p][j] = kept[p][j]
        /\ recorded'[o][k] = recorded[o][k]
        /\ wanted'[o][k] = {}
        /\ kept'[o][k] = recorded[o][k]
        BY <2>1, <2>2, <2>3, OneList
  <2>5. /\ wanted'[o][k] = wanted[o][k] \ Callbacks
        /\ kept[o][k] \ Callbacks \subseteq kept'[o][k]
        /\ wanted'[o][k] \subseteq recorded'[o][k]
        /\ recorded'[o][k] \subseteq wanted'[o][k] \cup kept'[o][k]
        BY <2>2, <2>4
  <2>6. OffWatch(o, k, Callbacks) /\ UNCHANGED <<joined, created>> /\ Callbacks \in SUBSET Callbacks
        BY <1>5 DEF OffAll
  <2>7. QED BY <2>4, <2>5, <2>6, OffStep
<1>6. ASSUME UNCHANGED vars PROVE JsInv'
      BY <1>6 DEF vars, native, history, JsInv, TypeOK, RecordFollows, CallbacksFollow,
                  SessionsAreJoined, ObserversReport, CallbacksReached, WatchAgrees, Joined
<1>7. QED BY <1>1, <1>2, <1>3, <1>4, <1>5, <1>6 DEF Next

\* The inductive invariant holds throughout.
LEMMA JsInvariant == Spec => []JsInv
BY JsInit, JsStep, PTL DEF Spec

-----------------------------------------------------------------------------
\* The module's type invariant: whatever the callers do and whichever native
\* calls fail, the sessions that report are sessions that exist and have an
\* observer (watch, unWatch and DeleteObject of the flat store).
THEOREM TypeCorrect == Spec => []TypeOK
<1>1. JsInv => TypeOK
      BY DEF JsInv
<1>2. QED BY <1>1, JsInvariant, PTL

\* on(), off(), joinSession() and leaveSession() in any order, with any native
\* call failing: what is attached to the wrapper of a joined object is what
\* the caller has put on, in whichever session that was, and nothing that was
\* taken off by name.
THEOREM CallbacksDoFollow == Spec => []CallbacksFollow
<1>1. JsInv => CallbacksFollow
      BY DEF JsInv
<1>2. QED BY <1>1, JsInvariant, PTL

\* ChangeEventListener's isWatched_ and the notifier's raw JSWatcher pointers
\* stay right through any failing call, and while none has failed a session is
\* watched exactly when its object has a callback for changes.
THEOREM CallbacksAreReached == Spec => []CallbacksReached
<1>1. JsInv => CallbacksReached
      BY DEF JsInv
<1>2. QED BY <1>1, JsInvariant, PTL

\* No two objects of the process have one session, every joined session
\* exists, and while no call has failed no session is left behind to which
\* CreateObject would deny an object.
THEOREM SessionsStayJoined == Spec => []SessionsAreJoined
<1>1. JsInv => SessionsAreJoined
      BY DEF JsInv
<1>2. QED BY <1>1, JsInvariant, PTL

-----------------------------------------------------------------------------
\* What holds besides when every off() names its callback.
NamedInv ==
  \A o \in Objects, k \in Types :
    /\ kept[o][k] = {}
    /\ ~Joined(o) => handlers[o][k] = {}

\* Replacing a list with an empty one leaves all empty that were.
LEMMA StillEmpty ==
  ASSUME NEW f \in CallbackLists, NEW o \in Objects, NEW k \in Types, NEW S \in SUBSET Callbacks
  PROVE  \A p \in Objects, j \in Types :
           f[p][j] = {} => Replaced(f, o, k, f[o][k] \ S)[p][j] = {}
<1>1. f[o][k] \ S \in SUBSET Callbacks
      BY DEF CallbackLists
<1>2. QED BY <1>1, OneList

\* Every step keeps it.
LEMMA NamedStep ==
  ASSUME ~OffWithout, TypeOK, NamedInv, [Next]_vars
  PROVE  NamedInv'
<1>1. /\ handlers \in CallbackLists /\ kept \in CallbackLists
      /\ joined \in [Objects -> Sessions \cup {NoSession}]
      BY DEF TypeOK, CallbackLists
<1>2. ASSUME NEW o \in Objects, NEW k \in Types, NEW c \in Callbacks, On(o, k, c) \/ Off(o, k, c)
      PROVE  NamedInv'
  <2>1. kept' = Replaced(kept, o, k, kept[o][k] \ {c}) /\ UNCHANGED joined
        BY <1>2 DEF On, Off, Replaced
  <2>2. \A p \in Objects, j \in Types : kept'[p][j] = {}
    <3>1. {c} \in SUBSET Callbacks
          OBVIOUS
    <3>2. QED BY <1>1, <2>1, <3>1, StillEmpty DEF NamedInv
  <2>3. \A p \in Objects, j \in Types : ~Joined(p) => handlers'[p][j] = {}
    <3>1. CASE UNCHANGED handlers
          BY <3>1 DEF NamedInv
    <3>2. CASE Joined(o) /\ handlers' = Replaced(handlers, o, k, handlers[o][k] \cup {c})
      <4>1. handlers[o][k] \cup {c} \in SUBSET Callbacks
            BY <1>1 DEF CallbackLists
      <4>2. \A p \in Objects, j \in Types : p # o => handlers'[p][j] = handlers[p][j]
            BY <1>1, <3>2, <4>1, OneList
      <4>3. QED BY <3>2, <4>2 DEF NamedInv
    <3>3. CASE handlers' = Replaced(handlers, o, k, handlers[o][k] \ {c})
      <4>1. {c} \in SUBSET Callbacks
            OBVIOUS
      <4>2. QED BY <1>1, <3>3, <4>1, StillEmpty DEF NamedInv
    <3>4. QED BY <1>2, <3>1, <3>2, <3>3 DEF On, Off, OffWatch, Replaced
  <2>4. QED BY <2>1, <2>2, <2>3 DEF NamedInv, Joined
<1>3. ASSUME NEW o \in Objects, NEW s \in Sessions, Join(o, s) PROVE NamedInv'
  <2>1. /\ joined' = [joined EXCEPT ![o] = s] /\ handlers' = [handlers EXCEPT ![o] = recorded[o]]
        /\ UNCHANGED kept /\ s # NoSession
        BY <1>3, JsAssumption DEF Join, RestoreWatchers, history
  <2>2. ASSUME NEW p \in Objects, p # o PROVE handlers'[p] = handlers[p] /\ joined'[p] = joined[p]
    <3>1. DOMAIN handlers = Objects /\ DOMAIN joined = Objects
          BY <1>1 DEF CallbackLists
    <3>2. QED BY <2>1, <2>2, <3>1
  <2>3. joined'[o] # NoSession
        BY <1>1, <2>1
  <2>4. QED BY <2>1, <2>2, <2>3 DEF NamedInv, Joined
<1>4. ASSUME NEW o \in Objects, Leave(o) PROVE NamedInv'
  <2>1. /\ joined' = [joined EXCEPT ![o] = NoSession] /\ handlers' = [handlers EXCEPT ![o] = None]
        /\ UNCHANGED kept
        BY <1>4 DEF Leave, history
  <2>2. ASSUME NEW p \in Objects, p # o PROVE handlers'[p] = handlers[p] /\ joined'[p] = joined[p]
    <3>1. DOMAIN handlers = Objects /\ DOMAIN joined = Objects
          BY <1>1 DEF CallbackLists
    <3>2. QED BY <2>1, <2>2, <3>1
  <2>3. \A j \in Types : handlers'[o][j] = {}
        BY <1>1, <2>1 DEF CallbackLists, None
  <2>4. QED BY <2>1, <2>2, <2>3 DEF NamedInv, Joined
<1>5. CASE UNCHANGED vars
      BY <1>5 DEF vars, history, NamedInv, Joined
<1>6. QED BY <1>2, <1>3, <1>4, <1>5 DEF Next, OffAll

\* Where every off() names its callback, nothing is attached that the caller
\* does not want: deleteCallback fails only the calls that leave it out
\* (distributed_data_object.js, recordCallback and deleteCallback).
THEOREM NamedOffIsKept == ~OffWithout => (Spec => []OffIsKept)
<1> SUFFICES ASSUME ~OffWithout PROVE Spec => []OffIsKept
    OBVIOUS
<1>1. Init => NamedInv
      BY DEF Init, NamedInv, None
<1>2. TypeOK /\ NamedInv /\ [Next]_vars => NamedInv'
      BY NamedStep
<1>3. CallbacksFollow /\ NamedInv => OffIsKept
  <2>1. ASSUME CallbacksFollow, NamedInv, NEW o \in Objects, NEW k \in Types
        PROVE  handlers[o][k] \subseteq wanted[o][k]
        BY <2>1 DEF CallbacksFollow, NamedInv
  <2>2. QED BY <2>1 DEF OffIsKept
<1>4. QED BY <1>1, <1>2, <1>3, TypeCorrect, CallbacksDoFollow, PTL DEF Spec
=============================================================================
