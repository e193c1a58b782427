------------------------------ MODULE Delivery ------------------------------
(***************************************************************************)
(* From a change to the JS callback: NotifierImpl, JSWatcher, UvQueue.     *)
(*                                                                         *)
(* Threads of the database report changes and statuses.  Emit walks the    *)
(* list of handlers and hands the queue an entry with the napi reference   *)
(* of each; the queue files it in args_ under mutex_ and then asks the JS  *)
(* loop for one work.  A work takes all the entries there are, and holds   *)
(* mutex_ while it calls their callbacks.  A status is emitted with the    *)
(* notifier's mutex_ held throughout; the list itself has no lock.         *)
(* Meanwhile the JS thread puts callbacks on and takes them off, leaves    *)
(* the session, and collects wrappers.                                     *)
(*                                                                         *)
(* A wrapper is of a session of its own.  Module JsSession has objects     *)
(* moving between sessions, failing calls and recorded callbacks.          *)
(***************************************************************************)
EXTENDS Integers, SequencesExt

CONSTANTS
  Wrappers,    (* JSObjectWrappers, each with its JSWatcher                *)
  Callbacks,   (* JS functions                                             *)
  Producers,   (* threads of the database                                  *)
  Changers,    (* those that bring changes, from the observers             *)
  Reporters,   (* those that bring statuses, from the notifier.  In the    *)
               (* run no thread is both.  Bound.                           *)
  Inside,      (* what callbacks do while they run: put on and take off    *)
               (* callbacks of a kind, or "leave" the session, setSessionId *)
  MaxQueued,   (* nothing is emitted to a queue this long.  Bound.          *)
  NoWrapper, NoCallback, Nobody

Kinds == {"change", "status"}

ASSUME DeliveryAssumption ==
  /\ NoWrapper \notin Wrappers
  /\ NoCallback \notin Callbacks
  /\ Nobody \notin Producers
  /\ Changers \cup Reporters \subseteq Producers
  /\ Inside \subseteq Kinds \cup {"leave"}
  /\ MaxQueued \in Nat \ {0}

VARIABLES
  state,         (* of a wrapper                                           *)
  handlers,      (* handlers_ of its listener of either kind               *)
  observed,      (* the wrappers whose session is watched for changes      *)
  filed,         (* NotifierImpl::watchers_                                *)
  notifierLock,  (* the thread that holds NotifierImpl::mutex_             *)
  args,          (* args_ of the wrapper's queue                           *)
  works,         (* works the JS loop has yet to do for it                 *)
  producer,      (* the walk of a thread along a list of handlers          *)
  js,            (* what the JS thread is about to do                      *)
  batch,         (* the entries it is calling, if it is inside a work      *)
  careless       (* history: wrappers dropped without leaving the session, *)
                 (* or of whose status list a node was taken off one by    *)
                 (* one while an emission was at it; until filed again     *)

lists == <<state, handlers, observed, filed, careless>>
vars == <<lists, notifierLock, args, works, producer, js, batch>>

JsSteps == {"idle", "file", "refer", "unfile", "clear", "leave", "loop", "callback"}
Idle == [step |-> "idle", wrapper |-> NoWrapper, kind |-> "change", callback |-> NoCallback]
NoBatch == [wrapper |-> NoWrapper, kind |-> "change"]
NoEntries == [k \in Kinds |-> <<>>]
NoWalk == [step |-> "idle", wrapper |-> NoWrapper, kind |-> "change",
           node |-> NoCallback, gone |-> FALSE, live |-> FALSE]

TypeOK ==
  /\ state \in [Wrappers -> {"joined", "left", "freed"}]
  /\ handlers \in [Wrappers -> [Kinds -> Seq(Callbacks)]]
  /\ observed \subseteq Wrappers
  /\ filed \subseteq Wrappers
  /\ notifierLock \in Producers \cup {Nobody}
  /\ args \in [Wrappers -> [Kinds -> Seq([callback : Callbacks, live : BOOLEAN])]]
  /\ works \in [Wrappers -> Nat]
  /\ producer \in [Producers -> [step : {"idle", "insert", "post"},
       wrapper : Wrappers \cup {NoWrapper}, kind : Kinds,
       node : Callbacks \cup {NoCallback}, gone : BOOLEAN, live : BOOLEAN]]
  /\ js \in [step : JsSteps, wrapper : Wrappers \cup {NoWrapper}, kind : Kinds,
             callback : Callbacks \cup {NoCallback}]
  /\ batch \in [wrapper : Wrappers \cup {NoWrapper}, kind : Kinds]
  /\ careless \subseteq Wrappers

Init ==
  /\ state = [w \in Wrappers |-> "joined"]
  /\ handlers = [w \in Wrappers |-> NoEntries]
  /\ observed = {}
  /\ filed = {}
  /\ notifierLock = Nobody
  /\ args = [w \in Wrappers |-> NoEntries]
  /\ works = [w \in Wrappers |-> 0]
  /\ producer = [t \in Producers |-> NoWalk]
  /\ js = Idle
  /\ batch = NoBatch
  /\ careless = {}

-----------------------------------------------------------------------------
Attached(w, k) == ToSet(handlers[w][k])

Walking(t, w, k) ==
  producer[t].step # "idle" /\ producer[t].wrapper = w /\ producer[t].kind = k

\* The JS thread is free to make a call, or inside a callback that makes it.
May(what) == js.step = "idle" \/ (js.step = "callback" /\ what \in Inside)

GoTo(step, w, k, c) == js' = [step |-> step, wrapper |-> w, kind |-> k, callback |-> c]

\* The call ends: the thread is back in its callback or in the loop.
Return ==
  js' = [Idle EXCEPT !.step = IF batch = NoBatch THEN "idle" ELSE "callback"]

\* Nodes of the list are freed and their references deleted, also where an
\* entry of the queue keeps the reference or a thread's walk the node.
Free(w, k, gone) ==
  /\ LET entries == args[w][k] IN
       args' = [args EXCEPT ![w][k] = [i \in 1..Len(entries) |->
         [callback |-> entries[i].callback,
          live |-> entries[i].live /\ entries[i].callback \notin gone]]]
  /\ producer' = [t \in Producers |->
       IF Walking(t, w, k) /\ producer[t].node \in gone
         THEN [producer[t] EXCEPT !.gone = TRUE, !.live = FALSE]
         ELSE producer[t]]

\* The wrapper, if an emission of a status is at the callback's node.
Uprooted(w, k, c) ==
  {u \in {w} : k = "status" /\ \E t \in Producers : Walking(t, w, k) /\ producer[t].node = c}

-----------------------------------------------------------------------------
\* EventListener::Add: the node is in the list before its reference is made.
\* A callback that has been added is not added again.
Publish(w, k, c) ==
  \/ /\ c \in Attached(w, k)
     /\ Return
     /\ UNCHANGED handlers
  \/ /\ c \notin Attached(w, k)
     /\ handlers' = [handlers EXCEPT ![w][k] = <<c>> \o @]
     /\ GoTo("refer", w, k, c)

Refer ==
  /\ js.step = "refer"
  /\ Return
  /\ UNCHANGED <<lists, notifierLock, args, works, producer, batch>>

\* on(), also from inside a callback: the listener watches the session, or files
\* itself with the notifier, before it adds the callback.
On(w, k, c) ==
  /\ May(k)
  /\ state[w] = "joined"
  /\ \/ /\ k = "change"
        /\ observed' = observed \cup {w}
        /\ Publish(w, k, c)
     \/ /\ k = "status"
        /\ GoTo("file", w, k, c)
        /\ UNCHANGED <<handlers, observed>>
  /\ UNCHANGED <<state, filed, notifierLock, args, works, producer, batch, careless>>

AddWatcher ==
  /\ js.step = "file"
  /\ notifierLock = Nobody
  /\ filed' = filed \cup {js.wrapper}
  /\ careless' = careless \ {js.wrapper}
  /\ Publish(js.wrapper, js.kind, js.callback)
  /\ UNCHANGED <<state, observed, notifierLock, args, works, producer, batch>>

\* EventListener::Del: the callback's node, of which it has one at most, is
\* unlinked.
Unlink(w, k, c) ==
  \E i \in DOMAIN handlers[w][k] :
    /\ handlers[w][k][i] = c
    /\ handlers' = [handlers EXCEPT ![w][k] = RemoveAt(@, i)]

\* Mutants of Off: the last change callback also leaves the notifier; the
\* reference is not deleted.
UnfileAlways(w, k, c) ==
  /\ May(k)
  /\ state[w] = "joined"
  /\ Unlink(w, k, c)
  /\ Free(w, k, {c})
  /\ observed' = IF k = "change" THEN observed \ {w} ELSE observed
  /\ careless' = careless \cup Uprooted(w, k, c)
  /\ GoTo("unfile", w, k, c)
  /\ UNCHANGED <<state, filed, notifierLock, works, batch>>

KeepReference(w, k, c) ==
  /\ May(k)
  /\ state[w] = "joined"
  /\ Unlink(w, k, c)
  /\ observed' = IF k = "change" /\ Attached(w, k) = {c} THEN observed \ {w} ELSE observed
  /\ Return
  /\ UNCHANGED <<state, filed, notifierLock, args, works, producer, batch, careless>>

\* off() of one callback that is attached: the list first, whatever emission is
\* at its node; when it is empty the session is no longer watched, or the
\* notifier is told.
Off(w, k, c) ==
  /\ May(k)
  /\ state[w] = "joined"
  /\ Unlink(w, k, c)
  /\ Free(w, k, {c})
  /\ careless' = careless \cup Uprooted(w, k, c)
  /\ \/ /\ Attached(w, k) # {c}
        /\ Return
        /\ UNCHANGED observed
     \/ /\ Attached(w, k) = {c} /\ k = "change"
        /\ observed' = observed \ {w}
        /\ Return
     \/ /\ Attached(w, k) = {c} /\ k = "status"
        /\ GoTo("unfile", w, k, c)
        /\ UNCHANGED observed
  /\ UNCHANGED <<state, filed, notifierLock, works, batch>>

DelWatcher ==
  /\ js.step = "unfile"
  /\ notifierLock = Nobody
  /\ filed' = filed \ {js.wrapper}
  /\ careless' = careless \ {js.wrapper}
  /\ Return
  /\ UNCHANGED <<state, handlers, observed, notifierLock, args, works, producer, batch>>

\* ChangeEventListener::Clear: the list, then UnWatch.
ClearChange(w) ==
  /\ handlers' = [handlers EXCEPT ![w]["change"] = <<>>]
  /\ Free(w, "change", Attached(w, "change"))
  /\ observed' = observed \ {w}

\* Mutant of Clear: the list goes first for either kind.
ListFirst(w, k) ==
  /\ May(k)
  /\ state[w] = "joined"
  /\ handlers' = [handlers EXCEPT ![w][k] = <<>>]
  /\ Free(w, k, Attached(w, k))
  /\ observed' = IF k = "change" THEN observed \ {w} ELSE observed
  /\ IF k = "change" THEN Return ELSE GoTo("unfile", w, k, NoCallback)
  /\ UNCHANGED <<state, filed, notifierLock, works, batch, careless>>

\* off() of all.  The status listener leaves the notifier first.
Clear(w, k) ==
  /\ May(k)
  /\ state[w] = "joined"
  /\ \/ /\ k = "change"
        /\ ClearChange(w)
        /\ Return
     \/ /\ k = "status"
        /\ GoTo("clear", w, k, NoCallback)
        /\ UNCHANGED <<handlers, observed, args, producer>>
  /\ UNCHANGED <<state, filed, notifierLock, works, batch, careless>>

\* destroyObjectSync: the change callbacks, the status callbacks, the session.
Leave(w) ==
  /\ May("leave")
  /\ state[w] = "joined"
  /\ ClearChange(w)
  /\ GoTo("leave", w, "status", NoCallback)
  /\ UNCHANGED <<state, filed, notifierLock, works, batch, careless>>

\* StatusEventListener::Clear: DelWatcher waits for an emission to end, and
\* only then the list is freed.
ClearStatus ==
  /\ js.step \in {"clear", "leave"}
  /\ notifierLock = Nobody
  /\ filed' = filed \ {js.wrapper}
  /\ careless' = careless \ {js.wrapper}
  /\ handlers' = [handlers EXCEPT ![js.wrapper]["status"] = <<>>]
  /\ Free(js.wrapper, "status", Attached(js.wrapper, "status"))
  /\ state' = IF js.step = "leave" THEN [state EXCEPT ![js.wrapper] = "left"] ELSE state
  /\ Return
  /\ UNCHANGED <<observed, notifierLock, works, batch>>

\* The collector's finalizer.  A wrapper whose session was not left has it
\* deleted, which closes the store, and stays filed with the notifier.
Collect(w) ==
  /\ js.step = "idle"
  /\ \/ state[w] = "left" /\ UNCHANGED careless
     \/ state[w] = "joined" /\ careless' = careless \cup {w}
  /\ state' = [state EXCEPT ![w] = "freed"]
  /\ handlers' = [handlers EXCEPT ![w] = NoEntries]
  /\ observed' = observed \ {w}
  /\ args' = [args EXCEPT ![w] = NoEntries]
  /\ producer' = [t \in Producers |->
       IF producer[t].step # "idle" /\ producer[t].wrapper = w
         THEN [producer[t] EXCEPT !.gone = TRUE, !.live = FALSE] ELSE producer[t]]
  /\ UNCHANGED <<filed, notifierLock, works, js, batch>>

\* createObjectSync, also from inside a callback that left: a new wrapper for the
\* session.  (Its name is that of one that was freed and that no work or walk
\* refers to any more; what the notifier may still have filed is the old one.)
Create(w) ==
  /\ May("leave")
  /\ state[w] = "freed"
  /\ works[w] = 0
  /\ \A t \in Producers : producer[t].wrapper # w
  /\ state' = [state EXCEPT ![w] = "joined"]
  /\ UNCHANGED <<handlers, observed, filed, notifierLock, args, works, producer, js, batch,
                 careless>>

-----------------------------------------------------------------------------
Room(w) ==
  /\ works[w] < MaxQueued
  /\ \A k \in Kinds : Len(args[w][k]) < MaxQueued

\* The thread reads a node: its reference, if it is made yet.
AtNode(w, k, c) ==
  [step |-> "insert", wrapper |-> w, kind |-> k, node |-> c, gone |-> FALSE,
   live |-> js # [step |-> "refer", wrapper |-> w, kind |-> k, callback |-> c]]

\* WatcherImpl::OnChanged, Emit: a change that concerns some field.
DataChanged(t, w) ==
  /\ t \in Changers
  /\ producer[t].step = "idle"
  /\ w \in observed
  /\ handlers[w]["change"] # <<>>
  /\ Room(w)
  /\ producer' = [producer EXCEPT ![t] = AtNode(w, "change", Head(handlers[w]["change"]))]
  /\ UNCHANGED <<lists, notifierLock, args, works, js, batch>>

\* NotifierImpl::OnChanged.  The watcher of a session that was dropped is
\* called through a dangling pointer: nothing is emitted.
StatusChanged(t, w) ==
  /\ t \in Reporters
  /\ producer[t].step = "idle"
  /\ notifierLock = Nobody
  /\ w \in filed
  /\ handlers[w]["status"] # <<>>
  /\ Room(w)
  /\ notifierLock' = t
  /\ producer' = [producer EXCEPT ![t] = AtNode(w, "status", Head(handlers[w]["status"]))]
  /\ UNCHANGED <<lists, args, works, js, batch>>

\* CallFunction files the entry once it has the queue's mutex_.
Insert(t) ==
  /\ producer[t].step = "insert"
  /\ LET p == producer[t] IN
       /\ batch.wrapper # p.wrapper
       /\ args' = IF state[p.wrapper] = "freed" THEN args
            ELSE [args EXCEPT ![p.wrapper][p.kind] =
                    Append(@, [callback |-> p.node, live |-> p.live])]
  /\ producer' = [producer EXCEPT ![t].step = "post"]
  /\ UNCHANGED <<lists, notifierLock, works, js, batch>>

\* The walk goes on to the node after this one, if the list has it.  From a
\* node that was freed it may go anywhere; here it ends.
Advance(t) ==
  LET p == producer[t]
      list == handlers[p.wrapper][p.kind]
      later == {i \in DOMAIN list : i > 1 /\ list[i - 1] = p.node}
  IN  IF p.gone \/ later = {}
        THEN /\ producer' = [producer EXCEPT ![t] = NoWalk]
             /\ notifierLock' = IF p.kind = "status" THEN Nobody ELSE notifierLock
        ELSE /\ producer' = [producer EXCEPT ![t] =
                  AtNode(p.wrapper, p.kind, list[CHOOSE i \in later : TRUE])]
             /\ UNCHANGED notifierLock

\* uv_queue_work: one work for each entry.
Post(t) ==
  /\ producer[t].step = "post"
  /\ works' = [works EXCEPT ![producer[t].wrapper] = @ + 1]
  /\ Advance(t)
  /\ UNCHANGED <<lists, args, js, batch>>

-----------------------------------------------------------------------------
\* Mutant of TakeWork: a work is taken back for every entry.
TakeAll(w) ==
  /\ js.step = "idle"
  /\ works[w] > 0
  /\ args[w] # NoEntries
  /\ works' = [works EXCEPT ![w] = @ - Len(args[w]["change"]) - Len(args[w]["status"])]
  /\ \E k \in Kinds :
       /\ args[w][k] # <<>>
       /\ batch' = [wrapper |-> w, kind |-> k]
       /\ js' = [Idle EXCEPT !.step = "loop"]
  /\ UNCHANGED <<lists, notifierLock, args, producer>>

\* The loop does a work: it locks the queue, and has all its entries to call;
\* later works find none.  (A work whose queue was collected reads freed
\* memory; here it does nothing.)
TakeWork(w) ==
  /\ js.step = "idle"
  /\ works[w] > 0
  /\ works' = [works EXCEPT ![w] = @ - 1]
  /\ \/ args[w] = NoEntries /\ UNCHANGED <<js, batch>>
     \/ \E k \in Kinds :
          /\ args[w][k] # <<>>
          /\ batch' = [wrapper |-> w, kind |-> k]
          /\ js' = [Idle EXCEPT !.step = "loop"]
  /\ UNCHANGED <<lists, notifierLock, args, producer>>

Entries == args[batch.wrapper][batch.kind]
Keep(entries) == args' = [args EXCEPT ![batch.wrapper][batch.kind] = entries]

\* Mutant of CallNext: an entry whose reference is gone ends the work, and
\* stays where it is.
StopAtDead ==
  /\ js.step = "loop"
  /\ Entries # <<>>
  /\ \/ /\ Head(Entries).live
        /\ Keep(Tail(Entries))
        /\ js' = [js EXCEPT !.step = "callback"]
        /\ UNCHANGED batch
     \/ /\ ~Head(Entries).live
        /\ batch' = NoBatch
        /\ js' = [js EXCEPT !.step = "idle"]
        /\ UNCHANGED args
  /\ UNCHANGED <<lists, notifierLock, works, producer>>

\* ProcessChange, ProcessStatus: an entry whose reference is gone ends the
\* processing of its kind.
CallNext ==
  /\ js.step = "loop"
  /\ Entries # <<>>
  /\ \/ Head(Entries).live /\ Keep(Tail(Entries)) /\ js' = [js EXCEPT !.step = "callback"]
     \/ ~Head(Entries).live /\ Keep(<<>>) /\ UNCHANGED js
  /\ UNCHANGED <<lists, notifierLock, works, producer, batch>>

\* So does a callback that throws.
CallbackReturns ==
  /\ js.step = "callback"
  /\ js' = [js EXCEPT !.step = "loop"]
  /\ UNCHANGED args \/ Keep(<<>>)
  /\ UNCHANGED <<lists, notifierLock, works, producer, batch>>

\* The next kind, or the end of the work.
NextKind ==
  /\ js.step = "loop"
  /\ Entries = <<>>
  /\ \/ \E k \in Kinds :
          /\ args[batch.wrapper][k] # <<>>
          /\ batch' = [batch EXCEPT !.kind = k]
          /\ UNCHANGED js
     \/ /\ args[batch.wrapper] = NoEntries
        /\ batch' = NoBatch
        /\ js' = [js EXCEPT !.step = "idle"]
  /\ UNCHANGED <<lists, notifierLock, args, works, producer>>

-----------------------------------------------------------------------------
Next ==
  \/ Refer
  \/ AddWatcher
  \/ DelWatcher
  \/ ClearStatus
  \/ \E w \in Wrappers : Leave(w) \/ Collect(w) \/ Create(w) \/ TakeWork(w)
  \/ \E w \in Wrappers, k \in Kinds : Clear(w, k)
  \/ \E w \in Wrappers, k \in Kinds, c \in Callbacks : On(w, k, c) \/ Off(w, k, c)
  \/ \E t \in Producers, w \in Wrappers : DataChanged(t, w) \/ StatusChanged(t, w)
  \/ \E t \in Producers : Insert(t) \/ Post(t)
  \/ CallNext
  \/ CallbackReturns
  \/ NextKind

\* A thread that emits goes on when it can, and so does the JS thread inside a
\* call or a work.  The notifier's mutex is not kept from the JS thread for
\* ever; callbacks return; the loop comes to every work that is queued.
Fairness ==
  /\ \A t \in Producers : WF_vars(Insert(t) \/ Post(t))
  /\ WF_vars(Refer \/ CallNext \/ NextKind)
  /\ SF_vars(AddWatcher \/ DelWatcher \/ ClearStatus)
  /\ SF_vars(CallbackReturns)
  /\ \A w \in Wrappers : SF_vars(TakeWork(w))

Spec == Init /\ [][Next]_vars /\ Fairness

-----------------------------------------------------------------------------
\* A status is emitted to what exists: while a thread walks the status list of
\* a wrapper, neither the node it is at nor the wrapper is freed, though the
\* list has no lock; and no wrapper the notifier still knows is freed.  What
\* off() of all, leaving and the finalizer free they free when no thread can be
\* there; only off() of the very callback a status is being emitted to, and a
\* wrapper that is dropped without leaving its session, break this.
StatusIsSafe ==
  \A w \in Wrappers \ careless :
    /\ w \in filed => state[w] # "freed"
    /\ \A t \in Producers : Walking(t, w, "status") =>
         ~producer[t].gone /\ state[w] # "freed"

\* A callback that was taken off is not called for what was emitted before:
\* the entries that can still be called are of attached callbacks.
LiveMeansAttached ==
  \A w \in Wrappers, k \in Kinds : \A i \in DOMAIN args[w][k] :
    args[w][k][i].live => args[w][k][i].callback \in Attached(w, k)

\* A circle: the JS thread waits for the notifier's mutex_, whose holder waits for
\* the queue the JS thread has locked.
Circle ==
  \E t \in Producers :
    /\ notifierLock = t
    /\ producer[t].step = "insert"
    /\ batch.wrapper = producer[t].wrapper
    /\ js.step \in {"file", "unfile", "clear", "leave"}

\* Nobody waits in a circle because of a work, of what callbacks do with change
\* callbacks, or of anything the JS thread does between works: a circle closes
\* only in the call of a callback that puts status callbacks on, takes them
\* off, or calls setSessionId, while it runs.
NoCircularWait == Circle => js.kind = "status"

\* What is emitted is delivered, or dropped, in the end, unless a callback has
\* closed the circle, which nothing opens again.
Delivered == \A w \in Wrappers : args[w] # NoEntries ~> args[w] = NoEntries \/ Circle
=============================================================================
