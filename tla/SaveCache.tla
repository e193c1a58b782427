------------------------------ MODULE SaveCache ------------------------------
(***************************************************************************)
(* CacheManager: saving an object to, and revoking it from, the object     *)
(* service of another process.                                             *)
(*                                                                         *)
(* save() and revokeSave() of the JS object run on worker threads.  A Save *)
(* first takes a snapshot of the session's items, then locks mutex_, sends *)
(* the request and waits, the lock held, on a ConditionLock of its own     *)
(* stack frame until the service's callback, on an IPC thread, notifies    *)
(* it.  The request carries references into that frame.  JS goes on in the *)
(* meantime and may destroy the object.                                    *)
(*                                                                         *)
(* The service is not in the repository: it accepts or refuses a request   *)
(* when it is sent, carries accepted ones out, and answers each once.  The *)
(* proxy call may report an error for a request that the service has: the  *)
(* frame goes, and the request is a stray, still carried out and answered. *)
(***************************************************************************)
CONSTANTS
  Workers,        (* worker threads, each inside at most one call          *)
  Sessions,       (* sessions of the process                               *)
  Snapshots,      (* what GetItems may read of a session                   *)
  NoWorker, NoSession, Nothing

ASSUME CacheAssumption ==
  /\ NoWorker \notin Workers
  /\ NoSession \notin Sessions
  /\ Nothing \notin Snapshots

VARIABLES
  pc,           (* where worker w is in its call                           *)
  request,      (* the call: operation, session and data to be stored      *)
  mutex,        (* CacheManager::mutex_                                    *)
  condition,    (* w's ConditionLock: "dead" with its frame, "unset", or   *)
                (* the result it was notified with                         *)
  service,      (* the service's view of w's request                       *)
  late,         (* w's stray: a request whose frame has gone.  Bound: one  *)
  stored,       (* what the service keeps for session s                    *)
  result,       (* what w's call has returned                              *)
  latest,       (* the successful return that was the last of its session  *)
  disturbed,    (* history: workers whose call a stray has interfered with *)
  misled,       (* history: workers with a stray that an error, or another *)
                (* stray, has made                                         *)
  alive,        (* the sessions that have a live DistributedObjectImpl     *)
  dangling      (* workers whose object pointer has been deleted           *)

vars == <<pc, request, mutex, condition, service, late, stored, result, latest,
          disturbed, misled, alive, dangling>>

Steps == {"idle", "queued", "locking", "asking", "sent", "waiting", "finish"}
NoRequest == [op |-> "none", session |-> NoSession, data |-> Nothing]
NoStray == [status |-> "none", session |-> NoSession, data |-> Nothing]
Unanswered == [NoStray EXCEPT !.status = "done"]

TypeOK ==
  /\ pc \in [Workers -> Steps]
  /\ request \in [Workers -> [op : {"none", "save", "revoke"},
                              session : Sessions \cup {NoSession},
                              data : Snapshots \cup {Nothing}]]
  /\ mutex \in Workers \cup {NoWorker}
  /\ condition \in [Workers -> {"dead", "unset", "ok", "bad"}]
  /\ service \in [Workers -> {"none", "accepted", "ok", "bad"}]
  /\ late \in [Workers -> [status : {"none", "accepted", "done"},
                           session : Sessions \cup {NoSession},
                           data : Snapshots \cup {Nothing}]]
  /\ stored \in [Sessions -> Snapshots \cup {Nothing}]
  /\ result \in [Workers -> {"none", "SUCCESS", "ERROR"}]
  /\ latest \in [Sessions -> {"unknown"} \cup (Snapshots \cup {Nothing})]
  /\ disturbed \subseteq Workers
  /\ misled \subseteq Workers
  /\ alive \subseteq Sessions
  /\ dangling \subseteq Workers

Init ==
  /\ pc = [w \in Workers |-> "idle"]
  /\ request = [w \in Workers |-> NoRequest]
  /\ mutex = NoWorker
  /\ condition = [w \in Workers |-> "dead"]
  /\ service = [w \in Workers |-> "none"]
  /\ late = [w \in Workers |-> NoStray]
  /\ stored = [s \in Sessions |-> Nothing]
  /\ result = [w \in Workers |-> "none"]
  /\ latest = [s \in Sessions |-> Nothing]
  /\ disturbed = {}
  /\ misled = {}
  /\ alive = Sessions
  /\ dangling = {}

At(w, step) == pc[w] = step
GoTo(w, step) == pc' = [pc EXCEPT ![w] = step]
UnchangedObjects == UNCHANGED <<alive, dangling>>
NoStrays == UNCHANGED <<late, disturbed, misled>>

-----------------------------------------------------------------------------
\* JSSave, JSRevokeSave: the object's raw pointer goes to a worker thread.
Queue(w, op, s) ==
  /\ At(w, "idle")
  /\ s \in alive
  /\ GoTo(w, "queued")
  /\ request' = [request EXCEPT ![w] = [op |-> op, session |-> s, data |-> Nothing]]
  /\ dangling' = dangling \ {w}
  /\ UNCHANGED <<mutex, condition, service, stored, result, latest, alive>>
  /\ NoStrays

\* The worker calls the object, alive or not: what a deleted object would
\* answer is undefined, and CallHasObject says when; here it still knows its
\* session.  A Save reads the items first; with nothing
\* to read, or no such table any more, it is over.
Run(w) ==
  /\ At(w, "queued")
  /\ \/ /\ request[w].op = "save"
        /\ request[w].session \in alive
        /\ \E data \in Snapshots : request' = [request EXCEPT ![w].data = data]
        /\ GoTo(w, "locking")
        /\ UNCHANGED result
     \/ /\ request[w].op = "save"
        /\ GoTo(w, "finish")
        /\ result' = [result EXCEPT ![w] = "ERROR"]
        /\ UNCHANGED request
     \/ /\ request[w].op = "revoke"
        /\ GoTo(w, "locking")
        /\ UNCHANGED <<request, result>>
  /\ UNCHANGED <<mutex, condition, service, stored, latest>>
  /\ NoStrays /\ UnchangedObjects

\* Mutant of Lock: mutex_ is not taken.
LockNothing(w) ==
  /\ At(w, "locking")
  /\ condition' = [condition EXCEPT ![w] = "unset"]
  /\ GoTo(w, "asking")
  /\ UNCHANGED <<request, mutex, service, stored, result, latest>>
  /\ NoStrays /\ UnchangedObjects

\* CacheManager::Save and RevokeSave lock mutex_ and make a ConditionLock.
Lock(w) ==
  /\ At(w, "locking")
  /\ mutex = NoWorker
  /\ mutex' = w
  /\ condition' = [condition EXCEPT ![w] = "unset"]
  /\ GoTo(w, "asking")
  /\ UNCHANGED <<request, service, stored, result, latest>>
  /\ NoStrays /\ UnchangedObjects

\* SaveObject, RevokeSaveObject: the service has the request; or there is no
\* proxy or the request does not get there, and the call returns at once.
Ask(w) ==
  /\ At(w, "asking")
  /\ \/ /\ service' = [service EXCEPT ![w] = "accepted"]
        /\ GoTo(w, "sent")
        /\ UNCHANGED <<mutex, condition, result>>
     \/ /\ mutex' = NoWorker
        /\ condition' = [condition EXCEPT ![w] = "dead"]
        /\ result' = [result EXCEPT ![w] = "ERROR"]
        /\ GoTo(w, "finish")
        /\ UNCHANGED service
  /\ UNCHANGED <<request, stored, latest>>
  /\ NoStrays /\ UnchangedObjects

\* What the service has of w's request outlives the frame.
Outlives(w) ==
  CASE service[w] = "none" -> late[w]
    [] service[w] = "accepted" -> [status |-> "accepted", session |-> request[w].session,
                                   data |-> request[w].data]
    [] OTHER -> Unanswered

\* Save, RevokeSave: the frame goes, and the lock with it.
Leave(w) ==
  /\ mutex' = NoWorker
  /\ condition' = [condition EXCEPT ![w] = "dead"]
  /\ service' = [service EXCEPT ![w] = "none"]
  /\ late' = [late EXCEPT ![w] = Outlives(w)]
  /\ disturbed' = disturbed \ {w}
  /\ GoTo(w, "finish")

\* The proxy call comes back with an error, though the service has the request
\* or has even answered it: the call returns at once.
GiveUp(w) ==
  /\ At(w, "sent")
  /\ service[w] # "none" => late[w] = NoStray
  /\ Leave(w)
  /\ result' = [result EXCEPT ![w] = "ERROR"]
  /\ latest' = [latest EXCEPT ![request[w].session] = "unknown"]
  /\ misled' = IF service[w] # "none" THEN misled \cup {w} ELSE misled
  /\ UNCHANGED <<request, stored>>
  /\ UnchangedObjects

\* The proxy call comes back; Wait begins.  The answer may be there already.
BeginWait(w) ==
  /\ At(w, "sent")
  /\ GoTo(w, "waiting")
  /\ UNCHANGED <<request, mutex, condition, service, stored, result, latest>>
  /\ NoStrays /\ UnchangedObjects

\* The service carries a request out, in no particular order, or fails to:
\* then the store keeps what it had, or has what was asked for all the same.
Serve(w) ==
  /\ service[w] = "accepted"
  /\ \/ /\ service' = [service EXCEPT ![w] = "ok"]
        /\ stored' = [stored EXCEPT ![request[w].session] = request[w].data]
     \/ /\ service' = [service EXCEPT ![w] = "bad"]
        /\ \/ stored' = [stored EXCEPT ![request[w].session] = request[w].data]
           \/ UNCHANGED stored
  /\ UNCHANGED <<pc, request, mutex, condition, result, latest>>
  /\ NoStrays /\ UnchangedObjects

\* Mutants of Answer: an answer that does not name the device notifies with an
\* entry that is not there; or does not notify.
AnswerUnchecked(w) ==
  /\ service[w] \in {"ok", "bad"}
  /\ service' = [service EXCEPT ![w] = "none"]
  /\ \E status \in {service[w], "none"} : condition' = [condition EXCEPT ![w] = status]
  /\ UNCHANGED <<pc, request, mutex, stored, result, latest>>
  /\ NoStrays /\ UnchangedObjects

AnswerOnlyNamed(w) ==
  /\ service[w] \in {"ok", "bad"}
  /\ service' = [service EXCEPT ![w] = "none"]
  /\ \/ condition' = [condition EXCEPT ![w] = service[w]]
     \/ request[w].op = "save" /\ UNCHANGED condition
  /\ UNCHANGED <<pc, request, mutex, stored, result, latest>>
  /\ NoStrays /\ UnchangedObjects

\* The callback notifies the frame it was made in: with the result for the
\* device asked for, or with an error when the answer does not name it.
Answer(w) ==
  /\ service[w] \in {"ok", "bad"}
  /\ service' = [service EXCEPT ![w] = "none"]
  /\ \/ condition' = [condition EXCEPT ![w] = service[w]]
     \/ /\ request[w].op = "save"
        /\ condition' = [condition EXCEPT ![w] = "bad"]
  /\ UNCHANGED <<pc, request, mutex, stored, result, latest>>
  /\ NoStrays /\ UnchangedObjects

\* Mutant of IsSet: the wait has no predicate.
AnyWakeUp(w) == condition[w] # "dead"

\* What Wait waits for.
IsSet(w) == condition[w] \in {"ok", "bad"}

\* Wait finds isSet_; the call returns, and with it the lock and the frame.
Return(w) ==
  /\ At(w, "waiting")
  /\ IsSet(w)
  /\ Leave(w)
  /\ result' = [result EXCEPT ![w] = IF condition[w] = "ok" THEN "SUCCESS" ELSE "ERROR"]
  /\ latest' = [latest EXCEPT ![request[w].session] =
                  IF condition[w] = "ok" /\ w \notin disturbed THEN request[w].data
                                                               ELSE "unknown"]
  /\ misled' = IF service[w] # "none" /\ w \in disturbed THEN misled \cup {w}
                                                         ELSE misled
  /\ UNCHANGED <<request, stored>>
  /\ UnchangedObjects

\* A stray is carried out like any other request, and may undo one of its
\* session that is carried out and has not returned.
ServeLate(w) ==
  /\ late[w].status = "accepted"
  /\ late' = [late EXCEPT ![w] = Unanswered]
  /\ stored' \in {stored, [stored EXCEPT ![late[w].session] = late[w].data]}
  /\ latest' = [latest EXCEPT ![late[w].session] = "unknown"]
  /\ disturbed' = disturbed \cup {v \in Workers :
                                    /\ pc[v] \in {"sent", "waiting"}
                                    /\ service[v] # "accepted"
                                    /\ request[v].session = late[w].session}
  /\ UNCHANGED <<pc, request, mutex, condition, service, result, misled>>
  /\ UnchangedObjects

\* Its callback writes to a frame that is gone: nothing of what is modelled is
\* hit; or w has a frame there again, and that one is notified.  That the write
\* ends the process is a behaviour in which no step follows.
AnswerLate(w) ==
  /\ late[w].status = "done"
  /\ late' = [late EXCEPT ![w] = NoStray]
  /\ misled' = misled \ {w}
  /\ \/ UNCHANGED <<condition, disturbed>>
     \/ /\ condition[w] # "dead"
        /\ \E r \in {"ok", "bad"} : condition' = [condition EXCEPT ![w] = r]
        /\ disturbed' = disturbed \cup {w}
  /\ UNCHANGED <<pc, request, mutex, service, stored, result, latest>>
  /\ UnchangedObjects

\* Back on the JS thread: a success is reported with the object's session.
Finish(w) ==
  /\ At(w, "finish")
  /\ GoTo(w, "idle")
  /\ request' = [request EXCEPT ![w] = NoRequest]
  /\ result' = [result EXCEPT ![w] = "none"]
  /\ dangling' = dangling \ {w}
  /\ UNCHANGED <<mutex, condition, service, stored, latest, alive>>
  /\ NoStrays

\* leaveSession: the object is deleted, whoever holds a pointer to it.
Destroy(s) ==
  /\ s \in alive
  /\ alive' = alive \ {s}
  /\ dangling' = dangling \cup {w \in Workers : request[w].session = s}
  /\ UNCHANGED <<pc, request, mutex, condition, service, stored, result, latest>>
  /\ NoStrays

\* joinSession, with a new object.
Recreate(s) ==
  /\ s \notin alive
  /\ alive' = alive \cup {s}
  /\ UNCHANGED <<pc, request, mutex, condition, service, stored, result, latest,
                 dangling>>
  /\ NoStrays

-----------------------------------------------------------------------------
Worker(w) ==
  Run(w) \/ Ask(w) \/ GiveUp(w) \/ BeginWait(w) \/ Return(w) \/ Finish(w)

Service(w) == Serve(w) \/ Answer(w)

Next ==
  \/ \E w \in Workers : Worker(w) \/ Lock(w) \/ Service(w) \/ ServeLate(w) \/ AnswerLate(w)
  \/ \E w \in Workers, op \in {"save", "revoke"}, s \in Sessions : Queue(w, op, s)
  \/ \E s \in Sessions : Destroy(s) \/ Recreate(s)

\* A thread that can run does, and an accepted request is answered.
Fairness == \A w \in Workers : WF_vars(Worker(w)) /\ WF_vars(Service(w))

Spec == Init /\ [][Next]_vars
FairSpec == Spec /\ Fairness

-----------------------------------------------------------------------------
\* A callback writes to a frame that is gone only of a request whose proxy call
\* reported an error, or whose frame the callback of such a request notified:
\* otherwise, while the service has a request, or its answer is on the way, the
\* ConditionLock it refers to exists.
AnswerHasFrame ==
  \A w \in Workers :
    /\ service[w] # "none" /\ w \notin disturbed => condition[w] = "unset"
    /\ late[w] # NoStray => w \in misled

\* Callers and service agree: after the last call on a session to return has
\* returned SUCCESS, and no stray was in its way, the service keeps what that
\* call asked for (or nothing, for a revoke), until another call on the session,
\* or a stray, reaches the service.
Agreement ==
  \A s \in Sessions :
    /\ latest[s] # "unknown"
    /\ \A w \in Workers : request[w].session = s => pc[w] \notin {"sent", "waiting"}
    => stored[s] = latest[s]

\* The manager's lock does not stay with a caller: the save or revoke that
\* holds it lets the next one in, whatever the service answers.
LockIsReleased == \A w \in Workers : (mutex = w) ~> (mutex # w)

\* A worker that runs a call, or reports its success, has a live object.
CallHasObject ==
  \A w \in Workers :
    /\ pc[w] = "queued" \/ (pc[w] = "finish" /\ result[w] = "SUCCESS")
    => w \notin dangling
=============================================================================
