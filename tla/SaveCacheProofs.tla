-------------------------- MODULE SaveCacheProofs --------------------------
(***************************************************************************)
(* What holds of SaveCache for any number of workers and sessions, and for *)
(* any snapshots.                                                          *)
(***************************************************************************)
EXTENDS SaveCache, TLAPS

\* The steps of a call between Lock and its return.
InLock == {"asking", "sent", "waiting"}

\* mutex_ is held by the worker inside CacheManager, which alone has a frame
\* with a ConditionLock in it.  Nothing but a stray's callback notifies it before
\* the request is sent.
HolderHasFrame ==
  \A w \in Workers :
    /\ pc[w] \in InLock <=> mutex = w
    /\ condition[w] # "dead" <=> mutex = w
    /\ pc[w] = "asking" /\ w \notin disturbed => condition[w] = "unset"

\* A call that is under way is for a session.
CallHasSession ==
  \A w \in Workers : pc[w] # "idle" => request[w].session \in Sessions

\* The service has a request, or an answer on its way, only of a caller that
\* has asked and that nothing has notified yet, unless a stray's callback has.
ServiceKnowsCaller ==
  \A w \in Workers : service[w] # "none" =>
    /\ pc[w] \in {"sent", "waiting"}
    /\ w \notin disturbed => condition[w] = "unset"

\* A stray has a cause.
StrayHasCause == \A w \in Workers : late[w] # NoStray => w \in misled

\* What was answered, or is about to be, with a success is what is stored, but
\* for calls a stray has interfered with.
SuccessIsStored ==
  \A w \in Workers \ disturbed : service[w] = "ok" \/ condition[w] = "ok" =>
    /\ pc[w] \in {"sent", "waiting"}
    /\ stored[request[w].session] = request[w].data

\* The inductive invariant of the cache manager.
CacheInv ==
  /\ TypeOK
  /\ HolderHasFrame
  /\ CallHasSession
  /\ ServiceKnowsCaller
  /\ StrayHasCause
  /\ SuccessIsStored
  /\ Agreement

-----------------------------------------------------------------------------
\* Init establishes the inductive invariant.
LEMMA CacheInit == Init => CacheInv
BY CacheAssumption
   DEF Init, CacheInv, TypeOK, HolderHasFrame, CallHasSession, ServiceKnowsCaller,
       StrayHasCause, SuccessIsStored, Agreement, NoRequest, NoStray, Steps, InLock

\* Every step keeps values in their types.
LEMMA TypeStep == TypeOK /\ CallHasSession /\ [Next]_vars => TypeOK'
<1> SUFFICES ASSUME TypeOK, CallHasSession, [Next]_vars PROVE TypeOK'
    OBVIOUS
<1> USE DEF TypeOK, CallHasSession, At, GoTo, NoStrays, UnchangedObjects, Steps
<1>1. ASSUME NEW w \in Workers, Run(w) PROVE TypeOK'
  <2>1. CASE /\ \E data \in Snapshots : request' = [request EXCEPT ![w].data = data]
             /\ GoTo(w, "locking")
             /\ UNCHANGED result
    <3>1. PICK data \in Snapshots : request' = [request EXCEPT ![w].data = data]
          BY <2>1
    <3>2. request' \in [Workers -> [op : {"none", "save", "revoke"},
                                    session : Sessions \cup {NoSession},
                                    data : Snapshots \cup {Nothing}]]
          BY <3>1
    <3>3. QED BY <1>1, <2>1, <3>2 DEF Run
  <2>2. CASE UNCHANGED request
    <3>1. pc' \in [Workers -> Steps] /\ result' \in [Workers -> {"none", "SUCCESS", "ERROR"}]
          BY <1>1, <2>2 DEF Run
    <3>2. QED BY <1>1, <2>2, <3>1 DEF Run
  <2>3. QED BY <1>1, <2>1, <2>2 DEF Run
<1>2. ASSUME NEW w \in Workers, Ask(w) PROVE TypeOK'
      BY <1>2 DEF Ask
<1>3. ASSUME NEW w \in Workers, BeginWait(w) PROVE TypeOK'
      BY <1>3 DEF BeginWait
<1>4. ASSUME NEW w \in Workers, GiveUp(w) \/ Return(w) PROVE TypeOK'
  <2>1. /\ request[w].session \in Sessions \cup {NoSession}
        /\ request[w].data \in Snapshots \cup {Nothing}
        OBVIOUS
  <2>2. Outlives(w) \in [status : {"none", "accepted", "done"},
                         session : Sessions \cup {NoSession},
                         data : Snapshots \cup {Nothing}]
        BY <2>1 DEF Outlives, Unanswered, NoStray
  <2>3. /\ late' = [late EXCEPT ![w] = Outlives(w)]
        /\ pc' = [pc EXCEPT ![w] = "finish"]
        /\ mutex' = NoWorker
        /\ condition' = [condition EXCEPT ![w] = "dead"]
        /\ service' = [service EXCEPT ![w] = "none"]
        /\ disturbed' = disturbed \ {w}
        BY <1>4 DEF GiveUp, Return, Leave
  <2>4. misled' \subseteq Workers
        BY <1>4 DEF GiveUp, Return
  <2>5. latest' \in [Sessions -> {"unknown"} \cup (Snapshots \cup {Nothing})]
        BY <1>4, <2>1 DEF GiveUp, Return
  <2>6. result' \in [Workers -> {"none", "SUCCESS", "ERROR"}]
        BY <1>4 DEF GiveUp, Return
  <2>7. UNCHANGED <<request, stored, alive, dangling>>
        BY <1>4 DEF GiveUp, Return
  <2>8. QED BY <2>2, <2>3, <2>4, <2>5, <2>6, <2>7
<1>5. ASSUME NEW w \in Workers, Finish(w) PROVE TypeOK'
      BY <1>5 DEF Finish, NoRequest
<1>6. ASSUME NEW w \in Workers, Lock(w) PROVE TypeOK'
      BY <1>6 DEF Lock
<1>7. ASSUME NEW w \in Workers, Serve(w) PROVE TypeOK'
  <2>1. service' \in [Workers -> {"none", "accepted", "ok", "bad"}]
        BY <1>7 DEF Serve
  <2>2. /\ request[w].session \in Sessions \cup {NoSession}
        /\ request[w].data \in Snapshots \cup {Nothing}
        OBVIOUS
  <2>3. stored' \in [Sessions -> Snapshots \cup {Nothing}]
        BY <1>7, <2>2 DEF Serve
  <2>4. QED BY <1>7, <2>1, <2>3 DEF Serve
<1>8. ASSUME NEW w \in Workers, Answer(w) PROVE TypeOK'
  <2>1. service[w] \in {"none", "accepted", "ok", "bad"}
        OBVIOUS
  <2>2. condition' \in [Workers -> {"dead", "unset", "ok", "bad"}]
        BY <1>8, <2>1 DEF Answer
  <2>3. service' \in [Workers -> {"none", "accepted", "ok", "bad"}]
        BY <1>8 DEF Answer
  <2>4. QED BY <1>8, <2>2, <2>3 DEF Answer
<1>9. ASSUME NEW w \in Workers, NEW op \in {"save", "revoke"}, NEW s \in Sessions,
             Queue(w, op, s)
      PROVE  TypeOK'
      BY <1>9 DEF Queue
<1>10. ASSUME NEW s \in Sessions, Destroy(s) \/ Recreate(s) PROVE TypeOK'
      BY <1>10 DEF Destroy, Recreate
<1>11. ASSUME NEW w \in Workers, ServeLate(w) PROVE TypeOK'
  <2>1. late[w].data \in Snapshots \cup {Nothing}
        OBVIOUS
  <2>2. stored' \in [Sessions -> Snapshots \cup {Nothing}]
        BY <1>11, <2>1 DEF ServeLate
  <2>3. late' \in [Workers -> [status : {"none", "accepted", "done"},
                               session : Sessions \cup {NoSession},
                               data : Snapshots \cup {Nothing}]]
        BY <1>11 DEF ServeLate, Unanswered, NoStray
  <2>4. QED BY <1>11, <2>2, <2>3 DEF ServeLate
<1>12. ASSUME NEW w \in Workers, AnswerLate(w) PROVE TypeOK'
      BY <1>12 DEF AnswerLate, NoStray
<1>13. CASE UNCHANGED vars
      BY <1>13 DEF vars
<1>14. QED
      BY <1>1, <1>2, <1>3, <1>4, <1>5, <1>6, <1>7, <1>8, <1>9, <1>10, <1>11, <1>12, <1>13
         DEF Next, Worker, Service


\* Every step keeps the lock, its holder's frame and the service's view of it.
LEMMA LockStep ==
  TypeOK /\ HolderHasFrame /\ ServiceKnowsCaller /\ [Next]_vars
    => HolderHasFrame' /\ ServiceKnowsCaller'
<1> SUFFICES ASSUME TypeOK, HolderHasFrame, ServiceKnowsCaller, [Next]_vars
             PROVE  HolderHasFrame' /\ ServiceKnowsCaller'
    OBVIOUS
<1> USE CacheAssumption
    DEF TypeOK, HolderHasFrame, ServiceKnowsCaller, InLock, At, GoTo, NoStrays, Steps
<1>1. ASSUME NEW w \in Workers, Run(w) PROVE HolderHasFrame' /\ ServiceKnowsCaller'
      BY <1>1 DEF Run
<1>2. ASSUME NEW w \in Workers, Ask(w) PROVE HolderHasFrame' /\ ServiceKnowsCaller'
  <2>1. /\ mutex = w /\ service[w] = "none" /\ UNCHANGED disturbed
        /\ w \notin disturbed => condition[w] = "unset"
        BY <1>2 DEF Ask
  <2>2. CASE service' = [service EXCEPT ![w] = "accepted"]
             /\ GoTo(w, "sent") /\ UNCHANGED <<mutex, condition>>
        BY <2>1, <2>2
  <2>3. CASE mutex' = NoWorker /\ condition' = [condition EXCEPT ![w] = "dead"]
             /\ GoTo(w, "finish") /\ UNCHANGED service
        BY <2>1, <2>3
  <2>4. QED BY <1>2, <2>2, <2>3 DEF Ask
<1>3. ASSUME NEW w \in Workers, BeginWait(w) PROVE HolderHasFrame' /\ ServiceKnowsCaller'
      BY <1>3 DEF BeginWait
<1>4. ASSUME NEW w \in Workers, GiveUp(w) \/ Return(w)
      PROVE  HolderHasFrame' /\ ServiceKnowsCaller'
  <2>1. /\ mutex = w /\ mutex' = NoWorker
        /\ pc' = [pc EXCEPT ![w] = "finish"]
        /\ condition' = [condition EXCEPT ![w] = "dead"]
        /\ service' = [service EXCEPT ![w] = "none"]
        /\ disturbed' = disturbed \ {w}
        BY <1>4 DEF GiveUp, Return, Leave
  <2>2. \A v \in Workers \ {w} : /\ pc'[v] = pc[v] /\ service'[v] = service[v]
                               /\ condition'[v] = condition[v]
                               /\ v \in disturbed' <=> v \in disturbed
        BY <2>1
  <2>3. pc'[w] = "finish" /\ condition'[w] = "dead" /\ service'[w] = "none"
        BY <2>1
  <2>4. HolderHasFrame'
        BY <2>1, <2>2, <2>3
  <2>5. ServiceKnowsCaller'
        BY <2>1, <2>2, <2>3
  <2>6. QED BY <2>4, <2>5
<1>5. ASSUME NEW w \in Workers, Finish(w) PROVE HolderHasFrame' /\ ServiceKnowsCaller'
      BY <1>5 DEF Finish
<1>6. ASSUME NEW w \in Workers, Lock(w) PROVE HolderHasFrame' /\ ServiceKnowsCaller'
      BY <1>6 DEF Lock
<1>7. ASSUME NEW w \in Workers, Serve(w) PROVE HolderHasFrame' /\ ServiceKnowsCaller'
      BY <1>7 DEF Serve
<1>8. ASSUME NEW w \in Workers, Answer(w) PROVE HolderHasFrame' /\ ServiceKnowsCaller'
      BY <1>8 DEF Answer
<1>9. ASSUME NEW w \in Workers, NEW op \in {"save", "revoke"}, NEW s \in Sessions,
             Queue(w, op, s)
      PROVE  HolderHasFrame' /\ ServiceKnowsCaller'
      BY <1>9 DEF Queue
<1>10. ASSUME NEW w \in Workers, ServeLate(w) PROVE HolderHasFrame' /\ ServiceKnowsCaller'
      BY <1>10 DEF ServeLate
<1>11. ASSUME NEW w \in Workers, AnswerLate(w) PROVE HolderHasFrame' /\ ServiceKnowsCaller'
      BY <1>11 DEF AnswerLate
<1>12. CASE UNCHANGED <<pc, mutex, condition, service, disturbed>>
      BY <1>12
<1>13. QED
      BY <1>1, <1>2, <1>3, <1>4, <1>5, <1>6, <1>7, <1>8, <1>9, <1>10, <1>11, <1>12
         DEF Next, Worker, Service, Destroy, Recreate, vars

\* A call that leaves a request behind had an error of its proxy call, or was
\* notified by a stray's callback.
LEMMA StrayStep ==
  TypeOK /\ ServiceKnowsCaller /\ StrayHasCause /\ [Next]_vars => StrayHasCause'
<1> SUFFICES ASSUME TypeOK, ServiceKnowsCaller, StrayHasCause, [Next]_vars
             PROVE  StrayHasCause'
    OBVIOUS
<1> USE DEF TypeOK, StrayHasCause, NoStrays
<1>1. CASE UNCHANGED <<late, misled>>
      BY <1>1
<1>2. ASSUME NEW w \in Workers, GiveUp(w) PROVE StrayHasCause'
      BY <1>2 DEF GiveUp, Leave, Outlives
<1>3. ASSUME NEW w \in Workers, Return(w) PROVE StrayHasCause'
  <2>1. service[w] # "none" => w \in disturbed
        BY <1>3 DEF Return, IsSet, ServiceKnowsCaller
  <2>2. QED BY <1>3, <2>1 DEF Return, Leave, Outlives
<1>4. ASSUME NEW w \in Workers, ServeLate(w) PROVE StrayHasCause'
      BY <1>4 DEF ServeLate, NoStray
<1>5. ASSUME NEW w \in Workers, AnswerLate(w) PROVE StrayHasCause'
      BY <1>5 DEF AnswerLate
<1>6. QED
      BY <1>1, <1>2, <1>3, <1>4, <1>5
         DEF Next, Worker, Service, Queue, Run, Lock, Ask, BeginWait, Serve, Answer, Finish,
             Destroy, Recreate, vars

\* Every step keeps what was answered, and what callers may take it for.
LEMMA StoredStep == CacheInv /\ [Next]_vars => CallHasSession' /\ SuccessIsStored' /\ Agreement'
<1> SUFFICES ASSUME CacheInv, TypeOK', [Next]_vars
             PROVE  CallHasSession' /\ SuccessIsStored' /\ Agreement'
    BY TypeStep DEF CacheInv
<1> USE CacheAssumption
    DEF CacheInv, TypeOK, HolderHasFrame, CallHasSession, ServiceKnowsCaller,
        SuccessIsStored, Agreement, InLock, At, GoTo, NoStrays, Steps
<1>1. ASSUME NEW w \in Workers, Run(w)
      PROVE  CallHasSession' /\ SuccessIsStored' /\ Agreement'
  <2>1. \A v \in Workers : /\ request'[v].session = request[v].session
                           /\ v # w => request'[v] = request[v] /\ pc'[v] = pc[v]
        BY <1>1 DEF Run
  <2>2. pc[w] = "queued" /\ pc'[w] \in {"locking", "finish"}
        BY <1>1 DEF Run
  <2>3. UNCHANGED <<condition, service, stored, latest, disturbed>>
        BY <1>1 DEF Run
  <2>4. service[w] = "none" /\ condition[w] = "dead"
        BY <2>2
  <2>5. ASSUME NEW v \in Workers \ disturbed, service'[v] = "ok" \/ condition'[v] = "ok"
        PROVE  pc'[v] \in {"sent", "waiting"} /\ stored'[request'[v].session] = request'[v].data
    <3>1. v # w
          BY <2>3, <2>4, <2>5
    <3>2. QED BY <2>1, <2>3, <2>5, <3>1
  <2>6. ASSUME NEW v \in Workers, pc'[v] # "idle"
        PROVE  request'[v].session \in Sessions
        BY <2>1, <2>2, <2>6
  <2>7. ASSUME NEW v \in Workers, pc'[v] \notin {"sent", "waiting"}
        PROVE  pc[v] \notin {"sent", "waiting"}
        BY <2>1, <2>2, <2>7
  <2>8. Agreement'
        BY <2>1, <2>3, <2>7
  <2>9. QED BY <2>3, <2>5, <2>6, <2>8
<1>2. ASSUME NEW w \in Workers, Ask(w)
      PROVE  CallHasSession' /\ SuccessIsStored' /\ Agreement'
  <2>1. /\ UNCHANGED <<request, stored, latest, disturbed>>
        /\ w \notin disturbed => condition[w] = "unset"
        BY <1>2 DEF Ask
  <2>2. CASE service' = [service EXCEPT ![w] = "accepted"]
             /\ GoTo(w, "sent") /\ UNCHANGED condition
        BY <1>2, <2>1, <2>2 DEF Ask
  <2>3. CASE condition' = [condition EXCEPT ![w] = "dead"]
             /\ GoTo(w, "finish") /\ UNCHANGED service
    <3>1. CallHasSession' /\ SuccessIsStored'
          BY <1>2, <2>1, <2>3 DEF Ask
    <3>2. Agreement'
          BY <1>2, <2>1, <2>3 DEF Ask
    <3>3. QED BY <3>1, <3>2
  <2>4. QED BY <1>2, <2>2, <2>3 DEF Ask
<1>3. ASSUME NEW w \in Workers, BeginWait(w)
      PROVE  CallHasSession' /\ SuccessIsStored' /\ Agreement'
      BY <1>3 DEF BeginWait
<1>4. ASSUME NEW w \in Workers, GiveUp(w) \/ Return(w)
      PROVE  CallHasSession' /\ SuccessIsStored' /\ Agreement'
  <2>1. /\ pc[w] \in {"sent", "waiting"} /\ UNCHANGED <<request, stored>>
        /\ pc' = [pc EXCEPT ![w] = "finish"]
        /\ condition' = [condition EXCEPT ![w] = "dead"]
        /\ service' = [service EXCEPT ![w] = "none"]
        /\ disturbed' = disturbed \ {w}
        BY <1>4 DEF GiveUp, Return, Leave
  <2>2. CallHasSession' /\ SuccessIsStored'
        BY <2>1
  <2>3. PICK s \in Sessions : s = request[w].session
        BY <2>1
  <2>4. \A v \in Workers : v # w => pc[v] \notin {"sent", "waiting"}
        BY <2>1
  <2>5. /\ latest'[s] = "unknown" \/ latest'[s] = stored[s]
        /\ \A x \in Sessions : x # s => latest'[x] = latest[x]
        BY <1>4, <2>1, <2>3 DEF GiveUp, Return
  <2>6. Agreement'
        BY <2>1, <2>3, <2>4, <2>5
  <2>7. QED BY <2>2, <2>6
<1>5. ASSUME NEW w \in Workers, Finish(w)
      PROVE  CallHasSession' /\ SuccessIsStored' /\ Agreement'
  <2>1. /\ pc[w] = "finish" /\ pc' = [pc EXCEPT ![w] = "idle"]
        /\ request' = [request EXCEPT ![w] = NoRequest]
        /\ UNCHANGED <<condition, service, stored, latest, disturbed>>
        BY <1>5 DEF Finish
  <2>2. service[w] = "none" /\ condition[w] = "dead"
        BY <2>1
  <2>3. \A v \in Workers \ {w} : request'[v] = request[v] /\ pc'[v] = pc[v]
        BY <2>1
  <2>4. request'[w].session = NoSession /\ pc'[w] = "idle"
        BY <2>1 DEF NoRequest
  <2>5. CallHasSession'
        BY <2>3, <2>4
  <2>6. SuccessIsStored'
        BY <2>1, <2>2, <2>3
  <2>7. Agreement'
        BY <2>1, <2>3, <2>4
  <2>8. QED BY <2>5, <2>6, <2>7
<1>6. ASSUME NEW w \in Workers, Lock(w)
      PROVE  CallHasSession' /\ SuccessIsStored' /\ Agreement'
      BY <1>6 DEF Lock
<1>7. ASSUME NEW w \in Workers, Serve(w)
      PROVE  CallHasSession' /\ SuccessIsStored' /\ Agreement'
      BY <1>7 DEF Serve
<1>8. ASSUME NEW w \in Workers, Answer(w)
      PROVE  CallHasSession' /\ SuccessIsStored' /\ Agreement'
      BY <1>8 DEF Answer
<1>9. ASSUME NEW w \in Workers, NEW op \in {"save", "revoke"}, NEW s \in Sessions,
             Queue(w, op, s)
      PROVE  CallHasSession' /\ SuccessIsStored' /\ Agreement'
      BY <1>9 DEF Queue
<1>10. ASSUME NEW w \in Workers, ServeLate(w)
      PROVE  CallHasSession' /\ SuccessIsStored' /\ Agreement'
  <2>1. /\ UNCHANGED <<pc, request, condition, service>>
        /\ \A x \in Sessions : x # late[w].session => /\ stored'[x] = stored[x]
                                                     /\ latest'[x] = latest[x]
        /\ \A x \in Sessions : x = late[w].session => latest'[x] = "unknown"
        BY <1>10 DEF ServeLate
  <2>2. ASSUME NEW v \in Workers \ disturbed', service[v] = "ok" \/ condition[v] = "ok"
        PROVE  /\ pc[v] \in {"sent", "waiting"} /\ request[v].session # late[w].session
               /\ stored[request[v].session] = request[v].data
               /\ request[v].session \in Sessions
    <3>1. v \notin disturbed
          BY <1>10, <2>2 DEF ServeLate
    <3>2. /\ pc[v] \in {"sent", "waiting"} /\ service[v] # "accepted"
          /\ stored[request[v].session] = request[v].data
          BY <2>2, <3>1
    <3>3. QED BY <1>10, <2>2, <3>2 DEF ServeLate
  <2>3. SuccessIsStored'
        BY <2>1, <2>2
  <2>4. Agreement'
        BY <2>1
  <2>5. QED BY <2>1, <2>3, <2>4
<1>11. ASSUME NEW w \in Workers, AnswerLate(w)
      PROVE  CallHasSession' /\ SuccessIsStored' /\ Agreement'
      BY <1>11 DEF AnswerLate
<1>12. CASE UNCHANGED <<pc, request, condition, service, stored, latest, disturbed>>
      BY <1>12
<1>13. QED
      BY <1>1, <1>2, <1>3, <1>4, <1>5, <1>6, <1>7, <1>8, <1>9, <1>10, <1>11, <1>12
         DEF Next, Worker, Service, Destroy, Recreate, vars

\* The inductive invariant is one.
LEMMA CacheInvariant == Spec => []CacheInv
<1>1. CacheInv /\ [Next]_vars => CacheInv'
      BY TypeStep, LockStep, StrayStep, StoredStep DEF CacheInv
<1>2. QED BY CacheInit, <1>1, PTL DEF Spec

-----------------------------------------------------------------------------
\* The variables keep their types, whatever the service does.
THEOREM TypeCorrect == Spec => []TypeOK
BY CacheInvariant, PTL DEF CacheInv

\* The callback of CacheManager::Save and RevokeSave writes to a frame that is
\* gone in no other case than an error reported for a request the service has,
\* and what comes of it, however calls, refusals, answers and strays interleave.
THEOREM CallbackHasFrame == Spec => []AnswerHasFrame
<1>1. CacheInv => AnswerHasFrame
      BY DEF CacheInv, ServiceKnowsCaller, StrayHasCause, AnswerHasFrame
<1>2. QED BY CacheInvariant, <1>1, PTL

\* After a SUCCESS that was the last answer for its session, the service keeps
\* what the call asked for, whatever other sessions' calls do, unless a stray of
\* the session was in the way.
THEOREM CallersAndServiceAgree == Spec => []Agreement
BY CacheInvariant, PTL DEF CacheInv

-----------------------------------------------------------------------------
\* What LockIsReleased needs besides fairness: the holder of mutex_ is never
\* left waiting for nobody.  It can go on, or the service still has its request.
HolderGoesOn ==
  \A w \in Workers : mutex = w =>
    \/ pc[w] \in {"asking", "sent"}
    \/ pc[w] = "waiting" /\ (IsSet(w) \/ service[w] # "none")

\* From the request on the caller is answered or the service has it.
AnswerIsDue ==
  \A w \in Workers : pc[w] \in {"sent", "waiting"} => IsSet(w) \/ service[w] # "none"

\* Every step keeps this.
LEMMA DueStep == CacheInv /\ AnswerIsDue /\ [Next]_vars => AnswerIsDue'
<1> SUFFICES ASSUME CacheInv, AnswerIsDue, [Next]_vars PROVE AnswerIsDue'
    OBVIOUS
<1> USE DEF CacheInv, TypeOK, AnswerIsDue, IsSet, At, GoTo, Steps
<1>1. ASSUME NEW w \in Workers, Run(w) \/ BeginWait(w) \/ Finish(w) PROVE AnswerIsDue'
      BY <1>1 DEF Run, BeginWait, Finish
<1>2. ASSUME NEW w \in Workers, Lock(w) PROVE AnswerIsDue'
      BY <1>2 DEF Lock
<1>3. ASSUME NEW w \in Workers, Ask(w) PROVE AnswerIsDue'
  <2>1. \A v \in Workers \ {w} : /\ pc'[v] = pc[v] /\ service'[v] = service[v]
                               /\ condition'[v] = condition[v]
        BY <1>3 DEF Ask
  <2>2. pc'[w] = "finish" \/ service'[w] = "accepted"
        BY <1>3 DEF Ask
  <2>3. QED BY <2>1, <2>2
<1>4. ASSUME NEW w \in Workers, GiveUp(w) \/ Return(w) PROVE AnswerIsDue'
      BY <1>4 DEF GiveUp, Return, Leave
<1>5. ASSUME NEW w \in Workers, Serve(w) PROVE AnswerIsDue'
      BY <1>5 DEF Serve
<1>6. ASSUME NEW w \in Workers, Answer(w) PROVE AnswerIsDue'
  <2>1. condition'[w] \in {"ok", "bad"}
        BY <1>6 DEF Answer
  <2>2. \A v \in Workers \ {w} : condition'[v] = condition[v] /\ service'[v] = service[v]
        BY <1>6 DEF Answer
  <2>3. UNCHANGED pc
        BY <1>6 DEF Answer
  <2>4. QED BY <2>1, <2>2, <2>3
<1>7. ASSUME NEW w \in Workers, NEW op \in {"save", "revoke"}, NEW s \in Sessions,
             Queue(w, op, s)
      PROVE  AnswerIsDue'
      BY <1>7 DEF Queue
<1>8. ASSUME NEW w \in Workers, ServeLate(w) \/ AnswerLate(w) PROVE AnswerIsDue'
      BY <1>8 DEF ServeLate, AnswerLate
<1>9. CASE UNCHANGED <<pc, condition, service>>
      BY <1>9
<1>10. QED
      BY <1>1, <1>2, <1>3, <1>4, <1>5, <1>6, <1>7, <1>8, <1>9
         DEF Next, Worker, Service, Destroy, Recreate, vars

\* No call holds the manager's lock with nothing left that could let it go on:
\* no refusal, failure or late answer of the service is forgotten.
THEOREM HolderIsNotForgotten == Spec => []HolderGoesOn
<1>1. Init => AnswerIsDue
      BY DEF Init, AnswerIsDue
<1>2. CacheInv /\ AnswerIsDue => HolderGoesOn
      BY DEF CacheInv, HolderHasFrame, InLock, AnswerIsDue, HolderGoesOn
<1>3. QED BY <1>1, <1>2, DueStep, CacheInvariant, PTL DEF Spec
=============================================================================
