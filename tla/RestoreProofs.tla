--------------------------- MODULE RestoreProofs ---------------------------
(***************************************************************************)
(* What holds of Restore for any number of sessions, of calls to           *)
(* TriggerRestore and of rounds: a restoring thread has one pull of a      *)
(* session under way at most, and what was restored stays restored.        *)
(***************************************************************************)
EXTENDS Restore, TLAPS

ThreadStates ==
  [step : Steps, round : 0..MaxRounds, todo : SUBSET Sessions, session : Sessions \cup {NoSession}]

Statuses == [Sessions -> SyncStatus \cup {"none"}]
Pulls == [Sessions -> [live : Nat, gone : Nat]]

\* A thread has dataMutex_ exactly in its rounds, and has rounds left until it
\* notifies.
KeepsTime(r) ==
  /\ dataMutex = r <=> thread[r].step \in {"round", "asked"}
  /\ At(r, "asked") <=> thread[r].session # NoSession
  /\ thread[r].step \notin {"notify", "ended"} => thread[r].round < MaxRounds

\* What a round has still to ask for is not restored and not being pulled.
TodoIsWanted(r) ==
  \A s \in thread[r].todo :
    /\ thread[r].step \in {"round", "asked"}
    /\ syncStatus[r][s] \notin {"success", "syncing"}
    /\ thread[r].session # s

\* PullsMatchStatus of one thread and one session; while a pull is asked for,
\* its status is still to be set.
Matches(r, s) ==
  /\ Count(r, s) <= 1
  /\ Count(r, s) = 1 => syncStatus[r][s] = "syncing" \/ thread[r].session = s
  /\ syncStatus[r][s] = "syncing" => Count(r, s) = 1 \/ s \in lost[r]
  /\ thread[r].session = s => Count(r, s) = 1 /\ syncStatus[r][s] \notin {"success", "syncing"}
  /\ At(r, "new") => syncStatus[r][s] = "none" /\ Count(r, s) = 0

\* The inductive invariant, of one thread and of all.
ThreadInv(r) ==
  /\ KeepsTime(r)
  /\ TodoIsWanted(r)
  /\ At(r, "ended") \/ \A s \in Sessions : Matches(r, s)

RestoreInv == TypeOK /\ \A r \in Restorers : ThreadInv(r)

-----------------------------------------------------------------------------
\* Thread r goes on to e; its status of session s becomes v; what it has
\* pulled of s becomes p.
GoesOn(r, e) == e \in ThreadStates /\ thread' = [thread EXCEPT ![r] = e]
StatusIs(r, s, v) == v \in SyncStatus /\ syncStatus' = [syncStatus EXCEPT ![r][s] = v]
PullsAre(r, s, p) == p \in [live : Nat, gone : Nat] /\ pulls' = [pulls EXCEPT ![r][s] = p]

\* Nothing else changes with them.
LEMMA OneThread ==
  ASSUME TypeOK, NEW r \in Restorers, NEW e, GoesOn(r, e)
  PROVE  /\ thread' \in [Restorers -> ThreadStates]
         /\ thread'[r] = e
         /\ \A q \in Restorers : q # r => thread'[q] = thread[q]
BY DEF GoesOn, TypeOK, ThreadStates

\* Likewise of the statuses of a thread.
LEMMA OneStatus ==
  ASSUME TypeOK, NEW r \in Restorers, NEW s \in Sessions, NEW v, StatusIs(r, s, v)
  PROVE  /\ syncStatus' \in [Restorers -> Statuses]
         /\ syncStatus'[r][s] = v
         /\ \A t \in Sessions : t # s => syncStatus'[r][t] = syncStatus[r][t]
         /\ \A q \in Restorers : q # r => syncStatus'[q] = syncStatus[q]
BY DEF StatusIs, TypeOK, Statuses

\* And of its pulls.
LEMMA OnePull ==
  ASSUME TypeOK, NEW r \in Restorers, NEW s \in Sessions, NEW p, PullsAre(r, s, p)
  PROVE  /\ pulls' \in [Restorers -> Pulls]
         /\ pulls'[r][s] = p
         /\ \A t \in Sessions : t # s => pulls'[r][t] = pulls[r][t]
         /\ \A q \in Restorers : q # r => pulls'[q] = pulls[q]
BY DEF PullsAre, TypeOK, Pulls

\* The types of what a thread has.
LEMMA ThreadTypes ==
  ASSUME TypeOK, NEW r \in Restorers
  PROVE  /\ thread[r] \in ThreadStates /\ thread[r].step \in Steps
         /\ thread[r].round \in 0..MaxRounds /\ thread[r].todo \subseteq Sessions
         /\ thread[r].session \in Sessions \cup {NoSession}
         /\ \A s \in Sessions : /\ syncStatus[r][s] \in SyncStatus \cup {"none"}
                                /\ pulls[r][s] \in [live : Nat, gone : Nat]
                                /\ pulls[r][s].live \in Nat /\ pulls[r][s].gone \in Nat
<1>1. thread[r] \in ThreadStates
      BY DEF TypeOK, ThreadStates
<1>2. ASSUME NEW s \in Sessions
      PROVE  syncStatus[r][s] \in SyncStatus \cup {"none"} /\ pulls[r][s] \in [live : Nat, gone : Nat]
      BY DEF TypeOK
<1>3. QED BY <1>1, <1>2 DEF ThreadStates

\* A thread all of whose state is as it was keeps its invariant.
LEMMA OtherThread ==
  ASSUME NEW q \in Restorers, ThreadInv(q),
         dataMutex' = q <=> dataMutex = q, thread'[q] = thread[q], syncStatus'[q] = syncStatus[q],
         pulls'[q] = pulls[q], lost'[q] = lost[q]
  PROVE  ThreadInv(q)'
BY DEF ThreadInv, KeepsTime, TodoIsWanted, Matches, Count, At

\* A step of one thread keeps the invariant where it keeps the thread's.
LEMMA OneThreadInv ==
  ASSUME RestoreInv, NEW r \in Restorers, TypeOK', ThreadInv(r)',
         \A q \in Restorers : q # r =>
           /\ dataMutex' = q <=> dataMutex = q
           /\ thread'[q] = thread[q] /\ syncStatus'[q] = syncStatus[q]
           /\ pulls'[q] = pulls[q] /\ lost'[q] = lost[q]
  PROVE  RestoreInv'
<1>1. ASSUME NEW q \in Restorers, q # r PROVE ThreadInv(q)'
      BY <1>1, OtherThread DEF RestoreInv
<1>2. QED BY <1>1 DEF RestoreInv

-----------------------------------------------------------------------------
\* Init establishes the inductive invariant.
LEMMA RestoreInit == Init => RestoreInv
<1> SUFFICES ASSUME Init PROVE RestoreInv
    OBVIOUS
<1>1. NoPull \in [live : Nat, gone : Nat] /\ NoPull.live = 0 /\ NoPull.gone = 0
      BY DEF NoPull
<1>2. [step |-> "new", round |-> 0, todo |-> {}, session |-> NoSession] \in ThreadStates
      BY RestoreAssumption DEF ThreadStates, Steps
<1>3. TypeOK
      BY <1>1, <1>2 DEF Init, TypeOK, ThreadStates, SyncStatus
<1>4. ASSUME NEW r \in Restorers PROVE ThreadInv(r)
  <2>1. /\ thread[r].step = "new" /\ thread[r].round = 0 /\ thread[r].todo = {}
        /\ thread[r].session = NoSession /\ dataMutex # r
        /\ \A s \in Sessions : syncStatus[r][s] = "none" /\ Count(r, s) = 0
        BY <1>1, RestoreAssumption DEF Init, Count
  <2>2. QED BY <2>1, RestoreAssumption DEF ThreadInv, KeepsTime, TodoIsWanted, Matches, At
<1>5. QED BY <1>3, <1>4 DEF RestoreInv

\* CreateObject and DeleteObject keep the inductive invariant.
LEMMA TableSteps ==
  ASSUME RestoreInv, NEW s \in Sessions,
         CreateTable(s) \/ CacheObject(s) \/ DeleteTable(s) \/ RemoveCacheObject(s)
  PROVE  RestoreInv'
<1>1. UNCHANGED <<dataMutex, thread, syncStatus, lost>>
      BY DEF CreateTable, CacheObject, DeleteTable, RemoveCacheObject
<1>2. table' \subseteq Sessions /\ objects' \subseteq Sessions
      /\ job' \in [Sessions -> {"idle", "cache", "remove"}]
      BY DEF RestoreInv, TypeOK, CreateTable, CacheObject, DeleteTable, RemoveCacheObject
<1>3. CASE UNCHANGED pulls
  <2>1. TypeOK'
        BY <1>1, <1>2, <1>3 DEF RestoreInv, TypeOK
  <2>2. \A r \in Restorers : ThreadInv(r)'
        BY <1>1, <1>3, OtherThread DEF RestoreInv
  <2>3. QED BY <2>1, <2>2 DEF RestoreInv
<1>4. CASE RemoveCacheObject(s)
  <2>1. pulls' = [r \in Restorers |-> [pulls[r] EXCEPT ![s] = [live |-> 0, gone |-> Count(r, s)]]]
        BY <1>4 DEF RemoveCacheObject
  <2>2. \A r \in Restorers : pulls[r] \in Pulls /\ Count(r, s) \in Nat
        BY ThreadTypes DEF RestoreInv, TypeOK, Pulls, Count
  <2>3. ASSUME NEW r \in Restorers
        PROVE  /\ pulls'[r] \in Pulls
               /\ pulls'[r][s].live = 0 /\ pulls'[r][s].gone = Count(r, s)
               /\ \A t \in Sessions : t # s => pulls'[r][t] = pulls[r][t]
    <3>1. PICK p : p = [live |-> 0, gone |-> Count(r, s)]
          OBVIOUS
    <3>2. p \in [live : Nat, gone : Nat] /\ p.live = 0 /\ p.gone = Count(r, s)
          BY <2>2, <3>1
    <3>3. pulls'[r] = [pulls[r] EXCEPT ![s] = p]
          BY <2>1, <3>1
    <3>4. QED BY <2>2, <3>2, <3>3 DEF Pulls
  <2>4. TypeOK'
    <3>1. pulls' \in [Restorers -> Pulls]
          BY <2>1, <2>3
    <3>2. QED BY <1>1, <1>2, <3>1 DEF RestoreInv, TypeOK, Pulls
  <2>5. \A r \in Restorers, t \in Sessions : Count(r, t)' = Count(r, t)
    <3>1. ASSUME NEW r \in Restorers PROVE Count(r, s)' = Count(r, s)
      <4>1. PICK n \in Nat : n = Count(r, s)
            BY <2>2
      <4>2. pulls'[r][s].live = 0 /\ pulls'[r][s].gone = n
            BY <2>3, <4>1
      <4>3. Count(r, s)' = pulls'[r][s].live + pulls'[r][s].gone
            BY DEF Count
      <4>4. QED BY <4>1, <4>2, <4>3
    <3>2. ASSUME NEW r \in Restorers, NEW t \in Sessions, t # s PROVE Count(r, t)' = Count(r, t)
          BY <2>3, <3>2 DEF Count
    <3>3. QED BY <3>1, <3>2
  <2>6. \A r \in Restorers : ThreadInv(r)'
        BY <1>1, <2>5 DEF RestoreInv, ThreadInv, KeepsTime, TodoIsWanted, Matches, At
  <2>7. QED BY <2>4, <2>6 DEF RestoreInv
<1>5. QED BY <1>3, <1>4 DEF CreateTable, CacheObject, DeleteTable

\* A thread that begins.
LEMMA BeginStep ==
  ASSUME RestoreInv, NEW r \in Restorers, Begin(r)
  PROVE  RestoreInv'
<1>1. PICK e : e = [thread[r] EXCEPT !.step = "lock"]
      OBVIOUS
<1>2. /\ e.step = "lock" /\ e.round = thread[r].round /\ e.todo = thread[r].todo
      /\ e.session = thread[r].session /\ GoesOn(r, e)
      BY <1>1, ThreadTypes DEF RestoreInv, Begin, GoesOn, ThreadStates, Steps
<1>3. /\ thread' \in [Restorers -> ThreadStates] /\ thread'[r] = e
      /\ \A q \in Restorers : q # r => thread'[q] = thread[q]
      BY <1>2, OneThread DEF RestoreInv
<1>4. PICK f \in [Sessions -> {"start", "none"}] : syncStatus' = [syncStatus EXCEPT ![r] = f]
  <2>1. PICK seen \in SUBSET {s \in Sessions : job[s] # "idle"} :
          syncStatus' = [syncStatus EXCEPT ![r] = [s \in Sessions |->
            IF s \in (IF job[s] = "idle" THEN objects ELSE seen) THEN "start" ELSE "none"]]
        BY DEF Begin
  <2>2. PICK f : f = [s \in Sessions |->
            IF s \in (IF job[s] = "idle" THEN objects ELSE seen) THEN "start" ELSE "none"]
        OBVIOUS
  <2>3. f \in [Sessions -> {"start", "none"}]
        BY <2>2
  <2>4. QED BY <2>1, <2>2, <2>3
<1>5. /\ syncStatus' \in [Restorers -> Statuses] /\ syncStatus'[r] = f
      /\ \A q \in Restorers : q # r => syncStatus'[q] = syncStatus[q]
      BY <1>4 DEF RestoreInv, TypeOK, Statuses, SyncStatus
<1>6. UNCHANGED <<table, objects, job, dataMutex, pulls, lost>> /\ At(r, "new")
      BY DEF Begin, tables
<1>7. TypeOK'
      BY <1>3, <1>5, <1>6 DEF RestoreInv, TypeOK, ThreadStates, Statuses
<1>8. ThreadInv(r)'
  <2>1. ThreadInv(r)
        BY DEF RestoreInv
  <2>2. KeepsTime(r)' /\ TodoIsWanted(r)'
        BY <1>2, <1>3, <1>6, <2>1 DEF ThreadInv, KeepsTime, TodoIsWanted, At
  <2>3. \A s \in Sessions : Matches(r, s)'
        BY <1>2, <1>3, <1>5, <1>6, <2>1 DEF ThreadInv, Matches, Count, At
  <2>4. QED BY <2>2, <2>3 DEF ThreadInv
<1>9. QED BY <1>3, <1>5, <1>6, <1>7, <1>8, OneThreadInv

\* A round begins: the thread has dataMutex_, and knows what it wants.
LEMMA LockStep ==
  ASSUME RestoreInv, NEW r \in Restorers, Lock(r)
  PROVE  RestoreInv'
<1>1. PICK e : e = [thread[r] EXCEPT !.step = "round", !.todo = Wanted(r)]
      OBVIOUS
<1>2. /\ e.step = "round" /\ e.round = thread[r].round /\ e.todo = Wanted(r)
      /\ e.session = thread[r].session /\ GoesOn(r, e)
  <2>1. Wanted(r) \subseteq Sessions
        BY DEF RestoreInv, TypeOK, Wanted
  <2>2. e \in ThreadStates /\ e.step = "round" /\ e.round = thread[r].round /\ e.todo = Wanted(r)
        /\ e.session = thread[r].session
        BY <1>1, <2>1, ThreadTypes DEF RestoreInv, ThreadStates, Steps
  <2>3. thread' = [thread EXCEPT ![r] = e]
        BY <1>1 DEF Lock
  <2>4. QED BY <2>2, <2>3 DEF GoesOn
<1>3. /\ thread' \in [Restorers -> ThreadStates] /\ thread'[r] = e
      /\ \A q \in Restorers : q # r => thread'[q] = thread[q]
      BY <1>2, OneThread DEF RestoreInv
<1>4. PICK f \in Statuses :
        /\ syncStatus' = [syncStatus EXCEPT ![r] = f]
        /\ \A s \in Sessions : f[s] = syncStatus[r][s] \/ (syncStatus[r][s] = "none" /\ f[s] = "start")
  <2>1. PICK f : f = [s \in Sessions |->
            IF s \in objects /\ syncStatus[r][s] = "none" THEN "start" ELSE syncStatus[r][s]]
        OBVIOUS
  <2>2. f \in Statuses
        BY <2>1, ThreadTypes DEF RestoreInv, Statuses, SyncStatus
  <2>3. syncStatus' = [syncStatus EXCEPT ![r] = f]
        BY <2>1 DEF Lock
  <2>4. QED BY <2>1, <2>2, <2>3
<1>5. /\ syncStatus' \in [Restorers -> Statuses] /\ syncStatus'[r] = f
      /\ \A q \in Restorers : q # r => syncStatus'[q] = syncStatus[q]
      BY <1>4 DEF RestoreInv, TypeOK, Statuses
<1>6. /\ UNCHANGED <<table, objects, job, pulls, lost>>
      /\ dataMutex = Nobody /\ dataMutex' = r /\ At(r, "lock")
      BY DEF Lock, tables
<1>7. TypeOK'
      BY <1>3, <1>5, <1>6 DEF RestoreInv, TypeOK, ThreadStates, Statuses
<1>8. ThreadInv(r)'
  <2>1. ThreadInv(r)
        BY DEF RestoreInv
  <2>2. KeepsTime(r)'
        BY <1>2, <1>3, <1>6, <2>1 DEF ThreadInv, KeepsTime, At
  <2>3. TodoIsWanted(r)'
    <3>1. thread[r].session = NoSession /\ objects \subseteq Sessions
          BY <1>6, <2>1 DEF ThreadInv, KeepsTime, At, RestoreInv, TypeOK
    <3>2. QED BY <1>2, <1>3, <1>4, <1>5, <3>1, RestoreAssumption DEF TodoIsWanted, Wanted
  <2>4. \A s \in Sessions : Matches(r, s)'
        BY <1>2, <1>3, <1>4, <1>5, <1>6, <2>1 DEF ThreadInv, Matches, Count, At
  <2>5. QED BY <2>2, <2>3, <2>4 DEF ThreadInv
<1>9. \A q \in Restorers : q # r => (dataMutex' = q <=> dataMutex = q)
      BY <1>6, RestoreAssumption
<1>10. QED BY <1>3, <1>5, <1>6, <1>7, <1>8, <1>9, OneThreadInv

\* A round that leaves a session out, or has no other device to ask.
LEMMA LeaveOutStep ==
  ASSUME RestoreInv, NEW r \in Restorers, NEW s \in Sessions, Refused(r, s) \/ SingleDevice(r, s)
  PROVE  RestoreInv'
<1>1. PICK e : e = [thread[r] EXCEPT !.todo = @ \ {s}]
      OBVIOUS
<1>2. /\ e.step = thread[r].step /\ e.round = thread[r].round /\ e.todo = thread[r].todo \ {s}
      /\ e.session = thread[r].session /\ GoesOn(r, e)
      BY <1>1, ThreadTypes DEF RestoreInv, Refused, SingleDevice, GoesOn, ThreadStates
<1>3. /\ thread' \in [Restorers -> ThreadStates] /\ thread'[r] = e
      /\ \A q \in Restorers : q # r => thread'[q] = thread[q]
      BY <1>2, OneThread DEF RestoreInv
<1>4. /\ UNCHANGED <<table, objects, job, dataMutex, pulls, lost>>
      /\ At(r, "round") /\ s \in thread[r].todo
      BY DEF Refused, SingleDevice, tables
<1>5. ThreadInv(r)
      BY DEF RestoreInv
<1>6. thread[r].session = NoSession /\ \A t \in Sessions : Matches(r, t)
      BY <1>4, <1>5 DEF ThreadInv, KeepsTime, At
<1>7. /\ syncStatus' \in [Restorers -> Statuses]
      /\ \A t \in Sessions : \/ syncStatus'[r][t] = syncStatus[r][t]
                             \/ t = s /\ syncStatus'[r][t] = "success"
      /\ \A q \in Restorers : q # r => syncStatus'[q] = syncStatus[q]
  <2>1. CASE UNCHANGED syncStatus
        BY <2>1 DEF RestoreInv, TypeOK, Statuses
  <2>2. CASE StatusIs(r, s, "success")
        BY <2>2, OneStatus DEF RestoreInv
  <2>3. QED BY <2>1, <2>2 DEF Refused, SingleDevice, StatusIs, SyncStatus
<1>8. TypeOK'
      BY <1>3, <1>4, <1>7 DEF RestoreInv, TypeOK, ThreadStates, Statuses
<1>9. Count(r, s) = 0
  <2>1. syncStatus[r][s] \notin {"success", "syncing"} /\ Count(r, s) <= 1 /\ Count(r, s) # 1
        BY <1>4, <1>5, <1>6, RestoreAssumption DEF ThreadInv, TodoIsWanted, Matches
  <2>2. Count(r, s) \in Nat
        BY ThreadTypes DEF RestoreInv, Count
  <2>3. QED BY <2>1, <2>2
<1>10. ThreadInv(r)'
  <2>1. KeepsTime(r)'
        BY <1>2, <1>3, <1>4, <1>5 DEF ThreadInv, KeepsTime, At
  <2>2. TodoIsWanted(r)'
    <3>1. \A t \in thread'[r].todo : t # s /\ t \in thread[r].todo /\ t \in Sessions
          BY <1>2, <1>3, ThreadTypes DEF RestoreInv
    <3>2. QED BY <1>2, <1>3, <1>5, <1>7, <3>1 DEF ThreadInv, TodoIsWanted
  <2>3. ASSUME NEW t \in Sessions PROVE Matches(r, t)'
    <3>1. CASE syncStatus'[r][t] = syncStatus[r][t]
          BY <1>2, <1>3, <1>4, <1>6, <3>1 DEF Matches, Count, At
    <3>2. CASE t = s /\ syncStatus'[r][t] = "success"
      <4>1. Count(r, s)' = 0
            BY <1>4, <1>9 DEF Count
      <4>2. QED BY <1>2, <1>3, <1>4, <1>6, <3>2, <4>1, RestoreAssumption DEF Matches, At
    <3>3. QED BY <1>7, <3>1, <3>2
  <2>4. QED BY <2>1, <2>2, <2>3 DEF ThreadInv
<1>11. QED BY <1>3, <1>4, <1>7, <1>8, <1>10, OneThreadInv

\* A pull is asked for.
LEMMA AskStep ==
  ASSUME RestoreInv, NEW r \in Restorers, NEW s \in Sessions, SyncAllData(r, s)
  PROVE  RestoreInv'
<1>1. PICK e : e = [thread[r] EXCEPT !.step = "asked", !.session = s, !.todo = thread[r].todo \ {s}]
      OBVIOUS
<1>2. /\ e.step = "asked" /\ e.round = thread[r].round /\ e.todo = thread[r].todo \ {s}
      /\ e.session = s /\ GoesOn(r, e)
  <2>1. e \in ThreadStates /\ e.step = "asked" /\ e.round = thread[r].round
        /\ e.todo = thread[r].todo \ {s} /\ e.session = s
        BY <1>1, ThreadTypes DEF RestoreInv, ThreadStates, Steps
  <2>2. thread' = [thread EXCEPT ![r] = e]
        BY <1>1 DEF SyncAllData
  <2>3. QED BY <2>1, <2>2 DEF GoesOn
<1>3. /\ thread' \in [Restorers -> ThreadStates] /\ thread'[r] = e
      /\ \A q \in Restorers : q # r => thread'[q] = thread[q]
      BY <1>2, OneThread DEF RestoreInv
<1>4. /\ UNCHANGED <<table, objects, job, dataMutex, syncStatus, lost>>
      /\ At(r, "round") /\ s \in thread[r].todo
      BY DEF SyncAllData, tables
<1>5. PICK p : p = [pulls[r][s] EXCEPT !.live = @ + 1]
      OBVIOUS
<1>6. PullsAre(r, s, p) /\ p.live = pulls[r][s].live + 1 /\ p.gone = pulls[r][s].gone
  <2>1. /\ p \in [live : Nat, gone : Nat]
        /\ p.live = pulls[r][s].live + 1 /\ p.gone = pulls[r][s].gone
        BY <1>5, ThreadTypes DEF RestoreInv
  <2>2. pulls' = [pulls EXCEPT ![r][s] = p]
        BY <1>5 DEF SyncAllData
  <2>3. QED BY <2>1, <2>2 DEF PullsAre
<1>7. /\ pulls' \in [Restorers -> Pulls] /\ pulls'[r][s] = p
      /\ \A t \in Sessions : t # s => pulls'[r][t] = pulls[r][t]
      /\ \A q \in Restorers : q # r => pulls'[q] = pulls[q]
      BY <1>6, OnePull DEF RestoreInv
<1>8. TypeOK'
      BY <1>3, <1>4, <1>7 DEF RestoreInv, TypeOK, ThreadStates, Pulls
<1>9. ThreadInv(r) /\ thread[r].session = NoSession /\ \A t \in Sessions : Matches(r, t)
      BY <1>4 DEF RestoreInv, ThreadInv, KeepsTime, At
<1>10. /\ syncStatus[r][s] \notin {"success", "syncing"} /\ Count(r, s)' = 1
  <2>1. /\ syncStatus[r][s] \notin {"success", "syncing"} /\ Count(r, s) <= 1 /\ Count(r, s) # 1
        BY <1>4, <1>9, RestoreAssumption DEF ThreadInv, TodoIsWanted, Matches
  <2>2. PICK a \in Nat, b \in Nat : a = pulls[r][s].live /\ b = pulls[r][s].gone
        BY ThreadTypes DEF RestoreInv
  <2>3. a + b <= 1 /\ a + b # 1
        BY <2>1, <2>2 DEF Count
  <2>4. pulls'[r][s].live = a + 1 /\ pulls'[r][s].gone = b
        BY <1>6, <1>7, <2>2
  <2>5. Count(r, s)' = a + 1 + b
        BY <2>4 DEF Count
  <2>6. QED BY <2>1, <2>3, <2>5
<1>11. ThreadInv(r)'
  <2>1. KeepsTime(r)'
        BY <1>2, <1>3, <1>4, <1>9, RestoreAssumption DEF ThreadInv, KeepsTime, At
  <2>2. TodoIsWanted(r)'
        BY <1>2, <1>3, <1>4, <1>9 DEF ThreadInv, TodoIsWanted, At
  <2>3. ASSUME NEW t \in Sessions PROVE Matches(r, t)'
    <3>1. CASE t = s
          BY <1>2, <1>3, <1>4, <1>10, <3>1 DEF Matches, At
    <3>2. CASE t # s
      <4>1. Count(r, t)' = Count(r, t)
            BY <1>7, <3>2 DEF Count
      <4>2. QED BY <1>2, <1>3, <1>4, <1>9, <3>2, <4>1, RestoreAssumption DEF Matches, At
    <3>3. QED BY <3>1, <3>2
  <2>4. QED BY <2>1, <2>2, <2>3 DEF ThreadInv
<1>12. QED BY <1>3, <1>4, <1>7, <1>8, <1>11, OneThreadInv

\* Its status is set.
LEMMA SyncingStep ==
  ASSUME RestoreInv, NEW r \in Restorers, Syncing(r)
  PROVE  RestoreInv'
<1>1. PICK e : e = [thread[r] EXCEPT !.step = "round", !.session = NoSession]
      OBVIOUS
<1>2. /\ e.step = "round" /\ e.round = thread[r].round /\ e.todo = thread[r].todo
      /\ e.session = NoSession /\ GoesOn(r, e)
  <2>1. e \in ThreadStates /\ e.step = "round" /\ e.round = thread[r].round
        /\ e.todo = thread[r].todo /\ e.session = NoSession
        BY <1>1, ThreadTypes DEF RestoreInv, ThreadStates, Steps
  <2>2. thread' = [thread EXCEPT ![r] = e]
        BY <1>1 DEF Syncing
  <2>3. QED BY <2>1, <2>2 DEF GoesOn
<1>3. /\ thread' \in [Restorers -> ThreadStates] /\ thread'[r] = e
      /\ \A q \in Restorers : q # r => thread'[q] = thread[q]
      BY <1>2, OneThread DEF RestoreInv
<1>4. UNCHANGED <<table, objects, job, dataMutex, pulls, lost>> /\ At(r, "asked")
      BY DEF Syncing, tables
<1>5. ThreadInv(r) /\ \A t \in Sessions : Matches(r, t)
      BY <1>4 DEF RestoreInv, ThreadInv, At
<1>6. PICK s \in Sessions : s = thread[r].session
      BY <1>4, <1>5, ThreadTypes DEF RestoreInv, ThreadInv, KeepsTime
<1>7. StatusIs(r, s, "syncing")
      BY <1>6 DEF Syncing, StatusIs, SyncStatus
<1>8. /\ syncStatus' \in [Restorers -> Statuses] /\ syncStatus'[r][s] = "syncing"
      /\ \A t \in Sessions : t # s => syncStatus'[r][t] = syncStatus[r][t]
      /\ \A q \in Restorers : q # r => syncStatus'[q] = syncStatus[q]
      BY <1>7, OneStatus DEF RestoreInv
<1>9. TypeOK'
      BY <1>3, <1>4, <1>8 DEF RestoreInv, TypeOK, ThreadStates, Statuses
<1>10. ThreadInv(r)'
  <2>1. KeepsTime(r)'
        BY <1>2, <1>3, <1>4, <1>5 DEF ThreadInv, KeepsTime, At
  <2>2. TodoIsWanted(r)'
    <3>1. thread[r].todo \subseteq Sessions /\ s \notin thread[r].todo
          BY <1>5, <1>6, ThreadTypes DEF RestoreInv, ThreadInv, TodoIsWanted
    <3>2. QED BY <1>2, <1>3, <1>5, <1>8, <3>1, RestoreAssumption DEF ThreadInv, TodoIsWanted
  <2>3. ASSUME NEW t \in Sessions PROVE Matches(r, t)'
    <3>1. Count(r, t)' = Count(r, t)
          BY <1>4 DEF Count
    <3>2. CASE t = s
          BY <1>2, <1>3, <1>4, <1>5, <1>6, <1>8, <3>1, <3>2, RestoreAssumption DEF Matches, At
    <3>3. CASE t # s
          BY <1>2, <1>3, <1>4, <1>5, <1>6, <1>8, <3>1, <3>3, RestoreAssumption DEF Matches, At
    <3>4. QED BY <3>2, <3>3
  <2>4. QED BY <2>1, <2>2, <2>3 DEF ThreadInv
<1>11. QED BY <1>3, <1>4, <1>8, <1>9, <1>10, OneThreadInv

\* The end of a round, the rest after it, and the notification.
LEMMA RestStep ==
  ASSUME RestoreInv, NEW r \in Restorers, Unlock(r) \/ Rest(r) \/ Notify(r)
  PROVE  RestoreInv'
<1>1. ThreadInv(r) /\ thread[r] \in ThreadStates /\ thread[r].round \in 0..MaxRounds
      BY ThreadTypes DEF RestoreInv
<1>2. /\ UNCHANGED <<table, objects, job, syncStatus, pulls, lost>>
      /\ thread[r].step \in {"round", "rest", "notify"} /\ thread[r].session = NoSession
      BY <1>1 DEF Unlock, Rest, Notify, tables, At, ThreadInv, KeepsTime
<1>3. \E e \in ThreadStates :
        /\ GoesOn(r, e) /\ e.todo = thread[r].todo /\ e.session = NoSession
        /\ e.step \in {"rest", "notify", "lock", "ended"}
        /\ e.step \notin {"notify", "ended"} => e.round < MaxRounds
        /\ thread[r].todo = {}
        /\ dataMutex' # r /\ \A q \in Restorers : q # r => (dataMutex' = q <=> dataMutex = q)
  <2>1. CASE Unlock(r)
    <3>1. PICK e : e = [thread[r] EXCEPT !.step = "rest"]
          OBVIOUS
    <3>2. /\ e \in ThreadStates /\ e.step = "rest" /\ e.round = thread[r].round
          /\ e.todo = thread[r].todo /\ e.session = thread[r].session
          BY <1>1, <3>1 DEF ThreadStates, Steps
    <3>3. thread' = [thread EXCEPT ![r] = e] /\ thread[r].todo = {} /\ dataMutex' = Nobody
          BY <2>1, <3>1 DEF Unlock
    <3>4. dataMutex = r /\ thread[r].round < MaxRounds
          BY <1>1, <2>1 DEF Unlock, ThreadInv, KeepsTime, At
    <3>5. QED BY <1>2, <3>2, <3>3, <3>4, RestoreAssumption DEF GoesOn
  <2>2. CASE Rest(r)
    <3>1. thread[r].round < MaxRounds /\ dataMutex # r /\ thread[r].todo = {}
          BY <1>1, <2>2 DEF Rest, ThreadInv, KeepsTime, TodoIsWanted, At
    <3>2. PICK n \in 0..MaxRounds : n = thread[r].round + 1
          BY <1>1, <3>1, RestoreAssumption
    <3>3. PICK k \in {"notify", "lock"} : k = IF n = MaxRounds THEN "notify" ELSE "lock"
          OBVIOUS
    <3>4. k = "lock" => n < MaxRounds
          BY <3>2, <3>3, RestoreAssumption
    <3>5. PICK e : e = [thread[r] EXCEPT !.round = n, !.step = k]
          OBVIOUS
    <3>6. /\ e \in ThreadStates /\ e.step = k /\ e.round = n
          /\ e.todo = thread[r].todo /\ e.session = thread[r].session
          BY <1>1, <3>5 DEF ThreadStates, Steps
    <3>7. thread' = [thread EXCEPT ![r] = e] /\ UNCHANGED dataMutex
          BY <2>2, <3>2, <3>3, <3>5 DEF Rest
    <3>8. QED BY <1>2, <3>1, <3>4, <3>6, <3>7 DEF GoesOn
  <2>3. CASE Notify(r)
    <3>1. PICK e : e = [thread[r] EXCEPT !.step = "ended"]
          OBVIOUS
    <3>2. /\ e \in ThreadStates /\ e.step = "ended"
          /\ e.todo = thread[r].todo /\ e.session = thread[r].session
          BY <1>1, <3>1 DEF ThreadStates, Steps
    <3>3. thread' = [thread EXCEPT ![r] = e] /\ UNCHANGED dataMutex
          BY <2>3, <3>1 DEF Notify
    <3>4. dataMutex # r /\ thread[r].todo = {}
          BY <1>1, <2>3 DEF Notify, ThreadInv, KeepsTime, TodoIsWanted, At
    <3>5. QED BY <1>2, <3>2, <3>3, <3>4 DEF GoesOn
  <2>4. QED BY <2>1, <2>2, <2>3
<1>4. PICK e \in ThreadStates :
        /\ GoesOn(r, e) /\ e.todo = {} /\ e.session = NoSession
        /\ e.step \in {"rest", "notify", "lock", "ended"}
        /\ e.step \notin {"notify", "ended"} => e.round < MaxRounds
        /\ dataMutex' # r /\ \A q \in Restorers : q # r => (dataMutex' = q <=> dataMutex = q)
      BY <1>3
<1>5. /\ thread' \in [Restorers -> ThreadStates] /\ thread'[r] = e
      /\ \A q \in Restorers : q # r => thread'[q] = thread[q]
      BY <1>4, OneThread DEF RestoreInv
<1>6. dataMutex' \in Restorers \cup {Nobody}
      BY DEF RestoreInv, TypeOK, Unlock, Rest, Notify
<1>7. TypeOK'
      BY <1>2, <1>5, <1>6 DEF RestoreInv, TypeOK, ThreadStates
<1>8. ThreadInv(r)'
  <2>1. KeepsTime(r)' /\ TodoIsWanted(r)'
        BY <1>4, <1>5 DEF KeepsTime, TodoIsWanted, At
  <2>2. ASSUME NEW t \in Sessions PROVE Matches(r, t)'
    <3>1. Matches(r, t) /\ Count(r, t)' = Count(r, t)
          BY <1>1, <1>2 DEF ThreadInv, At, Count
    <3>2. QED BY <1>2, <1>4, <1>5, <3>1, RestoreAssumption DEF Matches, At
  <2>3. QED BY <2>1, <2>2 DEF ThreadInv
<1>9. QED BY <1>2, <1>4, <1>5, <1>7, <1>8, OneThreadInv

\* What an answer does: the status may change, to that of a pull that ended;
\* the pulls under way are fewer by one, or are none where the thread has ended.
LEMMA AnswerEffect ==
  ASSUME RestoreInv, NEW r \in Restorers, NEW s \in Sessions,
         OnComplete(r, s) \/ OnCompleteDeleted(r, s)
  PROVE  /\ syncStatus[r][s] = "syncing" /\ thread[r].session = NoSession /\ dataMutex = Nobody
         /\ syncStatus' \in [Restorers -> Statuses]
         /\ syncStatus'[r][s] \in {"success", "fail"} \/ (UNCHANGED syncStatus /\ s \in lost'[r])
         /\ \A t \in Sessions : t # s => syncStatus'[r][t] = syncStatus[r][t]
         /\ \A q \in Restorers : q # r => syncStatus'[q] = syncStatus[q]
         /\ pulls' \in [Restorers -> Pulls] /\ Count(r, s)' = 0
         /\ \A t \in Sessions : t # s => pulls'[r][t] = pulls[r][t]
         /\ \A q \in Restorers : q # r => pulls'[q] = pulls[q]
         /\ pulls'[r][s].live <= pulls[r][s].live
<1>1. ~At(r, "ended") /\ dataMutex = Nobody /\ ThreadInv(r)
      BY DEF OnComplete, OnCompleteDeleted, RestoreInv
<1>2. thread[r].session = NoSession /\ Matches(r, s)
      BY <1>1, RestoreAssumption DEF ThreadInv, KeepsTime, At
<1>3. PICK a \in Nat, b \in Nat : a = pulls[r][s].live /\ b = pulls[r][s].gone
      BY ThreadTypes DEF RestoreInv
<1>4. a > 0 \/ b > 0
      BY <1>3 DEF OnComplete, OnCompleteDeleted
<1>5. Count(r, s) = a + b /\ a + b <= 1
      BY <1>2, <1>3 DEF Count, Matches
<1>6. a + b = 1 /\ syncStatus[r][s] = "syncing"
      BY <1>2, <1>4, <1>5, RestoreAssumption DEF Matches
<1>7. /\ syncStatus' \in [Restorers -> Statuses]
      /\ syncStatus'[r][s] \in {"success", "fail"} \/ (UNCHANGED syncStatus /\ s \in lost'[r])
      /\ \A t \in Sessions : t # s => syncStatus'[r][t] = syncStatus[r][t]
      /\ \A q \in Restorers : q # r => syncStatus'[q] = syncStatus[q]
  <2>1. CASE \E v \in {"success", "fail"} : syncStatus' = [syncStatus EXCEPT ![r][s] = v]
    <3>1. PICK v \in {"success", "fail"} : StatusIs(r, s, v)
          BY <2>1 DEF StatusIs, SyncStatus
    <3>2. QED BY <3>1, OneStatus DEF RestoreInv
  <2>2. CASE UNCHANGED syncStatus /\ lost' = [lost EXCEPT ![r] = @ \cup {s}]
        BY <2>2 DEF RestoreInv, TypeOK, Statuses
  <2>3. QED BY <2>1, <2>2 DEF OnComplete, OnCompleteDeleted
<1>8. \E p \in [live : Nat, gone : Nat] : p.live + p.gone = 0 /\ p.live <= a /\ PullsAre(r, s, p)
  <2>1. pulls[r][s] \in [live : Nat, gone : Nat]
        BY ThreadTypes DEF RestoreInv
  <2>2. CASE OnComplete(r, s)
    <3>1. a = 1 /\ b = 0
          BY <1>3, <1>6, <2>2 DEF OnComplete
    <3>2. PICK p : p = [pulls[r][s] EXCEPT !.live = @ - 1]
          OBVIOUS
    <3>3. p \in [live : Nat, gone : Nat] /\ p.live = 0 /\ p.gone = 0
      <4>1. pulls[r][s].live = 1 /\ pulls[r][s].gone = 0
            BY <1>3, <3>1
      <4>2. p \in [live : Int, gone : Int] /\ p.live = 0 /\ p.gone = 0
            BY <2>1, <3>2, <4>1
      <4>3. QED BY <4>2
    <3>4. pulls' = [pulls EXCEPT ![r][s] = p]
      <4>1. PICK n : n = pulls[r][s].live - 1
            OBVIOUS
      <4>2. pulls' = [pulls EXCEPT ![r][s].live = n]
            BY <2>2, <4>1 DEF OnComplete
      <4>3. p = [pulls[r][s] EXCEPT !.live = n]
            BY <3>2, <4>1
      <4>4. QED BY <4>2, <4>3
    <3>5. PullsAre(r, s, p) /\ p.live + p.gone = 0 /\ p.live <= a
          BY <3>1, <3>3, <3>4 DEF PullsAre
    <3>6. QED BY <3>3, <3>5
  <2>3. CASE OnCompleteDeleted(r, s)
    <3>1. a = 0 /\ b = 1
          BY <1>3, <1>6, <2>3 DEF OnCompleteDeleted
    <3>2. PICK p : p = [pulls[r][s] EXCEPT !.gone = @ - 1]
          OBVIOUS
    <3>3. p \in [live : Nat, gone : Nat] /\ p.live = 0 /\ p.gone = 0
      <4>1. pulls[r][s].live = 0 /\ pulls[r][s].gone = 1
            BY <1>3, <3>1
      <4>2. p \in [live : Int, gone : Int] /\ p.live = 0 /\ p.gone = 0
            BY <2>1, <3>2, <4>1
      <4>3. QED BY <4>2
    <3>4. pulls' = [pulls EXCEPT ![r][s] = p]
      <4>1. PICK n : n = pulls[r][s].gone - 1
            OBVIOUS
      <4>2. pulls' = [pulls EXCEPT ![r][s].gone = n]
            BY <2>3, <4>1 DEF OnCompleteDeleted
      <4>3. p = [pulls[r][s] EXCEPT !.gone = n]
            BY <3>2, <4>1
      <4>4. QED BY <4>2, <4>3
    <3>5. PullsAre(r, s, p) /\ p.live + p.gone = 0 /\ p.live <= a
          BY <3>1, <3>3, <3>4 DEF PullsAre
    <3>6. QED BY <3>3, <3>5
  <2>4. QED BY <2>2, <2>3
<1>9. PICK p \in [live : Nat, gone : Nat] : p.live + p.gone = 0 /\ p.live <= a /\ PullsAre(r, s, p)
      BY <1>8
<1>10. /\ pulls' \in [Restorers -> Pulls] /\ pulls'[r][s] = p
       /\ \A t \in Sessions : t # s => pulls'[r][t] = pulls[r][t]
       /\ \A q \in Restorers : q # r => pulls'[q] = pulls[q]
       BY <1>9, OnePull DEF RestoreInv
<1>11. Count(r, s)' = 0 /\ pulls'[r][s].live <= pulls[r][s].live
       BY <1>3, <1>9, <1>10 DEF Count
<1>12. QED BY <1>1, <1>2, <1>6, <1>7, <1>10, <1>11

\* An answer keeps the inductive invariant.
LEMMA AnswerStep ==
  ASSUME RestoreInv, NEW r \in Restorers, NEW s \in Sessions,
         OnComplete(r, s) \/ OnCompleteDeleted(r, s)
  PROVE  RestoreInv'
<1>1. /\ UNCHANGED <<table, objects, job, dataMutex, thread>> /\ ~At(r, "ended")
      /\ lost' \in [Restorers -> SUBSET Sessions] /\ lost[r] \subseteq lost'[r]
      /\ \A q \in Restorers : q # r => lost'[q] = lost[q]
  <2>1. lost \in [Restorers -> SUBSET Sessions]
        BY DEF RestoreInv, TypeOK
  <2>2. UNCHANGED lost \/ lost' = [lost EXCEPT ![r] = @ \cup {s}]
        BY DEF OnComplete, OnCompleteDeleted
  <2>3. /\ lost' \in [Restorers -> SUBSET Sessions] /\ lost[r] \subseteq lost'[r]
        /\ \A q \in Restorers : q # r => lost'[q] = lost[q]
        BY <2>1, <2>2
  <2>4. UNCHANGED <<table, objects, job, dataMutex, thread>> /\ ~At(r, "ended")
        BY DEF OnComplete, OnCompleteDeleted, tables
  <2>5. QED BY <2>3, <2>4
<1>2. TypeOK'
      BY <1>1, AnswerEffect DEF RestoreInv, TypeOK, Statuses, Pulls
<1>3. ThreadInv(r) /\ \A t \in Sessions : Matches(r, t)
      BY <1>1 DEF RestoreInv, ThreadInv
<1>4. ThreadInv(r)'
  <2>1. KeepsTime(r)'
        BY <1>1, <1>3 DEF ThreadInv, KeepsTime, At
  <2>2. TodoIsWanted(r)'
    <3>1. thread[r].todo \subseteq Sessions
          BY ThreadTypes DEF RestoreInv
    <3>2. thread[r].step \notin {"round", "asked"}
          BY <1>3, AnswerEffect, RestoreAssumption DEF ThreadInv, KeepsTime
    <3>3. QED BY <1>1, <1>3, <3>2 DEF ThreadInv, TodoIsWanted
  <2>3. ASSUME NEW t \in Sessions PROVE Matches(r, t)'
    <3>1. CASE t = s
      <4>1. syncStatus[r][s] = "syncing" /\ thread[r].session = NoSession /\ Count(r, s)' = 0
            BY AnswerEffect
      <4>2. ~At(r, "new")
            BY <1>3, <4>1 DEF Matches
      <4>3. syncStatus'[r][s] = "syncing" => s \in lost'[r]
            BY AnswerEffect
      <4>4. Count(r, s)' <= 1 /\ Count(r, s)' # 1
            BY <4>1
      <4>5. QED BY <1>1, <3>1, <4>1, <4>2, <4>3, <4>4, RestoreAssumption DEF Matches, At
    <3>2. CASE t # s
      <4>1. Count(r, t)' = Count(r, t) /\ syncStatus'[r][t] = syncStatus[r][t]
            BY <3>2, AnswerEffect DEF Count
      <4>2. QED BY <1>1, <1>3, <4>1 DEF Matches, At
    <3>3. QED BY <3>1, <3>2
  <2>4. QED BY <2>1, <2>2, <2>3 DEF ThreadInv
<1>5. \A q \in Restorers : q # r =>
        /\ dataMutex' = q <=> dataMutex = q
        /\ thread'[q] = thread[q] /\ syncStatus'[q] = syncStatus[q]
        /\ pulls'[q] = pulls[q] /\ lost'[q] = lost[q]
      BY <1>1, AnswerEffect
<1>6. QED BY <1>2, <1>4, <1>5, OneThreadInv

\* And so does an answer that comes too late for its thread.
LEMMA LateAnswerStep ==
  ASSUME RestoreInv, NEW r \in Restorers, NEW s \in Sessions, OnCompleteEnded(r, s)
  PROVE  RestoreInv'
<1>1. UNCHANGED <<table, objects, job, dataMutex, thread, syncStatus, lost>> /\ At(r, "ended")
      BY DEF OnCompleteEnded, tables
<1>2. PullsAre(r, s, NoPull)
      BY DEF OnCompleteEnded, PullsAre, NoPull
<1>3. pulls' \in [Restorers -> Pulls] /\ \A q \in Restorers : q # r => pulls'[q] = pulls[q]
      BY <1>2, OnePull DEF RestoreInv
<1>4. TypeOK'
      BY <1>1, <1>3 DEF RestoreInv, TypeOK, Pulls
<1>5. ThreadInv(r)'
      BY <1>1 DEF RestoreInv, ThreadInv, KeepsTime, TodoIsWanted, At
<1>6. QED BY <1>1, <1>3, <1>4, <1>5, OneThreadInv

\* Every step keeps the inductive invariant.
LEMMA RestoreStep == RestoreInv /\ [Next]_vars => RestoreInv'
<1> SUFFICES ASSUME RestoreInv, [Next]_vars PROVE RestoreInv'
    OBVIOUS
<1>1. ASSUME NEW s \in Sessions,
             CreateTable(s) \/ CacheObject(s) \/ DeleteTable(s) \/ RemoveCacheObject(s)
      PROVE  RestoreInv'
      BY <1>1, TableSteps
<1>2. ASSUME NEW r \in Restorers,
             Begin(r) \/ Lock(r) \/ Syncing(r) \/ Unlock(r) \/ Rest(r) \/ Notify(r)
      PROVE  RestoreInv'
      BY <1>2, BeginStep, LockStep, SyncingStep, RestStep
<1>3. ASSUME NEW r \in Restorers, NEW s \in Sessions,
             \/ Refused(r, s) \/ SingleDevice(r, s) \/ SyncAllData(r, s)
             \/ OnComplete(r, s) \/ OnCompleteDeleted(r, s) \/ OnCompleteEnded(r, s)
      PROVE  RestoreInv'
      BY <1>3, LeaveOutStep, AskStep, AnswerStep, LateAnswerStep
<1>4. CASE UNCHANGED vars
      BY <1>4, OtherThread DEF vars, tables, RestoreInv, TypeOK
<1>5. QED BY <1>1, <1>2, <1>3, <1>4 DEF Next

\* The inductive invariant holds throughout.
LEMMA RestoreInvariant == Spec => []RestoreInv
BY RestoreInit, RestoreStep, PTL DEF Spec

-----------------------------------------------------------------------------
\* The module's type invariant, for any number of sessions, of calls and of
\* rounds; the round stays below MAX_RETRY_SIZE until the loop ends.
THEOREM TypeCorrect == Spec => []TypeOK
<1>1. RestoreInv => TypeOK
      BY DEF RestoreInv
<1>2. QED BY <1>1, RestoreInvariant, PTL

\* TriggerRestore never asks for a session twice at a time, and a status of
\* "syncing" has a pull behind it, though the status is set only after the
\* pull may have been answered: the answer has to wait for dataMutex_.
THEOREM PullsDoMatch == Spec => []PullsMatchStatus
<1>1. RestoreInv => PullsMatchStatus
      BY DEF RestoreInv, ThreadInv, Matches, PullsMatchStatus
<1>2. QED BY <1>1, RestoreInvariant, PTL

\* What was restored is not in a step's way: the status of a session that a
\* thread has restored stays, and nothing more is pulled of it.
LEMMA RestoredIsKept ==
  ASSUME RestoreInv, [Next]_vars, NEW r \in Restorers, NEW s \in Sessions,
         syncStatus[r][s] = "success"
  PROVE  syncStatus'[r][s] = "success" /\ pulls'[r][s].live <= pulls[r][s].live
<1>1. pulls[r][s].live \in Nat /\ pulls[r][s].live <= pulls[r][s].live
      BY ThreadTypes DEF RestoreInv
<1>2. CASE UNCHANGED <<syncStatus, pulls>>
      BY <1>1, <1>2
<1>3. ASSUME NEW t \in Sessions, RemoveCacheObject(t)
      PROVE  syncStatus'[r][s] = "success" /\ pulls'[r][s].live <= pulls[r][s].live
  <2>1. PICK f : f = [pulls[r] EXCEPT ![t] = [live |-> 0, gone |-> Count(r, t)]]
        OBVIOUS
  <2>2. pulls'[r] = f /\ UNCHANGED syncStatus
        BY <1>3, <2>1 DEF RemoveCacheObject
  <2>3. pulls[r] \in Pulls
        BY DEF RestoreInv, TypeOK, Pulls
  <2>4. f[s].live = 0 \/ f[s] = pulls[r][s]
        BY <2>1, <2>3 DEF Pulls
  <2>5. QED BY <1>1, <2>2, <2>4
<1>4. ASSUME NEW q \in Restorers, Begin(q) \/ Lock(q)
      PROVE  syncStatus'[r][s] = "success" /\ pulls'[r][s].live <= pulls[r][s].live
  <2>1. UNCHANGED pulls
        BY <1>4 DEF Begin, Lock
  <2>2. CASE q # r
        BY <1>4, <2>2 DEF Begin, Lock, RestoreInv, TypeOK
  <2>3. CASE q = r
    <3>1. ~Begin(r)
          BY DEF Begin, RestoreInv, ThreadInv, Matches, At
    <3>2. Lock(r)
          BY <1>4, <2>3, <3>1
    <3>3. QED BY <3>2 DEF Lock, RestoreInv, TypeOK
  <2>4. QED BY <1>1, <2>1, <2>2, <2>3
<1>5. ASSUME NEW q \in Restorers, Syncing(q)
      PROVE  syncStatus'[r][s] = "success" /\ pulls'[r][s].live <= pulls[r][s].live
  <2>1. UNCHANGED pulls /\ At(q, "asked") /\ ThreadInv(q)
        BY <1>5 DEF Syncing, RestoreInv
  <2>2. PICK t \in Sessions : t = thread[q].session
        BY <2>1, ThreadTypes DEF RestoreInv, ThreadInv, KeepsTime
  <2>3. syncStatus[q][t] # "success"
        BY <2>1, <2>2 DEF ThreadInv, Matches, At
  <2>4. StatusIs(q, t, "syncing")
        BY <1>5, <2>2 DEF Syncing, StatusIs, SyncStatus
  <2>5. QED BY <1>1, <2>1, <2>3, <2>4, OneStatus DEF RestoreInv
<1>6. ASSUME NEW q \in Restorers, NEW t \in Sessions, SingleDevice(q, t)
      PROVE  syncStatus'[r][s] = "success" /\ pulls'[r][s].live <= pulls[r][s].live
  <2>1. StatusIs(q, t, "success") /\ UNCHANGED pulls
        BY <1>6 DEF SingleDevice, StatusIs, SyncStatus
  <2>2. QED BY <1>1, <2>1, OneStatus DEF RestoreInv
<1>7. ASSUME NEW q \in Restorers, NEW t \in Sessions, SyncAllData(q, t)
      PROVE  syncStatus'[r][s] = "success" /\ pulls'[r][s].live <= pulls[r][s].live
  <2>1. UNCHANGED syncStatus /\ t \in thread[q].todo
        BY <1>7 DEF SyncAllData
  <2>2. syncStatus[q][t] # "success"
        BY <2>1 DEF RestoreInv, ThreadInv, TodoIsWanted
  <2>3. q # r \/ t # s
        BY <2>2
  <2>4. PICK n : n = pulls[q][t].live + 1
        OBVIOUS
  <2>5. pulls' = [pulls EXCEPT ![q][t].live = n]
        BY <1>7, <2>4 DEF SyncAllData
  <2>6. pulls'[r][s] = pulls[r][s]
        BY <2>3, <2>5 DEF RestoreInv, TypeOK
  <2>7. QED BY <1>1, <2>1, <2>6
<1>8. ASSUME NEW q \in Restorers, NEW t \in Sessions, OnComplete(q, t) \/ OnCompleteDeleted(q, t)
      PROVE  syncStatus'[r][s] = "success" /\ pulls'[r][s].live <= pulls[r][s].live
  <2>1. /\ syncStatus[q][t] = "syncing"
        /\ \A u \in Sessions : u # t => /\ syncStatus'[q][u] = syncStatus[q][u]
                                        /\ pulls'[q][u] = pulls[q][u]
        /\ \A p \in Restorers : p # q => syncStatus'[p] = syncStatus[p] /\ pulls'[p] = pulls[p]
        BY <1>8, AnswerEffect
  <2>2. syncStatus'[r][s] = syncStatus[r][s] /\ pulls'[r][s] = pulls[r][s]
        BY <2>1
  <2>3. QED BY <1>1, <2>2
<1>9. ASSUME NEW q \in Restorers, NEW t \in Sessions, OnCompleteEnded(q, t)
      PROVE  syncStatus'[r][s] = "success" /\ pulls'[r][s].live <= pulls[r][s].live
  <2>1. UNCHANGED syncStatus /\ PullsAre(q, t, NoPull) /\ NoPull.live = 0
        BY <1>9 DEF OnCompleteEnded, PullsAre, NoPull
  <2>2. pulls'[r][s] = NoPull \/ pulls'[r][s] = pulls[r][s]
        BY <2>1, OnePull DEF RestoreInv
  <2>3. QED BY <1>1, <2>1, <2>2
<1>10. CASE UNCHANGED vars
       BY <1>2, <1>10 DEF vars
<1>11. ASSUME NEW t \in Sessions, CreateTable(t) \/ CacheObject(t) \/ DeleteTable(t)
       PROVE  UNCHANGED <<syncStatus, pulls>>
       BY <1>11 DEF CreateTable, CacheObject, DeleteTable
<1>12. ASSUME NEW q \in Restorers, Unlock(q) \/ Rest(q) \/ Notify(q)
       PROVE  UNCHANGED <<syncStatus, pulls>>
       BY <1>12 DEF Unlock, Rest, Notify
<1>13. ASSUME NEW q \in Restorers, NEW t \in Sessions, Refused(q, t)
       PROVE  UNCHANGED <<syncStatus, pulls>>
       BY <1>13 DEF Refused
<1>14. QED BY <1>2, <1>3, <1>4, <1>5, <1>6, <1>7, <1>8, <1>9, <1>10, <1>11, <1>12, <1>13 DEF Next

\* What an answer or a round may not do to a session that was restored, no
\* step does: no status but "success" follows, and no further pull.
THEOREM RestoredStays == Spec => SuccessIsFinal
<1>1. RestoreInv /\ [Next]_vars =>
        [\A r \in Restorers, s \in Sessions :
           syncStatus[r][s] = "success" =>
             /\ syncStatus'[r][s] = "success"
             /\ pulls'[r][s].live <= pulls[r][s].live]_vars
      BY RestoredIsKept
<1>2. QED BY <1>1, RestoreInvariant, PTL DEF Spec, SuccessIsFinal
=============================================================================
