------------------------------- MODULE Restore -------------------------------
(***************************************************************************)
(* DistributedObjectStoreImpl::TriggerRestore against CreateObject and     *)
(* DeleteObject.                                                           *)
(*                                                                         *)
(* A call starts a detached thread.  Round after round, it walks objects_  *)
(* with dataMutex_ held and asks the database to pull every session it has *)
(* no success for and no pull of under way; the database answers a pull on *)
(* a thread of its own, which takes dataMutex_ too.  After the last round  *)
(* the caller is notified, whatever was restored.  CreateObject and        *)
(* DeleteObject change the engine's table and objects_ in two steps.       *)
(*                                                                         *)
(* A pull refers to syncStatus, in the thread's frame, and to the object   *)
(* it was asked for.  One that is answered when the thread has ended, or   *)
(* the object was deleted, uses freed memory: here nothing comes of it, or *)
(* of a deleted object's, what would if the memory still were as it was.   *)
(* A session is created and deleted by one thread at a time.               *)
(***************************************************************************)
EXTENDS Integers

CONSTANTS
  Sessions,
  Restorers,   (* the threads of the calls to TriggerRestore.  Bound.       *)
  MaxRounds,   (* MAX_RETRY_SIZE.  Bound: it is 5000 in the code.           *)
  NoSession, Nobody

ASSUME RestoreAssumption ==
  /\ NoSession \notin Sessions
  /\ Nobody \notin Restorers
  /\ MaxRounds \in Nat \ {0}

VARIABLES
  table,      (* the sessions the engine has a table of                    *)
  objects,    (* the sessions of objects_                                  *)
  job,        (* where the call for a session is between the two           *)
  dataMutex,  (* the restoring thread that holds dataMutex_                *)
  thread,     (* the state of a restoring thread                           *)
  syncStatus, (* its syncStatus; "none" where there is no entry            *)
  pulls,      (* the pulls it asked for that are not answered              *)
  lost        (* history: sessions whose pull came to nothing              *)

tables == <<table, objects, job>>
vars == <<tables, dataMutex, thread, syncStatus, pulls, lost>>

SyncStatus == {"start", "syncing", "success", "fail"}
Steps == {"new", "lock", "round", "asked", "rest", "notify", "ended"}

\* The pulls of a session: of the object that exists, and of deleted ones.
NoPull == [live |-> 0, gone |-> 0]
Count(r, s) == pulls[r][s].live + pulls[r][s].gone

TypeOK ==
  /\ table \subseteq Sessions
  /\ objects \subseteq Sessions
  /\ job \in [Sessions -> {"idle", "cache", "remove"}]
  /\ dataMutex \in Restorers \cup {Nobody}
  /\ thread \in [Restorers -> [step : Steps, round : 0..MaxRounds, todo : SUBSET Sessions,
                               session : Sessions \cup {NoSession}]]
  /\ syncStatus \in [Restorers -> [Sessions -> SyncStatus \cup {"none"}]]
  /\ pulls \in [Restorers -> [Sessions -> [live : Nat, gone : Nat]]]
  /\ lost \in [Restorers -> SUBSET Sessions]

Init ==
  /\ table = {}
  /\ objects = {}
  /\ job = [s \in Sessions |-> "idle"]
  /\ dataMutex = Nobody
  /\ thread = [r \in Restorers |->
       [step |-> "new", round |-> 0, todo |-> {}, session |-> NoSession]]
  /\ syncStatus = [r \in Restorers |-> [s \in Sessions |-> "none"]]
  /\ pulls = [r \in Restorers |-> [s \in Sessions |-> NoPull]]
  /\ lost = [r \in Restorers |-> {}]

-----------------------------------------------------------------------------
\* CreateObject: the table, then the object.
CreateTable(s) ==
  /\ job[s] = "idle"
  /\ s \notin table
  /\ table' = table \cup {s}
  /\ job' = [job EXCEPT ![s] = "cache"]
  /\ UNCHANGED <<objects, dataMutex, thread, syncStatus, pulls, lost>>

CacheObject(s) ==
  /\ job[s] = "cache"
  /\ dataMutex = Nobody
  /\ objects' = objects \cup {s}
  /\ job' = [job EXCEPT ![s] = "idle"]
  /\ UNCHANGED <<table, dataMutex, thread, syncStatus, pulls, lost>>

\* DeleteObject: the table, then the object, which pulls may still refer to.
DeleteTable(s) ==
  /\ job[s] = "idle"
  /\ s \in table
  /\ table' = table \ {s}
  /\ job' = [job EXCEPT ![s] = "remove"]
  /\ UNCHANGED <<objects, dataMutex, thread, syncStatus, pulls, lost>>

RemoveCacheObject(s) ==
  /\ job[s] = "remove"
  /\ dataMutex = Nobody
  /\ objects' = objects \ {s}
  /\ job' = [job EXCEPT ![s] = "idle"]
  /\ pulls' = [r \in Restorers |-> [pulls[r] EXCEPT ![s] =
       [live |-> 0, gone |-> Count(r, s)]]]
  /\ UNCHANGED <<table, dataMutex, thread, syncStatus, lost>>

-----------------------------------------------------------------------------
At(r, step) == thread[r].step = step

\* The thread reads objects_ without the lock: an object that is entered or
\* taken out meanwhile it sees or does not see.
Begin(r) ==
  /\ At(r, "new")
  /\ \E seen \in SUBSET {s \in Sessions : job[s] # "idle"} :
       syncStatus' = [syncStatus EXCEPT ![r] = [s \in Sessions |->
         IF s \in (IF job[s] = "idle" THEN objects ELSE seen) THEN "start" ELSE "none"]]
  /\ thread' = [thread EXCEPT ![r].step = "lock"]
  /\ UNCHANGED <<tables, dataMutex, pulls, lost>>

\* Mutant of Wanted: a pull that is under way is not waited for.
RetrySyncing(r) == {s \in objects : syncStatus[r][s] # "success"}

\* What a round asks for.  (operator[] makes an entry for a new object.)
Wanted(r) == {s \in objects : syncStatus[r][s] \notin {"success", "syncing"}}

Lock(r) ==
  /\ At(r, "lock")
  /\ dataMutex = Nobody
  /\ dataMutex' = r
  /\ syncStatus' = [syncStatus EXCEPT ![r] = [s \in Sessions |->
       IF s \in objects /\ @[s] = "none" THEN "start" ELSE @[s]]]
  /\ thread' = [thread EXCEPT ![r].step = "round", ![r].todo = Wanted(r)]
  /\ UNCHANGED <<tables, pulls, lost>>

\* SyncAllData refuses: the table is gone already, or Sync failed.  The next
\* round tries again.
Refused(r, s) ==
  /\ At(r, "round")
  /\ s \in thread[r].todo
  /\ thread' = [thread EXCEPT ![r].todo = @ \ {s}]
  /\ UNCHANGED <<tables, dataMutex, syncStatus, pulls, lost>>

\* No other device: that is a success.
SingleDevice(r, s) ==
  /\ At(r, "round")
  /\ s \in thread[r].todo \cap table
  /\ syncStatus' = [syncStatus EXCEPT ![r][s] = "success"]
  /\ thread' = [thread EXCEPT ![r].todo = @ \ {s}]
  /\ UNCHANGED <<tables, dataMutex, pulls, lost>>

\* The pull is started, and may be answered from now on ...
SyncAllData(r, s) ==
  /\ At(r, "round")
  /\ s \in thread[r].todo \cap table
  /\ pulls' = [pulls EXCEPT ![r][s].live = @ + 1]
  /\ thread' = [thread EXCEPT ![r].step = "asked", ![r].session = s, ![r].todo = @ \ {s}]
  /\ UNCHANGED <<tables, dataMutex, syncStatus, lost>>

\* ... but its status is set only when SyncAllData has returned.
Syncing(r) ==
  /\ At(r, "asked")
  /\ syncStatus' = [syncStatus EXCEPT ![r][thread[r].session] = "syncing"]
  /\ thread' = [thread EXCEPT ![r].step = "round", ![r].session = NoSession]
  /\ UNCHANGED <<tables, dataMutex, pulls, lost>>

Unlock(r) ==
  /\ At(r, "round")
  /\ thread[r].todo = {}
  /\ dataMutex' = Nobody
  /\ thread' = [thread EXCEPT ![r].step = "rest"]
  /\ UNCHANGED <<tables, syncStatus, pulls, lost>>

\* Mutants of Rest: the loop runs once too often; a round in which a pull is
\* under way is not counted.
OnceMore(r) ==
  /\ At(r, "rest")
  /\ thread' = [thread EXCEPT ![r].round = @ + 1,
       ![r].step = IF thread[r].round = MaxRounds THEN "notify" ELSE "lock"]
  /\ UNCHANGED <<tables, dataMutex, syncStatus, pulls, lost>>

NotWhileSyncing(r) ==
  /\ At(r, "rest")
  /\ LET next == IF \E s \in Sessions : syncStatus[r][s] = "syncing"
                   THEN thread[r].round ELSE thread[r].round + 1 IN
       thread' = [thread EXCEPT ![r].round = next,
         ![r].step = IF next = MaxRounds THEN "notify" ELSE "lock"]
  /\ UNCHANGED <<tables, dataMutex, syncStatus, pulls, lost>>

\* The thread sleeps unless all is done, which does not end the loop.
Rest(r) ==
  /\ At(r, "rest")
  /\ thread' = [thread EXCEPT ![r].round = @ + 1,
       ![r].step = IF thread[r].round + 1 = MaxRounds THEN "notify" ELSE "lock"]
  /\ UNCHANGED <<tables, dataMutex, syncStatus, pulls, lost>>

Notify(r) ==
  /\ At(r, "notify")
  /\ thread' = [thread EXCEPT ![r].step = "ended"]
  /\ UNCHANGED <<tables, dataMutex, syncStatus, pulls, lost>>

-----------------------------------------------------------------------------
\* Mutant of OnComplete: dataMutex_ is not taken.
OnCompleteUnlocked(r, s) ==
  /\ ~At(r, "ended")
  /\ pulls[r][s].live > 0
  /\ \E result \in {"success", "fail"} : syncStatus' = [syncStatus EXCEPT ![r][s] = result]
  /\ pulls' = [pulls EXCEPT ![r][s].live = @ - 1]
  /\ UNCHANGED <<tables, dataMutex, thread, lost>>

\* The database answers a pull: a success if it was one on every device.
OnComplete(r, s) ==
  /\ ~At(r, "ended")
  /\ dataMutex = Nobody
  /\ pulls[r][s].live > 0
  /\ \E result \in {"success", "fail"} : syncStatus' = [syncStatus EXCEPT ![r][s] = result]
  /\ pulls' = [pulls EXCEPT ![r][s].live = @ - 1]
  /\ UNCHANGED <<tables, dataMutex, thread, lost>>

\* The answer for an object that was deleted.
OnCompleteDeleted(r, s) ==
  /\ ~At(r, "ended")
  /\ dataMutex = Nobody
  /\ pulls[r][s].gone > 0
  /\ \/ /\ \E result \in {"success", "fail"} :
             syncStatus' = [syncStatus EXCEPT ![r][s] = result]
        /\ UNCHANGED lost
     \/ lost' = [lost EXCEPT ![r] = @ \cup {s}] /\ UNCHANGED syncStatus
  /\ pulls' = [pulls EXCEPT ![r][s].gone = @ - 1]
  /\ UNCHANGED <<tables, dataMutex, thread>>

\* The answer to a thread that has ended.
OnCompleteEnded(r, s) ==
  /\ At(r, "ended")
  /\ dataMutex = Nobody
  /\ Count(r, s) > 0
  /\ pulls' = [pulls EXCEPT ![r][s] = NoPull]
  /\ UNCHANGED <<tables, dataMutex, thread, syncStatus, lost>>

-----------------------------------------------------------------------------
Next ==
  \/ \E s \in Sessions :
       \/ CreateTable(s)
       \/ CacheObject(s)
       \/ DeleteTable(s)
       \/ RemoveCacheObject(s)
  \/ \E r \in Restorers : Begin(r) \/ Lock(r) \/ Syncing(r) \/ Unlock(r) \/ Rest(r) \/ Notify(r)
  \/ \E r \in Restorers, s \in Sessions :
       \/ Refused(r, s)
       \/ SingleDevice(r, s)
       \/ SyncAllData(r, s)
       \/ OnComplete(r, s)
       \/ OnCompleteDeleted(r, s)
       \/ OnCompleteEnded(r, s)

\* A thread that runs goes on, and gets dataMutex_ in the end.  No pull need
\* ever be answered.
Round(r) == \E s \in Sessions : Refused(r, s) \/ SingleDevice(r, s) \/ SyncAllData(r, s)
Fairness == \A r \in Restorers :
  /\ SF_vars(Lock(r))
  /\ WF_vars(Begin(r) \/ Round(r) \/ Syncing(r) \/ Unlock(r) \/ Rest(r) \/ Notify(r))

Spec == Init /\ [][Next]_vars /\ Fairness

-----------------------------------------------------------------------------
\* A thread has at most one pull of a session under way, and says so: no answer
\* is overtaken by the status the request sets, and a session that is said to
\* be pulled is, unless its pull came to nothing with the object it was for.
PullsMatchStatus ==
  \A r \in Restorers : ~At(r, "ended") => \A s \in Sessions :
    /\ Count(r, s) <= 1
    /\ Count(r, s) = 1 => syncStatus[r][s] = "syncing" \/ thread[r].session = s
    /\ syncStatus[r][s] = "syncing" => Count(r, s) = 1 \/ s \in lost[r]

\* A session that was restored stays so: no late answer to an earlier request
\* undoes it, and it is not pulled again.
SuccessIsFinal ==
  [][\A r \in Restorers, s \in Sessions :
       syncStatus[r][s] = "success" =>
         /\ syncStatus'[r][s] = "success"
         /\ pulls'[r][s].live <= pulls[r][s].live]_vars

\* The caller is notified in the end, also when pulls fail, are never answered
\* or their sessions come and go.
RestoreEnds == \A r \in Restorers : <>At(r, "ended")
=============================================================================
