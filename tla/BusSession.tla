----------------------------- MODULE BusSession -----------------------------
(***************************************************************************)
(* SoftBusAdapter: sessions of the soft bus, and how a sender waits for    *)
(* one to open.                                                            *)
(*                                                                         *)
(* SendData asks the bus to open a session, looks up (or makes) the        *)
(* session's ConditionLock in sessionsStatus_, waits on it and sends.  The *)
(* bus calls OnSessionOpened and OnSessionClosed back on threads of its    *)
(* own: the first notifies the ConditionLock and files the peer in         *)
(* busSessionMap_, the second clears the ConditionLock, forgets it and     *)
(* takes the peer out.  A sender that has looked the ConditionLock up      *)
(* keeps it after it was forgotten.                                        *)
(*                                                                         *)
(* The bus is not in the repository.  It calls each session back in order, *)
(* opened before closed; OpenSession may hand out a session that exists.   *)
(***************************************************************************)
CONSTANTS
  Senders,      (* threads inside SendData or IsSameStartedOnPeer          *)
  Peers,        (* devices.  One pipe: its name is left out of the keys.   *)
  SessionIds,   (* session ids of the bus, each given out once.  Bound of  *)
                (* a run.                                                  *)
  LookupFaults, (* the callbacks, opened or closed, in which asking the    *)
                (* bus for the session's names and device may fail         *)
  NoPeer, NoId

ASSUME BusAssumption ==
  /\ NoPeer \notin Peers
  /\ NoId \notin SessionIds
  /\ LookupFaults \subseteq {"opened", "closed"}

VARIABLES
  pc,              (* where sender t is in its call                        *)
  target,          (* the peer its call is about                           *)
  session,         (* the session id OpenSession has returned to it        *)
  holds,           (* its ConditionLock: none, the "shared" one filed      *)
                   (* under the id, or an "orphan" that was forgotten      *)
  bus,             (* bus: the state of session id                         *)
  peerOf,          (* bus: the peer of session id                          *)
  callback,        (* the callback of session id that is due or under way; *)
                   (* "lost" if in its last one the bus did not say whose  *)
                   (* session was closed                                   *)
  sessionsStatus,  (* sessionsStatus_[id]: "none", "unset", "ok" or "bad"  *)
  busSessionMap    (* the peers busSessionMap_ has an entry for            *)

senders == <<pc, target, session, holds>>
vars == <<senders, bus, peerOf, callback, sessionsStatus, busSessionMap>>

TypeOK ==
  /\ pc \in [Senders -> {"idle", "reopen", "semaphore", "wait", "send"}]
  /\ target \in [Senders -> Peers \cup {NoPeer}]
  /\ session \in [Senders -> SessionIds \cup {NoId}]
  /\ holds \in [Senders -> {"none", "shared", "orphan"}]
  /\ bus \in [SessionIds -> {"free", "opening", "open", "failed", "closed"}]
  /\ peerOf \in [SessionIds -> Peers \cup {NoPeer}]
  /\ callback \in [SessionIds -> {"none", "opened", "insert", "closed",
                               "delete", "lost"}]
  /\ sessionsStatus \in [SessionIds -> {"none", "unset", "ok", "bad"}]
  /\ busSessionMap \subseteq Peers

Init ==
  /\ pc = [t \in Senders |-> "idle"]
  /\ target = [t \in Senders |-> NoPeer]
  /\ session = [t \in Senders |-> NoId]
  /\ holds = [t \in Senders |-> "none"]
  /\ bus = [i \in SessionIds |-> "free"]
  /\ peerOf = [i \in SessionIds |-> NoPeer]
  /\ callback = [i \in SessionIds |-> "none"]
  /\ sessionsStatus = [i \in SessionIds |-> "none"]
  /\ busSessionMap = {}

-----------------------------------------------------------------------------
At(t, step) == pc[t] = step

GoTo(t, step) == pc' = [pc EXCEPT ![t] = step]

\* The call of sender t returns.
Return(t) ==
  /\ pc' = [pc EXCEPT ![t] = "idle"]
  /\ target' = [target EXCEPT ![t] = NoPeer]
  /\ session' = [session EXCEPT ![t] = NoId]
  /\ holds' = [holds EXCEPT ![t] = "none"]

\* OpenSession to peer p returns session i: one there is, or a new one.
OpenSession(p, i) ==
  \/ /\ bus[i] \in {"opening", "open"}
     /\ peerOf[i] = p
     /\ UNCHANGED <<bus, peerOf>>
  \/ /\ bus[i] = "free"
     /\ bus' = [bus EXCEPT ![i] = "opening"]
     /\ peerOf' = [peerOf EXCEPT ![i] = p]

\* SendData, up to the return of OpenSession with a session.  (With none the
\* call is over, and nothing has changed.)
SendData(t, p) ==
  /\ At(t, "idle")
  /\ \E i \in SessionIds :
       /\ OpenSession(p, i)
       /\ session' = [session EXCEPT ![t] = i]
  /\ target' = [target EXCEPT ![t] = p]
  /\ GoTo(t, "semaphore")
  /\ UNCHANGED <<holds, callback, sessionsStatus, busSessionMap>>

\* GetSemaphore: the ConditionLock filed under the id, a new one if none is.
GetSemaphore(t) ==
  /\ At(t, "semaphore")
  /\ holds' = [holds EXCEPT ![t] = "shared"]
  /\ sessionsStatus' =
       [sessionsStatus EXCEPT ![session[t]] = IF @ = "none" THEN "unset" ELSE @]
  /\ GoTo(t, "wait")
  /\ UNCHANGED <<target, session, bus, peerOf, callback, busSessionMap>>

\* Wait returns once the ConditionLock is set, whoever has set it; the lock
\* stays set.  On a bad status SendData returns CREATE_SESSION_ERROR.
Wait(t) ==
  /\ At(t, "wait")
  /\ holds[t] = "shared"
  /\ \/ /\ sessionsStatus[session[t]] = "ok"
        /\ GoTo(t, "send")
        /\ UNCHANGED <<target, session, holds>>
     \/ /\ sessionsStatus[session[t]] = "bad"
        /\ Return(t)
  /\ UNCHANGED <<bus, peerOf, callback, sessionsStatus, busSessionMap>>

\* SendBytes goes to the session, or fails when there is no such session now.
SendBytes(t) ==
  /\ At(t, "send")
  /\ Return(t)
  /\ UNCHANGED <<bus, peerOf, callback, sessionsStatus, busSessionMap>>

\* The peer has no entry, and the call goes on without the lock.  (With an
\* entry it is over, and nothing has changed.)
IsSameStartedOnPeer(t, p) ==
  /\ At(t, "idle")
  /\ p \notin busSessionMap
  /\ GoTo(t, "reopen")
  /\ target' = [target EXCEPT ![t] = p]
  /\ UNCHANGED <<session, holds, bus, peerOf, callback, sessionsStatus,
                 busSessionMap>>

\* It opens a session, does not wait for it, and answers by the id alone.
OpenToPeer(t) ==
  /\ At(t, "reopen")
  /\ \/ \E i \in SessionIds : OpenSession(target[t], i)
     \/ UNCHANGED <<bus, peerOf>>
  /\ Return(t)
  /\ UNCHANGED <<callback, sessionsStatus, busSessionMap>>

-----------------------------------------------------------------------------
\* The bus decides on a session it was asked to open; a peer opens one.
Decide(i) ==
  /\ bus[i] = "opening"
  /\ \E state \in {"open", "failed"} : bus' = [bus EXCEPT ![i] = state]
  /\ callback' = [callback EXCEPT ![i] = "opened"]
  /\ UNCHANGED <<senders, peerOf, sessionsStatus, busSessionMap>>

PeerOpens(i, p) ==
  /\ bus[i] = "free"
  /\ bus' = [bus EXCEPT ![i] = "open"]
  /\ peerOf' = [peerOf EXCEPT ![i] = p]
  /\ callback' = [callback EXCEPT ![i] = "opened"]
  /\ UNCHANGED <<senders, sessionsStatus, busSessionMap>>

Close(i) ==
  /\ bus[i] = "open"
  /\ callback[i] = "none"
  /\ bus' = [bus EXCEPT ![i] = "closed"]
  /\ callback' = [callback EXCEPT ![i] = "closed"]
  /\ UNCHANGED <<senders, peerOf, sessionsStatus, busSessionMap>>

\* Mutants of OpenStatus: every opening is notified as a success; a failed one
\* makes a ConditionLock and does not notify it.
AlwaysOk(i) == "ok"
OnlySuccess(i) == IF bus[i] = "open" THEN "ok" ELSE "unset"

\* What the ConditionLock is notified with.
OpenStatus(i) == IF bus[i] = "open" THEN "ok" ELSE "bad"

\* OnSessionOpened, first part: the ConditionLock is notified of the result;
\* the callback goes on when the session is open.
OnSessionOpen(i) ==
  /\ callback[i] = "opened"
  /\ sessionsStatus' = [sessionsStatus EXCEPT ![i] = OpenStatus(i)]
  /\ \/ /\ bus[i] = "open"
        /\ callback' = [callback EXCEPT ![i] = "insert"]
     \/ /\ bus[i] = "failed"
        /\ callback' = [callback EXCEPT ![i] = "none"]
  /\ UNCHANGED <<senders, bus, peerOf, busSessionMap>>

\* Mutant of InsertSession: it files the session though its device is unknown.
InsertUnresolved(i) ==
  /\ callback[i] = "insert"
  /\ \E p \in {peerOf[i], NoPeer} : busSessionMap' = busSessionMap \cup {p}
  /\ callback' = [callback EXCEPT ![i] = "none"]
  /\ UNCHANGED <<senders, bus, peerOf, sessionsStatus>>

\* OnSessionOpened, the rest: the names are looked up, the peer is filed.  A
\* device id the adapter cannot translate is filed under no peer at all.
InsertSession(i) ==
  /\ callback[i] = "insert"
  /\ \/ busSessionMap' = busSessionMap \cup {peerOf[i]}
     \/ "opened" \in LookupFaults /\ UNCHANGED busSessionMap
  /\ callback' = [callback EXCEPT ![i] = "none"]
  /\ UNCHANGED <<senders, bus, peerOf, sessionsStatus>>

\* OnSessionClosed, first part: the ConditionLock is cleared and forgotten;
\* the senders that hold it keep it.
OnSessionClose(i) ==
  /\ callback[i] = "closed"
  /\ sessionsStatus' = [sessionsStatus EXCEPT ![i] = "none"]
  /\ holds' = [t \in Senders |->
                 IF session[t] = i /\ holds[t] = "shared" THEN "orphan" ELSE holds[t]]
  /\ callback' = [callback EXCEPT ![i] = "delete"]
  /\ UNCHANGED <<pc, target, session, bus, peerOf, busSessionMap>>

\* Mutant of DeleteSession: the entry is never erased.
DeleteNothing(i) ==
  /\ callback[i] = "delete"
  /\ callback' = [callback EXCEPT ![i] = "none"]
  /\ UNCHANGED <<senders, bus, peerOf, sessionsStatus, busSessionMap>>

\* OnSessionClosed, the rest: the same lookups, and the peer is taken out.
DeleteSession(i) ==
  /\ callback[i] = "delete"
  /\ \/ /\ busSessionMap' = busSessionMap \ {peerOf[i]}
        /\ callback' = [callback EXCEPT ![i] = "none"]
     \/ /\ "closed" \in LookupFaults
        /\ callback' = [callback EXCEPT ![i] = "lost"]
        /\ UNCHANGED busSessionMap
  /\ UNCHANGED <<senders, bus, peerOf, sessionsStatus>>

-----------------------------------------------------------------------------
Sender(t) == GetSemaphore(t) \/ Wait(t) \/ SendBytes(t) \/ OpenToPeer(t)

Callback(i) ==
  OnSessionOpen(i) \/ InsertSession(i) \/ OnSessionClose(i) \/ DeleteSession(i)

Next ==
  \/ \E t \in Senders : Sender(t)
  \/ \E t \in Senders, p \in Peers : SendData(t, p) \/ IsSameStartedOnPeer(t, p)
  \/ \E i \in SessionIds : Decide(i) \/ Close(i) \/ Callback(i)
  \/ \E i \in SessionIds, p \in Peers : PeerOpens(i, p)

\* A thread that can run does; the bus decides, and calls back.
Fairness ==
  /\ \A t \in Senders : WF_vars(Sender(t))
  /\ \A i \in SessionIds : WF_vars(Decide(i)) /\ WF_vars(Callback(i))

Spec == Init /\ [][Next]_vars
FairSpec == Spec /\ Fairness

-----------------------------------------------------------------------------
\* What busSessionMap_ says of a peer, and IsSameStartedOnPeer answers from,
\* is true: a peer with an entry has a session that has opened, and that was
\* not closed, or whose closing is not handled yet or could not be attributed
\* to it.  Two sessions to one peer share the entry.
MapMeansSession ==
  \A p \in busSessionMap : \E i \in SessionIds :
    /\ peerOf[i] = p
    /\ bus[i] = "open" \/ (bus[i] = "closed" /\ callback[i] # "none")

\* The status a sender acts on is that of the session it asked for: Wait lets
\* it send only on a session to its own target that did open, and makes it
\* give up only when that one failed.
AnswerIsOwn ==
  [][\A t \in Senders : Wait(t) =>
       /\ peerOf[session[t]] = target[t]
       /\ At(t, "send")' <=> bus[session[t]] \in {"open", "closed"}]_vars

\* A call to SendData or IsSameStartedOnPeer ends, whatever the bus decides on
\* its session and whoever shares it, unless that session is closed: one that
\* opens and closes before Wait leaves its sender on a ConditionLock that
\* nobody notifies again.
EndsUnlessClosed ==
  \A t \in Senders :
    ~At(t, "idle") ~> At(t, "idle") \/ (session[t] # NoId /\ bus[session[t]] = "closed")
=============================================================================
