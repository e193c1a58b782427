-------------------------- MODULE BusSessionProofs --------------------------
(***************************************************************************)
(* What holds of BusSession for any number of senders, of peers and of     *)
(* sessions: busSessionMap_ means a session, and the status a sender acts  *)
(* on is that of the session it asked for.                                 *)
(***************************************************************************)
EXTENDS BusSession, TLAPS

BusStates == {"free", "opening", "open", "failed", "closed"}
CallbackStates == {"none", "opened", "insert", "closed", "delete", "lost"}
LockStates == {"none", "unset", "ok", "bad"}
PcStates == {"idle", "reopen", "semaphore", "wait", "send"}

\* The bus calls a session back in the order it went through: a session that
\* is not decided on is not called back, one that is being closed was open.
InOrder(i) ==
  /\ bus[i] # "free" => peerOf[i] \in Peers
  /\ bus[i] \in {"free", "opening"} => callback[i] = "none"
  /\ callback[i] = "opened" => bus[i] \in {"open", "failed"}
  /\ callback[i] = "insert" => bus[i] = "open"
  /\ callback[i] \in {"closed", "delete", "lost"} => bus[i] = "closed"

\* What a ConditionLock says is what the bus decided on its session.
TellsTheBus(i) ==
  /\ sessionsStatus[i] = "ok" => bus[i] \in {"open", "closed"}
  /\ sessionsStatus[i] = "bad" => bus[i] = "failed"

\* A sender that was given a session was given one to its target; one that
\* has yet to ask for a session knows its target.
HasItsSession(t) ==
  /\ pc[t] \in {"semaphore", "wait", "send"} =>
       /\ session[t] \in SessionIds
       /\ bus[session[t]] # "free"
       /\ peerOf[session[t]] = target[t]
  /\ pc[t] = "reopen" => target[t] \in Peers

\* The inductive invariant.
BusInv ==
  /\ TypeOK
  /\ \A i \in SessionIds : InOrder(i) /\ TellsTheBus(i)
  /\ \A t \in Senders : HasItsSession(t)
  /\ MapMeansSession

-----------------------------------------------------------------------------
\* The types of what is known of a session.
LEMMA SessionTypes ==
  ASSUME TypeOK, NEW i \in SessionIds
  PROVE  /\ bus[i] \in BusStates
         /\ peerOf[i] \in Peers \cup {NoPeer}
         /\ callback[i] \in CallbackStates
         /\ sessionsStatus[i] \in LockStates
BY DEF TypeOK, BusStates, CallbackStates, LockStates

\* Init establishes the inductive invariant.
LEMMA BusInit == Init => BusInv
<1> SUFFICES ASSUME Init PROVE BusInv
    OBVIOUS
<1>1. TypeOK
      BY DEF Init, TypeOK
<1>2. ASSUME NEW i \in SessionIds PROVE InOrder(i) /\ TellsTheBus(i)
      BY DEF Init, InOrder, TellsTheBus
<1>3. ASSUME NEW t \in Senders PROVE HasItsSession(t)
      BY DEF Init, HasItsSession
<1>4. MapMeansSession
      BY DEF Init, MapMeansSession
<1>5. QED BY <1>1, <1>2, <1>3, <1>4 DEF BusInv

\* A sender all of whose session is as it was, or only went on, keeps its
\* part; so do the sessions where nothing happens.
LEMMA SameSender ==
  ASSUME BusInv, NEW t \in Senders,
         pc'[t] = pc[t], target'[t] = target[t], session'[t] = session[t],
         \A i \in SessionIds : bus[i] # "free" => bus'[i] # "free" /\ peerOf'[i] = peerOf[i]
  PROVE  HasItsSession(t)'
BY DEF BusInv, HasItsSession

\* The bus opens a session to a peer, or finds one there is: whoever was filed
\* for a session stays so.
LEMMA OpenSessionEffect ==
  ASSUME BusInv, NEW p \in Peers, NEW i \in SessionIds, OpenSession(p, i),
         UNCHANGED <<callback, sessionsStatus, busSessionMap>>
  PROVE  /\ bus' \in [SessionIds -> BusStates]
         /\ peerOf' \in [SessionIds -> Peers \cup {NoPeer}]
         /\ bus'[i] # "free" /\ peerOf'[i] = p
         /\ \A j \in SessionIds : bus[j] # "free" => bus'[j] = bus[j] /\ peerOf'[j] = peerOf[j]
         /\ \A j \in SessionIds : InOrder(j)' /\ TellsTheBus(j)'
         /\ MapMeansSession'
<1>1. /\ bus' \in [SessionIds -> BusStates]
      /\ peerOf' \in [SessionIds -> Peers \cup {NoPeer}]
      /\ bus'[i] \in {"opening", "open"} /\ peerOf'[i] = p
      /\ bus'[i] = bus[i] \/ (bus[i] = "free" /\ bus'[i] = "opening")
      /\ \A j \in SessionIds : j # i => bus'[j] = bus[j] /\ peerOf'[j] = peerOf[j]
      /\ bus[i] # "free" => bus'[i] = bus[i] /\ peerOf'[i] = peerOf[i]
      BY DEF BusInv, TypeOK, OpenSession, BusStates
<1>2. \A j \in SessionIds : bus[j] # "free" => bus'[j] = bus[j] /\ peerOf'[j] = peerOf[j]
      BY <1>1
<1>3. ASSUME NEW j \in SessionIds PROVE InOrder(j)' /\ TellsTheBus(j)'
  <2>1. InOrder(j) /\ TellsTheBus(j)
        BY DEF BusInv
  <2>2. CASE bus'[j] = bus[j] /\ peerOf'[j] = peerOf[j]
        BY <2>1, <2>2 DEF InOrder, TellsTheBus
  <2>3. CASE j = i
        BY <1>1, <2>1, <2>3, SessionTypes DEF BusInv, InOrder, TellsTheBus
  <2>4. QED BY <1>1, <2>2, <2>3
<1>4. MapMeansSession'
      BY <1>2 DEF BusInv, MapMeansSession
<1>5. QED BY <1>1, <1>2, <1>3, <1>4

\* A step of sender t that leaves the sessions as they were.
LEMMA SenderOnly ==
  ASSUME BusInv, NEW t \in Senders, TypeOK',
         \A q \in Senders : q # t => /\ pc'[q] = pc[q] /\ target'[q] = target[q]
                                     /\ session'[q] = session[q],
         HasItsSession(t)',
         UNCHANGED <<bus, peerOf, callback, busSessionMap>>,
         \A i \in SessionIds : sessionsStatus'[i] = sessionsStatus[i] \/ sessionsStatus'[i] = "unset"
  PROVE  BusInv'
<1>1. \A q \in Senders : HasItsSession(q)'
      BY SameSender
<1>2. \A i \in SessionIds : InOrder(i)' /\ TellsTheBus(i)'
      BY DEF BusInv, InOrder, TellsTheBus
<1>3. MapMeansSession'
      BY DEF BusInv, MapMeansSession
<1>4. QED BY <1>1, <1>2, <1>3 DEF BusInv

\* A call that returns.
LEMMA ReturnEffect ==
  ASSUME TypeOK, NEW t \in Senders, Return(t)
  PROVE  /\ pc' \in [Senders -> PcStates] /\ pc'[t] = "idle"
         /\ target' \in [Senders -> Peers \cup {NoPeer}]
         /\ session' \in [Senders -> SessionIds \cup {NoId}]
         /\ holds' \in [Senders -> {"none", "shared", "orphan"}]
         /\ \A q \in Senders : q # t => /\ pc'[q] = pc[q] /\ target'[q] = target[q]
                                        /\ session'[q] = session[q]
BY DEF TypeOK, Return, PcStates

\* SendData, with the session it is given.
LEMMA SendDataStep ==
  ASSUME BusInv, NEW t \in Senders, NEW p \in Peers, SendData(t, p)
  PROVE  BusInv'
<1>1. PICK i \in SessionIds : OpenSession(p, i) /\ session' = [session EXCEPT ![t] = i]
      BY DEF SendData
<1>2. /\ pc' = [pc EXCEPT ![t] = "semaphore"] /\ target' = [target EXCEPT ![t] = p]
      /\ UNCHANGED <<holds, callback, sessionsStatus, busSessionMap>>
      BY DEF SendData, GoTo
<1>3. /\ bus' \in [SessionIds -> BusStates]
      /\ peerOf' \in [SessionIds -> Peers \cup {NoPeer}]
      /\ bus'[i] # "free" /\ peerOf'[i] = p
      /\ \A j \in SessionIds : bus[j] # "free" => bus'[j] = bus[j] /\ peerOf'[j] = peerOf[j]
      /\ \A j \in SessionIds : InOrder(j)' /\ TellsTheBus(j)'
      /\ MapMeansSession'
      BY <1>1, <1>2, OpenSessionEffect
<1>4. /\ pc' \in [Senders -> PcStates] /\ pc'[t] = "semaphore"
      /\ target' \in [Senders -> Peers \cup {NoPeer}] /\ target'[t] = p
      /\ session' \in [Senders -> SessionIds \cup {NoId}] /\ session'[t] = i
      /\ \A q \in Senders : q # t => /\ pc'[q] = pc[q] /\ target'[q] = target[q]
                                     /\ session'[q] = session[q]
      BY <1>1, <1>2 DEF BusInv, TypeOK, PcStates
<1>5. TypeOK'
      BY <1>2, <1>3, <1>4 DEF BusInv, TypeOK, PcStates, BusStates
<1>6. ASSUME NEW q \in Senders PROVE HasItsSession(q)'
  <2>1. CASE q = t
        BY <1>3, <1>4, <2>1 DEF HasItsSession
  <2>2. CASE q # t
        BY <1>3, <1>4, <2>2, SameSender
  <2>3. QED BY <2>1, <2>2
<1>7. QED BY <1>3, <1>5, <1>6 DEF BusInv

\* GetSemaphore, Wait, SendBytes and IsSameStartedOnPeer.
LEMMA SenderSteps ==
  ASSUME BusInv, NEW t \in Senders,
         \/ GetSemaphore(t) \/ Wait(t) \/ SendBytes(t)
         \/ \E p \in Peers : IsSameStartedOnPeer(t, p)
  PROVE  BusInv'
<1>1. CASE Return(t) /\ UNCHANGED <<bus, peerOf, callback, sessionsStatus, busSessionMap>>
  <2>1. TypeOK'
        BY <1>1, ReturnEffect DEF BusInv, TypeOK, PcStates
  <2>2. HasItsSession(t)'
        BY <1>1, ReturnEffect DEF BusInv, HasItsSession
  <2>3. QED BY <1>1, <2>1, <2>2, ReturnEffect, SenderOnly DEF BusInv
<1>2. CASE GetSemaphore(t)
  <2>1. /\ pc[t] = "semaphore" /\ pc' = [pc EXCEPT ![t] = "wait"]
        /\ holds' = [holds EXCEPT ![t] = "shared"]
        /\ UNCHANGED <<target, session, bus, peerOf, callback, busSessionMap>>
        BY <1>2 DEF GetSemaphore, GoTo, At
  <2>2. PICK v : v = IF sessionsStatus[session[t]] = "none" THEN "unset"
                     ELSE sessionsStatus[session[t]]
        OBVIOUS
  <2>3. sessionsStatus' = [sessionsStatus EXCEPT ![session[t]] = v]
        BY <1>2, <2>2 DEF GetSemaphore
  <2>4. session[t] \in SessionIds
        BY <2>1 DEF BusInv, HasItsSession
  <2>5. /\ sessionsStatus' \in [SessionIds -> LockStates]
        /\ \A i \in SessionIds : sessionsStatus'[i] = sessionsStatus[i] \/ sessionsStatus'[i] = "unset"
        BY <2>2, <2>3, <2>4 DEF BusInv, TypeOK, LockStates
  <2>6. TypeOK'
        BY <2>1, <2>5 DEF BusInv, TypeOK, LockStates
  <2>7. pc'[t] = "wait" /\ \A q \in Senders : q # t => pc'[q] = pc[q]
        BY <2>1 DEF BusInv, TypeOK
  <2>8. HasItsSession(t)'
        BY <2>1, <2>7 DEF BusInv, HasItsSession
  <2>9. QED BY <2>1, <2>5, <2>6, <2>7, <2>8, SenderOnly
<1>3. CASE Wait(t) /\ ~Return(t)
  <2>1. /\ pc[t] = "wait" /\ pc' = [pc EXCEPT ![t] = "send"]
        /\ UNCHANGED <<target, session, holds, bus, peerOf, callback, sessionsStatus, busSessionMap>>
        BY <1>3 DEF Wait, GoTo, At
  <2>2. TypeOK'
        BY <2>1 DEF BusInv, TypeOK
  <2>3. pc'[t] = "send" /\ \A q \in Senders : q # t => pc'[q] = pc[q]
        BY <2>1 DEF BusInv, TypeOK
  <2>4. HasItsSession(t)'
        BY <2>1, <2>3 DEF BusInv, HasItsSession
  <2>5. QED BY <2>1, <2>2, <2>3, <2>4, SenderOnly
<1>4. ASSUME NEW p \in Peers, IsSameStartedOnPeer(t, p) PROVE BusInv'
  <2>1. /\ pc' = [pc EXCEPT ![t] = "reopen"] /\ target' = [target EXCEPT ![t] = p]
        /\ UNCHANGED <<session, holds, bus, peerOf, callback, sessionsStatus, busSessionMap>>
        BY <1>4 DEF IsSameStartedOnPeer, GoTo
  <2>2. TypeOK'
        BY <2>1 DEF BusInv, TypeOK
  <2>3. /\ pc'[t] = "reopen" /\ target'[t] = p
        /\ \A q \in Senders : q # t => pc'[q] = pc[q] /\ target'[q] = target[q]
        BY <2>1 DEF BusInv, TypeOK
  <2>4. HasItsSession(t)'
        BY <2>3 DEF HasItsSession
  <2>5. QED BY <2>1, <2>2, <2>3, <2>4, SenderOnly
<1>5. QED BY <1>1, <1>2, <1>3, <1>4 DEF Wait, SendBytes

\* IsSameStartedOnPeer opens a session, and answers.
LEMMA OpenToPeerStep ==
  ASSUME BusInv, NEW t \in Senders, OpenToPeer(t)
  PROVE  BusInv'
<1>1. /\ pc[t] = "reopen" /\ Return(t) /\ UNCHANGED <<callback, sessionsStatus, busSessionMap>>
      BY DEF OpenToPeer, At
<1>2. /\ bus' \in [SessionIds -> BusStates]
      /\ peerOf' \in [SessionIds -> Peers \cup {NoPeer}]
      /\ \A j \in SessionIds : bus[j] # "free" => bus'[j] = bus[j] /\ peerOf'[j] = peerOf[j]
      /\ \A j \in SessionIds : InOrder(j)' /\ TellsTheBus(j)'
      /\ MapMeansSession'
  <2>1. CASE UNCHANGED <<bus, peerOf>>
        BY <1>1, <2>1 DEF BusInv, TypeOK, BusStates, InOrder, TellsTheBus, MapMeansSession
  <2>2. ASSUME NEW i \in SessionIds, OpenSession(target[t], i)
        PROVE  /\ bus' \in [SessionIds -> BusStates]
               /\ peerOf' \in [SessionIds -> Peers \cup {NoPeer}]
               /\ \A j \in SessionIds : bus[j] # "free" => bus'[j] = bus[j] /\ peerOf'[j] = peerOf[j]
               /\ \A j \in SessionIds : InOrder(j)' /\ TellsTheBus(j)'
               /\ MapMeansSession'
    <3>1. PICK p \in Peers : p = target[t]
          BY <1>1 DEF BusInv, HasItsSession
    <3>2. OpenSession(p, i)
          BY <2>2, <3>1
    <3>3. QED BY <1>1, <3>2, OpenSessionEffect
  <2>3. QED BY <2>1, <2>2 DEF OpenToPeer
<1>3. TypeOK'
      BY <1>1, <1>2, ReturnEffect DEF BusInv, TypeOK, PcStates, BusStates
<1>4. ASSUME NEW q \in Senders PROVE HasItsSession(q)'
  <2>1. CASE q = t
        BY <1>1, <2>1, ReturnEffect DEF BusInv, HasItsSession
  <2>2. CASE q # t
        BY <1>1, <1>2, <2>2, SameSender, ReturnEffect DEF BusInv
  <2>3. QED BY <2>1, <2>2
<1>5. QED BY <1>2, <1>3, <1>4 DEF BusInv

\* A step of the bus or of a callback, on session i: the rest stays.
LEMMA OneSession ==
  ASSUME BusInv, NEW i \in SessionIds, TypeOK',
         UNCHANGED <<pc, target, session>>,
         \A j \in SessionIds : j # i =>
           /\ bus'[j] = bus[j] /\ peerOf'[j] = peerOf[j]
           /\ callback'[j] = callback[j] /\ sessionsStatus'[j] = sessionsStatus[j],
         bus[i] # "free" => bus'[i] # "free" /\ peerOf'[i] = peerOf[i],
         InOrder(i)', TellsTheBus(i)',
         \A p \in busSessionMap' : p \in busSessionMap \/ (p = peerOf'[i] /\ bus'[i] = "open"),
         \/ bus[i] \in {"free", "opening", "failed"}
         \/ bus'[i] = "open" \/ (bus'[i] = "closed" /\ callback'[i] # "none")
         \/ peerOf[i] \notin busSessionMap'
         \/ callback[i] = "none" /\ bus[i] = "closed"
  PROVE  BusInv'
<1>1. \A t \in Senders : HasItsSession(t)'
      BY SameSender
<1>2. ASSUME NEW j \in SessionIds PROVE InOrder(j)' /\ TellsTheBus(j)'
  <2>1. CASE j = i
        BY <2>1
  <2>2. CASE j # i
        BY <2>2 DEF BusInv, InOrder, TellsTheBus
  <2>3. QED BY <2>1, <2>2
<1>3. MapMeansSession'
  <2>1. SUFFICES ASSUME NEW p \in busSessionMap'
                 PROVE  \E j \in SessionIds :
                          /\ peerOf'[j] = p
                          /\ bus'[j] = "open" \/ (bus'[j] = "closed" /\ callback'[j] # "none")
        BY DEF MapMeansSession
  <2>2. CASE p = peerOf'[i] /\ bus'[i] = "open"
        BY <2>2
  <2>3. CASE p \in busSessionMap
    <3>1. PICK j \in SessionIds :
            /\ peerOf[j] = p
            /\ bus[j] = "open" \/ (bus[j] = "closed" /\ callback[j] # "none")
          BY <2>3 DEF BusInv, MapMeansSession
    <3>2. CASE j # i
          BY <3>1, <3>2
    <3>3. CASE j = i
          BY <2>1, <3>1, <3>3
    <3>4. QED BY <3>2, <3>3
  <2>4. QED BY <2>2, <2>3
<1>4. QED BY <1>1, <1>2, <1>3 DEF BusInv

\* The bus decides on a session, is asked to open one by a peer, closes one.
LEMMA BusSteps ==
  ASSUME BusInv, NEW i \in SessionIds,
         Decide(i) \/ Close(i) \/ \E p \in Peers : PeerOpens(i, p)
  PROVE  BusInv'
<1>1. PICK b \in BusStates, p \in Peers \cup {NoPeer}, c \in CallbackStates :
        /\ bus' = [bus EXCEPT ![i] = b] /\ peerOf' = [peerOf EXCEPT ![i] = p]
        /\ callback' = [callback EXCEPT ![i] = c]
        /\ \/ bus[i] = "opening" /\ b \in {"open", "failed"} /\ c = "opened" /\ p = peerOf[i]
           \/ bus[i] = "free" /\ b = "open" /\ c = "opened" /\ p \in Peers
           \/ bus[i] = "open" /\ b = "closed" /\ c = "closed" /\ p = peerOf[i]
  <2>1. peerOf = [peerOf EXCEPT ![i] = peerOf[i]] /\ peerOf[i] \in Peers \cup {NoPeer}
        BY DEF BusInv, TypeOK
  <2>2. QED BY <2>1 DEF Decide, Close, PeerOpens, BusStates, CallbackStates
<1>2. UNCHANGED <<pc, target, session, holds, sessionsStatus, busSessionMap>>
      BY DEF Decide, Close, PeerOpens, senders
<1>3. /\ bus' \in [SessionIds -> BusStates] /\ bus'[i] = b
      /\ peerOf' \in [SessionIds -> Peers \cup {NoPeer}] /\ peerOf'[i] = p
      /\ callback' \in [SessionIds -> CallbackStates] /\ callback'[i] = c
      /\ \A j \in SessionIds : j # i =>
           bus'[j] = bus[j] /\ peerOf'[j] = peerOf[j] /\ callback'[j] = callback[j]
      BY <1>1 DEF BusInv, TypeOK, BusStates, CallbackStates
<1>4. TypeOK'
      BY <1>2, <1>3 DEF BusInv, TypeOK, BusStates, CallbackStates
<1>5. InOrder(i) /\ TellsTheBus(i) /\ sessionsStatus'[i] = sessionsStatus[i]
      BY <1>2 DEF BusInv
<1>6. InOrder(i)' /\ TellsTheBus(i)'
      BY <1>1, <1>3, <1>5 DEF InOrder, TellsTheBus
<1>7. QED BY <1>1, <1>2, <1>3, <1>4, <1>6, OneSession

\* OnSessionOpened and OnSessionClosed, in their two parts each.
LEMMA CallbackSteps ==
  ASSUME BusInv, NEW i \in SessionIds, Callback(i)
  PROVE  BusInv'
<1>1. InOrder(i) /\ TellsTheBus(i) /\ UNCHANGED <<pc, target, session, bus, peerOf>>
      BY DEF BusInv, Callback, OnSessionOpen, InsertSession, OnSessionClose, DeleteSession, senders
<1>2. CASE OnSessionOpen(i)
  <2>1. PICK v \in LockStates, c \in {"insert", "none"} :
          /\ sessionsStatus' = [sessionsStatus EXCEPT ![i] = v]
          /\ callback' = [callback EXCEPT ![i] = c]
          /\ \/ bus[i] = "open" /\ v = "ok"
             \/ bus[i] = "failed" /\ v = "bad" /\ c = "none"
    <3>1. CASE bus[i] = "open"
      <4>1. /\ sessionsStatus' = [sessionsStatus EXCEPT ![i] = "ok"]
            /\ callback' = [callback EXCEPT ![i] = "insert"]
            BY <1>2, <3>1 DEF OnSessionOpen, OpenStatus
      <4>2. "ok" \in LockStates /\ "insert" \in {"insert", "none"}
            BY DEF LockStates
      <4>3. QED BY <3>1, <4>1, <4>2
    <3>2. CASE bus[i] = "failed"
      <4>1. /\ sessionsStatus' = [sessionsStatus EXCEPT ![i] = "bad"]
            /\ callback' = [callback EXCEPT ![i] = "none"]
            BY <1>2, <3>2 DEF OnSessionOpen, OpenStatus
      <4>2. "bad" \in LockStates /\ "none" \in {"insert", "none"}
            BY DEF LockStates
      <4>3. QED BY <3>2, <4>1, <4>2
    <3>3. QED BY <1>2, <3>1, <3>2 DEF OnSessionOpen
  <2>2. /\ sessionsStatus' \in [SessionIds -> LockStates] /\ sessionsStatus'[i] = v
        /\ callback' \in [SessionIds -> CallbackStates] /\ callback'[i] = c
        /\ \A j \in SessionIds : j # i =>
             sessionsStatus'[j] = sessionsStatus[j] /\ callback'[j] = callback[j]
        BY <2>1 DEF BusInv, TypeOK, LockStates, CallbackStates
  <2>3. UNCHANGED <<holds, busSessionMap>>
        BY <1>2 DEF OnSessionOpen, senders
  <2>4. TypeOK'
        BY <1>1, <2>2, <2>3 DEF BusInv, TypeOK, LockStates, CallbackStates
  <2>5. InOrder(i)' /\ TellsTheBus(i)'
        BY <1>1, <2>1, <2>2 DEF InOrder, TellsTheBus
  <2>6. QED BY <1>1, <2>1, <2>2, <2>3, <2>4, <2>5, OneSession
<1>3. CASE InsertSession(i)
  <2>1. /\ callback[i] = "insert" /\ callback' = [callback EXCEPT ![i] = "none"]
        /\ UNCHANGED <<holds, sessionsStatus>>
        /\ busSessionMap' = busSessionMap \cup {peerOf[i]} \/ UNCHANGED busSessionMap
        BY <1>3 DEF InsertSession, senders
  <2>2. bus[i] = "open" /\ peerOf[i] \in Peers
        BY <1>1, <2>1 DEF InOrder
  <2>3. /\ callback' \in [SessionIds -> CallbackStates] /\ callback'[i] = "none"
        /\ \A j \in SessionIds : j # i => callback'[j] = callback[j]
        BY <2>1 DEF BusInv, TypeOK, CallbackStates
  <2>4. TypeOK'
        BY <1>1, <2>1, <2>2, <2>3 DEF BusInv, TypeOK, CallbackStates
  <2>5. InOrder(i)' /\ TellsTheBus(i)'
        BY <1>1, <2>1, <2>2, <2>3 DEF InOrder, TellsTheBus
  <2>6. QED BY <1>1, <2>1, <2>2, <2>3, <2>4, <2>5, OneSession
<1>4. CASE OnSessionClose(i)
  <2>1. /\ callback[i] = "closed" /\ callback' = [callback EXCEPT ![i] = "delete"]
        /\ sessionsStatus' = [sessionsStatus EXCEPT ![i] = "none"]
        /\ holds' = [t \in Senders |->
                       IF session[t] = i /\ holds[t] = "shared" THEN "orphan" ELSE holds[t]]
        /\ UNCHANGED busSessionMap
        BY <1>4 DEF OnSessionClose
  <2>2. bus[i] = "closed"
        BY <1>1, <2>1 DEF InOrder
  <2>3. /\ callback' \in [SessionIds -> CallbackStates] /\ callback'[i] = "delete"
        /\ sessionsStatus' \in [SessionIds -> LockStates] /\ sessionsStatus'[i] = "none"
        /\ \A j \in SessionIds : j # i =>
             callback'[j] = callback[j] /\ sessionsStatus'[j] = sessionsStatus[j]
        BY <2>1 DEF BusInv, TypeOK, CallbackStates, LockStates
  <2>4. holds' \in [Senders -> {"none", "shared", "orphan"}]
        BY <2>1 DEF BusInv, TypeOK
  <2>5. TypeOK'
        BY <1>1, <2>1, <2>3, <2>4 DEF BusInv, TypeOK, CallbackStates, LockStates
  <2>6. InOrder(i)' /\ TellsTheBus(i)'
        BY <1>1, <2>2, <2>3 DEF InOrder, TellsTheBus
  <2>7. QED BY <1>1, <2>1, <2>2, <2>3, <2>5, <2>6, OneSession
<1>5. CASE DeleteSession(i)
  <2>1. PICK c \in {"none", "lost"} :
          /\ callback[i] = "delete" /\ callback' = [callback EXCEPT ![i] = c]
          /\ UNCHANGED <<holds, sessionsStatus>>
          /\ \/ c = "none" /\ busSessionMap' = busSessionMap \ {peerOf[i]}
             \/ c = "lost" /\ UNCHANGED busSessionMap
        BY <1>5 DEF DeleteSession, senders
  <2>2. bus[i] = "closed"
        BY <1>1, <2>1 DEF InOrder
  <2>3. /\ callback' \in [SessionIds -> CallbackStates] /\ callback'[i] = c
        /\ \A j \in SessionIds : j # i => callback'[j] = callback[j]
        BY <2>1 DEF BusInv, TypeOK, CallbackStates
  <2>4. TypeOK'
        BY <1>1, <2>1, <2>3 DEF BusInv, TypeOK, CallbackStates
  <2>5. InOrder(i)' /\ TellsTheBus(i)'
        BY <1>1, <2>1, <2>2, <2>3 DEF InOrder, TellsTheBus
  <2>6. QED BY <1>1, <2>1, <2>2, <2>3, <2>4, <2>5, OneSession
<1>6. QED BY <1>2, <1>3, <1>4, <1>5 DEF Callback

\* Every step keeps the inductive invariant.
LEMMA BusStep == BusInv /\ [Next]_vars => BusInv'
<1> SUFFICES ASSUME BusInv, [Next]_vars PROVE BusInv'
    OBVIOUS
<1>1. ASSUME NEW t \in Senders, Sender(t) PROVE BusInv'
      BY <1>1, SenderSteps, OpenToPeerStep DEF Sender
<1>2. ASSUME NEW t \in Senders, NEW p \in Peers, SendData(t, p) \/ IsSameStartedOnPeer(t, p)
      PROVE  BusInv'
      BY <1>2, SendDataStep, SenderSteps
<1>3. ASSUME NEW i \in SessionIds,
             Decide(i) \/ Close(i) \/ Callback(i) \/ \E p \in Peers : PeerOpens(i, p)
      PROVE  BusInv'
      BY <1>3, BusSteps, CallbackSteps
<1>4. CASE UNCHANGED vars
  <2>1. UNCHANGED <<pc, target, session, holds, bus, peerOf, callback, sessionsStatus, busSessionMap>>
        BY <1>4 DEF vars, senders
  <2>2. TypeOK' /\ MapMeansSession'
        BY <2>1 DEF BusInv, TypeOK, MapMeansSession
  <2>3. \A i \in SessionIds : InOrder(i)' /\ TellsTheBus(i)'
        BY <2>1 DEF BusInv, InOrder, TellsTheBus
  <2>4. \A t \in Senders : HasItsSession(t)'
        BY <2>1 DEF BusInv, HasItsSession
  <2>5. QED BY <2>2, <2>3, <2>4 DEF BusInv
<1>5. QED BY <1>1, <1>2, <1>3, <1>4 DEF Next

\* The inductive invariant holds throughout.
LEMMA BusInvariant == Spec => []BusInv
BY BusInit, BusStep, PTL DEF Spec

-----------------------------------------------------------------------------
\* The module's type invariant, for any number of threads and of sessions.
THEOREM TypeCorrect == Spec => []TypeOK
<1>1. BusInv => TypeOK
      BY DEF BusInv
<1>2. QED BY <1>1, BusInvariant, PTL

\* A peer that IsSameStartedOnPeer takes for started has, or had until its
\* closing is handled, a session that opened, in whatever order the bus calls
\* the sessions to one peer back and wherever its lookups fail.
THEOREM MapIsTrue == Spec => []MapMeansSession
<1>1. BusInv => MapMeansSession
      BY DEF BusInv
<1>2. QED BY <1>1, BusInvariant, PTL

\* Wait lets a sender send only on a session to its target that opened, and
\* makes it give up only on one that failed, however many senders share the
\* ConditionLock.
THEOREM WaitersAreToldTheTruth == Spec => AnswerIsOwn
<1>1. ASSUME BusInv, NEW t \in Senders, Wait(t)
      PROVE  /\ peerOf[session[t]] = target[t]
             /\ At(t, "send")' <=> bus[session[t]] \in {"open", "closed"}
  <2>1. /\ pc[t] = "wait" /\ HasItsSession(t) /\ t \in DOMAIN pc
        BY <1>1 DEF Wait, At, BusInv, TypeOK
  <2>2. PICK i \in SessionIds : i = session[t] /\ TellsTheBus(i) /\ peerOf[i] = target[t]
        BY <1>1, <2>1 DEF HasItsSession, BusInv
  <2>3. \/ sessionsStatus[i] = "ok" /\ pc' = [pc EXCEPT ![t] = "send"]
        \/ sessionsStatus[i] = "bad" /\ pc' = [pc EXCEPT ![t] = "idle"]
        BY <1>1, <2>2 DEF Wait, GoTo, Return
  <2>4. QED BY <2>1, <2>2, <2>3 DEF TellsTheBus, At
<1>2. BusInv /\ [Next]_vars =>
        [\A t \in Senders : Wait(t) =>
           /\ peerOf[session[t]] = target[t]
           /\ At(t, "send")' <=> bus[session[t]] \in {"open", "closed"}]_vars
      BY <1>1
<1>3. QED BY <1>2, BusInvariant, PTL DEF Spec, AnswerIsOwn

-----------------------------------------------------------------------------
\* What EndsUnlessClosed needs besides fairness: a sender inside Wait has its
\* status, or the bus has yet to decide on its session or to call back, unless
\* the session was closed.
SomebodyNotifies ==
  \A t \in Senders : At(t, "wait") =>
    LET i == session[t] IN
      \/ bus[i] = "closed"
      \/ holds[t] = "shared" /\ sessionsStatus[i] \in {"ok", "bad"}
      \/ holds[t] = "shared" /\ (bus[i] = "opening" \/ callback[i] = "opened")

\* A session that is decided on and was called back has its status.
IsNotified(i) ==
  bus[i] \in {"open", "failed"} /\ callback[i] # "opened" => sessionsStatus[i] \in {"ok", "bad"}

\* The lock of a sender is the one filed until the session closes.
IsShared(t) == pc[t] = "wait" => holds[t] = "shared" \/ bus[session[t]] = "closed"

NotifyInv ==
  /\ \A i \in SessionIds : IsNotified(i)
  /\ \A t \in Senders : IsShared(t)

\* Every step of the bus keeps it.
LEMMA NotifyCallbacks ==
  ASSUME BusInv, NotifyInv, NEW i \in SessionIds,
         \/ Decide(i) \/ Close(i) \/ Callback(i)
         \/ \E p \in Peers : PeerOpens(i, p)
  PROVE  NotifyInv'
<1>1. /\ \A j \in SessionIds \ {i} : /\ bus'[j] = bus[j] /\ callback'[j] = callback[j]
                                    /\ sessionsStatus'[j] = sessionsStatus[j]
      /\ UNCHANGED <<pc, session>>
      BY DEF BusInv, TypeOK, Decide, Close, Callback, PeerOpens, OnSessionOpen, InsertSession,
             OnSessionClose, DeleteSession, senders
<1>2. bus[i] = "closed" => bus'[i] = "closed"
      BY DEF BusInv, TypeOK, InOrder, Decide, Close, Callback, PeerOpens, OnSessionOpen,
             InsertSession, OnSessionClose, DeleteSession, senders
<1>3. IsNotified(i)'
  <2>1. CASE Decide(i) \/ Close(i) \/ \E p \in Peers : PeerOpens(i, p)
        BY <2>1 DEF BusInv, TypeOK, Decide, Close, PeerOpens, IsNotified
  <2>2. CASE OnSessionOpen(i)
        BY <2>2 DEF BusInv, TypeOK, OnSessionOpen, OpenStatus, IsNotified
  <2>3. CASE OnSessionClose(i)
        BY <2>3 DEF BusInv, TypeOK, InOrder, OnSessionClose, IsNotified
  <2>4. CASE InsertSession(i) \/ DeleteSession(i)
        BY <2>4 DEF BusInv, TypeOK, InsertSession, DeleteSession, NotifyInv, IsNotified
  <2>5. QED BY <2>1, <2>2, <2>3, <2>4 DEF Callback
<1>4. ASSUME NEW t \in Senders, pc[t] = "wait" PROVE IsShared(t)'
  <2>1. session[t] \in SessionIds /\ (holds[t] = "shared" \/ bus[session[t]] = "closed")
        BY <1>4 DEF BusInv, HasItsSession, NotifyInv, IsShared
  <2>2. bus[session[t]] = "closed" => bus'[session[t]] = "closed"
        BY <1>1, <1>2, <2>1
  <2>3. CASE OnSessionClose(i)
    <3>1. bus'[i] = "closed"
          BY <2>3 DEF BusInv, InOrder, OnSessionClose
    <3>2. session[t] # i => holds'[t] = holds[t]
          BY <2>3 DEF OnSessionClose
    <3>3. QED BY <1>1, <2>1, <2>2, <3>1, <3>2 DEF IsShared
  <2>4. CASE UNCHANGED holds
        BY <1>1, <2>1, <2>2, <2>4 DEF IsShared
  <2>5. QED BY <2>3, <2>4 DEF Decide, Close, Callback, PeerOpens, OnSessionOpen, InsertSession,
                              DeleteSession, senders
<1>5. QED BY <1>1, <1>3, <1>4 DEF NotifyInv, IsNotified, IsShared

\* So does every step of a sender.
LEMMA NotifySenders ==
  ASSUME BusInv, NotifyInv, NEW t \in Senders,
         Sender(t) \/ \E p \in Peers : SendData(t, p) \/ IsSameStartedOnPeer(t, p)
  PROVE  NotifyInv'
<1>1. UNCHANGED callback
      BY DEF Sender, SendData, IsSameStartedOnPeer, GetSemaphore, Wait, SendBytes, OpenToPeer
<1>2. \A i \in SessionIds : bus'[i] = bus[i] \/ (bus[i] = "free" /\ bus'[i] = "opening")
      BY DEF BusInv, TypeOK, Sender, SendData, IsSameStartedOnPeer, GetSemaphore, Wait, SendBytes,
             OpenToPeer, OpenSession
<1>3. \A i \in SessionIds : sessionsStatus[i] \in {"ok", "bad"} =>
        sessionsStatus'[i] = sessionsStatus[i]
      BY DEF BusInv, TypeOK, Sender, SendData, IsSameStartedOnPeer, GetSemaphore, Wait, SendBytes,
             OpenToPeer
<1>4. ASSUME NEW i \in SessionIds PROVE IsNotified(i)'
      BY <1>1, <1>2, <1>3 DEF NotifyInv, IsNotified
<1>5. /\ pc'[t] = "wait" => holds'[t] = "shared"
      /\ \A q \in Senders \ {t} : /\ pc'[q] = pc[q] /\ holds'[q] = holds[q]
                                 /\ session'[q] = session[q]
      BY DEF BusInv, TypeOK, Sender, SendData, IsSameStartedOnPeer, GetSemaphore, Wait, SendBytes,
             OpenToPeer, Return, GoTo
<1>6. ASSUME NEW q \in Senders PROVE IsShared(q)'
  <2>1. CASE q = t
        BY <1>5, <2>1 DEF IsShared
  <2>2. CASE q # t
    <3>1. pc[q] = "wait" => session[q] \in SessionIds
          BY DEF BusInv, HasItsSession
    <3>2. QED BY <1>2, <1>5, <2>2, <3>1 DEF NotifyInv, IsShared
  <2>3. QED BY <2>1, <2>2
<1>7. QED BY <1>4, <1>6 DEF NotifyInv

\* No wake-up is lost: a sender waits only as long as somebody has yet to
\* notify it, whoever shares its session, unless that session was closed.
THEOREM NoWakeUpIsLost == Spec => []SomebodyNotifies
<1>1. Init => NotifyInv
      BY DEF Init, NotifyInv, IsNotified, IsShared
<1>2. BusInv /\ NotifyInv /\ [Next]_vars => NotifyInv'
  <2> SUFFICES ASSUME BusInv, NotifyInv, [Next]_vars PROVE NotifyInv'
      OBVIOUS
  <2>1. CASE UNCHANGED vars
        BY <2>1 DEF vars, senders, NotifyInv, IsNotified, IsShared
  <2>2. QED BY <2>1, NotifyCallbacks, NotifySenders DEF Next
<1>3. BusInv /\ NotifyInv => SomebodyNotifies
  <2> SUFFICES ASSUME BusInv, NotifyInv, NEW t \in Senders, pc[t] = "wait",
                      bus[session[t]] # "closed"
               PROVE  /\ holds[t] = "shared"
                      /\ \/ sessionsStatus[session[t]] \in {"ok", "bad"}
                         \/ bus[session[t]] = "opening"
                         \/ callback[session[t]] = "opened"
      BY DEF SomebodyNotifies, At
  <2>1. session[t] \in SessionIds /\ bus[session[t]] # "free"
        BY DEF BusInv, HasItsSession
  <2>2. bus[session[t]] \in BusStates
        BY <2>1, SessionTypes DEF BusInv
  <2>3. QED BY <2>1, <2>2 DEF NotifyInv, IsNotified, IsShared, BusStates
<1>4. QED BY <1>1, <1>2, <1>3, BusInvariant, PTL DEF Spec
=============================================================================
