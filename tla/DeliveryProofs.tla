--------------------------- MODULE DeliveryProofs ---------------------------
(***************************************************************************)
(* What holds of Delivery for any number of wrappers, of callbacks and of  *)
(* threads, and for queues of any length: no callback is called for what   *)
(* was emitted before it was taken off; a status is emitted to what exists, *)
(* but where a caller was careless; nobody waits in a circle unless a      *)
(* running callback itself asks for statuses; and nothing stays in a queue *)
(* that no work is to come for.                                            *)
(***************************************************************************)
EXTENDS Delivery, SequenceTheorems, TLAPS

States == {"joined", "left", "freed"}
Lists == [Kinds -> Seq(Callbacks)]
Entry == [callback : Callbacks, live : BOOLEAN]
Queues == [Kinds -> Seq(Entry)]
Walks == [step : {"idle", "insert", "post"}, wrapper : Wrappers \cup {NoWrapper}, kind : Kinds,
          node : Callbacks \cup {NoCallback}, gone : BOOLEAN, live : BOOLEAN]
JsStates == [step : JsSteps, wrapper : Wrappers \cup {NoWrapper}, kind : Kinds,
             callback : Callbacks \cup {NoCallback}]
Batches == [wrapper : Wrappers \cup {NoWrapper}, kind : Kinds]

Once(s) == \A i, j \in DOMAIN s : s[i] = s[j] => i = j

\* A thread that walks is at a node of some list; one whose reference it can
\* still use is in it.
WalkFits(t) ==
  producer[t].step # "idle" =>
    /\ producer[t].wrapper \in Wrappers
    /\ producer[t].node \in Callbacks
    /\ producer[t].live => producer[t].node \in Attached(producer[t].wrapper, producer[t].kind)

\* The lists, the queues and the walks from the ones to the others.
Consistent ==
  /\ handlers \in [Wrappers -> Lists]
  /\ args \in [Wrappers -> Queues]
  /\ producer \in [Producers -> Walks]
  /\ \A t \in Producers : WalkFits(t)
  /\ LiveMeansAttached
  /\ \A w \in Wrappers, k \in Kinds : Once(handlers[w][k])

\* What the JS thread is about to do is of a wrapper it has not left; it is in
\* a batch while it is inside a work, and not when it is free.
JsFits ==
  /\ batch.wrapper = NoWrapper <=> batch = NoBatch
  /\ js.step = "idle" => batch = NoBatch
  /\ js.step \in {"loop", "callback"} => batch # NoBatch
  /\ js.step \notin {"idle", "loop", "callback"} =>
       js.wrapper \in Wrappers /\ state[js.wrapper] = "joined"
  /\ js.step = "file" => js.callback \in Callbacks
  /\ js.step \in {"file", "unfile", "clear", "leave"} => js.kind = "status"

JsInv ==
  /\ state \in [Wrappers -> States]
  /\ observed \subseteq Wrappers
  /\ filed \subseteq Wrappers
  /\ notifierLock \in Producers \cup {Nobody}
  /\ works \in [Wrappers -> Nat]
  /\ js \in JsStates
  /\ batch \in Batches
  /\ careless \subseteq Wrappers
  /\ JsFits

\* The inductive invariant, whatever the callers do.
DeliveryInv == Consistent /\ JsInv

\* Who walks a status list holds the notifier's mutex_, and the list's wrapper is
\* filed and has the node, unless it is careless; what is filed, and not
\* careless, is joined.
WalkIsSafe(t) ==
  producer[t].step # "idle" /\ producer[t].kind = "status" =>
    /\ notifierLock = t
    /\ producer[t].wrapper \notin careless => producer[t].wrapper \in filed /\ ~producer[t].gone

SafeInv ==
  /\ \A w \in filed \ careless : state[w] = "joined"
  /\ \A t \in Producers : WalkIsSafe(t)

\* Of callbacks that make no call of on('status'), off('status') or setSessionId:
\* inside a work the JS thread does not come to where it needs the mutex_.
WorkIsInside == batch # NoBatch => js.step \in {"loop", "callback", "refer"}

-----------------------------------------------------------------------------
\* Types of the records.
LEMMA Constants ==
  /\ Idle \in JsStates /\ Idle.step = "idle" /\ NoBatch \in Batches /\ NoBatch.wrapper = NoWrapper
  /\ NoWalk \in Walks /\ NoWalk.step = "idle"
  /\ NoEntries \in Lists /\ NoEntries \in Queues
  /\ \A k \in Kinds : NoEntries[k] = <<>>
<1>1. /\ Idle \in JsStates /\ Idle.step = "idle" /\ NoBatch \in Batches /\ NoBatch.wrapper = NoWrapper
      /\ NoWalk \in Walks /\ NoWalk.step = "idle"
      BY DEF Idle, JsStates, JsSteps, NoBatch, Batches, NoWalk, Walks, Kinds
<1>2. <<>> \in Seq(Callbacks) /\ <<>> \in Seq(Entry)
      BY EmptySeq
<1>3. QED BY <1>1, <1>2 DEF NoEntries, Lists, Queues

\* A node goes to the front of a list.
LEMMA AddFirst ==
  ASSUME NEW S, NEW s \in Seq(S), NEW c \in S, c \notin ToSet(s), Once(s)
  PROVE  /\ <<c>> \o s \in Seq(S)
         /\ ToSet(s) \subseteq ToSet(<<c>> \o s)
         /\ Once(<<c>> \o s)
<1>1. PICK n \in Nat : n = Len(s)
      BY LenProperties
<1>2. DOMAIN s = 1..n
      BY <1>1, LenProperties
<1>3. <<c>> \in Seq(S) /\ Len(<<c>>) = 1 /\ <<c>>[1] = c
      OBVIOUS
<1>4. PICK v : v = <<c>> \o s
      OBVIOUS
<1>5. /\ v \in Seq(S) /\ Len(v) = 1 + n
      /\ \A i \in 1..(1 + n) : v[i] = IF i <= 1 THEN <<c>>[i] ELSE s[i - 1]
      BY <1>1, <1>3, <1>4, ConcatProperties
<1>6. DOMAIN v = 1..(1 + n)
      BY <1>5, LenProperties
<1>7. v[1] = c /\ \A i \in 1..n : v[i + 1] = s[i]
      BY <1>3, <1>5
<1>8. ToSet(s) \subseteq ToSet(v)
  <2>1. ASSUME NEW i \in DOMAIN s PROVE s[i] \in ToSet(v)
    <3>1. i + 1 \in DOMAIN v /\ v[i + 1] = s[i]
          BY <1>2, <1>6, <1>7
    <3>2. QED BY <3>1 DEF ToSet
  <2>2. QED BY <2>1 DEF ToSet
<1>9. Once(v)
  <2>1. SUFFICES ASSUME NEW i \in 1..(1 + n), NEW j \in 1..(1 + n), v[i] = v[j] PROVE i = j
        BY <1>6 DEF Once
  <2>2. \A m \in 1..n : s[m] # c
        BY <1>2 DEF ToSet
  <2>3. \A m \in 2..(1 + n) : v[m] = s[m - 1] /\ m - 1 \in 1..n
        BY <1>5
  <2>4. CASE i = 1 \/ j = 1
        BY <1>7, <2>1, <2>2, <2>3, <2>4
  <2>5. CASE i # 1 /\ j # 1
    <3>1. s[i - 1] = s[j - 1] /\ i - 1 \in DOMAIN s /\ j - 1 \in DOMAIN s
          BY <1>2, <2>1, <2>3, <2>5
    <3>2. i - 1 = j - 1
          BY <3>1 DEF Once
    <3>3. QED BY <3>2
  <2>6. QED BY <2>4, <2>5
<1>10. QED BY <1>4, <1>5, <1>8, <1>9

\* A node is unlinked: the others stay, once each.
LEMMA Unlinked ==
  ASSUME NEW S, NEW s \in Seq(S), NEW m \in DOMAIN s, Once(s)
  PROVE  /\ RemoveAt(s, m) \in Seq(S)
         /\ ToSet(s) \ {s[m]} \subseteq ToSet(RemoveAt(s, m))
         /\ Once(RemoveAt(s, m))
<1>1. PICK n \in Nat : n = Len(s)
      BY LenProperties
<1>2. DOMAIN s = 1..n /\ \A i \in 1..n : s[i] \in S
      BY <1>1, LenProperties, ElementOfSeq
<1>3. m \in 1..n
      BY <1>2
<1>4. PICK a, b : a = SubSeq(s, 1, m - 1) /\ b = SubSeq(s, m + 1, n)
      OBVIOUS
<1>5. a \in Seq(S) /\ Len(a) = m - 1 /\ \A i \in 1..(m - 1) : a[i] = s[i]
  <2>1. \A i \in 1..(m - 1) : s[i] \in S
        BY <1>2, <1>3
  <2>2. /\ a \in Seq(S) /\ Len(a) = IF 1 <= m - 1 THEN (m - 1) - 1 + 1 ELSE 0
        /\ \A i \in 1..((m - 1) - 1 + 1) : a[i] = s[1 + i - 1]
        BY <1>3, <1>4, <2>1, SubSeqProperties
  <2>3. QED BY <1>3, <2>2
<1>6. b \in Seq(S) /\ Len(b) = n - m /\ \A i \in 1..(n - m) : b[i] = s[m + i]
  <2>1. \A i \in (m + 1)..n : s[i] \in S
        BY <1>2, <1>3
  <2>2. /\ b \in Seq(S) /\ Len(b) = IF m + 1 <= n THEN n - (m + 1) + 1 ELSE 0
        /\ \A i \in 1..(n - (m + 1) + 1) : b[i] = s[(m + 1) + i - 1]
        BY <1>3, <1>4, <2>1, SubSeqProperties
  <2>3. QED BY <1>3, <2>2
<1>7. PICK v : v = a \o b
      OBVIOUS
<1>8. /\ v \in Seq(S) /\ Len(v) = n - 1
      /\ \A i \in 1..(n - 1) : v[i] = IF i <= m - 1 THEN a[i] ELSE b[i - (m - 1)]
  <2>1. /\ v \in Seq(S) /\ Len(v) = Len(a) + Len(b)
        /\ \A i \in 1..(Len(a) + Len(b)) : v[i] = IF i <= Len(a) THEN a[i] ELSE b[i - Len(a)]
        BY <1>5, <1>6, <1>7, ConcatProperties
  <2>2. Len(a) = m - 1 /\ Len(a) + Len(b) = n - 1
        BY <1>3, <1>5, <1>6
  <2>3. QED BY <2>1, <2>2
<1>9. \A i \in 1..(n - 1) : v[i] = IF i < m THEN s[i] ELSE s[i + 1]
  <2>1. TAKE i \in 1..(n - 1)
  <2>2. CASE i < m
    <3>1. i <= m - 1 /\ i \in 1..(m - 1)
          BY <1>3, <2>2
    <3>2. QED BY <1>5, <1>8, <2>2, <3>1
  <2>3. CASE ~(i < m)
    <3>1. ~(i <= m - 1) /\ i - (m - 1) \in 1..(n - m) /\ m + (i - (m - 1)) = i + 1
          BY <1>3, <2>3
    <3>2. QED BY <1>6, <1>8, <2>3, <3>1
  <2>4. QED BY <2>2, <2>3
<1>10. DOMAIN v = 1..(n - 1)
       BY <1>8, LenProperties
<1>11. v = RemoveAt(s, m)
       BY <1>1, <1>4, <1>7 DEF RemoveAt
<1>12. ToSet(s) \ {s[m]} \subseteq ToSet(v)
  <2>1. ASSUME NEW i \in 1..n, i # m PROVE s[i] \in ToSet(v)
    <3>1. CASE i < m
      <4>1. i \in DOMAIN v /\ v[i] = s[i]
            BY <1>3, <1>9, <1>10, <3>1
      <4>2. QED BY <4>1 DEF ToSet
    <3>2. CASE i > m
      <4>1. i - 1 \in 1..(n - 1) /\ ~(i - 1 < m) /\ (i - 1) + 1 = i
            BY <1>3, <3>2
      <4>2. i - 1 \in DOMAIN v /\ v[i - 1] = s[i]
            BY <1>9, <1>10, <4>1
      <4>3. QED BY <4>2 DEF ToSet
    <3>3. QED BY <1>3, <2>1, <3>1, <3>2
  <2>2. QED BY <1>2, <2>1 DEF ToSet
<1>13. Once(v)
  <2>1. SUFFICES ASSUME NEW i \in 1..(n - 1), NEW j \in 1..(n - 1), v[i] = v[j] PROVE i = j
        BY <1>10 DEF Once
  <2>2. PICK p, q \in 1..n : /\ p = IF i < m THEN i ELSE i + 1
                             /\ q = IF j < m THEN j ELSE j + 1
        BY <1>3
  <2>3. s[p] = s[q]
        BY <1>9, <2>1, <2>2
  <2>4. p = q
        BY <1>2, <2>3 DEF Once
  <2>5. QED BY <1>3, <2>2, <2>4
<1>14. QED BY <1>8, <1>11, <1>12, <1>13

\* One list, and one queue, are as they are made.
ListIs(w, k, v) == v \in Seq(Callbacks) /\ handlers' = [handlers EXCEPT ![w][k] = v]
QueueIs(w, k, v) == v \in Seq(Entry) /\ args' = [args EXCEPT ![w][k] = v]

\* The other lists stay.
LEMMA OneList ==
  ASSUME Consistent, NEW w \in Wrappers, NEW k \in Kinds, NEW v, ListIs(w, k, v)
  PROVE  /\ handlers' \in [Wrappers -> Lists]
         /\ handlers'[w][k] = v
         /\ \A u \in Wrappers, j \in Kinds : u # w \/ j # k => handlers'[u][j] = handlers[u][j]
BY DEF ListIs, Consistent, Lists

\* Likewise of a queue.
LEMMA OneQueue ==
  ASSUME Consistent, NEW w \in Wrappers, NEW k \in Kinds, NEW v, QueueIs(w, k, v)
  PROVE  /\ args' \in [Wrappers -> Queues]
         /\ args'[w][k] = v
         /\ \A u \in Wrappers, j \in Kinds : u # w \/ j # k => args'[u][j] = args[u][j]
BY DEF QueueIs, Consistent, Queues

\* The types of what a wrapper and a thread have.
LEMMA ListTypes ==
  ASSUME Consistent, NEW w \in Wrappers, NEW k \in Kinds
  PROVE  /\ handlers[w][k] \in Seq(Callbacks) /\ args[w][k] \in Seq(Entry)
         /\ Attached(w, k) \subseteq Callbacks /\ Once(handlers[w][k])
<1>1. handlers[w][k] \in Seq(Callbacks) /\ args[w][k] \in Seq(Entry) /\ Once(handlers[w][k])
      BY DEF Consistent, Lists, Queues
<1>2. \A i \in DOMAIN handlers[w][k] : handlers[w][k][i] \in Callbacks
      BY <1>1, LenProperties, ElementOfSeq
<1>3. QED BY <1>1, <1>2 DEF Attached, ToSet

\* Where none of them changes, they stay consistent.
LEMMA SameLists ==
  ASSUME Consistent, UNCHANGED <<handlers, args, producer>>
  PROVE  Consistent'
BY DEF Consistent, WalkFits, LiveMeansAttached, Attached

\* A callback is added.
LEMMA AddsNode ==
  ASSUME Consistent, NEW w \in Wrappers, NEW k \in Kinds, NEW c \in Callbacks,
         c \notin Attached(w, k), NEW v, v = <<c>> \o handlers[w][k],
         handlers' = [handlers EXCEPT ![w][k] = v], UNCHANGED <<args, producer>>
  PROVE  Consistent'
<1>1. handlers[w][k] \in Seq(Callbacks) /\ Once(handlers[w][k])
      BY ListTypes
<1>2. v \in Seq(Callbacks) /\ Attached(w, k) \subseteq ToSet(v) /\ Once(v)
      BY <1>1, AddFirst DEF Attached
<1>3. ListIs(w, k, v)
      BY <1>2 DEF ListIs
<1>4. /\ handlers' \in [Wrappers -> Lists] /\ handlers'[w][k] = v
      /\ \A u \in Wrappers, j \in Kinds : u # w \/ j # k => handlers'[u][j] = handlers[u][j]
  <2>1. handlers \in [Wrappers -> Lists]
        BY DEF Consistent
  <2>2. QED BY <1>2, <2>1 DEF Lists
<1>5. \A u \in Wrappers, j \in Kinds :
        Once(handlers'[u][j]) /\ Attached(u, j) \subseteq Attached(u, j)'
      BY <1>2, <1>4 DEF Attached, Consistent
<1>6. \A t \in Producers : WalkFits(t)'
  <2>1. \A t \in Producers : producer[t].kind \in Kinds
        BY DEF Consistent, Walks
  <2>2. QED BY <1>5, <2>1 DEF Consistent, WalkFits
<1>7. LiveMeansAttached'
      BY <1>5 DEF Consistent, LiveMeansAttached
<1>8. QED BY <1>4, <1>5, <1>6, <1>7 DEF Consistent

\* Nodes are freed.
LEMMA FreeEffect ==
  ASSUME Consistent, NEW w \in Wrappers, NEW k \in Kinds, NEW gone, Free(w, k, gone)
  PROVE  /\ args' \in [Wrappers -> Queues] /\ producer' \in [Producers -> Walks]
         /\ \A u \in Wrappers, j \in Kinds : u # w \/ j # k => args'[u][j] = args[u][j]
         /\ \A i \in DOMAIN args'[w][k] :
              /\ i \in DOMAIN args[w][k]
              /\ args'[w][k][i].callback = args[w][k][i].callback
              /\ args'[w][k][i].live => args[w][k][i].live /\ args[w][k][i].callback \notin gone
         /\ \A t \in Producers :
              /\ producer'[t].step = producer[t].step
              /\ producer'[t].wrapper = producer[t].wrapper
              /\ producer'[t].kind = producer[t].kind
              /\ producer'[t].node = producer[t].node
              /\ \/ producer'[t] = producer[t] /\ ~(Walking(t, w, k) /\ producer[t].node \in gone)
                 \/ Walking(t, w, k) /\ producer[t].node \in gone /\ ~producer'[t].live
<1>1. PICK e : e = args[w][k]
      OBVIOUS
<1>2. e \in Seq(Entry)
      BY <1>1, ListTypes
<1>3. PICK n \in Nat : n = Len(e) /\ DOMAIN e = 1..n /\ e \in [1..n -> Entry]
      BY <1>2, LenProperties
<1>4. PICK v : v = [i \in 1..n |-> [callback |-> e[i].callback,
                                    live |-> e[i].live /\ e[i].callback \notin gone]]
      OBVIOUS
<1>5. ASSUME NEW i \in 1..n
      PROVE  /\ v[i] \in Entry /\ v[i].callback = e[i].callback
             /\ v[i].live = (e[i].live /\ e[i].callback \notin gone)
  <2>1. e[i] \in Entry
        BY <1>3
  <2>2. e[i].callback \in Callbacks
        BY <2>1 DEF Entry
  <2>3. PICK b \in BOOLEAN : b = (e[i].live /\ e[i].callback \notin gone)
        OBVIOUS
  <2>4. v[i] = [callback |-> e[i].callback, live |-> b]
        BY <1>4, <2>3
  <2>5. QED BY <2>2, <2>3, <2>4 DEF Entry
<1>6. v \in [1..n -> Entry] /\ DOMAIN v = 1..n
      BY <1>4, <1>5
<1>7. v \in Seq(Entry)
      BY <1>6, SeqDef
<1>8. QueueIs(w, k, v)
  <2>1. args' = [args EXCEPT ![w][k] = v]
        BY <1>1, <1>3, <1>4 DEF Free
  <2>2. QED BY <1>7, <2>1 DEF QueueIs
<1>9. /\ args' \in [Wrappers -> Queues] /\ args'[w][k] = v
      /\ \A u \in Wrappers, j \in Kinds : u # w \/ j # k => args'[u][j] = args[u][j]
      BY <1>8, OneQueue
<1>10. ASSUME NEW i \in DOMAIN args'[w][k]
       PROVE  /\ i \in DOMAIN args[w][k]
              /\ args'[w][k][i].callback = args[w][k][i].callback
              /\ args'[w][k][i].live => args[w][k][i].live /\ args[w][k][i].callback \notin gone
  <2>1. i \in 1..n
        BY <1>6, <1>9
  <2>2. QED BY <1>1, <1>3, <1>5, <1>9, <2>1
<1>11. producer' = [t \in Producers |->
         IF Walking(t, w, k) /\ producer[t].node \in gone
           THEN [producer[t] EXCEPT !.gone = TRUE, !.live = FALSE]
           ELSE producer[t]]
       BY DEF Free
<1>12. ASSUME NEW t \in Producers
       PROVE  /\ producer'[t] \in Walks
              /\ producer'[t].step = producer[t].step
              /\ producer'[t].wrapper = producer[t].wrapper
              /\ producer'[t].kind = producer[t].kind
              /\ producer'[t].node = producer[t].node
              /\ \/ producer'[t] = producer[t] /\ ~(Walking(t, w, k) /\ producer[t].node \in gone)
                 \/ Walking(t, w, k) /\ producer[t].node \in gone /\ ~producer'[t].live
  <2>1. producer[t] \in Walks
        BY DEF Consistent
  <2>2. CASE Walking(t, w, k) /\ producer[t].node \in gone
    <3>1. producer'[t] = [producer[t] EXCEPT !.gone = TRUE, !.live = FALSE]
          BY <1>11, <2>2
    <3>2. QED BY <2>1, <2>2, <3>1 DEF Walks
  <2>3. CASE ~(Walking(t, w, k) /\ producer[t].node \in gone)
    <3>1. producer'[t] = producer[t]
          BY <1>11, <2>3
    <3>2. QED BY <2>1, <2>3, <3>1
  <2>4. QED BY <2>2, <2>3
<1>13. producer' \in [Producers -> Walks]
       BY <1>11, <1>12
<1>14. QED BY <1>9, <1>10, <1>12, <1>13

\* Callbacks are taken off: nothing refers to their nodes that could be called.
LEMMA FreesNodes ==
  ASSUME Consistent, NEW w \in Wrappers, NEW k \in Kinds, NEW v, NEW gone,
         ListIs(w, k, v), Once(v), Attached(w, k) \ gone \subseteq ToSet(v), Free(w, k, gone)
  PROVE  Consistent'
<1>1. /\ handlers' \in [Wrappers -> Lists] /\ handlers'[w][k] = v
      /\ \A u \in Wrappers, j \in Kinds : u # w \/ j # k => handlers'[u][j] = handlers[u][j]
      BY OneList
<1>2. \A u \in Wrappers, j \in Kinds : Once(handlers'[u][j])
      BY <1>1 DEF Consistent
<1>3. /\ Attached(w, k) \ gone \subseteq Attached(w, k)'
      /\ \A u \in Wrappers, j \in Kinds : u # w \/ j # k => Attached(u, j)' = Attached(u, j)
      BY <1>1 DEF Attached
<1>4. ASSUME NEW t \in Producers PROVE WalkFits(t)'
  <2>1. /\ producer'[t].step = producer[t].step /\ producer'[t].wrapper = producer[t].wrapper
        /\ producer'[t].kind = producer[t].kind /\ producer'[t].node = producer[t].node
        /\ \/ producer'[t] = producer[t] /\ ~(Walking(t, w, k) /\ producer[t].node \in gone)
           \/ Walking(t, w, k) /\ producer[t].node \in gone /\ ~producer'[t].live
        BY FreeEffect
  <2>2. WalkFits(t) /\ producer[t].kind \in Kinds
        BY DEF Consistent, Walks
  <2>3. CASE producer'[t].step = "idle"
        BY <2>3 DEF WalkFits
  <2>4. CASE producer'[t].step # "idle"
    <3>1. PICK u \in Wrappers, j \in Kinds : u = producer[t].wrapper /\ j = producer[t].kind
          BY <2>1, <2>2, <2>4 DEF WalkFits
    <3>2. ASSUME producer'[t].live PROVE producer[t].node \in Attached(u, j)'
      <4>1. producer'[t] = producer[t] /\ producer[t].node \in Attached(u, j)
            BY <2>1, <2>2, <2>4, <3>1, <3>2 DEF WalkFits
      <4>2. u = w /\ j = k => producer[t].node \notin gone
            BY <2>1, <2>4, <3>1, <3>2 DEF Walking
      <4>3. QED BY <1>3, <4>1, <4>2
    <3>3. producer[t].node \in Callbacks
          BY <2>1, <2>2, <2>4 DEF WalkFits
    <3>4. QED BY <2>1, <3>1, <3>2, <3>3 DEF WalkFits, Attached
  <2>5. QED BY <2>3, <2>4
<1>5. LiveMeansAttached'
  <2>1. SUFFICES ASSUME NEW u \in Wrappers, NEW j \in Kinds, NEW i \in DOMAIN args'[u][j],
                        args'[u][j][i].live
                 PROVE  args'[u][j][i].callback \in Attached(u, j)'
        BY DEF LiveMeansAttached
  <2>2. CASE u = w /\ j = k
    <3>1. /\ i \in DOMAIN args[w][k] /\ args'[w][k][i].callback = args[w][k][i].callback
          /\ args[w][k][i].live /\ args[w][k][i].callback \notin gone
          BY <2>1, <2>2, FreeEffect
    <3>2. args[w][k][i].callback \in Attached(w, k)
          BY <3>1 DEF Consistent, LiveMeansAttached
    <3>3. QED BY <1>3, <2>2, <3>1, <3>2
  <2>3. CASE u # w \/ j # k
    <3>1. args'[u][j] = args[u][j]
          BY <2>3, FreeEffect
    <3>2. args[u][j][i].callback \in Attached(u, j)
          BY <2>1, <3>1 DEF Consistent, LiveMeansAttached
    <3>3. QED BY <1>3, <2>3, <3>1, <3>2
  <2>4. QED BY <2>2, <2>3
<1>6. QED BY <1>1, <1>2, <1>4, <1>5, FreeEffect DEF Consistent

\* A list is freed.
LEMMA FreesList ==
  ASSUME Consistent, NEW w \in Wrappers, NEW k \in Kinds,
         handlers' = [handlers EXCEPT ![w][k] = <<>>], Free(w, k, Attached(w, k))
  PROVE  Consistent'
<1>1. ListIs(w, k, <<>>) /\ Once(<<>>)
      BY EmptySeq DEF ListIs, Once
<1>2. QED BY <1>1, FreesNodes

\* One node of a list is.
LEMMA FreesNode ==
  ASSUME Consistent, NEW w \in Wrappers, NEW k \in Kinds, NEW c, Unlink(w, k, c), Free(w, k, {c})
  PROVE  Consistent'
<1>1. PICK i \in DOMAIN handlers[w][k] :
        /\ handlers[w][k][i] = c
        /\ handlers' = [handlers EXCEPT ![w][k] = RemoveAt(@, i)]
      BY DEF Unlink
<1>2. PICK v : v = RemoveAt(handlers[w][k], i)
      OBVIOUS
<1>3. v \in Seq(Callbacks) /\ Attached(w, k) \ {c} \subseteq ToSet(v) /\ Once(v)
      BY <1>1, <1>2, ListTypes, Unlinked DEF Attached
<1>4. handlers' = [handlers EXCEPT ![w][k] = v]
      BY <1>1, <1>2
<1>5. QED BY <1>3, <1>4, FreesNodes DEF ListIs

\* A queue is emptied, or loses its first entry.
LEMMA QueueShrinks ==
  ASSUME Consistent, UNCHANGED <<handlers, producer>>,
         NEW w \in Wrappers, NEW k \in Kinds, NEW v \in {<<>>, Tail(args[w][k])},
         v = <<>> \/ args[w][k] # <<>>, args' = [args EXCEPT ![w][k] = v]
  PROVE  Consistent'
<1>1. args[w][k] \in Seq(Entry)
      BY ListTypes
<1>2. v \in Seq(Entry) /\ \A i \in DOMAIN v : \E j \in DOMAIN args[w][k] : v[i] = args[w][k][j]
  <2>1. CASE v = <<>>
        BY <2>1, EmptySeq
  <2>2. CASE v = Tail(args[w][k]) /\ args[w][k] # <<>>
    <3>1. /\ v \in Seq(Entry) /\ Len(v) = Len(args[w][k]) - 1
          /\ \A i \in 1..Len(v) : v[i] = args[w][k][i + 1]
          BY <1>1, <2>2, HeadTailProperties
    <3>2. DOMAIN v = 1..Len(v) /\ DOMAIN args[w][k] = 1..Len(args[w][k])
          /\ Len(v) \in Nat /\ Len(args[w][k]) \in Nat
          BY <1>1, <3>1, LenProperties
    <3>3. \A i \in DOMAIN v : i + 1 \in DOMAIN args[w][k]
          BY <3>1, <3>2
    <3>4. QED BY <3>1, <3>2, <3>3
  <2>3. QED BY <2>1, <2>2
<1>3. /\ args' \in [Wrappers -> Queues] /\ args'[w][k] = v
      /\ \A u \in Wrappers, j \in Kinds : u # w \/ j # k => args'[u][j] = args[u][j]
  <2>1. QueueIs(w, k, v)
        BY <1>2 DEF QueueIs
  <2>2. QED BY <2>1, OneQueue
<1>4. LiveMeansAttached'
  <2>1. SUFFICES ASSUME NEW u \in Wrappers, NEW j \in Kinds, NEW i \in DOMAIN args'[u][j],
                        args'[u][j][i].live
                 PROVE  args'[u][j][i].callback \in Attached(u, j)
        BY DEF LiveMeansAttached, Attached
  <2>2. PICK m \in DOMAIN args[u][j] : args'[u][j][i] = args[u][j][m]
        BY <1>2, <1>3
  <2>3. QED BY <2>1, <2>2 DEF Consistent, LiveMeansAttached
<1>5. QED BY <1>3, <1>4 DEF Consistent, WalkFits, Attached

\* A thread's walk becomes p, which fits the lists.
LEMMA WalksOn ==
  ASSUME Consistent, NEW t \in Producers, NEW p \in Walks,
         producer' = [producer EXCEPT ![t] = p], UNCHANGED <<handlers, args>>,
         p.step = "idle" \/ (/\ p.wrapper \in Wrappers /\ p.node \in Callbacks
                             /\ p.live => p.node \in Attached(p.wrapper, p.kind))
  PROVE  /\ Consistent' /\ producer'[t] = p
         /\ \A q \in Producers : q # t => producer'[q] = producer[q]
<1>1. /\ producer' \in [Producers -> Walks] /\ producer'[t] = p
      /\ \A q \in Producers : q # t => producer'[q] = producer[q]
      BY DEF Consistent
<1>2. WalkFits(t)'
      BY <1>1 DEF WalkFits, Attached
<1>3. ASSUME NEW q \in Producers, q # t PROVE WalkFits(q)'
      BY <1>1, <1>3 DEF Consistent, WalkFits, Attached
<1>4. LiveMeansAttached'
      BY DEF Consistent, LiveMeansAttached, Attached
<1>5. QED BY <1>1, <1>2, <1>3, <1>4 DEF Consistent

\* A thread that comes to a node of a list has what it reads there.
LEMMA NodeType ==
  ASSUME Consistent, NEW w \in Wrappers, NEW k \in Kinds, NEW c \in Attached(w, k)
  PROVE  /\ AtNode(w, k, c) \in Walks
         /\ AtNode(w, k, c).step = "insert" /\ AtNode(w, k, c).wrapper = w
         /\ AtNode(w, k, c).kind = k /\ AtNode(w, k, c).node = c /\ ~AtNode(w, k, c).gone
<1>1. c \in Callbacks
      BY ListTypes
<1>2. PICK b \in BOOLEAN :
        b = (js # [step |-> "refer", wrapper |-> w, kind |-> k, callback |-> c])
      OBVIOUS
<1>3. AtNode(w, k, c) = [step |-> "insert", wrapper |-> w, kind |-> k, node |-> c,
                         gone |-> FALSE, live |-> b]
      BY <1>2 DEF AtNode
<1>4. QED BY <1>1, <1>3 DEF Walks

\* Thread t, and no other, has come to a node of the list.
WalkIsAt(t, w, k) ==
  /\ producer'[t].wrapper = w /\ producer'[t].kind = k /\ ~producer'[t].gone
  /\ \A q \in Producers : q # t => producer'[q] = producer[q]

\* The walk of a list begins.
LEMMA WalkBegins ==
  ASSUME Consistent, NEW t \in Producers, NEW w \in Wrappers, NEW k \in Kinds,
         handlers[w][k] # <<>>, UNCHANGED <<handlers, args>>,
         producer' = [producer EXCEPT ![t] = AtNode(w, k, Head(handlers[w][k]))]
  PROVE  Consistent' /\ WalkIsAt(t, w, k)
<1>1. Head(handlers[w][k]) \in Attached(w, k)
  <2>1. PICK s \in Seq(Callbacks) : s = handlers[w][k] /\ s # <<>>
        BY ListTypes
  <2>2. Head(s) = s[1] /\ 1 \in DOMAIN s
        BY <2>1, LenProperties, EmptySeq
  <2>3. QED BY <2>1, <2>2 DEF Attached, ToSet
<1>2. PICK c \in Attached(w, k) : c = Head(handlers[w][k])
      BY <1>1
<1>3. PICK p \in Walks : /\ p = AtNode(w, k, c) /\ p.step = "insert" /\ p.wrapper = w
                         /\ p.kind = k /\ p.node = c /\ ~p.gone
      BY <1>2, NodeType
<1>4. producer' = [producer EXCEPT ![t] = p] /\ p.node \in Callbacks
      BY <1>2, <1>3, ListTypes
<1>5. p.wrapper \in Wrappers /\ p.node \in Attached(p.wrapper, p.kind)
      BY <1>2, <1>3
<1>6. /\ Consistent' /\ producer'[t] = p
      /\ \A q \in Producers : q # t => producer'[q] = producer[q]
      BY <1>4, <1>5, WalksOn
<1>7. QED BY <1>3, <1>6 DEF WalkIsAt

\* A thread goes on to the next node, or its walk ends.
LEMMA AdvanceEffect ==
  ASSUME Consistent, NEW t \in Producers, producer[t].step = "post", Advance(t),
         UNCHANGED <<handlers, args>>
  PROVE  /\ Consistent'
         /\ \A q \in Producers : q # t => producer'[q] = producer[q]
         /\ \/ /\ producer'[t].step = "idle"
               /\ notifierLock' = IF producer[t].kind = "status" THEN Nobody ELSE notifierLock
            \/ /\ producer'[t].wrapper = producer[t].wrapper
               /\ producer'[t].kind = producer[t].kind
               /\ ~producer'[t].gone
               /\ UNCHANGED notifierLock
<1>1. PICK w \in Wrappers, k \in Kinds : w = producer[t].wrapper /\ k = producer[t].kind
      BY DEF Consistent, WalkFits, Walks
<1>2. PICK list : list = handlers[w][k]
      OBVIOUS
<1>3. PICK later : later = {i \in DOMAIN list : i > 1 /\ list[i - 1] = producer[t].node}
      OBVIOUS
<1>4. CASE producer[t].gone \/ later = {}
  <2>1. /\ producer' = [producer EXCEPT ![t] = NoWalk]
        /\ notifierLock' = IF producer[t].kind = "status" THEN Nobody ELSE notifierLock
        BY <1>1, <1>2, <1>3, <1>4 DEF Advance
  <2>2. QED BY <2>1, Constants, WalksOn
<1>5. CASE ~(producer[t].gone \/ later = {})
  <2>1. PICK i \in later : i = CHOOSE j \in later : TRUE
        BY <1>5
  <2>2. /\ producer' = [producer EXCEPT ![t] = AtNode(w, k, list[i])]
        /\ UNCHANGED notifierLock
        BY <1>1, <1>2, <1>3, <1>5, <2>1 DEF Advance
  <2>3. PICK c \in Attached(w, k) : c = list[i]
        BY <1>2, <1>3 DEF Attached, ToSet
  <2>4. PICK p \in Walks : /\ p = AtNode(w, k, c) /\ p.step = "insert" /\ p.wrapper = w
                           /\ p.kind = k /\ p.node = c /\ ~p.gone
        BY NodeType
  <2>5. producer' = [producer EXCEPT ![t] = p] /\ p.node \in Callbacks
        BY <2>2, <2>3, <2>4, ListTypes
  <2>6. /\ Consistent' /\ producer'[t] = p
        /\ \A q \in Producers : q # t => producer'[q] = producer[q]
        BY <2>4, <2>5, WalksOn
  <2>7. QED BY <1>1, <2>2, <2>4, <2>6
<1>6. QED BY <1>4, <1>5

\* An entry is filed.
LEMMA InsertEffect ==
  ASSUME Consistent, NEW t \in Producers, Insert(t)
  PROVE  /\ Consistent'
         /\ \A q \in Producers : q # t => producer'[q] = producer[q]
         /\ producer'[t].step = "post" /\ producer'[t].wrapper = producer[t].wrapper
         /\ producer'[t].kind = producer[t].kind /\ producer'[t].gone = producer[t].gone
<1>1. producer[t] \in Walks /\ producer[t].step = "insert" /\ WalkFits(t)
      BY DEF Insert, Consistent
<1>2. PICK w \in Wrappers, k \in Kinds, c \in Callbacks, b \in BOOLEAN :
        /\ w = producer[t].wrapper /\ k = producer[t].kind
        /\ c = producer[t].node /\ b = producer[t].live
        /\ b => c \in Attached(w, k)
      BY <1>1 DEF WalkFits, Walks
<1>3. PICK p : p = [producer[t] EXCEPT !.step = "post"]
      OBVIOUS
<1>4. /\ p \in Walks /\ p.step = "post" /\ p.wrapper = w /\ p.kind = k /\ p.node = c /\ p.live = b
      /\ p.gone = producer[t].gone
      BY <1>1, <1>2, <1>3 DEF Walks
<1>5. producer' = [producer EXCEPT ![t] = p] /\ UNCHANGED handlers
      BY <1>3 DEF Insert, lists
<1>6. /\ producer' \in [Producers -> Walks] /\ producer'[t] = p
      /\ \A q \in Producers : q # t => producer'[q] = producer[q]
      BY <1>4, <1>5 DEF Consistent
<1>7. \A q \in Producers : WalkFits(q)'
  <2>1. WalkFits(t)'
        BY <1>2, <1>4, <1>5, <1>6 DEF WalkFits, Attached
  <2>2. ASSUME NEW q \in Producers, q # t PROVE WalkFits(q)'
        BY <1>5, <1>6, <2>2 DEF Consistent, WalkFits, Attached
  <2>3. QED BY <2>1, <2>2
<1>8. args' \in [Wrappers -> Queues] /\ LiveMeansAttached'
  <2>1. CASE UNCHANGED args
        BY <1>5, <2>1 DEF Consistent, LiveMeansAttached, Attached
  <2>2. CASE args' # args
    <3>1. PICK e : e = [callback |-> c, live |-> b]
          OBVIOUS
    <3>2. e \in Entry /\ e.callback = c /\ e.live = b
          BY <3>1 DEF Entry
    <3>3. PICK s \in Seq(Entry) : s = args[w][k]
          BY ListTypes
    <3>4. PICK v : v = Append(s, e)
          OBVIOUS
    <3>5. args' = [args EXCEPT ![w][k] = v]
          BY <1>2, <2>2, <3>1, <3>3, <3>4 DEF Insert
    <3>6. /\ v \in Seq(Entry) /\ Len(v) = Len(s) + 1 /\ v[Len(s) + 1] = e
          /\ \A i \in 1..Len(s) : v[i] = s[i]
          BY <3>2, <3>4, AppendProperties
    <3>7. \A i \in DOMAIN v : v[i] = e \/ (i \in DOMAIN s /\ v[i] = s[i])
      <4>1. DOMAIN v = 1..(Len(s) + 1) /\ DOMAIN s = 1..Len(s) /\ Len(s) \in Nat
            BY <3>6, LenProperties
      <4>2. QED BY <3>6, <4>1
    <3>8. /\ args' \in [Wrappers -> Queues] /\ args'[w][k] = v
          /\ \A u \in Wrappers, j \in Kinds : u # w \/ j # k => args'[u][j] = args[u][j]
      <4>1. args \in [Wrappers -> Queues]
            BY DEF Consistent
      <4>2. QED BY <3>5, <3>6, <4>1 DEF Queues
    <3>9. SUFFICES ASSUME NEW u \in Wrappers, NEW j \in Kinds, NEW i \in DOMAIN args'[u][j],
                          args'[u][j][i].live
                   PROVE  args'[u][j][i].callback \in Attached(u, j)
          BY <1>5, <3>8 DEF LiveMeansAttached, Attached
    <3>10. CASE u = w /\ j = k /\ args'[u][j][i] = e
           BY <1>2, <3>2, <3>9, <3>10
    <3>11. CASE i \in DOMAIN args[u][j] /\ args'[u][j][i] = args[u][j][i]
           BY <3>9, <3>11 DEF Consistent, LiveMeansAttached
    <3>12. QED BY <3>3, <3>7, <3>8, <3>10, <3>11
  <2>3. QED BY <2>1, <2>2
<1>9. QED BY <1>2, <1>4, <1>5, <1>6, <1>7, <1>8 DEF Consistent

\* A wrapper is collected, with its lists and its queue.
LEMMA CollectEffect ==
  ASSUME Consistent, NEW w \in Wrappers, Collect(w)
  PROVE  /\ Consistent'
         /\ \A t \in Producers :
              \/ producer'[t] = producer[t]
              \/ producer[t].step # "idle" /\ producer[t].wrapper = w /\ producer'[t].wrapper = w
                 /\ producer'[t].step = producer[t].step /\ producer'[t].kind = producer[t].kind
<1>1. /\ handlers' = [handlers EXCEPT ![w] = NoEntries]
      /\ args' = [args EXCEPT ![w] = NoEntries]
      /\ producer' = [t \in Producers |->
           IF producer[t].step # "idle" /\ producer[t].wrapper = w
             THEN [producer[t] EXCEPT !.gone = TRUE, !.live = FALSE] ELSE producer[t]]
      BY DEF Collect
<1>2. NoEntries \in Lists /\ NoEntries \in Queues /\ \A k \in Kinds : NoEntries[k] = <<>>
      BY Constants
<1>3. /\ handlers' \in [Wrappers -> Lists] /\ args' \in [Wrappers -> Queues]
      /\ \A k \in Kinds : handlers'[w][k] = <<>> /\ args'[w][k] = <<>>
      /\ \A u \in Wrappers : u # w => handlers'[u] = handlers[u] /\ args'[u] = args[u]
      BY <1>1, <1>2 DEF Consistent
<1>4. ASSUME NEW t \in Producers
      PROVE  /\ producer'[t] \in Walks /\ WalkFits(t)'
             /\ \/ producer'[t] = producer[t]
                \/ producer[t].step # "idle" /\ producer[t].wrapper = w /\ producer'[t].wrapper = w
                   /\ producer'[t].step = producer[t].step /\ producer'[t].kind = producer[t].kind
  <2>1. producer[t] \in Walks /\ WalkFits(t)
        BY DEF Consistent
  <2>2. CASE producer[t].step # "idle" /\ producer[t].wrapper = w
    <3>1. producer'[t] = [producer[t] EXCEPT !.gone = TRUE, !.live = FALSE]
          BY <1>1, <2>2
    <3>2. /\ producer'[t] \in Walks /\ ~producer'[t].live /\ producer'[t].wrapper = w
          /\ producer'[t].step = producer[t].step
          /\ producer'[t].kind = producer[t].kind /\ producer'[t].node = producer[t].node
          BY <2>1, <2>2, <3>1 DEF Walks
    <3>3. QED BY <2>1, <2>2, <3>2 DEF WalkFits
  <2>3. CASE ~(producer[t].step # "idle" /\ producer[t].wrapper = w)
    <3>1. producer'[t] = producer[t]
          BY <1>1, <2>3
    <3>2. QED BY <1>3, <2>1, <2>3, <3>1 DEF WalkFits, Attached
  <2>4. QED BY <2>2, <2>3
<1>5. \A u \in Wrappers, k \in Kinds : Once(handlers'[u][k])
  <2>1. Once(<<>>)
        BY DEF Once
  <2>2. QED BY <1>3, <2>1 DEF Consistent
<1>6. LiveMeansAttached'
  <2>1. SUFFICES ASSUME NEW u \in Wrappers, NEW k \in Kinds, NEW i \in DOMAIN args'[u][k],
                        args'[u][k][i].live
                 PROVE  args'[u][k][i].callback \in Attached(u, k)'
        BY DEF LiveMeansAttached
  <2>2. u # w
        BY <1>3, EmptySeq
  <2>3. args'[u] = args[u] /\ Attached(u, k)' = Attached(u, k)
        BY <1>3, <2>2 DEF Attached
  <2>4. QED BY <2>1, <2>3 DEF Consistent, LiveMeansAttached
<1>7. producer' \in [Producers -> Walks]
      BY <1>1, <1>4
<1>8. QED BY <1>3, <1>4, <1>5, <1>6, <1>7 DEF Consistent

\* The call of the JS thread returns, to the loop or to its callback.
LEMMA Returns ==
  ASSUME JsInv, Return, UNCHANGED batch
  PROVE  /\ js' \in JsStates /\ JsFits'
         /\ js'.step = IF batch = NoBatch THEN "idle" ELSE "callback"
<1>1. PICK s \in {"idle", "callback"} : s = IF batch = NoBatch THEN "idle" ELSE "callback"
      OBVIOUS
<1>2. js' = [Idle EXCEPT !.step = s]
      BY <1>1 DEF Return
<1>3. js' \in JsStates /\ js'.step = s
      BY <1>2, Constants DEF JsStates, JsSteps
<1>4. JsFits'
      BY <1>1, <1>3 DEF JsInv, JsFits
<1>5. QED BY <1>1, <1>3, <1>4

\* It goes on to its next step, for a wrapper it has not left.
LEMMA GoesTo ==
  ASSUME JsInv, NEW step \in {"file", "refer", "unfile", "clear", "leave"},
         NEW w \in Wrappers, NEW k \in Kinds, NEW c \in Callbacks \cup {NoCallback},
         GoTo(step, w, k, c), UNCHANGED <<batch, state>>, state[w] = "joined",
         step = "refer" \/ k = "status", step # "file" \/ c \in Callbacks
  PROVE  js' \in JsStates /\ JsFits' /\ js'.step = step
<1>1. js' = [step |-> step, wrapper |-> w, kind |-> k, callback |-> c]
      BY DEF GoTo
<1>2. /\ js' \in JsStates /\ js'.step = step /\ js'.wrapper = w /\ js'.kind = k
      /\ js'.callback = c
      BY <1>1 DEF JsStates, JsSteps
<1>3. batch'.wrapper = NoWrapper <=> batch' = NoBatch
      BY DEF JsInv, JsFits
<1>4. JsFits'
      BY <1>2, <1>3 DEF JsFits
<1>5. QED BY <1>2, <1>4

\* It does nothing.
LEMMA SameJs ==
  ASSUME JsInv, UNCHANGED <<js, batch, state>>
  PROVE  js' \in JsStates /\ JsFits'
BY DEF JsInv, JsFits

\* Its callback comes into the list, or is there.
LEMMA PublishEffect ==
  ASSUME DeliveryInv, NEW w \in Wrappers, NEW k \in Kinds, NEW c \in Callbacks,
         state[w] = "joined", Publish(w, k, c), UNCHANGED <<args, producer, batch, state>>
  PROVE  Consistent' /\ js' \in JsStates /\ JsFits' /\ (js'.step = "refer" \/ Return)
<1>1. CASE c \in Attached(w, k)
  <2>1. Return /\ UNCHANGED handlers
        BY <1>1 DEF Publish
  <2>2. QED BY <2>1, Returns, SameLists DEF DeliveryInv
<1>2. CASE c \notin Attached(w, k)
  <2>1. PICK v : v = <<c>> \o handlers[w][k]
        OBVIOUS
  <2>2. handlers' = [handlers EXCEPT ![w][k] = v] /\ GoTo("refer", w, k, c)
        BY <1>2, <2>1 DEF Publish
  <2>3. Consistent'
        BY <1>2, <2>1, <2>2, AddsNode DEF DeliveryInv
  <2>4. js' \in JsStates /\ JsFits' /\ js'.step = "refer"
        BY <2>2, GoesTo DEF DeliveryInv
  <2>5. QED BY <2>3, <2>4
<1>3. QED BY <1>1, <1>2

-----------------------------------------------------------------------------
\* Init establishes the inductive invariant.
LEMMA DeliveryInit == Init => DeliveryInv
<1> SUFFICES ASSUME Init PROVE DeliveryInv
    OBVIOUS
<1>1. /\ \A w \in Wrappers, k \in Kinds : handlers[w][k] = <<>> /\ args[w][k] = <<>>
      /\ handlers \in [Wrappers -> Lists] /\ args \in [Wrappers -> Queues]
      BY Constants DEF Init
<1>2. producer \in [Producers -> Walks] /\ \A t \in Producers : WalkFits(t)
      BY Constants DEF Init, WalkFits
<1>3. LiveMeansAttached /\ \A w \in Wrappers, k \in Kinds : Once(handlers[w][k])
  <2>1. DOMAIN <<>> = {}
        OBVIOUS
  <2>2. Once(<<>>)
        BY DEF Once
  <2>3. QED BY <1>1, <2>1, <2>2 DEF LiveMeansAttached
<1>4. JsInv
      BY Constants DEF Init, JsInv, JsFits, States
<1>5. QED BY <1>1, <1>2, <1>3, <1>4 DEF DeliveryInv, Consistent

\* on(), to the listener's list or to the notifier first.
LEMMA OnStep ==
  ASSUME DeliveryInv, NEW w \in Wrappers, NEW k \in Kinds, NEW c \in Callbacks, On(w, k, c)
  PROVE  DeliveryInv'
<1>1. /\ state[w] = "joined"
      /\ UNCHANGED <<state, filed, notifierLock, args, works, producer, batch, careless>>
      BY DEF On
<1>2. Consistent' /\ js' \in JsStates /\ JsFits' /\ observed' \subseteq Wrappers
  <2>1. CASE k = "change"
    <3>1. Publish(w, k, c) /\ observed' = observed \cup {w}
          BY <2>1 DEF On
    <3>2. QED BY <1>1, <3>1, PublishEffect DEF DeliveryInv, JsInv
  <2>2. CASE k = "status"
    <3>1. GoTo("file", w, k, c) /\ UNCHANGED <<handlers, observed>>
          BY <2>2 DEF On
    <3>2. js' \in JsStates /\ JsFits'
          BY <1>1, <2>2, <3>1, GoesTo DEF DeliveryInv
    <3>3. QED BY <1>1, <3>1, <3>2, SameLists DEF DeliveryInv, JsInv
  <2>3. QED BY <2>1, <2>2 DEF Kinds
<1>3. QED BY <1>1, <1>2 DEF DeliveryInv, JsInv

\* A wrapper is filed; so is its callback, before its reference is made.
LEMMA AddSteps ==
  ASSUME DeliveryInv, AddWatcher \/ Refer
  PROVE  DeliveryInv'
<1>1. CASE AddWatcher
  <2>1. PICK w \in Wrappers, k \in Kinds, c \in Callbacks :
          /\ w = js.wrapper /\ k = js.kind /\ c = js.callback
          /\ state[w] = "joined"
        BY <1>1 DEF AddWatcher, DeliveryInv, JsInv, JsFits, JsStates
  <2>2. /\ Publish(w, k, c) /\ filed' = filed \cup {w} /\ careless' \subseteq careless
        /\ UNCHANGED <<state, observed, notifierLock, args, works, producer, batch>>
        BY <1>1, <2>1 DEF AddWatcher
  <2>3. Consistent' /\ js' \in JsStates /\ JsFits'
        BY <2>1, <2>2, PublishEffect
  <2>4. QED BY <2>2, <2>3 DEF DeliveryInv, JsInv
<1>2. CASE Refer
  <2>1. Return /\ UNCHANGED <<lists, notifierLock, args, works, producer, batch>>
        BY <1>2 DEF Refer, lists
  <2>2. js' \in JsStates /\ JsFits'
        BY <2>1, Returns DEF DeliveryInv, lists
  <2>3. QED BY <2>1, <2>2, SameLists DEF DeliveryInv, JsInv, lists
<1>3. QED BY <1>1, <1>2

\* off() of one callback; the notifier is told.
LEMMA OffSteps ==
  ASSUME DeliveryInv,
         DelWatcher \/ \E w \in Wrappers, k \in Kinds, c \in Callbacks : Off(w, k, c)
  PROVE  DeliveryInv'
<1>1. CASE DelWatcher
  <2>1. /\ Return /\ filed' \subseteq filed /\ careless' \subseteq careless
        /\ UNCHANGED <<state, handlers, observed, notifierLock, args, works, producer, batch>>
        BY <1>1 DEF DelWatcher
  <2>2. js' \in JsStates /\ JsFits'
        BY <2>1, Returns DEF DeliveryInv
  <2>3. QED BY <2>1, <2>2, SameLists DEF DeliveryInv, JsInv
<1>2. ASSUME NEW w \in Wrappers, NEW k \in Kinds, NEW c \in Callbacks, Off(w, k, c)
      PROVE  DeliveryInv'
  <2>1. /\ state[w] = "joined" /\ Unlink(w, k, c) /\ Free(w, k, {c})
        /\ observed' \subseteq observed /\ careless' \subseteq careless \cup {w}
        /\ Return \/ (GoTo("unfile", w, k, c) /\ k = "status")
        /\ UNCHANGED <<state, filed, notifierLock, works, batch>>
        BY <1>2 DEF Off, Uprooted
  <2>2. Consistent'
        BY <2>1, FreesNode DEF DeliveryInv
  <2>3. js' \in JsStates /\ JsFits'
    <3>1. CASE Return
          BY <2>1, <3>1, Returns DEF DeliveryInv
    <3>2. CASE GoTo("unfile", w, k, c) /\ k = "status"
          BY <2>1, <3>2, GoesTo DEF DeliveryInv
    <3>3. QED BY <2>1, <3>1, <3>2
  <2>4. QED BY <2>1, <2>2, <2>3 DEF DeliveryInv, JsInv
<1>3. QED BY <1>1, <1>2

\* off() of all callbacks, and the session is left: the change callbacks.
LEMMA ClearSteps ==
  ASSUME DeliveryInv, NEW w \in Wrappers, Leave(w) \/ \E k \in Kinds : Clear(w, k)
  PROVE  DeliveryInv'
<1>1. /\ state[w] = "joined" /\ UNCHANGED <<state, filed, notifierLock, works, batch, careless>>
      BY DEF Leave, Clear
<1>2. \/ ClearChange(w) /\ (Return \/ GoTo("leave", w, "status", NoCallback))
      \/ GoTo("clear", w, "status", NoCallback) /\ UNCHANGED <<handlers, observed, args, producer>>
      BY DEF Leave, Clear
<1>3. "change" \in Kinds /\ "status" \in Kinds
      BY DEF Kinds
<1>4. Consistent' /\ observed' \subseteq Wrappers
  <2>1. CASE ClearChange(w)
    <3>1. /\ handlers' = [handlers EXCEPT ![w]["change"] = <<>>]
          /\ Free(w, "change", Attached(w, "change")) /\ observed' \subseteq observed
          BY <2>1 DEF ClearChange
    <3>2. QED BY <1>3, <3>1, FreesList DEF DeliveryInv, JsInv
  <2>2. CASE UNCHANGED <<handlers, observed, args, producer>>
        BY <2>2, SameLists DEF DeliveryInv, JsInv
  <2>3. QED BY <1>2, <2>1, <2>2
<1>5. js' \in JsStates /\ JsFits'
  <2>1. CASE Return
        BY <1>1, <2>1, Returns DEF DeliveryInv
  <2>2. CASE GoTo("leave", w, "status", NoCallback)
        BY <1>1, <1>3, <2>2, GoesTo DEF DeliveryInv
  <2>3. CASE GoTo("clear", w, "status", NoCallback)
        BY <1>1, <1>3, <2>3, GoesTo DEF DeliveryInv
  <2>4. QED BY <1>2, <2>1, <2>2, <2>3
<1>6. QED BY <1>1, <1>4, <1>5 DEF DeliveryInv, JsInv

\* Then the status callbacks.
LEMMA ClearStatusStep ==
  ASSUME DeliveryInv, ClearStatus
  PROVE  DeliveryInv'
<1>1. PICK w \in Wrappers : w = js.wrapper
      BY DEF ClearStatus, DeliveryInv, JsInv, JsFits
<1>2. /\ handlers' = [handlers EXCEPT ![w]["status"] = <<>>]
      /\ Free(w, "status", Attached(w, "status"))
      /\ filed' \subseteq filed /\ careless' \subseteq careless /\ Return
      /\ UNCHANGED state \/ state' = [state EXCEPT ![w] = "left"]
      /\ UNCHANGED <<observed, notifierLock, works, batch>>
      BY <1>1 DEF ClearStatus
<1>3. "status" \in Kinds
      BY DEF Kinds
<1>4. Consistent'
      BY <1>2, <1>3, FreesList DEF DeliveryInv
<1>5. js' \in JsStates /\ JsFits'
      BY <1>2, Returns DEF DeliveryInv
<1>6. state' \in [Wrappers -> States]
      BY <1>2 DEF DeliveryInv, JsInv, States
<1>7. QED BY <1>2, <1>4, <1>5, <1>6 DEF DeliveryInv, JsInv

\* A wrapper is collected, and one is made.
LEMMA WrapperSteps ==
  ASSUME DeliveryInv, NEW w \in Wrappers, Collect(w) \/ Create(w)
  PROVE  DeliveryInv'
<1>1. /\ js.step \in {"idle", "callback"} /\ UNCHANGED <<filed, notifierLock, works, js, batch>>
      /\ state' \in [Wrappers -> States] /\ observed' \subseteq observed
      /\ careless' \subseteq careless \cup {w}
      BY DEF Collect, Create, May, DeliveryInv, JsInv, States
<1>2. Consistent'
  <2>1. CASE Collect(w)
        BY <2>1, CollectEffect DEF DeliveryInv
  <2>2. CASE Create(w)
    <3>1. UNCHANGED <<handlers, args, producer>>
          BY <2>2 DEF Create
    <3>2. QED BY <3>1, SameLists DEF DeliveryInv
  <2>3. QED BY <2>1, <2>2
<1>3. JsFits'
      BY <1>1 DEF DeliveryInv, JsInv, JsFits
<1>4. QED BY <1>1, <1>2, <1>3 DEF DeliveryInv, JsInv

\* The JS loop does a work, of the entries there are or of none.
LEMMA TakeWorkStep ==
  ASSUME DeliveryInv, NEW w \in Wrappers, TakeWork(w)
  PROVE  DeliveryInv'
<1>1. UNCHANGED <<state, handlers, observed, filed, careless, notifierLock, args, producer>>
      BY DEF TakeWork, lists
<1>2. works' \in [Wrappers -> Nat]
  <2>1. PICK n \in Nat : n = works[w]
        BY DEF DeliveryInv, JsInv
  <2>2. PICK m : m = n - 1
        OBVIOUS
  <2>3. n > 0 /\ works' = [works EXCEPT ![w] = m]
        BY <2>1, <2>2 DEF TakeWork
  <2>4. m \in Nat
        BY <2>2, <2>3
  <2>5. QED BY <2>3, <2>4 DEF DeliveryInv, JsInv
<1>3. js' \in JsStates /\ batch' \in Batches /\ JsFits'
  <2>1. CASE UNCHANGED <<js, batch>>
        BY <1>1, <2>1, SameJs DEF DeliveryInv, JsInv
  <2>2. CASE ~UNCHANGED <<js, batch>>
    <3>1. PICK k \in Kinds : /\ batch' = [wrapper |-> w, kind |-> k]
                             /\ js' = [Idle EXCEPT !.step = "loop"]
          BY <2>2 DEF TakeWork
    <3>2. batch' \in Batches /\ batch'.wrapper = w
          BY <3>1 DEF Batches
    <3>3. batch'.wrapper # NoWrapper /\ batch' # NoBatch
          BY <3>2, Constants, DeliveryAssumption
    <3>4. js' \in JsStates /\ js'.step = "loop"
          BY <3>1, Constants DEF JsStates, JsSteps
    <3>5. QED BY <3>2, <3>3, <3>4 DEF JsFits
  <2>3. QED BY <2>1, <2>2
<1>4. QED BY <1>1, <1>2, <1>3, SameLists DEF DeliveryInv, JsInv

\* The thread calls an entry, comes back from it, goes on to the other kind.
LEMMA BatchSteps ==
  ASSUME DeliveryInv, CallNext \/ CallbackReturns \/ NextKind
  PROVE  DeliveryInv'
<1>1. /\ UNCHANGED <<state, handlers, observed, filed, careless, notifierLock, works, producer>>
      /\ js.step \in {"loop", "callback"}
      BY DEF CallNext, CallbackReturns, NextKind, lists
<1>2. PICK w \in Wrappers, k \in Kinds : w = batch.wrapper /\ k = batch.kind
  <2>1. batch \in Batches /\ batch.wrapper # NoWrapper
        BY <1>1 DEF DeliveryInv, JsInv, JsFits
  <2>2. QED BY <2>1 DEF Batches
<1>3. Consistent'
  <2>1. CASE UNCHANGED args
        BY <1>1, <2>1, SameLists DEF DeliveryInv
  <2>2. CASE Keep(<<>>)
    <3>1. args' = [args EXCEPT ![w][k] = <<>>]
          BY <1>2, <2>2 DEF Keep
    <3>2. QED BY <1>1, <3>1, QueueShrinks DEF DeliveryInv
  <2>3. CASE Keep(Tail(Entries)) /\ Entries # <<>>
    <3>1. Entries = args[w][k]
          BY <1>2 DEF Entries
    <3>2. PICK v : v = Tail(args[w][k])
          OBVIOUS
    <3>3. args' = [args EXCEPT ![w][k] = v] /\ args[w][k] # <<>>
          BY <1>2, <2>3, <3>1, <3>2 DEF Keep
    <3>4. QED BY <1>1, <3>2, <3>3, QueueShrinks DEF DeliveryInv
  <2>4. QED BY <2>1, <2>2, <2>3 DEF CallNext, CallbackReturns, NextKind
<1>4. js' \in JsStates /\ batch' \in Batches /\ JsFits'
  <2>1. batch # NoBatch /\ batch.wrapper # NoWrapper /\ js \in JsStates /\ batch \in Batches
        BY <1>1 DEF DeliveryInv, JsInv, JsFits
  <2>2. \/ UNCHANGED js
        \/ js' = [js EXCEPT !.step = "callback"]
        \/ js' = [js EXCEPT !.step = "loop"]
        \/ js' = [js EXCEPT !.step = "idle"] /\ batch' = NoBatch
        BY DEF CallNext, CallbackReturns, NextKind
  <2>3. \/ UNCHANGED batch
        \/ \E j \in Kinds : batch' = [batch EXCEPT !.kind = j]
        \/ batch' = NoBatch /\ js' = [js EXCEPT !.step = "idle"]
        BY DEF CallNext, CallbackReturns, NextKind
  <2>4. CASE batch' = NoBatch /\ js' = [js EXCEPT !.step = "idle"]
    <3>1. js' \in JsStates /\ js'.step = "idle"
          BY <2>1, <2>4 DEF JsStates, JsSteps
    <3>2. QED BY <2>4, <3>1, Constants DEF JsFits
  <2>5. CASE ~(batch' = NoBatch /\ js' = [js EXCEPT !.step = "idle"])
    <3>1. js' \in JsStates /\ js'.step \in {"loop", "callback"}
          BY <1>1, <2>1, <2>2, <2>5 DEF JsStates, JsSteps
    <3>2. batch' \in Batches /\ batch'.wrapper = batch.wrapper
          BY <2>1, <2>3, <2>5 DEF Batches
    <3>3. batch' # NoBatch
          BY <2>1, <3>2, Constants
    <3>4. QED BY <2>1, <3>1, <3>2, <3>3 DEF JsFits
  <2>6. QED BY <2>4, <2>5
<1>5. QED BY <1>1, <1>3, <1>4 DEF DeliveryInv, JsInv

\* A thread of the database emits.
LEMMA EmitSteps ==
  ASSUME DeliveryInv, NEW t \in Producers,
         \/ Insert(t) \/ Post(t)
         \/ \E w \in Wrappers : DataChanged(t, w) \/ StatusChanged(t, w)
  PROVE  DeliveryInv'
<1>1. UNCHANGED <<state, handlers, observed, filed, careless, js, batch>>
      BY DEF Insert, Post, DataChanged, StatusChanged, lists
<1>2. "change" \in Kinds /\ "status" \in Kinds
      BY DEF Kinds
<1>3. Consistent'
  <2>1. CASE Insert(t)
        BY <2>1, InsertEffect DEF DeliveryInv
  <2>2. CASE Post(t)
    <3>1. producer[t].step = "post" /\ Advance(t) /\ UNCHANGED <<handlers, args>>
          BY <2>2 DEF Post, lists
    <3>2. QED BY <3>1, AdvanceEffect DEF DeliveryInv
  <2>3. ASSUME NEW w \in Wrappers, DataChanged(t, w) PROVE Consistent'
    <3>1. /\ handlers[w]["change"] # <<>> /\ UNCHANGED <<handlers, args>>
          /\ producer' = [producer EXCEPT ![t] = AtNode(w, "change", Head(handlers[w]["change"]))]
          BY <2>3 DEF DataChanged, lists
    <3>2. QED BY <1>2, <3>1, WalkBegins DEF DeliveryInv
  <2>4. ASSUME NEW w \in Wrappers, StatusChanged(t, w) PROVE Consistent'
    <3>1. /\ handlers[w]["status"] # <<>> /\ UNCHANGED <<handlers, args>>
          /\ producer' = [producer EXCEPT ![t] = AtNode(w, "status", Head(handlers[w]["status"]))]
          BY <2>4 DEF StatusChanged, lists
    <3>2. QED BY <1>2, <3>1, WalkBegins DEF DeliveryInv
  <2>5. QED BY <2>1, <2>2, <2>3, <2>4
<1>4. js' \in JsStates /\ JsFits'
      BY <1>1, SameJs DEF DeliveryInv
<1>5. notifierLock' \in Producers \cup {Nobody} /\ works' \in [Wrappers -> Nat]
  <2>1. CASE Post(t)
    <3>1. Advance(t) /\ producer[t].step = "post" /\ UNCHANGED <<handlers, args>>
          BY <2>1 DEF Post, lists
    <3>2. notifierLock' \in {notifierLock, Nobody}
          BY <3>1, AdvanceEffect DEF DeliveryInv
    <3>3. PICK w \in Wrappers : w = producer[t].wrapper
          BY <3>1 DEF DeliveryInv, Consistent, WalkFits
    <3>4. works' = [works EXCEPT ![w] = @ + 1]
          BY <2>1, <3>3 DEF Post
    <3>5. PICK n \in Nat : n = works[w] + 1
          BY DEF DeliveryInv, JsInv
    <3>6. works' = [works EXCEPT ![w] = n]
          BY <3>4, <3>5
    <3>7. QED BY <3>2, <3>6 DEF DeliveryInv, JsInv
  <2>2. CASE ~Post(t)
    <3>1. notifierLock' \in {notifierLock, t} /\ UNCHANGED works
          BY <2>2 DEF Insert, DataChanged, StatusChanged
    <3>2. QED BY <3>1 DEF DeliveryInv, JsInv
  <2>3. QED BY <2>1, <2>2
<1>6. QED BY <1>1, <1>3, <1>4, <1>5 DEF DeliveryInv, JsInv

\* Every step keeps the inductive invariant.
LEMMA DeliveryStep == DeliveryInv /\ [Next]_vars => DeliveryInv'
<1> SUFFICES ASSUME DeliveryInv, [Next]_vars PROVE DeliveryInv'
    OBVIOUS
<1>1. CASE Refer \/ AddWatcher \/ DelWatcher \/ ClearStatus \/ CallNext \/ CallbackReturns \/ NextKind
      BY <1>1, AddSteps, OffSteps, ClearStatusStep, BatchSteps
<1>2. ASSUME NEW w \in Wrappers, Leave(w) \/ Collect(w) \/ Create(w) \/ TakeWork(w)
      PROVE  DeliveryInv'
      BY <1>2, ClearSteps, WrapperSteps, TakeWorkStep
<1>3. ASSUME NEW w \in Wrappers, NEW k \in Kinds,
             Clear(w, k) \/ \E c \in Callbacks : On(w, k, c) \/ Off(w, k, c)
      PROVE  DeliveryInv'
      BY <1>3, ClearSteps, OnStep, OffSteps
<1>4. ASSUME NEW t \in Producers,
             \/ Insert(t) \/ Post(t)
             \/ \E w \in Wrappers : DataChanged(t, w) \/ StatusChanged(t, w)
      PROVE  DeliveryInv'
      BY <1>4, EmitSteps
<1>5. CASE UNCHANGED vars
  <2>1. UNCHANGED <<state, handlers, observed, filed, careless, notifierLock, args, works, producer,
                    js, batch>>
        BY <1>5 DEF vars, lists
  <2>2. QED BY <2>1, SameLists, SameJs DEF DeliveryInv, JsInv
<1>6. QED BY <1>1, <1>2, <1>3, <1>4, <1>5 DEF Next

\* The inductive invariant holds throughout.
LEMMA DeliveryInvariant == Spec => []DeliveryInv
BY DeliveryInit, DeliveryStep, PTL DEF Spec

-----------------------------------------------------------------------------
\* The module's type invariant, for any number of wrappers, callbacks and
\* threads and queues of any length.
THEOREM TypeCorrect == Spec => []TypeOK
<1>1. DeliveryInv => TypeOK
      BY DEF DeliveryInv, Consistent, JsInv, TypeOK, States, Lists, Entry, Queues, Walks, JsStates,
             Batches
<1>2. QED BY <1>1, DeliveryInvariant, PTL

\* EventListener deletes the reference of a callback it takes off, and nothing
\* that was read from its node or is read from it later can be called: neither
\* an entry of the queue nor what a thread has yet to file.
THEOREM OnlyAttachedAreCalled == Spec => []LiveMeansAttached
<1>1. DeliveryInv => LiveMeansAttached
      BY DEF DeliveryInv, Consistent
<1>2. QED BY <1>1, DeliveryInvariant, PTL

-----------------------------------------------------------------------------
\* While the mutex_ is free, nobody walks a status list.
LEMMA NobodyWalks ==
  ASSUME SafeInv, notifierLock = Nobody, NEW t \in Producers
  PROVE  ~(producer[t].step # "idle" /\ producer[t].kind = "status")
BY DeliveryAssumption DEF SafeInv, WalkIsSafe

\* A step that changes no walk of a status list, but of a careless wrapper,
\* takes nobody's mutex_, and what is filed only while nobody walks one.
LEMMA KeepsSafe ==
  ASSUME SafeInv,
         \A w \in filed' \ careless' : state'[w] = "joined",
         \A t \in Producers :
           \/ producer'[t] = producer[t]
           \/ producer'[t].step = "idle" \/ producer'[t].kind # "status"
           \/ /\ producer'[t].step = producer[t].step /\ producer'[t].kind = producer[t].kind
              /\ producer'[t].wrapper \in careless',
         \/ UNCHANGED notifierLock /\ filed \subseteq filed' /\ careless \subseteq careless'
         \/ notifierLock = Nobody /\ \A t \in Producers :
                                       producer'[t].step = producer[t].step
                                       /\ producer'[t].kind = producer[t].kind
  PROVE  SafeInv'
<1>1. ASSUME NEW t \in Producers PROVE WalkIsSafe(t)'
  <2>1. CASE notifierLock = Nobody /\ producer'[t].step = producer[t].step
             /\ producer'[t].kind = producer[t].kind
        BY <2>1, NobodyWalks DEF WalkIsSafe
  <2>2. CASE UNCHANGED notifierLock /\ filed \subseteq filed' /\ careless \subseteq careless'
        BY <2>2 DEF SafeInv, WalkIsSafe
  <2>3. QED BY <2>1, <2>2
<1>2. QED BY <1>1 DEF SafeInv

\* The JS thread's calls.
LEMMA SafeCalls ==
  ASSUME DeliveryInv, SafeInv,
         \/ Refer \/ AddWatcher \/ DelWatcher \/ ClearStatus
         \/ \E w \in Wrappers : Leave(w) \/ Collect(w) \/ Create(w)
         \/ \E w \in Wrappers, k \in Kinds :
              Clear(w, k) \/ \E c \in Callbacks : On(w, k, c) \/ Off(w, k, c)
  PROVE  SafeInv'
<1>1. \A w \in filed \ careless : state[w] = "joined"
      BY DEF SafeInv
<1>2. filed \subseteq Wrappers /\ state \in [Wrappers -> States]
      BY DEF DeliveryInv, JsInv
<1>3. CASE Refer \/ \E w \in Wrappers, k \in Kinds, c \in Callbacks : On(w, k, c)
  <2>1. UNCHANGED <<state, filed, notifierLock, producer, careless>>
        BY <1>3 DEF Refer, On, lists
  <2>2. QED BY <1>1, <2>1, KeepsSafe
<1>4. CASE AddWatcher
  <2>1. /\ filed' = filed \cup {js.wrapper} /\ careless' = careless \ {js.wrapper}
        /\ notifierLock = Nobody /\ UNCHANGED <<state, notifierLock, producer>>
        BY <1>4 DEF AddWatcher
  <2>2. state[js.wrapper] = "joined"
        BY <1>4 DEF AddWatcher, DeliveryInv, JsInv, JsFits
  <2>3. QED BY <1>1, <2>1, <2>2, KeepsSafe
<1>5. CASE DelWatcher
  <2>1. /\ notifierLock = Nobody /\ filed' = filed \ {js.wrapper}
        /\ careless' = careless \ {js.wrapper} /\ UNCHANGED <<state, producer>>
        BY <1>5 DEF DelWatcher
  <2>2. QED BY <1>1, <2>1, KeepsSafe
<1>6. CASE ClearStatus
  <2>1. PICK w \in Wrappers : w = js.wrapper
        BY <1>6 DEF ClearStatus, DeliveryInv, JsInv, JsFits
  <2>2. /\ notifierLock = Nobody /\ filed' = filed \ {w} /\ careless' = careless \ {w}
        /\ UNCHANGED state \/ state' = [state EXCEPT ![w] = "left"]
        /\ Free(w, "status", Attached(w, "status"))
        BY <1>6, <2>1 DEF ClearStatus
  <2>3. \A u \in filed' \ careless' : state'[u] = "joined"
        BY <1>1, <1>2, <2>2
  <2>4. \A t \in Producers : producer'[t].step = producer[t].step /\ producer'[t].kind = producer[t].kind
    <3>1. "status" \in Kinds
          BY DEF Kinds
    <3>2. QED BY <2>2, <3>1, FreeEffect DEF DeliveryInv
  <2>5. QED BY <2>2, <2>3, <2>4, KeepsSafe, NobodyWalks
<1>7. ASSUME NEW w \in Wrappers, Leave(w) \/ \E k \in Kinds : Clear(w, k) PROVE SafeInv'
  <2>1. UNCHANGED <<state, filed, notifierLock, careless>> /\ (ClearChange(w) \/ UNCHANGED producer)
        BY <1>7 DEF Leave, Clear
  <2>2. CASE ClearChange(w)
    <3>1. Free(w, "change", Attached(w, "change")) /\ "change" \in Kinds
          BY <2>2 DEF ClearChange, Kinds
    <3>2. \A t \in Producers : producer'[t] = producer[t] \/ producer'[t].kind = "change"
          BY <3>1, FreeEffect DEF DeliveryInv, Walking
    <3>3. QED BY <1>1, <2>1, <3>2, KeepsSafe
  <2>3. CASE UNCHANGED producer
        BY <1>1, <2>1, <2>3, KeepsSafe
  <2>4. QED BY <2>1, <2>2, <2>3
<1>8. ASSUME NEW w \in Wrappers, Create(w) PROVE SafeInv'
  <2>1. state' = [state EXCEPT ![w] = "joined"] /\ UNCHANGED <<filed, notifierLock, producer, careless>>
        BY <1>8 DEF Create
  <2>2. QED BY <1>1, <1>2, <2>1, KeepsSafe
<1>9. ASSUME NEW w \in Wrappers, Collect(w) PROVE SafeInv'
  <2>1. /\ state' = [state EXCEPT ![w] = "freed"] /\ UNCHANGED <<filed, notifierLock>>
        /\ \/ state[w] = "left" /\ UNCHANGED careless
           \/ careless' = careless \cup {w}
        BY <1>9 DEF Collect
  <2>2. w \notin filed \ careless'
        BY <1>1, <2>1
  <2>3. ASSUME NEW t \in Producers
        PROVE  \/ producer'[t] = producer[t] \/ producer'[t].kind # "status"
               \/ /\ producer'[t].step = producer[t].step /\ producer'[t].kind = producer[t].kind
                  /\ producer'[t].wrapper \in careless'
    <3>1. \/ producer'[t] = producer[t]
          \/ producer[t].step # "idle" /\ producer[t].wrapper = w
             /\ producer'[t].step = producer[t].step /\ producer'[t].kind = producer[t].kind
             /\ producer'[t].wrapper = w
          BY <1>9, CollectEffect DEF DeliveryInv
    <3>2. producer[t].step # "idle" /\ producer[t].wrapper = w /\ producer[t].kind = "status"
            => w \in careless'
          BY <2>1, <2>2 DEF SafeInv, WalkIsSafe
    <3>3. QED BY <3>1, <3>2
  <2>4. \A u \in filed' \ careless' : state'[u] = "joined"
        BY <1>1, <1>2, <2>1, <2>2
  <2>5. QED BY <2>1, <2>3, <2>4, KeepsSafe
<1>10. ASSUME NEW w \in Wrappers, NEW k \in Kinds, NEW c \in Callbacks, Off(w, k, c) PROVE SafeInv'
  <2>1. /\ UNCHANGED <<state, filed, notifierLock>> /\ Free(w, k, {c})
        /\ careless' = careless \cup Uprooted(w, k, c)
        BY <1>10 DEF Off
  <2>2. ASSUME NEW t \in Producers
        PROVE  \/ producer'[t] = producer[t] \/ producer'[t].kind # "status"
               \/ /\ producer'[t].step = producer[t].step /\ producer'[t].kind = producer[t].kind
                  /\ producer'[t].wrapper \in careless'
    <3>1. /\ producer'[t].step = producer[t].step /\ producer'[t].kind = producer[t].kind
          /\ producer'[t].wrapper = producer[t].wrapper
          /\ producer'[t] = producer[t] \/ (Walking(t, w, k) /\ producer[t].node \in {c})
          BY <2>1, FreeEffect DEF DeliveryInv
    <3>2. Walking(t, w, k) /\ producer[t].node \in {c} /\ k = "status" => w \in careless'
          BY <2>1 DEF Uprooted
    <3>3. QED BY <3>1, <3>2 DEF Walking
  <2>3. QED BY <1>1, <2>1, <2>2, KeepsSafe
<1>11. QED BY <1>3, <1>4, <1>5, <1>6, <1>7, <1>8, <1>9, <1>10

\* The threads that emit.
LEMMA SafeEmissions ==
  ASSUME DeliveryInv, SafeInv, NEW t \in Producers,
         \/ Insert(t) \/ Post(t)
         \/ \E w \in Wrappers : DataChanged(t, w) \/ StatusChanged(t, w)
  PROVE  SafeInv'
<1>1. UNCHANGED <<state, filed, careless>> /\ \A w \in filed \ careless : state[w] = "joined"
      BY DEF SafeInv, Insert, Post, DataChanged, StatusChanged, lists
<1>2. "change" \in Kinds /\ "status" \in Kinds
      BY DEF Kinds
<1>3. WalkIsSafe(t)
      BY DEF SafeInv
<1>4. CASE Insert(t)
  <2>1. /\ producer[t].step = "insert" /\ UNCHANGED notifierLock
        BY <1>4 DEF Insert
  <2>2. /\ \A q \in Producers : q # t => producer'[q] = producer[q]
        /\ producer'[t].wrapper = producer[t].wrapper
        /\ producer'[t].kind = producer[t].kind /\ producer'[t].gone = producer[t].gone
        BY <1>4, InsertEffect DEF DeliveryInv
  <2>3. WalkIsSafe(t)'
        BY <1>1, <1>3, <2>1, <2>2 DEF WalkIsSafe
  <2>4. QED BY <1>1, <2>1, <2>2, <2>3 DEF SafeInv, WalkIsSafe
<1>5. CASE Post(t)
  <2>1. producer[t].step = "post" /\ Advance(t) /\ UNCHANGED <<handlers, args>>
        BY <1>5 DEF Post, lists
  <2>2. /\ \A q \in Producers : q # t => producer'[q] = producer[q]
        /\ \/ /\ producer'[t].step = "idle"
              /\ notifierLock' = IF producer[t].kind = "status" THEN Nobody ELSE notifierLock
           \/ /\ producer'[t].wrapper = producer[t].wrapper
              /\ producer'[t].kind = producer[t].kind
              /\ ~producer'[t].gone
              /\ UNCHANGED notifierLock
        BY <2>1, AdvanceEffect DEF DeliveryInv
  <2>3. WalkIsSafe(t)'
        BY <1>1, <1>3, <2>1, <2>2 DEF WalkIsSafe
  <2>4. ASSUME NEW q \in Producers, q # t PROVE WalkIsSafe(q)'
    <3>1. WalkIsSafe(q)
          BY DEF SafeInv
    <3>2. producer[q].step # "idle" /\ producer[q].kind = "status" => UNCHANGED notifierLock
          BY <1>3, <2>1, <2>2, <2>4, <3>1 DEF WalkIsSafe
    <3>3. QED BY <1>1, <2>2, <2>4, <3>1, <3>2 DEF WalkIsSafe
  <2>5. QED BY <1>1, <2>3, <2>4 DEF SafeInv
<1>6. ASSUME NEW w \in Wrappers, DataChanged(t, w) PROVE SafeInv'
  <2>1. /\ handlers[w]["change"] # <<>> /\ UNCHANGED <<handlers, args>> /\ UNCHANGED notifierLock
        /\ producer' = [producer EXCEPT ![t] = AtNode(w, "change", Head(handlers[w]["change"]))]
        BY <1>6 DEF DataChanged, lists
  <2>2. WalkIsAt(t, w, "change")
        BY <1>2, <2>1, WalkBegins DEF DeliveryInv
  <2>3. \A q \in Producers : producer'[q] = producer[q] \/ producer'[q].kind = "change"
        BY <2>2 DEF WalkIsAt
  <2>4. UNCHANGED notifierLock
        BY <2>1
  <2>5. QED BY <1>1, <2>3, <2>4, KeepsSafe
<1>7. ASSUME NEW w \in Wrappers, StatusChanged(t, w) PROVE SafeInv'
  <2>1. /\ handlers[w]["status"] # <<>> /\ UNCHANGED <<handlers, args>>
        /\ notifierLock = Nobody /\ notifierLock' = t /\ w \in filed
        /\ producer' = [producer EXCEPT ![t] = AtNode(w, "status", Head(handlers[w]["status"]))]
        BY <1>7 DEF StatusChanged, lists
  <2>2. WalkIsAt(t, w, "status")
        BY <1>2, <2>1, WalkBegins DEF DeliveryInv
  <2>3. notifierLock = Nobody /\ notifierLock' = t /\ w \in filed'
        BY <1>1, <2>1
  <2>4. WalkIsSafe(t)'
        BY <2>2, <2>3 DEF WalkIsSafe, WalkIsAt
  <2>5. ASSUME NEW q \in Producers, q # t PROVE WalkIsSafe(q)'
        BY <2>2, <2>3, <2>5, NobodyWalks DEF WalkIsSafe, WalkIsAt
  <2>6. QED BY <1>1, <2>4, <2>5 DEF SafeInv
<1>8. QED BY <1>4, <1>5, <1>6, <1>7

\* Init establishes it, and every step keeps it.
LEMMA SafeStep ==
  /\ Init => SafeInv
  /\ DeliveryInv /\ SafeInv /\ [Next]_vars => SafeInv'
<1>1. Init => SafeInv
      BY Constants DEF Init, SafeInv, WalkIsSafe
<1>2. ASSUME DeliveryInv, SafeInv, [Next]_vars PROVE SafeInv'
  <2>1. CASE (\E w \in Wrappers : TakeWork(w)) \/ CallNext \/ CallbackReturns \/ NextKind
             \/ UNCHANGED vars
    <3>1. UNCHANGED <<state, filed, notifierLock, producer, careless>>
          BY <2>1 DEF TakeWork, CallNext, CallbackReturns, NextKind, vars, lists
    <3>2. \A w \in filed \ careless : state[w] = "joined"
          BY <1>2 DEF SafeInv
    <3>3. QED BY <1>2, <3>1, <3>2, KeepsSafe
  <2>2. CASE \/ Refer \/ AddWatcher \/ DelWatcher \/ ClearStatus
             \/ \E w \in Wrappers : Leave(w) \/ Collect(w) \/ Create(w)
             \/ \E w \in Wrappers, k \in Kinds :
                  Clear(w, k) \/ \E c \in Callbacks : On(w, k, c) \/ Off(w, k, c)
        BY <1>2, <2>2, SafeCalls
  <2>3. ASSUME NEW t \in Producers,
               \/ Insert(t) \/ Post(t)
               \/ \E w \in Wrappers : DataChanged(t, w) \/ StatusChanged(t, w)
        PROVE  SafeInv'
        BY <1>2, <2>3, SafeEmissions
  <2>4. QED BY <1>2, <2>1, <2>2, <2>3 DEF Next
<1>3. QED BY <1>1, <1>2

\* A status is emitted to nodes and wrappers that exist, with no lock on the
\* list: NotifierImpl holds its mutex_ throughout, and StatusEventListener
\* leaves the notifier, which waits for it, before its list is freed.  It is not
\* so for the node that off('status', callback) takes from under an emission,
\* nor for a wrapper collected in its session, and for nothing else.
THEOREM StatusListIsSafe == Spec => []StatusIsSafe
<1>1. DeliveryInv /\ SafeInv => StatusIsSafe
  <2>1. SUFFICES ASSUME DeliveryInv, SafeInv PROVE StatusIsSafe
        OBVIOUS
  <2>2. \A w \in filed \ careless : state[w] # "freed"
        BY <2>1 DEF SafeInv
  <2>3. ASSUME NEW w \in Wrappers \ careless, NEW t \in Producers, Walking(t, w, "status")
        PROVE  ~producer[t].gone /\ state[w] # "freed"
        BY <2>1, <2>2, <2>3 DEF SafeInv, WalkIsSafe, Walking
  <2>4. QED BY <2>2, <2>3 DEF StatusIsSafe
<1>2. Init => SafeInv
      BY SafeStep
<1>3. DeliveryInv /\ SafeInv /\ [Next]_vars => SafeInv'
      BY SafeStep
<1>4. QED BY <1>1, <1>2, <1>3, DeliveryInvariant, PTL DEF Spec

-----------------------------------------------------------------------------
\* The JS thread stays where it needs no mutex_ but the queue's.
LEMMA InsideStep ==
  ASSUME Inside \subseteq {"change"}, DeliveryInv, WorkIsInside, [Next]_vars
  PROVE  WorkIsInside'
<1>1. ASSUME Return, UNCHANGED batch PROVE WorkIsInside'
      BY <1>1, Returns DEF DeliveryInv, WorkIsInside
<1>2. CASE UNCHANGED <<js, batch>>
      BY <1>2 DEF WorkIsInside
<1>3. ASSUME js.step = "idle", UNCHANGED batch PROVE WorkIsInside'
      BY <1>3 DEF DeliveryInv, JsInv, JsFits, WorkIsInside
<1>4. CASE CallNext \/ CallbackReturns \/ NextKind
  <2>1. js \in JsStates /\ js.step \in {"loop", "callback"}
        BY <1>4 DEF CallNext, CallbackReturns, NextKind, DeliveryInv, JsInv
  <2>2. \/ batch' = NoBatch
        \/ UNCHANGED js
        \/ js' = [js EXCEPT !.step = "callback"] \/ js' = [js EXCEPT !.step = "loop"]
        BY <1>4 DEF CallNext, CallbackReturns, NextKind
  <2>3. QED BY <2>1, <2>2 DEF WorkIsInside, JsStates
<1>5. ASSUME NEW w \in Wrappers, TakeWork(w) PROVE WorkIsInside'
  <2>1. CASE UNCHANGED <<js, batch>>
        BY <1>2, <2>1
  <2>2. CASE ~UNCHANGED <<js, batch>>
    <3>1. js' = [Idle EXCEPT !.step = "loop"]
          BY <1>5, <2>2 DEF TakeWork
    <3>2. js'.step = "loop"
          BY <3>1, Constants DEF JsStates
    <3>3. QED BY <3>2 DEF WorkIsInside
  <2>3. QED BY <2>1, <2>2
<1>6. CASE AddWatcher
  <2>1. js.step = "file" /\ UNCHANGED batch /\ batch = NoBatch
        BY <1>6 DEF AddWatcher, WorkIsInside
  <2>2. QED BY <2>1 DEF WorkIsInside
<1>7. CASE Refer \/ DelWatcher \/ ClearStatus
      BY <1>1, <1>7 DEF Refer, DelWatcher, ClearStatus
<1>8. ASSUME NEW w \in Wrappers, Leave(w) PROVE WorkIsInside'
      BY <1>3, <1>8 DEF Leave, May
<1>9. ASSUME NEW w \in Wrappers, NEW k \in Kinds, Clear(w, k) PROVE WorkIsInside'
  <2>1. UNCHANGED batch /\ (Return \/ (k = "status" /\ May(k)))
        BY <1>9 DEF Clear
  <2>2. QED BY <1>1, <1>3, <2>1 DEF May
<1>10. ASSUME NEW w \in Wrappers, NEW k \in Kinds, NEW c \in Callbacks, Off(w, k, c)
       PROVE  WorkIsInside'
  <2>1. UNCHANGED batch /\ (Return \/ (k = "status" /\ May(k)))
        BY <1>10 DEF Off
  <2>2. QED BY <1>1, <1>3, <2>1 DEF May
<1>11. ASSUME NEW w \in Wrappers, NEW k \in Kinds, NEW c \in Callbacks, On(w, k, c)
       PROVE  WorkIsInside'
  <2>1. CASE k = "change"
    <3>1. Publish(w, k, c) /\ state[w] = "joined" /\ UNCHANGED <<args, producer, batch, state>>
          BY <1>11, <2>1 DEF On
    <3>2. js'.step = "refer" \/ Return
          BY <3>1, PublishEffect
    <3>3. QED BY <1>1, <3>1, <3>2 DEF WorkIsInside
  <2>2. CASE k = "status"
        BY <1>3, <1>11, <2>2 DEF On, May
  <2>3. QED BY <2>1, <2>2 DEF Kinds
<1>12. ASSUME NEW w \in Wrappers, Collect(w) \/ Create(w) PROVE UNCHANGED <<js, batch>>
       BY <1>12 DEF Collect, Create
<1>13. ASSUME NEW t \in Producers,
              \/ Insert(t) \/ Post(t)
              \/ \E w \in Wrappers : DataChanged(t, w) \/ StatusChanged(t, w)
       PROVE  UNCHANGED <<js, batch>>
       BY <1>13 DEF Insert, Post, DataChanged, StatusChanged
<1>14. CASE UNCHANGED vars
       BY <1>2, <1>14 DEF vars
<1>15. QED BY <1>2, <1>4, <1>5, <1>6, <1>7, <1>8, <1>9, <1>10, <1>11, <1>12, <1>13, <1>14 DEF Next

\* A circle closes only in a call of a running callback for status callbacks, or
\* to leave the session: where the JS thread waits for the notifier's mutex_, it
\* is in such a call.
THEOREM NobodyWaitsInACircle == Spec => []NoCircularWait
<1>1. DeliveryInv => NoCircularWait
      BY DEF DeliveryInv, JsInv, JsFits, NoCircularWait, Circle
<1>2. QED BY <1>1, DeliveryInvariant, PTL

\* Of callbacks that make no call of on('status'), off('status') or setSessionId:
\* inside a work, with the queue's mutex_ held, the JS thread never comes to
\* where it waits for the notifier's, so that there is no circle at all.
THEOREM ChangeCallbacksNeverWait ==
  ASSUME Inside \subseteq {"change"} PROVE Spec => []~Circle
<1>1. DeliveryInv /\ WorkIsInside => ~Circle
  <2>1. SUFFICES ASSUME DeliveryInv, WorkIsInside, NEW t \in Producers,
                        producer[t].step = "insert", batch.wrapper = producer[t].wrapper
                 PROVE  js.step \notin {"file", "unfile", "clear", "leave"}
        BY DEF Circle
  <2>2. producer[t].wrapper \in Wrappers
        BY <2>1 DEF DeliveryInv, Consistent, WalkFits
  <2>3. batch # NoBatch
        BY <2>1, <2>2, Constants, DeliveryAssumption
  <2>4. QED BY <2>1, <2>3 DEF WorkIsInside
<1>2. Init => WorkIsInside
      BY DEF Init, WorkIsInside
<1>3. DeliveryInv /\ WorkIsInside /\ [Next]_vars => WorkIsInside'
      BY InsideStep
<1>4. QED BY <1>1, <1>2, <1>3, DeliveryInvariant, PTL DEF Spec

-----------------------------------------------------------------------------
\* What Delivered needs besides fairness: where a queue has entries a work is
\* to come for them, is about to be queued, or is being done.
Posting(t, w) == producer[t].step = "post" /\ producer[t].wrapper = w

NothingStranded ==
  \A w \in Wrappers : args[w] # NoEntries =>
    works[w] > 0 \/ batch.wrapper = w \/ \E t \in Producers : Posting(t, w)

\* A wrapper's queue is empty when it is for either kind.
LEMMA EmptyQueue ==
  ASSUME NEW queue \in Queues
  PROVE  queue = NoEntries <=> \A k \in Kinds : queue[k] = <<>>
<1>1. queue = [k \in Kinds |-> queue[k]]
      BY DEF Queues
<1>2. QED BY <1>1 DEF NoEntries

\* Freeing nodes puts no entries where there are none.
LEMMA FreeKeepsEmpty ==
  ASSUME Consistent, NEW w \in Wrappers, NEW k \in Kinds, NEW gone, Free(w, k, gone),
         NEW u \in Wrappers, args[u] = NoEntries
  PROVE  args'[u] = NoEntries
<1>1. args' \in [Wrappers -> Queues] /\ args \in [Wrappers -> Queues]
      BY FreeEffect DEF Consistent
<1>2. \A j \in Kinds : args[u][j] = <<>>
      BY <1>1, EmptyQueue
<1>3. ASSUME NEW j \in Kinds PROVE args'[u][j] = <<>>
  <2>1. CASE u # w \/ j # k
        BY <1>2, <2>1, FreeEffect
  <2>2. CASE u = w /\ j = k
    <3>1. DOMAIN args[u][j] = {}
          BY <1>2
    <3>2. DOMAIN args'[u][j] = {}
          BY <2>2, <3>1, FreeEffect
    <3>3. args'[u][j] \in Seq(Entry)
          BY <1>1 DEF Queues
    <3>4. Len(args'[u][j]) = 0
      <4>1. Len(args'[u][j]) \in Nat /\ DOMAIN args'[u][j] = 1..Len(args'[u][j])
            BY <3>3, LenProperties
      <4>2. 1 \notin 1..Len(args'[u][j])
            BY <3>2, <4>1
      <4>3. QED BY <4>1, <4>2
    <3>5. QED BY <3>3, <3>4, EmptySeq
  <2>3. QED BY <2>1, <2>2
<1>4. QED BY <1>1, <1>3, EmptyQueue

\* A step that fills no queue, takes no work and ends no batch.
LEMMA KeepsComing ==
  ASSUME NothingStranded, UNCHANGED <<works, batch>>,
         \A w \in Wrappers : args[w] = NoEntries => args'[w] = NoEntries,
         \A t \in Producers : producer[t].step = "post" =>
           producer'[t].step = "post" /\ producer'[t].wrapper = producer[t].wrapper
  PROVE  NothingStranded'
BY DEF NothingStranded, Posting

\* The JS thread's calls are such steps.
LEMMA CallsStrandNothing ==
  ASSUME DeliveryInv, NothingStranded,
         \/ Refer \/ AddWatcher \/ DelWatcher \/ ClearStatus
         \/ \E w \in Wrappers : Leave(w) \/ Collect(w) \/ Create(w)
         \/ \E w \in Wrappers, k \in Kinds :
              Clear(w, k) \/ \E c \in Callbacks : On(w, k, c) \/ Off(w, k, c)
  PROVE  NothingStranded'
<1>1. ASSUME NEW w \in Wrappers, NEW k \in Kinds, NEW gone, Free(w, k, gone),
             UNCHANGED <<works, batch>>
      PROVE  NothingStranded'
  <2>1. Consistent
        BY DEF DeliveryInv
  <2>2. \A u \in Wrappers : args[u] = NoEntries => args'[u] = NoEntries
        BY <1>1, <2>1, FreeKeepsEmpty
  <2>3. \A t \in Producers : /\ producer'[t].step = producer[t].step
                              /\ producer'[t].wrapper = producer[t].wrapper
        BY <1>1, <2>1, FreeEffect
  <2>4. QED BY <1>1, <2>2, <2>3, KeepsComing
<1>2. CASE UNCHANGED <<args, works, producer, batch>>
      BY <1>2, KeepsComing
<1>3. "change" \in Kinds /\ "status" \in Kinds
      BY DEF Kinds
<1>4. CASE ClearStatus
  <2>1. js.wrapper \in Wrappers
        BY <1>4 DEF ClearStatus, DeliveryInv, JsInv, JsFits
  <2>2. QED BY <1>1, <1>3, <1>4, <2>1 DEF ClearStatus
<1>5. ASSUME NEW w \in Wrappers, Leave(w) PROVE NothingStranded'
      BY <1>1, <1>3, <1>5 DEF Leave, ClearChange
<1>6. ASSUME NEW w \in Wrappers, Collect(w) PROVE NothingStranded'
  <2>1. args' = [args EXCEPT ![w] = NoEntries] /\ UNCHANGED <<works, batch>>
        BY <1>6 DEF Collect
  <2>2. \A u \in Wrappers : args[u] = NoEntries => args'[u] = NoEntries
        BY <2>1 DEF DeliveryInv, Consistent
  <2>3. \A t \in Producers : /\ producer'[t].step = producer[t].step
                              /\ producer'[t].wrapper = producer[t].wrapper
    <3>1. TAKE t \in Producers
    <3>2. producer[t] \in Walks
          BY DEF DeliveryInv, Consistent
    <3>3. producer'[t] = producer[t] \/
            producer'[t] = [producer[t] EXCEPT !.gone = TRUE, !.live = FALSE]
          BY <1>6 DEF Collect
    <3>4. QED BY <3>2, <3>3 DEF Walks
  <2>4. QED BY <2>1, <2>2, <2>3, KeepsComing
<1>7. ASSUME NEW w \in Wrappers, NEW k \in Kinds, Clear(w, k) PROVE NothingStranded'
      BY <1>1, <1>2, <1>3, <1>7 DEF Clear, ClearChange
<1>8. ASSUME NEW w \in Wrappers, NEW k \in Kinds, NEW c \in Callbacks, Off(w, k, c)
      PROVE  NothingStranded'
      BY <1>1, <1>8 DEF Off
<1>9. CASE \/ Refer \/ AddWatcher \/ DelWatcher
           \/ \E w \in Wrappers : Create(w)
           \/ \E w \in Wrappers, k \in Kinds, c \in Callbacks : On(w, k, c)
      BY <1>2, <1>9 DEF Refer, AddWatcher, DelWatcher, Create, On
<1>10. QED BY <1>4, <1>5, <1>6, <1>7, <1>8, <1>9

\* An entry is filed before its work is queued, by the same thread.
LEMMA EmissionsStrandNothing ==
  ASSUME DeliveryInv, NothingStranded, NEW t \in Producers,
         \/ Insert(t) \/ Post(t)
         \/ \E w \in Wrappers : DataChanged(t, w) \/ StatusChanged(t, w)
  PROVE  NothingStranded'
<1>1. producer \in [Producers -> Walks] /\ works \in [Wrappers -> Nat]
      BY DEF DeliveryInv, Consistent, JsInv
<1>2. producer[t].step # "idle" => producer[t].wrapper \in Wrappers
      BY DEF DeliveryInv, Consistent, WalkFits
<1>3. CASE \E w \in Wrappers : DataChanged(t, w) \/ StatusChanged(t, w)
  <2>1. UNCHANGED <<args, works, batch>> /\ producer[t].step = "idle"
        BY <1>3 DEF DataChanged, StatusChanged
  <2>2. \A q \in Producers \ {t} : producer'[q] = producer[q]
        BY <1>1, <1>3 DEF DataChanged, StatusChanged
  <2>3. QED BY <2>1, <2>2, KeepsComing
<1>4. CASE Insert(t)
  <2> DEFINE w == producer[t].wrapper
  <2>1. w \in Wrappers /\ UNCHANGED <<works, batch>>
        BY <1>2, <1>4 DEF Insert
  <2>2. \A u \in Wrappers \ {w} : args'[u] = args[u]
        BY <1>4 DEF Insert, DeliveryInv, Consistent
  <2>3. producer' = [producer EXCEPT ![t].step = "post"] /\ producer[t].step = "insert"
        BY <1>4 DEF Insert
  <2>4. /\ producer'[t].step = "post" /\ producer'[t].wrapper = w
        /\ \A q \in Producers \ {t} : producer'[q] = producer[q]
        BY <1>1, <2>3 DEF Walks
  <2>6. ASSUME NEW u \in Wrappers \ {w}, args'[u] # NoEntries
        PROVE  works'[u] > 0 \/ batch'.wrapper = u \/ \E q \in Producers : Posting(q, u)'
    <3>1. works[u] > 0 \/ batch.wrapper = u \/ \E q \in Producers : Posting(q, u)
          BY <2>2, <2>6 DEF NothingStranded
    <3>2. \A q \in Producers : Posting(q, u) => q # t
          BY <2>3 DEF Posting
    <3>3. QED BY <2>1, <2>4, <3>1, <3>2 DEF Posting
  <2>7. ASSUME NEW u \in Wrappers, args'[u] # NoEntries
        PROVE  works'[u] > 0 \/ batch'.wrapper = u \/ \E q \in Producers : Posting(q, u)'
    <3>1. CASE u = w
      <4>1. Posting(t, u)'
            BY <2>4, <3>1 DEF Posting
      <4>2. QED BY <4>1
    <3>2. CASE u # w
          BY <2>6, <2>7, <3>2
    <3>3. QED BY <3>1, <3>2
  <2>8. QED BY <2>7 DEF NothingStranded, Posting
<1>5. CASE Post(t)
  <2> DEFINE w == producer[t].wrapper
  <2>1. w \in Wrappers /\ UNCHANGED <<args, batch>>
        BY <1>2, <1>5 DEF Post
  <2>2. works' = [works EXCEPT ![w] = @ + 1]
        BY <1>5 DEF Post
  <2>3. works'[w] > 0 /\ \A u \in Wrappers \ {w} : works'[u] = works[u]
        BY <1>1, <2>1, <2>2
  <2>4. \A q \in Producers \ {t} : producer'[q] = producer[q]
        BY <1>1, <1>5 DEF Post, Advance
  <2>5. ASSUME NEW u \in Wrappers \ {w}, args[u] # NoEntries
        PROVE  works'[u] > 0 \/ batch.wrapper = u \/ \E q \in Producers : Posting(q, u)'
    <3>1. works[u] > 0 \/ batch.wrapper = u \/ \E q \in Producers : Posting(q, u)
          BY <2>5 DEF NothingStranded
    <3>2. \A q \in Producers : Posting(q, u) => q # t
          BY DEF Posting
    <3>3. QED BY <2>3, <2>4, <3>1, <3>2 DEF Posting
  <2>6. QED BY <2>1, <2>3, <2>5 DEF NothingStranded, Posting
<1>6. QED BY <1>3, <1>4, <1>5

\* A work that is taken begins a batch, unless its queue is empty; a batch ends
\* when its queue is.
LEMMA WorksStrandNothing ==
  ASSUME DeliveryInv, NothingStranded,
         (\E w \in Wrappers : TakeWork(w)) \/ CallNext \/ CallbackReturns \/ NextKind
  PROVE  NothingStranded'
<1>1. /\ args \in [Wrappers -> Queues] /\ works \in [Wrappers -> Nat] /\ batch \in Batches
      /\ js \in JsStates
      BY DEF DeliveryInv, Consistent, JsInv
<1>2. ASSUME NEW w \in Wrappers, TakeWork(w) PROVE NothingStranded'
  <2>1. works' = [works EXCEPT ![w] = @ - 1] /\ UNCHANGED <<args, producer>>
        BY <1>2 DEF TakeWork, lists
  <2>2. \A u \in Wrappers \ {w} : works'[u] = works[u]
        BY <1>1, <2>1
  <2>3. batch.wrapper = NoWrapper
        BY <1>2, Constants DEF TakeWork, DeliveryInv, JsInv, JsFits
  <2>4. \A u \in Wrappers : batch.wrapper # u
        BY <2>3, DeliveryAssumption
  <2>5. args[w] = NoEntries \/ batch'.wrapper = w
        BY <1>2 DEF TakeWork
  <2>6. QED BY <2>1, <2>2, <2>4, <2>5 DEF NothingStranded, Posting
<1>3. CASE CallNext \/ CallbackReturns
  <2>1. UNCHANGED <<works, batch, producer>> /\ batch # NoBatch
        BY <1>3 DEF CallNext, CallbackReturns, DeliveryInv, JsInv, JsFits
  <2>2. batch.wrapper \in Wrappers /\ batch.kind \in Kinds
        BY <1>1, <2>1 DEF Batches, DeliveryInv, JsInv, JsFits
  <2>3. ASSUME NEW u \in Wrappers, args[u] = NoEntries PROVE args'[u] = NoEntries
    <3>1. \A k \in Kinds : args[u][k] = <<>>
          BY <1>1, <2>3, EmptyQueue
    <3>2. CASE UNCHANGED args
          BY <2>3, <3>2
    <3>3. CASE CallNext
      <4>1. Entries # <<>>
            BY <3>3 DEF CallNext
      <4>2. u # batch.wrapper
            BY <2>2, <3>1, <4>1 DEF Entries
      <4>3. QED BY <1>1, <2>3, <3>3, <4>2 DEF CallNext, Keep
    <3>4. CASE Keep(<<>>)
      <4>1. args' = [args EXCEPT ![batch.wrapper][batch.kind] = <<>>]
            BY <3>4 DEF Keep
      <4>2. \A k \in Kinds : args'[u][k] = <<>>
            BY <1>1, <2>2, <3>1, <4>1 DEF Queues
      <4>3. args'[u] \in Queues
            BY <1>1, <2>2, <4>1, EmptySeq DEF Queues
      <4>4. QED BY <4>2, <4>3, EmptyQueue
    <3>5. QED BY <1>3, <3>2, <3>3, <3>4 DEF CallbackReturns
  <2>4. QED BY <2>1, <2>3, KeepsComing
<1>4. CASE NextKind
  <2>1. UNCHANGED <<args, works, producer>>
        BY <1>4 DEF NextKind
  <2>2. batch'.wrapper = batch.wrapper \/ args[batch.wrapper] = NoEntries
    <3>1. CASE \E k \in Kinds : batch' = [batch EXCEPT !.kind = k]
          BY <1>1, <3>1 DEF Batches
    <3>2. QED BY <1>4, <3>1 DEF NextKind
  <2>3. QED BY <2>1, <2>2 DEF NothingStranded, Posting
<1>5. QED BY <1>2, <1>3, <1>4

\* No entry stays in a queue without a work to come for it: entries and works
\* are counted apart, works may find nothing and one work takes everything, but
\* the last work of a queue is never taken while an entry is left behind.
THEOREM NothingIsStranded == Spec => []NothingStranded
<1>1. Init => NothingStranded
  <2>1. Init => \A w \in Wrappers : args[w] = NoEntries
        BY DEF Init
  <2>2. QED BY <2>1 DEF NothingStranded
<1>2. DeliveryInv /\ NothingStranded /\ [Next]_vars => NothingStranded'
  <2> SUFFICES ASSUME DeliveryInv, NothingStranded, [Next]_vars PROVE NothingStranded'
      OBVIOUS
  <2>1. CASE UNCHANGED vars
        BY <2>1, KeepsComing DEF vars
  <2>2. CASE \/ Refer \/ AddWatcher \/ DelWatcher \/ ClearStatus
             \/ \E w \in Wrappers : Leave(w) \/ Collect(w) \/ Create(w)
             \/ \E w \in Wrappers, k \in Kinds :
                  Clear(w, k) \/ \E c \in Callbacks : On(w, k, c) \/ Off(w, k, c)
        BY <2>2, CallsStrandNothing
  <2>3. ASSUME NEW t \in Producers,
               \/ Insert(t) \/ Post(t)
               \/ \E w \in Wrappers : DataChanged(t, w) \/ StatusChanged(t, w)
        PROVE  NothingStranded'
        BY <2>3, EmissionsStrandNothing
  <2>4. CASE (\E w \in Wrappers : TakeWork(w)) \/ CallNext \/ CallbackReturns \/ NextKind
        BY <2>4, WorksStrandNothing
  <2>5. QED BY <2>1, <2>2, <2>3, <2>4 DEF Next
<1>3. QED BY <1>1, <1>2, DeliveryInvariant, PTL DEF Spec
=============================================================================
