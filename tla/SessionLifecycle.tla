-------------------------- MODULE SessionLifecycle --------------------------
(***************************************************************************)
(* What the object store promises about one session, whatever goes on in   *)
(* the others: it is created, ONE object is handed out for it, the object  *)
(* may be watched, and after the session is deleted the object is taken    *)
(* back before the session can be created again.  Peers and the object     *)
(* service write to it only while it exists.  It can lose its object: none *)
(* could be made, or the object was taken back with another session's; the *)
(* session then still exists, and can only be deleted.                     *)
(***************************************************************************)
CONSTANTS Sessions, Contents

VARIABLES
  phase,     (* "absent", "created", "held", "lost" or "deleted"           *)
  watched,   (* TRUE while changes of the session are reported             *)
  contents   (* what the session stores, Nothing when it does not exist    *)

CONSTANT Nothing

lifecycle == <<phase, watched, contents>>

Init ==
  /\ phase = [s \in Sessions |-> "absent"]
  /\ watched = [s \in Sessions |-> FALSE]
  /\ contents = [s \in Sessions |-> Nothing]

Move(s, from, to) ==
  /\ phase[s] = from
  /\ phase' = [phase EXCEPT ![s] = to]

\* The session may come with what peers have stored in it.
Create(s) ==
  /\ Move(s, "absent", "created")
  /\ \E c \in Contents : contents' = [contents EXCEPT ![s] = c]
  /\ UNCHANGED watched

HandOut(s) ==
  /\ Move(s, "created", "held")
  /\ UNCHANGED <<watched, contents>>

Watch(s) ==
  /\ phase[s] = "held"
  /\ ~watched[s]
  /\ watched' = [watched EXCEPT ![s] = TRUE]
  /\ UNCHANGED <<phase, contents>>

UnWatch(s) ==
  /\ phase[s] = "held"
  /\ watched[s]
  /\ watched' = [watched EXCEPT ![s] = FALSE]
  /\ UNCHANGED <<phase, contents>>

Write(s) ==
  /\ phase[s] \in {"created", "held", "lost"}
  /\ \E c \in Contents : contents' = [contents EXCEPT ![s] = c]
  /\ UNCHANGED <<phase, watched>>

Lose(s) ==
  /\ Move(s, "created", "lost")
  /\ UNCHANGED <<watched, contents>>

\* A session without an object is absent at once.
Delete(s) ==
  /\ Move(s, "held", "deleted") \/ Move(s, "lost", "absent")
  /\ watched' = [watched EXCEPT ![s] = FALSE]
  /\ contents' = [contents EXCEPT ![s] = Nothing]

\* What becomes of a session whose object is taken back.
Bereaved == [held |-> "lost", deleted |-> "absent"]

\* The object is taken back, and with it, at worst, objects of other sessions.
TakeBack(s) ==
  /\ phase[s] = "deleted"
  /\ \E others \in SUBSET {u \in Sessions : phase[u] \in DOMAIN Bereaved} :
       phase' = [u \in Sessions |-> IF u \in others \cup {s} THEN Bereaved[phase[u]]
                                                             ELSE phase[u]]
  /\ UNCHANGED <<watched, contents>>

Next ==
  \E s \in Sessions :
    \/ Create(s)
    \/ HandOut(s)
    \/ Watch(s)
    \/ UnWatch(s)
    \/ Write(s)
    \/ Lose(s)
    \/ Delete(s)
    \/ TakeBack(s)

Spec == Init /\ [][Next]_lifecycle
=============================================================================
