--------------------------- MODULE NotificationQueue ---------------------------
(***************************************************************************)
(* What MsgHandler::QueueNotification promises its callers: a notification *)
(* is sent once, at once or after it has waited in a store; the store is   *)
(* emptied in the order it was filled, and gives up its oldest content,    *)
(* and only what exceeds the limit, when the next notification comes.      *)
(* Threads, sockets, locks, sleep and reconnection do not show.            *)
(***************************************************************************)
EXTENDS Integers, Sequences

CONSTANTS
  Notifications,
  Limit

VARIABLES
  fate,     \* what has become of each notification
  store

vars == <<fate, store>>

Init ==
  /\ fate = [n \in Notifications |-> "new"]
  /\ store = <<>>

\* n goes out at once
Send(n) ==
  /\ fate[n] = "new"
  /\ fate' = [fate EXCEPT ![n] = "sent"]
  /\ UNCHANGED store

\* n could not go out at once, its sender holds it
Hold(n) ==
  /\ fate[n] = "new"
  /\ fate' = [fate EXCEPT ![n] = "held"]
  /\ UNCHANGED store

\* n is stored behind all others, and the first ones beyond the limit are lost
Store(n) ==
  LET excess == IF Len(store) > Limit THEN Len(store) - Limit ELSE 0
      lost == {store[i] : i \in 1 .. excess}
  IN /\ fate[n] = "held"
     /\ fate' = [m \in Notifications |-> IF m = n THEN "stored"
                                         ELSE IF m \in lost THEN "lost" ELSE fate[m]]
     /\ store' = Append(SubSeq(store, excess + 1, Len(store)), n)

\* the oldest stored notification goes out
Deliver ==
  /\ store # <<>>
  /\ fate' = [fate EXCEPT ![Head(store)] = "sent"]
  /\ store' = Tail(store)

Next ==
  \/ \E n \in Notifications : Send(n) \/ Hold(n) \/ Store(n)
  \/ Deliver

Spec == Init /\ [][Next]_vars

===============================================================================
