------------------------------- MODULE ChatRelay -------------------------------
(***************************************************************************)
(* What the server promises of chat messages: "clients send updates and    *)
(* they are broadcasted to everybody through the server".  A message the   *)
(* server accepted is broadcast at most once, nothing that no client sent  *)
(* is ever broadcast, and a broadcast is never taken back.  The order of   *)
(* the broadcasts is not promised.                                         *)
(***************************************************************************)
EXTENDS Sequences

CONSTANT Messages

VARIABLES
  pending,  (* accepted, not yet broadcast *)
  log       (* the broadcasts so far       *)

vars == <<pending, log>>

Init == pending = {} /\ log = <<>>

Published == {log[i] : i \in DOMAIN log}

Accept(m) ==
  /\ m \notin pending \cup Published
  /\ pending' = pending \cup {m}
  /\ UNCHANGED log

Publish(m) ==
  /\ m \in pending
  /\ pending' = pending \ {m}
  /\ log' = Append(log, m)

Next == \E m \in Messages : Accept(m) \/ Publish(m)

Spec == Init /\ [][Next]_vars
================================================================================
