--------------------------- MODULE SessionLifecycle ---------------------------
(***************************************************************************)
(* What the listener promises of the sessions it accepts, per resume       *)
(* token: a session is accepted for a token only while the table has no   *)
(* entry for it; a live session loses its entry only after its drop hook   *)
(* reported it (the entry is then pending a reap); a pending entry is      *)
(* removed once, and only then may the token be accepted again.            *)
(***************************************************************************)
CONSTANT Tokens

VARIABLE life   \* [Tokens -> {"absent", "live", "pending"}]

Init == life = [t \in Tokens |-> "absent"]

\* A session is built and its entry inserted.
Accept(t) ==
    /\ life[t] = "absent"
    /\ life' = [life EXCEPT ![t] = "live"]

\* The session is dropped; its entry waits for the reap.
Drop(t) ==
    /\ life[t] = "live"
    /\ life' = [life EXCEPT ![t] = "pending"]

\* The reap removes the entry.
Reap(t) ==
    /\ life[t] = "pending"
    /\ life' = [life EXCEPT ![t] = "absent"]

Next == \E t \in Tokens : Accept(t) \/ Drop(t) \/ Reap(t)

Spec == Init /\ [][Next]_life

=============================================================================
