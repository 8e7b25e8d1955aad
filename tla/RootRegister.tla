---------------------------- MODULE RootRegister ----------------------------
(***************************************************************************)
(* What the synchronisation of workspace roots promises, whatever client a *)
(* session has and whatever is lost, late or out of order on the way: the  *)
(* roots in force of a logical session are a version that its client has   *)
(* stated, and never one older than the supervisor has already heard of.   *)
(***************************************************************************)
EXTENDS Naturals

CONSTANTS
  Sessions,  \* logical sessions
  Versions   \* of the roots of a session

VARIABLES
  stated,   \* versions the client has stated; 0 is "no roots"
  heard,    \* the newest version the supervisor was told of
  inForce   \* the version whose roots are in force, 0 for none

vars == <<stated, heard, inForce>>

Init ==
  /\ stated = [s \in Sessions |-> {0}]
  /\ heard = [s \in Sessions |-> 0]
  /\ inForce = [s \in Sessions |-> 0]

\* The client decides on a version; nothing is in force yet.
State(s, v) ==
  /\ stated' = [stated EXCEPT ![s] = @ \cup {v}]
  /\ UNCHANGED <<heard, inForce>>

\* The supervisor hears of version v: it puts it in force, or only withdraws
\* what was in force before.
Hear(s, v) ==
  /\ v \in stated[s] /\ v >= heard[s]
  /\ heard' = [heard EXCEPT ![s] = v]
  /\ \E granted \in {0, v} : inForce' = [inForce EXCEPT ![s] = granted]
  /\ UNCHANGED stated

\* The roots of some sessions are withdrawn together.
Withdraw(ss) ==
  /\ inForce' = [s \in Sessions |-> IF s \in ss THEN 0 ELSE inForce[s]]
  /\ UNCHANGED <<stated, heard>>

Next ==
  \/ \E s \in Sessions :
       \/ \E v \in Versions : State(s, v)
       \/ \E v \in stated[s] : Hear(s, v)
  \/ \E ss \in SUBSET Sessions : Withdraw(ss)

Spec == Init /\ [][Next]_vars

============================================================================
