---------------------------- MODULE SlotContract ----------------------------
(***************************************************************************)
(* What the bridge promises the daemon's other users, without its loop,    *)
(* threads, flags and retries: a slot is written only on the strength of a *)
(* request, and a request is made only for a slot that was observed free   *)
(* or carrying this bridge's marker, to make it what the bridge intended.  *)
(* A request may reach the daemon late, more than once, or never.          *)
(***************************************************************************)
EXTENDS ReconcilerPlan

VARIABLES
  streams,   \* the daemon's slots
  want,      \* what the NMOS active endpoints ask for, now
  intent,    \* the value of want the bridge is working on
  requests   \* writes decided and not known to be over

cvars == <<streams, want, intent, requests>>

Nothing == [c \in Registry |-> NoStream]

Init ==
  /\ streams \in DaemonState
  /\ want = Nothing
  /\ intent = Nothing
  /\ requests = {}

\* NMOS controllers activate endpoints.
Control ==
  /\ want' \in DesiredStreams
  /\ UNCHANGED <<streams, intent, requests>>

\* The bridge forgets what it wanted; what it had sent may still arrive.
Forget ==
  /\ want' = Nothing
  /\ intent' = Nothing
  /\ requests' \subseteq requests
  /\ UNCHANGED streams

\* Operators, other bridges and the daemon's own restart.
Outside ==
  /\ streams' \in DaemonState
  /\ UNCHANGED <<want, intent, requests>>

\* The bridge adopts the current wish.
Adopt ==
  /\ intent' = want
  /\ UNCHANGED <<streams, want, requests>>

\* The bridge observes the daemon and decides what to write.
Decide ==
  /\ requests' \subseteq requests \cup Justified(intent, streams)
  /\ UNCHANGED <<streams, want, intent>>

\* The daemon carries out a request.
Execute(r) ==
  /\ streams' = [streams EXCEPT ![r.slot] = r.put]
  /\ requests' \subseteq requests
  /\ UNCHANGED <<want, intent>>

Next ==
  \/ Control
  \/ Forget
  \/ Outside
  \/ Adopt
  \/ Decide
  \/ \E r \in requests : Execute(r)

Spec == Init /\ [][Next]_cvars
=============================================================================
