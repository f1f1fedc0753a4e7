---------------------------- MODULE WakeContract ----------------------------
(***************************************************************************)
(* How the reconcile loop follows the NMOS side, without threads, locks    *)
(* and the work of a pass: an activation changes what is wanted and raises *)
(* the flag in one step; a pass takes what is wanted at one instant, then  *)
(* lowers the flag; the loop ends only where it reads.                     *)
(*                                                                         *)
(* Two modules implement it: DaemonReconciler, which takes every lock for  *)
(* one step, and BridgeThreads, where the locks are state.                 *)
(***************************************************************************)

CONSTANTS
  Wants,    \* what the active endpoints can ask for
  Nothing   \* what they ask for when the process starts

VARIABLES
  want,      \* what the active endpoints ask for, now
  intent,    \* the value of want the last pass has read
  dirty,     \* an activation since the flag was last lowered
  shutdown,  \* the process is being ended
  pc         \* the next thing the loop does

wvars == <<want, intent, dirty, shutdown, pc>>

Fresh(w, i, d, s, p) ==
  w = Nothing /\ i = Nothing /\ d = TRUE /\ s = FALSE /\ p = "read"

Init == Fresh(want, intent, dirty, shutdown, pc)

Activate ==
  /\ want' \in Wants
  /\ dirty' = TRUE
  /\ UNCHANGED <<intent, shutdown, pc>>

Shutdown ==
  /\ shutdown' = TRUE
  /\ UNCHANGED <<want, intent, dirty, pc>>

Restart == Fresh(want', intent', dirty', shutdown', pc')

Read ==
  /\ pc = "read" /\ ~shutdown
  /\ intent' = want
  /\ pc' = "clear"
  /\ UNCHANGED <<want, dirty, shutdown>>

Stop ==
  /\ pc = "read" /\ shutdown
  /\ pc' = "done"
  /\ UNCHANGED <<want, intent, dirty, shutdown>>

Clear ==
  /\ pc = "clear"
  /\ dirty' = FALSE
  /\ pc' = "pass"
  /\ UNCHANGED <<want, intent, shutdown>>

Pass ==
  /\ pc = "pass"
  /\ pc' = "wait"
  /\ UNCHANGED <<want, intent, dirty, shutdown>>

\* The flag is raised, or the interval is over.
Wake ==
  /\ pc = "wait"
  /\ pc' = "read"
  /\ UNCHANGED <<want, intent, dirty, shutdown>>

Next == \/ Activate \/ Shutdown \/ Restart
        \/ Read \/ Stop \/ Clear \/ Pass \/ Wake

Spec == Init /\ [][Next]_wvars
=============================================================================
