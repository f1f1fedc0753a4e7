------------------------- MODULE MCDaemonReconciler -------------------------
(***************************************************************************)
(* Small instances of DaemonReconciler for TLC: one sender and one         *)
(* receiver, both configured on daemon id 0, and a second id on which a    *)
(* stream can be left over.                                                *)
(***************************************************************************)
EXTENDS DaemonReconciler

Marker(ns, side, id) == [ns |-> ns, side |-> side, nmos_id |-> id]

MCRegistry ==
  {[side |-> "sender", daemon_id |-> 0, nmos_id |-> "n1", uuid |-> 1,
    address |-> "t1", marker |-> Marker("a", "sender", "n1")],
   [side |-> "receiver", daemon_id |-> 0, nmos_id |-> "n1", uuid |-> 1,
    address |-> NoTarget, marker |-> Marker("a", "receiver", "n1")]}

On(target) == [master_enable |-> TRUE, rtp_enabled |-> TRUE, target |-> target]
Off(target) == [master_enable |-> FALSE, rtp_enabled |-> TRUE, target |-> target]

\* What controllers activate: senders, receivers.
Activations(tx, rx) == [c \in Registry |-> IF c.side = "sender" THEN tx ELSE rx]

\* A sender whose destination is "auto", a receiver with and without an SDP.
SafetyControls == Activations({On(NoTarget)}, {On("t1"), On(NoTarget)})

LivenessControls == Activations({On("t2"), Off("t2")}, {On("t1")})

\* A sender that changes, a receiver that is switched on and off.
RefusalControls == Activations({On("t2")}, {On("t1"), Off("t1")})

Manual == [owner |-> Unmanaged, body |-> "t1"]
Other == [owner |-> Marker("b", "sender", "n1"), body |-> "t1"]
Edited == [owner |-> Marker("a", "sender", "n1"), body |-> "t2"]
LeftOver == [owner |-> Marker("a", "sender", "n2"), body |-> "t1"]

\* What others put into the sender's slot, the spare sender slot and the
\* receiver's slot.
Put(tx, spare, rx) ==
  [s \in Slot |->
     CASE s = [side |-> "sender", id |-> 0]   -> {NoStream} \cup tx
       [] s = [side |-> "sender", id |-> 1]   -> {NoStream} \cup spare
       [] s = [side |-> "receiver", id |-> 0] -> {NoStream} \cup rx
       [] OTHER                               -> {NoStream}]

SafetyIntruders == Put({Edited}, {LeftOver}, {Other})
LivenessIntruders == Put({Manual}, {LeftOver}, {})
ReceiverIntruders == Put({}, {}, {Other})
NoIntruders == Put({}, {}, {})
=============================================================================
