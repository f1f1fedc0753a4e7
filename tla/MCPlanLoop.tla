----------------------------- MODULE MCPlanLoop -----------------------------
(***************************************************************************)
(* Reconciler::plan on every combination of enabled and disabled streams   *)
(* and of slot contents, for two senders whose order in the registry is    *)
(* not that of their slots, and one receiver.                              *)
(***************************************************************************)
EXTENDS PlanLoop

Marker(ns, sd, id) == [ns |-> ns, side |-> sd, nmos_id |-> id]

Entry(sd, id, nmos, uuid) ==
  [side |-> sd, daemon_id |-> id, nmos_id |-> nmos, uuid |-> uuid,
   address |-> NoTarget, marker |-> Marker("a", sd, nmos)]

Tx1 == Entry("sender", 1, "n1", 1)
Tx2 == Entry("sender", 0, "n2", 2)
Rx == Entry("receiver", 0, "n1", 1)

MCRegistry == {Tx1, Tx2, Rx}
MCVector == <<Tx1, Tx2, Rx>>

Held(owner, body) == [owner |-> owner, body |-> body]

\* Absent, manual, another namespace's, either sender's, that of a sender no
\* longer configured, the receiver's.
MCContents ==
  {NoStream, Held(Unmanaged, "t1"), Held(Marker("b", "sender", "n1"), "t1"),
   Held(Marker("a", "sender", "n1"), "t1"), Held(Marker("a", "sender", "n2"), "t2"),
   Held(Marker("a", "sender", "n3"), "t1"), Held(Marker("a", "receiver", "n1"), "t1")}

ASSUME PlainAssumption == MarkersReadBack
=============================================================================
