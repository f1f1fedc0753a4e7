--------------------------- MODULE ReconcilerPlan ---------------------------
(***************************************************************************)
(* Reconciler::plan: the operations that make the daemon match what the    *)
(* bridge wants, and the conflicts it refuses to touch.                    *)
(*                                                                         *)
(* desired is a function on the registry: the payload of an enabled        *)
(* stream, NoStream for a disabled one.  state is the daemon's state.      *)
(***************************************************************************)
EXTENDS DaemonStreams

DesiredStreams == [Registry -> DaemonStream \cup {NoStream}]

\* PlannedOp.  put is the payload (NoStream: a DELETE); saw is the stream the
\* planning found in the slot; orphan tells the two loops of plan apart and
\* key is the position in its loop, so that orphan, side and key order ops.
PlannedOp ==
  [action : {"create", "update", "remove"}, slot : Slot,
   put : DaemonStream \cup {NoStream}, saw : DaemonStream \cup {NoStream},
   orphan : BOOLEAN, key : Nat]

LoopOp(action, c, put, state) ==
  [action |-> action, slot |-> SlotOf(c), put |-> put,
   saw |-> state[SlotOf(c)], orphan |-> FALSE, key |-> c.uuid]

Enabled(desired) == {c \in Registry : desired[c] # NoStream}

\* !d.enabled: remove the stream of this very sender or receiver.
RemoveOps(desired, state) ==
  {LoopOp("remove", c, NoStream, state) : c \in
     {c \in Registry \ Enabled(desired) :
        /\ state[SlotOf(c)] # NoStream
        /\ state[SlotOf(c)].owner = [ns |-> Ns, side |-> c.side, nmos_id |-> c.nmos_id]}}

\* !present: the configured stream is missing.
CreateOps(desired, state) ==
  {LoopOp("create", c, desired[c], state) :
     c \in {c \in Enabled(desired) : state[SlotOf(c)] = NoStream}}

\* Variant for validation: the fields the daemon adds count as drift.
DriftedByExtraFields(existing, payload) == TRUE

\* payload_drifted: a field of the desired payload differs or is missing.
Drifted(existing, payload) == existing # payload

\* Variant for validation: the ownership of an occupied slot is not looked at.
UpdateOpsUnchecked(desired, state) ==
  {LoopOp("update", c, desired[c], state) : c \in
     {c \in Enabled(desired) : /\ state[SlotOf(c)] # NoStream
                               /\ Drifted(state[SlotOf(c)], desired[c])}}

UpdateOps(desired, state) ==
  {LoopOp("update", c, desired[c], state) : c \in
     {c \in Enabled(desired) : /\ Mine(state[SlotOf(c)])
                               /\ Drifted(state[SlotOf(c)], desired[c])}}

\* Variant for validation: a planned removal is not entered in handled_ids.
HandledForgetsRemovals(desired, state) == {SlotOf(c) : c \in Enabled(desired)}

\* handled_ids after the first loop: every enabled stream's slot, and the
\* slots of the removals it planned.
Handled(desired, state) ==
  {SlotOf(c) : c \in Enabled(desired)} \cup {o.slot : o \in RemoveOps(desired, state)}

\* The `wanted` test of the orphan loop.
Wanted(desired, slot, owner) ==
  /\ \E c \in Enabled(desired) : c.side = slot.side /\ c.nmos_id = owner.nmos_id
  /\ \E c \in Enabled(desired) : SlotOf(c) = slot

\* Variant for validation: the orphan loop takes streams of every owner.
OrphanOpsAnyOwner(desired, state) ==
  {[action |-> "remove", slot |-> s, put |-> NoStream, saw |-> state[s],
    orphan |-> TRUE, key |-> s.id] : s \in
     {s \in Slot \ Handled(desired, state) : state[s] # NoStream}}

\* Streams of this namespace that the first loop did not deal with.
OrphanOps(desired, state) ==
  {[action |-> "remove", slot |-> s, put |-> NoStream, saw |-> state[s],
    orphan |-> TRUE, key |-> s.id] : s \in
     {s \in Slot \ Handled(desired, state) :
        /\ Mine(state[s])
        /\ state[s].owner.side = s.side
        /\ ~Wanted(desired, s, state[s].owner)}}

\* report.ops
PlanOps(desired, state) ==
  RemoveOps(desired, state) \cup CreateOps(desired, state)
    \cup UpdateOps(desired, state) \cup OrphanOps(desired, state)

\* Variant for validation: only the other namespaces are reported.
PlanErrorsMarkedOnly(desired, state) ==
  {SlotOf(c) : c \in {c \in Enabled(desired) : /\ Foreign(state[SlotOf(c)])
                                               /\ state[SlotOf(c)].owner # Unmanaged}}

\* report.errors: enabled streams whose slot is unmanaged or of another
\* namespace.
PlanErrors(desired, state) ==
  {SlotOf(c) : c \in {c \in Enabled(desired) : Foreign(state[SlotOf(c)])}}

\* The order in which reconcile applies report.ops: senders before receivers;
\* in a side the configured streams by resource id, then the orphans by id.
Before(o, p) ==
  \/ o.slot.side = "sender" /\ p.slot.side = "receiver"
  \/ /\ o.slot.side = p.slot.side
     /\ \/ ~o.orphan /\ p.orphan
        \/ o.orphan = p.orphan /\ o.key < p.key

IsNextOp(o, ops) == o \in ops /\ \A p \in ops \ {o} : Before(o, p)

\* What the daemon's slot holds once the operation has been carried out.
Applied(op) == IF op.action = "remove" THEN NoStream ELSE op.put

(***************************************************************************)
(* The reference definition: what a correct plan does, slot by slot.       *)
(***************************************************************************)
Intended(desired, slot) ==
  IF \E c \in Enabled(desired) : SlotOf(c) = slot
  THEN desired[CHOOSE c \in Enabled(desired) : SlotOf(c) = slot]
  ELSE NoStream

\* The bridge may write put over saw: the slot is free or its own, and a
\* stream is only deleted from the side its marker names.
MayWrite(slot, saw, put) ==
  \/ saw = NoStream
  \/ Mine(saw) /\ (put = NoStream => saw.owner.side = slot.side)

Request == [slot : Slot, saw : DaemonStream \cup {NoStream},
            put : DaemonStream \cup {NoStream}]

RequestOf(op) == [slot |-> op.slot, saw |-> op.saw, put |-> Applied(op)]

\* Exactly one write for every slot that is not as intended and that the
\* bridge may write.
Justified(desired, state) ==
  {[slot |-> s, saw |-> state[s], put |-> Intended(desired, s)] : s \in
     {s \in Slot : /\ state[s] # Intended(desired, s)
                   /\ MayWrite(s, state[s], Intended(desired, s))}}

\* The daemon after every operation of a plan has been carried out.
AfterPlan(desired, state) ==
  [s \in Slot |->
     IF \E o \in PlanOps(desired, state) : o.slot = s
     THEN Applied(CHOOSE o \in PlanOps(desired, state) : o.slot = s)
     ELSE state[s]]
=============================================================================
