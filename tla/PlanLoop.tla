------------------------------ MODULE PlanLoop ------------------------------
(***************************************************************************)
(* Reconciler::plan as it is written: per side, one loop over the desired  *)
(* vector that collects what is enabled, a second that plans for the       *)
(* configured streams, and one over the daemon's map that plans the orphan *)
(* removals; with the local sets and the report they fill.  One action is  *)
(* one iteration (or the end) of a loop.                                   *)
(*                                                                         *)
(* ReconcilerPlan states the outcome of these loops as sets.               *)
(***************************************************************************)
EXTENDS ReconcilerPlan, Sequences

CONSTANTS
  Vector,    \* the order of build_desired_locked: registry entries
  Contents   \* what the plans under study find in a slot

ASSUME VectorAssumption ==
  /\ Vector \in Seq(Registry)
  /\ \A c \in Registry : \E k \in 1..Len(Vector) : Vector[k] = c
  /\ \A j, k \in 1..Len(Vector) :
       j < k => \/ Vector[j].side = "sender" /\ Vector[k].side = "receiver"
                \/ /\ Vector[j].side = Vector[k].side
                   /\ Vector[j].uuid < Vector[k].uuid

ASSUME ContentsAssumption == Contents \subseteq DaemonStream \cup {NoStream}

\* What build_desired_locked makes of a configured stream.
Payloads(c) == {NoStream} \cup {MakePayload(c, t) : t \in Targets}

VARIABLES
  desired, state,   \* the arguments
  side,             \* the outer loop
  phase,            \* which loop of this side is running
  k,                \* index of the loops over desired: the next element
  todo,             \* ids of `existing` the orphan loop has not visited
  enabledNmos,      \* enabled_nmos_ids
  enabledIds,       \* enabled_daemon_ids
  handled,          \* handled_ids
  ops, errors       \* report.ops and report.errors, in order

args == <<desired, state>>
loop == <<side, phase, k, todo>>
report == <<ops, errors>>
vars == <<desired, state, side, phase, k, todo, enabledNmos, enabledIds, handled,
          ops, errors>>

Init ==
  /\ desired \in {d \in [Registry -> UNION {Payloads(c) : c \in Registry}] :
                   \A c \in Registry : d[c] \in Payloads(c)}
  /\ state \in [Slot -> Contents]
  /\ side = "sender"
  /\ phase = "collect"
  /\ k = 1
  /\ todo = {}
  /\ enabledNmos = {}
  /\ enabledIds = {}
  /\ handled = {}
  /\ ops = <<>>
  /\ errors = <<>>

\* The element a loop over desired looks at, and its slot in `existing`.
Current == Vector[k]
Existing == state[SlotOf(Current)]

Iterates(ph) == phase = ph /\ k <= Len(Vector)

NextElement == k' = k + 1 /\ UNCHANGED <<side, phase, todo>>

\* `continue` for an element of the other side, in either loop over desired.
OtherSide ==
  /\ phase \in {"collect", "streams"} /\ k <= Len(Vector)
  /\ Current.side # side
  /\ NextElement
  /\ UNCHANGED <<args, enabledNmos, enabledIds, handled, report>>

Collect ==
  /\ Iterates("collect")
  /\ Current.side = side
  /\ IF desired[Current] # NoStream
     THEN /\ enabledNmos' = enabledNmos \cup {Current.nmos_id}
          /\ enabledIds' = enabledIds \cup {Current.daemon_id}
     ELSE UNCHANGED <<enabledNmos, enabledIds>>
  /\ NextElement
  /\ UNCHANGED <<args, handled, report>>

\* Variant for validation: an index that starts at 0.
CollectEndAtZero ==
  /\ phase = "collect" /\ k > Len(Vector)
  /\ phase' = "streams"
  /\ k' = 0
  /\ UNCHANGED <<args, side, todo, enabledNmos, enabledIds, handled, report>>

CollectEnd ==
  /\ phase = "collect" /\ k > Len(Vector)
  /\ phase' = "streams"
  /\ k' = 1
  /\ UNCHANGED <<args, side, todo, enabledNmos, enabledIds, handled, report>>

\* An iteration of the second loop on a stream of this side.
Visit(enabled) ==
  /\ Iterates("streams")
  /\ Current.side = side
  /\ (desired[Current] # NoStream) = enabled
  /\ NextElement
  /\ UNCHANGED <<args, enabledNmos, enabledIds>>

Plans(op) == ops' = Append(ops, op)
Handles(id) == handled' = handled \cup {id}

\* Variant for validation: any stream of the namespace and side will do.
OwnedByAnyStream == Mine(Existing) /\ Existing.owner.side = side

OwnedByCurrent ==
  /\ Mine(Existing)
  /\ Existing.owner.side = side
  /\ Existing.owner.nmos_id = Current.nmos_id

VisitDisabled ==
  /\ Visit(FALSE)
  /\ IF OwnedByCurrent
     THEN /\ Plans(LoopOp("remove", Current, NoStream, state))
          /\ Handles(Current.daemon_id)
     ELSE UNCHANGED <<ops, handled>>
  /\ UNCHANGED errors

VisitMissing ==
  /\ Visit(TRUE)
  /\ Existing = NoStream
  /\ Plans(LoopOp("create", Current, desired[Current], state))
  /\ Handles(Current.daemon_id)
  /\ UNCHANGED errors

\* The two refusals: no marker, or the marker of another namespace.
VisitConflict ==
  /\ Visit(TRUE)
  /\ Foreign(Existing)
  /\ errors' = Append(errors, SlotOf(Current))
  /\ Handles(Current.daemon_id)
  /\ UNCHANGED ops

VisitOwned ==
  /\ Visit(TRUE)
  /\ Mine(Existing)
  /\ IF Drifted(Existing, desired[Current])
     THEN Plans(LoopOp("update", Current, desired[Current], state))
     ELSE UNCHANGED ops
  /\ Handles(Current.daemon_id)
  /\ UNCHANGED errors

StreamsEnd ==
  /\ phase = "streams" /\ k > Len(Vector)
  /\ phase' = "orphans"
  /\ todo' = {id \in DaemonIds : state[[side |-> side, id |-> id]] # NoStream}
  /\ UNCHANGED <<args, side, k, enabledNmos, enabledIds, handled, report>>

\* Variant for validation: either set is enough.
StillWantedByEither(id, st) == st.owner.nmos_id \in enabledNmos \/ id \in enabledIds

\* The `wanted` test of the orphan loop.
StillWanted(id, st) == st.owner.nmos_id \in enabledNmos /\ id \in enabledIds

\* std::map iterates in the order of its keys.
Orphan(id) ==
  /\ phase = "orphans"
  /\ id \in todo /\ \A other \in todo : id <= other
  /\ LET slot == [side |-> side, id |-> id]
         st == state[slot]
     IN IF id \notin handled /\ Mine(st) /\ st.owner.side = side /\ ~StillWanted(id, st)
        THEN Plans([action |-> "remove", slot |-> slot, put |-> NoStream, saw |-> st,
                    orphan |-> TRUE, key |-> id])
        ELSE UNCHANGED ops
  /\ todo' = todo \ {id}
  /\ UNCHANGED <<args, side, phase, k, enabledNmos, enabledIds, handled, errors>>

\* Variant for validation: handled_ids outlives its side.
SideEndKeepsHandled ==
  /\ phase = "orphans" /\ todo = {}
  /\ IF side = "sender" THEN side' = "receiver" /\ phase' = "collect"
                        ELSE phase' = "done" /\ UNCHANGED side
  /\ k' = 1
  /\ enabledNmos' = {} /\ enabledIds' = {}
  /\ UNCHANGED <<args, todo, handled, report>>

\* The sets are locals of the outer loop's body.
SideEnd ==
  /\ phase = "orphans" /\ todo = {}
  /\ IF side = "sender" THEN side' = "receiver" /\ phase' = "collect"
                        ELSE phase' = "done" /\ UNCHANGED side
  /\ k' = 1
  /\ enabledNmos' = {} /\ enabledIds' = {} /\ handled' = {}
  /\ UNCHANGED <<args, todo, report>>

Next ==
  \/ OtherSide
  \/ Collect \/ CollectEnd
  \/ VisitDisabled \/ VisitMissing \/ VisitConflict \/ VisitOwned \/ StreamsEnd
  \/ \E id \in DaemonIds : Orphan(id)
  \/ SideEnd

Spec == Init /\ [][Next]_vars

-----------------------------------------------------------------------------
Elements(seq) == {seq[i] : i \in 1..Len(seq)}

TypeOK ==
  /\ desired \in DesiredStreams
  /\ state \in DaemonState
  /\ side \in Side
  /\ phase \in {"collect", "streams", "orphans", "done"}
  /\ k \in 1..(Len(Vector) + 1)
  /\ todo \subseteq DaemonIds
  /\ enabledNmos \subseteq NmosIds
  /\ enabledIds \subseteq DaemonIds
  /\ handled \subseteq DaemonIds
  /\ ops \in Seq(PlannedOp)
  /\ errors \in Seq(Slot)

(***************************************************************************)
(* The three loops, with their intermediate sets and early `continue`s,    *)
(* make exactly the writes that are justified slot by slot: one for every  *)
(* slot that is not as intended and that this bridge may write, none for   *)
(* any other.                                                              *)
(***************************************************************************)
PlanIsJustified ==
  phase = "done" => {RequestOf(o) : o \in Elements(ops)} = Justified(desired, state)

(***************************************************************************)
(* The sets that the other modules use are what the loops compute, and the *)
(* report lists the operations in the order IsNextOp takes them in.        *)
(***************************************************************************)
LoopsMatchSets ==
  phase = "done" =>
    /\ Elements(ops) = PlanOps(desired, state)
    /\ Elements(errors) = PlanErrors(desired, state)
    /\ \A i, j \in 1..Len(ops) : i < j => Before(ops[i], ops[j])

(***************************************************************************)
(* The name the bridge builds for a configured stream is read back as the  *)
(* marker of that very stream.  Ownership shows which names are; the next  *)
(* two properties need it.                                                 *)
(***************************************************************************)
MarkersReadBack ==
  \A c \in Registry : c.marker = [ns |-> Ns, side |-> c.side, nmos_id |-> c.nmos_id]

(***************************************************************************)
(* Idempotence (the periodic pass): after the operations of a plan have    *)
(* been carried out, the plan of the next pass is empty and reports the    *)
(* same conflicts.                                                         *)
(***************************************************************************)
SecondPassIsEmpty ==
  phase = "done" =>
    /\ PlanOps(desired, AfterPlan(desired, state)) = {}
    /\ PlanErrors(desired, AfterPlan(desired, state)) = PlanErrors(desired, state)

(***************************************************************************)
(* A configured stream that was given another daemon_id is created in its  *)
(* new slot before the loop over the daemon's streams removes the old one. *)
(* Once all operations of the report are carried out, no marker of this    *)
(* bridge is left on two slots of its side, whatever was left over there.  *)
(***************************************************************************)
OneStreamPerMarker ==
  LET Carried(s) == {o \in Elements(ops) : o.slot = s}
      after == [s \in Slot |-> IF Carried(s) = {} THEN state[s]
                               ELSE Applied(CHOOSE o \in Carried(s) : TRUE)]
      Marked(s) == Mine(after[s]) /\ after[s].owner.side = s.side
  IN phase = "done" =>
       \A s, t \in Slot :
         Marked(s) /\ Marked(t) /\ after[s].owner = after[t].owner => s = t
=============================================================================
