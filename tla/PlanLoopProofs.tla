--------------------------- MODULE PlanLoopProofs ---------------------------
(***************************************************************************)
(* The loops of Reconciler::plan compute the sets that ReconcilerPlan      *)
(* states, in their order, for every registry, every desired vector and    *)
(* every state of the daemon.                                              *)
(***************************************************************************)
EXTENDS PlanLoop, ReconcilerPlanProofs, SequenceTheorems

-----------------------------------------------------------------------------
(***************************************************************************)
(* The loop invariant.  The local sets and the report hold what the loops  *)
(* have passed so far: Collected and Visited are the configured streams    *)
(* the two loops over desired have passed, Swept the slots the orphan loop *)
(* has.                                                                    *)
(***************************************************************************)
Passed == {Vector[j] : j \in 1..(k - 1)}

Collected ==
  {c \in Enabled(desired) : c.side = side /\ (phase = "collect" => c \in Passed)}

Visited ==
  {c \in Registry :
     \/ phase = "done"
     \/ side = "receiver" /\ c.side = "sender"
     \/ c.side = side /\ phase = "orphans"
     \/ c.side = side /\ phase = "streams" /\ c \in Passed}

Swept ==
  {s \in Slot :
     \/ phase = "done"
     \/ side = "receiver" /\ s.side = "sender"
     \/ s.side = side /\ phase = "orphans" /\ s.id \notin todo}

\* Its own stream is in the slot of a disabled one.
Removable(c) ==
  /\ state[SlotOf(c)] # NoStream
  /\ state[SlotOf(c)].owner = [ns |-> Ns, side |-> c.side, nmos_id |-> c.nmos_id]

\* The two loops that plan have passed what the operation is for.
Written(o) ==
  \/ o \in OrphanOps(desired, state) /\ o.slot \in Swept
  \/ o \notin OrphanOps(desired, state) /\ \E c \in Visited : SlotOf(c) = o.slot

\* What the streams loop has entered in handled_ids on this side.
Dealt ==
  {c \in Visited : c.side = side /\ (c \in Enabled(desired) \/ Removable(c))}

InputOK ==
  /\ \A c \in Registry : desired[c] \in Payloads(c)
  /\ phase = "done" => side = "receiver"
  /\ phase = "orphans" => k = Len(Vector) + 1

SetsMatch ==
  phase # "done" =>
    /\ enabledNmos = {c.nmos_id : c \in Collected}
    /\ enabledIds = {c.daemon_id : c \in Collected}
    /\ handled = {c.daemon_id : c \in Dealt}

\* The orphan loop visits the occupied slots in the order of their ids.
TodoMatches ==
  phase = "orphans" =>
    /\ \A id \in todo : state[[side |-> side, id |-> id]] # NoStream
    /\ \A id \in DaemonIds \ todo : \A other \in todo :
         state[[side |-> side, id |-> id]] # NoStream => id < other

ReportMatches ==
  /\ Elements(ops) = {o \in PlanOps(desired, state) : Written(o)}
  /\ Elements(errors) =
       {SlotOf(c) : c \in {c \in Visited \cap Enabled(desired) : Foreign(state[SlotOf(c)])}}

ReportIsOrdered == \A i, j \in 1..Len(ops) : i < j => Before(ops[i], ops[j])

IInv == /\ TypeOK /\ InputOK /\ SetsMatch /\ TodoMatches
        /\ ReportMatches /\ ReportIsOrdered

-----------------------------------------------------------------------------
\* Appending an element to a sequence.
LEMMA ElementsOfAppend ==
  ASSUME NEW S, NEW q \in Seq(S), NEW e \in S
  PROVE  /\ Append(q, e) \in Seq(S)
         /\ Len(Append(q, e)) = Len(q) + 1
         /\ \A i \in 1..Len(q) : Append(q, e)[i] = q[i]
         /\ Append(q, e)[Len(q) + 1] = e
         /\ Elements(Append(q, e)) = Elements(q) \cup {e}
<1> DEFINE r == Append(q, e)
<1>1. /\ r \in Seq(S) /\ Len(r) = Len(q) + 1 /\ r[Len(q) + 1] = e
      /\ \A i \in 1..Len(q) : r[i] = q[i]
  BY AppendProperties
<1>2. Len(q) \in Nat
  BY LenProperties
<1>3. \A i \in 1..Len(r) : i \in 1..Len(q) \/ i = Len(q) + 1
  BY <1>1, <1>2
<1>4. 1..Len(q) \subseteq 1..Len(r) /\ Len(q) + 1 \in 1..Len(r)
  BY <1>1, <1>2
<1> HIDE DEF r
<1>5. Elements(r) = Elements(q) \cup {e}
  BY <1>1, <1>3, <1>4 DEF Elements
<1> QED
  BY <1>1, <1>5 DEF r

\* An order on the elements of a report survives an operation that comes after
\* all of them.
LEMMA OrderedAppend ==
  ASSUME NEW S, NEW q \in Seq(S), NEW e \in S,
         \A i, j \in 1..Len(q) : i < j => Before(q[i], q[j]),
         \A o \in Elements(q) : Before(o, e)
  PROVE  \A i, j \in 1..Len(Append(q, e)) :
           i < j => Before(Append(q, e)[i], Append(q, e)[j])
<1> DEFINE r == Append(q, e)
<1>1. /\ Len(r) = Len(q) + 1 /\ r[Len(q) + 1] = e
      /\ \A i \in 1..Len(q) : r[i] = q[i]
  BY ElementsOfAppend
<1>2. Len(q) \in Nat
  BY LenProperties
<1> HIDE DEF r
<1>3. ASSUME NEW i \in 1..Len(r), NEW j \in 1..Len(r), i < j
      PROVE  Before(r[i], r[j])
  <2>1. i \in 1..Len(q) /\ r[i] = q[i] /\ q[i] \in Elements(q)
    BY <1>1, <1>2, <1>3 DEF Elements
  <2>2. CASE j \in 1..Len(q)
    BY <1>1, <1>3, <2>1, <2>2
  <2>3. CASE j = Len(q) + 1
    BY <1>1, <2>1, <2>3
  <2> QED
    BY <1>1, <1>2, <2>2, <2>3
<1> QED
  BY <1>3 DEF r

\* The elements of the vector are the configured streams, all of them, the
\* senders first and each side by resource id.
LEMMA VectorElements ==
  /\ Len(Vector) \in Nat
  /\ \A j \in 1..Len(Vector) : Vector[j] \in Registry /\ Vector[j].side \in Side
  /\ \A c \in Registry : \E j \in 1..Len(Vector) : Vector[j] = c
<1>1. Vector \in Seq(Registry)
  BY VectorAssumption
<1>2. \A j \in 1..Len(Vector) : Vector[j] \in Registry
  BY <1>1, ElementOfSeq
<1> QED
  BY <1>1, <1>2, LenProperties, VectorAssumption, RegistryAssumption DEF StreamConfig

\* The element a loop over desired looks at.
LEMMA CurrentType ==
  ASSUME TypeOK, k <= Len(Vector)
  PROVE  /\ k \in 1..Len(Vector) /\ k + 1 \in 1..(Len(Vector) + 1)
         /\ Current \in Registry
         /\ Current.side \in Side
         /\ Current.nmos_id \in NmosIds
         /\ Current.daemon_id \in DaemonIds
         /\ SlotOf(Current) \in Slot
         /\ Existing \in DaemonStream \cup {NoStream}
         /\ desired[Current] \in DaemonStream \cup {NoStream}
<1>1. k \in 1..Len(Vector) /\ k + 1 \in 1..(Len(Vector) + 1)
  BY VectorElements DEF TypeOK
<1>2. Current \in Registry /\ Current.side \in Side
  BY <1>1, VectorElements DEF Current
<1>3. Current.nmos_id \in NmosIds /\ Current.daemon_id \in DaemonIds
  BY <1>2, RegistryAssumption DEF StreamConfig
<1>4. SlotOf(Current) \in Slot
  BY <1>2, SlotOfType
<1>5. Existing \in DaemonStream \cup {NoStream}
  BY <1>4 DEF TypeOK, DaemonState, Existing
<1>6. desired[Current] \in DaemonStream \cup {NoStream}
  BY <1>2 DEF TypeOK, DesiredStreams
<1> QED
  BY <1>1, <1>2, <1>3, <1>4, <1>5, <1>6

\* An iteration passes the current element; a finished loop has passed all.
LEMMA PassedGrows ==
  ASSUME TypeOK, k <= Len(Vector), k' = k + 1
  PROVE  Passed' = Passed \cup {Current}
<1>1. k \in Nat /\ 1..(k' - 1) = 1..(k - 1) \cup {k}
  BY CurrentType
<1> QED
  BY <1>1 DEF Passed, Current

LEMMA AllPassed ==
  ASSUME TypeOK, k > Len(Vector)
  PROVE  Passed = Registry /\ k = Len(Vector) + 1
<1>1. k = Len(Vector) + 1
  BY VectorElements DEF TypeOK
<1>2. 1..(k - 1) = 1..Len(Vector)
  BY <1>1, VectorElements
<1> QED
  BY <1>1, <1>2, VectorElements DEF Passed

-----------------------------------------------------------------------------
\* The key of an operation of either loop.
LEMMA OpKey ==
  ASSUME NEW d \in DesiredStreams, NEW st \in DaemonState, NEW o \in PlanOps(d, st)
  PROVE  /\ o.slot \in Slot
         /\ o \in OrphanOps(d, st) => o.orphan = TRUE /\ o.key = o.slot.id /\ Mine(st[o.slot])
         /\ \A c \in Registry :
              o \notin OrphanOps(d, st) /\ o.slot = SlotOf(c) =>
                o.orphan = FALSE /\ o.key = c.uuid
<1>1. o.slot \in Slot
  BY PlannedIsJustified DEF Justified, RequestOf
<1>2. o \in OrphanOps(d, st) => o.orphan = TRUE /\ o.key = o.slot.id /\ Mine(st[o.slot])
  BY DEF OrphanOps
<1>3. ASSUME NEW c \in Registry, o \notin OrphanOps(d, st), o.slot = SlotOf(c)
      PROVE  o.orphan = FALSE /\ o.key = c.uuid
  <2>1. o \in PlanOps(d, st) \ OrphanOps(d, st)
    BY <1>3
  <2>2. PICK x \in Registry : o.slot = SlotOf(x) /\ o.key = x.uuid
    BY <2>1, LoopOpOrigin DEF LoopOp
  <2>3. o.orphan = FALSE
    BY <2>1, OrphanFlag
  <2>4. o.key = c.uuid
    BY <1>3, <2>2, SlotDeterminesConfig
  <2> QED
    BY <2>3, <2>4
<1>4. \A c \in Registry : o \notin OrphanOps(d, st) /\ o.slot = SlotOf(c) =>
                             o.orphan = FALSE /\ o.key = c.uuid
  BY <1>3, Zenon
<1> QED
  BY <1>1, <1>2, <1>4, Zenon

\* The operations for a configured stream's slot, and the orphan removal of a
\* slot: one or none, by the conditions of the loops.
StreamOps(d, st, c) == {o \in PlanOps(d, st) \ OrphanOps(d, st) : o.slot = SlotOf(c)}
OrphansAt(d, st, s) == {o \in OrphanOps(d, st) : o.slot = s}

LEMMA StreamOpsCases ==
  ASSUME NEW d \in DesiredStreams, NEW st \in DaemonState, NEW c \in Registry
  PROVE  LET owned == /\ st[SlotOf(c)] # NoStream
                      /\ st[SlotOf(c)].owner =
                           [ns |-> Ns, side |-> c.side, nmos_id |-> c.nmos_id]
             drifted == Mine(st[SlotOf(c)]) /\ Drifted(st[SlotOf(c)], d[c])
         IN /\ c \notin Enabled(d) /\ owned =>
                 StreamOps(d, st, c) = {LoopOp("remove", c, NoStream, st)}
            /\ c \notin Enabled(d) /\ ~owned => StreamOps(d, st, c) = {}
            /\ c \in Enabled(d) /\ st[SlotOf(c)] = NoStream =>
                 StreamOps(d, st, c) = {LoopOp("create", c, d[c], st)}
            /\ c \in Enabled(d) /\ drifted =>
                 StreamOps(d, st, c) = {LoopOp("update", c, d[c], st)}
            /\ c \in Enabled(d) /\ st[SlotOf(c)] # NoStream /\ ~drifted =>
                 StreamOps(d, st, c) = {}
<1> DEFINE owned == /\ st[SlotOf(c)] # NoStream
                    /\ st[SlotOf(c)].owner =
                         [ns |-> Ns, side |-> c.side, nmos_id |-> c.nmos_id]
           drifted == Mine(st[SlotOf(c)]) /\ Drifted(st[SlotOf(c)], d[c])
<1>1. ASSUME NEW o
      PROVE  o \in StreamOps(d, st, c) <=>
               \/ c \notin Enabled(d) /\ owned /\ o = LoopOp("remove", c, NoStream, st)
               \/ /\ c \in Enabled(d) /\ st[SlotOf(c)] = NoStream
                  /\ o = LoopOp("create", c, d[c], st)
               \/ c \in Enabled(d) /\ drifted /\ o = LoopOp("update", c, d[c], st)
  <2> DEFINE Removes(x) ==
               /\ x \notin Enabled(d)
               /\ st[SlotOf(x)] # NoStream
               /\ st[SlotOf(x)].owner = [ns |-> Ns, side |-> x.side, nmos_id |-> x.nmos_id]
               /\ o = LoopOp("remove", x, NoStream, st)
             Creates(x) ==
               /\ x \in Enabled(d)
               /\ st[SlotOf(x)] = NoStream
               /\ o = LoopOp("create", x, d[x], st)
             Updates(x) ==
               /\ x \in Enabled(d)
               /\ Mine(st[SlotOf(x)]) /\ Drifted(st[SlotOf(x)], d[x])
               /\ o = LoopOp("update", x, d[x], st)
             Has(x) == Removes(x) \/ Creates(x) \/ Updates(x)
  <2>1. ASSUME o \in StreamOps(d, st, c)
        PROVE  Has(c)
    <3>1. PICK x \in Registry : Has(x)
      <4>1. CASE o \in RemoveOps(d, st)
        BY <4>1 DEF RemoveOps
      <4>2. CASE o \in CreateOps(d, st)
        BY <4>2 DEF CreateOps, Enabled
      <4>3. CASE o \in UpdateOps(d, st)
        BY <4>3 DEF UpdateOps, Enabled
      <4> QED
        BY <2>1, <4>1, <4>2, <4>3 DEF StreamOps, PlanOps
    <3>2. o.slot = SlotOf(x)
      BY <3>1 DEF LoopOp
    <3>3. x = c
      BY <2>1, <3>2, SlotDeterminesConfig DEF StreamOps
    <3> QED
      BY <3>1, <3>3
  <2>2. ASSUME Has(c)
        PROVE  o \in StreamOps(d, st, c)
    <3>1. o.slot = SlotOf(c) /\ o.orphan = FALSE
      BY <2>2 DEF LoopOp
    <3>2. o \in PlanOps(d, st)
      <4>1. Removes(c) => o \in RemoveOps(d, st)
        BY DEF RemoveOps
      <4>2. Creates(c) => o \in CreateOps(d, st)
        BY DEF CreateOps
      <4>3. Updates(c) => o \in UpdateOps(d, st)
        BY DEF UpdateOps
      <4> QED
        BY <2>2, <4>1, <4>2, <4>3 DEF PlanOps
    <3>3. o \notin OrphanOps(d, st)
      BY <3>1, <3>2, OrphanFlag
    <3> QED
      BY <3>1, <3>2, <3>3 DEF StreamOps
  <2>3. Has(c) <=>
          \/ c \notin Enabled(d) /\ owned /\ o = LoopOp("remove", c, NoStream, st)
          \/ /\ c \in Enabled(d) /\ st[SlotOf(c)] = NoStream
             /\ o = LoopOp("create", c, d[c], st)
          \/ c \in Enabled(d) /\ drifted /\ o = LoopOp("update", c, d[c], st)
    BY Zenon
  <2> QED
    BY <2>1, <2>2, <2>3, Zenon
<1>2. drifted => st[SlotOf(c)] # NoStream
  BY DEF Mine
<1> HIDE DEF owned, drifted
<1>3. c \notin Enabled(d) /\ owned =>
        StreamOps(d, st, c) = {LoopOp("remove", c, NoStream, st)}
  BY <1>1
<1>4. c \notin Enabled(d) /\ ~owned => StreamOps(d, st, c) = {}
  BY <1>1
<1>5. c \in Enabled(d) /\ st[SlotOf(c)] = NoStream =>
        StreamOps(d, st, c) = {LoopOp("create", c, d[c], st)}
  BY <1>1, <1>2
<1>6. c \in Enabled(d) /\ drifted =>
        StreamOps(d, st, c) = {LoopOp("update", c, d[c], st)}
  BY <1>1, <1>2
<1>7. c \in Enabled(d) /\ st[SlotOf(c)] # NoStream /\ ~drifted =>
        StreamOps(d, st, c) = {}
  BY <1>1
<1> QED
  BY <1>3, <1>4, <1>5, <1>6, <1>7, Zenon DEF owned, drifted

\* The loops' own tests of a disabled stream's slot.
LEMMA OwnedIsRemovable ==
  ASSUME TypeOK, k <= Len(Vector), Current.side = side
  PROVE  OwnedByCurrent <=> Removable(Current)
<1>1. /\ Existing \in DaemonStream \cup {NoStream}
      /\ Current.side \in Side /\ Current.nmos_id \in NmosIds
  BY CurrentType
<1>2. Existing # NoStream => Existing.owner \in Ownership \cup {Unmanaged}
  BY <1>1 DEF DaemonStream
<1> DEFINE own == [ns |-> Ns, side |-> Current.side, nmos_id |-> Current.nmos_id]
<1>3. own \in Ownership /\ own # Unmanaged
  BY <1>1, ConstantsAssumption DEF Ownership
<1>4. \A w \in Ownership :
        w.ns = Ns /\ w.side = side /\ w.nmos_id = Current.nmos_id <=> w = own
  BY <1>1 DEF Ownership
<1>5. own.ns = Ns /\ own.side = side /\ own.nmos_id = Current.nmos_id
  OBVIOUS
<1>6. Removable(Current) <=> Existing # NoStream /\ Existing.owner = own
  BY DEF Removable, Existing
<1> HIDE DEF own
<1> QED
  BY <1>2, <1>3, <1>4, <1>5, <1>6 DEF OwnedByCurrent, Mine

-----------------------------------------------------------------------------
\* Every step keeps the types.
LEMMA PlannedNowType ==
  ASSUME TypeOK, k <= Len(Vector)
  PROVE  /\ LoopOp("remove", Current, NoStream, state) \in PlannedOp
         /\ LoopOp("create", Current, desired[Current], state) \in PlannedOp
         /\ LoopOp("update", Current, desired[Current], state) \in PlannedOp
<1>1. /\ SlotOf(Current) \in Slot
      /\ desired[Current] \in DaemonStream \cup {NoStream}
      /\ state[SlotOf(Current)] \in DaemonStream \cup {NoStream}
  BY CurrentType DEF Existing
<1>2. Current.uuid \in Nat
  BY CurrentType, RegistryAssumption DEF StreamConfig
<1> QED
  BY <1>1, <1>2 DEF LoopOp, PlannedOp

LEMMA OrphanNowType ==
  ASSUME TypeOK, NEW id \in DaemonIds
  PROVE  LET slot == [side |-> side, id |-> id]
         IN /\ slot \in Slot
            /\ [action |-> "remove", slot |-> slot, put |-> NoStream, saw |-> state[slot],
                orphan |-> TRUE, key |-> id] \in PlannedOp
<1> DEFINE slot == [side |-> side, id |-> id]
<1>1. slot \in Slot
  BY DEF Slot, TypeOK
<1>2. state[slot] \in DaemonStream \cup {NoStream}
  BY <1>1 DEF TypeOK, DaemonState
<1>3. id \in Nat
  <2>1. id \in 0..63
    BY ConstantsAssumption
  <2> QED
    BY <2>1
<1> HIDE DEF slot
<1>4. [action |-> "remove", slot |-> slot, put |-> NoStream, saw |-> state[slot],
       orphan |-> TRUE, key |-> id] \in PlannedOp
  BY <1>1, <1>2, <1>3 DEF PlannedOp
<1> QED
  BY <1>1, <1>4 DEF slot

LEMMA TypeStep ==
  ASSUME TypeOK, Next
  PROVE  TypeOK'
<1>1. CASE OtherSide
  BY <1>1, CurrentType DEF OtherSide, NextElement, args, report, TypeOK
<1>2. CASE Collect
  BY <1>2, CurrentType DEF Collect, Iterates, NextElement, args, report, TypeOK
<1>3. CASE CollectEnd
  BY <1>3, VectorElements DEF CollectEnd, args, report, TypeOK
<1>4. CASE VisitDisabled
  <2>1. ops' \in Seq(PlannedOp)
    BY <1>4, PlannedNowType, ElementsOfAppend, SMTT(30)
    DEF VisitDisabled, Visit, Iterates, Plans, TypeOK
  <2> QED
    BY <1>4, <2>1, CurrentType
    DEF VisitDisabled, Visit, Iterates, Handles, NextElement, args, TypeOK
<1>5. CASE VisitMissing
  <2>1. ops' \in Seq(PlannedOp)
    BY <1>5, PlannedNowType, ElementsOfAppend
    DEF VisitMissing, Visit, Iterates, Plans, TypeOK
  <2> QED
    BY <1>5, <2>1, CurrentType
    DEF VisitMissing, Visit, Iterates, Handles, NextElement, args, TypeOK
<1>6. CASE VisitConflict
  <2>1. errors' \in Seq(Slot)
    BY <1>6, CurrentType, ElementsOfAppend
    DEF VisitConflict, Visit, Iterates, TypeOK
  <2> QED
    BY <1>6, <2>1, CurrentType
    DEF VisitConflict, Visit, Iterates, Handles, NextElement, args, TypeOK
<1>7. CASE VisitOwned
  <2> DEFINE op == LoopOp("update", Current, desired[Current], state)
  <2>0. ops' = Append(ops, op) \/ ops' = ops
    BY <1>7 DEF VisitOwned, Plans
  <2>1. ops' \in Seq(PlannedOp)
    <3>1. op \in PlannedOp
      BY <1>7, PlannedNowType DEF VisitOwned, Visit, Iterates
    <3> HIDE DEF op
    <3> QED
      BY <2>0, <3>1, ElementsOfAppend DEF TypeOK
  <2> QED
    BY <1>7, <2>1, CurrentType
    DEF VisitOwned, Visit, Iterates, Handles, NextElement, args, TypeOK
<1>8. CASE StreamsEnd
  BY <1>8 DEF StreamsEnd, args, report, TypeOK
<1>9. ASSUME NEW id \in DaemonIds, Orphan(id)
      PROVE  TypeOK'
  <2>1. ops' \in Seq(PlannedOp)
    BY <1>9, OrphanNowType, ElementsOfAppend DEF Orphan, Plans, TypeOK
  <2> QED
    BY <1>9, <2>1 DEF Orphan, args, TypeOK
<1>10. CASE SideEnd
  BY <1>10, VectorElements DEF SideEnd, args, report, TypeOK, Side
<1> QED
  BY <1>1, <1>2, <1>3, <1>4, <1>5, <1>6, <1>7, <1>8, <1>9, <1>10 DEF Next

-----------------------------------------------------------------------------
\* What a step passes: nothing, or the element or slot it is at.

LEMMA OtherSidePasses ==
  ASSUME IInv, OtherSide
  PROVE  /\ UNCHANGED args
         /\ Collected' = Collected /\ Visited' = Visited /\ Swept' = Swept
<1>1. k <= Len(Vector) /\ k' = k + 1 /\ TypeOK
  BY DEF OtherSide, NextElement, IInv
<1>2. Passed' = Passed \cup {Current}
  BY <1>1, PassedGrows
<1>3. /\ desired' = desired /\ state' = state /\ side' = side /\ phase' = phase
      /\ todo' = todo /\ Current.side # side
  BY DEF OtherSide, NextElement, args
<1> QED
  BY <1>2, <1>3 DEF args, Collected, Visited, Swept, Enabled

LEMMA CollectPasses ==
  ASSUME IInv, Collect
  PROVE  /\ UNCHANGED args
         /\ Collected' = Collected \cup ({Current} \cap Enabled(desired))
         /\ Visited' = Visited /\ Swept' = Swept
<1>1. k <= Len(Vector) /\ k' = k + 1 /\ TypeOK
  BY DEF Collect, Iterates, NextElement, IInv
<1>2. Passed' = Passed \cup {Current}
  BY <1>1, PassedGrows
<1>3. /\ desired' = desired /\ state' = state /\ side' = side /\ phase' = phase
      /\ todo' = todo /\ Current.side = side /\ phase = "collect"
  BY DEF Collect, Iterates, NextElement, args
<1> QED
  BY <1>2, <1>3 DEF args, Collected, Visited, Swept, Enabled

LEMMA CollectEndPasses ==
  ASSUME IInv, CollectEnd
  PROVE  /\ UNCHANGED args
         /\ Collected' = Collected /\ Visited' = Visited /\ Swept' = Swept
<1>1. k > Len(Vector) /\ k' = 1 /\ TypeOK
  BY DEF CollectEnd, IInv
<1>2. Passed = Registry
  BY <1>1, AllPassed
<1>3. Passed' = {}
  BY <1>1 DEF Passed
<1>4. /\ desired' = desired /\ state' = state /\ side' = side
      /\ phase = "collect" /\ phase' = "streams" /\ todo' = todo
  BY DEF CollectEnd, args
<1> QED
  BY <1>2, <1>3, <1>4 DEF args, Collected, Visited, Swept, Enabled

LEMMA VisitPasses ==
  ASSUME IInv, NEW enabled, Visit(enabled)
  PROVE  /\ UNCHANGED args
         /\ k <= Len(Vector) /\ TypeOK /\ phase = "streams" /\ phase' = "streams"
         /\ Current.side = side /\ side' = side
         /\ Current \in Registry
         /\ Current \in Enabled(desired) <=> desired[Current] # NoStream
         /\ Collected' = Collected /\ Visited' = Visited \cup {Current}
         /\ Swept' = Swept
<1>1. k <= Len(Vector) /\ k' = k + 1 /\ TypeOK
  BY DEF Visit, Iterates, NextElement, IInv
<1>2. Passed' = Passed \cup {Current} /\ Current \in Registry
  BY <1>1, PassedGrows, CurrentType
<1>3. /\ desired' = desired /\ state' = state /\ side' = side /\ phase' = phase
      /\ todo' = todo /\ Current.side = side /\ phase = "streams"
  BY DEF Visit, Iterates, NextElement, args
<1>4. UNCHANGED args
  BY <1>3 DEF args
<1>5. Collected' = Collected /\ Swept' = Swept
  BY <1>3 DEF Collected, Swept, Enabled
<1>6. Visited' = Visited \cup {Current}
  BY <1>2, <1>3 DEF Visited
<1> QED
  BY <1>1, <1>2, <1>3, <1>4, <1>5, <1>6 DEF Enabled

LEMMA StreamsEndPasses ==
  ASSUME IInv, StreamsEnd
  PROVE  /\ UNCHANGED args
         /\ Collected' = Collected /\ Visited' = Visited
         /\ \A s \in Slot : state[s] # NoStream => (s \in Swept' <=> s \in Swept)
<1>1. k > Len(Vector) /\ TypeOK
  BY DEF StreamsEnd, IInv
<1>2. Passed = Registry
  BY <1>1, AllPassed
<1>3. /\ desired' = desired /\ state' = state /\ side' = side /\ k' = k
      /\ phase = "streams" /\ phase' = "orphans"
      /\ todo' = {id \in DaemonIds : state[[side |-> side, id |-> id]] # NoStream}
  BY DEF StreamsEnd, args
<1>4. Collected' = Collected /\ Visited' = Visited
  BY <1>2, <1>3 DEF Collected, Visited, Enabled
<1>5. ASSUME NEW s \in Slot, state[s] # NoStream
      PROVE  s \in Swept' <=> s \in Swept
  <2>1. s = [side |-> s.side, id |-> s.id] /\ s.id \in DaemonIds
    BY DEF Slot
  <2>2. s.side = side => s.id \in todo'
    BY <1>3, <1>5, <2>1
  <2>3. s \in Swept' <=> side = "receiver" /\ s.side = "sender"
    BY <1>3, <2>2 DEF Swept
  <2>4. s \in Swept <=> side = "receiver" /\ s.side = "sender"
    BY <1>3 DEF Swept
  <2> QED
    BY <2>3, <2>4
<1> QED
  BY <1>3, <1>4, <1>5 DEF args

LEMMA OrphanPasses ==
  ASSUME IInv, NEW id \in DaemonIds, Orphan(id)
  PROVE  /\ UNCHANGED args
         /\ Collected' = Collected /\ Visited' = Visited
         /\ Swept' = Swept \cup {[side |-> side, id |-> id]}
<1>1. /\ desired' = desired /\ state' = state /\ side' = side /\ k' = k
      /\ phase = "orphans" /\ phase' = "orphans"
      /\ todo' = todo \ {id}
  BY DEF Orphan, args
<1>2. Passed' = Passed
  BY <1>1 DEF Passed
<1>3. Collected' = Collected /\ Visited' = Visited
  BY <1>1, <1>2 DEF Collected, Visited, Enabled
<1> DEFINE slot == [side |-> side, id |-> id]
<1>4. slot \in Slot /\ slot.side = side /\ slot.id = id
  BY DEF IInv, TypeOK, Slot
<1>5. \A s \in Slot : s.side = side /\ s.id = id <=> s = slot
  BY DEF Slot
<1> HIDE DEF slot
<1>6. Swept' = Swept \cup {slot}
  BY <1>1, <1>4, <1>5 DEF Swept
<1> QED
  BY <1>1, <1>3, <1>6 DEF args, slot

LEMMA SideEndPasses ==
  ASSUME IInv, SideEnd
  PROVE  /\ UNCHANGED args
         /\ phase' # "done" => Collected' = {} /\ Dealt' = {}
         /\ Visited' = Visited /\ Swept' = Swept
<1>1. /\ desired' = desired /\ state' = state /\ k' = 1 /\ todo' = todo
      /\ phase = "orphans" /\ todo = {}
  BY DEF SideEnd, args
<1>2. Passed' = {}
  BY <1>1 DEF Passed
<1>3. \A c \in Registry : c.side \in Side
  BY RegistryAssumption DEF StreamConfig
<1>4. \A s \in Slot : s.side \in Side
  BY DEF Slot
<1>5. CASE side = "sender"
  <2>1. side' = "receiver" /\ phase' = "collect"
    BY <1>5 DEF SideEnd
  <2>2. Collected' = {}
    BY <1>2, <2>1 DEF Collected
  <2>3. Visited' = Visited /\ Swept' = Swept
    BY <1>1, <1>5, <2>1 DEF Visited, Swept
  <2>4. Dealt' = {}
    BY <2>1 DEF Dealt, Visited
  <2> QED
    BY <1>1, <2>2, <2>3, <2>4 DEF args
<1>6. CASE side = "receiver"
  <2>1. phase' = "done"
    BY <1>6 DEF SideEnd
  <2>2. Visited' = Visited /\ Swept' = Swept
    BY <1>1, <1>3, <1>4, <1>6, <2>1 DEF Visited, Swept, Side
  <2> QED
    BY <1>1, <2>1, <2>2 DEF args
<1> QED
  BY <1>5, <1>6 DEF IInv, TypeOK, Side

-----------------------------------------------------------------------------
\* Each conjunct of the invariant is preserved.

LEMMA InputStep ==
  ASSUME IInv, Next
  PROVE  InputOK'
<1> USE DEF IInv, InputOK
<1>1. CASE OtherSide
  BY <1>1 DEF OtherSide, NextElement, args, Payloads
<1>2. CASE Collect
  BY <1>2 DEF Collect, Iterates, NextElement, args, Payloads
<1>3. CASE CollectEnd
  BY <1>3 DEF CollectEnd, args, Payloads
<1>4. ASSUME NEW enabled, Visit(enabled)
      PROVE  InputOK'
  BY <1>4 DEF Visit, Iterates, NextElement, args, Payloads
<1>5. CASE StreamsEnd
  BY <1>5, AllPassed DEF StreamsEnd, args, Payloads
<1>6. ASSUME NEW id \in DaemonIds, Orphan(id)
      PROVE  InputOK'
  BY <1>6 DEF Orphan, args, Payloads
<1>7. CASE SideEnd
  BY <1>7 DEF SideEnd, args, Payloads, TypeOK, Side
<1> QED
  BY <1>1, <1>2, <1>3, <1>4, <1>5, <1>6, <1>7
  DEF Next, VisitDisabled, VisitMissing, VisitConflict, VisitOwned

\* handled_ids gains the current stream's slot unless the stream is disabled
\* and its slot is not its own.
LEMMA VisitHandles ==
  ASSUME IInv, NEW enabled, Visit(enabled),
         handled' = IF Current \in Enabled(desired) \/ Removable(Current)
                    THEN handled \cup {Current.daemon_id}
                    ELSE handled
  PROVE  SetsMatch'
<1>1. /\ UNCHANGED args
      /\ phase = "streams" /\ phase' = "streams"
      /\ Current.side = side /\ side' = side
      /\ Collected' = Collected /\ Visited' = Visited \cup {Current}
  BY VisitPasses
<1>2. enabledNmos' = enabledNmos /\ enabledIds' = enabledIds
  BY DEF Visit
<1>3. \A c : (c \in Enabled(desired) \/ Removable(c))' <=> c \in Enabled(desired) \/ Removable(c)
  BY <1>1 DEF args, Removable, Enabled
<1>4. Dealt' = IF Current \in Enabled(desired) \/ Removable(Current)
               THEN Dealt \cup {Current} ELSE Dealt
  <2>1. \A c : c \in Dealt' <=>
          /\ c \in Visited \/ c = Current
          /\ c.side = side
          /\ c \in Enabled(desired) \/ Removable(c)
    BY <1>1, <1>3 DEF Dealt
  <2>2. \A c : c \in Dealt <=>
          /\ c \in Visited
          /\ c.side = side
          /\ c \in Enabled(desired) \/ Removable(c)
    BY DEF Dealt
  <2> QED
    BY <1>1, <2>1, <2>2
<1>5. handled = {c.daemon_id : c \in Dealt}
  BY <1>1 DEF IInv, SetsMatch
<1>6. handled' = {c.daemon_id : c \in Dealt'}
  <2>1. CASE Current \in Enabled(desired) \/ Removable(Current)
    BY <1>4, <1>5, <2>1
  <2>2. CASE ~(Current \in Enabled(desired) \/ Removable(Current))
    BY <1>4, <1>5, <2>2
  <2> QED
    BY <2>1, <2>2
<1> QED
  BY <1>1, <1>2, <1>6 DEF IInv, SetsMatch

LEMMA SetsStep ==
  ASSUME IInv, Next
  PROVE  SetsMatch'
<1>1. ASSUME UNCHANGED <<args, enabledNmos, enabledIds, handled>>, phase # "done", side' = side,
             Collected' = Collected, Visited' = Visited
      PROVE  SetsMatch'
  BY <1>1 DEF IInv, SetsMatch, Dealt, Removable, Enabled, args
<1>2. CASE OtherSide
  BY <1>1, <1>2, OtherSidePasses DEF OtherSide, NextElement
<1>3. CASE Collect
  <2>1. /\ UNCHANGED args
        /\ Collected' = Collected \cup ({Current} \cap Enabled(desired))
        /\ Visited' = Visited
    BY <1>3, CollectPasses
  <2>2. /\ side' = side /\ handled' = handled /\ phase = "collect"
        /\ IF desired[Current] # NoStream
           THEN /\ enabledNmos' = enabledNmos \cup {Current.nmos_id}
                /\ enabledIds' = enabledIds \cup {Current.daemon_id}
           ELSE enabledNmos' = enabledNmos /\ enabledIds' = enabledIds
    BY <1>3 DEF Collect, Iterates, NextElement
  <2>3. Current \in Enabled(desired) <=> desired[Current] # NoStream
    BY <1>3, CurrentType DEF Collect, Iterates, Enabled, IInv
  <2>4. Dealt' = Dealt
    BY <2>1, <2>2 DEF Dealt, Removable, Enabled, args
  <2>5. /\ enabledNmos = {c.nmos_id : c \in Collected}
        /\ enabledIds = {c.daemon_id : c \in Collected}
        /\ handled = {c.daemon_id : c \in Dealt}
    BY <2>2 DEF IInv, SetsMatch
  <2>6. CASE desired[Current] # NoStream
    BY <2>1, <2>2, <2>3, <2>4, <2>5, <2>6 DEF SetsMatch
  <2>7. CASE desired[Current] = NoStream
    BY <2>1, <2>2, <2>3, <2>4, <2>5, <2>7 DEF SetsMatch
  <2> QED
    BY <2>6, <2>7
<1>4. CASE CollectEnd
  BY <1>1, <1>4, CollectEndPasses DEF CollectEnd
<1>5. CASE VisitDisabled
  <2>1. Visit(FALSE) /\ k <= Len(Vector) /\ Current.side = side
    BY <1>5 DEF VisitDisabled, Visit, Iterates
  <2>2. Current \notin Enabled(desired)
    BY <2>1 DEF Visit, Enabled
  <2>3. OwnedByCurrent <=> Removable(Current)
    BY <2>1, OwnedIsRemovable DEF IInv
  <2> QED
    BY <1>5, <2>1, <2>2, <2>3, VisitHandles DEF VisitDisabled, Handles
<1>6. CASE VisitMissing
  <2>1. Visit(TRUE) /\ Current \in Enabled(desired)
    BY <1>6, VisitPasses DEF VisitMissing, Visit
  <2> QED
    BY <1>6, <2>1, VisitHandles DEF VisitMissing, Handles
<1>7. CASE VisitConflict
  <2>1. Visit(TRUE) /\ Current \in Enabled(desired)
    BY <1>7, VisitPasses DEF VisitConflict, Visit
  <2> QED
    BY <1>7, <2>1, VisitHandles DEF VisitConflict, Handles
<1>8. CASE VisitOwned
  <2>1. Visit(TRUE) /\ Current \in Enabled(desired)
    BY <1>8, VisitPasses DEF VisitOwned, Visit
  <2> QED
    BY <1>8, <2>1, VisitHandles DEF VisitOwned, Handles
<1>9. CASE StreamsEnd
  BY <1>1, <1>9, StreamsEndPasses DEF StreamsEnd
<1>10. ASSUME NEW id \in DaemonIds, Orphan(id)
       PROVE  SetsMatch'
  BY <1>1, <1>10, OrphanPasses DEF Orphan
<1>11. CASE SideEnd
  <2>1. /\ enabledNmos' = {} /\ enabledIds' = {} /\ handled' = {}
        /\ phase' # "done" => Collected' = {} /\ Dealt' = {}
    BY <1>11, SideEndPasses DEF SideEnd
  <2> QED
    BY <2>1 DEF SetsMatch
<1> QED
  BY <1>2, <1>3, <1>4, <1>5, <1>6, <1>7, <1>8, <1>9, <1>10, <1>11 DEF Next

LEMMA TodoStep ==
  ASSUME IInv, Next
  PROVE  TodoMatches'
<1>1. CASE StreamsEnd
  <2>1. /\ todo' = {id \in DaemonIds : state[[side |-> side, id |-> id]] # NoStream}
        /\ state' = state /\ side' = side
    BY <1>1 DEF StreamsEnd, args
  <2> QED
    BY <2>1 DEF TodoMatches
<1>2. ASSUME NEW id \in DaemonIds, Orphan(id)
      PROVE  TodoMatches'
  <2>1. /\ todo' = todo \ {id} /\ state' = state /\ side' = side /\ phase = "orphans"
        /\ id \in todo /\ \A other \in todo : id <= other
    BY <1>2 DEF Orphan, args
  <2>2. todo \subseteq DaemonIds /\ DaemonIds \subseteq Int
    BY ConstantsAssumption DEF IInv, TypeOK
  <2>3. \A other \in todo \ {id} : id < other
    BY <2>1, <2>2
  <2>4. ASSUME NEW j \in DaemonIds \ todo', NEW other \in todo',
               state[[side |-> side, id |-> j]] # NoStream
        PROVE  j < other
    BY <2>1, <2>3, <2>4 DEF IInv, TodoMatches
  <2> QED
    BY <2>1, <2>4 DEF IInv, TodoMatches
<1>3. CASE phase' # "orphans"
  BY <1>3 DEF TodoMatches
<1>4. ASSUME NEW enabled, Visit(enabled)
      PROVE  phase' # "orphans"
  BY <1>4, VisitPasses
<1> QED
  BY <1>1, <1>2, <1>3, <1>4
  DEF Next, OtherSide, Collect, Iterates, NextElement, CollectEnd, SideEnd, VisitDisabled,
      VisitMissing, VisitConflict, VisitOwned

-----------------------------------------------------------------------------
\* The report.

\* A step that passes no stream and no occupied slot plans nothing.
LEMMA ReportStays ==
  ASSUME IInv, UNCHANGED <<args, report>>, Visited' = Visited,
         \A s \in Slot : state[s] # NoStream => (s \in Swept' <=> s \in Swept)
  PROVE  ReportMatches' /\ ReportIsOrdered'
<1>1. desired \in DesiredStreams /\ state \in DaemonState
  BY DEF IInv, TypeOK
<1>2. desired' = desired /\ state' = state /\ ops' = ops /\ errors' = errors
  BY DEF args, report
<1>3. ASSUME NEW o \in PlanOps(desired, state)
      PROVE  Written(o)' <=> Written(o)
  <2>1. o.slot \in Slot
    BY <1>1, OpKey
  <2>2. o \in OrphanOps(desired, state) => state[o.slot] # NoStream
    BY <1>1, OpKey, MineIsPresent
  <2> QED
    BY <1>2, <2>1, <2>2 DEF Written
<1>4. Elements(ops) = {o \in PlanOps(desired, state) : Written(o)}
  BY DEF IInv, ReportMatches
<1>5. Elements(ops') = {o \in PlanOps(desired', state') : Written(o)'}
  BY <1>2, <1>3, <1>4
<1>6. ReportMatches'
  BY <1>2, <1>5 DEF IInv, ReportMatches, Enabled
<1>7. ReportIsOrdered'
  BY <1>2 DEF IInv, ReportIsOrdered
<1> QED
  BY <1>6, <1>7

\* The operations of the streams loop for the element it is at come after all
\* that are in the report.
LEMMA StreamOpIsLast ==
  ASSUME IInv, NEW enabled, Visit(enabled),
         NEW o \in Elements(ops), NEW new \in StreamOps(desired, state, Current)
  PROVE  Before(o, new)
<1>1. /\ TypeOK /\ phase = "streams" /\ k <= Len(Vector)
      /\ Current.side = side /\ Current \in Registry
  BY VisitPasses
<1>2. desired \in DesiredStreams /\ state \in DaemonState /\ side \in Side
  BY <1>1 DEF TypeOK
<1>3. o \in PlanOps(desired, state) /\ Written(o)
  BY DEF IInv, ReportMatches
<1>4. new \in PlanOps(desired, state) \ OrphanOps(desired, state) /\ new.slot = SlotOf(Current)
  BY DEF StreamOps
<1>5. new.orphan = FALSE /\ new.key = Current.uuid /\ new.slot.side = side
  BY <1>1, <1>2, <1>4, OpKey, SlotOfType
<1>6. CASE o \in OrphanOps(desired, state)
  BY <1>1, <1>3, <1>5, <1>6 DEF Written, Swept, Before
<1>7. CASE o \notin OrphanOps(desired, state)
  <2>1. PICK c \in Visited : SlotOf(c) = o.slot
    BY <1>3, <1>7 DEF Written
  <2>2. c \in Registry /\ o.slot.side = c.side
    BY <2>1, SlotOfType DEF Visited
  <2>3. CASE side = "receiver" /\ c.side = "sender"
    BY <1>5, <2>2, <2>3 DEF Before
  <2>4. CASE c.side = side /\ c \in Passed
    <3>1. PICK j \in 1..(k - 1) : Vector[j] = c
      BY <2>4 DEF Passed
    <3>2. j \in 1..Len(Vector) /\ k \in 1..Len(Vector) /\ j < k
      BY <1>1, <3>1, CurrentType, VectorElements
    <3>3. c.uuid < Current.uuid
      BY <1>1, <2>4, <3>1, <3>2, VectorAssumption DEF Current
    <3>4. o.orphan = FALSE /\ o.key = c.uuid
      BY <1>2, <1>3, <1>7, <2>1, <2>2, OpKey
    <3>5. o.key < new.key
      BY <1>5, <3>3, <3>4
    <3>6. o.slot.side = new.slot.side /\ o.orphan = new.orphan
      BY <1>5, <2>2, <2>4, <3>4
    <3> QED
      BY <3>5, <3>6 DEF Before
  <2> QED
    BY <1>1, <2>1, <2>3, <2>4 DEF Visited
<1> QED
  BY <1>6, <1>7

\* So do those of the orphan loop.
LEMMA OrphanOpIsLast ==
  ASSUME IInv, NEW id \in DaemonIds, Orphan(id),
         NEW o \in Elements(ops),
         NEW new \in OrphansAt(desired, state, [side |-> side, id |-> id])
  PROVE  Before(o, new)
<1>1. phase = "orphans" /\ id \in todo
  BY DEF Orphan
<1>2. desired \in DesiredStreams /\ state \in DaemonState /\ side \in Side
  BY DEF IInv, TypeOK
<1>3. o \in PlanOps(desired, state) /\ Written(o)
  BY DEF IInv, ReportMatches
<1>4. new \in OrphanOps(desired, state) /\ new.slot = [side |-> side, id |-> id]
  BY DEF OrphansAt
<1>5. new \in PlanOps(desired, state)
  BY <1>4 DEF PlanOps
<1>6. new.orphan = TRUE /\ new.key = id /\ new.slot.side = side
  <2>1. new.orphan = TRUE
    BY <1>2, <1>4, <1>5, OrphanFlag
  <2>2. new.key = new.slot.id
    BY <1>4 DEF OrphanOps
  <2> QED
    BY <1>4, <2>1, <2>2
<1>7. CASE o \in OrphanOps(desired, state)
  <2>1. /\ o.slot \in Slot /\ o.orphan = TRUE /\ o.key = o.slot.id
        /\ state[o.slot] # NoStream
    BY <1>2, <1>3, <1>7, OpKey, MineIsPresent
  <2>2. o.slot \in Swept
    BY <1>3, <1>7 DEF Written
  <2>3. CASE side = "receiver" /\ o.slot.side = "sender"
    BY <1>6, <2>3 DEF Before
  <2>4. CASE o.slot.side = side /\ o.slot.id \notin todo
    <3>1. o.slot = [side |-> side, id |-> o.slot.id] /\ o.slot.id \in DaemonIds
      BY <2>1, <2>4 DEF Slot
    <3>2. o.slot.id < id
      BY <1>1, <2>1, <2>4, <3>1 DEF IInv, TodoMatches
    <3>3. o.key < new.key /\ o.slot.side = new.slot.side
      BY <1>6, <2>1, <2>4, <3>2
    <3>4. o.orphan = new.orphan
      BY <1>6, <2>1
    <3> QED
      BY <3>3, <3>4 DEF Before
  <2> QED
    BY <1>1, <2>2, <2>3, <2>4 DEF Swept
<1>8. CASE o \notin OrphanOps(desired, state)
  <2>1. PICK c \in Visited : SlotOf(c) = o.slot
    BY <1>3, <1>8 DEF Written
  <2>2. c \in Registry /\ o.slot.side = c.side
    BY <2>1, SlotOfType DEF Visited
  <2>3. o.orphan = FALSE
    BY <1>2, <1>3, <1>8, OrphanFlag
  <2>4. CASE side = "receiver" /\ c.side = "sender"
    BY <1>6, <2>2, <2>4 DEF Before
  <2>5. CASE c.side = side
    BY <1>6, <2>2, <2>3, <2>5 DEF Before
  <2> QED
    BY <1>1, <2>1, <2>4, <2>5 DEF Visited
<1> QED
  BY <1>7, <1>8

\* Passing a configured stream adds the operations for its slot.
LEMMA StreamIsWritten ==
  ASSUME IInv, NEW enabled, Visit(enabled),
         Elements(ops') = Elements(ops) \cup StreamOps(desired, state, Current)
  PROVE  Elements(ops') = {o \in PlanOps(desired, state) : Written(o)'}
<1>1. /\ UNCHANGED args
      /\ Current \in Registry
      /\ Visited' = Visited \cup {Current} /\ Swept' = Swept
  BY VisitPasses
<1>2. ASSUME NEW o \in PlanOps(desired, state)
      PROVE  Written(o)' <=> Written(o) \/ o \in StreamOps(desired, state, Current)
  <2>1. Written(o)' <=>
          \/ o \in OrphanOps(desired, state) /\ o.slot \in Swept
          \/ /\ o \notin OrphanOps(desired, state)
             /\ \E c \in Visited \cup {Current} : SlotOf(c) = o.slot
    BY <1>1 DEF Written, args
  <2>2. o \in StreamOps(desired, state, Current) <=>
          o \notin OrphanOps(desired, state) /\ o.slot = SlotOf(Current)
    BY DEF StreamOps
  <2> QED
    BY <2>1, <2>2 DEF Written
<1>3. Elements(ops) = {o \in PlanOps(desired, state) : Written(o)}
  BY DEF IInv, ReportMatches
<1>4. StreamOps(desired, state, Current) \subseteq PlanOps(desired, state)
  BY DEF StreamOps
<1> QED
  BY <1>2, <1>3, <1>4

\* The conflict of the current stream, if its slot is another's.
LEMMA StreamIsReported ==
  ASSUME IInv, NEW enabled, Visit(enabled),
         Elements(errors') = IF Current \in Enabled(desired) /\ Foreign(state[SlotOf(Current)])
                             THEN Elements(errors) \cup {SlotOf(Current)}
                             ELSE Elements(errors)
  PROVE  Elements(errors') =
           {SlotOf(c) : c \in {c \in Visited' \cap Enabled(desired) :
                                 Foreign(state[SlotOf(c)])}}
<1>1. Visited' = Visited \cup {Current}
  BY VisitPasses
<1> DEFINE In(V) == {c \in V \cap Enabled(desired) : Foreign(state[SlotOf(c)])}
<1>2. Elements(errors) = {SlotOf(c) : c \in In(Visited)}
  BY DEF IInv, ReportMatches
<1>3. CASE Current \in Enabled(desired) /\ Foreign(state[SlotOf(Current)])
  <2>1. In(Visited') = In(Visited) \cup {Current}
    BY <1>1, <1>3
  <2> QED
    BY <1>2, <1>3, <2>1
<1>4. CASE ~(Current \in Enabled(desired) /\ Foreign(state[SlotOf(Current)]))
  <2>1. In(Visited') = In(Visited)
    BY <1>1, <1>4
  <2> QED
    BY <1>2, <1>4, <2>1
<1> QED
  BY <1>3, <1>4

\* The ids in handled_ids are those of the slots the streams loop handled.
LEMMA HandledMatches ==
  ASSUME IInv, phase = "orphans", NEW id \in DaemonIds
  PROVE  id \in handled <=> [side |-> side, id |-> id] \in Handled(desired, state)
<1> DEFINE slot == [side |-> side, id |-> id]
<1>1. handled = {c.daemon_id : c \in Dealt}
  BY DEF IInv, SetsMatch
<1>2. \A c : c \in Dealt <=> /\ c \in Registry /\ c.side = side
                             /\ c \in Enabled(desired) \/ Removable(c)
  BY DEF Dealt, Visited
<1>3. \A c \in Registry : SlotOf(c) = slot <=> c.side = side /\ c.daemon_id = id
  BY DEF SlotOf
<1>4. slot \in Handled(desired, state) <=>
        \E c \in Registry : SlotOf(c) = slot /\ (c \in Enabled(desired) \/ Removable(c))
  <2>1. \A o \in RemoveOps(desired, state) :
          \E c \in Registry : o.slot = SlotOf(c) /\ Removable(c)
    BY DEF RemoveOps, LoopOp, Removable
  <2>2. ASSUME NEW c \in Registry, Removable(c), c \notin Enabled(desired)
        PROVE  \E o \in RemoveOps(desired, state) : o.slot = SlotOf(c)
    <3>1. LoopOp("remove", c, NoStream, state) \in RemoveOps(desired, state)
      BY <2>2 DEF RemoveOps, Removable
    <3>2. LoopOp("remove", c, NoStream, state).slot = SlotOf(c)
      BY DEF LoopOp
    <3> QED
      BY <3>1, <3>2
  <2>3. Enabled(desired) \subseteq Registry
    BY DEF Enabled
  <2> HIDE DEF slot
  <2> QED
    BY <2>1, <2>2, <2>3 DEF Handled
<1> HIDE DEF slot
<1>5. id \in handled <=> \E c \in Registry : /\ c.side = side /\ c.daemon_id = id
                                             /\ c \in Enabled(desired) \/ Removable(c)
  BY <1>1, <1>2
<1>6. id \in handled <=> slot \in Handled(desired, state)
  BY <1>3, <1>4, <1>5
<1> QED
  BY <1>6 DEF slot

\* The `wanted` test of the loop asks what Wanted says.
LEMMA WantedMatches ==
  ASSUME IInv, phase = "orphans", NEW id \in DaemonIds, NEW st
  PROVE  StillWanted(id, st) <=> Wanted(desired, [side |-> side, id |-> id], st.owner)
<1> DEFINE slot == [side |-> side, id |-> id]
<1>1. /\ enabledNmos = {c.nmos_id : c \in Collected}
      /\ enabledIds = {c.daemon_id : c \in Collected}
  BY DEF IInv, SetsMatch
<1>2. \A c : c \in Collected <=> c \in Enabled(desired) /\ c.side = side
  BY DEF Collected
<1>3. slot.side = side /\ \A c : SlotOf(c) = slot <=> c.side = side /\ c.daemon_id = id
  BY DEF SlotOf
<1> HIDE DEF slot
<1>4. st.owner.nmos_id \in enabledNmos <=>
        \E c \in Enabled(desired) : c.side = slot.side /\ c.nmos_id = st.owner.nmos_id
  BY <1>1, <1>2, <1>3
<1>5. id \in enabledIds <=> \E c \in Enabled(desired) : SlotOf(c) = slot
  BY <1>1, <1>2, <1>3
<1> QED
  BY <1>4, <1>5 DEF StillWanted, Wanted, slot

\* Visiting a slot adds its orphan removal to the report.
LEMMA OrphanIsWritten ==
  ASSUME IInv, NEW id \in DaemonIds, Orphan(id)
  PROVE  LET slot == [side |-> side, id |-> id]
             op == [action |-> "remove", slot |-> slot, put |-> NoStream,
                    saw |-> state[slot], orphan |-> TRUE, key |-> id]
         IN \/ ops' = Append(ops, op) /\ OrphansAt(desired, state, slot) = {op}
            \/ ops' = ops /\ OrphansAt(desired, state, slot) = {}
<1> DEFINE slot == [side |-> side, id |-> id]
           op == [action |-> "remove", slot |-> slot, put |-> NoStream,
                  saw |-> state[slot], orphan |-> TRUE, key |-> id]
           Due == /\ slot \notin Handled(desired, state)
                  /\ Mine(state[slot])
                  /\ state[slot].owner.side = side
                  /\ ~Wanted(desired, slot, state[slot].owner)
<1>1. phase = "orphans"
  BY DEF Orphan
<1>2. slot \in Slot /\ slot.side = side /\ slot.id = id
  BY DEF IInv, TypeOK, Slot
<1>3. id \in handled <=> slot \in Handled(desired, state)
  BY <1>1, HandledMatches
<1>4. StillWanted(id, state[slot]) <=> Wanted(desired, slot, state[slot].owner)
  BY <1>1, WantedMatches
<1>5. IF id \notin handled /\ Mine(state[slot]) /\ state[slot].owner.side = side
         /\ ~StillWanted(id, state[slot])
      THEN ops' = Append(ops, op) ELSE ops' = ops
  BY DEF Orphan, Plans
<1>6. \A o : o \in OrphansAt(desired, state, slot) <=> Due /\ o = op
  <2>1. \A o : o \in OrphanOps(desired, state) <=>
          \E s \in Slot :
            /\ s \notin Handled(desired, state)
            /\ Mine(state[s])
            /\ state[s].owner.side = s.side
            /\ ~Wanted(desired, s, state[s].owner)
            /\ o = [action |-> "remove", slot |-> s, put |-> NoStream, saw |-> state[s],
                    orphan |-> TRUE, key |-> s.id]
    BY DEF OrphanOps
  <2>2. op.slot = slot
    OBVIOUS
  <2>3. ASSUME NEW o, o \in OrphansAt(desired, state, slot)
        PROVE  Due /\ o = op
    <3>1. o \in OrphanOps(desired, state) /\ o.slot = slot
      BY <2>3 DEF OrphansAt
    <3>2. PICK s \in Slot :
            /\ s \notin Handled(desired, state)
            /\ Mine(state[s])
            /\ state[s].owner.side = s.side
            /\ ~Wanted(desired, s, state[s].owner)
            /\ o = [action |-> "remove", slot |-> s, put |-> NoStream, saw |-> state[s],
                    orphan |-> TRUE, key |-> s.id]
      BY <2>1, <3>1
    <3>3. s = slot
      BY <3>1, <3>2
    <3> QED
      BY <1>2, <3>2, <3>3
  <2>4. ASSUME Due
        PROVE  op \in OrphansAt(desired, state, slot)
    <3>1. op \in OrphanOps(desired, state)
      BY <1>2, <2>4 DEF OrphanOps
    <3> QED
      BY <2>2, <3>1 DEF OrphansAt
  <2> QED
    BY <2>3, <2>4
<1> HIDE DEF slot, op
<1>7. CASE Due
  <2>1. ops' = Append(ops, op)
    BY <1>3, <1>4, <1>5, <1>7
  <2>2. OrphansAt(desired, state, slot) = {op}
    BY <1>6, <1>7
  <2> QED
    BY <2>1, <2>2 DEF slot, op
<1>8. CASE ~Due
  <2>1. ops' = ops
    BY <1>3, <1>4, <1>5, <1>8
  <2>2. OrphansAt(desired, state, slot) = {}
    BY <1>6, <1>8
  <2> QED
    BY <2>1, <2>2 DEF slot, op
<1> QED
  BY <1>7, <1>8

\* What the next iteration adds to report.ops, if it comes last.
LEMMA ReportAppends ==
  ASSUME IInv, NEW New, New \subseteq PlanOps(desired, state),
         \/ New = {} /\ ops' = ops
         \/ \E op \in New : New = {op} /\ ops' = Append(ops, op),
         \A o \in Elements(ops) : \A new \in New : Before(o, new)
  PROVE  Elements(ops') = Elements(ops) \cup New /\ ReportIsOrdered'
<1>1. ops \in Seq(PlannedOp) /\ desired \in DesiredStreams /\ state \in DaemonState
  BY DEF IInv, TypeOK
<1>2. New \subseteq PlannedOp
  BY <1>1, PlanOpsType
<1>3. CASE New = {} /\ ops' = ops
  BY <1>3 DEF IInv, ReportIsOrdered
<1>4. ASSUME NEW op \in New, New = {op}, ops' = Append(ops, op)
      PROVE  Elements(ops') = Elements(ops) \cup New /\ ReportIsOrdered'
  <2>1. Elements(ops') = Elements(ops) \cup New
    BY <1>1, <1>2, <1>4, ElementsOfAppend
  <2>2. \A i, j \in 1..Len(ops) : i < j => Before(ops[i], ops[j])
    BY DEF IInv, ReportIsOrdered
  <2>3. ReportIsOrdered'
    BY <1>1, <1>2, <1>4, <2>2, OrderedAppend DEF ReportIsOrdered
  <2> QED
    BY <2>1, <2>3
<1> QED
  BY <1>3, <1>4

LEMMA VisitStep ==
  ASSUME IInv, NEW enabled, Visit(enabled),
         LET Now == StreamOps(desired, state, Current)
         IN \/ Now = {} /\ ops' = ops
            \/ \E op \in Now : Now = {op} /\ ops' = Append(ops, op),
         Elements(errors') = IF Current \in Enabled(desired) /\ Foreign(state[SlotOf(Current)])
                             THEN Elements(errors) \cup {SlotOf(Current)}
                             ELSE Elements(errors)
  PROVE  ReportMatches' /\ ReportIsOrdered'
<1> DEFINE Now == StreamOps(desired, state, Current)
<1>1. Now \subseteq PlanOps(desired, state)
  BY DEF StreamOps
<1>2. \A o \in Elements(ops) : \A new \in Now : Before(o, new)
  BY StreamOpIsLast
<1>3. \/ Now = {} /\ ops' = ops
      \/ \E op \in Now : Now = {op} /\ ops' = Append(ops, op)
  OBVIOUS
<1> HIDE DEF Now
<1>4. Elements(ops') = Elements(ops) \cup Now /\ ReportIsOrdered'
  BY <1>1, <1>2, <1>3, ReportAppends
<1>5. Elements(ops') = {o \in PlanOps(desired, state) : Written(o)'}
  BY <1>4, StreamIsWritten DEF Now
<1>6. Elements(errors') =
        {SlotOf(c) : c \in {c \in Visited' \cap Enabled(desired) :
                              Foreign(state[SlotOf(c)])}}
  BY StreamIsReported
<1>7. desired' = desired /\ state' = state
  BY VisitPasses DEF args
<1>8. ReportMatches'
  BY <1>5, <1>6, <1>7 DEF ReportMatches
<1> QED
  BY <1>4, <1>8

LEMMA ReportStep ==
  ASSUME IInv, Next
  PROVE  ReportMatches' /\ ReportIsOrdered'
<1>1. TypeOK /\ desired \in DesiredStreams /\ state \in DaemonState
  BY DEF IInv, TypeOK
<1>2. ASSUME NEW enabled, Visit(enabled)
      PROVE  /\ k <= Len(Vector) /\ Current.side = side /\ Current \in Registry
             /\ Current \in Enabled(desired) <=> desired[Current] # NoStream
             /\ Existing = state[SlotOf(Current)]
  BY <1>2, VisitPasses DEF Existing
<1>3. CASE OtherSide
  BY <1>3, OtherSidePasses, ReportStays DEF OtherSide
<1>4. CASE Collect
  BY <1>4, CollectPasses, ReportStays DEF Collect
<1>5. CASE CollectEnd
  BY <1>5, CollectEndPasses, ReportStays DEF CollectEnd
<1>6. CASE VisitDisabled
  <2>1. Visit(FALSE) /\ Current \notin Enabled(desired) /\ errors' = errors
    BY <1>6, <1>2 DEF VisitDisabled, Visit
  <2>2. OwnedByCurrent <=> Removable(Current)
    BY <1>1, <1>2, <2>1, OwnedIsRemovable
  <2>3. CASE Removable(Current)
    <3>1. StreamOps(desired, state, Current) = {LoopOp("remove", Current, NoStream, state)}
      BY <1>1, <1>2, <2>1, <2>3, StreamOpsCases DEF Removable
    <3>2. ops' = Append(ops, LoopOp("remove", Current, NoStream, state))
      BY <1>6, <2>2, <2>3 DEF VisitDisabled, Plans
    <3> QED
      BY <2>1, <3>1, <3>2, VisitStep
  <2>4. CASE ~Removable(Current)
    <3>1. StreamOps(desired, state, Current) = {}
      BY <1>1, <1>2, <2>1, <2>4, StreamOpsCases DEF Removable
    <3>2. ops' = ops
      BY <1>6, <2>2, <2>4 DEF VisitDisabled
    <3> QED
      BY <2>1, <3>1, <3>2, VisitStep
  <2> QED
    BY <2>3, <2>4
<1>7. CASE VisitMissing
  <2>1. Visit(TRUE) /\ Current \in Enabled(desired) /\ Existing = NoStream /\ errors' = errors
    BY <1>7, <1>2 DEF VisitMissing, Visit
  <2>2. StreamOps(desired, state, Current) =
          {LoopOp("create", Current, desired[Current], state)}
    BY <1>1, <1>2, <2>1, StreamOpsCases
  <2>3. ops' = Append(ops, LoopOp("create", Current, desired[Current], state))
    BY <1>7 DEF VisitMissing, Plans
  <2>4. ~Foreign(state[SlotOf(Current)])
    BY <1>2, <2>1 DEF Foreign
  <2> QED
    BY <2>1, <2>2, <2>3, <2>4, VisitStep
<1>8. CASE VisitConflict
  <2>1. Visit(TRUE) /\ Current \in Enabled(desired) /\ Foreign(Existing) /\ ops' = ops
    BY <1>8, <1>2 DEF VisitConflict, Visit
  <2>2. Foreign(state[SlotOf(Current)])
    BY <1>2, <2>1
  <2>3. StreamOps(desired, state, Current) = {}
    <3>1. state[SlotOf(Current)] # NoStream /\ ~Mine(state[SlotOf(Current)])
      BY <2>2 DEF Foreign
    <3> QED
      BY <1>1, <1>2, <2>1, <3>1, StreamOpsCases, Zenon
  <2>4. Elements(errors') = Elements(errors) \cup {SlotOf(Current)}
    <3>1. errors \in Seq(Slot) /\ SlotOf(Current) \in Slot
      BY <1>1, <1>2, <2>1, CurrentType DEF TypeOK
    <3>2. errors' = Append(errors, SlotOf(Current))
      BY <1>8 DEF VisitConflict
    <3> QED
      BY <3>1, <3>2, ElementsOfAppend
  <2> QED
    BY <2>1, <2>2, <2>3, <2>4, VisitStep
<1>9. CASE VisitOwned
  <2>1. Visit(TRUE) /\ Current \in Enabled(desired) /\ Mine(Existing) /\ errors' = errors
    BY <1>9, <1>2 DEF VisitOwned, Visit
  <2>2. ~Foreign(state[SlotOf(Current)]) /\ state[SlotOf(Current)] # NoStream
    BY <1>2, <2>1 DEF Foreign, Mine
  <2>3. CASE Drifted(Existing, desired[Current])
    <3>1. StreamOps(desired, state, Current) =
            {LoopOp("update", Current, desired[Current], state)}
      <4>1. Mine(state[SlotOf(Current)]) /\ Drifted(state[SlotOf(Current)], desired[Current])
        BY <2>1, <2>3 DEF Existing
      <4> QED
        BY <1>1, <1>2, <2>1, <4>1, StreamOpsCases, Zenon
    <3>2. ops' = Append(ops, LoopOp("update", Current, desired[Current], state))
      BY <1>9, <2>3 DEF VisitOwned, Plans
    <3> QED
      BY <2>1, <2>2, <3>1, <3>2, VisitStep
  <2>4. CASE ~Drifted(Existing, desired[Current])
    <3>1. StreamOps(desired, state, Current) = {}
      <4>1. ~Drifted(state[SlotOf(Current)], desired[Current])
        BY <2>4 DEF Existing
      <4> QED
        BY <1>1, <1>2, <2>1, <2>2, <4>1, StreamOpsCases, Zenon
    <3>2. ops' = ops
      BY <1>9, <2>4 DEF VisitOwned
    <3> QED
      BY <2>1, <2>2, <3>1, <3>2, VisitStep
  <2> QED
    BY <2>3, <2>4
<1>10. CASE StreamsEnd
  BY <1>10, StreamsEndPasses, ReportStays DEF StreamsEnd
<1>11. ASSUME NEW id \in DaemonIds, Orphan(id)
       PROVE  ReportMatches' /\ ReportIsOrdered'
  <2> DEFINE slot == [side |-> side, id |-> id]
             Now == OrphansAt(desired, state, slot)
  <2>1. /\ UNCHANGED args /\ Visited' = Visited /\ Swept' = Swept \cup {slot}
        /\ errors' = errors
    BY <1>11, OrphanPasses DEF Orphan
  <2>2. \/ Now = {} /\ ops' = ops
        \/ \E op \in Now : Now = {op} /\ ops' = Append(ops, op)
    BY <1>11, OrphanIsWritten
  <2>3. \A o \in Elements(ops) : \A new \in Now : Before(o, new)
    BY <1>11, OrphanOpIsLast
  <2>4. Now \subseteq PlanOps(desired, state)
    BY DEF OrphansAt, PlanOps
  <2> HIDE DEF Now
  <2>5. Elements(ops') = Elements(ops) \cup Now /\ ReportIsOrdered'
    BY <2>2, <2>3, <2>4, ReportAppends
  <2> HIDE DEF slot
  <2>6. ASSUME NEW o \in PlanOps(desired, state)
        PROVE  Written(o)' <=> Written(o) \/ o \in Now
    BY <2>1 DEF Written, Now, OrphansAt, args
  <2>7. Elements(ops') = {o \in PlanOps(desired, state) : Written(o)'}
    BY <2>4, <2>5, <2>6 DEF IInv, ReportMatches
  <2>8. ReportMatches'
    BY <2>1, <2>7 DEF IInv, ReportMatches, args
  <2> QED
    BY <2>5, <2>8
<1>12. CASE SideEnd
  BY <1>12, SideEndPasses, ReportStays DEF SideEnd
<1> QED
  BY <1>3, <1>4, <1>5, <1>6, <1>7, <1>8, <1>9, <1>10, <1>11, <1>12 DEF Next

-----------------------------------------------------------------------------
LEMMA LoopInit == Init => IInv
<1> SUFFICES ASSUME Init PROVE IInv
  OBVIOUS
<1> USE DEF Init
<1>1. /\ side = "sender" /\ phase = "collect" /\ k = 1 /\ todo = {}
      /\ ops = <<>> /\ errors = <<>>
  OBVIOUS
<1>2. \A c \in Registry : desired[c] \in Payloads(c)
  OBVIOUS
<1>3. \A c \in Registry : Payloads(c) \subseteq DaemonStream \cup {NoStream}
  BY RegistryAssumption, ConstantsAssumption DEF Payloads, MakePayload, DaemonStream, StreamConfig
<1>4. desired \in DesiredStreams
  BY <1>2, <1>3 DEF DesiredStreams
<1>5. state \in DaemonState
  BY ContentsAssumption DEF DaemonState
<1>6. TypeOK
  BY <1>4, <1>5, VectorElements DEF TypeOK, Side
<1>7. InputOK
  BY <1>1, <1>2 DEF InputOK
<1>8. Passed = {} /\ Collected = {} /\ Visited = {} /\ Swept = {} /\ Dealt = {}
  <2>1. Passed = {}
    BY <1>1 DEF Passed
  <2>2. Collected = {} /\ Visited = {} /\ Swept = {}
    BY <1>1, <2>1 DEF Collected, Visited, Swept
  <2> QED
    BY <2>1, <2>2 DEF Dealt
<1>9. SetsMatch
  BY <1>8 DEF SetsMatch
<1>10. TodoMatches
  BY <1>1 DEF TodoMatches
<1>11. Len(ops) = 0 /\ Len(errors) = 0
  BY <1>1
<1>12. Elements(ops) = {} /\ Elements(errors) = {}
  BY <1>11 DEF Elements
<1>13. ReportMatches
  BY <1>8, <1>12 DEF ReportMatches, Written
<1>14. ReportIsOrdered
  BY <1>11 DEF ReportIsOrdered
<1> QED
  BY <1>6, <1>7, <1>9, <1>10, <1>13, <1>14 DEF IInv

\* A step that changes nothing.
LEMMA LoopStutters ==
  ASSUME IInv, UNCHANGED vars
  PROVE  IInv'
<1>1. UNCHANGED <<args, report, loop, enabledNmos, enabledIds, handled>>
  BY DEF vars, args, report, loop
<1>2. Passed' = Passed
  BY <1>1 DEF loop, Passed
<1>3. Collected' = Collected /\ Visited' = Visited /\ Swept' = Swept /\ Dealt' = Dealt
  BY <1>1, <1>2 DEF loop, args, Collected, Visited, Swept, Dealt, Enabled, Removable
<1>4. TypeOK'
  BY <1>1 DEF IInv, TypeOK, loop, args, report
<1>5. InputOK' /\ TodoMatches'
  BY <1>1 DEF IInv, InputOK, TodoMatches, loop, args, Payloads
<1>6. SetsMatch'
  BY <1>1, <1>3 DEF IInv, SetsMatch, loop
<1>7. ReportMatches' /\ ReportIsOrdered'
  BY <1>1, <1>3, ReportStays
<1> QED
  BY <1>4, <1>5, <1>6, <1>7 DEF IInv

(***************************************************************************)
(* Every step of the loops preserves the loop invariant.                   *)
(***************************************************************************)
THEOREM LoopInvariant == Spec => []IInv
<1>1. ASSUME IInv, [Next]_vars
      PROVE  IInv'
  <2>1. CASE Next
    <3>1. TypeOK'
      BY <1>1, <2>1, TypeStep DEF IInv
    <3> QED
      BY <1>1, <2>1, <3>1, InputStep, SetsStep, TodoStep, ReportStep DEF IInv
  <2>2. CASE UNCHANGED vars
    BY <1>1, <2>2, LoopStutters
  <2> QED
    BY <1>1, <2>1, <2>2
<1> QED
  BY <1>1, LoopInit, PTL DEF Spec

(***************************************************************************)
(* The variables of plan keep to their types.                              *)
(***************************************************************************)
THEOREM LoopTypeCorrect == Spec => []TypeOK
<1>1. IInv => TypeOK
  BY DEF IInv
<1> QED
  BY <1>1, LoopInvariant, PTL

-----------------------------------------------------------------------------
\* At the end of the loops the report is the plan.
LEMMA LoopsMatch == IInv => LoopsMatchSets
<1> SUFFICES ASSUME IInv, phase = "done" PROVE
               /\ Elements(ops) = PlanOps(desired, state)
               /\ Elements(errors) = PlanErrors(desired, state)
               /\ \A i, j \in 1..Len(ops) : i < j => Before(ops[i], ops[j])
  BY DEF LoopsMatchSets
<1>1. desired \in DesiredStreams /\ state \in DaemonState
  BY DEF IInv, TypeOK
<1>2. Visited = Registry /\ Swept = Slot
  BY DEF Visited, Swept
<1>3. ASSUME NEW o \in PlanOps(desired, state)
      PROVE  Written(o)
  <2>1. o.slot \in Slot
    BY <1>1, OpKey
  <2>2. CASE o \in OrphanOps(desired, state)
    BY <1>2, <2>1, <2>2 DEF Written
  <2>3. CASE o \notin OrphanOps(desired, state)
    <3>1. PICK c \in Registry : o.slot = SlotOf(c)
      BY <1>1, <2>3, LoopOpOrigin DEF LoopOp
    <3> QED
      BY <1>2, <2>3, <3>1 DEF Written
  <2> QED
    BY <2>2, <2>3
<1>4. Elements(ops) = PlanOps(desired, state)
  BY <1>3 DEF IInv, ReportMatches
<1>5. Elements(errors) = PlanErrors(desired, state)
  BY <1>2 DEF IInv, ReportMatches, PlanErrors, Enabled
<1> QED
  BY <1>4, <1>5 DEF IInv, ReportIsOrdered

(***************************************************************************)
(* The loops of Reconciler::plan compute the sets of operations and of     *)
(* conflicts of ReconcilerPlan, and list the operations in the order the   *)
(* other modules apply them in.                                            *)
(***************************************************************************)
THEOREM LoopsComputeSets == Spec => []LoopsMatchSets
BY LoopInvariant, LoopsMatch, PTL

(***************************************************************************)
(* The loops plan one write for every slot that is not as intended and     *)
(* that the bridge may write, and none for any other.                      *)
(***************************************************************************)
THEOREM LoopsMakeJustifiedWrites == Spec => []PlanIsJustified
<1>1. IInv => PlanIsJustified
  <2> SUFFICES ASSUME IInv, phase = "done"
               PROVE  {RequestOf(o) : o \in Elements(ops)} = Justified(desired, state)
    BY DEF PlanIsJustified
  <2>1. Elements(ops) = PlanOps(desired, state)
    BY LoopsMatch DEF LoopsMatchSets
  <2> QED
    BY <2>1, PlanMakesJustifiedWrites DEF IInv, TypeOK
<1> QED
  BY <1>1, LoopInvariant, PTL

\* An enabled stream is then marked as what it is.
LEMMA EnabledIsMarked ==
  ASSUME MarkersReadBack, IInv, NEW c \in Enabled(desired)
  PROVE  /\ desired[c].owner = [ns |-> Ns, side |-> c.side, nmos_id |-> c.nmos_id]
         /\ Mine(desired[c])
<1>1. c \in Registry /\ desired[c] # NoStream
  BY DEF Enabled
<1>2. PICK t \in Targets : desired[c] = MakePayload(c, t)
  BY <1>1 DEF IInv, InputOK, Payloads
<1>3. desired[c].owner = [ns |-> Ns, side |-> c.side, nmos_id |-> c.nmos_id]
  BY <1>1, <1>2 DEF MakePayload, MarkersReadBack
<1>4. c.side \in Side /\ c.nmos_id \in NmosIds
  BY <1>1, RegistryAssumption DEF StreamConfig
<1>5. desired[c].owner \in Ownership
  BY <1>3, <1>4, ConstantsAssumption DEF Ownership
<1> QED
  BY <1>1, <1>3, <1>5, ConstantsAssumption DEF Mine

(***************************************************************************)
(* A pass that is carried out leaves nothing for the next one to do, which *)
(* reports the same conflicts.                                             *)
(***************************************************************************)
THEOREM OnePassIsEnough ==
  ASSUME MarkersReadBack
  PROVE  Spec => []SecondPassIsEmpty
<1>1. IInv => SecondPassIsEmpty
  <2> SUFFICES ASSUME IInv PROVE SecondPassIsEmpty
    OBVIOUS
  <2>1. desired \in DesiredStreams /\ state \in DaemonState
    BY DEF IInv, TypeOK
  <2>2. \A c \in Enabled(desired) : Mine(desired[c])
    BY EnabledIsMarked
  <2> QED
    BY <2>1, <2>2, CarriedOutPlanIsFinal, CarriedOutPlanKeepsConflicts DEF SecondPassIsEmpty
<1> QED
  BY <1>1, LoopInvariant, PTL

(***************************************************************************)
(* After the operations of the report no marker of this bridge is on two   *)
(* slots of its side, whatever the daemon held before.                     *)
(***************************************************************************)
THEOREM NoMarkerIsLeftTwice ==
  ASSUME MarkersReadBack
  PROVE  Spec => []OneStreamPerMarker
<1>1. IInv => OneStreamPerMarker
  <2> DEFINE Carried(s) == {o \in Elements(ops) : o.slot = s}
             after == [s \in Slot |-> IF Carried(s) = {} THEN state[s]
                                      ELSE Applied(CHOOSE o \in Carried(s) : TRUE)]
             Marked(s) == Mine(after[s]) /\ after[s].owner.side = s.side
  <2> SUFFICES ASSUME IInv, phase = "done", NEW s \in Slot, NEW t \in Slot,
                      Marked(s), Marked(t), after[s].owner = after[t].owner
               PROVE  s = t
    BY Zenon DEF OneStreamPerMarker
  <2>1. desired \in DesiredStreams /\ state \in DaemonState
    BY DEF IInv, TypeOK
  <2>2. Elements(ops) = PlanOps(desired, state)
    BY LoopsMatch DEF LoopsMatchSets
  <2>3. ASSUME NEW u \in Slot, Marked(u)
        PROVE  \E c \in Enabled(desired) : SlotOf(c) = u /\ after[u] = desired[c]
    <3>1. after[u] = Intended(desired, u)
      <4>1. CASE Carried(u) = {}
        <5>1. after[u] = state[u]
          BY <4>1
        <5>2. ~ \E o \in PlanOps(desired, state) : o.slot = u
          BY <2>2, <4>1
        <5>3. ~(state[u] # Intended(desired, u) /\ MayWrite(u, state[u], Intended(desired, u)))
          BY <2>1, <5>2, JustifiedIsPlanned
        <5>4. Mine(state[u]) /\ state[u].owner.side = u.side
          BY <2>3, <5>1
        <5> QED
          BY <5>1, <5>3, <5>4 DEF MayWrite
      <4>2. CASE Carried(u) # {}
        <5> DEFINE o == CHOOSE o \in Carried(u) : TRUE
        <5>1. o \in Carried(u)
          BY <4>2
        <5>2. o \in PlanOps(desired, state) /\ o.slot = u
          BY <2>2, <5>1
        <5>3. after[u] = Applied(o)
          BY <4>2
        <5> HIDE DEF o, after
        <5> QED
          BY <2>1, <5>2, <5>3, PlannedIsJustified DEF Justified, RequestOf
      <4> QED
        BY <4>1, <4>2
    <3>2. after[u] # NoStream
      BY <2>3 DEF Mine
    <3> HIDE DEF after
    <3>3. PICK c \in Enabled(desired) : SlotOf(c) = u
      BY <3>1, <3>2, IntendedOfOthers
    <3> QED
      BY <2>1, <3>1, <3>3, IntendedOfEnabled
  <2>4. PICK c \in Enabled(desired) : SlotOf(c) = s /\ after[s] = desired[c]
    BY <2>3
  <2>5. PICK d \in Enabled(desired) : SlotOf(d) = t /\ after[t] = desired[d]
    BY <2>3
  <2> HIDE DEF after
  <2>6. /\ desired[c].owner = [ns |-> Ns, side |-> c.side, nmos_id |-> c.nmos_id]
        /\ desired[d].owner = [ns |-> Ns, side |-> d.side, nmos_id |-> d.nmos_id]
    BY EnabledIsMarked
  <2>7. c.side = d.side /\ c.nmos_id = d.nmos_id
    BY <2>4, <2>5, <2>6
  <2>8. c = d
    BY <2>7, RegistryAssumption DEF UniqueConfig, Enabled
  <2> QED
    BY <2>4, <2>5, <2>8
<1> QED
  BY <1>1, LoopInvariant, PTL
=============================================================================
