----------------------- MODULE DaemonReconcilerProofs -----------------------
(***************************************************************************)
(* What holds of the bridge process for every registry, every environment  *)
(* and any number of requests in flight.                                   *)
(***************************************************************************)
EXTENDS DaemonReconciler, ReconcilerPlanProofs

-----------------------------------------------------------------------------
\* The operators keep to their types.

\* active_destination_ip returns a target, or none.
LEMMA EffectiveTargetType ==
  ASSUME NEW c \in Registry, NEW e \in Endpoint
  PROVE  EffectiveTarget(c, e) \in Targets \cup {NoTarget}
BY RegistryAssumption DEF EffectiveTarget, Endpoint, StreamConfig

\* insert_node_resources creates endpoints.
LEMMA InitialEndpointType ==
  ASSUME NEW c \in Registry
  PROVE  InitialEndpoint(c) \in Endpoint
BY RegistryAssumption DEF InitialEndpoint, Endpoint, StreamConfig

\* The auto resolver turns endpoints into endpoints.
LEMMA ResolveAutoType ==
  ASSUME NEW c \in Registry, NEW e \in Endpoint
  PROVE  ResolveAuto(c, e) \in Endpoint
<1>1. c.address \in Targets \cup {NoTarget}
  BY RegistryAssumption DEF StreamConfig
<1> QED
  BY <1>1 DEF ResolveAuto, Endpoint

\* The desired stream of a configured one is absent, or a stream with the
\* configured marker.
LEMMA DesiredStreamType ==
  ASSUME NEW c \in Registry, NEW e \in Endpoint \cup {NoResource}
  PROVE  /\ DesiredStream(c, e) \in DaemonStream \cup {NoStream}
         /\ DesiredStream(c, e) # NoStream => DesiredStream(c, e).owner = c.marker
<1>1. CASE e # NoResource /\ StreamEnabled(c, e)
  <2>1. e \in Endpoint
    BY <1>1
  <2>2. EffectiveTarget(c, e) \in Bodies
    BY <1>1, <2>1, EffectiveTargetType, ConstantsAssumption DEF StreamEnabled
  <2>3. c.marker \in Ownership \cup {Unmanaged}
    BY RegistryAssumption DEF StreamConfig
  <2>4. DesiredStream(c, e) = [owner |-> c.marker, body |-> EffectiveTarget(c, e)]
    BY <1>1 DEF DesiredStream, MakePayload
  <2> QED
    BY <2>2, <2>3, <2>4 DEF DaemonStream
<1>2. CASE ~(e # NoResource /\ StreamEnabled(c, e))
  BY <1>2 DEF DesiredStream
<1> QED
  BY <1>1, <1>2

\* build_desired_locked returns desired streams, marked as configured.
LEMMA BuildDesiredType ==
  ASSUME NEW act \in [Registry -> Endpoint \cup {NoResource}]
  PROVE  /\ BuildDesired(act) \in DesiredStreams
         /\ \A c \in Registry :
              BuildDesired(act)[c] # NoStream => BuildDesired(act)[c].owner = c.marker
BY DesiredStreamType DEF BuildDesired, DesiredStreams

\* An operation makes a request, and leaves a stream or nothing in its slot.
LEMMA AppliedType ==
  ASSUME NEW o \in PlannedOp
  PROVE  Applied(o) \in DaemonStream \cup {NoStream} /\ RequestOf(o) \in Request
BY DEF PlannedOp, Applied, RequestOf, Request

-----------------------------------------------------------------------------
(***************************************************************************)
(* The inductive invariant.  FailClosed and PassIsConsistent speak of the  *)
(* operations left over; what makes them hold is where these come from:    *)
(* one plan, made from the desired streams of this very pass and from one  *)
(* state of the daemon, which may be gone by now.                          *)
(***************************************************************************)
DesiredIsMarked ==
  \A c \in Registry : desired[c] # NoStream => desired[c].owner = c.marker

OpsComeFromOnePlan ==
  \/ /\ pc = "apply"
     /\ \E st \in DaemonState : /\ ops \subseteq PlanOps(desired, st)
                                /\ errors = PlanErrors(desired, st)
  \/ pc # "apply" /\ ops = {} /\ errors = {}

LateIsWithinBounds == \A r \in late : WithinBounds(r)

IInv ==
  /\ TypeOK
  /\ DesiredIsMarked
  /\ OpsComeFromOnePlan
  /\ LateIsWithinBounds

\* Every request of a plan for marked streams is within bounds.
LEMMA PlansAreWithinBounds ==
  ASSUME NEW des \in DesiredStreams, NEW st \in DaemonState,
         \A c \in Registry : des[c] # NoStream => des[c].owner = c.marker,
         NEW o \in PlanOps(des, st)
  PROVE  WithinBounds(RequestOf(o))
<1>1. /\ o.saw = st[o.slot]
      /\ Applied(o) = Intended(des, o.slot)
      /\ MayWrite(o.slot, st[o.slot], Intended(des, o.slot))
  BY PlannedIsJustified DEF Justified, RequestOf
<1>2. ASSUME Applied(o) # NoStream
      PROVE  \E c \in Registry : SlotOf(c) = o.slot /\ Applied(o).owner = c.marker
  <2>1. PICK c \in Enabled(des) : SlotOf(c) = o.slot
    BY <1>1, <1>2, IntendedOfOthers
  <2> QED
    BY <1>1, <2>1, IntendedOfEnabled, EnabledPayload
<1> QED
  BY <1>1, <1>2 DEF WithinBounds, RequestOf

\* Under the invariant, every operation left is within bounds.
LEMMA PendingIsWithinBounds ==
  ASSUME IInv, NEW o \in ops
  PROVE  WithinBounds(RequestOf(o)) /\ o \in PlannedOp
<1>1. PICK st \in DaemonState : ops \subseteq PlanOps(desired, st)
  BY DEF IInv, OpsComeFromOnePlan
<1> QED
  BY <1>1, PlansAreWithinBounds DEF IInv, TypeOK, DesiredIsMarked

-----------------------------------------------------------------------------
\* Inductiveness: the initial states.
LEMMA InitInvariant == Init => IInv
<1> SUFFICES ASSUME Init PROVE IInv
  OBVIOUS
<1>1. TypeOK
  BY DEF Init, Started, TypeOK, DesiredStreams
<1>2. DesiredIsMarked /\ OpsComeFromOnePlan /\ LateIsWithinBounds
  BY DEF Init, Started, DesiredIsMarked, OpsComeFromOnePlan, LateIsWithinBounds
<1> QED
  BY <1>1, <1>2 DEF IInv

\* Leaving a pass because of an exception.
LEMMA AbandonKeeps ==
  ASSUME IInv, Abandon, late' \subseteq Request, UNCHANGED streams,
         \A r \in late' : WithinBounds(r)
  PROVE  IInv'
BY DEF IInv, TypeOK, Abandon, DesiredIsMarked, OpsComeFromOnePlan, LateIsWithinBounds,
       WithinBounds

\* Inductiveness: the steps of run().
LEMMA LoopStepInvariant ==
  ASSUME IInv, LoopStep
  PROVE  IInv'
<1>1. CASE ReadDesired
  <2>1. BuildDesired(active) \in DesiredStreams
    BY BuildDesiredType DEF IInv, TypeOK
  <2>2. DesiredIsMarked'
    BY <1>1, BuildDesiredType DEF IInv, TypeOK, ReadDesired, DesiredIsMarked
  <2>3. TypeOK'
    BY <1>1, <2>1 DEF IInv, TypeOK, ReadDesired
  <2>4. OpsComeFromOnePlan' /\ LateIsWithinBounds'
    BY <1>1 DEF IInv, ReadDesired, OpsComeFromOnePlan, LateIsWithinBounds, WithinBounds
  <2> QED
    BY <2>2, <2>3, <2>4 DEF IInv
<1>2. CASE Stop \/ ClearDirty \/ Wake \/ IntervalOver
  BY <1>2 DEF IInv, TypeOK, Stop, ClearDirty, Wake, IntervalOver, DesiredIsMarked,
              OpsComeFromOnePlan, LateIsWithinBounds
<1>3. CASE GetState
  <2>1. /\ PlanOps(desired, streams) \subseteq PlannedOp
        /\ PlanErrors(desired, streams) \subseteq Slot
    BY PlanOpsType, PlanErrorsType DEF IInv, TypeOK
  <2>2. TypeOK'
    BY <1>3, <2>1 DEF IInv, TypeOK, GetState
  <2>3. OpsComeFromOnePlan'
    BY <1>3 DEF IInv, TypeOK, GetState, OpsComeFromOnePlan
  <2>4. DesiredIsMarked' /\ LateIsWithinBounds'
    BY <1>3 DEF IInv, GetState, DesiredIsMarked, LateIsWithinBounds
  <2> QED
    BY <2>2, <2>3, <2>4 DEF IInv
<1>4. CASE Finish
  BY <1>4 DEF IInv, TypeOK, Finish, DesiredIsMarked, OpsComeFromOnePlan,
              LateIsWithinBounds
<1>5. ASSUME NEW op \in ops, ApplyOk(op)
      PROVE  IInv'
  <2>1. Applied(op) \in DaemonStream \cup {NoStream}
    BY AppliedType DEF IInv, TypeOK
  <2>2. TypeOK'
    BY <1>5, <2>1 DEF IInv, TypeOK, ApplyOk, DaemonState
  <2>3. OpsComeFromOnePlan'
    BY <1>5 DEF IInv, ApplyOk, OpsComeFromOnePlan
  <2>4. DesiredIsMarked' /\ LateIsWithinBounds'
    BY <1>5 DEF IInv, ApplyOk, DesiredIsMarked, LateIsWithinBounds
  <2> QED
    BY <2>2, <2>3, <2>4 DEF IInv
<1>6. ASSUME NEW op \in ops, ApplyRefused(op)
      PROVE  IInv'
  BY <1>6, AbandonKeeps DEF IInv, TypeOK, ApplyRefused, LateIsWithinBounds
<1> QED
  BY <1>1, <1>2, <1>3, <1>4, <1>5, <1>6 DEF LoopStep

\* Inductiveness: REST calls that fail or time out.
LEMMA FaultsInvariant ==
  ASSUME IInv, Faults
  PROVE  IInv'
<1>1. CASE GetFails
  BY <1>1, AbandonKeeps DEF IInv, TypeOK, GetFails, LateIsWithinBounds
<1>2. ASSUME NEW op \in ops, ApplyFails(op)
      PROVE  IInv'
  BY <1>2, AbandonKeeps DEF IInv, TypeOK, ApplyFails, LateIsWithinBounds
<1>3. ASSUME NEW op \in ops, ApplyTimesOut(op)
      PROVE  IInv'
  <2>1. WithinBounds(RequestOf(op)) /\ RequestOf(op) \in Request
    BY <1>3, PendingIsWithinBounds, AppliedType
  <2>2. late' \subseteq Request /\ \A r \in late' : WithinBounds(r)
    BY <1>3, <2>1 DEF IInv, TypeOK, ApplyTimesOut, LateIsWithinBounds
  <2> QED
    BY <1>3, <2>2, AbandonKeeps DEF ApplyTimesOut
<1> QED
  BY <1>1, <1>2, <1>3 DEF Faults

\* Inductiveness: late requests, controllers, operators, restarts, the insertion.
LEMMA EnvironmentInvariant ==
  ASSUME IInv, Environment \/ Insertion \/ InFlight
  PROVE  IInv'
<1>1. ASSUME NEW c \in Registry, NEW e \in Controls[c], Activate(c, e)
      PROVE  IInv'
  <2>1. e \in Endpoint
    BY EnvironmentAssumption
  <2>2. ResolveAuto(c, e) \in Endpoint
    BY <2>1, ResolveAutoType
  <2>3. TypeOK'
    BY <1>1, <2>2 DEF IInv, TypeOK, Activate
  <2> QED
    BY <1>1, <2>3 DEF IInv, Activate, DesiredIsMarked, OpsComeFromOnePlan,
                      LateIsWithinBounds
<1>2. ASSUME NEW s \in Slot, NEW st \in Intruders[s], OutsideWrite(s, st)
      PROVE  IInv'
  <2>1. st \in DaemonStream \cup {NoStream}
    BY EnvironmentAssumption
  <2>2. TypeOK'
    BY <1>2, <2>1 DEF IInv, TypeOK, OutsideWrite, bridge, DaemonState
  <2> QED
    BY <1>2, <2>2 DEF IInv, OutsideWrite, bridge, DesiredIsMarked, OpsComeFromOnePlan,
                      LateIsWithinBounds
<1>3. CASE Shutdown
  BY <1>3 DEF IInv, TypeOK, Shutdown, DesiredIsMarked, OpsComeFromOnePlan,
              LateIsWithinBounds
<1>4. CASE Restart
  <2>1. TypeOK'
    BY <1>4 DEF IInv, TypeOK, Restart, Started, DesiredStreams
  <2> QED
    BY <1>4, <2>1 DEF IInv, Restart, Started, DesiredIsMarked, OpsComeFromOnePlan,
                      LateIsWithinBounds
<1>5. CASE DaemonRestart
  <2>1. streams' \in DaemonState
    BY <1>5 DEF IInv, TypeOK, DaemonRestart, DaemonState
  <2>2. TypeOK'
    BY <1>5, <2>1 DEF IInv, TypeOK, DaemonRestart, bridge
  <2> QED
    BY <1>5, <2>2 DEF IInv, DaemonRestart, bridge, DesiredIsMarked, OpsComeFromOnePlan,
                      LateIsWithinBounds
<1>6. CASE Insertion
  <2>1. active' \in [Registry -> Endpoint \cup {NoResource}] /\ inserting' = "over"
    BY <1>6, InitialEndpointType
    DEF Insertion, InsertNodeResources, InsertionFails, InsertionEnds
  <2>2. UNCHANGED <<shutdown, pc, dirty, desired, ops, errors, warned, streams, late>>
    BY <1>6 DEF Insertion, InsertNodeResources, InsertionFails
  <2> QED
    BY <2>1, <2>2 DEF IInv, TypeOK, DesiredIsMarked, OpsComeFromOnePlan,
                      LateIsWithinBounds
<1>7. ASSUME NEW r \in late, LateDelivery(r)
      PROVE  IInv'
  <2>1. r.put \in DaemonStream \cup {NoStream}
    BY DEF IInv, TypeOK, Request
  <2>2. TypeOK'
    BY <1>7, <2>1 DEF IInv, TypeOK, LateDelivery, bridge, DaemonState
  <2> QED
    BY <1>7, <2>2 DEF IInv, LateDelivery, bridge, DesiredIsMarked, OpsComeFromOnePlan,
                      LateIsWithinBounds
<1>8. ASSUME NEW r \in late, LateLoss(r)
      PROVE  IInv'
  BY <1>8 DEF IInv, TypeOK, LateLoss, bridge, DesiredIsMarked, OpsComeFromOnePlan,
              LateIsWithinBounds
<1> QED
  BY <1>1, <1>2, <1>3, <1>4, <1>5, <1>6, <1>7, <1>8 DEF Environment, InFlight

\* Inductiveness: stuttering steps.
LEMMA StutterInvariant ==
  ASSUME IInv, UNCHANGED vars
  PROVE  IInv'
BY DEF IInv, vars, bridge, TypeOK, DesiredIsMarked, OpsComeFromOnePlan, LateIsWithinBounds

\* Inductiveness: every step.
LEMMA NextInvariant == IInv /\ [Next]_vars => IInv'
BY LoopStepInvariant, FaultsInvariant, EnvironmentInvariant, StutterInvariant DEF Next

\* The process never leaves the states of the inductive invariant.
THEOREM Invariant == Spec => []IInv
BY InitInvariant, NextInvariant, PTL DEF Spec

\* The state has its type.
THEOREM TypeCorrect == Spec => []TypeOK
<1>1. IInv => TypeOK
  BY DEF IInv
<1> QED
  BY <1>1, Invariant, PTL

(***************************************************************************)
(* Every write still pending was decided on seeing the slot free or the    *)
(* bridge's own, whatever has happened since.                              *)
(***************************************************************************)
THEOREM BridgeFailsClosed == Spec => []FailClosed
<1>1. IInv => FailClosed
  BY PendingIsWithinBounds DEF FailClosed, Pending, IInv, LateIsWithinBounds
<1> QED
  BY <1>1, Invariant, PTL

(***************************************************************************)
(* A pass in progress applies the operations of one plan, in one order.    *)
(***************************************************************************)
THEOREM PassesAreConsistent == Spec => []PassIsConsistent
<1>1. ASSUME IInv PROVE PassIsConsistent
  <2>1. CASE ops = {}
    BY <2>1 DEF PassIsConsistent
  <2>2. CASE ops # {}
    <3>1. PICK st \in DaemonState :
            ops \subseteq PlanOps(desired, st) /\ errors = PlanErrors(desired, st)
      BY <1>1, <2>2 DEF IInv, OpsComeFromOnePlan
    <3>2. desired \in DesiredStreams
      BY <1>1 DEF IInv, TypeOK
    <3>3. \A o \in ops : o.slot \notin errors /\ Applied(o) = Intended(desired, o.slot)
      BY <3>1, <3>2, ConflictsAreNotPlanned, PlannedIsJustified DEF Justified, RequestOf
    <3>4. \A o, p \in ops : o # p => o.slot # p.slot /\ (Before(o, p) \/ Before(p, o))
      BY <3>1, <3>2, PlanIsTotallyOrdered
    <3> QED
      BY <3>3, <3>4 DEF PassIsConsistent
  <2> QED
    BY <2>1, <2>2
<1> QED
  BY <1>1, Invariant, PTL

-----------------------------------------------------------------------------
(***************************************************************************)
(* A foreign stream is replaced or deleted on the bridge's account only if *)
(* the write was decided on another content of its slot.                   *)
(***************************************************************************)
TakenByRace ==
  \A s \in Slot :
    /\ Foreign(streams[s])
    /\ streams'[s] # streams[s]
    /\ ops' # ops \/ late' # late
    => \E r \in Pending : r.slot = s /\ r.saw # streams[s]

\* A pending write was not decided on a foreign stream.
LEMMA PendingSawOtherStream ==
  ASSUME FailClosed, NEW r \in Pending, Foreign(streams[r.slot])
  PROVE  r.saw # streams[r.slot]
BY DEF FailClosed, WithinBounds, MayWrite, Foreign

\* No step but a raced write takes a foreign stream away.
LEMMA RacesOnly ==
  ASSUME IInv, FailClosed, [Next]_vars
  PROVE  TakenByRace
<1> SUFFICES ASSUME NEW s \in Slot,
                    Foreign(streams[s]),
                    streams'[s] # streams[s],
                    ops' # ops \/ late' # late
             PROVE  \E r \in Pending : r.slot = s /\ r.saw # streams[s]
  BY DEF TakenByRace
<1>1. ASSUME NEW op \in ops, ApplyOk(op)
      PROVE  \E r \in Pending : r.slot = s /\ r.saw # streams[s]
  <2>1. streams' = [streams EXCEPT ![op.slot] = Applied(op)]
    BY <1>1 DEF ApplyOk
  <2>2. op.slot = s
    BY <2>1 DEF IInv, TypeOK, DaemonState
  <2>3. RequestOf(op) \in Pending /\ RequestOf(op).slot = s
    BY <2>2 DEF Pending, RequestOf
  <2> QED
    BY <2>3, PendingSawOtherStream
<1>2. ASSUME NEW r \in late, LateDelivery(r)
      PROVE  \E q \in Pending : q.slot = s /\ q.saw # streams[s]
  <2>1. streams' = [streams EXCEPT ![r.slot] = r.put]
    BY <1>2 DEF LateDelivery
  <2>2. r.slot = s
    BY <2>1 DEF IInv, TypeOK, DaemonState
  <2>3. r \in Pending
    BY DEF Pending
  <2> QED
    BY <2>2, <2>3, PendingSawOtherStream
<1>3. CASE Faults \/ (\E r \in late : LateLoss(r))
  BY <1>3 DEF Faults, GetFails, ApplyFails, ApplyTimesOut, LateLoss
<1>4. CASE Environment \/ Insertion
  BY <1>4 DEF Environment, Activate, OutsideWrite, Shutdown, Restart, DaemonRestart,
              Insertion, InsertNodeResources, InsertionFails, bridge
<1>5. CASE \/ ReadDesired \/ Stop \/ ClearDirty \/ GetState \/ Finish
           \/ Wake \/ IntervalOver \/ \E op \in ops : ApplyRefused(op)
  BY <1>5 DEF ReadDesired, Stop, ClearDirty, GetState, Finish, Wake, IntervalOver,
              ApplyRefused
<1>6. CASE UNCHANGED vars
  BY <1>6 DEF vars, bridge
<1> QED
  BY <1>1, <1>2, <1>3, <1>4, <1>5, <1>6 DEF Next, LoopStep, InFlight

\* OverwriteOnlyByRace holds of every behaviour of the bridge and its daemon.
THEOREM OverwritesAreRaces == Spec => OverwriteOnlyByRace
<1>1. IInv /\ FailClosed /\ [Next]_vars => TakenByRace
  BY RacesOnly
<1> QED
  BY <1>1, Invariant, BridgeFailsClosed, PTL DEF Spec, OverwriteOnlyByRace, TakenByRace

-----------------------------------------------------------------------------
(***************************************************************************)
(* The process implements the contract.  Reading the active endpoints is   *)
(* Adopt, planning is Decide (that every planned operation is justified is *)
(* PlanMakesJustifiedWrites), a successful REST call and the arrival of a  *)
(* late one are Execute; failures only drop requests.                      *)
(***************************************************************************)
\* The contract's vocabulary is the bridge's.
LEMMA SameStates ==
  Contract!DaemonState = DaemonState /\ Contract!DesiredStreams = DesiredStreams
BY DEF Contract!DaemonState, DaemonState, Contract!Slot, Slot, Contract!Side, Side,
       Contract!DaemonStream, DaemonStream, Contract!Ownership, Ownership,
       Contract!DesiredStreams, DesiredStreams

\* The justified writes are those of the contract.
LEMMA SameJustified ==
  ASSUME NEW des, NEW st
  PROVE  Contract!Justified(des, st) = Justified(des, st)
<1>1. Contract!Slot = Slot
  BY DEF Contract!Slot, Slot, Contract!Side, Side
<1>2. \A s : Contract!Intended(des, s) = Intended(des, s)
  BY DEF Contract!Intended, Intended, Contract!Enabled, Enabled, Contract!SlotOf, SlotOf
<1>3. \A s, saw, put : Contract!MayWrite(s, saw, put) <=> MayWrite(s, saw, put)
  BY DEF Contract!MayWrite, MayWrite, Contract!Mine, Mine
<1> QED
  BY <1>1, <1>2, <1>3 DEF Contract!Justified, Justified

\* A started process is in an initial state of the contract.
LEMMA InitRefines == Init => Contract!Init
<1> SUFFICES ASSUME Init PROVE Contract!Init
  OBVIOUS
<1>1. BuildDesired(active) = [c \in Registry |-> NoStream]
  BY DEF Init, Started, BuildDesired, DesiredStream
<1> QED
  BY <1>1, SameStates DEF Init, Started, Contract!Init, Contract!Nothing, Pending

\* Every step of the process is a step of the contract, or none.
LEMMA StepRefines ==
  ASSUME IInv, IInv', [Next]_vars
  PROVE  [Contract!Next]_(Contract!cvars)
<1>1. CASE ReadDesired
  BY <1>1 DEF ReadDesired, Contract!Next, Contract!Adopt, Pending
<1>2. CASE GetState
  <2>1. {RequestOf(o) : o \in PlanOps(desired, streams)} = Justified(desired, streams)
    BY PlanMakesJustifiedWrites DEF IInv, TypeOK
  <2>2. Pending' \subseteq Pending \cup Justified(desired, streams)
    BY <1>2, <2>1 DEF GetState, Pending
  <2> QED
    BY <1>2, <2>2, SameJustified DEF GetState, Contract!Next, Contract!Decide
<1>3. ASSUME NEW op \in ops, ApplyOk(op)
      PROVE  Contract!Next
  <2>1. RequestOf(op) \in Pending /\ Pending' \subseteq Pending
    BY <1>3 DEF ApplyOk, Pending
  <2>2. streams' = [streams EXCEPT ![RequestOf(op).slot] = RequestOf(op).put]
    BY <1>3 DEF ApplyOk, RequestOf
  <2>3. Contract!Execute(RequestOf(op))
    BY <1>3, <2>1, <2>2 DEF ApplyOk, Contract!Execute
  <2> QED
    BY <2>1, <2>3 DEF Contract!Next
<1>4. ASSUME NEW r \in late, LateDelivery(r)
      PROVE  Contract!Next
  <2>1. r \in Pending /\ Pending' \subseteq Pending
    BY <1>4 DEF LateDelivery, bridge, Pending
  <2>2. Contract!Execute(r)
    BY <1>4, <2>1 DEF LateDelivery, bridge, Contract!Execute
  <2> QED
    BY <2>1, <2>2 DEF Contract!Next
<1>5. ASSUME UNCHANGED <<streams, active, desired>>, Pending' \subseteq Pending
      PROVE  [Contract!Next]_(Contract!cvars)
  BY <1>5 DEF Contract!Next, Contract!Decide
<1>6. CASE \/ Stop \/ ClearDirty \/ Finish \/ Wake \/ IntervalOver
  BY <1>5, <1>6 DEF Stop, ClearDirty, Finish, Wake, IntervalOver, Pending
<1>7. ASSUME NEW op \in ops, ApplyRefused(op) \/ ApplyFails(op) \/ ApplyTimesOut(op)
      PROVE  UNCHANGED <<streams, active, desired>> /\ Pending' \subseteq Pending
  BY <1>7 DEF ApplyRefused, ApplyFails, ApplyTimesOut, Abandon, Pending
<1>8. CASE GetFails
  BY <1>5, <1>8 DEF GetFails, Abandon, Pending
<1>9. ASSUME NEW r \in late, LateLoss(r)
      PROVE  UNCHANGED <<streams, active, desired>> /\ Pending' \subseteq Pending
  BY <1>9 DEF LateLoss, bridge, Pending
<1>10. ASSUME \/ \E c \in Registry : \E e \in Controls[c] : Activate(c, e)
              \/ Insertion
       PROVE  Contract!Next
  <2>1. BuildDesired(active') \in DesiredStreams
    BY BuildDesiredType DEF IInv, TypeOK
  <2> QED
    BY <1>10, <2>1, SameStates
    DEF Activate, Insertion, InsertNodeResources, InsertionFails, Contract!Next,
        Contract!Control, Pending
<1>11. CASE Restart
  <2>1. BuildDesired(active') = [c \in Registry |-> NoStream]
    BY <1>11 DEF Restart, Started, BuildDesired, DesiredStream
  <2> QED
    BY <1>11, <2>1 DEF Restart, Started, Contract!Next, Contract!Forget,
                       Contract!Nothing, Pending
<1>12. CASE DaemonRestart \/ \E s \in Slot : \E st \in Intruders[s] : OutsideWrite(s, st)
  <2>1. streams' \in DaemonState
    BY DEF IInv, TypeOK
  <2> QED
    BY <1>12, <2>1, SameStates DEF DaemonRestart, OutsideWrite, bridge, Contract!Next,
                       Contract!Outside, Pending
<1>13. CASE Shutdown
  BY <1>5, <1>13 DEF Shutdown, Pending
<1>14. CASE UNCHANGED vars
  BY <1>5, <1>14 DEF vars, bridge, Pending
<1> QED
  BY <1>1, <1>2, <1>3, <1>4, <1>5, <1>6, <1>7, <1>8, <1>9, <1>10, <1>11, <1>12, <1>13,
     <1>14 DEF Next, LoopStep, Faults, InFlight, Environment

\* The bridge process keeps the slot contract.
THEOREM BridgeImplementsContract == Spec => ImplementsContract
<1>1. Init => Contract!Init
  BY InitRefines
<1>2. IInv /\ IInv' /\ [Next]_vars => [Contract!Next]_(Contract!cvars)
  BY StepRefines
<1> QED
  BY <1>1, <1>2, Invariant, PTL DEF Spec, ImplementsContract, Contract!Spec

-----------------------------------------------------------------------------
(***************************************************************************)
(* The loop follows the NMOS side as WakeContract has it.  The insertion   *)
(* of the resources changes no wish, because it leaves every endpoint      *)
(* disabled.                                                               *)
(***************************************************************************)
\* Disabled endpoints ask for nothing, nor do resources that are not there.
LEMMA DisabledAskForNothing ==
  ASSUME NEW act, \A c \in Registry : act[c] \in {NoResource, InitialEndpoint(c)}
  PROVE  BuildDesired(act) = [c \in Registry |-> NoStream]
BY DEF BuildDesired, DesiredStream, StreamEnabled, InitialEndpoint

\* There is nothing to activate while the insertion is under way.
NothingBeforeInsertion ==
  inserting = "running" => \A c \in Registry : active[c] = NoResource

\* The thread inserts once; an activation needs a resource.
LEMMA NothingBeforeInsertionHolds == Spec => []NothingBeforeInsertion
<1>1. Init => NothingBeforeInsertion
  BY DEF Init, Started, NothingBeforeInsertion
<1>2. IInv /\ NothingBeforeInsertion /\ [Next]_vars => NothingBeforeInsertion'
  <2> SUFFICES ASSUME IInv, NothingBeforeInsertion, [Next]_vars
               PROVE  NothingBeforeInsertion'
    OBVIOUS
  <2>1. CASE Insertion
    BY <2>1 DEF Insertion, InsertNodeResources, InsertionFails, InsertionEnds,
                NothingBeforeInsertion
  <2>2. ASSUME NEW c \in Registry, NEW e \in Controls[c], Activate(c, e)
        PROVE  NothingBeforeInsertion'
    BY <2>2 DEF Activate, NothingBeforeInsertion
  <2>3. CASE Restart
    BY <2>3 DEF Restart, Started, NothingBeforeInsertion
  <2>4. CASE UNCHANGED <<active, inserting>>
    BY <2>4 DEF NothingBeforeInsertion
  <2> QED
    BY <2>1, <2>2, <2>3, <2>4
    DEF Next, LoopStep, Faults, InFlight, Environment, vars, bridge, ReadDesired, Stop,
        ClearDirty, GetState, Finish, Wake, IntervalOver, ApplyOk, ApplyRefused, GetFails,
        ApplyFails, ApplyTimesOut, Abandon, LateDelivery, LateLoss, OutsideWrite, Shutdown,
        DaemonRestart
<1> QED
  BY <1>1, <1>2, Invariant, PTL DEF Spec

\* A process that has just been started is a fresh loop.
LEMMA InitFollows == Init => Loop!Init
BY DisabledAskForNothing DEF Init, Started, Loop!Init, Loop!Fresh

\* Every step of the process is one the loop may take, or none of it.
LEMMA StepFollows ==
  ASSUME IInv, IInv', NothingBeforeInsertion, [Next]_vars
  PROVE  [Loop!Next]_(Loop!wvars)
<1> USE DEF Loop!Next, Loop!wvars
<1>1. CASE Insertion
  <2>1. \A c \in Registry : active[c] = NoResource
    BY <1>1 DEF Insertion, InsertNodeResources, InsertionFails, InsertionEnds,
                NothingBeforeInsertion
  <2>2. \A c \in Registry : active'[c] \in {NoResource, InitialEndpoint(c)}
    BY <1>1 DEF Insertion, InsertNodeResources, InsertionFails
  <2>3. UNCHANGED BuildDesired(active)
    BY <2>1, <2>2, DisabledAskForNothing
  <2> QED
    BY <1>1, <2>3 DEF Insertion, InsertNodeResources, InsertionFails
<1>2. ASSUME NEW c \in Registry, NEW e \in Controls[c], Activate(c, e)
      PROVE  Loop!Next
  <2>1. BuildDesired(active') \in DesiredStreams
    BY BuildDesiredType DEF IInv, TypeOK
  <2>2. Loop!Activate
    BY <1>2, <2>1 DEF Activate, Loop!Activate
  <2> QED
    BY <2>2
<1>3. CASE Shutdown
  BY <1>3 DEF Shutdown, Loop!Shutdown
<1>4. CASE Restart
  BY <1>4, DisabledAskForNothing DEF Restart, Started, Loop!Restart, Loop!Fresh
<1>5. CASE ReadDesired
  BY <1>5 DEF ReadDesired, Loop!Read
<1>6. CASE Stop
  BY <1>6 DEF Stop, Loop!Stop
<1>7. CASE ClearDirty
  BY <1>7 DEF ClearDirty, Loop!Clear
<1>8. CASE Wake \/ IntervalOver
  BY <1>8 DEF Wake, IntervalOver, Loop!Wake
<1>9. CASE Finish \/ GetFails \/ \E op \in ops :
             ApplyRefused(op) \/ ApplyFails(op) \/ ApplyTimesOut(op)
  BY <1>9 DEF Finish, GetFails, ApplyRefused, ApplyFails, ApplyTimesOut, Abandon, Loop!Pass
<1>10. CASE GetState \/ \E op \in ops : ApplyOk(op)
  BY <1>10 DEF GetState, ApplyOk
<1>11. CASE \/ \E r \in late : LateDelivery(r) \/ LateLoss(r)
            \/ \E s \in Slot : \E st \in Intruders[s] : OutsideWrite(s, st)
            \/ DaemonRestart
            \/ UNCHANGED vars
  BY <1>11 DEF LateDelivery, LateLoss, OutsideWrite, DaemonRestart, bridge, vars
<1> QED
  BY <1>1, <1>2, <1>3, <1>4, <1>5, <1>6, <1>7, <1>8, <1>9, <1>10, <1>11
  DEF Next, LoopStep, Faults, InFlight, Environment

\* The process keeps the contract of its loop.
THEOREM BridgeImplementsWakeContract == Spec => ImplementsWakeContract
<1>1. IInv /\ IInv' /\ NothingBeforeInsertion /\ [Next]_vars => [Loop!Next]_(Loop!wvars)
  BY StepFollows
<1> QED
  BY <1>1, InitFollows, Invariant, NothingBeforeInsertionHolds, PTL
  DEF Spec, ImplementsWakeContract, Loop!Spec

-----------------------------------------------------------------------------
(***************************************************************************)
(* The SDP and the daemon's source.  Every endpoint of a sender has been   *)
(* through the resolver or was created with the configured destination, so *)
(* the fallback of build_desired_locked has nothing left to do.            *)
(***************************************************************************)
Resolved ==
  \A c \in Registry : active[c] # NoResource => ResolveAuto(c, active[c]) = active[c]

\* Resolving twice is resolving once.
LEMMA ResolvedStays ==
  ASSUME NEW c \in Registry, NEW e \in Endpoint
  PROVE  ResolveAuto(c, ResolveAuto(c, e)) = ResolveAuto(c, e)
BY DEF ResolveAuto, Endpoint

\* Every endpoint is resolved, in every behaviour.
LEMMA ResolvedHolds == Spec => []Resolved
<1>1. Init => Resolved
  BY DEF Init, Started, Resolved
<1>2. IInv /\ Resolved /\ [Next]_vars => Resolved'
  <2> SUFFICES ASSUME IInv, Resolved, [Next]_vars PROVE Resolved'
    OBVIOUS
  <2>1. CASE Insertion
    <3>1. \A c \in Registry : active'[c] \in {NoResource, InitialEndpoint(c)}
      BY <2>1 DEF Insertion, InsertNodeResources, InsertionFails
    <3>2. ASSUME NEW c \in Registry
          PROVE  ResolveAuto(c, InitialEndpoint(c)) = InitialEndpoint(c)
      <4>1. CASE c.side = "sender" /\ InitialEndpoint(c).target = NoTarget
        <5>1. c.address = NoTarget
          BY <4>1 DEF InitialEndpoint
        <5>2. [InitialEndpoint(c) EXCEPT !.target = NoTarget] = InitialEndpoint(c)
          BY <4>1 DEF InitialEndpoint
        <5> QED
          BY <4>1, <5>1, <5>2 DEF ResolveAuto
      <4>2. CASE ~(c.side = "sender" /\ InitialEndpoint(c).target = NoTarget)
        BY <4>2 DEF ResolveAuto
      <4> QED
        BY <4>1, <4>2
    <3> QED
      BY <3>1, <3>2 DEF Resolved
  <2>2. ASSUME NEW c \in Registry, NEW e \in Controls[c], Activate(c, e)
        PROVE  Resolved'
    <3>1. ResolveAuto(c, ResolveAuto(c, e)) = ResolveAuto(c, e)
      BY ResolvedStays, EnvironmentAssumption
    <3>2. active' = [active EXCEPT ![c] = ResolveAuto(c, e)]
      BY <2>2 DEF Activate
    <3>3. \A d \in Registry :
            active'[d] = IF d = c THEN ResolveAuto(c, e) ELSE active[d]
      BY <3>2 DEF IInv, TypeOK
    <3>4. ASSUME NEW d \in Registry, active'[d] # NoResource
          PROVE  ResolveAuto(d, active'[d]) = active'[d]
      <4>1. CASE d = c
        BY <3>1, <3>3, <4>1
      <4>2. CASE d # c
        BY <3>3, <3>4, <4>2 DEF Resolved
      <4> QED
        BY <4>1, <4>2
    <3> QED
      BY <3>4 DEF Resolved
  <2>3. CASE Restart
    BY <2>3 DEF Restart, Started, Resolved
  <2>4. CASE UNCHANGED active
    BY <2>4 DEF Resolved
  <2> QED
    BY <2>1, <2>2, <2>3, <2>4
    DEF Next, LoopStep, Faults, InFlight, Environment, vars, bridge, ReadDesired, Stop,
        ClearDirty, GetState, Finish, Wake, IntervalOver, ApplyOk, ApplyRefused, GetFails,
        ApplyFails, ApplyTimesOut, Abandon, LateDelivery, LateLoss, OutsideWrite, Shutdown,
        DaemonRestart
<1> QED
  BY <1>1, <1>2, Invariant, PTL DEF Spec

\* Sender SDPs and daemon sources name the same destination.
THEOREM SdpsNameTheStreams == Spec => []SdpNamesTheStream
<1>1. IInv /\ Resolved => SdpNamesTheStream
  <2> SUFFICES ASSUME IInv, Resolved, NEW c \in Registry, c.side = "sender",
                      BuildDesired(active)[c] # NoStream
               PROVE  MakePayload(c, SdpDestination(active[c])) = BuildDesired(active)[c]
    BY DEF SdpNamesTheStream
  <2>1. /\ active[c] # NoResource
        /\ StreamEnabled(c, active[c])
        /\ BuildDesired(active)[c] = MakePayload(c, EffectiveTarget(c, active[c]))
    BY DEF BuildDesired, DesiredStream
  <2>2. active[c].target # NoTarget
    <3>1. active[c] \in Endpoint
      BY <2>1 DEF IInv, TypeOK
    <3>2. SUFFICES ASSUME active[c].target = NoTarget PROVE FALSE
      OBVIOUS
    <3>3. active[c] = [active[c] EXCEPT !.target = c.address]
      BY <2>1, <3>2 DEF Resolved, ResolveAuto
    <3>4. c.address = NoTarget
      BY <3>1, <3>2, <3>3 DEF Endpoint
    <3> QED
      BY <2>1, <3>2, <3>4 DEF StreamEnabled, EffectiveTarget
  <2> QED
    BY <2>1, <2>2 DEF EffectiveTarget, SdpDestination
<1> QED
  BY <1>1, Invariant, ResolvedHolds, PTL
=============================================================================
