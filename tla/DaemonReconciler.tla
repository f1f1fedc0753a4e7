-------------------------- MODULE DaemonReconciler --------------------------
(***************************************************************************)
(* The bridge process at run time, with the daemon it controls:            *)
(*                                                                         *)
(*   - the IS-05 side: nmos-cpp's activation thread changes an active      *)
(*     endpoint and calls the activation handler (dirty, notify);          *)
(*   - DaemonReconciler::run: read the active state, clear dirty, GET the  *)
(*     streams, plan, apply the operations one REST call at a time, wait;  *)
(*   - the daemon's slots, also written by operators and other bridges.    *)
(*                                                                         *)
(* A REST call that succeeds is one step.  A call that times out leaves    *)
(* its request in `late`: the daemon may still carry it out at any time.   *)
(***************************************************************************)
EXTENDS ReconcilerPlan, FiniteSets

CONSTANTS
  NoResource,    \* find_resource returned end()
  Controls,      \* Controls[c]: the endpoints a controller activates on c
  Intruders,     \* Intruders[s]: what others put into slot s
  Rejected,      \* bodies the daemon answers with HTTP >= 400
  MaxLate        \* bound of the model: requests in flight after their timeout

\* The /active endpoint of a connection resource.  target is the
\* destination_ip of a sender, the transport_file data of a receiver.
Endpoint == [master_enable : BOOLEAN, rtp_enabled : BOOLEAN,
             target : Targets \cup {NoTarget}]

ASSUME EnvironmentAssumption ==
  /\ NoResource \notin Endpoint
  /\ Controls \in [Registry -> SUBSET Endpoint]
  /\ Intruders \in [Slot -> SUBSET (DaemonStream \cup {NoStream})]
  /\ Rejected \subseteq Bodies
  /\ MaxLate \in Nat

VARIABLES
  active,    \* model.connection_resources: the active endpoint of each stream
  inserting, \* the thread of insert_node_resources: running, or over
  shutdown,  \* model.shutdown
  pc,        \* where run() is
  dirty,     \* dirty_
  desired,   \* the vector build_desired_locked returned in this iteration
  ops,       \* report.ops not yet applied
  errors,    \* report.errors: slots in conflict
  warned,    \* slots whose conflict the last pass logged
  streams,   \* the daemon's slots
  late       \* requests whose caller timed out and that may still arrive

bridge == <<active, inserting, shutdown, pc, dirty, desired, ops, errors, warned>>
vars == <<bridge, streams, late>>

(***************************************************************************)
(* Active state to desired streams                                         *)
(***************************************************************************)

\* active_destination_ip with the configured address as the fallback; a
\* receiver has no fallback for its SDP.
EffectiveTarget(c, e) ==
  IF c.side = "sender" /\ e.target = NoTarget THEN c.address ELSE e.target

\* Variant for validation: an enabled endpoint without a target counts.
StreamEnabledWithoutTarget(c, e) ==
  /\ e.master_enable
  /\ c.side = "sender" => e.rtp_enabled

StreamEnabled(c, e) ==
  /\ e.master_enable
  /\ c.side = "sender" => e.rtp_enabled
  /\ EffectiveTarget(c, e) # NoTarget

DesiredStream(c, e) ==
  IF e # NoResource /\ StreamEnabled(c, e)
  THEN MakePayload(c, EffectiveTarget(c, e))
  ELSE NoStream

BuildDesired(act) == [c \in Registry |-> DesiredStream(c, act[c])]

\* Variant for validation: the endpoint is created enabled.
InitialEndpointEnabled(c) ==
  [master_enable |-> TRUE, rtp_enabled |-> TRUE,
   target |-> IF c.side = "sender" THEN c.address ELSE NoTarget]

\* The endpoint insert_node_resources creates: disabled, a sender already
\* carrying its configured destination.
InitialEndpoint(c) ==
  [master_enable |-> FALSE, rtp_enabled |-> TRUE,
   target |-> IF c.side = "sender" THEN c.address ELSE NoTarget]

\* Variant for validation: a destination is left at "auto".
ResolveNothing(c, e) == e

\* make_auto_resolver, of which the destination counts here: a sender's "auto"
\* becomes the configured one.
ResolveAuto(c, e) ==
  IF c.side = "sender" /\ e.target = NoTarget
  THEN [e EXCEPT !.target = c.address]
  ELSE e

\* make_transportfile_setter: the SDP a sender publishes is made from the
\* transport parameters of its active endpoint alone.
SdpDestination(e) == e.target

(***************************************************************************)
(* A process that has just been started, in front of any daemon state      *)
(***************************************************************************)
Started(act, ins, sd, loc, d, des, os, errs, wd) ==
  /\ act = [c \in Registry |-> NoResource]
  /\ ins = "running"
  /\ sd = FALSE
  /\ loc = "read"
  /\ d = TRUE
  /\ des = [c \in Registry |-> NoStream]
  /\ os = {}
  /\ errs = {}
  /\ wd = {}

Init ==
  /\ Started(active, inserting, shutdown, pc, dirty, desired, ops, errors, warned)
  /\ streams \in {s \in DaemonState : \A sl \in Slot : s[sl] \in Intruders[sl]}
  /\ late = {}

(***************************************************************************)
(* The IS-05 side                                                          *)
(***************************************************************************)

InsertionEnds == inserting = "running" /\ inserting' = "over"

\* insert_node_resources, one write lock for all resources.
InsertNodeResources ==
  /\ InsertionEnds
  /\ active' = [c \in Registry |-> InitialEndpoint(c)]
  /\ UNCHANGED <<shutdown, pc, dirty, desired, ops, errors, warned, streams, late>>

Senders == {c \in Registry : c.side = "sender"}

\* An exception: no interface of that name, before anything is inserted, or a
\* codec of too many digits, when some senders are in and at least one is not.
\* What has been inserted stays, and nobody tries again.
InsertionFails ==
  /\ InsertionEnds
  /\ \E before \in SUBSET Senders :
       /\ before # Senders \/ before = {}
       /\ active' = [c \in Registry |->
                       IF c \in before THEN InitialEndpoint(c) ELSE NoResource]
  /\ UNCHANGED <<shutdown, pc, dirty, desired, ops, errors, warned, streams, late>>

\* nmos-cpp's activation thread, under the model's write lock, then the
\* activation handler: dirty_ is set under wait_mutex_ and run() notified.
Activate(c, e) ==
  /\ ~shutdown
  /\ active[c] # NoResource
  /\ active' = [active EXCEPT ![c] = ResolveAuto(c, e)]
  /\ dirty' = TRUE
  /\ UNCHANGED <<inserting, shutdown, pc, desired, ops, errors, warned, streams, late>>

\* Term signal: the server guard closes the node server.
Shutdown ==
  /\ ~shutdown
  /\ shutdown' = TRUE
  /\ UNCHANGED <<active, inserting, pc, dirty, desired, ops, errors, warned, streams, late>>

\* The process ends, by itself or by a crash, and is started again.
Restart ==
  /\ Started(active', inserting', shutdown', pc', dirty', desired', ops', errors',
             warned')
  /\ UNCHANGED <<streams, late>>

(***************************************************************************)
(* DaemonReconciler::run                                                   *)
(***************************************************************************)

\* Variant for validation: model.shutdown is not tested.
ReadDesiredAfterShutdown ==
  /\ pc = "read"
  /\ desired' = BuildDesired(active)
  /\ pc' = "clear"
  /\ UNCHANGED <<active, inserting, shutdown, dirty, ops, errors, warned, streams, late>>

\* Under the model's read lock.
ReadDesired ==
  /\ pc = "read"
  /\ ~shutdown
  /\ desired' = BuildDesired(active)
  /\ pc' = "clear"
  /\ UNCHANGED <<active, inserting, shutdown, dirty, ops, errors, warned, streams, late>>

Stop ==
  /\ pc = "read"
  /\ shutdown
  /\ pc' = "done"
  /\ UNCHANGED <<active, inserting, shutdown, dirty, desired, ops, errors, warned, streams, late>>

\* dirty_.store(false), after the read lock has been released.
ClearDirty ==
  /\ pc = "clear"
  /\ dirty' = FALSE
  /\ pc' = "get"
  /\ UNCHANGED <<active, inserting, shutdown, desired, ops, errors, warned, streams, late>>

\* Variant for validation: the plan uses the active state of its own time.
GetStateFromActive ==
  /\ pc = "get"
  /\ ops' = PlanOps(BuildDesired(active), streams)
  /\ errors' = PlanErrors(BuildDesired(active), streams)
  /\ pc' = "apply"
  /\ UNCHANGED <<active, inserting, shutdown, dirty, desired, warned, streams, late>>

\* GET /api/streams, and the plan made from it.
GetState ==
  /\ pc = "get"
  /\ ops' = PlanOps(desired, streams)
  /\ errors' = PlanErrors(desired, streams)
  /\ pc' = "apply"
  /\ UNCHANGED <<active, inserting, shutdown, dirty, desired, warned, streams, late>>

\* An exception leaves reconcile(): the report is lost, the operations left
\* are not applied, the conflicts are not logged.
Abandon ==
  /\ ops' = {}
  /\ errors' = {}
  /\ warned' = {}
  /\ pc' = "wait"
  /\ UNCHANGED <<active, inserting, shutdown, dirty, desired>>

\* GET fails: HTTP >= 400, no connection, timeout, malformed answer.
GetFails ==
  /\ pc = "get"
  /\ Abandon
  /\ UNCHANGED <<streams, late>>

\* The daemon accepts a DELETE, and a PUT unless it objects to the body.
Accepted(put) == put # NoStream => put.body \notin Rejected

\* The daemon may answer with HTTP >= 400: it objects to the body of a PUT, or
\* the stream of a DELETE is already gone.
MayRefuse(op) ==
  IF op.action = "remove" THEN streams[op.slot] = NoStream ELSE ~Accepted(op.put)

\* The REST call of one operation succeeds.
ApplyOk(op) ==
  /\ pc = "apply"
  /\ IsNextOp(op, ops)
  /\ Accepted(Applied(op))
  /\ streams' = [streams EXCEPT ![op.slot] = Applied(op)]
  /\ ops' = ops \ {op}
  /\ UNCHANGED <<active, inserting, shutdown, pc, dirty, desired, errors, warned, late>>

\* check_status throws.
ApplyRefused(op) ==
  /\ pc = "apply"
  /\ IsNextOp(op, ops)
  /\ MayRefuse(op)
  /\ Abandon
  /\ UNCHANGED <<streams, late>>

\* The daemon is down or answers with a passing error: nothing was done.
ApplyFails(op) ==
  /\ pc = "apply"
  /\ IsNextOp(op, ops)
  /\ Abandon
  /\ UNCHANGED <<streams, late>>

\* The client gives up after timeout_seconds; the request is still on its way.
ApplyTimesOut(op) ==
  /\ pc = "apply"
  /\ Cardinality(late) < MaxLate
  /\ IsNextOp(op, ops)
  /\ Abandon
  /\ late' = late \cup {RequestOf(op)}
  /\ UNCHANGED streams

\* reconcile() returns; run() logs the report.
Finish ==
  /\ pc = "apply"
  /\ ops = {}
  /\ warned' = errors
  /\ errors' = {}
  /\ pc' = "wait"
  /\ UNCHANGED <<active, inserting, shutdown, dirty, desired, ops, streams, late>>

\* wait_for returns because the predicate holds.
Wake ==
  /\ pc = "wait"
  /\ dirty
  /\ pc' = "read"
  /\ UNCHANGED <<active, inserting, shutdown, dirty, desired, ops, errors, warned, streams, late>>

\* Variant for validation: wait() in the place of wait_for().
IntervalNeverOver == FALSE

\* wait_for returns because the interval is over.
IntervalOver ==
  /\ pc = "wait"
  /\ ~dirty
  /\ pc' = "read"
  /\ UNCHANGED <<active, inserting, shutdown, dirty, desired, ops, errors, warned, streams, late>>

(***************************************************************************)
(* The daemon and its other users                                          *)
(***************************************************************************)
OutsideWrite(s, st) ==
  /\ streams' = [streams EXCEPT ![s] = st]
  /\ UNCHANGED <<bridge, late>>

\* The daemon comes back with some of its streams.
DaemonRestart ==
  /\ \E kept \in SUBSET Slot :
       streams' = [s \in Slot |-> IF s \in kept THEN streams[s] ELSE NoStream]
  /\ UNCHANGED <<bridge, late>>

LateDelivery(r) ==
  /\ Accepted(r.put)
  /\ streams' = [streams EXCEPT ![r.slot] = r.put]
  /\ late' = late \ {r}
  /\ UNCHANGED bridge

LateLoss(r) ==
  /\ late' = late \ {r}
  /\ UNCHANGED <<bridge, streams>>

-----------------------------------------------------------------------------
\* What run() does when no REST call fails for a passing reason.
LoopStep ==
  \/ ReadDesired \/ Stop \/ ClearDirty \/ GetState \/ Finish \/ Wake \/ IntervalOver
  \/ \E op \in ops : ApplyOk(op) \/ ApplyRefused(op)

Faults ==
  \/ GetFails
  \/ \E op \in ops : ApplyFails(op) \/ ApplyTimesOut(op)

InFlight == \E r \in late : LateDelivery(r) \/ LateLoss(r)

Environment ==
  \/ \E c \in Registry : \E e \in Controls[c] : Activate(c, e)
  \/ \E s \in Slot : \E st \in Intruders[s] : OutsideWrite(s, st)
  \/ Shutdown
  \/ Restart
  \/ DaemonRestart

Insertion == InsertNodeResources \/ InsertionFails

Next == LoopStep \/ Faults \/ InFlight \/ Environment \/ Insertion

Spec == Init /\ [][Next]_vars

(***************************************************************************)
(* Fairness: run() is a thread of its own whose waits all have a bound     *)
(* (wait_for has the interval, every REST call the client's timeout), and  *)
(* so is the thread that inserts the resources, with success or without.   *)
(* Nothing is assumed of controllers, operators, faults or requests in     *)
(* flight.                                                                 *)
(***************************************************************************)
FairSpec == Spec /\ WF_vars(LoopStep) /\ WF_vars(Insertion)

-----------------------------------------------------------------------------
TypeOK ==
  /\ active \in [Registry -> Endpoint \cup {NoResource}]
  /\ inserting \in {"running", "over"}
  /\ shutdown \in BOOLEAN
  /\ pc \in {"read", "clear", "get", "apply", "wait", "done"}
  /\ dirty \in BOOLEAN
  /\ desired \in DesiredStreams
  /\ ops \subseteq PlannedOp
  /\ errors \subseteq Slot
  /\ warned \subseteq Slot
  /\ streams \in DaemonState
  /\ late \subseteq Request

\* Every write the bridge has decided on and the daemon may still carry out.
Pending == {RequestOf(o) : o \in ops} \cup late

WithinBounds(r) ==
  /\ MayWrite(r.slot, r.saw, r.put)
  /\ r.put # NoStream =>
       \E c \in Registry : SlotOf(c) = r.slot /\ r.put.owner = c.marker

(***************************************************************************)
(* Fail closed (README, "Ownership marker"): whatever was activated,       *)
(* restarted, lost or delayed since, every write still pending was decided *)
(* on seeing the slot free or carrying this bridge's own marker, and it    *)
(* deletes the stream or puts the configured stream of that very slot.     *)
(***************************************************************************)
FailClosed == \A r \in Pending : WithinBounds(r)

(***************************************************************************)
(* The operations still to be applied in this pass carry out what this     *)
(* pass decided: they bring their slot to the intended stream, no slot     *)
(* with a conflict is among them, no two have the same slot, and of any    *)
(* two one goes first.                                                     *)
(***************************************************************************)
PassIsConsistent ==
  /\ \A o \in ops : o.slot \notin errors /\ Applied(o) = Intended(desired, o.slot)
  /\ \A o, p \in ops : o # p => o.slot # p.slot /\ (Before(o, p) \/ Before(p, o))

(***************************************************************************)
(* A foreign stream is replaced or deleted on the bridge's account only if *)
(* it came into its slot after the bridge had looked there: the write was  *)
(* decided on another content of the slot.                                 *)
(***************************************************************************)
OverwriteOnlyByRace ==
  [][\A s \in Slot :
       /\ Foreign(streams[s])
       /\ streams'[s] # streams[s]
       /\ ops' # ops \/ late' # late
       => \E r \in Pending : r.slot = s /\ r.saw # streams[s]]_vars

(***************************************************************************)
(* The SDP a controller gives to receivers and the source the daemon is    *)
(* told to send are made apart from each other, by the setter from the     *)
(* resolved endpoint and by build_desired_locked with a fallback of its    *)
(* own.  Whatever is activated, in whichever order, they name the same     *)
(* destination for every enabled sender.                                   *)
(***************************************************************************)
SdpNamesTheStream ==
  \A c \in Registry :
    c.side = "sender" /\ BuildDesired(active)[c] # NoStream
      => MakePayload(c, SdpDestination(active[c])) = BuildDesired(active)[c]

\* The contract with the daemon's other users, on the bridge's own variables.
Contract ==
  INSTANCE SlotContract WITH want <- BuildDesired(active),
                             intent <- desired,
                             requests <- Pending

\* The process does nothing to the daemon that the contract does not allow.
ImplementsContract == Contract!Spec

\* How the loop follows the NMOS side, on the bridge's own variables.
Loop ==
  INSTANCE WakeContract WITH Wants <- DesiredStreams,
                             Nothing <- [c \in Registry |-> NoStream],
                             want <- BuildDesired(active),
                             intent <- desired,
                             pc <- IF pc \in {"get", "apply"} THEN "pass" ELSE pc

\* What is wanted changes only together with the flag: the insertion of all or
\* some resources, which no handler announces, leaves every stream disabled, a
\* pass works on what was wanted at one instant.
ImplementsWakeContract == Loop!Spec

(***************************************************************************)
(* Self-healing (README, "How activation reaches the daemon"): once        *)
(* controllers, operators and faults keep still, the slots the bridge may  *)
(* write come to hold what the active endpoints ask for, and keep it, even *)
(* when a request that timed out arrives in between.                       *)
(***************************************************************************)
Undisturbed == <>[][LoopStep \/ Insertion \/ InFlight]_vars

InSync == pc = "done" \/ Justified(BuildDesired(active), streams) = {}

Converges == Undisturbed => <>[]InSync

(***************************************************************************)
(* A conflict that stays is logged (README, "reconciliation reports the    *)
(* conflict"): in an undisturbed system the slots the last pass warned of  *)
(* come to be those where a foreign stream is in the way of an enabled one.*)
(***************************************************************************)
Conflicts ==
  {SlotOf(c) : c \in {c \in Registry : /\ BuildDesired(active)[c] # NoStream
                                       /\ Foreign(streams[SlotOf(c)])}}

ConflictsAreReported == Undisturbed => <>[](pc = "done" \/ warned = Conflicts)

\* A term signal ends the loop, whatever the daemon does in the meantime.
ShutdownEndsLoop == shutdown ~> (pc = "done" \/ ~shutdown)

(***************************************************************************)
(* Statements of the repository that the code does not keep in every case. *)
(***************************************************************************)

\* README: an unmanaged stream, or one of another namespace, is never
\* overwritten.
NeverOverwritten ==
  [][\A s \in Slot :
       Foreign(streams[s]) /\ (ops' # ops \/ late' # late)
         => streams'[s] = streams[s]]_vars

\* connection.h: run() reconciles whenever an activation occurs.  When it
\* waits for the interval, it has seen every activation.
NoActivationSleeps ==
  pc = "wait" /\ ~dirty => desired = BuildDesired(active)

\* README: a receiver with master_enable = false has its daemon sink removed.
DisabledSinkIsRemoved ==
  Undisturbed =>
    <>[](\/ pc = "done"
         \/ \A c \in Registry :
              /\ c.side = "receiver"
              /\ active[c] # NoResource
              /\ ~active[c].master_enable
              => ~Mine(streams[SlotOf(c)]))
=============================================================================
