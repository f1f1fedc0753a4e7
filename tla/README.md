# AES67 NMOS bridge: specification, model checking and proofs

The bridge is an NMOS node (IS-04/IS-05, on nmos-cpp) that turns the active
connection parameters of its senders and receivers into streams of an AES67
daemon, by REST calls. It shares the daemon with operators and with bridges of
other namespaces, knows its own streams only by a marker in their names, and
promises to leave all others alone. This directory holds TLA+ modules of that
program, TLC configurations, and proofs checked by TLAPS.

Run them in this directory: `tlc -config Safety.cfg MCDaemonReconciler`,
`tlapm DaemonReconcilerProofs.tla`, and so on (`PROJECT.json` lists every run,
and the source lines behind every definition).

## 1. Inventory

| Part | State | Operations | Correct when |
| --- | --- | --- | --- |
| `bridge/config` | none; returns `BridgeConfig` | `parse_bridge_config`, `check_unique` | only valid configurations pass; ids are unique per side, so that the registry loses no stream |
| `bridge/ownership` | none | `managed_name`, `parse_managed_name` | what the bridge writes it reads back; nothing else passes for its own |
| `bridge/daemon_client` | none; a new HTTP client per call, 5 s timeout | `get_state`, `put_/delete_` for sources and sinks | an answer >= 400 throws; the state read is the daemon's |
| `bridge/reconciler` | namespace, daemon | `plan`, `apply`, `reconcile` | exactly the writes that are needed and allowed, one per slot, none on a conflict; a second plan is empty |
| `nmos/connection`, `DaemonReconciler` | `dirty_`, `wait_mutex_`, `wait_cv_`; reads `model.connection_resources`, `model.shutdown` | `activation_handler`, `build_desired_locked`, `run` | every activation reaches the daemon; conflicts are reported; faults heal; shutdown ends the loop |
| `nmos/connection`, resolver and transport file | none | `make_auto_resolver`, `make_transportfile_setter` | "auto" becomes the configured group; the SDP describes the stream |
| `nmos/nmos_resources`, resources | the registry; inserts resources into the model | `build_registry`, `insert_node_resources` | every configured stream has its resources, disabled at first |
| `nmos/nmos_resources`, settings | edits the settings | `ensure_seed_id`, `apply_api_address_filters`, `apply_registration_settings` | the node is advertised only where configured; a registration mode leaves nothing of another behind |
| `nmos/nmos_resources`, interfaces | none | `rtp_host_interface`, `node_host_interfaces` | streams are bound to interfaces of their node |
| `main` | threads of the node server | start-up, wait for a term signal | configuration errors are reported before anything starts |
| nmos-cpp, the daemon | node model; streams | outside the repository | - |

How they interact. A controller's activation runs on nmos-cpp's thread under the
model's write lock: "auto" is resolved, the active endpoint is replaced, and the
activation handler sets `dirty_` under `wait_mutex_` and notifies. The thread of
`run()` reads all active endpoints under the read lock, releases it, clears
`dirty_`, GETs the daemon's streams, plans, and issues one PUT or DELETE after
the other; any exception ends the pass. It then waits until `dirty_` is set or
the interval is over. A third thread inserts the resources at start-up. `main` checks
the configuration, edits the settings, builds the registry, starts these threads
with the node server, waits for a term signal and joins them.

What is hard here: the daemon is read once and written later, while others write
it; a REST call may fail or be carried out after its timeout; activations come
at any point of a pass; neither the active endpoints nor anything else survives a
restart, but the daemon's streams do; the marker travels through names that
operators and the daemon itself may change. `PROJECT.json` lists these hazards
with their lines.

## 2. Modules

| Module | Models |
| --- | --- |
| `DaemonStreams` | slots, streams, ownership, the configured streams and the assumptions on them |
| `ReconcilerPlan` | `Reconciler::plan` as sets of operations, their order, and the reference definition `Justified` |
| `PlanLoop` | `Reconciler::plan` loop by loop, with its local sets |
| `SlotContract` | abstract specification: what the bridge promises the daemon's other users |
| `DaemonReconciler` | the process: IS-05 side, `run()`, REST calls with their faults, restarts, the daemon and its other users |
| `Ownership` | the marker functions on strings of symbols |
| `ConfigCheck` | the checks of `parse_bridge_config` and `build_registry` |
| `NmosSettings` | what the bridge does to the nmos-cpp settings, as functions: CIDRs, registration modes |
| `Startup` | `main` from the settings file to the open server, and `insert_node_resources` |
| `WakeContract` | abstract specification: how the loop follows the NMOS side |
| `BridgeThreads` | `main`, `run()`, the activation thread and the resource thread, with their locks and condition variable |
| `ReconcilerPlanProofs`, `PlanLoopProofs`, `DaemonReconcilerProofs`, `BridgeThreadsProofs`, `ConfigCheckProofs`, `StartupProofs`, `OwnershipProofs` | theorems and proofs |
| `OrderLemmas` | lemmas: least elements, induction through sets of numbers, division with remainder |
| `MC*` | instances for TLC |

`DaemonReconciler` and `PlanLoop` extend `ReconcilerPlan`, which extends
`DaemonStreams`. `SlotContract` is instantiated by `DaemonReconciler` with
`want <- BuildDesired(active)`, `intent <- desired`, `requests <- Pending`.
`Startup` extends `ConfigCheck` and `NmosSettings`: its steps `Check` and `Build` are
the actions of `ConfigCheck`, and its other steps apply the functions of
`NmosSettings`.

`WakeContract` has two implementations. `DaemonReconciler` takes every lock for one
step and models the pass and the daemon; `BridgeThreads` leaves these out and has
each lock, the flag and the sleeping thread as state. That both implement it is
why the coarse steps of the first are justified: every interleaving the second
allows is one of an activation, a read, a clear, a pass and a wait, each in one
step.

### State and actions of `DaemonReconciler`

`active` is the `/active` endpoint of each connection resource (or
`NoResource`, before `insert_node_resources`), reduced to `master_enable`,
`rtp_enabled` and a target, which is the destination of a sender and the SDP of
a receiver. `inserting` says whether the thread of `insert_node_resources` still
runs. `pc` is the position of `run()`:

| `pc` | Action | Code |
| --- | --- | --- |
| `read` | `ReadDesired`, `Stop` | the block under the read lock; `break` |
| `clear` | `ClearDirty` | `dirty_.store(false)` |
| `get` | `GetState`, `GetFails` | `get_state` and `plan`; an exception |
| `apply` | `ApplyOk`, `ApplyRefused`, `ApplyFails`, `ApplyTimesOut` for the next operation, `Finish` | the loop of `reconcile`; the logging of the report |
| `wait` | `Wake`, `IntervalOver` | `wait_for` |

`InsertNodeResources` and `InsertionFails` are the two ends of the insertion: all
resources, or none or some of the senders, after an exception that nobody repairs. A
resource that is missing counts as disabled. `Activate` is an activation with the
resolver and the handler. The handler and
the predicate of `wait_for` hold `wait_mutex_`, so no wake-up is lost between
test and sleep; each takes one step. `Shutdown` sets `model.shutdown`; `Restart`
is a crash or an orderly end followed by a new process, at any point of a pass.
A process that dies during a call is `ApplyTimesOut` followed by `Restart`; one that
an exception of the insertion takes with it is `Restart` too.
`late` holds calls whose client gave up: they are carried out at any later time,
or never. `OutsideWrite` and `DaemonRestart` are the daemon's other life.

A stream is its ownership (what `parse_managed_name` returns for its name) and
one value for the rest of its JSON. Drift is inequality of the two, which is what
the field-by-field comparison amounts to when the daemon returns the fields it
was sent; fields it adds do not count. The `marker` of a configured stream is
what the parser reads back from the name the bridge gives it. For the names of
which `Ownership` shows that they survive the round trip it is the stream's own
ownership; the proofs do not assume that.

### State and actions of `BridgeThreads`

`pc` has the position of each thread, `writer` and `readers` the model's lock,
`mutex` the owner of `wait_mutex_`. `inserted` says that the resources are in
the model; `active` counts the activations and `desired` is the value of `active`
when `run()` last read the endpoints. A step ends where a thread may block or where
another can see what it has done.

| Thread | Steps in order | Code |
| --- | --- | --- |
| main | `Open`, `TermSignal`, `Close`, `Join` | the server guard, `wait_term_signal`, the guard's destructor in nmos-cpp |
| resources | `Lookup`, `InsertLock`, `Insert`; `InsertFails` or `Terminate` | `insert_node_resources`; an exception leaves the thread function |
| activation | `ActivationDue`, `ActivationLock`; `Change`, `HandlerStore`, `HandlerNotify`, again after `AnotherDue`; `ActivationUnlock`; `ActivationEnds` | nmos-cpp's activation thread, the handler |
| run | `RunReadLock`, `Read`, `Clear`, `Pass`, `GuardLock`; `Leave`, or `Block`, `Sleep`, then `Retest` after `HandlerNotify` or `SpuriousWake`, or `IntervalOver` and `LeaveAtTimeout` | `run()`, with `wait_for` taken apart |

### State and actions of `Startup`

`step` is the next thing `main` does, `settings` are those of the node model,
`options` what the settings file says beside the streams. `inserting` is the
position of `insert_node_resources`, `bound` its two locals and `resources` what it
has inserted, the node's interfaces and one sender or receiver at a time. Every
exception is an action (`ReadFails`, `RejectStream`, `FilterFails`, `RegistrationFails`
and `OpenFails` end the process before it serves anything, `LookupFails` and
`InsertStreamFails` the thread, which `BridgeThreads` lets take the process with it).
`ReadFails` stands for whatever goes wrong before the checks, from the file to the last
JSON key. A dotted address is the
sequence of its numbers, a 32-bit word the set of its one bits, a `host:port` text
a pair.

## 3. Runs

| Run | Result | Distinct states |
| --- | --- | --- |
| `Safety` | holds | 169 thousand |
| `Liveness` | holds | 65 thousand |
| `PlanLoop` | holds | 431 thousand |
| `Ownership` | holds | 473 thousand |
| `Threads` | holds | 4133 |
| `Startup` | holds | 1413 thousand |
| `Overwrite`, `Wakeup`, `Refusal`, `Unreported`, `RoundTrip`, `StartupErrors` | violated (section 5) | - |

**Safety.** One sender and one receiver on daemon id 0 and a second id where a
stream of an earlier configuration can lie. The sender is activated with "auto",
the receiver with and without an SDP; others put a stream with our marker but
different contents, a left-over of ours, or another namespace's stream into the
slots; one call may be in flight after its timeout (`MaxLate = 1`). That is enough for every
operation of the plan (create, update, both kinds of removal) and every conflict to
meet every fault. (With one sender, an insertion that fails leaves nothing behind; some
senders without the others are a case of the proofs.) Checked: `TypeOK`; `FailClosed`, every write pending, however
old, was decided on a free slot or one of ours; `PassIsConsistent`, what is left
of a pass has one operation per slot, in a total order, none on a conflict, each
to the intended stream; `OverwriteOnlyByRace`, a foreign stream is taken away
only by a write that was decided on another content of the slot;
`SdpNamesTheStream`, the SDP of a sender and the daemon's source name the same
destination; `ImplementsContract` and `ImplementsWakeContract`, the refinements.

**Liveness.** The sender is switched between two states and the slots receive
manual streams and left-overs. `Converges`: once controllers, operators and
faults keep still, the slots come to be as the active endpoints ask and stay so,
even if a delayed request arrives in between. `ConflictsAreReported`: the
conflicts of the last pass come to be those that exist. `ShutdownEndsLoop` holds
without any stillness. Here the daemon accepts every body (`Rejected = {}`);
the runs `Refusal` and `Unreported` show what is lost when it does not.

**PlanLoop.** Two senders, whose order in the registry is not that of their
slots, and one receiver; every combination of enabled and disabled streams and of
seven contents per slot. `PlanIsJustified` compares the loops with a definition
that knows no loops; `LoopsMatchSets` with the sets of `ReconcilerPlan`, their
order included; `SecondPassIsEmpty` is idempotence; `OneStreamPerMarker`, a stream
that has moved to another slot leaves nothing behind in the old one.

**Ownership.** Namespaces of up to 3 symbols, ids of up to 2, with and without a
label; names of up to 8 symbols that start with one of the prefixes. A keyword is
one symbol and each character the code searches for is one of its own, so 3
symbols are enough for a namespace with an inner `)/`, and 8 for a complete
marker with two symbols to spare. `PlainNamesRoundTrip` gives the exact condition
of the round trip, `OlderNamesAreRead` the two older spellings,
`OwnershipIsSpelled` that ownership is only read from names that spell it,
`NamesAreStoredAsWritten` that the marker has nothing a daemon without square
brackets in its names would drop.

**Threads.** Three activations are enough for one before, during and after a pass.
Deadlock is checked; `NoCircularWait` adds that no two threads of a system that goes
on otherwise wait for each other. `NoLostWakeup` is about the moment between the test
of `dirty_` and the sleep. `EveryActivationIsRead` and `ProcessEnds` are liveness:
the wait always ends, by a notification or by the interval, and `shutdown`, which
does not notify `wait_cv_`, is seen by then. `ProcessEnds` counts a process that the
exception has ended as one that has come to its end. `ImplementsWakeContract` is the
refinement, in which `Terminate` is a restart.

**Startup.** Settings files in three families: every set of up to two streams a
side, with daemon ids -1, 0, 63 and 64; every CIDR of the scaled width, readable or
not, and every choice of interface on a host with four; every registration mode
with every address and port, with and without registry settings of nmos-cpp's own.
`RegistryIsUnique`, `NoStreamIsLost` and `RejectsTheInvalid` are where the
assumption `RegistryAssumption` of the other modules comes from.
`AdvertisesWithinCidrs` compares the shifts and masks with the agreement of the
first bits, one by one; `RegistrationModesAreApart` and `BindingsAreNodeInterfaces`
relate what is in the model at the end to the settings file.

Fairness, in `FairSpec`: weak fairness of `LoopStep` and of `Insertion`, which may
end either way. Both are threads of their own and never wait without a
bound: `wait_for` has the interval, each REST call the client's timeout, and the
locks are held for short. `LoopStep` holds only calls that are answered; nothing
is assumed about faults, controllers, operators or delayed requests. `Undisturbed`
in `Converges` is a premise of the property, not of the specification.

In `BridgeThreads` each thread has weak fairness, and the steps that take a lock
others take again and again have strong fairness: a thread that waits for a lock
is not passed over for ever. `IntervalOver` has strong fairness because the
deadline of `wait_for` is one point in time, which spurious wakes do not put off.
Nothing is assumed of term signals, activations and spurious wakes.

Deadlock is checked for all runs of `DaemonReconciler` and `BridgeThreads`. It is
off in `PlanLoop`, `Ownership` and `Startup`, which model functions that return.

## 4. Proofs

The theorems are about every value of the constants: every registry that passes
`RegistryAssumption`, every set of daemon ids, namespaces and bodies, every
behaviour of controllers and operators, any number of delayed requests, strings,
configurations and hosts of any size. They assume the named `ASSUME`s of the
modules, which TLC evaluates in the runs that use them, and nothing else but `MarkersReadBack`
where it is written down as a hypothesis.

The plan and the process:

- `ReconcilerPlanProofs` is about one plan. `PlanMakesJustifiedWrites`: the
  operations are exactly the justified writes. The argument goes slot by slot: a
  configured stream is determined by its slot (`SlotDeterminesConfig`, from
  uniqueness), so the first loop decides the slots of enabled streams, and
  a slot of no enabled stream can be reached by a removal of either loop, never
  of both. From it follow `ConflictsAreNotPlanned`, `PlanIsTotallyOrdered`,
  `CarriedOutPlanIsFinal` and `CarriedOutPlanKeepsConflicts`; the last needs that the
  bridge reads its own marker back.
- `DaemonReconcilerProofs` is about the process. `FailClosed` and
  `PassIsConsistent` are not inductive: they speak of the operations left, and
  nothing in them says where these come from. `IInv` adds that: while a pass is
  applied, its operations and conflicts are of one plan, made from this pass's
  `desired` and from some past state of the daemon (`OpsComeFromOnePlan`);
  `desired` carries the configured markers (`DesiredIsMarked`); delayed requests
  keep within their bounds (`LateIsWithinBounds`). `Invariant` is
  `Spec => []IInv`; `TypeCorrect`, `BridgeFailsClosed`, `PassesAreConsistent` and
  `OverwritesAreRaces` follow from it, with the theorems about the plan.
- `BridgeImplementsContract`: `Spec => Contract!Spec`. `ReadDesired` is `Adopt`,
  `GetState` is `Decide` (by `PlanMakesJustifiedWrites`), `ApplyOk` and
  `LateDelivery` are `Execute`, an activation is `Control`, a restart is
  `Forget`; the rest only drops requests or stutters.
- `BridgeImplementsWakeContract`: `Spec => Loop!Spec`. The insertion of the
  resources has no counterpart in the contract: it must not change what is wanted,
  whether it succeeds or stops half way. That needs `NothingBeforeInsertion` (no
  resource, hence no activation, before the thread is over) and that they are created
  disabled.
- `SdpsNameTheStreams`: from `Resolved`, every endpoint is a fixed point of the
  resolver, whether it was created or activated.
- `BridgeThreadsProofs` is about the locks. `NoLostWakeup` and `NoCircularWait` are
  not inductive; `IInv` adds who holds which lock where (`WriterIsInside`,
  `ReaderIsInside`, `MutexIsInside`), that readers exclude the writer, and that
  `dirty_` is still clear when `run()` comes to sleep (`BlockedMeansClean`).
  `NoWakeupIsLost` and `NoThreadsWaitForEachOther` follow, and
  `ThreadsImplementWakeContract`: `HandlerStore` is `Activate`, and `Read` sees no
  endpoint whose flag is still to be set (`ReadSeesAll`). `NobodyAssumption` and
  `ActivationsAssumption` are all that is assumed there.

The loops of the plan, `PlanLoopProofs`:

- `LoopInvariant` is the loop invariant. `SetsMatch` says what
  `enabled_nmos_ids`, `enabled_daemon_ids` and `handled_ids` hold for the streams
  visited so far, `TodoMatches` which are
  still to come, `ReportMatches` that the operations and conflicts so far are those
  of the sets of `ReconcilerPlan` for the slots visited, and `ReportIsOrdered` that
  they are in the order of `Before`. Of the five run properties only
  `TypeOK` is inductive: the others speak of the end, and the orphan loop is right only because the stream loop
  has left exactly the right slots in `handled_ids`.
- At the end of the loops it gives `LoopsComputeSets`, and with
  `PlanMakesJustifiedWrites` also `LoopsMakeJustifiedWrites`. This is what lets
  `DaemonReconciler` take a plan for one step.
- `OnePassIsEnough` and `NoMarkerIsLeftTwice` have the hypothesis `MarkersReadBack`:
  the bridge recognises the names it gives its streams. TLC confirms it of the
  instance (`PlainAssumption`); `MarkerRoundTrip` says for which configurations it
  holds. A bridge that
  does not recognise its own names reports them as conflicts: see `RoundTrip` in
  section 5.

The start-up, `ConfigCheckProofs` and `StartupProofs`:

- `CheckInvariant` relates the two sets of `check_unique` to the streams it has
  passed (`IdsCollected`), which are valid so far (`StreamsChecked`), a rejection to
  an invalid configuration (`GlobalsChecked`), and the registry to the streams
  entered (`StreamsEntered`). `StartupImplementsConfigCheck`
  carries it over to `Startup`, where `RegistryOfStartupIsUnique`,
  `RegistryOfStartupIsComplete` and `StartupRejectsTheInvalid` follow. These are what
  `RegistryAssumption` asks of a registry.
- `ModesOfStartupAreApart` needs, step by step, which settings have not been
  touched yet (`SettingsInv`). `BindingsOfStartupAreListed` needs that the RTP
  interface bound by `Lookup` is the one that `InsertNode` lists, and that it stays so
  while streams are inserted (`BindingInv`): settings and host no longer change then.
- `MaskingComparesPrefixes`: shifting and masking two words compares the first
  bits of two dotted addresses, for every width of an octet and every prefix.
  `StartupAdvertisesWithinCidrs` follows (`FilterInv`).
- `InterfacesAssumption`: a host has no two interfaces of one name.
  `InputsAssumption`: the settings have the keys the code reads, and a registration
  address that is given has a host or a port. `AddressesAssumption`: a set of
  addresses is not the value that stands for an absent key.

The marker, `OwnershipProofs`, for strings of every length:

- `Layout` gives the position of every part of a marked name. The lemmas about
  `find` (`OneSymbol`, `TwoSymbols`) and about the least position found then tell
  where the parser cuts. `ReadBack` is about all three spellings: the owner is read
  back exactly when the namespace does not contain what closes it and the id has no
  space. `MarkerRoundTrip` and `OlderNamesAreReadBack` are instances of it.
- `OnlySpelledIsOwned` is the converse: `Cut` takes a name apart where the parser
  does, and the pieces put together are a prefix of the name.
- `StoredAsWritten` and `StrippedRoundTrip` are about dropping symbols. `Kept` is a
  recursive function over the positions of a string. What it computes is shown
  through sets: the positions up to which the claim holds contain 0 and with each
  number the next one (`InductionOverSet`, from the well-foundedness of `<` on
  `Nat`; `InductionUpTo` for an interval).
- `PlainNamesAreReadBack`, `OlderNamesAreReadBack`, `OnlySpelledOwnershipIsRead` and
  `ManagedNamesAreStoredAsWritten` state the four properties of the run `Ownership`,
  whose bounds (`MaxNs`, `MaxId`, `MaxName`) play no part in them.

Every invariant and every action property of the passing runs is a theorem.
Model-checked only: the liveness properties `Converges`, `ConflictsAreReported`,
`ShutdownEndsLoop`, `EveryActivationIsRead` and `ProcessEnds` (fairness is out of
the prover's reach).

## 5. Where the code and its documentation disagree

1. `Overwrite`: a manual stream that appears between the GET and the PUT of a
   pass is overwritten ("never overwritten", `README.md:68`). What does hold, and
   is proved, is `OverwriteOnlyByRace`.
2. `Wakeup`: `dirty_` is cleared after the lock under which the endpoints were read
   has been released; an activation in between waits for the interval
   (`connection.h:48`). `Converges` shows that the interval repairs it.
3. `Refusal`: a source the daemon refuses for good keeps every pass from reaching
   later operations; the sink of a disabled receiver is not removed
   (`README.md:67`).
4. `Unreported`: in the same case no conflict is reported (`README.md:69`).
5. `RoundTrip`: an empty id, one with a space, or a namespace with `)/` passes
   the configuration and does not survive the round trip
   (`tests/test_ownership.cpp:7`).
6. `StartupErrors`: an interface name that matches nothing, or a codec of too many
   digits, throws in a thread of the open node server ("errors are reported clearly
   before any NMOS machinery starts", `main.cpp:43`).

## 6. Bounds and abstractions

- `MaxLate` bounds the requests in flight after their timeout (0 or 1 in the
  runs, any natural number in the proofs).
- `MaxNs`, `MaxId`, `MaxName` bound strings, `MaxStreams` a side of the
  configuration, `MaxActivations` the activations of a behaviour of
  `BridgeThreads` (any natural number in the proofs).
- `OctetBits` is the width of an octet, 2 in the runs and 8 in the code, so that
  every address and prefix can be tried; `MaxPort` and `MaxInt` stand for 65535 and
  the range of `std::stoi`, their neighbours are among the inputs.
- The host's interfaces do not change while the process starts.
- What an exception does that leaves a thread function is nmos-cpp's business. Both
  outcomes are modelled, the end of the thread (`InsertFails`) and of the process
  (`Terminate`, or `Restart` in `DaemonReconciler`); which of them the build has, the
  repository does not say.
- There is no clock: `IntervalOver` may come at once or late, and a timeout at
  any time.
- A successful REST call is one step, and so is a GET with the plan made from
  it; what happens between GET and PUT is between two steps.
- In `DaemonReconciler` the locks are held for one step and are not state;
  `BridgeThreads` has them, and leaves out what a pass does.
- A pass of `BridgeThreads` is one step: it holds no lock, and `DaemonReconciler` has
  its details.
- The daemon stores what it is sent. Answers of GET are complete.

## 7. Not modelled

The SDP of senders beyond its destination, labels, channels and the IS-04 graph of
device, sources and flows (data without control), the ports and interface
addresses the resolver fills in, JSON access in the parser, logging other than the
conflicts, exit codes, the build and the test harnesses. The daemon's answers are
complete and it stores what it is sent: no source of this repository describes
anything else, except for the names, which `Ownership` models.

Of the resolver, `ResolveAuto` has the destination of a sender. The ports are constants
of the configuration; `source_ip` and `interface_ip` come from the constraints of the
resource, and where it has none (an interface without an address) `constraints.at` or
`front` throws in nmos-cpp's activation, whose reaction is outside the repository. Of
the transport file, `SdpDestination` has the transport parameters of the active
endpoint. The setter's early returns are left out: flow, source and node are inserted
before their sender under one lock, so that an active sender never lacks them. Of the
configuration, valid is what the code checks: that the destination of a sender is a
multicast address is not among it (`README.md:186` asks for one, `config.h:18` lets it
be empty). `PROJECT.json` gives
the reason for each part, and for each hazard that no property covers.

## 8. Plan

What is left, in this order:

1. The safety half of the liveness properties: what a pass without faults and
   disturbances leaves on the daemon, as a theorem of `DaemonReconciler`.
2. A theorem that ties `MarkersReadBack` to `Plain`: the configured streams written
   as strings of `Ownership`.
3. `RegistryAssumption` as a theorem about the registry `Startup` hands over.
4. A variant of the daemon whose answers lack one side.

Two bridges on one daemon are not a module of their own: what another bridge does to
a slot is an `OutsideWrite`, and `OverwriteOnlyByRace` is what each owes the other.
