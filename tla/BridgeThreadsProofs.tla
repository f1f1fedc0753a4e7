------------------------ MODULE BridgeThreadsProofs ------------------------
(***************************************************************************)
(* What holds of the threads of the process for any number of activations. *)
(***************************************************************************)
EXTENDS BridgeThreads, TLAPS

-----------------------------------------------------------------------------
(***************************************************************************)
(* The inductive invariant: who is where decides who holds which lock.     *)
(***************************************************************************)

\* The write lock is held in these sections, and nowhere else.
WriterIsInside ==
  /\ writer = "activation" <=> pc["activation"] \in {"change", "handle", "notify", "next"}
  /\ writer = "resources" <=> pc["resources"] = "insert"

\* run() reads the endpoints under the read lock, alone or not.
ReaderIsInside == readers = IF pc["run"] = "read" THEN {"run"} ELSE {}

\* No thread writes while run() reads.
ReadersExcludeWriter == writer = Nobody \/ readers = {}

\* wait_mutex_ is held while the predicate is tested, until the thread sleeps.
MutexIsInside == mutex = "run" <=> pc["run"] \in {"test", "block"}

\* The predicate's value is still true when the thread comes to sleep: the
\* handler cannot set the flag in between.
BlockedMeansClean == pc["run"] = "block" => ~dirty

\* The threads are started by the server guard.
NotYetStarted == pc["main"] = "open" => \A t \in Worker : pc[t] = "new"

\* An activation that has begun is within the bound.
OneIsLeft == pc["activation"] \in {"lock", "change"} => active < MaxActivations

IInv ==
  /\ TypeOK
  /\ WriterIsInside
  /\ ReaderIsInside
  /\ ReadersExcludeWriter
  /\ MutexIsInside
  /\ BlockedMeansClean
  /\ NotYetStarted
  /\ OneIsLeft
  /\ NoLostWakeup

\* The invariant holds before the server guard opens the server.
LEMMA InitInv == Init => IInv
<1> USE DEF Init, Started, Thread, Worker
<1>1. Init => TypeOK
  <2>1. Init => pc \in [Thread -> Place]
    BY DEF Place, MainPlace, ResourcesPlace
  <2>2. Init => /\ pc["main"] \in MainPlace /\ pc["resources"] \in ResourcesPlace
                /\ pc["activation"] \in ActivationPlace /\ pc["run"] \in RunPlace
    BY DEF MainPlace, ResourcesPlace, ActivationPlace, RunPlace
  <2>3. Init => active \in 0..MaxActivations /\ desired \in 0..active
    BY ActivationsAssumption
  <2> QED
    BY <2>1, <2>2, <2>3 DEF TypeOK
<1>2. Init => WriterIsInside /\ ReaderIsInside /\ ReadersExcludeWriter /\ MutexIsInside
  BY NobodyAssumption DEF WriterIsInside, ReaderIsInside, ReadersExcludeWriter, MutexIsInside
<1>3. Init => BlockedMeansClean /\ NotYetStarted /\ OneIsLeft /\ NoLostWakeup
  BY DEF BlockedMeansClean, NotYetStarted, OneIsLeft, NoLostWakeup
<1> QED
  BY <1>1, <1>2, <1>3 DEF IInv

USE DEF IInv, TypeOK, WriterIsInside, ReaderIsInside, ReadersExcludeWriter,
        MutexIsInside, BlockedMeansClean, NotYetStarted, OneIsLeft, NoLostWakeup,
        Thread, Worker,
        Place, MainPlace, ResourcesPlace, ActivationPlace, RunPlace, locks, model, Go

\* Steps of main preserve it.
LEMMA MainInv ==
  ASSUME IInv, MainStep \/ TermSignal
  PROVE  IInv'
<1>1. CASE Open
  <2>1. /\ pc'["main"] = "signal" /\ pc'["run"] = "lock"
        /\ pc'["activation"] = "idle" /\ pc'["resources"] = "lookup"
    BY <1>1 DEF Open
  <2>2. pc' \in [Thread -> Place]
    BY <1>1 DEF Open
  <2>3. /\ writer' = Nobody /\ readers' = {} /\ mutex' = Nobody
        /\ UNCHANGED <<inserted, active, desired, dirty, shutdown>>
    BY <1>1, NobodyAssumption DEF Open
  <2> QED
    BY <2>1, <2>2, <2>3, NobodyAssumption
<1>2. CASE TermSignal
  BY <1>2, NobodyAssumption DEF TermSignal
<1>3. CASE Close
  BY <1>3, NobodyAssumption DEF Close
<1>4. CASE Join
  BY <1>4, NobodyAssumption DEF Join
<1> QED
  BY <1>1, <1>2, <1>3, <1>4 DEF MainStep

\* Steps of the thread of insert_node_resources preserve it.
LEMMA ResourcesInv ==
  ASSUME IInv, ResourcesStep
  PROVE  IInv'
<1>1. CASE Lookup
  BY <1>1, NobodyAssumption DEF Lookup
<1>2. CASE InsertLock
  BY <1>2, NobodyAssumption DEF InsertLock, WriteLock
<1>3. CASE Insert
  BY <1>3, NobodyAssumption DEF Insert, WriteUnlock
<1>4. CASE InsertFails
  BY <1>4, NobodyAssumption, ZenonT(30) DEF InsertFails, InsertThrows
<1>5. CASE Terminate
  <2>1. /\ pc'["main"] = "open" /\ \A t \in Worker : pc'[t] = "new"
        /\ pc' \in [Thread -> Place]
    BY <1>5 DEF Terminate, Started
  <2>2. /\ writer' = Nobody /\ readers' = {} /\ mutex' = Nobody
        /\ inserted' = FALSE /\ active' = 0 /\ desired' = 0
        /\ dirty' = TRUE /\ shutdown' = FALSE
    BY <1>5 DEF Terminate, Started
  <2>3. active' \in 0..MaxActivations /\ desired' \in 0..active'
    BY <2>2, ActivationsAssumption
  <2> QED
    BY <2>1, <2>2, <2>3, NobodyAssumption
<1> QED
  BY <1>1, <1>2, <1>3, <1>4, <1>5 DEF ResourcesStep

\* Steps of the activation thread preserve it.
LEMMA ActivationInv ==
  ASSUME IInv, ActivationStep \/ ActivationDue \/ AnotherDue
  PROVE  IInv'
<1>1. CASE ActivationDue
  BY <1>1, NobodyAssumption DEF ActivationDue
<1>2. CASE ActivationLock
  BY <1>2, NobodyAssumption DEF ActivationLock, WriteLock
<1>3. CASE Change
  BY <1>3, NobodyAssumption, ActivationsAssumption DEF Change
<1>4. CASE HandlerStore
  BY <1>4, NobodyAssumption DEF HandlerStore
<1>5. CASE HandlerNotify
  BY <1>5, NobodyAssumption DEF HandlerNotify
<1>6. CASE ActivationEnds
  BY <1>6, NobodyAssumption DEF ActivationEnds
<1>7. CASE AnotherDue
  BY <1>7, NobodyAssumption DEF AnotherDue
<1>8. CASE ActivationUnlock
  BY <1>8, NobodyAssumption DEF ActivationUnlock, WriteUnlock
<1> QED
  BY <1>1, <1>2, <1>3, <1>4, <1>5, <1>6, <1>7, <1>8 DEF ActivationStep

\* Steps of run() preserve it.
LEMMA RunInv ==
  ASSUME IInv, RunStep \/ SpuriousWake
  PROVE  IInv'
<1>1. CASE RunReadLock
  BY <1>1, NobodyAssumption DEF RunReadLock, ReadLock
<1>2. CASE Read
  BY <1>2, NobodyAssumption, ActivationsAssumption DEF Read, ReadUnlock
<1>3. CASE Clear
  BY <1>3, NobodyAssumption DEF Clear
<1>4. CASE Pass
  BY <1>4, NobodyAssumption DEF Pass
<1>5. CASE GuardLock
  BY <1>5, NobodyAssumption DEF GuardLock, LockMutex
<1>6. CASE Leave
  BY <1>6, NobodyAssumption DEF Leave, UnlockMutex
<1>7. CASE Block
  BY <1>7, NobodyAssumption DEF Block
<1>8. CASE Sleep
  BY <1>8, NobodyAssumption DEF Sleep, UnlockMutex
<1>9. CASE Retest
  BY <1>9, NobodyAssumption DEF Retest, LockMutex
<1>10. CASE IntervalOver \/ SpuriousWake
  BY <1>10, NobodyAssumption DEF IntervalOver, SpuriousWake
<1>11. CASE LeaveAtTimeout
  BY <1>11, NobodyAssumption DEF LeaveAtTimeout
<1> QED
  BY <1>1, <1>2, <1>3, <1>4, <1>5, <1>6, <1>7, <1>8, <1>9, <1>10, <1>11 DEF RunStep

HIDE DEF IInv, TypeOK, WriterIsInside, ReaderIsInside, ReadersExcludeWriter,
         MutexIsInside, BlockedMeansClean, NotYetStarted, OneIsLeft, NoLostWakeup,
        Thread, Worker,
         Place, MainPlace, ResourcesPlace, ActivationPlace, RunPlace, locks, model, Go

\* Every step preserves the invariant.
LEMMA StepInv == IInv /\ [Next]_vars => IInv'
<1> SUFFICES ASSUME IInv, [Next]_vars PROVE IInv'
  OBVIOUS
<1>1. CASE UNCHANGED vars
  BY <1>1 DEF vars, IInv, TypeOK, WriterIsInside, ReaderIsInside, ReadersExcludeWriter,
              MutexIsInside, BlockedMeansClean, NotYetStarted, OneIsLeft, NoLostWakeup
<1> QED
  BY <1>1, MainInv, ResourcesInv, ActivationInv, RunInv DEF Next, Over

\* The invariant holds of every behaviour.
LEMMA Invariant == Spec => []IInv
BY InitInv, StepInv, PTL DEF Spec

\* TypeOK holds of every behaviour, for any number of activations.
THEOREM TypeCorrect == Spec => []TypeOK
<1>1. IInv => TypeOK
  BY DEF IInv
<1> QED
  BY <1>1, Invariant, PTL

\* The handler and wait_for, in every interleaving: run() never sleeps with
\* dirty_ set and no notification on its way.
THEOREM NoWakeupIsLost == Spec => []NoLostWakeup
<1>1. IInv => NoLostWakeup
  BY DEF IInv
<1> QED
  BY <1>1, Invariant, PTL

-----------------------------------------------------------------------------
\* The holder of a lock, or a thread that has to end, never waits for the one
\* that waits for it: run() waits for the model's lock only when it has given
\* up wait_mutex_, and nobody waits for main.
LEMMA BlockedAreApart == IInv => NoCircularWait
<1> SUFFICES ASSUME IInv, NEW t \in Thread, NEW u \in Thread,
                    t \in BlockedBy(u), u \in BlockedBy(t)
             PROVE  FALSE
  BY DEF NoCircularWait
<1> USE DEF IInv, TypeOK, WriterIsInside, ReaderIsInside, MutexIsInside,
            Thread, Worker, BlockedBy, Ended
<1>1. \A v \in Thread : "main" \notin BlockedBy(v)
  BY NobodyAssumption
<1>2. BlockedBy("resources") \subseteq {Nobody, "activation", "resources", "run"}
  BY NobodyAssumption
<1> QED
  BY <1>1, <1>2, NobodyAssumption

\* No two threads ever wait for each other.
THEOREM NoThreadsWaitForEachOther == Spec => []NoCircularWait
BY BlockedAreApart, Invariant, PTL

-----------------------------------------------------------------------------
(***************************************************************************)
(* The threads implement the contract of the loop.  HandlerStore is        *)
(* Activate, which is why the change of the endpoint counts from there;    *)
(* the writer's section and the reader's exclude each other, so Read sees  *)
(* no endpoint whose flag is still to be set.                              *)
(***************************************************************************)

\* The process starts where the contract does.
LEMMA InitRefines == Init => Contract!Init
BY DEF Init, Started, Contract!Init, Contract!Fresh, RunPhase, Thread, Worker

\* Steps of main leave the loop alone; Close is Shutdown.
LEMMA MainRefines ==
  ASSUME IInv, MainStep \/ TermSignal
  PROVE  [Contract!Next]_(Contract!wvars)
<1> USE DEF IInv, TypeOK, Thread, Worker, RunPhase, Go, model, locks,
            Contract!wvars, Contract!Next
<1>1. CASE Open
  BY <1>1 DEF Open, NotYetStarted
<1>2. CASE Close
  BY <1>2 DEF Close, Contract!Shutdown
<1>3. CASE Join \/ TermSignal
  BY <1>3 DEF Join, TermSignal
<1> QED
  BY <1>1, <1>2, <1>3 DEF MainStep

\* The insertion of the resources is no step of the contract, unless the process
\* is terminated by it.
LEMMA ResourcesRefine ==
  ASSUME IInv, ResourcesStep
  PROVE  [Contract!Next]_(Contract!wvars)
<1> USE DEF IInv, TypeOK, Thread, Worker, RunPhase, Go, model, locks,
            Contract!wvars, Contract!Next
<1>1. CASE Lookup \/ InsertLock \/ Insert \/ InsertFails
  BY <1>1 DEF Lookup, InsertLock, WriteLock, Insert, InsertFails
<1>2. CASE Terminate
  BY <1>2 DEF Terminate, Started, Contract!Restart, Contract!Fresh
<1> QED
  BY <1>1, <1>2 DEF ResourcesStep

\* Of the steps of an activation, HandlerStore is the one of the contract.
LEMMA ActivationRefines ==
  ASSUME IInv, ActivationStep \/ ActivationDue \/ AnotherDue
  PROVE  [Contract!Next]_(Contract!wvars)
<1> USE DEF IInv, TypeOK, Thread, Worker, RunPhase, Go, model, locks,
            Contract!wvars, Contract!Next
<1>1. CASE Change
  BY <1>1, ActivationsAssumption DEF Change
<1>2. CASE HandlerStore
  <2>1. active' \in Nat
    BY <1>2, ActivationsAssumption DEF HandlerStore
  <2>2. pc'["activation"] = "notify" /\ UNCHANGED RunPhase
    BY <1>2 DEF HandlerStore
  <2>3. dirty' = TRUE /\ UNCHANGED <<active, desired, shutdown>>
    BY <1>2 DEF HandlerStore
  <2>4. Contract!Activate
    BY <2>1, <2>2, <2>3 DEF Contract!Activate
  <2> QED
    BY <2>4
<1>3. CASE HandlerNotify
  BY <1>3 DEF HandlerNotify
<1>4. CASE ActivationDue \/ ActivationLock \/ AnotherDue
  BY <1>4 DEF ActivationDue, ActivationLock, WriteLock, AnotherDue
<1>5. CASE ActivationUnlock \/ ActivationEnds
  BY <1>5 DEF ActivationUnlock, WriteUnlock, ActivationEnds
<1> QED
  BY <1>1, <1>2, <1>3, <1>4, <1>5 DEF ActivationStep

\* While run() reads, no activation is between its change and its flag.
LEMMA ReadSeesAll ==
  ASSUME IInv, pc["run"] = "read"
  PROVE  pc["activation"] # "handle"
BY NobodyAssumption
DEF IInv, WriterIsInside, ReaderIsInside, ReadersExcludeWriter, Thread, Worker

\* The steps of run() are those of the contract, its locking and waiting none.
LEMMA RunRefines ==
  ASSUME IInv, RunStep \/ SpuriousWake
  PROVE  [Contract!Next]_(Contract!wvars)
<1> USE DEF IInv, TypeOK, Thread, Worker, RunPhase, Go, model, locks,
            Contract!wvars, Contract!Next
<1>1. CASE Read
  <2>1. CASE shutdown
    BY <1>1, <2>1 DEF Read, Contract!Stop
  <2>2. CASE ~shutdown
    BY <1>1, <2>2, ReadSeesAll DEF Read, Contract!Read
  <2> QED
    BY <2>1, <2>2
<1>2. CASE Clear
  BY <1>2 DEF Clear, Contract!Clear
<1>3. CASE Pass
  BY <1>3 DEF Pass, Contract!Pass
<1>4. CASE Leave \/ LeaveAtTimeout
  BY <1>4 DEF Leave, LeaveAtTimeout, UnlockMutex, Contract!Wake
<1>5. CASE RunReadLock
  BY <1>5 DEF RunReadLock, ReadLock
<1>6. CASE GuardLock \/ Block \/ Sleep \/ Retest \/ IntervalOver \/ SpuriousWake
  BY <1>6 DEF GuardLock, Block, Sleep, Retest, IntervalOver, SpuriousWake,
              LockMutex, UnlockMutex
<1> QED
  BY <1>1, <1>2, <1>3, <1>4, <1>5, <1>6 DEF RunStep

\* Every interleaving of the threads is one the contract of the loop allows.
THEOREM ThreadsImplementWakeContract == Spec => ImplementsWakeContract
<1>1. IInv /\ [Next]_vars => [Contract!Next]_(Contract!wvars)
  <2> SUFFICES ASSUME IInv, [Next]_vars PROVE [Contract!Next]_(Contract!wvars)
    OBVIOUS
  <2>1. CASE UNCHANGED vars
    BY <2>1 DEF vars, Contract!wvars, RunPhase
  <2> QED
    BY <2>1, MainRefines, ResourcesRefine, ActivationRefines, RunRefines DEF Next, Over
<1> QED
  BY <1>1, InitRefines, Invariant, PTL DEF Spec, ImplementsWakeContract, Contract!Spec
=============================================================================
