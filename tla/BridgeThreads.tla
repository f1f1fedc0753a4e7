--------------------------- MODULE BridgeThreads ---------------------------
(***************************************************************************)
(* The threads of the process and what they share: main, run() of the      *)
(* DaemonReconciler, nmos-cpp's activation thread, which calls the         *)
(* activation handler, and the thread of insert_node_resources; the        *)
(* model's lock, wait_mutex_, wait_cv_ and the flags.                      *)
(*                                                                         *)
(* A step ends where a thread may block or where another thread can see    *)
(* what it has done; releasing a lock is part of the last step under it.   *)
(***************************************************************************)
EXTENDS Integers

CONSTANTS
  Nobody,           \* no thread has the lock
  MaxActivations    \* bound of the model: activations in a behaviour

ASSUME ActivationsAssumption == MaxActivations \in Nat

Worker == {"run", "activation", "resources"}
Thread == Worker \cup {"main"}

ASSUME NobodyAssumption == Nobody \notin Thread

VARIABLES
  pc,         \* where each thread is
  writer,     \* the thread with the model's write lock
  readers,    \* the threads with the model's read lock
  mutex,      \* the thread with wait_mutex_
  inserted,   \* the connection resources are in the model
  active,     \* how many activations have changed an active endpoint
  desired,    \* the value of active when run() last read the endpoints
  dirty,      \* dirty_
  shutdown    \* model.shutdown

model == <<inserted, active, shutdown>>
locks == <<writer, readers, mutex>>
vars == <<pc, writer, readers, mutex, inserted, active, desired, dirty, shutdown>>

\* A process that has just been started.
Started(p, w, r, m, i, a, d, f, s) ==
  /\ p = [t \in Thread |-> IF t = "main" THEN "open" ELSE "new"]
  /\ w = Nobody /\ r = {} /\ m = Nobody
  /\ i = FALSE
  /\ a = 0 /\ d = 0
  /\ f = TRUE
  /\ s = FALSE

Init == Started(pc, writer, readers, mutex, inserted, active, desired, dirty, shutdown)

Go(t, from, to) == pc[t] = from /\ pc' = [pc EXCEPT ![t] = to]

\* model.write_lock(), model.read_lock(), and the guard of wait_mutex_.
WriteLock(t) ==
  /\ writer = Nobody /\ readers = {}
  /\ writer' = t
  /\ UNCHANGED <<readers, mutex>>

ReadLock(t) ==
  /\ writer = Nobody
  /\ readers' = readers \cup {t}
  /\ UNCHANGED <<writer, mutex>>

LockMutex(t) ==
  /\ mutex = Nobody
  /\ mutex' = t
  /\ UNCHANGED <<writer, readers>>

WriteUnlock == writer' = Nobody /\ UNCHANGED <<readers, mutex>>
ReadUnlock(t) == readers' = readers \ {t} /\ UNCHANGED <<writer, mutex>>
UnlockMutex == mutex' = Nobody /\ UNCHANGED <<writer, readers>>

(***************************************************************************)
(* main                                                                    *)
(***************************************************************************)

\* The server guard starts the thread functions.
Open ==
  /\ pc["main"] = "open"
  /\ pc' = [t \in Thread |->
              CASE t = "main" -> "signal"
                [] t = "run" -> "lock"
                [] t = "activation" -> "idle"
                [] t = "resources" -> "lookup"]
  /\ UNCHANGED <<locks, model, desired, dirty>>

\* wait_term_signal returns; the guard's destructor closes the node server.
TermSignal ==
  /\ Go("main", "signal", "close")
  /\ UNCHANGED <<locks, model, desired, dirty>>

\* Variant for validation: the write lock is kept while the threads are joined.
CloseAndKeepLock ==
  /\ Go("main", "close", "join")
  /\ WriteLock("main")
  /\ shutdown' = TRUE
  /\ UNCHANGED <<inserted, active, desired, dirty>>

\* Under the write lock, for one assignment.
Close ==
  /\ Go("main", "close", "join")
  /\ writer = Nobody /\ readers = {}
  /\ shutdown' = TRUE
  /\ UNCHANGED <<locks, inserted, active, desired, dirty>>

Ended(t) == pc[t] \in {"done", "failed"}

Join ==
  /\ Go("main", "join", "done")
  /\ \A t \in Worker : Ended(t)
  /\ UNCHANGED <<locks, model, desired, dirty>>

(***************************************************************************)
(* insert_node_resources                                                   *)
(***************************************************************************)

\* The interface is looked up before the lock is taken.
Lookup ==
  /\ Go("resources", "lookup", "lock")
  /\ UNCHANGED <<locks, model, desired, dirty>>

InsertLock ==
  /\ Go("resources", "lock", "insert")
  /\ WriteLock("resources")
  /\ UNCHANGED <<model, desired, dirty>>

Insert ==
  /\ Go("resources", "insert", "done")
  /\ inserted' = TRUE
  /\ WriteUnlock
  /\ UNCHANGED <<active, shutdown, desired, dirty>>

\* No such interface, or a codec of too many digits: insert_node_resources throws.
\* What an exception that leaves a thread function does is nmos-cpp's business;
\* here it either ends the thread (InsertFails) or the process (Terminate).
InsertThrows == pc["resources"] \in {"lookup", "insert"}

\* The lock is released, if it has been taken.  Resources inserted before the one
\* that failed stay.
InsertFails ==
  /\ InsertThrows
  /\ pc' = [pc EXCEPT !["resources"] = "failed"]
  /\ writer' = IF writer = "resources" THEN Nobody ELSE writer
  /\ inserted' \in {FALSE, pc["resources"] = "insert"}
  /\ UNCHANGED <<readers, mutex, active, shutdown, desired, dirty>>

\* std::terminate, wherever the other threads are.  The process may be started
\* again: Open is the first step of the new one.
Terminate ==
  /\ InsertThrows
  /\ Started(pc', writer', readers', mutex', inserted', active', desired', dirty', shutdown')

(***************************************************************************)
(* nmos-cpp's activation thread and the activation handler                 *)
(***************************************************************************)

\* An immediate or scheduled activation is due.
ActivationDue ==
  /\ Go("activation", "idle", "lock")
  /\ inserted /\ active < MaxActivations
  /\ UNCHANGED <<locks, model, desired, dirty>>

ActivationLock ==
  /\ Go("activation", "lock", "change")
  /\ WriteLock("activation")
  /\ UNCHANGED <<model, desired, dirty>>

\* Variant for validation: the lock is given up before the handler is called.
ChangeAndUnlock ==
  /\ Go("activation", "change", "handle")
  /\ active' = active + 1
  /\ WriteUnlock
  /\ UNCHANGED <<inserted, shutdown, desired, dirty>>

\* The active endpoint is replaced; the handler is called under the lock.
Change ==
  /\ Go("activation", "change", "handle")
  /\ active' = active + 1
  /\ UNCHANGED <<locks, inserted, shutdown, desired, dirty>>

\* Variant for validation: dirty_ is atomic, so it is set without the mutex.
HandlerStoreUnguarded ==
  /\ Go("activation", "handle", "notify")
  /\ dirty' = TRUE
  /\ UNCHANGED <<locks, model, desired>>

\* The handler's block: lock_guard, store, unlock.
HandlerStore ==
  /\ Go("activation", "handle", "notify")
  /\ mutex = Nobody
  /\ dirty' = TRUE
  /\ UNCHANGED <<locks, model, desired>>

\* wait_cv_.notify_all(); the handler returns to nmos-cpp, which has the lock.
HandlerNotify ==
  /\ pc["activation"] = "notify"
  /\ pc' = [pc EXCEPT !["activation"] = "next",
                      !["run"] = IF @ = "asleep" THEN "notified" ELSE @]
  /\ UNCHANGED <<locks, model, desired, dirty>>

\* Another activation is due: a bulk request, or one more that was scheduled.  It
\* is carried out under the same hold of the lock.
AnotherDue ==
  /\ Go("activation", "next", "change")
  /\ active < MaxActivations
  /\ UNCHANGED <<locks, model, desired, dirty>>

ActivationUnlock ==
  /\ Go("activation", "next", "idle")
  /\ WriteUnlock
  /\ UNCHANGED <<model, desired, dirty>>

ActivationEnds ==
  /\ Go("activation", "idle", "done")
  /\ shutdown
  /\ UNCHANGED <<locks, model, desired, dirty>>

(***************************************************************************)
(* DaemonReconciler::run                                                   *)
(***************************************************************************)
RunReadLock ==
  /\ Go("run", "lock", "read")
  /\ ReadLock("run")
  /\ UNCHANGED <<model, desired, dirty>>

\* Variant for validation: a copy of shutdown from before the loop.
ReadWithoutShutdown ==
  /\ Go("run", "read", "clear")
  /\ desired' = active
  /\ ReadUnlock("run")
  /\ UNCHANGED <<model, dirty>>

\* model.shutdown and the active endpoints; the end of the block.
Read ==
  /\ Go("run", "read", IF shutdown THEN "done" ELSE "clear")
  /\ desired' = IF shutdown THEN desired ELSE active
  /\ ReadUnlock("run")
  /\ UNCHANGED <<model, dirty>>

Clear ==
  /\ Go("run", "clear", "pass")
  /\ dirty' = FALSE
  /\ UNCHANGED <<locks, model, desired>>

\* reconcile() and the log, with no lock held; it returns or throws.
Pass ==
  /\ Go("run", "pass", "guard")
  /\ UNCHANGED <<locks, model, desired, dirty>>

\* unique_lock guard(wait_mutex_)
GuardLock ==
  /\ Go("run", "guard", "test")
  /\ LockMutex("run")
  /\ UNCHANGED <<model, desired, dirty>>

\* Variant for validation: a guard declared outside of the loop's body.
LeaveWithGuard ==
  /\ Go("run", "test", "lock")
  /\ dirty
  /\ UNCHANGED <<locks, model, desired, dirty>>

\* The predicate holds: wait_for returns and the guard's scope ends.
Leave ==
  /\ Go("run", "test", "lock")
  /\ dirty
  /\ UnlockMutex
  /\ UNCHANGED <<model, desired, dirty>>

\* The predicate does not hold.
Block ==
  /\ Go("run", "test", "block")
  /\ ~dirty
  /\ UNCHANGED <<locks, model, desired, dirty>>

\* wait_cv_ takes the thread into its wait set and releases the mutex at once.
Sleep ==
  /\ Go("run", "block", "asleep")
  /\ UnlockMutex
  /\ UNCHANGED <<model, desired, dirty>>

\* A condition variable may wake without a notification.
SpuriousWake ==
  /\ Go("run", "asleep", "notified")
  /\ UNCHANGED <<locks, model, desired, dirty>>

\* The mutex is taken again and the predicate tested again.
Retest ==
  /\ Go("run", "notified", "test")
  /\ LockMutex("run")
  /\ UNCHANGED <<model, desired, dirty>>

\* Variant for validation: wait() in the place of wait_for().
IntervalNeverOver == FALSE

IntervalOver ==
  /\ Go("run", "asleep", "timeout")
  /\ UNCHANGED <<locks, model, desired, dirty>>

\* The mutex is taken again, wait_for returns whatever the predicate is, and
\* the guard's scope ends.
LeaveAtTimeout ==
  /\ Go("run", "timeout", "lock")
  /\ mutex = Nobody
  /\ UNCHANGED <<locks, model, desired, dirty>>

-----------------------------------------------------------------------------
MainStep == Open \/ Close \/ Join

ResourcesStep == Lookup \/ InsertLock \/ Insert \/ InsertFails \/ Terminate

ActivationStep ==
  \/ ActivationLock \/ Change \/ HandlerStore \/ HandlerNotify \/ ActivationUnlock
  \/ ActivationEnds

RunStep ==
  \/ RunReadLock \/ Read \/ Clear \/ Pass
  \/ GuardLock \/ Leave \/ Block \/ Sleep \/ Retest
  \/ IntervalOver \/ LeaveAtTimeout

\* The process has ended.
Over == pc["main"] = "done" /\ UNCHANGED vars

Next ==
  \/ MainStep \/ ResourcesStep \/ ActivationStep \/ RunStep
  \/ TermSignal \/ ActivationDue \/ AnotherDue \/ SpuriousWake
  \/ Over

Spec == Init /\ [][Next]_vars

(***************************************************************************)
(* Fairness.  Every thread goes on when it can: no step of theirs waits    *)
(* for anything but a lock, and a pass ends because every REST call has a  *)
(* timeout.  The locks are free again and again, and a thread that waits   *)
(* for one is not passed over for ever; the deadline of wait_for is one    *)
(* point in time, so spurious wakes do not put it off.  Nothing is assumed *)
(* of the term signal, of activations and of spurious wakes; nor is it     *)
(* assumed that an exception in insert_node_resources is survived.         *)
(***************************************************************************)
FairSpec ==
  /\ Spec
  /\ WF_vars(MainStep) /\ WF_vars(ResourcesStep)
  /\ WF_vars(ActivationStep) /\ WF_vars(RunStep)
  /\ SF_vars(Close) /\ SF_vars(InsertLock) /\ SF_vars(ActivationLock)
  /\ SF_vars(HandlerStore) /\ SF_vars(IntervalOver)

-----------------------------------------------------------------------------
MainPlace == {"open", "signal", "close", "join", "done"}
ResourcesPlace == {"new", "lookup", "lock", "insert", "done", "failed"}
ActivationPlace == {"new", "idle", "lock", "change", "handle", "notify", "next",
                    "done"}
RunPlace == {"new", "lock", "read", "clear", "pass", "guard", "test", "block",
             "asleep", "notified", "timeout", "done"}
Place == MainPlace \cup ResourcesPlace \cup ActivationPlace \cup RunPlace

TypeOK ==
  /\ pc \in [Thread -> Place]
  /\ pc["main"] \in MainPlace
  /\ pc["resources"] \in ResourcesPlace
  /\ pc["activation"] \in ActivationPlace
  /\ pc["run"] \in RunPlace
  /\ writer \in {Nobody, "activation", "resources"}
  /\ readers \subseteq {"run"}
  /\ mutex \in {Nobody, "run"}
  /\ inserted \in BOOLEAN /\ dirty \in BOOLEAN /\ shutdown \in BOOLEAN
  /\ active \in 0..MaxActivations
  /\ desired \in 0..active

(***************************************************************************)
(* dirty_ is tested before the thread is in the wait set, and set before   *)
(* the notification.  Whenever run() sleeps with dirty_ set, the           *)
(* notification that wakes it is still to come: no interleaving of the     *)
(* handler and wait_for leaves an activation to the interval.              *)
(***************************************************************************)
NoLostWakeup == pc["run"] = "asleep" /\ dirty => pc["activation"] = "notify"

\* The threads t waits for: the holders of the lock it wants, or, in main, the
\* threads that have not ended.
BlockedBy(t) ==
  CASE t = "main" /\ pc[t] = "close"                       -> {writer} \cup readers
    [] t = "main" /\ pc[t] = "join"                        -> {w \in Worker : ~Ended(w)}
    [] t \in {"activation", "resources"} /\ pc[t] = "lock" -> {writer} \cup readers
    [] t = "run" /\ pc[t] = "lock"                         -> {writer}
    [] t = "activation" /\ pc[t] = "handle"                -> {mutex}
    [] t = "run" /\ pc[t] \in {"guard", "notified", "timeout"} -> {mutex}
    [] OTHER                                               -> {}

(***************************************************************************)
(* The handler takes wait_mutex_ under the model's lock, and run() takes   *)
(* both.  No two threads ever wait for each other, and none for itself     *)
(* (with two locks and a join, every deadlock has such a pair).            *)
(***************************************************************************)
NoCircularWait ==
  \A t, u \in Thread : ~(t \in BlockedBy(u) /\ u \in BlockedBy(t))

(***************************************************************************)
(* connection.h: run() reconciles whenever an activation occurs.  Every    *)
(* activation is read by a pass, at the latest when the interval is over,  *)
(* unless the process is ended.                                            *)
(***************************************************************************)
EveryActivationIsRead ==
  \A v \in 1..MaxActivations : active >= v ~> desired >= v \/ pc["run"] = "done"

(***************************************************************************)
(* After a term signal main comes to its end: shutdown does not notify     *)
(* wait_cv_, so run() may sleep on for the interval, and a thread that     *)
(* left by an exception must not leave a lock behind.  ("open" is where a  *)
(* process stands that was ended by the exception.)                        *)
(***************************************************************************)
ProcessEnds == pc["main"] = "close" ~> pc["main"] \in {"done", "open"}

\* The loop as WakeContract has it.  The endpoint is changed and the flag set
\* under one write lock: nobody reads the endpoints in between.
RunPhase ==
  CASE pc["run"] \in {"new", "lock", "read"}  -> "read"
    [] pc["run"] \in {"clear", "pass", "done"} -> pc["run"]
    [] OTHER                                   -> "wait"

Contract ==
  INSTANCE WakeContract WITH
    Wants <- Nat, Nothing <- 0,
    want <- IF pc["activation"] = "handle" THEN active - 1 ELSE active,
    intent <- desired,
    pc <- RunPhase

\* With every interleaving of the threads, the loop follows the activations as
\* if an activation and the read of a pass were one step each.
ImplementsWakeContract == Contract!Spec
=============================================================================
