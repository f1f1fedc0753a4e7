------------------------ MODULE ReconcilerPlanProofs ------------------------
(***************************************************************************)
(* Reconciler::plan makes exactly the justified writes, for every registry *)
(* that check_unique lets through, every desired vector and every state of *)
(* the daemon.                                                             *)
(***************************************************************************)
EXTENDS ReconcilerPlan, TLAPS

\* Configured streams of one slot are one stream (check_unique).
LEMMA SlotDeterminesConfig ==
  ASSUME NEW c \in Registry, NEW d \in Registry, SlotOf(c) = SlotOf(d)
  PROVE  c = d
BY RegistryAssumption DEF SlotOf, UniqueConfig, StreamConfig

\* A configured stream has a slot of its side.
LEMMA SlotOfType ==
  ASSUME NEW c \in Registry
  PROVE  SlotOf(c) \in Slot /\ SlotOf(c).side = c.side /\ SlotOf(c).id = c.daemon_id
BY RegistryAssumption DEF SlotOf, Slot, StreamConfig

\* The intended stream of an enabled stream's slot is its payload.
LEMMA IntendedOfEnabled ==
  ASSUME NEW desired \in DesiredStreams, NEW c \in Enabled(desired)
  PROVE  Intended(desired, SlotOf(c)) = desired[c] /\ desired[c] # NoStream
<1>1. c \in Registry /\ desired[c] # NoStream
  BY DEF Enabled
<1>2. \A d \in Enabled(desired) : SlotOf(d) = SlotOf(c) => d = c
  BY <1>1, SlotDeterminesConfig DEF Enabled
<1> DEFINE d == CHOOSE x \in Enabled(desired) : SlotOf(x) = SlotOf(c)
<1>3. d \in Enabled(desired) /\ SlotOf(d) = SlotOf(c)
  OBVIOUS
<1>4. d = c
  BY <1>2, <1>3
<1> QED
  BY <1>1, <1>4 DEF Intended

\* Nothing is intended for a slot without an enabled stream.
LEMMA IntendedOfOthers ==
  ASSUME NEW desired, NEW s, ~ \E c \in Enabled(desired) : SlotOf(c) = s
  PROVE  Intended(desired, s) = NoStream
BY DEF Intended

\* The enabled streams with their payloads; disabled ones have none.
LEMMA EnabledPayload ==
  ASSUME NEW desired \in DesiredStreams, NEW c \in Enabled(desired)
  PROVE  c \in Registry /\ desired[c] \in DaemonStream
BY DEF Enabled, DesiredStreams

\* A stream is the bridge's only if there is one.
LEMMA MineIsPresent ==
  ASSUME NEW st, Mine(st)
  PROVE  st # NoStream /\ st.owner # Unmanaged /\ st.owner.ns = Ns
BY DEF Mine

-----------------------------------------------------------------------------
(***************************************************************************)
(* Every operation of a plan is a justified write.                         *)
(***************************************************************************)
LEMMA PlannedIsJustified ==
  ASSUME NEW desired \in DesiredStreams, NEW state \in DaemonState,
         NEW o \in PlanOps(desired, state)
  PROVE  RequestOf(o) \in Justified(desired, state)
<1> SUFFICES /\ o.slot \in Slot
             /\ o.saw = state[o.slot]
             /\ Applied(o) = Intended(desired, o.slot)
             /\ state[o.slot] # Intended(desired, o.slot)
             /\ MayWrite(o.slot, state[o.slot], Intended(desired, o.slot))
  BY DEF RequestOf, Justified
<1>1. CASE o \in RemoveOps(desired, state)
  <2>1. PICK c \in Registry \ Enabled(desired) :
          /\ o = LoopOp("remove", c, NoStream, state)
          /\ state[SlotOf(c)] # NoStream
          /\ state[SlotOf(c)].owner = [ns |-> Ns, side |-> c.side, nmos_id |-> c.nmos_id]
    BY <1>1 DEF RemoveOps
  <2>2. o.action = "remove" /\ o.slot = SlotOf(c) /\ o.saw = state[SlotOf(c)]
    BY <2>1 DEF LoopOp
  <2>3. ~ \E d \in Enabled(desired) : SlotOf(d) = SlotOf(c)
    BY <2>1, SlotDeterminesConfig DEF Enabled
  <2>4. Intended(desired, SlotOf(c)) = NoStream
    BY <2>3, IntendedOfOthers
  <2>5. c.side \in Side /\ c.nmos_id \in NmosIds
    BY <2>1, RegistryAssumption DEF StreamConfig
  <2>6. state[SlotOf(c)].owner \in Ownership
    BY <2>1, <2>5, ConstantsAssumption DEF Ownership
  <2>7. Mine(state[SlotOf(c)]) /\ state[SlotOf(c)].owner.side = SlotOf(c).side
    BY <2>1, <2>6, SlotOfType, ConstantsAssumption DEF Mine
  <2> QED
    BY <2>1, <2>2, <2>4, <2>7, SlotOfType DEF MayWrite, Applied
<1>2. CASE o \in CreateOps(desired, state)
  <2>1. PICK c \in Enabled(desired) :
          o = LoopOp("create", c, desired[c], state) /\ state[SlotOf(c)] = NoStream
    BY <1>2 DEF CreateOps
  <2>2. /\ o.action = "create" /\ o.slot = SlotOf(c) /\ o.saw = state[SlotOf(c)]
        /\ o.put = desired[c]
    BY <2>1 DEF LoopOp
  <2> QED
    BY <2>1, <2>2, IntendedOfEnabled, EnabledPayload, SlotOfType DEF MayWrite, Applied
<1>3. CASE o \in UpdateOps(desired, state)
  <2>1. PICK c \in Enabled(desired) :
          /\ o = LoopOp("update", c, desired[c], state)
          /\ Mine(state[SlotOf(c)])
          /\ Drifted(state[SlotOf(c)], desired[c])
    BY <1>3 DEF UpdateOps
  <2>2. /\ o.action = "update" /\ o.slot = SlotOf(c) /\ o.saw = state[SlotOf(c)]
        /\ o.put = desired[c]
    BY <2>1 DEF LoopOp
  <2> QED
    BY <2>1, <2>2, IntendedOfEnabled, EnabledPayload, SlotOfType
    DEF MayWrite, Applied, Drifted
<1>4. CASE o \in OrphanOps(desired, state)
  <2>1. PICK s \in Slot \ Handled(desired, state) :
          /\ o = [action |-> "remove", slot |-> s, put |-> NoStream, saw |-> state[s],
                  orphan |-> TRUE, key |-> s.id]
          /\ Mine(state[s])
          /\ state[s].owner.side = s.side
    BY <1>4 DEF OrphanOps
  <2>2. Intended(desired, s) = NoStream
    BY <2>1, IntendedOfOthers DEF Handled
  <2> QED
    BY <2>1, <2>2, MineIsPresent DEF MayWrite, Applied
<1> QED
  BY <1>1, <1>2, <1>3, <1>4 DEF PlanOps

(***************************************************************************)
(* Every justified write is planned.                                       *)
(***************************************************************************)
LEMMA JustifiedIsPlanned ==
  ASSUME NEW desired \in DesiredStreams, NEW state \in DaemonState,
         NEW s \in Slot,
         state[s] # Intended(desired, s),
         MayWrite(s, state[s], Intended(desired, s))
  PROVE  \E o \in PlanOps(desired, state) :
           o.slot = s /\ o.saw = state[s] /\ Applied(o) = Intended(desired, s)
<1>1. CASE \E c \in Enabled(desired) : SlotOf(c) = s
  <2>1. PICK c \in Enabled(desired) : SlotOf(c) = s
    BY <1>1
  <2>2. Intended(desired, s) = desired[c] /\ c \in Registry
    BY <2>1, IntendedOfEnabled, EnabledPayload
  <2>3. CASE state[s] = NoStream
    <3>1. LoopOp("create", c, desired[c], state) \in PlanOps(desired, state)
      BY <2>1, <2>3 DEF PlanOps, CreateOps
    <3> QED
      BY <2>1, <2>2, <3>1 DEF LoopOp, Applied
  <2>4. CASE state[s] # NoStream
    <3>1. Mine(state[s])
      BY <2>4 DEF MayWrite
    <3>2. LoopOp("update", c, desired[c], state) \in PlanOps(desired, state)
      BY <2>1, <2>2, <3>1 DEF PlanOps, UpdateOps, Drifted
    <3> QED
      BY <2>1, <2>2, <3>2 DEF LoopOp, Applied
  <2> QED
    BY <2>3, <2>4
<1>2. CASE ~ \E c \in Enabled(desired) : SlotOf(c) = s
  <2>1. Intended(desired, s) = NoStream
    BY <1>2, IntendedOfOthers
  <2>2. Mine(state[s]) /\ state[s].owner.side = s.side
    BY <2>1 DEF MayWrite
  <2>3. CASE s \in Handled(desired, state)
    <3>1. PICK o \in RemoveOps(desired, state) : o.slot = s
      BY <1>2, <2>3 DEF Handled
    <3>2. o \in PlanOps(desired, state)
      BY DEF PlanOps
    <3>3. PICK c \in Registry : o = LoopOp("remove", c, NoStream, state)
      BY DEF RemoveOps
    <3>4. o.action = "remove" /\ o.slot = SlotOf(c) /\ o.saw = state[SlotOf(c)]
      BY <3>3 DEF LoopOp
    <3> QED
      BY <2>1, <3>1, <3>2, <3>4 DEF Applied
  <2>4. CASE s \notin Handled(desired, state)
    <3> DEFINE o == [action |-> "remove", slot |-> s, put |-> NoStream, saw |-> state[s],
                     orphan |-> TRUE, key |-> s.id]
    <3>1. ~Wanted(desired, s, state[s].owner)
      BY <1>2 DEF Wanted
    <3>2. o \in PlanOps(desired, state)
      BY <2>2, <2>4, <3>1 DEF PlanOps, OrphanOps
    <3> QED
      BY <2>1, <3>2 DEF Applied
  <2> QED
    BY <2>3, <2>4
<1> QED
  BY <1>1, <1>2

(***************************************************************************)
(* Reconciler::plan makes exactly the justified writes: it never touches a *)
(* slot it may not write, and misses none that is not as intended.         *)
(***************************************************************************)
THEOREM PlanMakesJustifiedWrites ==
  ASSUME NEW desired \in DesiredStreams, NEW state \in DaemonState
  PROVE  {RequestOf(o) : o \in PlanOps(desired, state)} = Justified(desired, state)
<1>1. ASSUME NEW o \in PlanOps(desired, state)
      PROVE  RequestOf(o) \in Justified(desired, state)
  BY PlannedIsJustified
<1>2. ASSUME NEW r \in Justified(desired, state)
      PROVE  \E o \in PlanOps(desired, state) : RequestOf(o) = r
  <2>1. PICK s \in Slot :
          /\ state[s] # Intended(desired, s)
          /\ MayWrite(s, state[s], Intended(desired, s))
          /\ r = [slot |-> s, saw |-> state[s], put |-> Intended(desired, s)]
    BY DEF Justified
  <2>2. PICK o \in PlanOps(desired, state) :
          o.slot = s /\ o.saw = state[s] /\ Applied(o) = Intended(desired, s)
    BY <2>1, JustifiedIsPlanned
  <2> QED
    BY <2>1, <2>2 DEF RequestOf
<1> QED
  BY <1>1, <1>2

(***************************************************************************)
(* The conflicts the plan reports are left alone by it.                    *)
(***************************************************************************)
THEOREM ConflictsAreNotPlanned ==
  ASSUME NEW desired \in DesiredStreams, NEW state \in DaemonState,
         NEW o \in PlanOps(desired, state)
  PROVE  o.slot \notin PlanErrors(desired, state)
<1>1. /\ o.saw = state[o.slot]
      /\ MayWrite(o.slot, o.saw, Applied(o))
  BY PlannedIsJustified DEF Justified, RequestOf
<1>2. ASSUME o.slot \in PlanErrors(desired, state)
      PROVE  Foreign(state[o.slot])
  BY <1>2 DEF PlanErrors
<1> QED
  BY <1>1, <1>2 DEF MayWrite, Foreign

-----------------------------------------------------------------------------
\* Two operations of a plan for the same slot are the same operation, and of
\* two different ones one comes first.

\* An operation of the first loop belongs to a configured stream.
LEMMA LoopOpOrigin ==
  ASSUME NEW desired \in DesiredStreams, NEW state \in DaemonState,
         NEW o \in PlanOps(desired, state) \ OrphanOps(desired, state)
  PROVE  \E c \in Registry :
           \/ /\ c \notin Enabled(desired)
              /\ o = LoopOp("remove", c, NoStream, state)
           \/ /\ c \in Enabled(desired) /\ state[SlotOf(c)] = NoStream
              /\ o = LoopOp("create", c, desired[c], state)
           \/ /\ c \in Enabled(desired) /\ state[SlotOf(c)] # NoStream
              /\ o = LoopOp("update", c, desired[c], state)
<1>1. CASE o \in RemoveOps(desired, state)
  BY <1>1 DEF RemoveOps
<1>2. CASE o \in CreateOps(desired, state)
  BY <1>2 DEF CreateOps, Enabled
<1>3. CASE o \in UpdateOps(desired, state)
  BY <1>3 DEF UpdateOps, Enabled, Mine
<1> QED
  BY <1>1, <1>2, <1>3 DEF PlanOps

\* The operations of the two loops can be told apart.
LEMMA OrphanFlag ==
  ASSUME NEW desired \in DesiredStreams, NEW state \in DaemonState,
         NEW o \in PlanOps(desired, state)
  PROVE  /\ o \in OrphanOps(desired, state) => o.orphan = TRUE
         /\ o \notin OrphanOps(desired, state) => o.orphan = FALSE
<1>1. CASE o \in OrphanOps(desired, state)
  BY <1>1 DEF OrphanOps
<1>2. CASE o \notin OrphanOps(desired, state)
  BY <1>2, LoopOpOrigin DEF LoopOp
<1> QED
  BY <1>1, <1>2

\* An operation of the loop over the configured streams has its slot in
\* handled_ids.
LEMMA LoopOpIsHandled ==
  ASSUME NEW desired \in DesiredStreams, NEW state \in DaemonState,
         NEW o \in PlanOps(desired, state) \ OrphanOps(desired, state)
  PROVE  o.slot \in Handled(desired, state)
<1>1. CASE o \in RemoveOps(desired, state)
  BY <1>1 DEF Handled
<1>2. CASE o \in CreateOps(desired, state)
  BY <1>2 DEF CreateOps, LoopOp, Handled
<1>3. CASE o \in UpdateOps(desired, state)
  BY <1>3 DEF UpdateOps, LoopOp, Handled
<1> QED
  BY <1>1, <1>2, <1>3 DEF PlanOps

\* Enabled or not, missing or present: one case of the loop applies to a slot.
LEMMA LoopOpIsDetermined ==
  ASSUME NEW desired \in DesiredStreams, NEW state \in DaemonState,
         NEW o \in PlanOps(desired, state) \ OrphanOps(desired, state),
         NEW p \in PlanOps(desired, state) \ OrphanOps(desired, state),
         o # p
  PROVE  \E c, d \in Registry :
           /\ o.slot = SlotOf(c) /\ o.key = c.uuid
           /\ p.slot = SlotOf(d) /\ p.key = d.uuid
           /\ c # d
<1> DEFINE Case(q, c) ==
      \/ /\ c \notin Enabled(desired)
         /\ q = LoopOp("remove", c, NoStream, state)
      \/ /\ c \in Enabled(desired) /\ state[SlotOf(c)] = NoStream
         /\ q = LoopOp("create", c, desired[c], state)
      \/ /\ c \in Enabled(desired) /\ state[SlotOf(c)] # NoStream
         /\ q = LoopOp("update", c, desired[c], state)
<1>1. PICK c \in Registry : Case(o, c)
  BY LoopOpOrigin
<1>2. PICK d \in Registry : Case(p, d)
  BY LoopOpOrigin
<1>3. /\ o.slot = SlotOf(c) /\ o.key = c.uuid
      /\ p.slot = SlotOf(d) /\ p.key = d.uuid
  BY <1>1, <1>2 DEF LoopOp
<1>4. c # d
  BY <1>1, <1>2
<1> QED
  BY <1>3, <1>4

(***************************************************************************)
(* A plan has at most one operation for a slot, and orders any two.        *)
(***************************************************************************)
THEOREM PlanIsTotallyOrdered ==
  ASSUME NEW desired \in DesiredStreams, NEW state \in DaemonState,
         NEW o \in PlanOps(desired, state), NEW p \in PlanOps(desired, state), o # p
  PROVE  o.slot # p.slot /\ (Before(o, p) \/ Before(p, o))
<1>1. o.slot \in Slot /\ p.slot \in Slot
  BY PlannedIsJustified DEF Justified, RequestOf
<1>2. o.slot.side \in Side /\ p.slot.side \in Side
  BY <1>1 DEF Slot
<1>3. CASE o \notin OrphanOps(desired, state) /\ p \notin OrphanOps(desired, state)
  <2>1. PICK c \in Registry, d \in Registry :
          /\ o.slot = SlotOf(c) /\ o.key = c.uuid
          /\ p.slot = SlotOf(d) /\ p.key = d.uuid
          /\ c # d
    BY <1>3, LoopOpIsDetermined
  <2>2. o.slot # p.slot
    BY <2>1, SlotDeterminesConfig
  <2>3. c.uuid \in Nat /\ d.uuid \in Nat /\ (c.side = d.side => c.uuid # d.uuid)
    BY <2>1, RegistryAssumption DEF StreamConfig, UniqueConfig
  <2>4. o.orphan = FALSE /\ p.orphan = FALSE
    BY <1>3, OrphanFlag
  <2>5. CASE c.side = d.side
    <3>1. o.key < p.key \/ p.key < o.key
      BY <2>1, <2>3, <2>5
    <3>2. o.slot.side = p.slot.side /\ o.orphan = p.orphan
      BY <2>1, <2>4, <2>5, SlotOfType
    <3> QED
      BY <2>2, <3>1, <3>2 DEF Before
  <2>6. CASE c.side # d.side
    BY <1>2, <2>1, <2>2, <2>6, SlotOfType DEF Before, Side
  <2> QED
    BY <2>5, <2>6
<1>4. CASE o \in OrphanOps(desired, state) /\ p \in OrphanOps(desired, state)
  <2>1. PICK s \in Slot :
          o = [action |-> "remove", slot |-> s, put |-> NoStream, saw |-> state[s],
               orphan |-> TRUE, key |-> s.id]
    BY <1>4 DEF OrphanOps
  <2>2. PICK t \in Slot :
          p = [action |-> "remove", slot |-> t, put |-> NoStream, saw |-> state[t],
               orphan |-> TRUE, key |-> t.id]
    BY <1>4 DEF OrphanOps
  <2>3. s # t
    BY <2>1, <2>2
  <2>4. s.id \in Int /\ t.id \in Int
    <3>1. s.id \in DaemonIds /\ t.id \in DaemonIds
      BY DEF Slot
    <3>2. DaemonIds \subseteq Int
      BY ConstantsAssumption
    <3> QED
      BY <3>1, <3>2
  <2>5. s.side = t.side => s.id # t.id
    BY <2>3 DEF Slot
  <2>6. /\ o.slot = s /\ o.key = s.id /\ o.orphan = TRUE
        /\ p.slot = t /\ p.key = t.id /\ p.orphan = TRUE
    BY <2>1, <2>2
  <2>7. CASE s.side = t.side
    <3>1. s.id < t.id \/ t.id < s.id
      BY <2>4, <2>5, <2>7
    <3>2. o.key < p.key \/ p.key < o.key
      BY <2>6, <3>1
    <3>3. o.slot.side = p.slot.side /\ o.orphan = p.orphan
      BY <2>6, <2>7
    <3> QED
      BY <2>3, <2>6, <3>2, <3>3 DEF Before
  <2>8. CASE s.side # t.side
    BY <1>2, <2>3, <2>6, <2>8 DEF Before, Side
  <2> QED
    BY <2>7, <2>8
<1>5. CASE ~(o \in OrphanOps(desired, state) <=> p \in OrphanOps(desired, state))
  <2>1. /\ o.orphan \in BOOLEAN /\ p.orphan \in BOOLEAN
        /\ o.orphan # p.orphan
    BY <1>5, OrphanFlag
  <2>2. \A q \in OrphanOps(desired, state) : q.slot \notin Handled(desired, state)
    BY DEF OrphanOps
  <2>3. o.slot # p.slot
    BY <1>5, <2>2, LoopOpIsHandled
  <2> QED
    BY <1>2, <2>1, <2>3 DEF Before, Side
<1> QED
  BY <1>3, <1>4, <1>5

\* The operations of a plan have the type of operations.
LEMMA PlanOpsType ==
  ASSUME NEW des \in DesiredStreams, NEW st \in DaemonState
  PROVE  PlanOps(des, st) \subseteq PlannedOp
<1> SUFFICES ASSUME NEW o \in PlanOps(des, st)
             PROVE  o \in PlannedOp
  OBVIOUS
<1>1. \A s \in Slot : st[s] \in DaemonStream \cup {NoStream}
  BY DEF DaemonState
<1>2. CASE o \in OrphanOps(des, st)
  <2>1. PICK s \in Slot :
          o = [action |-> "remove", slot |-> s, put |-> NoStream, saw |-> st[s],
               orphan |-> TRUE, key |-> s.id]
    BY <1>2 DEF OrphanOps
  <2>2. s.id \in 0..63
    BY ConstantsAssumption DEF Slot
  <2>3. s.id \in Nat
    BY <2>2
  <2> QED
    BY <1>1, <2>1, <2>3 DEF PlannedOp
<1>3. CASE o \notin OrphanOps(des, st)
  <2> DEFINE Case(c) ==
        \/ /\ c \notin Enabled(des)
           /\ o = LoopOp("remove", c, NoStream, st)
        \/ /\ c \in Enabled(des) /\ st[SlotOf(c)] = NoStream
           /\ o = LoopOp("create", c, des[c], st)
        \/ /\ c \in Enabled(des) /\ st[SlotOf(c)] # NoStream
           /\ o = LoopOp("update", c, des[c], st)
  <2>1. PICK c \in Registry : Case(c)
    BY <1>3, LoopOpOrigin
  <2>2. c.uuid \in Nat /\ SlotOf(c) \in Slot /\ st[SlotOf(c)] \in DaemonStream \cup {NoStream}
    BY <1>1, SlotOfType, RegistryAssumption DEF StreamConfig
  <2>3. des[c] \in DaemonStream \cup {NoStream}
    BY DEF DesiredStreams
  <2>4. PICK act \in {"create", "update", "remove"}, put \in DaemonStream \cup {NoStream} :
          o = LoopOp(act, c, put, st)
    BY <2>1, <2>3
  <2> QED
    BY <2>2, <2>4 DEF LoopOp, PlannedOp
<1> QED
  BY <1>2, <1>3

\* The conflicts of a plan are slots.
LEMMA PlanErrorsType ==
  ASSUME NEW des \in DesiredStreams, NEW st \in DaemonState
  PROVE  PlanErrors(des, st) \subseteq Slot
BY SlotOfType DEF PlanErrors, Enabled

-----------------------------------------------------------------------------
\* What a plan leaves in a slot.
LEMMA AfterPlanSlot ==
  ASSUME NEW desired \in DesiredStreams, NEW state \in DaemonState, NEW s \in Slot
  PROVE  AfterPlan(desired, state)[s] =
           IF /\ state[s] # Intended(desired, s)
              /\ MayWrite(s, state[s], Intended(desired, s))
           THEN Intended(desired, s)
           ELSE state[s]
<1>1. CASE \E o \in PlanOps(desired, state) : o.slot = s
  <2> DEFINE o == CHOOSE x \in PlanOps(desired, state) : x.slot = s
  <2>1. o \in PlanOps(desired, state) /\ o.slot = s
    BY <1>1
  <2>2. RequestOf(o) \in Justified(desired, state)
    BY <2>1, PlannedIsJustified
  <2>3. /\ state[s] # Intended(desired, s)
        /\ MayWrite(s, state[s], Intended(desired, s))
        /\ Applied(o) = Intended(desired, s)
    BY <2>1, <2>2 DEF Justified, RequestOf
  <2>4. AfterPlan(desired, state)[s] = Applied(o)
    BY <1>1 DEF AfterPlan
  <2> QED
    BY <2>3, <2>4
<1>2. CASE ~ \E o \in PlanOps(desired, state) : o.slot = s
  <2>1. AfterPlan(desired, state)[s] = state[s]
    BY <1>2 DEF AfterPlan
  <2> QED
    BY <1>2, <2>1, JustifiedIsPlanned
<1> QED
  BY <1>1, <1>2

\* What is intended for a slot is a stream or its absence.
LEMMA IntendedType ==
  ASSUME NEW desired \in DesiredStreams, NEW s \in Slot
  PROVE  Intended(desired, s) \in DaemonStream \cup {NoStream}
<1>1. CASE \E c \in Enabled(desired) : SlotOf(c) = s
  BY <1>1, IntendedOfEnabled, EnabledPayload
<1>2. CASE ~ \E c \in Enabled(desired) : SlotOf(c) = s
  BY <1>2, IntendedOfOthers
<1> QED
  BY <1>1, <1>2

\* Carrying out a plan leads to a state of the daemon.
LEMMA AfterPlanType ==
  ASSUME NEW desired \in DesiredStreams, NEW state \in DaemonState
  PROVE  AfterPlan(desired, state) \in DaemonState
<1>1. \A s \in Slot : AfterPlan(desired, state)[s] \in DaemonStream \cup {NoStream}
  BY AfterPlanSlot, IntendedType DEF DaemonState
<1> QED
  BY <1>1 DEF AfterPlan, DaemonState

(***************************************************************************)
(* A pass that is carried out leaves nothing to do for the next one.       *)
(***************************************************************************)
THEOREM CarriedOutPlanIsFinal ==
  ASSUME NEW desired \in DesiredStreams, NEW state \in DaemonState
  PROVE  PlanOps(desired, AfterPlan(desired, state)) = {}
<1> DEFINE after == AfterPlan(desired, state)
<1>1. after \in DaemonState
  BY AfterPlanType
<1>2. ASSUME NEW s \in Slot, after[s] # Intended(desired, s),
             MayWrite(s, after[s], Intended(desired, s))
      PROVE  FALSE
  BY <1>2, AfterPlanSlot
<1>3. Justified(desired, after) = {}
  BY <1>2 DEF Justified
<1> HIDE DEF after
<1>4. ASSUME NEW o \in PlanOps(desired, after)
      PROVE  FALSE
  BY <1>1, <1>3, <1>4, PlannedIsJustified
<1> QED
  BY <1>4 DEF after

(***************************************************************************)
(* It reports the same conflicts, provided the bridge reads its own marker *)
(* back from the names it writes.                                          *)
(***************************************************************************)
THEOREM CarriedOutPlanKeepsConflicts ==
  ASSUME NEW desired \in DesiredStreams, NEW state \in DaemonState,
         \A c \in Enabled(desired) : Mine(desired[c])
  PROVE  PlanErrors(desired, AfterPlan(desired, state)) = PlanErrors(desired, state)
<1>1. ASSUME NEW c \in Enabled(desired)
      PROVE  Foreign(AfterPlan(desired, state)[SlotOf(c)]) <=> Foreign(state[SlotOf(c)])
  <2>1. SlotOf(c) \in Slot /\ Intended(desired, SlotOf(c)) = desired[c]
    BY EnabledPayload, SlotOfType, IntendedOfEnabled
  <2>2. AfterPlan(desired, state)[SlotOf(c)] \in {state[SlotOf(c)], desired[c]}
    BY <2>1, AfterPlanSlot
  <2>3. CASE Foreign(state[SlotOf(c)])
    BY <2>1, <2>3, AfterPlanSlot DEF MayWrite, Foreign
  <2>4. CASE ~Foreign(state[SlotOf(c)])
    BY <2>2, <2>4 DEF Foreign
  <2> QED
    BY <2>3, <2>4
<1> QED
  BY <1>1 DEF PlanErrors
=============================================================================
