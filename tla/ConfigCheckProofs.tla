------------------------- MODULE ConfigCheckProofs -------------------------
(***************************************************************************)
(* The checks of parse_bridge_config and the registry built from what they *)
(* let through, for every configuration of any size.                       *)
(***************************************************************************)
EXTENDS ConfigCheck, SequenceTheorems, TLAPS

-----------------------------------------------------------------------------
(***************************************************************************)
(* The inductive invariant: the streams the loops have passed are valid    *)
(* among themselves, check_unique's sets hold their ids, and the registry  *)
(* holds the streams that have been entered.                               *)
(***************************************************************************)
CheckTypeOK ==
  /\ config \in Config
  /\ phase \in {"globals", "streams", "build", "running", "rejected"}
  /\ side \in Side
  /\ k \in 1..(Len(config[side]) + 1)
  /\ DOMAIN registry = Side

\* Positions of the streams that check_unique, and build_registry, have passed.
Checked(sd) ==
  {j \in 1..Len(config[sd]) :
     \/ phase \in {"build", "running"}
     \/ phase = "streams" /\ side = "receiver" /\ sd = "sender"
     \/ phase = "streams" /\ sd = side /\ j < k}

Entered(sd) ==
  {j \in 1..Len(config[sd]) :
     \/ phase = "running"
     \/ phase = "build" /\ side = "receiver" /\ sd = "sender"
     \/ phase = "build" /\ sd = side /\ j < k}

\* ValidSide for the streams at some of the positions.
ValidAt(streams, positions) ==
  /\ \A j \in positions : streams[j].daemon_id \in 0..63 /\ streams[j].mapped
  /\ \A i, j \in positions :
       streams[i].daemon_id = streams[j].daemon_id \/ streams[i].nmos_id = streams[j].nmos_id
         => i = j

GlobalsChecked ==
  /\ phase = "globals" => side = "sender" /\ k = 1
  /\ phase \in {"streams", "build", "running"} => config.named /\ config.interval > 0
  /\ phase = "rejected" => ~Valid

StreamsChecked == \A sd \in Side : ValidAt(config[sd], Checked(sd))

IdsCollected ==
  phase \in {"globals", "streams"} =>
    /\ daemon_ids = {config[side][j].daemon_id : j \in Checked(side)}
    /\ nmos_ids = {config[side][j].nmos_id : j \in Checked(side)}

StreamsEntered ==
  \A sd \in Side :
    /\ DOMAIN registry[sd] = {config[sd][j].nmos_id : j \in Entered(sd)}
    /\ \A j \in Entered(sd) : registry[sd][config[sd][j].nmos_id] = config[sd][j]

CheckInv == /\ CheckTypeOK /\ GlobalsChecked
            /\ StreamsChecked /\ IdsCollected /\ StreamsEntered

-----------------------------------------------------------------------------
\* The streams of a side are a sequence.
LEMMA StreamsType ==
  ASSUME config \in Config, NEW sd \in Side
  PROVE  /\ Len(config[sd]) \in Nat
         /\ \A j \in 1..Len(config[sd]) : config[sd][j] \in Stream
<1>1. config[sd] \in Streams
  BY DEF Config, Side
<1>2. PICK n \in Nat : config[sd] \in [1..n -> Stream]
  BY <1>1, ValuesAssumption DEF Streams
<1>3. config[sd] \in Seq(Stream)
  BY <1>2, SeqDef
<1> QED
  BY <1>3, LenProperties, ElementOfSeq

\* The stream the loops are at.
LEMMA CurrentStream ==
  ASSUME CheckTypeOK, k <= Len(config[side])
  PROVE  /\ k \in 1..Len(config[side]) /\ k + 1 \in 1..(Len(config[side]) + 1)
         /\ Current = config[side][k]
         /\ Current \in Stream
<1>1. Len(config[side]) \in Nat
  BY StreamsType DEF CheckTypeOK
<1>2. k \in 1..Len(config[side]) /\ k + 1 \in 1..(Len(config[side]) + 1)
  BY <1>1 DEF CheckTypeOK
<1> QED
  BY <1>2, StreamsType DEF Current, CheckTypeOK

\* The configuration is valid if its parts are.
LEMMA ValidAtAll ==
  ASSUME NEW sd
  PROVE  ValidSide(config[sd]) <=> ValidAt(config[sd], 1..Len(config[sd]))
BY DEF ValidSide, ValidAt

LEMMA InitCheck == Init => CheckInv
<1> SUFFICES ASSUME Init PROVE CheckInv
  OBVIOUS
<1>1. /\ config \in Config /\ phase = "globals" /\ side = "sender" /\ k = 1
      /\ daemon_ids = {} /\ nmos_ids = {} /\ registry = [sd \in Side |-> <<>>]
  BY DEF Init, EmptyRegistry
<1>2. CheckTypeOK
  <2>1. Len(config[side]) \in Nat /\ side \in Side
    BY <1>1, StreamsType DEF Side
  <2> QED
    BY <1>1, <2>1 DEF CheckTypeOK
<1>3. \A sd \in Side : Checked(sd) = {} /\ Entered(sd) = {}
  BY <1>1 DEF Checked, Entered
<1>4. \A sd \in Side : DOMAIN registry[sd] = {}
  BY <1>1
<1>5. GlobalsChecked /\ StreamsChecked
  BY <1>1, <1>3 DEF GlobalsChecked, StreamsChecked, ValidAt
<1>6. IdsCollected
  BY <1>1, <1>2, <1>3 DEF IdsCollected, CheckTypeOK
<1>7. StreamsEntered
  BY <1>3, <1>4 DEF StreamsEntered
<1> QED
  BY <1>2, <1>5, <1>6, <1>7 DEF CheckInv

\* One more stream among valid ones.
LEMMA ValidGrows ==
  ASSUME NEW streams, NEW J, NEW k0, ValidAt(streams, J),
         streams[k0].daemon_id \in 0..63, streams[k0].mapped,
         \A j \in J : /\ streams[j].daemon_id # streams[k0].daemon_id
                      /\ streams[j].nmos_id # streams[k0].nmos_id
  PROVE  ValidAt(streams, J \cup {k0})
BY DEF ValidAt

LEMMA CheckGlobalsStep ==
  ASSUME CheckInv, CheckGlobals
  PROVE  CheckInv'
<1>1. /\ phase = "globals" /\ phase' \in {"streams", "rejected"}
      /\ phase' = "streams" <=> config.named /\ config.interval > 0
      /\ config' = config /\ side' = side /\ k' = k /\ registry' = registry
      /\ daemon_ids' = daemon_ids /\ nmos_ids' = nmos_ids
  BY DEF CheckGlobals
<1>2. config \in Config /\ side \in Side
  BY DEF CheckInv, CheckTypeOK
<1>3. CheckTypeOK'
  BY <1>1 DEF CheckInv, CheckTypeOK
<1>4. \A sd \in Side : Checked(sd) = {} /\ Entered(sd) = {}
  BY <1>1 DEF Checked, Entered
<1>5. \A sd \in Side : Checked(sd)' = {} /\ Entered(sd)' = {}
  <2>1. side = "sender" /\ k = 1
    BY <1>1 DEF CheckInv, GlobalsChecked
  <2>2. \A sd \in Side : \A j \in 1..Len(config[sd]) : ~(j < k)
    BY <1>2, <2>1, StreamsType
  <2> QED
    BY <1>1, <2>1, <2>2 DEF Checked, Entered
<1>6. GlobalsChecked'
  BY <1>1 DEF GlobalsChecked, Valid
<1>7. StreamsChecked'
  BY <1>5 DEF StreamsChecked, ValidAt
<1>8. IdsCollected'
  <2>1. daemon_ids = {} /\ nmos_ids = {}
    BY <1>1, <1>2, <1>4 DEF CheckInv, IdsCollected
  <2>2. Checked(side)' = {}
    BY <1>1, <1>2, <1>5
  <2> QED
    BY <1>1, <2>1, <2>2 DEF IdsCollected
<1>9. StreamsEntered'
  BY <1>1, <1>4, <1>5 DEF CheckInv, StreamsEntered
<1> QED
  BY <1>3, <1>6, <1>7, <1>8, <1>9 DEF CheckInv

\* check_unique lets the current stream through.
LEMMA CheckStreamStep ==
  ASSUME CheckInv, CheckStream
  PROVE  CheckInv'
<1>1. /\ phase = "streams" /\ phase' = "streams" /\ k <= Len(config[side])
      /\ config' = config /\ side' = side /\ k' = k + 1 /\ registry' = registry
      /\ daemon_ids' = daemon_ids \cup {config[side][k].daemon_id}
      /\ nmos_ids' = nmos_ids \cup {config[side][k].nmos_id}
  BY DEF CheckStream, Current
<1>2. config \in Config /\ side \in Side /\ CheckTypeOK
  BY DEF CheckInv, CheckTypeOK
<1>3. k \in 1..Len(config[side]) /\ k + 1 \in 1..(Len(config[side]) + 1)
  BY <1>1, <1>2, CurrentStream
<1>4. \A sd \in Side :
        /\ Checked(sd)' = IF sd = side THEN Checked(sd) \cup {k} ELSE Checked(sd)
        /\ Entered(sd)' = Entered(sd)
  <2>1. \A sd \in Side : Len(config[sd]) \in Nat
    BY <1>2, StreamsType
  <2>2. \A sd \in Side : \A j \in 1..Len(config[sd]) : j < k + 1 <=> j < k \/ j = k
    BY <1>3, <2>1
  <2>3. \A sd \in Side : Entered(sd)' = Entered(sd)
    BY <1>1 DEF Entered
  <2>4. ASSUME NEW sd \in Side, sd # side
        PROVE  Checked(sd)' = Checked(sd)
    BY <1>1, <2>4 DEF Checked
  <2>5. ASSUME NEW sd \in Side, sd = side
        PROVE  Checked(sd)' = Checked(sd) \cup {k}
    <3>1. Checked(sd)' = {j \in 1..Len(config[sd]) : j < k + 1}
      BY <1>1, <2>5 DEF Checked
    <3>2. Checked(sd) = {j \in 1..Len(config[sd]) : j < k}
      BY <1>1, <2>5 DEF Checked
    <3> QED
      BY <1>3, <2>2, <2>5, <3>1, <3>2
  <2> QED
    BY <2>3, <2>4, <2>5
<1>5. CheckTypeOK'
  BY <1>1, <1>3 DEF CheckInv, CheckTypeOK
<1>6. GlobalsChecked'
  BY <1>1 DEF CheckInv, GlobalsChecked
<1>7. /\ daemon_ids = {config[side][j].daemon_id : j \in Checked(side)}
      /\ nmos_ids = {config[side][j].nmos_id : j \in Checked(side)}
  BY <1>1 DEF CheckInv, IdsCollected
<1>8. StreamsChecked'
  <2>1. /\ config[side][k].daemon_id \in 0..63 /\ config[side][k].mapped
        /\ config[side][k].daemon_id \notin daemon_ids
        /\ config[side][k].nmos_id \notin nmos_ids
    BY DEF CheckStream, Acceptable, Current
  <2>2. ValidAt(config[side], Checked(side))
    BY <1>2 DEF CheckInv, StreamsChecked
  <2>3. \A j \in Checked(side) : /\ config[side][j].daemon_id # config[side][k].daemon_id
                                 /\ config[side][j].nmos_id # config[side][k].nmos_id
    BY <1>7, <2>1
  <2>4. ValidAt(config[side], Checked(side) \cup {k})
    BY <2>1, <2>2, <2>3, ValidGrows
  <2> QED
    BY <1>1, <1>4, <2>4 DEF CheckInv, StreamsChecked
<1>9. IdsCollected'
  <2>1. Checked(side)' = Checked(side) \cup {k}
    BY <1>1, <1>2, <1>4
  <2> QED
    BY <1>1, <1>7, <2>1 DEF IdsCollected
<1>10. StreamsEntered'
  BY <1>1, <1>4 DEF CheckInv, StreamsEntered
<1> QED
  BY <1>5, <1>6, <1>8, <1>9, <1>10 DEF CheckInv

\* It throws: the current stream is invalid, or clashes with one before it.
LEMMA RejectStreamStep ==
  ASSUME CheckInv, RejectStream
  PROVE  CheckInv'
<1>1. /\ phase = "streams" /\ phase' = "rejected" /\ k <= Len(config[side])
      /\ config' = config /\ side' = side /\ k' = k /\ registry' = registry
  BY DEF RejectStream
<1>2. config \in Config /\ side \in Side /\ CheckTypeOK
  BY DEF CheckInv, CheckTypeOK
<1>3. k \in 1..Len(config[side])
  BY <1>1, <1>2, CurrentStream
<1>4. ~Valid
  <2> SUFFICES ASSUME Valid PROVE FALSE
    OBVIOUS
  <2>1. ValidSide(config[side])
    BY <1>2 DEF Valid
  <2>2. config[side][k].daemon_id \in 0..63 /\ config[side][k].mapped
    BY <1>3, <2>1 DEF ValidSide
  <2>3. PICK j \in Checked(side) :
          \/ config[side][j].daemon_id = config[side][k].daemon_id
          \/ config[side][j].nmos_id = config[side][k].nmos_id
    BY <1>1, <2>2 DEF RejectStream, Acceptable, Current, CheckInv, IdsCollected
  <2>4. j \in 1..Len(config[side]) /\ j < k
    BY <1>1, <2>3 DEF Checked
  <2>5. j = k
    BY <1>3, <2>1, <2>3, <2>4 DEF ValidSide
  <2>6. k \in Nat
    BY <1>3
  <2> QED
    BY <2>4, <2>5, <2>6
<1>5. \A sd \in Side : Checked(sd)' = {}
  BY <1>1 DEF Checked
<1>6. \A sd \in Side : Entered(sd)' = Entered(sd)
  BY <1>1 DEF Entered
<1>7. Valid' <=> Valid
  BY <1>1 DEF Valid, ValidSide
<1>8. CheckTypeOK'
  BY <1>1 DEF CheckInv, CheckTypeOK
<1>9. GlobalsChecked' /\ StreamsChecked' /\ IdsCollected'
  BY <1>1, <1>4, <1>5, <1>7 DEF GlobalsChecked, StreamsChecked, IdsCollected, ValidAt
<1>10. StreamsEntered'
  BY <1>1, <1>6 DEF CheckInv, StreamsEntered
<1> QED
  BY <1>8, <1>9, <1>10 DEF CheckInv

\* check_unique returns: all streams of its side have been checked.
LEMMA SideCheckedStep ==
  ASSUME CheckInv, SideChecked
  PROVE  CheckInv'
<1>1. /\ phase = "streams" /\ k > Len(config[side])
      /\ \/ side = "sender" /\ side' = "receiver" /\ phase' = "streams"
         \/ side = "receiver" /\ side' = "sender" /\ phase' = "build"
      /\ config' = config /\ k' = 1 /\ registry' = registry
      /\ daemon_ids' = {} /\ nmos_ids' = {}
  BY DEF SideChecked, CheckInv, CheckTypeOK, Side
<1>2. config \in Config /\ side \in Side
  BY DEF CheckInv, CheckTypeOK
<1>3. \A sd \in Side : Len(config[sd]) \in Nat
  BY <1>2, StreamsType
<1>4. \A j \in 1..Len(config[side]) : j < k
  BY <1>1, <1>2, <1>3 DEF CheckInv, CheckTypeOK
<1>5. \A sd \in Side : \A j \in 1..Len(config[sd]) : ~(j < 1)
  BY <1>3
<1>6. \A sd \in Side : Checked(sd)' = Checked(sd)
  <2>1. CASE side = "sender"
    BY <1>1, <1>4, <1>5, <2>1 DEF Checked, Side
  <2>2. CASE side = "receiver"
    BY <1>1, <1>4, <2>2 DEF Checked, Side
  <2> QED
    BY <1>1, <2>1, <2>2
<1>7. \A sd \in Side : Entered(sd)' = Entered(sd)
  BY <1>1, <1>5 DEF Entered
<1>8. CheckTypeOK'
  BY <1>1, <1>3 DEF CheckInv, CheckTypeOK, Side
<1>9. GlobalsChecked' /\ StreamsChecked'
  BY <1>1, <1>6 DEF CheckInv, GlobalsChecked, StreamsChecked
<1>10. IdsCollected'
  <2>1. CASE phase' = "streams"
    <3>1. Checked(side)' = {}
      BY <1>1, <1>5, <2>1 DEF Checked, Side
    <3> QED
      BY <1>1, <3>1 DEF IdsCollected
  <2>2. CASE phase' = "build"
    BY <2>2 DEF IdsCollected
  <2> QED
    BY <1>1, <2>1, <2>2
<1>11. StreamsEntered'
  BY <1>1, <1>7 DEF CheckInv, StreamsEntered
<1> QED
  BY <1>8, <1>9, <1>10, <1>11 DEF CheckInv

\* All streams have been checked once the registry is built.
LEMMA BuiltFromValid ==
  ASSUME CheckInv, phase \in {"build", "running"}
  PROVE  Valid
<1>1. \A sd \in Side : Checked(sd) = 1..Len(config[sd])
  BY DEF Checked
<1>2. \A sd \in Side : ValidSide(config[sd])
  BY <1>1, ValidAtAll DEF CheckInv, StreamsChecked
<1> QED
  BY <1>2 DEF CheckInv, GlobalsChecked, Valid

\* The map gets one more stream: its nmos_id is a new key.
LEMMA BuildEntryStep ==
  ASSUME CheckInv, BuildEntry
  PROVE  CheckInv'
<1>1. /\ phase = "build" /\ phase' = "build" /\ k <= Len(config[side])
      /\ config' = config /\ side' = side /\ k' = k + 1
      /\ registry' = [registry EXCEPT ![side] = Register(registry[side], config[side][k])]
  BY DEF BuildEntry, Current
<1>2. config \in Config /\ side \in Side /\ DOMAIN registry = Side /\ CheckTypeOK
  BY DEF CheckInv, CheckTypeOK
<1>3. k \in 1..Len(config[side]) /\ k + 1 \in 1..(Len(config[side]) + 1)
  BY <1>1, <1>2, CurrentStream
<1>4. \A sd \in Side :
        /\ Entered(sd)' = IF sd = side THEN Entered(sd) \cup {k} ELSE Entered(sd)
        /\ Checked(sd)' = Checked(sd)
  <2>1. \A sd \in Side : Len(config[sd]) \in Nat
    BY <1>2, StreamsType
  <2>2. \A sd \in Side : \A j \in 1..Len(config[sd]) : j < k + 1 <=> j < k \/ j = k
    BY <1>3, <2>1
  <2>3. \A sd \in Side : Checked(sd)' = Checked(sd)
    BY <1>1 DEF Checked
  <2>4. ASSUME NEW sd \in Side, sd # side
        PROVE  Entered(sd)' = Entered(sd)
    BY <1>1, <2>4 DEF Entered
  <2>5. ASSUME NEW sd \in Side, sd = side
        PROVE  Entered(sd)' = Entered(sd) \cup {k}
    <3>1. Entered(sd)' = {j \in 1..Len(config[sd]) : j < k + 1}
      BY <1>1, <2>5 DEF Entered
    <3>2. Entered(sd) = {j \in 1..Len(config[sd]) : j < k}
      BY <1>1, <2>5 DEF Entered
    <3> QED
      BY <1>3, <2>2, <2>5, <3>1, <3>2
  <2> QED
    BY <2>3, <2>4, <2>5
<1>5. \A sd \in Side :
        registry'[sd] = IF sd = side THEN Register(registry[side], config[side][k])
                                     ELSE registry[sd]
  BY <1>1, <1>2
<1>6. CheckTypeOK'
  BY <1>1, <1>2, <1>3 DEF CheckTypeOK
<1>7. GlobalsChecked' /\ StreamsChecked' /\ IdsCollected'
  BY <1>1, <1>4 DEF CheckInv, GlobalsChecked, StreamsChecked, IdsCollected
<1>8. \A j \in Entered(side) : config[side][j].nmos_id # config[side][k].nmos_id
  <2>1. ValidSide(config[side])
    BY <1>1, <1>2, BuiltFromValid DEF Valid
  <2>2. \A j \in Entered(side) : j \in 1..Len(config[side]) /\ j < k
    BY <1>1 DEF Entered
  <2>3. \A j \in Entered(side) : j # k
    BY <1>3, <2>2
  <2> QED
    BY <1>3, <2>1, <2>2, <2>3 DEF ValidSide
<1>9. StreamsEntered'
  <2>1. ASSUME NEW sd \in Side, sd # side
        PROVE  /\ DOMAIN registry'[sd] = {config[sd][j].nmos_id : j \in Entered(sd)'}
               /\ \A j \in Entered(sd)' : registry'[sd][config[sd][j].nmos_id] = config[sd][j]
    BY <1>4, <1>5, <2>1 DEF CheckInv, StreamsEntered
  <2>2. /\ DOMAIN registry'[side] = {config[side][j].nmos_id : j \in Entered(side)'}
        /\ \A j \in Entered(side)' : registry'[side][config[side][j].nmos_id] = config[side][j]
    <3> DEFINE old == registry[side]
               new == registry'[side]
               stream == config[side][k]
    <3>1. new = Register(old, stream)
      BY <1>2, <1>5
    <3>2. /\ DOMAIN old = {config[side][j].nmos_id : j \in Entered(side)}
          /\ \A j \in Entered(side) : old[config[side][j].nmos_id] = config[side][j]
      BY <1>2 DEF CheckInv, StreamsEntered
    <3>3. Entered(side)' = Entered(side) \cup {k}
      BY <1>1, <1>2, <1>4
    <3> HIDE DEF old, new
    <3>4. /\ DOMAIN new = DOMAIN old \cup {stream.nmos_id}
          /\ new[stream.nmos_id] = stream
          /\ \A id \in DOMAIN old : id # stream.nmos_id => new[id] = old[id]
      BY <3>1 DEF Register
    <3>5. DOMAIN new = {config[side][j].nmos_id : j \in Entered(side)'}
      BY <3>2, <3>3, <3>4
    <3>6. \A j \in Entered(side)' : new[config[side][j].nmos_id] = config[side][j]
      BY <1>8, <3>2, <3>3, <3>4
    <3> QED
      BY <3>5, <3>6 DEF new
  <2>3. ASSUME NEW sd \in Side
        PROVE  /\ DOMAIN registry'[sd] = {config[sd][j].nmos_id : j \in Entered(sd)'}
               /\ \A j \in Entered(sd)' : registry'[sd][config[sd][j].nmos_id] = config[sd][j]
    <3>1. CASE sd = side
      <4>1. Entered(sd)' = Entered(side)'
        BY <1>1, <3>1 DEF Entered
      <4> QED
        BY <2>2, <3>1, <4>1
    <3>2. CASE sd # side
      BY <2>1, <3>2
    <3> QED
      BY <3>1, <3>2
  <2> QED
    BY <1>1, <2>3 DEF StreamsEntered
<1> QED
  BY <1>6, <1>7, <1>9 DEF CheckInv

LEMMA BuildSideEndStep ==
  ASSUME CheckInv, BuildSideEnd
  PROVE  CheckInv'
<1>1. /\ phase = "build" /\ k > Len(config[side])
      /\ \/ side = "sender" /\ side' = "receiver" /\ phase' = "build"
         \/ side = "receiver" /\ side' = "receiver" /\ phase' = "running"
      /\ config' = config /\ k' = 1 /\ registry' = registry
  BY DEF BuildSideEnd, CheckInv, CheckTypeOK, Side
<1>2. config \in Config /\ side \in Side
  BY DEF CheckInv, CheckTypeOK
<1>3. \A sd \in Side : Len(config[sd]) \in Nat
  BY <1>2, StreamsType
<1>4. \A j \in 1..Len(config[side]) : j < k
  BY <1>1, <1>2, <1>3 DEF CheckInv, CheckTypeOK
<1>5. \A sd \in Side : \A j \in 1..Len(config[sd]) : ~(j < 1)
  BY <1>3
<1>6. \A sd \in Side : Entered(sd)' = Entered(sd)
  <2>1. CASE side = "sender"
    BY <1>1, <1>4, <1>5, <2>1 DEF Entered, Side
  <2>2. CASE side = "receiver"
    BY <1>1, <1>4, <2>2 DEF Entered, Side
  <2> QED
    BY <1>1, <2>1, <2>2
<1>7. \A sd \in Side : Checked(sd)' = Checked(sd)
  BY <1>1 DEF Checked
<1>8. CheckTypeOK'
  BY <1>1, <1>3 DEF CheckInv, CheckTypeOK, Side
<1>9. GlobalsChecked' /\ StreamsChecked' /\ IdsCollected'
  BY <1>1, <1>7 DEF CheckInv, GlobalsChecked, StreamsChecked, IdsCollected
<1>10. StreamsEntered'
  BY <1>1, <1>6 DEF CheckInv, StreamsEntered
<1> QED
  BY <1>8, <1>9, <1>10 DEF CheckInv

(***************************************************************************)
(* Every step of the checks and of build_registry preserves the invariant. *)
(***************************************************************************)
THEOREM CheckInvariant == Spec => []CheckInv
<1>1. ASSUME CheckInv, [Next]_vars
      PROVE  CheckInv'
  <2>1. CASE UNCHANGED vars
    <3>1. /\ config' = config /\ phase' = phase /\ side' = side /\ k' = k
          /\ daemon_ids' = daemon_ids /\ nmos_ids' = nmos_ids /\ registry' = registry
      BY <2>1 DEF vars
    <3>2. \A sd \in Side : Checked(sd)' = Checked(sd) /\ Entered(sd)' = Entered(sd)
      BY <3>1 DEF Checked, Entered
    <3>3. side \in Side
      BY <1>1 DEF CheckInv, CheckTypeOK
    <3>4. CheckTypeOK' /\ GlobalsChecked'
      BY <1>1, <3>1 DEF CheckInv, CheckTypeOK, GlobalsChecked, Valid, ValidSide
    <3>5. StreamsChecked' /\ IdsCollected' /\ StreamsEntered'
      BY <1>1, <3>1, <3>2, <3>3 DEF CheckInv, StreamsChecked, IdsCollected, StreamsEntered
    <3> QED
      BY <3>4, <3>5 DEF CheckInv
  <2> QED
    BY <1>1, <2>1, CheckGlobalsStep, CheckStreamStep, RejectStreamStep, SideCheckedStep,
       BuildEntryStep, BuildSideEndStep DEF Next
<1> QED
  BY <1>1, InitCheck, PTL DEF Spec

-----------------------------------------------------------------------------
\* What the invariant says of a finished check.

LEMMA UniqueRegistry == CheckInv => RegistryIsUnique
<1> SUFFICES ASSUME CheckInv, phase = "running", NEW sd \in Side
             PROVE  /\ \A id \in DOMAIN registry[sd] :
                         /\ registry[sd][id].nmos_id = id
                         /\ registry[sd][id].daemon_id \in 0..63
                    /\ \A id, other \in DOMAIN registry[sd] :
                         registry[sd][id].daemon_id = registry[sd][other].daemon_id =>
                           id = other
  BY DEF RegistryIsUnique
<1>1. ValidSide(config[sd])
  BY BuiltFromValid DEF Valid
<1>2. \A id \in DOMAIN registry[sd] :
        \E j \in 1..Len(config[sd]) : config[sd][j].nmos_id = id /\ registry[sd][id] = config[sd][j]
  BY DEF CheckInv, StreamsEntered, Entered
<1>3. \A id \in DOMAIN registry[sd] :
        registry[sd][id].nmos_id = id /\ registry[sd][id].daemon_id \in 0..63
  BY <1>1, <1>2 DEF ValidSide
<1>4. ASSUME NEW id \in DOMAIN registry[sd], NEW other \in DOMAIN registry[sd],
             registry[sd][id].daemon_id = registry[sd][other].daemon_id
      PROVE  id = other
  <2>1. PICK i \in 1..Len(config[sd]) :
          config[sd][i].nmos_id = id /\ registry[sd][id] = config[sd][i]
    BY <1>2
  <2>2. PICK j \in 1..Len(config[sd]) :
          config[sd][j].nmos_id = other /\ registry[sd][other] = config[sd][j]
    BY <1>2
  <2>3. i = j
    BY <1>1, <1>4, <2>1, <2>2 DEF ValidSide
  <2> QED
    BY <2>1, <2>2, <2>3
<1> QED
  BY <1>3, <1>4

LEMMA CompleteRegistry == CheckInv => NoStreamIsLost
<1>1. ASSUME CheckInv, phase = "running", NEW sd \in Side
      PROVE  Entered(sd) = 1..Len(config[sd])
  BY <1>1 DEF Entered
<1> QED
  BY <1>1 DEF NoStreamIsLost, CheckInv, StreamsEntered

LEMMA ExactChecks == CheckInv => RejectsTheInvalid
<1>1. CheckInv /\ phase = "rejected" => ~Valid
  BY DEF CheckInv, GlobalsChecked
<1>2. CheckInv /\ phase \in {"build", "running"} => Valid
  BY BuiltFromValid
<1> QED
  BY <1>1, <1>2 DEF RejectsTheInvalid
=============================================================================
