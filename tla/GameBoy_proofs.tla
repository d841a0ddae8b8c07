----------------------------- MODULE GameBoy_proofs ----------------------------
(***************************************************************************)
(* For every set of inputs, rate and storing interval: the types, the      *)
(* window of held keys, the bound on the frames of a call and the clock.   *)
(***************************************************************************)
EXTENDS GameBoy, TLAPS

LEMMA NewStateType == \A boot \in Nat : NewState(boot) \in State
  BY DEF NewState, State, NoKeys, Slots, AllKeys

LEMMA SerializedType == TypeOK => Serialized \in State
  BY DEF TypeOK, Serialized, State

LEMMA WrittenType ==
  ASSUME TypeOK, NEW parts \in 0..2
  PROVE  Written(parts) \in Files
<1>1. CASE parts = 2
  BY <1>1, SerializedType DEF Written, Files
<1>2. CASE parts # 2
  <2>1. [NewState(0) EXCEPT !.frame = IF parts = 1 THEN frame ELSE 0] \in State
    BY NewStateType DEF State, TypeOK, NewState, NoKeys, Slots, AllKeys
  <2> QED BY <1>2, <2>1 DEF Written, Files
<1> QED BY <1>1, <1>2

(* What a restart or an update takes over is of the right type.            *)
LEMMA RestoreType ==
  ASSUME NEW state \in State, NEW parts \in 0..2, Restore(state, parts, 0)
  PROVE  /\ frame' \in Nat /\ ts' \in Nat
         /\ keystate' \in [Slots -> AllKeys] /\ current' \in Slots
<1> DEFINE inputState == IF parts = 2 THEN state ELSE NewState(0)
<1>1. inputState \in State
  BY NewStateType
<1> HIDE DEF inputState
<1>2. /\ ts' = inputState.ts /\ keystate' = inputState.keystate
      /\ current' = inputState.current
  BY DEF Restore, inputState
<1>3. frame' \in Nat
  BY DEF Restore, State
<1> QED BY <1>1, <1>2, <1>3 DEF State

LEMMA ReturnedType == TypeOK /\ Returned =>
  recent' \in [1..4 -> AllKeys] /\ since' \in 0..4 /\ frames' = 0
<1> SUFFICES ASSUME TypeOK, Returned
             PROVE  recent' \in [1..4 -> AllKeys] /\ since' \in 0..4 /\ frames' = 0
  OBVIOUS
<1>1. \A j \in 1..4 : j # 1 => j - 1 \in 1..4
  OBVIOUS
<1> QED BY <1>1 DEF TypeOK, Returned, AllKeys

(* Every variable keeps its type (all of get_frame, restarts and updates). *)
THEOREM TypeCorrect == Spec => []TypeOK
<1>1. Init => TypeOK
  <2>1. [parts |-> 0, state |-> NewState(0)] \in Files
    BY NewStateType DEF Files
  <2>2. NoKeys \in [Slots -> AllKeys] /\ NoneRecent \in [1..4 -> AllKeys]
    BY DEF NoKeys, NoneRecent, AllKeys
  <2>3. ASSUME Init
        PROVE  /\ keystate \in [Slots -> AllKeys] /\ recent \in [1..4 -> AllKeys]
               /\ file \in Files
    BY <2>1, <2>2, <2>3 DEF Init
  <2>4. ASSUME Init
        PROVE  /\ step \in {"idle", "loop", "save", "write", "return"}
               /\ png \in {"null", "freed"}
               /\ since \in 0..4
    BY <2>4 DEF Init
  <2>5. ASSUME Init
        PROVE  /\ current \in Slots /\ ts \in Nat /\ frame \in Nat /\ now \in Nat
               /\ t1 \in Nat /\ frames \in Nat
    BY <2>5 DEF Init, Slots
  <2> QED BY <2>3, <2>4, <2>5 DEF TypeOK
<1>2. TypeOK /\ [Next]_vars => TypeOK'
  <2> SUFFICES ASSUME TypeOK, [Next]_vars
               PROVE  TypeOK'
    OBVIOUS
  <2>1. ASSUME NEW keys \in Inputs, Contribute(keys)
        PROVE  TypeOK'
    <3>1. keys \in AllKeys
      BY GameBoyAssumption DEF AllKeys, Buttons
    <3>2. keystate' \in [Slots -> AllKeys] /\ recent' \in [1..4 -> AllKeys]
      BY <2>1, <3>1 DEF Contribute, TypeOK, AllKeys
    <3>3. now' \in Nat
      BY <2>1, GameBoyAssumption DEF Contribute, TypeOK
    <3> QED BY <2>1, <3>2, <3>3 DEF Contribute, TypeOK
  <2>2. CASE SimulateFrame
    <3>1. ts' \in Nat
      BY <2>2, GameBoyAssumption DEF SimulateFrame, TypeOK
    <3> QED BY <2>2, <3>1 DEF SimulateFrame, TypeOK, inputVars, calls
  <2>3. CASE LeaveLoop
    BY <2>3 DEF LeaveLoop, TypeOK, inputVars, calls
  <2>4. CASE OpenFile \/ OpenFails
    BY <2>4, WrittenType DEF OpenFile, OpenFails, TypeOK, inputVars, calls
  <2>5. CASE WriteFile \/ WriteFails
    <3>1. \E parts \in 0..2 : file' = Written(parts)
      BY <2>5 DEF WriteFile, WriteFails
    <3>2. file' \in Files
      BY <3>1, WrittenType
    <3> QED BY <2>5, <3>2 DEF WriteFile, WriteFails, TypeOK, inputVars, calls
  <2>6. CASE Return
    <3>1. keystate' \in [Slots -> AllKeys]
      BY <2>6 DEF Return, TypeOK, AllKeys
    <3>2. current' \in Slots
      BY <2>6 DEF Return, TypeOK, Slots
    <3> QED BY <2>6, <3>1, <3>2, ReturnedType DEF Return, TypeOK
  <2>7. CASE Restart
    <3>1. file' \in Files
      BY <2>7, WrittenType DEF Restart, TypeOK
    <3>2. PICK loaded \in 0..2 : Restore(file'.state, loaded, 0)
      BY <2>7, <3>1 DEF Restart, Files
    <3>3. file'.state \in State
      BY <3>1 DEF Files
    <3>4. NoneRecent \in [1..4 -> AllKeys]
      BY DEF NoneRecent, AllKeys
    <3> QED BY <2>7, <3>1, <3>2, <3>3, <3>4, RestoreType DEF Restart, Boot, TypeOK
  <2>8. CASE LiveUpdate
    <3>1. Serialized \in State /\ Restore(Serialized, 2, 0)
      BY <2>8, SerializedType DEF LiveUpdate
    <3> HIDE DEF Serialized
    <3> QED BY <2>8, <3>1, RestoreType DEF LiveUpdate, Boot, TypeOK, calls
  <2>9. CASE UNCHANGED vars
    BY <2>9 DEF vars, TypeOK, inputVars, calls
  <2> QED BY <2>1, <2>2, <2>3, <2>4, <2>5, <2>6, <2>7, <2>8, <2>9 DEF Next
<1> QED BY <1>1, <1>2, PTL DEF Spec

-----------------------------------------------------------------------------

(* The window, key by key.  Where the ring still has slots of the state    *)
(* that the process began with, those may hold more.                       *)
Window ==
  \A i \in Slots, key \in Buttons :
    /\ \A j \in 1..4 : j + i <= 4 /\ key \in recent[j] => key \in keystate[Slot(i)]
    /\ i >= 4 - since /\ key \in keystate[Slot(i)] =>
         \E j \in 1..4 : j + i <= 4 /\ key \in recent[j]

LEMMA WindowIsHeld == TypeOK /\ Window => KeysHeldFourCalls
<1> SUFFICES ASSUME TypeOK, Window, NEW i \in Slots
             PROVE  /\ Held(i) \subseteq keystate[Slot(i)]
                    /\ i >= 4 - since => keystate[Slot(i)] = Held(i)
  BY DEF KeysHeldFourCalls
<1>1. Slot(i) \in Slots
  BY DEF Slot, Slots, TypeOK
<1>2. \A j : j \in 1..(4 - i) <=> j \in 1..4 /\ j + i <= 4
  BY DEF Slots
<1>3. keystate[Slot(i)] \subseteq Buttons /\ Held(i) \subseteq Buttons
  BY <1>1, <1>2 DEF TypeOK, AllKeys, Held
<1>4. \A key : key \in Held(i) <=> \E j \in 1..4 : j + i <= 4 /\ key \in recent[j]
  BY <1>2 DEF Held
<1>5. \A key \in Held(i) : key \in keystate[Slot(i)]
  BY <1>3, <1>4 DEF Window
<1>6. i >= 4 - since => \A key \in keystate[Slot(i)] : key \in Held(i)
  BY <1>3, <1>4 DEF Window
<1> QED BY <1>5, <1>6

(* contribute: the keys join all four slots and the latest contribution.   *)
LEMMA ContributeKeepsWindow ==
  ASSUME TypeOK, Window, NEW keys \in Inputs, Contribute(keys)
  PROVE  Window'
<1> SUFFICES ASSUME NEW i \in Slots, NEW key \in Buttons
             PROVE  /\ \A j \in 1..4 : j + i <= 4 /\ key \in recent'[j] =>
                         key \in keystate'[Slot(i)']
                    /\ i >= 4 - since' /\ key \in keystate'[Slot(i)'] =>
                         \E j \in 1..4 : j + i <= 4 /\ key \in recent'[j]
  BY DEF Window
<1>1. Slot(i) \in Slots /\ Slot(i)' = Slot(i) /\ since' = since
  BY DEF Slot, TypeOK, Slots, Contribute
<1>2. key \in keystate'[Slot(i)] <=> key \in keystate[Slot(i)] \/ key \in keys
  BY <1>1 DEF Contribute
<1>3. \A j \in 1..4 : key \in recent'[j] <=> key \in recent[j] \/ (j = 1 /\ key \in keys)
  BY DEF Contribute, TypeOK
<1>4. 1 + i <= 4 /\ 1 \in 1..4
  BY DEF Slots
<1>5. /\ \A j \in 1..4 : j + i <= 4 /\ key \in recent[j] => key \in keystate[Slot(i)]
      /\ i >= 4 - since /\ key \in keystate[Slot(i)] =>
           \E j \in 1..4 : j + i <= 4 /\ key \in recent[j]
  BY DEF Window
<1> QED BY <1>1, <1>2, <1>3, <1>4, <1>5

(* next: the current slot is cleared and becomes the farthest one.         *)
LEMMA NextKeepsWindow ==
  ASSUME TypeOK, Window, Return
  PROVE  Window'
<1> SUFFICES ASSUME NEW i \in Slots, NEW key \in Buttons
             PROVE  /\ \A j \in 1..4 : j + i <= 4 /\ key \in recent'[j] =>
                         key \in keystate'[Slot(i)']
                    /\ i >= 4 - since' /\ key \in keystate'[Slot(i)'] =>
                         \E j \in 1..4 : j + i <= 4 /\ key \in recent'[j]
  BY DEF Window
<1>1. /\ keystate' = [keystate EXCEPT ![current] = {}]
      /\ current' = (current + 1) % 4 /\ current \in 0..3 /\ i \in 0..3
      /\ since \in 0..4 /\ since' = IF since = 4 THEN 4 ELSE since + 1
      /\ Slot(i)' = (current' + i) % 4
  BY DEF Return, Returned, TypeOK, Slots, Slot
<1>2. \A j \in 1..4 : recent'[j] = IF j = 1 THEN {} ELSE recent[j - 1]
  BY DEF Return, Returned
<1>3. CASE i = 3
  <2>1. Slot(i)' = current
    BY <1>1, <1>3
  <2>2. key \notin keystate'[current]
    BY <1>1 DEF TypeOK
  <2>3. \A j \in 1..4 : j + i <= 4 => key \notin recent'[j]
    BY <1>2, <1>3
  <2> QED BY <2>1, <2>2, <2>3
<1>4. CASE i # 3
  <2>1. /\ i + 1 \in Slots
        /\ Slot(i)' = Slot(i + 1) /\ Slot(i + 1) # current /\ Slot(i + 1) \in Slots
    BY <1>1, <1>4 DEF Slots, Slot
  <2>2. keystate'[Slot(i)'] = keystate[Slot(i + 1)]
    BY <1>1, <2>1 DEF TypeOK
  <2>3. /\ \A j \in 1..4 : j + (i + 1) <= 4 /\ key \in recent[j] =>
             key \in keystate[Slot(i + 1)]
        /\ i + 1 >= 4 - since /\ key \in keystate[Slot(i + 1)] =>
             \E j \in 1..4 : j + (i + 1) <= 4 /\ key \in recent[j]
    BY <2>1 DEF Window
  <2>4. i >= 4 - since' => i + 1 >= 4 - since
    BY <1>1
  <2>5. ASSUME NEW j \in 1..4, j + i <= 4, key \in recent'[j]
        PROVE  key \in keystate[Slot(i + 1)]
    <3>1. j # 1 /\ key \in recent[j - 1]
      BY <1>2, <2>5
    <3>2. j - 1 \in 1..4 /\ (j - 1) + (i + 1) <= 4
      BY <1>1, <2>5, <3>1
    <3> QED BY <2>3, <3>1, <3>2
  <2>6. ASSUME i >= 4 - since', key \in keystate[Slot(i + 1)]
        PROVE  \E j \in 1..4 : j + i <= 4 /\ key \in recent'[j]
    <3>1. PICK j \in 1..4 : j + (i + 1) <= 4 /\ key \in recent[j]
      BY <2>3, <2>4, <2>6
    <3>2. j + 1 \in 1..4 /\ (j + 1) + i <= 4 /\ (j + 1) - 1 = j /\ j + 1 # 1
      BY <1>1, <3>1
    <3>3. recent'[j + 1] = recent[j]
      BY <1>2, <3>2
    <3> QED BY <3>1, <3>2, <3>3
  <2> QED BY <2>2, <2>5, <2>6
<1> QED BY <1>3, <1>4

(* KeysHeldFourCalls holds for any inputs and however the steps of         *)
(* get_frame, its failures, restarts from any file and updates follow each *)
(* other.                                                                  *)
THEOREM KeysAreHeldFourCalls == Spec => []KeysHeldFourCalls
<1>1. Init => Window
  BY DEF Init, Window, NoKeys, NoneRecent, Slots, Slot
<1>2. TypeOK /\ Window /\ [Next]_vars => Window'
  <2> SUFFICES ASSUME TypeOK, Window, [Next]_vars
               PROVE  Window'
    OBVIOUS
  <2>1. ASSUME NEW keys \in Inputs, Contribute(keys)
        PROVE  Window'
    BY <2>1, ContributeKeepsWindow
  <2>2. ASSUME UNCHANGED inputVars
        PROVE  Window'
    BY <2>2 DEF Window, Slot, inputVars, calls
  <2>3. CASE SimulateFrame \/ LeaveLoop \/ OpenFile \/ WriteFile \/ OpenFails \/ WriteFails
    BY <2>3, <2>2 DEF SimulateFrame, LeaveLoop, OpenFile, WriteFile, OpenFails, WriteFails
  <2>4. CASE Return
    BY <2>4, NextKeepsWindow
  <2>5. CASE Restart
    BY <2>5 DEF Restart, Window, NoneRecent, Slots
  <2>6. CASE LiveUpdate
    <3>1. keystate' = keystate /\ current' = current /\ UNCHANGED calls
      BY <2>6 DEF LiveUpdate, Restore, Serialized
    <3> QED BY <3>1, <2>2 DEF inputVars
  <2>7. CASE UNCHANGED vars
    BY <2>7, <2>2 DEF vars
  <2> QED BY <2>1, <2>3, <2>4, <2>5, <2>6, <2>7 DEF Next
<1>3. TypeOK /\ Window => KeysHeldFourCalls
  BY WindowIsHeld
<1> QED BY <1>1, <1>2, <1>3, TypeCorrect, PTL DEF Spec

-----------------------------------------------------------------------------

(* How much of SKIPRATE the frames of this call have used up: after the    *)
(* first one the emulator either is level with the clock or owes no more   *)
(* than the rest.                                                          *)
CatchUpInv ==
  /\ BoundedCatchUp
  /\ step = "loop" => \/ frames = 0
                      \/ ts = t1
                      \/ frames * TickRate + (t1 - ts) <= SkipRate

LEMMA FrameFitsIn ==
  ASSUME TypeOK, CatchUpInv, SimulateFrame
  PROVE  CatchUpInv'
<1>1. /\ step = "loop" /\ t1 - ts > TickRate /\ frames' = frames + 1
      /\ t1' = t1 /\ ts' = IF t1 - ts > SkipRate THEN t1 ELSE ts + TickRate
      /\ frames \in Nat /\ ts \in Nat /\ t1 \in Nat /\ TickRate \in Nat /\ TickRate > 0
      /\ SkipRate \in Nat /\ TickRate <= SkipRate
  BY GameBoyAssumption DEF SimulateFrame, TypeOK
<1>2. frames' * TickRate = frames * TickRate + TickRate
  BY <1>1
<1>3. frames * TickRate \in Nat
  BY <1>1
<1> DEFINE used == frames * TickRate
<1> HIDE DEF used
<1>4. CASE frames = 0
  <2>1. used = 0
    BY <1>1, <1>4 DEF used
  <2> QED BY <1>1, <1>2, <1>3, <2>1 DEF CatchUpInv, BoundedCatchUp, used
<1>5. CASE frames # 0
  <2>1. used + (t1 - ts) <= SkipRate
    BY <1>1, <1>5 DEF CatchUpInv, used
  <2>2. ts' = ts + TickRate
    BY <1>1, <1>3, <2>1 DEF used
  <2> QED BY <1>1, <1>2, <1>3, <2>1, <2>2 DEF CatchUpInv, BoundedCatchUp, used
<1> QED BY <1>4, <1>5

(* BoundedCatchUp: no call simulates more frames than fit into SKIPRATE,   *)
(* for any delays (the loop of get_frame).                                 *)
THEOREM CatchUpIsBounded == Spec => []BoundedCatchUp
<1>1. Init => CatchUpInv
  BY GameBoyAssumption DEF Init, CatchUpInv, BoundedCatchUp
<1>2. TypeOK /\ CatchUpInv /\ [Next]_vars => CatchUpInv'
  <2> SUFFICES ASSUME TypeOK, CatchUpInv, [Next]_vars
               PROVE  CatchUpInv'
    OBVIOUS
  <2>1. ASSUME frames' = 0
        PROVE  CatchUpInv'
    BY <2>1, GameBoyAssumption DEF CatchUpInv, BoundedCatchUp
  <2>2. ASSUME UNCHANGED <<frames, ts, t1>>, step' # "loop" \/ UNCHANGED step
        PROVE  CatchUpInv'
    BY <2>2 DEF CatchUpInv, BoundedCatchUp
  <2>3. ASSUME NEW keys \in Inputs, Contribute(keys)
        PROVE  CatchUpInv'
    BY <2>3, <2>1 DEF Contribute
  <2>4. CASE SimulateFrame
    BY <2>4, FrameFitsIn
  <2>5. CASE LeaveLoop \/ OpenFile \/ WriteFile
    BY <2>5, <2>2 DEF LeaveLoop, OpenFile, WriteFile
  <2>6. CASE Restart \/ LiveUpdate
    BY <2>6, <2>1 DEF Restart, LiveUpdate, Boot
  <2>7. CASE UNCHANGED vars
    BY <2>7, <2>2 DEF vars
  <2>8. CASE Return \/ OpenFails \/ WriteFails
    BY <2>8, <2>1 DEF Return, Returned, OpenFails, WriteFails
  <2> QED BY <2>3, <2>4, <2>5, <2>6, <2>7, <2>8 DEF Next
<1>3. CatchUpInv => BoundedCatchUp
  BY DEF CatchUpInv
<1> QED BY <1>1, <1>2, <1>3, TypeCorrect, PTL DEF Spec

-----------------------------------------------------------------------------

(* The clock a call reads is not in the future, and a frame was drawn in   *)
(* this process only if the emulator was behind it.                        *)
ClockInv == t1 <= now /\ AheadOnlyAfterRestore

(* AheadOnlyAfterRestore: a process that has drawn a frame is never ahead  *)
(* of its clock (get_frame, restore_state_from).                           *)
THEOREM EmulatorFollowsClock == Spec => []AheadOnlyAfterRestore
<1>1. Init => ClockInv
  BY DEF Init, ClockInv, AheadOnlyAfterRestore
<1>2. TypeOK /\ ClockInv /\ [Next]_vars => ClockInv'
  <2> SUFFICES ASSUME TypeOK, ClockInv, [Next]_vars
               PROVE  ClockInv'
    OBVIOUS
  <2>1. ASSUME UNCHANGED <<png, ts, now, t1>>
        PROVE  ClockInv'
    BY <2>1 DEF ClockInv, AheadOnlyAfterRestore
  <2>2. ASSUME NEW keys \in Inputs, Contribute(keys)
        PROVE  ClockInv'
    <3>1. PICK d \in Nat : now' = now + d
      BY <2>2, GameBoyAssumption DEF Contribute
    <3> QED BY <2>2, <3>1 DEF Contribute, ClockInv, AheadOnlyAfterRestore, TypeOK
  <2>3. CASE SimulateFrame
    BY <2>3, GameBoyAssumption DEF SimulateFrame, ClockInv, AheadOnlyAfterRestore, TypeOK
  <2>4. CASE LeaveLoop \/ OpenFile \/ WriteFile \/ OpenFails \/ WriteFails \/ Return
    BY <2>4, <2>1 DEF LeaveLoop, OpenFile, WriteFile, OpenFails, WriteFails, Return
  <2>5. CASE Restart \/ LiveUpdate
    BY <2>5 DEF Restart, LiveUpdate, Boot, ClockInv, AheadOnlyAfterRestore
  <2>6. CASE UNCHANGED vars
    BY <2>6, <2>1 DEF vars
  <2> QED BY <2>2, <2>3, <2>4, <2>5, <2>6 DEF Next
<1>3. ClockInv => AheadOnlyAfterRestore
  BY DEF ClockInv
<1> QED BY <1>1, <1>2, <1>3, TypeCorrect, PTL DEF Spec

===============================================================================
