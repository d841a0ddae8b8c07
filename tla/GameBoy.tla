-------------------------------- MODULE GameBoy --------------------------------
(***************************************************************************)
(* cpp/gbc: one GameBoy emulator in storage, shared by all viewers.  Every *)
(* request for a frame calls get_frame there: it contributes the viewer's  *)
(* keys, lets the emulator catch up with the clock, stores the emulator's  *)
(* state in a file now and then, and returns the newest PNG.  The host     *)
(* serializes the calls, so that the steps of one get_frame are never      *)
(* interleaved with another's; the process can be restarted between any    *)
(* two of them, and updated between two calls.  A call that cannot store   *)
(* the state ends with an exception, and storage goes on as it is (or is   *)
(* started anew, which is a restart).                                      *)
(*                                                                         *)
(* Of the emulator only the number of the frame it has reached matters.    *)
(* The prediction of frames is disabled in the code and left out.          *)
(***************************************************************************)
EXTENDS Integers, Sequences, FiniteSets

CONSTANTS
  Inputs,     \* the sets of keys a request can press
  TickRate,   \* TICKRATE and
  SkipRate,   \* SKIPRATE, in the unit of the clock
  SaveEvery,  \* the state is stored every so many frames, 64 in the code
  Delays,     \* how much CPU time storage can have used between two calls
  MaxTime,    \* bound: calls begin before this time
  MaxFrames   \* bound: and before this frame

ASSUME GameBoyAssumption ==
  /\ TickRate \in Nat \ {0} /\ SkipRate \in Nat /\ TickRate <= SkipRate
  /\ SaveEvery \in Nat \ {0}
  /\ Delays \subseteq Nat
  /\ Inputs \subseteq SUBSET {"A", "B", "START", "SELECT", "UP", "DOWN", "LEFT", "RIGHT"}
  /\ MaxTime \in Nat /\ MaxFrames \in Nat

VARIABLES
  step,       \* where get_frame is
  keystate,   \* current_state.inputs: the keys held in the coming frames,
  current,    \*   a ring of four, and its position
  ts,         \* current_state.ts: the time the emulator has caught up with
  frame,      \* machine->gpu.frame_count()
  png,        \* the state of the buffer png.first points to
  now, t1,    \* the clock, and what get_frame read of it
  file,       \* the state file: what it holds, and how many parts of it
  frames,     \* frames simulated by the call that runs
  recent,     \* what was contributed since the last call that returned, and
              \*   before it since the one before, and so on; as far as this
              \*   process, or one it was updated from, did it
  since       \* how many calls returned since the process started, 4 if there
              \*   are more or if it began with nothing to restore

calls == <<recent, since>>
inputVars == <<keystate, current, calls>>
vars == <<step, inputVars, ts, frame, png, now, t1, file, frames>>

Slots == 0..3
Buttons == {"A", "B", "START", "SELECT", "UP", "DOWN", "LEFT", "RIGHT"}
AllKeys == SUBSET Buttons

NoKeys == [i \in Slots |-> {}]
NoneRecent == [i \in 1..4 |-> {}]

(* What a program passes on: the emulator, and current_state.              *)
State == [frame : Nat, ts : Nat, keystate : [Slots -> AllKeys], current : Slots]

Serialized == [frame |-> frame, ts |-> ts, keystate |-> keystate, current |-> current]

NewState(boot) == [frame |-> 0, ts |-> boot, keystate |-> NoKeys, current |-> 0]

(* The file holds so many whole parts of a state: the machine, perhaps     *)
(* with the palette after it, and current_state.                           *)
Files == [parts : 0..2, state : State]

(* A file that so much of the state has been written to.                   *)
Written(parts) ==
  [parts |-> parts,
   state |-> IF parts = 2 THEN Serialized
             ELSE [NewState(0) EXCEPT !.frame = IF parts = 1 THEN frame ELSE 0]]

TypeOK ==
  /\ step \in {"idle", "loop", "save", "write", "return"}
  /\ keystate \in [Slots -> AllKeys] /\ current \in Slots
  /\ recent \in [1..4 -> AllKeys] /\ since \in 0..4
  /\ ts \in Nat /\ frame \in Nat
  /\ png \in {"null", "freed"}
  /\ now \in Nat /\ t1 \in Nat
  /\ file \in Files
  /\ frames \in Nat

Init ==
  /\ step = "idle"
  /\ keystate = NoKeys /\ current = 0 /\ recent = NoneRecent /\ since = 4
  /\ ts = 0 /\ frame = 0
  /\ png = "null"
  /\ now = 0 /\ t1 = 0
  /\ file = [parts |-> 0, state |-> NewState(0)]
  /\ frames = 0

-----------------------------------------------------------------------------

Slot(i) == (current + i) % 4

(* InputState::get: never two opposite directions.                         *)
Get ==
  LET keys == keystate[current]
      vertical == IF "UP" \in keys THEN {"DOWN"} ELSE {}
      horizontal == IF "RIGHT" \in keys THEN {"LEFT"} ELSE {}
  IN  keys \ (vertical \cup horizontal)

(* get_frame begins: contribute, and read the clock.  If the call before   *)
(* failed, its keys and these share the slots from here on.                *)
Contribute(keys) ==
  /\ step = "idle"
  /\ now < MaxTime /\ frame < MaxFrames
  /\ step' = "loop"
  /\ keystate' = [i \in Slots |-> keystate[i] \cup keys]
  /\ recent' = [recent EXCEPT ![1] = @ \cup keys]
  /\ \E d \in Delays : now' = now + d
  /\ t1' = now'
  /\ frames' = 0
  /\ UNCHANGED <<current, since, ts, frame, png, file>>

(* Variants: the time that was skipped is made up for; frames are drawn    *)
(* before they are due.                                                    *)
SimulateEveryFrame ==
  /\ step = "loop"
  /\ t1 - ts > TickRate
  /\ frame' = frame + 1
  /\ frames' = frames + 1
  /\ png' = "freed"
  /\ ts' = ts + TickRate
  /\ UNCHANGED <<step, inputVars, now, t1, file>>

SimulateEarly ==
  /\ step = "loop"
  /\ t1 > ts
  /\ frame' = frame + 1
  /\ frames' = frames + 1
  /\ png' = "freed"
  /\ ts' = IF t1 - ts > SkipRate THEN t1 ELSE ts + TickRate
  /\ UNCHANGED <<step, inputVars, now, t1, file>>

(* One iteration of the loop: a frame, its PNG, and ts moves on.  The new  *)
(* buffer is freed at once, and png keeps pointing to it.                  *)
SimulateFrame ==
  /\ step = "loop"
  /\ t1 - ts > TickRate
  /\ frame' = frame + 1
  /\ frames' = frames + 1
  /\ png' = "freed"
  /\ ts' = IF t1 - ts > SkipRate THEN t1 ELSE ts + TickRate
  /\ UNCHANGED <<step, inputVars, now, t1, file>>

LeaveLoop ==
  /\ step = "loop"
  /\ t1 - ts <= TickRate
  /\ step' = IF frame % SaveEvery = 0 THEN "save" ELSE "return"
  /\ UNCHANGED <<inputVars, ts, frame, png, now, t1, file, frames>>

(* file_writer: opening the file empties it, then the state is written;    *)
(* what fclose cannot write any more goes unnoticed.                       *)
OpenFile ==
  /\ step = "save"
  /\ step' = "write"
  /\ file' = Written(0)
  /\ UNCHANGED <<inputVars, ts, frame, png, now, t1, frames>>

WriteFile ==
  /\ step = "write"
  /\ step' = "return"
  /\ \E parts \in 0..2 : file' = Written(parts)
  /\ UNCHANGED <<inputVars, ts, frame, png, now, t1, frames>>

(* Either may throw instead, which leaves get_frame before inputs.next():  *)
(* the emulator has moved on and the keys stay where they are.             *)
OpenFails ==
  /\ step = "save"
  /\ step' = "idle"
  /\ frames' = 0
  /\ UNCHANGED <<inputVars, ts, frame, png, now, t1, file>>

WriteFails ==
  /\ step = "write"
  /\ step' = "idle"
  /\ frames' = 0
  /\ \E parts \in 0..1 : file' = Written(parts)
  /\ UNCHANGED <<inputVars, ts, frame, png, now, t1>>

Returned ==
  /\ frames' = 0
  /\ recent' = [j \in 1..4 |-> IF j = 1 THEN {} ELSE recent[j - 1]]
  /\ since' = IF since = 4 THEN 4 ELSE since + 1

(* Variants: the position runs out of the ring; the slot is not cleared.   *)
ReturnPastEnd ==
  /\ step = "return"
  /\ step' = "idle"
  /\ keystate' = [keystate EXCEPT ![current] = {}]
  /\ current' = current + 1
  /\ Returned
  /\ UNCHANGED <<ts, frame, png, now, t1, file>>

ReturnUncleared ==
  /\ step = "return"
  /\ step' = "idle"
  /\ current' = (current + 1) % 4
  /\ Returned
  /\ UNCHANGED <<keystate, ts, frame, png, now, t1, file>>

(* inputs.next() and storage_return.                                       *)
Return ==
  /\ step = "return"
  /\ step' = "idle"
  /\ keystate' = [keystate EXCEPT ![current] = {}]
  /\ current' = (current + 1) % 4
  /\ Returned
  /\ UNCHANGED <<ts, frame, png, now, t1, file>>

-----------------------------------------------------------------------------

(* restore_state_from: what there is of a state is taken over, the rest is *)
(* as in a new process.                                                    *)
Restore(state, parts, boot) ==
  LET inputState == IF parts = 2 THEN state ELSE NewState(boot) IN
  /\ frame' = IF parts >= 1 THEN state.frame ELSE 0
  /\ ts' = inputState.ts
  /\ keystate' = inputState.keystate
  /\ current' = inputState.current

(* A process starts: its CPU clock does too, and it has no PNG yet.        *)
Boot(boot) ==
  /\ now' = boot /\ t1' = boot
  /\ step' = "idle"
  /\ png' = "null"
  /\ frames' = 0

(* The storage process ends at any point and main starts it again, with    *)
(* what it can read of the file.  The write it was in may have left some   *)
(* parts of the new state there.                                           *)
Restart ==
  /\ IF step = "write" THEN file' \in {Written(0), Written(1)} ELSE UNCHANGED file
  /\ \E loaded \in {0, file'.parts} : Restore(file'.state, loaded, 0)
  /\ Boot(0)
  /\ recent' = NoneRecent /\ since' = 0

(* do_serialize_state in the old process and do_restore_state in the new.  *)
(* What is still called in the old one changes its own emulator and keys;  *)
(* if that writes the file, the next process starts from another state.    *)
LiveUpdate ==
  /\ step = "idle"
  /\ Restore(Serialized, 2, 0)
  /\ Boot(0)
  /\ UNCHANGED <<file, calls>>

Next ==
  \/ \E keys \in Inputs : Contribute(keys)
  \/ SimulateFrame \/ LeaveLoop \/ Return
  \/ OpenFile \/ WriteFile \/ OpenFails \/ WriteFails
  \/ Restart \/ LiveUpdate

Spec == Init /\ [][Next]_vars

-----------------------------------------------------------------------------

(* What the calls up to now have in the i-th slot from the current one.    *)
Held(i) == UNION {recent[j] : j \in 1..(4 - i)}

(* A key is held for the call that presses it and the three calls after,   *)
(* whoever makes them and whether or not they draw a frame, and is then    *)
(* released; only a call that returns counts, so that one which throws     *)
(* holds them longer.  An update neither sticks nor drops a key, and what  *)
(* a restart finds in the file is released after as many calls as the      *)
(* ring has slots (contribute and next of InputState, current_state in the *)
(* serialized state, file_writer).                                         *)
KeysHeldFourCalls ==
  \A i \in Slots :
    /\ Held(i) \subseteq keystate[Slot(i)]
    /\ i >= 4 - since => keystate[Slot(i)] = Held(i)

(* A call simulates at most SKIPRATE / TICKRATE frames, however long       *)
(* nobody watched: storage is never held for longer (the loop of           *)
(* get_frame).                                                             *)
BoundedCatchUp == frames * TickRate <= SkipRate

(* Once a process has drawn a frame the emulator is not ahead of the       *)
(* clock.  Before that it can be, after a state was restored: the CPU      *)
(* clock starts anew and `ts' does not (restore_state_from).               *)
AheadOnlyAfterRestore == png # "null" => ts <= now

===============================================================================
