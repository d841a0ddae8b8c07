------------------------------- MODULE MCGameBoy -------------------------------
(***************************************************************************)
(* The rates are those of the code, in units of half a millisecond.  The   *)
(* delays are exactly TICKRATE, after which no frame is due yet, and       *)
(* exactly SKIPRATE; after both the emulator owes more frames than one     *)
(* call makes up for.                                                      *)
(***************************************************************************)
EXTENDS GameBoy

MCInputs == {{}, {"UP", "DOWN"}}
MCDelays == {33, 100}
===============================================================================
