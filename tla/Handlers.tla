-------------------------------- MODULE Handlers -------------------------------
(***************************************************************************)
(* Request VMs side by side, each in some step of its handler.  The        *)
(* programs that extend this module share memory or a directly linked      *)
(* storage, without the queue of storage_call: any step of one VM may come *)
(* between two steps of another.                                           *)
(***************************************************************************)

CONSTANT VMs  \* the request VMs

VARIABLE pc   \* where each VM is in on_get

(* VM v moves on in its handler.                                           *)
Go(v, from, to) ==
  /\ pc[v] = from
  /\ pc' = [pc EXCEPT ![v] = to]

===============================================================================
