---------------------------- MODULE MCStorageContent ---------------------------
(***************************************************************************)
(* Two request VMs ("concurrency" 2), the periodic task and a live update, *)
(* bodies of up to one byte: a GET can overtake, follow or wait behind any *)
(* POST, update or task.                                                   *)
(***************************************************************************)
EXTENDS StorageContent
===============================================================================
