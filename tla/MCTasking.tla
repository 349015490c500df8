------------------------------ MODULE MCTasking ------------------------------
(***************************************************************************)
(* A small instance of the tasking kernel for TLC: three clients, which    *)
(* can queue behind each other on one event count - the smallest number    *)
(* for which the scan hint, a released group and a task left behind in a   *)
(* list occur together - besides the task that serves the alarms.          *)
(***************************************************************************)
EXTENDS Tasking
=============================================================================
