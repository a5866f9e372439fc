---------------------------- MODULE MCRunCompletion ----------------------------
(***************************************************************************)
(* RunCompletion for TLC: a run meets one trouble; the failure rate is     *)
(* judged from the first record on and half is tolerated.                  *)
(***************************************************************************)
EXTENDS RunCompletion

OneTrouble == {{t} : t \in Troubles}
===============================================================================
