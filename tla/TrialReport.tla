---------------------------- MODULE TrialReport -----------------------------
(***************************************************************************)
(* What a driver that runs a number of trials on one group promises, in    *)
(* whatever order, on however many threads it runs them: each trial counts *)
(* once, either by a listing of the set it found or not at all, and only   *)
(* then comes the verdict, which is that there is nothing exactly if       *)
(* nothing was listed.                                                     *)
(***************************************************************************)
CONSTANT Trials

VARIABLES
  listed,    (* the trials whose set has been listed                       *)
  failed,    (* the trials that found none                                 *)
  verdict    (* "pending", "some" or "none"                                *)

trvars == << listed, failed, verdict >>

TRInit == listed = {} /\ failed = {} /\ verdict = "pending"

Conclude(i) ==
  /\ verdict = "pending"
  /\ i \notin listed \cup failed
  /\ \/ listed' = listed \cup {i} /\ UNCHANGED failed
     \/ failed' = failed \cup {i} /\ UNCHANGED listed
  /\ UNCHANGED verdict

Say ==
  /\ verdict = "pending"
  /\ listed \cup failed = Trials
  /\ verdict' = IF listed = {} THEN "none" ELSE "some"
  /\ UNCHANGED << listed, failed >>

TRNext == Say \/ \E i \in Trials : Conclude(i)

Spec == TRInit /\ [][TRNext]_trvars
=============================================================================
