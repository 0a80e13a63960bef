------------------------------- MODULE MCGuest -------------------------------
(***************************************************************************)
(* TLC instance of the three parts of the guest agent that run beside its  *)
(* serve loop: containers (GuestRuntime), terminal sessions (ExecStream)   *)
(* and the log format (CriLog).  They share no state the models keep, so   *)
(* each behaviour moves one of them and leaves the others where they start. *)
(***************************************************************************)
EXTENDS GuestRuntime, ExecStream, CriLog

VARIABLE part  \* the part that moves

mcvars == <<part, gvars, xvars, lvars>>

\* Where a part that does not move rests.
LogRests == written = [s \in Stream |-> <<>>] /\ CriLogInit

MCInit ==
  \/ part = "containers" /\ GuestInit /\ ExecInit /\ LogRests
  \/ part = "sessions" /\ GuestInit /\ via_run /\ ExecInit /\ LogRests
  \/ part = "log" /\ GuestInit /\ via_run /\ ExecInit /\ CriLogInit

MCNext ==
  \/ part = "containers" /\ GuestNext /\ UNCHANGED <<part, xvars, lvars>>
  \/ part = "sessions" /\ ExecNext /\ UNCHANGED <<part, gvars, lvars>>
  \/ part = "log" /\ CriLogNext /\ UNCHANGED <<part, gvars, xvars>>

\* In a part that rests nothing with fairness is enabled.
MCSpec == MCInit /\ [][MCNext]_mcvars /\ GuestFairness /\ ExecFairness
==============================================================================
