---------------------------- MODULE MCShadowFsm ----------------------------
(* Instance of ShadowFsm for model checking. *)
EXTENDS ShadowFsm

\* One key the default table has, one it has no entry for.
MCInjectable == { <<"OpenSent", "BgpOpen">>, <<"Active", "BgpUpdate">> }

\* Edits of the table and timers that run are explored apart: no action reads
\* both.
EditsOrTimers ==
  edits = 0 \/ (now = 0 /\ \A t \in Timer : ~Running(t))
=============================================================================
