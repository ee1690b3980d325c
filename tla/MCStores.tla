------------------------------ MODULE MCStores -------------------------------
(***************************************************************************)
(* The slots with their external measures, and the observers, side by      *)
(* side, for TLC.  They share nothing here (module NodeTree has observers  *)
(* run inside mutators), and a behaviour is about one of them.             *)
(***************************************************************************)
EXTENDS ExternalMeasure, Observers

VARIABLE store  \* the store a behaviour is about

StoresInit == store \in {"slots", "observers"} /\ MeasureInit /\ ObsInit

StoresNext ==
  \/ store = "slots" /\ MeasureNext /\ UNCHANGED <<obsVars, store>>
  \/ store = "observers" /\ ObsNext /\ UNCHANGED <<allVars, store>>

\* The fairness of FairObsSpec.
StoresSpec ==
  /\ StoresInit
  /\ [][StoresNext]_<<allVars, obsVars, store>>
  /\ WF_obsVars(NotifyStep)
=============================================================================
