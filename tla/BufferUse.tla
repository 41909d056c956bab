------------------------------- MODULE BufferUse -------------------------------
(***************************************************************************)
(* One Buffer account, its three users and its own clock: the engine       *)
(* publishes and measures (Metrics), a developer runs the contract capture *)
(* (ContractCapture), a person tidies up, and posts go out at their time.  *)
(***************************************************************************)
EXTENDS Metrics, ContractCapture

vars == <<accountVars, metricsVars, captureVars>>

Init == AccountInit /\ MetricsInit /\ CaptureInit

\* In the account itself.
AccountStep == \E p \in Posts : Dispatch(p) \/ Release(p) \/ Discard(p)

Next ==
    \/ MetricsStep /\ UNCHANGED captureVars
    \/ CaptureStep /\ UNCHANGED metricsVars
    \/ AccountStep /\ UNCHANGED <<metricsVars, captureVars>>

Spec == Init /\ [][Next]_vars
-------------------------------------------------------------------------------
\* AccountTypeOK: the variables of all three keep their types.
AccountTypeOK ==
    /\ account \in [Posts -> PostStates] /\ born \in [Posts -> PostStates]
    /\ MetricsTypeOK
    /\ CaptureTypeOK
===============================================================================
