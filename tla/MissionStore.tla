----------------------------- MODULE MissionStore -----------------------------
(***************************************************************************)
(* What a mission upload promises: the vehicle's stored mission may change *)
(* in any way until an upload is accepted; from then on it is that         *)
(* upload's mission, until the next upload begins.                         *)
(***************************************************************************)
CONSTANTS Transfers,  \* uploads, each with a mission of its own
          None

VARIABLES claim,      \* the accepted upload, if the latest one was accepted
          holds       \* the upload whose complete mission the vehicle stores

Init == claim = None /\ holds = None

\* The vehicle receives, abandons or completes something nobody vouches for.
Drift ==
    /\ claim = None
    /\ holds' \in Transfers \cup {None}
    /\ UNCHANGED claim

Accept(t) ==
    /\ claim = None /\ holds = t
    /\ claim' = t
    /\ UNCHANGED holds

Begin ==
    /\ claim' = None
    /\ UNCHANGED holds

Next == Drift \/ Begin \/ \E t \in Transfers : Accept(t)

Spec == Init /\ [][Next]_<<claim, holds>>
=============================================================================
