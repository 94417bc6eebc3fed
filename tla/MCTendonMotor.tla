--------------------------- MODULE MCTendonMotor ---------------------------
(* TendonMotor with one motor, since encoders share nothing but the        *)
(* processor, and five steps between the stops: more than a pin cycle.     *)
EXTENDS TendonMotor

MCMotors == {0}
MCEnd == 5

(* A count that lost steps or a zero drifts without limit. *)
DriftBounded ==
    \A m \in Motors : m_currentTicks[m] \in -(End + 5) .. End + 5
=============================================================================
