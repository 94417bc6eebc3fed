--------------------------- MODULE TendonLinkLive ---------------------------
(***************************************************************************)
(* TendonLink with an observer of what the transport has taken from the    *)
(* present call, for the liveness of calls.                                *)
(***************************************************************************)
EXTENDS MCTendonLink

VARIABLE lost     \* has this call's request, or its response, been lost?

Loses == LoseRequest \/ (LoseResponse /\ IsPacket(Head(toHost)))

LiveInit == Init /\ lost = FALSE
LiveNext ==
    \/ (Host \/ Firmware \/ CorruptRequest \/ CorruptResponse)
       /\ lost' = (lost /\ ~SendTx)
    \/ Loses /\ lost' = TRUE
    \/ (LoseResponse /\ ~IsPacket(Head(toHost))) /\ lost' = lost
LiveSpec == LiveInit /\ [][LiveNext]_<<vars, lost>> /\ Fairness

(* Every call returns whose request and response arrive: a damaged request *)
(* is answered too, and neither the byte that each response leaves behind  *)
(* nor what an earlier call lost makes the host overlook the next header.  *)
(* (ReadRx blocks for ever when one of the two is lost.)                   *)
CallReturnsUnlessLost == (pc # "idle") ~> (pc = "idle" \/ lost)
=============================================================================
