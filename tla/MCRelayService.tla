--------------------------- MODULE MCRelayService ---------------------------
(***************************************************************************)
(* Two submits of one bet, and a third one of the same signed nonce under  *)
(* another key (another market id) which is refused.  Timers make two      *)
(* ticks instead of sixty; one restart.                                    *)
(***************************************************************************)
EXTENDS RelayService, TLC

CONSTANTS first, again, other

MCKeyOf  == first :> 1 @@ again :> 1 @@ other :> 2
MCSlotOf == first :> 1 @@ again :> 1 @@ other :> 1
=============================================================================
