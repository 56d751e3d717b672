----------------------------- MODULE MCAHPChannel -----------------------------
(* Model-checking instance of AHPChannel. *)
EXTENDS AHPChannel, TLC

MCCodes == "ACCEPT" :> 2 @@ "GET_HISTORIAN_VARIABLES" :> 0
MCBodies == {<< >>, <<0, 1>>}
=============================================================================
