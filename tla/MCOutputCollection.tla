------------------------- MODULE MCOutputCollection -------------------------
(* OutputCollection for TLC: stdout outgrows its limit, stderr does not. *)
EXTENDS OutputCollection, TLC

MCWrites == "stdout" :> 3 @@ "stderr" :> 1

=============================================================================
