-------------------------- MODULE MCOracleRegister --------------------------
(* Two nodes, each restarted once and so able to register twice, and a     *)
(* registration with the command line.  A stake being 3, all five entries  *)
(* could be paid, but the register has four places: any of the five may be *)
(* the one that is refused.                                                *)
EXTENDS OracleRegister, TLC

CONSTANTS n1, n2

MCNode == {n1, n2}
MCFunds == n1 :> 7 @@ n2 :> 6
MCRestarts == n1 :> 1 @@ n2 :> 1
=============================================================================
