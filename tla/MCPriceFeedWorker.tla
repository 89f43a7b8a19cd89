------------------------- MODULE MCPriceFeedWorker -------------------------
(* Prices for the price feed worker's runs: i64 is shrunk to -6 .. 5, so   *)
(* that -3 is refused by the contract, and 1 + 5 and 5 + 5 overflow.       *)
EXTENDS PriceFeedWorker, TLC

CONSTANTS c1, c2

MCChannel == {c1, c2}
MCPrice == {-3, 5}
MCPriceWide == {-3, 1, 5}
Symmetry == Permutations(MCChannel)
=============================================================================
