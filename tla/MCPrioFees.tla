------------------------------ MODULE MCPrioFees -----------------------------
(* One block with up to five transactions: those that write account a pay   *)
(* five times as much as the others.                                        *)
EXTENDS PrioFees, TLC
CONSTANT a

MCTx == {[vote |-> FALSE, fee |-> 5, cu |-> 1, writes |-> {a}, reads |-> {}],
         [vote |-> FALSE, fee |-> 1, cu |-> 1, writes |-> {}, reads |-> {}]}
==============================================================================
