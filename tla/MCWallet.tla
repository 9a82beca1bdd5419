------------------------------ MODULE MCWallet ------------------------------
(***************************************************************************)
(* Constants of the Wallet runs: the first order buys two points, the      *)
(* others one, and every purchase costs one or two.                        *)
(***************************************************************************)
EXTENDS Wallet

MCOrders == {"order1", "order2"}
MCSpends == {"boost", "publish"}
MCAmount == [o \in Orders |-> IF o = "order1" THEN 2 ELSE 1]
MCCost == [s \in Spends |-> IF s = "boost" THEN 2 ELSE 1]
=============================================================================
