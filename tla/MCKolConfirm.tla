----------------------------- MODULE MCKolConfirm -----------------------------
(* Instances of KolConfirm for TLC: named trades with fixed sides.           *)
EXTENDS KolConfirm

MCBuyAndSell == {"buy", "sell"}

MCSideOf ==
    [t \in Txs |-> CASE t = "buy"  -> "BUY"
                     [] t = "sell" -> "SELL"
                     [] OTHER      -> "NONE"]
=============================================================================
