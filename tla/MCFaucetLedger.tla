--------------------------- MODULE MCFaucetLedger ---------------------------
(* A small instance of the faucet ledger for TLC. *)
EXTENDS FaucetLedger

(* A day is as long as the payout interval and takes one payout, a month   *)
(* of two days takes two.                                                  *)
TwoWindows == {"day", "month"}
LongDays   == [w \in TwoWindows |-> [t \in Times |-> t - (t % (IF w = "day" THEN 2 ELSE 4))]]
Limits     == [w \in TwoWindows |-> IF w = "day" THEN 1 ELSE 2]

=============================================================================
