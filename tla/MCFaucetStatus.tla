--------------------------- MODULE MCFaucetStatus ---------------------------
(* A small instance of the faucet's cached status for TLC. *)
EXTENDS FaucetStatus

=============================================================================
