------------------------------ MODULE MCWithdraw ------------------------------
(* Withdraw with a 4-bit Uint256 and a fee of 3. *)
EXTENDS Withdraw

CONSTANTS r1, r2, AllReq

(* Transactions the chain accepts in one behaviour. *)
MaxNonce == 3

NonceBound == chainNonce <= MaxNonce
=============================================================================
