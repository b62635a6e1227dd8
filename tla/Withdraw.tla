------------------------------- MODULE Withdraw -------------------------------
(***************************************************************************)
(* The dashboard withdraw endpoints, src/rita_common/src/dashboard/        *)
(* wallet.rs: withdraw, withdraw_all, withdraw_handler and                 *)
(* eth_compatable_withdraw, against a full node.                           *)
(*                                                                         *)
(* Several HTTP requests may be in progress at once: each handler reads    *)
(* the payment settings (balance, nonce) when it runs, sends a signed      *)
(* transaction, and a callback bumps the nonce when the node accepts it.   *)
(* The node accepts a transaction whose nonce is the account's next one    *)
(* and whose value and cost its funds cover.  payment.balance is refreshed *)
(* from the chain by the blockchain oracle (not in this repository), so it *)
(* stays as read here while the funds go down.  Uint256 is scaled to       *)
(* Width bits; the num256 crate is not in this repository, so an overflow  *)
(* or underflow either panics or wraps.  The bridge path (xdai_withdraw)   *)
(* hands the request to token_bridge, which is not in this repository.     *)
(***************************************************************************)
EXTENDS Naturals

CONSTANTS
    Requests,       \* concurrent HTTP requests (model values)
    Amounts,        \* amounts a /withdraw/<address>/<amount> request may name
    All,            \* model value: the /withdraw_all request (amount None)
    Balances,       \* payment.balance values to start from
    TxCost,         \* gas_price * tx_gas for the configured chains (l.38-48)
    Width           \* bits of the scaled Uint256

Modulus == 2 ^ Width

ASSUME All \notin Amounts /\ Amounts \cup Balances \cup {TxCost} \subseteq 0..(Modulus - 1)

VARIABLES
    balance,     \* payment.balance in the settings
    funds,       \* what the chain holds for our address
    nonce,       \* payment.nonce in the settings
    chainNonce,  \* the next nonce the chain accepts for our address
    req          \* req[r]: the state of request r and the transaction it sent

vars == <<balance, funds, nonce, chainNonce, req>>

(* An outcome of the arithmetic below: a value in 0..Modulus-1, or Panic. *)
Panic == Modulus

ReqStates == {"idle", "sending", "accepted", "rejected", "done", "crashed"}

Init ==
    /\ balance \in Balances /\ funds = balance
    /\ nonce = 0 /\ chainNonce = 0
    /\ req = [r \in Requests |-> [st |-> "idle", n |-> 0, value |-> 0]]

(* Uint256 `+` and `-`: exact in range; otherwise a panic or a wrap. *)
U256Add(a, b) == IF a + b < Modulus THEN {a + b} ELSE {Panic, (a + b) % Modulus}

U256Sub(a, b) == IF a >= b THEN {a - b} ELSE {Panic, (a + Modulus - b) % Modulus}

(* l.32-36, l.48-52: the amount to send.  When it and the fee reach the    *)
(* balance, send the whole balance minus the fee.                          *)
WithdrawAmounts(a, bal) ==
    LET amt == IF a = All THEN bal ELSE a IN
    UNION {IF s = Panic THEN {Panic}
           ELSE IF s >= bal THEN U256Sub(bal, TxCost) ELSE {amt}
           : s \in U256Add(amt, TxCost)}

NonceAfter(ok, n) == IF ok THEN n + 1 ELSE n

(* withdraw / withdraw_all -> withdraw_handler -> eth_compatable_withdraw  *)
(* up to eth_send_raw_transaction (l.20-125): the nonce and the balance    *)
(* are read now.  A missing eth_address or a to_bytes error answers at     *)
(* once (l.90-96, l.114-123).                                              *)
Handle(r) ==
    /\ req[r].st = "idle"
    /\ \E a \in Amounts \cup {All} : \E v \in WithdrawAmounts(a, balance) :
          \/ /\ v = Panic
             /\ req' = [req EXCEPT ![r].st = "crashed"]
          \/ /\ v # Panic
             /\ req' = [req EXCEPT ![r] = [st |-> "sending", n |-> nonce, value |-> v]]
          \/ /\ v # Panic
             /\ req' = [req EXCEPT ![r].st = "done"]
    /\ UNCHANGED <<balance, funds, nonce, chainNonce>>

(* The node's verdict on the transaction, for the chain. *)
Valid(r) == req[r].n = chainNonce /\ req[r].value + TxCost <= funds

(* The full node handles eth_send_raw_transaction (l.125): it takes a      *)
(* transaction with the account's next nonce that the funds cover.  Its    *)
(* answer reaches the handler later, as another step.                      *)
NodeVerdict(r) ==
    /\ req[r].st = "sending"
    /\ req' = [req EXCEPT ![r].st = IF Valid(r) THEN "accepted" ELSE "rejected"]
    /\ chainNonce' = IF Valid(r) THEN chainNonce + 1 ELSE chainNonce
    /\ funds' = IF Valid(r) THEN funds - req[r].value - TxCost ELSE funds
    /\ UNCHANGED <<balance, nonce>>

(* The transaction_status future resolves and its callback runs           *)
(* (l.127-151): the settings are read again and written back.  The node   *)
(* answers every call: an accepted transaction whose answer times out is   *)
(* left out (the nonce is then resynced by the oracle, outside this        *)
(* repository).                                                            *)
Answer(r) ==
    /\ req[r].st \in {"accepted", "rejected"}
    /\ req' = [req EXCEPT ![r].st = "done"]
    /\ nonce' = NonceAfter(req[r].st = "accepted", nonce)
    /\ UNCHANGED <<balance, funds, chainNonce>>

(* The dashboard sends another request once one is answered, or once the *)
(* panicked handler dropped its connection.                                *)
NewRequest(r) ==
    /\ req[r].st \in {"done", "crashed"}
    /\ req' = [req EXCEPT ![r].st = "idle"]
    /\ UNCHANGED <<balance, funds, nonce, chainNonce>>

Next == \E r \in Requests : Handle(r) \/ NodeVerdict(r) \/ Answer(r) \/ NewRequest(r)

Spec == Init /\ [][Next]_vars

-----------------------------------------------------------------------------
TypeOK ==
    /\ balance \in 0..(Modulus - 1) /\ funds \in 0..balance
    /\ nonce \in Nat /\ chainNonce \in Nat
    /\ req \in [Requests -> [st : ReqStates, n : Nat, value : 0..(Modulus - 1)]]

=============================================================================
