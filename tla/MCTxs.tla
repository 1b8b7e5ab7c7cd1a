-------------------------------- MODULE MCTxs --------------------------------
(* Transactions of two accounts: a gap in the nonces, two of one nonce, payments in a
   circle, and two swaps of which one moves the price for the other.  A transfer has
   price 0; the others are swaps that ask for that price. *)
EXTENDS Naturals

Bid(f, to, n, fee, at, price) ==
    [from |-> f, to |-> to, amount |-> n, fee |-> fee, nonce |-> at, price |-> price]

Txs == {Bid("a", "b", 1, 1, 0, 0), Bid("a", "b", 2, 2, 1, 0), Bid("b", "a", 2, 1, 0, 0),
        Bid("b", "b", 1, 2, 0, 2), Bid("b", "b", 1, 1, 1, 1)}
=============================================================================
