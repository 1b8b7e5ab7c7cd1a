-------------------------- MODULE MCBridgeRelease --------------------------
EXTENDS BridgeRelease, TLC

\* A burn for a user and one for the admin, each in a transaction of its own; and two in
\* one transaction.
Two   == {[tx |-> 1, log |-> 0, amount |-> 2, to |-> "u1"],
          [tx |-> 2, log |-> 0, amount |-> 1, to |-> "admin"]}
OneTx == {[tx |-> 1, log |-> 0, amount |-> 1, to |-> "u1"],
          [tx |-> 1, log |-> 1, amount |-> 2, to |-> "u2"]}
=============================================================================
