------------------------------ MODULE Multisig ------------------------------
(* A multisig wallet of the chain: proposals to transfer from its account, approved
   and revoked by its owners, executed by one of them.  One operation is one
   transaction; a refused one changes nothing here (its block is abandoned, see
   TxPool).  The account of the sender is read before the operation and written
   after it.  Fees are left out. *)
EXTENDS Naturals, FiniteSets, Functions

CONSTANTS
    Owner,
    Wallet,        \* the address of the multisig
    Other,         \* other accounts
    Threshold,
    Funds,         \* what the wallet is sent at once
    MaxFunds,      \* bound: how often
    MaxProposals,  \* bound: proposals
    MaxExpiry,     \* bound: expiry_blocks
    MaxHeight      \* bound: blocks

VARIABLES
    proposals,     \* ms_proposals, by id: [to, amount, approvals, expiry, executed]
    balance,       \* CF_ACCOUNTS
    height,
    funded,        \* how often the wallet was funded
    selfPaid       \* what executors were to be paid themselves

vars == <<proposals, balance, height, funded, selfPaid>>

Holder == Owner \cup Other \cup {Wallet}
Ids     == DOMAIN proposals

Init ==
    /\ proposals = <<>>
    /\ balance = [a \in Holder |-> 0]
    /\ height = 0 /\ funded = 0 /\ selfPaid = 0

\* Anyone may fund the wallet; the money comes from outside the model.
Fund ==
    /\ funded < MaxFunds /\ funded' = funded + 1
    /\ balance' = [balance EXCEPT ![Wallet] = @ + Funds]
    /\ UNCHANGED <<proposals, height, selfPaid>>

NewBlock ==
    /\ height < MaxHeight /\ height' = height + 1
    /\ UNCHANGED <<proposals, balance, funded, selfPaid>>

Propose(o, to, amount, expiry) ==
    /\ Cardinality(Ids) < MaxProposals
    /\ proposals' = [i \in 1 .. Cardinality(Ids) + 1 |->
           IF i \in Ids THEN proposals[i]
           ELSE [to |-> to, amount |-> amount, approvals |-> {o},
                 expiry |-> height + expiry, executed |-> FALSE]]
    /\ UNCHANGED <<balance, height, funded, selfPaid>>

Approve(o, i) ==
    /\ ~proposals[i].executed /\ height <= proposals[i].expiry
    /\ o \notin proposals[i].approvals
    /\ proposals' = [proposals EXCEPT ![i].approvals = @ \cup {o}]
    /\ UNCHANGED <<balance, height, funded, selfPaid>>

Revoke(o, i) ==
    /\ ~proposals[i].executed
    /\ o \in proposals[i].approvals
    /\ proposals' = [proposals EXCEPT ![i].approvals = @ \ {o}]
    /\ UNCHANGED <<balance, height, funded, selfPaid>>

Executable(i) ==
    /\ ~proposals[i].executed /\ height <= proposals[i].expiry
    /\ Cardinality(proposals[i].approvals) >= Threshold
    /\ balance[Wallet] >= proposals[i].amount

\* Three rows, in this order: the wallet, the payee, and the executor as it was
\* before the transaction.
PaidRows(o, p) ==
    LET debited  == [balance EXCEPT ![Wallet] = @ - p.amount]
        credited == [debited EXCEPT ![p.to] = @ + p.amount]
    IN [credited EXCEPT ![o] = balance[o]]

\* Mutant: the payee is credited before the wallet's row, read earlier, is written.
ExecuteCreditFirst(o, i) ==
    /\ Executable(i)
    /\ LET p == proposals[i]
       IN balance' = [a \in Holder |->
              CASE a = Wallet -> balance[Wallet] - p.amount
                [] a = p.to /\ a # o -> balance[a] + p.amount
                [] OTHER -> balance[a]]
    /\ proposals' = [proposals EXCEPT ![i].executed = TRUE]
    /\ selfPaid' = selfPaid + IF proposals[i].to = o THEN proposals[i].amount ELSE 0
    /\ UNCHANGED <<height, funded>>

Execute(o, i) ==
    /\ Executable(i)
    /\ balance' = PaidRows(o, proposals[i])
    /\ proposals' = [proposals EXCEPT ![i].executed = TRUE]
    /\ selfPaid' = selfPaid + IF proposals[i].to = o THEN proposals[i].amount ELSE 0
    /\ UNCHANGED <<height, funded>>

Next ==
    \/ Fund \/ NewBlock
    \/ \E o \in Owner :
         \/ \E to \in Holder, n \in 1 .. Funds, e \in 1 .. MaxExpiry : Propose(o, to, n, e)
         \/ \E i \in Ids : Approve(o, i) \/ Revoke(o, i) \/ Execute(o, i)

Spec == Init /\ [][Next]_vars

-----------------------------------------------------------------------------
\* The variables keep their types.
TypeOK ==
    /\ Ids = 1 .. Cardinality(Ids)
    /\ \A i \in Ids : /\ proposals[i].to \in Holder /\ proposals[i].amount \in Nat
                      /\ proposals[i].approvals \subseteq Owner
                      /\ proposals[i].expiry \in Nat /\ proposals[i].executed \in BOOLEAN
    /\ balance \in [Holder -> Nat]
    /\ height \in 0 .. MaxHeight /\ funded \in 0 .. MaxFunds /\ selfPaid \in Nat

Executed == {i \in Ids : proposals[i].executed}

\* What has left the wallet is what executed proposals pay to others, each once
\* (Execute).
PaysOnce ==
    balance[Wallet] + SumFunctionOnSet([i \in Ids |-> proposals[i].amount],
                                       {i \in Executed : proposals[i].to # Wallet})
        = funded * Funds

\* Money that leaves the wallet arrives, but for what an executor is paid himself:
\* his row, read before the operation, is written over the credit.
Arrives ==
    SumFunctionOnSet(balance, Holder) + selfPaid = funded * Funds
=============================================================================
