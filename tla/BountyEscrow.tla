---------------------------- MODULE BountyEscrow ----------------------------
(***************************************************************************)
(* What the contract promises about money, with everything else left out.  *)
(* A deposit (a bounty's reward, a challenge's bond) is held, then due to  *)
(* one payee, then paid to that payee, each once and in that order, always *)
(* in the amount deposited.  Value enters with a new deposit and leaves    *)
(* with the payment of one that is due; nothing else moves it.             *)
(***************************************************************************)
EXTENDS Integers

CONSTANTS
    DepositIds,      \* what deposits are called
    Amounts,         \* what may be deposited
    Accounts,        \* who may be paid
    Nobody           \* the payee of a deposit that is still held

VARIABLES
    deposits,        \* the deposits made so far, a function on their ids
    funds,           \* what the contract owns
    paid             \* what each account has been paid

vars == <<deposits, funds, paid>>

Init ==
    /\ deposits = [d \in {} |-> {}]
    /\ funds = 0
    /\ paid = [a \in Accounts |-> 0]

Deposit(d, amount) ==
    /\ d \notin DOMAIN deposits
    /\ deposits' = [e \in DOMAIN deposits \cup {d} |->
                        IF e = d THEN [amount |-> amount, state |-> "held", payee |-> Nobody]
                        ELSE deposits[e]]
    /\ funds' = funds + amount
    /\ UNCHANGED paid

Release(d, payee) ==
    /\ deposits[d].state = "held"
    /\ deposits' = [deposits EXCEPT ![d] =
                        [amount |-> deposits[d].amount, state |-> "due", payee |-> payee]]
    /\ UNCHANGED <<funds, paid>>

Pay(d) ==
    /\ deposits[d].state = "due"
    /\ deposits' = [deposits EXCEPT ![d] =
                        [amount |-> deposits[d].amount, state |-> "paid",
                         payee |-> deposits[d].payee]]
    /\ funds' = funds - deposits[d].amount
    /\ paid' = [paid EXCEPT ![deposits[d].payee] = @ + deposits[d].amount]

Next ==
    \/ \E d \in DepositIds, amount \in Amounts : Deposit(d, amount)
    \/ \E d \in DOMAIN deposits, payee \in Accounts : Release(d, payee)
    \/ \E d \in DOMAIN deposits : Pay(d)

Spec == Init /\ [][Next]_vars
=============================================================================
