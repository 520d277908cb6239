------------------------------- MODULE Wallet -------------------------------
(***************************************************************************)
(* What the credit wallet of an organisation promises to its callers: every *)
(* request takes effect in one instant, on the wallet as it is at that     *)
(* instant, and a movement at most once per idempotency key.  There are no *)
(* sessions, no locks and no copies of rows here; CreditAccount, which has *)
(* them, implements this specification.                                    *)
(***************************************************************************)
EXTENDS Integers

CONSTANTS Keys, NoKey, Amounts, Limits, NoLimit

VARIABLES
    wallet,     \* status, limit and used credit
    applied     \* the idempotency keys that have moved it

wvars == <<wallet, applied>>

\* The status changes an administrator or a rule can make.
LegalChanges ==
    {<<"ACTIVE", "ON_HOLD">>, <<"ON_HOLD", "ACTIVE">>, <<"SUSPENDED", "ACTIVE">>}
        \cup ({"ACTIVE", "ON_HOLD"} \X {"SUSPENDED"})
        \cup ({"ACTIVE", "ON_HOLD", "SUSPENDED"} \X {"CLOSED"})

WalletInit ==
    /\ wallet = [exists |-> FALSE, status |-> "ACTIVE", limit |-> NoLimit, used |-> 0]
    /\ applied = {}

\* An operation that needs a wallet opens one, ACTIVE and unused.
Opened(l) ==
    IF wallet.exists THEN wallet
    ELSE [exists |-> TRUE, status |-> "ACTIVE", limit |-> l, used |-> 0]

Move(k, d) ==
    /\ wallet.exists
    /\ wallet.status = "ACTIVE"
    /\ k \notin applied
    /\ wallet.used + d >= 0
    /\ wallet' = [wallet EXCEPT !.used = wallet.used + d]
    /\ applied' = applied \cup ({k} \ {NoKey})

Consume(k, a) ==
    /\ wallet.limit # NoLimit
    /\ wallet.used + a <= wallet.limit
    /\ Move(k, a)

Repay(k, a) == Move(k, -a)

Adjust(k, d) ==
    /\ wallet.limit # NoLimit => wallet.used + d <= wallet.limit
    /\ Move(k, d)

SetStatus(l, to) ==
    /\ <<Opened(l).status, to>> \in LegalChanges
    /\ wallet' = [Opened(l) EXCEPT !.status = to]
    /\ UNCHANGED applied

SetLimit(l) ==
    /\ wallet.exists
    /\ wallet' = [wallet EXCEPT !.limit = l]
    /\ UNCHANGED applied

\* The approval of a credit application sets the limit and the status.  It
\* may have decided on an older view of the wallet and then leaves either
\* as it finds it; it never touches what has been used.
Approve(l, limit, status) ==
    /\ limit \in {Opened(l).limit, l}
    /\ status \in {Opened(l).status, "ACTIVE"}
    /\ wallet' = [Opened(l) EXCEPT !.limit = limit, !.status = status]
    /\ UNCHANGED applied

WalletNext ==
    \/ \E k \in Keys, a \in Amounts : Consume(k, a) \/ Repay(k, a)
    \/ \E k \in Keys \cup {NoKey}, a \in Amounts : Adjust(k, a) \/ Adjust(k, -a)
    \/ \E l \in Limits \cup {NoLimit}, to \in {"ACTIVE", "ON_HOLD", "SUSPENDED", "CLOSED"} :
          SetStatus(l, to)
    \/ \E l \in Limits : SetLimit(l)
    \/ \E l \in Limits, limit \in Limits \cup {NoLimit},
          status \in {"ACTIVE", "ON_HOLD", "SUSPENDED", "CLOSED"} : Approve(l, limit, status)

WalletSpec == WalletInit /\ [][WalletNext]_wvars
=============================================================================
