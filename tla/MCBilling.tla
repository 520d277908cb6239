----------------------------- MODULE MCBilling -----------------------------
(***************************************************************************)
(* Small instances of Billing for TLC.  All payments have the same amount, *)
(* and so have all invoices and all credit notes; with 2 a row can be      *)
(* settled at once or in two parts.                                        *)
(***************************************************************************)
EXTENDS Billing, TLC

CONSTANTS PaymentPence, InvoicePence, CreditPence

SameAmount == [p \in Payments |-> PaymentPence]
SameTotal == [i \in Invoices |-> InvoicePence]
SameCredit == [c \in Credits |-> CreditPence]

\* Sessions, payments, invoices and credit notes are interchangeable as long
\* as they have the same amount, and either all payments or none get webhooks.
Symmetry == Permutations(Sessions) \cup Permutations(Payments)
            \cup Permutations(Invoices) \cup Permutations(Credits)
=============================================================================
