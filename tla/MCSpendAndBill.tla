--------------------------- MODULE MCSpendAndBill ---------------------------
(* Instances of SpendAndBill for TLC. *)
EXTENDS SpendAndBill, TLC

CONSTANTS c1, h1, h2

OneCustomer == {c1}
TwoHandlers == {h1, h2}

\* Odd numbers of cents, so that won have to be rounded.
OneCent == {1}

\* A small customer.
SmallScope == {[questions |-> 5, languages |-> 2, models |-> 5, samples |-> 3]}

HandlerSymmetry == Permutations(TwoHandlers)
=============================================================================
