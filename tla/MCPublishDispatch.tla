-------------------------- MODULE MCPublishDispatch --------------------------
(* Instances of PublishDispatch for TLC. *)
EXTENDS PublishDispatch, TLC

CONSTANTS c1, c2, d1, d2

OneCustomer == {c1}
OneDispatcher == {d1}
TwoDispatchers == {d1, d2}
RealOnly == {FALSE}
BothModes == {FALSE, TRUE}

DispatcherSymmetry == Permutations({d1, d2})
=============================================================================
