----------------------------- MODULE MCMailbox -----------------------------
(* TLC instances of MailboxDelivery. *)
EXTENDS MailboxCourier, TLC

CONSTANTS b1, b2, m1, m2, m3, c1, c2, r1, r2

OneBox    == {b1}
TwoBoxes  == {b1, b2}
TwoBodies   == {m1, m2}
ThreeBodies == {m1, m2, m3}
TwoSenders    == {c1, c2}
OneSender     == {c1}
TwoReceivers  == {r1, r2}
OneReceiver   == {r1}

\* Sound: the ids, the ciphertexts and the clients are interchangeable, and
\* only safety is checked under it.
Symmetry == Permutations(ThreeBodies) \cup Permutations(TwoSenders)
              \cup Permutations(TwoReceivers)
PairSymmetry == Permutations(TwoBoxes) \cup Permutations(TwoBodies)
              \cup Permutations(TwoReceivers)

============================================================================
