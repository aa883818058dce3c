----------------------------- MODULE MCCheckout -----------------------------
\* Small instances of Checkout for TLC.
EXTENDS Checkout, TLC

CONSTANTS k1, k2, a, b, c, d

\* Three requests share a key, the fourth has its own.
MCKeyOf == [r \in Request |-> IF r = d THEN k2 ELSE k1]
MCSymmetry == Permutations({a, b, c})
=============================================================================
