---------------------------- MODULE MCPaymentSaga ----------------------------
\* Small instances of PaymentSaga for TLC.  Handlers, runs of the job and
\* webhook ids are interchangeable in the safety runs.
EXTENDS PaymentSaga, TLC

MCSymmetry == Permutations(Webhook) \union Permutations(Verifier)
                  \union Permutations(Reconciler)
=============================================================================
