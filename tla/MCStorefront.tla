---------------------------- MODULE MCStorefront ----------------------------
(***************************************************************************)
(* The bound of the Storefront_calls run that spans several counts.        *)
(***************************************************************************)
EXTENDS Storefront

\* One thing goes wrong at a time: the API crashes, a transaction fails, an
\* exchange or a body breaks, or a running call asks for an id of no order.
MCOneFault ==
    faults + drops
        + Cardinality({f \in Refresh : Underway(f) /\ calls[f].target = NoOrder}) <= 1
=============================================================================
