-------------------------- MODULE MCOrdersPipeline --------------------------
\* A small instance of OrdersPipeline for TLC: two requests that share
\* a key, of which the second has an empty correlation header.
EXTENDS OrdersPipeline

MCKeyOf == [r \in Request |-> "key"]

\* Up to two faults in one behaviour, of one kind or of two.
MCTwoFaults ==
    apiFaults + crashes + dbErrors + faults + deaths
        + Cardinality({r \in Request : relayResends[r] > 0})
        + Cardinality({r \in Request : resends[r] > 0})
        + Cardinality({r \in Request : expiries[r] > 0}) <= 2
=============================================================================
