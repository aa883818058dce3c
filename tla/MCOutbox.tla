------------------------------ MODULE MCOutbox ------------------------------
\* Small instances of Outbox for TLC.  Replicas and their ticks are
\* interchangeable in the safety runs.
EXTENDS Outbox, TLC

\* Events of different orders, and events that follow one another on one order.
MCIndependent == [e \in Event |-> {}]
MCOneOrder == [e \in Event |-> {f \in Event : f < e}]
\* One fault of the environment: a crash, a throwing statement or a record
\* written twice by one send.
MCOneFault == crashes + dbErrors + Cardinality({e \in Event : resends[e] > 0}) <= 1
MCSymmetry == Permutations(Process) \union Permutations(Slot)
=============================================================================
