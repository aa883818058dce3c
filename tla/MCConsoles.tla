----------------------------- MODULE MCConsoles -----------------------------
\* A small instance of Consoles for TLC: a question on two topics that both
\* consoles answer, each under another one; a question that only the trust
\* console blocks; and one that both block.
EXTENDS Consoles

MCQuestion == {[topics |-> {"latency", "canary"}, denylist |-> "none"],
               [topics |-> {"ticket", "dlq"},     denylist |-> "client"],
               [topics |-> {},                    denylist |-> "gateway"]}
=============================================================================
