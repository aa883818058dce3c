-------------------------- MODULE PaymentLifecycle --------------------------
(***************************************************************************)
(* What the payment saga promises about one payment per order, with the    *)
(* verification messages, their retries and locks, the reconciliation job, *)
(* the crashes and the outbox abstracted away.                             *)
(*                                                                         *)
(* A payment is opened by the checkout, pending or settled.  A pending     *)
(* payment is settled once; a settled one is changed by nothing but a      *)
(* notification of the gateway, each of which counts once.  It is          *)
(* confirmed only when the gateway holds the money.  It may be canceled    *)
(* although the gateway captures the money later.                          *)
(***************************************************************************)
EXTENDS Naturals

CONSTANT Order

VARIABLES state,   \* Order -> "none", "pending", "confirmed" or "canceled"
          money,   \* Order -> what the gateway did: "undecided", "captured", "declined"
          notes    \* Order -> notifications applied

vars == <<state, money, notes>>

Init == /\ state = [o \in Order |-> "none"]
        /\ money = [o \in Order |-> "undecided"]
        /\ notes = [o \in Order |-> 0]

Decide(o) == /\ money[o] = "undecided"
             /\ \E m \in {"captured", "declined"} : money' = [money EXCEPT ![o] = m]
             /\ UNCHANGED <<state, notes>>

Becomes(o, s) == /\ s = "confirmed" => money[o] = "captured"
                 /\ state' = [state EXCEPT ![o] = s]
                 /\ UNCHANGED money

Open(o) == /\ state[o] = "none"
           /\ \E s \in {"pending", "confirmed", "canceled"} : Becomes(o, s)
           /\ UNCHANGED notes

Settle(o) == /\ state[o] = "pending"
             /\ \E s \in {"confirmed", "canceled"} : Becomes(o, s)
             /\ UNCHANGED notes

Notify(o) == /\ state[o] # "none"
             /\ \E s \in {"pending", "confirmed", "canceled"} : Becomes(o, s)
             /\ notes' = [notes EXCEPT ![o] = @ + 1]

Next == \E o \in Order : Decide(o) \/ Open(o) \/ Settle(o) \/ Notify(o)

Spec == Init /\ [][Next]_vars
=============================================================================
