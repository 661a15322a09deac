------------------------------ MODULE WorkOrders ------------------------------
(***************************************************************************)
(* What work that is done under a lease promises to whoever asked for it,  *)
(* with its queues, leases and tasks left out: an order is taken up, given *)
(* up and perhaps taken up again, and it is answered once.  What it was    *)
(* answered is an answer to that very order, and it stays.                 *)
(***************************************************************************)
CONSTANTS
    Orders,
    AnswersTo,      \* the answers that an order may be given, by order
    Unanswered

VARIABLES
    order,          \* what has become of an order
    answer

orderVars == <<order, answer>>

OrdersInit ==
    /\ order = [o \in Orders |-> "new"]
    /\ answer = [o \in Orders |-> Unanswered]

Becomes(o, status) == order' = [order EXCEPT ![o] = status]

TakeUp(o) ==
    /\ order[o] \in {"new", "failed"}
    /\ Becomes(o, "open") /\ UNCHANGED answer

Decline(o) ==
    /\ order[o] = "new"
    /\ Becomes(o, "declined") /\ UNCHANGED answer

GiveItUp(o) ==
    /\ order[o] = "open"
    /\ Becomes(o, "failed") /\ UNCHANGED answer

Answer(o, a) ==
    /\ order[o] = "open"
    /\ Becomes(o, "answered")
    /\ answer' = [answer EXCEPT ![o] = a]

OrdersNext ==
    \E o \in Orders : \/ TakeUp(o) \/ Decline(o) \/ GiveItUp(o)
                      \/ \E a \in AnswersTo[o] : Answer(o, a)

OrdersSpec == OrdersInit /\ [][OrdersNext]_orderVars
=============================================================================
