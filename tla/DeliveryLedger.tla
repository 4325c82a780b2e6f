--------------------------- MODULE DeliveryLedger ---------------------------
(***************************************************************************)
(* What the webhook service promises of its deliveries, with no worker, no *)
(* transaction and no hook in sight: a delivery is queued once, carrying   *)
(* lines no other delivery carries; it is attempted at most MaxAttempts    *)
(* times; it ends delivered, or dead after the last attempt; what has      *)
(* ended stays so until it is forgotten with its hook or its event.        *)
(*                                                                         *)
(* Source: the promises of internal/webhooks/service.go and digest.go.     *)
(***************************************************************************)
EXTENDS Naturals

CONSTANTS Deliveries, Lines, MaxAttempts

VARIABLES
    state,     \* absent, pending, delivered, dead or gone
    tries,     \* attempts recorded
    carries    \* the digest lines in its message

vars == <<state, tries, carries>>

Init ==
    /\ state = [d \in Deliveries |-> "absent"]
    /\ tries = [d \in Deliveries |-> 0]
    /\ carries = [d \in Deliveries |-> {}]

\* New deliveries, which share no line with one another or with an older one.
Queue(new) ==
    /\ \A d \in new : state[d] = "absent"
    /\ state' = [d \in Deliveries |-> IF d \in new THEN "pending" ELSE state[d]]
    /\ tries' = tries
    /\ carries' \in [Deliveries -> SUBSET Lines]
    /\ \A d \in Deliveries \ new : carries'[d] = carries[d]
    /\ \A d \in new, c \in Deliveries : c # d => carries'[d] \cap carries'[c] = {}

\* One attempt each at some pending deliveries, recorded together.
Attempt(batch) ==
    /\ \A d \in batch : state[d] = "pending" /\ tries[d] < MaxAttempts
    /\ tries' = [d \in Deliveries |-> IF d \in batch THEN tries[d] + 1 ELSE tries[d]]
    /\ state' \in [Deliveries -> {"absent", "pending", "delivered", "dead", "gone"}]
    /\ \A d \in Deliveries \ batch : state'[d] = state[d]
    /\ \A d \in batch : \/ state'[d] = "delivered"
                        \/ state'[d] = IF tries'[d] = MaxAttempts THEN "dead" ELSE "pending"
    /\ carries' = carries

\* Deliveries that go with their hook, or with the table their event happened at.
Forget(lost) ==
    /\ \A d \in lost : state[d] # "absent"
    /\ state' = [d \in Deliveries |-> IF d \in lost THEN "gone" ELSE state[d]]
    /\ UNCHANGED <<tries, carries>>

Next == \E some \in SUBSET Deliveries : Queue(some) \/ Attempt(some) \/ Forget(some)

Spec == Init /\ [][Next]_vars
=============================================================================
