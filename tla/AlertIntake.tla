----------------------------- MODULE AlertIntake -----------------------------
(***************************************************************************)
(* What the alert pipeline promises the detection threads, without queues, *)
(* threads and counters:                                                   *)
(*   - an alert is accepted only while the gate is open;                   *)
(*   - an accepted alert is persisted, or reported as lost for good, before *)
(*     the service stops, and a persisted one is settled at most once;     *)
(*   - the gate never reopens without a complete stop.                     *)
(***************************************************************************)
CONSTANTS Alert, Advisory

VARIABLES
    stage, \* of each alert
    gate   \* "open", "closed" or "stopped"

ivars == <<stage, gate>>

IInit ==
    /\ stage = [a \in Alert |-> "new"]
    /\ gate = "stopped"

Open == gate = "stopped" /\ gate' = "open" /\ UNCHANGED stage
Close == gate = "open" /\ gate' = "closed" /\ UNCHANGED stage
Stop ==
    /\ gate = "closed"
    /\ \A a \in Alert : stage[a] # "accepted"
    /\ gate' = "stopped"
    /\ UNCHANGED stage

Move(a, from, to) ==
    /\ stage[a] = from
    /\ stage' = [stage EXCEPT ![a] = to]
    /\ UNCHANGED gate

Accept(a) == gate = "open" /\ Move(a, "new", "accepted")
Refuse(a) == gate # "open" /\ Move(a, "new", "refused")
Withdraw(a) == a \in Advisory /\ Move(a, "accepted", "refused")
Persist(a) == Move(a, "accepted", "persisted")
Lose(a) == Move(a, "accepted", "lost")
Settle(a, result) == result \in {"delivered", "failed"} /\ Move(a, "persisted", result)

INext ==
    \/ Open \/ Close \/ Stop
    \/ \E a \in Alert :
        \/ Accept(a) \/ Refuse(a) \/ Withdraw(a) \/ Persist(a) \/ Lose(a)
        \/ \E result \in {"delivered", "failed"} : Settle(a, result)

ISpec == IInit /\ [][INext]_ivars

=============================================================================
