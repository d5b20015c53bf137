-------------------------- MODULE InferenceFairness --------------------------
(***************************************************************************)
(* Who gets a turn: SharedInferenceScheduler under a load that may last    *)
(* for ever.  Registrations, sequence numbers and expiry are left out (see *)
(* SharedInferenceScheduler); the cameras are registered, and a frame is   *)
(* due as soon as it is offered, because the waits for company are short   *)
(* against an inference call.  A frame offered while the camera's previous *)
(* one is in the pool or the mailbox is not ready before that is taken, so *)
(* it counts as offered then.                                              *)
(***************************************************************************)
EXTENDS DispatchPolicy, Sequences

CONSTANTS
    Order,      \* the cameras in the order of their registration
    Urgent,     \* those that may raise urgent work
    ProfileOf,  \* the batch profile of each camera
    MaxWorkers

Camera == {Order[i] : i \in DOMAIN Order}
Place == [c \in Camera |-> (CHOOSE i \in DOMAIN Order : Order[i] = c) - 1]

ASSUME FairnessAssumption ==
    /\ Order \in Seq(Camera)
    /\ \A i, j \in DOMAIN Order : Order[i] = Order[j] => i = j
    /\ Urgent \subseteq Camera
    /\ ProfileOf \in [Camera -> DOMAIN BatchLimit]
    /\ MaxWorkers \in Nat /\ MaxWorkers >= 4

VARIABLES
    mode,   \* of each camera: is its slot or the pool or the mailbox in use
    cursor, \* _fair_cursor
    streak  \* _urgent_batch_streak

vars == <<mode, cursor, streak>>

TypeOK ==
    /\ mode \in [Camera -> {"idle", "normal", "urgent", "running", "answered"}]
    /\ cursor \in Nat /\ (cursor = 0 \/ cursor < Len(Order))
    /\ streak \in 0 .. UrgentBurst

Init ==
    /\ mode = [c \in Camera |-> "idle"]
    /\ cursor = 0
    /\ streak = 0

Ready == {c \in Camera : mode[c] \in {"normal", "urgent"}}
Running == {c \in Camera : mode[c] = "running"}
Capacity == MaxWorkers - Cardinality(Running)
Queue == [c \in Ready |-> [urgent |-> mode[c] = "urgent", profile |-> ProfileOf[c], waited |-> 0]]
Due == Choices(Place, Len(Order), cursor, streak, Queue, Ready, Capacity)

Offer(c, urgent) ==
    /\ mode[c] = "idle" \/ (mode[c] = "normal" /\ urgent)
    /\ urgent => c \in Urgent
    /\ mode' = [mode EXCEPT ![c] = IF urgent THEN "urgent" ELSE "normal"]
    /\ UNCHANGED <<cursor, streak>>

Dispatch ==
    \E choice \in Due :
        /\ mode' = [c \in Camera |-> IF c \in choice.batch THEN "running" ELSE mode[c]]
        /\ \E last \in LastOf(Place, Len(Order), choice) :
                cursor' = CursorAfter(Place, Len(Order), last)
        /\ streak' = choice.streak

\* The call ends with an answer, or its frame has expired and there is none.
End(c, to) ==
    /\ mode[c] = "running"
    /\ mode' = [mode EXCEPT ![c] = to]
    /\ UNCHANGED <<cursor, streak>>

TakeResult(c) ==
    /\ mode[c] = "answered"
    /\ mode' = [mode EXCEPT ![c] = "idle"]
    /\ UNCHANGED <<cursor, streak>>

CameraStep(c) ==
    \/ \E urgent \in BOOLEAN : Offer(c, urgent)
    \/ \E to \in {"answered", "idle"} : End(c, to)
    \/ TakeResult(c)

Next == Dispatch \/ \E c \in Camera : CameraStep(c)

Fairness ==
    /\ WF_vars(Dispatch)
    /\ \A c \in Camera : WF_vars((\E to \in {"answered", "idle"} : End(c, to)) \/ TakeResult(c))

Spec == Init /\ [][Next]_vars
FairSpec == Spec /\ Fairness

\* The scheduler thread chooses before the camera whose call has just ended
\* offers another frame.
PromptNext == Dispatch \/ (Due = {} /\ \E c \in Camera : CameraStep(c))
PromptSpec == Init /\ [][PromptNext]_vars /\ Fairness

-----------------------------------------------------------------------------
\* The RuntimeErrors that would end the scheduler thread cannot occur: a batch
\* is 1, 2 or 4 different ready cameras of one profile that fit into the pool.
SelectionLegal ==
    \A choice \in Due :
        LET size == Cardinality(choice.batch)
        IN  /\ size \in {1, 2, 4}
            /\ size <= Capacity
            /\ choice.batch \subseteq Ready
            /\ \A c, d \in choice.batch : ProfileOf[c] = ProfileOf[d]
            /\ \A c \in choice.batch : size <= BatchLimit[ProfileOf[c]]

\* Sustained urgent load does not keep all normal work from its turn.
NormalTurn ==
    <>[](\E c \in Camera : mode[c] = "normal")
        => []<><<\E c \in Camera : mode[c] = "normal" /\ mode'[c] = "running">>_vars

\* Urgent work is never left behind by other urgent work, nor by the turns of
\* normal work, while no more cameras are urgent than make up a burst and no
\* normal work travels in their batches.
UrgentServed == \A c \in Urgent : mode[c] = "urgent" ~> mode[c] # "urgent"

\* "due normal work gets a turn during sustained urgent load"
\* (backend/tests/test_shared_inference_scheduler.py:580), for each camera.
EachNormalTurn == \A c \in Camera : mode[c] = "normal" ~> mode[c] # "normal"

=============================================================================
