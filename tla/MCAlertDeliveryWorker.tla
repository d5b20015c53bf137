----------------------- MODULE MCAlertDeliveryWorker -----------------------
(***************************************************************************)
(* Values for the constants of AlertDeliveryWorker: one escalation that    *)
(* two processes compete for.                                              *)
(***************************************************************************)
EXTENDS AlertDeliveryWorker, TLC

CONSTANTS p1, p2, s1, s2, a1, t1, telegram

MCOwner == [s \in Slot |-> IF s = s1 THEN p1 ELSE p2]
MCAlertOf == [t \in Target |-> a1]
MCKindOf == [t \in Target |-> "escalation"]
MCChannelOf == [t \in Target |-> telegram]
MCPriorityOf == [t \in Target |-> 1]
MCDelayOf == [t \in Target |-> 1]
MCChannelLimit == [c \in Channel |-> 1]

=============================================================================
