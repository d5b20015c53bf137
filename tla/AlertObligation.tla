-------------------------- MODULE AlertObligation --------------------------
(***************************************************************************)
(* What the alert outbox promises for each obligation (an alert, a kind    *)
(* and a destination), without leases, workers, queues or clocks:          *)
(*   - an open obligation ends delivered, terminal or cancelled, and only  *)
(*     an operator reopens it, from terminal alone;                        *)
(*   - it is called delivered only after a provider accepted it;           *)
(*   - a provider can accept it only while the record admits the doubt,    *)
(*     and the doubt is taken back only if nothing was accepted or the     *)
(*     record says delivered.                                              *)
(***************************************************************************)
CONSTANT Target

VARIABLES
    status,   \* of the record of each obligation
    accepted, \* obligations a provider accepted
    doubt     \* obligations whose record admits an acceptance it cannot rule out

ovars == <<status, accepted, doubt>>

Ended == {"delivered", "terminal", "cancelled"}
OStatus == {"none", "open", "forgotten"} \cup Ended

OTypeOK ==
    /\ status \in [Target -> OStatus]
    /\ accepted \subseteq Target
    /\ doubt \subseteq Target

OInit ==
    /\ status = [t \in Target |-> "none"]
    /\ accepted = {}
    /\ doubt = {}

\* The record, and the fact of acceptance, stay as they are.
Keeps(t) == status'[t] = status[t]
Unheard(t) == t \in accepted' <=> t \in accepted

Clear(t) == t \notin doubt'
SameDoubt(t) == t \in doubt' <=> t \in doubt

\* The obligation is taken on, in the transaction that creates its alert.
Oblige(t) == status[t] = "none" /\ status'[t] = "open" /\ Unheard(t) /\ SameDoubt(t)

\* The doubt is admitted before the provider is called, or kept as history.
Admit(t) == status[t] = "open" /\ Keeps(t) /\ Unheard(t) /\ t \in doubt'

\* The provider accepts.
Accept(t) == t \in doubt /\ Keeps(t) /\ t \in accepted' /\ t \in doubt'

\* An attempt ended without acceptance.
TakeBack(t) == status[t] = "open" /\ Keeps(t) /\ Unheard(t) /\ t \notin accepted /\ Clear(t)

\* The record is closed as delivered, or without knowing of an acceptance.
Deliver(t) ==
    /\ status[t] = "open" /\ status'[t] = "delivered"
    /\ t \in accepted /\ Unheard(t)

GiveUp(t) ==
    /\ status[t] = "open" /\ status'[t] \in {"terminal", "cancelled"}
    /\ Unheard(t)
    /\ t \in accepted => t \in doubt'

\* An operator reopens a terminal obligation; its doubt is kept.
Reopen(t) == status[t] = "terminal" /\ status'[t] = "open" /\ Unheard(t) /\ SameDoubt(t)

\* Retention removes the record.
Forget(t) == status[t] \in Ended /\ status'[t] = "forgotten" /\ Unheard(t) /\ SameDoubt(t)

Rest(t) == Keeps(t) /\ Unheard(t) /\ SameDoubt(t)

\* One transaction may move several obligations (the cancellation of an
\* alert's escalations, the clean-up before a claim).
ONext ==
    /\ status' \in [Target -> OStatus]
    /\ accepted' \subseteq Target
    /\ doubt' \subseteq Target
    /\ \A t \in Target :
        \/ Oblige(t) \/ Admit(t) \/ Accept(t) \/ TakeBack(t) \/ Deliver(t)
        \/ GiveUp(t) \/ Reopen(t) \/ Forget(t) \/ Rest(t)

OSpec == OInit /\ [][ONext]_ovars

\* What the promise is for: an acceptance is on record as delivered or as doubt.
OAccounted ==
    \A t \in accepted : status[t] \in {"delivered", "forgotten"} \/ t \in doubt

=============================================================================
