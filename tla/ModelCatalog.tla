---------------------------- MODULE ModelCatalog ----------------------------
(***************************************************************************)
(* The catalogue of the remote model server (model_manager.py): one caller *)
(* at a time refreshes it for all, through a transport thread that may     *)
(* outlive the wait for it; an installation invalidates the catalogue and  *)
(* fences the refresh that is under way by an epoch.                       *)
(*                                                                         *)
(* A catalogue is the epoch in which the server answered the request. Its  *)
(* time to live and the backoff of the circuit breaker may end at any time.*)
(***************************************************************************)
EXTENDS Naturals, FiniteSets

CONSTANTS
    Caller,
    MaxEpoch   \* bound on the invalidations

VARIABLES
    catalog,     \* _REMOTE_MODEL_CATALOG: when the server read it, None if none
    fresh,       \* it has not expired
    refreshing,  \* _REMOTE_MODEL_CATALOG_REFRESHING
    epoch,       \* _REMOTE_MODEL_CATALOG_EPOCH
    backoff,     \* the retry time is not reached
    caller,      \* each caller: where it is, its epoch as a leader, the epoch it
                 \* called in (history) and what it returned last
    transport    \* _REMOTE_MODEL_TRANSPORT_THREAD: who it works for, what it has read

shared == <<catalog, fresh, refreshing, epoch, backoff>>
vars == <<catalog, fresh, refreshing, epoch, backoff, caller, transport>>

None == MaxEpoch + 1      \* no catalogue: unavailable
NoTransport == [for |-> "nobody", read |-> None]
Value == 0 .. None

TypeOK ==
    /\ catalog \in Value /\ epoch \in 0 .. MaxEpoch
    /\ fresh \in BOOLEAN /\ refreshing \in BOOLEAN /\ backoff \in BOOLEAN
    /\ caller \in [Caller -> [pc : {"idle", "waiting", "asking", "leading", "have"},
                              epoch : 0 .. MaxEpoch, since : 0 .. MaxEpoch, value : Value]]
    /\ transport \in [for : Caller \cup {"nobody", "gone"}, read : Value]

Init ==
    /\ catalog = None /\ fresh = FALSE /\ refreshing = FALSE
    /\ epoch = 0 /\ backoff = FALSE
    /\ caller = [c \in Caller |-> [pc |-> "idle", epoch |-> 0, since |-> 0, value |-> None]]
    /\ transport = NoTransport

Returns(c, value) == caller' = [caller EXCEPT ![c].pc = "idle", ![c].value = value]

-----------------------------------------------------------------------------
(* _get_remote_model_catalog.                                              *)

Cached == catalog # None /\ fresh

\* A caller that need not wait: the cached catalogue, the open breaker, or the lead.
Decide(c, since) ==
    IF Cached THEN /\ caller' = [caller EXCEPT ![c].pc = "idle", ![c].since = since, ![c].value = catalog]
                   /\ UNCHANGED refreshing
    ELSE IF backoff THEN /\ caller' = [caller EXCEPT ![c].pc = "idle", ![c].since = since, ![c].value = None]
                         /\ UNCHANGED refreshing
    ELSE /\ caller' = [caller EXCEPT ![c].pc = "asking", ![c].epoch = epoch, ![c].since = since,
                                     ![c].value = None]
         /\ refreshing' = TRUE

Call(c) ==
    /\ caller[c].pc = "idle"
    /\ IF ~Cached /\ refreshing
       THEN /\ caller' = [caller EXCEPT ![c].pc = "waiting", ![c].since = epoch, ![c].value = None]
            /\ UNCHANGED refreshing
       ELSE Decide(c, epoch)
    /\ UNCHANGED <<catalog, fresh, epoch, backoff, transport>>

\* The refresh a caller waited for ended, ...
Resume(c) ==
    /\ caller[c].pc = "waiting" /\ ~refreshing
    /\ Decide(c, caller[c].since)
    /\ UNCHANGED <<catalog, fresh, epoch, backoff, transport>>

\* ... or takes too long.
GiveUp(c) ==
    /\ caller[c].pc = "waiting" /\ refreshing
    /\ Returns(c, None)
    /\ UNCHANGED <<shared, transport>>

\* The leader starts the transport thread, or finds one still alive.
StartTransport(c) ==
    /\ caller[c].pc = "asking"
    /\ transport = NoTransport
    /\ transport' = [for |-> c, read |-> None]
    /\ caller' = [caller EXCEPT ![c].pc = "leading"]
    /\ UNCHANGED shared

\* Mutant of EndRefresh: a fenced leader ends the refresh of its successor.
EndRefreshAlways(c, value) ==
    /\ refreshing' = FALSE
    /\ Returns(c, IF caller[c].epoch = epoch THEN value ELSE None)
    /\ IF caller[c].epoch = epoch
       THEN catalog' = value /\ fresh' = TRUE /\ backoff' = (value = None)
       ELSE UNCHANGED <<catalog, fresh, backoff>>

\* The end of a refresh, with a catalogue or without: a leader whose epoch has
\* passed changes nothing.
EndRefresh(c, value) ==
    IF caller[c].epoch = epoch
    THEN /\ refreshing' = FALSE
         /\ catalog' = value
         /\ fresh' = (value # None)
         /\ backoff' = (value = None)
         /\ Returns(c, value)
    ELSE /\ Returns(c, None)
         /\ UNCHANGED <<catalog, fresh, refreshing, backoff>>

FailRefresh(c) ==
    /\ \/ caller[c].pc = "asking" /\ transport # NoTransport
       \/ caller[c].pc = "leading"
    /\ EndRefresh(c, None)
    /\ transport' = IF transport.for = c THEN [transport EXCEPT !.for = "gone"] ELSE transport
    /\ UNCHANGED epoch

Receive(c) ==
    /\ caller[c].pc = "have"
    /\ EndRefresh(c, caller[c].value)
    /\ UNCHANGED <<epoch, transport>>

-----------------------------------------------------------------------------
(* The transport thread, the server and time.                              *)

\* The server answers with what it has now.
ServerReads ==
    /\ transport # NoTransport /\ transport.read = None
    /\ transport' = [transport EXCEPT !.read = epoch]
    /\ UNCHANGED <<shared, caller>>

\* The thread clears its mark, then hands over its outcome, if its caller still
\* waits; an outcome that is an error is FailRefresh.
TransportEnds ==
    /\ transport # NoTransport
    /\ transport' = NoTransport
    /\ \/ /\ transport.for \in Caller /\ transport.read # None
          /\ caller' = [caller EXCEPT ![transport.for].pc = "have", ![transport.for].value = transport.read]
       \/ transport.for = "gone" /\ UNCHANGED caller
    /\ UNCHANGED shared

Expire ==
    /\ fresh
    /\ fresh' = FALSE
    /\ UNCHANGED <<catalog, refreshing, epoch, backoff, caller, transport>>

BackoffEnds ==
    /\ backoff
    /\ backoff' = FALSE
    /\ UNCHANGED <<catalog, fresh, refreshing, epoch, caller, transport>>

\* invalidate_remote_model_catalog, after an installation or a change of settings.
Invalidate ==
    /\ epoch < MaxEpoch
    /\ epoch' = epoch + 1
    /\ catalog' = None /\ fresh' = FALSE
    /\ refreshing' = FALSE /\ backoff' = FALSE
    /\ UNCHANGED <<caller, transport>>

Next ==
    \/ \E c \in Caller : Call(c) \/ Resume(c) \/ GiveUp(c) \/ StartTransport(c) \/ FailRefresh(c) \/ Receive(c)
    \/ ServerReads \/ TransportEnds \/ Expire \/ BackoffEnds \/ Invalidate

Spec == Init /\ [][Next]_vars

-----------------------------------------------------------------------------
Leaders == {c \in Caller : caller[c].pc \in {"asking", "leading", "have"} /\ caller[c].epoch = epoch}

\* What is cached was read by the server after the last invalidation, and no
\* caller gets a catalogue older than the last invalidation before its call,
\* although refreshes fenced off, timed out or overtaken go on in their threads;
\* in each epoch one caller refreshes, and none waits for a refresh nobody runs.
CatalogueFenced ==
    /\ catalog # None => catalog = epoch
    /\ \A c \in Caller : caller[c].pc = "idle" /\ caller[c].value # None => caller[c].value >= caller[c].since
    /\ Cardinality(Leaders) <= 1
    /\ refreshing <=> Leaders # {}
=============================================================================
