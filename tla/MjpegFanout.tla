----------------------------- MODULE MjpegFanout -----------------------------
(***************************************************************************)
(* The viewers of a camera's live picture (mjpeg_fanout.py, stream.py):    *)
(* the camera worker publishes the newest frame into the camera's channel  *)
(* under a lock and afterwards wakes the viewers it has marked; a viewer,  *)
(* a coroutine, skips to the newest frame each time its client has read    *)
(* the last one.  Deleting a camera retires its channel.                   *)
(*                                                                         *)
(* A frame is the sequence number it was published under; 0 is no frame.   *)
(* A viewer runs from its wait to the next without another coroutine in    *)
(* between, so what it does there is one action.                           *)
(***************************************************************************)
EXTENDS Naturals, FiniteSets

CONSTANTS
    Viewer,
    MaxChannels,     \* bound on the channels one after another of the camera
    MaxSequence,     \* bound on the frames of a channel
    LimitPerCamera,  \* max_subscribers_per_camera
    LimitTotal       \* max_subscribers_total

VARIABLES
    channel,  \* the channels of the camera, in the order of their creation
    current,  \* the channel in _channels, 0 if none
    count,    \* _subscriber_count
    viewer,   \* each viewer: where it is, its channel, the sequence and the frame it saw last
    notified, \* the subscribers marked as notified
    waking,   \* marked by the camera worker, which has not yet posted their wake-ups
    posted,   \* wake-ups posted to the viewer's loop and not yet run
    event     \* the events that are set

channelVars == <<channel, current, count>>
wakeVars == <<notified, waking, posted, event>>
vars == <<channel, current, count, viewer, notified, waking, posted, event>>

Channel == 1 .. MaxChannels
NoChannel == [sequence |-> 0, jpeg |-> 0, chunk |-> 0, subscribers |-> {}, retired |-> FALSE]
Away == [pc |-> "away", on |-> 0, last |-> 0, frame |-> 0]

\* ready: its client reads on; waiting: for its event; sending: the client has
\* not yet read the chunk; lost: its event loop closed under it.
TypeOK ==
    /\ channel \in [Channel -> [sequence : 0 .. MaxSequence + 1, jpeg : 0 .. MaxSequence + 1,
                                chunk : 0 .. MaxSequence + 1, subscribers : SUBSET Viewer,
                                retired : BOOLEAN]]
    /\ current \in 0 .. MaxChannels
    /\ count \in Nat
    /\ viewer \in [Viewer -> [pc : {"away", "ready", "waiting", "sending", "lost"},
                              on : 0 .. MaxChannels, last : 0 .. MaxSequence + 2, frame : 0 .. MaxSequence + 1]]
    /\ notified \subseteq Viewer /\ waking \subseteq Viewer /\ event \subseteq Viewer
    /\ posted \in [Viewer -> Nat]

Init ==
    /\ channel = [n \in Channel |-> NoChannel]
    /\ current = 0
    /\ count = 0
    /\ viewer = [v \in Viewer |-> Away]
    /\ notified = {} /\ waking = {} /\ event = {}
    /\ posted = [v \in Viewer |-> 0]

\* setdefault: the channel in use, or the next one.
Created == Cardinality({n \in Channel : channel[n].retired})
Used == IF current # 0 THEN current ELSE Created + 1

Lost == {v \in Viewer : viewer[v].pc = "lost"}

\* _prune_closed_subscribers_locked
Pruned(n) == channel[n].subscribers \ Lost
Prune(n) == count' = count - Cardinality(channel[n].subscribers \cap Lost)

-----------------------------------------------------------------------------
(* The camera worker.                                                      *)

Publish ==
    LET n == Used
        c == channel[n]
    IN  /\ waking = {}
        /\ n \in Channel /\ c.sequence < MaxSequence
        /\ current' = n
        /\ channel' = [channel EXCEPT ![n] =
                         [c EXCEPT !.sequence = @ + 1, !.jpeg = c.sequence + 1,
                                   !.chunk = IF Pruned(n) # {} THEN c.sequence + 1 ELSE 0,
                                   !.subscribers = Pruned(n)]]
        /\ Prune(n)
        /\ waking' = Pruned(n) \ notified
        /\ notified' = notified \cup Pruned(n)
        /\ UNCHANGED <<viewer, posted, event>>

\* clear: the source is offline, its viewers stay.
Clear ==
    LET c == channel[current]
    IN  /\ waking = {}
        /\ current # 0 /\ c.jpeg # 0 /\ c.sequence < MaxSequence
        /\ channel' = [channel EXCEPT ![current] =
                         [c EXCEPT !.sequence = @ + 1, !.jpeg = 0, !.chunk = 0]]
        /\ waking' = c.subscribers \ notified
        /\ notified' = notified \cup c.subscribers
        /\ UNCHANGED <<current, count, viewer, posted, event>>

\* Mutant of Unsubscribe: the counter goes down each time.
UnsubscribeEachTime(v) ==
    LET n == viewer[v].on
    IN  /\ channel' = [channel EXCEPT ![n].subscribers = @ \ {v}]
        /\ count' = IF count > 0 THEN count - 1 ELSE 0

\* Remove a subscriber once, whoever comes to do it.
Unsubscribe(v) ==
    LET n == viewer[v].on
        left == channel[n].subscribers \ {v}
    IN  IF v \in channel[n].subscribers
        THEN /\ channel' = [channel EXCEPT ![n].subscribers = left,
                                           ![n].chunk = IF left = {} THEN 0 ELSE @]
             /\ count' = count - 1
        ELSE UNCHANGED <<channel, count>>

\* _wake: the wake-up is posted, or the loop is closed and the subscriber removed.
Wake(v) ==
    /\ v \in waking
    /\ waking' = waking \ {v}
    /\ IF viewer[v].pc = "lost"
       THEN Unsubscribe(v) /\ UNCHANGED posted
       ELSE posted' = [posted EXCEPT ![v] = @ + 1] /\ UNCHANGED <<channel, count>>
    /\ UNCHANGED <<current, viewer, notified, event>>

-----------------------------------------------------------------------------
(* The event loop.                                                         *)

\* The deletion of the camera.
Retire ==
    LET c == channel[current]
        woken == c.subscribers \ (notified \cup Lost)
    IN  /\ current # 0
        /\ channel' = [channel EXCEPT ![current] =
                         [c EXCEPT !.sequence = @ + 1, !.jpeg = 0, !.chunk = 0, !.retired = TRUE,
                                   !.subscribers = @ \ (Lost \ notified)]]
        /\ count' = count - Cardinality(c.subscribers \cap (Lost \ notified))
        /\ current' = 0
        /\ notified' = notified \cup c.subscribers
        /\ posted' = [v \in Viewer |-> IF v \in woken THEN posted[v] + 1 ELSE posted[v]]
        /\ UNCHANGED <<viewer, waking, event>>

\* stream: the limits are looked at after the lost subscribers are removed.
Subscribe(v) ==
    LET n == Used
        c == channel[n]
    IN  /\ viewer[v].pc = "away"
        /\ n \in Channel
        /\ Cardinality(Pruned(n)) < LimitPerCamera
        /\ count - Cardinality(c.subscribers \cap Lost) < LimitTotal
        /\ current' = n
        /\ channel' = [channel EXCEPT ![n].subscribers = Pruned(n) \cup {v}, ![n].chunk = c.jpeg]
        /\ count' = count - Cardinality(c.subscribers \cap Lost) + 1
        /\ viewer' = [viewer EXCEPT ![v] = [Away EXCEPT !.pc = "ready", !.on = n, !.last = MaxSequence + 2]]
        /\ notified' = notified \ {v}
        /\ event' = event \ {v}
        /\ UNCHANGED <<waking, posted>>

\* A subscription refused; what was pruned for it stays pruned.
Refuse ==
    LET n == Used
        c == channel[n]
    IN  /\ n \in Channel
        /\ \/ Cardinality(Pruned(n)) >= LimitPerCamera
           \/ count - Cardinality(c.subscribers \cap Lost) >= LimitTotal
        /\ current' = n
        /\ channel' = [channel EXCEPT ![n].subscribers = Pruned(n),
                                      ![n].chunk = IF Pruned(n) = {} THEN 0 ELSE @]
        /\ Prune(n)
        /\ UNCHANGED <<viewer, wakeVars>>

\* What has been on its way to a subscriber that is gone reaches nobody.
Forget(v) ==
    /\ waking' = waking \ {v}
    /\ posted' = [posted EXCEPT ![v] = 0]
    /\ event' = event \ {v}
    /\ notified' = notified \ {v}

\* Mutant of Pull: the mark of the last wake-up stays.
PullMarked(v) ==
    LET c == channel[viewer[v].on]
    IN  /\ viewer[v].pc = "ready" /\ ~c.retired
        /\ event' = event \ {v}
        /\ viewer' = [viewer EXCEPT ![v] =
                        IF c.sequence = @.last THEN [@ EXCEPT !.pc = "waiting"]
                        ELSE IF c.jpeg = 0 THEN [@ EXCEPT !.last = c.sequence]
                        ELSE [@ EXCEPT !.pc = "sending", !.last = c.sequence, !.frame = c.jpeg]]
        /\ UNCHANGED <<channelVars, notified, waking, posted>>

\* __anext__: the viewer clears its event and its mark and takes the newest
\* chunk, building it if nobody has; without one newer it waits.
Pull(v) ==
    LET c == channel[viewer[v].on]
        chunk == IF c.chunk = 0 THEN c.jpeg ELSE c.chunk
    IN  /\ viewer[v].pc = "ready" /\ ~c.retired
        /\ event' = event \ {v}
        /\ notified' = notified \ {v}
        /\ channel' = [channel EXCEPT ![viewer[v].on].chunk = chunk]
        /\ viewer' = [viewer EXCEPT ![v] =
                        IF c.sequence = @.last THEN [@ EXCEPT !.pc = "waiting"]
                        ELSE IF chunk = 0 THEN [@ EXCEPT !.last = c.sequence]
                        ELSE [@ EXCEPT !.pc = "sending", !.last = c.sequence, !.frame = chunk]]
        /\ UNCHANGED <<current, count, waking, posted>>

\* The stream ends: the channel is retired, the client is gone, the response is
\* cancelled, or the subscription is collected after its loop closed.
Close(v) ==
    /\ viewer[v].pc # "away"
    /\ Unsubscribe(v)
    /\ viewer' = [viewer EXCEPT ![v] = Away]
    /\ Forget(v)
    /\ UNCHANGED current

Retired(v) == viewer[v].pc = "ready" /\ channel[viewer[v].on].retired
EndOfStream(v) == Retired(v) /\ Close(v)
Leave(v) == ~Retired(v) /\ Close(v)

\* The client has read the chunk.
Sent(v) ==
    /\ viewer[v].pc = "sending"
    /\ viewer' = [viewer EXCEPT ![v].pc = "ready"]
    /\ UNCHANGED <<channelVars, wakeVars>>

\* A posted wake-up runs; a waiting viewer goes on.
RunPosted(v) ==
    /\ posted[v] > 0
    /\ posted' = [posted EXCEPT ![v] = @ - 1]
    /\ event' = event \cup {v}
    /\ UNCHANGED <<channelVars, viewer, notified, waking>>

WakeUp(v) ==
    /\ viewer[v].pc = "waiting" /\ v \in event
    /\ viewer' = [viewer EXCEPT ![v].pc = "ready"]
    /\ UNCHANGED <<channelVars, wakeVars>>

LoopCloses(v) ==
    /\ viewer[v].pc \notin {"away", "lost"}
    /\ viewer' = [viewer EXCEPT ![v].pc = "lost"]
    /\ UNCHANGED <<channelVars, wakeVars>>

Next ==
    \/ Publish \/ Clear \/ Retire \/ Refuse
    \/ \E v \in Viewer :
        \/ Wake(v) \/ Subscribe(v) \/ Pull(v) \/ EndOfStream(v) \/ Leave(v)
        \/ Sent(v) \/ RunPosted(v) \/ WakeUp(v) \/ LoopCloses(v)

Spec == Init /\ [][Next]_vars

Looks(v) == Pull(v) \/ EndOfStream(v) \/ Sent(v) \/ WakeUp(v)

\* The worker goes on after its publication and the loop runs what is ready; a
\* client that stays reads what it is sent. Nobody has to publish or to leave.
Fairness ==
    \A v \in Viewer : WF_vars(Wake(v)) /\ WF_vars(RunPosted(v)) /\ WF_vars(Looks(v))
FairSpec == Spec /\ Fairness

-----------------------------------------------------------------------------
\* The counter that limits the viewers of all cameras counts each subscriber
\* once, on retired channels too, however it was removed: by its own end, by the
\* collection of its subscription, by a publisher that finds its loop closed. And
\* a viewer abreast of its channel has the newest frame, never a chunk cached
\* from an earlier one.
ViewersCounted ==
    /\ count = Cardinality(UNION {channel[n].subscribers : n \in Channel})
    /\ count <= LimitTotal
    /\ \A n \in Channel : Cardinality(channel[n].subscribers) <= LimitPerCamera
    /\ \A v \in Viewer :
        /\ viewer[v].pc \notin {"away", "lost"} => v \in channel[viewer[v].on].subscribers
        /\ LET c == channel[viewer[v].on]
           IN  viewer[v].pc \in {"sending", "waiting"} /\ c.jpeg # 0 /\ viewer[v].last = c.sequence
                 => viewer[v].frame = c.jpeg

\* Every viewer comes to show the newest frame of its camera, and the viewers of
\* a deleted camera end: no publication or deletion slips between a viewer's
\* look at the channel and its wait.
Abreast(v) ==
    \/ viewer[v].pc \in {"away", "lost"}
    \/ ~channel[viewer[v].on].retired /\ viewer[v].last = channel[viewer[v].on].sequence
ViewersCatchUp == \A v \in Viewer : []<>Abreast(v)
=============================================================================
