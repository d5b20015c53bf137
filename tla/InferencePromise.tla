-------------------------- MODULE InferencePromise --------------------------
(***************************************************************************)
(* What the shared scheduler promises each camera, without threads, pools  *)
(* and time.  Within one registration ("life") a camera asks about frames  *)
(* of increasing sequence numbers.  At most two questions are open and at  *)
(* most one answer waits to be taken.  Each question is answered at most   *)
(* once, in the order asked, and only within the life it was asked in.     *)
(***************************************************************************)
EXTENDS Naturals, FiniteSets

CONSTANTS Camera, NoAnswer

VARIABLES
    opened, \* registrations so far
    life,   \* of each camera, 0 when it is not registered
    last,   \* the newest sequence number asked about
    asked,  \* open questions
    answer  \* waiting to be taken

pvars == <<opened, life, last, asked, answer>>

PInit ==
    /\ opened = 0
    /\ life = [c \in Camera |-> 0]
    /\ last = [c \in Camera |-> 0]
    /\ asked = [c \in Camera |-> {}]
    /\ answer = [c \in Camera |-> NoAnswer]

Open(c) ==
    /\ life[c] = 0
    /\ opened' = opened + 1
    /\ life' = [life EXCEPT ![c] = opened']
    /\ UNCHANGED <<last, asked, answer>>

Close(c) ==
    /\ life[c] # 0
    /\ life' = [life EXCEPT ![c] = 0]
    /\ last' = [last EXCEPT ![c] = 0]
    /\ asked' = [asked EXCEPT ![c] = {}]
    /\ answer' = [answer EXCEPT ![c] = NoAnswer]
    /\ UNCHANGED opened

\* The newest question takes the place of the one before it, unless that is
\* being worked on.
Ask(c) ==
    /\ life[c] # 0
    /\ last'[c] > last[c]
    /\ asked'[c] \subseteq asked[c] \cup {last'[c]}
    /\ last'[c] \in asked'[c]
    /\ Cardinality(asked'[c]) <= 2
    /\ last' = [last EXCEPT ![c] = last'[c]]
    /\ asked' = [asked EXCEPT ![c] = asked'[c]]
    /\ UNCHANGED <<opened, life, answer>>

\* The oldest open question is answered.
Reply(c, s) ==
    /\ s \in asked[c]
    /\ \A t \in asked[c] : s <= t
    /\ answer[c] = NoAnswer
    /\ answer' = [answer EXCEPT ![c] = [seq |-> s, life |-> life[c]]]
    /\ asked' = [asked EXCEPT ![c] = @ \ {s}]
    /\ UNCHANGED <<opened, life, last>>

\* Questions whose frame is too old, and all of them at the end, are dropped.
Abandon ==
    /\ \A c \in Camera : asked'[c] \subseteq asked[c]
    /\ UNCHANGED <<opened, life, last, answer>>

Take(c) ==
    /\ answer[c] # NoAnswer
    /\ answer' = [answer EXCEPT ![c] = NoAnswer]
    /\ UNCHANGED <<opened, life, last, asked>>

PNext ==
    \/ \E c \in Camera :
        Open(c) \/ Close(c) \/ Ask(c) \/ Take(c) \/ \E s \in asked[c] : Reply(c, s)
    \/ Abandon

PSpec == PInit /\ [][PNext]_pvars

=============================================================================
