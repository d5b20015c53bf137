---------------------------- MODULE FrameBatcher ----------------------------
(***************************************************************************)
(* Frames of several cameras that want the same models share one request   *)
(* to the model server (model_manager.py): a caller waits a short time for *)
(* partners, whoever completes a batch sends it for all, and whoever waits *)
(* in vain sends its frame alone.  All requests pass one bounded admission.*)
(*                                                                         *)
(* The batchers of primary, PPE and paired frames differ only in what they *)
(* send: kind = "grouped".  The phone batcher (kind = "phone") has no      *)
(* early flush and no second route: what timed out it sends itself.        *)
(* FullSize and PairSize stand for the batch sizes 4 and 2.                *)
(***************************************************************************)
EXTENDS Naturals, FiniteSets

CONSTANTS
    Caller,     \* inference threads, one frame each at a time
    FullSize,
    PairSize,
    Hint,       \* what callers may ask for, \subseteq {"none", "single", "pair", "full"}
    Permits     \* _REMOTE_JOB_MAX_INFLIGHT

VARIABLES
    kind,     \* which batcher it is, "grouped" or "phone"; it stays what it is
    call,     \* where each caller is and what became of its frame
    pending,  \* _pending: per hint the frames waiting for partners
    permits,  \* free permits of _REMOTE_JOB_ADMISSION
    known,    \* the batch sizes the server is known not to serve
    serves,   \* the batch sizes the server serves
    balance   \* eligible requests minus those counted as paired, timed out or bypassing

vars == <<kind, call, pending, permits, known, serves, balance>>

Size == {PairSize, FullSize}

\* idle     between two frames
\* early    waiting for partners, before the early flush
\* late     waiting, the early flush is over
\* taken    waiting without a limit for the caller that took its frame
\* leading  sends a batch: waits for admission
\* sending  inside the batch request
\* alone    sends its frame alone: waits for admission
\* single   inside the request of one frame
\* sent counts the requests with the frame that the server computed or is at (history).
Resting == [pc |-> "idle", hint |-> "none", items |-> {}, answer |-> "open", sent |-> 0]

TypeOK ==
    /\ kind \in {"grouped", "phone"}
    /\ call \in [Caller -> [pc : {"idle", "early", "late", "taken", "leading", "sending", "alone", "single"},
                            hint : {"none", "single", "pair", "full"},
                            items : SUBSET Caller,
                            answer : {"open", "handled", "unhandled", "error"}, sent : Nat]]
    /\ pending \in [{"none", "pair", "full"} -> SUBSET Caller]
    /\ permits \in 0 .. Permits
    /\ known \subseteq Size /\ serves \subseteq Size
    /\ balance \in Nat

\* The batch a caller with hint h waits for.
TargetSize(h) == IF h = "pair" THEN PairSize ELSE FullSize
MayRun(size) == size \notin known

Init ==
    /\ kind \in {"grouped", "phone"}
    /\ call = [c \in Caller |-> Resting]
    /\ pending = [h \in {"none", "pair", "full"} |-> {}]
    /\ permits = Permits
    /\ known = {}
    /\ serves \in SUBSET Size
    /\ balance = 0

Goto(c, pc) == call' = [call EXCEPT ![c].pc = pc]

-----------------------------------------------------------------------------
(* Waiting for partners.                                                   *)

\* submit: the frame bypasses the batcher, ...
Bypass(c, h) ==
    /\ call[c].pc = "idle"
    /\ \/ h = "single"
       \/ kind = "grouped" /\ ~MayRun(TargetSize(h))
    /\ call' = [call EXCEPT ![c] =
                  IF kind = "phone"
                  THEN [Resting EXCEPT !.pc = "leading", !.hint = h, !.items = {c}]
                  ELSE [Resting EXCEPT !.pc = "alone", !.hint = h]]
    /\ UNCHANGED <<kind, pending, permits, known, serves, balance>>

\* ... completes the batch of its hint, ...
Complete(c, h) ==
    LET items == pending[h] \cup {c}
    IN  /\ call[c].pc = "idle"
        /\ h # "single" /\ (kind = "phone" \/ MayRun(TargetSize(h)))
        /\ Cardinality(items) = TargetSize(h)
        /\ call' = [call EXCEPT ![c] = [Resting EXCEPT !.pc = "leading", !.hint = h, !.items = items]]
        /\ pending' = [pending EXCEPT ![h] = {}]
        /\ balance' = balance + 1 - TargetSize(h)
        /\ UNCHANGED <<kind, permits, known, serves>>

\* ... or waits.
Wait(c, h) ==
    /\ call[c].pc = "idle"
    /\ h # "single" /\ (kind = "phone" \/ MayRun(TargetSize(h)))
    /\ Cardinality(pending[h]) + 1 < TargetSize(h)
    /\ call' = [call EXCEPT ![c] =
                  [Resting EXCEPT !.pc = IF kind = "grouped" /\ TargetSize(h) = FullSize THEN "early" ELSE "late",
                                  !.hint = h]]
    /\ pending' = [pending EXCEPT ![h] = @ \cup {c}]
    /\ balance' = balance + 1
    /\ UNCHANGED <<kind, permits, known, serves>>

\* _claim_batch: exactly a pair waits and the caller is one of it.
Claimable(c, h) == c \in pending[h] /\ Cardinality(pending[h]) = PairSize

\* The early wait ended and nobody has answered.
EarlyFlush(c) ==
    LET h == call[c].hint
    IN  /\ call[c].pc = "early"
        /\ call[c].answer = "open"
        /\ IF MayRun(PairSize) /\ Claimable(c, h)
           THEN /\ call' = [call EXCEPT ![c].pc = "leading", ![c].items = pending[h]]
                /\ pending' = [pending EXCEPT ![h] = {}]
                /\ balance' = balance - PairSize
           ELSE Goto(c, "late") /\ UNCHANGED <<pending, balance>>
        /\ UNCHANGED <<kind, permits, known, serves>>

\* Mutant of Withdraw: the frame goes alone and stays in the batch.
WithdrawLazily(c) == UNCHANGED pending

Withdraw(c) == pending' = [pending EXCEPT ![call[c].hint] = @ \ {c}]

\* The wait ended: the frame is withdrawn and sent alone, ...
TimeOut(c) ==
    /\ call[c].pc = "late"
    /\ call[c].answer = "open"
    /\ c \in pending[call[c].hint]
    /\ Withdraw(c)
    /\ call' = IF kind = "phone" THEN [call EXCEPT ![c].pc = "leading", ![c].items = {c}]
               ELSE [call EXCEPT ![c].pc = "alone"]
    /\ balance' = balance - 1
    /\ UNCHANGED <<kind, permits, known, serves>>

\* ... or a partner has taken it.
TimeOutTaken(c) ==
    /\ call[c].pc = "late"
    /\ call[c].answer = "open"
    /\ c \notin pending[call[c].hint]
    /\ Goto(c, "taken")
    /\ UNCHANGED <<kind, pending, permits, known, serves, balance>>

-----------------------------------------------------------------------------
(* The request of a batch.                                                 *)

Acquire(c) ==
    /\ call[c].pc \in {"leading", "alone"}
    /\ permits > 0
    /\ permits' = permits - 1
    /\ call' = [d \in Caller |->
                  IF d = c THEN [call[c] EXCEPT !.pc = IF @ = "leading" THEN "sending" ELSE "single",
                                                !.sent = @ + 1]
                  ELSE IF d \in call[c].items THEN [call[d] EXCEPT !.sent = @ + 1] ELSE call[d]]
    /\ UNCHANGED <<kind, pending, known, serves, balance>>

\* Mutant of Answered: whoever sends the batch raises before it wakes its partners.
AnsweredAlone(c, answer) == [call EXCEPT ![c] = Resting]

\* Every item learns the answer; the leader has it at once.
Answered(c, answer) ==
    [d \in Caller |->
        IF d \in call[c].items \ {c}
        THEN [call[d] EXCEPT !.answer = answer, !.sent = IF answer = "unhandled" THEN @ - 1 ELSE @]
        ELSE IF d # c THEN call[d]
        ELSE IF answer = "unhandled" THEN [Resting EXCEPT !.pc = "alone", !.hint = call[c].hint]
        ELSE Resting]

\* No permit within the admission wait: the frames are given up.
Overload(c) ==
    /\ call[c].pc \in {"leading", "alone"}
    /\ permits = 0
    /\ call' = IF call[c].pc = "leading" THEN Answered(c, "error") ELSE [call EXCEPT ![c] = Resting]
    /\ UNCHANGED <<kind, pending, permits, known, serves, balance>>

Replies(c) ==
    /\ call[c].pc = "sending"
    /\ permits' = permits + 1
    /\ UNCHANGED <<kind, pending, serves, balance>>

\* The server computes the batch, and the results arrive or are lost or incomplete.
BatchComputed(c, answer) ==
    /\ Cardinality(call[c].items) \in serves \cup {1}
    /\ answer \in {"handled", "error"}
    /\ Replies(c)
    /\ call' = Answered(c, answer)
    /\ known' = IF answer = "handled" THEN known \ {Cardinality(call[c].items)} ELSE known

\* The server lacks the route, or refuses this prompt set (409), or is away.
BatchRefused(c) ==
    LET size == Cardinality(call[c].items)
    IN  /\ Replies(c)
        /\ \/ /\ size \notin serves \cup {1}
              /\ known' = known \cup {size}
              /\ call' = Answered(c, IF kind = "phone" THEN "error" ELSE "unhandled")
           \/ /\ kind = "grouped"
              /\ known' = known
              /\ call' = Answered(c, "unhandled")
           \/ /\ known' = known
              /\ call' = Answered(c, "error")

-----------------------------------------------------------------------------
(* A partner's answer, the request of one frame, the server.               *)

Woken(c) ==
    /\ call[c].pc \in {"early", "late", "taken"}
    /\ call[c].answer # "open"
    /\ call' = [call EXCEPT ![c] =
                  IF @.answer = "unhandled" THEN [@ EXCEPT !.pc = "alone", !.answer = "open"]
                  ELSE Resting]
    /\ UNCHANGED <<kind, pending, permits, known, serves, balance>>

\* predict_record_batches without the batcher, through whichever route the server has.
SingleEnds(c) ==
    /\ call[c].pc = "single"
    /\ permits' = permits + 1
    /\ call' = [call EXCEPT ![c] = Resting]
    /\ UNCHANGED <<kind, pending, known, serves, balance>>

\* The model server is replaced by another version at the same address.
Upgrade ==
    /\ serves' \in SUBSET Size
    /\ serves' # serves
    /\ UNCHANGED <<kind, call, pending, permits, known, balance>>

Step(c) ==
    \/ \E h \in Hint : Bypass(c, h) \/ Complete(c, h) \/ Wait(c, h)
    \/ EarlyFlush(c) \/ TimeOut(c) \/ TimeOutTaken(c) \/ Woken(c)
    \/ Acquire(c) \/ Overload(c)
    \/ \E answer \in {"handled", "error"} : BatchComputed(c, answer)
    \/ BatchRefused(c) \/ SingleEnds(c)

Next == (\E c \in Caller : Step(c)) \/ Upgrade

Spec == Init /\ [][Next]_vars

\* Every wait has a limit, a permit is refused after the admission wait, and a
\* request ends with its answer or with the timeout of the session.
Ends(c) ==
    \/ EarlyFlush(c) \/ TimeOut(c) \/ TimeOutTaken(c) \/ Woken(c)
    \/ Acquire(c) \/ Overload(c)
    \/ \E answer \in {"handled", "error"} : BatchComputed(c, answer)
    \/ BatchRefused(c) \/ SingleEnds(c)

Fairness == \A c \in Caller : WF_vars(Ends(c))
FairSpec == Spec /\ Fairness

-----------------------------------------------------------------------------
Carried(c) ==
    {l \in Caller : call[l].pc \in {"leading", "sending"} /\ c \in call[l].items}

\* A frame is in one place: among the pending ones, in one batch or on its own
\* way, so it is computed at most once for its caller; a batch holds frames of
\* one hint in a size there is a route for; and the counters of the statistics
\* add up to the frames that wait.
FrameInOnePlace ==
    /\ \A c \in Caller :
        /\ Cardinality(Carried(c))
             + Cardinality({h \in DOMAIN pending : c \in pending[h]})
             + (IF call[c].pc \in {"alone", "single"} THEN 1 ELSE 0) <= 1
        /\ call[c].sent <= 1
        /\ call[c].pc = "taken" => call[c].answer # "open" \/ Carried(c) # {}
        /\ call[c].items # {} => /\ c \in call[c].items
                                 /\ \A d \in call[c].items : call[d].hint = call[c].hint
                                 /\ kind = "grouped" => Cardinality(call[c].items) \in Size
    /\ balance = Cardinality(UNION {pending[h] : h \in DOMAIN pending})
    /\ permits + Cardinality({c \in Caller : call[c].pc \in {"sending", "single"}}) = Permits

\* Every submitted frame comes back, with records or an error, however partners,
\* timeouts and answers interleave and whoever sends the batch.
Returned(c) == call[c].pc = "idle"
CallersReturn == \A c \in Caller : []<>Returned(c)
=============================================================================
