----------------------------- MODULE ConfigStore -----------------------------
(***************************************************************************)
(* The configuration of the site (config_manager.py): one row of           *)
(* PostgreSQL and, in every process, a cached dictionary that readers      *)
(* refresh at a bounded rate.  A request gets the cached dictionary        *)
(* itself, edits it in place and saves it whole; an alert marks its rule   *)
(* by an UPDATE of one field.  The lock guards the cache; the queries of a *)
(* refresh run outside it.                                                 *)
(*                                                                         *)
(* A document is what it has of the edits and of the latest mark, which is *)
(* named by the write that made it.  The updated_at of the row is a        *)
(* number, different for every write.  The row exists, and loading         *)
(* normalises nothing.                                                     *)
(***************************************************************************)
EXTENDS Naturals, FiniteSets, FiniteSetsExt

CONSTANTS
    Proc,
    Edit, EditorOf,      \* the requests that edit, and the process of each
    Refresh, ReaderOf,   \* the readers that may refresh, and the process of each
    MaxMarks,            \* bound on the alerts that mark a rule
    MaxFaults            \* bound on failed saves and refreshes and on restarts

VARIABLES
    row,       \* app_config: the document, and its updated_at
    heap,      \* the dictionaries of each process
    cached,    \* _config: which of them
    version,   \* _config_version; None after a mark
    due,       \* the refresh interval since _config_checked_at is over
    request,   \* the requests: pc, and the dictionary that get_config returned
    refresh,   \* the refreshes: pc, cached_version, current_version, loaded; and when it was loaded
    lastSave,  \* updated_at of the last save of each process, None once it marks a rule
    faults

vars == <<row, heap, cached, version, due, request, refresh, lastSave, faults>>

None == 0
Updates == 1 .. 1 + Cardinality(Edit) + MaxMarks
Document == [edits : SUBSET Edit, mark : Updates \cup {None}]
Nothing == [edits |-> {}, mark |-> None]
Dictionary == 1 .. Cardinality(Edit) + 2

NotRefreshing == [pc |-> "idle", known |-> None, current |-> None, loaded |-> Nothing, at |-> None]
NoRequest == [pc |-> "idle", dictionary |-> 0]

TypeOK ==
    /\ row \in [document : Document, version : Updates]
    /\ heap \in [Proc -> [Dictionary -> Document]]
    /\ cached \in [Proc -> Dictionary]
    /\ version \in [Proc -> Updates \cup {None}]
    /\ due \in [Proc -> BOOLEAN]
    /\ request \in [Edit -> [pc : {"idle", "reading", "editing", "saved", "failed"},
                             dictionary : Dictionary \cup {0}]]
    /\ refresh \in [Refresh -> [pc : {"idle", "checking", "loading", "installing"},
                                known : Updates \cup {None}, current : Updates \cup {None},
                                loaded : Document, at : Updates \cup {None}]]
    /\ lastSave \in [Proc -> Updates \cup {None}]
    /\ faults \in 0 .. MaxFaults

Ended(e) == request[e].pc \in {"saved", "failed"}

Held(p) == {request[e].dictionary : e \in {x \in Edit : EditorOf[x] = p}} \ {0}
Fresh(p) == Min(Dictionary \ (Held(p) \cup {cached[p]}))

\* _config = d of process p; a dictionary nobody has is nothing.
Collected(p, h, keeps) == [d \in Dictionary |-> IF d \in keeps THEN h[d] ELSE Nothing]
Put(p, document) ==
    /\ cached' = [cached EXCEPT ![p] = Fresh(p)]
    /\ heap' = [heap EXCEPT ![p] =
                  Collected(p, [@ EXCEPT ![Fresh(p)] = document], Held(p) \cup {Fresh(p)})]

Init ==
    /\ row = [document |-> Nothing, version |-> 1]
    /\ heap = [p \in Proc |-> [d \in Dictionary |-> Nothing]]
    /\ cached = [p \in Proc |-> 1]
    /\ version = [p \in Proc |-> 1]
    /\ due = [p \in Proc |-> FALSE]
    /\ request = [e \in Edit |-> NoRequest]
    /\ refresh = [r \in Refresh |-> NotRefreshing]
    /\ lastSave = [p \in Proc |-> None]
    /\ faults = 0

Fault == faults < MaxFaults /\ faults' = faults + 1

-----------------------------------------------------------------------------
(* A request that edits.                                                   *)

Get(e) ==
    /\ request[e].pc = "idle"
    /\ request' = [request EXCEPT ![e] = [pc |-> "reading", dictionary |-> cached[EditorOf[e]]]]
    /\ UNCHANGED <<row, heap, cached, version, due, refresh, lastSave, faults>>

Change(e) ==
    /\ request[e].pc = "reading"
    /\ heap' = [heap EXCEPT ![EditorOf[e]][request[e].dictionary].edits = @ \cup {e}]
    /\ request' = [request EXCEPT ![e].pc = "editing"]
    /\ UNCHANGED <<row, cached, version, due, refresh, lastSave, faults>>

Ends(e, pc) == request' = [request EXCEPT ![e] = [pc |-> pc, dictionary |-> 0]]

\* The dictionary a request had is collected when nobody else has it.
Released(e, keeps) ==
    LET p == EditorOf[e]
        others == {request[x].dictionary : x \in {y \in Edit \ {e} : EditorOf[y] = p}}
    IN  [heap EXCEPT ![p] = Collected(p, @, others \cup {keeps})]

Written(e) == [document |-> heap[EditorOf[e]][request[e].dictionary], version |-> row.version + 1]

Save(e) ==
    LET p == EditorOf[e] d == request[e].dictionary
    IN  /\ request[e].pc = "editing"
        /\ row' = Written(e)
        /\ version' = [version EXCEPT ![p] = row'.version]
        /\ lastSave' = [lastSave EXCEPT ![p] = row'.version]
        /\ cached' = [cached EXCEPT ![p] = d]
        /\ heap' = Released(e, d)
        /\ due' = [due EXCEPT ![p] = FALSE]
        /\ Ends(e, "saved")
        /\ UNCHANGED <<refresh, faults>>

\* The transaction fails, or it commits and its reply is lost.
SaveFails(e, commits) ==
    /\ request[e].pc = "editing"
    /\ Fault
    /\ row' = IF commits THEN Written(e) ELSE row
    /\ heap' = Released(e, cached[EditorOf[e]])
    /\ Ends(e, "failed")
    /\ UNCHANGED <<cached, version, due, refresh, lastSave>>

-----------------------------------------------------------------------------
(* mark_automation_rule_triggered.                                         *)

\* Mutant of MarkedVersion: the patched cache is taken for the row that was written.
MarkedVersionOfRow == row.version + 1

MarkedVersion == None

Mark(p) ==
    /\ row.version + Cardinality({e \in Edit : ~Ended(e)}) \in Updates \ {Max(Updates)}
    /\ LET mark == row.version + 1
       IN  /\ row' = [document |-> [row.document EXCEPT !.mark = mark], version |-> row.version + 1]
           /\ Put(p, [heap[p][cached[p]] EXCEPT !.mark = mark])
    /\ version' = [version EXCEPT ![p] = MarkedVersion]
    /\ due' = [due EXCEPT ![p] = TRUE]
    /\ lastSave' = [lastSave EXCEPT ![p] = None]
    /\ UNCHANGED <<request, refresh, faults>>

-----------------------------------------------------------------------------
(* _refresh_postgres_config_if_stale.                                      *)

StartRefresh(r) ==
    LET p == ReaderOf[r]
    IN  /\ refresh[r].pc = "idle" /\ due[p]
        /\ due' = [due EXCEPT ![p] = FALSE]
        /\ refresh' = [refresh EXCEPT ![r].pc = "checking", ![r].known = version[p]]
        /\ UNCHANGED <<row, heap, cached, version, request, lastSave, faults>>

ReadVersion(r) ==
    /\ refresh[r].pc = "checking"
    /\ refresh' = [refresh EXCEPT ![r] =
                     IF row.version = @.known THEN NotRefreshing
                     ELSE [@ EXCEPT !.pc = "loading", !.current = row.version]]
    /\ UNCHANGED <<row, heap, cached, version, due, request, lastSave, faults>>

LoadRow(r) ==
    /\ refresh[r].pc = "loading"
    /\ refresh' = [refresh EXCEPT ![r].pc = "installing", ![r].loaded = row.document, ![r].at = row.version]
    /\ UNCHANGED <<row, heap, cached, version, due, request, lastSave, faults>>

\* Mutant of Wins: the refresh installs what it loaded.
WinsAlways(r) == TRUE

\* "A local save that wins while the refresh is in flight prevents the older
\* snapshot from replacing it."
Wins(r) == version[ReaderOf[r]] = refresh[r].known

Install(r) ==
    LET p == ReaderOf[r]
    IN  /\ refresh[r].pc = "installing"
        /\ IF Wins(r)
           THEN /\ Put(p, refresh[r].loaded)
                /\ version' = [version EXCEPT ![p] = refresh[r].current]
           ELSE UNCHANGED <<heap, cached, version>>
        /\ refresh' = [refresh EXCEPT ![r] = NotRefreshing]
        /\ UNCHANGED <<row, due, request, lastSave, faults>>

RefreshFails(r) ==
    /\ refresh[r].pc \in {"checking", "loading"}
    /\ Fault
    /\ refresh' = [refresh EXCEPT ![r] = NotRefreshing]
    /\ UNCHANGED <<row, heap, cached, version, due, request, lastSave>>

IntervalEnds(p) ==
    /\ ~due[p]
    /\ due' = [due EXCEPT ![p] = TRUE]
    /\ UNCHANGED <<row, heap, cached, version, request, refresh, lastSave, faults>>

\* The process dies, and the new one loads the row.
Restart(p) ==
    /\ Fault
    /\ heap' = [heap EXCEPT ![p] = [d \in Dictionary |-> IF d = 1 THEN row.document ELSE Nothing]]
    /\ cached' = [cached EXCEPT ![p] = 1]
    /\ version' = [version EXCEPT ![p] = row.version]
    /\ due' = [due EXCEPT ![p] = FALSE]
    /\ request' = [e \in Edit |-> IF EditorOf[e] = p /\ request[e].pc \in {"reading", "editing"}
                                  THEN [pc |-> "failed", dictionary |-> 0] ELSE request[e]]
    /\ refresh' = [r \in Refresh |-> IF ReaderOf[r] = p THEN NotRefreshing ELSE refresh[r]]
    /\ UNCHANGED <<row, lastSave>>

RefreshStep(r) == StartRefresh(r) \/ ReadVersion(r) \/ LoadRow(r) \/ Install(r)
RequestStep(e) == Change(e) \/ Save(e) \/ \E commits \in BOOLEAN : SaveFails(e, commits)

Next ==
    \/ \E e \in Edit : Get(e) \/ RequestStep(e)
    \/ \E p \in Proc : Mark(p) \/ IntervalEnds(p) \/ Restart(p)
    \/ \E r \in Refresh : RefreshStep(r) \/ RefreshFails(r)

Spec == Init /\ [][Next]_vars

\* Requests end, the configuration is read again and again, time goes on.
Fairness ==
    /\ \A e \in Edit : WF_vars(RequestStep(e))
    /\ \A r \in Refresh : WF_vars(RefreshStep(r))
    /\ \A p \in Proc : WF_vars(IntervalEnds(p))

FairSpec == Spec /\ Fairness

-----------------------------------------------------------------------------
\* What a process was told was saved is not replaced by an older row, unless the
\* process marks a rule after the save: that takes the version away, a refresh that
\* also began without one may bring an old version back, and then one from before
\* the save no longer sees the difference.
SavesStay ==
    \A r \in Refresh :
        refresh[r].pc = "installing" /\ Wins(r)
            => refresh[r].at >= lastSave[ReaderOf[r]]

Failed == {e \in Edit : request[e].pc = "failed"}

\* The process works with what is stored, apart from edits whose request failed:
\* those stay in the dictionary and are stored with the next save of it.
InStep(p) ==
    LET document == heap[p][cached[p]]
    IN  /\ document.mark = row.document.mark
        /\ document.edits \ Failed = row.document.edits \ Failed

\* "Force the next reader to fetch their generation instead of pretending this
\* locally patched cache is the returned DB row" (config_manager.py:513): no
\* process stays with another configuration than the one that is stored.
CachesCatchUp == \A p \in Proc : <>[]InStep(p)
=============================================================================
