---------------------------- MODULE AlertEvidence ----------------------------
(***************************************************************************)
(* The evidence of an alert: alert_store.create_alert() writes image files *)
(* first and the row that names them afterwards, on the persistence thread *)
(* of the pipeline; cleanup_snapshots() deletes files on another thread.   *)
(* The file system and the database share no transaction.                  *)
(*                                                                         *)
(* A file name belongs to one alert and one kind of image.  Names with     *)
(* equal content may be hard links to one file, and then share its         *)
(* modification time.  What retention_days and max_bytes select among the  *)
(* resolved alerts is left open; alert ids are fresh, so a row with this   *)
(* id is always this alert's.                                              *)
(***************************************************************************)
EXTENDS Integers, Sequences, FiniteSets, SequencesExt

CONSTANTS
    Alert,
    Kind,       \* the images of an alert: annotated, clean
    ContentOf,  \* the content of each file, of every name
    CacheMax,   \* _SNAPSHOT_LINK_CACHE_MAX_ENTRIES, at least one
    Attempts,   \* persistence_attempts of the pipeline
    Grace,      \* ticks of orphan_grace_hours
    MaxFaults,  \* bound on failures and restarts
    NoAlert

Name == Alert \X Kind

VARIABLES
    files,    \* SNAPSHOTS_DIR
    age,      \* ticks since the file was modified, up to Grace + 1
    cache,    \* _snapshot_link_cache, the least recently used entry first
    rows,     \* the rows of the alerts and the files they name
    late,     \* INSERTs whose COMMIT the server has and the client gave up
    result,   \* what the pipeline learnt of each alert
    creator,  \* the persistence thread
    cleaner,  \* the cleanup thread
    origin,   \* how the last attempt to create each file ended
    faults

dbVars == <<rows, late>>
vars == <<files, age, cache, rows, late, result, creator, cleaner, origin, faults>>

Resting == [pc |-> "idle", alert |-> NoAlert, left |-> {}, refs |-> {}, created |-> {},
            attempt |-> 0, spent |-> 0]
Waiting(first) == [pc |-> "idle", first |-> first, rows |-> {}, detach |-> {},
                   referenced |-> {}, names |-> {}, old |-> {}]
Absent == [status |-> "absent", refs |-> {}]

NamesOf(a) == {a} \X Kind

TypeOK ==
    /\ files \subseteq Name
    /\ age \in [Name -> 0 .. Grace + 1]
    /\ Len(cache) <= CacheMax
    /\ \A i \in DOMAIN cache : cache[i] \in Name
    /\ \A i, j \in DOMAIN cache : ContentOf[cache[i]] = ContentOf[cache[j]] => i = j
    /\ rows \in [Alert -> [status : {"absent", "open", "resolved"}, refs : SUBSET Name]]
    /\ \A a \in Alert : rows[a].refs \subseteq NamesOf(a)
    /\ late \in [Alert -> SUBSET SUBSET Name]
    /\ result \in [Alert -> {"none", "trying", "persisted", "failed", "lost"}]
    /\ creator \in [pc : {"idle", "files", "check", "undo"}, alert : Alert \cup {NoAlert},
                    left : SUBSET Kind, refs : SUBSET Name, created : SUBSET Name,
                    attempt : 0 .. Attempts, spent : 0 .. Grace]
    /\ cleaner \in [pc : {"idle", "age", "usage", "capacity", "select", "list", "sweep", "dead"},
                    first : BOOLEAN, rows : SUBSET Alert, detach : SUBSET Alert,
                    referenced : SUBSET Name, names : SUBSET Name, old : SUBSET Name]
    /\ origin \in [Name -> {"none", "written", "linked", "failed"}]
    /\ faults \in 0 .. MaxFaults

Init ==
    /\ files = {}
    /\ age = [n \in Name |-> 0]
    /\ cache = <<>>
    /\ rows = [a \in Alert |-> Absent]
    /\ late = [a \in Alert |-> {}]
    /\ result = [a \in Alert |-> "none"]
    /\ creator = Resting
    /\ cleaner = Waiting(TRUE)
    /\ origin = [n \in Name |-> "none"]
    /\ faults = 0

Durable(a) == rows[a].status # "absent"
Fault == faults < MaxFaults /\ faults' = faults + 1

-----------------------------------------------------------------------------
(* create_alert(): the files. *)

\* The persistence thread takes the next alert; its first attempt.
StartPersist(a) ==
    /\ creator.pc = "idle"
    /\ result[a] = "none"
    /\ result' = [result EXCEPT ![a] = "trying"]
    /\ creator' = [Resting EXCEPT !.pc = "files", !.alert = a, !.left = Kind, !.attempt = 1]
    /\ UNCHANGED <<files, age, cache, dbVars, cleaner, origin, faults>>

\* The image of kind k is next; its file does not exist yet.
Creates(k) ==
    /\ creator.pc = "files"
    /\ k \in creator.left
    /\ <<creator.alert, k>> \notin files

Refer(n, new) ==
    creator' = [creator EXCEPT !.left = @ \ {n[2]}, !.refs = @ \cup {n}, !.created = @ \cup new]

\* The cache without its entry for the content of n, of which there is one at most.
SameContent(i, n) == ContentOf[cache[i]] = ContentOf[n]
OtherEntries(n) ==
    IF \E i \in DOMAIN cache : SameContent(i, n)
    THEN RemoveAt(cache, CHOOSE i \in DOMAIN cache : SameContent(i, n))
    ELSE cache

\* The entry for the content of n is now n, the most recently used.
Remember(n) ==
    LET entries == Append(OtherEntries(n), n)
    IN  cache' = IF Len(entries) > CacheMax THEN Tail(entries) ELSE entries

Source(n) == {e \in ToSet(cache) : ContentOf[e] = ContentOf[n]}

\* An earlier attempt left the file: evidence is never overwritten.
KeepSnapshot(k) ==
    LET n == <<creator.alert, k>>
    IN  /\ creator.pc = "files"
        /\ k \in creator.left
        /\ n \in files
        /\ Refer(n, {})
        /\ UNCHANGED <<files, age, cache, dbVars, result, cleaner, origin, faults>>

\* A file with this content is known and still there: os.link().  The new name
\* has the old file's modification time.
LinkSnapshot(k) ==
    LET n == <<creator.alert, k>>
    IN  /\ Creates(k)
        /\ \E s \in Source(n) \cap files :
            /\ age' = [age EXCEPT ![n] = age[s]]
            /\ cleaner' = [cleaner EXCEPT !.old = IF s \in @ THEN @ \cup {n} ELSE @ \ {n}]
        /\ files' = files \cup {n}
        /\ Remember(n)
        /\ Refer(n, {n})
        /\ origin' = [origin EXCEPT ![n] = "linked"]
        /\ UNCHANGED <<dbVars, result, faults>>

\* _write_snapshot_once: no file with this content is known or left, or the
\* file system refuses another link to it.
WriteSnapshot(k) ==
    LET n == <<creator.alert, k>>
    IN  /\ Creates(k)
        /\ age' = [age EXCEPT ![n] = 0]
        /\ cleaner' = [cleaner EXCEPT !.old = @ \ {n}]
        /\ files' = files \cup {n}
        /\ Remember(n)
        /\ Refer(n, {n})
        /\ origin' = [origin EXCEPT ![n] = "written"]
        /\ UNCHANGED <<dbVars, result, faults>>

\* Writing fails: the alert goes on without this image.
WriteFails(k) ==
    LET n == <<creator.alert, k>>
    IN  /\ Creates(k)
        /\ Fault
        /\ cache' = IF Source(n) \cap files = {} THEN OtherEntries(n) ELSE cache
        /\ creator' = [creator EXCEPT !.left = @ \ {k}]
        /\ origin' = [origin EXCEPT ![n] = "failed"]
        /\ UNCHANGED <<files, age, dbVars, result, cleaner>>

-----------------------------------------------------------------------------
(* create_alert(): the row. *)

\* The files are made, and no earlier INSERT of this id is still in doubt.
Inserts ==
    /\ creator.pc = "files"
    /\ creator.left = {}
    /\ late[creator.alert] = {}

\* The files of this attempt stay if and only if the row names them.
Persisted(refs) ==
    /\ files' = files \ (creator.created \ refs)
    /\ result' = [result EXCEPT ![creator.alert] = "persisted"]
    /\ creator' = Resting

\* This attempt raises: the pipeline tries again with the same id, or gives up.
AttemptEnds ==
    IF creator.attempt < Attempts
    THEN /\ creator' = [creator EXCEPT !.pc = "files", !.left = Kind, !.refs = {},
                                       !.created = {}, !.attempt = @ + 1]
         /\ UNCHANGED result
    ELSE /\ creator' = Resting
         /\ result' = [result EXCEPT ![creator.alert] = "failed"]

NewRow(a, refs) == rows' = [rows EXCEPT ![a] = [status |-> "open", refs |-> refs]]

\* The transaction commits.
Commit ==
    /\ Inserts
    /\ ~Durable(creator.alert)
    /\ NewRow(creator.alert, creator.refs)
    /\ Persisted(creator.refs)
    /\ UNCHANGED <<age, cache, late, cleaner, origin, faults>>

\* An earlier attempt was durable after all: ON CONFLICT DO NOTHING.
CommitReplay ==
    /\ Inserts
    /\ Durable(creator.alert)
    /\ Persisted(rows[creator.alert].refs)
    /\ UNCHANGED <<age, cache, dbVars, cleaner, origin, faults>>

\* ... and reading it back fails.
ReplayUnread ==
    /\ Inserts
    /\ Durable(creator.alert)
    /\ Fault
    /\ AttemptEnds
    /\ UNCHANGED <<files, age, cache, dbVars, cleaner, origin>>

\* The transaction raises.  Nothing was committed, or everything was, or the
\* server will decide later.
CommitRaises(fate) ==
    LET a == creator.alert
    IN  /\ Inserts
        /\ Fault
        /\ fate # "nothing" => ~Durable(a)
        /\ IF fate = "durable" THEN NewRow(a, creator.refs) ELSE UNCHANGED rows
        /\ late' = [late EXCEPT ![a] = IF fate = "late" THEN {creator.refs} ELSE @]
        /\ creator' = [creator EXCEPT !.pc = "check"]
        /\ UNCHANGED <<files, age, cache, result, cleaner, origin>>

\* get_alert() on a fresh connection finds the row.
FindsRow ==
    /\ creator.pc = "check"
    /\ Durable(creator.alert)
    /\ Persisted(rows[creator.alert].refs)
    /\ UNCHANGED <<age, cache, dbVars, cleaner, origin, faults>>

\* ... does not find it ...
FindsNothing ==
    /\ creator.pc = "check"
    /\ ~Durable(creator.alert)
    /\ creator' = [creator EXCEPT !.pc = "undo"]
    /\ UNCHANGED <<files, age, cache, dbVars, result, cleaner, origin, faults>>

\* ... or raises: the files are left for the orphan cleanup.
CheckRaises ==
    /\ creator.pc = "check"
    /\ Fault
    /\ AttemptEnds
    /\ UNCHANGED <<files, age, cache, dbVars, cleaner, origin>>

\* The files of an attempt without a row are deleted.
Undo ==
    /\ creator.pc = "undo"
    /\ files' = files \ creator.created
    /\ AttemptEnds
    /\ UNCHANGED <<age, cache, dbVars, cleaner, origin, faults>>

-----------------------------------------------------------------------------
(* The database server and the operator. *)

\* The server ends a transaction whose client is gone.
SettleLate(a, commits) ==
    /\ late[a] # {}
    /\ late' = [late EXCEPT ![a] = {}]
    /\ IF commits THEN \E refs \in late[a] : NewRow(a, refs) ELSE UNCHANGED rows
    /\ UNCHANGED <<files, age, cache, result, creator, cleaner, origin, faults>>

\* resolve_alert, mark_false_positive, auto-resolution: nothing reopens.
Resolve(a) ==
    /\ rows[a].status = "open"
    /\ rows' = [rows EXCEPT ![a].status = "resolved"]
    /\ UNCHANGED <<files, age, cache, late, result, creator, cleaner, origin, faults>>

-----------------------------------------------------------------------------
(* retention_cleanup_loop() and cleanup_snapshots(). *)

Prunable == {a \in Alert : rows[a].status = "resolved" /\ rows[a].refs # {}}

\* Mutant of Stale: files may go that are younger than the grace window.
StaleAtOnce == files

\* Mutant of Stale: the grace window is subtracted twice.
StaleTooLate == {n \in files : age[n] > Grace + Grace}

\* Older than the grace window.
Stale == {n \in files : age[n] > Grace}

\* orphan_cutoff is fixed and the rows are read.
StartCleanup ==
    /\ cleaner.pc = "idle"
    /\ cleaner' = [cleaner EXCEPT !.pc = "age", !.rows = Prunable, !.old = Stale]
    /\ UNCHANGED <<files, age, cache, dbVars, result, creator, origin, faults>>

\* The row is past its retention, or the directory is too full:
\* _delete_snapshot_pair.  A row whose files are gone is left as it is.
PruneRow(a) ==
    /\ a \in cleaner.rows
    /\ files' = files \ rows[a].refs
    /\ cleaner' = [cleaner EXCEPT !.rows = @ \ {a},
                                  !.detach = IF rows[a].refs \cap files # {} THEN @ \cup {a} ELSE @]
    /\ UNCHANGED <<age, cache, dbVars, result, creator, origin, faults>>

SkipRow(a) ==
    /\ a \in cleaner.rows
    /\ cleaner' = [cleaner EXCEPT !.rows = @ \ {a}]
    /\ UNCHANGED <<files, age, cache, dbVars, result, creator, origin, faults>>

\* The updates of a pass are committed together, after its deletions.
CommitPrune ==
    /\ cleaner.pc \in {"age", "capacity"}
    /\ cleaner.rows = {}
    /\ rows' = [a \in Alert |-> IF a \in cleaner.detach THEN [rows[a] EXCEPT !.refs = {}]
                                ELSE rows[a]]
    /\ cleaner' = [cleaner EXCEPT !.pc = IF @ = "age" THEN "usage" ELSE "select", !.detach = {}]
    /\ UNCHANGED <<files, age, cache, late, result, creator, origin, faults>>

\* The directory still exceeds max_bytes.
OverCapacity ==
    /\ cleaner.pc = "usage"
    /\ cleaner' = [cleaner EXCEPT !.pc = "capacity", !.rows = Prunable]
    /\ UNCHANGED <<files, age, cache, dbVars, result, creator, origin, faults>>

ReadReferenced ==
    /\ cleaner.pc \in {"usage", "select"}
    /\ cleaner' = [cleaner EXCEPT !.pc = "list", !.referenced = UNION {rows[a].refs : a \in Alert}]
    /\ UNCHANGED <<files, age, cache, dbVars, result, creator, origin, faults>>

\* iterdir() lists the directory first.
ListFiles ==
    /\ cleaner.pc = "list"
    /\ cleaner' = [cleaner EXCEPT !.pc = "sweep", !.names = files \ cleaner.referenced]
    /\ UNCHANGED <<files, age, cache, dbVars, result, creator, origin, faults>>

\* An unreferenced file goes if it is older than the cutoff.
Sweep(n) ==
    /\ n \in cleaner.names
    /\ files' = files \ ({n} \cap cleaner.old)
    /\ cleaner' = [cleaner EXCEPT !.names = @ \ {n}]
    /\ UNCHANGED <<age, cache, dbVars, result, creator, origin, faults>>

EndCleanup ==
    /\ cleaner.pc = "sweep"
    /\ cleaner.names = {}
    /\ cleaner' = Waiting(FALSE)
    /\ UNCHANGED <<files, age, cache, dbVars, result, creator, origin, faults>>

\* An exception rolls back what was not committed.  The loop catches it, except
\* around its first cleanup.
CleanupRaises ==
    /\ cleaner.pc \notin {"idle", "dead"}
    /\ Fault
    /\ cleaner' = [Waiting(FALSE) EXCEPT !.pc = IF cleaner.first THEN "dead" ELSE "idle"]
    /\ UNCHANGED <<files, age, cache, dbVars, result, creator, origin>>

-----------------------------------------------------------------------------
(* The process and time. *)

\* The process dies at any point and is started again; alerts that were not
\* durable are gone.
Restart ==
    /\ Fault
    /\ cache' = <<>>
    /\ result' = [a \in Alert |-> IF result[a] = "trying" THEN "lost" ELSE result[a]]
    /\ creator' = Resting
    /\ cleaner' = Waiting(TRUE)
    /\ UNCHANGED <<files, age, dbVars, origin>>

Older(n) == IF n \in files /\ age[n] <= Grace THEN age[n] + 1 ELSE age[n]

\* The attempts to persist one alert take less time than the grace window
\* (seconds against hours).
Tick ==
    /\ creator.spent < Grace
    /\ age' = [n \in Name |-> Older(n)]
    /\ creator' = [creator EXCEPT !.spent = IF creator.pc = "idle" THEN 0 ELSE @ + 1]
    /\ UNCHANGED <<files, cache, dbVars, result, cleaner, origin, faults>>

CreatorStep ==
    \/ \E k \in Kind : KeepSnapshot(k) \/ LinkSnapshot(k) \/ WriteSnapshot(k) \/ WriteFails(k)
    \/ Commit \/ CommitReplay \/ ReplayUnread
    \/ \E fate \in {"nothing", "durable", "late"} : CommitRaises(fate)
    \/ FindsRow \/ FindsNothing \/ CheckRaises \/ Undo

CleanerStep ==
    \/ StartCleanup
    \/ \E a \in Alert : PruneRow(a) \/ SkipRow(a)
    \/ CommitPrune \/ OverCapacity \/ ReadReferenced \/ ListFiles
    \/ \E n \in Name : Sweep(n)
    \/ EndCleanup

SettleStep == \E a \in Alert, commits \in BOOLEAN : SettleLate(a, commits)

Next ==
    \/ \E a \in Alert : StartPersist(a) \/ Resolve(a)
    \/ CreatorStep
    \/ SettleStep
    \/ CleanerStep \/ CleanupRaises
    \/ Restart
    \/ Tick

Spec == Init /\ [][Next]_vars

(***************************************************************************)
(* Fairness.  The persistence thread and the cleanup loop go on, the       *)
(* server ends every transaction, time passes.  Nothing is assumed of new  *)
(* alerts, the operator, failures and restarts.                            *)
(***************************************************************************)
FairSpec ==
    /\ Spec
    /\ WF_vars(CreatorStep)
    /\ WF_vars(CleanerStep)
    /\ WF_vars(SettleStep)
    /\ WF_vars(Tick)

-----------------------------------------------------------------------------
(* Properties. *)

Named(a, how) == {n \in rows[a].refs : origin[n] \in how}
Kept(a) == rows[a].status = "open" /\ result[a] = "persisted"

\* An alert that was reported as persisted and is not resolved has every image
\* file that was written for it and that its row names: neither a commit in
\* doubt, a retry or a replay, nor a cleanup at any moment deletes it.
EvidenceKept ==
    /\ TypeOK
    /\ \A a \in Alert : Kept(a) => Named(a, {"written"}) \subseteq files

\* "a grace window to avoid racing fresh writes" (alert_store.py:730): the same
\* of files that are links to earlier content.
FreshEvidenceKept ==
    /\ TypeOK
    /\ \A a \in Alert : Kept(a) => Named(a, {"written", "linked"}) \subseteq files

Orphan(n) == n \in files /\ \A a \in Alert : n \notin rows[a].refs

\* No path of failure leaves a file on disk for ever that no row names, as long
\* as the cleanup loop survives its first cleanup.
OrphansRemoved == \A n \in Name : Orphan(n) ~> (~Orphan(n) \/ cleaner.pc = "dead")

=============================================================================
