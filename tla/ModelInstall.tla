---------------------------- MODULE ModelInstall ----------------------------
(***************************************************************************)
(* Installing detection models (model_manager.py): a request starts a job, *)
(* one at a time, whose thread brings the files of its models to their     *)
(* place, verifies and loads them; the process may be restarted anywhere,  *)
(* and starts from the files it finds.                                     *)
(*                                                                         *)
(* Files of different assets, complete or not, differ in size.  A load     *)
(* fails on an incomplete file and may fail on a complete one.  What an    *)
(* operator puts into a legacy path is complete.                           *)
(***************************************************************************)
EXTENDS Naturals, FiniteSets

CONSTANTS
    Model,
    Asset,
    AssetOf,     \* shared_asset_key of each model
    Lazy,        \* _LAZY_START_MODEL_KEYS
    Legacy,      \* assets of which a copy may come to lie in a legacy path
    MaxJobs      \* bound on the jobs of one run of the process

VARIABLES
    file,      \* of each asset at its place: absent, empty, partial, whole
    legacy,    \* the assets with a copy in a legacy path
    status,    \* _MODEL_STATES: the status of each model ...
    owner,     \* ... and its job_id, 0 if none
    active,    \* _ACTIVE_JOB_ID, 0 if none
    job,       \* the jobs, numbered in the order of their requests
    overtaken  \* history: models a failing job marked after a later job had taken them

vars == <<file, legacy, status, owner, active, job, overtaken>>

Job == 0 .. MaxJobs
NoAsset == "none"
Contents == {"absent", "empty", "partial", "whole"}

\* work     the thread has no asset in hand
\* check, verify, load   with an asset in hand
\* failing  the job is final, its models are not yet marked
\* leaving  the job is final, the thread restarts the cameras or ends
\* ended    the thread is gone
TypeOK ==
    /\ file \in [Asset -> Contents]
    /\ legacy \subseteq Legacy
    /\ status \in [Model -> {"not_downloaded", "installing", "ready", "failed"}]
    /\ owner \in [Model -> Job] /\ active \in Job
    /\ DOMAIN job \in {1 .. n : n \in Job}
    /\ \A j \in DOMAIN job :
        job[j] \in [models : SUBSET Model, left : SUBSET Asset, asset : Asset \cup {NoAsset},
                    found : Contents, todo : SUBSET Model,
                    total : Asset \cup {NoAsset}, status : {"running", "ready", "failed"},
                    stage : {"work", "check", "verify", "load", "failing", "leaving", "ended"}]
    /\ overtaken \subseteq Model

Loads(a) == {m \in Model : AssetOf[m] = a}

\* initialize: a model with a file is loaded, or may fail to; lazily started ones
\* are not looked at; a legacy file serves even if its copy breaks off.
Starts(m) ==
    LET a == AssetOf[m]
    IN  IF file[a] = "absent" /\ a \notin legacy THEN {"not_downloaded"}
        ELSE IF m \in Lazy THEN {"ready"}
        ELSE IF file[a] \in {"empty", "partial"} THEN {"failed"} ELSE {"ready", "failed"}

Init ==
    /\ file = [a \in Asset |-> "absent"]
    /\ legacy = {}
    /\ status = [m \in Model |-> "not_downloaded"]
    /\ owner = [m \in Model |-> 0]
    /\ active = 0 /\ job = <<>> /\ overtaken = {}

Final(j) == job[j].status # "running"

-----------------------------------------------------------------------------
\* install_models: a job that has not finished is handed out or stands in the
\* way; otherwise the models belong to a new job.
Install(M) ==
    LET j == Cardinality(DOMAIN job) + 1
    IN  /\ M # {} /\ j \in Job
        /\ active # 0 => Final(active)
        /\ job' = [k \in 1 .. j |->
                     IF k < j THEN job[k]
                     ELSE [models |-> M, left |-> {AssetOf[m] : m \in M}, asset |-> NoAsset,
                           found |-> "absent", todo |-> {}, total |-> NoAsset, status |-> "running", stage |-> "work"]]
        /\ active' = j
        /\ status' = [m \in Model |-> IF m \in M THEN "installing" ELSE status[m]]
        /\ owner' = [m \in Model |-> IF m \in M THEN j ELSE owner[m]]
        /\ overtaken' = overtaken \ M
        /\ UNCHANGED <<file, legacy>>

\* An exception: the job is failed first, its models in a later step.
Raise(j) == job' = [job EXCEPT ![j].status = "failed", ![j].stage = "failing"]

NextAsset(j, a) ==
    /\ job[j].stage = "work" /\ a \in job[j].left
    /\ job' = [job EXCEPT ![j].asset = a, ![j].left = @ \ {a}, ![j].stage = "check"]
    /\ UNCHANGED <<file, legacy, status, owner, active, overtaken>>

Verifying(j, found, total) ==
    job' = [job EXCEPT ![j].stage = "verify", ![j].found = found, ![j].total = total]

\* The file is there, whatever came of it.  The expected size stays that of an
\* earlier download of the job.
FindsFile(j, a) ==
    /\ file[a] # "absent"
    /\ Verifying(j, file[a], job[j].total)
    /\ UNCHANGED file

\* It is copied from a legacy path.  If the copy breaks off, the legacy file
\* serves and what was copied stays.
Promotes(j, a) ==
    /\ file[a] = "absent" /\ a \in legacy
    /\ file' \in {[file EXCEPT ![a] = content] : content \in Contents}
    /\ Verifying(j, "whole", job[j].total)

\* It is downloaded beside its place and moved there before anybody looks at
\* it.  The size, if the server declares one, is noted with the first chunk.
Downloads(j, a) ==
    /\ file[a] = "absent" /\ a \notin legacy
    /\ \E content \in Contents \ {"absent"}, declared \in {a, NoAsset} :
        /\ content = "empty" => declared = NoAsset
        /\ file' = [file EXCEPT ![a] = content]
        /\ Verifying(j, content, declared)

\* The download fails before that.
DownloadFails(j, a) ==
    /\ file[a] = "absent" /\ a \notin legacy
    /\ Raise(j)
    /\ UNCHANGED file

Fetch(j) ==
    LET a == job[j].asset
    IN  /\ job[j].stage = "check"
        /\ FindsFile(j, a) \/ Promotes(j, a) \/ Downloads(j, a) \/ DownloadFails(j, a)
        /\ UNCHANGED <<legacy, status, owner, active, overtaken>>

\* _verify_asset: not empty, and of the expected size if one is known.
Passes(j) ==
    /\ job[j].found # "empty"
    /\ \/ job[j].total = NoAsset
       \/ job[j].total = job[j].asset /\ job[j].found = "whole"

Verify(j) ==
    /\ job[j].stage = "verify"
    /\ IF Passes(j)
       THEN job' = [job EXCEPT ![j].stage = "load", ![j].todo = job[j].models \cap Loads(job[j].asset)]
       ELSE Raise(j)
    /\ UNCHANGED <<file, legacy, status, owner, active, overtaken>>

\* The models of the asset are loaded and ready, one after another; the last
\* one ends the work on the asset.
Load(j, m) ==
    LET left == job[j].todo \ {m}
    IN  /\ job[j].stage = "load" /\ m \in job[j].todo
        /\ \/ /\ job[j].found = "whole"
              /\ status' = [status EXCEPT ![m] = "ready"]
              /\ owner' = [owner EXCEPT ![m] = 0]
              /\ job' = [job EXCEPT ![j].todo = left, ![j].stage = IF left = {} THEN "work" ELSE @]
           \/ Raise(j) /\ UNCHANGED <<status, owner>>
        /\ UNCHANGED <<file, legacy, active, overtaken>>

\* Every asset is done: the job is ready; then the cameras are restarted.
Succeed(j) ==
    /\ job[j].stage = "work" /\ job[j].left = {}
    /\ job' = [job EXCEPT ![j].status = "ready", ![j].stage = "leaving"]
    /\ UNCHANGED <<file, legacy, status, owner, active, overtaken>>

\* Mutant of MarkFailed: only the model being loaded is marked.
MarkCurrentFailed(j) ==
    /\ job[j].stage = "failing"
    /\ job' = [job EXCEPT ![j].stage = "leaving"]
    /\ status' = [m \in Model |-> IF m \in job[j].todo THEN "failed" ELSE status[m]]
    /\ owner' = [m \in Model |-> IF m \in job[j].todo THEN 0 ELSE owner[m]]
    /\ UNCHANGED <<file, legacy, active, overtaken>>

\* A failed job marks all of its models, those loaded too, and those that a job
\* requested since the failure became known has taken.
MarkFailed(j) ==
    /\ job[j].stage = "failing"
    /\ job' = [job EXCEPT ![j].stage = "leaving"]
    /\ status' = [m \in Model |-> IF m \in job[j].models THEN "failed" ELSE status[m]]
    /\ owner' = [m \in Model |-> IF m \in job[j].models THEN 0 ELSE owner[m]]
    /\ overtaken' = overtaken \cup
         {m \in job[j].models : \E k \in DOMAIN job : k > j /\ m \in job[k].models}
    /\ UNCHANGED <<file, legacy, active>>

Release(j) ==
    /\ job[j].stage = "leaving"
    /\ job' = [job EXCEPT ![j].stage = "ended"]
    /\ active' = IF active = j THEN 0 ELSE active
    /\ UNCHANGED <<file, legacy, status, owner, overtaken>>

\* The process ends anywhere and starts anew: what lies in a legacy path is
\* copied, as far as the copy gets, and what is found is loaded.
Restart ==
    /\ job' = <<>> /\ active' = 0 /\ overtaken' = {}
    /\ file' \in [Asset -> Contents]
    /\ \A a \in Asset : (file[a] = "absent" /\ a \in legacy) \/ file'[a] = file[a]
    /\ status' \in [Model -> {"not_downloaded", "ready", "failed"}]
    /\ \A m \in Model : status'[m] \in Starts(m)
    /\ owner' = [m \in Model |-> 0]
    /\ UNCHANGED legacy

\* The operator puts a complete copy into a legacy path.
Supply(a) ==
    /\ a \in Legacy \ legacy
    /\ legacy' = legacy \cup {a}
    /\ UNCHANGED <<file, status, owner, active, job, overtaken>>

Next ==
    \/ \E M \in SUBSET Model : Install(M)
    \/ \E j \in DOMAIN job :
        \/ \E a \in Asset : NextAsset(j, a)
        \/ \E m \in Model : Load(j, m)
        \/ Fetch(j) \/ Verify(j) \/ Succeed(j) \/ MarkFailed(j) \/ Release(j)
    \/ Restart \/ \E a \in Asset : Supply(a)

Spec == Init /\ [][Next]_vars

-----------------------------------------------------------------------------
\* The last job a model was requested in.
LastJob(m) == LET J == {j \in DOMAIN job : m \in job[j].models}
              IN  IF J = {} THEN 0 ELSE CHOOSE j \in J : \A k \in J : k <= j
Marked(j) == job[j].stage \in {"leaving", "ended"}

\* A copy of the asset from which a model can be loaded.
Loadable(a) == file[a] = "whole" \/ a \in legacy

\* What the status of a model says is so, through jobs that fail half way, one
\* after another and restarts: installing means that a job is at work which will
\* decide about it; after its last job a model is ready or failed as the job was,
\* except when the job before marked its own failure only then; never do two jobs
\* work on the files.  And a download that was moved to its place empty or cut
\* short, which no later job replaces, makes no model ready, but for a lazy one
\* that nobody has loaded since the process started.
InstallTruthful ==
    /\ Cardinality({j \in DOMAIN job : ~Final(j)}) <= 1
    /\ \A m \in Model :
        LET j == LastJob(m)
        IN  /\ status[m] = "installing" => j # 0 /\ owner[m] = j /\ ~Marked(j)
            /\ j # 0 /\ m \notin overtaken =>
                 /\ Marked(j) => status[m] = job[j].status
                 /\ ~Final(j) => status[m] = "ready" \/ (status[m] = "installing" /\ active = j)
            /\ status[m] = "ready" /\ (m \in Lazy => j # 0) => Loadable(AssetOf[m])
=============================================================================
