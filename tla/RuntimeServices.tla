--------------------------- MODULE RuntimeServices ---------------------------
(***************************************************************************)
(* The components around the camera workers, side by side: the loop of a   *)
(* capture thread, the model catalogue, the configuration store, the       *)
(* installer of models, the companions that judge alerts, a batcher of     *)
(* frames, the incidents of a camera, the viewers of its picture and the   *)
(* timing of alerts.  Each keeps its state under locks of its own and      *)
(* shares none of it with the others, so their steps interleave; what one  *)
(* asks of another is an input its module leaves open.                     *)
(***************************************************************************)
EXTENDS Naturals, Sequences, FiniteSets

CONSTANTS
    MaxDebt,                                                         \* of FrameLoop
    Caller, MaxEpoch,                                                \* of ModelCatalog
    Proc, Edit, EditorOf, Refresh, ReaderOf, MaxMarks, MaxFaults,    \* of ConfigStore
    Model, Asset, AssetOf, Lazy, Legacy, MaxJobs,                    \* of ModelInstall
    Camera, MaximumPending, FailureThreshold, MaxGenerations, MaxSubmissions, \* of VlmEnrichment
    FullSize, PairSize, Hint, Permits,                               \* of FrameBatcher, with Caller
    Rule, Order, Policy, Setup, Threshold, WindowSize,               \* of ViolationIncidents
    Viewer, MaxChannels, MaxSequence, LimitPerCamera, LimitTotal,    \* of MjpegFanout
    Alert, Target, MaximumTimings                                    \* of AlertTiming

\* The variables of each component, as its module names and explains them, but for
\* five that two modules name alike.
VARIABLES pc, mode, slot, calls, mail, pending, shown, window, gate, tracker, allowed, stop
VARIABLES catalog, fresh, refreshing, epoch, backoff, caller, transport
VARIABLES row, heap, cached, version, due, request, refresh, lastSave, faults
VARIABLES file, legacy, status, owner, active, job, overtaken
VARIABLES companion, generations, queue, errand, failures, open, incidents, submissions, misled
VARIABLES kind, call, partners, permits, known, serves, balance
VARIABLES setup, observed, confirmed, anchor, hot, plan, todo, seen
VARIABLES channel, current, count, viewer, notified, waking, posted, event
VARIABLES stage, targets, order, context, callback, outcome, telemetry, raced

Frames == INSTANCE FrameLoop
Catalog == INSTANCE ModelCatalog
Config == INSTANCE ConfigStore
Installer == INSTANCE ModelInstall
Vlm == INSTANCE VlmEnrichment WITH job <- errand, active <- incidents
Batch == INSTANCE FrameBatcher WITH pending <- partners
Violations == INSTANCE ViolationIncidents WITH window <- observed, active <- confirmed
Fanout == INSTANCE MjpegFanout
Timing == INSTANCE AlertTiming WITH MaximumPending <- MaximumTimings

framesVars == <<pc, mode, slot, calls, mail, pending, shown, window, gate, tracker, allowed, stop>>
catalogVars == <<catalog, fresh, refreshing, epoch, backoff, caller, transport>>
configVars == <<row, heap, cached, version, due, request, refresh, lastSave, faults>>
installerVars == <<file, legacy, status, owner, active, job, overtaken>>
vlmVars == <<companion, generations, queue, errand, failures, open, incidents, submissions, misled>>
batchVars == <<kind, call, partners, permits, known, serves, balance>>
violationsVars == <<setup, observed, confirmed, anchor, hot, plan, todo, seen>>
fanoutVars == <<channel, current, count, viewer, notified, waking, posted, event>>
timingVars == <<stage, targets, order, context, callback, outcome, telemetry, raced>>

vars == <<framesVars, catalogVars, configVars, installerVars, vlmVars, batchVars, violationsVars,
          fanoutVars, timingVars>>

Init ==
    /\ Frames!Init /\ Catalog!Init /\ Config!Init /\ Installer!Init /\ Vlm!Init
    /\ Batch!Init /\ Violations!Init /\ Fanout!Init /\ Timing!Init

\* What the other components keep while one takes a step, ...
BesideFrames ==
    <<catalogVars, configVars, installerVars, vlmVars, batchVars, violationsVars, fanoutVars,
      timingVars>>
BesideCatalog ==
    <<framesVars, configVars, installerVars, vlmVars, batchVars, violationsVars, fanoutVars,
      timingVars>>
BesideConfig ==
    <<framesVars, catalogVars, installerVars, vlmVars, batchVars, violationsVars, fanoutVars,
      timingVars>>
BesideInstaller ==
    <<framesVars, catalogVars, configVars, vlmVars, batchVars, violationsVars, fanoutVars,
      timingVars>>
BesideVlm ==
    <<framesVars, catalogVars, configVars, installerVars, batchVars, violationsVars,
      fanoutVars, timingVars>>
BesideBatch ==
    <<framesVars, catalogVars, configVars, installerVars, vlmVars, violationsVars, fanoutVars,
      timingVars>>
BesideViolations ==
    <<framesVars, catalogVars, configVars, installerVars, vlmVars, batchVars, fanoutVars,
      timingVars>>
BesideFanout ==
    <<framesVars, catalogVars, configVars, installerVars, vlmVars, batchVars, violationsVars,
      timingVars>>
BesideTiming ==
    <<framesVars, catalogVars, configVars, installerVars, vlmVars, batchVars, violationsVars,
      fanoutVars>>

\* ... and the step.
FramesStep == Frames!Next /\ UNCHANGED BesideFrames
CatalogStep == Catalog!Next /\ UNCHANGED BesideCatalog
ConfigStep == Config!Next /\ UNCHANGED BesideConfig
InstallerStep == Installer!Next /\ UNCHANGED BesideInstaller
VlmStep == Vlm!Next /\ UNCHANGED BesideVlm
BatchStep == Batch!Next /\ UNCHANGED BesideBatch
ViolationsStep == Violations!Next /\ UNCHANGED BesideViolations
FanoutStep == Fanout!Next /\ UNCHANGED BesideFanout
TimingStep == Timing!Next /\ UNCHANGED BesideTiming

Next ==
    \/ FramesStep \/ CatalogStep \/ ConfigStep \/ InstallerStep \/ VlmStep
    \/ BatchStep \/ ViolationsStep \/ FanoutStep \/ TimingStep

Spec == Init /\ [][Next]_vars

-----------------------------------------------------------------------------
(* What the components promise, as their modules state and explain it,     *)
(* each invariant with the type invariant of its module.                   *)

\* FrameBatcher: every frame is in one place, batches are legal, the counters add up.
FrameInOnePlace == Batch!TypeOK /\ Batch!FrameInOnePlace

\* VlmEnrichment: no camera is silenced for nothing, and a spell raises one alert.
IncidentHonest == Vlm!TypeOK /\ Vlm!IncidentHonest

\* MjpegFanout: the viewers are counted exactly, and what they have is the newest frame.
ViewersCounted == Fanout!TypeOK /\ Fanout!ViewersCounted

\* AlertTiming: the telemetry's pending count is what it will still hear of.
TimingConserved == Timing!TypeOK /\ Timing!TimingConserved

\* ModelCatalog: nobody gets a catalogue older than the last invalidation before its call.
CatalogueFenced == Catalog!TypeOK /\ Catalog!CatalogueFenced

\* ModelInstall: what the status of a model says is so.
InstallTruthful == Installer!TypeOK /\ Installer!InstallTruthful

\* FrameLoop: what is shown and confirmed from is of the connection there is.
ObservationsCurrent == Frames!TypeOK /\ Frames!ObservationsCurrent

\* ConfigStore: a refresh does not undo a save.
SavesStay == Config!TypeOK /\ Config!SavesStay

\* ViolationIncidents: an alert has its confirmations and its first positive.
AlertJustified == [][Violations!Justified]_violationsVars
=============================================================================
