------------------------------- MODULE Setup -------------------------------
(* The first run (httpapi/setup_finish.go), a tuner's channel scan           *)
(* (server.go, hdhr/client.go) and the signal check (signal.go, live), beside *)
(* those that watch, the guide's harvest (scan.go) and the owner's own scans, *)
(* removals and discoveries.                                                 *)
EXTENDS Integers, FiniteSets, FiniteSetsExt

CONSTANTS
    Boxes,          \* tuners, by priority
    Airs, MuxOf,    \* what each receives; the frequency of a channel
    Silent,         \* channels whose tune finds no signal
    MaxOwnerActs, MaxLost, MaxWatches, MaxRuns   \* bounds

VARIABLES
    box,     \* a tuner: who began its scan, what it has in its lineup, whether setup was not heard or answered
    kept,    \* devices: "none", "bare" with no channel present, "full"
    freq,    \* channels.frequency_hz, 0 when not stored
    scans,   \* s.scans
    setup,   \* runSetupFinish: next section, tuner, finishOn, finishRun
    signalOn,
    look,    \* measureSetupSignals and SignalScan: next section, tried, seen, channel
    hub,     \* a viewer, a recording soon, the scan that a watch cancels, the harvest
    read,    \* frequencies the setup's check read, and how often
    spent

setupVars == <<box, kept, freq, scans, setup, signalOn, look, hub, read, spent>>

Checks == {"setup", "check"}
Chans == UNION {Airs[b] : b \in Boxes}
BoxOf(c) == CHOOSE b \in Boxes : c \in Airs[b]
Freqs == {MuxOf[c] : c \in Chans}
Steps == {"scan", "guide", "quick", "signal"}
AtRest == [pc |-> "idle", tried |-> {}, seen |-> {}, chan |-> 0]

SetupInit ==
    /\ box = [b \in Boxes |-> [scan |-> "off", found |-> FALSE, deaf |-> FALSE]]
    /\ kept \in [Boxes -> {"none", "bare"}]
    /\ freq = [c \in Chans |-> 0]
    /\ scans = {} /\ signalOn = "off"
    /\ setup = [pc |-> "idle", tuner |-> 0, on |-> FALSE, running |-> FALSE, ended |-> {}]
    /\ look = [w \in Checks |-> AtRest]
    /\ hub = [viewer |-> FALSE, soon |-> FALSE, scan |-> "none", harvest |-> "off"]
    /\ read = [f \in Freqs |-> 0]
    /\ spent = [acts |-> 0, lost |-> 0, watches |-> 0, runs |-> 0]

-----------------------------------------------------------------------------
(* Requests to a tuner.  A lost one has an error; it may have been heard.     *)

Lost == spent.lost < MaxLost /\ spent' = [spent EXCEPT !.lost = @ + 1]

\* StartScan: a tuner that scans goes on.
Starts(b, who) == [box EXCEPT ![b].scan = IF @ = "off" THEN who ELSE @]
\* AbortScan: the channels found so far may be its lineup.
Stops(b, some) == [box EXCEPT ![b].scan = "off", ![b].found = @ \/ (some /\ box[b].scan # "off")]
\* Sync of one address, or of all that answer: a box not in the list is added.
Synced(B) == [b \in Boxes |-> IF b \notin B THEN kept[b] ELSE IF box[b].found THEN "full" ELSE "bare"]

ScanEnds(b) ==
    /\ box[b].scan # "off"
    /\ box' = [box EXCEPT ![b].scan = "off", ![b].found = TRUE]
    /\ UNCHANGED <<kept, freq, scans, setup, signalOn, look, hub, read, spent>>

-----------------------------------------------------------------------------
(* The first run, one step after the other.                                  *)

\* postSetupFinish: one at a time.
BeginSetup ==
    /\ ~setup.on /\ spent.runs < MaxRuns
    /\ setup' = [pc |-> "scan", tuner |-> 0, on |-> TRUE, running |-> TRUE, ended |-> {}]
    /\ spent' = [spent EXCEPT !.runs = @ + 1]
    /\ UNCHANGED <<box, kept, freq, scans, signalOn, look, hub, read>>

\* setFinish.
Ends(step, next) == [setup EXCEPT !.pc = next, !.ended = @ \cup {step}]
NoTuner == \A b \in Boxes : kept[b] = "none"
FirstTuner == Min({b \in Boxes : kept[b] # "none"})
TunerState == IF NoTuner THEN "none" ELSE kept[FirstTuner]

\* stepScan: a tuner with channels is not scanned.
SkipScan ==
    /\ setup.pc = "scan" /\ TunerState # "bare"
    /\ setup' = Ends("scan", "guide")
    /\ UNCHANGED <<box, kept, freq, scans, signalOn, look, hub, read, spent>>
StartSetupScan ==
    /\ setup.pc = "scan" /\ TunerState = "bare"
    /\ \/ /\ box' = [Starts(FirstTuner, "setup") EXCEPT ![FirstTuner].deaf = FALSE]
          /\ setup' = [setup EXCEPT !.pc = "progress", !.tuner = FirstTuner]
          /\ UNCHANGED spent
       \/ /\ Lost
          /\ box' \in {box, [Starts(FirstTuner, "setup") EXCEPT ![FirstTuner].deaf = TRUE]}
          /\ setup' = Ends("scan", "guide")
    /\ UNCHANGED <<kept, freq, scans, signalOn, look, hub, read>>

\* A progress error leaves `scanning` true, and so does the deadline.
CountsAsEnded == "sync"
AfterError == "abort"
SeeProgress ==
    /\ setup.pc = "progress"
    /\ \/ /\ box[setup.tuner].scan = "off" /\ setup' = [setup EXCEPT !.pc = "sync"]
          /\ UNCHANGED spent
       \/ /\ box[setup.tuner].scan # "off" /\ setup' = [setup EXCEPT !.pc = "abort"]
          /\ UNCHANGED spent
       \/ /\ Lost /\ setup' = [setup EXCEPT !.pc = AfterError]
    /\ UNCHANGED <<box, kept, freq, scans, signalOn, look, hub, read>>
\* stopSetupScan: what an abort that failed says is only logged.
AbortSetupScan ==
    /\ setup.pc = "abort"
    /\ \/ (\E some \in BOOLEAN : box' = Stops(setup.tuner, some)) /\ UNCHANGED spent
       \/ Lost /\ box' = [box EXCEPT ![setup.tuner].deaf = TRUE]
    /\ setup' = [setup EXCEPT !.pc = "sync"]
    /\ UNCHANGED <<kept, freq, scans, signalOn, look, hub, read>>
SyncSetup ==
    /\ setup.pc = "sync"
    /\ \/ kept' = Synced({setup.tuner}) /\ UNCHANGED spent
       \/ Lost /\ UNCHANGED kept
    /\ setup' = Ends("scan", "guide")
    /\ UNCHANGED <<box, freq, scans, signalOn, look, hub, read>>

\* stepGuide, then the folder, the favorites and the encoder, which touch no tuner.
QuickSteps ==
    /\ \/ setup.pc = "guide" /\ setup' = Ends("guide", "quick")
       \/ setup.pc = "quick" /\ setup' = Ends("quick", "signal")
    /\ UNCHANGED <<box, kept, freq, scans, signalOn, look, hub, read, spent>>

\* runSetupFinish: the page is told, then the run is over and the harvest asked again.
TellReady ==
    /\ setup.pc = "ready"
    /\ setup' = [setup EXCEPT !.pc = "over", !.running = FALSE]
    /\ UNCHANGED <<box, kept, freq, scans, signalOn, look, hub, read, spent>>
EndSetup ==
    /\ setup.pc = "over"
    /\ setup' = [setup EXCEPT !.pc = "idle", !.tuner = 0, !.on = FALSE]
    /\ hub' = IF signalOn = "off" /\ hub.harvest = "off" THEN [hub EXCEPT !.harvest = "asked"] ELSE hub
    /\ UNCHANGED <<box, kept, freq, scans, signalOn, look, read, spent>>

-----------------------------------------------------------------------------
(* The signal check.                                                         *)

Idle == ~hub.viewer /\ hub.harvest # "on" /\ \A w \in Checks : look[w].pc # "tuned"
Rows == {c \in Chans : kept[BoxOf(c)] = "full"}

\* preemptScan.
Preempted(g) == [g EXCEPT !.scan = "none", !.harvest = IF @ = "on" THEN "cut" ELSE @]
CheckCut == hub.scan # "check"

\* startSignalScan, finishSignalScan.
Free == signalOn = "off"
Finished(w) == look' = [look EXCEPT ![w] = AtRest] /\ signalOn' = "off"

\* measureSetupSignals, up to IdleWithoutScan.
BeginSetupSignal ==
    /\ setup.pc = "signal"
    /\ \/ /\ NoTuner \/ hub.soon \/ ~Free
          /\ setup' = Ends("signal", "ready") /\ UNCHANGED <<signalOn, look, hub, read>>
       \/ /\ ~NoTuner /\ ~hub.soon /\ Free
          /\ signalOn' = "setup" /\ setup' = [setup EXCEPT !.pc = "measure"]
          /\ look' = [look EXCEPT !["setup"].pc = IF Idle THEN "look" ELSE "wait"]
          /\ hub' = IF Idle THEN hub ELSE Preempted(hub)
          /\ read' = [f \in Freqs |-> 0]
    /\ UNCHANGED <<box, kept, freq, scans, spent>>
SetupWaits ==
    /\ look["setup"].pc = "wait"
    /\ \/ Idle /\ look' = [look EXCEPT !["setup"].pc = "look"] /\ UNCHANGED <<setup, signalOn>>
       \/ ~Idle /\ Finished("setup") /\ setup' = Ends("signal", "ready")
    /\ UNCHANGED <<box, kept, freq, scans, hub, read, spent>>

\* nextSignalChannel.
Skips(c, seen) == freq[c] # 0 /\ freq[c] \in seen
Waiting(w) == {c \in Rows \ look[w].tried : ~Skips(c, look[w].seen)}

\* One turn of the loop up to the tune; 35 s may be up.
SetupLooks ==
    /\ look["setup"].pc = "look"
    /\ \/ /\ Finished("setup") /\ setup' = Ends("signal", "ready")
       \/ /\ Idle /\ ~hub.soon /\ Waiting("setup") # {}
          /\ LET c == Min(Waiting("setup"))
             IN  look' = [look EXCEPT !["setup"].pc = "tune", !["setup"].tried = @ \cup {c}, !["setup"].chan = c]
          /\ UNCHANGED <<setup, signalOn>>
    /\ UNCHANGED <<box, kept, freq, scans, hub, read, spent>>

\* checkSignals.
BeginCheck ==
    /\ Idle /\ ~hub.soon /\ Free /\ spent.acts < MaxOwnerActs
    /\ signalOn' = "check" /\ look' = [look EXCEPT !["check"].pc = "list"]
    /\ spent' = [spent EXCEPT !.acts = @ + 1]
    /\ UNCHANGED <<box, kept, freq, scans, setup, hub, read>>
\* SignalScan: one channel of each frequency stored, and every channel with none;
\* `tried` is what is off the list.  RunScan cancels the scan before it.
ListCheck ==
    /\ look["check"].pc = "list"
    /\ LET again == {c \in Rows : freq[c] # 0 /\ \E d \in Rows : d < c /\ freq[d] = freq[c]}
       IN  look' = [look EXCEPT !["check"].pc = "look", !["check"].tried = again \cup (Chans \ Rows)]
    /\ hub' = [Preempted(hub) EXCEPT !.scan = "check"]
    /\ UNCHANGED <<box, kept, freq, scans, setup, signalOn, read, spent>>
CheckLooks ==
    /\ look["check"].pc = "look"
    /\ LET todo == Chans \ look["check"].tried
       IN  \/ /\ CheckCut \/ ~Idle \/ hub.soon \/ todo = {}
              /\ Finished("check")
              /\ hub' = IF hub.scan = "check" THEN [hub EXCEPT !.scan = "none"] ELSE hub
           \/ /\ ~CheckCut /\ Idle /\ ~hub.soon /\ todo # {}
              /\ look' = [look EXCEPT !["check"].pc = "tune", !["check"].tried = @ \cup {Min(todo)},
                                      !["check"].chan = Min(todo)]
              /\ UNCHANGED <<signalOn, hub>>
    /\ UNCHANGED <<box, kept, freq, scans, setup, read, spent>>

\* Measure: the tune, which a watch cancels for the check only.
Refused(w) == (w = "check" /\ CheckCut) \/ look[w].chan \notin Rows
Tune(w) ==
    /\ look[w].pc = "tune"
    /\ look' = [look EXCEPT ![w].pc = IF Refused(w) \/ look[w].chan \in Silent THEN "look" ELSE "tuned"]
    /\ UNCHANGED <<box, kept, freq, scans, setup, signalOn, hub, read, spent>>
\* The tune stored the frequency of every channel heard on it (learnMux); the reading
\* is saved for them.
Learns(c) == [d \in Chans |-> IF BoxOf(d) = BoxOf(c) /\ MuxOf[d] = MuxOf[c] /\ d \in Rows THEN MuxOf[c] ELSE freq[d]]
Reads(w) ==
    /\ look[w].pc = "tuned"
    /\ LET c == look[w].chan
       IN  IF Refused(w)
           THEN look' = [look EXCEPT ![w].pc = "look"] /\ UNCHANGED <<freq, read>>
           ELSE /\ freq' = Learns(c)
                /\ look' = [look EXCEPT ![w].pc = "look", ![w].seen = IF w = "setup" THEN @ \cup {MuxOf[c]} ELSE @]
                /\ read' = IF w = "setup" THEN [read EXCEPT ![MuxOf[c]] = @ + 1] ELSE read
    /\ UNCHANGED <<box, kept, scans, setup, signalOn, hub, spent>>

-----------------------------------------------------------------------------
(* Those that watch, and the harvest of the guide.                           *)

\* AttachAuto, RecordMeta: the scan is cancelled before a tuner is taken.
Watch ==
    /\ ~hub.viewer /\ spent.watches < MaxWatches
    /\ hub' = [Preempted(hub) EXCEPT !.viewer = TRUE]
    /\ spent' = [spent EXCEPT !.watches = @ + 1]
    /\ UNCHANGED <<box, kept, freq, scans, setup, signalOn, look, read>>
Leave ==
    /\ hub.viewer /\ hub' = [hub EXCEPT !.viewer = FALSE]
    /\ UNCHANGED <<box, kept, freq, scans, setup, signalOn, look, read, spent>>
\* RecordingWithin.
Booked ==
    /\ ~hub.soon /\ spent.watches < MaxWatches
    /\ hub' = [hub EXCEPT !.soon = TRUE] /\ spent' = [spent EXCEPT !.watches = @ + 1]
    /\ UNCHANGED <<box, kept, freq, scans, setup, signalOn, look, read>>

\* BroadcastScan read signalRunning before it was here.
HarvestBegins ==
    /\ hub.harvest = "asked"
    /\ hub' = [Preempted(hub) EXCEPT !.scan = IF Idle /\ ~hub.soon THEN "harvest" ELSE "none",
                                     !.harvest = IF Idle /\ ~hub.soon THEN "on" ELSE "off"]
    /\ UNCHANGED <<box, kept, freq, scans, setup, signalOn, look, read, spent>>
HarvestEnds ==
    /\ hub.harvest \in {"on", "cut"}
    /\ hub' = [hub EXCEPT !.harvest = "off", !.scan = IF @ = "harvest" THEN "none" ELSE @]
    /\ UNCHANGED <<box, kept, freq, scans, setup, signalOn, look, read, spent>>

-----------------------------------------------------------------------------
(* The owner.                                                                *)

OwnerActs == spent.acts < MaxOwnerActs
Acted == [spent EXCEPT !.acts = @ + 1]

\* startScan: s.scans only when the tuner answered.
OwnerScans(b) ==
    /\ OwnerActs /\ kept[b] # "none"
    /\ box' = Starts(b, "owner") /\ scans' = scans \cup {b} /\ spent' = Acted
    /\ UNCHANGED <<kept, freq, setup, signalOn, look, hub, read>>
\* scanStatus: a scan begun here and over now has its lineup read, once.
OwnerLooks(b) ==
    /\ b \in scans /\ kept[b] # "none" /\ box[b].scan = "off"
    /\ scans' = scans \ {b}
    /\ \/ kept' = Synced({b}) /\ UNCHANGED spent
       \/ Lost /\ UNCHANGED kept
    /\ UNCHANGED <<box, freq, setup, signalOn, look, hub, read>>
\* removeDevice: not while something is tuned on it.
OwnerRemoves(b) ==
    /\ OwnerActs /\ kept[b] # "none"
    /\ ~hub.viewer /\ hub.harvest # "on" /\ \A w \in Checks : look[w].pc = "tuned" => BoxOf(look[w].chan) # b
    /\ kept' = [kept EXCEPT ![b] = "none"]
    /\ freq' = [c \in Chans |-> IF c \in Airs[b] THEN 0 ELSE freq[c]]
    /\ read' = [f \in Freqs |-> IF \E c \in Airs[b] : MuxOf[c] = f THEN 0 ELSE read[f]]
    /\ spent' = Acted
    /\ UNCHANGED <<box, scans, setup, signalOn, look, hub>>
\* discover, by broadcast.
OwnerDiscovers ==
    /\ OwnerActs
    /\ \E B \in SUBSET Boxes \ {{}} : kept' = Synced(B)
    /\ spent' = Acted
    /\ UNCHANGED <<box, freq, scans, setup, signalOn, look, hub, read>>

SetupNext ==
    \/ BeginSetup \/ SkipScan \/ StartSetupScan \/ SeeProgress \/ AbortSetupScan \/ SyncSetup
    \/ QuickSteps \/ TellReady \/ EndSetup
    \/ BeginSetupSignal \/ SetupWaits \/ SetupLooks \/ BeginCheck \/ ListCheck \/ CheckLooks
    \/ \E w \in Checks : Tune(w) \/ Reads(w)
    \/ Watch \/ Leave \/ Booked \/ HarvestBegins \/ HarvestEnds
    \/ \E b \in Boxes : ScanEnds(b) \/ OwnerScans(b) \/ OwnerLooks(b) \/ OwnerRemoves(b)
    \/ OwnerDiscovers

-----------------------------------------------------------------------------
\* A scan setup began is over when its step is, unless the tuner did not answer the
\* start or the abort (stepScan: "A progress error or a cancelled wait never counts
\* as finished").
ScanGivenBack ==
    \A b \in Boxes :
        box[b].scan = "setup" /\ ~box[b].deaf => setup.pc \in {"progress", "abort"} /\ setup.tuner = b

\* The setup's check reads a frequency once, though none was stored when it began
\* and each tune tells the channels of one (measureSetupSignals).
OncePerMux == \A f \in Freqs : read[f] <= 1

\* The setup's check and the owner's are never at it together (startSignalScan).
OneChecks ==
    \A w \in Checks : look[w].pc # "idle" => signalOn = w

\* The page is told Ready after every step (runSetupFinish).
ReadyIsLast == setup.on /\ ~setup.running => setup.ended = Steps

SetupHolds == ScanGivenBack /\ OncePerMux /\ OneChecks /\ ReadyIsLast
=============================================================================
