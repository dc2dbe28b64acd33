---------------------------- MODULE Sweep_proofs ----------------------------
(***************************************************************************)
(* The sweep and the controllers beside it, as MCSweep has them.           *)
(*                                                                         *)
(* The sweep, for any spectra, thresholds, budget and allowance: it lets a *)
(* request wait for one capture at most, leaves no band before its         *)
(* carriers were looked at, and reports what it hands to the relay.        *)
(*                                                                         *)
(* The thresholds, T, for any keys, range and commands: the settings that  *)
(* were asked for are in force, on disk and on the topic.                  *)
(*                                                                         *)
(* The receiver, R, for any channels and carriers: what the topic says is  *)
(* what the synthesizer was programmed with, which is off by 1 MHz at most.*)
(***************************************************************************)
EXTENDS MCSweep, TLAPS, FiniteSetTheorems, SequenceTheorems

-----------------------------------------------------------------------------
(* The sweep. *)

AllRuns == UNION {(DOMAIN spec) \X (DOMAIN spec) : spec \in Spectra}

SweepTypes ==
  /\ pc \in {"rest", "band", "sweep", "strict", "dwell", "loose", "look", "write"}
  /\ i \in Nat \ {0} /\ extra \in 0..MaxExtra
  /\ cands \in Seq(AllRuns) /\ loose \in Seq(AllRuns)
  /\ waiting \in BOOLEAN /\ overdue \in Nat

\* A capture is decided on while nobody waits, so one that waits before it has
\* not waited for another.
PromptInv ==
  /\ overdue <= 1
  /\ pc \in {"sweep", "dwell", "look"} /\ waiting => overdue = 0

\* The pass over the candidates has captured those behind it ...
StrictInv ==
  /\ pc = "dwell" => i \in DOMAIN cands
  /\ pc \in {"strict", "dwell"} =>
       \A j \in DOMAIN cands : j < i => Centre(cands[j]) \in tried

\* ... and the looser one has done with those behind it, of which all but the
\* one in hand were captured.
LooseInv ==
  /\ pc \in {"loose", "look"} => \A j \in DOMAIN loose : j < i => Centre(loose[j]) \in done
  /\ pc = "loose" => done \subseteq tried
  /\ pc = "look" => /\ i \in DOMAIN loose /\ Centre(loose[i]) \in done
                    /\ done \subseteq tried \union {Centre(loose[i])}

SweepInv == SweepTypes /\ PromptInv /\ StrictInv /\ LooseInv /\ hits \subseteq dets

-----------------------------------------------------------------------------
\* find_candidates finds finitely many runs.
LEMMA RunsAreFinite ==
  ASSUME NEW spec \in Spectra, NEW threshold, NEW minBw
  PROVE  IsFiniteSet(Runs(spec, threshold, minBw))
<1>1. IsFiniteSet((DOMAIN spec) \X (DOMAIN spec))
  BY CycleBounds, FS_Product
<1>2. Runs(spec, threshold, minBw) \subseteq (DOMAIN spec) \X (DOMAIN spec)
  BY DEF Runs
<1> QED BY <1>1, <1>2, FS_Subset

\* Its list is a sequence of runs, in either order.
LEMMA ListsAreSequences ==
  ASSUME NEW spec \in Spectra, NEW threshold, NEW minBw
  PROVE  /\ ByPower(spec, Runs(spec, threshold, minBw)) \subseteq Seq(AllRuns)
         /\ ByFrequency(Runs(spec, threshold, minBw)) \subseteq Seq(AllRuns)
<1> DEFINE seen == Runs(spec, threshold, minBw)
<1>1. Cardinality(seen) \in Nat
  BY RunsAreFinite, FS_CardinalityType
<1>2. seen \subseteq AllRuns
  BY DEF Runs, AllRuns
<1> HIDE DEF seen
<1>3. [1..Cardinality(seen) -> seen] \subseteq Seq(AllRuns)
  BY <1>1, <1>2
<1>4. SetToSeqs(seen) \subseteq Seq(AllRuns)
  BY <1>3 DEF SetToSeqs
<1>5. ByPower(spec, seen) \subseteq Seq(AllRuns) /\ ByFrequency(seen) \subseteq Seq(AllRuns)
  BY <1>4 DEF ByPower, ByFrequency
<1> QED BY <1>5 DEF seen

\* The centres of the n loudest candidates are those of the first n.
LEMMA LoudestAreFirst ==
  ASSUME NEW runs \in Seq(AllRuns), NEW n \in Nat, NEW c \in Centres(Loudest(runs, n))
  PROVE  \E j \in DOMAIN runs : j <= n /\ c = Centre(runs[j])
<1> DEFINE k == IF Len(runs) < n THEN Len(runs) ELSE n
<1>1. k \in 0..Len(runs) /\ k <= n
  BY LenProperties
<1>2. Loudest(runs, n) = SubSeq(runs, 1, k)
  BY DEF Loudest
<1> HIDE DEF k
<1>3. /\ Len(SubSeq(runs, 1, k)) = k /\ SubSeq(runs, 1, k) \in Seq(AllRuns)
      /\ \A j \in 1..k : SubSeq(runs, 1, k)[j] = runs[j]
  BY <1>1, SubSeqProperties
<1>4. DOMAIN SubSeq(runs, 1, k) = 1..k /\ 1..k \subseteq DOMAIN runs
  BY <1>1, <1>3, LenProperties
<1> QED BY <1>1, <1>2, <1>3, <1>4 DEF Centres

-----------------------------------------------------------------------------
\* The initial states satisfy the invariant.
LEMMA SweepInit == Init => SweepInv
<1> SUFFICES ASSUME Init PROVE SweepInv
  OBVIOUS
<1>1. cands \in Seq(AllRuns) /\ loose \in Seq(AllRuns) /\ extra \in 0..MaxExtra
  BY CycleBounds DEF Init
<1>2. waiting \in BOOLEAN /\ pc = "rest" /\ i = 1 /\ overdue = 0
  BY DEF Init
<1>3. SweepTypes BY ONLY <1>1, <1>2 DEF SweepTypes
<1> QED BY <1>3 DEF Init, SweepInv, PromptInv, StrictInv, LooseInv

\* Steps outside a band.
LEMMA CycleKeeps ==
  ASSUME SweepInv,
         \/ Request \/ SetThreshold \/ Serve \/ BeginCycle
         \/ Abort \/ CheckBand \/ HandOver \/ Report
  PROVE  SweepInv'
<1> USE DEF SweepInv, SweepTypes, PromptInv, StrictInv, LooseInv, position, found, results, request
<1>1. CASE Request BY <1>1 DEF Request
<1>2. CASE SetThreshold BY <1>2 DEF SetThreshold
<1>3. CASE Serve BY <1>3 DEF Serve
<1>4. CASE BeginCycle BY <1>4 DEF BeginCycle
<1>5. CASE Abort BY <1>5 DEF Abort
<1>6. CASE CheckBand BY <1>6 DEF CheckBand
<1>7. CASE HandOver BY <1>7 DEF HandOver
<1>8. CASE Report BY <1>8 DEF Report
<1> QED BY <1>1, <1>2, <1>3, <1>4, <1>5, <1>6, <1>7, <1>8

\* Captures: the one that waited has waited once more.
LEMMA CaptureKeeps ==
  ASSUME SweepInv, CaptureFails \/ SweepBand \/ Dwell \/ Look
  PROVE  SweepInv'
<1> USE DEF SweepInv, SweepTypes, position, found, results, request
<1>1. CASE CaptureFails
  BY <1>1 DEF CaptureFails, Capture, PromptInv, StrictInv, LooseInv
<1>2. CASE SweepBand
  <2>1. cands' \in Seq(AllRuns) /\ loose' \in Seq(AllRuns)
    BY <1>2, ListsAreSequences DEF SweepBand
  <2>2. SweepTypes'
    BY <1>2, <2>1 DEF SweepBand, Capture
  <2>3. PromptInv' /\ StrictInv' /\ LooseInv'
    BY <1>2, <2>1, LenProperties DEF SweepBand, Capture, PromptInv, StrictInv, LooseInv
  <2> QED BY <1>2, <2>2, <2>3 DEF SweepBand
<1>3. CASE Dwell
  <2>1. SweepTypes' BY <1>3 DEF Dwell, Capture
  <2>2. PromptInv' BY <1>3 DEF Dwell, Capture, PromptInv
  <2>3. StrictInv' BY <1>3, LenProperties DEF Dwell, StrictInv
  <2>4. LooseInv' BY <1>3 DEF Dwell, LooseInv
  <2>5. (hits \subseteq dets)' BY <1>3 DEF Dwell, Emit
  <2> QED BY <2>1, <2>2, <2>3, <2>4, <2>5
<1>4. CASE Look
  <2> USE <1>4 DEF Look, Looked
  <2>1. SweepTypes' BY DEF Capture
  <2>2. PromptInv' BY DEF Capture, PromptInv
  <2>3. StrictInv' BY DEF StrictInv
  <2>4. LooseInv' BY LenProperties DEF LooseInv
  <2>5. (hits \subseteq dets)' BY DEF Emit
  <2> QED BY <2>1, <2>2, <2>3, <2>4, <2>5
<1> QED BY <1>1, <1>2, <1>3, <1>4

\* Steps from capture to capture within a band.
LEMMA PassKeeps ==
  ASSUME SweepInv, CheckCandidate \/ StartLoose \/ SkipCarrier \/ CheckCarrier \/ NextBand
  PROVE  SweepInv'
<1> USE DEF SweepInv, SweepTypes, position, found, results, request
<1>1. CASE CheckCandidate
  BY <1>1, LenProperties DEF CheckCandidate, PromptInv, StrictInv, LooseInv
<1>2. CASE StartLoose
  <2>1. done' \subseteq tried
    BY <1>2, LoudestAreFirst, LenProperties, CycleBounds DEF StartLoose, StrictInv
  <2>2. SweepTypes' BY <1>2, CycleBounds DEF StartLoose
  <2>3. PromptInv' /\ StrictInv' BY <1>2 DEF StartLoose, PromptInv, StrictInv
  <2>4. LooseInv' BY <1>2, <2>1, LenProperties DEF StartLoose, LooseInv
  <2> QED BY <1>2, <2>2, <2>3, <2>4 DEF StartLoose
<1>3. CASE SkipCarrier
  BY <1>3, LenProperties DEF SkipCarrier, PromptInv, StrictInv, LooseInv
<1>4. CASE CheckCarrier
  <2>1. SweepTypes' BY <1>4, CycleBounds DEF CheckCarrier
  <2>2. PromptInv' /\ StrictInv' BY <1>4 DEF CheckCarrier, PromptInv, StrictInv
  <2>3. LooseInv' BY <1>4, LenProperties DEF CheckCarrier, LooseInv
  <2> QED BY <1>4, <2>1, <2>2, <2>3 DEF CheckCarrier
<1>5. CASE NextBand
  BY <1>5 DEF NextBand, PromptInv, StrictInv, LooseInv
<1> QED BY <1>1, <1>2, <1>3, <1>4, <1>5

\* Every step satisfies the invariant.
LEMMA SweepStep == SweepInv /\ [Next]_vars => SweepInv'
<1> SUFFICES ASSUME SweepInv, [Next]_vars PROVE SweepInv'
  OBVIOUS
<1>1. CASE UNCHANGED vars
  BY <1>1 DEF vars, position, found, results, request, SweepInv, SweepTypes, PromptInv,
              StrictInv, LooseInv
<1>2. CASE Next
  BY <1>2, CycleKeeps, CaptureKeeps, PassKeeps DEF Next, CycleStep
<1> QED BY <1>1, <1>2

-----------------------------------------------------------------------------
\* abort() is asked before each band, candidate and carrier (main.py run_cycle),
\* so a view or TX request waits for one more capture at most, however many
\* candidates there are.
THEOREM SweepYields == Spec => []AbortPrompt
<1>1. SweepInv => AbortPrompt
  BY DEF SweepInv, PromptInv, AbortPrompt
<1> QED BY <1>1, SweepInit, SweepStep, PTL DEF Spec

\* Whatever the relay is given by the cycle is in its detections (main.py run_cycle).
THEOREM HitsAreDetections == Spec => []HitsAreReported
<1>1. SweepInv => HitsAreReported
  BY DEF SweepInv, HitsAreReported
<1> QED BY <1>1, SweepInit, SweepStep, PTL DEF Spec

\* The looser pass takes up what the budget has deferred (main.py run_cycle): no
\* carrier is passed over while there is allowance left.
THEOREM NoCarrierMissed == Spec => CarriersCovered
<1> DEFINE Covered == pc = "loose" /\ pc' = "band" =>
                        Centres(loose) \subseteq tried \/ extra = MaxExtra
<1>1. ASSUME SweepInv, [Next]_vars PROVE [Covered]_vars
  <2>1. CASE NextBand
    BY <1>1, <2>1, LenProperties, CycleBounds
    DEF SweepInv, SweepTypes, LooseInv, NextBand, Centres
  <2>2. CASE Next /\ ~NextBand
    BY <2>2 DEF Next, CycleStep, Request, SetThreshold, Serve, BeginCycle, Abort,
       CheckBand, CaptureFails, SweepBand, CheckCandidate, Dwell, StartLoose, SkipCarrier,
       CheckCarrier, Look, Looked, HandOver, Report
  <2> QED BY <1>1, <2>1, <2>2
<1> QED BY <1>1, SweepInit, SweepStep, PTL DEF Spec, CarriersCovered

-----------------------------------------------------------------------------
(* The thresholds. *)

SettingsTypes ==
  /\ {cfg, defaults, wanted} \subseteq T!Settings
  /\ file \in T!Settings \union {T!NoFile}
  /\ main \in {"start", "load", "connect", "announce", "runs"}
  /\ net \in {"idle", "set", "save", "announce", "send"}
  /\ DOMAIN todo \subseteq Keys /\ \A k \in DOMAIN todo : todo[k] \in Int
  /\ {unsaved, raced} \subseteq BOOLEAN

\* A process starts with the factory's settings, keeps them as the defaults, and
\* what was asked for is what the file makes of them.
StartInv ==
  /\ main = "start" => cfg = Factory
  /\ main # "start" => defaults = Factory
  /\ main = "load" => cfg = Factory
  /\ ~T!Running => net = "idle" /\ ~unsaved /\ wanted = T!Overlay(Factory, file)

\* The settings in force are those asked for, once what is left of the command in
\* hand is laid over them; they are on disk unless their save is to come or failed.
ForceInv ==
  T!Running =>
    /\ net = "set" => wanted = T!Overlay(cfg, todo)
    /\ net # "set" => cfg = wanted
    /\ net # "set" /\ ~unsaved => T!Overlay(Factory, file) = cfg

\* The network thread sends what is in force; nobody has sent anything since.
ShownInv ==
  /\ net = "send" => told = cfg
  /\ net = "idle" /\ main = "runs" /\ ~raced => topic = cfg

SettingsInv == SettingsTypes /\ StartInv /\ ForceInv /\ ShownInv

-----------------------------------------------------------------------------
\* Numbers are brought into the range, and left alone in it.
LEMMA ClampInRange ==
  ASSUME T!ThresholdBounds
  PROVE  /\ \A n \in Lo..Hi : T!Clamp(n) = n
         /\ \A n \in Int : T!Clamp(n) \in Lo..Hi
  BY DEF T!ThresholdBounds, T!Clamp

\* Settings laid over settings are settings, and all settings replace all.
LEMMA OverlayLaws ==
  ASSUME T!ThresholdBounds, NEW s \in T!Settings, NEW f \in T!Settings
  PROVE  /\ T!Overlay(s, f) = f
         /\ T!Overlay(s, T!NoFile) = s
<1>1. \A k \in Keys : T!Overlay(s, f)[k] = f[k]
  BY ClampInRange DEF T!Overlay, T!Settings
<1>2. \A k \in Keys : T!Overlay(s, T!NoFile)[k] = s[k]
  BY DEF T!Overlay, T!NoFile
<1> QED
  BY <1>1, <1>2 DEF T!Overlay, T!Settings

\* So is what a command makes of them.
LEMMA OverlayType ==
  ASSUME T!ThresholdBounds, NEW s \in T!Settings, NEW c,
         DOMAIN c \subseteq Keys, \A k \in DOMAIN c : c[k] \in Int
  PROVE  T!Overlay(s, c) \in T!Settings
  BY ClampInRange DEF T!Overlay, T!Settings

\* What a file makes of the factory's settings.
LEMMA FileType ==
  ASSUME T!ThresholdBounds, file \in T!Settings \union {T!NoFile}
  PROVE  T!Overlay(Factory, file) \in T!Settings
  BY OverlayLaws DEF T!ThresholdBounds

\* One key at a time comes to the same as all at once.
LEMMA SetKeyIsOverlay ==
  ASSUME T!ThresholdBounds, NEW s \in T!Settings, NEW c, NEW k \in DOMAIN c,
         DOMAIN c \subseteq Keys, \A j \in DOMAIN c : c[j] \in Int
  PROVE  LET s2 == [s EXCEPT ![k] = T!Clamp(c[k])]
             c2 == [j \in DOMAIN c \ {k} |-> c[j]] IN
         s2 \in T!Settings /\ T!Overlay(s2, c2) = T!Overlay(s, c)
<1> DEFINE s2 == [s EXCEPT ![k] = T!Clamp(c[k])]
           c2 == [j \in DOMAIN c \ {k} |-> c[j]]
<1>1. s2 \in T!Settings
  BY ClampInRange DEF T!Settings
<1>2. \A j \in Keys : T!Overlay(s2, c2)[j] = T!Overlay(s, c)[j]
  BY DEF T!Overlay, T!Settings
<1> QED
  BY <1>1, <1>2 DEF T!Overlay

-----------------------------------------------------------------------------
\* The initial states satisfy the invariant.
LEMMA SettingsInit == T!Init => SettingsInv
<1> USE ControllerBounds
<1> SUFFICES ASSUME T!Init PROVE SettingsInv
  OBVIOUS
<1> USE DEF T!Init
<1>1. Factory \in T!Settings
  BY DEF T!ThresholdBounds
<1>2. SettingsTypes
  BY <1>1 DEF SettingsTypes, T!NoFile
<1>3. StartInv
  BY <1>1, OverlayLaws DEF StartInv, T!Running
<1>4. ForceInv /\ ShownInv
  BY DEF ForceInv, ShownInv, T!Running
<1> QED
  BY <1>2, <1>3, <1>4 DEF SettingsInv

\* The main thread: the defaults, the file, the announcement.
LEMMA MainKeeps ==
  ASSUME T!ThresholdBounds, SettingsInv, T!MainStep
  PROVE  SettingsInv'
<1> USE DEF SettingsInv, T!file_, T!mainThread, T!netThread, T!Running
<1>1. CASE T!Construct
  BY <1>1 DEF T!Construct, SettingsTypes, StartInv, ForceInv, ShownInv, T!Overlay
<1>2. CASE T!Load
  <2> USE <1>2 DEF T!Load
  <2>1. cfg' = wanted /\ wanted \in T!Settings
    BY DEF StartInv, SettingsTypes
  <2>2. SettingsTypes' BY <2>1 DEF SettingsTypes
  <2>3. StartInv' BY DEF StartInv
  <2>4. ForceInv' BY <2>1 DEF ForceInv, StartInv, T!Overlay
  <2>5. ShownInv' BY DEF ShownInv, StartInv
  <2> QED BY <2>2, <2>3, <2>4, <2>5
<1>3. CASE T!Connected
  BY <1>3 DEF T!Connected, SettingsTypes, StartInv, ForceInv, ShownInv, T!Overlay
<1>4. CASE T!MainSends
  BY <1>4 DEF T!MainSends, SettingsTypes, StartInv, ForceInv, ShownInv, T!Overlay
<1> QED
  BY <1>1, <1>2, <1>3, <1>4 DEF T!MainStep

\* A command or a reset is taken up.
LEMMA CommandKeeps ==
  ASSUME T!ThresholdBounds, SettingsInv,
         NEW c, DOMAIN c \subseteq Keys, \A k \in DOMAIN c : c[k] \in Int,
         T!TakeUp(c), wanted' = T!Overlay(wanted, c)
  PROVE  SettingsInv'
<1> USE DEF SettingsInv, T!TakeUp, T!file_, T!mainThread, T!netThread, T!Running
<1>1. SettingsTypes' BY OverlayType DEF SettingsTypes
<1>2. StartInv' BY DEF StartInv
<1>3. ForceInv' BY DEF ForceInv, T!Overlay
<1>4. ShownInv' BY DEF ShownInv
<1> QED BY <1>1, <1>2, <1>3, <1>4

\* The network thread works a command off, saves and announces.
LEMMA NetKeeps ==
  ASSUME T!ThresholdBounds, SettingsInv, T!Reconnect \/ T!NetStep
  PROVE  SettingsInv'
<1> USE DEF SettingsInv, T!file_, T!mainThread, T!netThread, T!Running
<1>1. CASE T!Reconnect
  BY <1>1 DEF T!Reconnect, SettingsTypes, StartInv, ForceInv, ShownInv, T!Overlay
<1>2. ASSUME NEW k \in Keys, T!SetKey(k) PROVE SettingsInv'
  <2> USE <1>2 DEF T!SetKey
  <2>1. /\ cfg' \in T!Settings
        /\ T!Overlay(cfg', todo') = T!Overlay(cfg, todo)
    BY SetKeyIsOverlay DEF SettingsTypes
  <2>2. SettingsTypes' BY <2>1 DEF SettingsTypes
  <2>3. StartInv' BY DEF StartInv
  <2>4. ForceInv' BY <2>1 DEF ForceInv, T!Overlay
  <2>5. ShownInv' BY DEF ShownInv
  <2> QED BY <2>2, <2>3, <2>4, <2>5
<1>3. ASSUME net = "set", DOMAIN todo = {}, T!Running PROVE cfg = wanted
  <2>1. cfg = T!Overlay(cfg, todo)
    BY <1>3 DEF T!Overlay, SettingsTypes, T!Settings
  <2> QED BY <1>3, <2>1 DEF ForceInv
<1>4. CASE T!Save
  <2> USE <1>4 DEF T!Save
  <2>1. T!Running BY DEF StartInv
  <2>2. T!Overlay(Factory, cfg) = cfg
    BY OverlayLaws DEF T!ThresholdBounds, SettingsTypes
  <2>3. SettingsTypes' BY DEF SettingsTypes
  <2>4. StartInv' BY <2>1 DEF StartInv
  <2>5. ForceInv' BY <1>3, <2>1, <2>2 DEF ForceInv, T!Overlay
  <2>6. ShownInv' BY DEF ShownInv
  <2> QED BY <2>3, <2>4, <2>5, <2>6
<1>5. CASE T!SaveFails
  <2> USE <1>5 DEF T!SaveFails
  <2>1. T!Running BY DEF StartInv
  <2>2. SettingsTypes' BY DEF SettingsTypes
  <2>3. StartInv' BY <2>1 DEF StartInv
  <2>4. ForceInv' BY <1>3, <2>1 DEF ForceInv
  <2>5. ShownInv' BY DEF ShownInv
  <2> QED BY <2>2, <2>3, <2>4, <2>5
<1>6. CASE T!NetReads
  BY <1>6 DEF T!NetReads, SettingsTypes, StartInv, ForceInv, ShownInv, T!Overlay
<1>7. CASE T!NetSends
  BY <1>7 DEF T!NetSends, SettingsTypes, StartInv, ForceInv, ShownInv, T!Overlay
<1> QED
  BY <1>1, <1>2, <1>4, <1>5, <1>6, <1>7 DEF T!NetStep

\* A crash: what was asked for is what is on disk, or is forgotten.
LEMMA CrashKeeps ==
  ASSUME T!ThresholdBounds, SettingsInv, T!Crash
  PROVE  SettingsInv'
<1> USE DEF SettingsInv, T!Crash, T!Running
<1>1. Factory \in T!Settings /\ T!Overlay(Factory, file) \in T!Settings
  BY FileType DEF T!ThresholdBounds, SettingsTypes
<1>2. wanted' = T!Overlay(Factory, file)
  BY DEF StartInv, ForceInv
<1>3. SettingsTypes' BY <1>1, <1>2 DEF SettingsTypes, T!NoFile
<1>4. StartInv' BY <1>2 DEF StartInv, T!Overlay
<1>5. ForceInv' /\ ShownInv' BY DEF ForceInv, ShownInv
<1> QED BY <1>3, <1>4, <1>5

\* Every step satisfies the invariant.
LEMMA SettingsStep == SettingsInv /\ [T!Next]_(T!vars) => SettingsInv'
<1> USE ControllerBounds
<1> SUFFICES ASSUME SettingsInv, [T!Next]_(T!vars) PROVE SettingsInv'
  OBVIOUS
<1>1. CASE UNCHANGED T!vars
  BY <1>1 DEF T!vars, T!file_, T!mainThread, T!netThread, T!Running, SettingsInv, SettingsTypes, StartInv,
              ForceInv, ShownInv, T!Overlay
<1>2. ASSUME NEW c \in Commands, T!Command(c) PROVE SettingsInv'
  BY <1>2, CommandKeeps DEF T!Command, T!ThresholdBounds
<1>3. CASE T!Reset
  <2>1. defaults = Factory /\ defaults \in T!Settings
    BY <1>3 DEF T!Reset, T!TakeUp, T!Running, SettingsInv, StartInv, SettingsTypes
  <2>2. wanted' = T!Overlay(wanted, defaults)
    BY <1>3, <2>1, OverlayLaws DEF T!Reset, SettingsInv, SettingsTypes
  <2>3. DOMAIN defaults = Keys /\ \A k \in Keys : defaults[k] \in Int
    BY <2>1 DEF T!Settings, T!ThresholdBounds
  <2> QED
    BY <1>3, <2>2, <2>3, CommandKeeps DEF T!Reset
<1> QED
  BY <1>1, <1>2, <1>3, MainKeeps, NetKeeps, CrashKeeps DEF T!Next

\* Live and saved settings keep to the range of their keys, whatever numbers the
\* dashboard sends (threshold_controller.py _set, load).
THEOREM SettingsTypeCorrect == T!Spec => []SettingsTypes
<1>1. SettingsInv => SettingsTypes
  BY DEF SettingsInv
<1> QED BY <1>1, SettingsInit, SettingsStep, PTL DEF T!Spec

\* However commands, resets, reconnections, failed writes and crashes follow each
\* other, the settings in force, on disk and on the retained topic are the ones
\* asked for (threshold_controller.py apply, load, announce).
THEOREM SettingsAreKept == T!Spec => []SettingsSurvive
<1>1. SettingsInv => SettingsSurvive
  BY DEF SettingsSurvive, SettingsInv, ForceInv, ShownInv, T!SettingsSurvive
<1> QED BY <1>1, SettingsInit, SettingsStep, PTL DEF T!Spec

-----------------------------------------------------------------------------
(* The receiver. *)

\* The two counters of the register make the offset again, less its last bit: the
\* synthesizer is off by 1 MHz at most, for every frequency above the IF
\* (rx5808.py freq_to_register).
THEOREM TuningIsClose ==
  ASSUME NEW mhz \in Nat, mhz >= 479
  PROVE  R!TunedTo(R!FreqToRegister(mhz)) \in {mhz - 1, mhz}
<1> DEFINE tf == (mhz - 479) \div 2
           n == tf \div 32
           a == tf % 32
<1>1. tf \in Nat /\ 2 * tf + 479 \in {mhz - 1, mhz}
  OBVIOUS
<1> HIDE DEF tf
<1>2. n \in Nat /\ a \in 0..31 /\ tf = n * 32 + a
  BY <1>1
<1> HIDE DEF n, a
<1>3. (n * 128 + a) \div 128 = n /\ (n * 128 + a) % 128 = a
  BY <1>2
<1>4. R!FreqToRegister(mhz) = n * 128 + a
  BY DEF R!FreqToRegister, tf, n, a
<1>5. R!TunedTo(n * 128 + a) = 2 * (n * 32 + a) + 479
  BY <1>3 DEF R!TunedTo
<1> QED BY <1>1, <1>2, <1>4, <1>5

\* Unless the hopping thread has tuned and not yet published, the topic names what
\* the register holds: not what was chosen and could not be tuned, nor what a
\* command or the sweep has asked for since.
TopicIsTuned ==
  rPc # "publish" /\ rTopic # NoChannel => register = R!FreqToRegister(rTopic)

\* And what it is about to publish is what it has tuned.
RegisterInv == TopicIsTuned /\ (rPc = "publish" => register = R!FreqToRegister(pick))

\* A tune that fails publishes nothing, and what is chosen next is not on the topic
\* before it is tuned, however the network and the scan thread command in between
\* (rx5808_controller.py run_once, tune).
THEOREM TopicIsTrue == R!Spec => []TopicIsTuned
<1>1. R!Init => RegisterInv
  BY DEF R!Init, RegisterInv, TopicIsTuned
<1>2. RegisterInv /\ [R!Next]_(R!vars) => RegisterInv'
  <2> SUFFICES ASSUME RegisterInv, [R!Next]_(R!vars) PROVE RegisterInv'
    OBVIOUS
  <2> USE DEF RegisterInv, TopicIsTuned
  <2>1. CASE UNCHANGED R!vars
    BY <2>1 DEF R!vars, R!choice
  <2>2. CASE R!HopStep
    BY <2>2 DEF R!HopStep, R!NextChannel, R!Tune, R!TuneFails, R!Publish, R!Wake, R!choice
  <2>3. CASE \/ \E centres \in Carriers : R!UpdateTargets(centres)
             \/ \E m \in {"auto", "scan", "random"} : R!SetCommand(m, NoChannel)
             \/ \E channel \in R!ToSet(Channels) \union {NoChannel} :
                  R!SetCommand("manual", channel)
    BY <2>3 DEF R!UpdateTargets, R!SetCommand
  <2> QED BY <2>1, <2>2, <2>3 DEF R!Next
<1>3. RegisterInv => TopicIsTuned
  BY DEF RegisterInv
<1> QED BY <1>1, <1>2, <1>3, PTL DEF R!Spec

-----------------------------------------------------------------------------
(* The three together. *)

\* A behaviour of the run is one of each component, two of which rest.
LEMMA EachRuns == MCSpec => Spec /\ T!Spec /\ R!Spec
<1>1. MCInit => Init /\ T!Init /\ R!Init
  BY DEF MCInit
<1>2. [MCNext]_all => [Next]_vars
  BY DEF MCNext, all
<1>3. [MCNext]_all => [T!Next]_(T!vars)
  BY DEF MCNext, all, thresholds, T!vars, T!file_, T!mainThread, T!netThread
<1>4. [MCNext]_all => [R!Next]_(R!vars)
  BY DEF MCNext, all, receiver, R!vars, R!choice
<1> QED BY <1>1, <1>2, <1>3, <1>4, PTL DEF MCSpec, Spec, T!Spec, R!Spec

\* So what is proved of a component holds where the three run side by side, as in
\* the run (main.py run_cycle; threshold_controller.py; rx5808_controller.py).
THEOREM SweepIsSafe ==
  MCSpec => [](AbortPrompt /\ HitsAreReported /\ SettingsSurvive /\ TopicIsTuned)
  BY EachRuns, SweepYields, HitsAreDetections, SettingsAreKept, TopicIsTrue, PTL
=============================================================================
