------------------------------ MODULE MCSweep ------------------------------
(***************************************************************************)
(* The sweep and the two controllers beside it for TLC: ScanCycle,         *)
(* ThresholdController and Rx5808Controller.  They share no state, so each *)
(* behaviour is of one of them, which its initial state chooses; the       *)
(* others rest in an initial state of theirs.                              *)
(***************************************************************************)
EXTENDS ScanCycle, TLC

CONSTANTS
  Keys, Lo, Hi, Factory, Commands, MaxCommands, MaxFaults,
  Channels, Tolerance, Carriers, NoChannel

\* Three carriers of which two are equally loud, three single bins, two carriers.
MCSpectra == {<<2, 0, 3, 1>>, <<1, 3, 1, 0>>, <<0, 1, 0, 1>>}

MCFactory == "snr" :> 2 @@ "bw" :> 2
MCCommands == {"snr" :> 0, "snr" :> 2 @@ "bw" :> 5, "bw" :> 1}

\* The first and the last program the same frequency.
MCChannels == <<5865, 5847, 5866>>
MCCarriers == {<<>>, <<5866, 5848, 5847>>, <<5845, 5700>>}

VARIABLES
  part,   \* "sweep", "thresholds", "receiver"
  cfg, defaults, file, topic, main, read, net, todo, told, wanted, unsaved, raced,
  commands, faults,
  mode, manual, targets, idx, rPc, pick, register, rTopic, rCommands, rFaults

T == INSTANCE ThresholdController
R == INSTANCE Rx5808Controller WITH
  pc <- rPc, topic <- rTopic, commands <- rCommands, faults <- rFaults

ASSUME ControllerBounds == T!ThresholdBounds /\ R!RxBounds

\* Over the whole 5.8 GHz band the synthesizer makes of the register a frequency
\* within 1 MHz of the one asked for.
ASSUME RegistersTune ==
  \A mhz \in 5300..6000 : R!Distance(R!TunedTo(R!FreqToRegister(mhz)), mhz) <= 1

thresholds == <<cfg, defaults, file, topic, main, read, net, todo, told, wanted,
                unsaved, raced, commands, faults>>
receiver == <<mode, manual, targets, idx, rPc, pick, register, rTopic, rCommands,
              rFaults>>
all == <<part, vars, thresholds, receiver>>

MCInit ==
  /\ part \in {"sweep", "thresholds", "receiver"}
  /\ Init /\ T!Init /\ R!Init
  /\ part # "sweep" => snr = 1

MCNext ==
  \/ part = "sweep" /\ Next /\ UNCHANGED <<part, thresholds, receiver>>
  \/ part = "thresholds" /\ T!Next /\ UNCHANGED <<part, vars, receiver>>
  \/ part = "receiver" /\ R!Next /\ UNCHANGED <<part, vars, thresholds>>

\* The fairness of the receiver, while it is the one that runs.
MCSpec ==
  MCInit /\ [][MCNext]_all /\ WF_receiver(part = "receiver" /\ R!HopStep)

\* The properties of the components: the settings survive,
SettingsSurvive == T!SettingsSurvive

\* and the receiver comes back to every channel of its list.
TargetsVisited == part = "receiver" => R!TargetsVisited
=============================================================================
