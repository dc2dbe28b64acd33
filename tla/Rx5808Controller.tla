-------------------------- MODULE Rx5808Controller --------------------------
(***************************************************************************)
(* agent/scan/rx5808_controller.py and rx5808.py: the hardware receiver    *)
(* that hops over the channels, or over those the sweep has found carriers *)
(* on, on a thread of its own.                                             *)
(*                                                                         *)
(* The scan thread gives it new carriers after every cycle, the network    *)
(* thread commands; both take its lock.  _next() chooses under the lock,   *)
(* and the choice is tuned and published after it.                         *)
(***************************************************************************)
EXTENDS Integers, Sequences, SequencesExt

CONSTANTS
  Channels,    \* _channels: a sequence of frequencies, in MHz
  Tolerance,   \* of nearest_rx_channel
  Carriers,    \* sequences of carrier centres a cycle may end with
  NoChannel,
  MaxCommands, \* bound on the commands
  MaxFaults    \* bound on the tunes that fail

RxBounds ==
  /\ Channels \in Seq(Nat) \ {<<>>} /\ Tolerance \in Nat
  /\ MaxCommands \in Nat /\ MaxFaults \in Nat

VARIABLES
  mode,      \* "auto", "scan", "random", "manual"
  manual,    \* the channel last set by a command, or NoChannel
  targets,   \* the channels of the carriers
  idx,       \* _idx
  pc,        \* the hopping thread: "next", "tune", "publish", "sleep"
  pick,      \* what it has chosen
  register,  \* what the synthesizer was programmed with, 0: nothing yet
  topic,     \* the retained rxtune: its frequency, or NoChannel
  commands, faults

choice == <<mode, manual, targets>>
vars == <<choice, idx, pc, pick, register, topic, commands, faults>>

Init ==
  /\ mode = "auto" /\ manual = NoChannel /\ targets = <<>> /\ idx = -1
  /\ pc = "next" /\ pick = NoChannel /\ register = 0 /\ topic = NoChannel
  /\ commands = 0 /\ faults = 0

-----------------------------------------------------------------------------
\* freq_to_register: the division drops the last bit of the offset, and the
\* counters N and A go side by side.
FreqToRegister(mhz) ==
  LET tf == (mhz - 479) \div 2 IN (tf \div 32) * 128 + (tf % 32)

\* What the synthesizer makes of it.
TunedTo(reg) == 2 * ((reg \div 128) * 32 + (reg % 128)) + 479

Distance(a, b) == IF a > b THEN a - b ELSE b - a

\* nearest_rx_channel: the first of the nearest ones within the tolerance.
Near(c) == {n \in DOMAIN Channels :
  /\ Distance(Channels[n], c) <= Tolerance
  /\ \A m \in DOMAIN Channels : Distance(Channels[n], c) <= Distance(Channels[m], c)}
First(ns) == CHOOSE n \in ns : \A m \in ns : n <= m

\* Carriers near no channel are left out, and those that share one.
AddTarget(list, c) ==
  IF Near(c) = {} \/ Contains(list, Channels[First(Near(c))]) THEN list
  ELSE Append(list, Channels[First(Near(c))])

TargetsOf(centres) == FoldLeft(AddTarget, <<>>, centres)

-----------------------------------------------------------------------------
Bug_StartsOver(centres) ==
  /\ targets' = TargetsOf(centres) /\ idx' = -1
  /\ UNCHANGED <<mode, manual, pc, pick, register, topic, commands, faults>>

\* The scan thread.
UpdateTargets(centres) ==
  /\ targets' = TargetsOf(centres)
  /\ UNCHANGED <<mode, manual, idx, pc, pick, register, topic, commands, faults>>

\* The network thread.  A manual command for an unknown channel switches the
\* mode and keeps the channel before.
SetCommand(m, channel) ==
  /\ commands < MaxCommands /\ commands' = commands + 1
  /\ mode' = m
  /\ manual' = IF m = "manual" /\ Contains(Channels, channel) THEN channel ELSE manual
  /\ UNCHANGED <<targets, idx, pc, pick, register, topic, faults>>

-----------------------------------------------------------------------------
(* The hopping thread. *)

\* In turn through the carriers' channels if there are any, or through all.
Hop(list) ==
  /\ idx' = (idx + 1) % Len(list)
  /\ pick' = list[idx' + 1]

NextChannel ==
  /\ pc = "next" /\ pc' = "tune"
  /\ \/ mode = "auto" /\ Hop(IF targets = <<>> THEN Channels ELSE targets)
     \/ mode = "scan" /\ Hop(Channels)
     \/ mode = "random" /\ pick' \in ToSet(Channels) /\ UNCHANGED idx
     \/ /\ mode = "manual" /\ UNCHANGED idx
        /\ pick' = IF manual = NoChannel THEN Channels[1] ELSE manual
  /\ UNCHANGED <<choice, register, topic, commands, faults>>

Tune ==
  /\ pc = "tune" /\ pc' = "publish"
  /\ register' = FreqToRegister(pick)
  /\ UNCHANGED <<choice, idx, pick, topic, commands, faults>>

\* The pins cannot be written: nothing is published.
TuneFails ==
  /\ pc = "tune" /\ pc' = "sleep"
  /\ faults < MaxFaults /\ faults' = faults + 1
  /\ UNCHANGED <<choice, idx, pick, register, topic, commands>>

Publish ==
  /\ pc = "publish" /\ pc' = "sleep"
  /\ topic' = pick
  /\ UNCHANGED <<choice, idx, pick, register, commands, faults>>

Wake ==
  /\ pc = "sleep" /\ pc' = "next"
  /\ UNCHANGED <<choice, idx, pick, register, topic, commands, faults>>

-----------------------------------------------------------------------------
HopStep == NextChannel \/ Tune \/ TuneFails \/ Publish \/ Wake

Next ==
  \/ HopStep
  \/ \E centres \in Carriers : UpdateTargets(centres)
  \/ \E m \in {"auto", "scan", "random"} : SetCommand(m, NoChannel)
  \/ \E channel \in ToSet(Channels) \union {NoChannel} : SetCommand("manual", channel)

Spec == Init /\ [][Next]_vars

\* The hopping thread runs; its failures are finite in number.
FairSpec == Spec /\ WF_vars(HopStep)

-----------------------------------------------------------------------------
\* If the mode and the carriers stay as they are, however often the sweep reports
\* them again, the receiver comes back to each of their channels for ever, or to
\* each of all when it scans or there are none.
Visits(list) == \A n \in DOMAIN list : []<>(topic = list[n])
TargetsVisited ==
  /\ <>[](mode = "scan" \/ (mode = "auto" /\ targets = <<>>)) => Visits(Channels)
  /\ \A centres \in Carriers :
       <>[](mode = "auto" /\ targets = TargetsOf(centres)) /\ TargetsOf(centres) # <<>>
         => Visits(TargetsOf(centres))
=============================================================================
