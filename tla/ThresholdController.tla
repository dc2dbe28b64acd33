------------------------ MODULE ThresholdController ------------------------
(***************************************************************************)
(* agent/scan/threshold_controller.py: the sensitivity settings, which the *)
(* dashboard changes while the sweep reads them, their file, and their     *)
(* announcement on the retained topic scancfg.                             *)
(*                                                                         *)
(* The network thread applies a command key by key to the live cfg, saves  *)
(* all keys and announces them.  The main thread loads the file at the     *)
(* start and announces once more when connect() has returned.  An          *)
(* announcement reads cfg first and is sent then.                          *)
(***************************************************************************)
EXTENDS Integers, FiniteSets

CONSTANTS
  Keys,         \* _FIELDS
  Lo, Hi,       \* their range
  Factory,      \* what the code and the environment set, within the range
  Commands,     \* functions from some of the keys to numbers
  MaxCommands,  \* bound on the commands
  MaxFaults     \* bound on crashes and failed writes

Settings == [Keys -> Lo..Hi]

ThresholdBounds ==
  /\ {Lo, Hi, MaxCommands, MaxFaults} \subseteq Nat /\ Lo <= Hi
  /\ Factory \in Settings
  /\ \A c \in Commands : DOMAIN c \subseteq Keys /\ \A k \in DOMAIN c : c[k] \in Int

NoFile == [k \in {} |-> 0]

VARIABLES
  cfg,       \* the live settings
  defaults,  \* what reset goes back to
  file,      \* the saved settings, or NoFile
  topic,     \* the retained announcement, NoFile before the first one
  main,      \* the main thread: "start", "load", "connect", "announce", "runs"
  read,      \* the settings it has read and is about to announce
  net,       \* the network thread: "idle", "set", "save", "announce", "send"
  todo,      \* the settings of its command that are still to be made
  told,      \* the settings it has read and is about to announce
  wanted,    \* history: what the commands taken up amount to
  unsaved,   \* history: the last save failed
  raced,     \* history: the main thread sent settings that had been changed
  commands, faults

file_ == <<file, unsaved>>
mainThread == <<main, read>>
netThread == <<net, todo, told, commands>>
vars == <<cfg, defaults, file_, topic, mainThread, netThread, wanted, raced, faults>>

Init ==
  /\ cfg = Factory /\ defaults = Factory /\ file = NoFile /\ topic = NoFile
  /\ main = "start" /\ read = NoFile
  /\ net = "idle" /\ todo = NoFile /\ told = NoFile
  /\ wanted = Factory /\ unsaved = FALSE /\ raced = FALSE
  /\ commands = 0 /\ faults = 0

-----------------------------------------------------------------------------
\* _set(): a number is brought into the range.
Clamp(n) == IF n < Lo THEN Lo ELSE IF n > Hi THEN Hi ELSE n
Overlay(settings, change) ==
  [k \in Keys |-> IF k \in DOMAIN change THEN Clamp(change[k]) ELSE settings[k]]

(* The main thread. *)

Bug_SnapshotAfterLoad ==
  /\ main = "start" /\ main' = "load"
  /\ defaults' = Overlay(cfg, file)
  /\ UNCHANGED <<cfg, file_, topic, read, netThread, wanted, raced, faults>>

\* The controller takes its defaults before ...
Construct ==
  /\ main = "start" /\ main' = "load"
  /\ defaults' = cfg
  /\ UNCHANGED <<cfg, file_, topic, read, netThread, wanted, raced, faults>>

\* ... the saved settings are laid over them.
Load ==
  /\ main = "load" /\ main' = "connect"
  /\ cfg' = Overlay(cfg, file)
  /\ UNCHANGED <<defaults, file_, topic, read, netThread, wanted, raced, faults>>

\* connect() has returned, and the main thread reads what to announce ...
Connected ==
  /\ main = "connect" /\ main' = "announce"
  /\ read' = cfg
  /\ UNCHANGED <<cfg, defaults, file_, topic, netThread, wanted, raced, faults>>

\* ... and sends it.
MainSends ==
  /\ main = "announce" /\ main' = "runs"
  /\ topic' = read /\ read' = NoFile
  /\ raced' = (read # cfg)
  /\ UNCHANGED <<cfg, defaults, file_, netThread, wanted, faults>>

-----------------------------------------------------------------------------
(* The network thread: announce() at every connection, and apply(). *)

Running == main \in {"connect", "announce", "runs"}

Reconnect ==
  /\ Running /\ net = "idle" /\ net' = "announce"
  /\ UNCHANGED <<cfg, defaults, file_, topic, mainThread, todo, told, commands,
                 wanted, raced, faults>>

TakeUp(change) ==
  /\ Running /\ net = "idle" /\ net' = "set"
  /\ commands < MaxCommands /\ commands' = commands + 1
  /\ todo' = change
  /\ UNCHANGED <<cfg, defaults, file_, topic, mainThread, told, raced, faults>>

Command(c) == TakeUp(c) /\ wanted' = Overlay(wanted, c)

\* "reset" makes the settings of the defaults, which are the factory's.
Reset == TakeUp(defaults) /\ wanted' = Factory

\* One key at a time: a sweep may run on some of the old and some of the new.
SetKey(k) ==
  /\ net = "set" /\ k \in DOMAIN todo
  /\ cfg' = [cfg EXCEPT ![k] = Clamp(todo[k])]
  /\ todo' = [j \in DOMAIN todo \ {k} |-> todo[j]]
  /\ UNCHANGED <<defaults, file_, topic, mainThread, net, told, commands, wanted,
                 raced, faults>>

\* _persist(): all keys, and the file is replaced as a whole.
Save ==
  /\ net = "set" /\ DOMAIN todo = {} /\ net' = "announce"
  /\ file' = cfg /\ unsaved' = FALSE
  /\ UNCHANGED <<cfg, defaults, topic, mainThread, todo, told, commands, wanted,
                 raced, faults>>

SaveFails ==
  /\ net = "set" /\ DOMAIN todo = {} /\ net' = "announce"
  /\ faults < MaxFaults /\ faults' = faults + 1 /\ unsaved' = TRUE
  /\ UNCHANGED <<cfg, defaults, file, topic, mainThread, todo, told, commands,
                 wanted, raced>>

NetReads ==
  /\ net = "announce" /\ net' = "send" /\ told' = cfg
  /\ UNCHANGED <<cfg, defaults, file_, topic, mainThread, todo, commands, wanted,
                 raced, faults>>

NetSends ==
  /\ net = "send" /\ net' = "idle"
  /\ topic' = told /\ told' = NoFile /\ raced' = FALSE
  /\ UNCHANGED <<cfg, defaults, file_, mainThread, todo, commands, wanted, faults>>

-----------------------------------------------------------------------------
\* The process dies and systemd starts another.  What was not saved is lost.
Crash ==
  /\ faults < MaxFaults /\ faults' = faults + 1
  /\ main' = "start" /\ read' = NoFile
  /\ net' = "idle" /\ todo' = NoFile /\ told' = NoFile
  /\ cfg' = Factory /\ defaults' = Factory
  /\ wanted' = IF unsaved \/ net = "set" THEN Overlay(Factory, file) ELSE wanted
  /\ unsaved' = FALSE /\ raced' = FALSE
  /\ UNCHANGED <<file, topic, commands>>

MainStep == Construct \/ Load \/ Connected \/ MainSends
NetStep == Save \/ SaveFails \/ NetReads \/ NetSends \/ \E k \in Keys : SetKey(k)

Next ==
  \/ MainStep \/ Reconnect \/ NetStep \/ Reset \/ Crash
  \/ \E c \in Commands : Command(c)

Spec == Init /\ [][Next]_vars

-----------------------------------------------------------------------------
\* Across commands, resets, reconnections and restarts the settings in force are
\* the ones asked for, those on disk too unless their save failed, and the
\* dashboard is shown them unless the main thread's first announcement was
\* overtaken by a command.
SettingsSurvive ==
  Running /\ net = "idle" =>
    /\ cfg = wanted
    /\ ~unsaved => Overlay(Factory, file) = cfg
    /\ main = "runs" /\ ~raced => topic = cfg
=============================================================================
