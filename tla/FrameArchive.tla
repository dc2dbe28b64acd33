---------------------------- MODULE FrameArchive ----------------------------
(***************************************************************************)
(* lib/frame-archive.js as dashboard/server.js runs it: the archive of     *)
(* demodulated frames, its PNG files and its index file.                   *)
(*                                                                         *)
(* The dashboard is one thread: a message or a timer is handled to its     *)
(* end before the next.  What can strike in the middle is a crash, and     *)
(* what outlives it is the disk: the files, and the index as the last      *)
(* write of it left it.  The broker retains the last frame of each scanner *)
(* and delivers it again whenever the dashboard connects.                  *)
(*                                                                         *)
(* Frames are numbered in the order of their timestamps; those up to       *)
(* horizon are older than the retention.  A Bug_ definition is a plausible *)
(* mistake in the one below it.                                            *)
(***************************************************************************)
EXTENDS Naturals, Sequences, FiniteSets, SequencesExt

CONSTANTS
  Scanners,
  MaxEntries,   \* FRAMES_MAX
  MaxFrames,    \* bound on the frames published
  MaxFaults     \* bound on crashes and failed writes

ASSUME ArchiveBounds ==
  MaxEntries \in Nat \ {0} /\ MaxFrames \in Nat /\ MaxFaults \in Nat

Frames == 1..MaxFrames
Torn == <<0>>   \* no index of frames

VARIABLES
  published,  \* frames published so far
  retained,   \* the last frame of each scanner, 0: none yet
  horizon,
  pc,         \* "down", "idle", "png", "push", "evict", "prune", "index"
  frame,      \* the frame being archived, 0: none
  entries,    \* _entries, oldest first
  ids,        \* _ids
  pngs,       \* the PNG files
  index,      \* the index file: a sequence of frames, or Torn
  pruned,     \* this prune() has removed something
  hurt,       \* history: a PNG could not be written, or a crash struck in the
              \* middle of an operation or found the index behind the archive
  faults

world == <<published, retained, horizon>>
memory == <<entries, ids, frame, pruned>>
disk == <<pngs, index>>
vars == <<world, pc, memory, disk, hurt, faults>>

Init ==
  /\ published = 0 /\ retained = [s \in Scanners |-> 0] /\ horizon = 0
  /\ pc = "idle" /\ frame = 0 /\ entries = <<>> /\ ids = {} /\ pruned = FALSE
  /\ pngs = {} /\ index = <<>>
  /\ hurt = FALSE /\ faults = 0

-----------------------------------------------------------------------------
(* The scanners, and time. *)

Publish(s) ==
  /\ published < MaxFrames /\ published' = published + 1
  /\ retained' = [retained EXCEPT ![s] = published']
  /\ UNCHANGED <<horizon, pc, memory, disk, hurt, faults>>

\* The oldest frame that is not yet past the retention now is.
Age ==
  /\ horizon < published /\ horizon' = horizon + 1
  /\ UNCHANGED <<published, retained, pc, memory, disk, hurt, faults>>

-----------------------------------------------------------------------------
(* ingest(). *)

\* A message: the newest frame of a scanner, for the first time or again.  One
\* that is already archived is ignored.
Receive(s) ==
  /\ pc = "idle" /\ retained[s] \notin ids \union {0}
  /\ pc' = "png" /\ frame' = retained[s]
  /\ UNCHANGED <<world, entries, ids, pruned, disk, hurt, faults>>

WritePng ==
  /\ pc = "png" /\ pc' = "push"
  /\ pngs' = pngs \union {frame}
  /\ UNCHANGED <<world, memory, index, hurt, faults>>

\* The write raises, and may leave part of a file; the caller's catch drops the
\* message.
WritePngFails ==
  /\ pc = "png" /\ pc' = "idle" /\ frame' = 0
  /\ faults < MaxFaults /\ faults' = faults + 1
  /\ pngs' \in {pngs, pngs \union {frame}} /\ hurt' = TRUE
  /\ UNCHANGED <<world, entries, ids, pruned, index>>

Push ==
  /\ pc = "push" /\ pc' = "evict"
  /\ entries' = Append(entries, frame) /\ ids' = ids \union {frame}
  /\ frame' = 0
  /\ UNCHANGED <<world, pruned, disk, hurt, faults>>

\* _remove(i): the entry and its file.
DropEntry(i) ==
  /\ entries' = RemoveAt(entries, i) /\ ids' = ids \ {entries[i]}
  /\ pngs' = pngs \ {entries[i]}

\* While there are too many, the first goes.
Evict ==
  /\ pc = "evict"
  /\ IF Len(entries) > MaxEntries THEN DropEntry(1) /\ UNCHANGED pc
     ELSE pc' = "index" /\ UNCHANGED <<entries, ids, pngs>>
  /\ UNCHANGED <<world, frame, pruned, index, hurt, faults>>

-----------------------------------------------------------------------------
(* prune(), at the start and by the timer. *)

Expired == {i \in 1..Len(entries) : entries[i] <= horizon}

StartPrune ==
  /\ pc = "idle" /\ Expired # {}
  /\ pc' = "prune" /\ pruned' = FALSE
  /\ UNCHANGED <<world, entries, ids, frame, disk, hurt, faults>>

Bug_PruneStopsAtFresh ==
  /\ pc = "prune"
  /\ IF Len(entries) \in Expired
     THEN DropEntry(Len(entries)) /\ pruned' = TRUE /\ UNCHANGED pc
     ELSE /\ pc' = IF pruned THEN "index" ELSE "idle"
          /\ UNCHANGED <<entries, ids, pngs, pruned>>
  /\ UNCHANGED <<world, frame, index, hurt, faults>>

\* From the end of the list to its beginning, whatever the order of the frames.
Prune ==
  /\ pc = "prune"
  /\ IF Expired # {}
     THEN DropEntry(Max(Expired)) /\ pruned' = TRUE /\ UNCHANGED pc
     ELSE /\ pc' = IF pruned THEN "index" ELSE "idle"
          /\ UNCHANGED <<entries, ids, pngs, pruned>>
  /\ UNCHANGED <<world, frame, index, hurt, faults>>

-----------------------------------------------------------------------------
(* _persist(), crashes and restarts. *)

Persist ==
  /\ pc = "index" /\ pc' = "idle"
  /\ index' = entries
  /\ UNCHANGED <<world, memory, pngs, hurt, faults>>

\* Best effort: a failed write is ignored, and may have cut the file short.
PersistFails ==
  /\ pc = "index" /\ pc' = "idle"
  /\ faults < MaxFaults /\ faults' = faults + 1
  /\ index' \in {index, Torn}
  /\ UNCHANGED <<world, memory, pngs, hurt>>

\* The index file is written in place: a crash can cut it short too.
Crash ==
  /\ pc # "down" /\ pc' = "down"
  /\ faults < MaxFaults /\ faults' = faults + 1
  /\ index' \in IF pc = "index" THEN {index, Torn} ELSE {index}
  /\ hurt' = (hurt \/ pc # "idle" \/ index # entries)
  /\ entries' = <<>> /\ ids' = {} /\ frame' = 0 /\ pruned' = FALSE
  /\ UNCHANGED <<world, pngs>>

Bug_LoadForgetsIds ==
  /\ pc = "down" /\ pc' = "prune"
  /\ entries' = IF index = Torn THEN <<>> ELSE index
  /\ UNCHANGED <<world, ids, frame, pruned, disk, hurt, faults>>

\* _load(), and the prune that catches up.  An index that cannot be parsed is
\* taken for none.
Restart ==
  /\ pc = "down" /\ pc' = "prune"
  /\ entries' = IF index = Torn THEN <<>> ELSE index
  /\ ids' = Range(entries')
  /\ UNCHANGED <<world, frame, pruned, disk, hurt, faults>>

-----------------------------------------------------------------------------
\* list(): from the end of the list, those before the cursor if there is one, and
\* no more than asked for.
List(before, limit) ==
  LET found == Reverse(SelectSeq(entries, LAMBDA f : before = 0 \/ f < before)) IN
  SubSeq(found, 1, IF Len(found) < limit THEN Len(found) ELSE limit)

-----------------------------------------------------------------------------
Ingest == WritePng \/ WritePngFails \/ Push \/ Evict
Index == Persist \/ PersistFails
Server == Ingest \/ StartPrune \/ Prune \/ Index \/ Restart

Next ==
  \/ (\E s \in Scanners : Publish(s) \/ Receive(s))
  \/ Age \/ Server \/ Crash

Spec == Init /\ [][Next]_vars

\* Handlers run to their end, the retention timer fires, systemd restarts.
FairSpec == Spec /\ WF_vars(Server) /\ SF_vars(StartPrune)

-----------------------------------------------------------------------------
\* Between operations no frame is listed twice, redelivered or not, before or
\* after a restart; and unless a PNG could not be written, or a crash struck in
\* the middle of an operation or after a failed write of the index, the files
\* are the listed frames.
Agrees ==
  pc = "idle" =>
    /\ IsInjective(entries) /\ ids = Range(entries)
    /\ ~hurt => pngs = ids

\* A frame past the retention leaves the archive, and again if it has come back
\* with a redelivery.
ExpiredLeave ==
  \A f \in Frames : f <= horizon ~> f \notin ids

\* "Newest-first metadata": so that the last frame of a page is its oldest one,
\* and those before it are the rest.
NewestFirst ==
  pc = "idle" => \A limit \in 1..MaxEntries :
    LET page == List(0, limit) IN
    \A n \in 1..Len(page) - 1 : page[n] > page[n + 1]
=============================================================================
