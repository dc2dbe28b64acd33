-------------------------- MODULE Dashboard_proofs --------------------------
(***************************************************************************)
(* What the dashboard keeps for every number of scanners, keys, streams,   *)
(* frames, faults and retries: the archive agrees with its files, the page *)
(* with the scanners, and the players of a viewer do not outlive it.       *)
(*                                                                         *)
(* FrameArchive is what MCDashboard extends, DetectionFeed its F and       *)
(* ViewerPlayers its P.  Each has an inductive invariant of its own, and   *)
(* the theorems are of the component's specification; the last one is of   *)
(* the three together, as the run checks them.                             *)
(***************************************************************************)
EXTENDS MCDashboard, TLAPS, FiniteSetTheorems, SequenceTheorems, WellFoundedInduction

-----------------------------------------------------------------------------
(* Sequences and sets. *)

\* What is left of a sequence when one element is taken out.
LEMMA RemoveAtProperties ==
  ASSUME NEW S, NEW s \in Seq(S), NEW i \in 1..Len(s)
  PROVE  /\ RemoveAt(s, i) \in Seq(S)
         /\ Len(RemoveAt(s, i)) = Len(s) - 1
         /\ \A j \in 1..Len(s) - 1 : RemoveAt(s, i)[j] = IF j < i THEN s[j] ELSE s[j + 1]
<1> DEFINE a == SubSeq(s, 1, i - 1)
           b == SubSeq(s, i + 1, Len(s))
<1>1. Len(s) \in Nat /\ i \in Int
  BY LenProperties
<1>2. a \in Seq(S) /\ Len(a) = i - 1 /\ \A j \in 1..i - 1 : a[j] = s[j]
  BY <1>1, SubSeqProperties, ElementOfSeq
<1>3. b \in Seq(S) /\ Len(b) = Len(s) - i /\ \A j \in 1..Len(s) - i : b[j] = s[j + i]
  BY <1>1, SubSeqProperties, ElementOfSeq
<1>4. RemoveAt(s, i) = a \o b
  BY DEF RemoveAt
<1> HIDE DEF a, b
<1>5. Len(a) + Len(b) = Len(s) - 1
  BY <1>1, <1>2, <1>3
<1>6. /\ a \o b \in Seq(S) /\ Len(a \o b) = Len(s) - 1
      /\ \A j \in 1..Len(s) - 1 :
           (a \o b)[j] = IF j <= Len(a) THEN a[j] ELSE b[j - Len(a)]
  <2>1. /\ a \o b \in Seq(S) /\ Len(a \o b) = Len(a) + Len(b)
        /\ \A j \in 1..Len(a) + Len(b) :
             (a \o b)[j] = IF j <= Len(a) THEN a[j] ELSE b[j - Len(a)]
    BY <1>2, <1>3, ConcatProperties
  <2> QED BY ONLY <1>5, <2>1
<1>7. ASSUME NEW j \in 1..Len(s) - 1
      PROVE  (a \o b)[j] = IF j < i THEN s[j] ELSE s[j + 1]
  <2>1. CASE j < i
    <3>1. j <= Len(a) /\ j \in 1..i - 1
      BY <1>1, <1>2, <2>1
    <3> QED BY <1>2, <1>6, <2>1, <3>1
  <2>2. CASE ~(j < i)
    <3>1. ~(j <= Len(a)) /\ j - Len(a) \in 1..Len(s) - i /\ (j - Len(a)) + i = j + 1
      BY <1>1, <1>2, <2>2
    <3> QED BY <1>3, <1>6, <2>2, <3>1
  <2> QED BY <2>1, <2>2
<1> QED BY <1>4, <1>6, <1>7

\* A set of numbers up to a bound has a greatest one.
LEMMA GreatestExists ==
  ASSUME NEW b \in Nat, NEW T, T \subseteq 1..b, T # {}
  PROVE  \E n \in T : \A m \in T : m <= n
<1> DEFINE R == OpToRel(<, Nat)
           D == {b - m : m \in T}
<1>0. D \subseteq Nat /\ D # {}
  <2>1. \A m \in T : m \in 1..b
    OBVIOUS
  <2>2. \A m \in T : b - m \in Nat
    BY <2>1
  <2> QED BY <2>2
<1> HIDE DEF D
<1>1. PICK x \in D : \A y \in D : <<y, x>> \notin R
  <2>1. IsWellFoundedOn(R, Nat)
    BY NatLessThanWellFounded
  <2> HIDE DEF R
  <2> QED BY <1>0, <2>1, WFMin
<1>2. \A y \in D : ~(y < x)
  <2>1. ASSUME NEW y \in D, y < x PROVE FALSE
    <3>1. <<y, x>> \in Nat \X Nat /\ <<y, x>>[1] < <<y, x>>[2]
      BY <1>0, <2>1
    <3>2. <<y, x>> \in R
      BY <3>1 DEF OpToRel
    <3> QED BY <1>1, <3>2
  <2> QED BY <2>1
<1> USE DEF D
<1>3. PICK n \in T : x = b - n
  BY <1>1
<1>4. \A m \in T : m <= n
  <2>1. n \in Nat /\ \A m \in T : m \in Nat
    <3>1. n \in 1..b /\ \A m \in T : m \in 1..b
      OBVIOUS
    <3> QED BY <3>1
  <2>3. \A m \in T : b - m \in D
    OBVIOUS
  <2>2. \A m \in T : ~(b - m < b - n)
    BY <1>2, <1>3, <2>3
  <2> QED BY <2>1, <2>2
<1> QED BY <1>4

\* A finite set has an order, in which each of its elements comes.
LEMMA SetToSeqIsSeq ==
  ASSUME NEW S, IsFiniteSet(S)
  PROVE  SetToSeq(S) \in Seq(S) /\ Range(SetToSeq(S)) = S
<1> DEFINE n == Cardinality(S)
           f == SetToSeq(S)
<1>1. n \in Nat
  BY FS_CardinalityType
<1>2. \E g \in [1..n -> S] : IsInjective(g)
  BY FS_CardinalityType DEF ExistsBijection, Bijection, Injection, IsInjective
<1>3. f \in [1..n -> S] /\ IsInjective(f)
  BY <1>2 DEF SetToSeq
<1>4. f \in Injection(1..n, S)
  BY <1>3 DEF IsInjective, Injection
<1>5. Cardinality(1..n) = n
  <2>1. 1 \in Int /\ n \in Int
    BY <1>1
  <2>2. Cardinality(1..n) = IF 1 > n THEN 0 ELSE n - 1 + 1
    BY ONLY <2>1, FS_Interval
  <2> HIDE DEF n
  <2> QED BY <1>1, <2>2
<1>6. f \in Surjection(1..n, S)
  <2> HIDE DEF f
  <2> QED BY <1>4, <1>5, FS_Injection
<1>7. Range(f) = S
  <2> HIDE DEF f
  <2> QED BY <1>3, <1>6 DEF Surjection, Range
<1> QED BY <1>1, <1>3, <1>7

\* A set grows by one at most when an element is added.
LEMMA OneMore ==
  ASSUME NEW S, NEW x, IsFiniteSet(S)
  PROVE  /\ IsFiniteSet(S \union {x})
         /\ Cardinality(S) \in Nat /\ Cardinality(S \union {x}) \in Nat
         /\ Cardinality(S \union {x}) <= Cardinality(S) + 1
<1>1. IsFiniteSet(S \union {x})
  BY FS_AddElement
<1>2. Cardinality(S) \in Nat /\ Cardinality(S \union {x}) \in Nat
  BY <1>1, FS_CardinalityType
<1>3. CASE x \in S
  <2>1. S \union {x} = S
    BY <1>3
  <2>2. Cardinality(S \union {x}) = Cardinality(S)
    BY <2>1
  <2>3. Cardinality(S \union {x}) <= Cardinality(S) + 1
    BY <1>2, <2>2
  <2> QED BY <1>1, <1>2, <2>3
<1>4. CASE x \notin S
  <2>1. Cardinality(S \union {x}) = Cardinality(S) + 1
    BY <1>4, FS_AddElement
  <2> QED BY <1>1, <1>2, <2>1
<1> QED BY <1>3, <1>4

-----------------------------------------------------------------------------
(* The archive. *)

\* A list without repetition loses the frame that is taken out, and that one only.
LEMMA RemovalRemoves ==
  ASSUME NEW S, NEW s \in Seq(S), IsInjective(s), NEW i \in 1..Len(s)
  PROVE  /\ IsInjective(RemoveAt(s, i))
         /\ Range(RemoveAt(s, i)) = Range(s) \ {s[i]}
<1> DEFINE t == RemoveAt(s, i)
<1>1. /\ t \in Seq(S) /\ Len(t) = Len(s) - 1
      /\ \A j \in 1..Len(s) - 1 : t[j] = IF j < i THEN s[j] ELSE s[j + 1]
  BY RemoveAtProperties
<1>2. /\ Len(s) \in Nat /\ i \in 1..Len(s) /\ DOMAIN s = 1..Len(s)
      /\ DOMAIN t = 1..Len(s) - 1
  BY <1>1, LenProperties
<1>3. \A a, b \in 1..Len(s) : s[a] = s[b] => a = b
  BY <1>2 DEF IsInjective
<1> HIDE DEF t
<1>4. \A a, b \in 1..Len(s) - 1 : t[a] = t[b] => a = b
  BY <1>1, <1>2, <1>3
<1>5. \A a \in 1..Len(s) - 1 : \E c \in 1..Len(s) : c # i /\ t[a] = s[c]
  BY <1>1, <1>2
<1>6. ASSUME NEW c \in 1..Len(s), c # i
      PROVE  \E a \in 1..Len(s) - 1 : t[a] = s[c]
  <2>1. CASE c < i
    <3>1. c \in 1..Len(s) - 1 /\ t[c] = s[c]
      BY <1>1, <1>2, <2>1
    <3> QED BY <3>1
  <2>2. CASE c > i
    <3>1. c - 1 \in 1..Len(s) - 1 /\ ~(c - 1 < i) /\ (c - 1) + 1 = c
      BY <1>2, <2>2
    <3>2. t[c - 1] = s[(c - 1) + 1]
      BY <1>1, <3>1
    <3> QED BY <3>1, <3>2
  <2> QED BY <1>2, <1>6, <2>1, <2>2
<1>7. IsInjective(t)
  BY <1>2, <1>4 DEF IsInjective
<1>8. Range(t) = Range(s) \ {s[i]}
  <2>1. \A x \in Range(t) : x \in Range(s) /\ x # s[i]
    BY <1>2, <1>3, <1>5 DEF Range
  <2>2. \A x \in Range(s) : x # s[i] => x \in Range(t)
    BY <1>2, <1>6 DEF Range
  <2> QED BY <2>1, <2>2
<1> QED BY <1>7, <1>8 DEF t

\* It gains the one that is appended.
LEMMA AppendAdds ==
  ASSUME NEW S, NEW s \in Seq(S), IsInjective(s), NEW e \in S, e \notin Range(s)
  PROVE  /\ IsInjective(Append(s, e))
         /\ Range(Append(s, e)) = Range(s) \union {e}
<1> DEFINE t == Append(s, e)
<1>1. /\ t \in Seq(S) /\ Len(t) = Len(s) + 1 /\ t[Len(s) + 1] = e
      /\ \A j \in 1..Len(s) : t[j] = s[j]
  BY AppendProperties
<1>2. Len(s) \in Nat /\ DOMAIN s = 1..Len(s) /\ DOMAIN t = 1..Len(s) + 1
  BY <1>1, LenProperties
<1> HIDE DEF t
<1>3. \A j \in 1..Len(s) + 1 : j \in 1..Len(s) \/ j = Len(s) + 1
  BY <1>2
<1>4. \A j \in 1..Len(s) : s[j] # e
  BY <1>2 DEF Range
<1>5. IsInjective(t)
  BY <1>1, <1>2, <1>3, <1>4 DEF IsInjective
<1>6. Range(t) = Range(s) \union {e}
  <2>1. \A x \in Range(t) : x \in Range(s) \union {e}
    BY <1>1, <1>2, <1>3 DEF Range
  <2>2. \A x \in Range(s) : x \in Range(t)
    <3>1. \A j \in 1..Len(s) : j \in 1..Len(s) + 1
      BY <1>2
    <3> QED BY <1>1, <1>2, <3>1 DEF Range
  <2>3. e \in Range(t)
    <3>1. Len(s) + 1 \in 1..Len(s) + 1
      BY <1>2
    <3> QED BY <1>1, <1>2, <3>1 DEF Range
  <2> QED BY <2>1, <2>2, <2>3
<1> QED BY <1>5, <1>6 DEF t

-----------------------------------------------------------------------------
Stamps == Nat \ {0}
Lists == {s \in Seq(Stamps) : IsInjective(s)}

ArchiveTypes ==
  /\ pc \in {"down", "idle", "png", "push", "evict", "prune", "index"}
  /\ published \in Nat /\ retained \in [Scanners -> Nat]
  /\ frame \in Nat
  /\ entries \in Lists
  /\ index \in Lists \union {Torn}
  /\ hurt \in BOOLEAN

\* _ids always is the set of the listed frames, and the one that is being archived
\* is not among them.
ListInv ==
  /\ ids = Range(entries)
  /\ pc \in {"png", "push"} => frame \in Stamps \ ids

\* What the files are at every step of an operation, and while the server is down.
FilesInv ==
  ~hurt =>
    /\ pc \in {"idle", "png", "evict", "prune", "index"} => pngs = ids
    /\ pc = "push" => pngs = ids \union {frame}
    /\ pc = "down" => index # Torn /\ pngs = Range(index)

ArchiveInv == ArchiveTypes /\ ListInv /\ FilesInv

\* No entries make a list of frames, unlike an index that is cut short.
LEMMA EmptyList == <<>> \in Lists /\ Range(<<>>) = {} /\ <<>> # Torn
<1>1. <<>> \in Seq(Stamps) /\ DOMAIN <<>> = {} /\ Len(<<>>) = 0
  BY EmptySeq, LenProperties
<1> QED BY <1>1 DEF Lists, IsInjective, Range, Torn

\* The archive is empty at first.
LEMMA ArchiveInit == Init => ArchiveInv
<1> SUFFICES ASSUME Init PROVE ArchiveInv
  OBVIOUS
<1> QED BY EmptyList DEF Init, ArchiveInv, ArchiveTypes, ListInv, FilesInv

\* An entry and its file go together.
LEMMA DropKeeps ==
  ASSUME ArchiveInv, NEW i \in 1..Len(entries), DropEntry(i), pc \in {"evict", "prune"},
         UNCHANGED <<world, pc, frame, index, hurt>>
  PROVE  ArchiveInv'
<1>1. entries \in Seq(Stamps) /\ IsInjective(entries) /\ ids = Range(entries)
  BY DEF ArchiveInv, ArchiveTypes, Lists, ListInv
<1>2. entries' \in Lists /\ ids' = Range(entries')
  BY <1>1, RemoveAtProperties, RemovalRemoves DEF DropEntry, Lists
<1>3. ArchiveTypes'
  BY <1>2 DEF ArchiveInv, ArchiveTypes, world
<1>4. ListInv'
  BY <1>2 DEF ArchiveInv, ListInv
<1>5. FilesInv'
  BY DEF ArchiveInv, FilesInv, DropEntry
<1> QED BY <1>3, <1>4, <1>5 DEF ArchiveInv

\* A message is archived.
LEMMA IngestKeepsArchive ==
  ASSUME ArchiveInv, (\E s \in Scanners : Receive(s)) \/ Ingest
  PROVE  ArchiveInv'
<1> USE DEF ArchiveInv, world, memory, disk
<1>1. CASE \E s \in Scanners : Receive(s)
  BY <1>1 DEF Receive, ArchiveTypes, ListInv, FilesInv, Stamps
<1>2. CASE WritePng
  BY <1>2 DEF WritePng, ArchiveTypes, ListInv, FilesInv
<1>3. CASE WritePngFails
  BY <1>3 DEF WritePngFails, ArchiveTypes, ListInv, FilesInv
<1>4. CASE Push
  <2>1. entries \in Seq(Stamps) /\ IsInjective(entries) /\ frame \in Stamps
        /\ frame \notin Range(entries)
    BY <1>4 DEF Push, ArchiveTypes, Lists, ListInv
  <2>2. entries' \in Lists /\ ids' = Range(entries')
    BY <1>4, <2>1, AppendProperties, AppendAdds DEF Push, Lists, ListInv
  <2> QED BY <1>4, <2>2 DEF Push, ArchiveTypes, ListInv, FilesInv
<1>5. CASE Evict
  <2>1. CASE Len(entries) > MaxEntries
    <3>1. Len(entries) \in Nat
      BY LenProperties DEF ArchiveTypes, Lists
    <3>2. 1 \in 1..Len(entries)
      BY <2>1, <3>1, ArchiveBounds
    <3> QED BY <1>5, <2>1, <3>2, DropKeeps DEF Evict
  <2>2. CASE ~(Len(entries) > MaxEntries)
    BY <1>5, <2>2 DEF Evict, ArchiveTypes, ListInv, FilesInv
  <2> QED BY <2>1, <2>2
<1> QED BY <1>1, <1>2, <1>3, <1>4, <1>5 DEF Ingest

\* The frames past the retention go, the last of them first.
LEMMA PruneKeeps ==
  ASSUME ArchiveInv, StartPrune \/ Prune
  PROVE  ArchiveInv'
<1>1. CASE StartPrune
  BY <1>1 DEF StartPrune, ArchiveInv, ArchiveTypes, ListInv, FilesInv, world, disk
<1>2. CASE Prune /\ Expired # {}
  <2>1. Len(entries) \in Nat /\ Expired \subseteq 1..Len(entries)
    BY LenProperties DEF ArchiveInv, ArchiveTypes, Lists, Expired
  <2>2. PICK n \in Expired : \A m \in Expired : m <= n
    BY <1>2, <2>1, GreatestExists
  <2>3. \A m \in Expired : n >= m
    BY <2>1, <2>2
  <2>4. Max(Expired) \in 1..Len(entries)
    BY <2>1, <2>2, <2>3 DEF Max
  <2> QED BY <1>2, <2>4, DropKeeps DEF Prune
<1>3. CASE Prune /\ Expired = {}
  BY <1>3 DEF Prune, ArchiveInv, ArchiveTypes, ListInv, FilesInv, world
<1> QED BY <1>1, <1>2, <1>3

\* The index is written, or the server crashes and loads it.
LEMMA IndexKeeps ==
  ASSUME ArchiveInv, Index \/ Crash \/ Restart
  PROVE  ArchiveInv'
<1> USE DEF ArchiveInv, world, memory, disk
<1>1. CASE Persist
  BY <1>1 DEF Persist, ArchiveTypes, ListInv, FilesInv
<1>2. CASE PersistFails
  BY <1>2 DEF PersistFails, ArchiveTypes, ListInv, FilesInv
<1>3. CASE Crash
  <2>1. ArchiveTypes'
    BY <1>3, EmptyList DEF Crash, ArchiveTypes
  <2>2. ListInv'
    BY <1>3, EmptyList DEF Crash, ListInv
  <2>3. FilesInv'
    <3>1. SUFFICES ASSUME ~hurt' PROVE index' # Torn /\ pngs' = Range(index')
      BY <1>3 DEF Crash, FilesInv
    <3>2. ~hurt /\ pc = "idle" /\ index = entries /\ index' = index /\ pngs' = pngs
      BY <1>3, <3>1 DEF Crash
    <3>3. Torn \notin Lists
      <4>1. Torn[1] = 0 /\ Len(Torn) = 1
        BY DEF Torn
      <4> QED BY <4>1, ElementOfSeq DEF Lists, Stamps
    <3> QED BY <3>2, <3>3 DEF FilesInv, ListInv, ArchiveTypes
  <2> QED BY <2>1, <2>2, <2>3
<1>4. CASE Restart
  <2>1. entries' \in Lists
    BY <1>4, EmptyList DEF Restart, ArchiveTypes
  <2> QED BY <1>4, <2>1 DEF Restart, ArchiveTypes, ListInv, FilesInv
<1> QED BY <1>1, <1>2, <1>3, <1>4 DEF Index

\* A frame is published, or the retention moves on.
LEMMA WorldKeeps ==
  ASSUME ArchiveInv, Age \/ \E s \in Scanners : Publish(s)
  PROVE  ArchiveInv'
<1>1. UNCHANGED <<pc, frame, entries, ids, pngs, index, hurt>>
  BY DEF Age, Publish, memory, disk
<1>2. published' \in Nat /\ retained' \in [Scanners -> Nat]
  BY DEF Age, Publish, ArchiveInv, ArchiveTypes
<1> QED BY <1>1, <1>2 DEF ArchiveInv, ArchiveTypes, ListInv, FilesInv

\* Every step satisfies the invariant.
LEMMA ArchiveStep == ArchiveInv /\ [Next]_vars => ArchiveInv'
<1> SUFFICES ASSUME ArchiveInv, [Next]_vars PROVE ArchiveInv'
  OBVIOUS
<1>1. CASE UNCHANGED vars
  BY <1>1 DEF vars, world, memory, disk, ArchiveInv, ArchiveTypes, ListInv, FilesInv
<1> QED
  BY <1>1, WorldKeeps, IngestKeepsArchive, PruneKeeps, IndexKeeps DEF Next, Server

\* The entries, in memory and in the index, are lists of frames without repetition
\* (frame-archive.js ingest, _load).
THEOREM ArchiveTypeCorrect == Spec => []ArchiveTypes
<1>1. ArchiveInv => ArchiveTypes
  BY DEF ArchiveInv
<1> QED BY <1>1, ArchiveInit, ArchiveStep, PTL DEF Spec

\* The entries, the ids and the files say the same between operations, whatever was
\* redelivered and wherever a crash struck an idle server (frame-archive.js).
THEOREM ArchiveAgrees == Spec => []Agrees
<1>1. ArchiveInv => Agrees
  BY DEF ArchiveInv, ArchiveTypes, Lists, ListInv, FilesInv, Agrees
<1> QED BY <1>1, ArchiveInit, ArchiveStep, PTL DEF Spec

-----------------------------------------------------------------------------
(* The detections. *)

\* What is left when the oldest are dropped.
LEMMA NewestIsSeq ==
  ASSUME NEW S, NEW s \in Seq(S), NEW n \in Nat
  PROVE  F!Newest(s, n) \in Seq(S)
<1>1. Len(s) \in Nat
  BY LenProperties
<1>2. CASE Len(s) > n
  <2>1. \A i \in Len(s) - n + 1..Len(s) : s[i] \in S
    BY <1>1, <1>2, ElementOfSeq
  <2>2. SubSeq(s, Len(s) - n + 1, Len(s)) \in Seq(S)
    BY <1>1, <2>1, SubSeqProperties
  <2> QED BY <1>2, <2>2 DEF F!Newest
<1> QED BY <1>2 DEF F!Newest
-----------------------------------------------------------------------------
Payloads == [ts : Nat, keys : SUBSET Keys]
Baselines == [scanner : Scanners, keys : SUBSET Keys]
Happenings == [ts : Nat, key : Keys, event : {"appeared", "gone"}]

JournalTypes ==
  /\ now \in Nat
  /\ fRetained \in [Scanners -> Payloads] /\ \A s \in Scanners : fRetained[s].ts <= now
  /\ baseline \in Seq(Baselines)
  /\ events \in Seq(Happenings)

PageTypes ==
  /\ DOMAIN page \subseteq Keys
  /\ \A k \in DOMAIN page : page[k].last \in Nat
  /\ seen \in [Scanners -> Nat]

\* No payload is had before it is published, and a row is as young as the last
\* payload of every scanner that claims it.
RowsAreYoung ==
  /\ \A s \in Scanners : seen[s] <= fRetained[s].ts
  /\ \A k \in DOMAIN page, s \in Scanners :
       s \in DOMAIN page[k].claims => seen[s] <= page[k].last

FeedInv == JournalTypes /\ PageTypes /\ RowsAreYoung /\ F!ClaimsMatch

\* The page is empty at first, and nothing is published.
LEMMA FeedInit == F!Init => FeedInv
<1> USE ScreenBounds
<1> SUFFICES ASSUME F!Init PROVE FeedInv
  OBVIOUS
<1> USE DEF F!Init
<1>1. JournalTypes
  <2>1. F!Nothing \in Payloads /\ F!Nothing.ts = 0
    BY DEF F!Nothing, Payloads
  <2> QED BY <2>1, EmptySeq DEF JournalTypes
<1>2. DOMAIN page = {}
  BY DEF F!EmptyPage
<1>3. PageTypes BY <1>2 DEF PageTypes
<1>4. RowsAreYoung BY <1>2 DEF RowsAreYoung, F!Nothing
<1>5. F!ClaimsMatch BY <1>2 DEF F!ClaimsMatch
<1> QED BY <1>1, <1>3, <1>4, <1>5 DEF FeedInv

\* Time passes; the rows that were to be listed are those that still are.
LEMMA TickKeeps == ASSUME F!FeedBounds, FeedInv, F!Tick PROVE FeedInv'
<1> USE DEF FeedInv, F!Tick, F!browser, F!server
<1>1. now \in Nat /\ now' = now + 1 /\ RecentTtl \in Nat
  BY DEF JournalTypes, F!FeedBounds
<1>2. JournalTypes' BY DEF JournalTypes, Payloads
<1>3. PageTypes' BY DEF PageTypes
<1>4. RowsAreYoung' BY DEF RowsAreYoung
<1>5. F!ClaimsMatch'
  <2>1. \A s \in Scanners : now' - seen[s] <= RecentTtl => now - seen[s] <= RecentTtl
    BY <1>1 DEF PageTypes
  <2> QED BY <2>1 DEF F!ClaimsMatch
<1> QED BY <1>2, <1>3, <1>4, <1>5

\* A scanner publishes: the page has not had it.
LEMMA PublishKeeps ==
  ASSUME F!FeedBounds, FeedInv, NEW s \in Scanners, NEW keys \in SUBSET Keys, F!Publish(s, keys)
  PROVE  FeedInv'
<1> USE DEF FeedInv, F!browser
<1>1. /\ fRetained' = [fRetained EXCEPT ![s] = [ts |-> now, keys |-> keys]]
      /\ fRetained[s].ts < now
      /\ UNCHANGED <<now, baseline, events, page, seen>>
  BY DEF F!Publish
<1>2. /\ fRetained'[s] = [ts |-> now, keys |-> keys]
      /\ \A u \in Scanners \ {s} : fRetained'[u] = fRetained[u]
  BY <1>1 DEF JournalTypes
<1>3. JournalTypes'
  <2>1. fRetained' \in [Scanners -> Payloads]
    BY <1>1 DEF JournalTypes, Payloads
  <2> QED BY <1>1, <1>2, <2>1 DEF JournalTypes
<1>4. PageTypes' BY <1>1 DEF PageTypes
<1>5. seen[s] < now /\ now \in Nat
  BY <1>1 DEF JournalTypes, PageTypes, RowsAreYoung, Payloads
<1>6. RowsAreYoung'
  BY <1>1, <1>2, <1>5 DEF RowsAreYoung, PageTypes, JournalTypes
<1>7. F!ClaimsMatch'
  BY <1>1, <1>2, <1>5 DEF F!ClaimsMatch, PageTypes
<1> QED BY <1>3, <1>4, <1>6, <1>7

\* The difference of two payloads is a list of events, in which every key that went
\* is told (diffDetections).
LEMMA DiffTellsWhatWent ==
  ASSUME F!FeedBounds, JournalTypes, NEW s \in Scanners
  PROVE  /\ F!Diff(s) \in Seq(Happenings)
         /\ F!Known(s) # {} =>
              \A k \in baseline[CHOOSE n \in F!Known(s) : TRUE].keys \ fRetained[s].keys :
                \E m \in 1..Len(F!Diff(s)) : F!Diff(s)[m] = F!Event(s, k, "gone")
<1>1. ASSUME NEW set \in SUBSET Keys, NEW kind \in {"appeared", "gone"}
      PROVE  LET T == {F!Event(s, k, kind) : k \in set} IN
             SetToSeq(T) \in Seq(Happenings) /\ Range(SetToSeq(T)) = T
  <2> DEFINE T == {F!Event(s, k, kind) : k \in set}
  <2>1. IsFiniteSet(set)
    BY FS_Subset DEF F!FeedBounds, F!IsFiniteSet, IsFiniteSet
  <2>2. [k \in set |-> F!Event(s, k, kind)] \in Surjection(set, T)
    BY DEF Surjection
  <2>3. IsFiniteSet(T)
    BY <2>1, <2>2, FS_Surjection
  <2>4. T \subseteq Happenings
    BY DEF F!Event, Happenings, JournalTypes, Payloads
  <2> HIDE DEF T
  <2>5. SetToSeq(T) \in Seq(T) /\ Range(SetToSeq(T)) = T
    BY <2>3, SetToSeqIsSeq
  <2>6. SetToSeq(T) \in Seq(Happenings)
    BY <2>4, <2>5, SeqMonotonic
  <2> QED BY <2>5, <2>6 DEF T
<1>2. CASE F!Known(s) = {}
  BY <1>2, EmptySeq DEF F!Diff
<1>3. CASE F!Known(s) # {}
  <2> DEFINE prev == baseline[CHOOSE n \in F!Known(s) : TRUE].keys
             cur == fRetained[s].keys
             appeared == {F!Event(s, k, "appeared") : k \in cur \ prev}
             gone == {F!Event(s, k, "gone") : k \in prev \ cur}
             a == SetToSeq(appeared)
             g == SetToSeq(gone)
  <2>1. prev \in SUBSET Keys
    <3>1. (CHOOSE n \in F!Known(s) : TRUE) \in 1..Len(baseline)
      BY <1>3, LenProperties DEF F!Known, JournalTypes
    <3>2. baseline[CHOOSE n \in F!Known(s) : TRUE] \in Baselines
      BY <3>1, ElementOfSeq DEF JournalTypes
    <3> QED BY <3>2 DEF Baselines
  <2>2. cur \in SUBSET Keys
    BY DEF JournalTypes, Payloads
  <2>3. F!Diff(s) = a \o g
    BY <1>3 DEF F!Diff, F!SetToSeq, SetToSeq, F!IsInjective, IsInjective, F!Cardinality, Cardinality
  <2> HIDE DEF prev, cur
  <2>4. a \in Seq(Happenings)
    BY <1>1, <2>2
  <2>5. g \in Seq(Happenings) /\ Range(g) = gone
    BY <1>1, <2>1
  <2>6. ASSUME NEW k \in prev \ cur
        PROVE  \E m \in 1..Len(F!Diff(s)) : F!Diff(s)[m] = F!Event(s, k, "gone")
    <3>1. F!Event(s, k, "gone") \in gone
      OBVIOUS
    <3> HIDE DEF a, g, gone
    <3>2. PICK m \in 1..Len(g) : g[m] = F!Event(s, k, "gone")
      BY <2>5, <3>1, LenProperties DEF Range
    <3>3. /\ Len(a) \in Nat /\ Len(g) \in Nat /\ Len(a \o g) = Len(a) + Len(g)
          /\ \A j \in 1..Len(a) + Len(g) :
               (a \o g)[j] = IF j <= Len(a) THEN a[j] ELSE g[j - Len(a)]
      BY <2>4, <2>5, LenProperties, ConcatProperties
    <3>4. Len(a) + m \in 1..Len(a) + Len(g) /\ ~(Len(a) + m <= Len(a)) /\ (Len(a) + m) - Len(a) = m
      BY <3>3
    <3> QED BY <2>3, <3>2, <3>3, <3>4
  <2> HIDE DEF a, g
  <2> QED BY <2>3, <2>4, <2>5, <2>6, ConcatProperties DEF prev, cur
<1> QED BY <1>2, <1>3

\* The baselines without that of a scanner: what is left is a list of baselines.
LEMMA WithoutIsSeq ==
  ASSUME JournalTypes, NEW s \in Scanners
  PROVE  F!Without(s) \in Seq(Baselines)
<1>1. CASE F!Known(s) = {}
  BY <1>1 DEF F!Without, JournalTypes
<1>2. CASE F!Known(s) # {}
  <2>1. (CHOOSE n \in F!Known(s) : TRUE) \in 1..Len(baseline)
    BY <1>2, LenProperties DEF F!Known, JournalTypes
  <2> QED BY <1>2, <2>1, RemoveAtProperties DEF F!Without, F!RemoveAt, RemoveAt, JournalTypes
<1> QED BY <1>1, <1>2

\* The server takes a payload.
LEMMA IngestKeeps ==
  ASSUME F!FeedBounds, FeedInv, NEW s \in Scanners, F!Ingest(s)
  PROVE  FeedInv'
<1> USE DEF FeedInv
<1>1. UNCHANGED <<now, fRetained, page, seen>>
  BY DEF F!Ingest, F!browser
<1>2. MaxScanners \in Nat /\ MaxEvents \in Nat /\ IsFiniteSet(Keys)
  BY DEF F!FeedBounds, F!IsFiniteSet, IsFiniteSet
<1>3. F!Without(s) \in Seq(Baselines)
  BY WithoutIsSeq
<1>4. baseline' \in Seq(Baselines)
  <2>1. [scanner |-> s, keys |-> fRetained[s].keys] \in Baselines
    BY DEF JournalTypes, Payloads, Baselines
  <2>2. Append(F!Without(s), [scanner |-> s, keys |-> fRetained[s].keys]) \in Seq(Baselines)
    BY <1>3, <2>1, AppendProperties
  <2>3. baseline' = F!Newest(Append(F!Without(s), [scanner |-> s, keys |-> fRetained[s].keys]),
                           MaxScanners)
    BY DEF F!Ingest
  <2> QED BY <1>2, <2>2, <2>3, NewestIsSeq
<1>5. F!Diff(s) \in Seq(Happenings)
  BY DiffTellsWhatWent
<1>6. events' \in Seq(Happenings)
  <2>1. events' = F!Newest(events \o F!Diff(s), MaxEvents)
    BY DEF F!Ingest
  <2>2. events \o F!Diff(s) \in Seq(Happenings)
    BY <1>5, ConcatProperties DEF JournalTypes
  <2> QED BY <1>2, <2>1, <2>2, NewestIsSeq
<1>7. JournalTypes' BY <1>1, <1>4, <1>6 DEF JournalTypes
<1>8. (PageTypes /\ RowsAreYoung /\ F!ClaimsMatch)'
  BY <1>1 DEF PageTypes, RowsAreYoung, F!ClaimsMatch
<1> QED BY <1>7, <1>8

\* The page takes a payload: its scanner claims what it says, the rows of the
\* others are left or have expired.
LEMMA ApplyKeeps ==
  ASSUME F!FeedBounds, FeedInv, NEW s \in Scanners, F!Apply(s)
  PROVE  FeedInv'
<1> USE DEF FeedInv
<1> DEFINE claimed == F!Claim(page, s)
           ts == fRetained[s].ts
           keys == fRetained[s].keys
<1>1. UNCHANGED <<now, fRetained, baseline, events>> /\ page' = F!Prune(claimed)
      /\ seen' = [seen EXCEPT ![s] = ts]
  BY DEF F!Apply, F!server
<1>2. ts \in Nat /\ keys \subseteq Keys /\ now \in Nat /\ RecentTtl \in Nat /\ ts <= now
  BY DEF JournalTypes, Payloads, F!FeedBounds
<1>3. DOMAIN claimed = DOMAIN page \union keys
  BY DEF F!Claim, F!NoClaim
<1>4. ASSUME NEW k \in keys
      PROVE  /\ s \in DOMAIN claimed[k].claims
             /\ claimed[k].last \in Nat /\ ts <= claimed[k].last
             /\ k \in DOMAIN page => page[k].last <= claimed[k].last
             /\ \A u \in Scanners \ {s} :
                  u \in DOMAIN claimed[k].claims
                    <=> k \in DOMAIN page /\ u \in DOMAIN page[k].claims
  <2>1. CASE k \in DOMAIN page
    <3>1. claimed[k] = [claims |-> [x \in DOMAIN page[k].claims \union {s} |->
                                 IF x = s THEN ts ELSE page[k].claims[x]],
                    last |-> F!Max2(page[k].last, ts)]
      BY <2>1 DEF F!Claim, F!NoClaim
    <3>2. page[k].last \in Nat
      BY <2>1 DEF PageTypes
    <3> QED BY <1>2, <2>1, <3>1, <3>2 DEF F!Max2
  <2>2. CASE k \notin DOMAIN page
    <3>1. claimed[k] = [claims |-> [x \in {s} |-> ts], last |-> F!Max2(0, ts)]
      BY <2>2 DEF F!Claim, F!NoClaim
    <3> QED BY <1>2, <2>2, <3>1 DEF F!Max2
  <2> QED BY <2>1, <2>2
<1>5. ASSUME NEW k \in DOMAIN page, k \notin keys
      PROVE  /\ s \notin DOMAIN claimed[k].claims
             /\ claimed[k].last = page[k].last
             /\ \A u \in Scanners \ {s} :
                  u \in DOMAIN claimed[k].claims <=> u \in DOMAIN page[k].claims
  <2>1. claimed[k] = [page[k] EXCEPT !.claims =
                   [x \in DOMAIN page[k].claims \ {s} |-> page[k].claims[x]]]
    BY <1>5 DEF F!Claim, F!NoClaim
  <2> QED BY <2>1
<1> HIDE DEF claimed
<1>6. /\ DOMAIN page' \subseteq DOMAIN claimed
      /\ \A k \in DOMAIN page' : page'[k] = claimed[k]
      /\ \A k \in DOMAIN claimed : now - claimed[k].last <= RecentTtl => k \in DOMAIN page'
  <2>1. \A k \in DOMAIN claimed : claimed[k].last \in Nat
    BY <1>3, <1>4, <1>5 DEF PageTypes
  <2>2. \A k \in DOMAIN claimed : now - claimed[k].last <= RecentTtl => ~F!Expired(claimed[k])
    BY <1>2, <2>1 DEF F!Expired
  <2> QED BY <1>1, <2>2 DEF F!Prune, F!Rows
<1>7. seen'[s] = ts /\ \A u \in Scanners \ {s} : seen'[u] = seen[u]
  BY <1>1 DEF PageTypes
<1>8. JournalTypes' BY <1>1 DEF JournalTypes
<1>9. PageTypes'
  <2>1. seen' \in [Scanners -> Nat]
    BY <1>1, <1>2 DEF PageTypes
  <2>2. \A k \in DOMAIN page' : page'[k].last \in Nat
    BY <1>3, <1>4, <1>5, <1>6 DEF PageTypes
  <2> QED BY <1>2, <1>3, <1>6, <2>1, <2>2 DEF PageTypes
<1>10. RowsAreYoung'
  <2>1. \A u \in Scanners : seen'[u] <= fRetained'[u].ts
    BY <1>1, <1>2, <1>7 DEF RowsAreYoung
  <2>2. ASSUME NEW k \in DOMAIN page', NEW u \in Scanners, u \in DOMAIN page'[k].claims
        PROVE  seen'[u] <= page'[k].last
    <3>1. k \in DOMAIN claimed /\ page'[k] = claimed[k]
      BY <1>6
    <3>2. CASE k \in keys
      <4>1. CASE u = s
        BY <1>4, <1>7, <3>1, <3>2, <4>1
      <4>2. CASE u # s
        <5>1. k \in DOMAIN page /\ u \in DOMAIN page[k].claims /\ page[k].last <= claimed[k].last
          BY <1>4, <2>2, <3>1, <3>2, <4>2
        <5>2. seen[u] <= page[k].last /\ seen'[u] = seen[u] /\ claimed[k].last \in Nat
              /\ seen[u] \in Nat /\ page[k].last \in Nat
          BY <1>4, <1>7, <3>2, <4>2, <5>1 DEF RowsAreYoung, PageTypes
        <5> QED BY ONLY <3>1, <5>1, <5>2
      <4> QED BY <4>1, <4>2
    <3>3. CASE k \notin keys
      <4>1. k \in DOMAIN page /\ u # s /\ u \in DOMAIN page[k].claims
            /\ claimed[k].last = page[k].last
        BY <1>3, <1>5, <2>2, <3>1, <3>3
      <4> QED BY <1>7, <3>1, <4>1 DEF RowsAreYoung
    <3> QED BY <3>2, <3>3
  <2> QED BY <2>1, <2>2 DEF RowsAreYoung
<1>11. F!ClaimsMatch'
  <2>1. ASSUME NEW u \in Scanners, seen'[u] # 0, seen'[u] = fRetained[u].ts
        PROVE  \A k \in DOMAIN page' : u \in DOMAIN page'[k].claims => k \in fRetained[u].keys
    <3>1. CASE u = s
      BY <1>3, <1>5, <1>6, <3>1
    <3>2. CASE u # s
      <4>1. seen[u] # 0 /\ seen[u] = fRetained[u].ts
        BY <1>7, <2>1, <3>2
      <4>2. \A k \in DOMAIN page : u \in DOMAIN page[k].claims => k \in fRetained[u].keys
        BY <4>1 DEF F!ClaimsMatch
      <4> QED BY <1>3, <1>4, <1>5, <1>6, <3>2, <4>2
    <3> QED BY <3>1, <3>2
  <2>2. ASSUME NEW u \in Scanners, seen'[u] # 0, seen'[u] = fRetained[u].ts,
               now - seen'[u] <= RecentTtl
        PROVE  \A k \in fRetained[u].keys : k \in DOMAIN page' /\ u \in DOMAIN page'[k].claims
    <3> SUFFICES ASSUME NEW k \in fRetained[u].keys
                 PROVE  k \in DOMAIN page' /\ u \in DOMAIN page'[k].claims
      OBVIOUS
    <3>1. k \in DOMAIN claimed /\ u \in DOMAIN claimed[k].claims
          /\ seen'[u] <= claimed[k].last /\ claimed[k].last \in Nat /\ seen'[u] \in Nat
      <4>1. CASE u = s
        BY <1>2, <1>3, <1>4, <1>7, <4>1
      <4>2. CASE u # s
        <5>1. seen[u] = seen'[u] /\ seen[u] \in Nat
          BY <1>7, <4>2 DEF PageTypes
        <5>2. k \in DOMAIN page /\ u \in DOMAIN page[k].claims
          BY <2>2, <5>1 DEF F!ClaimsMatch
        <5>3. seen[u] <= page[k].last /\ page[k].last \in Nat
          BY <5>2 DEF RowsAreYoung, PageTypes
        <5>4. /\ u \in DOMAIN claimed[k].claims
              /\ claimed[k].last \in Nat /\ page[k].last <= claimed[k].last
          BY <1>4, <1>5, <4>2, <5>2, <5>3
        <5>5. k \in DOMAIN claimed
          BY <1>3, <5>2
        <5> QED BY <5>1, <5>2, <5>3, <5>4, <5>5
      <4> QED BY <4>1, <4>2
    <3>2. now - claimed[k].last <= RecentTtl
      BY <1>2, <2>2, <3>1
    <3> QED BY <1>6, <3>1, <3>2
  <2> QED BY <1>1, <2>1, <2>2 DEF F!ClaimsMatch
<1> QED BY <1>8, <1>9, <1>10, <1>11

\* What the journal gives a page: the keys that went not long ago, since they went.
LEMMA SeedTells ==
  ASSUME JournalTypes
  PROVE  LET seed == F!Seed(F!EmptyPage) IN
         /\ DOMAIN seed = {events[n].key : n \in F!Gone}
         /\ \A k \in DOMAIN seed :
              /\ DOMAIN seed[k].claims = {}
              /\ \E n \in F!Gone : events[n].key = k /\ seed[k].last = events[n].ts
<1> DEFINE new == {events[n].key : n \in F!Gone}
           late(k) == {n \in F!Gone : events[n].key = k}
           latest(k) == CHOOSE n \in late(k) : \A m \in late(k) : m <= n
<1>1. DOMAIN F!EmptyPage = {}
  BY DEF F!EmptyPage
<1>2. F!Seed(F!EmptyPage)
        = [k \in new |-> [claims |-> [x \in {} |-> 0], last |-> events[latest(k)].ts]]
  BY <1>1 DEF F!Seed, F!NoClaim
<1>3. ASSUME NEW k \in new
      PROVE  latest(k) \in F!Gone /\ events[latest(k)].key = k
  <2>1. Len(events) \in Nat /\ late(k) \subseteq 1..Len(events)
    BY LenProperties DEF F!Gone, JournalTypes
  <2>2. late(k) # {}
    OBVIOUS
  <2>3. \E m \in late(k) : \A o \in late(k) : o <= m
    BY ONLY <2>1, <2>2, GreatestExists
  <2>4. latest(k) \in late(k)
    BY ONLY <2>3
  <2> QED BY <2>4
<1> HIDE DEF new, latest
<1> QED BY <1>2, <1>3 DEF new

\* The page is loaded again: it has had nothing, and no scanner claims a row.
LEMMA ReloadKeeps == ASSUME F!FeedBounds, FeedInv, F!Reload PROVE FeedInv'
<1> USE DEF FeedInv
<1>1. UNCHANGED <<now, fRetained, baseline, events>> /\ seen' = [s \in Scanners |-> 0]
      /\ page' \in {F!EmptyPage, F!Seed(F!EmptyPage)}
  BY DEF F!Reload, F!server
<1>2. /\ DOMAIN page' \subseteq Keys
      /\ \A k \in DOMAIN page' : DOMAIN page'[k].claims = {} /\ page'[k].last \in Nat
  <2>1. CASE page' = F!EmptyPage
    BY <2>1 DEF F!EmptyPage
  <2>2. CASE page' = F!Seed(F!EmptyPage)
    <3>1. \A n \in F!Gone : events[n] \in Happenings
      BY LenProperties, ElementOfSeq DEF F!Gone, JournalTypes
    <3> QED BY <2>2, <3>1, SeedTells DEF Happenings
  <2> QED BY <1>1, <2>1, <2>2
<1>3. JournalTypes' BY <1>1 DEF JournalTypes
<1>4. PageTypes' BY <1>1, <1>2 DEF PageTypes
<1>5. RowsAreYoung'
  BY <1>1, <1>2 DEF RowsAreYoung, JournalTypes, Payloads
<1>6. F!ClaimsMatch' BY <1>1 DEF F!ClaimsMatch
<1> QED BY <1>3, <1>4, <1>5, <1>6

\* The server forgets its baselines; the page does not notice.
LEMMA RestartKeeps == ASSUME F!FeedBounds, FeedInv, F!Restart PROVE FeedInv'
<1> USE DEF FeedInv, F!Restart, F!browser
<1>1. JournalTypes' BY EmptySeq DEF JournalTypes
<1>2. (PageTypes /\ RowsAreYoung /\ F!ClaimsMatch)'
  BY DEF PageTypes, RowsAreYoung, F!ClaimsMatch
<1> QED BY <1>1, <1>2

\* Every step satisfies the invariant.
LEMMA FeedStep == FeedInv /\ [F!Next]_(F!vars) => FeedInv'
<1> USE ScreenBounds
<1> SUFFICES ASSUME FeedInv, [F!Next]_(F!vars) PROVE FeedInv'
  OBVIOUS
<1>1. CASE UNCHANGED F!vars
  BY <1>1
  DEF F!vars, F!server, F!browser, FeedInv, JournalTypes, PageTypes, RowsAreYoung, F!ClaimsMatch
<1> QED
  BY <1>1, TickKeeps, PublishKeeps, IngestKeeps, ApplyKeeps, ReloadKeeps, RestartKeeps
  DEF F!Next

\* The journal and the page hold payloads and events of the scanners, none of them
\* of the future (detection-journal.js, viewer.js).
THEOREM FeedTypeCorrect == F!Spec => [](JournalTypes /\ PageTypes)
<1>1. FeedInv => JournalTypes /\ PageTypes
  BY DEF FeedInv
<1> QED BY <1>1, FeedInit, FeedStep, PTL DEF F!Spec

\* The page lists under a scanner what its last payload says, however the payloads
\* of the others, reloads and the journal came between (viewer.js applyDetections).
THEOREM ClaimsAreThePayloads == F!Spec => []ClaimsMatch
<1>1. FeedInv => ClaimsMatch
  BY DEF FeedInv, ClaimsMatch
<1> QED BY <1>1, FeedInit, FeedStep, PTL DEF F!Spec

-----------------------------------------------------------------------------
(* The journal and the page. *)

\* What the server has had, and the stamps of the claims.
LoggedTypes ==
  /\ logged \in [Scanners -> Payloads] /\ gap \in BOOLEAN
  /\ \A s \in Scanners : logged[s].ts <= fRetained[s].ts
  /\ \A k \in DOMAIN page : \A s \in DOMAIN page[k].claims :
       page[k].claims[s] \in Nat /\ page[k].claims[s] <= page[k].last

\* The baselines are the payloads that the server has had, one of each scanner.
BaselineInv ==
  ~gap =>
    /\ Len(baseline) <= MaxScanners
    /\ \A n, m \in 1..Len(baseline) : baseline[n].scanner = baseline[m].scanner => n = m
    /\ \A n \in 1..Len(baseline) : baseline[n].keys = logged[baseline[n].scanner].keys
    /\ \A s \in Scanners :
         logged[s] # F!Nothing => \E n \in 1..Len(baseline) : baseline[n].scanner = s

\* A row can be had again: its key is in a payload or has gone, and not before the
\* page last saw it.
Told(k, last) ==
  \/ \E u \in Scanners : k \in fRetained[u].keys /\ last <= fRetained[u].ts
  \/ \E u \in Scanners : k \in logged[u].keys /\ last <= logged[u].ts
  \/ \E n \in 1..Len(events) :
       events[n].event = "gone" /\ events[n].key = k /\ last <= events[n].ts

RowsAreTold == ~gap => \A k \in DOMAIN page : Told(k, page[k].last)

JournalInv == LoggedTypes /\ BaselineInv /\ RowsAreTold

\* Nothing is logged or listed at first.
LEMMA JournalInit == F!Init => JournalInv
<1> SUFFICES ASSUME F!Init PROVE JournalInv
  OBVIOUS
<1> USE DEF F!Init
<1>1. DOMAIN page = {} /\ Len(baseline) = 0
  BY EmptySeq DEF F!EmptyPage
<1>2. F!Nothing \in Payloads
  BY DEF F!Nothing, Payloads
<1>3. LoggedTypes
  <2>1. \A s \in Scanners : logged[s] = F!Nothing /\ fRetained[s] = F!Nothing
    OBVIOUS
  <2>2. F!Nothing.ts = 0
    BY DEF F!Nothing
  <2>3. \A s \in Scanners : logged[s].ts <= fRetained[s].ts
    BY <2>1, <2>2
  <2>4. logged \in [Scanners -> Payloads] /\ gap \in BOOLEAN
    BY <1>2
  <2> QED BY <1>1, <2>3, <2>4 DEF LoggedTypes
<1>4. BaselineInv
  <2>1. MaxScanners \in Nat
    BY ScreenBounds DEF F!FeedBounds
  <2> QED BY <1>1, <2>1 DEF BaselineInv
<1>5. RowsAreTold BY <1>1 DEF RowsAreTold
<1> QED BY <1>3, <1>4, <1>5 DEF JournalInv

\* A payload is published: the one before, if nothing is missed, is logged.
LEMMA PublishTells ==
  ASSUME FeedInv, JournalInv, NEW s \in Scanners, NEW keys \in SUBSET Keys,
         F!Publish(s, keys)
  PROVE  JournalInv'
<1> USE DEF JournalInv, F!browser
<1>1. /\ fRetained' = [fRetained EXCEPT ![s] = [ts |-> now, keys |-> keys]]
      /\ fRetained[s].ts < now
      /\ gap' = (gap \/ logged[s] # fRetained[s])
      /\ UNCHANGED <<now, logged, baseline, events, page, seen>>
  BY DEF F!Publish
<1>2. /\ fRetained'[s] = [ts |-> now, keys |-> keys]
      /\ \A u \in Scanners \ {s} : fRetained'[u] = fRetained[u]
  BY <1>1 DEF FeedInv, JournalTypes
<1>3. LoggedTypes'
  <2>1. \A u \in Scanners : logged[u].ts <= fRetained'[u].ts
    BY <1>1, <1>2 DEF LoggedTypes, FeedInv, JournalTypes, Payloads
  <2> QED BY <1>1, <2>1 DEF LoggedTypes
<1>4. BaselineInv' BY <1>1 DEF BaselineInv
<1>5. RowsAreTold'
  <2> SUFFICES ASSUME ~gap', NEW k \in DOMAIN page PROVE Told(k, page[k].last)'
    BY <1>1 DEF RowsAreTold
  <2>1. Told(k, page[k].last) /\ logged[s] = fRetained[s]
    BY <1>1 DEF RowsAreTold
  <2> QED BY <1>1, <1>2, <2>1 DEF Told
<1> QED BY <1>3, <1>4, <1>5

\* The baselines of the others are what is left of them.
LEMMA WithoutKeepsOthers ==
  ASSUME JournalTypes, NEW s \in Scanners,
         \A n, m \in 1..Len(baseline) : baseline[n].scanner = baseline[m].scanner => n = m
  PROVE  LET w == F!Without(s) IN
         /\ Len(w) <= Len(baseline)
         /\ \A j \in 1..Len(w) :
              w[j].scanner # s /\ \E n \in 1..Len(baseline) : w[j] = baseline[n]
         /\ \A i, j \in 1..Len(w) : w[i].scanner = w[j].scanner => i = j
         /\ \A n \in 1..Len(baseline) :
              baseline[n].scanner # s => \E j \in 1..Len(w) : w[j] = baseline[n]
<1>1. Len(baseline) \in Nat /\ DOMAIN baseline = 1..Len(baseline)
  BY LenProperties DEF JournalTypes
<1>2. CASE F!Known(s) = {}
  BY <1>1, <1>2 DEF F!Without, F!Known
<1>3. CASE F!Known(s) # {}
  <2> DEFINE i == CHOOSE n \in F!Known(s) : TRUE
             w == F!Without(s)
  <2>1. i \in 1..Len(baseline) /\ baseline[i].scanner = s
    BY <1>1, <1>3 DEF F!Known
  <2> HIDE DEF i
  <2>2. w = RemoveAt(baseline, i)
    BY <1>3 DEF F!Without, F!RemoveAt, RemoveAt, i
  <2> HIDE DEF w
  <2>3. /\ Len(w) = Len(baseline) - 1
        /\ \A j \in 1..Len(baseline) - 1 : w[j] = IF j < i THEN baseline[j] ELSE baseline[j + 1]
    BY <2>1, <2>2, RemoveAtProperties DEF JournalTypes
  <2>4. \A n \in 1..Len(baseline) : baseline[n].scanner = s => n = i
    BY <2>1
  <2>5. \A j \in 1..Len(w) : w[j].scanner # s /\ \E n \in 1..Len(baseline) : w[j] = baseline[n]
    BY <1>1, <2>1, <2>3, <2>4
  <2>6. ASSUME NEW a \in 1..Len(w), NEW b \in 1..Len(w), w[a].scanner = w[b].scanner
        PROVE  a = b
    <3>1. PICK x \in 1..Len(baseline) : x = (IF a < i THEN a ELSE a + 1) /\ w[a] = baseline[x]
      BY <1>1, <2>1, <2>3
    <3>2. PICK y \in 1..Len(baseline) : y = (IF b < i THEN b ELSE b + 1) /\ w[b] = baseline[y]
      BY <1>1, <2>1, <2>3
    <3>3. x = y
      BY <2>6, <3>1, <3>2
    <3> QED BY <1>1, <2>1, <2>3, <3>1, <3>2, <3>3
  <2>7. ASSUME NEW n \in 1..Len(baseline), n # i
        PROVE  \E j \in 1..Len(w) : w[j] = baseline[n]
    <3>1. CASE n < i
      <4>1. n \in 1..Len(baseline) - 1 /\ w[n] = baseline[n]
        BY <1>1, <2>1, <2>3, <3>1
      <4> QED BY <2>3, <4>1
    <3>2. CASE n > i
      <4>1. n - 1 \in 1..Len(baseline) - 1 /\ ~(n - 1 < i) /\ (n - 1) + 1 = n
        BY <1>1, <2>1, <3>2
      <4> QED BY <2>3, <4>1
    <3> QED BY <1>1, <2>1, <2>7, <3>1, <3>2
  <2>8. Len(w) <= Len(baseline)
    BY <1>1, <2>3
  <2> QED BY <2>1, <2>5, <2>6, <2>7, <2>8 DEF w
<1> QED BY <1>2, <1>3

\* A payload is logged: what was logged of the scanner is there still or has gone.
LEMMA IngestTells ==
  ASSUME F!FeedBounds, FeedInv, JournalInv, NEW s \in Scanners, F!Ingest(s)
  PROVE  JournalInv'
<1> USE DEF JournalInv
<1> DEFINE w == F!Without(s)
           new == [scanner |-> s, keys |-> fRetained[s].keys]
           more == F!Diff(s)
<1>1. /\ UNCHANGED <<now, fRetained, page, seen>>
      /\ logged' = [logged EXCEPT ![s] = fRetained[s]]
      /\ baseline' = F!Newest(Append(w, new), MaxScanners)
      /\ events' = F!Newest(events \o more, MaxEvents)
      /\ gap' = (gap \/ Len(w) = MaxScanners \/ Len(events \o more) > MaxEvents)
  BY DEF F!Ingest, F!browser
<1>2. JournalTypes /\ MaxScanners \in Nat /\ MaxEvents \in Nat /\ new \in Baselines
  BY DEF FeedInv, F!FeedBounds, JournalTypes, Payloads, Baselines
<1>3. w \in Seq(Baselines) /\ more \in Seq(Happenings)
  BY <1>2, WithoutIsSeq, DiffTellsWhatWent
<1>4. logged'[s] = fRetained[s] /\ \A u \in Scanners \ {s} : logged'[u] = logged[u]
  BY <1>1 DEF LoggedTypes
<1>5. LoggedTypes'
  <2>1. logged' \in [Scanners -> Payloads]
    BY <1>1, <1>2 DEF LoggedTypes, JournalTypes
  <2>2. \A u \in Scanners : logged'[u].ts <= fRetained[u].ts
    <3>1. fRetained[s].ts \in Nat
      BY <1>2 DEF JournalTypes, Payloads
    <3>2. logged'[s].ts <= fRetained[s].ts
      BY <1>4, <3>1
    <3> QED BY <1>4, <3>2 DEF LoggedTypes
  <2> QED BY <1>1, <2>1, <2>2 DEF LoggedTypes
<1>6. ASSUME ~gap'
      PROVE  BaselineInv' /\ RowsAreTold'
  <2> HIDE DEF w, new, more
  <2>1. ~gap /\ Len(w) # MaxScanners /\ ~(Len(events \o more) > MaxEvents)
    BY <1>1, <1>6
  <2>2. /\ Len(w) <= Len(baseline)
        /\ \A j \in 1..Len(w) :
             w[j].scanner # s /\ \E n \in 1..Len(baseline) : w[j] = baseline[n]
        /\ \A i, j \in 1..Len(w) : w[i].scanner = w[j].scanner => i = j
        /\ \A n \in 1..Len(baseline) :
             baseline[n].scanner # s => \E j \in 1..Len(w) : w[j] = baseline[n]
    BY <1>2, <2>1, WithoutKeepsOthers DEF BaselineInv, w
  <2>3. /\ Len(w) \in Nat /\ Len(baseline) \in Nat
        /\ Append(w, new) \in Seq(Baselines) /\ Len(Append(w, new)) = Len(w) + 1
        /\ \A j \in 1..Len(w) : Append(w, new)[j] = w[j]
        /\ Append(w, new)[Len(w) + 1] = new
    BY <1>2, <1>3, AppendProperties, LenProperties DEF JournalTypes
  <2>4. Len(w) + 1 <= MaxScanners
    BY <1>2, <2>1, <2>2, <2>3 DEF BaselineInv
  <2>5. /\ Len(baseline') = Len(w) + 1 /\ baseline'[Len(w) + 1] = new
        /\ \A j \in 1..Len(w) : baseline'[j] = w[j]
    <3>1. baseline' = Append(w, new)
      BY <1>1, <1>2, <2>3, <2>4 DEF F!Newest
    <3> QED BY <2>3, <3>1
  <2>6. /\ \A j \in 1..Len(w) + 1 : j \in 1..Len(w) \/ j = Len(w) + 1
        /\ \A j \in 1..Len(w) : j \in 1..Len(w) + 1
        /\ Len(w) + 1 \in 1..Len(w) + 1
    BY <2>3
  <2>7. new.scanner = s /\ new.keys = fRetained[s].keys
    BY DEF new
  <2>8. BaselineInv'
    <3>1. Len(baseline') <= MaxScanners
      BY <2>4, <2>5
    <3>2. \A n, m \in 1..Len(baseline') : baseline'[n].scanner = baseline'[m].scanner => n = m
      <4>1. \A n \in 1..Len(w) : baseline'[n].scanner # s /\ baseline'[n] = w[n]
        BY <2>2, <2>5
      <4>2. baseline'[Len(w) + 1].scanner = s
        BY <2>5, <2>7
      <4>3. \A n, m \in 1..Len(w) + 1 : baseline'[n].scanner = baseline'[m].scanner => n = m
        BY ONLY <2>2, <2>6, <4>1, <4>2
      <4> QED BY <2>5, <4>3
    <3>3. ASSUME NEW n \in 1..Len(baseline')
          PROVE  baseline'[n].keys = logged'[baseline'[n].scanner].keys
      <4>1. CASE n = Len(w) + 1
        BY <1>4, <2>5, <2>7, <4>1
      <4>2. CASE n \in 1..Len(w)
        <5>1. PICK m \in 1..Len(baseline) : w[n] = baseline[m]
          BY <2>2, <4>2
        <5>2. baseline[m] \in Baselines
          BY <1>2, ElementOfSeq DEF JournalTypes
        <5>3. w[n].scanner \in Scanners \ {s}
          BY <2>2, <4>2, <5>1, <5>2 DEF Baselines
        <5> QED BY <1>4, <2>1, <2>5, <4>2, <5>1, <5>3 DEF BaselineInv
      <4> QED BY <2>5, <2>6, <4>1, <4>2
    <3>4. ASSUME NEW u \in Scanners, logged'[u] # F!Nothing
          PROVE  \E n \in 1..Len(baseline') : baseline'[n].scanner = u
      <4>1. CASE u = s
        BY <2>5, <2>6, <2>7, <4>1
      <4>2. CASE u # s
        <5>1. PICK m \in 1..Len(baseline) : baseline[m].scanner = u
          BY <1>4, <2>1, <3>4, <4>2 DEF BaselineInv
        <5>2. PICK j \in 1..Len(w) : w[j] = baseline[m]
          BY <2>2, <4>2, <5>1
        <5> QED BY <2>5, <2>6, <5>1, <5>2
      <4> QED BY <4>1, <4>2
    <3> QED BY <3>1, <3>2, <3>3, <3>4 DEF BaselineInv
  <2>9. /\ Len(events) \in Nat /\ Len(more) \in Nat
        /\ events' = events \o more /\ Len(events') = Len(events) + Len(more)
        /\ \A n \in 1..Len(events) : n \in 1..Len(events') /\ events'[n] = events[n]
        /\ \A n \in 1..Len(more) :
             Len(events) + n \in 1..Len(events') /\ events'[Len(events) + n] = more[n]
    <3>1. events' = events \o more
      BY <1>1, <2>1 DEF F!Newest
    <3>2. /\ Len(events) \in Nat /\ Len(more) \in Nat
          /\ Len(events \o more) = Len(events) + Len(more)
          /\ \A j \in 1..Len(events) + Len(more) :
               (events \o more)[j] = IF j <= Len(events) THEN events[j]
                                     ELSE more[j - Len(events)]
      BY <1>2, <1>3, LenProperties, ConcatProperties DEF JournalTypes
    <3>3. \A n \in 1..Len(events) : n \in 1..Len(events) + Len(more) /\ n <= Len(events)
      BY <3>2
    <3>4. \A n \in 1..Len(more) :
            /\ Len(events) + n \in 1..Len(events) + Len(more)
            /\ ~(Len(events) + n <= Len(events)) /\ (Len(events) + n) - Len(events) = n
      BY <3>2
    <3> QED BY <3>1, <3>2, <3>3, <3>4
  <2>10. ASSUME NEW k \in DOMAIN page
         PROVE  Told(k, page[k].last)'
    <3> DEFINE last == page[k].last
    <3>1. Told(k, last) /\ last \in Nat
      BY <2>1 DEF RowsAreTold, FeedInv, PageTypes
    <3> HIDE DEF last
    <3>2. CASE \E n \in 1..Len(events) :
                 events[n].event = "gone" /\ events[n].key = k /\ last <= events[n].ts
      BY <1>1, <2>9, <3>2 DEF Told, last
    <3>3. CASE \E u \in Scanners : k \in fRetained[u].keys /\ last <= fRetained[u].ts
      BY <1>1, <3>3 DEF Told, last
    <3>4. CASE \E u \in Scanners \ {s} : k \in logged[u].keys /\ last <= logged[u].ts
      BY <1>1, <1>4, <3>4 DEF Told, last
    <3>5. CASE k \in logged[s].keys /\ last <= logged[s].ts
      <4>1. last <= fRetained[s].ts
        BY <1>2, <3>1, <3>5 DEF LoggedTypes, JournalTypes, Payloads
      <4>2. CASE k \in fRetained[s].keys
        BY <1>1, <4>1, <4>2 DEF Told, last
      <4>3. CASE k \notin fRetained[s].keys
        <5> DEFINE i == CHOOSE n \in F!Known(s) : TRUE
        <5>1. logged[s] # F!Nothing
          BY <3>5 DEF F!Nothing
        <5>2. F!Known(s) # {}
          BY <1>2, <2>1, <5>1, LenProperties DEF BaselineInv, F!Known, JournalTypes
        <5>3. i \in 1..Len(baseline) /\ baseline[i].scanner = s
          BY <1>2, <5>2, LenProperties DEF F!Known, JournalTypes
        <5>4. k \in baseline[i].keys \ fRetained[s].keys
          BY <2>1, <3>5, <4>3, <5>3 DEF BaselineInv
        <5>5. PICK m \in 1..Len(more) : more[m] = F!Event(s, k, "gone")
          BY <1>2, <5>2, <5>4, DiffTellsWhatWent DEF more
        <5>6. F!Event(s, k, "gone") = [ts |-> fRetained[s].ts, key |-> k, event |-> "gone"]
          BY DEF F!Event
        <5> QED BY <1>1, <2>9, <4>1, <5>5, <5>6 DEF Told, last
      <4> QED BY <4>2, <4>3
    <3> QED BY <3>1, <3>2, <3>3, <3>4, <3>5 DEF Told
  <2> QED BY <1>1, <2>8, <2>10 DEF RowsAreTold
<1> QED BY <1>5, <1>6 DEF BaselineInv, RowsAreTold

\* A row is added or is seen again: its payload is retained.
LEMMA ApplyTells ==
  ASSUME F!FeedBounds, FeedInv, JournalInv, NEW s \in Scanners, F!Apply(s)
  PROVE  JournalInv'
<1> USE DEF JournalInv
<1> DEFINE ts == fRetained[s].ts
<1>1. UNCHANGED <<now, fRetained, logged, baseline, events, gap>>
      /\ page' = F!Prune(F!Claim(page, s))
  BY DEF F!Apply, F!server
<1>2. ts \in Nat /\ \A k \in DOMAIN page : page[k].last \in Nat
  BY DEF FeedInv, JournalTypes, PageTypes, Payloads
<1>3. ASSUME NEW k \in DOMAIN page'
      PROVE  /\ \A u \in DOMAIN page'[k].claims :
                  page'[k].claims[u] \in Nat /\ page'[k].claims[u] <= page'[k].last
             /\ \/ k \in fRetained[s].keys /\ page'[k].last = ts
                \/ k \in DOMAIN page /\ page'[k].last = page[k].last
  <2>1. k \in DOMAIN page \union fRetained[s].keys /\ page'[k] = F!Claim(page, s)[k]
    BY <1>1 DEF F!Prune, F!Rows, F!Claim
  <2>2. CASE k \in fRetained[s].keys /\ k \in DOMAIN page
    <3>1. page'[k] = [claims |-> [x \in DOMAIN page[k].claims \union {s} |->
                               IF x = s THEN ts ELSE page[k].claims[x]],
                  last |-> F!Max2(page[k].last, ts)]
      BY <2>1, <2>2 DEF F!Claim, F!NoClaim
    <3>2. \A u \in DOMAIN page[k].claims :
            page[k].claims[u] \in Nat /\ page[k].claims[u] <= page[k].last
      BY <2>2 DEF LoggedTypes
    <3> QED BY <1>2, <2>2, <3>1, <3>2 DEF F!Max2
  <2>3. CASE k \in fRetained[s].keys /\ k \notin DOMAIN page
    <3>1. page'[k] = [claims |-> [x \in {s} |-> ts], last |-> F!Max2(0, ts)]
      BY <2>1, <2>3 DEF F!Claim, F!NoClaim
    <3> QED BY <1>2, <2>3, <3>1 DEF F!Max2
  <2>4. CASE k \notin fRetained[s].keys
    <3>1. k \in DOMAIN page
          /\ page'[k] = [page[k] EXCEPT !.claims =
                          [x \in DOMAIN page[k].claims \ {s} |-> page[k].claims[x]]]
      BY <2>1, <2>4 DEF F!Claim, F!NoClaim
    <3>2. page'[k].last = page[k].last
      BY <3>1
    <3>3. ASSUME NEW u \in DOMAIN page'[k].claims
          PROVE  u \in DOMAIN page[k].claims /\ page'[k].claims[u] = page[k].claims[u]
      BY <3>1
    <3> QED BY <3>1, <3>2, <3>3 DEF LoggedTypes
  <2> QED BY <2>1, <2>2, <2>3, <2>4
<1>4. LoggedTypes' BY <1>1, <1>3 DEF LoggedTypes
<1>5. BaselineInv' BY <1>1 DEF BaselineInv
<1>6. RowsAreTold'
  <2> SUFFICES ASSUME ~gap, NEW k \in DOMAIN page' PROVE Told(k, page[k].last)'
    BY <1>1 DEF RowsAreTold
  <2>1. CASE k \in fRetained[s].keys /\ page'[k].last = ts
    BY <1>1, <1>2, <2>1 DEF Told
  <2>2. CASE k \in DOMAIN page /\ page'[k].last = page[k].last
    BY <1>1, <2>2 DEF Told, RowsAreTold
  <2> QED BY <1>3, <2>1, <2>2
<1> QED BY <1>4, <1>5, <1>6

\* The page is loaded again: its rows are of events.
LEMMA ReloadTells == ASSUME FeedInv, JournalInv, F!Reload PROVE JournalInv'
<1> USE DEF JournalInv
<1>1. UNCHANGED <<now, fRetained, logged, baseline, events, gap>>
      /\ page' \in {F!EmptyPage, F!Seed(F!EmptyPage)}
  BY DEF F!Reload, F!server
<1>2. ASSUME NEW k \in DOMAIN page'
      PROVE  /\ DOMAIN page'[k].claims = {}
             /\ \E n \in F!Gone : events[n].key = k /\ page'[k].last = events[n].ts
  <2>1. CASE page' = F!EmptyPage
    BY <2>1 DEF F!EmptyPage
  <2>2. CASE page' = F!Seed(F!EmptyPage)
    BY <2>2, SeedTells DEF FeedInv
  <2> QED BY <1>1, <2>1, <2>2
<1>3. LoggedTypes' BY <1>1, <1>2 DEF LoggedTypes
<1>4. BaselineInv' BY <1>1 DEF BaselineInv
<1>5. RowsAreTold'
  <2> SUFFICES ASSUME NEW k \in DOMAIN page' PROVE Told(k, page[k].last)'
    BY DEF RowsAreTold
  <2>1. PICK n \in F!Gone : events[n].key = k /\ page'[k].last = events[n].ts
    BY <1>2
  <2>2. n \in 1..Len(events) /\ events[n].event = "gone"
    BY LenProperties DEF F!Gone, FeedInv, JournalTypes
  <2>3. events[n] \in Happenings
    BY <2>2, ElementOfSeq DEF FeedInv, JournalTypes
  <2>4. events[n].ts <= events[n].ts
    BY <2>3 DEF Happenings
  <2> QED BY <1>1, <2>1, <2>2, <2>4 DEF Told
<1> QED BY <1>3, <1>4, <1>5

\* Every step satisfies it.
LEMMA JournalStep == FeedInv /\ JournalInv /\ [F!Next]_(F!vars) => JournalInv'
<1> USE ScreenBounds DEF JournalInv
<1> SUFFICES ASSUME FeedInv, JournalInv, [F!Next]_(F!vars) PROVE JournalInv'
  OBVIOUS
<1>1. CASE UNCHANGED F!vars
  BY <1>1 DEF F!vars, F!server, F!browser, LoggedTypes, BaselineInv, RowsAreTold, Told
<1>2. CASE F!Tick
  BY <1>2 DEF F!Tick, F!server, F!browser, LoggedTypes, BaselineInv, RowsAreTold, Told
<1>3. CASE F!Restart
  <2>1. F!Nothing \in Payloads /\ F!Nothing.ts = 0
    BY DEF F!Nothing, Payloads
  <2>2. LoggedTypes'
    BY <1>3, <2>1 DEF F!Restart, F!browser, LoggedTypes, FeedInv, JournalTypes, Payloads
  <2> QED BY <1>3, <2>2 DEF F!Restart, BaselineInv, RowsAreTold
<1> QED
  BY <1>1, <1>2, <1>3, PublishTells, IngestTells, ApplyTells, ReloadTells DEF F!Next

\* A row that is listed, and has been told, is had again.
LEMMA RowsComeBack == FeedInv /\ JournalInv => ReloadKeepsRows
<1> SUFFICES ASSUME FeedInv, JournalInv, ~gap, Len(events) <= MaxListed, logged = fRetained,
                    NEW k \in F!Rows(page)
             PROVE  \/ k \in F!Rows(F!Seed(F!EmptyPage))
                    \/ \E s \in Scanners : k \in F!Rows(F!Claim(F!EmptyPage, s))
  BY DEF ReloadKeepsRows, F!ReloadKeepsRows
<1> DEFINE last == page[k].last
           ttl == RecentTtl
<1>1. k \in DOMAIN page /\ ~F!Expired(page[k]) /\ Told(k, last)
  BY DEF F!Rows, JournalInv, RowsAreTold
<1>2. /\ now \in Nat /\ last \in Nat /\ LiveStale \in Nat /\ RecentTtl \in Nat
      /\ LiveStale <= RecentTtl /\ MaxListed \in Nat
  BY <1>1, ScreenBounds DEF F!FeedBounds, FeedInv, JournalTypes, PageTypes
<1>3. /\ now - last <= RecentTtl
      /\ now - last <= LiveStale \/ ~F!Live(page[k])
  BY <1>1, <1>2 DEF F!Expired, F!Live, JournalInv, LoggedTypes
<1>4. ASSUME NEW s \in Scanners, k \in fRetained[s].keys, last <= fRetained[s].ts
      PROVE  k \in F!Rows(F!Claim(F!EmptyPage, s))
  <2> DEFINE ts == fRetained[s].ts
             e == [claims |-> [x \in {s} |-> ts], last |-> F!Max2(0, ts)]
  <2>1. DOMAIN F!EmptyPage = {}
    BY DEF F!EmptyPage
  <2>2. k \in DOMAIN F!Claim(F!EmptyPage, s) /\ F!Claim(F!EmptyPage, s)[k] = e
    BY <1>4, <2>1 DEF F!Claim, F!NoClaim
  <2>3. ts \in Nat /\ F!Max2(0, ts) = ts
    BY DEF FeedInv, JournalTypes, Payloads, F!Max2
  <2>4. now - ts <= RecentTtl
    BY <1>2, <1>3, <1>4, <2>3
  <2>5. ~F!Expired(e)
    BY <1>2, <2>3, <2>4 DEF F!Expired
  <2> HIDE DEF e
  <2> QED BY <2>2, <2>5 DEF F!Rows
<1>5. ASSUME NEW n \in 1..Len(events), events[n].event = "gone", events[n].key = k,
             last <= events[n].ts
      PROVE  k \in F!Rows(F!Seed(F!EmptyPage))
  <2> DEFINE seed == F!Seed(F!EmptyPage)
  <2>1. /\ Len(events) \in Nat /\ DOMAIN events = 1..Len(events)
        /\ \A m \in 1..Len(events) : events[m].ts \in Nat
    <3>1. \A m \in 1..Len(events) : events[m] \in Happenings
      BY ElementOfSeq DEF FeedInv, JournalTypes
    <3> QED BY <3>1, LenProperties DEF FeedInv, JournalTypes, Happenings
  <2>2. n \in F!Gone
    BY <1>2, <1>3, <1>5, <2>1 DEF F!Gone
  <2>3. /\ k \in DOMAIN seed /\ DOMAIN seed[k].claims = {}
        /\ \E m \in F!Gone : events[m].key = k /\ seed[k].last = events[m].ts
    BY <1>5, <2>2, SeedTells DEF FeedInv
  <2> HIDE DEF seed
  <2>4. now - seed[k].last <= RecentTtl /\ seed[k].last \in Nat
    BY <2>1, <2>3 DEF F!Gone
  <2>5. ~F!Expired(seed[k])
    BY <1>2, <2>4 DEF F!Expired
  <2> QED BY <2>3, <2>5 DEF F!Rows, seed
<1> QED BY <1>1, <1>4, <1>5 DEF Told

\* A page that is loaded again loses no row, whatever the scanners published, logged
\* and dropped before, if the journal lacks nothing and is listed whole (viewer.js
\* seedFromJournal, detection-journal.js ingest).
THEOREM ReloadIsComplete == F!Spec => []ReloadKeepsRows
  BY FeedInit, FeedStep, JournalInit, JournalStep, RowsComeBack, PTL DEF F!Spec

-----------------------------------------------------------------------------
(* The players. *)

Mine == {c \in calls : P!Current(c)}
Others == {c \in calls : ~P!Current(c)}

PlayersTypes ==
  /\ changes \in 0..MaxChanges
  /\ entry \in [gen : {0} \union P!Ids, key : Streams \union {P!NoStream}, player : Nat,
                timer : Nat, busy : BOOLEAN]
  /\ entry.gen = 0 => entry = P!NoEntry
  /\ card \in Streams \union {P!NoStream}
  /\ IsFiniteSet(calls)
  /\ \A c \in calls : c.gen \in P!Ids /\ c.conn \in P!Ids /\ c.try \in Nat

\* The call of the entry's generation, of which there is one when it is busy and
\* none else, is for the entry's stream.
AttemptInv ==
  /\ \A c \in Mine : c.key = entry.key
  /\ entry.busy => \E c \in calls : Mine = {c}
  /\ ~entry.busy => Mine = {}
  /\ entry.busy \/ entry.timer # 0 => entry.player = 0
  /\ entry.busy => entry.timer = 0

One(condition) == IF condition THEN 1 ELSE 0

\* Every superseded call is of a change of the viewer, and so are the entry, if
\* there is one, and the change that it has not followed yet.
CountInv ==
  Cardinality(Others) + One(entry.gen # 0) + One(card # entry.key) <= changes

PlayersInv == PlayersTypes /\ AttemptInv /\ CountInv /\ P!OnlyThePlayer

-----------------------------------------------------------------------------
\* A set smaller than Ids leaves a number for what is new.
LEMMA FreshIsNew ==
  ASSUME P!PlayersBounds, NEW used, IsFiniteSet(used),
         Cardinality(used) <= MaxChanges + 2
  PROVE  P!Fresh(used) \in P!Ids \ used
<1>1. Cardinality(P!Ids) = MaxChanges + 3
  BY FS_Interval DEF P!Ids, P!PlayersBounds
<1>2. ~(P!Ids \subseteq used)
  BY <1>1, FS_Subset, FS_CardinalityType DEF P!PlayersBounds
<1> QED BY <1>2 DEF P!Fresh

\* No more calls are outstanding than the viewer has changed.
LEMMA CallsAreFew ==
  ASSUME P!PlayersBounds, PlayersTypes, AttemptInv, CountInv
  PROVE  /\ Cardinality(calls) \in Nat /\ Cardinality(Others) \in Nat
         /\ Cardinality(calls) + One(card # entry.key) <= changes
<1>1. IsFiniteSet(Others) /\ Cardinality(Others) \in Nat /\ Cardinality(calls) \in Nat
  BY FS_Subset, FS_CardinalityType DEF PlayersTypes, Others
<1>2. changes \in Nat
  BY DEF PlayersTypes, P!PlayersBounds
<1>3. CASE entry.busy
  <2>1. PICK c \in calls : Mine = {c}
    BY <1>3 DEF AttemptInv
  <2>2. calls = Others \union {c} /\ c \notin Others
    BY <2>1 DEF Mine, Others
  <2>3. Cardinality(calls) = Cardinality(Others) + 1
    BY <1>1, <2>2, FS_AddElement
  <2>4. entry.gen # 0
    BY <2>1 DEF Mine, P!Current, PlayersTypes, P!Ids
  <2> QED BY <1>1, <1>2, <2>3, <2>4 DEF CountInv, One
<1>4. CASE ~entry.busy
  <2>1. calls = Others
    BY <1>4 DEF AttemptInv, Mine, Others
  <2> QED BY <1>1, <1>2, <2>1 DEF CountInv, One
<1> QED BY <1>3, <1>4 DEF PlayersTypes

\* So a new generation and a new connection find a number of their own.
LEMMA NumbersAreNew ==
  ASSUME P!PlayersBounds, PlayersInv
  PROVE  /\ P!Fresh(P!Gens) \in P!Ids \ P!Gens
         /\ P!Fresh(P!ConnsUsed) \in P!Ids
<1> DEFINE gens == {c.gen : c \in calls}
           used == {c.conn : c \in calls}
<1>1. IsFiniteSet(calls) /\ Cardinality(calls) \in Nat /\ Cardinality(calls) <= MaxChanges
  BY CallsAreFew DEF PlayersInv, PlayersTypes, One, P!PlayersBounds
<1>2. IsFiniteSet(gens) /\ Cardinality(gens) <= Cardinality(calls)
  <2>1. [c \in calls |-> c.gen] \in Surjection(calls, gens)
    BY DEF Surjection
  <2> QED BY <1>1, <2>1, FS_Surjection
<1>3. IsFiniteSet(used) /\ Cardinality(used) <= Cardinality(calls)
  <2>1. [c \in calls |-> c.conn] \in Surjection(calls, used)
    BY DEF Surjection
  <2> QED BY <1>1, <2>1, FS_Surjection
<1>4. Cardinality(gens) \in Nat /\ Cardinality(used) \in Nat
  BY <1>2, <1>3, FS_CardinalityType
<1>5. P!Fresh(P!Gens) \in P!Ids \ P!Gens
  <2>1. P!Gens = gens \union {entry.gen}
    BY DEF P!Gens
  <2> HIDE DEF gens
  <2>2. IsFiniteSet(gens \union {entry.gen})
        /\ Cardinality(gens \union {entry.gen}) <= Cardinality(gens) + 1
        /\ Cardinality(gens \union {entry.gen}) \in Nat
    BY ONLY <1>2, OneMore
  <2>3. IsFiniteSet(P!Gens) /\ Cardinality(P!Gens) \in Nat
        /\ Cardinality(P!Gens) <= Cardinality(gens) + 1
    BY ONLY <2>1, <2>2
  <2>4. Cardinality(P!Gens) <= MaxChanges + 2
    BY <1>1, <1>2, <1>4, <2>3 DEF P!PlayersBounds
  <2> QED BY <2>3, <2>4, FreshIsNew
<1>6. P!Fresh(P!ConnsUsed) \in P!Ids
  <2> DEFINE every == (used \union {0}) \union {entry.player}
  <2>1. P!ConnsUsed \subseteq every
    BY DEF P!ConnsUsed, PlayersInv, P!OnlyThePlayer
  <2> HIDE DEF used
  <2>2. IsFiniteSet(used \union {0}) /\ Cardinality(used \union {0}) <= Cardinality(used) + 1
    BY ONLY <1>3, OneMore
  <2>3. Cardinality(used \union {0}) \in Nat
    BY ONLY <1>3, OneMore
  <2>4. IsFiniteSet(every) /\ Cardinality(every) <= Cardinality(used \union {0}) + 1
    BY ONLY <2>2, OneMore
  <2>5. IsFiniteSet(P!ConnsUsed) /\ Cardinality(P!ConnsUsed) <= Cardinality(every)
    BY <2>1, <2>4, FS_Subset
  <2>6. Cardinality(every) \in Nat /\ Cardinality(P!ConnsUsed) \in Nat
    BY <2>4, <2>5, FS_CardinalityType
  <2>7. Cardinality(P!ConnsUsed) <= MaxChanges + 2
    BY <1>1, <1>3, <1>4, <2>2, <2>3, <2>4, <2>5, <2>6 DEF P!PlayersBounds
  <2> QED BY <2>5, <2>7, FreshIsNew
<1> QED BY <1>5, <1>6

-----------------------------------------------------------------------------
\* The page is empty at first.
LEMMA PlayersInit == P!Init => PlayersInv
<1> USE ScreenBounds
<1> SUFFICES ASSUME P!Init PROVE PlayersInv
  OBVIOUS
<1> USE DEF P!Init, P!NoEntry
<1>1. Mine = {} /\ Others = {}
  BY DEF Mine, Others
<1>2. PlayersTypes
  BY FS_EmptySet DEF PlayersTypes, P!PlayersBounds
<1>3. AttemptInv
  BY <1>1 DEF AttemptInv
<1>4. CountInv
  BY <1>1, FS_EmptySet DEF CountInv, One
<1> QED BY <1>2, <1>3, <1>4 DEF PlayersInv, P!OnlyThePlayer

\* The stream of the viewer changes.
LEMMA AnnounceKeeps ==
  ASSUME P!PlayersBounds, PlayersInv, P!Announce
  PROVE  PlayersInv'
<1> USE DEF PlayersInv, P!Announce
<1>1. Mine' = Mine /\ Others' = Others
  BY DEF Mine, Others, P!Current
<1>2. PlayersTypes' BY DEF PlayersTypes, P!PlayersBounds
<1>3. AttemptInv' BY <1>1 DEF AttemptInv
<1>4. CountInv' BY <1>1, CallsAreFew DEF CountInv, One, PlayersTypes, P!PlayersBounds
<1>5. P!OnlyThePlayer' BY DEF P!OnlyThePlayer
<1> QED BY <1>2, <1>3, <1>4, <1>5

\* A render takes the card away, or starts a generation.
LEMMA RenderKeeps ==
  ASSUME P!PlayersBounds, PlayersInv, P!RenderGone \/ P!RenderNew
  PROVE  PlayersInv'
<1> USE DEF PlayersInv
<1>1. CASE P!RenderGone
  <2> USE <1>1 DEF P!RenderGone, P!NoEntry
  <2>1. Mine' = {} /\ Others' = calls
    BY DEF Mine, Others, P!Current, PlayersTypes, P!Ids
  <2>2. PlayersTypes' BY DEF PlayersTypes
  <2>3. AttemptInv' BY <2>1 DEF AttemptInv
  <2>4. CountInv' BY <2>1, CallsAreFew DEF CountInv, One, PlayersTypes
  <2>5. P!OnlyThePlayer' BY DEF P!OnlyThePlayer
  <2> QED BY <2>2, <2>3, <2>4, <2>5
<1>2. CASE P!RenderNew
  <2> USE <1>2 DEF P!RenderNew
  <2>1. PICK elt : LET g == P!Fresh(P!Gens) IN
          /\ entry' = [gen |-> g, key |-> card, player |-> 0, timer |-> 0, busy |-> TRUE]
          /\ calls' = calls \cup {P!Call(g, elt, 0)}
    OBVIOUS
  <2> DEFINE new == P!Call(P!Fresh(P!Gens), elt, 0)
  <2>2. /\ new.gen = P!Fresh(P!Gens) /\ new.key = card /\ new.try = 0
        /\ new.conn = P!Fresh(P!ConnsUsed)
    BY DEF P!Call
  <2> HIDE DEF new
  <2>9. /\ new.gen = entry'.gen /\ new.gen \in P!Ids /\ new.conn \in P!Ids
        /\ \A c \in calls : c.gen # new.gen
    <3>1. new.gen \in P!Ids \ P!Gens /\ new.conn \in P!Ids
      BY <2>2, NumbersAreNew
    <3>2. \A c \in calls : c.gen \in P!Gens
      BY DEF P!Gens
    <3>3. entry'.gen = P!Fresh(P!Gens)
      BY <2>1
    <3> QED BY ONLY <2>2, <3>1, <3>2, <3>3
  <2>3. Mine' = {new} /\ Others' = calls
    <3>1. calls' = calls \union {new}
      BY <2>1 DEF new
    <3> QED BY <2>9, <3>1 DEF Mine, Others, P!Current
  <2>4. PlayersTypes'
    <3>1. calls' = calls \union {new}
      BY <2>1 DEF new
    <3>2. IsFiniteSet(calls')
      <4>1. IsFiniteSet(calls)
        BY DEF PlayersTypes
      <4> QED BY ONLY <3>1, <4>1, OneMore
    <3>3. \A c \in calls' : c.gen \in P!Ids /\ c.conn \in P!Ids /\ c.try \in Nat
      BY <2>2, <2>9, <3>1 DEF PlayersTypes
    <3> QED BY <2>1, <2>2, <2>9, <3>2, <3>3 DEF PlayersTypes, P!Ids
  <2>5. AttemptInv'
    <3>1. new \in calls'
      BY <2>1 DEF new
    <3>2. /\ entry'.key = card /\ entry'.player = 0 /\ entry'.timer = 0
          /\ entry'.busy = TRUE
      BY <2>1
    <3>3. \A c \in Mine' : c.key = entry'.key
      BY <2>2, <2>3, <3>2
    <3> QED BY ONLY <2>3, <3>1, <3>2, <3>3 DEF AttemptInv
  <2>6. CountInv' BY <2>1, <2>3, CallsAreFew DEF CountInv, One, PlayersTypes
  <2>7. P!OnlyThePlayer' BY <2>1 DEF P!OnlyThePlayer, P!Closed
  <2> QED BY <2>4, <2>5, <2>6, <2>7
<1> QED BY <1>1, <1>2

\* The entry is kicked or tries again: a call of its own generation.
LEMMA CallAgainKeeps ==
  ASSUME P!PlayersBounds, PlayersInv, P!RenderKick \/ P!Retry
  PROVE  PlayersInv'
<1> USE DEF PlayersInv
<1>1. ASSUME NEW new, new.gen = entry.gen, new.key = entry.key,
             new.conn \in P!Ids, new.try \in Nat, calls' = calls \union {new},
             entry' = [entry EXCEPT !.timer = 0, !.busy = TRUE],
             ~entry.busy, entry.player = 0, entry.gen # 0,
             UNCHANGED <<card, changes, element, source, conns, deaths>>
      PROVE  PlayersInv'
  <2> USE <1>1
  <2>1. Mine' = {new} /\ Others' = Others
    BY DEF Mine, Others, P!Current, AttemptInv, PlayersTypes
  <2>2. PlayersTypes'
    <3>1. IsFiniteSet(calls')
      BY FS_AddElement DEF PlayersTypes
    <3>2. \A c \in calls' : c.gen \in P!Ids /\ c.conn \in P!Ids /\ c.try \in Nat
      <4>1. entry.gen \in P!Ids
        BY DEF PlayersTypes
      <4> QED BY <4>1 DEF PlayersTypes
    <3> QED BY <3>1, <3>2 DEF PlayersTypes
  <2>3. AttemptInv' BY <2>1 DEF AttemptInv, PlayersTypes
  <2>4. CountInv' BY <2>1 DEF CountInv, PlayersTypes
  <2>5. P!OnlyThePlayer' BY DEF P!OnlyThePlayer, PlayersTypes
  <2> QED BY <2>2, <2>3, <2>4, <2>5
<1>2. CASE P!RenderKick
  <2>1. entry.gen # 0
    BY <1>2 DEF P!RenderKick, PlayersTypes, P!NoEntry
  <2>2. entry' = [entry EXCEPT !.timer = 0, !.busy = TRUE]
    BY <1>2 DEF P!RenderKick, P!Idle, PlayersTypes
  <2> DEFINE new == P!Call(entry.gen, element, 0)
  <2>3. new.gen = entry.gen /\ new.key = entry.key /\ new.conn \in P!Ids /\ new.try \in Nat
    BY <1>2, NumbersAreNew DEF P!RenderKick, P!Call
  <2> QED BY <1>1, <1>2, <2>1, <2>2, <2>3 DEF P!RenderKick, P!Idle
<1>3. CASE P!Retry /\ entry.timer > MaxTries
  <2> USE <1>3 DEF P!Retry
  <2>1. Mine' = Mine /\ Others' = Others
    BY DEF Mine, Others, P!Current, PlayersTypes
  <2>2. PlayersTypes' BY DEF PlayersTypes, P!NoEntry
  <2>3. AttemptInv' BY <2>1 DEF AttemptInv, PlayersTypes
  <2>4. CountInv' BY <2>1 DEF CountInv, PlayersTypes
  <2>5. P!OnlyThePlayer' BY DEF P!OnlyThePlayer, PlayersTypes
  <2> QED BY <2>2, <2>3, <2>4, <2>5
<1>4. CASE P!Retry /\ ~(entry.timer > MaxTries)
  <2>1. entry.gen # 0 /\ ~entry.busy /\ entry.player = 0
    BY <1>4 DEF P!Retry, PlayersTypes, AttemptInv, P!NoEntry
  <2> DEFINE new == [P!Call(entry.gen, element, entry.timer) EXCEPT !.key = entry.key]
  <2>2. new.gen = entry.gen /\ new.key = entry.key /\ new.conn \in P!Ids /\ new.try \in Nat
    BY NumbersAreNew DEF P!Call, PlayersTypes
  <2> QED BY <1>1, <1>4, <2>1, <2>2 DEF P!Retry
<1> QED BY <1>2, <1>3, <1>4

\* A call settles.
LEMMA SettlingKeeps ==
  ASSUME P!PlayersBounds, PlayersInv, NEW c \in calls, P!Answered(c) \/ P!Failed(c)
  PROVE  PlayersInv'
<1> USE DEF PlayersInv
<1>1. calls' = calls \ {c} /\ entry'.gen = entry.gen /\ entry'.key = entry.key
  BY DEF P!Answered, P!Failed, PlayersTypes
<1>2. Mine' = Mine \ {c} /\ Others' \subseteq Others
  BY <1>1 DEF Mine, Others, P!Current
<1>3. P!Current(c) => Mine = {c} /\ entry.busy /\ c.key = entry.key
  BY DEF AttemptInv, Mine
<1>4. PlayersTypes'
  <2>1. IsFiniteSet(calls')
    BY <1>1, FS_RemoveElement DEF PlayersTypes
  <2>2. c.gen \in P!Ids /\ c.conn \in Nat /\ c.try + 1 \in Nat /\ 0 \notin P!Ids
    BY DEF PlayersTypes, P!Ids
  <2>3. \/ entry' = entry
        \/ entry' = [entry EXCEPT !.player = c.conn, !.busy = FALSE] /\ entry.gen = c.gen
        \/ entry' = [entry EXCEPT !.busy = FALSE, !.timer = c.try + 1] /\ entry.gen = c.gen
    BY DEF P!Answered, P!Failed, P!Current
  <2>5. /\ entry' \in [gen : {0} \union P!Ids, key : Streams \union {P!NoStream}, player : Nat,
                       timer : Nat, busy : BOOLEAN]
        /\ entry'.gen = 0 => entry' = P!NoEntry
    BY <2>2, <2>3 DEF PlayersTypes
  <2>4. card' = card /\ changes' = changes
    BY DEF P!Answered, P!Failed
  <2> QED BY <1>1, <2>1, <2>4, <2>5 DEF PlayersTypes
<1>5. AttemptInv'
  <2>1. CASE P!Current(c) /\ P!Answered(c)
    BY <1>2, <1>3, <2>1 DEF AttemptInv, P!Answered, PlayersTypes
  <2>2. CASE P!Current(c) /\ P!Failed(c)
    BY <1>2, <1>3, <2>2 DEF AttemptInv, P!Failed, PlayersTypes
  <2>3. CASE ~P!Current(c)
    <3>1. Mine' = Mine /\ entry' = entry
      BY <1>2, <2>3 DEF Mine, P!Answered, P!Failed
    <3> QED BY <1>1, <2>3, <3>1 DEF AttemptInv, Mine
  <2> QED BY <2>1, <2>2, <2>3
<1>6. CountInv'
  <2>1. IsFiniteSet(Others) /\ Cardinality(Others) \in Nat
    BY FS_Subset, FS_CardinalityType DEF PlayersTypes, Others
  <2>2. Cardinality(Others') <= Cardinality(Others) /\ Cardinality(Others') \in Nat
    BY <1>2, <2>1, FS_Subset, FS_CardinalityType
  <2>3. card' = card /\ changes' = changes
    BY DEF P!Answered, P!Failed
  <2> QED BY <1>1, <2>1, <2>2, <2>3 DEF CountInv, One, PlayersTypes
<1>7. P!OnlyThePlayer'
  <2>1. c.conn # 0
    BY DEF PlayersTypes, P!Ids
  <2>2. CASE P!Answered(c) /\ P!Current(c) /\ entry.player = 0
    <3>1. entry'.player = c.conn /\ entry'.key = c.key
      BY <1>3, <2>2 DEF P!Answered, PlayersTypes
    <3> QED BY <2>1, <2>2, <3>1 DEF P!Answered, P!OnlyThePlayer
  <2>3. CASE P!Answered(c) /\ ~(P!Current(c) /\ entry.player = 0)
    BY <2>3 DEF P!Answered, P!OnlyThePlayer
  <2>4. CASE P!Failed(c)
    BY <1>1, <2>4 DEF P!Failed, P!OnlyThePlayer, PlayersTypes
  <2> QED BY <2>2, <2>3, <2>4
<1> QED BY <1>4, <1>5, <1>6, <1>7

\* A player dies.
LEMMA DiesKeeps ==
  ASSUME P!PlayersBounds, PlayersInv, P!Dies
  PROVE  PlayersInv'
<1> USE DEF PlayersInv, P!Dies
<1>1. Mine' = Mine /\ Others' = Others
  BY DEF Mine, Others, P!Current, PlayersTypes
<1>2. PlayersTypes' BY DEF PlayersTypes, P!NoEntry
<1>3. AttemptInv' BY <1>1 DEF AttemptInv, PlayersTypes
<1>4. CountInv' BY <1>1 DEF CountInv, PlayersTypes
<1>5. P!OnlyThePlayer' BY DEF P!OnlyThePlayer, P!Closed, PlayersTypes
<1> QED BY <1>2, <1>3, <1>4, <1>5

\* Every step satisfies the invariant.
LEMMA PlayersStep == PlayersInv /\ [P!Next]_(P!vars) => PlayersInv'
<1> USE ScreenBounds
<1> SUFFICES ASSUME PlayersInv, [P!Next]_(P!vars) PROVE PlayersInv'
  OBVIOUS
<1>1. CASE UNCHANGED P!vars
  BY <1>1 DEF P!vars, PlayersInv, PlayersTypes, AttemptInv, CountInv, P!OnlyThePlayer,
              Mine, Others, P!Current
<1> QED
  BY <1>1, AnnounceKeeps, RenderKeeps, CallAgainKeeps, SettlingKeeps, DiesKeeps
  DEF P!Next, P!AnyAnswered, P!AnyFailed

\* The entry of a viewer and the outstanding calls are those of generations of the
\* viewer (app.js viewerPlayers).
THEOREM PlayersTypeCorrect == P!Spec => []PlayersTypes
<1>1. PlayersInv => PlayersTypes
  BY DEF PlayersInv
<1> QED BY <1>1, PlayersInit, PlayersStep, PTL DEF P!Spec

\* The page holds the connection of the installed player and no other, for any
\* number of superseded calls and late answers (app.js syncViewerPlayers).
THEOREM OnePlayer == P!Spec => []OnlyThePlayer
<1>1. PlayersInv => OnlyThePlayer
  BY DEF PlayersInv, OnlyThePlayer
<1> QED BY <1>1, PlayersInit, PlayersStep, PTL DEF P!Spec

\* A generation has one call, one timer or one player at a time (app.js
\* startViewerWhep, syncViewerPlayers).
THEOREM OneCall == P!Spec => []OneAttempt
<1>1. PlayersInv => OneAttempt
  <2> SUFFICES ASSUME PlayersInv PROVE OneAttempt
    OBVIOUS
  <2>1. Cardinality(Mine) = IF entry.busy THEN 1 ELSE 0
    BY FS_Singleton, FS_EmptySet DEF PlayersInv, AttemptInv
  <2> QED
    BY <2>1
    DEF PlayersInv, AttemptInv, OneAttempt, P!OneAttempt, Mine, P!Cardinality, Cardinality
<1> QED BY <1>1, PlayersInit, PlayersStep, PTL DEF P!Spec

-----------------------------------------------------------------------------
(* The three together. *)

\* A behaviour of the run is one of each component, two of which rest.
LEMMA EachRuns == MCSpec => Spec /\ F!Spec /\ P!Spec
<1>1. MCInit => Init /\ F!Init /\ P!Init
  BY DEF MCInit
<1>2. [MCNext]_all => [Next]_vars
  BY DEF MCNext, all
<1>3. [MCNext]_all => [F!Next]_(F!vars)
  BY DEF MCNext, all, feed, F!vars, F!server, F!browser
<1>4. [MCNext]_all => [P!Next]_(P!vars)
  BY DEF MCNext, all, players, P!vars
<1> QED BY <1>1, <1>2, <1>3, <1>4, PTL DEF MCSpec, Spec, F!Spec, P!Spec

\* So what is proved of a component holds where the three run side by side, as in
\* the run (server.js and app.js, which share no state).
THEOREM DashboardIsSafe ==
  MCSpec => [](Agrees /\ ClaimsMatch /\ ReloadKeepsRows /\ OnlyThePlayer /\ OneAttempt)
  BY EachRuns, ArchiveAgrees, ClaimsAreThePayloads, ReloadIsComplete, OnePlayer, OneCall, PTL
=============================================================================
