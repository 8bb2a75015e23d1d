------------------------ MODULE PlayerPipeline_proofs ------------------------
(***************************************************************************)
(* Proofs about PlayerPipeline, for any number of calls of InitPlayer, of  *)
(* packets and of messages.  They use the safety part of the specification *)
(* only.                                                                   *)
(***************************************************************************)
EXTENDS PlayerPipeline, SequenceLemmas, FiniteSetTheorems

Task == [what : {"InitPlayer", "config", "packet", "end"},
         demuxer : 0 .. MaxInits, kind : Kinds \cup {"none"},
         n : 0 .. MaxPackets]
-----------------------------------------------------------------------------
(* What the destructor's cancelling of tasks leaves.                       *)

\* The position of k among the members of K.
RankIn(K, k) == Cardinality({j \in K : j <= k})

\* Every position is that of a member.
LEMMA RankOnto ==
  ASSUME NEW n \in Nat, NEW K \in SUBSET (1 .. n)
  PROVE  /\ IsFiniteSet(K) /\ Cardinality(K) \in Nat
         /\ \A i \in 1 .. Cardinality(K) : \E k \in K : RankIn(K, k) = i
  <1> DEFINE c == Cardinality(K)
             below(k) == {j \in K : j <= k}
             r == [k \in K |-> RankIn(K, k)]
  <1>1. IsFiniteSet(K) /\ c \in Nat
    <2>1. IsFiniteSet(1 .. n)
      BY FS_Interval
    <2> QED
      BY <2>1, FS_Subset, FS_CardinalityType
  <1>2. ASSUME NEW k \in K
        PROVE  IsFiniteSet(below(k)) /\ RankIn(K, k) \in 1 .. c
    <2>1. {k} \in SUBSET below(k) /\ below(k) \in SUBSET K
      OBVIOUS
    <2>2. IsFiniteSet(below(k)) /\ Cardinality(below(k)) <= c
      BY <1>1, <2>1, FS_Subset
    <2>3. Cardinality(below(k)) \in Nat
      BY <2>2, FS_CardinalityType
    <2>4. Cardinality({k}) <= Cardinality(below(k))
      BY <2>1, <2>2, FS_Subset
    <2>5. Cardinality({k}) = 1
      BY FS_Singleton
    <2> HIDE DEF c
    <2>6. Cardinality(below(k)) \in 1 .. c
      BY <1>1, <2>2, <2>3, <2>4, <2>5
    <2> QED
      BY <2>2, <2>6 DEF RankIn
  <1>3. ASSUME NEW k \in K, NEW l \in K, k < l
        PROVE  RankIn(K, k) < RankIn(K, l)
    <2>1. below(k) \cup {l} \in SUBSET below(l) /\ l \notin below(k)
      <3>1. \A j \in K : j \in Int
        OBVIOUS
      <3>2. \A j \in K : j <= k => j <= l
        BY <1>3, <3>1
      <3>3. ~(l <= k) /\ l <= l
        BY <1>3, <3>1
      <3> QED
        BY <3>2, <3>3
    <2>2. Cardinality(below(k) \cup {l}) = Cardinality(below(k)) + 1
      BY <1>2, <2>1, FS_AddElement
    <2>3. Cardinality(below(k) \cup {l}) <= Cardinality(below(l))
      BY <1>2, <2>1, FS_Subset
    <2>4. RankIn(K, k) + 1 <= RankIn(K, l)
      BY <2>2, <2>3 DEF RankIn
    <2>5. RankIn(K, k) \in 1 .. c /\ RankIn(K, l) \in 1 .. c
      BY <1>2
    <2> QED
      BY <1>1, <2>4, <2>5
  <1>4. \A k, l \in K : RankIn(K, k) = RankIn(K, l) => k = l
    <2> SUFFICES ASSUME NEW k \in K, NEW l \in K, RankIn(K, k) = RankIn(K, l), k # l
                 PROVE  FALSE
      OBVIOUS
    <2>1. k < l \/ l < k
      OBVIOUS
    <2>2. RankIn(K, k) \in 1 .. c
      BY <1>2
    <2> QED
      BY <1>1, <1>3, <2>1, <2>2
  <1> HIDE DEF c
  <1>5. r \in [K -> 1 .. c] /\ \A k, l \in K : r[k] = r[l] => k = l
    BY <1>2, <1>4
  <1>6. r \in Injection(K, 1 .. c)
    BY <1>5 DEF Injection, IsInjective
  <1>7. IsFiniteSet(1 .. c) /\ Cardinality(1 .. c) = c
    BY <1>1, FS_Interval
  <1> HIDE DEF r
  <1>8. r \in Surjection(K, 1 .. c)
    BY <1>1, <1>6, <1>7, FS_Injection DEF c
  <1>9. \A i \in 1 .. c : \E k \in K : r[k] = i
    BY <1>8 DEF Surjection
  <1> QED
    BY <1>1, <1>9 DEF c, r

\* Where the tasks that stay come from: each from a place of its own.
LEMMA CancelledFacts ==
  ASSUME NEW T, NEW tasks \in Seq(T), NEW d, NEW rest, rest = Cancelled(tasks, d)
  PROVE  /\ rest \in Seq(T)
         /\ \E from \in [1 .. Len(rest) -> 1 .. Len(tasks)] :
              /\ \A i, j \in 1 .. Len(rest) : from[i] = from[j] => i = j
              /\ \A i \in 1 .. Len(rest) : /\ rest[i] = tasks[from[i]]
                                          /\ rest[i].demuxer # d
  <1> DEFINE K == {k \in 1 .. Len(tasks) : tasks[k].demuxer # d}
             c == Cardinality(K)
             f == [i \in 1 .. c |-> CHOOSE k \in K : RankIn(K, k) = i]
  <1>1. Len(tasks) \in Nat /\ K \in SUBSET (1 .. Len(tasks))
    BY LenProperties
  <1>2. c \in Nat /\ \A i \in 1 .. c : \E k \in K : RankIn(K, k) = i
    BY <1>1, RankOnto
  <1>3. \A i \in 1 .. c : f[i] \in K /\ RankIn(K, f[i]) = i
    BY <1>2
  <1>4. rest = [i \in 1 .. c |-> tasks[f[i]]]
    BY DEF Cancelled, RankIn
  <1> HIDE DEF f, c, K
  <1>5. \A i \in 1 .. c : /\ f[i] \in 1 .. Len(tasks)
                          /\ tasks[f[i]] \in T /\ tasks[f[i]].demuxer # d
    BY <1>1, <1>3, ElementOfSeq DEF K
  <1>6. rest \in Seq(T)
    BY <1>2, <1>4, <1>5, SeqDef
  <1>7. Len(rest) = c
    BY <1>2, <1>4, <1>6, LenProperties
  <1>8. f \in [1 .. c -> 1 .. Len(tasks)]
    BY <1>5 DEF f
  <1>9. \A i, j \in 1 .. c : f[i] = f[j] => i = j
    BY <1>3
  <1>10. \A i \in 1 .. c : rest[i] = tasks[f[i]] /\ rest[i].demuxer # d
    BY <1>4, <1>5
  <1> QED
    BY <1>6, <1>7, <1>8, <1>9, <1>10
-----------------------------------------------------------------------------
(* How many calls of InitPlayer wait.                                      *)

InitsIn(tasks) == {k \in 1 .. Len(tasks) : tasks[k].what = "InitPlayer"}

LEMMA InitsFinite ==
  ASSUME NEW T, NEW tasks \in Seq(T)
  PROVE  IsFiniteSet(InitsIn(tasks)) /\ Cardinality(InitsIn(tasks)) \in Nat
  <1>1. Len(tasks) \in Nat
    BY LenProperties
  <1>2. IsFiniteSet(1 .. Len(tasks)) /\ InitsIn(tasks) \in SUBSET (1 .. Len(tasks))
    BY <1>1, FS_Interval DEF InitsIn
  <1> QED
    BY <1>2, FS_Subset, FS_CardinalityType

\* If the calls of one queue come from different places of another one, there
\* are no more of them.
LEMMA InitsFrom ==
  ASSUME NEW T, NEW new \in Seq(T), NEW old \in Seq(T),
         NEW P \in SUBSET InitsIn(old),
         NEW from \in [InitsIn(new) -> P],
         \A i, j \in InitsIn(new) : from[i] = from[j] => i = j
  PROVE  Cardinality(InitsIn(new)) <= Cardinality(P)
  <1>1. IsFiniteSet(P)
    BY InitsFinite, FS_Subset
  <1>2. from \in Injection(InitsIn(new), P)
    BY DEF Injection, IsInjective
  <1> QED
    BY <1>1, <1>2, FS_Injection

LEMMA InitsAppend ==
  ASSUME NEW tasks \in Seq(Task), NEW t \in Task, t.what = "InitPlayer"
  PROVE  Cardinality(InitsIn(Append(tasks, t))) = Cardinality(InitsIn(tasks)) + 1
  <1>1. /\ Len(Append(tasks, t)) = Len(tasks) + 1 /\ Len(tasks) \in Nat
        /\ \A i \in 1 .. Len(tasks) : Append(tasks, t)[i] = tasks[i]
        /\ Append(tasks, t)[Len(tasks) + 1] = t
    BY AppendProperties, LenProperties
  <1>2. InitsIn(Append(tasks, t)) = InitsIn(tasks) \cup {Len(tasks) + 1}
    BY <1>1 DEF InitsIn
  <1>3. Len(tasks) + 1 \notin InitsIn(tasks)
    BY <1>1 DEF InitsIn
  <1> QED
    BY <1>2, <1>3, InitsFinite, FS_AddElement

LEMMA InitsConcat ==
  ASSUME NEW tasks \in Seq(Task), NEW more \in Seq(Task),
         \A i \in 1 .. Len(more) : more[i].what # "InitPlayer"
  PROVE  InitsIn(tasks \o more) = InitsIn(tasks)
  <1>1. /\ Len(tasks \o more) = Len(tasks) + Len(more)
        /\ Len(tasks) \in Nat /\ Len(more) \in Nat
        /\ \A i \in 1 .. Len(tasks) + Len(more) :
             (tasks \o more)[i] = IF i <= Len(tasks) THEN tasks[i]
                                  ELSE more[i - Len(tasks)]
    BY ConcatProperties, LenProperties
  <1>2. \A i \in 1 .. Len(tasks) : (tasks \o more)[i] = tasks[i]
    BY <1>1
  <1>3. ASSUME NEW i \in 1 .. Len(tasks) + Len(more), i \notin 1 .. Len(tasks)
        PROVE  (tasks \o more)[i].what # "InitPlayer"
    <2>1. i - Len(tasks) \in 1 .. Len(more)
      BY <1>1, <1>3
    <2>2. (tasks \o more)[i] = more[i - Len(tasks)]
      BY <1>1, <1>3
    <2> QED
      BY <2>1, <2>2
  <1>4. 1 .. Len(tasks) \subseteq 1 .. Len(tasks) + Len(more)
    BY <1>1
  <1> QED
    BY <1>1, <1>2, <1>3, <1>4 DEF InitsIn

LEMMA InitsTail ==
  ASSUME NEW tasks \in Seq(Task), tasks # <<>>
  PROVE  Cardinality(InitsIn(Tail(tasks)))
           <= Cardinality(InitsIn(tasks))
              - (IF Head(tasks).what = "InitPlayer" THEN 1 ELSE 0)
  <1> DEFINE P == InitsIn(tasks) \ {1}
             from == [i \in InitsIn(Tail(tasks)) |-> i + 1]
  <1>1. /\ Tail(tasks) \in Seq(Task) /\ Len(Tail(tasks)) = Len(tasks) - 1
        /\ Len(tasks) \in Nat \ {0} /\ Head(tasks) = tasks[1]
        /\ \A i \in 1 .. Len(tasks) - 1 : Tail(tasks)[i] = tasks[i + 1]
    BY HeadTailProperties, LenProperties, EmptySeq
  <1>2. ASSUME NEW i \in InitsIn(Tail(tasks)) PROVE i + 1 \in P /\ i \in Int
    BY <1>1 DEF InitsIn
  <1>3. from \in [InitsIn(Tail(tasks)) -> P]
    BY <1>2
  <1>4. \A i, j \in InitsIn(Tail(tasks)) : from[i] = from[j] => i = j
    BY <1>2
  <1> HIDE DEF from
  <1>5. Cardinality(InitsIn(Tail(tasks))) <= Cardinality(P)
    BY <1>1, <1>3, <1>4, InitsFrom
  <1>6. IsFiniteSet(InitsIn(tasks)) /\ Cardinality(InitsIn(tasks)) \in Nat
    BY InitsFinite
  <1>7. Cardinality(P) = IF 1 \in InitsIn(tasks) THEN Cardinality(InitsIn(tasks)) - 1
                         ELSE Cardinality(InitsIn(tasks))
    BY <1>6, FS_RemoveElement
  <1>8. 1 \in InitsIn(tasks) <=> Head(tasks).what = "InitPlayer"
    BY <1>1 DEF InitsIn
  <1>9. Cardinality(InitsIn(Tail(tasks))) \in Nat
    BY <1>1, InitsFinite
  <1> QED
    BY <1>5, <1>6, <1>7, <1>8, <1>9

LEMMA InitsCancelled ==
  ASSUME NEW tasks \in Seq(Task), NEW d, NEW rest, rest = Cancelled(tasks, d)
  PROVE  Cardinality(InitsIn(rest)) <= Cardinality(InitsIn(tasks))
  <1>1. rest \in Seq(Task)
    BY CancelledFacts
  <1>2. PICK f \in [1 .. Len(rest) -> 1 .. Len(tasks)] :
               /\ \A i, j \in 1 .. Len(rest) : f[i] = f[j] => i = j
               /\ \A i \in 1 .. Len(rest) : rest[i] = tasks[f[i]]
    BY CancelledFacts
  <1> DEFINE from == [i \in InitsIn(rest) |-> f[i]]
  <1>3. from \in [InitsIn(rest) -> InitsIn(tasks)]
    BY <1>2 DEF InitsIn
  <1>4. \A i, j \in InitsIn(rest) : from[i] = from[j] => i = j
    BY <1>2 DEF InitsIn
  <1> HIDE DEF from
  <1> QED
    BY <1>1, <1>3, <1>4, InitsFrom
-----------------------------------------------------------------------------
(* The inductive invariant.                                                *)

\* The demuxer whose tasks are in the queue: the old one until its thread has
\* been joined.
Cur == IF loop \in {"destroy", "join"} THEN demuxer_ - 1 ELSE demuxer_

\* Calls of InitPlayer that wait, and those that have begun and have no demuxer
\* yet.
Asked == Cardinality(InitsIn(queue))
Underway == IF loop \in {"clean", "create"} THEN 1 ELSE 0

DataInv ==
  /\ queue \in Seq(Task)
  /\ loop \in {"idle", "clean", "create", "destroy", "join", "make", "open"}
  /\ state_ \in {"uninitialized", "playing"}
  /\ videoInit \in BOOLEAN /\ attached \in BOOLEAN
  /\ parser \in [Demuxers -> {"none", "starting", "finding", "reading", "done"}]
  /\ found \in [Demuxers -> SUBSET Kinds]
  /\ demuxed \in [Demuxers -> [Kinds -> 0 .. MaxPackets]]
  /\ mux \in 0 .. MaxMux

\* There are no more demuxers than calls, and the player and the data source
\* are those of the last one, except while they are exchanged.
LoopInv ==
  /\ demuxer_ \in Nat /\ posted \in 0 .. MaxInits
  /\ demuxer_ + Underway + Asked <= posted
  /\ loop \in {"destroy", "join"} => demuxer_ >= 2
  /\ loop \in {"make", "open"} => demuxer_ >= 1
  /\ player_ = data_source_
  /\ data_source_ = IF loop \in {"idle", "clean", "open"} THEN demuxer_ ELSE 0
  /\ stream \in [config : 0 .. MaxInits, source : 0 .. MaxInits]

\* Only the thread of one demuxer runs, and it has not been started before it
\* is opened; those of the demuxers that are gone have ended.
DemuxInv ==
  /\ \A d \in Demuxers : d # Cur => parser[d] \in {"none", "done"}
  /\ \A d \in Demuxers :
       d > Cur \/ (d = Cur /\ loop \in {"make", "open"}) => parser[d] = "none"
  /\ \A d \in Demuxers : parser[d] \in {"none", "starting"} => found[d] = {}
  /\ \A d \in Demuxers : parser[d] = "finding" => "video" \notin found[d]
  /\ exited_ \subseteq Demuxers /\ dead \subseteq exited_
  /\ \A d \in dead : d < Cur /\ parser[d] = "done"
  /\ loop = "join" => demuxer_ - 1 \in exited_

\* All that waits was posted by one demuxer, or is a call of InitPlayer.
QueueInv ==
  \A k \in 1 .. Len(queue) :
    /\ queue[k].what = "InitPlayer" => queue[k].demuxer = 0
    /\ queue[k].what # "InitPlayer" =>
         queue[k].demuxer = Cur /\ Cur >= 1 /\ loop \notin {"make", "open"}
    /\ queue[k].what = "packet" => queue[k].n >= 1

\* The stream that is set up is that of the demuxer whose packets wait.
Configured == videoInit /\ stream = [config |-> Cur, source |-> Cur]

VideoConfigAt(k) == queue[k].what = "config" /\ queue[k].kind = "video"
VideoPacketAt(k) == queue[k].what = "packet" /\ queue[k].kind = "video"

\* Video packets come from a demuxer that has found a video stream, and the
\* stream is set up, or its configuration waits before them.
ConfigInv ==
  /\ \A k \in 1 .. Len(queue) :
       VideoPacketAt(k) => Cur \in Demuxers /\ "video" \in found[Cur]
  /\ Cur \in Demuxers /\ "video" \in found[Cur] /\ ~Configured =>
       \E j \in 1 .. Len(queue) :
         /\ VideoConfigAt(j)
         /\ \A k \in 1 .. Len(queue) : VideoPacketAt(k) => j < k

\* Packets that were appended went where they belong.
Given == [demuxer : Demuxers, n : 1 .. MaxPackets,
          to : [config : 0 .. MaxInits, source : 0 .. MaxInits]]

AppendedInv ==
  /\ appended \in Seq(Given)
  /\ \A k \in 1 .. Len(appended) :
       appended[k].to = [config |-> appended[k].demuxer,
                         source |-> appended[k].demuxer]

\* What the HTSP reader thread has seen, and what has gone wrong.
CrashInv ==
  /\ reader \in {"idle", "parse", "check", "play", "set"}
  /\ held \in 0 .. MaxInits
  /\ reader = "play" => player_ # 0 \/ posted > 1
  /\ crash \in {"none", "null demuxer", "dead demuxer", "null player",
                "null packet", "null thread", "free of stack"}
  /\ crash \in {"dead demuxer", "null player", "null thread"} => posted > 1

Inv == /\ DataInv /\ LoopInv /\ DemuxInv /\ QueueInv /\ ConfigInv
       /\ AppendedInv /\ CrashInv
-----------------------------------------------------------------------------
(* What happens to the queue.                                              *)

LEMMA Bounds == MaxInits \in Nat /\ MaxPackets \in Nat /\ MaxMux \in Nat
  BY BoundsAssumption

LEMMA TasksAreTasks ==
  /\ InitTask \in Task
  /\ \A d \in Demuxers : EndTask(d) \in Task
  /\ \A d \in Demuxers, kind \in Kinds : ConfigTask(d, kind) \in Task
  /\ \A d \in Demuxers, kind \in Kinds, n \in 0 .. MaxPackets :
       PacketTask(d, kind, n) \in Task
  BY Bounds DEF InitTask, EndTask, ConfigTask, PacketTask, Task, Demuxers

LEMMA Posting ==
  ASSUME queue \in Seq(Task), NEW more \in Seq(Task), queue' = queue \o more
  PROVE  /\ queue' \in Seq(Task)
         /\ Len(queue') = Len(queue) + Len(more)
         /\ Len(queue) \in Nat /\ Len(more) \in Nat
         /\ \A k \in 1 .. Len(queue) : k \in 1 .. Len(queue') /\ queue'[k] = queue[k]
         /\ \A k \in 1 .. Len(queue') :
              \/ k \in 1 .. Len(queue)
              \/ /\ k > Len(queue) /\ k - Len(queue) \in 1 .. Len(more)
                 /\ queue'[k] = more[k - Len(queue)]
  <1>1. /\ queue' \in Seq(Task)
        /\ Len(queue') = Len(queue) + Len(more)
        /\ Len(queue) \in Nat /\ Len(more) \in Nat
        /\ \A k \in 1 .. Len(queue) + Len(more) :
             queue'[k] = IF k <= Len(queue) THEN queue[k] ELSE more[k - Len(queue)]
    BY ConcatProperties, LenProperties
  <1>2. ASSUME NEW k \in 1 .. Len(queue)
        PROVE  k \in 1 .. Len(queue') /\ queue'[k] = queue[k]
    BY <1>1
  <1>3. ASSUME NEW k \in 1 .. Len(queue'), k \notin 1 .. Len(queue)
        PROVE  /\ k > Len(queue) /\ k - Len(queue) \in 1 .. Len(more)
               /\ queue'[k] = more[k - Len(queue)]
    BY <1>1, <1>3
  <1> QED
    BY <1>1, <1>2, <1>3

LEMMA Removing ==
  ASSUME queue \in Seq(Task), queue # <<>>, queue' = Tail(queue)
  PROVE  /\ queue' \in Seq(Task)
         /\ Head(queue) = queue[1] /\ Head(queue) \in Task
         /\ 1 \in 1 .. Len(queue)
         /\ \A k \in 1 .. Len(queue') :
              k + 1 \in 1 .. Len(queue) /\ queue'[k] = queue[k + 1]
         /\ \A k \in 1 .. Len(queue) :
              k # 1 => k - 1 \in 1 .. Len(queue') /\ queue'[k - 1] = queue[k]
  <1>1. /\ queue' \in Seq(Task) /\ Len(queue') = Len(queue) - 1
        /\ Len(queue) \in Nat \ {0} /\ Head(queue) = queue[1]
        /\ Head(queue) \in Task
        /\ \A i \in 1 .. Len(queue') : queue'[i] = queue[i + 1]
    BY HeadTailProperties, LenProperties, EmptySeq
  <1>2. ASSUME NEW k \in 1 .. Len(queue), k # 1
        PROVE  k - 1 \in 1 .. Len(queue') /\ queue'[k - 1] = queue[k]
    <2>1. k - 1 \in 1 .. Len(queue') /\ (k - 1) + 1 = k
      BY <1>1, <1>2
    <2> QED
      BY <1>1, <2>1
  <1> QED
    BY <1>1, <1>2

LEMMA ConfigsFacts ==
  ASSUME NEW d \in Demuxers, NEW kinds \in SUBSET Kinds
  PROVE  /\ Configs(d, kinds) \in Seq(Task)
         /\ \A i \in 1 .. Len(Configs(d, kinds)) :
              /\ Configs(d, kinds)[i].what = "config"
              /\ Configs(d, kinds)[i].demuxer = d
         /\ "video" \in kinds =>
              \E i \in 1 .. Len(Configs(d, kinds)) :
                Configs(d, kinds)[i] = ConfigTask(d, "video")
  <1> DEFINE a == IF "audio" \in kinds THEN <<ConfigTask(d, "audio")>> ELSE <<>>
             v == IF "video" \in kinds THEN <<ConfigTask(d, "video")>> ELSE <<>>
  <1>1. ConfigTask(d, "audio") \in Task /\ ConfigTask(d, "video") \in Task
    BY TasksAreTasks DEF Kinds
  <1>2. \A kind : ConfigTask(d, kind).what = "config" /\ ConfigTask(d, kind).demuxer = d
    BY DEF ConfigTask
  <1>3. a \in Seq(Task) /\ \A i \in 1 .. Len(a) : a[i] = ConfigTask(d, "audio")
    BY <1>1
  <1>4. /\ v \in Seq(Task) /\ \A i \in 1 .. Len(v) : v[i] = ConfigTask(d, "video")
        /\ "video" \in kinds => Len(v) = 1
    BY <1>1
  <1>5. Configs(d, kinds) = a \o v
    BY DEF Configs
  <1> HIDE DEF a, v
  <1>6. /\ a \o v \in Seq(Task) /\ Len(a \o v) = Len(a) + Len(v)
        /\ Len(a) \in Nat /\ Len(v) \in Nat
        /\ \A i \in 1 .. Len(a) + Len(v) :
             (a \o v)[i] = IF i <= Len(a) THEN a[i] ELSE v[i - Len(a)]
    BY <1>3, <1>4, ConcatProperties, LenProperties
  <1>7. ASSUME NEW i \in 1 .. Len(a \o v)
        PROVE  (a \o v)[i] \in {ConfigTask(d, "audio"), ConfigTask(d, "video")}
    <2>1. CASE i <= Len(a)
      BY <1>3, <1>6, <2>1
    <2>2. CASE ~(i <= Len(a))
      <3>1. i - Len(a) \in 1 .. Len(v)
        BY <1>6, <2>2
      <3> QED
        BY <1>4, <1>6, <2>2, <3>1
    <2> QED
      BY <2>1, <2>2
  <1>8. ASSUME "video" \in kinds
        PROVE  /\ Len(a) + 1 \in 1 .. Len(a \o v)
               /\ (a \o v)[Len(a) + 1] = ConfigTask(d, "video")
    <2>1. Len(v) = 1 /\ v[1] = ConfigTask(d, "video")
      BY <1>4, <1>8
    <2>2. Len(a) + 1 \in 1 .. Len(a) + Len(v) /\ ~(Len(a) + 1 <= Len(a))
          /\ (Len(a) + 1) - Len(a) = 1
      BY <1>6, <2>1
    <2> QED
      BY <1>6, <2>1, <2>2
  <1>9. ASSUME NEW i \in 1 .. Len(a \o v)
        PROVE  (a \o v)[i].what = "config" /\ (a \o v)[i].demuxer = d
    BY <1>2, <1>7
  <1>10. "video" \in kinds => \E i \in 1 .. Len(a \o v) :
                               (a \o v)[i] = ConfigTask(d, "video")
    BY <1>8
  <1> QED
    BY <1>5, <1>6, <1>9, <1>10

\* What InitStreamInfo finds and posts.
LEMMA Finding ==
  ASSUME DataInv, NEW d \in Demuxers, InitStreamInfo(d)
  PROVE  /\ parser[d] \in {"starting", "finding"}
         /\ UNCHANGED <<loop, posted, controller, exited_, dead, demuxed, readerVars, crash>>
         /\ \E kinds \in SUBSET Kinds, step \in {"finding", "reading", "done"} :
              /\ found' = [found EXCEPT ![d] = found[d] \cup kinds]
              /\ queue' = queue \o Configs(d, kinds)
              /\ parser' = [parser EXCEPT ![d] = step]
              /\ step = "finding" => parser[d] = "starting" /\ "video" \notin kinds
  <1>1. CASE FindAudio(d)
    <2>1. PICK kinds \in SUBSET {"audio"} : Finds(d, kinds)
      BY <1>1 DEF FindAudio
    <2>2. kinds \in SUBSET Kinds /\ "video" \notin kinds
      BY DEF Kinds
    <2>3. parser[d] = "starting" /\ parser' = [parser EXCEPT ![d] = "finding"]
      BY <1>1 DEF FindAudio, ParserAt
    <2> QED
      BY <2>1, <2>2, <2>3 DEF Finds
  <1>2. CASE FindVideo(d)
    <2>1. PICK kinds \in SUBSET {"video"} :
                 /\ Finds(d, kinds)
                 /\ parser' = [parser EXCEPT ![d] = IF found[d] \cup kinds = {}
                                                   THEN "done" ELSE "reading"]
      BY <1>2 DEF FindVideo
    <2>2. kinds \in SUBSET Kinds
      BY DEF Kinds
    <2>3. parser[d] = "finding"
      BY <1>2 DEF FindVideo, ParserAt
    <2>4. CASE found[d] \cup kinds = {}
      BY <2>1, <2>2, <2>3, <2>4 DEF Finds
    <2>5. CASE found[d] \cup kinds # {}
      BY <2>1, <2>2, <2>3, <2>5 DEF Finds
    <2> QED
      BY <2>4, <2>5
  <1> QED
    BY <1>1, <1>2 DEF InitStreamInfo

\* A thread that runs is that of the demuxer whose tasks are in the queue.
LEMMA RunningIsCurrent ==
  ASSUME DataInv, LoopInv, DemuxInv, NEW d \in Demuxers,
         parser[d] \in {"starting", "finding", "reading"}
  PROVE  d = Cur /\ Cur >= 1 /\ loop \notin {"make", "open"} /\ Cur \in Demuxers
  <1>1. d = Cur
    BY DEF DemuxInv
  <1>2. loop \notin {"make", "open"}
    BY <1>1 DEF DemuxInv
  <1> QED
    BY <1>1, <1>2, Bounds DEF Demuxers
-----------------------------------------------------------------------------
(* Every step keeps the invariant, part by part.                           *)

\* The HTSP reader thread changes little.
LEMMA ReaderSteps ==
  ASSUME Reader
  PROVE  /\ UNCHANGED <<queue, loop, posted, demux>>
         /\ UNCHANGED <<demuxer_, player_, data_source_, videoInit, stream, attached,
                        appended>>
         /\ mux' = mux \/ (mux < MaxMux /\ mux' = mux + 1)
         /\ state_' \in {state_, "playing"}
  <1>1. CASE MuxPacket
    BY <1>1 DEF MuxPacket, controller
  <1>2. CASE Parse
    BY <1>2 DEF Parse, controller
  <1>3. CASE CheckPlayer
    BY <1>3 DEF CheckPlayer, controller
  <1>4. CASE CallPlay
    BY <1>4 DEF CallPlay, controller
  <1>5. CASE SetPlaying
    BY <1>5 DEF SetPlaying
  <1> QED
    BY <1>1, <1>2, <1>3, <1>4, <1>5 DEF Reader

LEMMA DataKeeps == ASSUME Inv, Next PROVE DataInv'
  <1> USE Bounds DEF Inv
  <1>1. CASE PostInitPlayer
    BY <1>1, TasksAreTasks, AppendProperties
       DEF PostInitPlayer, DataInv, controller, demux, readerVars
  <1>2. CASE InitPlayer
    <2>1. CASE StartInitPlayer
      BY <1>2, <2>1, Removing
         DEF StartInitPlayer, Runs, LoopAt, DataInv, controller, demux, readerVars
    <2>2. CASE CleanPlayer
      BY <2>2 DEF CleanPlayer, DataInv, demux, readerVars
    <2>3. CASE CreateDemuxer
      BY <2>3 DEF CreateDemuxer, DataInv, demux, readerVars
    <2>4. CASE DestroyDemuxer
      BY <2>4 DEF DestroyDemuxer, DataInv, controller, readerVars
    <2>5. CASE JoinParser
      BY <2>5, CancelledFacts DEF JoinParser, DataInv, controller, readerVars
    <2>6. CASE MakePlayer
      BY <2>6 DEF MakePlayer, DataInv, demux, readerVars
    <2>7. CASE OpenInput
      BY <2>7 DEF OpenInput, DataInv, controller, readerVars
    <2> QED
      BY <1>2, <2>1, <2>2, <2>3, <2>4, <2>5, <2>6, <2>7 DEF InitPlayer
  <1>3. ASSUME NEW d \in Demuxers, InitStreamInfo(d) PROVE DataInv'
    <2>1. PICK kinds \in SUBSET Kinds, step \in {"finding", "reading", "done"} :
                 /\ found' = [found EXCEPT ![d] = found[d] \cup kinds]
                 /\ queue' = queue \o Configs(d, kinds)
                 /\ parser' = [parser EXCEPT ![d] = step]
      BY <1>3, Finding
    <2>2. queue' \in Seq(Task)
      BY <2>1, ConfigsFacts, Posting DEF DataInv
    <2>3. UNCHANGED <<loop, controller, demuxed, readerVars>>
      BY <1>3, Finding
    <2> QED
      BY <2>1, <2>2, <2>3 DEF DataInv, controller, readerVars
  <1>4. ASSUME NEW d \in Demuxers, ReadFrame(d) PROVE DataInv'
    <2>1. PICK kind \in found[d] :
                 /\ demuxed[d][kind] < MaxPackets
                 /\ demuxed' = [demuxed EXCEPT ![d][kind] = @ + 1]
                 /\ queue' = Append(queue, PacketTask(d, kind, demuxed[d][kind] + 1))
      BY <1>4 DEF ReadFrame, PostWork
    <2>2. kind \in Kinds /\ demuxed[d][kind] \in 0 .. MaxPackets
      BY DEF DataInv
    <2>3. demuxed[d][kind] + 1 \in 0 .. MaxPackets
      BY <2>1, <2>2
    <2>4. queue' \in Seq(Task)
      BY <2>1, <2>2, <2>3, TasksAreTasks, AppendProperties DEF DataInv
    <2>5. demuxed' \in [Demuxers -> [Kinds -> 0 .. MaxPackets]]
      BY <2>1, <2>2, <2>3 DEF DataInv
    <2> QED
      BY <1>4, <2>4, <2>5 DEF ReadFrame, DataInv, controller, readerVars
  <1>5. ASSUME NEW d \in Demuxers, ReadEndOfFile(d) PROVE DataInv'
    BY <1>5, TasksAreTasks, AppendProperties
       DEF ReadEndOfFile, DataInv, controller, readerVars
  <1>6. ASSUME NEW d \in Demuxers, ReadFails(d) PROVE DataInv'
    BY <1>6 DEF ReadFails, DataInv, controller, readerVars
  <1>7. CASE Callback
    <2>1. queue' \in Seq(Task)
      BY <1>7, Removing
         DEF Callback, OnVideoConfig, OnAudioConfig, OnPacket, OnEndOfStream, Runs,
             DataInv
    <2>2. CASE OnVideoConfig
      BY <2>1, <2>2 DEF OnVideoConfig, audioInit, DataInv, demux, readerVars
    <2>3. CASE OnPacket
      BY <2>1, <2>3 DEF OnPacket, DataInv, demux, readerVars
    <2>4. CASE OnAudioConfig
      BY <2>1, <2>4 DEF OnAudioConfig, DataInv, controller, demux, readerVars
    <2>5. CASE OnEndOfStream
      BY <2>1, <2>5 DEF OnEndOfStream, DataInv, controller, demux, readerVars
    <2> QED
      BY <1>7, <2>2, <2>3, <2>4, <2>5 DEF Callback
  <1>8. CASE Reader
    <2>1. mux \in 0 .. MaxMux
      BY DEF DataInv
    <2>2. mux' \in 0 .. MaxMux
      BY <1>8, <2>1, ReaderSteps
    <2> QED
      BY <1>8, <2>2, ReaderSteps DEF DataInv, demux
  <1> QED
    BY <1>1, <1>2, <1>3, <1>4, <1>5, <1>6, <1>7, <1>8 DEF Next, Loop, Parser

\* What is posted by a parser thread is no call of InitPlayer.
LEMMA PostedWork ==
  ASSUME DataInv, NEW d \in Demuxers, Parser(d)
  PROVE  InitsIn(queue') = InitsIn(queue)
  <1>1. CASE InitStreamInfo(d)
    <2>1. PICK kinds \in SUBSET Kinds : queue' = queue \o Configs(d, kinds)
      BY <1>1, Finding
    <2>2. \A i \in 1 .. Len(Configs(d, kinds)) :
            Configs(d, kinds)[i].what # "InitPlayer"
      BY ConfigsFacts
    <2> QED
      BY <2>1, <2>2, ConfigsFacts, InitsConcat DEF DataInv
  <1>2. ASSUME NEW t \in Task, t.what # "InitPlayer", queue' = Append(queue, t)
        PROVE  InitsIn(queue') = InitsIn(queue)
    <2>1. queue' = queue \o <<t>>
      BY <1>2, AppendIsConcat DEF DataInv
    <2>2. <<t>> \in Seq(Task) /\ \A i \in 1 .. Len(<<t>>) : <<t>>[i].what # "InitPlayer"
      BY <1>2
    <2> HIDE DEF Task
    <2> QED
      BY <2>1, <2>2, InitsConcat DEF DataInv
  <1>3. CASE ReadFrame(d)
    <2>1. PICK kind \in found[d] :
                 /\ demuxed[d][kind] < MaxPackets
                 /\ queue' = Append(queue, PacketTask(d, kind, demuxed[d][kind] + 1))
      BY <1>3 DEF ReadFrame, PostWork
    <2>2. kind \in Kinds /\ demuxed[d][kind] + 1 \in 0 .. MaxPackets
      BY <2>1, Bounds DEF DataInv
    <2>3. PacketTask(d, kind, demuxed[d][kind] + 1) \in Task
      BY <2>2, TasksAreTasks
    <2>4. PacketTask(d, kind, demuxed[d][kind] + 1).what # "InitPlayer"
      BY DEF PacketTask
    <2> QED
      BY <1>2, <2>1, <2>3, <2>4
  <1>4. CASE ReadEndOfFile(d)
    <2>1. EndTask(d) \in Task /\ EndTask(d).what # "InitPlayer"
      BY TasksAreTasks DEF EndTask
    <2> QED
      BY <1>2, <1>4, <2>1 DEF ReadEndOfFile
  <1>5. CASE ReadFails(d)
    BY <1>5 DEF ReadFails
  <1> QED
    BY <1>1, <1>3, <1>4, <1>5 DEF Parser

LEMMA OneBegins ==
  ASSUME NEW d \in Nat, NEW u, NEW v, NEW x \in Nat, NEW y \in Nat, NEW p \in Nat,
         d + u + x <= p, u = 0, v = 1, y + 1 <= x
  PROVE  d + v + y <= p
  OBVIOUS

LEMMA NoneIsAdded ==
  ASSUME NEW d \in Nat, NEW u \in Nat, NEW v, NEW x \in Nat, NEW y \in Nat, NEW p \in Nat,
         d + u + x <= p, v = u, y <= x
  PROVE  d + v + y <= p
  OBVIOUS

LEMMA LoopKeeps == ASSUME Inv, Next PROVE LoopInv'
  <1> USE Bounds DEF Inv
  <1>1. /\ Asked \in Nat /\ demuxer_ \in Nat
        /\ posted \in 0 .. MaxInits /\ posted \in Nat
    BY InitsFinite DEF DataInv, LoopInv, Asked
  <1>2. Asked' \in Nat
    BY DataKeeps, InitsFinite DEF DataInv, Asked
  <1>3. CASE PostInitPlayer
    <2>1. Asked' = Asked + 1
      <3>1. InitTask \in Task /\ InitTask.what = "InitPlayer"
        BY TasksAreTasks DEF InitTask
      <3> QED
        BY <1>3, <3>1, InitsAppend DEF PostInitPlayer, DataInv, Asked
    <2>2. posted' = posted + 1 /\ posted < MaxInits /\ UNCHANGED <<loop, controller>>
      BY <1>3 DEF PostInitPlayer
    <2> QED
      BY <1>1, <2>1, <2>2 DEF LoopInv, Underway, controller
  <1>4. CASE StartInitPlayer
    <2>1. Asked' + 1 <= Asked
      <3>1. Head(queue).what = "InitPlayer" /\ queue # <<>> /\ queue' = Tail(queue)
        BY <1>4 DEF StartInitPlayer, Runs
      <3> QED
        BY <3>1, <1>1, <1>2, InitsTail DEF DataInv, Asked
    <2>2. /\ loop = "idle" /\ loop' = "clean"
          /\ UNCHANGED <<posted, controller>>
      BY <1>4 DEF StartInitPlayer, Runs, LoopAt
    <2>3. Underway = 0 /\ Underway' = 1
      BY <2>2 DEF Underway
    <2>4. demuxer_ + Underway' + Asked' <= posted
      BY <1>1, <1>2, <2>1, <2>3, OneBegins DEF LoopInv
    <2> QED
      BY <2>2, <2>4 DEF LoopInv, controller
  <1>5. ASSUME queue' = queue PROVE Asked' = Asked
    BY <1>5 DEF Asked
  <1>6. CASE CleanPlayer
    BY <1>1, <1>5, <1>6 DEF CleanPlayer, LoopAt, LoopInv, Underway
  <1>7. CASE CreateDemuxer
    BY <1>1, <1>5, <1>7 DEF CreateDemuxer, LoopAt, LoopInv, Underway
  <1>8. CASE DestroyDemuxer
    BY <1>1, <1>5, <1>8 DEF DestroyDemuxer, LoopAt, LoopInv, Underway, controller
  <1>9. CASE JoinParser
    <2>1. Asked' <= Asked
      BY <1>9, InitsCancelled DEF JoinParser, DataInv, Asked
    <2>2. loop = "join" /\ loop' = "make" /\ UNCHANGED <<posted, controller>>
      BY <1>9 DEF JoinParser, LoopAt
    <2>3. Underway \in Nat /\ Underway' = Underway
      BY <2>2 DEF Underway
    <2>4. demuxer_ + Underway' + Asked' <= posted
      BY <1>1, <1>2, <2>1, <2>3, NoneIsAdded DEF LoopInv
    <2> QED
      BY <1>1, <2>2, <2>4 DEF LoopInv, controller
  <1>10. CASE MakePlayer
    BY <1>1, <1>5, <1>10 DEF MakePlayer, LoopAt, LoopInv, Underway
  <1>11. CASE OpenInput
    BY <1>1, <1>5, <1>11 DEF OpenInput, LoopAt, LoopInv, Underway, controller
  <1>12. ASSUME NEW d \in Demuxers, Parser(d) PROVE LoopInv'
    <2>1. Asked' = Asked
      BY <1>12, PostedWork DEF Asked
    <2>2. UNCHANGED <<loop, posted, controller>>
      BY <1>12, Finding DEF Parser, ReadFrame, ReadEndOfFile, ReadFails
    <2> QED
      BY <1>1, <2>1, <2>2 DEF LoopInv, Underway, controller
  <1>13. CASE Callback
    <2>1. /\ queue # <<>> /\ queue' = Tail(queue)
          /\ UNCHANGED <<loop, posted, demuxer_, player_, data_source_>>
      BY <1>13 DEF Callback, OnVideoConfig, OnAudioConfig, OnPacket, OnEndOfStream,
                   Runs, controller
    <2>2. Asked' <= Asked
      <3>1. Asked' <= Asked - (IF Head(queue).what = "InitPlayer" THEN 1 ELSE 0)
        BY <2>1, InitsTail DEF DataInv, Asked
      <3> QED
        BY <1>1, <1>2, <3>1
    <2>3. stream' \in [config : 0 .. MaxInits, source : 0 .. MaxInits]
      <3>1. CASE OnVideoConfig
        <4>1. Head(queue).demuxer \in 0 .. MaxInits
          BY <2>1, Removing DEF DataInv, Task
        <4>2. data_source_ \in 0 .. MaxInits
          BY <1>1 DEF LoopInv, Underway
        <4> QED
          BY <3>1, <4>1, <4>2 DEF OnVideoConfig
      <3>2. CASE ~OnVideoConfig
        BY <1>13, <3>2 DEF Callback, OnAudioConfig, OnPacket, OnEndOfStream,
                           controller, LoopInv
      <3> QED
        BY <3>1, <3>2
    <2>4. Underway' = Underway /\ Underway \in Nat
      BY <2>1 DEF Underway
    <2>5. demuxer_ + Underway' + Asked' <= posted
      BY <1>1, <1>2, <2>2, <2>4, NoneIsAdded DEF LoopInv
    <2> QED
      BY <2>1, <2>3, <2>5 DEF LoopInv
  <1>14. CASE Reader
    BY <1>1, <1>5, <1>14, ReaderSteps DEF LoopInv, Underway
  <1> QED
    BY <1>3, <1>4, <1>6, <1>7, <1>8, <1>9, <1>10, <1>11, <1>12, <1>13, <1>14
       DEF Next, Loop, InitPlayer

LEMMA DemuxerNumbers ==
  ASSUME DataInv, LoopInv
  PROVE  /\ demuxer_ \in 0 .. MaxInits /\ demuxer_ <= posted /\ posted \in Nat
         /\ Cur \in 0 .. MaxInits /\ Cur <= demuxer_
         /\ loop \in {"clean", "create"} => demuxer_ + 1 <= posted
         /\ loop \in {"destroy", "join"} => Cur \in Demuxers
         /\ loop \in {"make", "open"} => demuxer_ \in Demuxers
  <1>1. Asked \in Nat /\ demuxer_ \in Nat /\ posted \in 0 .. MaxInits
    BY InitsFinite DEF DataInv, LoopInv, Asked
  <1>2. demuxer_ + Underway <= posted
    BY <1>1 DEF LoopInv, Underway
  <1>3. loop \in {"clean", "create"} => demuxer_ + 1 <= posted
    BY <1>1, <1>2 DEF Underway
  <1>4. demuxer_ <= posted
    BY <1>1, <1>2 DEF Underway
  <1> QED
    BY <1>1, <1>3, <1>4, Bounds DEF LoopInv, Cur, Demuxers

LEMMA DemuxKeeps == ASSUME Inv, Next PROVE DemuxInv'
  <1> USE Bounds DEF Inv
  <1>1. /\ demuxer_ \in 0 .. MaxInits /\ Cur \in 0 .. MaxInits
        /\ parser \in [Demuxers -> {"none", "starting", "finding", "reading", "done"}]
        /\ found \in [Demuxers -> SUBSET Kinds]
    BY DemuxerNumbers DEF DataInv
  <1>2. CASE UNCHANGED <<loop, demuxer_, demux>>
    BY <1>2 DEF DemuxInv, Cur, demux
  <1>3. CASE StartInitPlayer \/ CleanPlayer
    <2>1. /\ loop \in {"idle", "clean"} /\ loop' \in {"clean", "create"}
          /\ UNCHANGED <<demuxer_, demux>>
      BY <1>3 DEF StartInitPlayer, CleanPlayer, Runs, LoopAt, controller
    <2> QED
      BY <2>1 DEF DemuxInv, Cur, demux
  <1>4. CASE CreateDemuxer
    <2>1. loop = "create" /\ demuxer_' = demuxer_ + 1 /\ Cur = demuxer_
          /\ loop' = (IF demuxer_ = 0 THEN "make" ELSE "destroy") /\ UNCHANGED demux
      BY <1>4 DEF CreateDemuxer, LoopAt, Cur
    <2>2. CASE demuxer_ = 0
      <3>1. Cur' = 1 /\ loop' = "make"
        BY <2>1, <2>2 DEF Cur
      <3>2. \A d \in Demuxers : d > Cur
        BY <2>1, <2>2 DEF Demuxers
      <3>3. \A d \in Demuxers : parser[d] = "none"
        BY <3>2 DEF DemuxInv
      <3>4. dead = {}
        BY <2>1, <2>2, <3>2, <1>1 DEF DemuxInv, Demuxers
      <3> QED
        BY <2>1, <3>1, <3>3, <3>4 DEF DemuxInv, demux
    <2>3. CASE demuxer_ # 0
      <3>1. Cur' = Cur /\ loop' = "destroy"
        BY <1>1, <2>1, <2>3 DEF Cur
      <3> QED
        BY <2>1, <3>1 DEF DemuxInv, demux
    <2> QED
      BY <2>2, <2>3
  <1>5. CASE DestroyDemuxer
    <2>1. /\ loop = "destroy" /\ loop' = "join" /\ exited_' = exited_ \cup {demuxer_ - 1}
          /\ UNCHANGED <<demuxer_, parser, found, dead>>
      BY <1>5 DEF DestroyDemuxer, LoopAt, controller
    <2>2. Cur' = Cur /\ Cur = demuxer_ - 1 /\ Cur \in Demuxers
      BY <2>1, DemuxerNumbers DEF Cur
    <2> QED
      BY <2>1, <2>2 DEF DemuxInv
  <1>6. CASE JoinParser
    <2>1. /\ loop = "join" /\ loop' = "make" /\ parser[demuxer_ - 1] = "done"
          /\ dead' = dead \cup {demuxer_ - 1}
          /\ UNCHANGED <<demuxer_, parser, found, exited_>>
      BY <1>6 DEF JoinParser, Joinable, LoopAt, controller
    <2>2. Cur' = demuxer_ /\ Cur = demuxer_ - 1 /\ Cur \in Demuxers /\ Cur < demuxer_
      BY <1>1, <2>1, DemuxerNumbers DEF Cur
    <2>3. \A d \in Demuxers : d \in Int
      BY DEF Demuxers
    <2>4. ASSUME NEW d \in Demuxers, d # demuxer_ PROVE parser[d] \in {"none", "done"}
      BY <2>1, <2>2 DEF DemuxInv
    <2>5. ASSUME NEW d \in Demuxers, d > demuxer_ \/ d = demuxer_
          PROVE  parser[d] = "none"
      <3>1. d > Cur
        BY <1>1, <2>2, <2>3, <2>5
      <3> QED
        BY <3>1 DEF DemuxInv
    <2>6. ASSUME NEW d \in dead' PROVE d < demuxer_ /\ parser[d] = "done"
      <3>1. CASE d \in dead
        <4>1. d < Cur /\ parser[d] = "done" /\ d \in Demuxers
          BY <3>1 DEF DemuxInv
        <4> QED
          BY <1>1, <2>2, <2>3, <4>1
      <3>2. CASE d = demuxer_ - 1
        BY <2>1, <2>2, <3>2
      <3> QED
        BY <2>1, <2>6, <3>1, <3>2
    <2>7. dead' \subseteq exited_
      BY <2>1 DEF DemuxInv
    <2> QED
      BY <2>1, <2>2, <2>4, <2>5, <2>6, <2>7 DEF DemuxInv
  <1>7. CASE MakePlayer
    <2>1. loop = "make" /\ loop' = "open" /\ UNCHANGED <<demuxer_, demux>>
      BY <1>7 DEF MakePlayer, LoopAt
    <2> QED
      BY <2>1 DEF DemuxInv, Cur, demux
  <1>8. CASE OpenInput
    <2>1. /\ loop = "open" /\ loop' = "idle"
          /\ parser' \in {parser, [parser EXCEPT ![demuxer_] = "starting"]}
          /\ UNCHANGED <<demuxer_, found, exited_, dead>>
      BY <1>8 DEF OpenInput, LoopAt, controller
    <2>2. Cur = demuxer_ /\ Cur' = Cur /\ Cur \in Demuxers /\ parser[Cur] = "none"
      BY <2>1, DemuxerNumbers DEF Cur, DemuxInv
    <2>3. \A d \in Demuxers : d # Cur => parser'[d] = parser[d]
      BY <1>1, <2>1, <2>2
    <2>4. parser'[Cur] \in {"none", "starting"} /\ found[Cur] = {}
      BY <1>1, <2>1, <2>2 DEF DemuxInv
    <2>5. \A d \in Demuxers : d > Cur => d # Cur
      BY <1>1 DEF Demuxers
    <2>6. \A d \in dead : d # Cur /\ d \in Demuxers
      BY <1>1 DEF DemuxInv, Demuxers
    <2> QED
      BY <2>1, <2>2, <2>3, <2>4, <2>5, <2>6 DEF DemuxInv
  <1>9. ASSUME NEW d \in Demuxers, Parser(d) PROVE DemuxInv'
    <2>1. /\ parser[d] \in {"starting", "finding", "reading"}
          /\ UNCHANGED <<loop, demuxer_, exited_, dead>>
      BY <1>9, Finding DEF Parser, ReadFrame, ReadEndOfFile, ReadFails, ParserAt,
                           controller
    <2>2. d = Cur /\ Cur' = Cur /\ loop \notin {"make", "open"}
      BY <2>1, RunningIsCurrent DEF Cur
    <2>3. /\ \A e \in Demuxers : e # d => parser'[e] = parser[e] /\ found'[e] = found[e]
          /\ parser'[d] \in {"finding", "reading", "done"}
          /\ parser'[d] = "finding" => "video" \notin found'[d]
      <3>1. CASE InitStreamInfo(d)
        <4>1. PICK kinds \in SUBSET Kinds, step \in {"finding", "reading", "done"} :
                     /\ found' = [found EXCEPT ![d] = found[d] \cup kinds]
                     /\ parser' = [parser EXCEPT ![d] = step]
                     /\ step = "finding" => parser[d] = "starting" /\ "video" \notin kinds
          BY <3>1, Finding
        <4>2. parser[d] = "starting" => found[d] = {}
          BY DEF DemuxInv
        <4> QED
          BY <1>1, <4>1, <4>2
      <3>2. CASE ReadFrame(d)
        BY <1>1, <3>2 DEF ReadFrame, ParserAt
      <3>3. CASE ReadEndOfFile(d) \/ ReadFails(d)
        BY <1>1, <3>3 DEF ReadEndOfFile, ReadFails
      <3> QED
        BY <1>9, <3>1, <3>2, <3>3 DEF Parser
    <2>4. \A e \in Demuxers : e > Cur => e # Cur
      BY <1>1 DEF Demuxers
    <2>5. \A e \in dead : e # Cur /\ e \in Demuxers
      BY <1>1 DEF DemuxInv, Demuxers
    <2> QED
      BY <2>1, <2>2, <2>3, <2>4, <2>5 DEF DemuxInv
  <1>10. CASE PostInitPlayer \/ Callback
    <2>1. UNCHANGED <<loop, demuxer_, demux>>
      BY <1>10 DEF PostInitPlayer, Callback, OnVideoConfig, OnAudioConfig, OnPacket,
                   OnEndOfStream, controller
    <2> QED
      BY <1>2, <2>1
  <1>11. CASE Reader
    BY <1>2, <1>11, ReaderSteps
  <1> QED
    BY <1>3, <1>4, <1>5, <1>6, <1>7, <1>8, <1>9, <1>10, <1>11
       DEF Next, Loop, InitPlayer

\* What may wait when the loop is at another step.
LEMMA QueueStays ==
  ASSUME QueueInv, queue' = queue, Cur' = Cur,
         loop \notin {"make", "open"} => loop' \notin {"make", "open"}
  PROVE  QueueInv'
  BY DEF QueueInv

LEMMA QueueShrinks ==
  ASSUME DataInv, QueueInv, queue # <<>>, queue' = Tail(queue), Cur' = Cur,
         loop' \notin {"make", "open"}
  PROVE  QueueInv'
  BY Removing DEF QueueInv, DataInv

LEMMA QueueGrows ==
  ASSUME DataInv, QueueInv, UNCHANGED loop, Cur' = Cur,
         NEW more \in Seq(Task), queue' = queue \o more,
         \A i \in 1 .. Len(more) :
           /\ more[i].what = "InitPlayer" => more[i].demuxer = 0
           /\ more[i].what # "InitPlayer" =>
                more[i].demuxer = Cur /\ Cur >= 1 /\ loop \notin {"make", "open"}
           /\ more[i].what = "packet" => more[i].n >= 1
  PROVE  QueueInv'
  <1>1. \A k \in 1 .. Len(queue') :
          \/ k \in 1 .. Len(queue) /\ queue'[k] = queue[k]
          \/ k - Len(queue) \in 1 .. Len(more) /\ queue'[k] = more[k - Len(queue)]
    BY Posting DEF DataInv
  <1> SUFFICES ASSUME NEW k \in 1 .. Len(queue')
               PROVE  /\ queue'[k].what = "InitPlayer" => queue'[k].demuxer = 0
                      /\ queue'[k].what # "InitPlayer" =>
                           queue'[k].demuxer = Cur /\ Cur >= 1 /\ loop \notin {"make", "open"}
                      /\ queue'[k].what = "packet" => queue'[k].n >= 1
    BY DEF QueueInv
  <1>2. CASE k \in 1 .. Len(queue) /\ queue'[k] = queue[k]
    BY <1>2 DEF QueueInv
  <1>3. CASE k - Len(queue) \in 1 .. Len(more) /\ queue'[k] = more[k - Len(queue)]
    BY <1>3
  <1> QED
    BY <1>1, <1>2, <1>3

\* What a parser thread posts, and what follows for the queue.
LEMMA ParserPosts ==
  ASSUME Inv, NEW d \in Demuxers, Parser(d)
  PROVE  /\ d = Cur /\ Cur' = Cur /\ Cur >= 1
         /\ UNCHANGED <<loop, controller>>
         /\ loop \notin {"make", "open"}
         /\ parser[d] \in {"starting", "finding", "reading"}
         /\ \/ /\ parser[d] \in {"starting", "finding"}
               /\ \E kinds \in SUBSET Kinds :
                    found'[d] = found[d] \cup kinds /\ queue' = queue \o Configs(d, kinds)
            \/ /\ found' = found
               /\ \/ queue' = queue
                  \/ queue' = queue \o <<EndTask(d)>>
                  \/ \E kind \in found[d], n \in 1 .. MaxPackets :
                       queue' = queue \o <<PacketTask(d, kind, n)>>
  <1> USE Bounds DEF Inv
  <1>1. /\ parser[d] \in {"starting", "finding", "reading"}
        /\ UNCHANGED <<loop, controller>>
    BY Finding DEF Parser, ReadFrame, ReadEndOfFile, ReadFails, ParserAt
  <1>2. d = Cur /\ Cur' = Cur /\ loop \notin {"make", "open"} /\ Cur >= 1
    BY <1>1, RunningIsCurrent DEF Cur, controller
  <1>3. CASE InitStreamInfo(d)
    <2>1. /\ parser[d] \in {"starting", "finding"}
          /\ \E kinds \in SUBSET Kinds :
               /\ found' = [found EXCEPT ![d] = found[d] \cup kinds]
               /\ queue' = queue \o Configs(d, kinds)
      BY <1>3, Finding
    <2>2. \E kinds \in SUBSET Kinds :
            found'[d] = found[d] \cup kinds /\ queue' = queue \o Configs(d, kinds)
      BY <2>1 DEF DataInv
    <2> QED
      BY <1>1, <1>2, <2>1, <2>2
  <1>4. CASE ReadFrame(d)
    <2>1. PICK kind \in found[d] :
                 /\ demuxed[d][kind] < MaxPackets
                 /\ queue' = Append(queue, PacketTask(d, kind, demuxed[d][kind] + 1))
      BY <1>4 DEF ReadFrame, PostWork
    <2>2. kind \in Kinds /\ demuxed[d][kind] + 1 \in 1 .. MaxPackets
      BY <2>1 DEF DataInv
    <2>3. PacketTask(d, kind, demuxed[d][kind] + 1) \in Task
      BY <2>2, TasksAreTasks
    <2>4. queue' = queue \o <<PacketTask(d, kind, demuxed[d][kind] + 1)>>
      BY <2>1, <2>3, AppendIsConcat DEF DataInv
    <2>5. found' = found
      BY <1>4 DEF ReadFrame
    <2> QED
      BY <1>1, <1>2, <2>2, <2>4, <2>5
  <1>5. CASE ReadEndOfFile(d)
    <2>1. queue' = queue \o <<EndTask(d)>>
      BY <1>5, TasksAreTasks, AppendIsConcat DEF ReadEndOfFile, DataInv
    <2> QED
      BY <1>1, <1>2, <1>5, <2>1 DEF ReadEndOfFile
  <1>6. CASE ReadFails(d)
    BY <1>1, <1>2, <1>6 DEF ReadFails
  <1> QED
    BY <1>3, <1>4, <1>5, <1>6 DEF Parser

\* After the old demuxer is gone, only calls of InitPlayer wait.
LEMMA OnlyCallsLeft ==
  ASSUME Inv, JoinParser
  PROVE  \A k \in 1 .. Len(queue') : queue'[k].what = "InitPlayer" /\ queue'[k].demuxer = 0
  <1> USE DEF Inv
  <1>1. queue' = Cancelled(queue, demuxer_ - 1) /\ Cur = demuxer_ - 1
    BY DEF JoinParser, LoopAt, Cur
  <1>2. PICK from \in [1 .. Len(queue') -> 1 .. Len(queue)] :
               \A i \in 1 .. Len(queue') : /\ queue'[i] = queue[from[i]]
                                          /\ queue'[i].demuxer # demuxer_ - 1
    BY <1>1, CancelledFacts DEF DataInv
  <1> SUFFICES ASSUME NEW k \in 1 .. Len(queue')
               PROVE  queue'[k].what = "InitPlayer" /\ queue'[k].demuxer = 0
    OBVIOUS
  <1>3. /\ from[k] \in 1 .. Len(queue) /\ queue'[k] = queue[from[k]]
        /\ queue[from[k]].demuxer # Cur
    BY <1>1, <1>2
  <1> QED
    BY <1>3 DEF QueueInv

LEMMA QueueKeeps == ASSUME Inv, Next PROVE QueueInv'
  <1> USE DEF Inv
  <1>1. CASE PostInitPlayer
    <2>1. InitTask \in Task /\ InitTask.what = "InitPlayer" /\ InitTask.demuxer = 0
      BY TasksAreTasks DEF InitTask
    <2>2. queue' = queue \o <<InitTask>> /\ <<InitTask>> \in Seq(Task)
      BY <1>1, <2>1, AppendIsConcat DEF PostInitPlayer, DataInv
    <2>3. Cur' = Cur /\ UNCHANGED loop
      BY <1>1 DEF PostInitPlayer, controller, Cur
    <2>4. \A i \in 1 .. Len(<<InitTask>>) : <<InitTask>>[i] = InitTask
      OBVIOUS
    <2>5. \A i \in 1 .. Len(<<InitTask>>) :
            /\ <<InitTask>>[i].what = "InitPlayer" /\ <<InitTask>>[i].demuxer = 0
      BY <2>1, <2>4
    <2> HIDE DEF InitTask
    <2> QED
      BY <2>2, <2>3, <2>5, QueueGrows
  <1>2. CASE StartInitPlayer
    BY <1>2, QueueShrinks DEF StartInitPlayer, Runs, LoopAt, controller, Cur
  <1>3. CASE CleanPlayer \/ DestroyDemuxer \/ MakePlayer \/ OpenInput
    <2>1. /\ queue' = queue /\ demuxer_' = demuxer_
          /\ \/ loop = "clean" /\ loop' = "create"
             \/ loop = "destroy" /\ loop' = "join"
             \/ loop = "make" /\ loop' = "open"
             \/ loop = "open" /\ loop' = "idle"
      BY <1>3 DEF CleanPlayer, DestroyDemuxer, MakePlayer, OpenInput, LoopAt, controller
    <2> QED
      BY <2>1, QueueStays DEF Cur
  <1>4. CASE CreateDemuxer
    <2>1. /\ loop = "create" /\ demuxer_' = demuxer_ + 1 /\ Cur = demuxer_
          /\ loop' = (IF demuxer_ = 0 THEN "make" ELSE "destroy") /\ queue' = queue
      BY <1>4 DEF CreateDemuxer, LoopAt, Cur
    <2>2. CASE demuxer_ = 0
      <3>1. \A k \in 1 .. Len(queue) : queue[k].what = "InitPlayer"
        BY <2>1, <2>2 DEF QueueInv
      <3> QED
        BY <2>1, <3>1 DEF QueueInv
    <2>3. CASE demuxer_ # 0
      <3>1. Cur' = Cur
        BY <2>1, <2>3, DemuxerNumbers DEF Cur
      <3> QED
        BY <2>1, <2>3, <3>1, QueueStays
    <2> QED
      BY <2>2, <2>3
  <1>5. CASE JoinParser
    BY <1>5, OnlyCallsLeft DEF QueueInv
  <1>6. ASSUME NEW d \in Demuxers, Parser(d) PROVE QueueInv'
    <2>1. /\ d = Cur /\ Cur' = Cur /\ Cur >= 1 /\ UNCHANGED loop
          /\ loop \notin {"make", "open"}
      BY <1>6, ParserPosts
    <2>2. ASSUME NEW kinds \in SUBSET Kinds, queue' = queue \o Configs(d, kinds)
          PROVE  QueueInv'
      <3>1. \A i \in 1 .. Len(Configs(d, kinds)) :
              /\ Configs(d, kinds)[i].what = "config"
              /\ Configs(d, kinds)[i].demuxer = Cur
        BY <2>1, ConfigsFacts
      <3> QED
        BY <2>1, <2>2, <3>1, ConfigsFacts, QueueGrows
    <2>3. ASSUME NEW task \in Task, queue' = queue \o <<task>>, task.demuxer = d,
                 task.what # "InitPlayer", task.what = "packet" => task.n >= 1
          PROVE  QueueInv'
      <3>1. <<task>> \in Seq(Task) /\ \A i \in 1 .. Len(<<task>>) : <<task>>[i] = task
        OBVIOUS
      <3> QED
        BY <2>1, <2>3, <3>1, QueueGrows
    <2>4. CASE queue' = queue \o <<EndTask(d)>>
      <3>1. /\ EndTask(d) \in Task /\ EndTask(d).demuxer = d /\ EndTask(d).what = "end"
        BY TasksAreTasks DEF EndTask
      <3> QED
        BY <2>3, <2>4, <3>1
    <2>5. ASSUME NEW kind \in found[d], NEW n \in 1 .. MaxPackets,
                 queue' = queue \o <<PacketTask(d, kind, n)>>
          PROVE  QueueInv'
      <3>1. kind \in Kinds /\ n \in 0 .. MaxPackets /\ n >= 1
        BY Bounds DEF DataInv
      <3>2. /\ PacketTask(d, kind, n) \in Task /\ PacketTask(d, kind, n).demuxer = d
            /\ PacketTask(d, kind, n).what = "packet" /\ PacketTask(d, kind, n).n = n
        BY <3>1, TasksAreTasks DEF PacketTask
      <3> QED
        BY <2>3, <2>5, <3>1, <3>2
    <2>6. CASE queue' = queue
      BY <2>1, <2>6, QueueStays
    <2> QED
      BY <1>6, <2>2, <2>4, <2>5, <2>6, ParserPosts
  <1>7. CASE Callback
    <2>1. /\ loop = "idle" /\ queue # <<>> /\ queue' = Tail(queue)
          /\ UNCHANGED <<loop, demuxer_>>
      BY <1>7 DEF Callback, OnVideoConfig, OnAudioConfig, OnPacket, OnEndOfStream,
                  Runs, LoopAt, controller
    <2> QED
      BY <2>1, QueueShrinks DEF Cur
  <1>8. CASE Reader
    BY <1>8, ReaderSteps, QueueStays DEF Cur
  <1> QED
    BY <1>1, <1>2, <1>3, <1>4, <1>5, <1>6, <1>7, <1>8 DEF Next, Loop, InitPlayer

\* The configuration stays before the packets while nothing is posted or run.
LEMMA ConfigStays ==
  ASSUME ConfigInv, queue' = queue, found' = found, Cur' = Cur,
         UNCHANGED <<videoInit, stream>>
  PROVE  ConfigInv'
  BY DEF ConfigInv, Configured, VideoConfigAt, VideoPacketAt

\* It is not lost when another task is run, and not missed when it is.
LEMMA ConfigRuns ==
  ASSUME DataInv, ConfigInv, queue # <<>>, queue' = Tail(queue), found' = found,
         Cur' = Cur,
         \/ Configured'
         \/ ~VideoConfigAt(1) /\ UNCHANGED <<videoInit, stream>>
  PROVE  ConfigInv'
  <1>1. /\ 1 \in 1 .. Len(queue) /\ Len(queue) \in Nat
        /\ \A k \in 1 .. Len(queue') :
             k + 1 \in 1 .. Len(queue) /\ queue'[k] = queue[k + 1]
        /\ \A k \in 1 .. Len(queue) :
             k # 1 => k - 1 \in 1 .. Len(queue') /\ queue'[k - 1] = queue[k]
    BY Removing, LenProperties DEF DataInv
  <1>2. ASSUME NEW k \in 1 .. Len(queue'), VideoPacketAt(k)'
        PROVE  /\ Cur \in Demuxers /\ "video" \in found[Cur]
               /\ k + 1 \in 1 .. Len(queue) /\ VideoPacketAt(k + 1)
    <2>1. k + 1 \in 1 .. Len(queue) /\ VideoPacketAt(k + 1)
      BY <1>1, <1>2 DEF VideoPacketAt
    <2> QED
      BY <2>1 DEF ConfigInv
  <1>3. ASSUME ~Configured', Cur \in Demuxers, "video" \in found[Cur]
        PROVE  \E j \in 1 .. Len(queue') :
                 /\ VideoConfigAt(j)'
                 /\ \A k \in 1 .. Len(queue') : VideoPacketAt(k)' => j < k
    <2>1. ~Configured /\ ~VideoConfigAt(1)
      BY <1>3 DEF Configured
    <2>2. PICK j \in 1 .. Len(queue) :
                 /\ VideoConfigAt(j)
                 /\ \A k \in 1 .. Len(queue) : VideoPacketAt(k) => j < k
      BY <1>3, <2>1 DEF ConfigInv
    <2>3. j # 1
      BY <2>1, <2>2
    <2>4. j - 1 \in 1 .. Len(queue') /\ VideoConfigAt(j - 1)'
      BY <1>1, <2>2, <2>3 DEF VideoConfigAt
    <2>5. ASSUME NEW k \in 1 .. Len(queue'), VideoPacketAt(k)' PROVE j - 1 < k
      <3>1. j < k + 1
        BY <1>2, <2>2, <2>5
      <3> QED
        BY <3>1
    <2> QED
      BY <2>4, <2>5
  <1> QED
    BY <1>2, <1>3 DEF ConfigInv

\* A task at the end of the queue is no video packet that nobody waits for.
LEMMA ConfigPosted ==
  ASSUME DataInv, ConfigInv, NEW task \in Task, queue' = queue \o <<task>>,
         found' = found, Cur' = Cur, UNCHANGED <<videoInit, stream>>,
         task.what = "packet" /\ task.kind = "video" =>
           Cur \in Demuxers /\ "video" \in found[Cur]
  PROVE  ConfigInv'
  <1>1. <<task>> \in Seq(Task) /\ Len(<<task>>) = 1 /\ <<task>>[1] = task
    OBVIOUS
  <1>2. /\ Len(queue) \in Nat
        /\ \A k \in 1 .. Len(queue) : k \in 1 .. Len(queue') /\ queue'[k] = queue[k]
        /\ \A k \in 1 .. Len(queue') :
             \/ k \in 1 .. Len(queue)
             \/ /\ k > Len(queue) /\ k - Len(queue) \in 1 .. Len(<<task>>)
                /\ queue'[k] = <<task>>[k - Len(queue)]
    BY <1>1, Posting DEF DataInv
  <1>3. ASSUME NEW k \in 1 .. Len(queue'), k \notin 1 .. Len(queue)
        PROVE  k > Len(queue) /\ queue'[k] = task
    <2>1. k - Len(queue) = 1
      BY <1>1, <1>2, <1>3
    <2> QED
      BY <1>1, <1>2, <1>3, <2>1
  <1>4. ASSUME NEW k \in 1 .. Len(queue'), VideoPacketAt(k)'
        PROVE  Cur \in Demuxers /\ "video" \in found[Cur]
    <2>1. CASE k \in 1 .. Len(queue)
      <3>1. VideoPacketAt(k)
        BY <1>2, <1>4, <2>1 DEF VideoPacketAt
      <3> QED
        BY <2>1, <3>1 DEF ConfigInv
    <2>2. CASE k \notin 1 .. Len(queue)
      BY <1>3, <1>4, <2>2 DEF VideoPacketAt
    <2> QED
      BY <2>1, <2>2
  <1>5. ASSUME ~Configured', Cur \in Demuxers, "video" \in found[Cur]
        PROVE  \E j \in 1 .. Len(queue') :
                 /\ VideoConfigAt(j)'
                 /\ \A k \in 1 .. Len(queue') : VideoPacketAt(k)' => j < k
    <2>1. PICK j \in 1 .. Len(queue) :
                 /\ VideoConfigAt(j)
                 /\ \A k \in 1 .. Len(queue) : VideoPacketAt(k) => j < k
      BY <1>5 DEF ConfigInv, Configured
    <2>2. ASSUME NEW k \in 1 .. Len(queue'), VideoPacketAt(k)' PROVE j < k
      <3>1. CASE k \in 1 .. Len(queue)
        <4>1. VideoPacketAt(k)
          BY <1>2, <2>2, <3>1 DEF VideoPacketAt
        <4> QED
          BY <2>1, <3>1, <4>1
      <3>2. CASE k \notin 1 .. Len(queue)
        BY <1>2, <1>3, <3>2
      <3> QED
        BY <3>1, <3>2
    <2> QED
      <3>1. VideoConfigAt(j)'
        BY <1>2, <2>1 DEF VideoConfigAt
      <3> QED
        BY <1>2, <2>1, <2>2, <3>1
  <1> QED
    BY <1>4, <1>5 DEF ConfigInv

LEMMA ConfigKeeps == ASSUME Inv, Next PROVE ConfigInv'
  <1> USE DEF Inv
  <1>1. CASE PostInitPlayer
    <2>1. InitTask \in Task /\ InitTask.what = "InitPlayer"
      BY TasksAreTasks DEF InitTask
    <2>2. queue' = queue \o <<InitTask>>
      BY <1>1, <2>1, AppendIsConcat DEF PostInitPlayer, DataInv
    <2>3. Cur' = Cur /\ UNCHANGED <<found, videoInit, stream>>
      BY <1>1 DEF PostInitPlayer, controller, demux, Cur
    <2> HIDE DEF InitTask
    <2> QED
      BY <2>1, <2>2, <2>3, ConfigPosted
  <1>2. CASE StartInitPlayer
    <2>1. /\ queue # <<>> /\ queue' = Tail(queue) /\ Head(queue).what = "InitPlayer"
          /\ UNCHANGED <<found, videoInit, stream>> /\ Cur' = Cur
      BY <1>2 DEF StartInitPlayer, Runs, LoopAt, controller, demux, Cur
    <2>2. ~VideoConfigAt(1)
      BY <2>1, Removing DEF VideoConfigAt, DataInv
    <2> QED
      BY <2>1, <2>2, ConfigRuns
  <1>3. CASE CleanPlayer \/ DestroyDemuxer \/ MakePlayer \/ OpenInput
    <2>1. /\ queue' = queue /\ UNCHANGED <<demuxer_, found, videoInit, stream>>
          /\ \/ loop = "clean" /\ loop' = "create"
             \/ loop = "destroy" /\ loop' = "join"
             \/ loop = "make" /\ loop' = "open"
             \/ loop = "open" /\ loop' = "idle"
      BY <1>3 DEF CleanPlayer, DestroyDemuxer, MakePlayer, OpenInput, LoopAt,
                  controller, demux
    <2> QED
      BY <2>1, ConfigStays DEF Cur
  <1>4. CASE CreateDemuxer
    <2>1. /\ loop = "create" /\ demuxer_' = demuxer_ + 1 /\ Cur = demuxer_
          /\ loop' = (IF demuxer_ = 0 THEN "make" ELSE "destroy")
          /\ UNCHANGED <<queue, found, videoInit, stream>>
      BY <1>4 DEF CreateDemuxer, LoopAt, Cur, demux
    <2>2. CASE demuxer_ = 0
      <3>1. \A k \in 1 .. Len(queue) : queue[k].what = "InitPlayer"
        BY <2>1, <2>2 DEF QueueInv
      <3>2. \A d \in Demuxers : found[d] = {}
        <4>1. \A d \in Demuxers : d > Cur
          BY <2>1, <2>2 DEF Demuxers
        <4> QED
          BY <4>1 DEF DemuxInv
      <3>3. \A k \in 1 .. Len(queue') : ~VideoPacketAt(k)'
        BY <2>1, <3>1 DEF VideoPacketAt
      <3>4. Cur' \in Demuxers => "video" \notin found'[Cur']
        BY <2>1, <3>2
      <3> QED
        BY <3>3, <3>4 DEF ConfigInv
    <2>3. CASE demuxer_ # 0
      <3>1. Cur' = Cur
        BY <2>1, <2>3, DemuxerNumbers DEF Cur
      <3> QED
        BY <2>1, <3>1, ConfigStays
    <2> QED
      BY <2>2, <2>3
  <1>5. CASE JoinParser
    <2>1. \A k \in 1 .. Len(queue') : ~VideoPacketAt(k)'
      BY <1>5, OnlyCallsLeft DEF VideoPacketAt
    <2>2. /\ loop = "join" /\ found' = found /\ Cur' = demuxer_ /\ Cur = demuxer_ - 1
      BY <1>5 DEF JoinParser, LoopAt, Cur, controller
    <2>3. demuxer_ > Cur
      BY <2>2, DemuxerNumbers
    <2>4. demuxer_ \in Demuxers => found[demuxer_] = {}
      BY <2>3 DEF DemuxInv
    <2> QED
      BY <2>1, <2>2, <2>4 DEF ConfigInv
  <1>6. ASSUME NEW d \in Demuxers, Parser(d) PROVE ConfigInv'
    <2>1. d = Cur /\ Cur' = Cur /\ UNCHANGED <<videoInit, stream>>
      BY <1>6, ParserPosts DEF controller
    <2>2. ASSUME parser[d] \in {"starting", "finding"}, NEW kinds \in SUBSET Kinds,
                 found'[d] = found[d] \cup kinds, queue' = queue \o Configs(d, kinds)
          PROVE  ConfigInv'
      <3> DEFINE more == Configs(d, kinds)
      <3>1. "video" \notin found[Cur]
        BY <2>1, <2>2 DEF DemuxInv
      <3>2. \A k \in 1 .. Len(queue) : ~VideoPacketAt(k)
        BY <3>1 DEF ConfigInv
      <3>3. /\ more \in Seq(Task) /\ \A i \in 1 .. Len(more) : more[i].what = "config"
            /\ "video" \in kinds =>
                 \E i \in 1 .. Len(more) : more[i] = ConfigTask(d, "video")
        BY ConfigsFacts
      <3> HIDE DEF more
      <3>4. queue' = queue \o more
        BY <2>2 DEF more
      <3>5. /\ Len(queue') = Len(queue) + Len(more)
            /\ Len(queue) \in Nat /\ Len(more) \in Nat
            /\ \A k \in 1 .. Len(queue) : queue'[k] = queue[k]
            /\ \A k \in 1 .. Len(queue') :
                 \/ k \in 1 .. Len(queue)
                 \/ /\ k - Len(queue) \in 1 .. Len(more)
                    /\ queue'[k] = more[k - Len(queue)]
        BY <3>3, <3>4, Posting DEF DataInv
      <3>6. \A k \in 1 .. Len(queue') : ~VideoPacketAt(k)'
        BY <3>2, <3>3, <3>5 DEF VideoPacketAt
      <3>7. ASSUME "video" \in kinds
            PROVE  \E j \in 1 .. Len(queue') : VideoConfigAt(j)'
        <4>1. PICK i \in 1 .. Len(more) : more[i] = ConfigTask(d, "video")
          BY <3>3, <3>7
        <4>2. /\ Len(queue) + i \in 1 .. Len(queue') /\ Len(queue) + i \notin 1 .. Len(queue)
              /\ (Len(queue) + i) - Len(queue) = i
          BY <3>5
        <4>3. queue'[Len(queue) + i] = ConfigTask(d, "video")
          BY <3>5, <4>1, <4>2
        <4> QED
          BY <4>2, <4>3 DEF VideoConfigAt, ConfigTask
      <3> QED
        BY <2>1, <2>2, <3>1, <3>6, <3>7 DEF ConfigInv
    <2>3. CASE found' = found /\ queue' = queue
      BY <2>1, <2>3, ConfigStays
    <2>4. CASE found' = found /\ queue' = queue \o <<EndTask(d)>>
      <3>1. EndTask(d) \in Task /\ EndTask(d).what = "end"
        BY TasksAreTasks DEF EndTask
      <3> QED
        BY <2>1, <2>4, <3>1, ConfigPosted
    <2>5. ASSUME found' = found, NEW kind \in found[d], NEW n \in 1 .. MaxPackets,
                 queue' = queue \o <<PacketTask(d, kind, n)>>
          PROVE  ConfigInv'
      <3>1. kind \in Kinds /\ n \in 0 .. MaxPackets
        BY Bounds DEF DataInv
      <3>2. PacketTask(d, kind, n) \in Task /\ PacketTask(d, kind, n).kind = kind
        BY <3>1, TasksAreTasks DEF PacketTask
      <3> QED
        BY <2>1, <2>5, <3>2, ConfigPosted
    <2> QED
      BY <1>6, <2>2, <2>3, <2>4, <2>5, ParserPosts
  <1>7. CASE OnVideoConfig
    <2>1. /\ loop = "idle" /\ loop' = loop /\ queue # <<>> /\ queue' = Tail(queue)
          /\ stream' = [config |-> Head(queue).demuxer, source |-> data_source_]
          /\ videoInit' = TRUE /\ UNCHANGED <<demuxer_, found>>
          /\ Head(queue).what = "config"
      BY <1>7 DEF OnVideoConfig, Runs, LoopAt, demux
    <2>2. Head(queue).demuxer = Cur /\ Cur' = Cur /\ data_source_ = Cur
      BY <2>1, Removing DEF DataInv, QueueInv, LoopInv, Cur
    <2>3. Configured'
      BY <2>1, <2>2 DEF Configured
    <2> QED
      BY <2>1, <2>2, <2>3, ConfigRuns
  <1>8. CASE OnAudioConfig \/ OnPacket \/ OnEndOfStream
    <2>1. /\ queue # <<>> /\ queue' = Tail(queue)
          /\ ~(Head(queue).what = "config" /\ Head(queue).kind = "video")
          /\ UNCHANGED <<loop, demuxer_, found, videoInit, stream>>
      BY <1>8 DEF OnAudioConfig, OnPacket, OnEndOfStream, Runs, controller, demux
    <2>2. ~VideoConfigAt(1) /\ Cur' = Cur
      BY <2>1, Removing DEF VideoConfigAt, DataInv, Cur
    <2> QED
      BY <2>1, <2>2, ConfigRuns
  <1>9. CASE Reader
    BY <1>9, ReaderSteps, ConfigStays DEF Cur, demux
  <1> QED
    BY <1>1, <1>2, <1>3, <1>4, <1>5, <1>6, <1>7, <1>8, <1>9
       DEF Next, Loop, InitPlayer, Callback

LEMMA AppendedKeeps == ASSUME Inv, Next PROVE AppendedInv'
  <1> USE DEF Inv
  <1>1. CASE UNCHANGED appended
    BY <1>1 DEF AppendedInv
  <1>2. CASE OnPacket /\ appended' # appended
    <2> DEFINE p == [demuxer |-> Head(queue).demuxer, n |-> Head(queue).n, to |-> stream]
    <2>1. /\ loop = "idle" /\ queue # <<>> /\ queue' = Tail(queue)
          /\ Head(queue).what = "packet" /\ Head(queue).kind = "video"
          /\ appended' = Append(appended, p)
      BY <1>2 DEF OnPacket, Runs, LoopAt
    <2>2. Head(queue) = queue[1] /\ 1 \in 1 .. Len(queue) /\ Head(queue) \in Task
      BY <2>1, Removing DEF DataInv
    <2>3. VideoPacketAt(1)
      BY <2>1, <2>2 DEF VideoPacketAt
    <2>4. Cur \in Demuxers /\ "video" \in found[Cur]
      BY <2>2, <2>3 DEF ConfigInv
    <2>5. Configured
      <3> SUFFICES ASSUME ~Configured PROVE FALSE
        OBVIOUS
      <3>1. PICK j \in 1 .. Len(queue) : \A k \in 1 .. Len(queue) : VideoPacketAt(k) => j < k
        BY <2>4 DEF ConfigInv
      <3>2. j < 1
        BY <2>2, <2>3, <3>1
      <3> QED
        BY <3>2
    <2>6. Head(queue).demuxer = Cur /\ Head(queue).n \in 1 .. MaxPackets
      BY <2>1, <2>2, Bounds DEF QueueInv, Task
    <2>7. p \in Given /\ p.to = [config |-> p.demuxer, source |-> p.demuxer]
      BY <2>4, <2>5, <2>6 DEF Given, Configured, LoopInv
    <2> HIDE DEF p
    <2>8. /\ appended' \in Seq(Given) /\ Len(appended') = Len(appended) + 1
          /\ Len(appended) \in Nat
          /\ \A k \in 1 .. Len(appended) : appended'[k] = appended[k]
          /\ appended'[Len(appended) + 1] = p
      BY <2>1, <2>7, AppendProperties, LenProperties DEF AppendedInv
    <2>9. ASSUME NEW k \in 1 .. Len(appended')
          PROVE  appended'[k].to = [config |-> appended'[k].demuxer,
                                    source |-> appended'[k].demuxer]
      <3>1. CASE k \in 1 .. Len(appended)
        BY <2>8, <3>1 DEF AppendedInv
      <3>2. CASE k = Len(appended) + 1
        BY <2>7, <2>8, <3>2
      <3> QED
        BY <2>8, <3>1, <3>2
    <2> QED
      BY <2>8, <2>9 DEF AppendedInv
  <1>3. CASE PostInitPlayer \/ InitPlayer
    BY <1>1, <1>3 DEF PostInitPlayer, InitPlayer, StartInitPlayer, CleanPlayer,
                      CreateDemuxer, DestroyDemuxer, JoinParser, MakePlayer, OpenInput,
                      controller
  <1>4. ASSUME NEW d \in Demuxers, Parser(d) PROVE AppendedInv'
    BY <1>1, <1>4, ParserPosts DEF controller
  <1>5. CASE OnVideoConfig \/ OnAudioConfig \/ OnEndOfStream
    BY <1>1, <1>5 DEF OnVideoConfig, OnAudioConfig, OnEndOfStream, controller
  <1>6. CASE Reader
    BY <1>1, <1>6, ReaderSteps
  <1> QED
    BY <1>1, <1>2, <1>3, <1>4, <1>5, <1>6 DEF Next, Loop, Callback

LEMMA CrashKeeps == ASSUME Inv, Next PROVE CrashInv'
  <1> USE DEF Inv
  <1>1. /\ demuxer_ \in 0 .. MaxInits /\ demuxer_ <= posted /\ posted \in Nat
        /\ loop \in {"clean", "create"} => demuxer_ + 1 <= posted
    BY DemuxerNumbers
  <1>2. CASE PostInitPlayer
    BY <1>1, <1>2 DEF PostInitPlayer, CrashInv, controller, readerVars
  <1>3. CASE StartInitPlayer
    BY <1>3 DEF StartInitPlayer, Runs, LoopAt, CrashInv, controller, readerVars
  <1>4. CASE CleanPlayer
    <2>1. player_ # 0 => posted > 1
      BY <1>1, <1>4 DEF CleanPlayer, LoopAt, LoopInv
    <2> QED
      BY <1>4, <2>1 DEF CleanPlayer, LoopAt, CrashInv, readerVars
  <1>5. CASE CreateDemuxer
    BY <1>5 DEF CreateDemuxer, CrashInv, readerVars
  <1>6. CASE DestroyDemuxer
    <2>1. loop = "destroy"
      BY <1>6 DEF DestroyDemuxer, LoopAt
    <2>2. demuxer_ >= 2
      BY <2>1 DEF LoopInv
    <2>3. posted > 1
      BY <1>1, <2>2
    <2> QED
      BY <1>6, <2>3 DEF DestroyDemuxer, LoopAt, CrashInv, controller, readerVars
  <1>7. CASE JoinParser
    BY <1>7 DEF JoinParser, CrashInv, controller, readerVars
  <1>8. CASE MakePlayer
    BY <1>1, <1>8 DEF MakePlayer, LoopAt, CrashInv, LoopInv, readerVars
  <1>9. CASE OpenInput
    BY <1>9 DEF OpenInput, CrashInv, controller, readerVars
  <1>10. ASSUME NEW d \in Demuxers, Parser(d) PROVE CrashInv'
    <2>1. UNCHANGED <<posted, player_, readerVars, crash>>
      BY <1>10, Finding DEF Parser, ReadFrame, ReadEndOfFile, ReadFails, controller
    <2> QED
      BY <2>1 DEF CrashInv, readerVars
  <1>11. CASE OnVideoConfig
    <2>1. /\ loop = "idle" /\ queue # <<>> /\ queue' = Tail(queue)
          /\ Head(queue).what = "config"
      BY <1>11 DEF OnVideoConfig, Runs, LoopAt
    <2>2. Cur = demuxer_ /\ Cur >= 1 /\ data_source_ = demuxer_
      BY <2>1, Removing DEF DataInv, QueueInv, LoopInv, Cur
    <2>3. data_source_ # 0
      BY <1>1, <2>2
    <2> QED
      BY <1>11, <2>3 DEF OnVideoConfig, CrashInv, readerVars
  <1>12. CASE OnAudioConfig \/ OnPacket
    BY <1>12 DEF OnAudioConfig, OnPacket, CrashInv, controller, readerVars
  <1>13. CASE OnEndOfStream
    BY <1>13 DEF OnEndOfStream, CrashInv, controller, readerVars
  <1>14. CASE MuxPacket
    BY <1>1, <1>14 DEF MuxPacket, CrashInv, controller
  <1>15. CASE Parse
    <2>1. held \in dead => posted > 1
      <3> SUFFICES ASSUME held \in dead PROVE posted > 1
        OBVIOUS
      <3>1. held \in Demuxers /\ held < Cur
        BY DEF DemuxInv
      <3>2. held >= 1 /\ held \in Int /\ Cur \in Int /\ Cur <= demuxer_
        BY <3>1, DemuxerNumbers DEF Demuxers
      <3> QED
        BY <1>1, <3>1, <3>2
    <2>2. /\ crash' \in {"null demuxer", "dead demuxer", crash}
          /\ crash' = "dead demuxer" => held \in dead \/ crash' = crash
      <3>1. CASE held = 0
        BY <1>15, <3>1 DEF Parse
      <3>2. CASE held # 0 /\ held \in dead
        BY <1>15, <3>2 DEF Parse
      <3>3. CASE held # 0 /\ held \notin dead
        BY <1>15, <3>3 DEF Parse
      <3> QED
        BY <3>1, <3>2, <3>3
    <2>3. reader' = "check" /\ UNCHANGED <<posted, player_, held>>
      BY <1>15 DEF Parse, controller
    <2> QED
      BY <2>1, <2>2, <2>3 DEF CrashInv
  <1>16. CASE CheckPlayer
    BY <1>16 DEF CheckPlayer, HasPlayer, CrashInv, controller
  <1>17. CASE CallPlay
    BY <1>17 DEF CallPlay, ReaderAt, CrashInv, controller
  <1>18. CASE SetPlaying
    BY <1>18 DEF SetPlaying, CrashInv
  <1> QED
    BY <1>2, <1>3, <1>4, <1>5, <1>6, <1>7, <1>8, <1>9, <1>10, <1>11, <1>12, <1>13,
       <1>14, <1>15, <1>16, <1>17, <1>18
       DEF Next, Loop, InitPlayer, Callback, Reader

\* Everything the theorems below follow from.
THEOREM Invariance == Safety => []Inv
<1>1. Init => Inv
  <2> SUFFICES ASSUME Init PROVE Inv
    OBVIOUS
  <2> USE Bounds DEF Init
  <2>1. queue \in Seq(Task) /\ Len(queue) = 0
    BY EmptySeq
  <2>2. appended \in Seq(Given) /\ Len(appended) = 0
    BY EmptySeq
  <2>3. Cur = 0 /\ Underway = 0
    BY DEF Cur, Underway
  <2>4. Asked = 0
    <3>1. InitsIn(queue) = {}
      BY <2>1 DEF InitsIn
    <3> QED
      BY <3>1, FS_EmptySet DEF Asked
  <2>5. DataInv
    <3>1. /\ parser \in [Demuxers -> {"none", "starting", "finding", "reading", "done"}]
          /\ found \in [Demuxers -> SUBSET Kinds]
      OBVIOUS
    <3>2. demuxed \in [Demuxers -> [Kinds -> 0 .. MaxPackets]]
      OBVIOUS
    <3>3. mux \in 0 .. MaxMux
      OBVIOUS
    <3> QED
      BY <2>1, <3>1, <3>2, <3>3 DEF DataInv
  <2>6. LoopInv
    BY <2>3, <2>4 DEF LoopInv, NoStream
  <2>7. DemuxInv
    BY <2>3 DEF DemuxInv
  <2>8. QueueInv
    BY <2>1 DEF QueueInv
  <2>9. ConfigInv
    BY <2>1, <2>3 DEF ConfigInv, Demuxers
  <2>10. AppendedInv
    BY <2>2 DEF AppendedInv
  <2>11. CrashInv
    BY DEF CrashInv
  <2> QED
    BY <2>5, <2>6, <2>7, <2>8, <2>9, <2>10, <2>11 DEF Inv
<1>2. Inv /\ [Next]_vars => Inv'
  <2> SUFFICES ASSUME Inv, [Next]_vars PROVE Inv'
    OBVIOUS
  <2>1. CASE Next
    BY <2>1, DataKeeps, LoopKeeps, DemuxKeeps, QueueKeeps, ConfigKeeps, AppendedKeeps,
       CrashKeeps DEF Inv
  <2>2. CASE UNCHANGED vars
    <3>1. /\ UNCHANGED <<queue, loop, posted, crash, parser, found, exited_, dead, demuxed>>
          /\ UNCHANGED <<demuxer_, player_, data_source_, state_, videoInit, stream>>
          /\ UNCHANGED <<attached, appended, reader, held, mux>>
      BY <2>2 DEF vars, controller, demux, readerVars
    <3>2. Cur' = Cur /\ Asked' = Asked /\ Underway' = Underway
      BY <3>1 DEF Cur, Asked, Underway
    <3>3. DataInv' /\ LoopInv'
      BY <3>1, <3>2 DEF Inv, DataInv, LoopInv
    <3>4. DemuxInv' /\ QueueInv'
      BY <3>1, <3>2 DEF Inv, DemuxInv, QueueInv
    <3>5. ConfigInv'
      BY <3>1, <3>2, ConfigStays DEF Inv
    <3>6. AppendedInv' /\ CrashInv'
      BY <3>1 DEF Inv, AppendedInv, CrashInv
    <3> QED
      BY <3>3, <3>4, <3>5, <3>6 DEF Inv
  <2> QED
    BY <2>1, <2>2
<1> QED
  BY <1>1, <1>2, PTL DEF Safety
-----------------------------------------------------------------------------
\* A packet goes to the stream its demuxer has configured, whatever content was
\* played before.
THEOREM PacketsToOwnStream == Spec => []OwnStream
<1>1. Inv => OwnStream
  BY DEF Inv, AppendedInv, OwnStream
<1> QED
  BY <1>1, Invariance, PTL DEF Spec

\* A demuxer that is gone has no thread and no task.
THEOREM NothingIsLeft == Spec => []NothingOutlivesDemuxer
<1>1. Inv => NothingOutlivesDemuxer
  <2> SUFFICES ASSUME Inv, NEW d \in dead, NEW k \in 1 .. Len(queue)
               PROVE  parser[d] = "done" /\ queue[k].demuxer # d
    <3>1. ASSUME Inv, NEW d \in dead PROVE parser[d] = "done"
      BY <3>1 DEF Inv, DemuxInv
    <3> QED
      BY <3>1 DEF NothingOutlivesDemuxer
  <2> USE DEF Inv
  <2>1. parser[d] = "done" /\ d < Cur /\ d \in Demuxers
    BY DEF DemuxInv
  <2>2. queue[k].demuxer \in {0, Cur}
    BY DEF QueueInv
  <2>3. d # 0 /\ d \in Int /\ Cur \in Int
    BY <2>1, DemuxerNumbers DEF Demuxers
  <2> QED
    BY <2>1, <2>2, <2>3
<1> QED
  BY <1>1, Invariance, PTL DEF Spec

\* What can only go wrong with a second InitPlayer, and what never does.
THEOREM OneContentIsSafe == Spec => []RacesNeedNewContent
<1>1. Inv => RacesNeedNewContent
  BY DEF Inv, CrashInv, RacesNeedNewContent
<1> QED
  BY <1>1, Invariance, PTL DEF Spec

\* Every variable keeps its type.
THEOREM TypeCorrect == Spec => []TypeOK
<1>1. Inv => TypeOK
  <2> SUFFICES ASSUME Inv PROVE TypeOK
    OBVIOUS
  <2> USE DEF Inv
  <2>1. \A k \in 1 .. Len(queue) : queue[k] \in Task
    BY ElementOfSeq DEF DataInv
  <2>2. \A k \in 1 .. Len(appended) : appended[k] \in Given
    BY ElementOfSeq DEF AppendedInv
  <2>3. {demuxer_, player_, data_source_, held} \subseteq 0 .. MaxInits
    <3>1. demuxer_ \in 0 .. MaxInits /\ 0 \in 0 .. MaxInits
      BY DemuxerNumbers, Bounds
    <3>2. held \in 0 .. MaxInits
      BY DEF CrashInv
    <3>3. player_ \in {0, demuxer_} /\ data_source_ \in {0, demuxer_}
      BY DEF LoopInv
    <3> QED
      BY <3>1, <3>2, <3>3
  <2>4. posted \in 0 .. MaxInits /\ stream \in [config : 0 .. MaxInits, source : 0 .. MaxInits]
    BY DEF LoopInv
  <2>5. exited_ \subseteq Demuxers /\ dead \subseteq exited_
    BY DEF DemuxInv
  <2> QED
    BY <2>1, <2>2, <2>3, <2>4, <2>5 DEF TypeOK, DataInv, CrashInv, Task, Given
<1> QED
  BY <1>1, Invariance, PTL DEF Spec
-----------------------------------------------------------------------------
(* No packet is lost or overtaken.                                         *)

InFlow(d) == AllThere(d) /\ InOrder(d)

LEMMA SameNumbers ==
  ASSUME NEW s, NEW t, NEW K, NEW L,
         \A k \in K : \E l \in L : s[k].n = t[l].n
  PROVE  NumbersAt(s, K) \subseteq NumbersAt(t, L)
  BY DEF NumbersAt

\* Nothing changes for a demuxer if its packets wait where they did.
LEMMA FlowStays ==
  ASSUME NEW d, InFlow(d), appended' = appended,
         demuxed'[d]["video"] = demuxed[d]["video"], Waiting(d)' = Waiting(d), \A k \in Waiting(d) : queue'[k] = queue[k]
  PROVE  InFlow(d)'
  <1>1. Appended(d)' = Appended(d)
    BY DEF Appended
  <1>2. NumbersAt(queue', Waiting(d)) = NumbersAt(queue, Waiting(d))
    BY DEF NumbersAt
  <1>3. AllThere(d)'
    BY <1>1, <1>2 DEF InFlow, AllThere
  <1>4. InOrder(d)'
    BY <1>1 DEF InFlow, InOrder
  <1> QED
    BY <1>3, <1>4 DEF InFlow

\* The packets that wait move up with the queue, when another task is run.
LEMMA WaitingMovesUp ==
  ASSUME DataInv, queue # <<>>, queue' = Tail(queue), NEW d
  PROVE  /\ \A k \in Waiting(d)' : k + 1 \in Waiting(d) /\ queue'[k] = queue[k + 1]
         /\ \A k \in Waiting(d) :
              k # 1 => k - 1 \in Waiting(d)' /\ queue'[k - 1] = queue[k]
         /\ Waiting(d) \subseteq Int /\ Waiting(d)' \subseteq Int
  <1>1. /\ \A k \in 1 .. Len(queue') :
             k + 1 \in 1 .. Len(queue) /\ queue'[k] = queue[k + 1]
        /\ \A k \in 1 .. Len(queue) :
             k # 1 => k - 1 \in 1 .. Len(queue') /\ queue'[k - 1] = queue[k]
    BY Removing DEF DataInv
  <1> QED
    BY <1>1 DEF Waiting

LEMMA FlowRuns ==
  ASSUME DataInv, queue # <<>>, queue' = Tail(queue), NEW d, InFlow(d),
         1 \notin Waiting(d), appended' = appended, demuxed'[d] = demuxed[d]
  PROVE  InFlow(d)'
  <1>1. Appended(d)' = Appended(d)
    BY DEF Appended
  <1>2. /\ \A k \in Waiting(d)' : k + 1 \in Waiting(d) /\ queue'[k] = queue[k + 1]
        /\ \A k \in Waiting(d) : k - 1 \in Waiting(d)' /\ queue'[k - 1] = queue[k]
        /\ Waiting(d) \subseteq Int /\ Waiting(d)' \subseteq Int
    BY WaitingMovesUp
  <1>3. NumbersAt(queue', Waiting(d)') = NumbersAt(queue, Waiting(d))
    <2>1. ASSUME NEW k \in Waiting(d)' PROVE \E l \in Waiting(d) : queue'[k].n = queue[l].n
      BY <1>2
    <2>2. ASSUME NEW k \in Waiting(d) PROVE \E l \in Waiting(d)' : queue[k].n = queue'[l].n
      BY <1>2
    <2>3. NumbersAt(queue', Waiting(d)') \subseteq NumbersAt(queue, Waiting(d))
      BY <2>1, SameNumbers
    <2>4. NumbersAt(queue, Waiting(d)) \subseteq NumbersAt(queue', Waiting(d)')
      BY <2>2, SameNumbers
    <2> QED
      BY <2>3, <2>4
  <1>4. AllThere(d)'
    BY <1>1, <1>3 DEF InFlow, AllThere
  <1>5. ASSUME NEW j \in Waiting(d)', NEW k \in Waiting(d)', j < k
        PROVE  queue'[j].n < queue'[k].n
    <2>1. j + 1 < k + 1
      BY <1>2, <1>5
    <2> QED
      BY <1>2, <2>1 DEF InFlow, InOrder
  <1>6. ASSUME NEW j \in Appended(d), NEW k \in Waiting(d)'
        PROVE  appended[j].n < queue'[k].n
    BY <1>2 DEF InFlow, InOrder
  <1>7. InOrder(d)'
    BY <1>1, <1>5, <1>6 DEF InFlow, InOrder
  <1> QED
    BY <1>4, <1>7 DEF InFlow

\* What is posted last is no packet of the demuxer, or its next one.
LEMMA FlowPosted ==
  ASSUME DataInv, NEW d, InFlow(d), appended' = appended, NEW more \in Seq(Task),
         queue' = queue \o more, demuxed'[d]["video"] = demuxed[d]["video"],
         \A i \in 1 .. Len(more) : more[i].what # "packet" \/ more[i].kind # "video"
                                   \/ more[i].demuxer # d
  PROVE  InFlow(d)'
  <1>1. /\ \A k \in 1 .. Len(queue) : k \in 1 .. Len(queue') /\ queue'[k] = queue[k]
        /\ \A k \in 1 .. Len(queue') :
             \/ k \in 1 .. Len(queue)
             \/ /\ k - Len(queue) \in 1 .. Len(more)
                /\ queue'[k] = more[k - Len(queue)]
    BY Posting DEF DataInv
  <1>2. Waiting(d)' = Waiting(d) /\ \A k \in Waiting(d) : queue'[k] = queue[k]
    BY <1>1 DEF Waiting
  <1> QED
    BY <1>2, FlowStays

LEMMA FlowGrows ==
  ASSUME DataInv, NEW d \in Demuxers, InFlow(d), appended' = appended,
         NEW n, n = demuxed[d]["video"] + 1, n \in 0 .. MaxPackets,
         queue' = queue \o <<PacketTask(d, "video", n)>>, demuxed'[d]["video"] = n
  PROVE  InFlow(d)'
  <1> DEFINE task == PacketTask(d, "video", n)
  <1>1. /\ task \in Task /\ <<task>> \in Seq(Task)
        /\ task.what = "packet" /\ task.kind = "video" /\ task.demuxer = d /\ task.n = n
    BY TasksAreTasks DEF PacketTask, Kinds
  <1> HIDE DEF task
  <1>2. queue' = queue \o <<task>>
    BY DEF task
  <1>3. /\ Len(queue') = Len(queue) + 1 /\ Len(queue) \in Nat
        /\ \A k \in 1 .. Len(queue) : k \in 1 .. Len(queue') /\ queue'[k] = queue[k]
        /\ \A k \in 1 .. Len(queue') :
             \/ k \in 1 .. Len(queue)
             \/ k - Len(queue) \in 1 .. 1 /\ queue'[k] = <<task>>[k - Len(queue)]
    BY <1>1, <1>2, Posting DEF DataInv
  <1> DEFINE last == Len(queue) + 1
  <1>4. last \in 1 .. Len(queue') /\ last \notin 1 .. Len(queue)
    BY <1>3
  <1>5. queue'[last] = task
    BY <1>3, <1>4
  <1>6. \A k \in 1 .. Len(queue') : k \in 1 .. Len(queue) \/ k = last
    BY <1>3
  <1> HIDE DEF last
  <1>7. Waiting(d)' = Waiting(d) \cup {last}
    BY <1>1, <1>3, <1>4, <1>5, <1>6 DEF Waiting
  <1>8. \A k \in Waiting(d) : queue'[k] = queue[k] /\ k < last
    BY <1>3 DEF Waiting, last
  <1>9. Appended(d)' = Appended(d)
    BY DEF Appended
  <1>10. demuxed[d]["video"] \in Nat
    BY Bounds DEF DataInv, Kinds
  <1>11. NumbersAt(queue', Waiting(d)') = NumbersAt(queue, Waiting(d)) \cup {n}
    <2>1. PICK q, W : q = queue' /\ W = Waiting(d)
      OBVIOUS
    <2>2. (\A k \in W : q[k].n = queue[k].n) /\ q[last].n = n
      BY <1>1, <1>5, <1>8, <2>1
    <2>3. NumbersAt(q, W \cup {last}) = NumbersAt(queue, W) \cup {n}
      BY <2>2 DEF NumbersAt
    <2> QED
      BY <1>7, <2>1, <2>3
  <1>12. AllThere(d)'
    <2>1. 1 .. n = (1 .. demuxed[d]["video"]) \cup {n}
      BY <1>10
    <2> QED
      BY <1>9, <1>11, <2>1 DEF InFlow, AllThere
  <1>13. /\ \A j \in Appended(d) : appended[j].n < n
         /\ \A j \in Waiting(d) : queue[j].n < n
    <2>1. /\ \A j \in Appended(d) : appended[j].n \in 1 .. demuxed[d]["video"]
          /\ \A j \in Waiting(d) : queue[j].n \in 1 .. demuxed[d]["video"]
      BY DEF InFlow, AllThere, NumbersAt
    <2> QED
      BY <1>10, <2>1
  <1>14. ASSUME NEW j \in Waiting(d)', NEW k \in Waiting(d)', j < k
         PROVE  queue'[j].n < queue'[k].n
    <2>1. last \in Int /\ \A i \in Waiting(d) : i \in Int
      BY <1>3 DEF last, Waiting
    <2>2. j \in Waiting(d)
      BY <1>7, <1>8, <1>14, <2>1
    <2>3. CASE k \in Waiting(d)
      BY <1>8, <1>14, <2>2, <2>3 DEF InFlow, InOrder
    <2>4. CASE k = last
      BY <1>1, <1>5, <1>8, <1>13, <2>2, <2>4
    <2> QED
      BY <1>7, <2>3, <2>4
  <1>15. ASSUME NEW j \in Appended(d), NEW k \in Waiting(d)'
         PROVE  appended[j].n < queue'[k].n
    <2>1. CASE k \in Waiting(d)
      BY <1>8, <2>1 DEF InFlow, InOrder
    <2>2. CASE k = last
      BY <1>1, <1>5, <1>13, <2>2
    <2> QED
      BY <1>7, <2>1, <2>2
  <1>16. InOrder(d)'
    BY <1>9, <1>14, <1>15 DEF InFlow, InOrder
  <1> QED
    BY <1>12, <1>16 DEF InFlow

\* The first packet goes from the queue to the end of what was appended.
LEMMA FlowGoesOn ==
  ASSUME DataInv, AppendedInv, NEW d, InFlow(d), queue # <<>>, queue' = Tail(queue),
         1 \in Waiting(d), NEW p, p \in Given, p.demuxer = d, p.n = queue[1].n,
         appended' = Append(appended, p), demuxed'[d] = demuxed[d]
  PROVE  InFlow(d)'
  <1> DEFINE last == Len(appended) + 1
  <1>1. /\ Len(appended') = last /\ Len(appended) \in Nat
        /\ \A k \in 1 .. Len(appended) : appended'[k] = appended[k]
        /\ appended'[last] = p
    BY AppendProperties, LenProperties DEF AppendedInv
  <1>2. /\ Appended(d)' = Appended(d) \cup {last}
        /\ \A k \in Appended(d) : appended'[k] = appended[k] /\ k < last /\ k \in Int
    BY <1>1 DEF Appended
  <1>3. last \in Int
    BY <1>1
  <1> HIDE DEF last
  <1>4. /\ \A k \in Waiting(d)' : k + 1 \in Waiting(d) /\ queue'[k] = queue[k + 1]
        /\ \A k \in Waiting(d) :
             k # 1 => k - 1 \in Waiting(d)' /\ queue'[k - 1] = queue[k]
        /\ Waiting(d) \subseteq Int /\ Waiting(d)' \subseteq Int
    BY WaitingMovesUp
  <1>5. \A k \in Waiting(d)' : k >= 1
    BY DEF Waiting
  <1>6. NumbersAt(appended', Appended(d)')
          = NumbersAt(appended, Appended(d)) \cup {queue[1].n}
    <2>1. PICK a, A : a = appended' /\ A = Appended(d)
      OBVIOUS
    <2>2. (\A k \in A : a[k].n = appended[k].n) /\ a[last].n = queue[1].n
      BY <1>1, <1>2, <2>1
    <2>3. NumbersAt(a, A \cup {last}) = NumbersAt(appended, A) \cup {queue[1].n}
      BY <2>2 DEF NumbersAt
    <2> QED
      BY <1>2, <2>1, <2>3
  <1>7. NumbersAt(queue, Waiting(d)) = NumbersAt(queue', Waiting(d)') \cup {queue[1].n}
    <2>1. ASSUME NEW k \in Waiting(d)' PROVE \E l \in Waiting(d) : queue'[k].n = queue[l].n
      BY <1>4
    <2>2. ASSUME NEW k \in Waiting(d) \ {1}
          PROVE  \E l \in Waiting(d)' : queue[k].n = queue'[l].n
      BY <1>4
    <2>3. NumbersAt(queue', Waiting(d)') \subseteq NumbersAt(queue, Waiting(d))
      BY <2>1, SameNumbers
    <2>4. NumbersAt(queue, Waiting(d) \ {1}) \subseteq NumbersAt(queue', Waiting(d)')
      <3>1. PICK q, V, W : q = queue' /\ V = Waiting(d) \ {1} /\ W = Waiting(d)'
        OBVIOUS
      <3>2. \A k \in V : \E l \in W : queue[k].n = q[l].n
        BY <2>2, <3>1
      <3>3. NumbersAt(queue, V) \subseteq NumbersAt(q, W)
        BY <3>2, SameNumbers
      <3> QED
        BY <3>1, <3>3
    <2>5. Waiting(d) = (Waiting(d) \ {1}) \cup {1}
      OBVIOUS
    <2>6. NumbersAt(queue, Waiting(d)) = NumbersAt(queue, Waiting(d) \ {1}) \cup {queue[1].n}
      BY <2>5 DEF NumbersAt
    <2>7. queue[1].n \in NumbersAt(queue, Waiting(d))
      BY DEF NumbersAt
    <2> QED
      BY <2>3, <2>4, <2>6, <2>7
  <1>8. AllThere(d)'
    BY <1>6, <1>7 DEF InFlow, AllThere
  <1>9. ASSUME NEW k \in Waiting(d)' PROVE queue[1].n < queue'[k].n
    <2>1. 1 < k + 1
      BY <1>4, <1>5
    <2> QED
      BY <1>4, <2>1 DEF InFlow, InOrder
  <1>10. ASSUME NEW j \in Appended(d)', NEW k \in Appended(d)', j < k
         PROVE  appended'[j].n < appended'[k].n
    <2>1. j \in Appended(d)
      BY <1>2, <1>3, <1>10
    <2>2. CASE k \in Appended(d)
      BY <1>2, <1>10, <2>1, <2>2 DEF InFlow, InOrder
    <2>3. CASE k = last
      BY <1>1, <1>2, <2>1, <2>3 DEF InFlow, InOrder
    <2> QED
      BY <1>2, <2>2, <2>3
  <1>11. ASSUME NEW j \in Waiting(d)', NEW k \in Waiting(d)', j < k
         PROVE  queue'[j].n < queue'[k].n
    <2>1. j + 1 < k + 1
      BY <1>4, <1>11
    <2> QED
      BY <1>4, <2>1 DEF InFlow, InOrder
  <1>12. ASSUME NEW j \in Appended(d)', NEW k \in Waiting(d)'
         PROVE  appended'[j].n < queue'[k].n
    <2>1. CASE j \in Appended(d)
      BY <1>2, <1>4, <2>1 DEF InFlow, InOrder
    <2>2. CASE j = last
      BY <1>1, <1>9, <2>2
    <2> QED
      BY <1>2, <2>1, <2>2
  <1>13. InOrder(d)'
    BY <1>10, <1>11, <1>12 DEF InOrder
  <1> QED
    BY <1>8, <1>13 DEF InFlow

\* A video packet that is run is appended: its stream is set up by then.
LEMMA PacketsAreTaken ==
  ASSUME Inv, OnPacket, Head(queue).kind = "video"
  PROVE  /\ 1 \in Waiting(Cur) /\ queue # <<>> /\ queue' = Tail(queue)
         /\ \E p \in Given : /\ p.demuxer = Cur /\ p.n = queue[1].n
                             /\ appended' = Append(appended, p)
         /\ demuxed' = demuxed /\ dead' = dead
  <1> USE DEF Inv
  <1> DEFINE p == [demuxer |-> Head(queue).demuxer, n |-> Head(queue).n, to |-> stream]
  <1>1. /\ queue # <<>> /\ queue' = Tail(queue)
        /\ Head(queue).what = "packet" /\ demuxed' = demuxed /\ dead' = dead
        /\ videoInit => appended' = Append(appended, p)
    BY DEF OnPacket, Runs, VideoReady, demux
  <1>2. Head(queue) = queue[1] /\ 1 \in 1 .. Len(queue) /\ Head(queue) \in Task
    BY <1>1, Removing DEF DataInv
  <1>3. VideoPacketAt(1)
    BY <1>1, <1>2 DEF VideoPacketAt
  <1>4. Cur \in Demuxers /\ "video" \in found[Cur]
    BY <1>2, <1>3 DEF ConfigInv
  <1>5. Configured
    <2> SUFFICES ASSUME ~Configured PROVE FALSE
      OBVIOUS
    <2>1. PICK j \in 1 .. Len(queue) : \A k \in 1 .. Len(queue) : VideoPacketAt(k) => j < k
      BY <1>4 DEF ConfigInv
    <2>2. j < 1
      BY <1>2, <1>3, <2>1
    <2> QED
      BY <2>2
  <1>6. Head(queue).demuxer = Cur /\ Head(queue).n \in 1 .. MaxPackets
    BY <1>1, <1>2, Bounds DEF QueueInv, Task
  <1>7. p \in Given /\ p.demuxer = Cur /\ p.n = queue[1].n
    BY <1>2, <1>4, <1>6 DEF Given, LoopInv
  <1>8. appended' = Append(appended, p)
    BY <1>1, <1>5 DEF Configured
  <1>9. 1 \in Waiting(Cur)
    BY <1>1, <1>2, <1>6 DEF Waiting
  <1> QED
    BY <1>1, <1>7, <1>8, <1>9

\* The next packet the thread posts is the next in order; nothing else it
\* posts is a packet.
LEMMA FlowParsed ==
  ASSUME Inv, NEW d \in Demuxers, Parser(d), NEW e \in Demuxers, InFlow(e)
  PROVE  InFlow(e)'
  <1> USE DEF Inv
  <1>1. /\ d = Cur /\ appended' = appended
        /\ \A kinds \in SUBSET Kinds :
             /\ Configs(d, kinds) \in Seq(Task)
             /\ \A i \in 1 .. Len(Configs(d, kinds)) :
                  Configs(d, kinds)[i].what = "config"
    <2>1. d = Cur /\ appended' = appended
      BY ParserPosts DEF controller
    <2>2. ASSUME NEW kinds \in SUBSET Kinds
          PROVE  /\ Configs(d, kinds) \in Seq(Task)
                 /\ \A i \in 1 .. Len(Configs(d, kinds)) :
                      Configs(d, kinds)[i].what = "config"
      BY ConfigsFacts
    <2> QED
      BY <2>1, <2>2
  <1>2. CASE InitStreamInfo(d)
    <2>1. PICK kinds \in SUBSET Kinds : queue' = queue \o Configs(d, kinds)
      BY <1>2, Finding
    <2>2. demuxed' = demuxed
      BY <1>2, Finding
    <2> QED
      BY <1>1, <2>1, <2>2, FlowPosted
  <1>3. CASE ReadFrame(d)
    <2>1. PICK kind \in found[d] :
                 /\ demuxed[d][kind] < MaxPackets
                 /\ demuxed' = [demuxed EXCEPT ![d][kind] = @ + 1]
                 /\ queue' = Append(queue, PacketTask(d, kind, demuxed[d][kind] + 1))
      BY <1>3 DEF ReadFrame, PostWork
    <2> DEFINE n == demuxed[d][kind] + 1
               task == PacketTask(d, kind, n)
    <2>2. kind \in Kinds /\ n \in 0 .. MaxPackets
      BY <2>1, Bounds DEF DataInv
    <2>3. task \in Task /\ task.kind = kind /\ task.demuxer = d
      BY <2>2, TasksAreTasks DEF PacketTask
    <2>4. queue' = queue \o <<task>> /\ <<task>> \in Seq(Task)
      BY <2>1, <2>3, AppendIsConcat DEF DataInv
    <2>5. CASE e = d /\ kind = "video"
      <3>1. demuxed'[e]["video"] = n /\ n = demuxed[e]["video"] + 1
        BY <2>1, <2>2, <2>5 DEF DataInv
      <3> QED
        BY <1>1, <2>2, <2>4, <2>5, <3>1, FlowGrows
    <2>6. CASE e # d
      <3>1. demuxed'[e] = demuxed[e]
        BY <2>1, <2>6 DEF DataInv
      <3>2. \A i \in 1 .. Len(<<task>>) : <<task>>[i].demuxer # e
        BY <2>3, <2>6
      <3> HIDE DEF task
      <3> QED
        BY <1>1, <2>4, <3>1, <3>2, FlowPosted
    <2>7. CASE e = d /\ kind # "video"
      <3>1. demuxed'[e]["video"] = demuxed[e]["video"]
        BY <2>1, <2>2, <2>7 DEF DataInv, Kinds
      <3>2. \A i \in 1 .. Len(<<task>>) : <<task>>[i].kind # "video"
        BY <2>3, <2>7
      <3> HIDE DEF task
      <3> QED
        BY <1>1, <2>4, <3>1, <3>2, FlowPosted
    <2> QED
      BY <2>5, <2>6, <2>7
  <1>4. CASE ReadEndOfFile(d)
    <2> DEFINE task == EndTask(d)
    <2>1. task \in Task /\ task.what = "end"
      BY TasksAreTasks DEF EndTask
    <2>2. queue' = queue \o <<task>> /\ <<task>> \in Seq(Task) /\ demuxed' = demuxed
      BY <1>4, <2>1, AppendIsConcat DEF ReadEndOfFile, DataInv
    <2>3. \A i \in 1 .. Len(<<task>>) : <<task>>[i].what # "packet"
      BY <2>1
    <2> HIDE DEF task
    <2> QED
      BY <1>1, <2>2, <2>3, FlowPosted
  <1>5. CASE ReadFails(d)
    <2>1. queue' = queue /\ demuxed' = demuxed
      BY <1>5 DEF ReadFails
    <2>2. Waiting(e)' = Waiting(e)
      BY <2>1 DEF Waiting
    <2> QED
      BY <1>1, <2>1, <2>2, FlowStays
  <1> QED
    BY <1>2, <1>3, <1>4, <1>5 DEF Parser

LEMMA FlowKeeps ==
  ASSUME Inv, NothingLost, Next
  PROVE  NothingLost'
  <1> USE DEF Inv
  <1>1. ASSUME NEW d \in Demuxers, d \notin dead PROVE InFlow(d)
    BY <1>1 DEF NothingLost, InFlow
  <1> SUFFICES ASSUME NEW d \in Demuxers, d \notin dead' PROVE InFlow(d)'
    BY DEF NothingLost, InFlow
  <1>2. dead \subseteq dead'
    <2>1. CASE InitPlayer
      BY <2>1 DEF InitPlayer, StartInitPlayer, CleanPlayer, CreateDemuxer, DestroyDemuxer,
                  JoinParser, MakePlayer, OpenInput, demux
    <2>2. CASE PostInitPlayer \/ Callback
      BY <2>2 DEF PostInitPlayer, Callback, OnVideoConfig, OnAudioConfig, OnPacket,
                  OnEndOfStream, demux
    <2>3. CASE \E e \in Demuxers : Parser(e)
      BY <2>3, Finding DEF Parser, ReadFrame, ReadEndOfFile, ReadFails
    <2>4. CASE Reader
      BY <2>4, ReaderSteps DEF demux
    <2> QED
      BY <2>1, <2>2, <2>3, <2>4 DEF Next, Loop
  <1>3. InFlow(d)
    BY <1>1, <1>2
  <1>4. CASE PostInitPlayer
    <2>1. InitTask \in Task /\ InitTask.what = "InitPlayer"
      BY TasksAreTasks DEF InitTask
    <2>2. /\ queue' = queue \o <<InitTask>> /\ <<InitTask>> \in Seq(Task)
          /\ UNCHANGED <<appended, demuxed>>
      BY <1>4, <2>1, AppendIsConcat DEF PostInitPlayer, DataInv, controller, demux
    <2>3. \A i \in 1 .. Len(<<InitTask>>) : <<InitTask>>[i].what # "packet"
      BY <2>1
    <2> HIDE DEF InitTask
    <2> QED
      BY <1>3, <2>2, <2>3, FlowPosted
  <1>5. CASE StartInitPlayer \/ OnVideoConfig \/ OnAudioConfig \/ OnEndOfStream
             \/ (OnPacket /\ Head(queue).kind # "video")
    <2>1. /\ queue # <<>> /\ queue' = Tail(queue) /\ UNCHANGED <<appended, demuxed>>
          /\ ~(Head(queue).what = "packet" /\ Head(queue).kind = "video")
      BY <1>5 DEF StartInitPlayer, OnVideoConfig, OnAudioConfig, OnEndOfStream, OnPacket,
                  Runs, controller, demux
    <2>2. 1 \notin Waiting(d)
      BY <2>1, Removing DEF DataInv, Waiting
    <2> QED
      BY <1>3, <2>1, <2>2, FlowRuns
  <1>6. CASE OnPacket /\ Head(queue).kind = "video"
    <2>1. /\ 1 \in Waiting(Cur) /\ queue # <<>> /\ queue' = Tail(queue)
          /\ demuxed' = demuxed
      BY <1>6, PacketsAreTaken
    <2>2. PICK p \in Given : /\ p.demuxer = Cur /\ p.n = queue[1].n
                             /\ appended' = Append(appended, p)
      BY <1>6, PacketsAreTaken
    <2>3. CASE d = Cur
      BY <1>3, <2>1, <2>2, <2>3, FlowGoesOn
    <2>4. CASE d # Cur
      <3>1. Waiting(d) = {} /\ Waiting(d)' = {}
        <4>1. \A k \in Waiting(d) : FALSE
          BY <2>4 DEF Waiting, QueueInv, Demuxers
        <4>2. \A k \in Waiting(d)' : k + 1 \in Waiting(d)
          BY <2>1, WaitingMovesUp
        <4> QED
          BY <4>1, <4>2
      <3>2. /\ Len(appended') = Len(appended) + 1 /\ Len(appended) \in Nat
            /\ \A k \in 1 .. Len(appended) : appended'[k] = appended[k]
            /\ appended'[Len(appended) + 1] = p
        BY <2>2, AppendProperties, LenProperties DEF AppendedInv
      <3>3. /\ Appended(d)' = Appended(d)
            /\ \A k \in Appended(d) : appended'[k] = appended[k]
        BY <2>2, <2>4, <3>2 DEF Appended
      <3>4. {appended'[k].n : k \in Appended(d)} = {appended[k].n : k \in Appended(d)}
        BY <3>3
      <3>5. AllThere(d)'
        BY <1>3, <2>1, <3>1, <3>3, <3>4 DEF InFlow, AllThere, NumbersAt
      <3>6. InOrder(d)'
        BY <1>3, <3>1, <3>3 DEF InFlow, InOrder
      <3> QED
        BY <3>5, <3>6 DEF InFlow
    <2> QED
      BY <2>3, <2>4
  <1>7. CASE CleanPlayer \/ CreateDemuxer \/ DestroyDemuxer \/ MakePlayer \/ OpenInput
             \/ Reader
    <2>1. UNCHANGED <<queue, appended, demuxed>>
      BY <1>7, ReaderSteps DEF CleanPlayer, CreateDemuxer, DestroyDemuxer, MakePlayer,
                               OpenInput, controller, demux
    <2>2. Waiting(d)' = Waiting(d)
      BY <2>1 DEF Waiting
    <2> QED
      BY <1>3, <2>1, <2>2, FlowStays
  <1>8. CASE JoinParser
    <2>1. /\ UNCHANGED <<appended, demuxed>> /\ d # Cur
      BY <1>8 DEF JoinParser, LoopAt, Cur, controller
    <2>2. Waiting(d) = {}
      BY <2>1 DEF Waiting, QueueInv, Demuxers
    <2>3. Waiting(d)' = {}
      BY <1>8, OnlyCallsLeft DEF Waiting
    <2> QED
      BY <1>3, <2>1, <2>2, <2>3, FlowStays
  <1>9. CASE \E e \in Demuxers : Parser(e)
    BY <1>3, <1>9, FlowParsed
  <1> QED
    BY <1>4, <1>5, <1>6, <1>7, <1>8, <1>9 DEF Next, Loop, InitPlayer, Callback

\* Of a demuxer that lives, every video packet is with the player or waits, in
\* order: none is dropped for want of a configuration, and none overtakes
\* another one.
THEOREM NoPacketLost == Spec => []NothingLost
<1>1. Init => NothingLost
  <2> SUFFICES ASSUME Init, NEW d \in Demuxers PROVE AllThere(d) /\ InOrder(d)
    BY DEF NothingLost
  <2>1. Waiting(d) = {} /\ Appended(d) = {}
    BY DEF Init, Waiting, Appended
  <2>2. 1 .. demuxed[d]["video"] = {}
    BY DEF Init, Kinds
  <2> QED
    BY <2>1, <2>2 DEF AllThere, InOrder, NumbersAt
<1>2. Inv /\ NothingLost /\ [Next]_vars => NothingLost'
  <2> SUFFICES ASSUME Inv, NothingLost, UNCHANGED vars PROVE NothingLost'
    BY FlowKeeps
  <2>1. UNCHANGED <<queue, appended, demuxed, dead>>
    BY DEF vars, controller, demux
  <2>2. \A d : Waiting(d)' = Waiting(d) /\ Appended(d)' = Appended(d)
    BY <2>1 DEF Waiting, Appended
  <2> QED
    BY <2>1, <2>2 DEF NothingLost, AllThere, InOrder
<1> QED
  BY <1>1, <1>2, Invariance, PTL DEF Spec, Safety
=============================================================================
