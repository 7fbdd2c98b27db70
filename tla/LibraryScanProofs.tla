-------------------------- MODULE LibraryScanProofs --------------------------
(***************************************************************************)
(* Proofs about LibraryScan.  Types and the ownership of the worker hold   *)
(* for any number of client threads.  The properties that client threads  *)
(* break hold, for every other value of the constants, without them.      *)
(***************************************************************************)
EXTENDS LibraryScan, FiniteSetTheorems, TLAPS

-----------------------------------------------------------------------------
(* Models.                                                                 *)

LEMMA EmptyModelIsLocal == EmptyModel \in LocalModels /\ Holds(EmptyModel) = {}
  BY DEF EmptyModel, LocalModels, Models, Tracks, Absent, Holds

LEMMA NextIdIsFree ==
  ASSUME NEW model \in Models, NEW first \in NextIds(model)
  PROVE  /\ first \in Nat \ {0}
         /\ \A m \in Media : model[m].id < first
<1>1. PICK k \in {0} \cup Ids(model) :
         (\A i \in Ids(model) : i <= k) /\ first = k + 1
  BY DEF NextIds
<1>2. \A m \in Media : model[m].id \in Nat
  BY DEF Models, Tracks
<1>3. k \in Nat
  BY <1>1, <1>2 DEF Ids, Holds
<1>4. \A m \in Media : model[m].id <= k
  BY <1>1, <1>2, <1>3 DEF Ids, Holds
<1> QED
  BY <1>1, <1>2, <1>3, <1>4

LEMMA NumberingIsTyped ==
  ASSUME NEW newcomers \in SUBSET Media, NEW first \in Nat \ {0},
         NEW n \in Numberings(newcomers, first)
  PROVE  \A m \in newcomers : n[m] \in Nat /\ n[m] >= first
<1>1. Cardinality(newcomers) \in Nat
  BY ScanAssumption, FS_Subset, FS_CardinalityType
<1>2. n \in [newcomers -> first..(first + Cardinality(newcomers) - 1)]
  BY DEF Numberings
<1> QED
  BY <1>1, <1>2

(* Newcomers of a model numbered from an id on.                            *)
Numbers(model, newcomers, first, n) ==
  /\ model \in Models
  /\ newcomers \subseteq Media /\ newcomers \cap Holds(model) = {}
  /\ first \in Nat \ {0}
  /\ n \in Numberings(newcomers, first)

(* What numbering newcomers does to a model.                               *)
LEMMA WithNewcomers ==
  ASSUME NEW model, NEW newcomers, NEW first, NEW n, NEW next,
         Numbers(model, newcomers, first, n),
         next = With(model, newcomers, n)
  PROVE  /\ next \in Models
         /\ Holds(next) = Holds(model) \cup newcomers
         /\ \A m \in Holds(model) : next[m] = model[m]
         /\ \A m \in newcomers : next[m].id = n[m]
         /\ \A m \in newcomers : n[m] \in Nat /\ n[m] >= first
<1>1. \A m \in newcomers : n[m] \in Nat /\ n[m] >= first
  BY NumberingIsTyped DEF Numbers
<1>2. \A m \in newcomers : next[m] = [id |-> n[m], plays |-> 0]
  BY DEF With, Numbers
<1>3. \A m \in Media \ newcomers : next[m] = model[m]
  BY DEF With, Numbers
<1>4. next \in Models
  BY <1>1 DEF With, Models, Tracks, Numbers
<1>5. \A m \in newcomers : next[m].id = n[m] /\ next[m].id # 0
  <2>1. first \in Nat /\ first > 0
    BY DEF Numbers
  <2>2. \A m \in newcomers : n[m] # 0
    BY <1>1, <2>1
  <2>3. ASSUME NEW m \in newcomers PROVE next[m].id = n[m]
    <3>1. next[m] = [id |-> n[m], plays |-> 0]
      BY <1>2
    <3> QED
      BY <3>1
  <2> QED
    BY <2>2, <2>3
<1>6. \A m \in Holds(model) : m \in Media /\ m \notin newcomers
  BY DEF Holds, Numbers
<1>7. Holds(next) = Holds(model) \cup newcomers
  <2>1. ASSUME NEW m \in Media
        PROVE  next[m].id # 0 <=> m \in Holds(model) \cup newcomers
    BY <1>3, <1>5 DEF Holds
  <2> QED
    BY <2>1, <1>6 DEF Holds, Numbers
<1>8. \A m \in Holds(model) : next[m] = model[m]
  BY <1>3, <1>6
<1>9. \A m \in newcomers : next[m].id = n[m]
  BY <1>5
<1> QED
  BY <1>1, <1>4, <1>7, <1>8, <1>9

(* Newcomers that are numbered from a free id on keep the ids distinct.    *)
LEMMA NewcomersAreDistinct ==
  ASSUME NEW model, NEW newcomers, NEW first, NEW n, NEW next,
         Numbers(model, newcomers, first, n),
         next = With(model, newcomers, n),
         Distinct(model), \A m \in Media : model[m].id < first
  PROVE  Distinct(next)
<1>1. /\ next \in Models
      /\ Holds(next) = Holds(model) \cup newcomers
      /\ \A m \in Holds(model) : next[m] = model[m]
      /\ \A m \in newcomers : next[m].id = n[m]
      /\ \A m \in newcomers : n[m] \in Nat /\ n[m] >= first
  BY WithNewcomers
<1>2. \A m, k \in newcomers : n[m] = n[k] => m = k
  BY DEF Numberings, IsInjective, Numbers
<1>3. /\ first \in Nat
      /\ \A m \in Holds(model) : model[m].id \in Nat /\ model[m].id < first
  BY DEF Holds, Models, Tracks, Numbers
<1>4. ASSUME NEW m \in Holds(next), NEW k \in Holds(next), next[m].id = next[k].id
      PROVE  m = k
  <2>1. CASE m \in Holds(model) /\ k \in Holds(model)
    BY <1>1, <1>4, <2>1 DEF Distinct
  <2>2. CASE m \in newcomers /\ k \in newcomers
    BY <1>1, <1>2, <1>4, <2>2
  <2>3. CASE m \in Holds(model) /\ k \in newcomers
    BY <1>1, <1>3, <1>4, <2>3
  <2>4. CASE m \in newcomers /\ k \in Holds(model)
    BY <1>1, <1>3, <1>4, <2>4
  <2> QED
    BY <1>1, <1>4, <2>1, <2>2, <2>3, <2>4
<1> QED
  BY <1>4 DEF Distinct

LEMMA RestrictedModel ==
  ASSUME NEW model \in Models, NEW media
  PROVE  /\ Restricted(model, media) \in Models
         /\ Holds(Restricted(model, media)) = Holds(model) \cap media
         /\ \A m \in Holds(model) \cap media : Restricted(model, media)[m] = model[m]
         /\ Distinct(model) => Distinct(Restricted(model, media))
<1>1. Restricted(model, media) \in Models
  BY DEF Restricted, Models, Tracks, Absent
<1>2. \A m \in Media : Restricted(model, media)[m] = IF m \in media THEN model[m] ELSE Absent
  BY DEF Restricted
<1>3. Holds(Restricted(model, media)) = Holds(model) \cap media
  BY <1>2 DEF Holds, Absent
<1>4. \A m \in Holds(model) \cap media : Restricted(model, media)[m] = model[m]
  BY <1>2 DEF Holds
<1> QED
  BY <1>1, <1>3, <1>4 DEF Distinct

LEMMA SavedIsLocal ==
  ASSUME NEW model \in Models
  PROVE  /\ Saved(model) \in LocalModels
         /\ Holds(Saved(model)) = Holds(model) \cap Files
         /\ \A m \in Holds(Saved(model)) : Saved(model)[m] = model[m]
         /\ Distinct(model) => Distinct(Saved(model))
  BY RestrictedModel DEF Saved, LocalModels

(* A scan yields local tracks, keeps ids distinct and keeps the stored ones. *)
LEMMA ScanKeepsIds ==
  ASSUME NEW stored \in LocalModels, NEW found \in SUBSET Files,
         NEW tracks \in Scanned(stored, found)
  PROVE  /\ tracks \in LocalModels
         /\ Distinct(stored) => Distinct(tracks)
         /\ \A m \in Holds(stored) \cap Holds(tracks) : tracks[m].id = stored[m].id
<1> DEFINE newcomers == found \ Holds(stored)
<1>1. PICK model \in Extended(stored, newcomers) : tracks = Restricted(model, found)
  BY DEF Scanned
<1>2. PICK first \in NextIds(stored) :
         \E n \in Numberings(newcomers, first) : model = With(stored, newcomers, n)
  BY <1>1 DEF Extended
<1>3. PICK n \in Numberings(newcomers, first) : model = With(stored, newcomers, n)
  BY <1>2
<1>4. Numbers(stored, newcomers, first, n) /\ \A m \in Media : stored[m].id < first
  BY <1>3, NextIdIsFree DEF LocalModels, Media, Numbers
<1> HIDE DEF newcomers
<1>6. /\ model \in Models
      /\ Holds(model) = Holds(stored) \cup newcomers
      /\ \A m \in Holds(stored) : model[m] = stored[m]
  BY <1>3, <1>4, WithNewcomers
<1>7. Distinct(stored) => Distinct(model)
  BY <1>3, <1>4, NewcomersAreDistinct
<1>8. /\ tracks \in Models
      /\ Holds(tracks) = Holds(model) \cap found
      /\ \A m \in Holds(model) \cap found : tracks[m] = model[m]
      /\ Distinct(model) => Distinct(tracks)
  BY <1>1, <1>6, RestrictedModel
<1> QED
  BY <1>6, <1>7, <1>8 DEF LocalModels

-----------------------------------------------------------------------------
(* Types.                                                                  *)

Slots == [at : Labels, task : {"none", "begin", "poll", "item"},
          result : LocalResults \cup {NoModel}, track : Media \cup {NoModel},
          points : BOOLEAN, next : Nat]

LEMMA IdleIsTyped == Idle \in Slots /\ NoWorker.from \in LocalModels
  BY EmptyModelIsLocal DEF Idle, Slots, Labels, NoWorker

LEMMA SlotChanges ==
  ASSUME NEW threads \in [Threads -> Slots], NEW t \in Threads, NEW label \in Labels
  PROVE  /\ [threads EXCEPT ![t].at = label] \in [Threads -> Slots]
         /\ \A task \in {"none", "begin", "poll", "item"} :
              [threads EXCEPT ![t].at = label, ![t].task = task] \in [Threads -> Slots]
         /\ \A result \in LocalResults \cup {NoModel} :
              [threads EXCEPT ![t].at = label, ![t].result = result] \in [Threads -> Slots]
         /\ \A first \in Nat :
              [threads EXCEPT ![t].at = label, ![t].next = first] \in [Threads -> Slots]
         /\ \A track \in Media :
              [threads EXCEPT ![t].at = label, ![t].track = track, ![t].points = TRUE]
                \in [Threads -> Slots]
         /\ \A track \in Media :
              [threads EXCEPT ![t].at = label, ![t].task = "item", ![t].track = track]
                \in [Threads -> Slots]
<1>1. [threads EXCEPT ![t].at = label] \in [Threads -> Slots]
  BY DEF Slots
<1>2. \A task \in {"none", "begin", "poll", "item"} :
          [threads EXCEPT ![t].at = label, ![t].task = task] \in [Threads -> Slots]
  BY DEF Slots
<1>3. \A result \in LocalResults \cup {NoModel} :
          [threads EXCEPT ![t].at = label, ![t].result = result] \in [Threads -> Slots]
  BY DEF Slots
<1>4. \A first \in Nat :
          [threads EXCEPT ![t].at = label, ![t].next = first] \in [Threads -> Slots]
  BY DEF Slots
<1>5. ASSUME NEW track \in Media
      PROVE  [threads EXCEPT ![t].at = label, ![t].track = track, ![t].points = TRUE]
               \in [Threads -> Slots]
  <2>1. [threads[t] EXCEPT !.at = label, !.track = track, !.points = TRUE] \in Slots
    BY DEF Slots
  <2>2. [threads EXCEPT ![t] = [threads[t] EXCEPT !.at = label, !.track = track, !.points = TRUE]]
          \in [Threads -> Slots]
    BY <2>1
  <2> QED
    BY <2>2
<1>6. ASSUME NEW track \in Media
      PROVE  [threads EXCEPT ![t].at = label, ![t].task = "item", ![t].track = track]
               \in [Threads -> Slots]
  <2>1. [threads[t] EXCEPT !.at = label, !.task = "item", !.track = track] \in Slots
    BY DEF Slots
  <2>2. [threads EXCEPT ![t] = [threads[t] EXCEPT !.at = label, !.task = "item", !.track = track]]
          \in [Threads -> Slots]
    BY <2>1
  <2> QED
    BY <2>2
<1> QED
  BY <1>1, <1>2, <1>3, <1>4, <1>5, <1>6

(* What TypeOK says of the threads is that their slots are typed.          *)
LEMMA ThreadsHaveSlots == TypeOK => thread \in [Threads -> Slots]
  BY DEF TypeOK, Slots

LEMMA GotoIsTyped ==
  ASSUME TypeOK, NEW t \in Threads, NEW label \in Labels, Goto(t, label)
  PROVE  thread' \in [Threads -> Slots]
  BY ThreadsHaveSlots DEF Goto, Slots

LEMMA ReturnIsTyped ==
  ASSUME TypeOK, NEW t \in Threads, Return(t)
  PROVE  thread' \in [Threads -> Slots] /\ bus' \in Threads \cup {Nobody}
<1>1. thread' \in [Threads -> Slots]
  BY ThreadsHaveSlots, IdleIsTyped DEF Return
<1>2. bus' \in Threads \cup {Nobody}
  BY DEF Return, TypeOK
<1> QED
  BY <1>1, <1>2

LEMMA DanglingIsTyped ==
  ASSUME NEW threads \in [Threads -> Slots], NEW t \in Threads
  PROVE  Dangling(threads, t) \in [Threads -> Slots]
<1>1. ASSUME NEW u \in Threads
      PROVE  [threads[u] EXCEPT !.points = FALSE] \in Slots
  BY DEF Slots
<1> QED
  BY <1>1 DEF Dangling

(* Nothing but the types of the threads is at stake in a step of a thread  *)
(* that leaves models alone.                                               *)
Typed ==
  /\ disk \subseteq Files
  /\ store \in LocalModels /\ live \in Models
  /\ index \in {"Uninitialized", "Loading", "Ready", "Degraded"}
  /\ running \in BOOLEAN /\ done \in BOOLEAN
  /\ pending \in LocalResults \cup {NoModel}
  /\ joinable \in BOOLEAN
  /\ worker \in [at : {"none", "loading", "reading", "lowering", "reporting", "ended"},
                 from : LocalModels]
  /\ scans \in Nat
  /\ alive \in BOOLEAN

LEMMA TypeOKParts ==
  TypeOK <=> Typed /\ thread \in [Threads -> Slots] /\ bus \in Threads \cup {Nobody}
  BY DEF TypeOK, Typed, Slots

LEMMA BeginIsTyped ==
  ASSUME TypeOK, NEW t \in Threads, Begin(t)
  PROVE  TypeOK'
<1> SUFFICES Typed' /\ thread' \in [Threads -> Slots] /\ bus' \in Threads \cup {Nobody}
  BY DEF TypeOK, Typed, Slots
<1> USE TypeOKParts
<1>1. CASE BeginReadsDone(t)
  BY <1>1, GotoIsTyped DEF BeginReadsDone, Typed, library, flags, owner, Labels
<1>2. CASE BeginChecks(t)
  BY <1>2, GotoIsTyped, ReturnIsTyped DEF BeginChecks, Typed, library, flags, owner, Labels
<1>3. CASE BeginMarks(t)
  BY <1>3, GotoIsTyped DEF BeginMarks, Typed, flags, owner, Labels
<1>4. CASE BeginResets(t)
  BY <1>4, GotoIsTyped DEF BeginResets, Typed, library, owner, Labels
<1>5. CASE BeginClearsDone(t)
  BY <1>5, GotoIsTyped DEF BeginClearsDone, Typed, library, owner, Labels
<1>6. CASE BeginRaisesRunning(t)
  BY <1>6, GotoIsTyped DEF BeginRaisesRunning, Typed, library, owner, Labels
<1>7. CASE BeginSpawns(t)
  <2>1. worker' \in [at : {"none", "loading", "reading", "lowering", "reporting", "ended"},
                      from : LocalModels]
    BY <1>7, EmptyModelIsLocal DEF BeginSpawns
  <2>2. scans' \in Nat
    BY <1>7 DEF BeginSpawns, Typed
  <2> QED
    BY <1>7, <2>1, <2>2, ReturnIsTyped DEF BeginSpawns, Typed, library, flags
<1>8. CASE BeginCannotSpawn(t)
  <2>1. thread' \in [Threads -> Slots] /\ bus' \in Threads \cup {Nobody}
    BY <1>8, ReturnIsTyped DEF BeginCannotSpawn
  <2>2. scans' \in Nat
    BY <1>8 DEF BeginCannotSpawn, Typed
  <2> QED
    BY <1>8, <2>1, <2>2 DEF BeginCannotSpawn, Typed, owner
<1>9. CASE BeginOverwrites(t)
  BY <1>9 DEF BeginOverwrites, Terminate, Typed
<1> QED
  BY <1>1, <1>2, <1>3, <1>4, <1>5, <1>6, <1>7, <1>8, <1>9 DEF Begin

LEMMA JoinIsTyped ==
  ASSUME TypeOK, NEW t \in Threads, Join(t)
  PROVE  TypeOK'
<1> SUFFICES Typed' /\ thread' \in [Threads -> Slots] /\ bus' \in Threads \cup {Nobody}
  BY DEF TypeOK, Typed, Slots
<1> USE TypeOKParts
<1>1. \A label \in {"join", "pollJoin", "joining", "pollJoining"} :
         AfterJoin(label) \in Labels /\ Joining(label) \in Labels
  BY DEF AfterJoin, Joining, Labels
<1>2. CASE JoinLooks(t)
  BY <1>1, <1>2, GotoIsTyped DEF JoinLooks, JoinLabels, Typed, library, flags, owner
<1>3. CASE JoinEnds(t)
  BY <1>1, <1>3, GotoIsTyped, IdleIsTyped DEF JoinEnds, NoWorker, Typed, library, flags
<1>4. CASE JoinFails(t)
  BY <1>4 DEF JoinFails, Terminate, Typed
<1> QED
  BY <1>2, <1>3, <1>4 DEF Join

LEMMA PollIsTyped ==
  ASSUME TypeOK, NEW t \in Threads, Poll(t)
  PROVE  TypeOK'
<1> SUFFICES Typed' /\ thread' \in [Threads -> Slots] /\ bus' \in Threads \cup {Nobody}
  BY DEF TypeOK, Typed, Slots
<1> USE TypeOKParts
<1>1. \A task, taken : AfterPoll(task, taken) \in Labels
  BY DEF AfterPoll, Labels
<1>2. CASE PollReadsDone(t)
  <2>1. thread' \in [Threads -> Slots]
    <3>1. "pollJoin" \in Labels
      BY DEF Labels
    <3>2. CASE done
      BY <1>2, <3>1, <3>2, GotoIsTyped DEF PollReadsDone
    <3>3. CASE ~done
      BY <1>1, <1>2, <3>3, GotoIsTyped DEF PollReadsDone
    <3> QED
      BY <3>2, <3>3
  <2> QED
    BY <1>2, <2>1 DEF PollReadsDone, Typed, library, flags, owner
<1>3. CASE PollTakes(t)
  <2>1. thread' \in [Threads -> Slots]
    <3>1. "apply" \in Labels
      BY DEF Labels
    <3> QED
      BY <1>3, <3>1, SlotChanges DEF PollTakes, Typed
  <2> QED
    BY <1>3, <2>1 DEF PollTakes, Typed, library, owner
<1>4. CASE PollApplies(t)
  <2> DEFINE result == thread[t].result
             applied == [thread EXCEPT ![t].at = "lowerDone", ![t].result = NoModel]
  <2>1. result \in LocalResults
    BY <1>4 DEF PollApplies, Slots
  <2>2. result.tracks \in LocalModels /\ result.tracks \in Models
    BY <2>1 DEF LocalResults, Results, LocalModels
  <2>3. applied \in [Threads -> Slots]
    <3>1. "lowerDone" \in Labels
      BY DEF Labels
    <3> QED
      BY <3>1, SlotChanges
  <2>4. Saved(result.tracks) \in LocalModels
    BY <2>2, SavedIsLocal
  <2> HIDE DEF applied
  <2>5. thread' \in [Threads -> Slots]
    BY <1>4, <2>3, DanglingIsTyped DEF PollApplies, applied
  <2> QED
    BY <1>4, <2>2, <2>4, <2>5 DEF PollApplies, Typed, flags, owner
<1>5. CASE PollFindsNothing(t)
  BY <1>5, GotoIsTyped DEF PollFindsNothing, Typed, flags, owner, Labels
<1>6. CASE PollLowersDone(t)
  BY <1>6, GotoIsTyped DEF PollLowersDone, Typed, library, owner, Labels
<1>7. CASE PollLowersRunning(t)
  BY <1>1, <1>7, GotoIsTyped DEF PollLowersRunning, Typed, library, owner
<1> QED
  BY <1>2, <1>3, <1>4, <1>5, <1>6, <1>7 DEF Poll

LEMMA MergeIsTyped ==
  ASSUME TypeOK, NEW t \in Threads, Merge(t)
  PROVE  TypeOK'
<1> SUFFICES Typed' /\ thread' \in [Threads -> Slots] /\ bus' \in Threads \cup {Nobody}
  BY DEF TypeOK, Typed, Slots
<1> USE TypeOKParts
<1>1. CASE MergeCounts(t)
  <2>1. PICK first \in NextIds(live) :
           thread' = [thread EXCEPT ![t].at = "append", ![t].next = first]
    BY <1>1 DEF MergeCounts
  <2>2. first \in Nat
    BY NextIdIsFree DEF Typed
  <2>3. thread' \in [Threads -> Slots]
    <3>1. "append" \in Labels
      BY DEF Labels
    <3> QED
      BY <2>1, <2>2, <3>1, SlotChanges
  <2> QED
    BY <1>1, <2>3 DEF MergeCounts, Typed, library, flags, owner
<1>2. CASE MergeAppends(t)
  <2> DEFINE newcomers == MergedTracks(t) \ Holds(live)
             appended == [thread EXCEPT ![t].at = "finished"]
  <2>1. PICK n \in Numberings(newcomers, thread[t].next) :
           live' = With(live, newcomers, n)
    BY <1>2 DEF MergeAppends
  <2>2. \A m \in newcomers : n[m] \in Nat
    <3>1. thread[t].next \in Nat
      BY DEF Slots
    <3> QED
      BY <3>1 DEF Numberings
  <2>3. live' \in Models
    BY <2>1, <2>2 DEF With, Models, Tracks, Typed
  <2>4. appended \in [Threads -> Slots]
    BY DEF Slots, Labels
  <2> HIDE DEF appended
  <2>5. thread' \in [Threads -> Slots]
    BY <1>2, <2>4, DanglingIsTyped DEF MergeAppends, appended
  <2> QED
    BY <1>2, <2>3, <2>5 DEF MergeAppends, Typed, flags, owner
<1>3. CASE Finishes(t)
  BY <1>3, ReturnIsTyped DEF Finishes, Typed, library, flags, owner
<1> QED
  BY <1>1, <1>2, <1>3 DEF Merge

LEMMA WorkerIsTyped == TypeOK /\ Worker => TypeOK'
<1> SUFFICES ASSUME TypeOK, Worker
             PROVE  Typed' /\ thread' \in [Threads -> Slots] /\ bus' \in Threads \cup {Nobody}
  BY DEF TypeOK, Typed, Slots
<1> USE TypeOKParts
<1>1. CASE WorkerLoads
  BY <1>1 DEF WorkerLoads, Typed, library, flags
<1>2. CASE WorkerReads
  <2>1. worker.from \in LocalModels /\ disk \in SUBSET Files
    BY DEF Typed
  <2>2. pending' \in LocalResults \cup {NoModel}
    <3>1. CASE pending' = NoModel
      BY <3>1
    <3>2. ASSUME NEW tracks \in Scanned(worker.from, disk), NEW degraded \in BOOLEAN,
                 pending' = [tracks |-> tracks, degraded |-> degraded]
          PROVE  pending' \in LocalResults
      <4>1. tracks \in LocalModels
        BY <2>1, ScanKeepsIds
      <4> QED
        BY <3>2, <4>1 DEF LocalResults, Results, LocalModels
    <3> QED
      BY <1>2, <3>1, <3>2 DEF WorkerReads
  <2> QED
    BY <1>2, <2>2 DEF WorkerReads, Typed, library
<1>3. CASE WorkerLowersRunning
  BY <1>3 DEF WorkerLowersRunning, Typed, library
<1>4. CASE WorkerReports
  BY <1>4 DEF WorkerReports, Typed, library
<1> QED
  BY <1>1, <1>2, <1>3, <1>4 DEF Worker

LEMMA CommandIsTyped ==
  ASSUME TypeOK, NEW t \in Threads, Command(t)
  PROVE  TypeOK'
<1> SUFFICES Typed' /\ thread' \in [Threads -> Slots] /\ bus' \in Threads \cup {Nobody}
  BY DEF TypeOK, Typed, Slots
<1> USE TypeOKParts
<1>1. "begin" \in Labels /\ "merge" \in Labels /\ "starting" \in Labels
  BY DEF Labels
<1>2. CASE RefreshCommand(t)
  <2>1. thread' \in [Threads -> Slots]
    BY <1>1, <1>2, SlotChanges DEF RefreshCommand
  <2> QED
    BY <1>2, <2>1 DEF RefreshCommand, Typed, library, flags, owner
<1>3. ASSUME NEW file \in Files, StartCommand(t, file)
      PROVE  Typed' /\ thread' \in [Threads -> Slots] /\ bus' \in Threads \cup {Nobody}
  <2>1. thread' \in [Threads -> Slots]
    BY <1>1, <1>3, SlotChanges DEF StartCommand, Media
  <2> QED
    BY <1>3, <2>1 DEF StartCommand, Typed, library, flags, owner
<1>4. CASE RecordsPlay(t)
  <2>1. live' \in Models
    <3> DEFINE track == thread[t].track
    <3>1. live' = [live EXCEPT ![track].plays = @ + 1] /\ live \in [Media -> Tracks]
      BY <1>4 DEF RecordsPlay, Typed, Models
    <3> HIDE DEF track
    <3>2. [live[track] EXCEPT !.plays = @ + 1] \in Tracks \/ track \notin Media
      BY <3>1 DEF Tracks
    <3> QED
      BY <3>1, <3>2 DEF Models
  <2> QED
    BY <1>4, <2>1, ReturnIsTyped DEF RecordsPlay, Typed, flags, owner
<1>5. CASE LosesPlay(t)
  BY <1>5, ReturnIsTyped DEF LosesPlay, Typed, library, flags, owner
<1>6. ASSUME NEW remote \in Remotes, RemoteItemCommand(t, remote)
      PROVE  Typed' /\ thread' \in [Threads -> Slots] /\ bus' \in Threads \cup {Nobody}
  <2>1. thread' \in [Threads -> Slots]
    BY <1>1, <1>6, SlotChanges DEF RemoteItemCommand, Media
  <2> QED
    BY <1>6, <2>1 DEF RemoteItemCommand, Typed, library, flags, owner
<1> QED
  BY <1>2, <1>3, <1>4, <1>5, <1>6 DEF Command

LEMMA PresentsIsTyped == TypeOK /\ Presents => TypeOK'
<1> SUFFICES ASSUME TypeOK, Presents
             PROVE  Typed' /\ thread' \in [Threads -> Slots] /\ bus' \in Threads \cup {Nobody}
  BY DEF TypeOK, Typed, Slots
<1> USE TypeOKParts
<1>1. "begin" \in Labels /\ "poll" \in Labels /\ Presenter \in Threads
  BY DEF Labels, Threads
<1>2. thread' \in [Threads -> Slots]
  <2>1. CASE BeginsAtStartup
    BY <1>1, <2>1, SlotChanges DEF BeginsAtStartup
  <2>2. CASE Polls
    BY <1>1, <2>2, SlotChanges DEF Polls
  <2> QED
    BY <2>1, <2>2 DEF Presents
<1> QED
  BY <1>2 DEF Presents, BeginsAtStartup, Polls, Typed, library, flags, owner

LEMMA StartIsTyped == TypeOK /\ Restart => TypeOK'
<1> SUFFICES ASSUME TypeOK, Restart
             PROVE  Typed' /\ thread' \in [Threads -> Slots] /\ bus' \in Threads \cup {Nobody}
  BY DEF TypeOK, Typed, Slots
<1> USE TypeOKParts
<1> QED
  BY IdleIsTyped DEF Restart, Started, Typed, NoWorker, LocalModels

LEMMA TypeInit == Init => TypeOK
<1> SUFFICES ASSUME Init
             PROVE  Typed /\ thread \in [Threads -> Slots] /\ bus \in Threads \cup {Nobody}
  BY DEF TypeOK, Typed, Slots
<1> QED
  BY EmptyModelIsLocal, IdleIsTyped DEF Init, Typed, NoWorker, LocalModels

LEMMA TypeStep == TypeOK /\ [Next]_vars => TypeOK'
<1> SUFFICES ASSUME TypeOK, [Next]_vars
             PROVE  TypeOK'
  OBVIOUS
<1>1. ASSUME NEW t \in Threads, Begin(t) \/ Join(t) \/ Poll(t) \/ Merge(t) \/ Command(t)
      PROVE  TypeOK'
  BY <1>1, BeginIsTyped, JoinIsTyped, PollIsTyped, MergeIsTyped, CommandIsTyped
<1>2. CASE Presents
  BY <1>2, PresentsIsTyped
<1>3. CASE Worker
  BY <1>3, WorkerIsTyped
<1>4. ASSUME NEW files \in SUBSET Files, FilesChange(files)
      PROVE  TypeOK'
  BY <1>4 DEF FilesChange, TypeOK, flags, owner
<1>5. CASE Restart
  BY <1>5, StartIsTyped
<1>6. CASE UNCHANGED vars
  BY <1>6 DEF vars, TypeOK
<1> QED
  BY <1>1, <1>2, <1>3, <1>4, <1>5, <1>6 DEF Next

(* Types hold for any threads, files and remote tracks: what is persisted,   *)
(* reused and pending holds local tracks only (rebuildModel loads the store, *)
(* save leaves remote tracks out).                                           *)
THEOREM TypeCorrect == Spec => []TypeOK
  BY TypeInit, TypeStep, PTL DEF Spec

-----------------------------------------------------------------------------
(* The worker and the object that owns it.                                 *)

WorkerIsOwned == joinable <=> worker.at # "none"

LEMMA OwnershipStep == TypeOK /\ WorkerIsOwned /\ [Next]_vars => WorkerIsOwned'
<1> SUFFICES ASSUME TypeOK, WorkerIsOwned, [Next]_vars
             PROVE  WorkerIsOwned'
  OBVIOUS
<1> USE DEF WorkerIsOwned
<1>1. ASSUME NEW t \in Threads, Begin(t) PROVE WorkerIsOwned'
  <2>1. CASE BeginSpawns(t)
    BY <2>1 DEF BeginSpawns
  <2>2. CASE UNCHANGED owner
    BY <2>2 DEF owner
  <2> QED
    BY <1>1, <2>1, <2>2 DEF Begin, BeginReadsDone, BeginChecks, BeginMarks, BeginResets,
       BeginClearsDone, BeginRaisesRunning, BeginCannotSpawn, BeginOverwrites, Terminate,
       owner
<1>2. ASSUME NEW t \in Threads, Join(t) PROVE WorkerIsOwned'
  BY <1>2 DEF Join, JoinLooks, JoinEnds, JoinFails, Terminate, NoWorker, owner
<1>3. ASSUME NEW t \in Threads, Poll(t) \/ Merge(t) \/ Command(t) PROVE WorkerIsOwned'
  BY <1>3 DEF Poll, PollReadsDone, PollTakes, PollApplies, PollFindsNothing,
     PollLowersDone, PollLowersRunning, Merge, MergeCounts, MergeAppends, Finishes,
     Command, RefreshCommand, StartCommand, RecordsPlay, LosesPlay, RemoteItemCommand,
     owner
<1>4. CASE Presents
  BY <1>4 DEF Presents, BeginsAtStartup, Polls, owner
<1>5. CASE Worker
  <2>1. worker \in [at : {"none", "loading", "reading", "lowering", "reporting", "ended"},
                   from : LocalModels]
    BY DEF TypeOK
  <2> QED
    BY <1>5, <2>1 DEF Worker, WorkerLoads, WorkerReads, WorkerLowersRunning, WorkerReports
<1>6. ASSUME NEW files \in SUBSET Files, FilesChange(files) PROVE WorkerIsOwned'
  BY <1>6 DEF FilesChange, owner
<1>7. CASE Restart
  BY <1>7 DEF Restart, Started, NoWorker
<1>8. CASE UNCHANGED vars
  BY <1>8 DEF vars
<1> QED
  BY <1>1, <1>2, <1>3, <1>4, <1>5, <1>6, <1>7, <1>8 DEF Next

-----------------------------------------------------------------------------
(* The presenter without clients.                                          *)

Where == thread[Presenter].at

PollLabels == {"poll", "pollJoin", "pollJoining", "take", "apply", "lowerDone",
               "lowerRunning"}

(* Where the presenter is tells what it has made sure of.                  *)
Control ==
  /\ alive
  /\ Where \in {"joining", "pollJoining"} => joinable
  /\ Where \in {"mark", "reset", "clear", "raise", "spawn", "take", "apply", "lowerDone",
                "lowerRunning"} => ~joinable
  /\ Where = "starting" => thread[Presenter].points
  /\ Where \in {"reset", "clear", "raise", "spawn"} => index = "Loading"
  /\ Where \in {"apply", "lowerDone", "lowerRunning"} => pending = NoModel
  /\ Where = "begin" => thread[Presenter].task = "begin"
  /\ Where \in PollLabels => thread[Presenter].task \in {"begin", "poll"}
  /\ Where \in {"merge", "append"} /\ thread[Presenter].task # "poll"
       => thread[Presenter].track \in Remotes

LEMMA OnlyThePresenter ==
  ASSUME Clients = {}
  PROVE  Threads = {Presenter}
  BY DEF Threads

LEMMA GotoEffect ==
  ASSUME TypeOK, NEW label, Goto(Presenter, label)
  PROVE  /\ Where' = label
         /\ thread'[Presenter].task = thread[Presenter].task
         /\ thread'[Presenter].result = thread[Presenter].result
         /\ thread'[Presenter].track = thread[Presenter].track
         /\ thread'[Presenter].points = thread[Presenter].points
         /\ thread'[Presenter].next = thread[Presenter].next
<1>1. thread \in [Threads -> Slots] /\ Presenter \in Threads
  BY ThreadsHaveSlots DEF Threads
<1> QED
  BY <1>1 DEF Goto, Where, Slots

LEMMA ReturnEffect ==
  ASSUME TypeOK, Return(Presenter)
  PROVE  thread'[Presenter] = Idle /\ Where' = "idle"
<1>1. thread \in [Threads -> Slots] /\ Presenter \in Threads
  BY ThreadsHaveSlots DEF Threads
<1> QED
  BY <1>1 DEF Return, Where, Idle

(* What the other steps of the presenter do to its slot.                   *)
LEMMA TakeEffect ==
  ASSUME TypeOK, PollTakes(Presenter)
  PROVE  /\ Where' = "apply"
         /\ thread'[Presenter].task = thread[Presenter].task
         /\ thread'[Presenter].result = pending
<1>1. thread \in [Threads -> Slots] /\ Presenter \in Threads
  BY ThreadsHaveSlots DEF Threads
<1> QED
  BY <1>1 DEF PollTakes, Where, Slots

LEMMA ApplyEffect ==
  ASSUME TypeOK, PollApplies(Presenter)
  PROVE  /\ Where' = "lowerDone"
         /\ thread'[Presenter].task = thread[Presenter].task
         /\ thread'[Presenter].result = NoModel
<1>1. thread \in [Threads -> Slots] /\ Presenter \in Threads
  BY ThreadsHaveSlots DEF Threads
<1>2. thread'[Presenter] =
        [thread EXCEPT ![Presenter].at = "lowerDone", ![Presenter].result = NoModel][Presenter]
  BY <1>1 DEF PollApplies, Dangling
<1> QED
  BY <1>1, <1>2 DEF Where, Slots

LEMMA CountEffect ==
  ASSUME TypeOK, MergeCounts(Presenter)
  PROVE  /\ Where' = "append"
         /\ thread'[Presenter].task = thread[Presenter].task
         /\ thread'[Presenter].track = thread[Presenter].track
         /\ thread'[Presenter].result = thread[Presenter].result
         /\ thread'[Presenter].next \in NextIds(live)
<1>1. thread \in [Threads -> Slots] /\ Presenter \in Threads
  BY ThreadsHaveSlots DEF Threads
<1> QED
  BY <1>1 DEF MergeCounts, Where, Slots

LEMMA AppendEffect ==
  ASSUME TypeOK, MergeAppends(Presenter)
  PROVE  /\ Where' = "finished"
         /\ thread'[Presenter].result = thread[Presenter].result
<1>1. thread \in [Threads -> Slots] /\ Presenter \in Threads
  BY ThreadsHaveSlots DEF Threads
<1>2. thread'[Presenter] = [thread EXCEPT ![Presenter].at = "finished"][Presenter]
  BY <1>1 DEF MergeAppends, Dangling
<1> QED
  BY <1>1, <1>2 DEF Where, Slots

LEMMA CommandEffect ==
  ASSUME TypeOK
  PROVE  /\ RefreshCommand(Presenter) =>
              /\ Where' = "begin" /\ thread'[Presenter].task = "begin"
              /\ thread'[Presenter].result = thread[Presenter].result
         /\ \A file \in Files : StartCommand(Presenter, file) =>
              /\ Where' = "starting" /\ thread'[Presenter].points
              /\ thread'[Presenter].result = thread[Presenter].result
         /\ \A remote \in Remotes : RemoteItemCommand(Presenter, remote) =>
              /\ Where' = "merge" /\ thread'[Presenter].track = remote
              /\ thread'[Presenter].task = "item"
              /\ thread'[Presenter].result = thread[Presenter].result
<1>1. thread \in [Threads -> Slots] /\ Presenter \in Threads
  BY ThreadsHaveSlots DEF Threads
<1>2. RefreshCommand(Presenter) =>
        /\ Where' = "begin" /\ thread'[Presenter].task = "begin"
        /\ thread'[Presenter].result = thread[Presenter].result
  BY <1>1 DEF RefreshCommand, Where, Slots
<1>3. ASSUME NEW file \in Files, StartCommand(Presenter, file)
      PROVE  /\ Where' = "starting" /\ thread'[Presenter].points
             /\ thread'[Presenter].result = thread[Presenter].result
  BY <1>1, <1>3 DEF StartCommand, Where, Slots
<1>4. ASSUME NEW remote \in Remotes, RemoteItemCommand(Presenter, remote)
      PROVE  /\ Where' = "merge" /\ thread'[Presenter].track = remote
             /\ thread'[Presenter].task = "item"
             /\ thread'[Presenter].result = thread[Presenter].result
  BY <1>1, <1>4 DEF RemoteItemCommand, Where, Slots
<1> QED
  BY <1>2, <1>3, <1>4

LEMMA PresentsEffect ==
  ASSUME TypeOK, Presents
  PROVE  /\ Where = "idle"
         /\ \/ Where' = "begin" /\ thread'[Presenter].task = "begin"
            \/ Where' = "poll" /\ thread'[Presenter].task = "poll"
         /\ thread'[Presenter].result = thread[Presenter].result
<1>1. thread \in [Threads -> Slots] /\ Presenter \in Threads
  BY ThreadsHaveSlots DEF Threads
<1> QED
  BY <1>1 DEF Presents, BeginsAtStartup, Polls, At, Where, Slots

LEMMA ControlStep ==
  ASSUME Clients = {}, TypeOK, WorkerIsOwned, Control, [Next]_vars
  PROVE  Control'
<1> DEFINE P == Presenter
<1>0. /\ Threads = {Presenter}
      /\ thread \in [Threads -> Slots]
      /\ \A label : At(P, label) => Where = label
  BY OnlyThePresenter, ThreadsHaveSlots DEF At, Where
<1> USE DEF Control, PollLabels
<1>1. CASE Begin(P)
  <2>1. CASE BeginReadsDone(P)
    <3>1. Where' = IF done THEN "poll" ELSE "check"
      BY <2>1, GotoEffect DEF BeginReadsDone
    <3>2. /\ Where = "begin"
          /\ alive' /\ thread'[P].task = thread[P].task
      BY <1>0, <2>1, GotoEffect DEF BeginReadsDone
    <3> QED
      BY <2>1, <3>1, <3>2 DEF BeginReadsDone, library, flags, owner
  <2>2. CASE BeginChecks(P)
    BY <1>0, <2>2, GotoEffect, ReturnEffect DEF BeginChecks, library, flags, owner
  <2>3. CASE BeginMarks(P)
    BY <1>0, <2>3, GotoEffect DEF BeginMarks, flags, owner
  <2>4. CASE BeginResets(P)
    BY <1>0, <2>4, GotoEffect DEF BeginResets, library, owner
  <2>5. CASE BeginClearsDone(P)
    BY <1>0, <2>5, GotoEffect DEF BeginClearsDone, library, owner
  <2>6. CASE BeginRaisesRunning(P)
    BY <1>0, <2>6, GotoEffect DEF BeginRaisesRunning, library, owner
  <2>7. CASE BeginSpawns(P)
    BY <1>0, <2>7, ReturnEffect DEF BeginSpawns
  <2>8. CASE BeginCannotSpawn(P)
    BY <1>0, <2>8, ReturnEffect DEF BeginCannotSpawn
  <2>9. CASE BeginOverwrites(P)
    BY <1>0, <2>9, Zenon DEF BeginOverwrites
  <2> QED
    BY <1>1, <2>1, <2>2, <2>3, <2>4, <2>5, <2>6, <2>7, <2>8, <2>9 DEF Begin
<1>2. CASE Join(P)
  <2>1. CASE JoinLooks(P)
    BY <1>0, <2>1, GotoEffect DEF JoinLooks, JoinLabels, Joining, AfterJoin, At, Where, library, flags, owner
  <2>2. CASE JoinEnds(P)
    BY <1>0, <2>2, GotoEffect DEF JoinEnds, AfterJoin, Where, library, flags
  <2>3. CASE JoinFails(P)
    BY <1>0, <2>3, Zenon DEF JoinFails, OthersJoin, Where
  <2> QED
    BY <1>2, <2>1, <2>2, <2>3 DEF Join
<1>3. CASE Poll(P)
  <2>1. CASE PollReadsDone(P)
    BY <1>0, <2>1, GotoEffect DEF PollReadsDone, AfterPoll, library, flags, owner
  <2>2. CASE PollTakes(P)
    BY <1>0, <2>2, TakeEffect DEF PollTakes, library, owner
  <2>3. CASE PollApplies(P)
    BY <1>0, <2>3, ApplyEffect DEF PollApplies, flags, owner
  <2>4. CASE PollFindsNothing(P)
    BY <1>0, <2>4, GotoEffect DEF PollFindsNothing, flags, owner
  <2>5. CASE PollLowersDone(P)
    BY <1>0, <2>5, GotoEffect DEF PollLowersDone, library, owner
  <2>6. CASE PollLowersRunning(P)
    BY <1>0, <2>6, GotoEffect DEF PollLowersRunning, AfterPoll, library, owner
  <2> QED
    BY <1>3, <2>1, <2>2, <2>3, <2>4, <2>5, <2>6 DEF Poll
<1>4. CASE Merge(P)
  <2>1. CASE MergeCounts(P)
    BY <1>0, <2>1, CountEffect DEF MergeCounts, library, flags, owner
  <2>2. CASE MergeAppends(P)
    BY <1>0, <2>2, AppendEffect DEF MergeAppends, flags, owner
  <2>3. CASE Finishes(P)
    BY <1>0, <2>3, ReturnEffect DEF Finishes, library, flags, owner
  <2> QED
    BY <1>4, <2>1, <2>2, <2>3 DEF Merge
<1>5. CASE Command(P)
  BY <1>0, <1>5, CommandEffect, ReturnEffect DEF Command, RefreshCommand, StartCommand,
     RecordsPlay, LosesPlay, RemoteItemCommand, library, flags, owner
<1>6. CASE Presents
  BY <1>0, <1>6, PresentsEffect DEF Presents, BeginsAtStartup, Polls, library, flags, owner
<1>7. CASE Worker
  <2>1. worker.at # "none"
    BY <1>7 DEF Worker, WorkerLoads, WorkerReads, WorkerLowersRunning, WorkerReports
  <2>2. joinable /\ joinable' /\ thread' = thread /\ index' = index /\ alive'
    BY <1>7, <2>1 DEF Worker, WorkerLoads, WorkerReads, WorkerLowersRunning, WorkerReports,
       WorkerIsOwned, library
  <2> QED
    BY <2>2 DEF Where
<1>8. ASSUME NEW files \in SUBSET Files, FilesChange(files) PROVE Control'
  BY <1>8 DEF FilesChange, Where, flags, owner
<1>9. CASE Restart
  <2>1. Where' = "idle" /\ alive'
    BY <1>0, <1>9 DEF Restart, Started, Where, Idle
  <2> QED
    BY <2>1
<1>10. CASE UNCHANGED vars
  BY <1>10 DEF vars, Where
<1> QED
  BY <1>0, <1>1, <1>2, <1>3, <1>4, <1>5, <1>6, <1>7, <1>8, <1>9, <1>10 DEF Next

-----------------------------------------------------------------------------
(* The index.                                                              *)

LEMMA ReadyStep ==
  ASSUME Clients = {}, TypeOK, WorkerIsOwned, Control, ReadyIsTruthful, [Next]_vars
  PROVE  ReadyIsTruthful'
<1> DEFINE P == Presenter
<1>0. /\ Threads = {P}
      /\ \A label : At(P, label) => Where = label
  BY OnlyThePresenter DEF At, Where
<1> USE DEF ReadyIsTruthful
<1>1. CASE Begin(P)
  <2>1. CASE BeginSpawns(P)
    <3>1. index = "Loading" /\ index' = index
      BY <1>0, <2>1 DEF BeginSpawns, Control, library
    <3> QED
      BY <3>1
  <2>2. CASE BeginMarks(P) \/ BeginCannotSpawn(P)
    BY <2>2 DEF BeginMarks, BeginCannotSpawn
  <2>3. CASE BeginResets(P)
    BY <2>3 DEF BeginResets, library, owner
  <2>4. CASE UNCHANGED <<index, worker, pending>>
    BY <2>4
  <2> QED
    BY <1>1, <2>1, <2>2, <2>3, <2>4 DEF Begin, BeginReadsDone, BeginChecks,
       BeginClearsDone, BeginRaisesRunning, BeginOverwrites, Terminate, library, flags, owner
<1>2. CASE Join(P)
  BY <1>2 DEF Join, JoinLooks, JoinEnds, JoinFails, Terminate, NoWorker, library, flags, owner
<1>3. CASE Poll(P)
  <2>1. CASE PollApplies(P)
    BY <1>0, <2>1 DEF PollApplies, Control, WorkerIsOwned, flags, owner
  <2>2. CASE PollTakes(P)
    BY <2>2 DEF PollTakes, library, owner
  <2>3. CASE PollFindsNothing(P)
    BY <2>3 DEF PollFindsNothing
  <2>4. CASE UNCHANGED <<index, worker, pending>>
    BY <2>4
  <2> QED
    BY <1>3, <2>1, <2>2, <2>3, <2>4 DEF Poll, PollReadsDone, PollLowersDone,
       PollLowersRunning, library, flags, owner
<1>4. CASE Merge(P) \/ Command(P) \/ Presents
  BY <1>4 DEF Merge, MergeCounts, MergeAppends, Finishes, Command, RefreshCommand,
     StartCommand, RecordsPlay, LosesPlay, RemoteItemCommand, Presents, BeginsAtStartup,
     Polls, library, flags, owner
<1>5. CASE Worker
  BY <1>5 DEF Worker, WorkerLoads, WorkerReads, WorkerLowersRunning, WorkerReports, library
<1>6. ASSUME NEW files \in SUBSET Files, FilesChange(files) PROVE ReadyIsTruthful'
  BY <1>6 DEF FilesChange, flags, owner
<1>7. CASE Restart
  BY <1>7 DEF Restart, Started
<1>8. CASE UNCHANGED vars
  BY <1>8 DEF vars
<1> QED
  BY <1>0, <1>1, <1>2, <1>3, <1>4, <1>5, <1>6, <1>7, <1>8 DEF Next

-----------------------------------------------------------------------------
(* Ids.                                                                    *)

Agrees(stored, tracks) ==
  \A file \in Holds(stored) \cap Holds(tracks) : tracks[file].id = stored[file].id

Sound(tracks) == Distinct(tracks) /\ Agrees(store, tracks)

(* Everything that is or may become the library has distinct ids that agree   *)
(* with the persisted ones, and a merge numbers from an id that is free.      *)
Identity ==
  /\ Distinct(store) /\ Sound(live)
  /\ pending # NoModel => Sound(pending.tracks)
  /\ thread[Presenter].result # NoModel => Sound(thread[Presenter].result.tracks)
  /\ worker.at = "reading" => worker.from = store
  /\ Where = "append" =>
       /\ thread[Presenter].next \in Nat \ {0}
       /\ \A m \in Media : live[m].id < thread[Presenter].next

LEMMA QuietStep ==
  ASSUME Identity, UNCHANGED <<store, live>>, pending' \in {pending, NoModel},
         worker'.at = "reading" => worker' = worker,
         thread'[Presenter].result \in {thread[Presenter].result, NoModel},
         Where' # "append"
  PROVE  Identity'
  BY DEF Identity, Sound

LEMMA AppliedIsSound ==
  ASSUME TypeOK, WorkerIsOwned, Control, Identity, PollApplies(Presenter)
  PROVE  Identity'
<1> DEFINE tracks == thread[Presenter].result.tracks
<1>1. thread[Presenter].result \in LocalResults /\ thread[Presenter].result # NoModel
  BY ThreadsHaveSlots DEF PollApplies, Slots, Threads
<1>2. tracks \in Models /\ Sound(tracks)
  BY <1>1 DEF Identity, LocalResults, Results
<1>3. live' = tracks /\ (store' = Saved(tracks) \/ store' = store)
  BY DEF PollApplies
<1>4. /\ Distinct(Saved(tracks))
      /\ \A m \in Holds(Saved(tracks)) : Saved(tracks)[m] = tracks[m]
  BY <1>2, SavedIsLocal DEF Sound
<1>5. /\ Where = "apply" /\ Where' = "lowerDone" /\ thread'[Presenter].result = NoModel
      /\ pending' = pending /\ worker' = worker
  BY ApplyEffect DEF PollApplies, At, Where, flags, owner
<1>6. pending' = NoModel /\ worker'.at = "none"
  BY <1>5 DEF Control, WorkerIsOwned
<1> HIDE DEF tracks
<1>7. Distinct(store') /\ Distinct(live') /\ Agrees(store', live')
  <2>1. CASE store' = Saved(tracks)
    BY <1>2, <1>3, <1>4, <2>1 DEF Sound, Agrees
  <2>2. CASE store' = store
    BY <1>2, <1>3, <2>2 DEF Sound, Identity
  <2> QED
    BY <1>3, <2>1, <2>2
<1> QED
  BY <1>5, <1>6, <1>7 DEF Identity, Sound, Distinct, Agrees, Holds

(* What a merge does to the live model.                                      *)
LEMMA AppendedTracks ==
  ASSUME TypeOK, Control, Identity, MergeAppends(Presenter)
  PROVE  /\ live' \in Models
         /\ Holds(live') = Holds(live) \cup MergedTracks(Presenter)
         /\ \A m \in Holds(live) : live'[m] = live[m]
         /\ MergedTracks(Presenter) \subseteq Remotes
         /\ Distinct(live')
<1> DEFINE newcomers == MergedTracks(Presenter) \ Holds(live)
           first == thread[Presenter].next
<1>1. PICK n \in Numberings(newcomers, first) : live' = With(live, newcomers, n)
  BY DEF MergeAppends
<1>2. Where = "append"
  BY DEF MergeAppends, At, Where
<1>3. MergedTracks(Presenter) \subseteq Remotes
  BY <1>2 DEF MergedTracks, Control
<1>4. live \in Models /\ Remotes \subseteq Media
  BY DEF TypeOK, Media
<1>5. Numbers(live, newcomers, first, n) /\ \A m \in Media : live[m].id < first
  BY <1>2, <1>3, <1>4 DEF Numbers, Identity
<1> HIDE DEF first, newcomers
<1>6. /\ live' \in Models
      /\ Holds(live') = Holds(live) \cup newcomers
      /\ \A m \in Holds(live) : live'[m] = live[m]
  BY <1>1, <1>5, WithNewcomers
<1>7. Distinct(live')
  BY <1>1, <1>5, NewcomersAreDistinct DEF Identity, Sound
<1> QED
  BY <1>3, <1>6, <1>7 DEF newcomers

(* A play keeps every id.                                                    *)
LEMMA PlayKeepsIds ==
  ASSUME TypeOK, RecordsPlay(Presenter)
  PROVE  Holds(live') = Holds(live) /\ \A m \in Media : live'[m].id = live[m].id
<1> DEFINE track == thread[Presenter].track
<1>1. live' = [live EXCEPT ![track].plays = @ + 1] /\ live \in [Media -> Tracks]
  BY DEF RecordsPlay, TypeOK, Models
<1> HIDE DEF track
<1>2. \A m \in Media : live'[m].id = live[m].id
  BY <1>1 DEF Tracks
<1> QED
  BY <1>2 DEF Holds

LEMMA IdentityStep ==
  ASSUME Clients = {}, TypeOK, WorkerIsOwned, Control, Identity, [Next]_vars
  PROVE  Identity'
<1> DEFINE P == Presenter
<1>0. /\ Threads = {P}
      /\ \A label : At(P, label) => Where = label
  BY OnlyThePresenter DEF At, Where
<1>1. CASE Begin(P)
  <2>1. CASE BeginReadsDone(P)
    BY <2>1, GotoEffect, QuietStep DEF BeginReadsDone, library, flags, owner
  <2>2. CASE BeginChecks(P)
    BY <2>2, GotoEffect, ReturnEffect, QuietStep DEF BeginChecks, Idle, library, flags, owner
  <2>3. CASE BeginMarks(P) \/ BeginResets(P) \/ BeginClearsDone(P) \/ BeginRaisesRunning(P)
    BY <2>3, GotoEffect, QuietStep DEF BeginMarks, BeginResets, BeginClearsDone,
       BeginRaisesRunning, library, flags, owner
  <2>4. CASE BeginSpawns(P) \/ BeginCannotSpawn(P)
    BY <2>4, ReturnEffect, QuietStep DEF BeginSpawns, BeginCannotSpawn, Idle, library, flags,
       owner
  <2>5. CASE BeginOverwrites(P)
    BY <1>0, <2>5 DEF BeginOverwrites, Control
  <2> QED
    BY <1>1, <2>1, <2>2, <2>3, <2>4, <2>5 DEF Begin
<1>2. CASE Join(P)
  <2>1. CASE JoinLooks(P)
    BY <2>1, GotoEffect, QuietStep DEF JoinLooks, JoinLabels, Joining, AfterJoin, library,
       flags, owner
  <2>2. CASE JoinEnds(P)
    BY <2>2, GotoEffect, QuietStep DEF JoinEnds, AfterJoin, NoWorker, library, flags
  <2>3. CASE JoinFails(P)
    BY <1>0, <2>3 DEF JoinFails, OthersJoin, Control, Where
  <2> QED
    BY <1>2, <2>1, <2>2, <2>3 DEF Join
<1>3. CASE Poll(P)
  <2>1. CASE PollReadsDone(P)
    BY <2>1, GotoEffect, QuietStep DEF PollReadsDone, AfterPoll, library, flags, owner
  <2>2. CASE PollTakes(P)
    BY <2>2, TakeEffect DEF PollTakes, Identity, Sound, library, owner
  <2>3. CASE PollApplies(P)
    BY <2>3, AppliedIsSound
  <2>4. CASE PollFindsNothing(P) \/ PollLowersDone(P)
    BY <2>4, GotoEffect, QuietStep DEF PollFindsNothing, PollLowersDone, library, flags, owner
  <2>5. CASE PollLowersRunning(P)
    BY <2>5, GotoEffect, QuietStep DEF PollLowersRunning, AfterPoll, library, owner
  <2> QED
    BY <1>3, <2>1, <2>2, <2>3, <2>4, <2>5 DEF Poll
<1>4. CASE Merge(P)
  <2>1. CASE MergeCounts(P)
    <3>1. /\ thread'[P].next \in Nat \ {0}
          /\ \A m \in Media : live[m].id < thread'[P].next
      BY <2>1, CountEffect, NextIdIsFree DEF TypeOK
    <3> QED
      BY <2>1, <3>1, CountEffect DEF MergeCounts, Identity, Sound, library, flags, owner
  <2>2. CASE MergeAppends(P)
    <3>1. Holds(store) \subseteq Files /\ Files \cap Remotes = {}
      BY ScanAssumption DEF TypeOK, LocalModels
    <3>2. Sound(live)' 
      BY <2>2, <3>1, AppendedTracks DEF MergeAppends, Identity, Sound, Agrees
    <3> QED
      BY <2>2, <3>2, AppendEffect DEF MergeAppends, Identity, Sound, flags, owner
  <2>3. CASE Finishes(P)
    BY <2>3, ReturnEffect, QuietStep DEF Finishes, Idle, library, flags, owner
  <2> QED
    BY <1>4, <2>1, <2>2, <2>3 DEF Merge
<1>5. CASE Command(P)
  <2>1. CASE RecordsPlay(P)
    <3>1. Sound(live)'
      BY <2>1, PlayKeepsIds DEF RecordsPlay, Identity, Sound, Agrees, Distinct, Holds
    <3> QED
      BY <2>1, <3>1, ReturnEffect DEF RecordsPlay, Identity, Sound, Idle, flags, owner
  <2>2. CASE LosesPlay(P)
    BY <2>2, ReturnEffect, QuietStep DEF LosesPlay, Idle, library, flags, owner
  <2>3. CASE RefreshCommand(P)
    BY <2>3, CommandEffect, QuietStep DEF RefreshCommand, library, flags, owner
  <2>4. ASSUME NEW file \in Files, StartCommand(P, file) PROVE Identity'
    BY <2>4, CommandEffect, QuietStep DEF StartCommand, library, flags, owner
  <2>5. ASSUME NEW remote \in Remotes, RemoteItemCommand(P, remote) PROVE Identity'
    BY <2>5, CommandEffect, QuietStep DEF RemoteItemCommand, library, flags, owner
  <2> QED
    BY <1>5, <2>1, <2>2, <2>3, <2>4, <2>5 DEF Command
<1>6. CASE Presents
  BY <1>6, PresentsEffect, QuietStep DEF Presents, BeginsAtStartup, Polls, library, flags, owner
<1>7. CASE Worker
  <2>1. worker \in [at : {"none", "loading", "reading", "lowering", "reporting", "ended"},
                   from : LocalModels]
    BY DEF TypeOK
  <2>2. CASE WorkerLoads
    BY <2>1, <2>2 DEF WorkerLoads, Identity, Sound, Where, library, flags
  <2>3. CASE WorkerReads
    <3>1. worker.from = store /\ store \in LocalModels /\ disk \in SUBSET Files
      BY <2>3 DEF WorkerReads, Identity, TypeOK
    <3>2. pending' # NoModel => Sound(pending'.tracks)
      <4>1. ASSUME NEW tracks \in Scanned(worker.from, disk), NEW degraded \in BOOLEAN,
                   pending' = [tracks |-> tracks, degraded |-> degraded]
            PROVE  Sound(pending'.tracks)
        BY <3>1, <4>1, ScanKeepsIds DEF Identity, Sound, Agrees
      <4> QED
        BY <2>3, <4>1 DEF WorkerReads
    <3>3. worker'.at = "lowering"
      BY <2>1, <2>3 DEF WorkerReads
    <3> QED
      BY <2>3, <3>2, <3>3 DEF WorkerReads, Identity, Sound, Where, library
  <2>4. CASE WorkerLowersRunning \/ WorkerReports
    BY <2>1, <2>4 DEF WorkerLowersRunning, WorkerReports, Identity, Sound, Where, library
  <2> QED
    BY <1>7, <2>2, <2>3, <2>4 DEF Worker
<1>8. ASSUME NEW files \in SUBSET Files, FilesChange(files) PROVE Identity'
  BY <1>8 DEF FilesChange, Identity, Sound, Where, flags, owner
<1>9. CASE Restart
  BY <1>0, <1>9 DEF Restart, Started, Identity, Sound, Agrees, Idle, NoWorker, Where
<1>10. CASE UNCHANGED vars
  BY <1>10 DEF vars, Identity, Sound, Where
<1> QED
  BY <1>0, <1>1, <1>2, <1>3, <1>4, <1>5, <1>6, <1>7, <1>8, <1>9, <1>10 DEF Next

-----------------------------------------------------------------------------
(* Remote tracks.                                                          *)

(* While remote tracks are missing from a ready index, the presenter is on   *)
(* its way to merge them or to scan again.                                   *)
Rejoining ==
  \/ Where \in {"lowerDone", "lowerRunning", "join", "mark"}
  \/ Where = "check" /\ ~running
  \/ Where \in {"merge", "append"} /\ thread[Presenter].task = "poll"

Rejoin == index = "Ready" => Remotes \subseteq Holds(live) \/ Rejoining

LEMMA RejoinStep ==
  ASSUME Clients = {}, TypeOK, WorkerIsOwned, Control, ReadyIsTruthful, Identity, Rejoin,
         [Next]_vars
  PROVE  Rejoin'
<1> DEFINE P == Presenter
<1>0. /\ Threads = {P}
      /\ \A label : At(P, label) => Where = label
  BY OnlyThePresenter DEF At, Where
<1> USE DEF Rejoin, Rejoining
<1>1. CASE Begin(P)
  <2>1. CASE BeginReadsDone(P)
    BY <1>0, <2>1 DEF BeginReadsDone, library
  <2>2. CASE BeginChecks(P)
    BY <1>0, <2>2, GotoEffect DEF BeginChecks, library
  <2>3. CASE BeginMarks(P) \/ BeginCannotSpawn(P)
    BY <2>3 DEF BeginMarks, BeginCannotSpawn
  <2>4. CASE BeginResets(P) \/ BeginClearsDone(P) \/ BeginRaisesRunning(P) \/ BeginSpawns(P)
    BY <1>0, <2>4 DEF BeginResets, BeginClearsDone, BeginRaisesRunning, BeginSpawns, library
  <2>5. CASE BeginOverwrites(P)
    BY <1>0, <2>5 DEF BeginOverwrites, Control
  <2> QED
    BY <1>1, <2>1, <2>2, <2>3, <2>4, <2>5 DEF Begin
<1>2. CASE Join(P)
  <2>1. CASE JoinLooks(P)
    <3>1. index = "Ready" => ~joinable
      BY DEF ReadyIsTruthful, WorkerIsOwned
    <3> QED
      BY <2>1, <3>1, GotoEffect DEF JoinLooks, JoinLabels, AfterJoin, Where, library
  <2>2. CASE JoinEnds(P)
    BY <2>2 DEF JoinEnds, Where, library
  <2>3. CASE JoinFails(P)
    BY <1>0, <2>3 DEF JoinFails, OthersJoin, Control, Where
  <2> QED
    BY <1>2, <2>1, <2>2, <2>3 DEF Join
<1>3. CASE Poll(P)
  <2>1. CASE PollReadsDone(P) \/ PollTakes(P)
    BY <1>0, <2>1 DEF PollReadsDone, PollTakes, library
  <2>2. CASE PollApplies(P)
    BY <2>2, ApplyEffect
  <2>3. CASE PollFindsNothing(P)
    BY <2>3 DEF PollFindsNothing
  <2>4. CASE PollLowersDone(P)
    BY <2>4, GotoEffect DEF PollLowersDone
  <2>5. CASE PollLowersRunning(P)
    <3>1. Where = "lowerRunning" /\ ~running'
      BY <1>0, <2>5 DEF PollLowersRunning
    <3>2. thread[P].task \in {"begin", "poll"}
      BY <3>1 DEF Control, PollLabels
    <3> QED
      BY <2>5, <3>1, <3>2, GotoEffect DEF PollLowersRunning, AfterPoll
  <2> QED
    BY <1>3, <2>1, <2>2, <2>3, <2>4, <2>5 DEF Poll
<1>4. CASE Merge(P)
  <2>1. CASE MergeCounts(P)
    BY <1>0, <2>1, CountEffect DEF MergeCounts, library
  <2>2. CASE MergeAppends(P)
    <3>1. Holds(live') = Holds(live) \cup MergedTracks(P) /\ index' = index
      BY <2>2, AppendedTracks DEF MergeAppends
    <3>2. thread[P].task = "poll" => MergedTracks(P) = Remotes
      BY DEF MergedTracks
    <3>3. Where = "append"
      BY <1>0, <2>2 DEF MergeAppends
    <3>4. index' = "Ready" => Remotes \subseteq Holds(live')
      BY <3>1, <3>2, <3>3
    <3> QED
      BY <3>4 DEF Holds
  <2>3. CASE Finishes(P)
    BY <1>0, <2>3 DEF Finishes, library
  <2> QED
    BY <1>4, <2>1, <2>2, <2>3 DEF Merge
<1>5. CASE Command(P)
  <2>1. CASE RecordsPlay(P)
    <3>1. Holds(live') = Holds(live) /\ index' = index /\ Where = "starting"
      BY <1>0, <2>1, PlayKeepsIds DEF RecordsPlay
    <3>2. index' = "Ready" => Remotes \subseteq Holds(live')
      BY <3>1
    <3> QED
      BY <3>2 DEF Holds
  <2> QED
    BY <1>0, <1>5, <2>1 DEF Command, RefreshCommand, StartCommand, LosesPlay,
       RemoteItemCommand, library
<1>6. CASE Presents
  BY <1>6, PresentsEffect DEF Presents, BeginsAtStartup, Polls, library
<1>7. CASE Worker
  <2>1. worker.at # "none" /\ index' = index
    BY <1>7 DEF Worker, WorkerLoads, WorkerReads, WorkerLowersRunning, WorkerReports, library
  <2> QED
    BY <2>1 DEF ReadyIsTruthful
<1>8. ASSUME NEW files \in SUBSET Files, FilesChange(files) PROVE Rejoin'
  BY <1>8 DEF FilesChange, Where, flags
<1>9. CASE Restart
  BY <1>9 DEF Restart, Started
<1>10. CASE UNCHANGED vars
  BY <1>10 DEF vars, Where
<1> QED
  BY <1>0, <1>1, <1>2, <1>3, <1>4, <1>5, <1>6, <1>7, <1>8, <1>9, <1>10 DEF Next

-----------------------------------------------------------------------------
(* The library of a program without clients.                               *)

Alone ==
  TypeOK /\ WorkerIsOwned /\ Control /\ ReadyIsTruthful /\ Identity /\ Rejoin

LEMMA AloneInit == Init => Alone
<1> SUFFICES ASSUME Init PROVE Alone
  OBVIOUS
<1>1. /\ Where = "idle" /\ thread[Presenter].result = NoModel
      /\ Holds(EmptyModel) = {}
  BY EmptyModelIsLocal DEF Init, Where, Idle, Threads
<1>2. Control /\ ReadyIsTruthful /\ Rejoin /\ WorkerIsOwned
  BY <1>1 DEF Init, Control, PollLabels, ReadyIsTruthful, Rejoin, WorkerIsOwned, NoWorker
<1>3. Identity
  BY <1>1 DEF Init, Identity, Sound, Agrees, Distinct, NoWorker
<1> QED
  BY <1>2, <1>3, TypeInit DEF Alone

LEMMA AloneStep ==
  ASSUME Clients = {}, Alone, [Next]_vars
  PROVE  Alone'
<1>1. TypeOK' /\ WorkerIsOwned'
  BY TypeStep, OwnershipStep DEF Alone
<1>2. Control' /\ ReadyIsTruthful'
  BY ControlStep, ReadyStep DEF Alone
<1>3. Identity' /\ Rejoin'
  BY IdentityStep, RejoinStep DEF Alone
<1> QED
  BY <1>1, <1>2, <1>3 DEF Alone

LEMMA AloneAlways == Spec => [](Clients = {} => Alone)
<1>1. Init => (Clients = {} => Alone)
  BY AloneInit
<1>2. (Clients = {} => Alone) /\ [Next]_vars => (Clients = {} => Alone)'
  BY AloneStep
<1> QED
  BY <1>1, <1>2, PTL DEF Spec

(* Without clients no thread is joined twice, overwritten unjoined or left    *)
(* with a dangling track.                                                     *)
THEOREM PresenterSurvives == Spec => [](Clients = {} => Survives)
<1>1. (Clients = {} => Alone) => (Clients = {} => Survives)
  BY DEF Alone, Control, Survives
<1> QED
  BY <1>1, AloneAlways, PTL

(* Without clients the index is Ready only when no scan runs and no result    *)
(* waits.                                                                     *)
THEOREM ReadyTellsTheTruth == Spec => [](Clients = {} => ReadyIsTruthful)
<1>1. (Clients = {} => Alone) => (Clients = {} => ReadyIsTruthful)
  BY DEF Alone
<1> QED
  BY <1>1, AloneAlways, PTL

(* Without clients no two tracks ever share an id, in the live library or in  *)
(* the persisted one.                                                         *)
THEOREM IdsStayUnique == Spec => [](Clients = {} => IdsAreUnique)
<1>1. (Clients = {} => Alone) => (Clients = {} => IdsAreUnique)
  BY DEF Alone, Identity, Sound, IdsAreUnique
<1> QED
  BY <1>1, AloneAlways, PTL

(* Without clients a persisted track keeps its id through refreshes, failed   *)
(* saves and restarts.                                                        *)
THEOREM StoredIdsStay == Spec => [](Clients = {} => StoredIdsHold)
<1>1. (Clients = {} => Alone) => (Clients = {} => StoredIdsHold)
  BY DEF Alone, Identity, Sound, Agrees, StoredIdsHold
<1> QED
  BY <1>1, AloneAlways, PTL

(* Without clients a ready index holds the remote tracks whenever the         *)
(* presenter is between two calls.                                            *)
THEOREM RemotesComeBack == Spec => [](Clients = {} => RemotesRejoin)
<1>1. (Clients = {} => Alone) => (Clients = {} => RemotesRejoin)
  BY DEF Alone, Rejoin, Rejoining, Where, RemotesRejoin
<1> QED
  BY <1>1, AloneAlways, PTL
=============================================================================
