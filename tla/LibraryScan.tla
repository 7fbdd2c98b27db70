----------------------------- MODULE LibraryScan -----------------------------
(***************************************************************************)
(* The library and its asynchronous scan (LibraryController and            *)
(* LibraryRepository in src/app, LibraryStore and LibraryMutationService). *)
(* A scan runs on a worker thread that the controller owns through one     *)
(* std::thread and two atomic flags.  The presenter thread begins the      *)
(* first scan and polls for results outside the command bus; the threads   *)
(* that serve clients begin scans and use the library inside it.  Every    *)
(* read and write of the flags, the thread object, the pending result and  *)
(* the live model is a step of its own, in the order of the code.          *)
(***************************************************************************)
EXTENDS Integers, FiniteSets, Functions

CONSTANTS Files,          \* local files a root may hold
          Remotes,        \* tracks of the ready remote source
          Presenter,      \* the thread that updates and draws the application
          Clients,        \* threads that serve socket clients
          NoModel,        \* an empty pending result
          SavesFail,      \* whether a save may fail
          MaxScans,       \* no begin is entered after this many scans, restarts included
          MaxPlays        \* plays are counted up to here

Media == Files \cup Remotes
Threads == Clients \cup {Presenter}

ASSUME ScanAssumption ==
    /\ Files \cap Remotes = {}
    /\ IsFiniteSet(Media)
    /\ Presenter \notin Clients
    /\ SavesFail \in BOOLEAN
    /\ MaxScans \in Nat
    /\ MaxPlays \in Nat

VARIABLES disk,      \* the files the enabled roots hold now
          store,     \* the persisted index
          live,      \* the live model
          index,     \* LibraryRepository::state_
          running,   \* scan_running_
          done,      \* scan_done_
          pending,   \* pending_scan_model_
          joinable,  \* whether scan_thread_ holds a thread
          worker,    \* the scan thread: where it is and the model it reuses
          thread,    \* where every other thread is and what it holds
          bus,       \* who holds the bus mutex
          scans,     \* scans begun so far, over all restarts
          alive      \* FALSE once std::terminate has ended the program

vars == <<disk, store, live, index, running, done, pending, joinable, worker,
          thread, bus, scans, alive>>

Nobody == "nobody"

-----------------------------------------------------------------------------
(* Models: a record per medium, with id 0 for a medium that is not in it.  *)

Absent == [id |-> 0, plays |-> 0]
Tracks == [id : Nat, plays : Nat]
Models == [Media -> Tracks]
EmptyModel == [m \in Media |-> Absent]

Holds(model) == {m \in Media : model[m].id # 0}
Ids(model) == {model[m].id : m \in Holds(model)}

\* Mutant: numbering goes on at the largest id.
NextIdsReused(model) == {j \in {1} \cup Ids(model) : \A i \in Ids(model) : i <= j}

\* Numbering goes on after the largest id of the model.
NextIds(model) ==
    {j + 1 : j \in {k \in {0} \cup Ids(model) : \A i \in Ids(model) : i <= k}}

\* The ids that newcomers may get: consecutive ones, in any order.
Numberings(newcomers, first) ==
    {n \in [newcomers -> first..(first + Cardinality(newcomers) - 1)] : IsInjective(n)}

With(model, newcomers, numbering) ==
    [m \in Media |-> IF m \in newcomers THEN [id |-> numbering[m], plays |-> 0]
                     ELSE model[m]]

Extended(model, newcomers) ==
    UNION {{With(model, newcomers, n) : n \in Numberings(newcomers, first)} :
              first \in NextIds(model)}

Restricted(model, media) == [m \in Media |-> IF m \in media THEN model[m] ELSE Absent]

\* scanLibrary: a file the stored model knows keeps its record, another gets
\* the next free id; files and remote tracks that were not found are left out.
\* Mutant: the stored model is not reused.
ScannedAfresh(stored, found) == Extended(EmptyModel, found)

Scanned(stored, found) ==
    {Restricted(model, found) : model \in Extended(stored, found \ Holds(stored))}

\* LibraryStore::save leaves remote tracks out.
Saved(model) == Restricted(model, Files)

Results == [tracks : Models, degraded : BOOLEAN]

-----------------------------------------------------------------------------

Idle == [at |-> "idle", task |-> "none", result |-> NoModel, track |-> NoModel,
         points |-> FALSE, next |-> 0]
NoWorker == [at |-> "none", from |-> EmptyModel]

\* configureIndexStorePath puts the persisted index in place.
Started ==
    /\ live' = store
    /\ index' = "Uninitialized"
    /\ running' = FALSE /\ done' = FALSE
    /\ pending' = NoModel
    /\ joinable' = FALSE /\ worker' = NoWorker
    /\ thread' = [t \in Threads |-> Idle]
    /\ bus' = Nobody
    /\ alive' = TRUE

Init ==
    /\ disk \in SUBSET Files
    /\ store = EmptyModel /\ live = EmptyModel
    /\ index = "Uninitialized"
    /\ running = FALSE /\ done = FALSE
    /\ pending = NoModel
    /\ joinable = FALSE /\ worker = NoWorker
    /\ thread = [t \in Threads |-> Idle]
    /\ bus = Nobody
    /\ scans = 0
    /\ alive = TRUE

At(t, label) == alive /\ thread[t].at = label
Goto(t, label) == thread' = [thread EXCEPT ![t].at = label]

\* Leaving the call also gives the bus back when it was held for it.
Return(t) ==
    /\ thread' = [thread EXCEPT ![t] = Idle]
    /\ bus' = IF bus = t THEN Nobody ELSE bus

\* Any other change of the live model leaves the track pointers of the
\* commands under way dangling.
Dangling(threads, t) ==
    [u \in Threads |-> IF u = t THEN threads[u] ELSE [threads[u] EXCEPT !.points = FALSE]]

Terminate ==
    /\ alive' = FALSE
    /\ UNCHANGED <<disk, store, live, index, running, done, pending, joinable,
                   worker, thread, bus, scans>>

library == <<disk, store, live, index>>
flags == <<running, done, pending>>
owner == <<joinable, worker>>

-----------------------------------------------------------------------------
(* beginAsyncRefreshLibrary.                                               *)

\* The presenter starts the first scan by itself, a refresh command takes the
\* bus first.
BeginsAtStartup ==
    /\ At(Presenter, "idle") /\ index = "Uninitialized" /\ scans < MaxScans
    /\ thread' = [thread EXCEPT ![Presenter].at = "begin", ![Presenter].task = "begin"]
    /\ UNCHANGED <<library, flags, owner, bus, scans, alive>>

RefreshCommand(t) ==
    /\ At(t, "idle") /\ bus = Nobody /\ scans < MaxScans
    /\ thread' = [thread EXCEPT ![t].at = "begin", ![t].task = "begin"]
    /\ bus' = t
    /\ UNCHANGED <<library, flags, owner, scans, alive>>

BeginReadsDone(t) ==
    /\ At(t, "begin")
    /\ Goto(t, IF done THEN "poll" ELSE "check")
    /\ UNCHANGED <<library, flags, owner, bus, scans, alive>>

\* Mutant: a finished worker is not joined.
BeginChecksOnly(t) ==
    /\ At(t, "check")
    /\ IF running THEN Return(t) ELSE Goto(t, "mark") /\ UNCHANGED bus
    /\ UNCHANGED <<library, flags, owner, scans, alive>>

\* A scan under way is taken to serve this request too.
BeginChecks(t) ==
    /\ At(t, "check")
    /\ IF running THEN Return(t) ELSE Goto(t, "join") /\ UNCHANGED bus
    /\ UNCHANGED <<library, flags, owner, scans, alive>>

\* Mutant: the index is not marked as loading.
BeginMarksNothing(t) ==
    /\ At(t, "mark")
    /\ Goto(t, "reset")
    /\ UNCHANGED <<library, flags, owner, bus, scans, alive>>

BeginMarks(t) ==
    /\ At(t, "mark")
    /\ index' = "Loading"
    /\ Goto(t, "reset")
    /\ UNCHANGED <<disk, store, live, flags, owner, bus, scans, alive>>

BeginResets(t) ==
    /\ At(t, "reset")
    /\ pending' = NoModel
    /\ Goto(t, "clear")
    /\ UNCHANGED <<library, running, done, owner, bus, scans, alive>>

BeginClearsDone(t) ==
    /\ At(t, "clear")
    /\ done' = FALSE
    /\ Goto(t, "raise")
    /\ UNCHANGED <<library, running, pending, owner, bus, scans, alive>>

BeginRaisesRunning(t) ==
    /\ At(t, "raise")
    /\ running' = TRUE
    /\ Goto(t, "spawn")
    /\ UNCHANGED <<library, done, pending, owner, bus, scans, alive>>

BeginSpawns(t) ==
    /\ At(t, "spawn") /\ ~joinable
    /\ joinable' = TRUE
    /\ worker' = [at |-> "loading", from |-> EmptyModel]
    /\ scans' = scans + 1
    /\ Return(t)
    /\ UNCHANGED <<library, flags, alive>>

\* std::thread's constructor throws.
BeginCannotSpawn(t) ==
    /\ At(t, "spawn")
    /\ running' = FALSE
    /\ index' = "Degraded"
    /\ scans' = scans + 1
    /\ Return(t)
    /\ UNCHANGED <<disk, store, live, done, pending, owner, alive>>

\* Assigning over a thread that was not joined.
BeginOverwrites(t) == At(t, "spawn") /\ joinable /\ Terminate

-----------------------------------------------------------------------------
(* joinAsyncScan: a thread that is joinable when looked at is joined.  Two   *)
(* threads that join it, or one that comes late, get an error from join, and *)
(* a noexcept function that throws ends the program.                         *)

JoinLabels == {"join", "pollJoin"}
Joining(label) == IF label = "join" THEN "joining" ELSE "pollJoining"
AfterJoin(label) == IF label \in {"join", "joining"} THEN "mark" ELSE "take"

OthersJoin(t) == \E u \in Threads \ {t} : thread[u].at \in {"joining", "pollJoining"}

JoinLooks(t) ==
    /\ alive /\ thread[t].at \in JoinLabels
    /\ Goto(t, IF joinable THEN Joining(thread[t].at) ELSE AfterJoin(thread[t].at))
    /\ UNCHANGED <<library, flags, owner, bus, scans, alive>>

JoinEnds(t) ==
    /\ alive /\ thread[t].at \in {"joining", "pollJoining"}
    /\ joinable /\ worker.at = "ended"
    /\ joinable' = FALSE /\ worker' = NoWorker
    /\ Goto(t, AfterJoin(thread[t].at))
    /\ UNCHANGED <<library, flags, bus, scans, alive>>

JoinFails(t) ==
    /\ alive /\ thread[t].at \in {"joining", "pollJoining"}
    /\ ~joinable \/ OthersJoin(t)
    /\ Terminate

-----------------------------------------------------------------------------
(* pollAsyncRefreshLibrary: updateAppLifecycle polls while the index loads,  *)
(* without the bus.                                                          *)

Polls ==
    /\ At(Presenter, "idle") /\ index = "Loading"
    /\ thread' = [thread EXCEPT ![Presenter].at = "poll", ![Presenter].task = "poll"]
    /\ UNCHANGED <<library, flags, owner, bus, scans, alive>>

\* Mutant: the presenter does not merge remote tracks again.
AfterPollWithoutMerge(task, taken) == IF task = "begin" THEN "check" ELSE "finished"

\* Where a poll that has nothing to take or has taken it goes on.
AfterPoll(task, taken) ==
    IF task = "begin" THEN "check" ELSE IF taken THEN "merge" ELSE "finished"

\* A begin has looked at the flag before: the poll looks again.
PollReadsDone(t) ==
    /\ At(t, "poll")
    /\ Goto(t, IF done THEN "pollJoin" ELSE AfterPoll(thread[t].task, FALSE))
    /\ UNCHANGED <<library, flags, owner, bus, scans, alive>>

PollTakes(t) ==
    /\ At(t, "take")
    /\ thread' = [thread EXCEPT ![t].at = "apply", ![t].result = pending]
    /\ pending' = NoModel
    /\ UNCHANGED <<library, running, done, owner, bus, scans, alive>>

\* applyRescanModel, setSongsContextAll and the save; a failed save is ignored.
PollApplies(t) ==
    LET result == thread[t].result
        applied == [thread EXCEPT ![t].at = "lowerDone", ![t].result = NoModel]
    IN  /\ At(t, "apply") /\ result # NoModel
        /\ live' = result.tracks
        /\ index' = IF result.degraded THEN "Degraded" ELSE "Ready"
        /\ \/ store' = Saved(result.tracks)
           \/ SavesFail /\ UNCHANGED store
        /\ thread' = Dangling(applied, t)
        /\ UNCHANGED <<disk, flags, owner, bus, scans, alive>>

PollFindsNothing(t) ==
    /\ At(t, "apply") /\ thread[t].result = NoModel
    /\ index' = "Degraded"
    /\ Goto(t, "lowerDone")
    /\ UNCHANGED <<disk, store, live, flags, owner, bus, scans, alive>>

PollLowersDone(t) ==
    /\ At(t, "lowerDone")
    /\ done' = FALSE
    /\ Goto(t, "lowerRunning")
    /\ UNCHANGED <<library, running, pending, owner, bus, scans, alive>>

PollLowersRunning(t) ==
    /\ At(t, "lowerRunning")
    /\ running' = FALSE
    /\ Goto(t, AfterPoll(thread[t].task, TRUE))
    /\ UNCHANGED <<library, done, pending, owner, bus, scans, alive>>

-----------------------------------------------------------------------------
(* The worker.                                                             *)

\* Mutant: the worker reuses the live model.
WorkerLoadsLive ==
    /\ alive /\ worker.at = "loading"
    /\ worker' = [at |-> "reading", from |-> live]
    /\ UNCHANGED <<library, flags, joinable, thread, bus, scans, alive>>

WorkerLoads ==
    /\ alive /\ worker.at = "loading"
    /\ worker' = [at |-> "reading", from |-> store]
    /\ UNCHANGED <<library, flags, joinable, thread, bus, scans, alive>>

WorkerReads ==
    /\ alive /\ worker.at = "reading"
    /\ \/ \E tracks \in Scanned(worker.from, disk), degraded \in BOOLEAN :
            pending' = [tracks |-> tracks, degraded |-> degraded]
       \/ pending' = NoModel
    /\ worker' = [worker EXCEPT !.at = "lowering"]
    /\ UNCHANGED <<library, running, done, joinable, thread, bus, scans, alive>>

\* Mutant: the worker ends without having reported.
WorkerLowersRunningOnly ==
    /\ alive /\ worker.at = "lowering"
    /\ running' = FALSE
    /\ worker' = [worker EXCEPT !.at = "ended"]
    /\ UNCHANGED <<library, done, pending, joinable, thread, bus, scans, alive>>

WorkerLowersRunning ==
    /\ alive /\ worker.at = "lowering"
    /\ running' = FALSE
    /\ worker' = [worker EXCEPT !.at = "reporting"]
    /\ UNCHANGED <<library, done, pending, joinable, thread, bus, scans, alive>>

\* Mutant: the worker reports as the commands do, with the bus.
WorkerReportsOnTheBus ==
    /\ alive /\ worker.at = "reporting" /\ bus = Nobody
    /\ done' = TRUE
    /\ worker' = [worker EXCEPT !.at = "ended"]
    /\ UNCHANGED <<library, running, pending, joinable, thread, bus, scans, alive>>

WorkerReports ==
    /\ alive /\ worker.at = "reporting"
    /\ done' = TRUE
    /\ worker' = [worker EXCEPT !.at = "ended"]
    /\ UNCHANGED <<library, running, pending, joinable, thread, bus, scans, alive>>

-----------------------------------------------------------------------------
(* mergeRemoteTracks: ids are counted first, then the tracks that are not    *)
(* there yet are appended.  The presenter merges what a source that answers  *)
(* lists, without the bus; a command merges the item it plays.               *)

MergedTracks(t) == IF thread[t].task = "poll" THEN Remotes ELSE {thread[t].track}

MergeCounts(t) ==
    /\ At(t, "merge")
    /\ \E first \in NextIds(live) :
         thread' = [thread EXCEPT ![t].at = "append", ![t].next = first]
    /\ UNCHANGED <<library, flags, owner, bus, scans, alive>>

MergeAppends(t) ==
    LET newcomers == MergedTracks(t) \ Holds(live)
        appended == [thread EXCEPT ![t].at = "finished"]
    IN  /\ At(t, "append")
        /\ \E numbering \in Numberings(newcomers, thread[t].next) :
             live' = With(live, newcomers, numbering)
        /\ thread' = Dangling(appended, t)
        /\ UNCHANGED <<disk, store, index, flags, owner, bus, scans, alive>>

Finishes(t) ==
    /\ At(t, "finished")
    /\ Return(t)
    /\ UNCHANGED <<library, flags, owner, scans, alive>>

-----------------------------------------------------------------------------
(* Commands that use the library while they hold the bus.                  *)

\* A start finds the track, has the backend open it and then counts the play
\* through the pointer it found.
StartCommand(t, file) ==
    /\ At(t, "idle") /\ bus = Nobody
    /\ file \in Holds(live) /\ live[file].plays < MaxPlays
    /\ bus' = t
    /\ thread' = [thread EXCEPT ![t].at = "starting", ![t].track = file,
                                ![t].points = TRUE]
    /\ UNCHANGED <<library, flags, owner, scans, alive>>

RecordsPlay(t) ==
    /\ At(t, "starting") /\ thread[t].points
    /\ live' = [live EXCEPT ![thread[t].track].plays = @ + 1]
    /\ Return(t)
    /\ UNCHANGED <<disk, store, index, flags, owner, scans, alive>>

\* Through a dangling pointer the play is lost or the program crashes.
LosesPlay(t) ==
    /\ At(t, "starting") /\ ~thread[t].points
    /\ Return(t)
    /\ alive' \in BOOLEAN
    /\ UNCHANGED <<library, flags, owner, scans>>

\* startRemoteItem merges the item it is about to play.
RemoteItemCommand(t, remote) ==
    /\ At(t, "idle") /\ bus = Nobody
    /\ bus' = t
    /\ thread' = [thread EXCEPT ![t].at = "merge", ![t].task = "item",
                                ![t].track = remote]
    /\ UNCHANGED <<library, flags, owner, scans, alive>>

-----------------------------------------------------------------------------
(* The surroundings.                                                       *)

FilesChange(files) ==
    /\ disk' = files
    /\ UNCHANGED <<store, live, index, flags, owner, thread, bus, scans, alive>>

\* The program ends at any point, or has been ended, and starts again.
Restart == Started /\ UNCHANGED <<disk, store, scans>>

Begin(t) ==
    \/ BeginReadsDone(t) \/ BeginChecks(t) \/ BeginMarks(t) \/ BeginResets(t)
    \/ BeginClearsDone(t) \/ BeginRaisesRunning(t)
    \/ BeginSpawns(t) \/ BeginCannotSpawn(t) \/ BeginOverwrites(t)

Join(t) == JoinLooks(t) \/ JoinEnds(t) \/ JoinFails(t)

Poll(t) ==
    \/ PollReadsDone(t) \/ PollTakes(t) \/ PollApplies(t) \/ PollFindsNothing(t)
    \/ PollLowersDone(t) \/ PollLowersRunning(t)

Merge(t) == MergeCounts(t) \/ MergeAppends(t) \/ Finishes(t)

Presents == BeginsAtStartup \/ Polls

Worker == WorkerLoads \/ WorkerReads \/ WorkerLowersRunning \/ WorkerReports

Command(t) ==
    \/ RefreshCommand(t)
    \/ \E file \in Files : StartCommand(t, file)
    \/ RecordsPlay(t) \/ LosesPlay(t)
    \/ \E remote \in Remotes : RemoteItemCommand(t, remote)

Next ==
    \/ \E t \in Threads : Begin(t) \/ Join(t) \/ Poll(t) \/ Merge(t) \/ Command(t)
    \/ Presents
    \/ Worker
    \/ \E files \in SUBSET Files : FilesChange(files)
    \/ Restart

Spec == Init /\ [][Next]_vars

(* Threads that are inside a call go on, the presenter updates on every      *)
(* frame however many commands come between, and a scan of finitely many     *)
(* files ends.                                                               *)
Fairness ==
    /\ \A t \in Threads :
         WF_vars(Begin(t) \/ Join(t) \/ Poll(t) \/ Merge(t) \/ RecordsPlay(t) \/ LosesPlay(t))
    /\ SF_vars(Presents)
    /\ WF_vars(Worker)

FairSpec == Spec /\ Fairness

-----------------------------------------------------------------------------
(* Types.                                                                  *)

LocalModels == {model \in Models : Holds(model) \subseteq Files}
LocalResults == {r \in Results : r.tracks \in LocalModels}

Labels == {"idle", "begin", "check", "join", "joining", "mark", "reset", "clear",
           "raise", "spawn", "poll", "pollJoin", "pollJoining", "take", "apply",
           "lowerDone", "lowerRunning", "merge", "append", "finished", "starting"}

(* What is persisted, reused and pending holds local tracks only: a scan     *)
(* never works on what remote sources put into the live model                *)
(* (LibraryRepository::rebuildModel).                                        *)
TypeOK ==
    /\ disk \subseteq Files
    /\ store \in LocalModels /\ live \in Models
    /\ index \in {"Uninitialized", "Loading", "Ready", "Degraded"}
    /\ running \in BOOLEAN /\ done \in BOOLEAN
    /\ pending \in LocalResults \cup {NoModel}
    /\ joinable \in BOOLEAN
    /\ worker \in [at : {"none", "loading", "reading", "lowering", "reporting", "ended"},
                   from : LocalModels]
    /\ thread \in [Threads -> [at : Labels, task : {"none", "begin", "poll", "item"},
                               result : LocalResults \cup {NoModel},
                               track : Media \cup {NoModel}, points : BOOLEAN,
                               next : Nat]]
    /\ bus \in Threads \cup {Nobody}
    /\ scans \in Nat
    /\ alive \in BOOLEAN

-----------------------------------------------------------------------------
(* Safety.                                                                 *)

Distinct(model) ==
    \A m, n \in Holds(model) : model[m].id = model[n].id => m = n

(* No two tracks of the live or the persisted library share an id, although  *)
(* scans number from the persisted model, merges from the live one, and a    *)
(* refresh replaces what merges have numbered.                               *)
IdsAreUnique == Distinct(live) /\ Distinct(store)

(* The index is Ready only when no scan is under way and no result waits:     *)
(* "The product must not fake scan completion when the index is not actually  *)
(* ready" (lofibox-zero-library-indexing-spec.md).                            *)
ReadyIsTruthful ==
    index = "Ready" => worker.at = "none" /\ pending = NoModel

(* The program is never ended by a thread that is joined twice, overwritten   *)
(* unjoined or left dangling.                                                 *)
Survives == alive

(* When the index is ready and the presenter is done, the tracks of a remote  *)
(* source that answers are in the library, although every scan drops them     *)
(* (refreshRemoteLibraryTracks).                                              *)
RemotesRejoin ==
    index = "Ready" /\ thread[Presenter].at = "idle" => Remotes \subseteq Holds(live)

(* A track that the persisted library knows has the same id in the live one:  *)
(* ids survive refreshes and restarts.                                        *)
StoredIdsHold ==
    \A file \in Holds(store) \cap Holds(live) : live[file].id = store[file].id

(* Loading ends: every scan that is begun is polled, finished or degraded,    *)
(* however the worker's two flags are seen.                                   *)
LoadingEnds == index = "Loading" ~> index # "Loading"

(* The bus comes back, unless the program is ended meanwhile: a command that   *)
(* begins a scan waits with the bus held for the scan before it, which may run *)
(* on although running is down, because the presenter has lowered the flag of   *)
(* the wrong scan or the worker has not reported yet.                          *)
BusComesBack == bus # Nobody ~> bus = Nobody \/ ~alive
=============================================================================
