------------------------------ MODULE Playback ------------------------------
(***************************************************************************)
(* The playback core: the shared queue, the playback session, the lookups  *)
(* that enrich the current item and the audio backend as the session sees  *)
(* it (src/playback, with the command handlers of src/application and      *)
(* src/runtime that drive it).  Commands and ticks are serialised by the   *)
(* runtime command bus, so each is one action; the lookup threads and the  *)
(* backend move between them.                                              *)
(*                                                                         *)
(* A handler that may go several ways is an operator from an application   *)
(* state (a record of the variables) to its set of outcomes, each with the *)
(* boolean the handler returns, so that handlers compose as their code     *)
(* does.                                                                   *)
(***************************************************************************)
EXTENDS PlaybackPolicy, SequencesExt

CONSTANTS MaxTrackId,      \* library ids are 1..MaxTrackId
          Media,           \* what a library record may point at
          RemoteMedia,     \* the media reached through a remote source
          Governed,        \* remote media that need a local metadata lookup
          Duration,        \* known length of a medium, 0 when unknown
          Libraries,       \* the libraries a scan or the store may deliver
          SongLists,       \* the song lists the pages may put in context
          Commands,        \* the commands clients issue in this instance
          MaxDelta,        \* the longest tick
          ClientLookups,   \* clients issue commands below this many lookups
          MaxLookups       \* no step issues more lookups than this

NoTrack == 0
NoMedium == "none"
NoLyrics == [id |-> NoTrack, medium |-> NoMedium, generation |-> 0]

TrackIds == 1..MaxTrackId
MediumOrNone == Media \cup {NoMedium}

\* A sequence of distinct members of S.
Arrangements(S) == {s \in Seq(S) : IsInjective(s)}

LibraryType ==
    {l \in [medium : [TrackIds -> MediumOrNone], order : Seq(TrackIds)] :
        /\ IsInjective(l.order)
        /\ Range(l.order) = {id \in TrackIds : l.medium[id] # NoMedium}}

ASSUME PlaybackAssumption ==
    /\ MaxTrackId \in Nat
    /\ NoMedium \notin Media
    /\ RemoteMedia \subseteq Media
    /\ Governed \subseteq RemoteMedia
    /\ Duration \in [MediumOrNone -> 0..ElapsedCap]
    /\ Duration[NoMedium] = 0
    /\ \A l \in Libraries : l \in LibraryType
    /\ \A s \in SongLists : s \in Arrangements(TrackIds)
    /\ MaxDelta \in Nat \ {0}
    /\ ClientLookups \in Nat
    /\ MaxLookups \in Nat

VARIABLES queue,    \* base order, playing order and active position
          session,  \* PlaybackSession
          backend,  \* the audio backend's state, medium and position
          lookup,   \* the enrichment coordinator and its threads
          library,  \* the live library model
          songs     \* the song list in context

vars == <<queue, session, backend, lookup, library, songs>>

App == [queue |-> queue, session |-> session, backend |-> backend,
        lookup |-> lookup, library |-> library, songs |-> songs]

\* MaxLookups bounds the model here: a step beyond it is not taken.
Commit(w) ==
    /\ w.lookup.generation <= MaxLookups
    /\ queue' = w.queue
    /\ session' = w.session
    /\ backend' = w.backend
    /\ lookup' = w.lookup
    /\ library' = w.library
    /\ songs' = w.songs

Done(w) == [app |-> w, ok |-> TRUE]
Refused(w) == [app |-> w, ok |-> FALSE]

EmptyQueue == [base |-> <<>>, active |-> <<>>, index |-> NoIndex]
SilentBackend == [state |-> "Idle", medium |-> NoMedium, position |-> NoPosition]

Init ==
    /\ queue = EmptyQueue
    /\ session = [status |-> "Empty", current |-> NoTrack, stream |-> NoMedium,
                  shuffle |-> FALSE, repeatAll |-> FALSE, repeatOne |-> FALSE,
                  elapsed |-> 0, audioActive |-> FALSE,
                  finishPending |-> FALSE, pendingFor |-> 0,
                  lyricsPending |-> FALSE, lyrics |-> NoLyrics]
    /\ backend = SilentBackend
    /\ lookup = [generation |-> 0, running |-> {}, done |-> {}]
    /\ library \in Libraries
    /\ songs = <<>>

-----------------------------------------------------------------------------
(* The library, as playback looks at it. *)

Known(w, id) == id \in TrackIds /\ w.library.medium[id] # NoMedium
IsRemote(w, id) == w.library.medium[id] \in RemoteMedia

-----------------------------------------------------------------------------
(* The backend, as the coordinator drives it. *)

\* Starting retires whatever played before, whether or not the start works.
\* The backend either reports a position from then on or never does.
Launched(w, medium, at) ==
    {[w EXCEPT !.session.audioActive = TRUE,
               !.backend = [state |-> "Starting", medium |-> medium,
                            position |-> p]] : p \in {at, NoPosition}}
    \cup {[w EXCEPT !.session.audioActive = FALSE, !.backend = SilentBackend]}

PausedBackend(b) ==
    IF b.state \in {"Starting", "Playing"} THEN [b EXCEPT !.state = "Paused"] ELSE b

ResumedBackends(b) ==
    IF b.state = "Paused"
    THEN {[b EXCEPT !.state = s] : s \in {"Starting", "Playing"}}
    ELSE {b}

-----------------------------------------------------------------------------
(* Starting one item. *)

BeginItem(s, id, stream) ==
    [s EXCEPT !.status = "Playing", !.current = id, !.stream = stream,
              !.elapsed = 0, !.finishPending = FALSE, !.pendingFor = 0,
              !.lyrics = NoLyrics, !.lyricsPending = TRUE]

\* Mutant: the generation is handed out before it is incremented.
RequestStale(w, id) ==
    LET g == w.lookup.generation
    IN  [w EXCEPT !.lookup.generation = g + 1,
                  !.lookup.running = @ \cup
                     {[id |-> id, medium |-> w.library.medium[id], generation |-> g]}]

Request(w, id) ==
    LET g == w.lookup.generation + 1
    IN  [w EXCEPT !.lookup.generation = g,
                  !.lookup.running = @ \cup
                     {[id |-> id, medium |-> w.library.medium[id], generation |-> g]}]

\* Mutant: a failed start leaves the session Playing.
PlayQueueIndexUnchecked(w, i) ==
    IF ~InQueue(w.queue, i) \/ ~Known(w, w.queue.active[i + 1])
                            \/ IsRemote(w, w.queue.active[i + 1])
    THEN {Refused(w)}
    ELSE LET id == w.queue.active[i + 1]
             begun == [w EXCEPT !.queue.index = i,
                                !.session = BeginItem(@, id, NoMedium)]
         IN  {IF v.session.audioActive THEN Done(Request(v, id)) ELSE Refused(v) :
                v \in Launched(begun, w.library.medium[id], 0)}

PlayQueueIndex(w, i) ==
    IF ~InQueue(w.queue, i) \/ ~Known(w, w.queue.active[i + 1])
                            \/ IsRemote(w, w.queue.active[i + 1])
    THEN {Refused(w)}
    ELSE LET id == w.queue.active[i + 1]
             begun == [w EXCEPT !.queue.index = i,
                                !.session = BeginItem(@, id, NoMedium)]
         IN  {IF v.session.audioActive THEN Done(Request(v, id))
              ELSE Refused([v EXCEPT !.session.status = "Paused"]) :
                v \in Launched(begun, w.library.medium[id], 0)}

\* startRemoteLibraryTrack: a track that came with its facts needs no lookup.
StartRemoteLibraryTrack(w, id) ==
    LET medium == w.library.medium[id]
        begun == [w EXCEPT !.session =
                    [BeginItem(@, id, NoMedium) EXCEPT
                        !.lyricsPending = medium \in Governed]]
    IN  {IF ~v.session.audioActive
         THEN Refused([v EXCEPT !.session.status = "Paused"])
         ELSE Done(IF medium \in Governed THEN Request(v, id) ELSE v) :
           v \in Launched(begun, medium, 0)}

\* Mutant: a stream keeps the library id of the item before it.
StartRemoteStreamKeepingId(w, medium) ==
    LET begun == [w EXCEPT !.queue = EmptyQueue,
                           !.session = [BeginItem(@, @.current, medium) EXCEPT
                                          !.lyricsPending = FALSE]]
    IN  {IF v.session.audioActive THEN Done(v)
         ELSE Refused([v EXCEPT !.session.status = "Paused"]) :
           v \in Launched(begun, medium, 0)}

StartRemoteStream(w, medium) ==
    LET begun == [w EXCEPT !.queue = EmptyQueue,
                           !.session = [BeginItem(@, NoTrack, medium) EXCEPT
                                          !.lyricsPending = FALSE]]
    IN  {IF v.session.audioActive THEN Done(v)
         ELSE Refused([v EXCEPT !.session.status = "Paused"]) :
           v \in Launched(begun, medium, 0)}

-----------------------------------------------------------------------------
(* The queue. *)

\* Every order std::shuffle may leave the sequence in.
Shuffles(s) == {[i \in DOMAIN s |-> s[p[i]]] : p \in Bijection(DOMAIN s, DOMAIN s)}

PlayingOrders(base, shuffle) == IF shuffle THEN Shuffles(base) ELSE {base}

\* An id the order does not hold leaves the position at 0.
PositionOf(order, id) ==
    IF id \in Range(order) THEN (CHOOSE i \in DOMAIN order : order[i] = id) - 1 ELSE 0

Reordered(w, id) ==
    {[w EXCEPT !.queue = [base |-> w.queue.base, active |-> order,
                          index |-> PositionOf(order, id)]] :
       order \in PlayingOrders(w.queue.base, w.session.shuffle)}

\* Mutant: the playing order of the former list is kept.
QueuePreparedStale(w, id) ==
    LET base == IF w.songs = <<>> THEN w.library.order ELSE w.songs
    IN  {[w EXCEPT !.queue.base = base,
                   !.queue.index = PositionOf(w.queue.active, id)]}

QueuePrepared(w, id) ==
    LET base == IF w.songs = <<>> THEN w.library.order ELSE w.songs
    IN  Reordered([w EXCEPT !.queue.base = base], id)

-----------------------------------------------------------------------------
(* Pausing, resuming, seeking, stopping. *)

PauseAudio(w) ==
    IF w.session.status = "Playing"
    THEN [w EXCEPT !.session.status = "Paused", !.backend = PausedBackend(@)]
    ELSE w

\* The session follows the state the backend reports right after resuming.
FollowBackend(w) ==
    CASE w.backend.state \in {"Starting", "Playing"} ->
           [w EXCEPT !.session.status = "Playing"]
      [] w.backend.state = "Paused" -> w
      [] OTHER -> [w EXCEPT !.session.audioActive = FALSE]

ResumeAudio(w) ==
    IF w.session.status = "Paused" /\ w.session.audioActive
    THEN {FollowBackend([w EXCEPT !.backend = b]) : b \in ResumedBackends(w.backend)}
    ELSE {w}

Resumed(w) ==
    {[app |-> v, ok |-> v.session.status = "Playing" /\ v.session.audioActive] :
       v \in ResumeAudio(w)}

SeekTo(w, at) ==
    LET id == w.session.current
        sought == [w EXCEPT !.session = [ResetFinishPending(@) EXCEPT !.elapsed = at]]
    IN  IF ~Known(w, id) \/ IsRemote(w, id) THEN {Refused(w)}
        ELSE {IF v.session.audioActive
              THEN Done([v EXCEPT !.session.status = "Playing"])
              ELSE Refused([v EXCEPT !.session.status = "Paused"]) :
                v \in Launched(sought, w.library.medium[id], at)}

StopAudio(w) ==
    [w EXCEPT !.backend = SilentBackend,
              !.session = [ResetFinishPending(@) EXCEPT
                             !.status = "Paused", !.audioActive = FALSE, !.elapsed = 0]]

-----------------------------------------------------------------------------
(* Starting a track of the library by id, from whatever source. *)

\* PlaybackCommandService::startTrack for a local track.
StartLocalTrack(w, id) ==
    IF w.session.current = id /\ w.session.audioActive /\ w.session.status = "Playing"
    THEN {Done(w)}
    ELSE IF w.session.current = id /\ w.session.audioActive /\ w.session.status = "Paused"
    THEN Resumed(w)
    ELSE UNION {PlayQueueIndex(v, v.queue.index) : v \in QueuePrepared(w, id)}

\* The runtime resolves a remote track on the spot; a source that does not
\* answer leaves everything as it was.  Merging the resolved facts back into
\* the library puts all songs in context.
ResolveAndStart(w, id) ==
    {Refused(w)} \cup StartRemoteLibraryTrack([w EXCEPT !.songs = w.library.order], id)

StartTrackIn(w, id) ==
    IF ~Known(w, id) THEN {Refused(w)}
    ELSE IF IsRemote(w, id) THEN ResolveAndStart(w, id)
    ELSE StartLocalTrack(w, id)

\* A queue command reaches a remote item through the runtime's starter, after
\* the queue has moved there.
PlayQueueIndexAnySource(w, i) ==
    IF InQueue(w.queue, i) /\ Known(w, w.queue.active[i + 1])
                           /\ IsRemote(w, w.queue.active[i + 1])
    THEN ResolveAndStart([w EXCEPT !.queue.index = i], w.queue.active[i + 1])
    ELSE PlayQueueIndex(w, i)

\* resumePlayback: a paused item whose audio is gone restarts at its end and
\* otherwise seeks back to where it was.
ResumePlaybackIn(w) ==
    LET s == w.session
    IN  IF s.status = "Paused" /\ s.current # NoTrack /\ ~s.audioActive
        THEN IF Known(w, s.current) /\ AtKnownEnd(s, Duration[w.library.medium[s.current]])
             THEN StartTrackIn(w, s.current)
             ELSE SeekTo(w, s.elapsed)
        ELSE Resumed(w)

StartFirstSong(w) ==
    IF w.library.order = <<>> THEN {Refused(w)}
    ELSE LET v == [w EXCEPT !.songs = w.library.order]
             first == w.library.order[1]
         IN  IF IsRemote(w, first)
             THEN {Refused(u) : u \in QueuePrepared(v, first)}
             ELSE StartLocalTrack(v, first)

PlayFirstAvailableIn(w) ==
    LET s == w.session
    IN  IF s.status = "Paused" /\ s.current # NoTrack
        THEN UNION {IF o.ok THEN {o} ELSE StartTrackIn(o.app, o.app.session.current) :
                      o \in ResumePlaybackIn(w)}
        ELSE IF s.status = "Playing" THEN {[app |-> w, ok |-> s.audioActive]}
        ELSE IF s.current # NoTrack THEN StartTrackIn(w, s.current)
        ELSE IF s.stream # NoMedium THEN Resumed(w)
        ELSE StartFirstSong(w)

-----------------------------------------------------------------------------
(* Client commands.  Each is dispatched whole, under the bus mutex. *)

ClientMay(command) ==
    /\ command \in Commands
    /\ lookup.generation < ClientLookups

Perform(outcomes) == \E o \in outcomes : Commit(o.app)

Play == ClientMay("play") /\ Perform(PlayFirstAvailableIn(App))

Pause == ClientMay("pause") /\ Commit(PauseAudio(App))

Resume == ClientMay("resume") /\ Perform(ResumePlaybackIn(App))

TogglePlayPause ==
    /\ ClientMay("toggle")
    /\ CASE session.status = "Playing" -> Commit(PauseAudio(App))
         [] session.status = "Paused" -> Perform(ResumePlaybackIn(App))
         [] OTHER -> UNCHANGED vars

Stop == ClientMay("stop") /\ Commit(StopAudio(App))

Seek(at) == ClientMay("seek") /\ Perform(SeekTo(App, at))

StartTrack(id) == ClientMay("start") /\ Perform(StartTrackIn(App, id))

\* A start with an album or genre puts that list in context and prepares the
\* queue before the start proper.
StartTrackWithContext(id, list) ==
    /\ ClientMay("startInContext")
    /\ Range(list) \subseteq Range(library.order)
    /\ Perform(UNION {StartTrackIn(v, id) :
                   v \in QueuePrepared([App EXCEPT !.songs = list], id)})

StepQueue(delta) ==
    /\ ClientMay("step")
    /\ queue.active # <<>>
    /\ Perform(PlayQueueIndexAnySource(App, SteppedIndex(queue, session, delta)))

JumpQueue(i) == ClientMay("jump") /\ Perform(PlayQueueIndexAnySource(App, i))

ClearQueue == ClientMay("clear") /\ Commit([App EXCEPT !.queue = EmptyQueue])

ShuffleSet(w, enabled) ==
    IF w.session.shuffle = enabled THEN {w}
    ELSE Reordered([w EXCEPT !.session.shuffle = enabled], w.session.current)

SetShuffle(enabled) ==
    ClientMay("shuffle") /\ \E w \in ShuffleSet(App, enabled) : Commit(w)

RepeatAllSet(s, enabled) ==
    [s EXCEPT !.repeatAll = enabled, !.repeatOne = @ /\ ~enabled]

RepeatOneSet(s, enabled) ==
    [s EXCEPT !.repeatOne = enabled, !.repeatAll = @ /\ ~enabled]

SetRepeatAll(enabled) ==
    ClientMay("repeat") /\ Commit([App EXCEPT !.session = RepeatAllSet(@, enabled)])

SetRepeatOne(enabled) ==
    ClientMay("repeat") /\ Commit([App EXCEPT !.session = RepeatOneSet(@, enabled)])

CycleRepeatMode ==
    /\ ClientMay("cycleRepeat")
    /\ Commit([App EXCEPT !.session =
                 CASE ~@.repeatAll /\ ~@.repeatOne -> RepeatAllSet(@, TRUE)
                   [] @.repeatAll -> RepeatOneSet(@, TRUE)
                   [] OTHER -> [@ EXCEPT !.repeatAll = FALSE, !.repeatOne = FALSE]])

\* The main menu steps through shuffle, repeat all, repeat one and none.
CycleMainMenuMode ==
    /\ ClientMay("menuMode")
    /\ CASE session.shuffle ->
              \E w \in ShuffleSet(App, FALSE) :
                Commit([w EXCEPT !.session = RepeatAllSet(@, TRUE)])
         [] ~session.shuffle /\ session.repeatAll ->
              Commit([App EXCEPT !.session =
                        RepeatOneSet(RepeatAllSet(@, FALSE), TRUE)])
         [] ~session.shuffle /\ ~session.repeatAll /\ session.repeatOne ->
              Commit([App EXCEPT !.session =
                        RepeatAllSet(RepeatOneSet(@, FALSE), FALSE)])
         [] OTHER -> \E w \in ShuffleSet(App, TRUE) : Commit(w)

\* A remote item met while browsing joins the library under the next free id,
\* unless it is there already, and then starts.
Insertions(order, id) ==
    {InsertAt(order, k, id) : k \in 1..(Len(order) + 1)}

IdsOf(w, medium) == {id \in TrackIds : w.library.medium[id] = medium}

NextId(w) == CHOOSE id \in 1..(MaxTrackId + 1) :
                /\ \A other \in Range(w.library.order) : other < id
                /\ id = 1 \/ id - 1 \in Range(w.library.order)

Merged(w, medium) ==
    IF IdsOf(w, medium) # {} THEN {[w EXCEPT !.songs = w.library.order]}
    ELSE {[w EXCEPT !.library = [medium |-> [@.medium EXCEPT ![NextId(w)] = medium],
                                 order |-> o],
                    !.songs = o] : o \in Insertions(w.library.order, NextId(w))}

StartRemoteItem(medium) ==
    /\ ClientMay("startRemote")
    /\ IdsOf(App, medium) # {} \/ NextId(App) \in TrackIds
    /\ Perform(UNION {UNION {StartRemoteLibraryTrack(w, id) : id \in IdsOf(w, medium)} :
                   w \in Merged(App, medium)})

StartActiveLibraryStream(id) ==
    /\ ClientMay("startActive")
    /\ Known(App, id) /\ IsRemote(App, id)
    /\ Perform(StartRemoteLibraryTrack(App, id))

StartActiveStream(medium) ==
    ClientMay("startStream") /\ Perform(StartRemoteStream(App, medium))

-----------------------------------------------------------------------------
(* The tick: answered lookups first, then the backend's state. *)

\* An answer still fits when its id denotes the same medium; it reaches the
\* session when it answers the latest request and that item is current.
\* Mutant: the answer is matched by id alone.
FitsById(w, answer) == w.library.medium[answer.id] # NoMedium

Fits(w, answer) ==
    w.library.medium[answer.id] = answer.medium

\* Mutant: the latest answer is taken for the current item's.
ReachesAnyItem(w, answer) ==
    Fits(w, answer) /\ answer.generation = w.lookup.generation

Reaches(w, answer) ==
    /\ Fits(w, answer)
    /\ w.session.current = answer.id
    /\ answer.generation = w.lookup.generation

\* Mutant: the wait is not ended.
ApplyPendingStillWaiting(w) ==
    LET reached == {a \in w.lookup.done : Reaches(w, a)}
        v == [w EXCEPT !.lookup.done = {}]
    IN  IF reached = {} THEN v
        ELSE [v EXCEPT !.session.lyrics = CHOOSE a \in reached : TRUE]

ApplyPending(w) ==
    LET reached == {a \in w.lookup.done : Reaches(w, a)}
        v == [w EXCEPT !.lookup.done = {}]
    IN  IF reached = {} THEN v
        ELSE [v EXCEPT !.session.lyricsPending = FALSE,
                       !.session.lyrics = CHOOSE a \in reached : TRUE]

TrackDuration(w) ==
    IF Known(w, w.session.current) THEN Duration[w.library.medium[w.session.current]]
    ELSE Duration[w.session.stream]

\* The tick carries no remote starter: a remote next item is not started.
AdvanceAfterFinish(w) ==
    LET next == NextIndexAfterFinish(w.queue, w.session)
    IN  IF next = NoIndex THEN {Refused(w)} ELSE PlayQueueIndex(w, next)

Ended(w, duration, hasTrack) ==
    [w EXCEPT !.session.audioActive = FALSE, !.session.status = "Paused",
              !.session.elapsed = IF hasTrack \/ duration > 0 THEN Least(@, duration) ELSE @]

\* hasTrack and duration are those of the item that finished.
TickFinished(w, delta) ==
    LET s == w.session
        hasTrack == Known(w, s.current)
        duration == TrackDuration(w)
        position == w.backend.position
    IN  IF FinishAccepted(s, duration, position)
        THEN {IF o.ok THEN o.app ELSE Ended(o.app, duration, hasTrack) :
                o \in AdvanceAfterFinish(
                        [w EXCEPT !.session = ResetFinishPending(
                                     AcceptedFinish(s, duration, position))])}
        ELSE IF FinishRejected(s, duration, position, delta)
        THEN {[w EXCEPT !.backend = SilentBackend,
                        !.session = [ResetFinishPending(
                                       PendingFinish(s, duration, position, delta))
                                     EXCEPT !.audioActive = FALSE, !.status = "Paused"]]}
        ELSE {[w EXCEPT !.session = PendingFinish(s, duration, position, delta)]}

TickBackend(w, delta) ==
    IF ~w.session.audioActive THEN {w}
    ELSE CASE w.backend.state = "Finished" -> TickFinished(w, delta)
           [] w.backend.state = "Failed" ->
                {[w EXCEPT !.session = [ResetFinishPending(@) EXCEPT
                                          !.audioActive = FALSE, !.status = "Paused"]]}
           [] w.backend.state = "Playing" ->
                {[w EXCEPT !.session = ClockAdvanced(ResetFinishPending(@),
                                                     w.backend.position, delta)]}
           [] OTHER -> {w}

Tick(delta) == \E w \in TickBackend(ApplyPending(App), delta) : Commit(w)

-----------------------------------------------------------------------------
(* What moves between commands: the backend, the lookup threads, the pages *)
(* and the library scan.                                                   *)

MaxPosition(medium) == IF Duration[medium] = 0 THEN 1 ELSE Duration[medium]

BackendStarts ==
    /\ backend.state = "Starting"
    /\ backend' = [backend EXCEPT !.state = "Playing"]
    /\ UNCHANGED <<queue, session, lookup, library, songs>>

BackendPlays ==
    /\ backend.state = "Playing"
    /\ backend.position \in 0..(MaxPosition(backend.medium) - 1)
    /\ backend' = [backend EXCEPT !.position = @ + 1]
    /\ UNCHANGED <<queue, session, lookup, library, songs>>

\* A pause that lands while the sink drains does not keep the worker from
\* declaring the stream finished.
BackendFinishes ==
    /\ backend.state \in {"Playing", "Paused"}
    /\ backend' = [backend EXCEPT !.state = "Finished"]
    /\ UNCHANGED <<queue, session, lookup, library, songs>>

BackendFails ==
    /\ backend.state \in {"Starting", "Playing", "Paused"}
    /\ backend' = [backend EXCEPT !.state = "Failed"]
    /\ UNCHANGED <<queue, session, lookup, library, songs>>

LookupAnswers(request) ==
    /\ request \in lookup.running
    /\ lookup' = [lookup EXCEPT !.running = @ \ {request}, !.done = @ \cup {request}]
    /\ UNCHANGED <<queue, session, backend, library, songs>>

BrowseSongs(list) ==
    /\ "browse" \in Commands
    /\ Range(list) \subseteq Range(library.order)
    /\ songs' = list
    /\ UNCHANGED <<queue, session, backend, lookup, library>>

\* A finished scan replaces the whole model and puts all songs in context.
Rescan(scanned) ==
    /\ "rescan" \in Commands
    /\ library' = scanned
    /\ songs' = scanned.order
    /\ UNCHANGED <<queue, session, backend, lookup>>

-----------------------------------------------------------------------------

Transport ==
    \/ Play \/ Pause \/ Resume \/ TogglePlayPause \/ Stop
    \/ \E at \in 0..ElapsedCap : Seek(at)
    \/ \E id \in TrackIds : StartTrack(id)
    \/ \E id \in TrackIds, list \in SongLists : StartTrackWithContext(id, list)

QueueCommand ==
    \/ \E delta \in {-1, 1} : StepQueue(delta)
    \/ \E i \in 0..(MaxTrackId - 1) : JumpQueue(i)
    \/ ClearQueue
    \/ \E enabled \in BOOLEAN : \/ SetShuffle(enabled)
                               \/ SetRepeatAll(enabled)
                               \/ SetRepeatOne(enabled)
    \/ CycleRepeatMode \/ CycleMainMenuMode

RemoteCommand ==
    \/ \E medium \in RemoteMedia : StartRemoteItem(medium) \/ StartActiveStream(medium)
    \/ \E id \in TrackIds : StartActiveLibraryStream(id)

Backend == BackendStarts \/ BackendPlays \/ BackendFinishes \/ BackendFails

Surroundings ==
    \/ Backend
    \/ \E request \in lookup.running : LookupAnswers(request)
    \/ \E list \in SongLists : BrowseSongs(list)
    \/ \E scanned \in Libraries : Rescan(scanned)

Ticks == \E delta \in 0..MaxDelta : Tick(delta)

Next == Transport \/ QueueCommand \/ RemoteCommand \/ Surroundings \/ Ticks

Spec == Init /\ [][Next]_vars

(***************************************************************************)
(* LoFiBoxApp::update ticks the bus on every frame with the time that has  *)
(* passed; the lookup threads end because every provider call returns; the *)
(* backend finishes or fails in the end because a stream is finite (a      *)
(* paused one need not).                                                   *)
(***************************************************************************)
Fairness ==
    /\ WF_vars(\E delta \in 1..MaxDelta : Tick(delta))
    /\ WF_vars(\E request \in lookup.running : LookupAnswers(request))
    /\ WF_vars(BackendStarts)
    /\ WF_vars(backend.state = "Playing" /\ (BackendFinishes \/ BackendFails))

FairSpec == Spec /\ Fairness

-----------------------------------------------------------------------------
(* Types. *)

Statuses == {"Empty", "Paused", "Playing"}
BackendStates == {"Idle", "Starting", "Playing", "Paused", "Finished", "Failed"}

LookupType == [id : TrackIds, medium : Media, generation : Nat \ {0}]

SessionType ==
    [status : Statuses, current : TrackIds \cup {NoTrack}, stream : MediumOrNone,
     shuffle : BOOLEAN, repeatAll : BOOLEAN, repeatOne : BOOLEAN,
     elapsed : Nat, audioActive : BOOLEAN,
     finishPending : BOOLEAN, pendingFor : Nat,
     lyricsPending : BOOLEAN, lyrics : LookupType \cup {NoLyrics}]

QueueType ==
    [base : Seq(TrackIds), active : Seq(TrackIds), index : Nat \cup {NoIndex}]

BackendType ==
    [state : BackendStates, medium : MediumOrNone, position : Nat \cup {NoPosition}]

RegisterType ==
    [generation : Nat, running : SUBSET LookupType, done : SUBSET LookupType]

ShelfType == [medium : [TrackIds -> MediumOrNone], order : Seq(TrackIds)]

\* The type invariant of the module's six variables.
TypeOK ==
    /\ queue \in QueueType
    /\ session \in SessionType
    /\ backend \in BackendType
    /\ lookup \in RegisterType
    /\ library \in ShelfType
    /\ songs \in Seq(TrackIds)

-----------------------------------------------------------------------------
(* Safety. *)

(* However queues are prepared, shuffled, stepped, jumped and cleared, the   *)
(* playing order is a rearrangement of the base order, so that leaving       *)
(* shuffle restores it, and a queue with items has exactly one active        *)
(* position inside it (rebuildActiveQueueForMode, playQueueIndex).           *)
QueueWellFormed ==
    /\ queue.active \in Shuffles(queue.base)
    /\ queue.active # <<>> => InQueue(queue, queue.index)

(* The two repeat modes exclude each other on every path that changes them:  *)
(* the setters, the repeat cycle and the main menu's cycle.                   *)
RepeatModesExclusive == ~(session.repeatAll /\ session.repeatOne)

(* The session never shows Playing without audio behind it, and never leaves *)
(* a backend sounding that it believes inactive: nothing would ever pause or  *)
(* stop that sound (startBackend, resume, tick, stop).                        *)
SessionMatchesAudio ==
    /\ session.status = "Playing" => session.audioActive
    /\ ~session.audioActive => backend.state \in {"Idle", "Finished", "Failed"}

(* While audio is active the backend plays the medium of the current item,   *)
(* also after starts that failed half way, remote sources that did not        *)
(* answer and queue positions that moved without a start.                     *)
HeardIsCurrent ==
    session.audioActive =>
      backend.medium = (IF session.current = NoTrack THEN session.stream
                        ELSE library.medium[session.current])

(* The lyrics on show answer the latest lookup, and that lookup was made for *)
(* the current item: answers arrive in any order and long after their item    *)
(* was left (applyPending).                                                   *)
LyricsAreCurrent ==
    session.lyrics # NoLyrics =>
      /\ session.lyrics.id = session.current
      /\ session.lyrics.generation = lookup.generation

-----------------------------------------------------------------------------
(* Action properties. *)

(* An answer that reaches the session is about the medium its id denotes at  *)
(* that moment, although a rescan may have given the id to another file.      *)
AnswersFitTheLibrary ==
    [][session.lyrics' # session.lyrics /\ session.lyrics' # NoLyrics =>
         library.medium[session.current'] = session.lyrics'.medium]_vars

(* A finish reported well before the known end never moves the queue on: the *)
(* tick keeps the item or pauses it, whatever the queue and the repeat modes  *)
(* would do next (gateFinishedBackend, playback 0.2.5 and 0.2.6).             *)
EarlyFinishNeverAdvances ==
    [][Ticks /\ backend.state = "Finished" /\ session.audioActive
       /\ TrackDuration(App) - backend.position > AcceptRemaining
       /\ backend.position # NoPosition
         => session'.current = session.current /\ queue' = queue]_vars

(* Without a repeat mode a tick that moves the queue or starts an item does  *)
(* so at a later position of the same order: a queue left alone comes to its  *)
(* end, whatever finishes at once or fails to start on the way                *)
(* (advanceAfterFinish).                                                      *)
AdvanceMovesOn ==
    [][Ticks /\ ~session.repeatAll /\ ~session.repeatOne
       /\ (queue' # queue \/ lookup'.generation # lookup.generation)
         => queue'.active = queue.active /\ queue'.index > queue.index]_vars

-----------------------------------------------------------------------------
(* Liveness. *)

(* A finish is always consumed: a playing session does not hang on a backend *)
(* that reports Finished, early or not, with a position or without one.       *)
FinishIsConsumed ==
    (session.status = "Playing" /\ backend.state = "Finished")
      ~> ~(session.status = "Playing" /\ backend.state = "Finished")

(* A lookup made for the current item ends the wait for its lyrics, unless   *)
(* the session has moved on to another lookup or another item by then.        *)
LookupEndsTheWait ==
    \A g \in 1..MaxLookups, id \in TrackIds :
      (/\ session.lyricsPending /\ session.current = id
       /\ \E r \in lookup.running : r.generation = g /\ r.id = id)
      ~> (~session.lyricsPending \/ lookup.generation # g \/ session.current # id)
=============================================================================
