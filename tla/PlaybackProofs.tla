--------------------------- MODULE PlaybackProofs ---------------------------
(***************************************************************************)
(* Theorems about Playback for every library, queue, duration and client.  *)
(* The invariant is carried through the handlers the way the code composes *)
(* them: each operator that yields outcomes has a lemma saying that its    *)
(* outcomes Follow the application state it was given, and one saying that *)
(* what is Heard remains the item on show.                                 *)
(***************************************************************************)
EXTENDS Playback, TLAPS

AppType ==
    [queue : QueueType, session : SessionType, backend : BackendType,
     lookup : RegisterType, library : ShelfType, songs : Seq(TrackIds)]

QueueOk(q) ==
    /\ q.active \in Shuffles(q.base)
    /\ q.active # <<>> => InQueue(q, q.index)

RepeatOk(s) == ~(s.repeatAll /\ s.repeatOne)

Quiet == {"Idle", "Finished", "Failed"}

AudioOk(s, b) ==
    /\ s.status = "Playing" => s.audioActive
    /\ ~s.audioActive => b.state \in Quiet

\* What every handler may rely on, and what its outcomes must satisfy.
Sound(w) ==
    /\ w \in AppType
    /\ QueueOk(w.queue)
    /\ RepeatOk(w.session)
    /\ AudioOk(w.session, w.backend)

\* Lyrics are dropped or stay with the item and the lookup they belong to.
LyricsKept(w, v) ==
    \/ v.session.lyrics = NoLyrics
    \/ /\ v.session.lyrics = w.session.lyrics
       /\ v.session.current = w.session.current
       /\ v.lookup.generation = w.lookup.generation

\* Only a tick takes an answer in, from the library it finds.
Answered(w, v) ==
    /\ v.session.lyrics.id = v.session.current
    /\ v.session.lyrics.generation = v.lookup.generation
    /\ w.library.medium[v.session.current] = v.session.lyrics.medium

Follows(w, v) == Sound(v) /\ LyricsKept(w, v)

\* A start in the making: the session is set up, the audio not yet.
Begun(w) == w \in AppType /\ QueueOk(w.queue) /\ RepeatOk(w.session)

LEMMA LaunchedOutcomes ==
    ASSUME NEW w \in AppType, NEW medium \in MediumOrNone, NEW at \in Nat,
           NEW v \in Launched(w, medium, at)
    PROVE  /\ v \in AppType
           /\ v.queue = w.queue
           /\ v.lookup = w.lookup
           /\ v.library = w.library
           /\ v.session = [w.session EXCEPT !.audioActive = v.session.audioActive]
           /\ ~v.session.audioActive => v.backend.state = "Idle"
<1>1. SilentBackend \in BackendType
  BY DEF SilentBackend, BackendType, BackendStates, MediumOrNone
<1>2. CASE \E p \in {at, NoPosition} :
             v = [w EXCEPT !.session.audioActive = TRUE,
                           !.backend = [state |-> "Starting", medium |-> medium,
                                        position |-> p]]
  <2>1. PICK p \in {at, NoPosition} :
             v = [w EXCEPT !.session.audioActive = TRUE,
                           !.backend = [state |-> "Starting", medium |-> medium,
                                        position |-> p]]
    BY <1>2
  <2>2. [state |-> "Starting", medium |-> medium, position |-> p] \in BackendType
    BY DEF BackendType, BackendStates
  <2>3. w.session \in SessionType
    BY DEF AppType
  <2>4. [w.session EXCEPT !.audioActive = TRUE] \in SessionType
    BY <2>3 DEF SessionType
  <2>5. /\ v.session = [w.session EXCEPT !.audioActive = TRUE]
        /\ v.backend = [state |-> "Starting", medium |-> medium, position |-> p]
        /\ v.queue = w.queue /\ v.lookup = w.lookup /\ v.library = w.library
        /\ v.session.audioActive
        /\ v \in AppType
    BY <2>1, <2>2, <2>3, <2>4 DEF AppType, SessionType
  <2>. QED BY <2>5
<1>3. CASE v = [w EXCEPT !.session.audioActive = FALSE, !.backend = SilentBackend]
  <2>3. w.session \in SessionType
    BY DEF AppType
  <2>4. [w.session EXCEPT !.audioActive = FALSE] \in SessionType
    BY <2>3 DEF SessionType
  <2>5. /\ v.session = [w.session EXCEPT !.audioActive = FALSE]
        /\ v.backend = SilentBackend
        /\ v.queue = w.queue /\ v.lookup = w.lookup /\ v.library = w.library
        /\ ~v.session.audioActive
        /\ v \in AppType
    BY <1>1, <1>3, <2>3, <2>4 DEF AppType, SessionType
  <2>. QED BY <2>5 DEF SilentBackend
<1>. QED BY <1>2, <1>3 DEF Launched

\* A launch is sound once the status has been brought in line with it.
LEMMA LaunchedSound ==
    ASSUME NEW w, Begun(w), NEW medium \in MediumOrNone, NEW at \in Nat,
           NEW v \in Launched(w, medium, at)
    PROVE  /\ v.session.audioActive =>
                /\ Sound(v)
                /\ Sound([v EXCEPT !.session.status = "Playing"])
           /\ ~v.session.audioActive =>
                Sound([v EXCEPT !.session.status = "Paused"])
<1>. DEFINE playing == [v EXCEPT !.session.status = "Playing"]
            paused == [v EXCEPT !.session.status = "Paused"]
<1>1. /\ w \in AppType /\ QueueOk(w.queue) /\ RepeatOk(w.session)
  BY DEF Begun
<1>2. /\ v \in AppType
      /\ v.queue = w.queue
      /\ v.session = [w.session EXCEPT !.audioActive = v.session.audioActive]
      /\ ~v.session.audioActive => v.backend.state = "Idle"
  BY <1>1, LaunchedOutcomes
<1>3. QueueOk(v.queue)
  BY <1>1, <1>2
<1>4. v.session \in SessionType /\ w.session \in SessionType
  BY <1>1, <1>2 DEF AppType
<1>5. RepeatOk(v.session)
  BY <1>1, <1>2, <1>4 DEF RepeatOk, SessionType
<1>6. /\ [v.session EXCEPT !.status = "Playing"] \in SessionType
      /\ [v.session EXCEPT !.status = "Paused"] \in SessionType
  BY <1>4 DEF SessionType, Statuses
<1>7. /\ playing \in AppType /\ paused \in AppType
      /\ playing.queue = v.queue /\ paused.queue = v.queue
      /\ playing.backend = v.backend /\ paused.backend = v.backend
      /\ playing.session = [v.session EXCEPT !.status = "Playing"]
      /\ paused.session = [v.session EXCEPT !.status = "Paused"]
  BY <1>2, <1>4, <1>6 DEF AppType
<1>8. RepeatOk(playing.session) /\ RepeatOk(paused.session)
  BY <1>4, <1>5, <1>7 DEF RepeatOk, SessionType
<1>9. /\ v.session.audioActive => AudioOk(v.session, v.backend)
      /\ v.session.audioActive => AudioOk(playing.session, playing.backend)
      /\ ~v.session.audioActive => AudioOk(paused.session, paused.backend)
  BY <1>2, <1>4, <1>7 DEF AudioOk, SessionType, Quiet
<1>. QED BY <1>2, <1>3, <1>5, <1>7, <1>8, <1>9 DEF Sound

LEMMA BeginItemFacts ==
    ASSUME NEW s \in SessionType, NEW id \in TrackIds \cup {NoTrack},
           NEW stream \in MediumOrNone
    PROVE  /\ BeginItem(s, id, stream) \in SessionType
           /\ BeginItem(s, id, stream).lyrics = NoLyrics
           /\ RepeatOk(s) => RepeatOk(BeginItem(s, id, stream))
BY DEF BeginItem, SessionType, Statuses, RepeatOk

LEMMA RequestFollows ==
    ASSUME NEW w, Sound(w), NEW id, Known(w, id)
    PROVE  /\ Sound(Request(w, id))
           /\ Request(w, id).session = w.session
           /\ Request(w, id).queue = w.queue
<1>. DEFINE g == w.lookup.generation + 1
            r == [id |-> id, medium |-> w.library.medium[id], generation |-> g]
            register == [w.lookup EXCEPT !.generation = g, !.running = @ \cup {r}]
<1>1. w \in AppType /\ w.lookup \in RegisterType /\ w.library \in ShelfType
  BY DEF Sound, AppType
<1>2. r \in LookupType
  BY <1>1 DEF Known, LookupType, ShelfType, RegisterType, MediumOrNone
<1>3. register \in RegisterType
  <2>1. g \in Nat /\ w.lookup.running \cup {r} \in SUBSET LookupType
    BY <1>1, <1>2 DEF RegisterType
  <2>. QED BY <1>1, <2>1 DEF RegisterType
<1>4. /\ Request(w, id) = [w EXCEPT !.lookup = register]
  BY <1>1 DEF Request, AppType, RegisterType
<1>5. /\ Request(w, id) \in AppType
      /\ Request(w, id).session = w.session
      /\ Request(w, id).queue = w.queue
      /\ Request(w, id).backend = w.backend
  BY <1>1, <1>3, <1>4 DEF AppType
<1>. QED BY <1>5 DEF Sound

\* A start that begins with empty lyrics follows whatever was before it.
LEMMA StartFollows ==
    ASSUME NEW w, NEW b, Begun(b), b.session.lyrics = NoLyrics,
           NEW medium \in MediumOrNone, NEW v \in Launched(b, medium, 0)
    PROVE  /\ v.session.audioActive => Follows(w, v)
           /\ ~v.session.audioActive =>
                /\ Follows(w, [v EXCEPT !.session.status = "Paused"])
                /\ v.backend.state \in Quiet
           /\ v \in AppType /\ v.library = b.library
           /\ v.session.lyrics = NoLyrics
<1>1. b \in AppType
  BY DEF Begun
<1>2. /\ v \in AppType /\ v.library = b.library
      /\ v.session = [b.session EXCEPT !.audioActive = v.session.audioActive]
      /\ ~v.session.audioActive => v.backend.state = "Idle"
  BY <1>1, LaunchedOutcomes
<1>3. b.session \in SessionType /\ v.session \in SessionType
  BY <1>1, <1>2 DEF AppType
<1>4. v.session.lyrics = NoLyrics
  BY <1>2, <1>3 DEF SessionType
<1>5. [v EXCEPT !.session.status = "Paused"].session.lyrics = NoLyrics
  BY <1>2, <1>3, <1>4 DEF SessionType, AppType
<1>. QED BY <1>2, <1>4, <1>5, LaunchedSound DEF Follows, LyricsKept, Quiet

LEMMA PlayQueueIndexFollows ==
    ASSUME NEW w, Sound(w), NEW i \in Int, NEW o \in PlayQueueIndex(w, i)
    PROVE  /\ Follows(w, o.app)
           /\ ~o.ok => o.app.backend.state \in Quiet \cup {w.backend.state}
<1>1. CASE ~InQueue(w.queue, i) \/ ~Known(w, w.queue.active[i + 1])
                                \/ IsRemote(w, w.queue.active[i + 1])
  BY <1>1 DEF PlayQueueIndex, Refused, Follows, LyricsKept
<1>2. CASE ~(~InQueue(w.queue, i) \/ ~Known(w, w.queue.active[i + 1])
                                  \/ IsRemote(w, w.queue.active[i + 1]))
  <2>. DEFINE id == w.queue.active[i + 1]
              q == [w.queue EXCEPT !.index = i]
              s == BeginItem(w.session, id, NoMedium)
              b == [w EXCEPT !.queue.index = i, !.session = BeginItem(@, id, NoMedium)]
  <2>1. /\ w \in AppType /\ w.queue \in QueueType /\ w.session \in SessionType
        /\ w.library \in ShelfType /\ QueueOk(w.queue) /\ RepeatOk(w.session)
    BY DEF Sound, AppType
  <2>2. /\ InQueue(w.queue, i) /\ Known(w, id) /\ id \in TrackIds
        /\ w.library.medium[id] \in MediumOrNone
    BY <1>2, <2>1 DEF Known, ShelfType
  <2>3. q \in QueueType /\ QueueOk(q)
    BY <2>1, <2>2 DEF QueueType, QueueOk, InQueue, NoIndex
  <2>4. s \in SessionType /\ s.lyrics = NoLyrics /\ RepeatOk(s)
    BY <2>1, <2>2, BeginItemFacts DEF MediumOrNone
  <2>5. b = [w EXCEPT !.queue = q, !.session = s]
    BY <2>1 DEF AppType
  <2>6. Begun(b) /\ b.session.lyrics = NoLyrics /\ b.library = w.library
      <3>. HIDE DEF b, s, q
    <3>. QED BY <2>1, <2>3, <2>4, <2>5 DEF Begun, AppType
  <2>7. PICK v \in Launched(b, w.library.medium[id], 0) :
          o = IF v.session.audioActive THEN Done(Request(v, id))
              ELSE Refused([v EXCEPT !.session.status = "Paused"])
    BY <1>2 DEF PlayQueueIndex
  <2>8. /\ v.session.audioActive => Follows(w, v)
        /\ ~v.session.audioActive =>
             /\ Follows(w, [v EXCEPT !.session.status = "Paused"])
             /\ v.backend.state \in Quiet
        /\ v.library = w.library /\ v \in AppType
        /\ v.session.lyrics = NoLyrics
    BY <2>2, <2>6, StartFollows
  <2>9. CASE v.session.audioActive
    BY <2>2, <2>7, <2>8, <2>9, RequestFollows DEF Follows, LyricsKept, Done, Known
  <2>10. CASE ~v.session.audioActive
    BY <2>7, <2>8, <2>10 DEF Refused, AppType
  <2>. QED BY <2>9, <2>10
<1>. QED BY <1>1, <1>2

LEMMA StartRemoteLibraryTrackFollows ==
    ASSUME NEW w, Sound(w), NEW id \in TrackIds, Known(w, id),
           NEW o \in StartRemoteLibraryTrack(w, id)
    PROVE  Follows(w, o.app)
<1>. DEFINE medium == w.library.medium[id]
            s == [BeginItem(w.session, id, NoMedium) EXCEPT
                    !.lyricsPending = medium \in Governed]
            b == [w EXCEPT !.session =
                    [BeginItem(@, id, NoMedium) EXCEPT !.lyricsPending = medium \in Governed]]
<1>1. /\ w \in AppType /\ w.queue \in QueueType /\ w.session \in SessionType
      /\ w.library \in ShelfType /\ QueueOk(w.queue) /\ RepeatOk(w.session)
  BY DEF Sound, AppType
<1>2. medium \in MediumOrNone
  BY <1>1 DEF ShelfType
<1>3. /\ BeginItem(w.session, id, NoMedium) \in SessionType
      /\ BeginItem(w.session, id, NoMedium).lyrics = NoLyrics
      /\ RepeatOk(BeginItem(w.session, id, NoMedium))
  BY <1>1, BeginItemFacts DEF MediumOrNone
<1>4. s \in SessionType /\ s.lyrics = NoLyrics /\ RepeatOk(s)
  <2>1. CASE medium \in Governed
    <3>1. s = [BeginItem(w.session, id, NoMedium) EXCEPT !.lyricsPending = TRUE]
      BY <2>1
    <3>. QED BY <1>3, <3>1 DEF SessionType, RepeatOk
  <2>2. CASE medium \notin Governed
    <3>1. (medium \in Governed) = FALSE
      BY <2>2
    <3>2. s = [BeginItem(w.session, id, NoMedium) EXCEPT !.lyricsPending = FALSE]
      BY <3>1, Zenon
    <3>. QED BY <1>3, <3>2 DEF SessionType, RepeatOk
  <2>. QED BY <2>1, <2>2
<1>5. b = [w EXCEPT !.queue = w.queue, !.session = s]
  BY <1>1 DEF AppType
<1>6. Begun(b) /\ b.session = s /\ b.library = w.library
  <2>. HIDE DEF b, s
  <2>. QED BY <1>1, <1>4, <1>5 DEF Begun, AppType
<1>7. PICK v \in Launched(b, medium, 0) :
        o = IF ~v.session.audioActive
            THEN Refused([v EXCEPT !.session.status = "Paused"])
            ELSE Done(IF medium \in Governed THEN Request(v, id) ELSE v)
  BY DEF StartRemoteLibraryTrack
<1>8. /\ v.session.audioActive => Follows(w, v)
      /\ ~v.session.audioActive => Follows(w, [v EXCEPT !.session.status = "Paused"])
      /\ v.library = w.library /\ v \in AppType
      /\ v.session.lyrics = NoLyrics
  BY <1>2, <1>4, <1>6, StartFollows
<1>9. CASE v.session.audioActive
  BY <1>7, <1>8, <1>9, RequestFollows DEF Follows, LyricsKept, Done, Known
<1>10. CASE ~v.session.audioActive
  BY <1>7, <1>8, <1>10 DEF Refused
<1>. QED BY <1>9, <1>10

LEMMA EmptyShuffles == QueueOk(EmptyQueue) /\ EmptyQueue \in QueueType
<1>. DEFINE none == [i \in {} |-> i]
<1>1. none \in Bijection({}, {})
  BY DEF Bijection, Injection, Surjection, IsInjective
<1>2. DOMAIN <<>> = {}
  OBVIOUS
<1>3. [i \in DOMAIN <<>> |-> <<>>[none[i]]] = <<>>
  OBVIOUS
<1>4. <<>> \in Shuffles(<<>>)
  BY <1>1, <1>2, <1>3 DEF Shuffles
<1>. QED BY <1>4 DEF QueueOk, EmptyQueue, QueueType, NoIndex

LEMMA StartRemoteStreamFollows ==
    ASSUME NEW w, Sound(w), NEW medium \in MediumOrNone,
           NEW o \in StartRemoteStream(w, medium)
    PROVE  Follows(w, o.app)
<1>. DEFINE s == [BeginItem(w.session, NoTrack, medium) EXCEPT !.lyricsPending = FALSE]
            b == [w EXCEPT !.queue = EmptyQueue,
                           !.session = [BeginItem(@, NoTrack, medium) EXCEPT
                                          !.lyricsPending = FALSE]]
<1>1. /\ w \in AppType /\ w.queue \in QueueType /\ w.session \in SessionType
      /\ RepeatOk(w.session)
  BY DEF Sound, AppType
<1>3. /\ BeginItem(w.session, NoTrack, medium) \in SessionType
      /\ BeginItem(w.session, NoTrack, medium).lyrics = NoLyrics
      /\ RepeatOk(BeginItem(w.session, NoTrack, medium))
  BY <1>1, BeginItemFacts
<1>4. s \in SessionType /\ s.lyrics = NoLyrics /\ RepeatOk(s)
  BY <1>3 DEF SessionType, RepeatOk
<1>5. b = [w EXCEPT !.queue = EmptyQueue, !.session = s]
  BY <1>1 DEF AppType
<1>6. Begun(b) /\ b.session = s /\ b.library = w.library
  <2>. HIDE DEF b, s
  <2>. QED BY <1>1, <1>4, <1>5, EmptyShuffles DEF Begun, AppType
<1>7. PICK v \in Launched(b, medium, 0) :
        o = IF v.session.audioActive THEN Done(v)
            ELSE Refused([v EXCEPT !.session.status = "Paused"])
  BY DEF StartRemoteStream
<1>8. /\ v.session.audioActive => Follows(w, v)
      /\ ~v.session.audioActive => Follows(w, [v EXCEPT !.session.status = "Paused"])
  BY <1>4, <1>6, StartFollows
<1>. QED BY <1>7, <1>8 DEF Done, Refused

-----------------------------------------------------------------------------
(* The queue. *)

LEMMA ShuffleIsASequence ==
    ASSUME NEW T, NEW s \in Seq(T), NEW order \in Shuffles(s)
    PROVE  order \in Seq(T) /\ Len(order) = Len(s)
<1>1. PICK p \in Bijection(DOMAIN s, DOMAIN s) : order = [i \in DOMAIN s |-> s[p[i]]]
  BY DEF Shuffles
<1>2. p \in [DOMAIN s -> DOMAIN s]
  BY <1>1 DEF Bijection, Injection
<1>3. DOMAIN s = 1..Len(s) /\ \A i \in DOMAIN s : s[p[i]] \in T
  BY <1>2
<1>4. order \in [1..Len(s) -> T]
  BY <1>1, <1>3
<1>. QED BY <1>4

LEMMA OrderIsAShuffle ==
    ASSUME NEW T, NEW s \in Seq(T), NEW shuffle \in BOOLEAN,
           NEW order \in PlayingOrders(s, shuffle)
    PROVE  order \in Shuffles(s)
<1>. DEFINE same == [i \in DOMAIN s |-> i]
<1>1. same \in Bijection(DOMAIN s, DOMAIN s)
  BY DEF Bijection, Injection, Surjection, IsInjective
<1>2. s = [i \in DOMAIN s |-> s[same[i]]]
  OBVIOUS
<1>3. s \in Shuffles(s)
  BY <1>1, <1>2 DEF Shuffles
<1>. QED BY <1>3 DEF PlayingOrders

LEMMA PositionInOrder ==
    ASSUME NEW order \in Seq(TrackIds), NEW id
    PROVE  /\ PositionOf(order, id) \in Nat
           /\ order # <<>> => PositionOf(order, id) < Len(order)
<1>1. CASE id \in Range(order)
  <2>1. \E i \in DOMAIN order : order[i] = id
    BY <1>1 DEF Range
  <2>. DEFINE i == CHOOSE j \in DOMAIN order : order[j] = id
  <2>2. i \in DOMAIN order
    BY <2>1
  <2>3. PositionOf(order, id) = i - 1
    BY <1>1 DEF PositionOf
  <2>. QED BY <2>2, <2>3
<1>2. CASE id \notin Range(order)
  BY <1>2 DEF PositionOf
<1>. QED BY <1>1, <1>2

LEMMA ReorderedFollows ==
    ASSUME NEW w, Sound(w), NEW id, NEW v \in Reordered(w, id)
    PROVE  Follows(w, v) /\ v.session = w.session /\ v.lookup = w.lookup
                         /\ v.library = w.library /\ v.songs = w.songs
<1>1. /\ w \in AppType /\ w.queue \in QueueType /\ w.queue.base \in Seq(TrackIds)
      /\ w.session \in SessionType /\ w.session.shuffle \in BOOLEAN
  BY DEF Sound, AppType, QueueType, SessionType
<1>2. PICK order \in PlayingOrders(w.queue.base, w.session.shuffle) :
        v = [w EXCEPT !.queue = [base |-> w.queue.base, active |-> order,
                                 index |-> PositionOf(order, id)]]
  BY DEF Reordered
<1>. DEFINE q == [base |-> w.queue.base, active |-> order,
                  index |-> PositionOf(order, id)]
<1>3. order \in Shuffles(w.queue.base) /\ order \in Seq(TrackIds)
  BY <1>1, <1>2, OrderIsAShuffle, ShuffleIsASequence
<1>4. q \in QueueType /\ QueueOk(q)
  BY <1>1, <1>3, PositionInOrder DEF QueueType, QueueOk, InQueue
<1>5. /\ v \in AppType /\ v.queue = q /\ v.session = w.session
      /\ v.backend = w.backend /\ v.lookup = w.lookup
      /\ v.library = w.library /\ v.songs = w.songs
  BY <1>1, <1>2, <1>4 DEF AppType
<1>. QED BY <1>4, <1>5 DEF Follows, Sound, LyricsKept

LEMMA QueuePreparedFollows ==
    ASSUME NEW w, w \in AppType, RepeatOk(w.session), AudioOk(w.session, w.backend),
           NEW id, NEW v \in QueuePrepared(w, id)
    PROVE  Follows(w, v) /\ v.session = w.session /\ v.library = w.library
<1>. DEFINE base == IF w.songs = <<>> THEN w.library.order ELSE w.songs
            orders == PlayingOrders(base, w.session.shuffle)
<1>1. /\ w.queue \in QueueType /\ w.library \in ShelfType /\ w.songs \in Seq(TrackIds)
      /\ w.session \in SessionType /\ w.session.shuffle \in BOOLEAN
  BY DEF AppType, SessionType
<1>2. base \in Seq(TrackIds)
  BY <1>1 DEF ShelfType
<1>3. PICK order \in orders :
        v = [w EXCEPT !.queue = [base |-> base, active |-> order,
                                 index |-> PositionOf(order, id)]]
  BY <1>1 DEF QueuePrepared, Reordered, AppType, QueueType
<1>. DEFINE q == [base |-> base, active |-> order, index |-> PositionOf(order, id)]
<1>4. order \in Shuffles(base) /\ order \in Seq(TrackIds)
  BY <1>1, <1>2, <1>3, OrderIsAShuffle, ShuffleIsASequence
<1>5. q \in QueueType /\ QueueOk(q)
  BY <1>2, <1>4, PositionInOrder DEF QueueType, QueueOk, InQueue
<1>6. /\ v \in AppType /\ v.queue = q /\ v.session = w.session
      /\ v.backend = w.backend /\ v.lookup = w.lookup /\ v.library = w.library
  BY <1>1, <1>3, <1>5 DEF AppType
<1>. QED BY <1>5, <1>6 DEF Follows, Sound, LyricsKept

-----------------------------------------------------------------------------
(* Pausing, resuming, seeking, stopping. *)

LEMMA FollowsItself == ASSUME NEW w, Sound(w) PROVE Follows(w, w)
BY DEF Follows, LyricsKept

LEMMA FollowsOn ==
    ASSUME NEW u, NEW v, NEW w, Follows(u, v), Follows(v, w)
    PROVE  Follows(u, w)
BY DEF Follows, LyricsKept

LEMMA PauseAudioFollows ==
    ASSUME NEW w, Sound(w)
    PROVE  Follows(w, PauseAudio(w))
<1>1. CASE w.session.status = "Playing"
  <2>. DEFINE s == [w.session EXCEPT !.status = "Paused"]
              b == PausedBackend(w.backend)
              v == [w EXCEPT !.session.status = "Paused", !.backend = PausedBackend(@)]
  <2>1. /\ w \in AppType /\ w.session \in SessionType /\ w.backend \in BackendType
        /\ QueueOk(w.queue) /\ RepeatOk(w.session) /\ AudioOk(w.session, w.backend)
    BY DEF Sound, AppType
  <2>2. s \in SessionType /\ RepeatOk(s)
    BY <2>1 DEF SessionType, Statuses, RepeatOk
  <2>3. b \in BackendType
    BY <2>1 DEF PausedBackend, BackendType, BackendStates
  <2>4. AudioOk(s, b)
    BY <1>1, <2>1 DEF AudioOk, SessionType
  <2>5. PauseAudio(w) = v
    BY <1>1 DEF PauseAudio
  <2>6. /\ v \in AppType /\ v.queue = w.queue /\ v.session = s /\ v.backend = b
        /\ v.lookup = w.lookup
    BY <2>1, <2>2, <2>3 DEF AppType
  <2>7. s.lyrics = w.session.lyrics /\ s.current = w.session.current
    BY <2>1 DEF SessionType
  <2>. HIDE DEF s, b, v
  <2>. QED BY <2>1, <2>2, <2>4, <2>5, <2>6, <2>7 DEF Follows, Sound, LyricsKept
<1>2. CASE w.session.status # "Playing"
  BY <1>2, FollowsItself DEF PauseAudio
<1>. QED BY <1>1, <1>2

LEMMA ResumeAudioFollows ==
    ASSUME NEW w, Sound(w), NEW v \in ResumeAudio(w)
    PROVE  Follows(w, v)
<1>1. CASE w.session.status = "Paused" /\ w.session.audioActive
  <2>1. /\ w \in AppType /\ w.session \in SessionType /\ w.backend \in BackendType
        /\ QueueOk(w.queue) /\ RepeatOk(w.session)
    BY DEF Sound, AppType
  <2>2. PICK b \in ResumedBackends(w.backend) : v = FollowBackend([w EXCEPT !.backend = b])
    BY <1>1 DEF ResumeAudio
  <2>3. b \in BackendType
    BY <2>1 DEF ResumedBackends, BackendType, BackendStates
  <2>. DEFINE u == [w EXCEPT !.backend = b]
  <2>4. /\ u \in AppType /\ u.session = w.session /\ u.queue = w.queue /\ u.backend = b
        /\ u.lookup = w.lookup
    BY <2>1, <2>3 DEF AppType
  <2>. HIDE DEF u
  <2>5. CASE b.state \in {"Starting", "Playing"}
    <3>. DEFINE s == [u.session EXCEPT !.status = "Playing"]
    <3>1. v = [u EXCEPT !.session.status = "Playing"]
      BY <2>2, <2>4, <2>5 DEF FollowBackend, u
    <3>2. s \in SessionType /\ RepeatOk(s) /\ AudioOk(s, b)
          /\ s.lyrics = w.session.lyrics /\ s.current = w.session.current
      BY <1>1, <2>1, <2>4 DEF SessionType, Statuses, RepeatOk, AudioOk
    <3>3. /\ v \in AppType /\ v.session = s /\ v.queue = w.queue /\ v.backend = b
          /\ v.lookup = w.lookup
      BY <2>4, <3>1, <3>2 DEF AppType
    <3>. HIDE DEF s
    <3>. QED BY <2>1, <3>2, <3>3 DEF Follows, Sound, LyricsKept
  <2>6. CASE b.state = "Paused"
    <3>1. v = u
      BY <2>2, <2>4, <2>6 DEF FollowBackend, u
    <3>2. AudioOk(w.session, b)
      BY <1>1 DEF AudioOk
    <3>. QED BY <2>1, <2>4, <3>1, <3>2 DEF Follows, Sound, LyricsKept
  <2>7. CASE b.state \notin {"Starting", "Playing", "Paused"}
    <3>. DEFINE s == [u.session EXCEPT !.audioActive = FALSE]
    <3>1. v = [u EXCEPT !.session.audioActive = FALSE]
      BY <2>2, <2>4, <2>7 DEF FollowBackend, u
    <3>2. s \in SessionType /\ RepeatOk(s) /\ AudioOk(s, b)
          /\ s.lyrics = w.session.lyrics /\ s.current = w.session.current
      BY <1>1, <2>1, <2>3, <2>4, <2>7
         DEF SessionType, Statuses, RepeatOk, AudioOk, Quiet, BackendType, BackendStates
    <3>3. /\ v \in AppType /\ v.session = s /\ v.queue = w.queue /\ v.backend = b
          /\ v.lookup = w.lookup
      BY <2>4, <3>1, <3>2 DEF AppType
    <3>. HIDE DEF s
    <3>. QED BY <2>1, <3>2, <3>3 DEF Follows, Sound, LyricsKept
  <2>. QED BY <2>5, <2>6, <2>7
<1>2. CASE ~(w.session.status = "Paused" /\ w.session.audioActive)
  BY <1>2, FollowsItself DEF ResumeAudio
<1>. QED BY <1>1, <1>2

LEMMA ResumedFollows ==
    ASSUME NEW w, Sound(w), NEW o \in Resumed(w)
    PROVE  Follows(w, o.app)
BY ResumeAudioFollows DEF Resumed

LEMMA SeekToFollows ==
    ASSUME NEW w, Sound(w), NEW at \in Nat, NEW o \in SeekTo(w, at)
    PROVE  Follows(w, o.app)
<1>. DEFINE id == w.session.current
            b == [w EXCEPT !.session = [ResetFinishPending(@) EXCEPT !.elapsed = at]]
            s == [ResetFinishPending(w.session) EXCEPT !.elapsed = at]
            medium == w.library.medium[id]
<1>1. CASE ~Known(w, id) \/ IsRemote(w, id)
  BY <1>1, FollowsItself DEF SeekTo, Refused
<1>2. CASE ~(~Known(w, id) \/ IsRemote(w, id))
  <2>1. /\ w \in AppType /\ w.session \in SessionType /\ w.library \in ShelfType
        /\ QueueOk(w.queue) /\ RepeatOk(w.session)
    BY DEF Sound, AppType
  <2>2. medium \in MediumOrNone
    BY <1>2, <2>1 DEF Known, ShelfType
  <2>3. /\ s \in SessionType /\ RepeatOk(s)
        /\ s.lyrics = w.session.lyrics /\ s.current = w.session.current
    BY <2>1 DEF SessionType, ResetFinishPending, RepeatOk
  <2>4. /\ b \in AppType /\ b.session = s /\ b.queue = w.queue /\ b.lookup = w.lookup
    BY <2>1, <2>3 DEF AppType
  <2>5. PICK v \in Launched(b, medium, at) :
          o = IF v.session.audioActive
              THEN Done([v EXCEPT !.session.status = "Playing"])
              ELSE Refused([v EXCEPT !.session.status = "Paused"])
    BY <1>2 DEF SeekTo
  <2>. HIDE DEF b, s, medium
  <2>6. Begun(b)
    BY <2>1, <2>3, <2>4 DEF Begun
  <2>7. /\ v \in AppType /\ v.lookup = b.lookup
        /\ v.session = [b.session EXCEPT !.audioActive = v.session.audioActive]
    BY <2>2, <2>4, <2>5, LaunchedOutcomes
  <2>8. v.session \in SessionType /\ v.session.lyrics = w.session.lyrics
        /\ v.session.current = w.session.current /\ v.lookup = w.lookup
    BY <2>3, <2>4, <2>7 DEF SessionType, AppType
  <2>9. ASSUME NEW status \in Statuses
        PROVE  LyricsKept(w, [v EXCEPT !.session.status = status])
    BY <2>7, <2>8 DEF LyricsKept, AppType, SessionType
  <2>10. /\ LyricsKept(w, [v EXCEPT !.session.status = "Playing"])
         /\ LyricsKept(w, [v EXCEPT !.session.status = "Paused"])
    BY <2>9 DEF Statuses
  <2>11. /\ v.session.audioActive => Sound([v EXCEPT !.session.status = "Playing"])
         /\ ~v.session.audioActive => Sound([v EXCEPT !.session.status = "Paused"])
    BY <2>2, <2>5, <2>6, LaunchedSound
  <2>. QED BY <2>5, <2>10, <2>11 DEF Follows, Done, Refused
<1>. QED BY <1>1, <1>2

LEMMA StopAudioFollows ==
    ASSUME NEW w, Sound(w)
    PROVE  Follows(w, StopAudio(w))
<1>. DEFINE s == [ResetFinishPending(w.session) EXCEPT
                    !.status = "Paused", !.audioActive = FALSE, !.elapsed = 0]
            v == StopAudio(w)
<1>1. /\ w \in AppType /\ w.session \in SessionType
      /\ QueueOk(w.queue) /\ RepeatOk(w.session)
  BY DEF Sound, AppType
<1>2. /\ s \in SessionType /\ RepeatOk(s) /\ AudioOk(s, SilentBackend)
      /\ s.lyrics = w.session.lyrics /\ s.current = w.session.current
  BY <1>1 DEF SessionType, ResetFinishPending, RepeatOk, AudioOk, SilentBackend, Quiet, Statuses
<1>3. SilentBackend \in BackendType
  BY DEF SilentBackend, BackendType, BackendStates, MediumOrNone
<1>4. /\ v \in AppType /\ v.session = s /\ v.queue = w.queue /\ v.backend = SilentBackend
      /\ v.lookup = w.lookup
  BY <1>1, <1>2, <1>3 DEF StopAudio, AppType
<1>. HIDE DEF s, v
<1>5. Follows(w, v)
  BY <1>1, <1>2, <1>4 DEF Follows, Sound, LyricsKept
<1>. QED BY <1>5 DEF v

-----------------------------------------------------------------------------
(* Starting a track of the library, from whatever source. *)

LEMMA IndexIsInt == ASSUME NEW w, w \in AppType PROVE w.queue.index \in Int
BY DEF AppType, QueueType, NoIndex

LEMMA StartLocalTrackFollows ==
    ASSUME NEW w, Sound(w), NEW id, NEW o \in StartLocalTrack(w, id)
    PROVE  Follows(w, o.app)
<1>1. CASE o \in {Done(w)}
  BY <1>1, FollowsItself DEF Done
<1>2. CASE o \in Resumed(w)
  BY <1>2, ResumedFollows
<1>3. CASE \E v \in QueuePrepared(w, id) : o \in PlayQueueIndex(v, v.queue.index)
  <2>1. PICK v \in QueuePrepared(w, id) : o \in PlayQueueIndex(v, v.queue.index)
    BY <1>3
  <2>2. Follows(w, v)
    BY QueuePreparedFollows DEF Sound
  <2>3. Sound(v) /\ v.queue.index \in Int
    BY <2>2, IndexIsInt DEF Follows, Sound
  <2>4. Follows(v, o.app)
    BY <2>1, <2>3, PlayQueueIndexFollows
  <2>. QED BY <2>2, <2>4, FollowsOn
<1>. QED BY <1>1, <1>2, <1>3 DEF StartLocalTrack

LEMMA SongsFollow ==
    ASSUME NEW w, Sound(w), NEW list \in Seq(TrackIds),
           NEW v, v = [w EXCEPT !.songs = list]
    PROVE  Follows(w, v) /\ v.library = w.library /\ v.session = w.session
                         /\ v.backend = w.backend
<1>1. w \in AppType
  BY DEF Sound
<1>2. v \in AppType /\ v.queue = w.queue /\ v.session = w.session
      /\ v.backend = w.backend /\ v.lookup = w.lookup /\ v.library = w.library
  BY <1>1 DEF AppType
<1>. QED BY <1>2 DEF Follows, Sound, LyricsKept

LEMMA ResolveAndStartFollows ==
    ASSUME NEW w, Sound(w), NEW id, Known(w, id), NEW o \in ResolveAndStart(w, id)
    PROVE  Follows(w, o.app)
<1>1. CASE o = Refused(w)
  BY <1>1, FollowsItself DEF Refused
<1>2. CASE o \in StartRemoteLibraryTrack([w EXCEPT !.songs = w.library.order], id)
  <2>. DEFINE v == [w EXCEPT !.songs = w.library.order]
  <2>1. w.library.order \in Seq(TrackIds)
    BY DEF Sound, AppType, ShelfType
  <2>2. Follows(w, v) /\ v.library = w.library
    BY <2>1, SongsFollow
  <2>. HIDE DEF v
  <2>3. Sound(v) /\ Known(v, id) /\ id \in TrackIds
    BY <2>2 DEF Follows, Known
  <2>4. o \in StartRemoteLibraryTrack(v, id)
    BY <1>2 DEF v
  <2>5. Follows(v, o.app)
    BY <2>3, <2>4, StartRemoteLibraryTrackFollows
  <2>. QED BY <2>2, <2>5, FollowsOn
<1>. QED BY <1>1, <1>2 DEF ResolveAndStart

LEMMA StartTrackInFollows ==
    ASSUME NEW w, Sound(w), NEW id, NEW o \in StartTrackIn(w, id)
    PROVE  Follows(w, o.app)
<1>1. CASE ~Known(w, id)
  BY <1>1, FollowsItself DEF StartTrackIn, Refused
<1>2. CASE Known(w, id) /\ IsRemote(w, id)
  BY <1>2, ResolveAndStartFollows DEF StartTrackIn
<1>3. CASE Known(w, id) /\ ~IsRemote(w, id)
  BY <1>3, StartLocalTrackFollows DEF StartTrackIn
<1>. QED BY <1>1, <1>2, <1>3

LEMMA PlayQueueIndexAnySourceFollows ==
    ASSUME NEW w, Sound(w), NEW i \in Int, NEW o \in PlayQueueIndexAnySource(w, i)
    PROVE  Follows(w, o.app)
<1>. DEFINE id == w.queue.active[i + 1]
            remote == InQueue(w.queue, i) /\ Known(w, id) /\ IsRemote(w, id)
            v == [w EXCEPT !.queue.index = i]
            q == [w.queue EXCEPT !.index = i]
<1>1. CASE remote
  <2>1. w \in AppType /\ w.queue \in QueueType /\ QueueOk(w.queue)
    BY DEF Sound, AppType
  <2>2. q \in QueueType /\ QueueOk(q)
    BY <1>1, <2>1 DEF QueueType, QueueOk, InQueue, NoIndex
  <2>3. v \in AppType /\ v.queue = q /\ v.session = w.session /\ v.backend = w.backend
        /\ v.lookup = w.lookup /\ v.library = w.library
    BY <2>1, <2>2 DEF AppType
  <2>4. o \in ResolveAndStart(v, id)
    BY <1>1 DEF PlayQueueIndexAnySource
  <2>. HIDE DEF v, q
  <2>5. Sound(v) /\ Follows(w, v)
    BY <2>2, <2>3 DEF Sound, Follows, LyricsKept
  <2>6. Known(v, id)
    BY <1>1, <2>3 DEF Known
  <2>7. Follows(v, o.app)
    BY <2>4, <2>5, <2>6, ResolveAndStartFollows
  <2>. QED BY <2>5, <2>7, FollowsOn
<1>2. CASE ~remote
  <2>1. o \in PlayQueueIndex(w, i)
    BY <1>2 DEF PlayQueueIndexAnySource
  <2>. QED BY <2>1, PlayQueueIndexFollows
<1>. QED BY <1>1, <1>2

LEMMA ResumePlaybackInFollows ==
    ASSUME NEW w, Sound(w), NEW o \in ResumePlaybackIn(w)
    PROVE  Follows(w, o.app)
<1>1. w.session.elapsed \in Nat
  BY DEF Sound, AppType, SessionType
<1>2. \/ o \in StartTrackIn(w, w.session.current)
      \/ o \in SeekTo(w, w.session.elapsed)
      \/ o \in Resumed(w)
  BY DEF ResumePlaybackIn
<1>. QED BY <1>1, <1>2, StartTrackInFollows, SeekToFollows, ResumedFollows

LEMMA StartFirstSongFollows ==
    ASSUME NEW w, Sound(w), NEW o \in StartFirstSong(w)
    PROVE  Follows(w, o.app)
<1>1. CASE w.library.order = <<>>
  BY <1>1, FollowsItself DEF StartFirstSong, Refused
<1>2. CASE w.library.order # <<>>
  <2>. DEFINE v == [w EXCEPT !.songs = w.library.order]
              first == w.library.order[1]
  <2>1. w.library.order \in Seq(TrackIds)
    BY DEF Sound, AppType, ShelfType
  <2>2. Follows(w, v) /\ Sound(v)
    BY <2>1, SongsFollow DEF Follows
  <2>3. \/ \E u \in QueuePrepared(v, first) : o = Refused(u)
        \/ o \in StartLocalTrack(v, first)
    BY <1>2 DEF StartFirstSong
  <2>. HIDE DEF v, first
  <2>4. CASE \E u \in QueuePrepared(v, first) : o = Refused(u)
    <3>1. PICK u \in QueuePrepared(v, first) : o = Refused(u)
      BY <2>4
    <3>2. Follows(v, u)
      BY <2>2, QueuePreparedFollows DEF Sound
    <3>. QED BY <2>2, <3>1, <3>2, FollowsOn DEF Refused
  <2>5. CASE o \in StartLocalTrack(v, first)
    BY <2>2, <2>5, StartLocalTrackFollows, FollowsOn
  <2>. QED BY <2>3, <2>4, <2>5
<1>. QED BY <1>1, <1>2

LEMMA PlayFirstAvailableInFollows ==
    ASSUME NEW w, Sound(w), NEW o \in PlayFirstAvailableIn(w)
    PROVE  Follows(w, o.app)
<1>1. CASE w.session.status = "Paused" /\ w.session.current # NoTrack
  <2>1. PICK r \in ResumePlaybackIn(w) :
          o \in (IF r.ok THEN {r} ELSE StartTrackIn(r.app, r.app.session.current))
    BY <1>1 DEF PlayFirstAvailableIn
  <2>2. Follows(w, r.app) /\ Sound(r.app)
    BY <2>1, ResumePlaybackInFollows DEF Follows
  <2>3. CASE o = r
    BY <2>2, <2>3
  <2>4. CASE o \in StartTrackIn(r.app, r.app.session.current)
    BY <2>2, <2>4, StartTrackInFollows, FollowsOn
  <2>. QED BY <2>1, <2>3, <2>4
<1>2. CASE ~(w.session.status = "Paused" /\ w.session.current # NoTrack)
  <2>1. \/ o = [app |-> w, ok |-> w.session.audioActive]
        \/ o \in StartTrackIn(w, w.session.current)
        \/ o \in Resumed(w)
        \/ o \in StartFirstSong(w)
    BY <1>2 DEF PlayFirstAvailableIn
  <2>. QED BY <2>1, FollowsItself, StartTrackInFollows, ResumedFollows,
              StartFirstSongFollows
<1>. QED BY <1>1, <1>2

-----------------------------------------------------------------------------
(* Queue modes and remote items. *)

\* A session that differs in its modes only.
SameItem(s, t) ==
    /\ t \in SessionType /\ RepeatOk(t)
    /\ t.status = s.status /\ t.audioActive = s.audioActive
    /\ t.lyrics = s.lyrics /\ t.current = s.current

LEMMA SameItemFollows ==
    ASSUME NEW w, Sound(w), NEW t, SameItem(w.session, t),
           NEW v, v = [w EXCEPT !.session = t]
    PROVE  Follows(w, v)
<1>1. w \in AppType /\ w.session \in SessionType
  BY DEF Sound, AppType
<1>2. /\ v \in AppType /\ v.queue = w.queue /\ v.session = t
      /\ v.backend = w.backend /\ v.lookup = w.lookup
  BY <1>1 DEF AppType, SameItem
<1>. QED BY <1>2 DEF SameItem, Follows, Sound, LyricsKept, AudioOk

LEMMA RepeatSetsSameItem ==
    ASSUME NEW s \in SessionType, RepeatOk(s), NEW enabled \in BOOLEAN
    PROVE  /\ SameItem(s, RepeatAllSet(s, enabled))
           /\ SameItem(s, RepeatOneSet(s, enabled))
           /\ SameItem(s, [s EXCEPT !.shuffle = enabled])
           /\ SameItem(s, [s EXCEPT !.repeatAll = FALSE, !.repeatOne = FALSE])
<1>1. CASE enabled = TRUE
  <2>1. /\ RepeatAllSet(s, enabled) = [s EXCEPT !.repeatAll = TRUE, !.repeatOne = FALSE]
        /\ RepeatOneSet(s, enabled) = [s EXCEPT !.repeatOne = TRUE, !.repeatAll = FALSE]
    BY <1>1 DEF RepeatAllSet, RepeatOneSet, SessionType
  <2>. QED BY <1>1, <2>1 DEF SameItem, RepeatOk, SessionType
<1>2. CASE enabled = FALSE
  <2>1. /\ RepeatAllSet(s, enabled) = [s EXCEPT !.repeatAll = FALSE]
        /\ RepeatOneSet(s, enabled) = [s EXCEPT !.repeatOne = FALSE]
    BY <1>2 DEF RepeatAllSet, RepeatOneSet, SessionType
  <2>. QED BY <1>2, <2>1 DEF SameItem, RepeatOk, SessionType
<1>. QED BY <1>1, <1>2

LEMMA ShuffleSetFollows ==
    ASSUME NEW w, Sound(w), NEW enabled \in BOOLEAN, NEW v \in ShuffleSet(w, enabled)
    PROVE  Follows(w, v)
<1>1. CASE w.session.shuffle = enabled
  BY <1>1, FollowsItself DEF ShuffleSet
<1>2. CASE w.session.shuffle # enabled
  <2>. DEFINE t == [w.session EXCEPT !.shuffle = enabled]
              u == [w EXCEPT !.session.shuffle = enabled]
  <2>1. w \in AppType /\ w.session \in SessionType /\ RepeatOk(w.session)
    BY DEF Sound, AppType
  <2>2. SameItem(w.session, t)
    BY <2>1, RepeatSetsSameItem
  <2>3. u = [w EXCEPT !.session = t]
    BY <2>1 DEF AppType
  <2>4. v \in Reordered(u, w.session.current)
    BY <1>2 DEF ShuffleSet
  <2>. HIDE DEF t, u
  <2>5. Follows(w, u) /\ Sound(u)
    BY <2>2, <2>3, SameItemFollows DEF Follows
  <2>6. Follows(u, v)
    BY <2>4, <2>5, ReorderedFollows
  <2>. QED BY <2>5, <2>6, FollowsOn
<1>. QED BY <1>1, <1>2

LEMMA ClearQueueFollows ==
    ASSUME NEW w, Sound(w)
    PROVE  Follows(w, [w EXCEPT !.queue = EmptyQueue])
<1>. DEFINE v == [w EXCEPT !.queue = EmptyQueue]
<1>1. w \in AppType
  BY DEF Sound
<1>2. /\ v \in AppType /\ v.queue = EmptyQueue /\ v.session = w.session
      /\ v.backend = w.backend /\ v.lookup = w.lookup
  BY <1>1, EmptyShuffles DEF AppType
<1>. HIDE DEF v
<1>3. Follows(w, v)
  BY <1>2, EmptyShuffles DEF Follows, Sound, LyricsKept
<1>. QED BY <1>3 DEF v

LEMMA InsertionIsASequence ==
    ASSUME NEW T, NEW s \in Seq(T), NEW e \in T, NEW i \in 1..(Len(s) + 1)
    PROVE  InsertAt(s, i, e) \in Seq(T)
<1>1. SubSeq(s, 1, i - 1) \in Seq(T)
  OBVIOUS
<1>2. SubSeq(s, i, Len(s)) \in Seq(T)
  OBVIOUS
<1>3. <<e>> \in Seq(T)
  OBVIOUS
<1>. QED BY <1>1, <1>2, <1>3 DEF InsertAt

LEMMA MergedFollows ==
    ASSUME NEW w, Sound(w), NEW medium \in Media,
           IdsOf(w, medium) # {} \/ NextId(w) \in TrackIds,
           NEW v \in Merged(w, medium)
    PROVE  Follows(w, v)
<1>1. /\ w \in AppType /\ w.library \in ShelfType /\ w.library.order \in Seq(TrackIds)
      /\ w.library.medium \in [TrackIds -> MediumOrNone]
  BY DEF Sound, AppType, ShelfType
<1>2. CASE IdsOf(w, medium) # {}
  BY <1>1, <1>2, SongsFollow DEF Merged
<1>3. CASE IdsOf(w, medium) = {}
  <2>. DEFINE id == NextId(w)
  <2>1. PICK order \in Insertions(w.library.order, id) :
          v = [w EXCEPT !.library = [medium |-> [@.medium EXCEPT ![id] = medium],
                                     order |-> order],
                        !.songs = order]
    BY <1>3 DEF Merged
  <2>. DEFINE shelf == [medium |-> [w.library.medium EXCEPT ![id] = medium],
                        order |-> order]
  <2>2. id \in TrackIds
    BY <1>3
  <2>3. order \in Seq(TrackIds)
    BY <1>1, <2>1, <2>2, InsertionIsASequence DEF Insertions
  <2>4. [w.library.medium EXCEPT ![id] = medium] \in [TrackIds -> MediumOrNone]
    <3>. HIDE DEF id
    <3>. QED BY <1>1, <2>2 DEF MediumOrNone
  <2>5. shelf \in ShelfType
    BY <2>3, <2>4 DEF ShelfType
  <2>6. v = [w EXCEPT !.library = shelf, !.songs = order]
    BY <1>1, <2>1
  <2>. HIDE DEF shelf
  <2>7. /\ v \in AppType /\ v.queue = w.queue /\ v.session = w.session
        /\ v.backend = w.backend /\ v.lookup = w.lookup
    BY <1>1, <2>3, <2>5, <2>6 DEF AppType
  <2>. QED BY <2>7 DEF Follows, Sound, LyricsKept
<1>. QED BY <1>2, <1>3

-----------------------------------------------------------------------------
(* The tick. *)

LEMMA ApplyPendingSound ==
    ASSUME NEW w, Sound(w)
    PROVE  LET v == ApplyPending(w)
           IN  /\ Sound(v) /\ v.library = w.library /\ v.queue = w.queue
               /\ v.backend = w.backend
               /\ v.session.current = w.session.current
               /\ v.session.stream = w.session.stream
               /\ v.session.status = w.session.status
               /\ v.session.audioActive = w.session.audioActive
               /\ LyricsKept(w, v) \/ Answered(w, v)
<1>. DEFINE reached == {a \in w.lookup.done : Reaches(w, a)}
            register == [w.lookup EXCEPT !.done = {}]
            v == [w EXCEPT !.lookup.done = {}]
<1>1. /\ w \in AppType /\ w.session \in SessionType /\ w.lookup \in RegisterType
  BY DEF Sound, AppType
<1>2. register \in RegisterType
  BY <1>1 DEF RegisterType
<1>3. /\ v = [w EXCEPT !.lookup = register]
      /\ register.generation = w.lookup.generation
  BY <1>1 DEF AppType, RegisterType
<1>4. /\ v \in AppType /\ v.queue = w.queue /\ v.session = w.session
      /\ v.backend = w.backend /\ v.lookup = register /\ v.library = w.library
  <2>. HIDE DEF v, register
  <2>. QED BY <1>1, <1>2, <1>3 DEF AppType
<1>5. CASE reached = {}
  <2>1. ApplyPending(w) = v
    BY <1>5 DEF ApplyPending
  <2>. HIDE DEF v, register, reached
  <2>. QED BY <1>3, <1>4, <2>1 DEF Sound, LyricsKept
<1>6. CASE reached # {}
  <2>. DEFINE a == CHOOSE x \in reached : TRUE
              t == [w.session EXCEPT !.lyricsPending = FALSE, !.lyrics = a]
              u == [w EXCEPT !.lookup = register, !.session = t]
  <2>1. a \in w.lookup.done /\ Reaches(w, a)
    BY <1>6
  <2>2. a \in LookupType
    BY <1>1, <2>1 DEF RegisterType
  <2>. HIDE DEF a
  <2>3. t \in SessionType /\ t.lyrics = a
        /\ t.current = w.session.current /\ t.stream = w.session.stream
        /\ t.status = w.session.status /\ t.audioActive = w.session.audioActive
    BY <1>1, <2>2 DEF SessionType
  <2>4. t.repeatAll = w.session.repeatAll /\ t.repeatOne = w.session.repeatOne
    BY <1>1 DEF SessionType
  <2>5. ApplyPending(w) = [v EXCEPT !.session.lyricsPending = FALSE, !.session.lyrics = a]
    BY <1>6 DEF ApplyPending, a
  <2>6. [v EXCEPT !.session.lyricsPending = FALSE, !.session.lyrics = a]
        = [v EXCEPT !.session = t]
    <3>. HIDE DEF v, register, reached
    <3>. QED BY <1>1, <1>4 DEF AppType
  <2>7. ApplyPending(w) = [v EXCEPT !.session = t]
    BY <2>5, <2>6
  <2>. HIDE DEF t, u, v, register, reached
  <2>8. LET x == ApplyPending(w)
        IN  /\ x \in AppType /\ x.queue = w.queue /\ x.session = t
            /\ x.backend = w.backend /\ x.lookup = register /\ x.library = w.library
    BY <1>4, <2>3, <2>7 DEF AppType
  <2>9. RepeatOk(t) /\ AudioOk(t, w.backend)
    BY <2>3, <2>4 DEF Sound, RepeatOk, AudioOk
  <2>. QED BY <1>3, <2>1, <2>3, <2>8, <2>9 DEF Sound, Answered, Reaches, Fits
<1>. QED BY <1>5, <1>6

LEMMA ApplyPendingKeeps ==
    ASSUME NEW w, Sound(w)
    PROVE  /\ ApplyPending(w).session.repeatAll = w.session.repeatAll
           /\ ApplyPending(w).session.repeatOne = w.session.repeatOne
           /\ ApplyPending(w).lookup.generation = w.lookup.generation
<1>1. w \in AppType /\ w.session \in SessionType /\ w.lookup \in RegisterType
  BY DEF Sound, AppType
<1>2. ASSUME NEW a
      PROVE  LET x == [w EXCEPT !.lookup.done = {}, !.session.lyricsPending = FALSE,
                                !.session.lyrics = a]
             IN  /\ x.session.repeatAll = w.session.repeatAll
                 /\ x.session.repeatOne = w.session.repeatOne
                 /\ x.lookup.generation = w.lookup.generation
  BY <1>1 DEF AppType, SessionType, RegisterType
<1>. QED BY <1>1, <1>2 DEF ApplyPending, AppType, SessionType, RegisterType

LEMMA DurationIsNat ==
    ASSUME NEW w \in AppType PROVE TrackDuration(w) \in Nat
<1>1. /\ w.session \in SessionType /\ w.session.stream \in MediumOrNone
      /\ w.library \in ShelfType
  BY DEF AppType, SessionType
<1>2. Known(w, w.session.current) => w.library.medium[w.session.current] \in MediumOrNone
  BY <1>1 DEF Known, ShelfType
<1>. QED BY <1>1, <1>2, PlaybackAssumption, PolicyAssumption DEF TrackDuration

\* A session that differs in its clock and its pending finish only.
LEMMA ClockFacts ==
    ASSUME NEW s \in SessionType, RepeatOk(s), NEW duration \in Nat,
           NEW position \in Nat \cup {NoPosition}, NEW delta \in Nat
    PROVE  /\ SameItem(s, ResetFinishPending(s))
           /\ SameItem(s, AcceptedFinish(s, duration, position))
           /\ SameItem(s, PendingFinish(s, duration, position, delta))
           /\ SameItem(s, ClockAdvanced(s, position, delta))
<1>1. s.elapsed \in Nat /\ s.pendingFor \in Nat
  BY DEF SessionType
<1>2. Observed(s, duration, position) \in Nat
  BY <1>1 DEF Observed, Least, NoPosition
<1>3. PendingAfter(s, delta) \in Nat
  BY <1>1, PolicyAssumption DEF PendingAfter, Least
<1>4. SameItem(s, ResetFinishPending(s))
  BY DEF ResetFinishPending, SameItem, SessionType, RepeatOk
<1>5. SameItem(s, AcceptedFinish(s, duration, position))
  BY <1>2 DEF AcceptedFinish, SameItem, SessionType, RepeatOk
<1>6. SameItem(s, PendingFinish(s, duration, position, delta))
  <2>. DEFINE e == IF position # NoPosition THEN Observed(s, duration, position)
                   ELSE IF s.status = "Playing"
                        THEN Least(duration, Observed(s, duration, position) + delta)
                        ELSE s.elapsed
              pending == PendingAfter(s, delta)
  <2>1. e \in Nat
    BY <1>1, <1>2 DEF Least
  <2>2. PendingFinish(s, duration, position, delta) =
          [s EXCEPT !.finishPending = TRUE, !.pendingFor = pending, !.elapsed = e]
    BY DEF PendingFinish
  <2>3. pending \in Nat
    BY <1>3
  <2>. HIDE DEF e, pending
  <2>. QED BY <2>1, <2>2, <2>3 DEF SameItem, SessionType, RepeatOk
<1>7. SameItem(s, ClockAdvanced(s, position, delta))
  <2>1. CASE s.status # "Playing"
    BY <2>1 DEF ClockAdvanced, SameItem
  <2>2. CASE s.status = "Playing"
    <3>. DEFINE e == Saturated(IF position = NoPosition THEN s.elapsed + delta ELSE position)
    <3>1. e \in Nat
      BY <1>1, PolicyAssumption DEF Saturated, Least, NoPosition
    <3>2. ClockAdvanced(s, position, delta) = [s EXCEPT !.elapsed = e]
      BY <2>2 DEF ClockAdvanced
    <3>. HIDE DEF e
    <3>. QED BY <3>1, <3>2 DEF SameItem, SessionType, RepeatOk
  <2>. QED BY <2>1, <2>2
<1>. QED BY <1>4, <1>5, <1>6, <1>7

LEMMA SameItemTransitive ==
    ASSUME NEW r, NEW s, NEW t, SameItem(r, s), SameItem(s, t)
    PROVE  SameItem(r, t)
BY DEF SameItem

\* A session that gives its audio up while the backend is quiet.
LEMMA SilencedFollows ==
    ASSUME NEW w, w \in AppType, QueueOk(w.queue), NEW t \in SessionType, RepeatOk(t),
           t.status = "Paused", t.lyrics = w.session.lyrics,
           t.current = w.session.current,
           NEW b \in BackendType, b.state \in Quiet,
           NEW v, v = [w EXCEPT !.session = t, !.backend = b]
    PROVE  Follows(w, v)
<1>1. /\ v \in AppType /\ v.queue = w.queue /\ v.session = t /\ v.backend = b
      /\ v.lookup = w.lookup
  BY DEF AppType
<1>. QED BY <1>1 DEF Follows, Sound, LyricsKept, AudioOk

LEMMA EndedFollows ==
    ASSUME NEW w, Sound(w), w.backend.state \in Quiet, NEW duration \in Nat,
           NEW hasTrack \in BOOLEAN
    PROVE  Follows(w, Ended(w, duration, hasTrack))
<1>. DEFINE e == IF hasTrack \/ duration > 0 THEN Least(w.session.elapsed, duration)
                 ELSE w.session.elapsed
            t == [w.session EXCEPT !.audioActive = FALSE, !.status = "Paused",
                                   !.elapsed = e]
<1>1. /\ w \in AppType /\ QueueOk(w.queue) /\ RepeatOk(w.session)
      /\ w.session \in SessionType /\ w.backend \in BackendType
      /\ w.session.elapsed \in Nat
  BY DEF Sound, AppType, SessionType
<1>2. e \in Nat
  BY <1>1 DEF Least
<1>3. Ended(w, duration, hasTrack) =
        [w EXCEPT !.session.audioActive = FALSE, !.session.status = "Paused",
                  !.session.elapsed = e]
  BY DEF Ended
<1>4. Ended(w, duration, hasTrack) = [w EXCEPT !.session = t, !.backend = w.backend]
  <2>. HIDE DEF e
  <2>. QED BY <1>1, <1>3 DEF AppType, SessionType
<1>5. /\ t \in SessionType /\ RepeatOk(t) /\ t.status = "Paused"
      /\ t.lyrics = w.session.lyrics /\ t.current = w.session.current
  <2>. HIDE DEF e
  <2>. QED BY <1>1, <1>2 DEF SessionType, Statuses, RepeatOk
<1>. HIDE DEF t
<1>. QED BY <1>1, <1>4, <1>5, SilencedFollows

LEMMA AdvanceAfterFinishFollows ==
    ASSUME NEW w, Sound(w), NEW o \in AdvanceAfterFinish(w)
    PROVE  /\ Follows(w, o.app)
           /\ ~o.ok => o.app.backend.state \in Quiet \cup {w.backend.state}
<1>. DEFINE next == NextIndexAfterFinish(w.queue, w.session)
<1>1. w.queue \in QueueType
  BY DEF Sound, AppType
<1>2. next \in Int
  BY <1>1 DEF NextIndexAfterFinish, QueueType, NoIndex, LastIndex, Clamped, Least
<1>3. CASE next = NoIndex
  BY <1>3, FollowsItself DEF AdvanceAfterFinish, Refused
<1>4. CASE next # NoIndex
  <2>1. o \in PlayQueueIndex(w, next)
    BY <1>4 DEF AdvanceAfterFinish
  <2>. HIDE DEF next
  <2>. QED BY <1>2, <2>1, PlayQueueIndexFollows
<1>. QED BY <1>3, <1>4

LEMMA TickFinishedFollows ==
    ASSUME NEW w, Sound(w), w.backend.state = "Finished", NEW delta \in Nat,
           NEW v \in TickFinished(w, delta)
    PROVE  Follows(w, v)
<1>. DEFINE s == w.session
            hasTrack == Known(w, s.current)
            duration == TrackDuration(w)
            position == w.backend.position
            accepted == FinishAccepted(s, duration, position)
            rejected == FinishRejected(s, duration, position, delta)
            waiting == PendingFinish(s, duration, position, delta)
<1>1. /\ w \in AppType /\ s \in SessionType /\ w.backend \in BackendType
      /\ QueueOk(w.queue) /\ RepeatOk(s)
  BY DEF Sound, AppType
<1>2. duration \in Nat /\ position \in Nat \cup {NoPosition} /\ hasTrack \in BOOLEAN
  BY <1>1, DurationIsNat DEF BackendType, Known
<1>3. CASE accepted
  <2>. DEFINE t == ResetFinishPending(AcceptedFinish(s, duration, position))
              u == [w EXCEPT !.session = t]
  <2>1. SameItem(s, AcceptedFinish(s, duration, position))
    BY <1>1, <1>2, ClockFacts
  <2>2. SameItem(AcceptedFinish(s, duration, position), t)
    BY <2>1, <1>2, ClockFacts DEF SameItem
  <2>3. SameItem(s, t)
    BY <2>1, <2>2, SameItemTransitive
  <2>4. PICK o \in AdvanceAfterFinish(u) :
          v = IF o.ok THEN o.app ELSE Ended(o.app, duration, hasTrack)
    BY <1>3 DEF TickFinished
  <2>. HIDE DEF t
  <2>5. u.backend = w.backend
    BY <1>1 DEF AppType
  <2>. HIDE DEF u
  <2>6. Follows(w, u) /\ Sound(u)
    BY <2>3, SameItemFollows DEF Follows, u
  <2>7. /\ Follows(u, o.app) /\ Sound(o.app)
        /\ ~o.ok => o.app.backend.state \in Quiet
    BY <2>4, <2>5, <2>6, AdvanceAfterFinishFollows DEF Follows, Quiet
  <2>8. CASE o.ok
    BY <2>4, <2>6, <2>7, <2>8, FollowsOn
  <2>9. CASE ~o.ok
    <3>1. v = Ended(o.app, duration, hasTrack)
      BY <2>4, <2>9
    <3>2. Follows(o.app, v)
      <4>. HIDE DEF duration, hasTrack
      <4>. QED BY <1>2, <2>7, <2>9, <3>1, EndedFollows
    <3>. QED BY <2>6, <2>7, <3>2, FollowsOn
  <2>. QED BY <2>8, <2>9
<1>4. CASE ~accepted /\ rejected
  <2>. DEFINE r == ResetFinishPending(waiting)
              t == [r EXCEPT !.audioActive = FALSE, !.status = "Paused"]
  <2>1. SameItem(s, waiting)
    BY <1>1, <1>2, ClockFacts
  <2>2. SameItem(waiting, r)
    BY <2>1, <1>2, ClockFacts DEF SameItem
  <2>3. SameItem(s, r)
    BY <2>1, <2>2, SameItemTransitive
  <2>4. v = [w EXCEPT !.backend = SilentBackend,
                      !.session = [ResetFinishPending(waiting)
                                   EXCEPT !.audioActive = FALSE, !.status = "Paused"]]
    BY <1>4 DEF TickFinished
  <2>5. v = [w EXCEPT !.backend = SilentBackend, !.session = t]
    BY <2>4
  <2>. HIDE DEF r
  <2>6. /\ t \in SessionType /\ RepeatOk(t) /\ t.status = "Paused"
        /\ t.lyrics = w.session.lyrics /\ t.current = w.session.current
    BY <2>3 DEF SameItem, SessionType, Statuses, RepeatOk
  <2>7. SilentBackend \in BackendType /\ SilentBackend.state \in Quiet
    BY DEF SilentBackend, BackendType, BackendStates, MediumOrNone, Quiet
  <2>. HIDE DEF t
  <2>8. v = [w EXCEPT !.session = t, !.backend = SilentBackend]
    BY <1>1, <2>5 DEF AppType
  <2>. QED BY <1>1, <2>6, <2>7, <2>8, SilencedFollows
<1>5. CASE ~accepted /\ ~rejected
  <2>1. SameItem(s, waiting)
    BY <1>1, <1>2, ClockFacts
  <2>2. v = [w EXCEPT !.session = waiting]
    BY <1>5 DEF TickFinished
  <2>. HIDE DEF waiting
  <2>. QED BY <2>1, <2>2, SameItemFollows
<1>. QED BY <1>3, <1>4, <1>5

LEMMA TickBackendFollows ==
    ASSUME NEW w, Sound(w), NEW delta \in Nat, NEW v \in TickBackend(w, delta)
    PROVE  Follows(w, v)
<1>1. /\ w \in AppType /\ w.session \in SessionType /\ w.backend \in BackendType
      /\ QueueOk(w.queue) /\ RepeatOk(w.session)
      /\ w.backend.position \in Nat \cup {NoPosition}
  BY DEF Sound, AppType, BackendType
<1>2. CASE v = w
  BY <1>2, FollowsItself
<1>3. CASE v # w /\ w.backend.state = "Finished"
  BY <1>3, TickFinishedFollows DEF TickBackend
<1>4. CASE v # w /\ w.backend.state = "Failed"
  <2>. DEFINE r == ResetFinishPending(w.session)
              t == [r EXCEPT !.audioActive = FALSE, !.status = "Paused"]
  <2>1. v = [w EXCEPT !.session = t]
    BY <1>4 DEF TickBackend
  <2>2. SameItem(w.session, r)
    BY <1>1, ClockFacts
  <2>. HIDE DEF r
  <2>3. /\ t \in SessionType /\ RepeatOk(t) /\ t.status = "Paused"
        /\ t.lyrics = w.session.lyrics /\ t.current = w.session.current
    BY <2>2 DEF SameItem, SessionType, Statuses, RepeatOk
  <2>. HIDE DEF t
  <2>4. v = [w EXCEPT !.session = t, !.backend = w.backend]
    BY <1>1, <2>1 DEF AppType
  <2>. QED BY <1>1, <1>4, <2>3, <2>4, SilencedFollows DEF Quiet
<1>5. CASE v # w /\ w.backend.state = "Playing"
  <2>. DEFINE r == ResetFinishPending(w.session)
              t == ClockAdvanced(r, w.backend.position, delta)
  <2>1. v = [w EXCEPT !.session = t]
    BY <1>5 DEF TickBackend
  <2>2. SameItem(w.session, r)
    BY <1>1, ClockFacts
  <2>3. SameItem(r, t)
    BY <1>1, <2>2, ClockFacts DEF SameItem
  <2>. HIDE DEF r, t
  <2>. QED BY <2>1, <2>2, <2>3, SameItemTransitive, SameItemFollows
<1>6. v # w => w.backend.state \in {"Finished", "Failed", "Playing"}
  BY DEF TickBackend
<1>. QED BY <1>2, <1>3, <1>4, <1>5, <1>6

-----------------------------------------------------------------------------
(* Steps. *)

LEMMA CommitFollows ==
    ASSUME NEW w, Follows(App, w), Commit(w)
    PROVE  Follows(App, App')
<1>1. w \in AppType
  BY DEF Follows, Sound
<1>2. w = [queue |-> w.queue, session |-> w.session, backend |-> w.backend,
           lookup |-> w.lookup, library |-> w.library, songs |-> w.songs]
  BY <1>1 DEF AppType
<1>3. App' = w
  BY <1>2 DEF App, Commit
<1>. QED BY <1>3

LEMMA PerformFollows ==
    ASSUME NEW S, \A o \in S : Follows(App, o.app), Perform(S)
    PROVE  Follows(App, App')
BY CommitFollows DEF Perform

LEMMA TransportFollows ==
    ASSUME Sound(App), Transport
    PROVE  Follows(App, App')
<1>1. CASE Play
  BY <1>1, PlayFirstAvailableInFollows, PerformFollows DEF Play
<1>2. CASE Pause
  BY <1>2, PauseAudioFollows, CommitFollows DEF Pause
<1>3. CASE Resume
  BY <1>3, ResumePlaybackInFollows, PerformFollows DEF Resume
<1>4. CASE TogglePlayPause
  <2>1. CASE session.status = "Playing"
    BY <1>4, <2>1, PauseAudioFollows, CommitFollows DEF TogglePlayPause
  <2>2. CASE session.status = "Paused"
    BY <1>4, <2>2, ResumePlaybackInFollows, PerformFollows DEF TogglePlayPause
  <2>3. CASE session.status \notin {"Playing", "Paused"}
    <3>1. UNCHANGED vars
      BY <1>4, <2>3 DEF TogglePlayPause
    <3>2. App' = App
      BY <3>1 DEF vars, App
    <3>. QED BY <3>2, FollowsItself
  <2>. QED BY <2>1, <2>2, <2>3
<1>5. CASE Stop
  BY <1>5, StopAudioFollows, CommitFollows DEF Stop
<1>6. ASSUME NEW at \in 0..ElapsedCap, Seek(at) PROVE Follows(App, App')
  <2>1. at \in Nat
    BY PolicyAssumption
  <2>. QED BY <1>6, <2>1, SeekToFollows, PerformFollows DEF Seek
<1>7. ASSUME NEW id \in TrackIds, StartTrack(id) PROVE Follows(App, App')
  BY <1>7, StartTrackInFollows, PerformFollows DEF StartTrack
<1>8. ASSUME NEW id \in TrackIds, NEW list \in SongLists, StartTrackWithContext(id, list)
      PROVE  Follows(App, App')
  <2>. DEFINE u == [App EXCEPT !.songs = list]
  <2>1. list \in Seq(TrackIds)
    BY PlaybackAssumption DEF Arrangements
  <2>2. Follows(App, u) /\ Sound(u)
    BY <2>1, SongsFollow DEF Follows
  <2>. DEFINE S == UNION {StartTrackIn(v, id) : v \in QueuePrepared(u, id)}
  <2>3. Perform(S)
    BY <1>8 DEF StartTrackWithContext
  <2>. HIDE DEF u
  <2>4. ASSUME NEW o \in S PROVE Follows(App, o.app)
    <3>1. PICK v \in QueuePrepared(u, id) : o \in StartTrackIn(v, id)
      OBVIOUS
    <3>2. Follows(u, v)
      BY <2>2, QueuePreparedFollows DEF Sound
    <3>3. Follows(v, o.app)
      BY <3>1, <3>2, StartTrackInFollows DEF Follows
    <3>. QED BY <2>2, <3>2, <3>3, FollowsOn
  <2>. HIDE DEF S
  <2>. QED BY <2>3, <2>4, PerformFollows
<1>. QED BY <1>1, <1>2, <1>3, <1>4, <1>5, <1>6, <1>7, <1>8 DEF Transport

LEMMA QueueCommandFollows ==
    ASSUME Sound(App), QueueCommand
    PROVE  Follows(App, App')
<1>1. /\ session \in SessionType /\ RepeatOk(session) /\ App.session = session
      /\ queue \in QueueType
  BY DEF Sound, AppType, App
<1>2. ASSUME NEW t, SameItem(session, t), Commit([App EXCEPT !.session = t])
      PROVE  Follows(App, App')
  <2>1. Follows(App, [App EXCEPT !.session = t])
    BY <1>1, <1>2, SameItemFollows
  <2>. QED BY <1>2, <2>1, CommitFollows
<1>3. ASSUME NEW delta \in {-1, 1}, StepQueue(delta) PROVE Follows(App, App')
  <2>1. SteppedIndex(queue, session, delta) \in Int
    BY <1>1 DEF SteppedIndex, QueueType, NoIndex, LastIndex
  <2>. QED BY <1>3, <2>1, PlayQueueIndexAnySourceFollows, PerformFollows DEF StepQueue
<1>4. ASSUME NEW i \in 0..(MaxTrackId - 1), JumpQueue(i) PROVE Follows(App, App')
  BY <1>4, PlayQueueIndexAnySourceFollows, PerformFollows DEF JumpQueue
<1>5. CASE ClearQueue
  BY <1>5, ClearQueueFollows, CommitFollows DEF ClearQueue
<1>6. ASSUME NEW enabled \in BOOLEAN, SetShuffle(enabled) PROVE Follows(App, App')
  BY <1>6, ShuffleSetFollows, CommitFollows DEF SetShuffle
<1>7. ASSUME NEW enabled \in BOOLEAN, SetRepeatAll(enabled) PROVE Follows(App, App')
  <2>1. Commit([App EXCEPT !.session = RepeatAllSet(session, enabled)])
    BY <1>1, <1>7 DEF SetRepeatAll
  <2>. QED BY <1>1, <1>2, <2>1, RepeatSetsSameItem
<1>8. ASSUME NEW enabled \in BOOLEAN, SetRepeatOne(enabled) PROVE Follows(App, App')
  <2>1. Commit([App EXCEPT !.session = RepeatOneSet(session, enabled)])
    BY <1>1, <1>8 DEF SetRepeatOne
  <2>. QED BY <1>1, <1>2, <2>1, RepeatSetsSameItem
<1>9. CASE CycleRepeatMode
  <2>1. PICK t : /\ Commit([App EXCEPT !.session = t])
                 /\ \/ t = RepeatAllSet(session, TRUE)
                    \/ t = RepeatOneSet(session, TRUE)
                    \/ t = [session EXCEPT !.repeatAll = FALSE, !.repeatOne = FALSE]
    BY <1>1, <1>9 DEF CycleRepeatMode
  <2>. QED BY <1>1, <1>2, <2>1, RepeatSetsSameItem
<1>10. CASE CycleMainMenuMode
  <2>1. CASE session.shuffle
    <3>1. PICK w \in ShuffleSet(App, FALSE) :
            Commit([w EXCEPT !.session = RepeatAllSet(@, TRUE)])
      BY <1>10, <2>1 DEF CycleMainMenuMode
    <3>2. Follows(App, w) /\ Sound(w)
      BY ShuffleSetFollows DEF Follows
    <3>3. SameItem(w.session, RepeatAllSet(w.session, TRUE))
      BY <3>2, RepeatSetsSameItem DEF Sound, AppType
    <3>4. Follows(w, [w EXCEPT !.session = RepeatAllSet(@, TRUE)])
      BY <3>2, <3>3, SameItemFollows
    <3>. QED BY <3>1, <3>2, <3>4, FollowsOn, CommitFollows
  <2>2. CASE ~session.shuffle /\ session.repeatAll
    <3>. DEFINE r == RepeatAllSet(session, FALSE)
                t == RepeatOneSet(r, TRUE)
    <3>1. Commit([App EXCEPT !.session = t])
      BY <1>1, <1>10, <2>2 DEF CycleMainMenuMode
    <3>2. SameItem(session, r)
      BY <1>1, RepeatSetsSameItem
    <3>3. SameItem(r, t)
      BY <3>2, RepeatSetsSameItem DEF SameItem
    <3>. HIDE DEF r, t
    <3>. QED BY <1>2, <3>1, <3>2, <3>3, SameItemTransitive
  <2>3. CASE ~session.shuffle /\ ~session.repeatAll /\ session.repeatOne
    <3>. DEFINE r == RepeatOneSet(session, FALSE)
                t == RepeatAllSet(r, FALSE)
    <3>1. Commit([App EXCEPT !.session = t])
      BY <1>1, <1>10, <2>3 DEF CycleMainMenuMode
    <3>2. SameItem(session, r)
      BY <1>1, RepeatSetsSameItem
    <3>3. SameItem(r, t)
      BY <3>2, RepeatSetsSameItem DEF SameItem
    <3>. HIDE DEF r, t
    <3>. QED BY <1>2, <3>1, <3>2, <3>3, SameItemTransitive
  <2>4. CASE ~session.shuffle /\ ~session.repeatAll /\ ~session.repeatOne
    <3>1. \E w \in ShuffleSet(App, TRUE) : Commit(w)
      BY <1>10, <2>4 DEF CycleMainMenuMode
    <3>. QED BY <3>1, ShuffleSetFollows, CommitFollows
  <2>. QED BY <2>1, <2>2, <2>3, <2>4
<1>. QED BY <1>3, <1>4, <1>5, <1>6, <1>7, <1>8, <1>9, <1>10 DEF QueueCommand

LEMMA RemoteCommandFollows ==
    ASSUME Sound(App), RemoteCommand
    PROVE  Follows(App, App')
<1>1. ASSUME NEW medium \in RemoteMedia, StartRemoteItem(medium)
      PROVE  Follows(App, App')
  <2>. DEFINE S == UNION {UNION {StartRemoteLibraryTrack(w, id) : id \in IdsOf(w, medium)} :
                            w \in Merged(App, medium)}
  <2>1. Perform(S) /\ (IdsOf(App, medium) # {} \/ NextId(App) \in TrackIds)
    BY <1>1 DEF StartRemoteItem
  <2>2. medium \in Media /\ medium # NoMedium
    BY PlaybackAssumption
  <2>3. ASSUME NEW o \in S PROVE Follows(App, o.app)
    <3>1. PICK w \in Merged(App, medium) :
            o \in UNION {StartRemoteLibraryTrack(w, id) : id \in IdsOf(w, medium)}
      OBVIOUS
    <3>2. PICK id \in IdsOf(w, medium) : o \in StartRemoteLibraryTrack(w, id)
      BY <3>1
    <3>3. Follows(App, w) /\ Sound(w)
      BY <2>1, <2>2, <3>1, MergedFollows DEF Follows
    <3>4. id \in TrackIds /\ Known(w, id)
      BY <2>2, <3>2 DEF IdsOf, Known
    <3>5. Follows(w, o.app)
      BY <3>2, <3>3, <3>4, StartRemoteLibraryTrackFollows
    <3>. QED BY <3>3, <3>5, FollowsOn
  <2>. HIDE DEF S
  <2>. QED BY <2>1, <2>3, PerformFollows
<1>2. ASSUME NEW medium \in RemoteMedia, StartActiveStream(medium)
      PROVE  Follows(App, App')
  <2>1. medium \in MediumOrNone
    BY PlaybackAssumption DEF MediumOrNone
  <2>. QED BY <1>2, <2>1, StartRemoteStreamFollows, PerformFollows DEF StartActiveStream
<1>3. ASSUME NEW id \in TrackIds, StartActiveLibraryStream(id)
      PROVE  Follows(App, App')
  BY <1>3, StartRemoteLibraryTrackFollows, PerformFollows DEF StartActiveLibraryStream
<1>. QED BY <1>1, <1>2, <1>3 DEF RemoteCommand

LEMMA SurroundingsFollow ==
    ASSUME Sound(App), Surroundings
    PROVE  Follows(App, App')
<1>1. /\ queue \in QueueType /\ session \in SessionType /\ backend \in BackendType
      /\ lookup \in RegisterType /\ library \in ShelfType /\ songs \in Seq(TrackIds)
      /\ QueueOk(queue) /\ RepeatOk(session) /\ AudioOk(session, backend)
  BY DEF Sound, AppType, App
<1>2. ASSUME queue' = queue, session' = session, lookup'.generation = lookup.generation,
             backend' \in BackendType, AudioOk(session, backend'),
             lookup' \in RegisterType, library' \in ShelfType, songs' \in Seq(TrackIds)
      PROVE  Follows(App, App')
  BY <1>1, <1>2 DEF App, Follows, Sound, AppType, LyricsKept
<1>3. CASE Backend
  <2>1. /\ queue' = queue /\ session' = session /\ lookup' = lookup
        /\ library' = library /\ songs' = songs
    BY <1>3 DEF Backend, BackendStarts, BackendPlays, BackendFinishes, BackendFails
  <2>2. /\ backend.state \in {"Starting", "Playing", "Paused"}
        /\ backend' \in BackendType
    <3>1. CASE BackendStarts
      BY <1>1, <3>1 DEF BackendStarts, BackendType, BackendStates
    <3>2. CASE BackendPlays
      BY <1>1, <3>2 DEF BackendPlays, BackendType, BackendStates
    <3>3. CASE BackendFinishes
      BY <1>1, <3>3 DEF BackendFinishes, BackendType, BackendStates
    <3>4. CASE BackendFails
      BY <1>1, <3>4 DEF BackendFails, BackendType, BackendStates
    <3>. QED BY <1>3, <3>1, <3>2, <3>3, <3>4 DEF Backend
  <2>3. AudioOk(session, backend')
    BY <1>1, <2>2 DEF AudioOk, Quiet
  <2>. QED BY <1>1, <1>2, <2>1, <2>2, <2>3
<1>4. ASSUME NEW request \in lookup.running, LookupAnswers(request)
      PROVE  Follows(App, App')
  <2>1. /\ lookup.running \ {request} \in SUBSET LookupType
        /\ lookup.done \cup {request} \in SUBSET LookupType
    BY <1>1 DEF RegisterType
  <2>2. /\ lookup' \in RegisterType /\ lookup'.generation = lookup.generation
    BY <1>1, <1>4, <2>1 DEF LookupAnswers, RegisterType
  <2>. QED BY <1>1, <1>2, <1>4, <2>2 DEF LookupAnswers
<1>5. ASSUME NEW list \in SongLists, BrowseSongs(list)
      PROVE  Follows(App, App')
  <2>1. list \in Seq(TrackIds)
    BY PlaybackAssumption DEF Arrangements
  <2>. QED BY <1>1, <1>2, <1>5, <2>1 DEF BrowseSongs
<1>6. ASSUME NEW scanned \in Libraries, Rescan(scanned)
      PROVE  Follows(App, App')
  <2>1. scanned \in ShelfType /\ scanned.order \in Seq(TrackIds)
    BY PlaybackAssumption DEF LibraryType, ShelfType
  <2>. QED BY <1>1, <1>2, <1>6, <2>1 DEF Rescan
<1>. QED BY <1>3, <1>4, <1>5, <1>6 DEF Surroundings

LEMMA TickFollows ==
    ASSUME Sound(App), Ticks
    PROVE  Sound(App') /\ (LyricsKept(App, App') \/ Answered(App, App'))
<1>1. PICK delta \in 0..MaxDelta : Tick(delta)
  BY DEF Ticks
<1>. DEFINE v == ApplyPending(App)
<1>2. PICK w \in TickBackend(v, delta) : Commit(w)
  BY <1>1 DEF Tick
<1>3. Sound(v) /\ (LyricsKept(App, v) \/ Answered(App, v))
  BY ApplyPendingSound
<1>. HIDE DEF v
<1>4. Follows(v, w)
  BY <1>2, <1>3, PlaybackAssumption, TickBackendFollows
<1>5. App' = w
  <2>1. w = [queue |-> w.queue, session |-> w.session, backend |-> w.backend,
             lookup |-> w.lookup, library |-> w.library, songs |-> w.songs]
    BY <1>4 DEF Follows, Sound, AppType
  <2>. QED BY <1>2, <2>1 DEF App, Commit
<1>6. LyricsKept(App, w) \/ Answered(App, w)
  BY <1>3, <1>4 DEF Follows, LyricsKept, Answered
<1>. QED BY <1>4, <1>5, <1>6 DEF Follows

LEMMA NextFollows ==
    ASSUME Sound(App), [Next]_vars
    PROVE  Sound(App') /\ (LyricsKept(App, App') \/ Answered(App, App'))
<1>1. CASE UNCHANGED vars
  <2>1. App' = App
    BY <1>1 DEF vars, App
  <2>. QED BY <2>1 DEF LyricsKept
<1>. QED BY <1>1, TransportFollows, QueueCommandFollows, RemoteCommandFollows,
            SurroundingsFollow, TickFollows DEF Next, Follows

LEMMA InitSound == Init => Sound(App) /\ LyricsAreCurrent
<1>. SUFFICES ASSUME Init PROVE Sound(App) /\ LyricsAreCurrent
  OBVIOUS
<1>1. queue \in QueueType /\ QueueOk(queue)
  BY EmptyShuffles DEF Init
<1>2. /\ session \in SessionType /\ RepeatOk(session) /\ session.lyrics = NoLyrics
      /\ session.status = "Empty"
  BY DEF Init, SessionType, Statuses, RepeatOk, MediumOrNone
<1>3. backend \in BackendType /\ backend.state = "Idle"
  BY DEF Init, SilentBackend, BackendType, BackendStates, MediumOrNone
<1>4. lookup \in RegisterType
  BY DEF Init, RegisterType
<1>5. library \in ShelfType /\ songs \in Seq(TrackIds)
  BY PlaybackAssumption DEF Init, LibraryType, ShelfType
<1>. QED BY <1>1, <1>2, <1>3, <1>4, <1>5
         DEF Sound, AppType, App, AudioOk, Quiet, LyricsAreCurrent

-----------------------------------------------------------------------------
(* Theorems. *)

\* The inductive invariant.
IInv == Sound(App) /\ LyricsAreCurrent

LEMMA InvariantHolds == Spec => []IInv
<1>1. Init => IInv
  BY InitSound DEF IInv
<1>2. IInv /\ [Next]_vars => IInv'
  <2>. SUFFICES ASSUME IInv, [Next]_vars PROVE IInv'
    OBVIOUS
  <2>1. Sound(App') /\ (LyricsKept(App, App') \/ Answered(App, App'))
    BY NextFollows DEF IInv
  <2>2. LyricsAreCurrent'
    BY <2>1 DEF IInv, LyricsAreCurrent, LyricsKept, Answered, App
  <2>. QED BY <2>1, <2>2 DEF IInv
<1>. QED BY <1>1, <1>2, PTL DEF Spec

\* Every variable keeps its type under every command, tick, backend event,
\* answer and rescan.
THEOREM TypeCorrect == Spec => []TypeOK
<1>1. IInv => TypeOK
  BY DEF IInv, Sound, AppType, App, TypeOK
<1>. QED BY <1>1, InvariantHolds, PTL

\* The playing order is a rearrangement of the base order, with one active
\* position inside it, however the queue is rebuilt, moved and cleared.
THEOREM QueueIsWellFormed == Spec => []QueueWellFormed
<1>1. IInv => QueueWellFormed
  BY DEF IInv, Sound, App, QueueOk, QueueWellFormed
<1>. QED BY <1>1, InvariantHolds, PTL

\* No path through the setters and cycles leaves both repeat modes on.
THEOREM RepeatModesExclude == Spec => []RepeatModesExclusive
<1>1. IInv => RepeatModesExclusive
  BY DEF IInv, Sound, App, RepeatOk, RepeatModesExclusive
<1>. QED BY <1>1, InvariantHolds, PTL

\* Playing implies active audio, and an inactive session has a quiet backend.
THEOREM SessionMatches == Spec => []SessionMatchesAudio
<1>1. IInv => SessionMatchesAudio
  BY DEF IInv, Sound, App, AudioOk, Quiet, SessionMatchesAudio
<1>. QED BY <1>1, InvariantHolds, PTL

\* The lyrics on show answer the latest lookup, made for the current item.
THEOREM LyricsStayCurrent == Spec => []LyricsAreCurrent
<1>1. IInv => LyricsAreCurrent
  BY DEF IInv
<1>. QED BY <1>1, InvariantHolds, PTL

\* An answer reaches the session only while its id denotes the medium the
\* lookup was made for.
THEOREM AnswersFit == Spec => AnswersFitTheLibrary
<1>1. IInv /\ [Next]_vars =>
        [session.lyrics' # session.lyrics /\ session.lyrics' # NoLyrics =>
           library.medium[session.current'] = session.lyrics'.medium]_vars
  <2>. SUFFICES ASSUME IInv, [Next]_vars,
                       session.lyrics' # session.lyrics, session.lyrics' # NoLyrics
                PROVE  library.medium[session.current'] = session.lyrics'.medium
    OBVIOUS
  <2>1. LyricsKept(App, App') \/ Answered(App, App')
    BY NextFollows DEF IInv
  <2>. QED BY <2>1 DEF LyricsKept, Answered, App
<1>. QED BY <1>1, InvariantHolds, PTL DEF Spec, AnswersFitTheLibrary

\* No tick moves the queue on because of a finish reported well before the
\* known end of the item.
THEOREM EarlyFinishKeepsTheItem == Spec => EarlyFinishNeverAdvances
<1>1. IInv /\ [Next]_vars =>
        [Ticks /\ backend.state = "Finished" /\ session.audioActive
         /\ TrackDuration(App) - backend.position > AcceptRemaining
         /\ backend.position # NoPosition
           => session'.current = session.current /\ queue' = queue]_vars
  <2>. SUFFICES ASSUME IInv, Ticks, backend.state = "Finished", session.audioActive,
                       TrackDuration(App) - backend.position > AcceptRemaining,
                       backend.position # NoPosition
                PROVE  session'.current = session.current /\ queue' = queue
    OBVIOUS
  <2>. DEFINE v == ApplyPending(App)
  <2>1. PICK delta \in 0..MaxDelta : Tick(delta)
    BY DEF Ticks
  <2>2. PICK w \in TickBackend(v, delta) : Commit(w)
    BY <2>1 DEF Tick
  <2>3. /\ Sound(v) /\ v.library = library /\ v.queue = queue /\ v.backend = backend
        /\ v.session.current = session.current /\ v.session.stream = session.stream
        /\ v.session.audioActive = session.audioActive
    BY ApplyPendingSound DEF IInv, App
  <2>. HIDE DEF v
  <2>4. TrackDuration(v) = TrackDuration(App)
    BY <2>3 DEF TrackDuration, Known, App
  <2>5. /\ v \in AppType /\ v.session \in SessionType
        /\ backend.position \in Nat /\ TrackDuration(v) \in Nat
    BY <2>3, DurationIsNat DEF Sound, AppType, BackendType
  <2>6. ~FinishAccepted(v.session, TrackDuration(v), v.backend.position)
    BY <2>3, <2>4, <2>5, PolicyAssumption DEF FinishAccepted, Observed, Least
  <2>7. w \in TickFinished(v, delta)
    BY <2>2, <2>3 DEF TickBackend
  <2>. DEFINE waiting == PendingFinish(v.session, TrackDuration(v),
                                       v.backend.position, delta)
  <2>8. \/ w = [v EXCEPT !.backend = SilentBackend,
                         !.session = [ResetFinishPending(waiting)
                                      EXCEPT !.audioActive = FALSE, !.status = "Paused"]]
        \/ w = [v EXCEPT !.session = waiting]
    BY <2>6, <2>7 DEF TickFinished
  <2>9. /\ waiting.current = v.session.current
        /\ [ResetFinishPending(waiting) EXCEPT
              !.audioActive = FALSE, !.status = "Paused"].current = v.session.current
    BY <2>5 DEF PendingFinish, ResetFinishPending, SessionType
  <2>. HIDE DEF waiting
  <2>10. w.queue = queue /\ w.session.current = session.current
    BY <2>3, <2>5, <2>8, <2>9 DEF AppType
  <2>. QED BY <2>2, <2>10 DEF Commit
<1>. QED BY <1>1, InvariantHolds, PTL DEF Spec, EarlyFinishNeverAdvances

\* What a tick does to the order: nothing, or a move to a later position.
MovesOn(w, v) ==
    \/ v.queue = w.queue /\ v.lookup.generation = w.lookup.generation
    \/ v.queue.active = w.queue.active /\ v.queue.index > w.queue.index

LEMMA LaunchKeepsTheQueue ==
    ASSUME NEW w \in AppType, NEW medium \in MediumOrNone,
           NEW at \in Nat, NEW v \in Launched(w, medium, at)
    PROVE  v \in AppType /\ v.queue = w.queue
<1>1. /\ v \in AppType /\ v.queue = w.queue
      /\ v.session = [w.session EXCEPT !.audioActive = v.session.audioActive]
  BY LaunchedOutcomes
<1>. QED BY <1>1

LEMMA LaterIndexMovesOn ==
    ASSUME NEW w, Sound(w), NEW i \in Int, i > w.queue.index,
           NEW o \in PlayQueueIndex(w, i)
    PROVE  MovesOn(w, o.app)
<1>1. CASE ~InQueue(w.queue, i) \/ ~Known(w, w.queue.active[i + 1])
                                \/ IsRemote(w, w.queue.active[i + 1])
  BY <1>1 DEF PlayQueueIndex, Refused, MovesOn
<1>2. CASE ~(~InQueue(w.queue, i) \/ ~Known(w, w.queue.active[i + 1])
                                  \/ IsRemote(w, w.queue.active[i + 1]))
  <2>. DEFINE id == w.queue.active[i + 1]
              q == [w.queue EXCEPT !.index = i]
              s == BeginItem(w.session, id, NoMedium)
              b == [w EXCEPT !.queue.index = i, !.session = BeginItem(@, id, NoMedium)]
  <2>1. /\ w \in AppType /\ w.queue \in QueueType /\ w.session \in SessionType
        /\ w.library \in ShelfType
    BY DEF Sound, AppType
  <2>2. /\ InQueue(w.queue, i) /\ id \in TrackIds
        /\ w.library.medium[id] \in MediumOrNone
    BY <1>2, <2>1 DEF Known, ShelfType
  <2>3. q \in QueueType /\ q.active = w.queue.active /\ q.index = i
    BY <2>1, <2>2 DEF QueueType, InQueue
  <2>4. s \in SessionType
    BY <2>1, <2>2, BeginItemFacts DEF MediumOrNone
  <2>5. b = [w EXCEPT !.queue = q, !.session = s]
    BY <2>1 DEF AppType
  <2>6. b \in AppType /\ b.queue = q
    <3>. HIDE DEF b, s, q
    <3>. QED BY <2>1, <2>3, <2>4, <2>5 DEF AppType
  <2>7. PICK v \in Launched(b, w.library.medium[id], 0) :
          o = IF v.session.audioActive THEN Done(Request(v, id))
              ELSE Refused([v EXCEPT !.session.status = "Paused"])
    BY <1>2 DEF PlayQueueIndex
  <2>. HIDE DEF b, s, q
  <2>8. v \in AppType /\ v.queue = q
    <3>. DEFINE medium == w.library.medium[id]
    <3>1. medium \in MediumOrNone /\ v \in Launched(b, medium, 0)
      BY <2>2, <2>7
    <3>. HIDE DEF id, medium
    <3>2. v \in AppType /\ v.queue = b.queue
      <4>. DEFINE at == 0
      <4>1. at \in Nat /\ v \in Launched(b, medium, at)
        BY <3>1
      <4>. HIDE DEF at
      <4>. QED BY <2>6, <3>1, <4>1, LaunchKeepsTheQueue, Zenon
    <3>. QED BY <2>6, <3>2
  <2>9. /\ Request(v, id).queue = q
        /\ [v EXCEPT !.session.status = "Paused"].queue = q
    BY <2>8 DEF AppType, Request
  <2>10. o.app.queue = q
    BY <2>7, <2>9 DEF Done, Refused
  <2>. QED BY <2>3, <2>10 DEF MovesOn
<1>. QED BY <1>1, <1>2

LEMMA TickFinishedMovesOn ==
    ASSUME NEW w, Sound(w), ~w.session.repeatAll, ~w.session.repeatOne,
           NEW delta \in Nat, NEW v \in TickFinished(w, delta)
    PROVE  MovesOn(w, v)
<1>. DEFINE s == w.session
            hasTrack == Known(w, s.current)
            duration == TrackDuration(w)
            position == w.backend.position
            t == ResetFinishPending(AcceptedFinish(s, duration, position))
            u == [w EXCEPT !.session = t]
            next == NextIndexAfterFinish(u.queue, u.session)
<1>1. /\ w \in AppType /\ s \in SessionType /\ w.backend \in BackendType
      /\ w.queue \in QueueType /\ RepeatOk(s)
  BY DEF Sound, AppType
<1>2. duration \in Nat /\ position \in Nat \cup {NoPosition}
  BY <1>1, DurationIsNat DEF BackendType
<1>3. CASE FinishAccepted(s, duration, position)
  <2>1. PICK o \in AdvanceAfterFinish(u) :
          v = IF o.ok THEN o.app ELSE Ended(o.app, duration, hasTrack)
    BY <1>3 DEF TickFinished
  <2>2. SameItem(s, AcceptedFinish(s, duration, position))
    BY <1>1, <1>2, ClockFacts
  <2>3. SameItem(AcceptedFinish(s, duration, position), t)
    BY <2>2, <1>2, ClockFacts DEF SameItem
  <2>4. SameItem(s, t)
    BY <2>2, <2>3, SameItemTransitive
  <2>5. ~t.repeatAll /\ ~t.repeatOne
    BY <1>1 DEF ResetFinishPending, AcceptedFinish, SessionType
  <2>. HIDE DEF t
  <2>6. u.session = t /\ u.queue = w.queue /\ u.lookup = w.lookup
    BY <1>1 DEF AppType
  <2>. HIDE DEF u
  <2>7. Sound(u)
    BY <2>4, SameItemFollows DEF Follows, u
  <2>8. next = NoIndex \/ (next \in Int /\ next > w.queue.index)
    <3>1. w.queue.index \in Int
      BY <1>1 DEF QueueType, NoIndex
    <3>2. next = IF w.queue.active = <<>> \/ w.queue.index < 0 THEN NoIndex
                 ELSE IF w.queue.index < LastIndex(w.queue)
                 THEN w.queue.index + 1 ELSE NoIndex
      BY <2>5, <2>6 DEF NextIndexAfterFinish
    <3>. HIDE DEF next
    <3>. QED BY <3>1, <3>2
  <2>9. MovesOn(u, o.app)
    <3>1. CASE next = NoIndex
      BY <2>1, <3>1 DEF AdvanceAfterFinish, Refused, MovesOn
    <3>2. CASE next # NoIndex
      <4>1. o \in PlayQueueIndex(u, next)
        BY <2>1, <3>2 DEF AdvanceAfterFinish
      <4>. HIDE DEF next
      <4>. QED BY <2>6, <2>7, <2>8, <3>2, <4>1, LaterIndexMovesOn
    <3>. QED BY <3>1, <3>2
  <2>10. Sound(u) => Sound(o.app)
    BY <2>1, AdvanceAfterFinishFollows DEF Follows
  <2>11. o.app \in AppType
    BY <2>7, <2>10 DEF Sound
  <2>. HIDE DEF duration, hasTrack
  <2>12. /\ Ended(o.app, duration, hasTrack).queue = o.app.queue
         /\ Ended(o.app, duration, hasTrack).lookup = o.app.lookup
    BY <2>11 DEF Ended, AppType
  <2>13. v.queue = o.app.queue /\ v.lookup = o.app.lookup
    BY <2>1, <2>12
  <2>. QED BY <2>6, <2>9, <2>13 DEF MovesOn
<1>4. CASE ~FinishAccepted(s, duration, position)
  <2>. DEFINE waiting == PendingFinish(s, duration, position, delta)
              r == [ResetFinishPending(waiting)
                      EXCEPT !.audioActive = FALSE, !.status = "Paused"]
  <2>1. \/ v = [w EXCEPT !.backend = SilentBackend, !.session = r]
        \/ v = [w EXCEPT !.session = waiting]
    BY <1>4 DEF TickFinished
  <2>. HIDE DEF waiting, r
  <2>. QED BY <1>1, <2>1 DEF AppType, MovesOn
<1>. QED BY <1>3, <1>4

\* A queue without a repeat mode is left behind by ticks one position after
\* the other.
THEOREM AdvanceLeavesTheQueue == Spec => AdvanceMovesOn
<1>1. IInv /\ [Next]_vars =>
        [Ticks /\ ~session.repeatAll /\ ~session.repeatOne
         /\ (queue' # queue \/ lookup'.generation # lookup.generation)
           => queue'.active = queue.active /\ queue'.index > queue.index]_vars
  <2>. SUFFICES ASSUME IInv, Ticks, ~session.repeatAll, ~session.repeatOne,
                       queue' # queue \/ lookup'.generation # lookup.generation
                PROVE  queue'.active = queue.active /\ queue'.index > queue.index
    OBVIOUS
  <2>. DEFINE v == ApplyPending(App)
  <2>1. PICK delta \in 0..MaxDelta : Tick(delta)
    BY DEF Ticks
  <2>2. PICK w \in TickBackend(v, delta) : Commit(w)
    BY <2>1 DEF Tick
  <2>3. Sound(App) /\ Sound(v) /\ v.queue = queue
    BY ApplyPendingSound DEF IInv, App
  <2>4. /\ v.session.repeatAll = session.repeatAll
        /\ v.session.repeatOne = session.repeatOne
        /\ v.lookup.generation = lookup.generation
    BY <2>3, ApplyPendingKeeps DEF App
  <2>. HIDE DEF v
  <2>5. v \in AppType /\ v.session \in SessionType
    BY <2>3 DEF Sound, AppType
  <2>6. MovesOn(v, w)
    <3>1. CASE w \in TickFinished(v, delta)
      <4>1. delta \in Nat
        BY PlaybackAssumption
      <4>. QED BY <2>3, <2>4, <3>1, <4>1, TickFinishedMovesOn
    <3>2. CASE w \notin TickFinished(v, delta)
      <4>1. \/ w = v
            \/ \E t : w = [v EXCEPT !.session = t]
        BY <2>2, <3>2 DEF TickBackend
      <4>. QED BY <2>5, <4>1 DEF AppType, MovesOn
    <3>. QED BY <3>1, <3>2
  <2>. QED BY <2>2, <2>3, <2>4, <2>6 DEF Commit, MovesOn
<1>. QED BY <1>1, InvariantHolds, PTL DEF Spec, AdvanceMovesOn

-----------------------------------------------------------------------------
(* What is heard.  Every operator is taken through a second time: it either  *)
(* leaves the sound and the item alone, or starts what it makes current.      *)

\* The medium the session stands for.
Shown(w) ==
    IF w.session.current = NoTrack THEN w.session.stream
    ELSE w.library.medium[w.session.current]

Heard(w) == w.session.audioActive => w.backend.medium = Shown(w)

\* No sound that was not there before, and no other item or medium.
Undisturbed(w, v) ==
    /\ v.session.audioActive => w.session.audioActive
    /\ v.session.current = w.session.current
    /\ v.session.stream = w.session.stream
    /\ v.library = w.library
    /\ v.backend.medium = w.backend.medium

LEMMA UndisturbedHeard ==
    ASSUME NEW w, NEW v, Heard(w),
           Undisturbed(w, v) \/ ~v.session.audioActive
    PROVE  Heard(v)
BY DEF Heard, Shown, Undisturbed

LEMMA StatusUndisturbed ==
    ASSUME NEW w \in AppType, NEW status \in Statuses
    PROVE  Undisturbed(w, [w EXCEPT !.session.status = status])
BY DEF AppType, SessionType, Undisturbed

LEMMA RequestUndisturbed ==
    ASSUME NEW w \in AppType, NEW id
    PROVE  Undisturbed(w, Request(w, id))
BY DEF AppType, Request, Undisturbed

LEMMA SongsUndisturbed ==
    ASSUME NEW w \in AppType, NEW list, NEW v, v = [w EXCEPT !.songs = list]
    PROVE  Undisturbed(w, v)
BY DEF AppType, Undisturbed

LEMMA QueueUndisturbed ==
    ASSUME NEW w \in AppType, NEW q, NEW v, v = [w EXCEPT !.queue = q]
    PROVE  Undisturbed(w, v)
BY DEF AppType, Undisturbed

\* A launch that sounds, sounds the medium it was given.
LEMMA LaunchHeard ==
    ASSUME NEW b \in AppType, NEW medium \in MediumOrNone, medium = Shown(b),
           NEW at \in Nat, NEW v \in Launched(b, medium, at)
    PROVE  /\ v \in AppType
           /\ Heard(v)
           /\ Heard([v EXCEPT !.session.status = "Playing"])
           /\ Heard([v EXCEPT !.session.status = "Paused"])
           /\ \A id : Heard(Request(v, id))
<1>1. /\ v \in AppType /\ v.library = b.library
      /\ v.session = [b.session EXCEPT !.audioActive = v.session.audioActive]
  BY LaunchedOutcomes
<1>2. b.session \in SessionType /\ v.session \in SessionType
  BY <1>1 DEF AppType
<1>3. v.session.audioActive => v.backend.medium = medium
  <2>1. CASE \E p \in {at, NoPosition} :
               v = [b EXCEPT !.session.audioActive = TRUE,
                             !.backend = [state |-> "Starting", medium |-> medium,
                                          position |-> p]]
    BY <2>1 DEF AppType
  <2>2. CASE v = [b EXCEPT !.session.audioActive = FALSE, !.backend = SilentBackend]
    BY <1>2, <2>2 DEF AppType, SessionType
  <2>. QED BY <2>1, <2>2 DEF Launched
<1>4. v.session.current = b.session.current /\ v.session.stream = b.session.stream
  BY <1>1, <1>2 DEF SessionType
<1>5. Heard(v)
  BY <1>1, <1>3, <1>4 DEF Heard, Shown
<1>6. /\ Undisturbed(v, [v EXCEPT !.session.status = "Playing"])
      /\ Undisturbed(v, [v EXCEPT !.session.status = "Paused"])
  BY <1>1, StatusUndisturbed DEF Statuses
<1>7. \A id : Undisturbed(v, Request(v, id))
  BY <1>1, RequestUndisturbed
<1>. QED BY <1>1, <1>5, <1>6, <1>7, UndisturbedHeard

LEMMA BeginItemShows ==
    ASSUME NEW s \in SessionType, NEW id, NEW stream
    PROVE  /\ BeginItem(s, id, stream).current = id
           /\ BeginItem(s, id, stream).stream = stream
BY DEF BeginItem, SessionType

LEMMA PlayQueueIndexHeard ==
    ASSUME NEW w, Sound(w), Heard(w), NEW i \in Int, NEW o \in PlayQueueIndex(w, i)
    PROVE  Heard(o.app)
<1>1. CASE ~InQueue(w.queue, i) \/ ~Known(w, w.queue.active[i + 1])
                                \/ IsRemote(w, w.queue.active[i + 1])
  BY <1>1 DEF PlayQueueIndex, Refused
<1>2. CASE ~(~InQueue(w.queue, i) \/ ~Known(w, w.queue.active[i + 1])
                                  \/ IsRemote(w, w.queue.active[i + 1]))
  <2>. DEFINE id == w.queue.active[i + 1]
              medium == w.library.medium[id]
              q == [w.queue EXCEPT !.index = i]
              s == BeginItem(w.session, id, NoMedium)
              b == [w EXCEPT !.queue.index = i, !.session = BeginItem(@, id, NoMedium)]
  <2>1. /\ w \in AppType /\ w.queue \in QueueType /\ w.session \in SessionType
        /\ w.library \in ShelfType
    BY DEF Sound, AppType
  <2>2. InQueue(w.queue, i) /\ id \in TrackIds /\ medium \in MediumOrNone
    BY <1>2, <2>1 DEF Known, ShelfType
  <2>3. q \in QueueType
    BY <2>1, <2>2 DEF QueueType, InQueue
  <2>4. s \in SessionType /\ s.current = id
    BY <2>1, <2>2, BeginItemFacts, BeginItemShows DEF MediumOrNone
  <2>5. b = [w EXCEPT !.queue = q, !.session = s]
    BY <2>1 DEF AppType
  <2>6. b \in AppType /\ b.session = s /\ b.library = w.library
    <3>. HIDE DEF b, s, q
    <3>. QED BY <2>1, <2>3, <2>4, <2>5 DEF AppType
  <2>7. medium = Shown(b)
    BY <2>2, <2>4, <2>6 DEF Shown, TrackIds, NoTrack
  <2>8. PICK v \in Launched(b, medium, 0) :
          o = IF v.session.audioActive THEN Done(Request(v, id))
              ELSE Refused([v EXCEPT !.session.status = "Paused"])
    BY <1>2 DEF PlayQueueIndex
  <2>. HIDE DEF b, s, q, medium, id
  <2>9. /\ Heard([v EXCEPT !.session.status = "Paused"])
        /\ Heard(Request(v, id))
    BY <2>2, <2>6, <2>7, LaunchHeard
  <2>. QED BY <2>8, <2>9 DEF Done, Refused
<1>. QED BY <1>1, <1>2

\* Whatever was heard before: a remote item is started, not looked at.
LEMMA StartRemoteLibraryTrackHeard ==
    ASSUME NEW w \in AppType, NEW id \in TrackIds,
           NEW o \in StartRemoteLibraryTrack(w, id)
    PROVE  Heard(o.app)
<1>. DEFINE medium == w.library.medium[id]
            begun == BeginItem(w.session, id, NoMedium)
            s == [begun EXCEPT !.lyricsPending = medium \in Governed]
            b == [w EXCEPT !.session = s]
<1>1. w.session \in SessionType /\ w.library \in ShelfType
  BY DEF AppType
<1>2. medium \in MediumOrNone
  BY <1>1 DEF ShelfType
<1>3. begun \in SessionType /\ begun.current = id
  BY <1>1, BeginItemFacts, BeginItemShows DEF MediumOrNone
<1>4. s \in SessionType /\ s.current = id
  <2>. DEFINE governed == medium \in Governed
  <2>1. governed \in BOOLEAN
    OBVIOUS
  <2>2. s = [begun EXCEPT !.lyricsPending = governed]
    OBVIOUS
  <2>. HIDE DEF governed, s, begun
  <2>. QED BY <1>3, <2>1, <2>2 DEF SessionType
<1>5. PICK v \in Launched(b, medium, 0) :
        o = IF ~v.session.audioActive
            THEN Refused([v EXCEPT !.session.status = "Paused"])
            ELSE Done(IF medium \in Governed THEN Request(v, id) ELSE v)
  BY DEF StartRemoteLibraryTrack
<1>. HIDE DEF s, begun
<1>6. b \in AppType /\ b.session = s /\ b.library = w.library
  BY <1>4 DEF AppType
<1>7. medium = Shown(b)
  BY <1>4, <1>6 DEF Shown, TrackIds, NoTrack
<1>. HIDE DEF b, medium
<1>8. /\ Heard(v) /\ Heard([v EXCEPT !.session.status = "Paused"])
      /\ Heard(Request(v, id))
  BY <1>2, <1>5, <1>6, <1>7, LaunchHeard
<1>. QED BY <1>5, <1>8 DEF Done, Refused

LEMMA StartRemoteStreamHeard ==
    ASSUME NEW w \in AppType, NEW medium \in MediumOrNone,
           NEW o \in StartRemoteStream(w, medium)
    PROVE  Heard(o.app)
<1>. DEFINE begun == BeginItem(w.session, NoTrack, medium)
            s == [begun EXCEPT !.lyricsPending = FALSE]
            b == [w EXCEPT !.queue = EmptyQueue, !.session = s]
<1>1. w.session \in SessionType
  BY DEF AppType
<1>2. begun \in SessionType /\ begun.current = NoTrack /\ begun.stream = medium
  BY <1>1, BeginItemFacts, BeginItemShows
<1>3. s \in SessionType /\ s.current = NoTrack /\ s.stream = medium
  <2>. HIDE DEF begun
  <2>. QED BY <1>2 DEF SessionType
<1>4. PICK v \in Launched(b, medium, 0) :
        o = IF v.session.audioActive THEN Done(v)
            ELSE Refused([v EXCEPT !.session.status = "Paused"])
  BY DEF StartRemoteStream
<1>. HIDE DEF s, begun
<1>5. b \in AppType /\ b.session = s
  BY <1>3, EmptyShuffles DEF AppType
<1>6. medium = Shown(b)
  BY <1>3, <1>5 DEF Shown
<1>. HIDE DEF b
<1>7. Heard(v) /\ Heard([v EXCEPT !.session.status = "Paused"])
  BY <1>4, <1>5, <1>6, LaunchHeard
<1>. QED BY <1>4, <1>7 DEF Done, Refused

LEMMA QueuePreparedHeard ==
    ASSUME NEW w, w \in AppType, Heard(w), NEW id, NEW v \in QueuePrepared(w, id)
    PROVE  Heard(v)
<1>. DEFINE base == IF w.songs = <<>> THEN w.library.order ELSE w.songs
            u == [w EXCEPT !.queue.base = base]
<1>1. PICK q : v = [u EXCEPT !.queue = q]
  BY DEF QueuePrepared, Reordered
<1>2. v = [w EXCEPT !.queue = q]
  <2>. HIDE DEF base
  <2>. QED BY <1>1 DEF AppType
<1>. QED BY <1>2, QueueUndisturbed, UndisturbedHeard

LEMMA PauseAudioHeard ==
    ASSUME NEW w, Sound(w), Heard(w)
    PROVE  Heard(PauseAudio(w))
<1>1. CASE w.session.status = "Playing"
  <2>. DEFINE s == [w.session EXCEPT !.status = "Paused"]
              b == PausedBackend(w.backend)
              v == [w EXCEPT !.session = s, !.backend = b]
  <2>1. w \in AppType /\ w.session \in SessionType /\ w.backend \in BackendType
    BY DEF Sound, AppType
  <2>2. /\ s.audioActive = w.session.audioActive /\ s.current = w.session.current
        /\ s.stream = w.session.stream
    BY <2>1 DEF SessionType
  <2>3. b.medium = w.backend.medium
    BY <2>1 DEF PausedBackend, BackendType
  <2>4. PauseAudio(w) = v
    BY <1>1, <2>1 DEF PauseAudio, AppType
  <2>. HIDE DEF s, b
  <2>5. Undisturbed(w, v)
    BY <2>1, <2>2, <2>3 DEF Undisturbed, AppType
  <2>. QED BY <2>4, <2>5, UndisturbedHeard
<1>2. CASE w.session.status # "Playing"
  BY <1>2 DEF PauseAudio
<1>. QED BY <1>1, <1>2

LEMMA ResumeAudioHeard ==
    ASSUME NEW w, Sound(w), Heard(w), NEW v \in ResumeAudio(w)
    PROVE  Heard(v)
<1>1. CASE w.session.status = "Paused" /\ w.session.audioActive
  <2>1. w \in AppType /\ w.session \in SessionType /\ w.backend \in BackendType
    BY DEF Sound, AppType
  <2>2. PICK b \in ResumedBackends(w.backend) : v = FollowBackend([w EXCEPT !.backend = b])
    BY <1>1 DEF ResumeAudio
  <2>3. b.medium = w.backend.medium
    BY <2>1 DEF ResumedBackends, BackendType
  <2>. DEFINE u == [w EXCEPT !.backend = b]
  <2>4. \/ v = u
        \/ v = [u EXCEPT !.session.status = "Playing"]
        \/ v = [u EXCEPT !.session.audioActive = FALSE]
    BY <2>2 DEF FollowBackend
  <2>5. /\ u.session = w.session /\ u.backend.medium = w.backend.medium
        /\ u.library = w.library
    BY <2>1, <2>3 DEF AppType
  <2>6. Undisturbed(w, v)
    <3>1. CASE v = u
      BY <1>1, <2>5, <3>1 DEF Undisturbed
    <3>2. CASE v = [u EXCEPT !.session.status = "Playing"]
      BY <1>1, <2>1, <2>3, <3>2 DEF Undisturbed, AppType, SessionType
    <3>3. CASE v = [u EXCEPT !.session.audioActive = FALSE]
      BY <1>1, <2>1, <2>3, <3>3 DEF Undisturbed, AppType, SessionType
    <3>. QED BY <2>4, <3>1, <3>2, <3>3
  <2>. QED BY <2>6, UndisturbedHeard
<1>2. CASE ~(w.session.status = "Paused" /\ w.session.audioActive)
  BY <1>2 DEF ResumeAudio
<1>. QED BY <1>1, <1>2

LEMMA ResumedHeard ==
    ASSUME NEW w, Sound(w), Heard(w), NEW o \in Resumed(w)
    PROVE  Heard(o.app)
BY ResumeAudioHeard DEF Resumed

LEMMA SeekToHeard ==
    ASSUME NEW w, Sound(w), Heard(w), NEW at \in Nat, NEW o \in SeekTo(w, at)
    PROVE  Heard(o.app)
<1>. DEFINE id == w.session.current
            medium == w.library.medium[id]
            s == [ResetFinishPending(w.session) EXCEPT !.elapsed = at]
            b == [w EXCEPT !.session = s]
<1>1. CASE ~Known(w, id) \/ IsRemote(w, id)
  BY <1>1 DEF SeekTo, Refused
<1>2. CASE ~(~Known(w, id) \/ IsRemote(w, id))
  <2>1. w \in AppType /\ w.session \in SessionType /\ w.library \in ShelfType
    BY DEF Sound, AppType
  <2>2. id \in TrackIds /\ medium \in MediumOrNone
    BY <1>2, <2>1 DEF Known, ShelfType
  <2>3. s \in SessionType /\ s.current = id
    BY <2>1 DEF SessionType, ResetFinishPending
  <2>4. PICK v \in Launched(b, medium, at) :
          o = IF v.session.audioActive
              THEN Done([v EXCEPT !.session.status = "Playing"])
              ELSE Refused([v EXCEPT !.session.status = "Paused"])
    BY <1>2 DEF SeekTo
  <2>. HIDE DEF s
  <2>5. b \in AppType /\ b.session = s /\ b.library = w.library
    BY <2>1, <2>3 DEF AppType
  <2>6. medium = Shown(b)
    BY <2>2, <2>3, <2>5 DEF Shown, TrackIds, NoTrack
  <2>. HIDE DEF b, medium, id
  <2>7. /\ Heard([v EXCEPT !.session.status = "Playing"])
        /\ Heard([v EXCEPT !.session.status = "Paused"])
    BY <2>2, <2>4, <2>5, <2>6, LaunchHeard
  <2>. QED BY <2>4, <2>7 DEF Done, Refused
<1>. QED BY <1>1, <1>2

LEMMA StopAudioHeard ==
    ASSUME NEW w, Sound(w)
    PROVE  Heard(StopAudio(w))
<1>. DEFINE s == [ResetFinishPending(w.session) EXCEPT
                    !.status = "Paused", !.audioActive = FALSE, !.elapsed = 0]
<1>1. w \in AppType /\ w.session \in SessionType
  BY DEF Sound, AppType
<1>2. s.audioActive = FALSE
  BY <1>1 DEF ResetFinishPending, SessionType
<1>3. StopAudio(w) = [w EXCEPT !.backend = SilentBackend, !.session = s]
  BY DEF StopAudio
<1>. HIDE DEF s
<1>4. StopAudio(w).session = s
  BY <1>1, <1>3 DEF AppType
<1>. QED BY <1>2, <1>4 DEF Heard

LEMMA StartLocalTrackHeard ==
    ASSUME NEW w, Sound(w), Heard(w), NEW id, NEW o \in StartLocalTrack(w, id)
    PROVE  Heard(o.app)
<1>1. CASE o \in {Done(w)}
  BY <1>1 DEF Done
<1>2. CASE o \in Resumed(w)
  BY <1>2, ResumedHeard
<1>3. CASE \E v \in QueuePrepared(w, id) : o \in PlayQueueIndex(v, v.queue.index)
  <2>1. PICK v \in QueuePrepared(w, id) : o \in PlayQueueIndex(v, v.queue.index)
    BY <1>3
  <2>2. Sound(v) /\ Heard(v)
    BY QueuePreparedFollows, QueuePreparedHeard DEF Sound, Follows
  <2>3. v.queue.index \in Int
    BY <2>2, IndexIsInt DEF Sound
  <2>. QED BY <2>1, <2>2, <2>3, PlayQueueIndexHeard
<1>. QED BY <1>1, <1>2, <1>3 DEF StartLocalTrack

LEMMA ResolveAndStartHeard ==
    ASSUME NEW w, Sound(w), Heard(w), NEW id \in TrackIds,
           NEW o \in ResolveAndStart(w, id)
    PROVE  Heard(o.app)
<1>1. CASE o = Refused(w)
  BY <1>1 DEF Refused
<1>2. CASE o \in StartRemoteLibraryTrack([w EXCEPT !.songs = w.library.order], id)
  <2>1. w.library.order \in Seq(TrackIds)
    BY DEF Sound, AppType, ShelfType
  <2>2. [w EXCEPT !.songs = w.library.order] \in AppType
    BY <2>1 DEF Sound, AppType
  <2>. QED BY <1>2, <2>2, StartRemoteLibraryTrackHeard
<1>. QED BY <1>1, <1>2 DEF ResolveAndStart

LEMMA StartTrackInHeard ==
    ASSUME NEW w, Sound(w), Heard(w), NEW id, NEW o \in StartTrackIn(w, id)
    PROVE  Heard(o.app)
<1>1. CASE ~Known(w, id)
  BY <1>1 DEF StartTrackIn, Refused
<1>2. CASE Known(w, id) /\ IsRemote(w, id)
  BY <1>2, ResolveAndStartHeard DEF StartTrackIn, Known
<1>3. CASE Known(w, id) /\ ~IsRemote(w, id)
  BY <1>3, StartLocalTrackHeard DEF StartTrackIn
<1>. QED BY <1>1, <1>2, <1>3

LEMMA PlayQueueIndexAnySourceHeard ==
    ASSUME NEW w, Sound(w), Heard(w), NEW i \in Int,
           NEW o \in PlayQueueIndexAnySource(w, i)
    PROVE  Heard(o.app)
<1>. DEFINE id == w.queue.active[i + 1]
            remote == InQueue(w.queue, i) /\ Known(w, id) /\ IsRemote(w, id)
            q == [w.queue EXCEPT !.index = i]
            v == [w EXCEPT !.queue = q]
<1>1. CASE remote
  <2>1. w \in AppType /\ w.queue \in QueueType /\ QueueOk(w.queue)
    BY DEF Sound, AppType
  <2>2. q \in QueueType /\ QueueOk(q)
    BY <1>1, <2>1 DEF QueueType, QueueOk, InQueue, NoIndex
  <2>3. id \in TrackIds
    BY <1>1 DEF Known
  <2>4. o \in ResolveAndStart(v, id)
    BY <1>1, <2>1 DEF PlayQueueIndexAnySource, AppType
  <2>. HIDE DEF q
  <2>5. Sound(v)
    BY <2>1, <2>2 DEF Sound, AppType
  <2>6. Heard(v)
    BY <2>1, QueueUndisturbed, UndisturbedHeard
  <2>. HIDE DEF v, id
  <2>. QED BY <2>3, <2>4, <2>5, <2>6, ResolveAndStartHeard
<1>2. CASE ~remote
  <2>1. o \in PlayQueueIndex(w, i)
    BY <1>2 DEF PlayQueueIndexAnySource
  <2>. QED BY <2>1, PlayQueueIndexHeard
<1>. QED BY <1>1, <1>2

LEMMA ResumePlaybackInHeard ==
    ASSUME NEW w, Sound(w), Heard(w), NEW o \in ResumePlaybackIn(w)
    PROVE  Heard(o.app)
<1>1. w.session.elapsed \in Nat
  BY DEF Sound, AppType, SessionType
<1>2. \/ o \in StartTrackIn(w, w.session.current)
      \/ o \in SeekTo(w, w.session.elapsed)
      \/ o \in Resumed(w)
  BY DEF ResumePlaybackIn
<1>. QED BY <1>1, <1>2, StartTrackInHeard, SeekToHeard, ResumedHeard

LEMMA StartFirstSongHeard ==
    ASSUME NEW w, Sound(w), Heard(w), NEW o \in StartFirstSong(w)
    PROVE  Heard(o.app)
<1>1. CASE w.library.order = <<>>
  BY <1>1 DEF StartFirstSong, Refused
<1>2. CASE w.library.order # <<>>
  <2>. DEFINE v == [w EXCEPT !.songs = w.library.order]
              first == w.library.order[1]
  <2>1. w \in AppType /\ w.library.order \in Seq(TrackIds)
    BY DEF Sound, AppType, ShelfType
  <2>2. \/ \E u \in QueuePrepared(v, first) : o = Refused(u)
        \/ o \in StartLocalTrack(v, first)
    BY <1>2 DEF StartFirstSong
  <2>3. Sound(v)
    BY <2>1, SongsFollow DEF Follows
  <2>4. Undisturbed(w, v)
    BY <2>1, SongsUndisturbed
  <2>. HIDE DEF v, first
  <2>5. Heard(v)
    BY <2>4, UndisturbedHeard
  <2>. QED BY <2>2, <2>3, <2>5, QueuePreparedHeard, StartLocalTrackHeard DEF Sound, Refused
<1>. QED BY <1>1, <1>2

LEMMA PlayFirstAvailableInHeard ==
    ASSUME NEW w, Sound(w), Heard(w), NEW o \in PlayFirstAvailableIn(w)
    PROVE  Heard(o.app)
<1>1. CASE w.session.status = "Paused" /\ w.session.current # NoTrack
  <2>1. PICK r \in ResumePlaybackIn(w) :
          o \in (IF r.ok THEN {r} ELSE StartTrackIn(r.app, r.app.session.current))
    BY <1>1 DEF PlayFirstAvailableIn
  <2>2. Sound(r.app) /\ Heard(r.app)
    BY <2>1, ResumePlaybackInFollows, ResumePlaybackInHeard DEF Follows
  <2>. QED BY <2>1, <2>2, StartTrackInHeard
<1>2. CASE ~(w.session.status = "Paused" /\ w.session.current # NoTrack)
  <2>1. \/ o = [app |-> w, ok |-> w.session.audioActive]
        \/ o \in StartTrackIn(w, w.session.current)
        \/ o \in Resumed(w)
        \/ o \in StartFirstSong(w)
    BY <1>2 DEF PlayFirstAvailableIn
  <2>. QED BY <2>1, StartTrackInHeard, ResumedHeard, StartFirstSongHeard
<1>. QED BY <1>1, <1>2

\* A session whose modes and clock may differ, and that may have gone silent.
SameSource(s, t) ==
    /\ t.audioActive => s.audioActive
    /\ t.current = s.current
    /\ t.stream = s.stream

LEMMA SourceUndisturbed ==
    ASSUME NEW w \in AppType, NEW t, SameSource(w.session, t),
           NEW v, v = [w EXCEPT !.session = t]
    PROVE  Undisturbed(w, v)
BY DEF AppType, SameSource, Undisturbed

LEMMA RepeatSetsSameSource ==
    ASSUME NEW s \in SessionType, NEW enabled \in BOOLEAN
    PROVE  /\ SameSource(s, RepeatAllSet(s, enabled))
           /\ SameSource(s, RepeatOneSet(s, enabled))
           /\ SameSource(s, [s EXCEPT !.shuffle = enabled])
           /\ SameSource(s, [s EXCEPT !.repeatAll = FALSE, !.repeatOne = FALSE])
<1>1. ASSUME NEW a, NEW b
      PROVE  /\ SameSource(s, [s EXCEPT !.repeatAll = a, !.repeatOne = b])
             /\ SameSource(s, [s EXCEPT !.repeatOne = a, !.repeatAll = b])
  BY DEF SameSource, SessionType
<1>2. SameSource(s, [s EXCEPT !.shuffle = enabled])
  BY DEF SameSource, SessionType
<1>. QED BY <1>1, <1>2 DEF RepeatAllSet, RepeatOneSet

LEMMA ClockSameSource ==
    ASSUME NEW s, s \in SessionType, NEW duration, NEW position, NEW delta
    PROVE  /\ SameSource(s, ResetFinishPending(s))
           /\ SameSource(s, AcceptedFinish(s, duration, position))
           /\ SameSource(s, PendingFinish(s, duration, position, delta))
           /\ SameSource(s, ClockAdvanced(s, position, delta))
<1>1. SameSource(s, ResetFinishPending(s))
  BY DEF ResetFinishPending, SameSource, SessionType
<1>2. SameSource(s, AcceptedFinish(s, duration, position))
  BY DEF AcceptedFinish, SameSource, SessionType
<1>3. SameSource(s, PendingFinish(s, duration, position, delta))
  BY DEF PendingFinish, SameSource, SessionType
<1>4. SameSource(s, ClockAdvanced(s, position, delta))
  BY DEF ClockAdvanced, SameSource, SessionType
<1>. QED BY <1>1, <1>2, <1>3, <1>4

LEMMA SameSourceTransitive ==
    ASSUME NEW r, NEW s, NEW t, SameSource(r, s), SameSource(s, t)
    PROVE  SameSource(r, t)
BY DEF SameSource

LEMMA ShuffleSetHeard ==
    ASSUME NEW w, Sound(w), Heard(w), NEW enabled \in BOOLEAN,
           NEW v \in ShuffleSet(w, enabled)
    PROVE  Heard(v)
<1>1. CASE w.session.shuffle = enabled
  BY <1>1 DEF ShuffleSet
<1>2. CASE w.session.shuffle # enabled
  <2>. DEFINE t == [w.session EXCEPT !.shuffle = enabled]
              u == [w EXCEPT !.session = t]
  <2>1. w \in AppType /\ w.session \in SessionType
    BY DEF Sound, AppType
  <2>2. v \in Reordered(u, w.session.current)
    BY <1>2, <2>1 DEF ShuffleSet
  <2>3. t \in SessionType /\ SameSource(w.session, t)
    BY <2>1, RepeatSetsSameSource DEF SessionType
  <2>. HIDE DEF t
  <2>4. u \in AppType /\ Undisturbed(w, u)
    BY <2>1, <2>3, SourceUndisturbed DEF AppType
  <2>. HIDE DEF u
  <2>5. \E q : v = [u EXCEPT !.queue = q]
    BY <2>2 DEF Reordered
  <2>. QED BY <2>4, <2>5, QueueUndisturbed, UndisturbedHeard
<1>. QED BY <1>1, <1>2

LEMMA TickFinishedHeard ==
    ASSUME NEW w, Sound(w), Heard(w), NEW delta \in Nat,
           NEW v \in TickFinished(w, delta)
    PROVE  Heard(v)
<1>. DEFINE s == w.session
            hasTrack == Known(w, s.current)
            duration == TrackDuration(w)
            position == w.backend.position
            accepted == FinishAccepted(s, duration, position)
            rejected == FinishRejected(s, duration, position, delta)
            waiting == PendingFinish(s, duration, position, delta)
<1>1. w \in AppType /\ s \in SessionType /\ RepeatOk(s) /\ w.backend \in BackendType
  BY DEF Sound, AppType
<1>2. duration \in Nat /\ position \in Nat \cup {NoPosition}
  BY <1>1, DurationIsNat DEF BackendType
<1>3. SameItem(s, waiting) /\ SameSource(s, waiting)
  BY <1>1, <1>2, ClockFacts, ClockSameSource
<1>4. CASE accepted
  <2>. DEFINE r == AcceptedFinish(s, duration, position)
              t == ResetFinishPending(r)
              u == [w EXCEPT !.session = t]
  <2>1. SameItem(s, r) /\ SameSource(s, r)
    BY <1>1, <1>2, ClockFacts, ClockSameSource
  <2>2. PICK o \in AdvanceAfterFinish(u) :
          v = IF o.ok THEN o.app ELSE Ended(o.app, duration, hasTrack)
    BY <1>4 DEF TickFinished
  <2>. HIDE DEF r
  <2>3. SameItem(r, t) /\ SameSource(r, t)
    BY <2>1, <1>2, ClockFacts, ClockSameSource DEF SameItem
  <2>4. SameItem(s, t) /\ SameSource(s, t)
    BY <2>1, <2>3, SameItemTransitive, SameSourceTransitive
  <2>. HIDE DEF t
  <2>5. Sound(u)
    BY <2>4, SameItemFollows DEF Follows
  <2>6. Undisturbed(w, u)
    BY <1>1, <2>4, SourceUndisturbed
  <2>. HIDE DEF u
  <2>7. Heard(u)
    BY <2>6, UndisturbedHeard
  <2>8. Sound(o.app) /\ Heard(o.app)
    <3>. DEFINE next == NextIndexAfterFinish(u.queue, u.session)
    <3>1. u.queue \in QueueType
      BY <2>5 DEF Sound, AppType
    <3>2. next \in Int
      BY <3>1 DEF NextIndexAfterFinish, QueueType, NoIndex, LastIndex, Clamped, Least
    <3>3. o = Refused(u) \/ o \in PlayQueueIndex(u, next)
      BY <2>2 DEF AdvanceAfterFinish
    <3>. HIDE DEF next
    <3>4. Heard(o.app)
      BY <2>5, <2>7, <3>2, <3>3, PlayQueueIndexHeard DEF Refused
    <3>. QED BY <2>2, <2>5, <3>4, AdvanceAfterFinishFollows DEF Follows
  <2>. HIDE DEF duration, hasTrack
  <2>9. ~Ended(o.app, duration, hasTrack).session.audioActive
    BY <2>8 DEF Ended, Sound, AppType, SessionType
  <2>. QED BY <2>2, <2>8, <2>9 DEF Heard
<1>5. CASE ~accepted /\ rejected
  <2>. DEFINE t == [ResetFinishPending(waiting) EXCEPT
                      !.audioActive = FALSE, !.status = "Paused"]
  <2>1. v = [w EXCEPT !.backend = SilentBackend, !.session = t]
    BY <1>5 DEF TickFinished
  <2>2. t.audioActive = FALSE
    <3>1. waiting \in SessionType
      BY <1>3 DEF SameItem
    <3>. HIDE DEF waiting
    <3>. QED BY <3>1 DEF ResetFinishPending, SessionType
  <2>. HIDE DEF t
  <2>3. v.session = t
    BY <1>1, <2>1 DEF AppType
  <2>. QED BY <2>2, <2>3 DEF Heard
<1>6. CASE ~accepted /\ ~rejected
  <2>1. v = [w EXCEPT !.session = waiting]
    BY <1>6 DEF TickFinished
  <2>. HIDE DEF waiting
  <2>. QED BY <1>1, <1>3, <2>1, SourceUndisturbed, UndisturbedHeard
<1>. QED BY <1>4, <1>5, <1>6

LEMMA TickBackendHeard ==
    ASSUME NEW w, Sound(w), Heard(w), NEW delta \in Nat, NEW v \in TickBackend(w, delta)
    PROVE  Heard(v)
<1>1. /\ w \in AppType /\ w.session \in SessionType /\ RepeatOk(w.session)
      /\ w.backend.position \in Nat \cup {NoPosition}
  BY DEF Sound, AppType, BackendType
<1>. DEFINE r == ResetFinishPending(w.session)
            failed == [r EXCEPT !.audioActive = FALSE, !.status = "Paused"]
            played == ClockAdvanced(r, w.backend.position, delta)
<1>2. r \in SessionType /\ SameSource(w.session, r)
  BY <1>1, ClockFacts, ClockSameSource DEF SameItem
<1>3. \/ v = w
      \/ v \in TickFinished(w, delta)
      \/ v = [w EXCEPT !.session = failed]
      \/ v = [w EXCEPT !.session = played]
  BY DEF TickBackend
<1>. HIDE DEF r
<1>4. CASE v \in TickFinished(w, delta)
  BY <1>4, TickFinishedHeard
<1>5. CASE v = [w EXCEPT !.session = failed]
  <2>1. failed.audioActive = FALSE
    BY <1>2 DEF SessionType
  <2>. HIDE DEF failed
  <2>2. v.session = failed
    BY <1>1, <1>5 DEF AppType
  <2>. QED BY <2>1, <2>2 DEF Heard
<1>6. CASE v = [w EXCEPT !.session = played]
  <2>1. SameSource(w.session, played)
    BY <1>2, ClockSameSource, SameSourceTransitive
  <2>. HIDE DEF played
  <2>. QED BY <1>1, <1>6, <2>1, SourceUndisturbed, UndisturbedHeard
<1>. QED BY <1>3, <1>4, <1>5, <1>6

LEMMA CommitHeard == ASSUME NEW w, Heard(w), Commit(w) PROVE Heard(App')
BY DEF Heard, Shown, Commit, App

LEMMA PerformHeard ==
    ASSUME NEW S, \A o \in S : Heard(o.app), Perform(S)
    PROVE  Heard(App')
BY CommitHeard DEF Perform

LEMMA TransportHeard ==
    ASSUME Sound(App), Heard(App), Transport
    PROVE  Heard(App')
<1>1. CASE Play
  BY <1>1, PlayFirstAvailableInHeard, PerformHeard DEF Play
<1>2. CASE Pause
  BY <1>2, PauseAudioHeard, CommitHeard DEF Pause
<1>3. CASE Resume
  BY <1>3, ResumePlaybackInHeard, PerformHeard DEF Resume
<1>4. CASE TogglePlayPause
  <2>1. CASE session.status = "Playing"
    BY <1>4, <2>1, PauseAudioHeard, CommitHeard DEF TogglePlayPause
  <2>2. CASE session.status = "Paused"
    BY <1>4, <2>2, ResumePlaybackInHeard, PerformHeard DEF TogglePlayPause
  <2>3. CASE session.status \notin {"Playing", "Paused"}
    <3>1. UNCHANGED vars
      BY <1>4, <2>3 DEF TogglePlayPause
    <3>2. App' = App
      BY <3>1 DEF vars, App
    <3>. QED BY <3>2
  <2>. QED BY <2>1, <2>2, <2>3
<1>5. CASE Stop
  BY <1>5, StopAudioHeard, CommitHeard DEF Stop
<1>6. ASSUME NEW at \in 0..ElapsedCap, Seek(at) PROVE Heard(App')
  <2>1. at \in Nat
    BY PolicyAssumption
  <2>. QED BY <1>6, <2>1, SeekToHeard, PerformHeard DEF Seek
<1>7. ASSUME NEW id \in TrackIds, StartTrack(id) PROVE Heard(App')
  BY <1>7, StartTrackInHeard, PerformHeard DEF StartTrack
<1>8. ASSUME NEW id \in TrackIds, NEW list \in SongLists, StartTrackWithContext(id, list)
      PROVE  Heard(App')
  <2>. DEFINE u == [App EXCEPT !.songs = list]
              S == UNION {StartTrackIn(v, id) : v \in QueuePrepared(u, id)}
  <2>1. list \in Seq(TrackIds)
    BY PlaybackAssumption DEF Arrangements
  <2>2. Sound(u)
    BY <2>1, SongsFollow DEF Follows
  <2>3. Heard(u)
    BY SongsUndisturbed, UndisturbedHeard DEF Sound
  <2>4. Perform(S)
    BY <1>8 DEF StartTrackWithContext
  <2>. HIDE DEF u
  <2>5. ASSUME NEW o \in S PROVE Heard(o.app)
    <3>1. PICK v \in QueuePrepared(u, id) : o \in StartTrackIn(v, id)
      OBVIOUS
    <3>2. Sound(v) /\ Heard(v)
      BY <2>2, <2>3, QueuePreparedFollows, QueuePreparedHeard DEF Sound, Follows
    <3>. QED BY <3>1, <3>2, StartTrackInHeard
  <2>. HIDE DEF S
  <2>. QED BY <2>4, <2>5, PerformHeard
<1>. QED BY <1>1, <1>2, <1>3, <1>4, <1>5, <1>6, <1>7, <1>8 DEF Transport

LEMMA QueueCommandHeard ==
    ASSUME Sound(App), Heard(App), QueueCommand
    PROVE  Heard(App')
<1>1. /\ App \in AppType /\ session \in SessionType /\ App.session = session
      /\ queue \in QueueType
  BY DEF Sound, AppType, App
<1>2. ASSUME NEW t, SameSource(session, t), Commit([App EXCEPT !.session = t])
      PROVE  Heard(App')
  <2>1. Heard([App EXCEPT !.session = t])
    BY <1>1, <1>2, SourceUndisturbed, UndisturbedHeard
  <2>. QED BY <1>2, <2>1, CommitHeard
<1>3. ASSUME NEW delta \in {-1, 1}, StepQueue(delta) PROVE Heard(App')
  <2>1. SteppedIndex(queue, session, delta) \in Int
    BY <1>1 DEF SteppedIndex, QueueType, NoIndex, LastIndex
  <2>. QED BY <1>3, <2>1, PlayQueueIndexAnySourceHeard, PerformHeard DEF StepQueue
<1>4. ASSUME NEW i \in 0..(MaxTrackId - 1), JumpQueue(i) PROVE Heard(App')
  BY <1>4, PlayQueueIndexAnySourceHeard, PerformHeard DEF JumpQueue
<1>5. CASE ClearQueue
  <2>1. Heard([App EXCEPT !.queue = EmptyQueue])
    BY <1>1, QueueUndisturbed, UndisturbedHeard
  <2>. QED BY <1>5, <2>1, CommitHeard DEF ClearQueue
<1>6. ASSUME NEW enabled \in BOOLEAN, SetShuffle(enabled) PROVE Heard(App')
  BY <1>6, ShuffleSetHeard, CommitHeard DEF SetShuffle
<1>7. ASSUME NEW enabled \in BOOLEAN, SetRepeatAll(enabled) PROVE Heard(App')
  <2>1. Commit([App EXCEPT !.session = RepeatAllSet(session, enabled)])
    BY <1>1, <1>7 DEF SetRepeatAll
  <2>. QED BY <1>1, <1>2, <2>1, RepeatSetsSameSource
<1>8. ASSUME NEW enabled \in BOOLEAN, SetRepeatOne(enabled) PROVE Heard(App')
  <2>1. Commit([App EXCEPT !.session = RepeatOneSet(session, enabled)])
    BY <1>1, <1>8 DEF SetRepeatOne
  <2>. QED BY <1>1, <1>2, <2>1, RepeatSetsSameSource
<1>9. CASE CycleRepeatMode
  <2>1. PICK t : /\ Commit([App EXCEPT !.session = t])
                 /\ \/ t = RepeatAllSet(session, TRUE)
                    \/ t = RepeatOneSet(session, TRUE)
                    \/ t = [session EXCEPT !.repeatAll = FALSE, !.repeatOne = FALSE]
    BY <1>1, <1>9 DEF CycleRepeatMode
  <2>. QED BY <1>1, <1>2, <2>1, RepeatSetsSameSource
<1>10. CASE CycleMainMenuMode
  <2>1. CASE session.shuffle
    <3>1. PICK w \in ShuffleSet(App, FALSE) :
            Commit([w EXCEPT !.session = RepeatAllSet(@, TRUE)])
      BY <1>10, <2>1 DEF CycleMainMenuMode
    <3>. DEFINE t == RepeatAllSet(w.session, TRUE)
                v == [w EXCEPT !.session = t]
    <3>2. Sound(w)
      BY ShuffleSetFollows DEF Follows
    <3>3. w \in AppType /\ w.session \in SessionType
      BY <3>2 DEF Sound, AppType
    <3>4. Heard(w)
      BY ShuffleSetHeard
    <3>5. SameSource(w.session, t)
      BY <3>3, RepeatSetsSameSource
    <3>6. Commit(v)
      BY <3>1
    <3>. HIDE DEF t
    <3>7. Undisturbed(w, v)
      BY <3>3, <3>5, SourceUndisturbed
    <3>. HIDE DEF v
    <3>. QED BY <3>4, <3>6, <3>7, UndisturbedHeard, CommitHeard
  <2>2. CASE ~session.shuffle /\ session.repeatAll
    <3>. DEFINE r == RepeatAllSet(session, FALSE)
                t == RepeatOneSet(r, TRUE)
    <3>1. Commit([App EXCEPT !.session = t])
      BY <1>1, <1>10, <2>2 DEF CycleMainMenuMode
    <3>2. SameSource(session, r) /\ r \in SessionType
      BY <1>1, RepeatSetsSameSource, RepeatSetsSameItem DEF Sound, SameItem
    <3>. HIDE DEF r
    <3>3. SameSource(session, t)
      BY <3>2, RepeatSetsSameSource, SameSourceTransitive
    <3>. HIDE DEF t
    <3>. QED BY <1>2, <3>1, <3>3
  <2>3. CASE ~session.shuffle /\ ~session.repeatAll /\ session.repeatOne
    <3>. DEFINE r == RepeatOneSet(session, FALSE)
                t == RepeatAllSet(r, FALSE)
    <3>1. Commit([App EXCEPT !.session = t])
      BY <1>1, <1>10, <2>3 DEF CycleMainMenuMode
    <3>2. SameSource(session, r) /\ r \in SessionType
      BY <1>1, RepeatSetsSameSource, RepeatSetsSameItem DEF Sound, SameItem
    <3>. HIDE DEF r
    <3>3. SameSource(session, t)
      BY <3>2, RepeatSetsSameSource, SameSourceTransitive
    <3>. HIDE DEF t
    <3>. QED BY <1>2, <3>1, <3>3
  <2>4. CASE ~session.shuffle /\ ~session.repeatAll /\ ~session.repeatOne
    <3>1. \E w \in ShuffleSet(App, TRUE) : Commit(w)
      BY <1>10, <2>4 DEF CycleMainMenuMode
    <3>. QED BY <3>1, ShuffleSetHeard, CommitHeard
  <2>. QED BY <2>1, <2>2, <2>3, <2>4
<1>. QED BY <1>3, <1>4, <1>5, <1>6, <1>7, <1>8, <1>9, <1>10 DEF QueueCommand

LEMMA RemoteCommandHeard ==
    ASSUME Sound(App), Heard(App), RemoteCommand
    PROVE  Heard(App')
<1>1. ASSUME NEW medium \in RemoteMedia, StartRemoteItem(medium)
      PROVE  Heard(App')
  <2>. DEFINE S == UNION {UNION {StartRemoteLibraryTrack(w, id) : id \in IdsOf(w, medium)} :
                            w \in Merged(App, medium)}
  <2>1. Perform(S) /\ (IdsOf(App, medium) # {} \/ NextId(App) \in TrackIds)
    BY <1>1 DEF StartRemoteItem
  <2>2. medium \in Media
    BY PlaybackAssumption
  <2>3. ASSUME NEW o \in S PROVE Heard(o.app)
    <3>1. PICK w \in Merged(App, medium) :
            o \in UNION {StartRemoteLibraryTrack(w, id) : id \in IdsOf(w, medium)}
      OBVIOUS
    <3>2. PICK id \in IdsOf(w, medium) : o \in StartRemoteLibraryTrack(w, id)
      BY <3>1
    <3>3. w \in AppType
      BY <2>1, <2>2, <3>1, MergedFollows DEF Follows, Sound
    <3>4. id \in TrackIds
      BY DEF IdsOf
    <3>. QED BY <3>2, <3>3, <3>4, StartRemoteLibraryTrackHeard
  <2>. HIDE DEF S
  <2>. QED BY <2>1, <2>3, PerformHeard
<1>2. ASSUME NEW medium \in RemoteMedia, StartActiveStream(medium)
      PROVE  Heard(App')
  <2>1. medium \in MediumOrNone
    BY PlaybackAssumption DEF MediumOrNone
  <2>. QED BY <1>2, <2>1, StartRemoteStreamHeard, PerformHeard
           DEF StartActiveStream, Sound
<1>3. ASSUME NEW id \in TrackIds, StartActiveLibraryStream(id)
      PROVE  Heard(App')
  BY <1>3, StartRemoteLibraryTrackHeard, PerformHeard DEF StartActiveLibraryStream, Sound
<1>. QED BY <1>1, <1>2, <1>3 DEF RemoteCommand

\* A scan that gives the id of the current item to another medium.
Reassigns(scanned) ==
    /\ Rescan(scanned)
    /\ session.current # NoTrack
    /\ scanned.medium[session.current] # library.medium[session.current]

LEMMA SurroundingsHeard ==
    ASSUME Sound(App), Heard(App), Surroundings
    PROVE  Heard(App') \/ \E scanned \in Libraries : Reassigns(scanned)
<1>1. backend \in BackendType
  BY DEF Sound, AppType, App
<1>2. CASE Backend
  <2>1. /\ session' = session /\ library' = library
        /\ backend'.medium = backend.medium
    <3>1. CASE BackendStarts
      BY <1>1, <3>1 DEF BackendStarts, BackendType
    <3>2. CASE BackendPlays
      BY <1>1, <3>2 DEF BackendPlays, BackendType
    <3>3. CASE BackendFinishes
      BY <1>1, <3>3 DEF BackendFinishes, BackendType
    <3>4. CASE BackendFails
      BY <1>1, <3>4 DEF BackendFails, BackendType
    <3>. QED BY <1>2, <3>1, <3>2, <3>3, <3>4 DEF Backend
  <2>. QED BY <2>1 DEF Heard, Shown, App
<1>3. ASSUME NEW request \in lookup.running, LookupAnswers(request) PROVE Heard(App')
  BY <1>3 DEF LookupAnswers, Heard, Shown, App
<1>4. ASSUME NEW list \in SongLists, BrowseSongs(list) PROVE Heard(App')
  BY <1>4 DEF BrowseSongs, Heard, Shown, App
<1>5. ASSUME NEW scanned \in Libraries, Rescan(scanned)
      PROVE  Heard(App') \/ Reassigns(scanned)
  BY <1>5 DEF Rescan, Reassigns, Heard, Shown, App
<1>. QED BY <1>2, <1>3, <1>4, <1>5 DEF Surroundings

LEMMA TickHeard ==
    ASSUME Sound(App), Heard(App), Ticks
    PROVE  Heard(App')
<1>1. PICK delta \in 0..MaxDelta : Tick(delta)
  BY DEF Ticks
<1>. DEFINE v == ApplyPending(App)
<1>2. PICK w \in TickBackend(v, delta) : Commit(w)
  BY <1>1 DEF Tick
<1>3. Sound(v) /\ Undisturbed(App, v)
  BY ApplyPendingSound DEF Undisturbed
<1>. HIDE DEF v
<1>4. Heard(v)
  BY <1>3, UndisturbedHeard
<1>5. Heard(w)
  BY <1>2, <1>3, <1>4, PlaybackAssumption, TickBackendHeard
<1>. QED BY <1>2, <1>5, CommitHeard

LEMMA NextHeard ==
    ASSUME Sound(App), Heard(App), [Next]_vars
    PROVE  Heard(App') \/ \E scanned \in Libraries : Reassigns(scanned)
<1>1. CASE UNCHANGED vars
  <2>1. App' = App
    BY <1>1 DEF vars, App
  <2>. QED BY <2>1
<1>. QED BY <1>1, TransportHeard, QueueCommandHeard, RemoteCommandHeard,
            SurroundingsHeard, TickHeard DEF Next

LEMMA HeardIsCurrentMeans == Heard(App) <=> HeardIsCurrent
BY DEF Heard, Shown, HeardIsCurrent, App

\* Only a scan may part the sound from the item on show, and only one that
\* gives the id of that item to another medium.
OnlyScansReassign ==
    [][HeardIsCurrent =>
         HeardIsCurrent' \/ \E scanned \in Libraries : Reassigns(scanned)]_vars

\* No command, tick, backend event or answer makes the session show another
\* item than the one that sounds, whatever fails on the way: that takes a scan
\* that reuses the current id.
THEOREM ScansAloneReassign == Spec => OnlyScansReassign
<1>1. IInv /\ [Next]_vars =>
        [HeardIsCurrent =>
           HeardIsCurrent' \/ \E scanned \in Libraries : Reassigns(scanned)]_vars
  <2>. SUFFICES ASSUME IInv, [Next]_vars, HeardIsCurrent
                PROVE  HeardIsCurrent' \/ \E scanned \in Libraries : Reassigns(scanned)
    OBVIOUS
  <2>1. Heard(App)
    BY HeardIsCurrentMeans
  <2>2. Heard(App') \/ \E scanned \in Libraries : Reassigns(scanned)
    BY <2>1, NextHeard DEF IInv
  <2>3. Heard(App') => HeardIsCurrent'
    BY DEF Heard, Shown, HeardIsCurrent, App
  <2>. QED BY <2>2, <2>3
<1>. QED BY <1>1, InvariantHolds, PTL DEF Spec, OnlyScansReassign

\* While no scan runs, what is heard is the item on show, for every library,
\* queue, duration and sequence of commands.
THEOREM HeardStaysCurrent ==
    ASSUME "rescan" \notin Commands
    PROVE  Spec => []HeardIsCurrent
<1>1. Init => HeardIsCurrent
  BY DEF Init, HeardIsCurrent
<1>2. IInv /\ HeardIsCurrent /\ [Next]_vars => HeardIsCurrent'
  <2>. SUFFICES ASSUME IInv, HeardIsCurrent, [Next]_vars PROVE HeardIsCurrent'
    OBVIOUS
  <2>1. Heard(App') \/ \E scanned \in Libraries : Reassigns(scanned)
    BY HeardIsCurrentMeans, NextHeard DEF IInv
  <2>2. ~\E scanned \in Libraries : Reassigns(scanned)
    BY DEF Reassigns, Rescan
  <2>. QED BY <2>1, <2>2 DEF Heard, Shown, HeardIsCurrent, App
<1>. QED BY <1>1, <1>2, InvariantHolds, PTL DEF Spec
=============================================================================
