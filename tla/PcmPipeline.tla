----------------------------- MODULE PcmPipeline ----------------------------
(***************************************************************************)
(* The PCM backend (src/audio/output/host_audio_playback_backend.cpp with  *)
(* the children of src/platform/host/runtime_process.cpp).  A pipeline is  *)
(* a decoder process, a sink process and a worker thread that moves audio  *)
(* from one to the other.  The session's calls come one at a time, from    *)
(* the control thread; a start stops the current pipeline's processes and  *)
(* retires it without waiting for its worker.  The children, the workers   *)
(* and the control thread interleave: the worker's handles are not locked. *)
(***************************************************************************)
EXTENDS Integers, Sequences

CONSTANTS Pipelines,   \* the pipelines that may exist at a time
          NoPipeline,
          Control,     \* the thread that carries the session's calls
          Chunks,      \* audio a decoder delivers
          PipeSize     \* what a pipe holds

ASSUME PipelineAssumption ==
    /\ NoPipeline \notin Pipelines
    /\ Control \notin Pipelines
    /\ Chunks \in Nat \ {0}
    /\ PipeSize \in Nat \ {0}

Threads == Pipelines \cup {Control}   \* a worker is named by its pipeline
Parts == {"decoder", "sink"}

VARIABLES flags,     \* each pipeline's flags
          child,     \* its processes, and whether their handles are held
          audio,     \* its audio, from the decoder to the sink's pipe
          at,        \* where each thread is
          current,   \* pcm_pipeline_
          retired,   \* retired_pcm_pipelines_; nothing depends on their order
          subject,   \* the pipeline the control thread is stopping
          launch,    \* the pipeline a start is to launch
          signals    \* the children a pause or resume has yet to signal

vars == <<flags, child, audio, at, current, retired, subject, launch, signals>>
control == <<current, retired, subject, launch, signals>>

NoFlags == [stop |-> FALSE, done |-> FALSE, started |-> FALSE, finished |-> FALSE,
            failed |-> FALSE, paused |-> FALSE, wrote |-> FALSE, mute |-> FALSE]
NoChild == [life |-> "none", held |-> FALSE]
NoAudio == [left |-> Chunks, piped |-> 0, sunk |-> 0, open |-> FALSE]

Init ==
    /\ flags = [p \in Pipelines |-> NoFlags]
    /\ child = [h \in Parts |-> [p \in Pipelines |-> NoChild]]
    /\ audio = [p \in Pipelines |-> NoAudio]
    /\ at = [t \in Threads |-> IF t = Control THEN "idle" ELSE "none"]
    /\ current = NoPipeline
    /\ retired = {}
    /\ subject = NoPipeline
    /\ launch = NoPipeline
    /\ signals = <<>>

Goes(t, place) == at' = [at EXCEPT ![t] = place]

-----------------------------------------------------------------------------
(* Children. *)

Alive(h, p) == child[h][p].life \in {"running", "stopped"}

\* What pipeProcessRunning and inputProcessRunning answer.
Answers(h, p) == child[h][p].held /\ Alive(h, p)

\* The child is gone and collected, its handle closed.  What the sink had not
\* played and the decoder's pipe still held is lost.
LetGo(h, p) ==
    /\ child' = [child EXCEPT ![h][p] = [life |-> "gone", held |-> FALSE]]
    /\ audio' = IF h = "sink"
                THEN [audio EXCEPT ![p].open = FALSE, ![p].sunk = 0]
                ELSE [audio EXCEPT ![p].left = 0, ![p].piped = 0]

Spawned(h, p) == [child EXCEPT ![h][p] = [life |-> "running", held |-> TRUE]]

-----------------------------------------------------------------------------
(* The state the session sees. *)

Status(f) ==
    IF f.failed THEN "Failed" ELSE IF f.finished THEN "Finished"
    ELSE IF f.paused THEN "Paused" ELSE IF f.started THEN "Playing" ELSE "Starting"

Seen == IF current = NoPipeline THEN "Idle" ELSE Status(flags[current])

-----------------------------------------------------------------------------
(* The worker of pipeline p. *)

Failed(f) == [f EXCEPT !.stop = TRUE, !.failed = TRUE, !.paused = FALSE]

Read(p) ==
    /\ at[p] = "read"
    /\ \/ /\ flags[p].stop
          /\ Goes(p, "eof") /\ UNCHANGED audio
       \/ /\ ~flags[p].stop /\ child["decoder"][p].held /\ audio[p].piped > 0
          /\ Goes(p, "write") /\ audio' = [audio EXCEPT ![p].piped = @ - 1]
       \/ /\ ~flags[p].stop /\ child["decoder"][p].held /\ audio[p].piped = 0
          /\ Goes(p, IF Alive("decoder", p) THEN "probe" ELSE "eof")
          /\ UNCHANGED audio
       \/ /\ ~flags[p].stop /\ ~child["decoder"][p].held
          /\ Goes(p, "eof") /\ UNCHANGED audio
    /\ UNCHANGED <<flags, child, control>>

\* Mutant: the sink is not looked at.
ProbeDecoder(p) ==
    /\ at[p] = "probe"
    /\ \/ /\ ~Answers("decoder", p)
          /\ LetGo("decoder", p)
          /\ Goes(p, "eof")
       \/ /\ Answers("decoder", p)
          /\ Goes(p, "read") /\ UNCHANGED <<child, audio>>
    /\ UNCHANGED <<flags, control>>

\* Nothing to read: the worker looks whether its children are still there.
\* What the decoder wrote since the read is dropped with its handle.
Probe(p) ==
    /\ at[p] = "probe"
    /\ \/ /\ ~Answers("decoder", p)
          /\ LetGo("decoder", p)
          /\ Goes(p, "eof") /\ UNCHANGED flags
       \/ /\ Answers("decoder", p) /\ ~Answers("sink", p)
          /\ LetGo("sink", p)
          /\ flags' = [flags EXCEPT ![p] = Failed(@)]
          /\ Goes(p, "eof")
       \/ /\ Answers("decoder", p) /\ Answers("sink", p)
          /\ Goes(p, "read") /\ UNCHANGED <<flags, child, audio>>
    /\ UNCHANGED control

Wrote(p) ==
    /\ audio' = [audio EXCEPT ![p].sunk = @ + 1]
    /\ flags' = [flags EXCEPT ![p].wrote = TRUE]
    /\ Goes(p, "read")

WriteFails(p) ==
    /\ flags' = [flags EXCEPT ![p] = Failed(@)]
    /\ Goes(p, "read")
    /\ UNCHANGED audio

\* Mutant: a full pipe is taken to have room.
WriteOverfull(p) ==
    /\ at[p] = "write"
    /\ IF flags[p].stop \/ ~audio[p].open \/ ~Answers("sink", p)
       THEN WriteFails(p)
       ELSE Wrote(p)
    /\ UNCHANGED <<child, control>>

Write(p) ==
    /\ at[p] = "write"
    /\ IF flags[p].stop \/ ~audio[p].open \/ ~Answers("sink", p)
       THEN WriteFails(p)
       ELSE IF audio[p].sunk < PipeSize
       THEN Wrote(p)
       ELSE Goes(p, "blocked") /\ UNCHANGED <<flags, audio>>
    /\ UNCHANGED <<child, control>>

\* A write that blocks on a full pipe looks at no flag: it ends when the sink
\* has made room or is gone.
BlockedWrite(p) ==
    /\ at[p] = "blocked"
    /\ \/ ~Alive("sink", p) /\ WriteFails(p)
       \/ Alive("sink", p) /\ audio[p].sunk < PipeSize /\ Wrote(p)
    /\ UNCHANGED <<child, control>>

\* Mutant: a stream that was never heard is drained like any other.
EofUnheard(p) ==
    /\ at[p] = "eof"
    /\ \/ /\ flags[p].stop
          /\ Goes(p, "stopDecoder") /\ UNCHANGED <<flags, audio>>
       \/ /\ ~flags[p].stop
          /\ audio' = [audio EXCEPT ![p].open = FALSE]
          /\ Goes(p, "drain") /\ UNCHANGED flags
    /\ UNCHANGED <<child, control>>

Eof(p) ==
    /\ at[p] = "eof"
    /\ \/ /\ flags[p].stop
          /\ Goes(p, "stopDecoder") /\ UNCHANGED <<flags, audio>>
       \/ /\ ~flags[p].stop
          /\ audio' = [audio EXCEPT ![p].open = FALSE]
          /\ flags' = [flags EXCEPT ![p].mute = ~flags[p].wrote]
          /\ Goes(p, IF flags[p].wrote THEN "drain" ELSE "stopDecoder")
    /\ UNCHANGED <<child, control>>

\* The sink plays what it holds and exits.  Three seconds are ample for that,
\* so only a sink that a pause has stopped outlasts the worker's patience.
Drain(p) ==
    /\ at[p] = "drain"
    /\ \/ ~Answers("sink", p) /\ LetGo("sink", p)
       \/ child["sink"][p].life = "stopped" /\ UNCHANGED <<child, audio>>
    /\ Goes(p, "stopDecoder")
    /\ UNCHANGED <<flags, control>>

\* mute: the stream ended before anything was written.
Concluded(f) ==
    IF f.mute THEN Failed(f)
    ELSE IF f.stop THEN f
    ELSE [f EXCEPT !.finished = ~f.failed, !.paused = FALSE]

Conclude(p) ==
    /\ at[p] = "conclude"
    /\ flags' = [flags EXCEPT ![p] = [Concluded(@) EXCEPT !.done = TRUE]]
    /\ Goes(p, "ended")
    /\ UNCHANGED <<child, audio, control>>

-----------------------------------------------------------------------------
(* Stopping a pipeline's children, as its worker and the control thread do  *)
(* (requestStop and the end of run), at times both at once.  SIGTERM, SIGKILL *)
(* after 450 ms and the wait: a child that is still held is gone in the end.  *)

StopChild(h, p) == IF child[h][p].held THEN LetGo(h, p) ELSE UNCHANGED <<child, audio>>

StopDecoder(t, p) ==
    /\ at[t] = "stopDecoder"
    /\ StopChild("decoder", p)
    /\ Goes(t, "stopSink")
    /\ UNCHANGED <<flags, control>>

\* Mutant: the sink plays on.
StopNoSink(t, p) ==
    /\ at[t] = "stopSink"
    /\ Goes(t, IF t = Control THEN "stopped" ELSE "conclude")
    /\ UNCHANGED <<flags, child, audio, control>>

StopSink(t, p) ==
    /\ at[t] = "stopSink"
    /\ StopChild("sink", p)
    /\ Goes(t, IF t = Control THEN "stopped" ELSE "conclude")
    /\ UNCHANGED <<flags, control>>

StopChildren(t, p) == StopDecoder(t, p) \/ StopSink(t, p)

Worker(p) ==
    \/ Read(p) \/ Probe(p) \/ Write(p) \/ BlockedWrite(p) \/ Eof(p) \/ Drain(p) \/ Conclude(p)
    \/ StopChildren(p, p)

-----------------------------------------------------------------------------
(* The control thread: stop and start. *)

\* requestStop of pipeline p.
RequestStop(p) ==
    /\ flags' = [flags EXCEPT ![p].stop = TRUE]
    /\ subject' = p
    /\ Goes(Control, "stopDecoder")

\* playFile and playUri stop what plays, stop() does so for good.
Begin(next) ==
    /\ at[Control] = "idle"
    /\ launch' = next
    /\ \/ current # NoPipeline /\ RequestStop(current)
       \/ current = NoPipeline /\ Goes(Control, "drain") /\ UNCHANGED <<flags, subject>>
    /\ UNCHANGED <<child, audio, current, retired, signals>>

\* A new pipeline; any free name will do.
Play ==
    /\ \E p \in Pipelines : at[p] = "none"
    /\ Begin(CHOOSE p \in Pipelines : at[p] = "none")

Stop == Begin(NoPipeline)

\* A restart does not wait for the worker.  Of a retired pipeline's flags only
\* stop and done are read again; the others are forgotten here.
Retire ==
    /\ at[Control] = "stopped" /\ subject = current /\ launch # NoPipeline
    /\ retired' = retired \cup {current}
    /\ current' = NoPipeline
    /\ subject' = NoPipeline
    /\ Goes(Control, "launch")
    /\ flags' = [flags EXCEPT ![current] =
                    [NoFlags EXCEPT !.stop = TRUE, !.done = flags[current].done]]
    /\ UNCHANGED <<child, audio, launch, signals>>

\* Pipelines that are joined and destroyed; their names are free again.
Forget(ps) ==
    /\ flags' = [p \in Pipelines |-> IF p \in ps THEN NoFlags ELSE flags[p]]
    /\ child' = [h \in Parts |-> [p \in Pipelines |->
                   IF p \in ps THEN NoChild ELSE child[h][p]]]
    /\ audio' = [p \in Pipelines |-> IF p \in ps THEN NoAudio ELSE audio[p]]

\* Mutant: a joined pipeline stays in the list.
JoinKeeping ==
    /\ at[Control] = "stopped"
    /\ \/ subject = current /\ launch = NoPipeline
       \/ subject \in retired
    /\ at[subject] = "ended"
    /\ current' = IF subject = current THEN NoPipeline ELSE current
    /\ subject' = NoPipeline
    /\ Goes(Control, "drain")
    /\ UNCHANGED <<flags, child, audio, retired, launch, signals>>

\* waitForStop joins the worker.
Join ==
    /\ at[Control] = "stopped"
    /\ \/ subject = current /\ launch = NoPipeline
       \/ subject \in retired
    /\ at[subject] = "ended"
    /\ Forget({subject})
    /\ current' = IF subject = current THEN NoPipeline ELSE current
    /\ retired' = retired \ {subject}
    /\ subject' = NoPipeline
    /\ at' = [at EXCEPT ![Control] = "drain", ![subject] = "none"]
    /\ UNCHANGED <<launch, signals>>

\* drainRetiredPcmPipelines stops and joins one after the other.
DrainRetired ==
    /\ at[Control] = "drain"
    /\ \/ \E p \in retired : RequestStop(p)
       \/ /\ retired = {}
          /\ Goes(Control, IF launch = NoPipeline THEN "idle" ELSE "launch")
          /\ UNCHANGED <<flags, subject>>
    /\ UNCHANGED <<child, audio, current, retired, launch, signals>>

\* A missing file leaves the call at once.
Launch ==
    /\ at[Control] = "launch"
    /\ \/ /\ Goes(Control, "idle")
          /\ launch' = NoPipeline /\ UNCHANGED <<child, audio>>
       \/ /\ Goes(Control, "reclaim") /\ UNCHANGED <<child, audio, launch>>
       \/ /\ child' = Spawned("sink", launch)
          /\ audio' = [audio EXCEPT ![launch].open = TRUE]
          /\ Goes(Control, "launchDecoder") /\ UNCHANGED launch
    /\ UNCHANGED <<flags, current, retired, subject, signals>>

\* Mutant: a decoder that does not start leaves its sink behind.
LaunchLeavingSink ==
    /\ at[Control] = "launchDecoder"
    /\ \/ /\ Goes(Control, "reclaim")
          /\ UNCHANGED <<child, current, subject>>
       \/ /\ child' = Spawned("decoder", launch)
          /\ current' = launch
          /\ at' = [at EXCEPT ![launch] = "read", ![Control] = "reclaim"]
          /\ UNCHANGED subject
    /\ UNCHANGED <<flags, audio, retired, launch, signals>>

LaunchDecoder ==
    /\ at[Control] = "launchDecoder"
    /\ \/ /\ subject' = launch
          /\ Goes(Control, "stopSink")
          /\ UNCHANGED <<child, current>>
       \/ /\ child' = Spawned("decoder", launch)
          /\ current' = launch
          /\ at' = [at EXCEPT ![launch] = "read", ![Control] = "reclaim"]
          /\ UNCHANGED subject
    /\ UNCHANGED <<flags, audio, retired, launch, signals>>

\* The pipeline that could not start is destroyed.
Discard ==
    /\ at[Control] = "stopped" /\ subject # current /\ subject = launch
    /\ Forget({launch})
    /\ subject' = NoPipeline
    /\ Goes(Control, "reclaim")
    /\ UNCHANGED <<current, retired, launch, signals>>

\* reclaimRetiredPcmPipelines joins the workers that are done.
Reclaim ==
    /\ at[Control] = "reclaim"
    /\ LET ended == {p \in retired : flags[p].done}
       IN  /\ Forget(ended)
           /\ retired' = retired \ ended
           /\ at' = [t \in Threads |-> IF t = Control THEN "idle"
                                       ELSE IF t \in ended THEN "none" ELSE at[t]]
    /\ launch' = NoPipeline
    /\ UNCHANGED <<current, subject, signals>>

-----------------------------------------------------------------------------
(* The control thread: pause, resume and the state. *)

Pause ==
    /\ at[Control] = "idle" /\ Seen \in {"Starting", "Playing"}
    /\ flags' = [flags EXCEPT ![current].paused = TRUE]
    /\ signals' = <<"decoder", "sink">>
    /\ Goes(Control, "haltGroup")
    /\ UNCHANGED <<child, audio, current, retired, subject, launch>>

\* Mutant: only the sink goes on.
ResumeSink ==
    /\ at[Control] = "idle" /\ Seen = "Paused"
    /\ flags' = [flags EXCEPT ![current].paused = FALSE]
    /\ signals' = <<"sink">>
    /\ Goes(Control, "contGroup")
    /\ UNCHANGED <<child, audio, current, retired, subject, launch>>

Resume ==
    /\ at[Control] = "idle" /\ Seen = "Paused"
    /\ flags' = [flags EXCEPT ![current].paused = FALSE]
    /\ signals' = <<"sink", "decoder">>
    /\ Goes(Control, "contGroup")
    /\ UNCHANGED <<child, audio, current, retired, subject, launch>>

Signalled(c, halt) ==
    LET from == IF halt THEN "running" ELSE "stopped"
        to   == IF halt THEN "stopped" ELSE "running"
    IN  IF c.life = from THEN [c EXCEPT !.life = to] ELSE c

\* kill(-pid): the handle is looked at first.
SignalGroup(halt) ==
    /\ at[Control] = (IF halt THEN "haltGroup" ELSE "contGroup")
    /\ LET h == Head(signals)
       IN  IF child[h][current].held
           THEN /\ child' = [child EXCEPT ![h][current] = Signalled(@, halt)]
                /\ Goes(Control, IF halt THEN "haltChild" ELSE "contChild")
                /\ UNCHANGED signals
           ELSE /\ signals' = Tail(signals)
                /\ Goes(Control, IF Len(signals) = 1 THEN "idle" ELSE at[Control])
                /\ UNCHANGED child
    /\ UNCHANGED <<flags, audio, current, retired, subject, launch>>

\* kill(pid) reads the pid again: once the worker has let go of the child it
\* is -1, and the signal goes to every process of the user.
SignalChild(halt) ==
    /\ at[Control] = (IF halt THEN "haltChild" ELSE "contChild")
    /\ child' = IF child[Head(signals)][current].held
                THEN [child EXCEPT ![Head(signals)][current] = Signalled(@, halt)]
                ELSE [h \in Parts |-> [p \in Pipelines |-> Signalled(child[h][p], halt)]]
    /\ signals' = Tail(signals)
    /\ Goes(Control, IF Len(signals) = 1 THEN "idle"
                     ELSE IF halt THEN "haltGroup" ELSE "contGroup")
    /\ UNCHANGED <<flags, audio, current, retired, subject, launch>>

\* state() notices that output has been going for long enough.
Confirm ==
    /\ at[Control] = "idle" /\ Seen = "Starting" /\ flags[current].wrote
    /\ flags' = [flags EXCEPT ![current].started = TRUE]
    /\ UNCHANGED <<child, audio, at, control>>

ControlGoesOn ==
    \/ StopChildren(Control, subject)
    \/ Retire \/ Join \/ DrainRetired \/ Launch \/ LaunchDecoder \/ Discard \/ Reclaim
    \/ \E halt \in BOOLEAN : SignalGroup(halt) \/ SignalChild(halt)

Call == Play \/ Stop \/ Pause \/ Resume \/ Confirm

-----------------------------------------------------------------------------
(* The children: each may exit at any time while it runs. *)

Decode(p) ==
    /\ child["decoder"][p].life = "running" /\ child["decoder"][p].held
    /\ audio[p].left > 0 /\ audio[p].piped < PipeSize
    /\ audio' = [audio EXCEPT ![p].left = @ - 1, ![p].piped = @ + 1]
    /\ UNCHANGED <<flags, child, at, control>>

Sound(p) ==
    /\ child["sink"][p].life = "running" /\ audio[p].sunk > 0
    /\ audio' = [audio EXCEPT ![p].sunk = @ - 1]
    /\ UNCHANGED <<flags, child, at, control>>

Exit(h, p) ==
    /\ child[h][p].life = "running"
    /\ child' = [child EXCEPT ![h][p].life = "zombie"]
    /\ UNCHANGED <<flags, audio, at, control>>

SinkEnds(p) == ~audio[p].open /\ audio[p].sunk = 0 /\ Exit("sink", p)

Child(p) == Decode(p) \/ Sound(p) \/ \E h \in Parts : Exit(h, p)

Next == Call \/ ControlGoesOn \/ \E p \in Pipelines : Worker(p) \/ Child(p)

Spec == Init /\ [][Next]_vars

(***************************************************************************)
(* Threads inside a call go on; a sink that runs plays what it is given    *)
(* and exits at the end of its input.  A decoder may hang.                 *)
(***************************************************************************)
Fairness ==
    /\ WF_vars(ControlGoesOn)
    /\ \A p \in Pipelines : WF_vars(Worker(p)) /\ WF_vars(Sound(p) \/ SinkEnds(p))

FairSpec == Spec /\ Fairness

-----------------------------------------------------------------------------
(* Properties. *)

FlagsType == [stop : BOOLEAN, done : BOOLEAN, started : BOOLEAN, finished : BOOLEAN,
              failed : BOOLEAN, paused : BOOLEAN, wrote : BOOLEAN, mute : BOOLEAN]
ChildType == [life : {"none", "running", "stopped", "zombie", "gone"}, held : BOOLEAN]
AudioType == [left : 0..Chunks, piped : 0..PipeSize, sunk : 0..PipeSize, open : BOOLEAN]

StopPlaces == {"stopDecoder", "stopSink"}
WorkerPlaces == StopPlaces \cup
    {"none", "read", "probe", "write", "blocked", "eof", "drain", "conclude", "ended"}
ControlPlaces == StopPlaces \cup
    {"idle", "stopped", "drain", "launch", "launchDecoder", "reclaim",
     "haltGroup", "haltChild", "contGroup", "contChild"}

\* The type invariant: the pipes hold what they can and every thread is at a
\* place of its own code.
TypeOK ==
    /\ flags \in [Pipelines -> FlagsType]
    /\ child \in [Parts -> [Pipelines -> ChildType]]
    /\ audio \in [Pipelines -> AudioType]
    /\ \A p \in Pipelines : at[p] \in WorkerPlaces
    /\ at \in [Threads -> WorkerPlaces \cup ControlPlaces]
    /\ at[Control] \in ControlPlaces
    /\ current \in Pipelines \cup {NoPipeline}
    /\ retired \in SUBSET Pipelines
    /\ subject \in Pipelines \cup {NoPipeline}
    /\ launch \in Pipelines \cup {NoPipeline}
    /\ signals \in Seq(Parts)

(* Two tracks are never heard at once: however fast tracks are switched, no  *)
(* sink starts before the one of the pipeline retired for it has exited      *)
(* (requestPcmStopForRestart before startWithoutStoppingCurrent).             *)
OneVoice ==
    \A p, q \in Pipelines : Alive("sink", p) /\ Alive("sink", q) => p = q

(* Between calls a backend without a current pipeline has no process left,   *)
(* also after starts that failed half way and while retired workers are       *)
(* still ending.                                                              *)
IdleHasNoChildren ==
    at[Control] = "idle" /\ current = NoPipeline =>
      \A h \in Parts, p \in Pipelines : child[h][p].life \in {"none", "gone"}

(* Between calls the processes follow the pause: a paused pipeline's sink    *)
(* does not run and one that plays has no process left stopped, whatever its *)
(* worker does to the handles while the signals go out.                       *)
SignalsFollowThePause ==
    at[Control] = "idle" /\ current # NoPipeline =>
      /\ Seen = "Paused" => child["sink"][current].life # "running"
      /\ Seen \in {"Starting", "Playing"} =>
           \A h \in Parts : child[h][current].life # "stopped"

(* The states the session sees come in the order an audio backend promises:  *)
(* finished only after sound, nothing after finished or failed but a stop.    *)
Promise == INSTANCE AudioBackend WITH
    state <- Seen,
    sounded <- current # NoPipeline /\ flags[current].wrote
KeepsThePromise == Promise!Spec

(* A child that exits does not leave a session in Playing or Starting: the   *)
(* pipeline finishes or fails, also when the decoder hangs and only the sink  *)
(* is gone (implementation-status.md, 0.2.6).                                 *)
ExitIsNoticed ==
    (/\ Seen \in {"Starting", "Playing"}
     /\ \E h \in Parts : ~Alive(h, current))
    ~> Seen \notin {"Starting", "Playing"}

(* Every call returns: a stop that joins workers is not held up by one that  *)
(* is blocked on a full pipe or waits for a stopped sink.                     *)
CallsReturn == at[Control] # "idle" ~> at[Control] = "idle"
=============================================================================
