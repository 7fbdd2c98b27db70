------------------------- MODULE PcmPipelineProofs --------------------------
(***************************************************************************)
(* For any number of pipelines and any sizes: the backend keeps its types, *)
(* one sink at most lives, none without a current pipeline, the children   *)
(* follow a pause, and the states come in the promised order.              *)
(***************************************************************************)
EXTENDS PcmPipeline, TLAPS

Halting == {"haltGroup", "haltChild"}
Continuing == {"contGroup", "contChild"}
Active == {"Starting", "Playing", "Paused"}

\* The places of the control thread between a start's begin and its launch.
Preparing == StopPlaces \cup {"stopped", "drain", "launch", "launchDecoder"}

\* A handle is held as long as the child is there to be collected.
HeldRight ==
    \A h \in Parts, p \in Pipelines :
      child[h][p].held <=> child[h][p].life \in {"running", "stopped", "zombie"}

\* Only the current pipeline has children, but for the sink of one being launched.
ChildrenInPlace ==
    \A h \in Parts, p \in Pipelines : child[h][p].held =>
      \/ p = current
      \/ /\ current = NoPipeline /\ p = launch /\ h = "sink"
         /\ at[Control] \in {"launchDecoder", "stopSink"}

\* Where the control thread is says what is current, and what is still held.
Course ==
    /\ at[Control] \in StopPlaces \cup {"stopped"} =>
         subject \in Pipelines /\ (subject = current \/ current = NoPipeline)
    /\ at[Control] \in {"drain", "launch", "launchDecoder"} => current = NoPipeline
    /\ at[Control] \in {"launch", "launchDecoder"} => launch \in Pipelines
    /\ at[Control] = "stopSink" =>
         \A h \in Parts, p \in Pipelines : child[h][p].held => p = subject /\ h = "sink"
    /\ at[Control] = "stopped" => \A h \in Parts, p \in Pipelines : ~child[h][p].held

\* A worker's place says what its flags can be.
Fresh(f) == ~f.started /\ ~f.finished /\ ~f.failed /\ ~f.paused /\ ~f.wrote

InOrder(place, f) ==
    /\ place = "none" => Fresh(f)
    /\ f.finished => place = "ended"
    /\ f.failed => /\ f.stop
                   /\ place \in StopPlaces \cup {"read", "eof", "conclude", "ended"}
    /\ f.started => f.wrote
    /\ place \in StopPlaces \cup {"drain", "conclude"} /\ ~f.mute /\ ~f.stop => f.wrote

\* Pipelines that are current or retired have a worker, one to be launched has none.
Workers ==
    /\ \A p \in Pipelines : InOrder(at[p], flags[p])
    /\ \A p \in retired : at[p] # "none" /\ p # current
    /\ current \in Pipelines => at[current] # "none"
    /\ at[Control] \in Preparing /\ launch \in Pipelines => at[launch] = "none"

\* How far the signals of a pause or a resume have gone.
Signalling ==
    /\ at[Control] \in Halting =>
         /\ current \in Pipelines /\ signals \in {<<"decoder", "sink">>, <<"sink">>}
         /\ Status(flags[current]) \in {"Paused", "Failed", "Finished"}
    /\ at[Control] \in Continuing =>
         /\ current \in Pipelines /\ Status(flags[current]) # "Paused"
         /\ \/ signals = <<"sink", "decoder">>
            \/ signals = <<"decoder">> /\ child["sink"][current].life # "stopped"
    /\ at[Control] = "launchDecoder" => child["sink"][launch].life # "stopped"
    /\ at[Control] = "reclaim" /\ current # NoPipeline =>
         /\ Status(flags[current]) # "Paused"
         /\ \A h \in Parts : child[h][current].life # "stopped"
    /\ SignalsFollowThePause

Orderly ==
    /\ TypeOK
    /\ HeldRight /\ ChildrenInPlace /\ Course
    /\ Workers
    /\ Signalling

-----------------------------------------------------------------------------
(* What a worker and the children may do to flags and handles.             *)

\* The flags of one pipeline go on by themselves only as the session is promised.
Ripens(f, g) ==
    \/ Status(g) = Status(f) /\ g.wrote = f.wrote
    \/ Status(f) \in Active /\ Status(g) = Status(f) /\ g.wrote
    \/ Status(f) \in Active /\ Status(g) = "Failed" /\ g.wrote = f.wrote
    \/ Status(f) \in Active /\ Status(g) = "Finished" /\ g.wrote = f.wrote /\ f.wrote

Gone == [life |-> "gone", held |-> FALSE]

\* A child can exit and be collected, and is not signalled.
Fades(c, d) ==
    \/ d = c
    \/ d = Gone
    \/ c.life = "running" /\ d = [c EXCEPT !.life = "zombie"]

\* A step of pipeline p's own threads and processes.
OwnStep(p) ==
    /\ UNCHANGED control
    /\ at'[Control] = at[Control]
    /\ \A q \in Pipelines \ {p} : flags'[q] = flags[q] /\ at'[q] = at[q]
    /\ Ripens(flags[p], flags'[p])
    /\ at'[p] = "none" <=> at[p] = "none"
    /\ InOrder(at'[p], flags'[p])
    /\ \A h \in Parts, q \in Pipelines : Fades(child[h][q], child'[h][q])

LEMMA Names ==
    /\ Control \in Threads /\ \A p \in Pipelines : p \in Threads /\ p # Control /\ p # NoPipeline
    /\ "decoder" \in Parts /\ "sink" \in Parts
  BY PipelineAssumption DEF Threads, Parts

LEMMA StatusRange == \A f : Status(f) \in Active \cup {"Failed", "Finished"}
  BY DEF Status, Active

LEMMA GoneIsTyped == Gone \in ChildType /\ NoChild \in ChildType
  BY DEF Gone, NoChild, ChildType

LEMMA FadingKeeps ==
    ASSUME NEW c \in ChildType, NEW d, Fades(c, d),
           c.held <=> c.life \in {"running", "stopped", "zombie"}
    PROVE  /\ d.held => c.held
           /\ d.life \in {"running", "stopped"} => d.life = c.life
           /\ d.held <=> d.life \in {"running", "stopped", "zombie"}
  BY DEF Fades, Gone, ChildType

LEMMA ZeroIsLeast == 0 \in 0..Chunks /\ 0 \in 0..PipeSize
  BY PipelineAssumption

\* One part of a pipeline's audio changes.
LEMMA AudioSet ==
    ASSUME NEW a \in AudioType
    PROVE  /\ \A x \in 0..Chunks : [a EXCEPT !.left = x] \in AudioType
           /\ \A x \in 0..PipeSize : [a EXCEPT !.piped = x] \in AudioType
           /\ \A x \in 0..PipeSize : [a EXCEPT !.sunk = x] \in AudioType
           /\ \A x \in BOOLEAN : [a EXCEPT !.open = x] \in AudioType
  <1>1. \A x \in 0..Chunks : [a EXCEPT !.left = x] \in AudioType
    BY DEF AudioType
  <1>2. \A x \in 0..PipeSize : [a EXCEPT !.piped = x] \in AudioType
    BY DEF AudioType
  <1>3. \A x \in 0..PipeSize : [a EXCEPT !.sunk = x] \in AudioType
    BY DEF AudioType
  <1>4. \A x \in BOOLEAN : [a EXCEPT !.open = x] \in AudioType
    BY DEF AudioType
  <1> QED
    BY <1>1, <1>2, <1>3, <1>4

\* A child that is let go.
LEMMA LetGoFades ==
    ASSUME TypeOK, NEW h \in Parts, NEW p \in Pipelines, LetGo(h, p)
    PROVE  /\ child' \in [Parts -> [Pipelines -> ChildType]]
           /\ audio' \in [Pipelines -> AudioType]
           /\ child'[h][p] = Gone
           /\ \A k \in Parts, q \in Pipelines : k # h \/ q # p => child'[k][q] = child[k][q]
           /\ \A k \in Parts, q \in Pipelines : Fades(child[k][q], child'[k][q])
  <1>1. /\ child'[h][p] = Gone
        /\ \A k \in Parts, q \in Pipelines : k # h \/ q # p => child'[k][q] = child[k][q]
        /\ child' \in [Parts -> [Pipelines -> ChildType]]
    BY GoneIsTyped DEF TypeOK, LetGo, Gone
  <1>2. audio[p] \in AudioType
    BY DEF TypeOK
  <1>3. /\ [audio[p] EXCEPT !.open = FALSE, !.sunk = 0] \in AudioType
        /\ [audio[p] EXCEPT !.left = 0, !.piped = 0] \in AudioType
    BY <1>2, AudioSet, ZeroIsLeast
  <1>4. audio' \in [Pipelines -> AudioType]
    <2>1. audio' = [audio EXCEPT ![p] = [audio[p] EXCEPT !.open = FALSE, !.sunk = 0]]
          \/ audio' = [audio EXCEPT ![p] = [audio[p] EXCEPT !.left = 0, !.piped = 0]]
      BY DEF LetGo
    <2> QED
      BY <2>1, <1>3 DEF TypeOK
  <1> QED
    BY <1>1, <1>4 DEF Fades

\* What the session sees of the current pipeline.
Onward ==
    /\ UNCHANGED current
    /\ current \in Pipelines => Ripens(flags[current], flags'[current])

\* What a step of one pipeline's own keeps of the rest.
LEMMA OwnStepKeeps ==
    ASSUME Orderly, TypeOK', NEW p \in Pipelines, OwnStep(p)
    PROVE  Orderly' /\ Onward
  <1>1. \A q \in Pipelines : /\ Ripens(flags[q], flags'[q]) /\ (at'[q] = "none" <=> at[q] = "none")
                             /\ InOrder(at'[q], flags'[q])
    BY DEF OwnStep, Orderly, Workers, Ripens
  <1>2. \A h \in Parts, q \in Pipelines :
          /\ child'[h][q].held => child[h][q].held
          /\ child'[h][q].life \in {"running", "stopped"} => child'[h][q].life = child[h][q].life
          /\ child'[h][q].held <=> child'[h][q].life \in {"running", "stopped", "zombie"}
    <2>1. \A h \in Parts, q \in Pipelines : child[h][q] \in ChildType
      BY DEF Orderly, TypeOK
    <2> QED
      BY <2>1, FadingKeeps DEF OwnStep, Orderly, HeldRight
  <1>3. at'[Control] = at[Control] /\ UNCHANGED <<current, retired, subject, launch, signals>>
    BY DEF OwnStep, control
  <1>4. HeldRight' /\ ChildrenInPlace' /\ Course'
    BY <1>2, <1>3, Names DEF Orderly, HeldRight, ChildrenInPlace, Course
  <1>5. Workers'
    BY <1>1, <1>3, Names DEF Orderly, TypeOK, Workers
  <1>6. Signalling'
    <2>1. \A q \in Pipelines : \/ Status(flags'[q]) = Status(flags[q])
                               \/ Status(flags'[q]) \in {"Failed", "Finished"}
      BY <1>1 DEF Ripens
    <2>2. current # NoPipeline => current \in Pipelines
      BY DEF Orderly, TypeOK
    <2>3. SignalsFollowThePause'
      BY <1>2, <1>3, <2>1, <2>2, Names DEF Orderly, Signalling, SignalsFollowThePause, Seen
    <2> QED
      BY <1>2, <1>3, <2>1, <2>2, <2>3, Names DEF Orderly, Signalling, Course
  <1> QED
    BY <1>1, <1>3, <1>4, <1>5, <1>6 DEF Orderly, Onward

-----------------------------------------------------------------------------
(* The worker's steps.                                                     *)

LEMMA UnchangedFades ==
    ASSUME TypeOK, UNCHANGED child
    PROVE  /\ child' \in [Parts -> [Pipelines -> ChildType]]
           /\ \A h \in Parts, q \in Pipelines : Fades(child[h][q], child'[h][q])
  BY DEF TypeOK, Fades

\* The worker of p goes to a place with flags that fit it.
LEMMA Arrival ==
    ASSUME Orderly, NEW p \in Pipelines, NEW place \in WorkerPlaces \ {"none"}, NEW g \in FlagsType,
           at[p] # "none", Goes(p, place), flags' = [flags EXCEPT ![p] = g],
           Ripens(flags[p], g), InOrder(place, g),
           child' \in [Parts -> [Pipelines -> ChildType]], audio' \in [Pipelines -> AudioType],
           \A h \in Parts, q \in Pipelines : Fades(child[h][q], child'[h][q]),
           UNCHANGED control
    PROVE  Orderly' /\ Onward
  <1>1. at' = [at EXCEPT ![p] = place] /\ at \in [Threads -> WorkerPlaces \cup ControlPlaces]
    BY DEF Goes, Orderly, TypeOK
  <1>2. /\ at'[Control] = at[Control] /\ at'[p] = place
        /\ \A q \in Pipelines \ {p} : at'[q] = at[q]
        /\ at' \in [Threads -> WorkerPlaces \cup ControlPlaces]
    BY <1>1, Names
  <1>3. /\ flags' \in [Pipelines -> FlagsType] /\ flags'[p] = g
        /\ \A q \in Pipelines \ {p} : flags'[q] = flags[q]
    BY DEF Orderly, TypeOK
  <1>4. TypeOK'
    BY <1>2, <1>3 DEF Orderly, TypeOK, control
  <1>5. OwnStep(p)
    BY <1>2, <1>3 DEF OwnStep
  <1> QED
    BY <1>4, <1>5, OwnStepKeeps

\* Flags that stay as they are fit a place that asks no more of them.
LEMMA SameFlags ==
    ASSUME Orderly, NEW p \in Pipelines, UNCHANGED flags
    PROVE  /\ flags[p] \in FlagsType /\ flags' = [flags EXCEPT ![p] = flags[p]]
           /\ Ripens(flags[p], flags[p]) /\ InOrder(at[p], flags[p])
  BY DEF Orderly, TypeOK, Workers, Ripens

\* A worker that has neither failed nor ended can fail.
LEMMA FailingRipens ==
    ASSUME NEW f \in FlagsType, ~f.finished
    PROVE  /\ Failed(f) \in FlagsType /\ Ripens(f, Failed(f))
           /\ Failed(f).stop /\ Failed(f).failed /\ ~Failed(f).finished
           /\ Failed(f).started = f.started /\ Failed(f).wrote = f.wrote
  BY DEF FlagsType, Failed, Ripens, Status, Active

LEMMA ReadIsOrderly == ASSUME Orderly, NEW p \in Pipelines, Read(p) PROVE Orderly' /\ Onward
  <1>1. audio[p] \in AudioType /\ audio \in [Pipelines -> AudioType]
    BY DEF Orderly, TypeOK
  <1>2. audio' \in [Pipelines -> AudioType]
    <2>1. CASE UNCHANGED audio
      BY <1>1, <2>1
    <2>2. CASE audio[p].piped > 0 /\ audio' = [audio EXCEPT ![p].piped = @ - 1]
      <3>1. audio[p].piped - 1 \in 0..PipeSize
        BY <1>1, <2>2, PipelineAssumption DEF AudioType
      <3> QED
        BY <1>1, <2>2, <3>1, AudioSet
    <2> QED
      BY <2>1, <2>2 DEF Read
  <1>3. PICK place \in {"eof", "write", "probe"} :
          Goes(p, place) /\ (place # "eof" => ~flags[p].stop)
    BY DEF Read
  <1>4. place \in WorkerPlaces \ {"none"} /\ at[p] = "read"
    BY <1>3 DEF Read, WorkerPlaces, StopPlaces
  <1>5. UNCHANGED <<flags, child, control>>
    BY DEF Read
  <1>6. InOrder(place, flags[p])
    BY <1>3, <1>4, <1>5, SameFlags DEF InOrder, StopPlaces
  <1> QED
    BY <1>2, <1>3, <1>4, <1>5, <1>6, Arrival, SameFlags, UnchangedFades DEF Orderly

LEMMA ProbeIsOrderly == ASSUME Orderly, NEW p \in Pipelines, Probe(p) PROVE Orderly' /\ Onward
  <1>1. /\ at[p] = "probe" /\ flags[p] \in FlagsType /\ InOrder("probe", flags[p])
        /\ {"eof", "read"} \subseteq WorkerPlaces \ {"none"}
    BY DEF Probe, Orderly, TypeOK, Workers, WorkerPlaces
  <1>2. UNCHANGED control
    BY DEF Probe
  <1>3. CASE LetGo("decoder", p) /\ Goes(p, "eof") /\ UNCHANGED flags
    <2>1. InOrder("eof", flags[p])
      BY <1>1 DEF InOrder, StopPlaces
    <2> QED
      BY <1>1, <1>2, <1>3, <2>1, Names, Arrival, SameFlags, LetGoFades DEF Orderly
  <1>4. CASE LetGo("sink", p) /\ flags' = [flags EXCEPT ![p] = Failed(@)] /\ Goes(p, "eof")
    <2>1. ~flags[p].finished
      BY <1>1 DEF InOrder
    <2>2. InOrder("eof", Failed(flags[p]))
      BY <1>1, <2>1, FailingRipens DEF InOrder, StopPlaces
    <2> QED
      BY <1>1, <1>2, <1>4, <2>1, <2>2, Names, Arrival, FailingRipens, LetGoFades DEF Orderly
  <1>5. CASE Goes(p, "read") /\ UNCHANGED <<flags, child, audio>>
    <2>1. InOrder("read", flags[p])
      BY <1>1 DEF InOrder, StopPlaces
    <2> QED
      BY <1>1, <1>2, <1>5, <2>1, Arrival, SameFlags, UnchangedFades DEF Orderly, TypeOK
  <1> QED
    BY <1>3, <1>4, <1>5 DEF Probe

LEMMA WroteIsOrderly ==
    ASSUME Orderly, NEW p \in Pipelines, at[p] \in {"write", "blocked"}, audio[p].sunk < PipeSize,
           Wrote(p), UNCHANGED <<child, control>>
    PROVE  Orderly' /\ Onward
  <1> DEFINE g == [flags[p] EXCEPT !.wrote = TRUE]
  <1>1. flags[p] \in FlagsType /\ InOrder(at[p], flags[p]) /\ "read" \in WorkerPlaces \ {"none"}
    BY DEF Orderly, TypeOK, Workers, WorkerPlaces
  <1>2. ~flags[p].failed /\ ~flags[p].finished
    BY <1>1 DEF InOrder, StopPlaces
  <1>3. g \in FlagsType /\ Ripens(flags[p], g) /\ InOrder("read", g)
    BY <1>1, <1>2 DEF FlagsType, Ripens, Status, Active, InOrder, StopPlaces
  <1>4. flags' = [flags EXCEPT ![p] = g] /\ Goes(p, "read")
    BY DEF Wrote
  <1>5. audio' \in [Pipelines -> AudioType]
    <2>1. audio[p] \in AudioType /\ audio \in [Pipelines -> AudioType]
      BY DEF Orderly, TypeOK
    <2>2. audio[p].sunk + 1 \in 0..PipeSize
      BY <2>1, PipelineAssumption DEF AudioType
    <2> QED
      BY <2>1, <2>2, AudioSet DEF Wrote
  <1> HIDE DEF g
  <1> QED
    BY <1>1, <1>3, <1>4, <1>5, Arrival, UnchangedFades DEF Orderly

LEMMA WriteFailsIsOrderly ==
    ASSUME Orderly, NEW p \in Pipelines, at[p] \in {"write", "blocked"},
           WriteFails(p), UNCHANGED <<child, control>>
    PROVE  Orderly' /\ Onward
  <1>1. flags[p] \in FlagsType /\ InOrder(at[p], flags[p]) /\ "read" \in WorkerPlaces \ {"none"}
    BY DEF Orderly, TypeOK, Workers, WorkerPlaces
  <1>2. ~flags[p].finished
    BY <1>1 DEF InOrder, StopPlaces
  <1>3. InOrder("read", Failed(flags[p]))
    BY <1>1, <1>2, FailingRipens DEF InOrder, StopPlaces
  <1>4. flags' = [flags EXCEPT ![p] = Failed(flags[p])] /\ Goes(p, "read") /\ UNCHANGED audio
    BY DEF WriteFails
  <1> QED
    BY <1>1, <1>2, <1>3, <1>4, Arrival, FailingRipens, UnchangedFades DEF Orderly, TypeOK

LEMMA WriteIsOrderly ==
    ASSUME Orderly, NEW p \in Pipelines, Write(p) \/ BlockedWrite(p) PROVE Orderly' /\ Onward
  <1>1. at[p] \in {"write", "blocked"} /\ UNCHANGED <<child, control>>
    BY DEF Write, BlockedWrite
  <1>2. CASE at[p] = "write" /\ ~flags[p].stop /\ Goes(p, "blocked") /\ UNCHANGED <<flags, audio>>
    <2>1. "blocked" \in WorkerPlaces \ {"none"} /\ InOrder("blocked", flags[p])
      BY <1>2, SameFlags DEF WorkerPlaces, InOrder, StopPlaces
    <2> QED
      BY <1>1, <1>2, <2>1, Arrival, SameFlags, UnchangedFades DEF Orderly, TypeOK
  <1> QED
    BY <1>1, <1>2, WroteIsOrderly, WriteFailsIsOrderly DEF Write, BlockedWrite

LEMMA EofIsOrderly == ASSUME Orderly, NEW p \in Pipelines, Eof(p) PROVE Orderly' /\ Onward
  <1>1. /\ at[p] = "eof" /\ flags[p] \in FlagsType /\ InOrder("eof", flags[p])
        /\ {"drain", "stopDecoder"} \subseteq WorkerPlaces \ {"none"}
    BY DEF Eof, Orderly, TypeOK, Workers, WorkerPlaces, StopPlaces
  <1>2. UNCHANGED <<child, control>>
    BY DEF Eof
  <1>3. CASE flags[p].stop /\ Goes(p, "stopDecoder") /\ UNCHANGED <<flags, audio>>
    <2>1. InOrder("stopDecoder", flags[p])
      BY <1>1, <1>3 DEF InOrder, StopPlaces
    <2> QED
      BY <1>1, <1>2, <1>3, <2>1, Arrival, SameFlags, UnchangedFades DEF Orderly, TypeOK
  <1>4. CASE /\ ~flags[p].stop /\ audio' = [audio EXCEPT ![p].open = FALSE]
             /\ flags' = [flags EXCEPT ![p].mute = ~flags[p].wrote]
             /\ Goes(p, IF flags[p].wrote THEN "drain" ELSE "stopDecoder")
    <2> DEFINE g == [flags[p] EXCEPT !.mute = ~flags[p].wrote]
               place == IF flags[p].wrote THEN "drain" ELSE "stopDecoder"
    <2>1. g \in FlagsType /\ Ripens(flags[p], g) /\ InOrder(place, g)
      BY <1>1, <1>4 DEF FlagsType, Ripens, Status, Active, InOrder, StopPlaces
    <2>2. place \in WorkerPlaces \ {"none"}
      BY <1>1
    <2>3. flags' = [flags EXCEPT ![p] = g] /\ Goes(p, place)
      BY <1>4
    <2>4. audio' \in [Pipelines -> AudioType]
      BY <1>4, AudioSet DEF Orderly, TypeOK
    <2> HIDE DEF g, place
    <2> QED
      BY <1>1, <1>2, <2>1, <2>2, <2>3, <2>4, Arrival, UnchangedFades DEF Orderly
  <1> QED
    BY <1>3, <1>4 DEF Eof

LEMMA DrainIsOrderly == ASSUME Orderly, NEW p \in Pipelines, Drain(p) PROVE Orderly' /\ Onward
  <1>1. /\ at[p] = "drain" /\ Goes(p, "stopDecoder") /\ UNCHANGED <<flags, control>>
        /\ "stopDecoder" \in WorkerPlaces \ {"none"}
    BY DEF Drain, WorkerPlaces, StopPlaces
  <1>2. InOrder("stopDecoder", flags[p])
    BY <1>1, SameFlags DEF InOrder, StopPlaces
  <1>3. /\ child' \in [Parts -> [Pipelines -> ChildType]] /\ audio' \in [Pipelines -> AudioType]
        /\ \A h \in Parts, q \in Pipelines : Fades(child[h][q], child'[h][q])
    BY Names, LetGoFades, UnchangedFades DEF Drain, Orderly, TypeOK
  <1> QED
    BY <1>1, <1>2, <1>3, Arrival, SameFlags

LEMMA ConcludeIsOrderly == ASSUME Orderly, NEW p \in Pipelines, Conclude(p) PROVE Orderly' /\ Onward
  <1> DEFINE f == flags[p]
             g == [Concluded(f) EXCEPT !.done = TRUE]
  <1>1. f \in FlagsType /\ InOrder("conclude", f) /\ at[p] = "conclude"
    BY DEF Conclude, Orderly, TypeOK, Workers
  <1>2. Concluded(f) \in FlagsType
    <2>1. Failed(f) \in FlagsType
      BY <1>1, FailingRipens DEF InOrder
    <2>2. \A b \in BOOLEAN : [f EXCEPT !.finished = b, !.paused = FALSE] \in FlagsType
      BY <1>1 DEF FlagsType
    <2>3. (~f.failed) \in BOOLEAN
      OBVIOUS
    <2> QED
      BY <1>1, <2>1, <2>2, <2>3 DEF Concluded
  <1>3. g \in FlagsType
    BY <1>2 DEF FlagsType
  <1>4. /\ Status(g) = Status(Concluded(f)) /\ g.wrote = Concluded(f).wrote
        /\ InOrder("ended", Concluded(f)) => InOrder("ended", g)
    BY <1>2 DEF FlagsType, Status, InOrder, StopPlaces
  <1>5. Ripens(f, Concluded(f)) /\ InOrder("ended", Concluded(f))
    <2>1. CASE f.mute
      BY <1>1, <2>1, FailingRipens DEF Concluded, InOrder, StopPlaces
    <2>2. CASE ~f.mute /\ f.stop
      BY <1>1, <2>2 DEF Concluded, InOrder, StopPlaces, Ripens
    <2>3. CASE ~f.mute /\ ~f.stop
      <3>1. f.wrote /\ ~f.failed /\ ~f.finished
        BY <1>1, <2>3 DEF InOrder, StopPlaces
      <3>2. Concluded(f) = [f EXCEPT !.finished = ~f.failed, !.paused = FALSE]
        BY <2>3 DEF Concluded
      <3> QED
        BY <1>1, <3>1, <3>2 DEF FlagsType, Ripens, Status, Active, InOrder, StopPlaces
    <2> QED
      BY <2>1, <2>2, <2>3
  <1>6. Ripens(f, g) /\ InOrder("ended", g)
    BY <1>4, <1>5 DEF Ripens
  <1>7. /\ flags' = [flags EXCEPT ![p] = g] /\ Goes(p, "ended") /\ UNCHANGED <<child, audio, control>>
        /\ "ended" \in WorkerPlaces \ {"none"}
    BY DEF Conclude, WorkerPlaces
  <1> HIDE DEF g, f
  <1> QED
    BY <1>1, <1>3, <1>6, <1>7, Arrival, UnchangedFades DEF Orderly, TypeOK, f

LEMMA OwnStopIsOrderly ==
    ASSUME Orderly, NEW p \in Pipelines, StopChildren(p, p) PROVE Orderly' /\ Onward
  <1>1. PICK h \in Parts : StopChild(h, p)
    BY Names DEF StopChildren, StopDecoder, StopSink
  <1>2. /\ child' \in [Parts -> [Pipelines -> ChildType]] /\ audio' \in [Pipelines -> AudioType]
        /\ \A k \in Parts, q \in Pipelines : Fades(child[k][q], child'[k][q])
    BY <1>1, LetGoFades, UnchangedFades DEF StopChild, Orderly, TypeOK
  <1>3. /\ UNCHANGED <<flags, control>> /\ at[p] \in StopPlaces
        /\ Goes(p, "stopSink") \/ Goes(p, "conclude")
    BY Names DEF StopChildren, StopDecoder, StopSink, StopPlaces
  <1>4. PICK place \in {"stopSink", "conclude"} : Goes(p, place)
    BY <1>3
  <1>5. place \in WorkerPlaces \ {"none"} /\ at[p] # "none"
    BY <1>3 DEF WorkerPlaces, StopPlaces
  <1>6. InOrder(place, flags[p])
    BY <1>3, SameFlags DEF InOrder, StopPlaces
  <1> QED
    BY <1>2, <1>3, <1>4, <1>5, <1>6, Arrival, SameFlags

LEMMA WorkerIsOrderly == ASSUME Orderly, NEW p \in Pipelines, Worker(p) PROVE Orderly' /\ Onward
  BY ReadIsOrderly, ProbeIsOrderly, WriteIsOrderly, EofIsOrderly, DrainIsOrderly,
     ConcludeIsOrderly, OwnStopIsOrderly DEF Worker

-----------------------------------------------------------------------------
(* The children's steps and the confirmation.                              *)

\* Flags, places and the control thread stay as they are.
LEMMA ChildStep ==
    ASSUME Orderly, NEW p \in Pipelines, UNCHANGED <<flags, at, control>>,
           child' \in [Parts -> [Pipelines -> ChildType]], audio' \in [Pipelines -> AudioType],
           \A h \in Parts, q \in Pipelines : Fades(child[h][q], child'[h][q])
    PROVE  Orderly' /\ Onward
  <1>1. TypeOK'
    BY DEF Orderly, TypeOK, control
  <1>2. OwnStep(p)
    BY DEF OwnStep, Ripens, Orderly, Workers
  <1> QED
    BY <1>1, <1>2, OwnStepKeeps

LEMMA ChildIsOrderly == ASSUME Orderly, NEW p \in Pipelines, Child(p) PROVE Orderly' /\ Onward
  <1>1. audio[p] \in AudioType /\ audio \in [Pipelines -> AudioType]
    BY DEF Orderly, TypeOK
  <1>2. CASE Decode(p)
    <2>1. audio[p].left - 1 \in 0..Chunks /\ audio[p].piped + 1 \in 0..PipeSize
      BY <1>1, <1>2, PipelineAssumption DEF Decode, AudioType
    <2> DEFINE a == [audio[p] EXCEPT !.left = audio[p].left - 1]
    <2>2. a \in AudioType /\ a.piped = audio[p].piped
      BY <1>1, <2>1, AudioSet DEF AudioType
    <2>3. [a EXCEPT !.piped = audio[p].piped + 1] \in AudioType
      BY <2>1, <2>2, AudioSet
    <2>4. audio' = [audio EXCEPT ![p] = [a EXCEPT !.piped = audio[p].piped + 1]]
      BY <1>2 DEF Decode
    <2> HIDE DEF a
    <2>5. audio' \in [Pipelines -> AudioType]
      BY <1>1, <2>3, <2>4
    <2> QED
      BY <1>2, <2>5, ChildStep, UnchangedFades DEF Decode, Orderly
  <1>3. CASE Sound(p)
    <2>1. audio[p].sunk - 1 \in 0..PipeSize
      BY <1>1, <1>3, PipelineAssumption DEF Sound, AudioType
    <2>2. audio' \in [Pipelines -> AudioType]
      BY <1>1, <1>3, <2>1, AudioSet DEF Sound
    <2> QED
      BY <1>3, <2>2, ChildStep, UnchangedFades DEF Sound, Orderly
  <1>4. ASSUME NEW h \in Parts, Exit(h, p) PROVE Orderly' /\ Onward
    <2>1. child[h][p] \in ChildType /\ child \in [Parts -> [Pipelines -> ChildType]]
      BY DEF Orderly, TypeOK
    <2> DEFINE z == [child[h][p] EXCEPT !.life = "zombie"]
    <2>2. z \in ChildType /\ Fades(child[h][p], z)
      BY <1>4, <2>1 DEF ChildType, Fades, Exit
    <2>3. child' = [child EXCEPT ![h][p] = z]
      BY <1>4 DEF Exit
    <2> HIDE DEF z
    <2>4. /\ child' \in [Parts -> [Pipelines -> ChildType]]
          /\ \A k \in Parts, q \in Pipelines : Fades(child[k][q], child'[k][q])
      BY <2>1, <2>2, <2>3 DEF Fades
    <2> QED
      BY <1>1, <1>4, <2>4, ChildStep DEF Exit
  <1> QED
    BY <1>2, <1>3, <1>4 DEF Child

LEMMA CurrentIsThere == Orderly /\ Seen # "Idle" => current \in Pipelines
  BY DEF Orderly, TypeOK, Seen

\* A pipeline that starts has its first output confirmed.
LEMMA ConfirmIsOrderly == ASSUME Orderly, Confirm PROVE Orderly'
  <1> DEFINE f == flags[current]
             g == [f EXCEPT !.started = TRUE]
  <1>1. current \in Pipelines /\ at[Control] = "idle" /\ Seen = "Starting" /\ f.wrote
    BY CurrentIsThere DEF Confirm
  <1>2. f \in FlagsType /\ InOrder(at[current], f) /\ Status(f) = "Starting"
    BY <1>1, Names DEF Orderly, TypeOK, Workers, Seen
  <1>3. g \in FlagsType /\ InOrder(at[current], g) /\ Status(g) = "Playing"
    BY <1>1, <1>2 DEF FlagsType, InOrder, StopPlaces, Fresh, Status
  <1>4. /\ flags' \in [Pipelines -> FlagsType] /\ flags'[current] = g
        /\ \A q \in Pipelines \ {current} : flags'[q] = flags[q]
    BY <1>1, <1>3 DEF Confirm, Orderly, TypeOK
  <1>5. UNCHANGED <<child, audio, at, current, retired, subject, launch, signals>>
    BY DEF Confirm, control
  <1> HIDE DEF f, g
  <1>6. TypeOK' /\ HeldRight' /\ ChildrenInPlace' /\ Course'
    BY <1>4, <1>5 DEF Orderly, TypeOK, HeldRight, ChildrenInPlace, Course
  <1>7. Workers'
    BY <1>1, <1>3, <1>4, <1>5 DEF Orderly, Workers
  <1>8. Signalling'
    <2>1. /\ Seen' = "Playing" /\ current' # NoPipeline /\ at'[Control] = "idle"
          /\ \A h \in Parts : child'[h][current'].life # "stopped"
      BY <1>1, <1>3, <1>4, <1>5, Names DEF Seen, Orderly, Signalling, SignalsFollowThePause
    <2> QED
      BY <2>1 DEF Signalling, SignalsFollowThePause, Halting, Continuing
  <1> QED
    BY <1>6, <1>7, <1>8 DEF Orderly

-----------------------------------------------------------------------------
(* The control thread: stop and start.                                     *)

LEMMA ControlGoes ==
    ASSUME TypeOK, NEW place \in ControlPlaces, Goes(Control, place)
    PROVE  /\ at'[Control] = place /\ \A p \in Pipelines : at'[p] = at[p]
           /\ at' \in [Threads -> WorkerPlaces \cup ControlPlaces]
           /\ at'[Control] \in ControlPlaces /\ \A p \in Pipelines : at'[p] \in WorkerPlaces
  <1>1. at' = [at EXCEPT ![Control] = place]
    BY DEF Goes
  <1> QED
    BY <1>1, Names DEF TypeOK

\* While the control thread stops and starts there is nothing to signal.
LEMMA NothingToSignal ==
    ASSUME at'[Control] \in Preparing \ {"launchDecoder"} PROVE Signalling'
  BY DEF Preparing, StopPlaces, Signalling, SignalsFollowThePause, Halting, Continuing

\* A pipeline that is asked to stop.
LEMMA StopFlag ==
    ASSUME Orderly, NEW p \in Pipelines, flags' = [flags EXCEPT ![p].stop = TRUE]
    PROVE  /\ flags' \in [Pipelines -> FlagsType]
           /\ \A q \in Pipelines : /\ Status(flags'[q]) = Status(flags[q])
                                   /\ flags'[q].wrote = flags[q].wrote
                                   /\ InOrder(at[q], flags'[q])
  <1> DEFINE g == [flags[p] EXCEPT !.stop = TRUE]
  <1>1. flags[p] \in FlagsType /\ InOrder(at[p], flags[p])
    BY DEF Orderly, TypeOK, Workers
  <1>2. /\ g \in FlagsType /\ Status(g) = Status(flags[p]) /\ g.wrote = flags[p].wrote
        /\ InOrder(at[p], g)
    BY <1>1 DEF FlagsType, Status, InOrder, Fresh
  <1>3. flags' = [flags EXCEPT ![p] = g]
    OBVIOUS
  <1> HIDE DEF g
  <1> QED
    BY <1>2, <1>3 DEF Orderly, TypeOK, Workers

\* A stop is requested of the current pipeline, or of a retired one when none is current.
LEMMA RequestStopIsOrderly ==
    ASSUME Orderly, NEW p \in Pipelines, RequestStop(p), p = current \/ current = NoPipeline,
           at[Control] \in {"idle", "drain"},
           launch' \in Pipelines => at[launch'] = "none",
           launch' \in Pipelines \cup {NoPipeline},
           UNCHANGED <<child, audio, current, retired, signals>>
    PROVE  Orderly'
  <1>1. flags' = [flags EXCEPT ![p].stop = TRUE] /\ subject' = p /\ Goes(Control, "stopDecoder")
    BY DEF RequestStop
  <1>2. /\ at'[Control] = "stopDecoder" /\ \A q \in Pipelines : at'[q] = at[q]
        /\ at' \in [Threads -> WorkerPlaces \cup ControlPlaces]
        /\ at'[Control] \in ControlPlaces /\ \A q \in Pipelines : at'[q] \in WorkerPlaces
    BY <1>1, ControlGoes DEF ControlPlaces, StopPlaces, Orderly
  <1>3. TypeOK'
    BY <1>1, <1>2, StopFlag DEF Orderly, TypeOK
  <1>4. HeldRight' /\ ChildrenInPlace' /\ Course'
    BY <1>1, <1>2 DEF Orderly, HeldRight, ChildrenInPlace, Course
  <1>5. Workers'
    BY <1>1, <1>2, StopFlag DEF Orderly, TypeOK, Workers
  <1>6. Signalling'
    BY <1>2, NothingToSignal DEF Preparing, StopPlaces
  <1> QED
    BY <1>3, <1>4, <1>5, <1>6 DEF Orderly

LEMMA BeginIsOrderly ==
    ASSUME Orderly, NEW next \in Pipelines \cup {NoPipeline},
           next \in Pipelines => at[next] = "none", Begin(next)
    PROVE  Orderly'
  <1>1. CASE current # NoPipeline /\ RequestStop(current)
    <2>1. current \in Pipelines
      BY <1>1 DEF Orderly, TypeOK
    <2> QED
      BY <1>1, <2>1, RequestStopIsOrderly DEF Begin
  <1>2. CASE current = NoPipeline /\ Goes(Control, "drain") /\ UNCHANGED <<flags, subject>>
    <2>1. /\ at'[Control] = "drain" /\ \A q \in Pipelines : at'[q] = at[q]
          /\ at' \in [Threads -> WorkerPlaces \cup ControlPlaces]
          /\ at'[Control] \in ControlPlaces /\ \A q \in Pipelines : at'[q] \in WorkerPlaces
      BY <1>2, ControlGoes DEF ControlPlaces, Orderly
    <2>2. UNCHANGED <<flags, subject, child, audio, current, retired, signals>> /\ launch' = next
      BY <1>2 DEF Begin
    <2>3. TypeOK'
      BY <2>1, <2>2 DEF Orderly, TypeOK
    <2>4. HeldRight' /\ ChildrenInPlace' /\ Course'
      BY <1>2, <2>1, <2>2, Names DEF Orderly, HeldRight, ChildrenInPlace, Course, StopPlaces, Begin
    <2>5. Workers'
      BY <2>1, <2>2 DEF Orderly, TypeOK, Workers
    <2>6. Signalling'
      BY <2>1, NothingToSignal DEF Preparing
    <2> QED
      BY <2>3, <2>4, <2>5, <2>6 DEF Orderly
  <1> QED
    BY <1>1, <1>2 DEF Begin

LEMMA PlayIsOrderly == ASSUME Orderly, Play PROVE Orderly'
  <1> DEFINE next == CHOOSE p \in Pipelines : at[p] = "none"
  <1>1. next \in Pipelines /\ at[next] = "none" /\ Begin(next)
    BY DEF Play
  <1> HIDE DEF next
  <1> QED
    BY <1>1, BeginIsOrderly

LEMMA StopIsOrderly == ASSUME Orderly, Stop PROVE Orderly'
  BY Names, BeginIsOrderly DEF Stop

LEMMA RetireIsOrderly == ASSUME Orderly, Retire PROVE Orderly'
  <1> DEFINE g == [NoFlags EXCEPT !.stop = TRUE, !.done = flags[current].done]
  <1>1. /\ current \in Pipelines /\ launch \in Pipelines /\ at[Control] = "stopped"
        /\ flags[current] \in FlagsType
    BY DEF Retire, Orderly, TypeOK, Course
  <1>2. g \in FlagsType
    BY <1>1 DEF FlagsType, NoFlags
  <1>3. Fresh(g) /\ g.stop
    BY DEF Fresh, NoFlags
  <1>4. /\ flags' = [flags EXCEPT ![current] = g] /\ retired' = retired \cup {current}
        /\ current' = NoPipeline /\ subject' = NoPipeline /\ Goes(Control, "launch")
        /\ UNCHANGED <<child, audio, launch, signals>>
    BY DEF Retire
  <1> HIDE DEF g
  <1>5. /\ at'[Control] = "launch" /\ \A q \in Pipelines : at'[q] = at[q]
        /\ at' \in [Threads -> WorkerPlaces \cup ControlPlaces]
        /\ at'[Control] \in ControlPlaces /\ \A q \in Pipelines : at'[q] \in WorkerPlaces
    BY <1>4, ControlGoes DEF ControlPlaces, Orderly
  <1>6. /\ flags' \in [Pipelines -> FlagsType] /\ flags'[current] = g
        /\ \A q \in Pipelines \ {current} : flags'[q] = flags[q]
    BY <1>1, <1>2, <1>4 DEF Orderly, TypeOK
  <1>7. TypeOK'
    BY <1>1, <1>4, <1>5, <1>6 DEF Orderly, TypeOK
  <1>8. HeldRight' /\ ChildrenInPlace' /\ Course'
    BY <1>1, <1>4, <1>5 DEF Orderly, HeldRight, ChildrenInPlace, Course, StopPlaces
  <1>9. Workers'
    <2>1. InOrder(at[current], g)
      BY <1>3 DEF InOrder, Fresh
    <2> QED
      BY <1>1, <1>4, <1>5, <1>6, <2>1, Names DEF Orderly, TypeOK, Workers, Preparing
  <1>10. Signalling'
    BY <1>5, NothingToSignal DEF Preparing
  <1> QED
    BY <1>7, <1>8, <1>9, <1>10 DEF Orderly

\* The control thread lets go of a child of the pipeline it stops.
LEMMA ControlStopIsOrderly ==
    ASSUME Orderly, StopChildren(Control, subject) PROVE Orderly'
  <1>1. /\ subject \in Pipelines /\ (subject = current \/ current = NoPipeline)
        /\ at[Control] \in StopPlaces /\ UNCHANGED <<flags, control>>
    BY DEF StopChildren, StopDecoder, StopSink, StopPlaces, Orderly, Course
  <1>2. PICK h \in Parts : /\ StopChild(h, subject)
                           /\ h = (IF at[Control] = "stopDecoder" THEN "decoder" ELSE "sink")
    BY Names DEF StopChildren, StopDecoder, StopSink
  <1>3. /\ child' \in [Parts -> [Pipelines -> ChildType]] /\ audio' \in [Pipelines -> AudioType]
        /\ \A k \in Parts, q \in Pipelines : Fades(child[k][q], child'[k][q])
        /\ ~child'[h][subject].held
    BY <1>1, <1>2, LetGoFades, UnchangedFades DEF StopChild, Orderly, TypeOK, Gone
  <1>4. \A k \in Parts, q \in Pipelines :
          /\ child'[k][q].held => child[k][q].held
          /\ child'[k][q].held <=> child'[k][q].life \in {"running", "stopped", "zombie"}
    <2>1. \A k \in Parts, q \in Pipelines : child[k][q] \in ChildType
      BY DEF Orderly, TypeOK
    <2> QED
      BY <1>3, <2>1, FadingKeeps DEF Orderly, HeldRight
  <1> DEFINE place == IF at[Control] = "stopDecoder" THEN "stopSink" ELSE "stopped"
  <1>5. Goes(Control, place) /\ place \in ControlPlaces
    BY DEF StopChildren, StopDecoder, StopSink, ControlPlaces, StopPlaces
  <1>6. /\ at'[Control] = place /\ \A q \in Pipelines : at'[q] = at[q]
        /\ at' \in [Threads -> WorkerPlaces \cup ControlPlaces]
        /\ at'[Control] \in ControlPlaces /\ \A q \in Pipelines : at'[q] \in WorkerPlaces
    BY <1>5, ControlGoes DEF Orderly
  <1>7. TypeOK'
    BY <1>1, <1>3, <1>6 DEF Orderly, TypeOK, control
  <1>8. HeldRight' /\ ChildrenInPlace' /\ Course'
    <2>1. CASE at[Control] = "stopDecoder"
      <3>1. \A k \in Parts, q \in Pipelines :
              child'[k][q].held => q = current /\ q = subject /\ k = "sink"
        BY <1>1, <1>2, <1>3, <1>4, <2>1, Names DEF Orderly, ChildrenInPlace, Parts
      <3> QED
        BY <1>1, <1>4, <1>6, <2>1, <3>1
        DEF HeldRight, ChildrenInPlace, Course, StopPlaces, control
    <2>2. CASE at[Control] = "stopSink"
      <3>1. \A k \in Parts, q \in Pipelines : ~child'[k][q].held
        BY <1>2, <1>3, <1>4, <2>2 DEF Orderly, Course
      <3> QED
        BY <1>1, <1>4, <1>6, <2>2, <3>1
        DEF HeldRight, ChildrenInPlace, Course, StopPlaces, control
    <2> QED
      BY <1>1, <2>1, <2>2 DEF StopPlaces
  <1>9. Workers'
    BY <1>1, <1>6 DEF Orderly, TypeOK, Workers, Preparing, control
  <1>10. Signalling'
    BY <1>6, NothingToSignal DEF Preparing, StopPlaces
  <1> QED
    BY <1>7, <1>8, <1>9, <1>10 DEF Orderly

LEMMA NothingIsTyped == NoFlags \in FlagsType /\ NoChild \in ChildType /\ NoAudio \in AudioType
  BY PipelineAssumption DEF NoFlags, FlagsType, NoChild, ChildType, NoAudio, AudioType

\* Pipelines that are forgotten are as good as new, the others stay.
LEMMA ForgetKeeps ==
    ASSUME Orderly, NEW ps, Forget(ps)
    PROVE  /\ flags' \in [Pipelines -> FlagsType]
           /\ child' \in [Parts -> [Pipelines -> ChildType]]
           /\ audio' \in [Pipelines -> AudioType]
           /\ HeldRight'
           /\ \A h \in Parts, q \in Pipelines :
                /\ child'[h][q].held => q \notin ps /\ child[h][q].held
                /\ child'[h][q].life = "stopped" => child[h][q].life = "stopped"
           /\ \A q \in Pipelines \ ps : flags'[q] = flags[q]
           /\ \A q \in Pipelines \cap ps : Fresh(flags'[q])
           /\ \A q \in Pipelines \cap ps : InOrder("none", flags'[q])
  <1>1. /\ flags' \in [Pipelines -> FlagsType]
        /\ child' \in [Parts -> [Pipelines -> ChildType]]
        /\ audio' \in [Pipelines -> AudioType]
    BY NothingIsTyped DEF Orderly, TypeOK, Forget
  <1>2. \A h \in Parts, q \in Pipelines :
          child'[h][q] = IF q \in ps THEN NoChild ELSE child[h][q]
    BY DEF Forget
  <1>3. \A q \in Pipelines : flags'[q] = IF q \in ps THEN NoFlags ELSE flags[q]
    BY DEF Forget
  <1>4. Fresh(NoFlags) /\ InOrder("none", NoFlags) /\ ~NoChild.held /\ NoChild.life = "none"
    BY DEF Fresh, InOrder, NoFlags, NoChild, StopPlaces
  <1> HIDE DEF Forget
  <1> QED
    BY <1>1, <1>2, <1>3, <1>4 DEF Orderly, HeldRight

LEMMA JoinIsOrderly == ASSUME Orderly, Join PROVE Orderly'
  <1>1. /\ at[Control] = "stopped" /\ subject \in Pipelines /\ at[subject] = "ended"
        /\ \A h \in Parts, p \in Pipelines : ~child[h][p].held
        /\ subject = current \/ current = NoPipeline
    BY DEF Join, Orderly, Course
  <1>2. /\ current' = NoPipeline /\ retired' = retired \ {subject} /\ subject' = NoPipeline
        /\ UNCHANGED <<launch, signals>> /\ Forget({subject})
    BY <1>1 DEF Join
  <1>3. /\ at'[Control] = "drain" /\ at'[subject] = "none"
        /\ \A q \in Pipelines \ {subject} : at'[q] = at[q]
        /\ at' \in [Threads -> WorkerPlaces \cup ControlPlaces]
        /\ at'[Control] \in ControlPlaces /\ \A q \in Pipelines : at'[q] \in WorkerPlaces
    <2>1. at' = [at EXCEPT ![Control] = "drain", ![subject] = "none"]
      BY DEF Join
    <2>2. "drain" \in ControlPlaces /\ "none" \in WorkerPlaces
      BY DEF ControlPlaces, WorkerPlaces
    <2> QED
      BY <1>1, <2>1, <2>2, Names DEF Orderly, TypeOK
  <1>4. TypeOK'
    BY <1>2, <1>3, ForgetKeeps DEF Orderly, TypeOK
  <1>5. HeldRight' /\ ChildrenInPlace' /\ Course'
    BY <1>1, <1>2, <1>3, ForgetKeeps DEF ChildrenInPlace, Course, StopPlaces
  <1>6. Workers'
    <2>1. \A q \in Pipelines : InOrder(at'[q], flags'[q])
      BY <1>2, <1>3, ForgetKeeps DEF Orderly, Workers
    <2>2. at[Control] \in Preparing
      BY <1>1 DEF Preparing
    <2> QED
      BY <1>2, <1>3, <2>1, <2>2, Names DEF Orderly, TypeOK, Workers
  <1>7. Signalling'
    BY <1>3, NothingToSignal DEF Preparing
  <1> QED
    BY <1>4, <1>5, <1>6, <1>7 DEF Orderly

\* The control thread goes on, and nothing else changes.
LEMMA ControlMoves ==
    ASSUME Orderly, NEW place \in {"idle", "launch", "reclaim"}, Goes(Control, place),
           current = NoPipeline, at[Control] \in {"drain", "launch"},
           place = "launch" => launch' \in Pipelines,
           launch' \in {launch, NoPipeline},
           UNCHANGED <<flags, child, audio, current, retired, subject, signals>>
    PROVE  Orderly'
  <1>1. /\ at'[Control] = place /\ \A q \in Pipelines : at'[q] = at[q]
        /\ at' \in [Threads -> WorkerPlaces \cup ControlPlaces]
        /\ at'[Control] \in ControlPlaces /\ \A q \in Pipelines : at'[q] \in WorkerPlaces
    BY ControlGoes DEF ControlPlaces, Orderly
  <1>2. TypeOK'
    BY <1>1 DEF Orderly, TypeOK
  <1>3. \A h \in Parts, p \in Pipelines : ~child[h][p].held
    BY Names DEF Orderly, ChildrenInPlace
  <1>4. HeldRight' /\ ChildrenInPlace'
    BY <1>3 DEF Orderly, HeldRight, ChildrenInPlace
  <1>5. Course'
    BY <1>1, <1>3 DEF Orderly, Course, StopPlaces
  <1>6. Workers'
    BY <1>1, Names DEF Orderly, TypeOK, Workers, Preparing
  <1>7. Signalling'
    BY <1>1, Names DEF Orderly, Signalling, Halting, Continuing, SignalsFollowThePause
  <1> QED
    BY <1>2, <1>4, <1>5, <1>6, <1>7 DEF Orderly

LEMMA DrainRetiredIsOrderly == ASSUME Orderly, DrainRetired PROVE Orderly'
  <1>1. at[Control] = "drain" /\ current = NoPipeline
    BY DEF DrainRetired, Orderly, Course
  <1>2. UNCHANGED <<child, audio, current, retired, launch, signals>>
    BY DEF DrainRetired
  <1>3. launch \in Pipelines \cup {NoPipeline} /\ (launch \in Pipelines => at[launch] = "none")
    BY <1>1 DEF Orderly, TypeOK, Workers, Preparing
  <1>4. ASSUME NEW p \in retired, RequestStop(p) PROVE Orderly'
    <2>1. p \in Pipelines
      BY DEF Orderly, TypeOK
    <2> QED
      BY <1>1, <1>2, <1>3, <1>4, <2>1, RequestStopIsOrderly
  <1>5. CASE /\ Goes(Control, IF launch = NoPipeline THEN "idle" ELSE "launch")
             /\ UNCHANGED <<flags, subject>>
    BY <1>1, <1>2, <1>3, <1>5, ControlMoves
  <1> QED
    BY <1>4, <1>5 DEF DrainRetired

\* A new child.
LEMMA SpawnedKeeps ==
    ASSUME Orderly, NEW h \in Parts, NEW p \in Pipelines, child' = Spawned(h, p)
    PROVE  /\ child' \in [Parts -> [Pipelines -> ChildType]]
           /\ child'[h][p] = [life |-> "running", held |-> TRUE]
           /\ \A k \in Parts, q \in Pipelines : k # h \/ q # p => child'[k][q] = child[k][q]
           /\ HeldRight'
  <1>1. [life |-> "running", held |-> TRUE] \in ChildType
    BY DEF ChildType
  <1>2. /\ child' \in [Parts -> [Pipelines -> ChildType]]
        /\ child'[h][p] = [life |-> "running", held |-> TRUE]
        /\ \A k \in Parts, q \in Pipelines : k # h \/ q # p => child'[k][q] = child[k][q]
    BY <1>1 DEF Spawned, Orderly, TypeOK
  <1> QED
    BY <1>2 DEF Orderly, HeldRight

LEMMA LaunchIsOrderly == ASSUME Orderly, Launch PROVE Orderly'
  <1>1. /\ at[Control] = "launch" /\ current = NoPipeline /\ launch \in Pipelines
        /\ UNCHANGED <<flags, current, retired, subject, signals>>
    BY DEF Launch, Orderly, Course
  <1>2. CASE Goes(Control, "idle") /\ launch' = NoPipeline /\ UNCHANGED <<child, audio>>
    BY <1>1, <1>2, ControlMoves
  <1>3. CASE Goes(Control, "reclaim") /\ UNCHANGED <<child, audio, launch>>
    BY <1>1, <1>3, ControlMoves
  <1>4. CASE /\ child' = Spawned("sink", launch)
             /\ audio' = [audio EXCEPT ![launch].open = TRUE]
             /\ Goes(Control, "launchDecoder") /\ UNCHANGED launch
    <2>1. /\ at'[Control] = "launchDecoder" /\ \A q \in Pipelines : at'[q] = at[q]
          /\ at' \in [Threads -> WorkerPlaces \cup ControlPlaces]
          /\ at'[Control] \in ControlPlaces /\ \A q \in Pipelines : at'[q] \in WorkerPlaces
      BY <1>4, ControlGoes DEF ControlPlaces, Orderly
    <2>2. audio' \in [Pipelines -> AudioType]
      BY <1>1, <1>4, AudioSet DEF Orderly, TypeOK
    <2>3. TypeOK'
      BY <1>1, <1>4, <2>1, <2>2, Names, SpawnedKeeps DEF Orderly, TypeOK
    <2>4. \A h \in Parts, p \in Pipelines : ~child[h][p].held
      BY <1>1, Names DEF Orderly, ChildrenInPlace
    <2>5. HeldRight' /\ ChildrenInPlace' /\ Course'
      BY <1>1, <1>4, <2>1, <2>4, Names, SpawnedKeeps DEF ChildrenInPlace, Course, StopPlaces
    <2>6. Workers'
      BY <1>1, <1>4, <2>1 DEF Orderly, TypeOK, Workers, Preparing
    <2>7. Signalling'
      BY <1>1, <1>4, <2>1, Names, SpawnedKeeps
      DEF Signalling, Halting, Continuing, SignalsFollowThePause
    <2> QED
      BY <2>3, <2>5, <2>6, <2>7 DEF Orderly
  <1> QED
    BY <1>2, <1>3, <1>4 DEF Launch

LEMMA LaunchDecoderIsOrderly == ASSUME Orderly, LaunchDecoder PROVE Orderly'
  <1>1. /\ at[Control] = "launchDecoder" /\ current = NoPipeline /\ launch \in Pipelines
        /\ at[launch] = "none" /\ InOrder("none", flags[launch])
        /\ UNCHANGED <<flags, audio, retired, launch, signals>>
    BY DEF LaunchDecoder, Orderly, Course, Workers, Preparing
  <1>2. CASE subject' = launch /\ Goes(Control, "stopSink") /\ UNCHANGED <<child, current>>
    <2>1. /\ at'[Control] = "stopSink" /\ \A q \in Pipelines : at'[q] = at[q]
          /\ at' \in [Threads -> WorkerPlaces \cup ControlPlaces]
          /\ at'[Control] \in ControlPlaces /\ \A q \in Pipelines : at'[q] \in WorkerPlaces
      BY <1>2, ControlGoes DEF ControlPlaces, StopPlaces, Orderly
    <2>2. TypeOK'
      BY <1>1, <1>2, <2>1 DEF Orderly, TypeOK
    <2>3. HeldRight' /\ ChildrenInPlace' /\ Course'
      BY <1>1, <1>2, <2>1, Names DEF Orderly, HeldRight, ChildrenInPlace, Course, StopPlaces
    <2>4. Workers'
      BY <1>1, <1>2, <2>1 DEF Orderly, TypeOK, Workers, Preparing
    <2>5. Signalling'
      BY <2>1, NothingToSignal DEF Preparing, StopPlaces
    <2> QED
      BY <2>2, <2>3, <2>4, <2>5 DEF Orderly
  <1>3. CASE /\ child' = Spawned("decoder", launch) /\ current' = launch
             /\ at' = [at EXCEPT ![launch] = "read", ![Control] = "reclaim"]
             /\ UNCHANGED subject
    <2>1. /\ at'[Control] = "reclaim" /\ at'[launch] = "read"
          /\ \A q \in Pipelines \ {launch} : at'[q] = at[q]
          /\ at' \in [Threads -> WorkerPlaces \cup ControlPlaces]
          /\ at'[Control] \in ControlPlaces /\ \A q \in Pipelines : at'[q] \in WorkerPlaces
      <3>1. "reclaim" \in ControlPlaces /\ "read" \in WorkerPlaces
        BY DEF ControlPlaces, WorkerPlaces
      <3> QED
        BY <1>1, <1>3, <3>1, Names DEF Orderly, TypeOK
    <2>2. TypeOK'
      BY <1>1, <1>3, <2>1, Names, SpawnedKeeps DEF Orderly, TypeOK
    <2>3. HeldRight' /\ ChildrenInPlace' /\ Course'
      BY <1>1, <1>3, <2>1, Names, SpawnedKeeps DEF Orderly, ChildrenInPlace, Course, StopPlaces
    <2>4. InOrder("read", flags[launch])
      BY <1>1 DEF InOrder, Fresh, StopPlaces
    <2>5. Workers'
      BY <1>1, <1>3, <2>1, <2>4, Names DEF Orderly, TypeOK, Workers, Preparing, StopPlaces
    <2>6. Status(flags[launch]) # "Paused"
      BY <1>1 DEF InOrder, Fresh, Status
    <2>7. \A h \in Parts : child'[h][launch].life # "stopped"
      BY <1>1, <1>3, Names, SpawnedKeeps DEF Orderly, Signalling, Parts
    <2>8. Signalling'
      BY <1>1, <1>3, <2>1, <2>6, <2>7 DEF Signalling, Halting, Continuing, SignalsFollowThePause
    <2> QED
      BY <2>2, <2>3, <2>5, <2>8 DEF Orderly
  <1> QED
    BY <1>2, <1>3 DEF LaunchDecoder

LEMMA DiscardIsOrderly == ASSUME Orderly, Discard PROVE Orderly'
  <1>1. /\ at[Control] = "stopped" /\ current = NoPipeline /\ launch \in Pipelines
        /\ at[launch] = "none" /\ Forget({launch}) /\ subject' = NoPipeline
        /\ \A h \in Parts, p \in Pipelines : ~child[h][p].held
        /\ UNCHANGED <<current, retired, launch, signals>>
    BY DEF Discard, Orderly, Course, Workers, Preparing
  <1>2. /\ at'[Control] = "reclaim" /\ \A q \in Pipelines : at'[q] = at[q]
        /\ at' \in [Threads -> WorkerPlaces \cup ControlPlaces]
        /\ at'[Control] \in ControlPlaces /\ \A q \in Pipelines : at'[q] \in WorkerPlaces
    BY ControlGoes DEF Discard, ControlPlaces, Orderly
  <1>3. TypeOK'
    BY <1>1, <1>2, ForgetKeeps DEF Orderly, TypeOK
  <1>4. HeldRight' /\ ChildrenInPlace' /\ Course'
    BY <1>1, <1>2, ForgetKeeps DEF ChildrenInPlace, Course, StopPlaces
  <1>5. Workers'
    <2>1. \A q \in Pipelines : InOrder(at'[q], flags'[q])
      BY <1>1, <1>2, ForgetKeeps DEF Orderly, Workers
    <2> QED
      BY <1>1, <1>2, <2>1, Names DEF Orderly, TypeOK, Workers, Preparing, StopPlaces
  <1>6. Signalling'
    BY <1>1, <1>2 DEF Signalling, Halting, Continuing, SignalsFollowThePause
  <1> QED
    BY <1>3, <1>4, <1>5, <1>6 DEF Orderly

LEMMA ReclaimIsOrderly == ASSUME Orderly, Reclaim PROVE Orderly'
  <1> DEFINE ended == {p \in retired : flags[p].done}
  <1>1. /\ at[Control] = "reclaim" /\ Forget(ended) /\ retired' = retired \ ended
        /\ launch' = NoPipeline /\ UNCHANGED <<current, subject, signals>>
        /\ at' = [t \in Threads |-> IF t = Control THEN "idle"
                                    ELSE IF t \in ended THEN "none" ELSE at[t]]
    BY DEF Reclaim
  <1>2. ended \subseteq retired /\ current \notin ended
    BY DEF Orderly, Workers
  <1> HIDE DEF ended
  <1>3. /\ at'[Control] = "idle" /\ \A q \in Pipelines \cap ended : at'[q] = "none"
        /\ \A q \in Pipelines \ ended : at'[q] = at[q]
        /\ at' \in [Threads -> WorkerPlaces \cup ControlPlaces]
        /\ at'[Control] \in ControlPlaces /\ \A q \in Pipelines : at'[q] \in WorkerPlaces
    <2>1. "idle" \in ControlPlaces /\ "none" \in WorkerPlaces
      BY DEF ControlPlaces, WorkerPlaces
    <2> QED
      BY <1>1, <2>1, Names DEF Orderly, TypeOK
  <1>4. TypeOK'
    BY <1>1, <1>2, <1>3, ForgetKeeps DEF Orderly, TypeOK
  <1>5. HeldRight' /\ ChildrenInPlace' /\ Course'
    BY <1>1, <1>3, ForgetKeeps DEF Orderly, ChildrenInPlace, Course, StopPlaces
  <1>6. Workers'
    <2>1. \A q \in Pipelines : InOrder(at'[q], flags'[q])
      <3>1. ASSUME NEW q \in Pipelines, q \in ended PROVE InOrder(at'[q], flags'[q])
        <4>1. at'[q] = "none"
          BY <1>3, <3>1
        <4>2. InOrder("none", flags'[q])
          BY <1>1, <3>1, ForgetKeeps
        <4> QED
          BY <4>1, <4>2
      <3>2. ASSUME NEW q \in Pipelines, q \notin ended PROVE InOrder(at'[q], flags'[q])
        <4>1. at'[q] = at[q]
          BY <1>3, <3>2
        <4>2. flags'[q] = flags[q]
          BY <1>1, <3>2, ForgetKeeps
        <4> QED
          BY <4>1, <4>2 DEF Orderly, Workers
      <3> QED
        BY <3>1, <3>2
    <2> QED
      BY <1>1, <1>2, <1>3, <2>1 DEF Orderly, TypeOK, Workers, Preparing, StopPlaces
  <1>7. Signalling'
    <2>1. current # NoPipeline => /\ Seen' # "Paused"
                                  /\ \A h \in Parts : child'[h][current].life # "stopped"
      <3> SUFFICES ASSUME current # NoPipeline
                   PROVE  /\ Seen' # "Paused"
                          /\ \A h \in Parts : child'[h][current].life # "stopped"
        OBVIOUS
      <3>1. current \in Pipelines /\ flags'[current] = flags[current]
        BY <1>1, <1>2, ForgetKeeps DEF Orderly, TypeOK
      <3> QED
        BY <1>1, <3>1, ForgetKeeps DEF Orderly, Signalling, Seen
    <2> QED
      BY <1>1, <1>3, <2>1 DEF Signalling, Halting, Continuing, SignalsFollowThePause
  <1> QED
    BY <1>4, <1>5, <1>6, <1>7 DEF Orderly

-----------------------------------------------------------------------------
(* The control thread: pause and resume.                                   *)

LEMMA SignalLists ==
    /\ Head(<<"decoder", "sink">>) = "decoder" /\ Tail(<<"decoder", "sink">>) = <<"sink">>
    /\ Head(<<"sink", "decoder">>) = "sink" /\ Tail(<<"sink", "decoder">>) = <<"decoder">>
    /\ Head(<<"sink">>) = "sink" /\ Head(<<"decoder">>) = "decoder"
    /\ Len(<<"decoder", "sink">>) = 2 /\ Len(<<"sink", "decoder">>) = 2
    /\ Len(<<"sink">>) = 1 /\ Len(<<"decoder">>) = 1
    /\ Tail(<<"sink">>) = <<>> /\ Tail(<<"decoder">>) = <<>>
    /\ <<"decoder", "sink">> # <<"sink">> /\ <<"sink", "decoder">> # <<"decoder">>
  OBVIOUS

LEMMA SignalListsAreTyped ==
    /\ <<"decoder", "sink">> \in Seq(Parts) /\ <<"sink", "decoder">> \in Seq(Parts)
    /\ <<"sink">> \in Seq(Parts) /\ <<"decoder">> \in Seq(Parts) /\ <<>> \in Seq(Parts)
  BY DEF Parts

\* The paused flag of the current pipeline changes, and the signals are to follow.
LEMMA PauseIsOrderly == ASSUME Orderly, Pause \/ Resume PROVE Orderly'
  <1> DEFINE b == Seen # "Paused"
             g == [flags[current] EXCEPT !.paused = b]
  <1>1. /\ current \in Pipelines /\ at[Control] = "idle" /\ Seen = Status(flags[current])
        /\ flags[current] \in FlagsType /\ InOrder(at[current], flags[current])
        /\ Seen \notin {"Failed", "Finished"} /\ at[current] # "none"
    BY CurrentIsThere, Names DEF Pause, Resume, Orderly, TypeOK, Workers, Seen
  <1>2. b \in BOOLEAN
    OBVIOUS
  <1>3. \/ b /\ Pause
        \/ ~b /\ Resume
    BY DEF Pause, Resume
  <1>4. flags' = [flags EXCEPT ![current] = g]
    BY <1>3 DEF Pause, Resume
  <1> DEFINE place == IF b THEN "haltGroup" ELSE "contGroup"
             list == IF b THEN <<"decoder", "sink">> ELSE <<"sink", "decoder">>
  <1>5. /\ Goes(Control, place) /\ signals' = list
        /\ UNCHANGED <<child, audio, current, retired, subject, launch>>
    BY <1>3 DEF Pause, Resume
  <1>6. g \in FlagsType /\ InOrder(at[current], g) /\ (Status(g) = "Paused" <=> b)
    <2> HIDE DEF b
    <2> QED
      BY <1>1, <1>2 DEF FlagsType, InOrder, StopPlaces, Status
  <1> HIDE DEF g, b
  <1>7. /\ flags' \in [Pipelines -> FlagsType] /\ flags'[current] = g
        /\ \A q \in Pipelines \ {current} : flags'[q] = flags[q]
    BY <1>1, <1>4, <1>6 DEF Orderly, TypeOK
  <1>8. /\ at'[Control] = place /\ \A q \in Pipelines : at'[q] = at[q]
        /\ at' \in [Threads -> WorkerPlaces \cup ControlPlaces]
        /\ at'[Control] \in ControlPlaces /\ \A q \in Pipelines : at'[q] \in WorkerPlaces
    BY <1>5, ControlGoes DEF ControlPlaces, Orderly
  <1>9. TypeOK'
    BY <1>5, <1>7, <1>8, SignalListsAreTyped DEF Orderly, TypeOK
  <1>10. HeldRight' /\ ChildrenInPlace' /\ Course'
    BY <1>1, <1>5, <1>8, Names DEF Orderly, HeldRight, ChildrenInPlace, Course, StopPlaces
  <1>11. Workers'
    BY <1>1, <1>5, <1>6, <1>7, <1>8, Names DEF Orderly, TypeOK, Workers, Preparing, StopPlaces
  <1>12. Signalling'
    BY <1>1, <1>5, <1>6, <1>7, <1>8 DEF Signalling, Halting, Continuing, SignalsFollowThePause
  <1> QED
    BY <1>9, <1>10, <1>11, <1>12 DEF Orderly

\* A signal stops or continues a child and is nothing else to it.
LEMMA SignalledKeeps ==
    ASSUME NEW c \in ChildType, NEW halt \in BOOLEAN,
           c.held <=> c.life \in {"running", "stopped", "zombie"}
    PROVE  LET d == Signalled(c, halt)
           IN  /\ d \in ChildType /\ d.held = c.held
               /\ d.held <=> d.life \in {"running", "stopped", "zombie"}
               /\ d.life # (IF halt THEN "running" ELSE "stopped")
  BY DEF Signalled, ChildType

\* Some children are signalled.
SomeSignalled(halt) ==
    \A h \in Parts, p \in Pipelines :
      child'[h][p] \in {child[h][p], Signalled(child[h][p], halt)}

LEMMA SignalsKeep ==
    ASSUME Orderly, NEW halt \in BOOLEAN, SomeSignalled(halt),
           child' \in [Parts -> [Pipelines -> ChildType]],
           UNCHANGED <<flags, audio, current, retired, subject, launch>>,
           at[Control] \in Halting \cup Continuing,
           NEW place \in Halting \cup Continuing \cup {"idle"}, Goes(Control, place),
           signals' \in Seq(Parts)
    PROVE  /\ TypeOK' /\ HeldRight' /\ ChildrenInPlace' /\ Course' /\ Workers'
           /\ at'[Control] = place /\ current \in Pipelines
           /\ \A h \in Parts, p \in Pipelines :
                child'[h][p].life = child[h][p].life
                \/ child'[h][p].life # (IF halt THEN "running" ELSE "stopped")
  <1>1. /\ at'[Control] = place /\ \A q \in Pipelines : at'[q] = at[q]
        /\ at' \in [Threads -> WorkerPlaces \cup ControlPlaces]
        /\ at'[Control] \in ControlPlaces /\ \A q \in Pipelines : at'[q] \in WorkerPlaces
    BY ControlGoes DEF ControlPlaces, Halting, Continuing, Orderly
  <1>2. TypeOK'
    BY <1>1 DEF Orderly, TypeOK
  <1>3. \A h \in Parts, p \in Pipelines :
          /\ child[h][p] \in ChildType
          /\ child[h][p].held <=> child[h][p].life \in {"running", "stopped", "zombie"}
    BY DEF Orderly, TypeOK, HeldRight
  <1>4. \A h \in Parts, p \in Pipelines :
          /\ child'[h][p].held = child[h][p].held
          /\ child'[h][p].held <=> child'[h][p].life \in {"running", "stopped", "zombie"}
          /\ \/ child'[h][p].life = child[h][p].life
             \/ child'[h][p].life # (IF halt THEN "running" ELSE "stopped")
    BY <1>3, SignalledKeeps DEF SomeSignalled
  <1>5. current \in Pipelines /\ current # NoPipeline
    BY Names DEF Orderly, Signalling
  <1>6. HeldRight' /\ ChildrenInPlace' /\ Course'
    BY <1>1, <1>4, <1>5
    DEF Orderly, HeldRight, ChildrenInPlace, Course, StopPlaces, Halting, Continuing
  <1>7. Workers'
    BY <1>1 DEF Orderly, TypeOK, Workers, Preparing, StopPlaces, Halting, Continuing
  <1> QED
    BY <1>1, <1>2, <1>4, <1>5, <1>6, <1>7

\* Where the signals to the next child leave the control thread.
LEMMA NextSignal ==
    ASSUME Orderly, NEW halt \in BOOLEAN, SomeSignalled(halt),
           child' \in [Parts -> [Pipelines -> ChildType]],
           UNCHANGED <<flags, audio, current, retired, subject, launch>>,
           at[Control] \in (IF halt THEN Halting ELSE Continuing),
           child'[Head(signals)][current].life # (IF halt THEN "running" ELSE "stopped"),
           signals' = Tail(signals),
           Goes(Control, IF Len(signals) = 1 THEN "idle"
                         ELSE IF halt THEN "haltGroup" ELSE "contGroup")
    PROVE  Orderly'
  <1> DEFINE place == IF Len(signals) = 1 THEN "idle"
                      ELSE IF halt THEN "haltGroup" ELSE "contGroup"
  <1>1. /\ current \in Pipelines /\ current # NoPipeline /\ Seen' = Status(flags[current])
        /\ signals \in (IF halt THEN {<<"decoder", "sink">>, <<"sink">>}
                                ELSE {<<"sink", "decoder">>, <<"decoder">>})
    BY Names DEF Orderly, Signalling, Seen, Halting, Continuing
  <1>2. place \in Halting \cup Continuing \cup {"idle"}
    BY DEF Halting, Continuing
  <1>3. signals' \in Seq(Parts)
    BY <1>1, SignalLists, SignalListsAreTyped
  <1>4. /\ TypeOK' /\ HeldRight' /\ ChildrenInPlace' /\ Course' /\ Workers'
        /\ at'[Control] = place
        /\ \A h \in Parts, p \in Pipelines :
             child'[h][p].life = child[h][p].life
             \/ child'[h][p].life # (IF halt THEN "running" ELSE "stopped")
    BY <1>2, <1>3, SignalsKeep
  <1>5. ASSUME halt PROVE Signalling'
    <2>1. Status(flags[current]) \in {"Paused", "Failed", "Finished"}
      BY <1>5 DEF Orderly, Signalling
    <2>2. CASE signals = <<"decoder", "sink">>
      BY <1>1, <1>4, <1>5, <2>1, <2>2, SignalLists
      DEF Signalling, Halting, Continuing, SignalsFollowThePause
    <2>3. CASE signals = <<"sink">>
      BY <1>1, <1>4, <1>5, <2>1, <2>3, SignalLists
      DEF Signalling, Halting, Continuing, SignalsFollowThePause
    <2> QED
      BY <1>1, <1>5, <2>2, <2>3
  <1>6. ASSUME ~halt PROVE Signalling'
    <2>1. Status(flags[current]) # "Paused"
      BY <1>6 DEF Orderly, Signalling
    <2>2. CASE signals = <<"sink", "decoder">>
      BY <1>1, <1>4, <1>6, <2>1, <2>2, SignalLists
      DEF Signalling, Halting, Continuing, SignalsFollowThePause
    <2>3. CASE signals = <<"decoder">>
      <3>1. child["sink"][current].life # "stopped"
        BY <1>6, <2>3, SignalLists DEF Orderly, Signalling
      <3>2. \A h \in Parts : child'[h][current].life # "stopped"
        BY <1>1, <1>4, <1>6, <2>3, <3>1, SignalLists DEF Parts
      <3> QED
        BY <1>1, <1>4, <1>6, <2>1, <2>3, <3>2, SignalLists
        DEF Signalling, Halting, Continuing, SignalsFollowThePause
    <2> QED
      BY <1>1, <1>6, <2>2, <2>3
  <1> QED
    BY <1>4, <1>5, <1>6 DEF Orderly

LEMMA SignalGroupIsOrderly ==
    ASSUME Orderly, NEW halt \in BOOLEAN, SignalGroup(halt) PROVE Orderly'
  <1> DEFINE h == Head(signals)
  <1>1. /\ at[Control] = (IF halt THEN "haltGroup" ELSE "contGroup")
        /\ UNCHANGED <<flags, audio, current, retired, subject, launch>>
    BY DEF SignalGroup
  <1>2. /\ current \in Pipelines /\ current # NoPipeline /\ h \in Parts
        /\ signals \in {<<"decoder", "sink">>, <<"sink">>, <<"sink", "decoder">>, <<"decoder">>}
    BY <1>1, Names, SignalLists DEF Orderly, Signalling, Halting, Continuing
  <1>3. /\ child[h][current] \in ChildType /\ child \in [Parts -> [Pipelines -> ChildType]]
        /\ child[h][current].held <=> child[h][current].life \in {"running", "stopped", "zombie"}
    BY <1>2 DEF Orderly, TypeOK, HeldRight
  <1>4. CASE /\ child[h][current].held
             /\ child' = [child EXCEPT ![h][current] = Signalled(@, halt)]
             /\ Goes(Control, IF halt THEN "haltChild" ELSE "contChild")
             /\ UNCHANGED signals
    <2> DEFINE place == IF halt THEN "haltChild" ELSE "contChild"
               d == Signalled(child[h][current], halt)
    <2>1. d \in ChildType
      BY <1>3, SignalledKeeps
    <2>2. child' = [child EXCEPT ![h][current] = d]
      BY <1>4
    <2> HIDE DEF d
    <2>3. child' \in [Parts -> [Pipelines -> ChildType]]
      BY <1>3, <2>1, <2>2
    <2>4. SomeSignalled(halt)
      BY <1>3, <2>2 DEF SomeSignalled, d
    <2>5. place \in Halting \cup Continuing \cup {"idle"} /\ signals' \in Seq(Parts)
          /\ at[Control] \in Halting \cup Continuing
      BY <1>1, <1>4 DEF Halting, Continuing, Orderly, TypeOK
    <2>6. /\ TypeOK' /\ HeldRight' /\ ChildrenInPlace' /\ Course' /\ Workers'
          /\ at'[Control] = place
          /\ \A k \in Parts, p \in Pipelines :
               child'[k][p].life = child[k][p].life
               \/ child'[k][p].life # (IF halt THEN "running" ELSE "stopped")
      BY <1>1, <1>4, <2>3, <2>4, <2>5, SignalsKeep
    <2>7. Signalling'
      BY <1>1, <1>2, <1>4, <2>6, Names
      DEF Orderly, Signalling, Halting, Continuing, SignalsFollowThePause
    <2> QED
      BY <2>6, <2>7 DEF Orderly
  <1>5. CASE /\ ~child[h][current].held
             /\ signals' = Tail(signals)
             /\ Goes(Control, IF Len(signals) = 1 THEN "idle" ELSE at[Control])
             /\ UNCHANGED child
    <2>1. child'[h][current].life \notin {"running", "stopped"}
      BY <1>3, <1>5
    <2>2. SomeSignalled(halt) /\ child' \in [Parts -> [Pipelines -> ChildType]]
      BY <1>3, <1>5 DEF SomeSignalled
    <2>3. at[Control] \in (IF halt THEN Halting ELSE Continuing)
      BY <1>1 DEF Halting, Continuing
    <2>4. Goes(Control, IF Len(signals) = 1 THEN "idle"
                        ELSE IF halt THEN "haltGroup" ELSE "contGroup")
      BY <1>1, <1>5
    <2> QED
      BY <1>1, <1>5, <2>1, <2>2, <2>3, <2>4, NextSignal
  <1> QED
    BY <1>4, <1>5 DEF SignalGroup

LEMMA SignalChildIsOrderly ==
    ASSUME Orderly, NEW halt \in BOOLEAN, SignalChild(halt) PROVE Orderly'
  <1> DEFINE h == Head(signals)
  <1>1. /\ at[Control] = (IF halt THEN "haltChild" ELSE "contChild")
        /\ UNCHANGED <<flags, audio, current, retired, subject, launch>>
        /\ signals' = Tail(signals)
        /\ Goes(Control, IF Len(signals) = 1 THEN "idle"
                         ELSE IF halt THEN "haltGroup" ELSE "contGroup")
        /\ at[Control] \in (IF halt THEN Halting ELSE Continuing)
    BY DEF SignalChild, Halting, Continuing
  <1>2. current \in Pipelines /\ h \in Parts
    BY <1>1, Names, SignalLists DEF Orderly, Signalling, Halting, Continuing
  <1>3. /\ child \in [Parts -> [Pipelines -> ChildType]]
        /\ \A k \in Parts, p \in Pipelines :
             /\ Signalled(child[k][p], halt) \in ChildType
             /\ Signalled(child[k][p], halt).life # (IF halt THEN "running" ELSE "stopped")
    <2>1. \A k \in Parts, p \in Pipelines :
            /\ child[k][p] \in ChildType
            /\ child[k][p].held <=> child[k][p].life \in {"running", "stopped", "zombie"}
      BY DEF Orderly, TypeOK, HeldRight
    <2> QED
      BY <2>1, SignalledKeeps DEF Orderly, TypeOK
  <1>4. \/ child' = [child EXCEPT ![h][current] = Signalled(child[h][current], halt)]
        \/ child' = [k \in Parts |-> [p \in Pipelines |-> Signalled(child[k][p], halt)]]
    BY <1>2 DEF SignalChild
  <1> HIDE DEF h
  <1>5. /\ SomeSignalled(halt) /\ child' \in [Parts -> [Pipelines -> ChildType]]
        /\ child'[h][current].life # (IF halt THEN "running" ELSE "stopped")
    <2>1. CASE child' = [child EXCEPT ![h][current] = Signalled(child[h][current], halt)]
      <3> DEFINE d == Signalled(child[h][current], halt)
      <3>1. d \in ChildType /\ d.life # (IF halt THEN "running" ELSE "stopped")
        BY <1>2, <1>3
      <3>2. child' = [child EXCEPT ![h][current] = d]
        BY <2>1
      <3> HIDE DEF d
      <3>3. child' \in [Parts -> [Pipelines -> ChildType]] /\ child'[h][current] = d
        BY <1>2, <1>3, <3>1, <3>2
      <3>4. SomeSignalled(halt)
        BY <1>2, <1>3, <3>2 DEF SomeSignalled, d
      <3> QED
        BY <3>1, <3>3, <3>4
    <2>2. CASE child' = [k \in Parts |-> [p \in Pipelines |-> Signalled(child[k][p], halt)]]
      BY <1>2, <1>3, <2>2 DEF SomeSignalled
    <2> QED
      BY <1>4, <2>1, <2>2
  <1> QED
    BY <1>1, <1>5, NextSignal DEF h

-----------------------------------------------------------------------------
(* The invariant.                                                          *)

LEMMA InitIsOrderly == Init => Orderly
  <1> SUFFICES ASSUME Init PROVE Orderly
    OBVIOUS
  <1>1. /\ at[Control] = "idle" /\ \A p \in Pipelines : at[p] = "none"
        /\ at \in [Threads -> WorkerPlaces \cup ControlPlaces]
    BY Names DEF Init, WorkerPlaces, ControlPlaces
  <1>2. TypeOK
    BY <1>1, NothingIsTyped, SignalListsAreTyped DEF Init, TypeOK, WorkerPlaces, ControlPlaces
  <1>3. HeldRight /\ ChildrenInPlace
    BY DEF Init, NoChild, HeldRight, ChildrenInPlace
  <1>4. Course
    BY <1>1 DEF Course, StopPlaces
  <1>5. Workers
    <2>1. InOrder("none", NoFlags)
      BY DEF InOrder, Fresh, NoFlags, StopPlaces
    <2> QED
      BY <1>1, <2>1, Names DEF Init, Workers, Preparing, StopPlaces
  <1>6. Signalling
    BY <1>1 DEF Init, Signalling, Halting, Continuing, SignalsFollowThePause
  <1> QED
    BY <1>2, <1>3, <1>4, <1>5, <1>6 DEF Orderly

LEMMA StepIsOrderly == ASSUME Orderly, [Next]_vars PROVE Orderly'
  <1>1. CASE UNCHANGED vars
    BY <1>1 DEF vars, Orderly, TypeOK, HeldRight, ChildrenInPlace, Course, Workers, Signalling,
       SignalsFollowThePause, Seen
  <1>2. CASE Call
    BY <1>2, PlayIsOrderly, StopIsOrderly, PauseIsOrderly, ConfirmIsOrderly DEF Call
  <1>3. CASE ControlGoesOn
    BY <1>3, ControlStopIsOrderly, RetireIsOrderly, JoinIsOrderly, DrainRetiredIsOrderly,
       LaunchIsOrderly, LaunchDecoderIsOrderly, DiscardIsOrderly, ReclaimIsOrderly,
       SignalGroupIsOrderly, SignalChildIsOrderly DEF ControlGoesOn
  <1> QED
    BY <1>1, <1>2, <1>3, WorkerIsOrderly, ChildIsOrderly DEF Next

THEOREM AlwaysOrderly == Spec => []Orderly
  BY InitIsOrderly, StepIsOrderly, PTL DEF Spec

\* Pipes hold what they can, flags and handles are what the code gives them, and each thread
\* is at a place of its own code.
THEOREM TypeCorrect == Spec => []TypeOK
  <1>1. Orderly => TypeOK
    BY DEF Orderly
  <1> QED
    BY <1>1, AlwaysOrderly, PTL

\* Two tracks are never heard at once.
THEOREM OneVoiceOnly == Spec => []OneVoice
  <1>1. Orderly => OneVoice
    BY Names DEF Orderly, HeldRight, ChildrenInPlace, OneVoice, Alive
  <1> QED
    BY <1>1, AlwaysOrderly, PTL

\* A backend without a current pipeline has no process left between calls.
THEOREM IdleIsEmpty == Spec => []IdleHasNoChildren
  <1>1. Orderly => IdleHasNoChildren
    <2> SUFFICES ASSUME Orderly, at[Control] = "idle", current = NoPipeline,
                        NEW h \in Parts, NEW p \in Pipelines
                 PROVE  child[h][p].life \in {"none", "gone"}
      BY DEF IdleHasNoChildren
    <2>1. child[h][p] \in ChildType /\ ~child[h][p].held
      BY Names DEF Orderly, TypeOK, ChildrenInPlace
    <2> QED
      BY <2>1 DEF Orderly, HeldRight, ChildType
  <1> QED
    BY <1>1, AlwaysOrderly, PTL

\* Between calls the processes follow the pause.
THEOREM SignalsAlwaysFollow == Spec => []SignalsFollowThePause
  <1>1. Orderly => SignalsFollowThePause
    BY DEF Orderly, Signalling
  <1> QED
    BY <1>1, AlwaysOrderly, PTL

-----------------------------------------------------------------------------
(* The order of the states: what is seen of each step is a step that an    *)
(* audio backend promises, or nothing.                                     *)

Sounded == current # NoPipeline /\ flags[current].wrote

PromisedStep == [Promise!Next]_<<Seen, Sounded>>

LEMMA SeenOfCurrent ==
    ASSUME current \in Pipelines, UNCHANGED current
    PROVE  /\ Seen = Status(flags[current]) /\ Seen' = Status(flags'[current])
           /\ Sounded <=> flags[current].wrote
           /\ Sounded' <=> flags'[current].wrote
  <1>1. current # NoPipeline /\ current' # NoPipeline
    BY Names
  <1> QED
    BY <1>1 DEF Seen, Sounded

LEMMA SoundedStays == (Sounded' <=> Sounded) => Sounded' = Sounded
  BY Zenon DEF Sounded

LEMMA OnwardIsPromised == ASSUME Orderly, Onward PROVE PromisedStep
  <1>1. CASE current = NoPipeline
    BY <1>1 DEF Onward, PromisedStep, Seen, Sounded
  <1>2. CASE current # NoPipeline
    <2> DEFINE f == flags[current]
               g == flags'[current]
    <2>1. current \in Pipelines /\ current' = current /\ Ripens(f, g)
      BY <1>2 DEF Onward, Orderly, TypeOK
    <2>2. Seen = Status(f) /\ Seen' = Status(g) /\ (Sounded <=> f.wrote) /\ (Sounded' <=> g.wrote)
      BY <2>1, SeenOfCurrent
    <2> HIDE DEF f, g
    <2>3. CASE Status(g) = Status(f) /\ g.wrote = f.wrote
      BY <2>2, <2>3, SoundedStays DEF PromisedStep
    <2>4. CASE Status(f) \in Active /\ Status(g) = Status(f) /\ g.wrote
      <3>1. Seen \in Promise!Active /\ Sounded' = TRUE /\ UNCHANGED Seen
        BY <2>2, <2>4 DEF Active, Promise!Active, Sounded
      <3> QED
        BY <3>1 DEF PromisedStep, Sounded, Promise!Next, Promise!Sound
    <2>5. CASE Status(f) \in Active /\ Status(g) = "Failed" /\ g.wrote = f.wrote
      <3>1. Seen \in Promise!Active /\ Seen' = "Failed" /\ Sounded' = Sounded
        BY <2>2, <2>5, SoundedStays DEF Active, Promise!Active
      <3> QED
        BY <3>1 DEF PromisedStep, Sounded, Promise!Next, Promise!Fail
    <2>6. CASE Status(f) \in Active /\ Status(g) = "Finished" /\ g.wrote = f.wrote /\ f.wrote
      <3>1. Seen \in Promise!Active /\ Seen' = "Finished" /\ Sounded' = Sounded /\ Sounded
        BY <2>2, <2>6, SoundedStays DEF Active, Promise!Active
      <3> QED
        BY <3>1 DEF PromisedStep, Sounded, Promise!Next, Promise!Finish
    <2> QED
      BY <2>1, <2>3, <2>4, <2>5, <2>6 DEF Ripens
  <1> QED
    BY <1>1, <1>2

\* Steps of the control thread that the session does not see.
LEMMA UnseenIsPromised ==
    ASSUME Orderly, UNCHANGED current,
           current \in Pipelines => /\ Status(flags'[current]) = Status(flags[current])
                                    /\ flags'[current].wrote = flags[current].wrote
    PROVE  PromisedStep
  BY OnwardIsPromised DEF Onward, Ripens

LEMMA RequestIsPromised ==
    ASSUME Orderly, NEW p \in Pipelines, RequestStop(p), UNCHANGED current PROVE PromisedStep
  <1>1. flags' = [flags EXCEPT ![p].stop = TRUE]
    BY DEF RequestStop
  <1> QED
    BY <1>1, StopFlag, UnseenIsPromised

LEMMA BeginIsPromised == ASSUME Orderly, Play \/ Stop PROVE PromisedStep
  <1>1. PICK next \in {NoPipeline, CHOOSE p \in Pipelines : at[p] = "none"} : Begin(next)
    BY DEF Play, Stop
  <1>2. /\ UNCHANGED current
        /\ UNCHANGED flags \/ (current \in Pipelines /\ RequestStop(current))
    <2>1. current \in Pipelines \cup {NoPipeline}
      BY DEF Orderly, TypeOK
    <2>2. UNCHANGED current /\ (UNCHANGED flags \/ (current # NoPipeline /\ RequestStop(current)))
      BY <1>1 DEF Begin
    <2> QED
      BY <2>1, <2>2
  <1> QED
    BY <1>2, RequestIsPromised, UnseenIsPromised

LEMMA EndIsPromised ==
    ASSUME Orderly, current' = NoPipeline PROVE PromisedStep
  <1>1. Seen' = "Idle" /\ Sounded' = FALSE
    BY DEF Seen, Sounded
  <1>2. Seen = "Idle" => Sounded = FALSE
    BY StatusRange DEF Seen, Sounded, Active
  <1> QED
    BY <1>1, <1>2 DEF PromisedStep, Promise!Next, Promise!Stop

LEMMA LaunchDecoderIsPromised == ASSUME Orderly, LaunchDecoder PROVE PromisedStep
  <1>1. /\ current = NoPipeline /\ launch \in Pipelines /\ launch # NoPipeline
        /\ InOrder("none", flags[launch]) /\ UNCHANGED flags
    BY Names DEF LaunchDecoder, Orderly, Course, Workers, Preparing
  <1>2. CASE UNCHANGED current
    BY <1>1, <1>2, UnseenIsPromised
  <1>3. CASE current' = launch
    <2>1. Seen = "Idle" /\ Seen' = "Starting" /\ Sounded' = FALSE
      BY <1>1, <1>3 DEF Seen, Sounded, InOrder, Fresh, Status
    <2> QED
      BY <2>1 DEF PromisedStep, Sounded, Promise!Next, Promise!Start
  <1> QED
    BY <1>2, <1>3 DEF LaunchDecoder

LEMMA ForgettingIsPromised == ASSUME Orderly, Join \/ Discard \/ Reclaim PROVE PromisedStep
  <1>1. CASE Join
    <2>1. current' = NoPipeline
      BY <1>1 DEF Join, Orderly, Course
    <2> QED
      BY <2>1, EndIsPromised
  <1>2. CASE Discard
    <2>1. current' = NoPipeline
      BY <1>2 DEF Discard, Orderly, Course
    <2> QED
      BY <2>1, EndIsPromised
  <1>3. CASE Reclaim
    <2> DEFINE ended == {p \in retired : flags[p].done}
    <2>1. UNCHANGED current /\ current \notin ended /\ Forget(ended)
      BY <1>3 DEF Reclaim, Orderly, Workers
    <2> HIDE DEF ended
    <2>2. current \in Pipelines => flags'[current] = flags[current]
      BY <2>1, ForgetKeeps
    <2> QED
      BY <2>1, <2>2, UnseenIsPromised
  <1> QED
    BY <1>1, <1>2, <1>3

LEMMA PauseIsPromised == ASSUME Orderly, Pause \/ Resume \/ Confirm PROVE PromisedStep
  <1> DEFINE f == flags[current]
             g == flags'[current]
  <1>1. /\ current \in Pipelines /\ f \in FlagsType /\ InOrder(at[current], f)
        /\ Seen = Status(f) /\ UNCHANGED current /\ flags \in [Pipelines -> FlagsType]
    BY CurrentIsThere, Names DEF Pause, Resume, Confirm, control, Orderly, TypeOK, Workers, Seen
  <1>2. Seen' = Status(g) /\ (Sounded <=> f.wrote) /\ (Sounded' <=> g.wrote)
    BY <1>1, SeenOfCurrent
  <1>3. CASE Pause
    <2>1. g = [f EXCEPT !.paused = TRUE] /\ Seen \in {"Starting", "Playing"}
      BY <1>1, <1>3 DEF Pause
    <2>2. Seen' = "Paused" /\ Sounded' = Sounded
      BY <1>1, <1>2, <2>1, SoundedStays DEF Status, FlagsType
    <2> QED
      BY <2>1, <2>2 DEF PromisedStep, Sounded, Promise!Next, Promise!Pause
  <1>4. CASE Resume
    <2>1. g = [f EXCEPT !.paused = FALSE] /\ Seen = "Paused"
      BY <1>1, <1>4 DEF Resume
    <2>2. /\ Sounded' = Sounded
          /\ Seen' = "Starting" \/ (Sounded /\ Seen' = "Playing")
      BY <1>1, <1>2, <2>1, SoundedStays DEF Status, FlagsType, InOrder
    <2> QED
      BY <2>1, <2>2 DEF PromisedStep, Sounded, Promise!Next, Promise!Resume
  <1>5. CASE Confirm
    <2>1. g = [f EXCEPT !.started = TRUE] /\ Seen = "Starting" /\ f.wrote
      BY <1>1, <1>5 DEF Confirm
    <2>2. Seen' = "Playing" /\ Sounded' = Sounded /\ Sounded
      BY <1>1, <1>2, <2>1, SoundedStays DEF Status, FlagsType
    <2> QED
      BY <2>1, <2>2 DEF PromisedStep, Sounded, Promise!Next, Promise!Confirm
  <1> QED
    BY <1>3, <1>4, <1>5

LEMMA ControlIsPromised == ASSUME Orderly, ControlGoesOn PROVE PromisedStep
  <1>1. CASE \/ StopChildren(Control, subject) \/ Launch
             \/ \E halt \in BOOLEAN : SignalGroup(halt) \/ SignalChild(halt)
    <2>1. UNCHANGED <<flags, current>>
      BY <1>1 DEF StopChildren, StopDecoder, StopSink, Launch, SignalGroup, SignalChild, control
    <2> QED
      BY <2>1, UnseenIsPromised
  <1>2. CASE Retire
    BY <1>2, EndIsPromised DEF Retire
  <1>3. CASE DrainRetired
    <2>1. UNCHANGED current /\ (UNCHANGED flags \/ \E p \in Pipelines : RequestStop(p))
      BY <1>3 DEF DrainRetired, Orderly, TypeOK
    <2> QED
      BY <2>1, RequestIsPromised, UnseenIsPromised
  <1> QED
    BY <1>1, <1>2, <1>3, LaunchDecoderIsPromised, ForgettingIsPromised DEF ControlGoesOn

LEMMA StepIsPromised == ASSUME Orderly, [Next]_vars PROVE PromisedStep
  <1>1. CASE UNCHANGED vars
    BY <1>1, UnseenIsPromised DEF vars
  <1>2. CASE Call
    BY <1>2, BeginIsPromised, PauseIsPromised DEF Call
  <1>3. CASE ControlGoesOn
    BY <1>3, ControlIsPromised
  <1>4. ASSUME NEW p \in Pipelines, Worker(p) \/ Child(p) PROVE PromisedStep
    BY <1>4, WorkerIsOrderly, ChildIsOrderly, OnwardIsPromised
  <1> QED
    BY <1>1, <1>2, <1>3, <1>4 DEF Next

\* The pipelines implement the audio backend: the session sees the states in the promised
\* order, finished only after sound, and nothing but a stop after the end.
THEOREM PromiseIsKept == Spec => KeepsThePromise
  <1>1. Init => Promise!Init
    BY DEF Init, Promise!Init, Seen
  <1>2. PromisedStep => [Promise!Next]_<<Seen, current # NoPipeline /\ flags[current].wrote>>
    BY DEF PromisedStep, Sounded
  <1> QED
    BY <1>1, <1>2, AlwaysOrderly, StepIsPromised, PTL DEF Spec, KeepsThePromise, Promise!Spec
=============================================================================
