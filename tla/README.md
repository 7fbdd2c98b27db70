# LoFiBox-Zero in TLA+

Models, model-checking runs and machine-checked proofs about the core of
LoFiBox-Zero, kept beside the code they describe. `PROJECT.json` lists every
component, run, mutant, hazard and theorem, and maps each definition to the lines
it stands for.

## 1. The system

LoFiBox-Zero is a music player for small devices. One process holds the runtime;
a graphical page, a terminal UI, a command line and a web UI are its clients.

| Part | State it keeps | Operations | Talks to |
| --- | --- | --- | --- |
| playback core (`src/playback`) | `QueueState` (base and playing order, active index), `PlaybackSession` (status, current item, clock, modes, pending finish, lyrics wait), lookup generation and finished lookups | start, step, jump, shuffle, repeat, pause, resume, seek, stop, tick | library (by track id), audio backend, lookup threads |
| audio backend (`src/audio/output`) | one current PCM pipeline with worker, decoder and sink processes; retired pipelines; the one-process fallback | play, pause, resume, stop, state, position | playback, by calls; its worker runs on its own |
| runtime (`src/runtime`) | the command bus with its mutex and version, the snapshot, the event stream, the socket server and its clients, EQ and settings | dispatch, tick, query, subscribe | clients by commands and events, everything below by calls |
| library (`src/app/library_*`, `src/library`) | the live model, its derived indexes, the song list in context, one asynchronous scan, the stored index | begin and poll scan, merge remote tracks, apply facts, sort, look up | scanner thread, store, playback |
| application services (`src/application`) | none of their own | one service per use case over the controllers | runtime, pages |
| remote sources (`src/remote`, `src/plugins`) | profiles, plugin processes | browse, resolve a stream | source tools, by process and JSON |
| host services (`src/platform/host`) | caches, credential and profile stores, child processes, the single-instance lock | read metadata, fetch lyrics and artwork, spawn, lock | everything above, by provider interfaces |
| clients (`src/webui`, `src/tui`, `src/cli`, `src/ui`, `src/app` pages) | navigation, subscriptions, drawing | input to commands, events to screens | runtime |

Who runs when. Commands and `tick` enter through `RuntimeCommandBus`, under its
mutex, from the GUI thread, one thread per socket client and the web server. Four
things move between two dispatches: the lookup threads of the enrichment
coordinator, the PCM worker of the backend, the library's scan thread, and the page
code of `AppRuntimeContext::update`, which runs after the tick outside that mutex.

### What makes each part correct, and what is hard about it

* **Playback.** The queue stays a rearrangement of its base order with one active
  position; the session agrees with what is heard; only the right lookup reaches
  the session; a finish is consumed once, and an early one never skips the item.
  Hard: starts that fail half way, remote sources that do not answer, late and
  reordered lookups, rescans that reuse ids, a pause that races the end of a stream.
* **Audio backend.** One pipeline sounds at a time, a stopped one ends, the tail of
  a stream is played before `Finished`. Hard: worker against control thread,
  processes that die, retired pipelines.
* **Runtime.** Events are numbered without gaps, a client sees each state change,
  the server stops. Hard: clients that are idle or vanish, versions that move
  without a state change.
* **Library.** A scan's result is applied once and never lost, ids denote what they
  denoted, play counts survive. Hard: the poll and the commands run on different
  threads, and the scan worker publishes two flags.
* **Cache, plugins, host.** Limits hold after every step, an entry is found or
  absent and never half written, a child process is reaped. Hard: partial failure
  and time-outs.

The hazards are listed one by one, with their lines, in `PROJECT.json`.

## 2. Modules

| Module | Models |
| --- | --- |
| `PlaybackPolicy` | the pure decisions of `src/playback`: next index, stepped index, finish gate, session clock |
| `Playback` | the playback core with the runtime handlers that drive it |
| `MCPlayback` | instances of it for TLC |
| `PlaybackProofs` | theorems about `Playback` |
| `LibraryScan` | the asynchronous library scan between presenter, clients and worker, with the persisted index |
| `MCLibraryScan` | instances of it for TLC |
| `LibraryScanProofs` | theorems about `LibraryScan` |
| `AudioBackend` | what a backend promises the session: its states and their order |
| `PcmPipeline` | the PCM backend: pipelines, their workers, decoders and sinks, and the session's calls |
| `PcmPipelineProofs` | theorems about `PcmPipeline` |
| `RuntimeEvents` | the runtime as its clients see it, and the events made of two snapshots |
| `RuntimeServer` | the Unix socket server, one-shot requests and the terminal's event stream; extends `RuntimeEvents` |
| `RuntimeProofs` | theorems about `RuntimeServer` and `EqRuntime` |
| `WebUi` | the HTTP server, its detached threads and adapter, and the pages; extends `RuntimeEvents` |
| `WebUiProofs` | theorems about `WebUi` |
| `PluginRuntime` | the host of one helper process and the helper's loop |
| `PluginDiscovery` | manifests, the graph of dependencies, the load order and the registry |
| `PluginProofs` | theorems about `PluginDiscovery` and `PluginRuntime` |
| `EqRuntime` | the equaliser commands and the three copies of the profile they make |
| `AppPages` | the page stack, the start of the program and the list of remote sources |
| `AppPagesProofs` | theorems about `AppPages` |
| `Enrichment` | the providers behind a lookup: facts, identity, cover and lyrics of an item, caches and write-back |
| `MCEnrichment` | its instance for TLC |
| `EnrichmentProofs` | theorems about `Enrichment` |

### `Playback`

| Variable | Code |
| --- | --- |
| `queue` | `QueueState`: `base_ids`, `active_ids`, `active_index` (0-based, -1 undefined) |
| `session` | `PlaybackSession` without what is only drawn; `pendingFor` is `finish_pending_seconds`, cut at the confirmation time |
| `backend` | what `state()` and `positionSeconds()` return, and the medium last started |
| `lookup` | `generation_`, the threads still running, `pending_results_` |
| `library` | `LibraryModel`: the medium (path or remote item) of each id and the sorted order |
| `songs` | `trackIdsForCurrentSongs()` |

A command goes through several objects, and most can refuse. A handler that may go
several ways is therefore an operator from an application state `w` (a record of the
six variables) to its set of outcomes `[app, ok]`, `ok` being the boolean the handler
returns. They compose as the code does: `PlayFirstAvailableIn` calls
`ResumePlaybackIn` and, where that returned false, `StartTrackIn` on the state it
left. An action dispatches one command (`ClientMay`, then `Perform` or `Commit`); it is
atomic because the bus is locked. `Tick` is `PlaybackController::update`:
`ApplyPending`, then `TickBackend`.

Left out: the metadata, artwork and play count a start or an answer writes into the
track record, visualisation frames, the snapshot returned to the client, and
`transition_generation`, which nothing reads. Time is counted in one quantum, so the
0.25 s by which `inactivePausedTrackAtKnownEnd` anticipates the end is within it.
`BackendFinishes` from `Paused` is the race of `pause` with the sink's drain, which
`PcmPipeline` shows in detail.

`Libraries` are the models a scan may deliver; `Merged` adds a remote track under the
next free id, anywhere in the order since the order is by title.

### `LibraryScan`

| Variable | Code |
| --- | --- |
| `disk` | the audio files under the enabled roots |
| `store`, `live`, `index` | the index file; `LibraryRepository::library_` and `state_` |
| `running`, `done`, `pending` | `scan_running_`, `scan_done_`, `pending_scan_model_` |
| `joinable`, `worker` | whether `scan_thread_` holds a thread; that thread and the model it reuses |
| `thread` | where the presenter and every client thread is inside a call, and what it holds there |
| `bus` | who holds `RuntimeCommandBus::mutex_` |
| `alive` | FALSE once `std::terminate` or a dangling pointer has ended the program |

A model maps each medium to its id and play count; id 0 stands for absence. Here the
calls are not atomic: each load or store of an atomic flag, the look and the join of
`joinAsyncScan`, the exchange of the pending result, the application of a scan and the
two halves of a merge (count ids, append) are steps of their own, in the order of the
code, because the presenter (`updateAppLifecycle`) runs outside the bus. Applying a
scan and saving it is one step: a program that ends between the two is the same as a
save that fails followed by `Restart`. Two threads that join one `std::thread`, or
assign over one that is joinable, end the program (`JoinFails`, `BeginOverwrites`); a
track pointer taken before another thread changed the model dangles, and using it loses
the play or ends the program (`LosesPlay`). Other outcomes of the unsynchronised access
to the model, such as a torn vector, are not modelled.

Left out: scan progress, a missing metadata provider (no scan is begun, the index is
degraded), file fingerprints (a changed file keeps its record and id, only its tags are
read again), overlapping roots, the text format of the store and a second process that
writes it.

### `PcmPipeline` and `AudioBackend`

| Variable | Code |
| --- | --- |
| `flags` | per pipeline `stop_requested_`, `worker_done_`, `started_`, `finished_`, `failed_`, `paused_`; `wrote` is `hasWrittenOutput`; `mute` is the early return of `run` |
| `child` | per pipeline the decoder and sink processes: their life, and whether the handle is held (`active`, `pid > 0`) |
| `audio` | what the decoder has left, what its pipe and the sink's pipe hold, whether the latter is open |
| `at` | where each worker and the control thread is |
| `current`, `retired` | `pcm_pipeline_`, `retired_pcm_pipelines_` (as a set: a drain may take them in any order) |
| `subject`, `launch`, `signals` | locals of the control thread: the pipeline it stops, the one it will launch, the children a pause or resume has yet to signal |

The session's calls come from one thread at a time, because the runtime bus holds its
mutex, so one control thread stands for them. The handles of the children are shared
with the worker and not locked: every look at a handle, every signal, every read and
write, and every stop of a child is a step of its own, and the children write, play and
exit in between. Two signals go to each child; the second reads the pid again, and when
the worker has let go of the child it is -1, which addresses every process of the user.

`AudioBackend` states the order of states `Playback` relies on. `KeepsThePromise` shows
that `PcmPipeline` implements it, with `Seen` (what `state()` returns) for the state and
`wrote` for "has been heard"; the steps that only move processes are stutters.

Abstractions. Stopping a child (SIGTERM, 450 ms, SIGKILL, wait) is one step, so a number
of a descriptor or process that the system reuses meanwhile is not modelled. Of a retired
pipeline only `stop_requested_` and `worker_done_` are read again, the rest is reset when
it is retired. Only a sink that a pause has stopped outlasts the three seconds it is given
to drain. Position, filters, the spectrum, the confirmation times of the sinks and the
fallback that plays through one process are left out.

### `RuntimeEvents`, `RuntimeServer` and `WebUi`

A domain of the snapshot (playback, progress, queue, ...) is a count of its changes, so
that two snapshots tell which is newer; `Domains` says which move in an instance.
`EventsBetween` is `runtimeEventsBetween`: what differs, in the order of the code, with
the threshold of progress. `runtime.life` counts the starts of the program.

| Variable of `RuntimeServer` | Code |
| --- | --- |
| `main` | the program: down, up, or where it is in `stop()` |
| `server` | `running_`, `server_fd_`, the accept thread, the backlog of the socket |
| `conn` | per connection: the client's end, its server thread (`here`), the frames on their way, `previous` and the snapshot sent last |
| `terminal` | `TuiApp`: its event thread with the stream, the ring, the picture |

Connecting and sending the request are one step, the events of one turn are one frame,
and ended connections are used again, so `Conns` bounds those that exist at a time.
Thread objects of ended clients, which the server keeps until `stop()`, are not counted.
`Crash` ends the program anywhere; the socket file it leaves behind is taken over by
`Start`. The clients are those of this repository, which send as soon as they have connected and
read what they asked for; that a client refuses an answer beyond 1 MiB
(`unix_socket_runtime_transport.cpp:103`) is left out. `stop()` wakes its accept thread by a
connection of its own (`:410`), which waits while the backlog is full: if that thread has seen the
flag by itself and clients fill the backlog, `stop()` never returns. This is `StopIsStuck`, which
`CallsEnd` names as its one exception.

| Variable of `WebUi` | Code |
| --- | --- |
| `main` | the program: up, where it is in `stop()`, or how it ended |
| `web` | `running_`, `listen_fd_`, the backlog, the accept thread |
| `adapter` | `current_snapshot_` and `previous_snapshot_`, one of each for all threads |
| `conn` | per page a socket, a fetch and a command: whether the client is there and what it has `said`, where its thread in the server is, what is on the way |
| `page` | the script of the page: whether it is open, what it shows |

The accept thread reads each request itself and answers all but commands and sockets. A
client may connect and say nothing, or send its request and not read the answer: neither wait has
a limit (`webui_server.cpp:280`, `:262`), and while it lasts (`Held`) nobody else is served and
`stop()` does not return. Undefined behaviour is a choice: threads that are inside the adapter at
once, the threads of commands among them, may break the program (`Race`) or overwrite each other's
snapshots; a send to a page that has left may end it by SIGPIPE, be lost or fail. A program that
has ended is not started again. Pages of `Watchers` stay, speak and read; the others may do
otherwise, and their pictures are not kept.

### `PluginRuntime`

| Variable | Code |
| --- | --- |
| `host` | `pid_`, `stdout_buffer_`, `restart_count_` with its minute, `next_request_id_` |
| `helper` | the process, whether it has greeted and whether it was told to end |
| `input`, `output` | the two pipes; a line carries the number of its request |
| `call`, `mutex` | each caller's place in `call`, the answer it got; `call_mutex_` |

`FirstNumber` is the search for the first `"id"` in the text of a line, which in a list
finds that of its first item; ids of items are taken to be strings, as the plugin
specification has them, since an item whose id is a number would pass for the answer to the
request of that number. An answer longer than the host takes comes in two pieces.
A read may give up at any time (`ReadNothing`). `killProcess`, from a call that fails or from
`stop()`, is two steps: it sends SIGTERM (`Tell`), and when the process has ended it forgets it
(`Reaps`, `Stopped`). In between it waits with the mutex held and without a limit, and nothing
kills a helper that ignores the signal (`plugin_runtime.cpp:404`). Left out: standard error, the
conversion of results.

### `PluginDiscovery`

| Variable | Code |
| --- | --- |
| `phase`, `at`, `dep` | the part of `PluginRegistry::discover` that runs, and the indices of its loops |
| `found`, `seen` | the directories with a manifest that are still to be taken, in their order; `seen_ids` |
| `plugins`, `edges`, `skipped` | `DependencyGraph` |
| `waiting`, `queue`, `adjacent`, `order` | `topologicalSort`: the edges `in_degree` counts (a set, where the code keeps its size), the queue, the edges of the plugin taken last, the result |
| `manifests` | `PluginRegistry::manifests_` |

A manifest is an id, capabilities and dependencies; what the parser reports is one bit. Each turn
of a loop is a step. A dependency is looked for by id first and by capability only if no
plugin that is still well has that id (`Candidates`). The loop looks at the status of a plugin
once, so the dependencies of a plugin given up are linked to the end (`Linking`); its edges are
then not counted. The warnings are left out.

### `EqRuntime`

| Variable | Code |
| --- | --- |
| `eq` | `EqRuntimeState`, what clients read |
| `chain` | `dsp_chain_` of the audio pipeline controller |
| `backend` | `dsp_profile_` of the backend |
| `engine` | the profile of the pipeline that plays, if there is one |

Every command is one step under the mutex of the bus, and so is a start or a stop. Commands that
are rejected (a band that is none, a preset or plugin nobody knows) change nothing and are no
action. A sum that overflows the `int` of the build may be any number (`Sums`). Cycling
presets backwards from moved bands takes the last but one, since `current` is -1 then: the model
has it as the code does. Coefficients of filters and the replay gain are left out.

### `AppPages`

| Variable | Code |
| --- | --- |
| `stack` | `navigation.page_stack`; `list` and `other` stand for pages alike in what they open |
| `profiles`, `selected` | `remote_profiles`, `selected_remote_profile_index` |
| `home` | history: the source whose page opened the field editor |
| `library`, `animated`, `opening` | what a frame looks at: the scan's state, the boot animation, `pending_open_uris` |
| `stored` | the file of remote profiles |
| `left` | what the bounds leave, and history: whether a source was removed, whether memory is `fresh` |
| `command` | a command of the command line between its read and its write of that file |

A source is its id. Left out: the fields and secrets of a source, server sessions, what is
browsed, status texts, the help overlay, which swallows keys, the pages nothing opens
(source manager, stream detail), local roots as sources and ids given to `source add` by hand.
Selections, scrolling and typing change none of the variables. `MaxLists` bounds how deep a list
or the settings may lie, `MaxDepth` the rest: the program bounds neither.

A read of the file may fail or end early, which the program takes for the whole: it gets any
prefix, the empty one included. A save writes over the file in place, so it leaves
the old list, the new one or what had been written when it failed. So a source can be
lost: a read that fails is followed by a save of the list it gave, and the command line and the
program each write over what the other wrote. `left.fresh` is history: memory was read
whole and the command line has not written since.

### `Enrichment`

| Variable | Code |
| --- | --- |
| `file` | the tags, lyrics and cover in each audio file |
| `memory` | `SharedRuntimeCache::entries`: per item facts, identifiers, identity, lyrics, and what has been asked (`marks`) |
| `saved` | the cache directory: the entry, the lyrics, the picture, the marker of a missing one |
| `fpcalc` | whether fingerprints can be made in this run of the program |
| `lookup` | each lookup thread: its place and the locals that outlive a question |
| `answered` | history: which questions were answered for the present state of an item |

`Playback` has a lookup as a request and an answer; this is what is between. A local file goes
through `metadata_provider`, `artwork_provider` and `lyrics_provider`, a stream through
identity, lyrics and cover. A thread stops at the questions to the services; what lies between two
of them is one step, although the map of entries is not locked, so two threads that use one
entry in the middle of such a step are not modelled. Texts are known only by how they fit the
name of the file (`Facts`), which is what the code compares them with.

The key of a file holds its size and time. `Change`, by another program or by a write-back,
therefore gives the file an empty entry, and threads that hold the former key become `stale`:
what they save is never read again, what they still use of it is in `old`. As a former key is
never met again, `memory` and `saved` are for the present keys only.

Left out: genre, composer and duration; covers in the directory of a file and the special rules for
files in the root of the library; the versions of cache and lookup, which a release changes; the
waits between questions to MusicBrainz; writes by other programs in the middle of a write-back;
a cache directory that cannot be written.

## 3. Runs

| Run | Question | Instance |
| --- | --- | --- |
| `PlaybackQueue` | is the queue well formed, whatever sequence of queue commands, and does only the right answer reach the session? | 2 files, 3 libraries that drop one and renumber the other, 2 lookups in flight, no clock |
| `PlaybackAudio` | does the session match the sound, is an early finish harmless, does an advance without repeat move on, are the lyrics those of the item? | 2 files, 1 remote track with lengths 2, unknown, 1; failing starts; 2 lookups in flight; no rescans |
| `PlaybackLive` | is every finish consumed, does a lookup end the wait? | 2 files, `FairSpec` |
| `LibraryAlone` | without clients, does the scan keep ids, remote tracks and readiness, does loading end, does the program survive? | 2 files, 1 remote track, 3 scans, 1 play, failing saves, restarts, `FairSpec` |
| `LibraryRaces` | with a client, is what is stored local, and does a command that joins a scan give the bus back? | 1 file, 1 remote track, 1 client, 2 scans, 1 play, `FairSpec` |
| `PcmPipeline` | is one track heard at a time, is no process left behind, do the processes follow a pause, do the states come in order, is an exit noticed, does every call return? | 2 pipelines, 2 chunks, pipes that hold 1, `FairSpec` |
| `RuntimeServer` | does a terminal's picture go forward only and catch up, is a command that was applied answered, do `stop()` and every request end? | 2 connections over a backlog of 1, 2 program starts, 1 request, `FairSpec` |
| `WebUi` | unless a client holds the accept thread for ever, does a page that stays catch up and `stop()` end? | 2 pages, one watches; the other sends commands and may not speak or not read; `FairSpec` |
| `PluginRuntime` | is an answer the caller's own, is every helper known to its host, does whoever holds the mutex give it back, unless the helper ignores SIGTERM? | 2 callers, 5 requests, 1 restart a minute, `FairSpec` |
| `ClaimPlugin` | are answers with items taken, as the plugin specification has it? They are not; see `findings` | 1 caller, 2 requests |
| `AppPages` | does the editor write to the source it was opened for, does memory cover the file, are ids unique, does the start end? | 2 kinds, 2 sources, 5 pages, 1 refresh, 1 command, reads and writes that fail or are cut short, `FairSpec` |
| `Enrichment` | is a service that has answered asked again, are tags that fit replaced? | 1 file or 1 stream, 2 alike lookups, a service that knows by sound another recording |

Bounds of the playback runs. In `PlaybackAudio` three tracks give a first, a middle and a last
position and a remote neighbour on either side; in `PlaybackQueue` two files, one of which a
rescan may drop and another give its id to the other, are enough for an id to change its meaning.
`ElapsedCap` is the longest duration: beyond it the clock only saturates. A finish is early at
positions 0 and 1 of 2 with `AcceptRemaining = 0`, and at 0 only with 1. `MaxLookups` cuts off
steps that would start one more lookup than the run needs (two in flight and one newer suffice to
reorder them), and `ClientLookups` keeps clients quiet below it in the live run so that ticks are
never cut off by the bound. `Commands` selects the commands of a run; together the runs use all of
them.

Bounds of the library runs. Two files let one stay while the other comes and goes,
and let two newcomers be numbered in either order. `MaxScans` counts over all restarts:
three scans index a file, drop it and index it again over a store that has moved on; it
also bounds the ids. One client is enough for every pair of threads that can meet,
since clients exclude each other by the bus; two scans are one that ends and one that
begins while it is polled. `MaxPlays = 1` is the play that is lost. Saves that fail are in
`LibraryAlone` only. `BusComesBack` excuses a program that a double join or a dangling track has
ended: with a client `Survives` is false (see below).

Bounds of the pipeline runs. Two pipelines are one that plays and one that is retired:
all that can meet, since a start kills the children of the one it replaces before it
spawns its own, and a retired worker only ends. Two chunks over pipes that hold one let
a write block, a pipe run empty before the stream ends and audio be lost with it.

Bounds of the server run. Two connections are the stream and a request, or a lost stream
and its successor, or, over a backlog of one, a full queue that a waking `stop()` meets: the
system takes one connection more than the backlog says, so two fill it as nine fill the
backlog of 8 in the code. `progress` is the domain with a threshold: with `ProgressStep = 2`, a
change of one makes no event and must come by heartbeat. A socket of one frame blocks a
writer at the second, a ring of two events overflows at the third. Two lives give a restart under a
terminal that stays. Bounds of the web run: two pages suffice for two sockets and a request
that race for the adapter; the one that does not watch may leave, keep silent or not read, and
has one connection at a time, which can hold the accept thread as well as three. Both runs set
`CHECK_DEADLOCK FALSE`, since the program may end for good.

Bounds of the plugin run. Five requests let two time out and their answers meet the third;
two callers wait for one mutex. With no calls left everyone may rest, hence
`CHECK_DEADLOCK FALSE`.

Bounds of the page run. A stack of five is menu, settings, setup, profile and field editor, the
longest way to the editor that takes no page twice; two sources let the selected one and another
differ; one command is a list read before and written after a change of the program. The user
moves on for ever, so deadlock is checked.

Bounds of the enrichment run. One item at a time: items share nothing but the services. Two
lookups of it are the pair that loads and saves over each other; since they are alike, they are
a symmetry, and no property of the run is about fairness. The file begins without tags and with
lyrics that are not its own; write-backs and edits lead to the other contents. One offer is
unsure, the other sure of names that are not those of the file, which is what it takes to
replace tags. The run has no type invariant of its own: it is in the proofs.

Fairness of `Playback` (`FairSpec`). `LoFiBoxApp::update` ticks on every frame, so a tick of
positive length is weakly fair. Each lookup thread returns, since every provider call
does. A backend that started plays, finishes or fails in the end, since a stream is
finite and a dead process is noticed; a paused one need not.

Fairness of `LibraryScan` (both runs). A thread inside a call goes on and the worker ends. The
presenter's update is strongly fair: it runs on every frame, and only finitely many
commands of a user come between two frames.

Fairness of `PcmPipeline`. The control thread and the workers go on while they are inside
a call or a loop, since each wait in the code has a limit except a blocked write and a
join. A sink that runs plays what it was given and exits at the end of its input. Nothing
is assumed of a decoder, which may hang, nor of the session's calls.

Fairness of `RuntimeServer`. As long as some thread or client can go on, one of them does
(`GoesOn`): weaker than fairness to each. `stop()` goes on while the backlog has room. Nobody has
to start, end or change the program. Fairness of `WebUi`. The accept thread unless it is `Held`,
the sockets' threads, the stopping thread and the script of a watching page (whose timer asks
again) go on; a command may take for ever. Fairness of `PluginRuntime`. Callers and `stop()` go
on, time-outs included, and a helper reads its input: without that a write may wait for ever,
which is a hazard of its own. It need not greet, nor end when it is told to. Fairness of
`AppPages`. Frames come, scans and the animation end; the user does nothing.

`PluginDiscovery` and `EqRuntime` have no run: the first is one sequential algorithm, the second a
handful of assignments, and what matters about both is proved outright.

## 4. Proofs

`PlaybackProofs` proves for every value of the constants that satisfies
`PolicyAssumption` and `PlaybackAssumption`:

* `TypeCorrect`, `QueueIsWellFormed`, `SessionMatches`, `LyricsStayCurrent`: invariants of
  the runs, and `RepeatModesExclude`, which needs no run;
* `AnswersFit`, `EarlyFinishKeepsTheItem` and `AdvanceLeavesTheQueue`: the action
  properties;
* `ScansAloneReassign`: whenever the item on show is the one that sounds, only a scan that
  gives its id to another medium can part them. `HeardStaysCurrent` follows from it:
  `HeardIsCurrent` holds in every instance whose `Commands` do not hold `"rescan"`, which is
  what `PlaybackAudio` checks. With rescans it is false (`Moving` has one).

The inductive invariant is `IInv == Sound(App) /\ LyricsAreCurrent`. `Sound(w)` says of
any application state `w` that it is typed, its queue well formed, its repeat modes
exclusive and its session in line with the backend; `LyricsKept(w, v)` that `v` has no
lyrics or those of `w` with the same item and generation. `Follows(w, v)` is both.
Each operator that yields outcomes has a lemma that its outcomes follow the state it
was given, and `FollowsOn` composes them, so the proof has the shape of the call graph.
The invariant cannot be weakened to any single conjunct: a start passes through states
whose status is Playing before their audio is (`Begun`, repaired in `LaunchedSound`),
and the end of a queue relies on the backend being quiet when an advance fails
(`AdvanceAfterFinishFollows`).
`LyricsAreCurrent` alone is not inductive without `Answered`, which says that the only
steps that bring lyrics are ticks.

`HeardIsCurrent` needs a second pass through the same call graph (`...Heard`): each operator
either leaves the sound, the current item, the stream and the library alone (`Undisturbed`), or
launches the very medium it has just made current (`LaunchHeard`). A remote start needs nothing
of the state before it (`StartRemoteLibraryTrackHeard`), which is why merging a remote item into
the library, a change under the session's feet, does no harm: a start always follows.

Every invariant and action property of the runs is stated by a theorem. What is only
model-checked is liveness, in all modules (liveness under fairness is out of the prover's
reach).

`LibraryScanProofs` proves for every value of the constants that satisfies
`ScanAssumption`:

* `TypeCorrect`, for any clients;
* `PresenterSurvives`, `ReadyTellsTheTruth`, `IdsStayUnique`, `StoredIdsStay` and
  `RemotesComeBack`, stated as `Spec => [](Clients = {} => ...)`: with clients
  they fail because the presenter
  polls and merges outside the bus (`app_runtime_context.cpp:369`), although
  `runtime-command-session-architecture-spec.md:343` has all live mutations pass one
  serialized dispatcher (giving `LibraryAlone.cfg` a client makes
  TLC find how a poll outside the bus breaks readiness and two merges share an id).

For the second group the inductive invariant is `Alone`, which also says that a worker that
runs is owned by `scan_thread_` (`WorkerIsOwned`). `Control` ties where the
presenter is to what the flags then say (nothing to join from `mark` to `spawn`, no
pending result from `apply` on). `ReadyIsTruthful` needs it at `BeginSpawns` and
`PollApplies`. `Identity` extends `IdsAreUnique` and `StoredIdsHold` to every model on
its way into the library: the worker reuses the current store, a pending or taken
result agrees with it, and a merge that has counted still holds a free id. `Rejoin`
says where the presenter may be while a ready index lacks remote tracks. What a scan,
a merge and a save do to ids are lemmas (`ScanKeepsIds`, `WithNewcomers`,
`NewcomersAreDistinct`, `SavedIsLocal`).

`EnrichmentProofs` proves for every value of the constants that satisfies
`EnrichmentAssumption`:

* `TypeCorrect`: `Sound`, which is `TypeOK` and that a thread knows the item it works for;
* `NothingIsAskedTwice`: the action property `AnsweredIsNotAsked`;
* `FittingTagsAreKept`: the action property `FittingTagsStay`.

For the second the inductive invariant is `Agree`. What was answered is marked in the saved
entry, and marks in memory are all of those of the saved entry or none (`Recorded`); an item
that some thread has begun to read has all of them (`UpToDate`). Without the latter a
provider that saves an entry it never loaded would drop the marks of a former run; it holds
because every provider loads the entry before its first question, and `ReadsAllMarks` says that
it brings every mark. A write-back empties both sides together with the history
(`ChangeAgrees`). The third rests on `ClashSeen`: a thread that will replace tags has
seen them clash in the very file it writes, or it is stale.

`PcmPipelineProofs` proves for every number of pipelines, chunks and size of the pipes that
satisfy `PipelineAssumption`: `TypeCorrect`, `OneVoiceOnly`, `IdleIsEmpty`,
`SignalsAlwaysFollow`, and with `PromiseIsKept` that the pipelines implement `AudioBackend`.
The inductive invariant is `Orderly`. `ChildrenInPlace` says whose children can be held at all,
`Course` what the place of the control thread says of it; together they are `OneVoice` and
`IdleHasNoChildren`. `Workers` ties the flags of a pipeline to the place of its worker
(`InOrder`): a finished one has ended, a failed one writes no more, what concludes without
`mute` or `stop` has been heard. `Signalling` says how far the signals of a pause have gone, so
that the last one brings the processes in line. Workers and children need no proof of their own
against the control thread: each of their steps is an `OwnStep`, by which children only fade and
flags only ripen, and `OwnStepKeeps` shows once that such a step harms nothing. The refinement
rests on the same relation (`Onward`).

`PluginProofs` proves `AnswersStayOwn` and `HelperStaysKnown` for any callers, requests
and restarts. The point of `Sound` is that a request's number is never 0, which is the number
read from a list: what is taken for an answer is the own one and a value.

It proves for any manifests, circles included, `OrderHolds`,
`OnlyCirclesAreLeft`, `NoneIsTurnedAway` and `RequiredIsThereOrGivenUp`, over a type invariant
of its own (`TypeCorrect`). The inductive invariant follows the phases. `GraphInv`: the skipped
plugins are those whose status is not `Ok`, ids among the others are unique, edges lead
to plugins that are well or were given up, and each required dependency a well plugin has behind
the loop has an edge to one that answers it. `SortInv`: an edge still counted waits for a plugin
that is not in the order or whose edges are being counted down, a plugin is queued exactly when
nothing is left to count, and never twice. `RegistryInv`: what is registered is the order so far.

`RuntimeProofs` proves for any number of connections and starts of the program, and any sizes
of sockets and ring:

* `ConnectionsStaySound`: `TypeOK` and `Threads`, what the threads of the server rely on;
* `AppliedStaysAnswered` (`AppliedIsAnswered`) and `PicturesStayInOrder` (`PicturesComeInOrder`),
  invariants of the run;
* `PictureNeverGoesBack`: no step draws an older state than the one on the screen, over lost
  streams, overflows and restarts.

The inductive invariant is `IInv == TypeOK /\ Threads /\ PicturesRise`. `AppliedIsAnswered` looks at
one connection, but it is not inductive: accepting a connection sets up its thread from nothing, and were
a connection twice in the backlog, the second time would take over a thread that owes an
answer. `BacklogWaits` says that the backlog names waiting connections, each once;
`StreamIsHeld` that the terminal's stream is a connection it still holds. For the pictures,
`PicturesRise` adds to drawn, ring and wire a place of its own for the snapshot that the server's
thread has taken and not yet written: the property alone does not survive the
`Write` that follows a change. It is one relation, `Ordered`, on those five places, and each
step is one of seven moves along them (`Moves`, `Takes`, `Writes`, `Loses`, `Reads`,
`Overflows`, `Draws`), each a lemma about sequences.

The same module proves of `EqRuntime` `GainsStayInRange`, `HeardStaysAsShown` and
`NamesStayTrue` under `PresetAssumption`, for any presets, effects and numbers, those that
overflow included. The second needs no start to succeed: what is given to a pipeline is what the
controller holds, and commands reach all three copies.

`WebUiProofs` proves for any pages and domains (`EventsAssumption`, `WebAssumption`) what stands
behind the two liveness properties that TLC checks. `PagesShowThePast`: no page shows what the
runtime has not been yet, although the snapshot that is sent may be another thread's, frames come
late and leave domains out, and both are mixed with fetched snapshots. `RequestsAreKnown`: what
waits for `accept` is what is in the backlog, once each, and the accept thread answers one
connection at a time. `OnlyClientsHoldTheJoin`: the thread `stop()` joins has ended, has a step to
take, or is held by a client that keeps its connection and does not send or read. This is the
safety half of `StopEnds`: clients can hold it, a connection that never comes cannot. The
inductive invariant `IInv` says where frames can be (`Carries`): in the hands of a thread, in the
adapter, on their way or on a page they are of the past, and the past only grows (`PastFacts`),
which is why it does not matter who wrote to the adapter last. Most steps concern one connection
and go through `StepOfOne`.

`AppPagesProofs` proves `TypeCorrect`, `EditorStaysWithItsSource` (`EditorKnowsItsSource`),
`SavesDropNoSource` (`MemoryCoversTheFile`) and `SourceIdsStayUnique` (`IdsAreUnique`) for any
number of pages on the stack, sources and commands. The inductive invariant is `IInv == TypeOK /\
Editing /\ Lists`. A request for an address deselects the source at once, so
`EditorKnowsItsSource` needs to know that no editor is open then: `AddressComesFirst` says that
only the boot page is. `EditorIsOnTop` is what keeps going back from uncovering an editor over
another source. `MemoryCoversTheFile` is one conjunct of `Lists`: a save leaves the file as it was
or a prefix of what memory holds (`CutFacts`), and a whole read makes both equal (`Reload`), so
that only a read that fails or a writer elsewhere lets the file hold what memory does not. The ids
of a list are unique because each is the length of the list when it was made (`ListsNumbered`), in
memory, in the file and in the hands of the command line, until one is removed.

## 5. Plan

1. `Playback`, `LibraryScan`: done, with their proofs; to come: overlapping roots, a second
process that writes the store, scan progress. 2. `PcmPipeline` over `AudioBackend`,
`RuntimeServer`, `WebUi`, `PluginRuntime`, `AppPages`: done with TLC and with proofs.
`Enrichment`: done, with its proofs; to come: steps that interleave inside a provider. 3. Next
modules: the cache manager, captured processes with time-outs, the single-instance lock, settings
and the remote session, the merge policies of `src/metadata` and the indexes and reports of
`src/library`.

## 6. Not modelled

Signal processing (floating point), drawing, parsing and formatting, the source tools
in Python, vendored headers and entry points: their state is either none or nothing that
outlives a call. `PROJECT.json` names each with its reason.

Hazards seen and left to later work, for they need state the models do not have: `stop()` of the
runtime server joins a thread that reads from an idle client
(`unix_socket_runtime_transport.cpp:427`); worker and control thread both close the descriptors of
one child (`runtime_process.cpp:771`); a cache entry is written in place, so that a crash may cut
it short (`runtime_cache_store.cpp:72`, `Enrichment` writes whole entries); the browse nodes of
one source stay when another is selected; nothing bounds the page stack; an optional stream is
used unchecked (`app_runtime_context.cpp:1359`). `PlaybackLive` has no rescans, so an answer that
is dropped because its id has moved is in `PlaybackQueue` only, without liveness.

A plugin whose required provider is given up after it was linked loads all the same
(`plugin_discovery.cpp:662`, `:698`), although `plugin-manifest-schema-spec.md:339` has the failure
of a required dependency block it; the code looks at each plugin once, in the order of the
directories. `RequiredIsThere` states what does hold. A plugin on a circle is not registered, yet
`discover` returns it with the status `Ok`.

Hazards that the models have as an outcome, where a property that forbids it would be false:
audio the decoder wrote between two looks of the worker is lost
(`host_audio_playback_backend.cpp:816`, in `Probe` and `Eof`); a page that leaves may end the
program by SIGPIPE (`webui_ws_runtime_stream.cpp:318`, in `Send`); a write to a helper that
does not read has no limit of time (`plugin_runtime.cpp:323`, in the fairness of
`PluginRuntime`); a helper that ignores SIGTERM holds the mutex for ever
(`plugin_runtime.cpp:404`, `Ignores`); clients that fill the backlog hold `stop()` of the runtime server
(`unix_socket_runtime_transport.cpp:410`, `StopIsStuck`); a client that does not speak or read
holds the web server and its `stop()` (`webui_server.cpp:280`, `Held`); a source is lost when a read
of the file fails before a save, a write is cut short, or two programs write
(`xdg_remote_profile_store.cpp:139`, `:206`; outside `left.fresh`); two threads join one scan
(`JoinFails`) or use a track that a scan has replaced (`LosesPlay`) in `LibraryRaces`.
