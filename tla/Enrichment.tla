------------------------------ MODULE Enrichment -----------------------------
(***************************************************************************)
(* What the lookup threads of playback do: facts, lyrics and a cover for a *)
(* local file or a remote stream, from its tags, the caches on disk and    *)
(* the online services, with write-back into the file                      *)
(* (src/platform/host).  A text is known by whether it fits the name of    *)
(* the file.  A step is what a thread does from one question to a service  *)
(* or the network probe to the next; a write-back belongs to the step of   *)
(* the answer it writes, except that of lyrics.                            *)
(***************************************************************************)
EXTENDS Naturals, FiniteSets

CONSTANTS Files,         \* local audio files
          Streams,       \* remote items
          Lookups,       \* lookup threads that may be under way at a time
          Nothing,       \* the item of a thread that is not
          Contents,      \* what other programs write into a file
          Offers,        \* what AcoustID and MusicBrainz may find
          Sources,       \* who may have lyrics: LRCLIB, lyrics.ovh
          MaxItems       \* bound: items in the caches or looked up

Items == Files \cup Streams

\* Title, artist and album: none, fitting but without album, all there and
\* agreeing with the name of the file, or all there and not.
Facts == {"none", "guess", "fit", "clash"}
Words == {"none", "embedded", "lrclib", "ovh"}
Tags == [tags : Facts, words : {"none", "fit", "clash"}, cover : BOOLEAN]

\* weak: matched by text with a confidence below 0.86.  The album and the identifiers
\* come from the same release.
Identity(trust, text) == [trust |-> trust, text |-> text, ids |-> text \in {"fit", "clash"}]
Unknown == Identity("none", "none")
Matched == {Identity(trust, text) : trust \in {"weak", "sure"}, text \in {"guess", "fit"}}
Verified == {Identity("verified", text) : text \in {"guess", "fit", "clash"}}
IsKnown(who) == who.trust # "none"

ASSUME EnrichmentAssumption ==
    /\ Files \cap Streams = {} /\ Nothing \notin Items
    /\ Contents \subseteq Tags /\ Offers \subseteq Matched \cup Verified
    /\ Sources \subseteq {"lrclib", "ovh"} /\ MaxItems \in Nat

VARIABLES file,      \* tags, lyrics and cover in each file
          memory,    \* SharedRuntimeCache::entries, for the present key of each item
          saved,     \* the cache directory, for that key: entry, lyrics, picture and marker
          fpcalc,    \* AcoustIdIdentityClient::available, for one run of the program
          lookup,    \* where each thread is, and its locals
          answered   \* history: what has been looked up for the present key of an item

vars == <<file, memory, saved, fpcalc, lookup, answered>>

Marks == {"metadata", "identity", "cover", "lyrics"}
EmptyEntry == [facts |-> "none", ids |-> FALSE, identity |-> Unknown, words |-> "none",
               marks |-> {}]
NoFiles == [there |-> FALSE, entry |-> EmptyEntry, words |-> "none", picture |-> FALSE,
            missing |-> FALSE]

\* stale: the key a thread holds is one its file no longer has; old: what it still uses of
\* the entry; idStale: the key of the identity it waits for is a former one.
Idle == [at |-> "idle", on |-> Nothing, then |-> "settle", clash |-> FALSE, who |-> Unknown,
         stale |-> FALSE, idStale |-> FALSE, old |-> "none"]

Init ==
    /\ file \in [Files -> Contents]
    /\ memory = [m \in Items |-> EmptyEntry]
    /\ saved = [m \in Items |-> NoFiles]
    /\ fpcalc \in BOOLEAN
    /\ lookup = [l \in Lookups |-> Idle] /\ answered = {}

-----------------------------------------------------------------------------
(* The cache.  An entry is saved without its lyrics, which have a file of  *)
(* their own.                                                              *)

\* Mutant: the mark of the cover is not written.
StoredCoverless(e) == [e EXCEPT !.words = "none", !.marks = @ \ {"cover"}]

Stored(e) == [e EXCEPT !.words = "none"]

\* The text of an identity is read back from the facts of the entry.
Loaded(m) ==
    LET e == saved[m].entry
    IN  IF IsKnown(e.identity)
        THEN [e EXCEPT !.identity = [trust |-> @.trust, text |-> e.facts,
                                     ids |-> @.ids \/ e.ids]]
        ELSE e

\* A provider reads the entry again while the marks it looks at are not set.
Reread(m, its) ==
    IF memory[m].marks \cap its = {} /\ saved[m].there THEN Loaded(m) ELSE memory[m]
ForFacts(m) == Reread(m, {"metadata"})
ForIdentity(m) == Reread(m, {"identity"})
ForLyrics(m) == Reread(m, {"metadata", "identity", "lyrics"})

\* An answer: the entry gets its mark and is saved beside files, the picture and so on.
\* What belongs to a key its file no longer has is never read again.
Save(m, stale, e, mark, files) ==
    LET marked == [e EXCEPT !.marks = @ \cup {mark}]
    IN  IF stale THEN UNCHANGED <<memory, saved, answered>>
        ELSE /\ memory' = [memory EXCEPT ![m] = marked]
             /\ saved' = [saved EXCEPT ![m] = [files EXCEPT !.there = TRUE,
                                                            !.entry = Stored(marked)]]
             /\ answered' = answered \cup {<<m, mark>>}

\* What is missing from has is taken from offered.
Filled(has, offered) ==
    IF has = "none" THEN offered
    ELSE IF has = "guess" /\ offered \in {"fit", "clash"} THEN "fit" ELSE has
\* What offered has replaces what has has.
Replaced(has, offered) == Filled(offered, has)

\* The key of a file has its size and time of change in it.  Lookups that wait with the
\* former key go on with the entry they hold: of its facts or its lyrics.
HoldsFacts(t) == t.at \in {"resolve", "identify", "match", "settle"} /\ t.then = "settle"
Outdated(f, l) ==
    LET t == lookup[l]
        held == IF HoldsFacts(t) THEN memory[f].facts
                ELSE IF t.at = "keep" THEN memory[f].words ELSE "none"
    IN  IF t.on = f /\ t.at \notin {"metadata", "artwork", "lyrics"}
        THEN [t EXCEPT !.stale = TRUE, !.old = IF t.stale THEN @ ELSE held,
                       !.idStale = @ \/ t.at = "identify"]
        ELSE t
Change(f, content) ==
    /\ file' = [file EXCEPT ![f] = content]
    /\ memory' = [memory EXCEPT ![f] = EmptyEntry]
    /\ saved' = [saved EXCEPT ![f] = NoFiles]
    /\ answered' = answered \ ({f} \X Marks)

\* tag_writer.py saves the file also when it had nothing to change; after is the thread.
WriteBack(l, content, after) ==
    LET f == lookup[l].on
    IN  /\ Change(f, content)
        /\ lookup' = [k \in Lookups |-> IF k = l THEN after ELSE Outdated(f, k)]

At(l, place) == lookup[l].at = place
\* Between two providers a thread holds no key.
Free(t, place) == [t EXCEPT !.at = place, !.stale = FALSE, !.old = "none", !.clash = FALSE]
Goes(l, t) == lookup' = [lookup EXCEPT ![l] = t]

-----------------------------------------------------------------------------
(* Facts.                                                                  *)

\* FfprobeMetadataProvider::read up to its local part: tags before what is cached,
\* and the name of the file before both when they clash with it.
Clashes(f, e) == Replaced(e.facts, file[f].tags) = "clash"
Told(f, e) ==
    [e EXCEPT !.facts = IF Clashes(f, e) THEN "guess" ELSE Replaced(@, file[f].tags)]

\* The local reads of a session that starts: facts, then the cover, which reads the
\* entry again.
PlayFile(l, f) ==
    LET told == Told(f, ForFacts(f))
        again == "metadata" \notin told.marks /\ saved[f].there
        s == saved[f]
    IN  /\ memory' = [memory EXCEPT ![f] = IF again THEN Loaded(f) ELSE told]
        /\ saved' = [saved EXCEPT ![f].picture = s.picture \/ (~s.missing /\ file[f].cover),
                                  ![f].missing = s.missing \/ (~s.picture /\ ~file[f].cover)]
        /\ Goes(l, [Idle EXCEPT !.at = "metadata", !.on = f])

PlayStream(l, m) ==
    /\ Goes(l, [Idle EXCEPT !.at = "resolve", !.on = m, !.then = "stream"])
    /\ UNCHANGED <<memory, saved>>

InUse(m) ==
    memory[m] # EmptyEntry \/ saved[m] # NoFiles \/ \E l \in Lookups : lookup[l].on = m
Play(l) ==
    /\ At(l, "idle")
    /\ \E m \in Items :
          /\ Cardinality({m} \cup {n \in Items : InUse(n)}) <= MaxItems
          /\ IF m \in Files THEN PlayFile(l, m) ELSE PlayStream(l, m)
    /\ UNCHANGED <<file, fpcalc, answered>>

\* The services are asked once for what is missing or clashes, if there is a network.
ReadFacts(l) ==
    LET t == lookup[l]
        f == t.on
        e == ForFacts(f)
        told == Told(f, e)
        wants == told.facts # "fit" \/ ~told.ids
    IN  /\ At(l, "metadata")
        /\ memory' = [memory EXCEPT ![f] = told]
        /\ \/ /\ wants /\ "metadata" \notin e.marks
              /\ Goes(l, [t EXCEPT !.at = "resolve", !.clash = Clashes(f, e)])
           \/ Goes(l, Free(t, "artwork"))               \* also without a network
        /\ UNCHANGED <<file, saved, fpcalc, answered>>

\* Mutant: what was found replaces the tags it should complete.
RewrittenOver(t, facts) ==
    IF IsKnown(t.who) THEN Replaced(file[t.on].tags, t.who.text) ELSE facts

\* Tags that clash are replaced, by the guess from the name of the file when nothing was
\* found; others are only completed.
Rewritten(t, facts) ==
    IF t.clash THEN (IF IsKnown(t.who) THEN Replaced(file[t.on].tags, facts) ELSE facts)
    ELSE Filled(file[t.on].tags, facts)

SettleFacts(l) ==
    LET t == lookup[l]
        e == [memory[t.on] EXCEPT !.facts = IF t.stale THEN t.old ELSE @]
        facts == IF t.clash THEN t.who.text ELSE Filled(e.facts, t.who.text)
        settled == IF IsKnown(t.who)
                   THEN [e EXCEPT !.facts = facts, !.ids = @ \/ t.who.ids] ELSE e
        after == [Free(t, "artwork") EXCEPT !.who = Unknown]
    IN  /\ At(l, "settle")
        /\ \/ /\ Save(t.on, t.stale, settled, "metadata", saved[t.on])
              /\ Goes(l, after) /\ UNCHANGED file       \* nothing to write, or it fails
           \/ /\ IsKnown(t.who) \/ t.clash
              /\ WriteBack(l, [file[t.on] EXCEPT !.tags = Rewritten(t, settled.facts)], after)
        /\ UNCHANGED fpcalc

-----------------------------------------------------------------------------
(* Identity, asked for by facts and lyrics of a file and by a stream.      *)

\* Where the caller goes on with who was found.
Onward(t, who) ==
    IF t.then = "words" THEN "words"
    ELSE IF t.then = "stream" THEN "lyrics"
    ELSE IF IsKnown(who) THEN "settle" ELSE "match"
Answer(l, who) ==
    LET t == lookup[l]
    IN  Goes(l, [t EXCEPT !.who = who, !.idStale = FALSE, !.at = Onward(t, who)])

\* An identity without a fingerprint is asked for again as long as fpcalc is there.
Resolve(l) ==
    LET t == lookup[l]
        e == ForIdentity(t.on)
        known == IsKnown(e.identity) /\ (e.identity.trust = "verified" \/ ~fpcalc)
        spent == "identity" \in e.marks /\ ~fpcalc
    IN  /\ At(l, "resolve")
        /\ memory' = [memory EXCEPT ![t.on] = e]
        /\ \/ known /\ Answer(l, e.identity)
           \/ ~known /\ Answer(l, Unknown)              \* spent, or no network
           \/ ~known /\ ~spent /\ Goes(l, [t EXCEPT !.at = "identify"])
        /\ UNCHANGED <<file, saved, fpcalc, answered>>

\* AcoustID, then MusicBrainz by text.  A miss of AcoustID loses the fingerprint.
Identify(l) ==
    LET t == lookup[l]
        e == memory[t.on]
    IN  /\ At(l, "identify")
        /\ \E who \in {Unknown} \cup (IF fpcalc THEN Offers ELSE Offers \cap Matched) :
             /\ Save(t.on, t.idStale,
                     IF ~IsKnown(who) THEN e
                     ELSE [e EXCEPT !.identity = who, !.ids = @ \/ who.ids,
                                    !.facts = IF t.on \in Streams THEN who.text ELSE @],
                     "identity", saved[t.on])
             /\ Answer(l, who)
        /\ UNCHANGED <<file, fpcalc>>

\* The orchestrator asks MusicBrainz when there is no identity.
Match(l) ==
    /\ At(l, "match")
    /\ \E who \in {Unknown} \cup (Offers \cap Matched) :
          Goes(l, [lookup[l] EXCEPT !.at = "settle", !.who = who])
    /\ UNCHANGED <<file, memory, saved, fpcalc, answered>>

-----------------------------------------------------------------------------
(* Cover.                                                                  *)

\* FfmpegArtworkProvider::read and readRemoteIdentity up to the question to the archive.
\* The address a provider gave for the cover of a stream is tried each time.
ReadCover(l) ==
    LET t == lookup[l]
        m == t.on
        e == ForFacts(m)
        s == saved[m]
        inFile == m \in Files /\ file[m].cover
        canTry == e.ids /\ "cover" \notin e.marks
        onward == Goes(l, IF m \in Files THEN Free(t, "lyrics") ELSE Idle)
    IN  /\ At(l, "artwork")
        /\ memory' = [memory EXCEPT ![m] = e]
        /\ \/ /\ s.picture \/ s.missing                 \* missing: and no network
              /\ onward /\ UNCHANGED saved
           \/ /\ ~s.picture
              /\ m \in Streams \/ (inFile /\ (~s.missing \/ canTry))
              /\ saved' = [saved EXCEPT ![m].picture = TRUE, ![m].missing = @ /\ m \in Files]
              /\ onward
           \/ /\ ~s.picture /\ ~inFile
              /\ saved' = [saved EXCEPT ![m].missing = TRUE]
              /\ onward
           \/ /\ ~s.picture /\ ~inFile /\ canTry
              /\ Goes(l, [t EXCEPT !.at = "cover"]) /\ UNCHANGED saved
        /\ UNCHANGED <<file, fpcalc, answered>>

\* A cover found is written into a file that has none; under the root of the library
\* it would replace one.
ReceiveCover(l) ==
    LET t == lookup[l]
        m == t.on
        after == IF m \in Files THEN Free(t, "lyrics") ELSE Idle
        found == [saved[m] EXCEPT !.picture = TRUE, !.missing = FALSE]
        nothing == [saved[m] EXCEPT !.missing = TRUE]
    IN  /\ At(l, "cover")
        /\ \/ /\ \E files \in {found, nothing} : Save(m, t.stale, memory[m], "cover", files)
              /\ Goes(l, after) /\ UNCHANGED file
           \/ m \in Files /\ WriteBack(l, [file[m] EXCEPT !.cover = TRUE], after)
        /\ UNCHANGED fpcalc

-----------------------------------------------------------------------------
(* Lyrics.                                                                 *)

\* HostLyricsProvider::fetchForCacheKey up to its first question: lyrics in the file, cached
\* lyrics, the network, then who the item is.
ReadLyrics(l) ==
    LET t == lookup[l]
        m == t.on
        e == ForLyrics(m)
        inFile == IF m \in Files THEN file[m].words ELSE "none"
        known == IF inFile = "clash" THEN "none" ELSE e.words
        words == IF known = "none" /\ "lyrics" \in e.marks THEN saved[m].words ELSE known
        who == IF IsKnown(t.who) THEN t.who ELSE e.identity
        onward == Goes(l, IF m \in Files THEN Idle ELSE Free(t, "artwork"))
    IN  /\ At(l, "lyrics")
        /\ \/ /\ inFile = "fit"
              /\ memory' = [memory EXCEPT ![m] = [e EXCEPT !.words = "embedded"]]
              /\ saved' = [saved EXCEPT ![m].words = "embedded"]
              /\ onward
           \/ /\ inFile # "fit"
              /\ memory' = [memory EXCEPT ![m] = [e EXCEPT !.words = words]]
              /\ UNCHANGED saved
              /\ \/ onward                              \* also without a network
                 \/ /\ words = "none" /\ "lyrics" \notin e.marks
                    /\ Goes(l, [t EXCEPT
                           !.at = IF IsKnown(who) \/ m \in Streams THEN "words" ELSE "resolve",
                           !.who = who, !.clash = inFile = "clash", !.then = "words"])
        /\ UNCHANGED <<file, fpcalc, answered>>

\* What LRCLIB or lyrics.ovh have, asked with the identity, which the entry gets.
ReceiveLyrics(l) ==
    LET t == lookup[l]
        m == t.on
        e == [memory[m] EXCEPT !.identity = IF IsKnown(t.who) THEN t.who ELSE @]
    IN  /\ At(l, "words")
        /\ \/ /\ \E words \in Sources :
                   /\ Save(m, t.stale, [e EXCEPT !.words = words], "lyrics", saved[m])
                   /\ Goes(l, [t EXCEPT !.at = "keep",
                                        !.old = IF t.stale THEN words ELSE @])
           \/ /\ Save(m, t.stale, [e EXCEPT !.words = "none"], "lyrics", saved[m])
              /\ Goes(l, IF m \in Files THEN Idle ELSE Free(t, "artwork"))
        /\ UNCHANGED <<file, fpcalc>>

Authoritative(words, who) == words = "lrclib" /\ who.trust # "weak"

\* The lyrics get their file, and those of LRCLIB for an item known well or not at all
\* go into the audio file too; read again, they may not be taken for its own.
KeepLyrics(l) ==
    LET t == lookup[l]
        m == t.on
        words == IF t.stale THEN t.old ELSE memory[m].words
        after == IF m \in Files THEN Idle ELSE Free(t, "artwork")
    IN  /\ At(l, "keep")
        /\ \/ /\ saved' = IF t.stale THEN saved ELSE [saved EXCEPT ![m].words = words]
              /\ Goes(l, after) /\ UNCHANGED <<file, memory, answered>>
           \/ /\ m \in Files /\ Authoritative(words, t.who)
              /\ \E taken \in {"fit", "clash"} :
                    WriteBack(l, [file[m] EXCEPT !.words = IF t.clash \/ @ = "none" THEN taken
                                                           ELSE @], after)
        /\ UNCHANGED fpcalc

-----------------------------------------------------------------------------
(* Around the lookups.                                                     *)

\* Another program writes the file.
Edit(f) ==
    /\ \E content \in Contents : Change(f, content)
    /\ lookup' = [l \in Lookups |-> Outdated(f, l)]
    /\ UNCHANGED fpcalc

\* The program ends, wherever its lookups are, and starts again.
Restart ==
    /\ memory' = [m \in Items |-> EmptyEntry]
    /\ fpcalc' \in BOOLEAN
    /\ lookup' = [l \in Lookups |-> Idle]
    /\ UNCHANGED <<file, saved, answered>>

Step(l) ==
    \/ ReadFacts(l) \/ SettleFacts(l) \/ Resolve(l) \/ Identify(l) \/ Match(l)
    \/ ReadCover(l) \/ ReceiveCover(l) \/ ReadLyrics(l) \/ ReceiveLyrics(l) \/ KeepLyrics(l)

Next ==
    \/ \E l \in Lookups : Play(l) \/ Step(l)
    \/ \E f \in Files : Edit(f)
    \/ Restart

Spec == Init /\ [][Next]_vars

-----------------------------------------------------------------------------
Places == {"idle", "metadata", "resolve", "identify", "match", "settle", "artwork", "cover",
           "lyrics", "words", "keep"}
Identities == [trust : {"none", "weak", "sure", "verified"}, text : Facts, ids : BOOLEAN]
Entries == [facts : Facts, ids : BOOLEAN, identity : Identities, words : Words,
            marks : SUBSET Marks]
OnDisk == [there : BOOLEAN, entry : Entries, words : Words, picture : BOOLEAN,
           missing : BOOLEAN]
Threads == [at : Places, on : Items \cup {Nothing}, then : {"settle", "words", "stream"},
            clash : BOOLEAN, who : Identities, stale : BOOLEAN, idStale : BOOLEAN,
            old : Facts \cup Words]
TypeOK ==
    /\ file \in [Files -> Tags]
    /\ memory \in [Items -> Entries]
    /\ saved \in [Items -> OnDisk]
    /\ fpcalc \in BOOLEAN
    /\ lookup \in [Lookups -> Threads]
    /\ answered \subseteq Items \X Marks

\* A thread that goes on to a service does not ask what has been answered for the same
\* state of the same item, by any lookup and in any run of the program; only an identity
\* without a fingerprint is asked for again while fpcalc is there.
Asks(l) ==
    LET from == lookup[l].at
        to == lookup'[l].at
    IN  {mark \in Marks :
            \/ mark = "metadata" /\ from = "metadata" /\ to = "resolve"
            \/ mark = "identity" /\ from = "resolve" /\ to = "identify" /\ ~fpcalc
            \/ mark = "cover" /\ from = "artwork" /\ to = "cover"
            \/ mark = "lyrics" /\ from = "lyrics" /\ to \in {"resolve", "words"}}
AnsweredIsNotAsked ==
    [][\A l \in Lookups : ({lookup[l].on} \X Asks(l)) \cap answered = {}]_vars

\* A lookup that writes facts into the state of the file it has read leaves tags that fit
\* the name of the file fitting it, whatever was found.
FittingTagsStay ==
    [][\A l \in Lookups : LET t == lookup[l] IN
          t.at = "settle" /\ lookup'[l].at = "artwork" /\ ~t.stale
             /\ file[t.on].tags \in {"guess", "fit"}
          => file'[t.on].tags \in {file[t.on].tags, "fit"}]_vars
=============================================================================
