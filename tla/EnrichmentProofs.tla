-------------------------- MODULE EnrichmentProofs --------------------------
(***************************************************************************)
(* For any files, streams and lookups: the types, that what has been       *)
(* answered is not asked for again, and that tags which fit are kept.      *)
(***************************************************************************)
EXTENDS Enrichment, TLAPS

-----------------------------------------------------------------------------
(* Values.                                                                 *)

LEMMA FilledIsFacts ==
    ASSUME NEW has \in Facts, NEW offered \in Facts
    PROVE  Filled(has, offered) \in Facts /\ Replaced(has, offered) \in Facts
  BY DEF Facts, Filled, Replaced

\* Tags that fit still do when they are completed.
LEMMA FilledKeepsFitting ==
    ASSUME NEW has \in {"guess", "fit"}, NEW offered \in Facts
    PROVE  Filled(has, offered) \in {has, "fit"}
  BY DEF Facts, Filled

LEMMA IdentityIsTyped ==
    ASSUME NEW trust \in {"none", "weak", "sure", "verified"}, NEW text \in Facts
    PROVE  /\ Identity(trust, text) \in Identities
           /\ Identity(trust, text).trust = trust
  <1>1. (text \in {"fit", "clash"}) \in BOOLEAN
    OBVIOUS
  <1> QED
    BY <1>1 DEF Identity, Identities

LEMMA OffersAreIdentities ==
    /\ Unknown \in Identities /\ ~IsKnown(Unknown)
    /\ \A who \in Offers : who \in Identities
  <1>1. Unknown \in Identities /\ ~IsKnown(Unknown)
    BY IdentityIsTyped DEF Unknown, IsKnown, Facts
  <1>2. ASSUME NEW who \in Offers PROVE who \in Identities
    <2>1. CASE who \in Matched
      <3>1. PICK trust \in {"weak", "sure"}, text \in {"guess", "fit"} :
                who = Identity(trust, text)
        BY <2>1 DEF Matched
      <3> QED
        BY <3>1, IdentityIsTyped DEF Facts
    <2>2. CASE who \in Verified
      <3>1. PICK text \in {"guess", "fit", "clash"} : who = Identity("verified", text)
        BY <2>2 DEF Verified
      <3> QED
        BY <3>1, IdentityIsTyped DEF Facts
    <2> QED
      BY <1>2, <2>1, <2>2, EnrichmentAssumption
  <1> QED
    BY <1>1, <1>2

LEMMA EmptyIsTyped ==
    /\ EmptyEntry \in Entries /\ EmptyEntry.marks = {}
    /\ NoFiles \in OnDisk /\ ~NoFiles.there
  BY OffersAreIdentities DEF EmptyEntry, NoFiles, OnDisk, Entries, Facts, Words, Marks

LEMMA LoadedIsTyped ==
    ASSUME TypeOK, NEW m \in Items
    PROVE  Loaded(m) \in Entries /\ Loaded(m).marks = saved[m].entry.marks
  <1> DEFINE e == saved[m].entry
             who == [trust |-> e.identity.trust, text |-> e.facts, ids |-> e.identity.ids \/ e.ids]
  <1>1. e \in Entries
    BY DEF TypeOK, OnDisk
  <1>2. e.identity \in Identities /\ e.facts \in Facts
    BY <1>1 DEF Entries
  <1>3. who \in Identities
    BY <1>2 DEF Identities
  <1>4. Loaded(m) = IF IsKnown(e.identity) THEN [e EXCEPT !.identity = who] ELSE e
    BY <1>1 DEF Loaded, Entries
  <1> HIDE DEF who, e
  <1> QED
    BY <1>1, <1>3, <1>4 DEF Entries, e

LEMMA RereadIsTyped ==
    ASSUME TypeOK, NEW m \in Items, NEW its \in SUBSET Marks
    PROVE  Reread(m, its) \in Entries
  BY LoadedIsTyped DEF TypeOK, Reread

LEMMA ForEntries ==
    ASSUME TypeOK, NEW m \in Items
    PROVE  ForFacts(m) \in Entries /\ ForIdentity(m) \in Entries /\ ForLyrics(m) \in Entries
  BY RereadIsTyped DEF ForFacts, ForIdentity, ForLyrics, Marks

LEMMA ToldIsTyped ==
    ASSUME TypeOK, NEW f \in Files, NEW e \in Entries
    PROVE  Told(f, e) \in Entries /\ Told(f, e).marks = e.marks
  <1>1. file[f].tags \in Facts /\ e.facts \in Facts
    BY DEF TypeOK, Tags, Entries
  <1>2. Replaced(e.facts, file[f].tags) \in Facts /\ "guess" \in Facts
    BY <1>1, FilledIsFacts DEF Facts
  <1> QED
    BY <1>2 DEF Told, Entries

-----------------------------------------------------------------------------
(* Threads.                                                                *)

\* A thread that looks for facts is about a file, and its former facts are facts.
Fair(t) ==
    /\ t.at = "idle" <=> t.on = Nothing
    /\ t.at = "metadata" => ~t.stale
    /\ t.at \in {"metadata", "match", "settle"} => t.then = "settle"
    /\ t.at # "idle" /\ t.then = "settle" => t.on \in Files
    /\ HoldsFacts(t) /\ t.stale => t.old \in Facts

Shape == \A l \in Lookups : Fair(lookup[l])

LEMMA IdleIsFair == Idle \in Threads /\ Fair(Idle)
  BY OffersAreIdentities DEF Idle, Threads, Fair, HoldsFacts, Places, Facts

LEMMA FreeIsFair ==
    ASSUME NEW t \in Threads, Fair(t), t.on # Nothing, NEW place \in {"artwork", "lyrics"}
    PROVE  /\ Free(t, place) \in Threads /\ Fair(Free(t, place))
           /\ Free(t, place).on = t.on
  BY DEF Free, Threads, Fair, HoldsFacts, Places, Facts

LEMMA OutdatedIsFair ==
    ASSUME TypeOK, Shape, NEW f \in Files, NEW l \in Lookups
    PROVE  /\ Outdated(f, l) \in Threads /\ Fair(Outdated(f, l))
           /\ Outdated(f, l).at = lookup[l].at /\ Outdated(f, l).on = lookup[l].on
           /\ Outdated(f, l).then = lookup[l].then
  <1> DEFINE t == lookup[l]
             held == IF HoldsFacts(t) THEN memory[f].facts
                     ELSE IF t.at = "keep" THEN memory[f].words ELSE "none"
             outdated == [t EXCEPT !.stale = TRUE, !.old = IF t.stale THEN @ ELSE held,
                                   !.idStale = @ \/ t.at = "identify"]
  <1>1. t \in Threads /\ Fair(t)
    BY DEF TypeOK, Shape
  <1>2. memory[f].facts \in Facts /\ memory[f].words \in Words
    BY DEF TypeOK, Items, Entries
  <1>3. held \in Facts \cup Words /\ (HoldsFacts(t) => held \in Facts)
    BY <1>2 DEF Facts
  <1>4. Outdated(f, l) = IF t.on = f /\ t.at \notin {"metadata", "artwork", "lyrics"}
                         THEN outdated ELSE t
    BY DEF Outdated
  <1>5. /\ outdated \in Threads /\ outdated.at = t.at /\ outdated.on = t.on
        /\ outdated.then = t.then /\ outdated.stale = TRUE
        /\ outdated.old = IF t.stale THEN t.old ELSE held
    <2> HIDE DEF held
    <2> QED
      BY <1>1, <1>3 DEF Threads
  <1>6. t.at # "metadata" => Fair(outdated)
    <2> HIDE DEF outdated, held
    <2> QED
      BY <1>1, <1>3, <1>5 DEF Fair, HoldsFacts
  <1> HIDE DEF outdated, held
  <1> QED
    BY <1>1, <1>4, <1>5, <1>6

-----------------------------------------------------------------------------
(* What the parts of a step do to the types.                               *)

Typed ==
    /\ file \in [Files -> Tags]
    /\ memory \in [Items -> Entries]
    /\ saved \in [Items -> OnDisk]
    /\ answered \subseteq Items \X Marks

LEMMA GoesIsTyped ==
    ASSUME TypeOK, Shape, NEW l \in Lookups, NEW t \in Threads, Fair(t), Goes(l, t)
    PROVE  lookup' \in [Lookups -> Threads] /\ Shape'
  BY DEF TypeOK, Shape, Goes

LEMMA SaveIsTyped ==
    ASSUME TypeOK, NEW m \in Items, NEW stale \in BOOLEAN, NEW e \in Entries,
           NEW mark \in Marks, NEW files \in OnDisk, UNCHANGED file,
           Save(m, stale, e, mark, files)
    PROVE  Typed'
  <1> DEFINE marked == [e EXCEPT !.marks = @ \cup {mark}]
             written == [files EXCEPT !.there = TRUE, !.entry = Stored(marked)]
  <1>1. marked \in Entries
    BY DEF Entries
  <1>2. Stored(marked) \in Entries
    <2> HIDE DEF marked
    <2> QED
      BY <1>1 DEF Stored, Entries, Words
  <1>3. written \in OnDisk
    <2> HIDE DEF marked
    <2> QED
      BY <1>2 DEF OnDisk
  <1>4. CASE stale
    BY <1>4 DEF Save, Typed, TypeOK
  <1>5. CASE ~stale
    <2>1. /\ memory' = [memory EXCEPT ![m] = marked] /\ saved' = [saved EXCEPT ![m] = written]
          /\ answered' = answered \cup {<<m, mark>>}
      BY <1>5 DEF Save
    <2> HIDE DEF marked, written
    <2> QED
      BY <2>1, <1>1, <1>3 DEF Typed, TypeOK
  <1> QED
    BY <1>4, <1>5

LEMMA ChangeIsTyped ==
    ASSUME TypeOK, NEW f \in Files, NEW content \in Tags, Change(f, content)
    PROVE  Typed'
  BY EmptyIsTyped DEF TypeOK, Typed, Change, Items

LEMMA OutdatedAreFair ==
    ASSUME TypeOK, Shape, NEW f \in Files, NEW l \in Lookups, NEW after \in Threads, Fair(after),
           lookup' = [k \in Lookups |-> IF k = l THEN after ELSE Outdated(f, k)]
    PROVE  lookup' \in [Lookups -> Threads] /\ Shape'
  BY OutdatedIsFair DEF Shape

LEMMA WriteBackIsTyped ==
    ASSUME TypeOK, Shape, NEW l \in Lookups, lookup[l].on \in Files, NEW content \in Tags,
           NEW after \in Threads, Fair(after), WriteBack(l, content, after)
    PROVE  Typed' /\ lookup' \in [Lookups -> Threads] /\ Shape'
  BY ChangeIsTyped, OutdatedAreFair DEF WriteBack

LEMMA IdentityOffered ==
    ASSUME NEW who \in {Unknown} \cup Offers PROVE who \in Identities
  BY OffersAreIdentities

LEMMA AnswerIsTyped ==
    ASSUME TypeOK, Shape, NEW l \in Lookups, NEW who \in Identities, Answer(l, who),
           lookup[l].at \in {"resolve", "identify"}
    PROVE  lookup' \in [Lookups -> Threads] /\ Shape'
  <1> DEFINE t == lookup[l]
             there == Onward(t, who)
             next == [t EXCEPT !.who = who, !.idStale = FALSE, !.at = there]
  <1>1. t \in Threads /\ Fair(t)
    BY DEF TypeOK, Shape
  <1>2. /\ there \in {"words", "lyrics", "settle", "match"}
        /\ there \in {"settle", "match"} => t.then = "settle"
    BY <1>1 DEF Onward, Threads
  <1>3. next \in Threads /\ next.at = there /\ next.on = t.on /\ next.then = t.then
        /\ next.stale = t.stale /\ next.old = t.old
    <2> HIDE DEF there
    <2> QED
      BY <1>1, <1>2 DEF Threads, Places
  <1>4. Fair(next)
    <2> HIDE DEF there, next
    <2> QED
      BY <1>1, <1>2, <1>3 DEF Fair, HoldsFacts
  <1>5. Goes(l, next)
    BY DEF Answer
  <1> HIDE DEF next
  <1> QED
    BY <1>3, <1>4, <1>5, GoesIsTyped

-----------------------------------------------------------------------------
(* The types, step by step.                                                *)

Sound == TypeOK /\ Shape

LEMMA TypedIsTypeOK ==
    ASSUME Typed', lookup' \in [Lookups -> Threads], fpcalc' \in BOOLEAN
    PROVE  TypeOK'
  BY DEF Typed, TypeOK

LEMMA PlayIsSound == ASSUME Sound, NEW l \in Lookups, Play(l) PROVE Sound'
  <1>1. PICK m \in Items : IF m \in Files THEN PlayFile(l, m) ELSE PlayStream(l, m)
    BY DEF Play
  <1>2. m # Nothing
    BY EnrichmentAssumption
  <1>3. CASE m \in Files
    <2> DEFINE told == Told(m, ForFacts(m))
               again == "metadata" \notin told.marks /\ saved[m].there
               s == saved[m]
               entry == IF again THEN Loaded(m) ELSE told
               picture == s.picture \/ (~s.missing /\ file[m].cover)
               missing == s.missing \/ (~s.picture /\ ~file[m].cover)
               thread == [Idle EXCEPT !.at = "metadata", !.on = m]
    <2>1. /\ memory' = [memory EXCEPT ![m] = entry]
          /\ saved' = [saved EXCEPT ![m].picture = picture, ![m].missing = missing]
          /\ Goes(l, thread)
      BY <1>1, <1>3 DEF PlayFile
    <2>2. told \in Entries
      BY <1>3, ForEntries, ToldIsTyped DEF Sound
    <2>3. entry \in Entries
      <3> HIDE DEF told
      <3> QED
        BY <2>2, LoadedIsTyped DEF Sound
    <2>4. saved[m] \in OnDisk /\ picture \in BOOLEAN /\ missing \in BOOLEAN
      BY DEF Sound, TypeOK, OnDisk
    <2>5. saved' = [saved EXCEPT ![m] = [s EXCEPT !.picture = picture, !.missing = missing]]
      <3> HIDE DEF picture, missing
      <3> QED
        BY <2>1, <2>4 DEF Sound, TypeOK, OnDisk
    <2>6. [s EXCEPT !.picture = picture, !.missing = missing] \in OnDisk
      <3> HIDE DEF picture, missing
      <3> QED
        BY <2>4 DEF OnDisk
    <2>7. thread \in Threads /\ Fair(thread)
      BY <1>2, <1>3, IdleIsFair DEF Idle, Threads, Fair, HoldsFacts, Places
    <2>8. lookup' \in [Lookups -> Threads] /\ Shape'
      <3> HIDE DEF thread
      <3> QED
        BY <2>1, <2>7, GoesIsTyped DEF Sound
    <2>9. Typed'
      <3> HIDE DEF entry, picture, missing, thread
      <3> QED
        BY <2>1, <2>3, <2>5, <2>6 DEF Play, Sound, TypeOK, Typed
    <2> QED
      BY <2>8, <2>9, TypedIsTypeOK DEF Play, Sound, TypeOK
  <1>4. CASE m \notin Files
    <2> DEFINE thread == [Idle EXCEPT !.at = "resolve", !.on = m, !.then = "stream"]
    <2>1. Goes(l, thread) /\ UNCHANGED <<file, memory, saved, fpcalc, answered>>
      BY <1>1, <1>4 DEF PlayStream, Play
    <2>2. thread \in Threads /\ Fair(thread)
      BY <1>2, IdleIsFair DEF Idle, Threads, Fair, HoldsFacts, Places
    <2>3. lookup' \in [Lookups -> Threads] /\ Shape'
      <3> HIDE DEF thread
      <3> QED
        BY <2>1, <2>2, GoesIsTyped DEF Sound
    <2> QED
      BY <2>1, <2>3 DEF Sound, TypeOK
  <1> QED
    BY <1>3, <1>4

LEMMA ReadFactsIsSound == ASSUME Sound, NEW l \in Lookups, ReadFacts(l) PROVE Sound'
  <1> DEFINE t == lookup[l]
             e == ForFacts(t.on)
             clash == Clashes(t.on, e)
             asking == [t EXCEPT !.at = "resolve", !.clash = clash]
  <1>1. t \in Threads /\ Fair(t) /\ t.at = "metadata" /\ t.on \in Files /\ t.on # Nothing
    BY EnrichmentAssumption DEF ReadFacts, At, Sound, TypeOK, Shape, Fair
  <1>2. e \in Entries /\ Told(t.on, e) \in Entries
    BY <1>1, ForEntries, ToldIsTyped DEF Sound, Items
  <1>3. /\ memory' = [memory EXCEPT ![t.on] = Told(t.on, e)]
        /\ UNCHANGED <<file, saved, fpcalc, answered>>
        /\ Goes(l, asking) \/ Goes(l, Free(t, "artwork"))
    BY DEF ReadFacts
  <1>4. clash \in BOOLEAN
    BY DEF Clashes
  <1>5. asking \in Threads /\ Fair(asking)
    <2> HIDE DEF clash
    <2> QED
      BY <1>1, <1>4 DEF Threads, Fair, HoldsFacts, Places
  <1>6. lookup' \in [Lookups -> Threads] /\ Shape'
    <2> HIDE DEF asking, e
    <2> QED
      BY <1>1, <1>3, <1>5, FreeIsFair, GoesIsTyped DEF Sound
  <1> HIDE DEF e
  <1> QED
    BY <1>1, <1>2, <1>3, <1>6 DEF Sound, TypeOK, Items

LEMMA RewrittenIsFacts ==
    ASSUME TypeOK, NEW t \in Threads, t.on \in Files, NEW facts \in Facts
    PROVE  Rewritten(t, facts) \in Facts
  <1>1. file[t.on].tags \in Facts
    BY DEF TypeOK, Tags
  <1> QED
    BY <1>1, FilledIsFacts DEF Rewritten

LEMMA SettleFactsIsSound == ASSUME Sound, NEW l \in Lookups, SettleFacts(l) PROVE Sound'
  <1> DEFINE t == lookup[l]
             known == IF t.stale THEN t.old ELSE memory[t.on].facts
             e == [memory[t.on] EXCEPT !.facts = known]
             facts == IF t.clash THEN t.who.text ELSE Filled(e.facts, t.who.text)
             ids == e.ids \/ t.who.ids
             settled == IF IsKnown(t.who) THEN [e EXCEPT !.facts = facts, !.ids = ids] ELSE e
             after == [Free(t, "artwork") EXCEPT !.who = Unknown]
             content == [file[t.on] EXCEPT !.tags = Rewritten(t, settled.facts)]
  <1>1. t \in Threads /\ Fair(t) /\ t.at = "settle" /\ t.on \in Files /\ t.on # Nothing
    BY EnrichmentAssumption DEF SettleFacts, At, Sound, TypeOK, Shape, Fair
  <1>2. memory[t.on] \in Entries /\ file[t.on] \in Tags /\ saved[t.on] \in OnDisk
    BY <1>1 DEF Sound, TypeOK, Items
  <1>3. known \in Facts
    BY <1>1, <1>2 DEF Fair, HoldsFacts, Entries
  <1>4. e \in Entries /\ e.facts \in Facts /\ t.who.text \in Facts /\ ids \in BOOLEAN
    <2> HIDE DEF known
    <2>1. e \in Entries
      BY <1>2, <1>3 DEF Entries
    <2> HIDE DEF e
    <2> QED
      BY <1>1, <2>1 DEF Entries, Threads, Identities
  <1>5. facts \in Facts
    <2> HIDE DEF e
    <2> QED
      BY <1>4, FilledIsFacts
  <1>6. settled \in Entries /\ settled.facts \in Facts
    <2> HIDE DEF e, facts, ids
    <2>1. settled \in Entries
      BY <1>4, <1>5 DEF Entries
    <2> HIDE DEF settled
    <2> QED
      BY <2>1 DEF Entries
  <1>7. after \in Threads /\ Fair(after)
    BY <1>1, OffersAreIdentities DEF Free, Threads, Fair, HoldsFacts, Places, Facts
  <1>8. content \in Tags
    <2> HIDE DEF settled
    <2> QED
      BY <1>1, <1>2, <1>6, RewrittenIsFacts DEF Tags, Sound
  <1>9. /\ \/ /\ Save(t.on, t.stale, settled, "metadata", saved[t.on])
              /\ Goes(l, after) /\ UNCHANGED file
           \/ WriteBack(l, content, after)
        /\ UNCHANGED fpcalc
    BY DEF SettleFacts
  <1>10. "metadata" \in Marks /\ t.stale \in BOOLEAN /\ t.on \in Items
    BY <1>1 DEF Marks, Threads, Items
  <1> HIDE DEF settled, after, content
  <1>11. Typed' /\ lookup' \in [Lookups -> Threads] /\ Shape'
    BY <1>1, <1>2, <1>6, <1>7, <1>8, <1>9, <1>10, SaveIsTyped, GoesIsTyped, WriteBackIsTyped
       DEF Sound
  <1> QED
    BY <1>9, <1>11, TypedIsTypeOK DEF Sound, TypeOK

LEMMA ResolveIsSound == ASSUME Sound, NEW l \in Lookups, Resolve(l) PROVE Sound'
  <1> DEFINE t == lookup[l]
             e == ForIdentity(t.on)
             asking == [t EXCEPT !.at = "identify"]
  <1>1. t \in Threads /\ Fair(t) /\ t.at = "resolve" /\ t.on # Nothing /\ t.on \in Items
    BY DEF Resolve, At, Sound, TypeOK, Shape, Fair, Threads
  <1>2. e \in Entries /\ e.identity \in Identities /\ Unknown \in Identities
    BY <1>1, ForEntries, OffersAreIdentities DEF Sound, Entries
  <1>3. /\ memory' = [memory EXCEPT ![t.on] = e]
        /\ UNCHANGED <<file, saved, fpcalc, answered>>
        /\ Answer(l, e.identity) \/ Answer(l, Unknown) \/ Goes(l, asking)
    BY DEF Resolve
  <1>4. asking \in Threads /\ Fair(asking)
    BY <1>1 DEF Threads, Fair, HoldsFacts, Places
  <1>5. lookup' \in [Lookups -> Threads] /\ Shape'
    <2> HIDE DEF asking, e
    <2> QED
      BY <1>1, <1>2, <1>3, <1>4, AnswerIsTyped, GoesIsTyped DEF Sound
  <1> HIDE DEF e
  <1> QED
    BY <1>1, <1>2, <1>3, <1>5 DEF Sound, TypeOK

LEMMA IdentifyIsSound == ASSUME Sound, NEW l \in Lookups, Identify(l) PROVE Sound'
  <1> DEFINE t == lookup[l]
             e == memory[t.on]
  <1>1. t \in Threads /\ Fair(t) /\ t.at = "identify" /\ t.on \in Items
    BY DEF Identify, At, Sound, TypeOK, Shape, Fair, Threads
  <1>2. e \in Entries /\ saved[t.on] \in OnDisk
    BY <1>1 DEF Sound, TypeOK
  <1>3. PICK who \in {Unknown} \cup (IF fpcalc THEN Offers ELSE Offers \cap Matched) :
           /\ Save(t.on, t.idStale,
                   IF ~IsKnown(who) THEN e
                   ELSE [e EXCEPT !.identity = who, !.ids = @ \/ who.ids,
                                  !.facts = IF t.on \in Streams THEN who.text ELSE @],
                   "identity", saved[t.on])
           /\ Answer(l, who)
    BY DEF Identify
  <1> DEFINE ids == e.ids \/ who.ids
             facts == IF t.on \in Streams THEN who.text ELSE e.facts
             known == [e EXCEPT !.identity = who, !.ids = ids, !.facts = facts]
             new == IF ~IsKnown(who) THEN e ELSE known
  <1>4. who \in Identities /\ who.text \in Facts /\ ids \in BOOLEAN /\ facts \in Facts
    <2>1. who \in Identities
      BY <1>3, IdentityOffered
    <2> QED
      BY <2>1, <1>2 DEF Identities, Entries
  <1>5. new \in Entries
    <2> HIDE DEF ids, facts, e
    <2> QED
      BY <1>2, <1>4 DEF Entries
  <1>6. Save(t.on, t.idStale, new, "identity", saved[t.on]) /\ Answer(l, who)
        /\ UNCHANGED <<file, fpcalc>>
    BY <1>3 DEF Identify
  <1>7. "identity" \in Marks /\ t.idStale \in BOOLEAN
    BY <1>1 DEF Marks, Threads
  <1> HIDE DEF new, t
  <1>8. Typed' /\ lookup' \in [Lookups -> Threads] /\ Shape'
    BY <1>1, <1>2, <1>4, <1>5, <1>6, <1>7, SaveIsTyped, AnswerIsTyped DEF Sound, t
  <1> QED
    BY <1>6, <1>8, TypedIsTypeOK DEF Sound, TypeOK

LEMMA MatchIsSound == ASSUME Sound, NEW l \in Lookups, Match(l) PROVE Sound'
  <1> DEFINE t == lookup[l]
  <1>1. t \in Threads /\ Fair(t) /\ t.at = "match" /\ t.on # Nothing
    BY DEF Match, At, Sound, TypeOK, Shape, Fair
  <1>2. PICK who \in Identities : Goes(l, [t EXCEPT !.at = "settle", !.who = who])
    BY IdentityOffered DEF Match
  <1> DEFINE next == [t EXCEPT !.at = "settle", !.who = who]
  <1>3. next \in Threads /\ Fair(next)
    BY <1>1 DEF Threads, Fair, HoldsFacts, Places
  <1> HIDE DEF next
  <1>4. lookup' \in [Lookups -> Threads] /\ Shape'
    BY <1>2, <1>3, GoesIsTyped DEF Sound, next
  <1> QED
    BY <1>4 DEF Match, Sound, TypeOK

LEMMA ReadCoverIsSound == ASSUME Sound, NEW l \in Lookups, ReadCover(l) PROVE Sound'
  <1> DEFINE t == lookup[l]
             m == t.on
             asking == [t EXCEPT !.at = "cover"]
             onward == IF m \in Files THEN Free(t, "lyrics") ELSE Idle
             missing == saved[m].missing /\ m \in Files
  <1>1. t \in Threads /\ Fair(t) /\ t.at = "artwork" /\ m # Nothing /\ m \in Items
    BY DEF ReadCover, At, Sound, TypeOK, Shape, Fair, Threads
  <1>2. saved[m] \in OnDisk /\ missing \in BOOLEAN
    BY <1>1 DEF Sound, TypeOK, OnDisk
  <1>3. onward \in Threads /\ Fair(onward) /\ asking \in Threads /\ Fair(asking)
    <2>1. asking \in Threads /\ Fair(asking)
      BY <1>1 DEF Threads, Fair, HoldsFacts, Places
    <2> QED
      BY <1>1, <2>1, FreeIsFair, IdleIsFair
  <1>4. /\ \/ saved' = saved
           \/ saved' = [saved EXCEPT ![m].picture = TRUE, ![m].missing = missing]
           \/ saved' = [saved EXCEPT ![m].missing = TRUE]
        /\ Goes(l, onward) \/ Goes(l, asking)
        /\ memory' = [memory EXCEPT ![m] = ForFacts(m)]
        /\ UNCHANGED <<file, fpcalc, answered>>
    BY DEF ReadCover
  <1>5. saved' \in [Items -> OnDisk]
    <2>1. [saved[m] EXCEPT !.picture = TRUE, !.missing = missing] \in OnDisk
          /\ [saved[m] EXCEPT !.missing = TRUE] \in OnDisk
      <3> HIDE DEF missing
      <3> QED
        BY <1>2 DEF OnDisk
    <2>2. \/ saved' = saved
          \/ saved' = [saved EXCEPT ![m] = [saved[m] EXCEPT !.picture = TRUE, !.missing = missing]]
          \/ saved' = [saved EXCEPT ![m] = [saved[m] EXCEPT !.missing = TRUE]]
      <3> HIDE DEF missing
      <3> QED
        BY <1>1, <1>2, <1>4 DEF Sound, TypeOK, OnDisk
    <2> QED
      BY <2>1, <2>2, <1>1 DEF Sound, TypeOK
  <1>6. lookup' \in [Lookups -> Threads] /\ Shape'
    <2> HIDE DEF onward, asking
    <2> QED
      BY <1>3, <1>4, GoesIsTyped DEF Sound
  <1>7. ForFacts(m) \in Entries
    BY <1>1, ForEntries DEF Sound
  <1> QED
    BY <1>1, <1>4, <1>5, <1>6, <1>7 DEF Sound, TypeOK

LEMMA ReceiveCoverIsSound == ASSUME Sound, NEW l \in Lookups, ReceiveCover(l) PROVE Sound'
  <1> DEFINE t == lookup[l]
             m == t.on
             after == IF m \in Files THEN Free(t, "lyrics") ELSE Idle
             found == [saved[m] EXCEPT !.picture = TRUE, !.missing = FALSE]
             nothing == [saved[m] EXCEPT !.missing = TRUE]
             content == [file[m] EXCEPT !.cover = TRUE]
  <1>1. t \in Threads /\ Fair(t) /\ t.at = "cover" /\ m # Nothing /\ m \in Items
    BY DEF ReceiveCover, At, Sound, TypeOK, Shape, Fair, Threads
  <1>2. saved[m] \in OnDisk /\ memory[m] \in Entries
    BY <1>1 DEF Sound, TypeOK
  <1>3. after \in Threads /\ Fair(after)
    BY <1>1, FreeIsFair, IdleIsFair
  <1>4. found \in OnDisk /\ nothing \in OnDisk
    BY <1>2 DEF OnDisk
  <1>5. m \in Files => content \in Tags
    BY DEF Sound, TypeOK, Tags
  <1>6. /\ \/ /\ Save(m, t.stale, memory[m], "cover", found)
                 \/ Save(m, t.stale, memory[m], "cover", nothing)
              /\ Goes(l, after) /\ UNCHANGED file
           \/ m \in Files /\ WriteBack(l, content, after)
        /\ UNCHANGED fpcalc
    BY DEF ReceiveCover
  <1>7. "cover" \in Marks /\ t.stale \in BOOLEAN
    BY <1>1 DEF Marks, Threads
  <1> HIDE DEF after, found, nothing, content
  <1>8. Typed' /\ lookup' \in [Lookups -> Threads] /\ Shape'
    BY <1>1, <1>2, <1>3, <1>4, <1>5, <1>6, <1>7, SaveIsTyped, GoesIsTyped, WriteBackIsTyped
       DEF Sound
  <1> QED
    BY <1>6, <1>8, TypedIsTypeOK DEF Sound, TypeOK

LEMMA ReadLyricsIsSound == ASSUME Sound, NEW l \in Lookups, ReadLyrics(l) PROVE Sound'
  <1> DEFINE t == lookup[l]
             m == t.on
             e == ForLyrics(m)
             inFile == IF m \in Files THEN file[m].words ELSE "none"
             known == IF inFile = "clash" THEN "none" ELSE e.words
             words == IF known = "none" /\ "lyrics" \in e.marks THEN saved[m].words ELSE known
             who == IF IsKnown(t.who) THEN t.who ELSE e.identity
             onward == IF m \in Files THEN Idle ELSE Free(t, "artwork")
             place == IF IsKnown(who) \/ m \in Streams THEN "words" ELSE "resolve"
             clash == inFile = "clash"
             asking == [t EXCEPT !.at = place, !.who = who, !.clash = clash, !.then = "words"]
  <1>1. t \in Threads /\ Fair(t) /\ t.at = "lyrics" /\ m # Nothing /\ m \in Items
    BY DEF ReadLyrics, At, Sound, TypeOK, Shape, Fair, Threads
  <1>2. saved[m] \in OnDisk /\ e \in Entries
    BY <1>1, ForEntries DEF Sound, TypeOK
  <1>3. words \in Words
    BY <1>2 DEF OnDisk, Entries, Words
  <1>4. who \in Identities /\ place \in {"words", "resolve"} /\ clash \in BOOLEAN
    BY <1>1, <1>2 DEF Threads, Entries
  <1>5. asking \in Threads /\ Fair(asking)
    <2> HIDE DEF place, who, clash
    <2> QED
      BY <1>1, <1>4 DEF Threads, Fair, HoldsFacts, Places
  <1>6. onward \in Threads /\ Fair(onward)
    BY <1>1, FreeIsFair, IdleIsFair
  <1>7. /\ \/ /\ memory' = [memory EXCEPT ![m] = [e EXCEPT !.words = "embedded"]]
              /\ saved' = [saved EXCEPT ![m].words = "embedded"]
           \/ memory' = [memory EXCEPT ![m] = [e EXCEPT !.words = words]] /\ saved' = saved
        /\ Goes(l, onward) \/ Goes(l, asking)
        /\ UNCHANGED <<file, fpcalc, answered>>
    BY DEF ReadLyrics
  <1>8. [e EXCEPT !.words = "embedded"] \in Entries /\ [e EXCEPT !.words = words] \in Entries
        /\ [saved[m] EXCEPT !.words = "embedded"] \in OnDisk
    <2> HIDE DEF words, e
    <2> QED
      BY <1>2, <1>3 DEF Entries, OnDisk, Words
  <1>9. lookup' \in [Lookups -> Threads] /\ Shape'
    <2> HIDE DEF onward, asking
    <2> QED
      BY <1>5, <1>6, <1>7, GoesIsTyped DEF Sound
  <1>10. memory' \in [Items -> Entries] /\ saved' \in [Items -> OnDisk]
    <2> HIDE DEF words, e
    <2> QED
      BY <1>1, <1>7, <1>8 DEF Sound, TypeOK
  <1> QED
    BY <1>7, <1>9, <1>10 DEF Sound, TypeOK

LEMMA ReceiveLyricsIsSound == ASSUME Sound, NEW l \in Lookups, ReceiveLyrics(l) PROVE Sound'
  <1> DEFINE t == lookup[l]
             m == t.on
             identity == IF IsKnown(t.who) THEN t.who ELSE memory[m].identity
             e == [memory[m] EXCEPT !.identity = identity]
             after == IF m \in Files THEN Idle ELSE Free(t, "artwork")
  <1>1. t \in Threads /\ Fair(t) /\ t.at = "words" /\ m # Nothing /\ m \in Items
    BY DEF ReceiveLyrics, At, Sound, TypeOK, Shape, Fair, Threads
  <1>2. saved[m] \in OnDisk /\ identity \in Identities
    BY <1>1 DEF Sound, TypeOK, Threads, Entries
  <1>3. e \in Entries
    <2> HIDE DEF identity
    <2> QED
      BY <1>1, <1>2 DEF Sound, TypeOK, Entries
  <1>4. ASSUME NEW words \in Words
        PROVE  /\ [e EXCEPT !.words = words] \in Entries
               /\ LET next == [t EXCEPT !.at = "keep", !.old = IF t.stale THEN words ELSE @]
                  IN  next \in Threads /\ Fair(next)
    <2> DEFINE old == IF t.stale THEN words ELSE t.old
               next == [t EXCEPT !.at = "keep", !.old = old]
    <2>1. [e EXCEPT !.words = words] \in Entries
      <3> HIDE DEF e
      <3> QED
        BY <1>3 DEF Entries
    <2>2. old \in Facts \cup Words
      BY <1>1 DEF Threads
    <2>3. next \in Threads /\ Fair(next)
      <3> HIDE DEF old
      <3> QED
        BY <1>1, <2>2 DEF Threads, Fair, HoldsFacts, Places
    <2> QED
      BY <2>1, <2>3
  <1>5. after \in Threads /\ Fair(after)
    BY <1>1, FreeIsFair, IdleIsFair
  <1>6. "lyrics" \in Marks /\ t.stale \in BOOLEAN /\ "none" \in Words /\ Sources \subseteq Words
    BY <1>1, EnrichmentAssumption DEF Marks, Threads, Words
  <1>7. /\ \/ \E words \in Sources :
                /\ Save(m, t.stale, [e EXCEPT !.words = words], "lyrics", saved[m])
                /\ Goes(l, [t EXCEPT !.at = "keep", !.old = IF t.stale THEN words ELSE @])
           \/ /\ Save(m, t.stale, [e EXCEPT !.words = "none"], "lyrics", saved[m])
              /\ Goes(l, after)
        /\ UNCHANGED <<file, fpcalc>>
    BY DEF ReceiveLyrics
  <1> HIDE DEF e, after
  <1>8. Typed' /\ lookup' \in [Lookups -> Threads] /\ Shape'
    <2>1. CASE \E words \in Sources :
                 /\ Save(m, t.stale, [e EXCEPT !.words = words], "lyrics", saved[m])
                 /\ Goes(l, [t EXCEPT !.at = "keep", !.old = IF t.stale THEN words ELSE @])
      <3>1. PICK words \in Sources :
                 /\ Save(m, t.stale, [e EXCEPT !.words = words], "lyrics", saved[m])
                 /\ Goes(l, [t EXCEPT !.at = "keep", !.old = IF t.stale THEN words ELSE @])
        BY <2>1
      <3> DEFINE next == [t EXCEPT !.at = "keep", !.old = IF t.stale THEN words ELSE @]
                 new == [e EXCEPT !.words = words]
      <3>2. next \in Threads /\ Fair(next) /\ new \in Entries
        BY <1>4, <1>6
      <3> HIDE DEF next, new
      <3> QED
        BY <1>1, <1>2, <1>6, <1>7, <3>1, <3>2, SaveIsTyped, GoesIsTyped DEF Sound, next, new
    <2>2. CASE /\ Save(m, t.stale, [e EXCEPT !.words = "none"], "lyrics", saved[m])
               /\ Goes(l, after)
      <3> DEFINE new == [e EXCEPT !.words = "none"]
      <3>1. new \in Entries
        BY <1>4, <1>6
      <3> HIDE DEF new
      <3> QED
        BY <1>1, <1>2, <1>5, <1>6, <1>7, <2>2, <3>1, SaveIsTyped, GoesIsTyped DEF Sound, new
    <2> QED
      BY <1>7, <2>1, <2>2
  <1> QED
    BY <1>7, <1>8, TypedIsTypeOK DEF Sound, TypeOK

LEMMA KeepLyricsIsSound == ASSUME Sound, NEW l \in Lookups, KeepLyrics(l) PROVE Sound'
  <1> DEFINE t == lookup[l]
             m == t.on
             words == IF t.stale THEN t.old ELSE memory[m].words
             after == IF m \in Files THEN Idle ELSE Free(t, "artwork")
  <1>1. t \in Threads /\ Fair(t) /\ t.at = "keep" /\ m # Nothing /\ m \in Items
    BY DEF KeepLyrics, At, Sound, TypeOK, Shape, Fair, Threads
  <1>2. after \in Threads /\ Fair(after)
    BY <1>1, FreeIsFair, IdleIsFair
  <1>3. CASE /\ saved' = IF t.stale THEN saved ELSE [saved EXCEPT ![m].words = words]
             /\ Goes(l, after) /\ UNCHANGED <<file, memory, answered>>
    <2>1. saved' \in [Items -> OnDisk]
      <3>1. CASE t.stale
        BY <1>3, <3>1 DEF Sound, TypeOK
      <3>2. CASE ~t.stale
        <4>1. words \in Words /\ saved[m] \in OnDisk
          BY <1>1, <3>2 DEF Sound, TypeOK, Entries
        <4>2. saved' = [saved EXCEPT ![m] = [saved[m] EXCEPT !.words = words]]
          BY <1>3, <3>2
        <4>3. [saved[m] EXCEPT !.words = words] \in OnDisk
          <5> HIDE DEF words
          <5> QED
            BY <4>1 DEF OnDisk
        <4> HIDE DEF words
        <4> QED
          BY <1>1, <4>2, <4>3 DEF Sound, TypeOK
      <3> QED
        BY <3>1, <3>2
    <2>2. lookup' \in [Lookups -> Threads] /\ Shape'
      <3> HIDE DEF after
      <3> QED
        BY <1>2, <1>3, GoesIsTyped DEF Sound
    <2> QED
      BY <1>3, <2>1, <2>2 DEF KeepLyrics, Sound, TypeOK
  <1>4. CASE /\ m \in Files
             /\ \E taken \in {"fit", "clash"} :
                   WriteBack(l, [file[m] EXCEPT !.words = IF t.clash \/ @ = "none" THEN taken
                                                          ELSE @], after)
    <2>1. PICK taken \in {"fit", "clash"} :
             WriteBack(l, [file[m] EXCEPT !.words = IF t.clash \/ @ = "none" THEN taken
                                                    ELSE @], after)
      BY <1>4
    <2> DEFINE own == IF t.clash \/ file[m].words = "none" THEN taken ELSE file[m].words
               content == [file[m] EXCEPT !.words = own]
    <2>2. file[m] \in Tags /\ own \in {"none", "fit", "clash"}
      BY <1>4 DEF Sound, TypeOK, Tags
    <2>3. content \in Tags
      <3> HIDE DEF own
      <3> QED
        BY <2>2 DEF Tags
    <2>4. WriteBack(l, content, after)
      BY <2>1
    <2> HIDE DEF content, after
    <2>5. Typed' /\ lookup' \in [Lookups -> Threads] /\ Shape'
      BY <1>2, <1>4, <2>3, <2>4, WriteBackIsTyped DEF Sound
    <2> QED
      BY <2>5, TypedIsTypeOK DEF KeepLyrics, Sound, TypeOK
  <1> QED
    BY <1>3, <1>4 DEF KeepLyrics

LEMMA EditIsSound == ASSUME Sound, NEW f \in Files, Edit(f) PROVE Sound'
  <1>1. PICK content \in Contents : Change(f, content)
    BY DEF Edit
  <1>2. Typed'
    BY <1>1, ChangeIsTyped, EnrichmentAssumption DEF Sound
  <1>3. lookup' \in [Lookups -> Threads] /\ Shape'
    BY OutdatedIsFair DEF Edit, Sound, Shape
  <1> QED
    BY <1>2, <1>3, TypedIsTypeOK DEF Edit, Sound, TypeOK

LEMMA RestartIsSound == ASSUME Sound, Restart PROVE Sound'
  BY EmptyIsTyped, IdleIsFair DEF Sound, TypeOK, Restart, Shape

LEMMA StepIsSound == ASSUME Sound, [Next]_vars PROVE Sound'
  <1>1. CASE \E l \in Lookups : Play(l) \/ Step(l)
    BY <1>1, PlayIsSound, ReadFactsIsSound, SettleFactsIsSound, ResolveIsSound, IdentifyIsSound,
       MatchIsSound, ReadCoverIsSound, ReceiveCoverIsSound, ReadLyricsIsSound,
       ReceiveLyricsIsSound, KeepLyricsIsSound DEF Step
  <1>2. CASE \E f \in Files : Edit(f)
    BY <1>2, EditIsSound
  <1>3. CASE Restart
    BY <1>3, RestartIsSound
  <1>4. CASE UNCHANGED vars
    BY <1>4 DEF vars, Sound, TypeOK, Shape
  <1> QED
    BY <1>1, <1>2, <1>3, <1>4 DEF Next

LEMMA InitIsSound == Init => Sound
  BY EmptyIsTyped, IdleIsFair, EnrichmentAssumption DEF Init, Sound, TypeOK, Shape

\* Every variable keeps its type, and a thread that looks for facts is about a file, under
\* every interleaving of lookups, edits and restarts (runtime_cache_store.cpp).
THEOREM TypeCorrect == Spec => []Sound
  BY InitIsSound, StepIsSound, PTL DEF Spec

-----------------------------------------------------------------------------
(* What has been answered is not asked for again.  Memory and disk may part *)
(* only before the first read of an item: every read brings the marks of    *)
(* the saved entry, and every answer is saved with the marks in memory.     *)

\* What was answered for an item is marked on disk, and marks in memory are those.
Recorded(m) ==
    /\ \A mark \in Marks : <<m, mark>> \in answered =>
          saved[m].there /\ mark \in saved[m].entry.marks
    /\ memory[m].marks # {} => saved[m].there /\ memory[m].marks = saved[m].entry.marks

\* Memory has all that is marked on disk.
UpToDate(m) == saved[m].there => memory[m].marks = saved[m].entry.marks

\* A thread past its first read of the entry.
Reads(t) == t.at # "idle" /\ ~(t.at = "resolve" /\ t.then = "stream")

MarksAgree == \A m \in Items : Recorded(m)
BusyAgree == \A l \in Lookups : Reads(lookup[l]) => UpToDate(lookup[l].on)
Agree == MarksAgree /\ BusyAgree

\* A step about m: the other items keep their marks, and no other thread becomes a reader.
OnlyAbout(m) ==
    /\ \A n \in Items \ {m} :
          /\ memory'[n] = memory[n]
          /\ saved'[n].there = saved[n].there /\ saved'[n].entry = saved[n].entry
          /\ \A mark \in Marks : <<n, mark>> \in answered' => <<n, mark>> \in answered
    /\ \A k \in Lookups : Reads(lookup'[k]) =>
          lookup'[k].on = m \/ (Reads(lookup[k]) /\ lookup'[k].on = lookup[k].on)

LEMMA ReaderIsAbout ==
    ASSUME Sound, NEW l \in Lookups, Reads(lookup[l])
    PROVE  lookup[l].on \in Items
  BY DEF Sound, TypeOK, Shape, Fair, Reads, Threads

LEMMA OneItemAgrees ==
    ASSUME Sound, Sound', Agree, NEW m \in Items, OnlyAbout(m), Recorded(m)', UpToDate(m)'
    PROVE  Agree'
  <1>1. ASSUME NEW n \in Items PROVE Recorded(n)'
    <2>1. CASE n = m
      BY <2>1
    <2>2. CASE n # m
      BY <2>2 DEF Agree, MarksAgree, OnlyAbout, Recorded
    <2> QED
      BY <2>1, <2>2
  <1>2. ASSUME NEW k \in Lookups, Reads(lookup[k])' PROVE UpToDate(lookup[k].on)'
    <2>1. CASE lookup'[k].on = m
      BY <2>1 DEF UpToDate
    <2>2. CASE lookup'[k].on # m
      <3>1. Reads(lookup[k]) /\ lookup'[k].on = lookup[k].on
        BY <1>2, <2>2 DEF OnlyAbout, Reads
      <3>2. lookup[k].on \in Items \ {m}
        BY <2>2, <3>1, ReaderIsAbout
      <3> QED
        BY <3>1, <3>2 DEF Agree, BusyAgree, UpToDate, OnlyAbout
    <2> QED
      BY <2>1, <2>2
  <1> QED
    BY <1>1, <1>2 DEF Agree, MarksAgree, BusyAgree

LEMMA ReadsAllMarks ==
    ASSUME Sound, Agree, NEW m \in Items, NEW its \in SUBSET Marks
    PROVE  /\ saved[m].there => Reread(m, its).marks = saved[m].entry.marks
           /\ ~saved[m].there => Reread(m, its).marks = {}
           /\ \A mark \in Marks : <<m, mark>> \in answered => mark \in Reread(m, its).marks
  <1>1. Recorded(m)
    BY DEF Agree, MarksAgree
  <1>2. Loaded(m).marks = saved[m].entry.marks
    BY LoadedIsTyped DEF Sound
  <1> QED
    BY <1>1, <1>2 DEF Recorded, Reread

LEMMA ReadAgrees ==
    ASSUME Sound, Sound', Agree, NEW m \in Items, NEW e \in Entries, NEW its \in SUBSET Marks,
           e.marks = Reread(m, its).marks, memory' = [memory EXCEPT ![m] = e],
           \A n \in Items : saved'[n].there = saved[n].there /\ saved'[n].entry = saved[n].entry,
           UNCHANGED answered,
           \A k \in Lookups : Reads(lookup'[k]) =>
              lookup'[k].on = m \/ (Reads(lookup[k]) /\ lookup'[k].on = lookup[k].on)
    PROVE  Agree'
  <1>1. memory'[m] = e /\ \A n \in Items \ {m} : memory'[n] = memory[n]
    BY DEF Sound, TypeOK
  <1>2. OnlyAbout(m)
    BY <1>1 DEF OnlyAbout
  <1>3. Recorded(m)' /\ UpToDate(m)'
    BY <1>1, ReadsAllMarks DEF Recorded, UpToDate
  <1> QED
    BY <1>2, <1>3, OneItemAgrees

LEMMA SaveAgrees ==
    ASSUME Sound, Sound', Agree, NEW m \in Items, UpToDate(m), NEW stale \in BOOLEAN,
           NEW e \in Entries, NEW mark \in Marks, NEW files \in OnDisk,
           Save(m, stale, e, mark, files), e.marks = memory[m].marks,
           \A k \in Lookups : Reads(lookup'[k]) =>
              lookup'[k].on = m \/ (Reads(lookup[k]) /\ lookup'[k].on = lookup[k].on)
    PROVE  Agree'
  <1>1. Recorded(m)
    BY DEF Agree, MarksAgree
  <1>2. CASE stale
    BY <1>1, <1>2, OneItemAgrees DEF Save, OnlyAbout, Recorded, UpToDate
  <1>3. CASE ~stale
    <2> DEFINE marked == [e EXCEPT !.marks = @ \cup {mark}]
               written == [files EXCEPT !.there = TRUE, !.entry = Stored(marked)]
    <2>1. /\ memory' = [memory EXCEPT ![m] = marked] /\ saved' = [saved EXCEPT ![m] = written]
          /\ answered' = answered \cup {<<m, mark>>}
      BY <1>3 DEF Save
    <2>2. /\ marked.marks = e.marks \cup {mark} /\ written.there /\ written.entry = Stored(marked)
          /\ Stored(marked).marks = marked.marks
      <3>1. marked \in Entries /\ marked.marks = e.marks \cup {mark}
        BY DEF Entries
      <3> HIDE DEF marked
      <3> QED
        BY <3>1 DEF Stored, Entries, OnDisk
    <2> HIDE DEF marked, written
    <2>3. /\ memory'[m] = marked /\ saved'[m] = written
          /\ \A n \in Items \ {m} : memory'[n] = memory[n] /\ saved'[n] = saved[n]
      BY <2>1 DEF Sound, TypeOK
    <2>4. OnlyAbout(m)
      BY <2>1, <2>3 DEF OnlyAbout
    <2>5. Recorded(m)' /\ UpToDate(m)'
      BY <1>1, <2>1, <2>2, <2>3 DEF Recorded, UpToDate
    <2> QED
      BY <2>4, <2>5, OneItemAgrees
  <1> QED
    BY <1>2, <1>3

LEMMA ChangeAgrees ==
    ASSUME Sound, Sound', Agree, NEW f \in Files, NEW content, Change(f, content),
           \A k \in Lookups : Reads(lookup'[k]) =>
              lookup'[k].on = f \/ (Reads(lookup[k]) /\ lookup'[k].on = lookup[k].on)
    PROVE  Agree'
  <1>1. f \in Items
    BY DEF Items
  <1>2. /\ memory'[f] = EmptyEntry /\ saved'[f] = NoFiles
        /\ \A n \in Items \ {f} : memory'[n] = memory[n] /\ saved'[n] = saved[n]
    BY <1>1 DEF Change, Sound, TypeOK
  <1>3. answered' = answered \ ({f} \X Marks)
    BY DEF Change
  <1>4. OnlyAbout(f)
    BY <1>2, <1>3 DEF OnlyAbout
  <1>5. Recorded(f)' /\ UpToDate(f)'
    BY <1>2, <1>3, EmptyIsTyped DEF Recorded, UpToDate
  <1> QED
    BY <1>1, <1>4, <1>5, OneItemAgrees

LEMMA GoesReads ==
    ASSUME Sound, NEW l \in Lookups, NEW t \in Threads, Goes(l, t), NEW m, t.on = m \/ ~Reads(t)
    PROVE  \A k \in Lookups : Reads(lookup'[k]) =>
              lookup'[k].on = m \/ (Reads(lookup[k]) /\ lookup'[k].on = lookup[k].on)
  BY DEF Goes, Sound, TypeOK

LEMMA OutdatedReads ==
    ASSUME Sound, NEW f \in Files, NEW k \in Lookups
    PROVE  (Reads(Outdated(f, k)) <=> Reads(lookup[k])) /\ Outdated(f, k).on = lookup[k].on
  BY OutdatedIsFair DEF Sound, Reads

LEMMA WriteBackAgrees ==
    ASSUME Sound, Sound', Agree, NEW l \in Lookups, lookup[l].on \in Files, NEW content,
           NEW after \in Threads, after.on = lookup[l].on \/ ~Reads(after),
           WriteBack(l, content, after)
    PROVE  Agree'
  <1> DEFINE f == lookup[l].on
  <1>1. Change(f, content) /\ lookup' = [k \in Lookups |-> IF k = l THEN after ELSE Outdated(f, k)]
    BY DEF WriteBack
  <1>2. ASSUME NEW k \in Lookups, Reads(lookup'[k])
        PROVE  lookup'[k].on = f \/ (Reads(lookup[k]) /\ lookup'[k].on = lookup[k].on)
    <2>1. CASE k = l
      BY <1>1, <1>2, <2>1
    <2>2. CASE k # l
      BY <1>1, <1>2, <2>2, OutdatedReads
    <2> QED
      BY <2>1, <2>2
  <1> QED
    BY <1>1, <1>2, ChangeAgrees

LEMMA AnswerReads ==
    ASSUME Sound, NEW l \in Lookups, NEW who, Answer(l, who)
    PROVE  \A k \in Lookups : Reads(lookup'[k]) =>
              lookup'[k].on = lookup[l].on \/ (Reads(lookup[k]) /\ lookup'[k].on = lookup[k].on)
  <1> DEFINE there == Onward(lookup[l], who)
             next == [lookup[l] EXCEPT !.who = who, !.idStale = FALSE, !.at = there]
  <1>1. next.on = lookup[l].on
    <2> HIDE DEF there
    <2> QED
      BY DEF Sound, TypeOK, Threads
  <1>2. lookup' = [lookup EXCEPT ![l] = next]
    BY DEF Answer, Goes
  <1> HIDE DEF next
  <1> QED
    BY <1>1, <1>2 DEF Sound, TypeOK

LEMMA PlayAgrees == ASSUME Sound, Sound', Agree, NEW l \in Lookups, Play(l) PROVE Agree'
  <1>1. PICK m \in Items : IF m \in Files THEN PlayFile(l, m) ELSE PlayStream(l, m)
    BY DEF Play
  <1>2. UNCHANGED answered
    BY DEF Play
  <1>3. CASE m \in Files
    <2> DEFINE told == Told(m, ForFacts(m))
               again == "metadata" \notin told.marks /\ saved[m].there
               s == saved[m]
               entry == IF again THEN Loaded(m) ELSE told
               picture == s.picture \/ (~s.missing /\ file[m].cover)
               missing == s.missing \/ (~s.picture /\ ~file[m].cover)
               thread == [Idle EXCEPT !.at = "metadata", !.on = m]
    <2>1. /\ memory' = [memory EXCEPT ![m] = entry]
          /\ saved' = [saved EXCEPT ![m].picture = picture, ![m].missing = missing]
          /\ Goes(l, thread)
      BY <1>1, <1>3 DEF PlayFile
    <2>2. /\ told \in Entries /\ told.marks = Reread(m, {"metadata"}).marks
          /\ Loaded(m) \in Entries /\ Loaded(m).marks = saved[m].entry.marks
          /\ {"metadata"} \in SUBSET Marks
      BY <1>3, ForEntries, ToldIsTyped, LoadedIsTyped DEF Sound, ForFacts, Marks
    <2>3. entry \in Entries /\ entry.marks = Reread(m, {"metadata"}).marks
      <3> HIDE DEF told
      <3> QED
        BY <2>2, ReadsAllMarks
    <2>4. \A n \in Items : saved'[n].there = saved[n].there /\ saved'[n].entry = saved[n].entry
      <3> HIDE DEF picture, missing
      <3> QED
        BY <2>1 DEF Sound, TypeOK, OnDisk
    <2>5. thread \in Threads /\ thread.on = m
      BY IdleIsFair DEF Idle, Threads, Places
    <2>6. \A k \in Lookups : Reads(lookup'[k]) =>
             lookup'[k].on = m \/ (Reads(lookup[k]) /\ lookup'[k].on = lookup[k].on)
      <3> HIDE DEF thread
      <3> QED
        BY <2>1, <2>5, GoesReads
    <2> HIDE DEF entry, picture, missing, thread
    <2> QED
      BY <1>2, <2>1, <2>2, <2>3, <2>4, <2>6, ReadAgrees
  <1>4. CASE m \notin Files
    <2> DEFINE thread == [Idle EXCEPT !.at = "resolve", !.on = m, !.then = "stream"]
    <2>1. Goes(l, thread) /\ UNCHANGED <<memory, saved, answered>>
      BY <1>1, <1>2, <1>4 DEF PlayStream
    <2>2. thread \in Threads /\ ~Reads(thread)
      BY IdleIsFair DEF Idle, Threads, Places, Reads
    <2>3. \A k \in Lookups : Reads(lookup'[k]) => Reads(lookup[k]) /\ lookup'[k].on = lookup[k].on
      <3> HIDE DEF thread
      <3> QED
        BY <2>1, <2>2 DEF Goes, Sound, TypeOK
    <2> QED
      BY <2>1, <2>3 DEF Agree, MarksAgree, BusyAgree, Recorded, UpToDate
  <1> QED
    BY <1>3, <1>4

LEMMA ReadFactsAgrees ==
    ASSUME Sound, Sound', Agree, NEW l \in Lookups, ReadFacts(l) PROVE Agree'
  <1> DEFINE t == lookup[l]
             e == ForFacts(t.on)
             clash == Clashes(t.on, e)
             asking == [t EXCEPT !.at = "resolve", !.clash = clash]
  <1>1. t \in Threads /\ Fair(t) /\ t.on \in Files /\ t.on \in Items /\ t.on # Nothing
    BY EnrichmentAssumption DEF ReadFacts, At, Sound, TypeOK, Shape, Fair, Items
  <1>2. /\ e \in Entries /\ Told(t.on, e) \in Entries
        /\ Told(t.on, e).marks = Reread(t.on, {"metadata"}).marks /\ {"metadata"} \in SUBSET Marks
    BY <1>1, ForEntries, ToldIsTyped DEF Sound, ForFacts, Marks
  <1>3. /\ memory' = [memory EXCEPT ![t.on] = Told(t.on, e)]
        /\ UNCHANGED <<saved, answered>>
        /\ Goes(l, asking) \/ Goes(l, Free(t, "artwork"))
    BY DEF ReadFacts
  <1>4. asking \in Threads /\ asking.on = t.on
    <2>1. clash \in BOOLEAN
      BY DEF Clashes
    <2> HIDE DEF clash
    <2> QED
      BY <1>1, <2>1 DEF Threads, Places
  <1>5. \A k \in Lookups : Reads(lookup'[k]) =>
             lookup'[k].on = t.on \/ (Reads(lookup[k]) /\ lookup'[k].on = lookup[k].on)
    <2> HIDE DEF asking, t, e
    <2>1. Free(t, "artwork") \in Threads /\ Free(t, "artwork").on = t.on
      BY <1>1, FreeIsFair
    <2> QED
      BY <1>3, <1>4, <2>1, GoesReads
  <1> HIDE DEF e, asking
  <1> QED
    BY <1>1, <1>2, <1>3, <1>5, ReadAgrees

LEMMA ResolveAgrees ==
    ASSUME Sound, Sound', Agree, NEW l \in Lookups, Resolve(l) PROVE Agree'
  <1> DEFINE t == lookup[l]
             e == ForIdentity(t.on)
             asking == [t EXCEPT !.at = "identify"]
  <1>1. t \in Threads /\ t.on \in Items
    BY DEF Resolve, At, Sound, TypeOK, Shape, Fair, Threads
  <1>2. e \in Entries /\ e.marks = Reread(t.on, {"identity"}).marks /\ {"identity"} \in SUBSET Marks
    BY <1>1, ForEntries DEF Sound, ForIdentity, Marks
  <1>3. /\ memory' = [memory EXCEPT ![t.on] = e]
        /\ UNCHANGED <<saved, answered>>
        /\ (\E who : Answer(l, who)) \/ Goes(l, asking)
    BY DEF Resolve
  <1>4. asking \in Threads /\ asking.on = t.on
    BY <1>1 DEF Threads, Places
  <1>5. \A k \in Lookups : Reads(lookup'[k]) =>
             lookup'[k].on = t.on \/ (Reads(lookup[k]) /\ lookup'[k].on = lookup[k].on)
    <2> HIDE DEF asking
    <2> QED
      BY <1>3, <1>4, AnswerReads, GoesReads
  <1> HIDE DEF e
  <1> QED
    BY <1>1, <1>2, <1>3, <1>5, ReadAgrees

LEMMA ReadCoverAgrees ==
    ASSUME Sound, Sound', Agree, NEW l \in Lookups, ReadCover(l) PROVE Agree'
  <1> DEFINE t == lookup[l]
             m == t.on
             asking == [t EXCEPT !.at = "cover"]
             onward == IF m \in Files THEN Free(t, "lyrics") ELSE Idle
  <1>1. t \in Threads /\ Fair(t) /\ m # Nothing /\ m \in Items
    BY DEF ReadCover, At, Sound, TypeOK, Shape, Fair, Threads
  <1>2. /\ ForFacts(m) \in Entries /\ ForFacts(m).marks = Reread(m, {"metadata"}).marks
        /\ {"metadata"} \in SUBSET Marks
    BY <1>1, ForEntries DEF Sound, ForFacts, Marks
  <1>3. /\ \/ saved' = saved
           \/ \E missing : saved' = [saved EXCEPT ![m].picture = TRUE, ![m].missing = missing]
           \/ saved' = [saved EXCEPT ![m].missing = TRUE]
        /\ Goes(l, onward) \/ Goes(l, asking)
        /\ memory' = [memory EXCEPT ![m] = ForFacts(m)]
        /\ UNCHANGED answered
    BY DEF ReadCover
  <1>4. \A n \in Items : saved'[n].there = saved[n].there /\ saved'[n].entry = saved[n].entry
    <2>1. ASSUME NEW missing, saved' = [saved EXCEPT ![m].picture = TRUE, ![m].missing = missing]
          PROVE  saved' = [saved EXCEPT ![m] = [saved[m] EXCEPT !.picture = TRUE, !.missing = missing]]
      BY <1>1, <2>1 DEF Sound, TypeOK, OnDisk
    <2>2. CASE \E missing : saved' = [saved EXCEPT ![m].picture = TRUE, ![m].missing = missing]
      <3>1. PICK missing :
               saved' = [saved EXCEPT ![m] = [saved[m] EXCEPT !.picture = TRUE, !.missing = missing]]
        BY <2>1, <2>2
      <3> QED
        BY <1>1, <3>1 DEF Sound, TypeOK, OnDisk
    <2>3. CASE saved' = [saved EXCEPT ![m].missing = TRUE]
      BY <1>1, <2>3 DEF Sound, TypeOK, OnDisk
    <2> QED
      BY <1>3, <2>2, <2>3
  <1>5. asking \in Threads /\ asking.on = m /\ onward \in Threads /\ (onward.on = m \/ ~Reads(onward))
    <2>1. asking \in Threads /\ asking.on = m
      BY <1>1 DEF Threads, Places
    <2>2. Idle \in Threads /\ ~Reads(Idle)
      BY IdleIsFair DEF Reads, Idle
    <2> QED
      BY <1>1, <2>1, <2>2, FreeIsFair
  <1>6. \A k \in Lookups : Reads(lookup'[k]) =>
             lookup'[k].on = m \/ (Reads(lookup[k]) /\ lookup'[k].on = lookup[k].on)
    <2> HIDE DEF asking, onward
    <2>1. CASE Goes(l, onward)
      BY <1>5, <2>1, GoesReads
    <2>2. CASE Goes(l, asking)
      BY <1>5, <2>2, GoesReads
    <2> QED
      BY <1>3, <2>1, <2>2
  <1> QED
    BY <1>1, <1>2, <1>3, <1>4, <1>6, ReadAgrees

LEMMA ReadLyricsAgrees ==
    ASSUME Sound, Sound', Agree, NEW l \in Lookups, ReadLyrics(l) PROVE Agree'
  <1> DEFINE t == lookup[l]
             m == t.on
             e == ForLyrics(m)
             its == {"metadata", "identity", "lyrics"}
             onward == IF m \in Files THEN Idle ELSE Free(t, "artwork")
  <1>1. t \in Threads /\ Fair(t) /\ m # Nothing /\ m \in Items
    BY DEF ReadLyrics, At, Sound, TypeOK, Shape, Fair, Threads
  <1>2. e \in Entries /\ e.marks = Reread(m, its).marks /\ its \in SUBSET Marks
    BY <1>1, ForEntries DEF Sound, ForLyrics, Marks
  <1>3. PICK words, place, who, clash :
           /\ saved' = saved \/ saved' = [saved EXCEPT ![m].words = "embedded"]
           /\ memory' = [memory EXCEPT ![m] = [e EXCEPT !.words = words]]
           /\ \/ Goes(l, onward)
              \/ Goes(l, [t EXCEPT !.at = place, !.who = who, !.clash = clash, !.then = "words"])
           /\ UNCHANGED answered
    BY DEF ReadLyrics
  <1> DEFINE new == [e EXCEPT !.words = words]
             asking == [t EXCEPT !.at = place, !.who = who, !.clash = clash, !.then = "words"]
  <1>4. new.marks = e.marks /\ asking.on = m /\ memory'[m] = new
    <2> HIDE DEF e
    <2> QED
      BY <1>1, <1>2, <1>3 DEF Entries, Threads, Sound, TypeOK
  <1>5. new \in Entries
    BY <1>1, <1>4 DEF Sound, TypeOK
  <1>6. \A n \in Items : saved'[n].there = saved[n].there /\ saved'[n].entry = saved[n].entry
    BY <1>3 DEF Sound, TypeOK, OnDisk
  <1>7. onward \in Threads /\ (onward.on = m \/ ~Reads(onward))
    <2>1. Idle \in Threads /\ ~Reads(Idle)
      BY IdleIsFair DEF Reads, Idle
    <2> QED
      BY <1>1, <2>1, FreeIsFair
  <1>8. lookup' = [lookup EXCEPT ![l] = onward] \/ lookup' = [lookup EXCEPT ![l] = asking]
    BY <1>3 DEF Goes
  <1>9. \A k \in Lookups : Reads(lookup'[k]) =>
             lookup'[k].on = m \/ (Reads(lookup[k]) /\ lookup'[k].on = lookup[k].on)
    <2> HIDE DEF asking, onward
    <2> QED
      BY <1>4, <1>7, <1>8 DEF Sound, TypeOK
  <1> HIDE DEF new, e
  <1> QED
    BY <1>1, <1>2, <1>3, <1>4, <1>5, <1>6, <1>9, ReadAgrees DEF new

LEMMA SettleFactsAgrees ==
    ASSUME Sound, Sound', Agree, NEW l \in Lookups, SettleFacts(l) PROVE Agree'
  <1> DEFINE t == lookup[l]
             known == IF t.stale THEN t.old ELSE memory[t.on].facts
             e == [memory[t.on] EXCEPT !.facts = known]
             facts == IF t.clash THEN t.who.text ELSE Filled(e.facts, t.who.text)
             ids == e.ids \/ t.who.ids
             settled == IF IsKnown(t.who) THEN [e EXCEPT !.facts = facts, !.ids = ids] ELSE e
             after == [Free(t, "artwork") EXCEPT !.who = Unknown]
             content == [file[t.on] EXCEPT !.tags = Rewritten(t, settled.facts)]
  <1>1. t \in Threads /\ Fair(t) /\ t.at = "settle" /\ t.on \in Files /\ t.on \in Items
    BY DEF SettleFacts, At, Sound, TypeOK, Shape, Fair, Items
  <1>2. memory[t.on] \in Entries /\ saved[t.on] \in OnDisk
    BY <1>1 DEF Sound, TypeOK
  <1>3. settled.marks = memory[t.on].marks /\ settled \in Entries
    <2>1. known \in Facts
      BY <1>1, <1>2 DEF Fair, HoldsFacts, Entries
    <2>2. e \in Entries /\ e.marks = memory[t.on].marks
      <3> HIDE DEF known
      <3> QED
        BY <1>2, <2>1 DEF Entries
    <2>3. facts \in Facts /\ ids \in BOOLEAN
      <3> HIDE DEF e
      <3> QED
        BY <1>1, <2>2, FilledIsFacts DEF Entries, Threads, Identities
    <2> HIDE DEF e, facts, ids
    <2> QED
      BY <2>2, <2>3 DEF Entries
  <1>4. after \in Threads /\ after.on = t.on
    BY <1>1, OffersAreIdentities DEF Free, Threads, Places, Facts
  <1>5. UpToDate(t.on)
    BY <1>1 DEF Agree, BusyAgree, Reads
  <1>6. \/ /\ Save(t.on, t.stale, settled, "metadata", saved[t.on])
           /\ Goes(l, after)
        \/ WriteBack(l, content, after)
    BY DEF SettleFacts
  <1>7. "metadata" \in Marks /\ t.stale \in BOOLEAN
    BY <1>1 DEF Marks, Threads
  <1> HIDE DEF settled, after, content
  <1>8. CASE Save(t.on, t.stale, settled, "metadata", saved[t.on]) /\ Goes(l, after)
    <2>1. \A k \in Lookups : Reads(lookup'[k]) =>
             lookup'[k].on = t.on \/ (Reads(lookup[k]) /\ lookup'[k].on = lookup[k].on)
      BY <1>4, <1>8, GoesReads
    <2> QED
      BY <1>1, <1>2, <1>3, <1>5, <1>7, <1>8, <2>1, SaveAgrees
  <1>9. CASE WriteBack(l, content, after)
    BY <1>1, <1>4, <1>9, WriteBackAgrees
  <1> QED
    BY <1>6, <1>8, <1>9

LEMMA IdentifyAgrees ==
    ASSUME Sound, Sound', Agree, NEW l \in Lookups, Identify(l) PROVE Agree'
  <1> DEFINE t == lookup[l]
             e == memory[t.on]
  <1>1. t \in Threads /\ t.at = "identify" /\ t.on \in Items
    BY DEF Identify, At, Sound, TypeOK, Shape, Fair, Threads
  <1>2. e \in Entries /\ saved[t.on] \in OnDisk
    BY <1>1 DEF Sound, TypeOK
  <1>3. PICK who \in {Unknown} \cup Offers :
           /\ Save(t.on, t.idStale,
                   IF ~IsKnown(who) THEN e
                   ELSE [e EXCEPT !.identity = who, !.ids = @ \/ who.ids,
                                  !.facts = IF t.on \in Streams THEN who.text ELSE @],
                   "identity", saved[t.on])
           /\ Answer(l, who)
    BY DEF Identify
  <1> DEFINE ids == e.ids \/ who.ids
             facts == IF t.on \in Streams THEN who.text ELSE e.facts
             known == [e EXCEPT !.identity = who, !.ids = ids, !.facts = facts]
             new == IF ~IsKnown(who) THEN e ELSE known
  <1>4. new \in Entries /\ new.marks = e.marks
    <2>1. who \in Identities
      BY IdentityOffered
    <2>2. ids \in BOOLEAN /\ facts \in Facts
      BY <1>2, <2>1 DEF Identities, Entries
    <2> HIDE DEF ids, facts, e
    <2> QED
      BY <1>2, <2>1, <2>2 DEF Entries
  <1>5. Save(t.on, t.idStale, new, "identity", saved[t.on])
    BY <1>3
  <1>6. \A k \in Lookups : Reads(lookup'[k]) =>
             lookup'[k].on = t.on \/ (Reads(lookup[k]) /\ lookup'[k].on = lookup[k].on)
    BY <1>3, AnswerReads
  <1>7. "identity" \in Marks /\ t.idStale \in BOOLEAN /\ UpToDate(t.on)
    BY <1>1 DEF Marks, Threads, Agree, BusyAgree, Reads
  <1> HIDE DEF new
  <1> QED
    BY <1>1, <1>2, <1>4, <1>5, <1>6, <1>7, SaveAgrees

LEMMA MatchAgrees ==
    ASSUME Sound, Sound', Agree, NEW l \in Lookups, Match(l) PROVE Agree'
  <1> DEFINE t == lookup[l]
  <1>1. PICK who : Goes(l, [t EXCEPT !.at = "settle", !.who = who])
    BY DEF Match
  <1>2. t \in Threads /\ t.at = "match" /\ UNCHANGED <<memory, saved, answered>>
    BY DEF Match, At, Sound, TypeOK
  <1> DEFINE next == [t EXCEPT !.at = "settle", !.who = who]
  <1>3. next.on = t.on /\ Reads(t)
    BY <1>2 DEF Threads, Reads
  <1>4. lookup' = [lookup EXCEPT ![l] = next]
    BY <1>1 DEF Goes
  <1>5. \A k \in Lookups : Reads(lookup'[k]) => Reads(lookup[k]) /\ lookup'[k].on = lookup[k].on
    <2> HIDE DEF next
    <2> QED
      BY <1>3, <1>4 DEF Sound, TypeOK
  <1> QED
    BY <1>2, <1>5 DEF Agree, MarksAgree, BusyAgree, Recorded, UpToDate

LEMMA ReceiveCoverAgrees ==
    ASSUME Sound, Sound', Agree, NEW l \in Lookups, ReceiveCover(l) PROVE Agree'
  <1> DEFINE t == lookup[l]
             m == t.on
             after == IF m \in Files THEN Free(t, "lyrics") ELSE Idle
             found == [saved[m] EXCEPT !.picture = TRUE, !.missing = FALSE]
             nothing == [saved[m] EXCEPT !.missing = TRUE]
             content == [file[m] EXCEPT !.cover = TRUE]
  <1>1. t \in Threads /\ Fair(t) /\ t.at = "cover" /\ m # Nothing /\ m \in Items
    BY DEF ReceiveCover, At, Sound, TypeOK, Shape, Fair, Threads
  <1>2. saved[m] \in OnDisk /\ memory[m] \in Entries
    BY <1>1 DEF Sound, TypeOK
  <1>3. after \in Threads /\ (after.on = m \/ ~Reads(after))
    <2>1. Idle \in Threads /\ ~Reads(Idle)
      BY IdleIsFair DEF Reads, Idle
    <2> QED
      BY <1>1, <2>1, FreeIsFair
  <1>4. found \in OnDisk /\ nothing \in OnDisk
    BY <1>2 DEF OnDisk
  <1>5. "cover" \in Marks /\ t.stale \in BOOLEAN /\ UpToDate(m)
    BY <1>1 DEF Marks, Threads, Agree, BusyAgree, Reads
  <1>6. \/ /\ \E files \in {found, nothing} : Save(m, t.stale, memory[m], "cover", files)
           /\ Goes(l, after)
        \/ m \in Files /\ WriteBack(l, content, after)
    BY DEF ReceiveCover
  <1> HIDE DEF after, found, nothing, content
  <1>7. CASE /\ \E files \in {found, nothing} : Save(m, t.stale, memory[m], "cover", files)
             /\ Goes(l, after)
    <2>1. PICK files \in OnDisk : Save(m, t.stale, memory[m], "cover", files)
      BY <1>4, <1>7
    <2>2. \A k \in Lookups : Reads(lookup'[k]) =>
             lookup'[k].on = m \/ (Reads(lookup[k]) /\ lookup'[k].on = lookup[k].on)
      BY <1>3, <1>7, GoesReads
    <2> QED
      BY <1>1, <1>2, <1>5, <2>1, <2>2, SaveAgrees
  <1>8. CASE m \in Files /\ WriteBack(l, content, after)
    BY <1>3, <1>8, WriteBackAgrees
  <1> QED
    BY <1>6, <1>7, <1>8

LEMMA ReceiveLyricsAgrees ==
    ASSUME Sound, Sound', Agree, NEW l \in Lookups, ReceiveLyrics(l) PROVE Agree'
  <1> DEFINE t == lookup[l]
             m == t.on
             identity == IF IsKnown(t.who) THEN t.who ELSE memory[m].identity
             e == [memory[m] EXCEPT !.identity = identity]
             after == IF m \in Files THEN Idle ELSE Free(t, "artwork")
  <1>1. t \in Threads /\ Fair(t) /\ t.at = "words" /\ m # Nothing /\ m \in Items
    BY DEF ReceiveLyrics, At, Sound, TypeOK, Shape, Fair, Threads
  <1>2. saved[m] \in OnDisk /\ memory[m] \in Entries /\ identity \in Identities
    BY <1>1 DEF Sound, TypeOK, Threads, Entries
  <1>3. after \in Threads /\ (after.on = m \/ ~Reads(after))
    <2>1. Idle \in Threads /\ ~Reads(Idle)
      BY IdleIsFair DEF Reads, Idle
    <2> QED
      BY <1>1, <2>1, FreeIsFair
  <1>4. PICK words \in Words, next \in Threads :
           /\ Save(m, t.stale, [e EXCEPT !.words = words], "lyrics", saved[m])
           /\ lookup' = [lookup EXCEPT ![l] = next]
           /\ next.on = m \/ ~Reads(next)
    <2> HIDE DEF e, after
    <2>1. CASE Save(m, t.stale, [e EXCEPT !.words = "none"], "lyrics", saved[m]) /\ Goes(l, after)
      BY <1>3, <2>1 DEF Words, Goes
    <2>2. CASE \E words \in Sources :
                 /\ Save(m, t.stale, [e EXCEPT !.words = words], "lyrics", saved[m])
                 /\ Goes(l, [t EXCEPT !.at = "keep", !.old = IF t.stale THEN words ELSE @])
      <3>1. PICK words \in Sources :
                 /\ Save(m, t.stale, [e EXCEPT !.words = words], "lyrics", saved[m])
                 /\ Goes(l, [t EXCEPT !.at = "keep", !.old = IF t.stale THEN words ELSE @])
        BY <2>2
      <3> DEFINE old == IF t.stale THEN words ELSE t.old
                 next == [t EXCEPT !.at = "keep", !.old = old]
      <3>2. words \in Words
        BY EnrichmentAssumption DEF Words
      <3>3. next.on = m
        <4> HIDE DEF old
        <4> QED
          BY <1>1 DEF Threads
      <3>4. lookup' = [lookup EXCEPT ![l] = next]
        BY <3>1 DEF Goes
      <3>5. next \in Threads
        <4>1. old \in Facts \cup Words
          BY <1>1, <3>2 DEF Threads
        <4> HIDE DEF old
        <4> QED
          BY <1>1, <4>1 DEF Threads, Places
      <3> HIDE DEF next
      <3> QED
        BY <3>1, <3>2, <3>3, <3>4, <3>5
    <2> QED
      BY <2>1, <2>2 DEF ReceiveLyrics, e, after
  <1> DEFINE new == [e EXCEPT !.words = words]
  <1>5. new \in Entries /\ new.marks = memory[m].marks
    <2>1. e \in Entries /\ e.marks = memory[m].marks
      <3> HIDE DEF identity
      <3> QED
        BY <1>2 DEF Entries
    <2> HIDE DEF e
    <2> QED
      BY <2>1 DEF Entries
  <1>6. \A k \in Lookups : Reads(lookup'[k]) =>
             lookup'[k].on = m \/ (Reads(lookup[k]) /\ lookup'[k].on = lookup[k].on)
    BY <1>4 DEF Sound, TypeOK
  <1>7. "lyrics" \in Marks /\ t.stale \in BOOLEAN /\ UpToDate(m)
    BY <1>1 DEF Marks, Threads, Agree, BusyAgree, Reads
  <1>8. Save(m, t.stale, new, "lyrics", saved[m])
    BY <1>4
  <1> HIDE DEF new
  <1> QED
    BY <1>1, <1>2, <1>5, <1>6, <1>7, <1>8, SaveAgrees

LEMMA KeepAgrees ==
    ASSUME Sound, Sound', Agree, NEW m \in Items, UpToDate(m), UNCHANGED <<memory, answered>>,
           \A n \in Items : saved'[n].there = saved[n].there /\ saved'[n].entry = saved[n].entry,
           \A k \in Lookups : Reads(lookup'[k]) =>
              lookup'[k].on = m \/ (Reads(lookup[k]) /\ lookup'[k].on = lookup[k].on)
    PROVE  Agree'
  <1>1. Recorded(m)
    BY DEF Agree, MarksAgree
  <1>2. OnlyAbout(m)
    BY DEF OnlyAbout
  <1>3. Recorded(m)' /\ UpToDate(m)'
    BY <1>1 DEF Recorded, UpToDate
  <1> QED
    BY <1>2, <1>3, OneItemAgrees

LEMMA KeepLyricsAgrees ==
    ASSUME Sound, Sound', Agree, NEW l \in Lookups, KeepLyrics(l) PROVE Agree'
  <1> DEFINE t == lookup[l]
             m == t.on
             after == IF m \in Files THEN Idle ELSE Free(t, "artwork")
  <1>1. t \in Threads /\ Fair(t) /\ t.at = "keep" /\ m # Nothing /\ m \in Items
    BY DEF KeepLyrics, At, Sound, TypeOK, Shape, Fair, Threads
  <1>2. after \in Threads /\ (after.on = m \/ ~Reads(after))
    <2>1. Idle \in Threads /\ ~Reads(Idle)
      BY IdleIsFair DEF Reads, Idle
    <2> QED
      BY <1>1, <2>1, FreeIsFair
  <1>3. \/ /\ saved' = saved \/ \E words : saved' = [saved EXCEPT ![m].words = words]
           /\ Goes(l, after) /\ UNCHANGED <<memory, answered>>
        \/ m \in Files /\ \E content : WriteBack(l, content, after)
    BY DEF KeepLyrics
  <1> HIDE DEF after
  <1>4. CASE /\ saved' = saved \/ \E words : saved' = [saved EXCEPT ![m].words = words]
             /\ Goes(l, after) /\ UNCHANGED <<memory, answered>>
    <2>1. \A n \in Items : saved'[n].there = saved[n].there /\ saved'[n].entry = saved[n].entry
      <3>1. CASE saved' = saved
        BY <3>1
      <3>2. CASE \E words : saved' = [saved EXCEPT ![m].words = words]
        <4>1. PICK words : saved' = [saved EXCEPT ![m] = [saved[m] EXCEPT !.words = words]]
          BY <3>2
        <4> QED
          BY <1>1, <4>1 DEF Sound, TypeOK, OnDisk
      <3> QED
        BY <1>4, <3>1, <3>2
    <2>0. Goes(l, after) /\ memory' = memory /\ answered' = answered
      BY <1>4
    <2>2. \A k \in Lookups : Reads(lookup'[k]) =>
             lookup'[k].on = m \/ (Reads(lookup[k]) /\ lookup'[k].on = lookup[k].on)
      BY <1>2, <2>0, GoesReads
    <2>3. UpToDate(m)
      BY <1>1 DEF Agree, BusyAgree, Reads
    <2> QED
      BY <1>1, <2>0, <2>1, <2>2, <2>3, KeepAgrees
  <1>5. CASE m \in Files /\ \E content : WriteBack(l, content, after)
    BY <1>2, <1>5, WriteBackAgrees
  <1> QED
    BY <1>3, <1>4, <1>5

LEMMA EditAgrees == ASSUME Sound, Sound', Agree, NEW f \in Files, Edit(f) PROVE Agree'
  <1>1. PICK content \in Contents : Change(f, content)
    BY DEF Edit
  <1>2. \A k \in Lookups : Reads(lookup'[k]) =>
             lookup'[k].on = f \/ (Reads(lookup[k]) /\ lookup'[k].on = lookup[k].on)
    BY OutdatedReads DEF Edit
  <1> QED
    BY <1>1, <1>2, ChangeAgrees

LEMMA RestartAgrees == ASSUME Sound, Agree, Restart PROVE Agree'
  <1>1. ~Reads(Idle)
    BY DEF Reads, Idle
  <1> QED
    BY <1>1, EmptyIsTyped DEF Agree, MarksAgree, BusyAgree, Recorded, Restart

LEMMA StepAgrees == ASSUME Sound, Agree, [Next]_vars PROVE Agree'
  <1>0. Sound'
    BY StepIsSound
  <1>1. CASE \E l \in Lookups : Play(l) \/ Step(l)
    BY <1>0, <1>1, PlayAgrees, ReadFactsAgrees, SettleFactsAgrees, ResolveAgrees, IdentifyAgrees,
       MatchAgrees, ReadCoverAgrees, ReceiveCoverAgrees, ReadLyricsAgrees, ReceiveLyricsAgrees,
       KeepLyricsAgrees DEF Step
  <1>2. CASE \E f \in Files : Edit(f)
    BY <1>0, <1>2, EditAgrees
  <1>3. CASE Restart
    BY <1>3, RestartAgrees
  <1>4. CASE UNCHANGED vars
    BY <1>4 DEF vars, Agree, MarksAgree, BusyAgree, Recorded, UpToDate
  <1> QED
    BY <1>1, <1>2, <1>3, <1>4 DEF Next

LEMMA InitAgrees == Init => Agree
  BY EmptyIsTyped DEF Init, Agree, MarksAgree, BusyAgree, Recorded, Reads, Idle

-----------------------------------------------------------------------------
(* What a thread asks.                                                     *)

LEMMA StayingAsksNothing ==
    ASSUME NEW l \in Lookups, lookup'[l].at = lookup[l].at \/ lookup'[l].at = "idle"
                              \/ lookup[l].at \notin {"metadata", "resolve", "artwork", "lyrics"}
    PROVE  Asks(l) = {}
  BY DEF Asks

LEMMA OneThreadMoves ==
    ASSUME Sound, NEW k \in Lookups, Play(k) \/ Step(k), NEW l \in Lookups, l # k
    PROVE  lookup'[l].at = lookup[l].at
  <1>1. (\E t : Goes(k, t)) \/ (lookup[k].on \in Files /\ \E content, after : WriteBack(k, content, after))
    <2>1. CASE Play(k)
      BY <2>1 DEF Play, PlayFile, PlayStream
    <2>2. CASE ReadFacts(k) \/ Match(k)
      BY <2>2 DEF ReadFacts, Match
    <2>3. CASE Resolve(k) \/ Identify(k)
      BY <2>3 DEF Resolve, Identify, Answer
    <2>4. CASE ReadCover(k)
      BY <2>4 DEF ReadCover
    <2>5. CASE ReadLyrics(k)
      BY <2>5 DEF ReadLyrics
    <2>6. CASE ReceiveCover(k)
      BY <2>6 DEF ReceiveCover
    <2>7. CASE ReceiveLyrics(k)
      BY <2>7 DEF ReceiveLyrics
    <2>8. CASE KeepLyrics(k)
      BY <2>8 DEF KeepLyrics
    <2>9. CASE SettleFacts(k)
      <3>1. lookup[k].on \in Files
        BY <2>9 DEF SettleFacts, At, Sound, Shape, Fair
      <3> QED
        BY <2>9, <3>1 DEF SettleFacts
    <2> QED
      BY <2>1, <2>2, <2>3, <2>4, <2>5, <2>6, <2>7, <2>8, <2>9 DEF Step
  <1>2. CASE \E t : Goes(k, t)
    BY <1>2 DEF Goes, Sound, TypeOK
  <1>3. CASE lookup[k].on \in Files /\ \E content, after : WriteBack(k, content, after)
    BY <1>3, OutdatedIsFair DEF WriteBack, Sound
  <1> QED
    BY <1>1, <1>2, <1>3

\* What l asks for now has not been answered.
AsksAnew(l) == \A mark \in Asks(l) : <<lookup[l].on, mark>> \notin answered

LEMMA ReadFactsAsksAnew ==
    ASSUME Sound, Agree, NEW l \in Lookups, ReadFacts(l) PROVE AsksAnew(l)
  <1> DEFINE t == lookup[l]
             e == ForFacts(t.on)
  <1>1. t \in Threads /\ t.at = "metadata" /\ t.on \in Items
    BY DEF ReadFacts, At, Sound, TypeOK, Shape, Fair, Items
  <1>2. \A mark \in Marks : <<t.on, mark>> \in answered => mark \in e.marks
    BY <1>1, ReadsAllMarks DEF ForFacts, Marks
  <1>3. Asks(l) \subseteq {"metadata"}
    BY <1>1 DEF Asks
  <1>4. CASE "metadata" \notin e.marks
    BY <1>2, <1>3, <1>4 DEF AsksAnew, Marks
  <1>5. CASE Goes(l, Free(t, "artwork"))
    <2>1. lookup'[l].at = "artwork"
      BY <1>1, <1>5 DEF Goes, Free, Threads, Sound, TypeOK
    <2> QED
      BY <1>1, <2>1 DEF AsksAnew, Asks
  <1> QED
    BY <1>4, <1>5 DEF ReadFacts

LEMMA ResolveAsksAnew ==
    ASSUME Sound, Agree, NEW l \in Lookups, Resolve(l) PROVE AsksAnew(l)
  <1> DEFINE t == lookup[l]
             e == ForIdentity(t.on)
  <1>1. t \in Threads /\ t.at = "resolve" /\ t.on \in Items
    BY DEF Resolve, At, Sound, TypeOK, Shape, Fair, Threads
  <1>2. \A mark \in Marks : <<t.on, mark>> \in answered => mark \in e.marks
    BY <1>1, ReadsAllMarks DEF ForIdentity, Marks
  <1>3. Asks(l) \subseteq {"identity"} /\ (fpcalc => Asks(l) = {})
    BY <1>1 DEF Asks
  <1>4. CASE ~("identity" \in e.marks /\ ~fpcalc)
    BY <1>2, <1>3, <1>4 DEF AsksAnew, Marks
  <1>5. ASSUME NEW who, Answer(l, who) PROVE AsksAnew(l)
    <2> DEFINE there == Onward(t, who)
               next == [t EXCEPT !.who = who, !.idStale = FALSE, !.at = there]
    <2>1. there # "identify"
      BY DEF Onward
    <2>2. next.at = there
      <3> HIDE DEF there
      <3> QED
        BY <1>1 DEF Threads
    <2>3. lookup' = [lookup EXCEPT ![l] = next]
      BY <1>5 DEF Answer, Goes
    <2>4. lookup'[l].at # "identify"
      <3> HIDE DEF next, there
      <3> QED
        BY <2>1, <2>2, <2>3 DEF Sound, TypeOK
    <2> QED
      BY <1>1, <2>4 DEF AsksAnew, Asks
  <1> QED
    BY <1>4, <1>5 DEF Resolve

LEMMA ReadCoverAsksAnew ==
    ASSUME Sound, Agree, NEW l \in Lookups, ReadCover(l) PROVE AsksAnew(l)
  <1> DEFINE t == lookup[l]
             e == ForFacts(t.on)
             onward == IF t.on \in Files THEN Free(t, "lyrics") ELSE Idle
  <1>1. t \in Threads /\ t.at = "artwork" /\ t.on \in Items
    BY DEF ReadCover, At, Sound, TypeOK, Shape, Fair, Threads
  <1>2. \A mark \in Marks : <<t.on, mark>> \in answered => mark \in e.marks
    BY <1>1, ReadsAllMarks DEF ForFacts, Marks
  <1>3. Asks(l) \subseteq {"cover"}
    BY <1>1 DEF Asks
  <1>4. CASE "cover" \notin e.marks
    BY <1>2, <1>3, <1>4 DEF AsksAnew, Marks
  <1>5. CASE Goes(l, onward)
    <2>1. onward.at \in {"lyrics", "idle"}
      BY <1>1 DEF Free, Idle, Threads
    <2>2. lookup'[l] = onward
      <3> HIDE DEF onward
      <3> QED
        BY <1>5 DEF Goes, Sound, TypeOK
    <2> HIDE DEF onward
    <2> QED
      BY <1>1, <2>1, <2>2 DEF AsksAnew, Asks
  <1> QED
    BY <1>4, <1>5 DEF ReadCover

LEMMA ReadLyricsAsksAnew ==
    ASSUME Sound, Agree, NEW l \in Lookups, ReadLyrics(l) PROVE AsksAnew(l)
  <1> DEFINE t == lookup[l]
             e == ForLyrics(t.on)
             onward == IF t.on \in Files THEN Idle ELSE Free(t, "artwork")
  <1>1. t \in Threads /\ t.at = "lyrics" /\ t.on \in Items
    BY DEF ReadLyrics, At, Sound, TypeOK, Shape, Fair, Threads
  <1>2. \A mark \in Marks : <<t.on, mark>> \in answered => mark \in e.marks
    <2>1. {"metadata", "identity", "lyrics"} \in SUBSET Marks
      BY DEF Marks
    <2> QED
      BY <1>1, <2>1, ReadsAllMarks DEF ForLyrics
  <1>3. Asks(l) \subseteq {"lyrics"}
    BY <1>1 DEF Asks
  <1>4. CASE "lyrics" \notin e.marks
    BY <1>2, <1>3, <1>4 DEF AsksAnew, Marks
  <1>5. CASE Goes(l, onward)
    <2>1. onward.at \in {"artwork", "idle"}
      BY <1>1 DEF Free, Idle, Threads
    <2>2. lookup'[l] = onward
      <3> HIDE DEF onward
      <3> QED
        BY <1>5 DEF Goes, Sound, TypeOK
    <2> HIDE DEF onward
    <2> QED
      BY <1>1, <2>1, <2>2 DEF AsksAnew, Asks
  <1> QED
    BY <1>4, <1>5 DEF ReadLyrics

LEMMA StepAsksAnew ==
    ASSUME Sound, Agree, [Next]_vars, NEW l \in Lookups PROVE AsksAnew(l)
  <1>1. ASSUME NEW k \in Lookups, Play(k) \/ Step(k), k # l PROVE AsksAnew(l)
    BY <1>1, OneThreadMoves, StayingAsksNothing DEF AsksAnew
  <1>2. CASE Play(l) \/ SettleFacts(l) \/ Identify(l) \/ Match(l) \/ ReceiveCover(l)
             \/ ReceiveLyrics(l) \/ KeepLyrics(l)
    <2>1. lookup[l].at \notin {"metadata", "resolve", "artwork", "lyrics"}
      BY <1>2 DEF Play, SettleFacts, Identify, Match, ReceiveCover, ReceiveLyrics, KeepLyrics, At
    <2> QED
      BY <2>1, StayingAsksNothing DEF AsksAnew
  <1>3. CASE ReadFacts(l) \/ Resolve(l) \/ ReadCover(l) \/ ReadLyrics(l)
    BY <1>3, ReadFactsAsksAnew, ResolveAsksAnew, ReadCoverAsksAnew, ReadLyricsAsksAnew
  <1>4. ASSUME NEW f \in Files, Edit(f) PROVE AsksAnew(l)
    <2>1. lookup'[l].at = lookup[l].at
      BY <1>4, OutdatedIsFair DEF Edit, Sound
    <2> QED
      BY <2>1, StayingAsksNothing DEF AsksAnew
  <1>5. CASE Restart
    <2>1. lookup'[l].at = "idle"
      BY <1>5 DEF Restart, Idle
    <2> QED
      BY <2>1, StayingAsksNothing DEF AsksAnew
  <1>6. CASE UNCHANGED vars
    BY <1>6, StayingAsksNothing DEF AsksAnew, vars
  <1> QED
    BY <1>1, <1>2, <1>3, <1>4, <1>5, <1>6 DEF Next, Step

\* No service is asked for what it has answered for the same state of an item, however
\* often the providers read the entry over the one in memory and whenever the program is
\* restarted (metadata_provider.cpp, runtime_cache_store.cpp).
THEOREM NothingIsAskedTwice == Spec => AnsweredIsNotAsked
  <1>1. Spec => [](Sound /\ Agree)
    <2>1. Init => Sound /\ Agree
      BY InitIsSound, InitAgrees
    <2>2. Sound /\ Agree /\ [Next]_vars => (Sound /\ Agree)'
      BY StepIsSound, StepAgrees
    <2> QED
      BY <2>1, <2>2, PTL DEF Spec
  <1>2. Sound /\ Agree /\ [Next]_vars =>
           [\A l \in Lookups : ({lookup[l].on} \X Asks(l)) \cap answered = {}]_vars
    <2> SUFFICES ASSUME Sound, Agree, [Next]_vars, NEW l \in Lookups
                 PROVE  ({lookup[l].on} \X Asks(l)) \cap answered = {}
      OBVIOUS
    <2> QED
      BY StepAsksAnew DEF AsksAnew
  <1> QED
    BY <1>1, <1>2, PTL DEF Spec, AnsweredIsNotAsked

-----------------------------------------------------------------------------
(* Tags that fit.                                                          *)

\* The clash a thread that looks for facts has seen is still there while its key is.
Seen(t) == HoldsFacts(t) /\ ~t.stale /\ t.clash => file[t.on].tags \in {"none", "clash"}
ClashSeen == \A l \in Lookups : Seen(lookup[l])

LEMMA OutdatedForgets ==
    ASSUME Sound, NEW f \in Files, NEW k \in Lookups
    PROVE  \/ Outdated(f, k).stale
           \/ Outdated(f, k) = lookup[k] /\ (lookup[k].on # f \/ ~HoldsFacts(lookup[k]))
  <1> DEFINE t == lookup[k]
             held == IF HoldsFacts(t) THEN memory[f].facts
                     ELSE IF t.at = "keep" THEN memory[f].words ELSE "none"
             outdated == [t EXCEPT !.stale = TRUE, !.old = IF t.stale THEN @ ELSE held,
                                   !.idStale = @ \/ t.at = "identify"]
  <1>1. outdated.stale
    BY DEF Sound, TypeOK, Threads
  <1>2. Outdated(f, k) = IF t.on = f /\ t.at \notin {"metadata", "artwork", "lyrics"}
                         THEN outdated ELSE t
    BY DEF Outdated
  <1> HIDE DEF outdated
  <1> QED
    BY <1>1, <1>2 DEF HoldsFacts

LEMMA ChangeSeen ==
    ASSUME Sound, ClashSeen, NEW f \in Files, NEW content, Change(f, content), NEW k \in Lookups,
           lookup'[k] = Outdated(f, k)
    PROVE  Seen(lookup[k])'
  <1>1. Seen(lookup[k]) /\ lookup[k] \in Threads /\ Fair(lookup[k])
    BY DEF ClashSeen, Sound, TypeOK, Shape
  <1>2. \A g \in Files : g # f => file'[g] = file[g]
    BY DEF Change, Sound, TypeOK
  <1>3. CASE Outdated(f, k).stale
    BY <1>3 DEF Seen
  <1>4. CASE Outdated(f, k) = lookup[k] /\ (lookup[k].on # f \/ ~HoldsFacts(lookup[k]))
    BY <1>1, <1>2, <1>4 DEF Seen, Fair, HoldsFacts
  <1> QED
    BY <1>3, <1>4, OutdatedForgets

LEMMA WriteBackSeen ==
    ASSUME Sound, ClashSeen, NEW l \in Lookups, lookup[l].on \in Files, NEW content, NEW after,
           ~HoldsFacts(after), WriteBack(l, content, after)
    PROVE  ClashSeen'
  <1> DEFINE f == lookup[l].on
  <1>1. Change(f, content) /\ lookup' = [k \in Lookups |-> IF k = l THEN after ELSE Outdated(f, k)]
    BY DEF WriteBack
  <1>2. ASSUME NEW k \in Lookups PROVE Seen(lookup[k])'
    <2>1. CASE k = l
      BY <1>1, <2>1 DEF Seen, HoldsFacts
    <2>2. CASE k # l
      BY <1>1, <2>2, ChangeSeen
    <2> QED
      BY <2>1, <2>2
  <1> QED
    BY <1>2 DEF ClashSeen

LEMMA GoesSeen ==
    ASSUME Sound, ClashSeen, NEW l \in Lookups, NEW t, Seen(t), Goes(l, t), UNCHANGED file
    PROVE  ClashSeen'
  BY DEF Sound, TypeOK, ClashSeen, Seen, Goes

LEMMA AnswerSeen ==
    ASSUME Sound, ClashSeen, NEW l \in Lookups, NEW who, Answer(l, who), UNCHANGED file,
           lookup[l].at \in {"resolve", "identify"}
    PROVE  ClashSeen'
  <1> DEFINE t == lookup[l]
             there == Onward(t, who)
             next == [t EXCEPT !.who = who, !.idStale = FALSE, !.at = there]
  <1>1. t \in Threads /\ Seen(t)
    BY DEF ClashSeen, Sound, TypeOK
  <1>2. there \in {"settle", "match"} => t.then = "settle"
    BY <1>1 DEF Onward, Threads
  <1>3. /\ next.at = there /\ next.then = t.then /\ next.stale = t.stale /\ next.on = t.on
        /\ next.clash = t.clash
    <2> HIDE DEF there
    <2> QED
      BY <1>1 DEF Threads
  <1>4. Seen(next)
    <2> HIDE DEF next, there
    <2> QED
      BY <1>1, <1>2, <1>3 DEF Seen, HoldsFacts
  <1>5. Goes(l, next)
    BY DEF Answer
  <1> HIDE DEF next
  <1> QED
    BY <1>4, <1>5, GoesSeen

LEMMA ReadFactsSeen == ASSUME Sound, ClashSeen, NEW l \in Lookups, ReadFacts(l) PROVE ClashSeen'
  <1> DEFINE t == lookup[l]
             e == ForFacts(t.on)
             clash == Clashes(t.on, e)
             asking == [t EXCEPT !.at = "resolve", !.clash = clash]
  <1>1. t \in Threads /\ Fair(t) /\ t.on \in Files /\ t.on \in Items
    BY DEF ReadFacts, At, Sound, TypeOK, Shape, Fair, Items
  <1>2. clash => file[t.on].tags \in {"none", "clash"}
    <2>1. file[t.on].tags \in Facts
      BY <1>1 DEF Sound, TypeOK, Tags
    <2> QED
      BY <2>1 DEF Clashes, Replaced, Filled, Facts
  <1>3. Seen(asking)
    <2>1. asking.on = t.on /\ asking.clash = clash
      <3> HIDE DEF clash
      <3> QED
        BY <1>1 DEF Threads
    <2> HIDE DEF asking, clash
    <2> QED
      BY <1>2, <2>1 DEF Seen
  <1>4. Seen(Free(t, "artwork"))
    BY <1>1 DEF Seen, HoldsFacts, Free, Threads
  <1>5. (Goes(l, asking) \/ Goes(l, Free(t, "artwork"))) /\ UNCHANGED file
    BY DEF ReadFacts
  <1> HIDE DEF asking
  <1> QED
    BY <1>3, <1>4, <1>5, GoesSeen

LEMMA MatchSeen == ASSUME Sound, ClashSeen, NEW l \in Lookups, Match(l) PROVE ClashSeen'
  <1> DEFINE t == lookup[l]
  <1>1. t \in Threads /\ Fair(t) /\ Seen(t) /\ t.at = "match" /\ UNCHANGED file
    BY DEF Match, At, ClashSeen, Sound, TypeOK, Shape
  <1>2. PICK who : Goes(l, [t EXCEPT !.at = "settle", !.who = who])
    BY DEF Match
  <1> DEFINE next == [t EXCEPT !.at = "settle", !.who = who]
  <1>3. Seen(next)
    BY <1>1 DEF Seen, HoldsFacts, Threads, Fair
  <1> HIDE DEF next
  <1> QED
    BY <1>1, <1>2, <1>3, GoesSeen DEF next

LEMMA SettleFactsSeen == ASSUME Sound, ClashSeen, NEW l \in Lookups, SettleFacts(l) PROVE ClashSeen'
  <1> DEFINE t == lookup[l]
             after == [Free(t, "artwork") EXCEPT !.who = Unknown]
  <1>1. t \in Threads /\ t.on \in Files
    BY DEF SettleFacts, At, Sound, TypeOK, Shape, Fair
  <1>2. ~HoldsFacts(after)
    BY <1>1 DEF HoldsFacts, Free, Threads
  <1>3. (Goes(l, after) /\ UNCHANGED file) \/ \E content : WriteBack(l, content, after)
    BY DEF SettleFacts
  <1> HIDE DEF after
  <1>4. Seen(after)
    BY <1>2 DEF Seen
  <1> QED
    BY <1>1, <1>2, <1>3, <1>4, GoesSeen, WriteBackSeen

\* The other steps leave a thread where it holds no facts.
LEMMA OtherStepsSeen ==
    ASSUME Sound, ClashSeen, NEW l \in Lookups,
           ReadCover(l) \/ ReceiveCover(l) \/ ReadLyrics(l) \/ ReceiveLyrics(l) \/ KeepLyrics(l)
    PROVE  ClashSeen'
  <1> DEFINE t == lookup[l]
  <1>1. t \in Threads
    BY DEF Sound, TypeOK
  <1>2. \A place \in {"artwork", "lyrics"} : ~HoldsFacts(Free(t, place))
    BY <1>1 DEF HoldsFacts, Free, Threads
  <1>3. ~HoldsFacts(Idle)
    BY DEF HoldsFacts, Idle
  <1>4. ASSUME NEW place \in {"cover", "keep"}, NEW old PROVE ~HoldsFacts([t EXCEPT !.at = place, !.old = old])
    BY <1>1 DEF HoldsFacts, Threads
  <1>5. ~HoldsFacts([t EXCEPT !.at = "cover"])
    BY <1>1 DEF HoldsFacts, Threads
  <1>6. ASSUME NEW place, NEW who, NEW clash
        PROVE  ~HoldsFacts([t EXCEPT !.at = place, !.who = who, !.clash = clash, !.then = "words"])
    BY <1>1 DEF HoldsFacts, Threads
  <1>7. \/ UNCHANGED file /\ \E next : ~HoldsFacts(next) /\ Goes(l, next)
        \/ t.on \in Files /\ \E content, after : ~HoldsFacts(after) /\ WriteBack(l, content, after)
    <2>1. CASE ReadCover(l)
      BY <2>1, <1>2, <1>3, <1>5 DEF ReadCover
    <2>2. CASE ReceiveCover(l)
      BY <2>2, <1>2, <1>3 DEF ReceiveCover
    <2>3. CASE ReadLyrics(l)
      BY <2>3, <1>2, <1>3, <1>6 DEF ReadLyrics
    <2>4. CASE ReceiveLyrics(l)
      BY <2>4, <1>2, <1>3, <1>4 DEF ReceiveLyrics
    <2>5. CASE KeepLyrics(l)
      BY <2>5, <1>2, <1>3 DEF KeepLyrics
    <2> QED
      BY <2>1, <2>2, <2>3, <2>4, <2>5
  <1>8. CASE UNCHANGED file /\ \E next : ~HoldsFacts(next) /\ Goes(l, next)
    BY <1>8, GoesSeen DEF Seen
  <1>9. CASE t.on \in Files /\ \E content, after : ~HoldsFacts(after) /\ WriteBack(l, content, after)
    BY <1>9, WriteBackSeen
  <1> QED
    BY <1>7, <1>8, <1>9

LEMMA StepSeen == ASSUME Sound, ClashSeen, [Next]_vars PROVE ClashSeen'
  <1>1. ASSUME NEW l \in Lookups, Play(l) PROVE ClashSeen'
    <2>1. \A m : Seen([Idle EXCEPT !.at = "metadata", !.on = m])
      BY DEF Seen, Idle
    <2>2. \A m : Seen([Idle EXCEPT !.at = "resolve", !.on = m, !.then = "stream"])
      BY DEF Seen, Idle
    <2>3. UNCHANGED file /\ \E next : Seen(next) /\ Goes(l, next)
      BY <1>1, <2>1, <2>2 DEF Play, PlayFile, PlayStream
    <2> QED
      BY <2>3, GoesSeen
  <1>2. ASSUME NEW l \in Lookups, Resolve(l) PROVE ClashSeen'
    <2> DEFINE t == lookup[l]
    <2>1. t \in Threads /\ Seen(t) /\ t.at = "resolve" /\ UNCHANGED file
      BY <1>2 DEF Resolve, At, Sound, TypeOK, ClashSeen
    <2>2. Seen([t EXCEPT !.at = "identify"])
      BY <2>1 DEF Seen, HoldsFacts, Threads
    <2>3. (\E who : Answer(l, who)) \/ Goes(l, [t EXCEPT !.at = "identify"])
      BY <1>2 DEF Resolve
    <2> QED
      BY <2>1, <2>2, <2>3, AnswerSeen, GoesSeen
  <1>3. ASSUME NEW l \in Lookups, Identify(l) PROVE ClashSeen'
    <2>1. (\E who : Answer(l, who)) /\ UNCHANGED file /\ lookup[l].at = "identify"
      BY <1>3 DEF Identify, At
    <2> QED
      BY <2>1, AnswerSeen
  <1>4. ASSUME NEW l \in Lookups, Step(l) PROVE ClashSeen'
    BY <1>2, <1>3, <1>4, ReadFactsSeen, MatchSeen, SettleFactsSeen, OtherStepsSeen DEF Step
  <1>5. ASSUME NEW f \in Files, Edit(f) PROVE ClashSeen'
    BY <1>5, ChangeSeen DEF Edit, ClashSeen
  <1>6. CASE Restart
    BY <1>6 DEF Restart, ClashSeen, Seen, HoldsFacts, Idle
  <1>7. CASE UNCHANGED vars
    BY <1>7 DEF vars, ClashSeen, Seen
  <1> QED
    BY <1>1, <1>4, <1>5, <1>6, <1>7 DEF Next

LEMMA InitSeen == Init => ClashSeen
  BY DEF Init, ClashSeen, Seen, HoldsFacts, Idle

LEMMA SettleKeepsFitting ==
    ASSUME Sound, ClashSeen, NEW l \in Lookups, SettleFacts(l), ~lookup[l].stale,
           file[lookup[l].on].tags \in {"guess", "fit"}
    PROVE  file'[lookup[l].on].tags \in {file[lookup[l].on].tags, "fit"}
  <1> DEFINE t == lookup[l]
             known == IF t.stale THEN t.old ELSE memory[t.on].facts
             e == [memory[t.on] EXCEPT !.facts = known]
             facts == IF t.clash THEN t.who.text ELSE Filled(e.facts, t.who.text)
             ids == e.ids \/ t.who.ids
             settled == IF IsKnown(t.who) THEN [e EXCEPT !.facts = facts, !.ids = ids] ELSE e
             after == [Free(t, "artwork") EXCEPT !.who = Unknown]
             content == [file[t.on] EXCEPT !.tags = Rewritten(t, settled.facts)]
  <1>1. t \in Threads /\ Fair(t) /\ t.at = "settle" /\ t.on \in Files /\ t.on \in Items
        /\ HoldsFacts(t)
    BY DEF SettleFacts, At, Sound, TypeOK, Shape, Fair, Items, HoldsFacts
  <1>2. ~t.clash
    BY <1>1 DEF ClashSeen, Seen
  <1>3. settled.facts \in Facts
    <2>1. memory[t.on] \in Entries /\ known \in Facts
      BY <1>1 DEF Fair, Sound, TypeOK, Entries
    <2>2. e \in Entries
      <3> HIDE DEF known
      <3> QED
        BY <2>1 DEF Entries
    <2>3. facts \in Facts /\ ids \in BOOLEAN
      <3> HIDE DEF e
      <3> QED
        BY <1>1, <2>2, FilledIsFacts DEF Entries, Threads, Identities
    <2> HIDE DEF e, facts, ids
    <2> QED
      BY <2>2, <2>3 DEF Entries
  <1>4. UNCHANGED file \/ WriteBack(l, content, after)
    BY DEF SettleFacts
  <1> HIDE DEF settled, after
  <1>5. CASE WriteBack(l, content, after)
    <2>1. content.tags \in {file[t.on].tags, "fit"}
      BY <1>1, <1>2, <1>3, FilledKeepsFitting DEF Rewritten, Sound, TypeOK, Tags
    <2> HIDE DEF content
    <2>2. file'[t.on] = content
      BY <1>1, <1>5 DEF WriteBack, Change, Sound, TypeOK
    <2> QED
      BY <2>1, <2>2
  <1> QED
    BY <1>4, <1>5

LEMMA OnlySettlingSettles ==
    ASSUME Sound, NEW l \in Lookups, [Next]_vars,
           lookup[l].at = "settle", lookup'[l].at = "artwork"
    PROVE  SettleFacts(l)
  <1>1. ASSUME NEW k \in Lookups, Play(k) \/ Step(k), k # l PROVE FALSE
    BY <1>1, OneThreadMoves
  <1>2. Play(l) \/ Step(l) => SettleFacts(l)
    BY DEF Play, Step, ReadFacts, Resolve, Identify, Match, ReadCover, ReceiveCover, ReadLyrics,
           ReceiveLyrics, KeepLyrics, At
  <1>3. ASSUME NEW f \in Files, Edit(f) PROVE FALSE
    BY <1>3, OutdatedIsFair DEF Edit, Sound
  <1>4. ~Restart
    BY DEF Restart, Idle
  <1>5. ~UNCHANGED vars
    BY DEF vars
  <1> QED
    BY <1>1, <1>2, <1>3, <1>4, <1>5 DEF Next

\* Facts are written into a file whose tags fit its name only to complete them, unless the
\* file was changed while they were looked for (metadata_provider.cpp, tag_writer.py).
THEOREM FittingTagsAreKept == Spec => FittingTagsStay
  <1>1. Spec => [](Sound /\ ClashSeen)
    <2>1. Init => Sound /\ ClashSeen
      BY InitIsSound, InitSeen
    <2>2. Sound /\ ClashSeen /\ [Next]_vars => (Sound /\ ClashSeen)'
      BY StepIsSound, StepSeen
    <2> QED
      BY <2>1, <2>2, PTL DEF Spec
  <1>2. Sound /\ ClashSeen /\ [Next]_vars =>
           [\A l \in Lookups : LET t == lookup[l] IN
              t.at = "settle" /\ lookup'[l].at = "artwork" /\ ~t.stale
                 /\ file[t.on].tags \in {"guess", "fit"}
              => file'[t.on].tags \in {file[t.on].tags, "fit"}]_vars
    <2> SUFFICES ASSUME Sound, ClashSeen, [Next]_vars, NEW l \in Lookups,
                        lookup[l].at = "settle", lookup'[l].at = "artwork", ~lookup[l].stale,
                        file[lookup[l].on].tags \in {"guess", "fit"}
                 PROVE  file'[lookup[l].on].tags \in {file[lookup[l].on].tags, "fit"}
      OBVIOUS
    <2> QED
      BY OnlySettlingSettles, SettleKeepsFitting
  <1> QED
    BY <1>1, <1>2, PTL DEF Spec, FittingTagsStay
=============================================================================
