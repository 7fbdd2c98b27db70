---------------------------- MODULE AppPagesProofs ---------------------------
(***************************************************************************)
(* Proofs about AppPages, for any kinds of source and any bounds that      *)
(* satisfy PagesAssumption.  The stack of pages (Editing) and the lists of *)
(* sources (Lists) are two invariants that need little of each other.      *)
(***************************************************************************)
EXTENDS AppPages, WellFoundedInduction, SequenceTheorems, TLAPS

Lefts == [scans : Nat, commands : Nat, removed : BOOLEAN, fresh : BOOLEAN]

Sources == Kinds \X (Nat \ {0})

TypeOK ==
    /\ stack \in Seq(Pages) /\ stack # <<>>
    /\ profiles \in Seq(Sources) /\ selected \in Nat
    /\ home \in Sources \cup {NoSource}
    /\ library \in {"none", "loading", "scanned", "ready"}
    /\ animated \in BOOLEAN /\ opening \in Requests
    /\ stored \in Seq(Sources)
    /\ command \in [at : {"idle", "read"}, list : Seq(Sources)]
    /\ left \in Lefts

\* The field editor lies on top of some page or nowhere.
EditorIsOnTop == \A i \in 1..Len(stack) : stack[i] = "editor" => i = Len(stack) /\ i > 1

\* An address is tried by the first frame, before any key is answered.
AddressComesFirst == opening = "address" => stack = <<"boot">>

Editing == EditorIsOnTop /\ AddressComesFirst /\ EditorKnowsItsSource

Numbered(list) == \A i \in DOMAIN list : list[i][2] = i

ListsNumbered ==
    ~left.removed => Numbered(profiles) /\ Numbered(stored) /\ Numbered(command.list)

Lists == MemoryCoversTheFile /\ ListsNumbered

IInv == TypeOK /\ Editing /\ Lists

-----------------------------------------------------------------------------
(* Sequences. *)

LEMMA PushedFacts ==
    ASSUME NEW S, NEW s \in Seq(S), NEW x \in S
    PROVE  /\ Append(s, x) \in Seq(S) /\ Append(s, x) # <<>>
           /\ Len(Append(s, x)) = Len(s) + 1 /\ Last(Append(s, x)) = x
           /\ DOMAIN Append(s, x) = 1..(Len(s) + 1) /\ DOMAIN s = 1..Len(s) /\ Len(s) \in Nat
           /\ \A i \in 1..Len(s) : Append(s, x)[i] = s[i]
           /\ Append(s, x)[Len(s) + 1] = x
  BY DEF Last

LEMMA FrontFacts ==
    ASSUME NEW S, NEW s \in Seq(S), Len(s) > 1
    PROVE  /\ Front(s) \in Seq(S) /\ Front(s) # <<>> /\ Len(Front(s)) = Len(s) - 1
           /\ \A i \in 1..(Len(s) - 1) : Front(s)[i] = s[i]
           /\ Last(Front(s)) = s[Len(s) - 1]
<1>1. Len(s) \in Nat /\ \A i \in 1..(Len(s) - 1) : s[i] \in S
  OBVIOUS
<1>2. /\ Front(s) \in Seq(S) /\ Len(Front(s)) = Len(s) - 1
      /\ \A i \in 1..(Len(s) - 1) : Front(s)[i] = s[i]
  BY <1>1, SubSeqProperties DEF Front
<1> QED
  BY <1>1, <1>2 DEF Last

LEMMA RemovedFacts ==
    ASSUME NEW S, NEW s \in Seq(S), NEW i \in DOMAIN s
    PROVE  RemoveAt(s, i) \in Seq(S)
  BY DEF RemoveAt

\* What SelectInSeq returns is an index or 0.
LEMMA MinIsIn == ASSUME NEW I \in SUBSET Nat, I # {} PROVE Min(I) \in I
<1> DEFINE Less == OpToRel(<, Nat)
<1>1. \A x, y \in Nat : y < x => <<y, x>> \in Less
  BY DEF OpToRel
<1>2. IsWellFoundedOn(Less, Nat)
  BY NatLessThanWellFounded
<1> HIDE DEF Less
<1>3. PICK x \in I : \A y \in I : ~(<<y, x>> \in Less)
  BY <1>2, WFMin
<1>4. ASSUME NEW y \in I PROVE x =< y
  <2>1. x \in Nat /\ y \in Nat
    OBVIOUS
  <2>2. ~(y < x)
    BY <1>1, <1>3, <2>1
  <2> QED
    BY <2>1, <2>2
<1> QED
  BY <1>4, Zenon DEF Min

-----------------------------------------------------------------------------
(* The stack of pages. *)

\* Every way to move between pages but the field editor.
Moves ==
    \/ Page # "editor" /\ \E page \in Pages \ {"editor"} : stack' = Append(stack, page)
    \/ Len(stack) > 1 /\ stack' = Front(stack)
    \/ stack' = stack
    \/ stack' \in {<<"menu">>, <<"menu", "other">>}

LEMMA MovedFacts ==
    ASSUME TypeOK, EditorIsOnTop, Moves
    PROVE  /\ stack' \in Seq(Pages) /\ stack' # <<>> /\ EditorIsOnTop'
           /\ Page' = "editor" => stack' = stack /\ Page = "editor"
<1>1. stack \in Seq(Pages) /\ stack # <<>> /\ {"menu", "other"} \subseteq Pages
  BY DEF TypeOK, Pages
<1>2. CASE Page # "editor" /\ \E page \in Pages \ {"editor"} : stack' = Append(stack, page)
  <2>1. PICK page \in Pages \ {"editor"} : stack' = Append(stack, page)
    BY <1>2
  <2>2. /\ stack' \in Seq(Pages) /\ stack' # <<>> /\ Len(stack') = Len(stack) + 1
        /\ Page' = page /\ Len(stack) \in Nat
        /\ \A i \in 1..Len(stack) : stack'[i] = stack[i]
    BY <1>1, <2>1, PushedFacts DEF Page
  <2>3. EditorIsOnTop'
    BY <1>2, <2>2 DEF EditorIsOnTop, Page, Last
  <2> QED
    BY <2>2, <2>3
<1>3. CASE Len(stack) > 1 /\ stack' = Front(stack)
  <2>1. /\ stack' \in Seq(Pages) /\ stack' # <<>> /\ Len(stack') = Len(stack) - 1
        /\ \A i \in 1..(Len(stack) - 1) : stack'[i] = stack[i]
        /\ Page' = stack[Len(stack) - 1]
    BY <1>1, <1>3, FrontFacts DEF Page
  <2> QED
    BY <1>1, <1>3, <2>1 DEF EditorIsOnTop
<1>4. CASE stack' = stack
  BY <1>1, <1>4 DEF EditorIsOnTop, Page
<1>5. CASE stack' \in {<<"menu">>, <<"menu", "other">>}
  <2>1. /\ Len(<<"menu">>) = 1 /\ Last(<<"menu">>) = "menu"
        /\ Len(<<"menu", "other">>) = 2 /\ Last(<<"menu", "other">>) = "other"
        /\ <<"menu", "other">>[1] = "menu"
    BY DEF Last
  <2>2. <<"menu">> \in Seq(Pages) /\ <<"menu", "other">> \in Seq(Pages)
    BY <1>1
  <2>3. CASE stack' = <<"menu">>
    BY <2>1, <2>2, <2>3 DEF EditorIsOnTop, Page
  <2>4. CASE stack' = <<"menu", "other">>
    <3>1. \A i \in 1..Len(stack') : i = 1 \/ i = 2
      BY <2>1, <2>4
    <3>2. EditorIsOnTop'
      BY <2>1, <2>4, <3>1 DEF EditorIsOnTop
    <3> QED
      BY <2>1, <2>2, <2>4, <3>2 DEF Page
  <2> QED
    BY <1>5, <2>3, <2>4
<1> QED
  BY <1>2, <1>3, <1>4, <1>5 DEF Moves

LEMMA OpensNoEditor ==
    /\ \A page \in Pages : Opens[page] \subseteq Pages \ {"editor"}
    /\ Opens["boot"] = {} /\ Opens["editor"] = {}
  BY DEF Opens, Pages

LEMMA PageIsOne == TypeOK => Page \in Pages /\ Len(stack) \in Nat \ {0} /\ Page = stack[Len(stack)]
  BY DEF TypeOK, Page, Last

\* A key that does not open the field editor moves between other pages.
LEMMA KeyMoves ==
    ASSUME TypeOK, EditorIsOnTop, User
    PROVE  /\ UNCHANGED boot /\ UNCHANGED command /\ Page # "boot"
           /\ \/ EditField
              \/ Moves /\ home' \in {home, NoSource} /\ (Page' # "editor")
<1> USE PageIsOne
<1>1. CASE Back \/ Home \/ Shortcut
  <2>1. Moves /\ UNCHANGED <<home, boot, disk>> /\ Page \notin {"boot", "editor"}
    BY <1>1 DEF Back, Home, Shortcut, Key, Pop, Push, Moves, Stays, Pages
  <2> QED
    BY <2>1, MovedFacts DEF disk
<1>2. CASE Open
  <2>1. PICK page \in Opens[Page] : Push(page)
    BY <1>2 DEF Open
  <2>2. Page \notin {"boot", "editor"} /\ page \in Pages \ {"editor"}
    BY <2>1, OpensNoEditor
  <2>3. Moves /\ UNCHANGED <<home, boot, disk>>
    BY <1>2, <2>1, <2>2 DEF Open, Push, Moves, Stays
  <2> QED
    BY <2>2, <2>3, MovedFacts DEF disk
<1>3. CASE Play \/ Browse \/ Setup
  <2>1. Moves /\ UNCHANGED <<home, boot, command>> /\ Page \notin {"boot", "editor"}
    BY <1>3 DEF Play, Browse, Setup, Key, Push, Moves, Stays, Pages, disk
  <2> QED
    BY <2>1, MovedFacts
<1>4. CASE ChooseKind \/ OnLostSource \/ NextSource
  <2>1. Moves /\ UNCHANGED <<home, boot, disk>> /\ Page \notin {"boot", "editor"}
    BY <1>4 DEF ChooseKind, OnLostSource, NextSource, NewSource, Settings, Key, Push, Moves, Stays, Pages
  <2> QED
    BY <2>1, MovedFacts DEF disk
<1>5. CASE EditField
  BY <1>5 DEF EditField, Key, disk
<1>6. CASE Save
  <2>1. Moves /\ Page = "profile" /\ UNCHANGED <<home, stack>>
    BY <1>6 DEF Save, Key, Moves, ui
  <2> QED
    BY <1>6, <2>1 DEF Save, Page
<1>7. CASE Commit
  <2>1. Page = "editor" /\ Len(stack) > 1
    BY <1>7 DEF Commit, Key, EditorIsOnTop
  <2>2. stack' = Front(stack) /\ home' = NoSource
    BY <1>7, <2>1 DEF Commit, Pop
  <2>3. stack # Front(stack)
    <3>1. Len(Front(stack)) = Len(stack) - 1
      BY <2>1, FrontFacts DEF TypeOK
    <3> QED
      BY <3>1
  <2>4. Page' # "editor"
    BY <2>1, <2>2, <2>3, MovedFacts DEF Moves
  <2> QED
    BY <1>7, <2>1, <2>2, <2>4 DEF Commit, Moves
<1> QED
  BY <1>1, <1>2, <1>3, <1>4, <1>5, <1>6, <1>7 DEF User

LEMMA EditorIsOpened ==
    ASSUME TypeOK, Editing, EditField
    PROVE  stack' \in Seq(Pages) /\ stack' # <<>> /\ Editing'
<1>1. stack \in Seq(Pages) /\ Page = "profile" /\ "editor" \in Pages /\ stack' = Append(stack, "editor")
  BY DEF TypeOK, EditField, Key, Push, Pages
<1>2. /\ stack' \in Seq(Pages) /\ stack' # <<>> /\ Len(stack') = Len(stack) + 1
      /\ \A i \in 1..Len(stack) : stack'[i] = stack[i]
  BY <1>1, PushedFacts
<1>3. \A i \in 1..Len(stack) : stack[i] # "editor"
  BY <1>1, PageIsOne DEF Editing, EditorIsOnTop
<1>4. EditorIsOnTop'
  BY <1>2, <1>3, PageIsOne DEF EditorIsOnTop
<1>5. EditorKnowsItsSource'
  BY DEF EditField, EditorKnowsItsSource
<1>6. Page # "boot" /\ opening' = opening
  BY <1>1 DEF EditField, boot
<1>7. opening # "address"
  BY <1>6 DEF Editing, AddressComesFirst, Page, Last
<1> QED
  BY <1>2, <1>4, <1>5, <1>6, <1>7 DEF Editing, AddressComesFirst

LEMMA FrameKeepsEditing ==
    ASSUME TypeOK, Editing, Frame
    PROVE  stack' \in Seq(Pages) /\ stack' # <<>> /\ Editing'
<1>1. LeaveBoot \in {<<"menu">>, stack}
  BY DEF LeaveBoot
<1>2. stack' \in {<<"menu">>, <<"menu", "other">>, stack}
  BY <1>1 DEF Frame
<1>3. stack' \in Seq(Pages) /\ stack' # <<>> /\ EditorIsOnTop'
      /\ (Page' = "editor" => stack' = stack /\ Page = "editor")
  BY <1>2, MovedFacts DEF Moves, Editing
<1>4. AddressComesFirst'
  BY DEF Frame, OpenRequest, AddressComesFirst
<1>5. EditorKnowsItsSource'
  <2>1. SUFFICES ASSUME Page' = "editor"
                 PROVE  (selected \in DOMAIN profiles /\ profiles[selected] = home)'
    BY DEF EditorKnowsItsSource
  <2>2. stack' = stack /\ Page = "editor" /\ stack' # <<"menu", "other">>
    BY <1>3, <2>1 DEF Page, Last
  <2>3. opening # "address"
    BY <2>2 DEF Editing, AddressComesFirst, Page, Last
  <2>4. UNCHANGED <<selected, home, profiles>>
    BY <2>2, <2>3 DEF Frame
  <2> QED
    BY <2>2, <2>4 DEF Editing, EditorKnowsItsSource
<1> QED
  BY <1>3, <1>4, <1>5 DEF Editing

LEMMA StepEditing ==
    ASSUME TypeOK, Editing, [Next]_vars
    PROVE  stack' \in Seq(Pages) /\ stack' # <<>> /\ Editing'
<1>1. CASE User
  <2>1. /\ opening' = opening /\ Page # "boot"
        /\ \/ EditField
           \/ Moves /\ Page' # "editor"
    BY <1>1, KeyMoves DEF Editing, boot
  <2>2. opening' # "address"
    BY <2>1 DEF Editing, AddressComesFirst, Page, Last
  <2>3. CASE Moves /\ Page' # "editor"
    BY <2>2, <2>3, MovedFacts DEF Editing, EditorKnowsItsSource, AddressComesFirst
  <2> QED
    BY <2>1, <2>3, EditorIsOpened
<1>2. CASE Frame
  BY <1>2, FrameKeepsEditing
<1>3. CASE ~User /\ ~Frame
  <2>1. UNCHANGED <<ui, opening>>
    BY <1>3 DEF Next, AnimationEnds, ScanEnds, ClientRefresh, CommandReads, CommandWrites, boot, disk, vars
  <2> QED
    BY <2>1 DEF ui, TypeOK, Editing, EditorIsOnTop, EditorKnowsItsSource, AddressComesFirst, Page
<1> QED
  BY <1>1, <1>2, <1>3

-----------------------------------------------------------------------------
(* The lists of sources. *)

\* What a new source does to a list.
LEMMA JoinedFacts ==
    ASSUME NEW list \in Seq(Sources), NEW kind \in Kinds
    PROVE  LET longer == Append(list, DefaultId(kind, Len(list)))
           IN  /\ longer \in Seq(Sources) /\ Len(longer) = Len(list) + 1
               /\ \A i \in 1..Len(list) : longer[i] = list[i]
               /\ Numbered(list) => Numbered(longer)
<1> DEFINE id == DefaultId(kind, Len(list))
<1>1. id \in Sources /\ id[2] = Len(list) + 1
  BY DEF DefaultId, Sources
<1> HIDE DEF id
<1>2. /\ Append(list, id) \in Seq(Sources) /\ Len(Append(list, id)) = Len(list) + 1
      /\ \A i \in 1..Len(list) : Append(list, id)[i] = list[i]
      /\ DOMAIN Append(list, id) = 1..(Len(list) + 1) /\ DOMAIN list = 1..Len(list) /\ Len(list) \in Nat
      /\ Append(list, id)[Len(list) + 1] = id
  BY <1>1, PushedFacts
<1>3. ASSUME Numbered(list) PROVE Numbered(Append(list, id))
  BY <1>1, <1>2, <1>3 DEF Numbered
<1> QED
  BY <1>2, <1>3 DEF id

LEMMA PrefixFacts ==
    ASSUME NEW s \in Seq(Sources), NEW t \in Seq(Sources)
    PROVE  IsPrefix(s, t) <=> Len(s) <= Len(t) /\ \A i \in 1..Len(s) : s[i] = t[i]
<1>1. /\ Len(s) \in Nat /\ Len(t) \in Nat
      /\ \A i \in 1..Len(s) : s[i] \in Sources
      /\ \A i \in 1..Len(t) : t[i] \in Sources
  OBVIOUS
<1>2. /\ SubSeq(s, 1, Len(s)) \in Seq(Sources) /\ Len(SubSeq(s, 1, Len(s))) = Len(s)
      /\ \A i \in 1..Len(s) : SubSeq(s, 1, Len(s))[i] = s[i]
  BY <1>1, SubSeqProperties
<1>3. ASSUME Len(s) <= Len(t)
      PROVE  /\ SubSeq(t, 1, Len(s)) \in Seq(Sources) /\ Len(SubSeq(t, 1, Len(s))) = Len(s)
             /\ \A i \in 1..Len(s) : SubSeq(t, 1, Len(s))[i] = t[i]
  BY <1>1, <1>3, SubSeqProperties
<1>4. ASSUME Len(s) <= Len(t), \A i \in 1..Len(s) : s[i] = t[i]
      PROVE  SubSeq(s, 1, Len(s)) = SubSeq(t, 1, Len(s))
  BY <1>2, <1>3, <1>4, SeqEqual
<1> QED
  BY <1>2, <1>3, <1>4 DEF IsPrefix

LEMMA NumberedIsInjective ==
    ASSUME NEW list \in Seq(Sources), Numbered(list)
    PROVE  IsInjective(list)
  BY DEF Numbered, IsInjective

\* The ways the program changes the list in memory and the one in the file.
Draft == \E kind \in Kinds : profiles' = Append(profiles, DefaultId(kind, Len(profiles)))

\* A file that is cut short, or read in part.
LEMMA CutFacts ==
    ASSUME NEW list \in Seq(Sources), NEW short \in Prefixes(list)
    PROVE  /\ short \in Seq(Sources) /\ IsPrefix(short, list)
           /\ Numbered(list) => Numbered(short)
<1>1. PICK n \in 0..Len(list) : short = SubSeq(list, 1, n)
  BY DEF Prefixes
<1>2. /\ Len(list) \in Nat /\ n \in Nat /\ n <= Len(list)
      /\ \A i \in 1..n : list[i] \in Sources
  BY <1>1
<1>3. short \in Seq(Sources) /\ Len(short) = n /\ \A i \in 1..n : short[i] = list[i]
  BY <1>1, <1>2, SubSeqProperties
<1>4. DOMAIN short = 1..n /\ DOMAIN list = 1..Len(list)
  BY <1>3
<1>5. IsPrefix(short, list)
  BY <1>2, <1>3, PrefixFacts
<1>6. ASSUME Numbered(list) PROVE Numbered(short)
  BY <1>2, <1>3, <1>4, <1>6 DEF Numbered
<1> QED
  BY <1>3, <1>5, <1>6

\* The list is read again.
Reload ==
    /\ profiles' \in Prefixes(stored) /\ UNCHANGED stored
    /\ left' = [left EXCEPT !.fresh = (profiles' = stored)]

LEMMA UserLists ==
    ASSUME TypeOK, User
    PROVE  \/ UNCHANGED <<profiles, stored, left>>
           \/ Reload
           \/ Draft /\ UNCHANGED <<stored, left>>
           \/ stored' \in Prefixes(profiles) /\ UNCHANGED <<profiles, left>>
<1>1. CASE Back \/ Home \/ Shortcut \/ Open \/ Play \/ Browse
  BY <1>1 DEF Back, Home, Shortcut, Open, Play, Browse, Stays, disk
<1>2. CASE Setup
  BY <1>2 DEF Setup, Reload
<1>3. CASE ChooseKind \/ OnLostSource \/ NextSource
  BY <1>3, PagesAssumption DEF ChooseKind, OnLostSource, NextSource, NewSource, Settings, Draft,
                               Stays, disk
<1>4. CASE EditField \/ Save \/ Commit
  BY <1>4 DEF EditField, Save, Commit, Persist, ui, disk
<1> QED
  BY <1>1, <1>2, <1>3, <1>4 DEF User

LEMMA ReloadKeepsLists ==
    ASSUME TypeOK, Lists, Reload
    PROVE  profiles' \in Seq(Sources) /\ left' \in Lefts /\ MemoryCoversTheFile'
           /\ (~left'.removed => Numbered(profiles') /\ Numbered(stored'))
<1>1. /\ stored \in Seq(Sources) /\ stored' = stored /\ left \in Lefts
      /\ profiles' \in Prefixes(stored)
  BY DEF TypeOK, Reload
<1>2. (profiles' = stored) \in BOOLEAN
  OBVIOUS
<1>3. left' \in Lefts /\ left'.removed = left.removed /\ left'.fresh = (profiles' = stored)
  BY <1>1, <1>2 DEF Reload, Lefts
<1>4. /\ profiles' \in Seq(Sources) /\ IsPrefix(stored, stored)
      /\ Numbered(stored) => Numbered(profiles')
  BY <1>1, CutFacts, PrefixFacts
<1>5. MemoryCoversTheFile'
  BY <1>1, <1>3, <1>4 DEF MemoryCoversTheFile
<1> QED
  BY <1>1, <1>3, <1>4, <1>5 DEF Lists, ListsNumbered

LEMMA UserKeepsLists ==
    ASSUME TypeOK, Editing, Lists, User
    PROVE  profiles' \in Seq(Sources) /\ stored' \in Seq(Sources) /\ left' \in Lefts /\ Lists'
<1>0. /\ profiles \in Seq(Sources) /\ stored \in Seq(Sources) /\ left \in Lefts
      /\ UNCHANGED command
  BY KeyMoves DEF TypeOK, Editing
<1>1. CASE UNCHANGED <<profiles, stored, left>>
  BY <1>0, <1>1 DEF Lists, MemoryCoversTheFile, ListsNumbered
<1>2. CASE Reload
  <2>1. stored' = stored /\ left'.removed = left.removed
    BY <1>0, <1>2 DEF Reload, Lefts
  <2> QED
    BY <1>0, <1>2, <2>1, ReloadKeepsLists DEF Lists, ListsNumbered
<1>3. CASE stored' \in Prefixes(profiles) /\ UNCHANGED <<profiles, left>>
  BY <1>0, <1>3, CutFacts DEF Lists, MemoryCoversTheFile, ListsNumbered
<1>4. CASE Draft /\ UNCHANGED <<stored, left>>
  <2>1. /\ profiles' \in Seq(Sources) /\ Len(profiles') = Len(profiles) + 1
        /\ \A i \in 1..Len(profiles) : profiles'[i] = profiles[i]
        /\ Numbered(profiles) => Numbered(profiles')
    BY <1>0, <1>4, JoinedFacts DEF Draft
  <2>2. IsPrefix(stored, profiles) => IsPrefix(stored, profiles')
    <3>1. Len(stored) \in Nat /\ Len(profiles) \in Nat
      BY <1>0
    <3> QED
      BY <1>0, <2>1, <3>1, PrefixFacts
  <2> QED
    BY <1>0, <1>4, <2>1, <2>2 DEF Lists, MemoryCoversTheFile, ListsNumbered, Numbered
<1> QED
  BY <1>0, <1>1, <1>2, <1>3, <1>4, UserLists

\* What the command line makes of the list it has read.
LEMMA ChangedFacts ==
    ASSUME NEW list \in Seq(Sources)
    PROVE  /\ \A new \in Added(list) :
                new \in Seq(Sources) /\ (Numbered(list) => Numbered(new))
           /\ \A new \in Removed(list) : new \in Seq(Sources)
<1>1. ASSUME NEW kind \in Kinds
      PROVE  /\ Append(list, DefaultId(kind, Len(list))) \in Seq(Sources)
             /\ Numbered(list) => Numbered(Append(list, DefaultId(kind, Len(list))))
  BY JoinedFacts
<1>2. ASSUME NEW i \in DOMAIN list PROVE RemoveAt(list, i) \in Seq(Sources)
  BY RemovedFacts
<1> QED
  BY <1>1, <1>2 DEF Added, Removed

LEMMA CommandKeepsLists ==
    ASSUME TypeOK, Lists, CommandReads \/ CommandWrites
    PROVE  stored' \in Seq(Sources) /\ command' \in [at : {"idle", "read"}, list : Seq(Sources)]
           /\ left' \in Lefts /\ Lists'
<1>0. /\ stored \in Seq(Sources) /\ <<>> \in Seq(Sources)
      /\ command \in [at : {"idle", "read"}, list : Seq(Sources)]
      /\ left \in Lefts
  BY DEF TypeOK
<1>1. UNCHANGED profiles
  BY DEF CommandReads, CommandWrites, ui
<1>2. CASE CommandReads
  <2>1. PICK list \in Prefixes(stored) : command' = [at |-> "read", list |-> list]
    BY <1>2 DEF CommandReads
  <2>2. /\ left' \in Lefts /\ left'.removed = left.removed /\ left'.fresh = left.fresh
        /\ UNCHANGED stored
    <3>1. left.commands \in Nat /\ left.commands > 0
      BY <1>0, <1>2 DEF CommandReads, Lefts
    <3>2. left' = [left EXCEPT !.commands = left.commands - 1] /\ UNCHANGED stored
      BY <1>2 DEF CommandReads
    <3>3. left.commands - 1 \in Nat
      BY <3>1
    <3> QED
      BY <1>0, <3>2, <3>3 DEF Lefts
  <2>3. list \in Seq(Sources) /\ (Numbered(stored) => Numbered(list))
    BY <1>0, CutFacts
  <2> QED
    BY <1>0, <1>1, <2>1, <2>2, <2>3 DEF Lists, MemoryCoversTheFile, ListsNumbered
<1>3. CASE CommandWrites
  <2> DEFINE list == command.list
             Writes(lists, removed) ==
               /\ \E new \in lists : stored' \in Prefixes(new)
               /\ left' = [left EXCEPT !.removed = @ \/ removed, !.fresh = FALSE]
  <2>1. list \in Seq(Sources) /\ command' = [at |-> "idle", list |-> <<>>]
    BY <1>0, <1>3 DEF CommandWrites
  <2>2. Numbered(<<>>)
    BY DEF Numbered
  <2>3. CASE UNCHANGED <<stored, left>>
    BY <1>0, <1>1, <2>1, <2>2, <2>3 DEF Lists, MemoryCoversTheFile, ListsNumbered
  <2>4. CASE Writes({list} \cup Added(list), FALSE)
    <3>1. PICK new \in {list} \cup Added(list) : stored' \in Prefixes(new)
      BY <2>4
    <3>2. new \in Seq(Sources) /\ (Numbered(list) => Numbered(new))
      BY <2>1, ChangedFacts
    <3>3. stored' \in Seq(Sources) /\ (Numbered(new) => Numbered(stored'))
      BY <3>1, <3>2, CutFacts
    <3>4. left' \in Lefts /\ left'.removed = left.removed /\ ~left'.fresh
      BY <1>0, <2>4 DEF Lefts
    <3> QED
      BY <1>0, <1>1, <2>1, <2>2, <3>2, <3>3, <3>4 DEF Lists, MemoryCoversTheFile, ListsNumbered
  <2>5. CASE Writes(Removed(list), TRUE)
    <3>1. PICK new \in Removed(list) : stored' \in Prefixes(new)
      BY <2>5
    <3>2. stored' \in Seq(Sources)
      BY <2>1, <3>1, ChangedFacts, CutFacts
    <3>3. left' \in Lefts /\ left'.removed /\ ~left'.fresh
      BY <1>0, <2>5 DEF Lefts
    <3> QED
      BY <1>0, <1>1, <2>1, <3>2, <3>3 DEF Lists, MemoryCoversTheFile, ListsNumbered
  <2>6. UNCHANGED <<stored, left>> \/ Writes({list} \cup Added(list), FALSE)
        \/ Writes(Removed(list), TRUE)
    BY <1>3 DEF CommandWrites
  <2> QED
    BY <2>3, <2>4, <2>5, <2>6
<1> QED
  BY <1>2, <1>3

-----------------------------------------------------------------------------
(* Types. *)

\* Where a source is in the list, or 0.
LEMMA IndexFacts == TypeOK => \A id : IndexOf(id) \in Nat
<1> SUFFICES ASSUME profiles \in Seq(Sources), NEW id PROVE IndexOf(id) \in Nat
  BY DEF TypeOK
<1> DEFINE I == {i \in 1..Len(profiles) : profiles[i] = id}
<1>1. I \in SUBSET Nat
  OBVIOUS
<1>2. I # {} => Min(I) \in Nat
  BY <1>1, MinIsIn
<1> QED
  BY <1>2 DEF IndexOf, SelectInSeq

LEMMA UserTypes ==
    ASSUME TypeOK, User
    PROVE  selected' \in Nat /\ home' \in Sources \cup {NoSource}
<1>0. profiles \in Seq(Sources) /\ selected \in Nat /\ home \in Sources \cup {NoSource}
      /\ DOMAIN profiles = 1..Len(profiles) /\ Len(profiles) \in Nat
      /\ \A i \in DOMAIN profiles : profiles[i] \in Sources
  BY DEF TypeOK
<1>1. CASE Back \/ Home \/ Shortcut \/ Open \/ Setup
  BY <1>0, <1>1 DEF Back, Home, Shortcut, Open, Setup, Stays
<1>2. CASE Play
  BY <1>0, <1>2, IndexFacts DEF Play, Stays
<1>3. CASE Browse
  BY <1>0, <1>3 DEF Browse, Stays
<1>4. CASE ChooseKind
  <2>1. PICK kind \in Kinds :
          LET i == SelectInSeq(profiles, LAMBDA p : p[1] = kind)
          IN  IF i > 0 THEN Settings(i) ELSE NewSource(kind)
    BY <1>4 DEF ChooseKind
  <2> DEFINE i == SelectInSeq(profiles, LAMBDA p : p[1] = kind)
  <2>2. i \in Nat
    <3> DEFINE I == {j \in 1..Len(profiles) : profiles[j][1] = kind}
    <3>1. I \in SUBSET Nat
      BY <1>0
    <3>2. I # {} => Min(I) \in Nat
      BY <3>1, MinIsIn
    <3> QED
      BY <3>2 DEF SelectInSeq
  <2>3. (Settings(i) \/ NewSource(kind))
    BY <2>1
  <2> HIDE DEF i
  <2> QED
    BY <1>0, <2>2, <2>3 DEF Settings, NewSource, Stays
<1>5. CASE OnLostSource
  BY <1>0, <1>5 DEF OnLostSource, NewSource, Stays
<1>6. CASE NextSource
  <2>1. (selected % Len(profiles)) + 1 \in Nat
    BY <1>0, <1>6 DEF NextSource
  <2> QED
    BY <1>0, <1>6, <2>1 DEF NextSource, Settings, Stays
<1>7. CASE EditField \/ Save \/ Commit
  BY <1>0, <1>7 DEF EditField, Save, Commit, ui
<1> QED
  BY <1>1, <1>2, <1>3, <1>4, <1>5, <1>6, <1>7 DEF User

LEMMA Polls == TypeOK => Polled \in {"loading", "ready"}
  BY DEF TypeOK, Polled

LEMMA StepInv == IInv /\ [Next]_vars => IInv'
<1> SUFFICES ASSUME TypeOK, Editing, Lists, [Next]_vars PROVE IInv'
  BY DEF IInv
<1>0. stack' \in Seq(Pages) /\ stack' # <<>> /\ Editing'
  BY StepEditing
<1>1. CASE User
  <2>1. UNCHANGED <<library, animated, opening, command>>
    BY <1>1, KeyMoves DEF Editing, boot
  <2> QED
    BY <1>0, <1>1, <2>1, UserTypes, UserKeepsLists DEF IInv, TypeOK
<1>2. CASE Frame
  <2>1. /\ selected' \in {0, selected} /\ home' \in {home, NoSource}
        /\ library' \in {"loading", "ready"} /\ opening' \in {opening, "nothing"}
        /\ UNCHANGED <<profiles, animated, stored, command>>
    BY <1>2, Polls DEF Frame
  <2>2. left' \in Lefts /\ left'.removed = left.removed /\ left'.fresh = left.fresh
    <3>1. left' = left \/ (left.scans > 0 /\ left' = [left EXCEPT !.scans = left.scans - 1])
      BY <1>2 DEF Frame, Refreshable
    <3>2. left \in Lefts
      BY DEF TypeOK
    <3> QED
      BY <3>1, <3>2 DEF Lefts
  <2>3. Lists'
    BY <2>1, <2>2 DEF Lists, MemoryCoversTheFile, ListsNumbered, Numbered
  <2> QED
    BY <1>0, <2>1, <2>2, <2>3 DEF IInv, TypeOK, Requests
<1>3. CASE AnimationEnds \/ ScanEnds
  BY <1>0, <1>3 DEF AnimationEnds, ScanEnds, ui, disk, IInv, TypeOK, Lists,
                    MemoryCoversTheFile, ListsNumbered, Numbered
<1>4. CASE ClientRefresh
  <2>1. UNCHANGED <<ui, animated, opening, stored, command>> /\ library' = "loading"
    BY <1>4 DEF ClientRefresh
  <2>2. left' \in Lefts /\ left'.removed = left.removed /\ left'.fresh = left.fresh
    <3>1. left' = left \/ (left.scans > 0 /\ left' = [left EXCEPT !.scans = left.scans - 1])
      BY <1>4 DEF ClientRefresh, Refreshable
    <3>2. left \in Lefts
      BY DEF TypeOK
    <3> QED
      BY <3>1, <3>2 DEF Lefts
  <2> QED
    BY <1>0, <2>1, <2>2 DEF ui, IInv, TypeOK, Lists, MemoryCoversTheFile,
                            ListsNumbered, Numbered
<1>5. CASE CommandReads \/ CommandWrites
  <2>1. UNCHANGED <<ui, boot>>
    BY <1>5 DEF CommandReads, CommandWrites
  <2> QED
    BY <1>0, <1>5, <2>1, CommandKeepsLists DEF ui, boot, IInv, TypeOK
<1>6. CASE UNCHANGED vars
  BY <1>0, <1>6 DEF vars, ui, boot, disk, IInv, TypeOK, Lists, MemoryCoversTheFile,
                    ListsNumbered, Numbered
<1> QED
  BY <1>1, <1>2, <1>3, <1>4, <1>5, <1>6 DEF Next

LEMMA SavedFacts == ASSUME NEW list \in Saved PROVE list \in Seq(Sources) /\ Numbered(list)
<1>1. PICK m \in 0..MaxSources : list \in [1..m -> Kinds \X (1..MaxSources)]
  BY DEF Saved, SeqOf
<1>2. MaxSources \in Nat /\ m \in Nat
  BY PagesAssumption
<1>3. \A i \in 1..m : list[i] \in Sources
  BY <1>1, <1>2 DEF Sources
<1>4. DOMAIN list = 1..m
  BY <1>1
<1>5. list \in Seq(Sources)
  BY <1>1, <1>2, <1>3, <1>4, IsASeq
<1> QED
  BY <1>5 DEF Saved, Numbered

LEMMA InitInv == Init => IInv
<1> SUFFICES ASSUME Init PROVE IInv
  OBVIOUS
<1>1. stored \in Seq(Sources) /\ Numbered(stored) /\ profiles \in Prefixes(stored)
  BY SavedFacts DEF Init
<1>2. profiles \in Seq(Sources) /\ Numbered(profiles) /\ IsPrefix(stored, stored)
  BY <1>1, CutFacts, PrefixFacts
<1>3. (profiles = stored) \in BOOLEAN
  OBVIOUS
<1>4. /\ stack = <<"boot">> /\ stack \in Seq(Pages) /\ stack # <<>> /\ Len(stack) = 1 /\ Page = "boot"
      /\ \A i \in 1..1 : stack[i] = "boot"
  BY DEF Init, Pages, Page, Last
<1>5. /\ MaxCommands \in Nat /\ MaxScans \in Nat /\ <<>> \in Seq(Sources)
  BY PagesAssumption
<1>6. TypeOK
  BY <1>1, <1>4, <1>5, <1>2, <1>3 DEF Init, TypeOK, Lefts
<1>7. Editing
  BY <1>4 DEF Editing, EditorIsOnTop, AddressComesFirst, EditorKnowsItsSource
<1>8. Lists
  <2>1. left.fresh = (profiles = stored)
    BY DEF Init
  <2>2. MemoryCoversTheFile
    BY <1>2, <2>1 DEF MemoryCoversTheFile
  <2>3. Numbered(command.list)
    BY DEF Init, Numbered
  <2> QED
    BY <1>1, <1>2, <2>2, <2>3 DEF Lists, ListsNumbered
<1> QED
  BY <1>6, <1>7, <1>8 DEF IInv

LEMMA InvHolds == Spec => []IInv
  BY InitInv, StepInv, PTL DEF Spec

-----------------------------------------------------------------------------
(* Every variable keeps its type, whatever the user, the frames and the      *)
(* command line do.                                                          *)
THEOREM TypeCorrect == Spec => []TypeOK
<1>1. IInv => TypeOK
  BY DEF IInv
<1> QED
  BY <1>1, InvHolds, PTL

(* What the field editor commits goes into the source whose page opened it:   *)
(* no reload of the list, no start of another source and no request opened    *)
(* meanwhile leaves the editor on the screen over another one                 *)
(* (AppRuntimeContext, app_command_executor.cpp).                             *)
THEOREM EditorStaysWithItsSource == Spec => []EditorKnowsItsSource
<1>1. IInv => EditorKnowsItsSource
  BY DEF IInv, Editing
<1> QED
  BY <1>1, InvHolds, PTL

(* From a whole read of the file until the command line writes it or a read   *)
(* fails, memory has every source the file has, so that no whole save of the  *)
(* program drops one: drafts, reloads and saves that fail or are cut short    *)
(* included (persistRemoteProfiles, openRemoteSetup).                         *)
THEOREM SavesDropNoSource == Spec => []MemoryCoversTheFile
<1>1. IInv => MemoryCoversTheFile
  BY DEF IInv, Lists
<1> QED
  BY <1>1, InvHolds, PTL

(* Ids numbered by the length of the list stay unique, in memory and in the   *)
(* file, as long as no source is removed (createProfile).                     *)
THEOREM SourceIdsStayUnique == Spec => []IdsAreUnique
<1>1. IInv => IdsAreUnique
  BY NumberedIsInjective DEF IInv, TypeOK, Lists, ListsNumbered, IdsAreUnique
<1> QED
  BY <1>1, InvHolds, PTL
=============================================================================
