------------------------------- MODULE AppPages ------------------------------
(***************************************************************************)
(* The graphical program as its user meets it: the stack of pages, the     *)
(* keys each page answers (src/app), the start of the program with what it *)
(* was asked to open, and the list of remote sources, which lives in       *)
(* memory and in a file that the command line (src/cli) changes as well.   *)
(* A source is its id; its fields and secrets are left out, and so is what *)
(* a page shows.  Keys that move a selection, type or drive the player      *)
(* change neither pages nor sources.                                       *)
(***************************************************************************)
EXTENDS Integers, Sequences, FiniteSets, SequencesExt

CONSTANTS Kinds,         \* kinds of source
          Jellyfin,      \* the one a page without a source starts with
          NoSource,
          MaxDepth,      \* bounds: pages on the stack, how high a list may lie,
          MaxLists,      \* sources, refreshes by clients and commands of the
          MaxSources,    \* command line
          MaxScans,
          MaxCommands

ASSUME PagesAssumption ==
    /\ Jellyfin \in Kinds
    /\ {MaxDepth, MaxLists, MaxSources, MaxScans, MaxCommands} \subseteq Nat
    /\ MaxDepth >= 2
    /\ NoSource \notin Kinds \X Nat

VARIABLES stack,      \* navigation.page_stack
          profiles,   \* remote_profiles
          selected,   \* selected_remote_profile_index, 0 for none
          home,       \* history: the source whose page opened the field editor
          library,    \* the state of the library as the program polls it
          animated,   \* the boot animation is over
          opening,    \* pending_open_uris: nothing, an address or a file
          stored,     \* the file of sources
          command,    \* a command of the command line and the list it has read
          left        \* what the bounds leave, whether a source was removed, and whether
                      \* memory knows what the command line has written (fresh)

ui   == <<stack, profiles, selected, home>>
boot == <<library, animated, opening>>
disk == <<stored, command, left>>
vars == <<ui, boot, disk>>

\* "list" stands for every list of the library, "other" for the pages that open
\* nothing that matters here, the player among them.
Pages == {"boot", "menu", "music", "list", "search", "settings", "setup", "profile", "editor",
          "browse", "other"}
Page == Last(stack)

\* createProfile numbers a source by the length of the list it joins.
\* Mutant: the number is left out.
DefaultIdBare(kind, size) == <<kind, 1>>

DefaultId(kind, size) == <<kind, size + 1>>

Requests == {"nothing", "address", "file"}

\* The file as earlier runs left it.
Saved == {list \in SeqOf(Kinds \X (1..MaxSources), MaxSources) :
              \A i \in DOMAIN list : list[i][2] = i}

Init ==
    /\ stack = <<"boot">> /\ selected = 0 /\ home = NoSource
    /\ library = "none" /\ animated = FALSE /\ opening \in Requests
    /\ stored \in Saved /\ profiles \in Prefixes(stored)
    /\ command = [at |-> "idle", list |-> <<>>]
    /\ left = [scans |-> MaxScans, commands |-> MaxCommands, removed |-> FALSE,
               fresh |-> profiles = stored]

-----------------------------------------------------------------------------
(* Moving between pages. *)

Room(page) == IF page \in {"setup", "profile", "editor"} THEN MaxDepth ELSE MaxLists

Push(page) == Len(stack) < Room(page) /\ stack' = Append(stack, page)
Pop == IF Len(stack) > 1 THEN stack' = Front(stack) ELSE UNCHANGED stack

\* What the rest of an action on the pages leaves alone.
Stays == UNCHANGED <<home, boot, disk>>

Key(pages) == Page \in pages

\* On the search page the key deletes a letter, in the field editor too.
Back ==
    /\ Key(Pages \ {"boot", "menu", "search", "editor"})
    /\ Pop /\ Stays /\ UNCHANGED <<profiles, selected>>

Home ==
    /\ Key(Pages \ {"boot", "menu", "editor"})
    /\ stack' = <<"menu">> /\ Stays /\ UNCHANGED <<profiles, selected>>

\* F9 to F12.
Shortcut ==
    /\ Key(Pages \ {"boot", "editor"})
    /\ \E page \in {"search", "music", "other", "settings"} : Push(page)
    /\ Stays /\ UNCHANGED <<profiles, selected>>

\* The pages a row, a tap or a letter of a page opens without further effect.
Opens == [page \in Pages |->
    CASE page = "menu"               -> {"list", "music", "settings", "other"}
      [] page \in {"music", "list"}  -> {"list", "other"}
      [] page \in {"settings", "other"} -> {"other"}
      [] OTHER                       -> {}]

Open ==
    /\ Key(Pages)
    /\ \E page \in Opens[Page] : Push(page)
    /\ Stays /\ UNCHANGED <<profiles, selected>>

-----------------------------------------------------------------------------
(* Sources.  A read of the file gives nothing when it cannot be opened, and its *)
(* beginning while another process writes it; a write empties the file first.   *)
(* So either may give any of the Prefixes of a list.                            *)

\* The first profile with an id; 0 when there is none.
IndexOf(id) == IF id \in Range(profiles) THEN SelectInSeq(profiles, LAMBDA p : p = id) ELSE 0

\* A start of a remote track selects its source, even when its server or its
\* stream does not answer; of a source no longer in the list it does nothing.
Play ==
    /\ Key({"list", "search", "browse"})
    /\ Page = "browse" => selected \in DOMAIN profiles
    /\ \/ /\ Page # "browse" /\ UNCHANGED selected          \* a local track
       \/ \E id \in Range(profiles) :
            /\ Page = "browse" => id = profiles[selected]
            /\ selected' = IndexOf(id)
    /\ Push("other") \/ UNCHANGED stack
    /\ Stays /\ UNCHANGED profiles

\* A row of a source in the music index; a source that does not answer shows
\* why instead.
Browse ==
    /\ Key({"music"})
    /\ \E i \in DOMAIN profiles : selected' = i
    /\ Push("browse") \/ Push("other")
    /\ Stays /\ UNCHANGED profiles

\* The list is read again; sources not saved are gone, the index stays.
Setup ==
    /\ Key({"settings", "profile"})
    /\ Page = "profile" => selected \in DOMAIN profiles
    /\ Push("setup") /\ profiles' \in Prefixes(stored)
    /\ left' = [left EXCEPT !.fresh = profiles' = stored]
    /\ UNCHANGED <<selected, home, boot, stored, command>>

Settings(i) ==
    /\ Push("profile") /\ selected' = i
    /\ Stays /\ UNCHANGED profiles

\* A new source joins the list in memory only.
NewSource(kind) ==
    /\ Len(profiles) < MaxSources
    /\ profiles' = Append(profiles, DefaultId(kind, Len(profiles)))
    /\ Push("profile") /\ selected' = Len(profiles) + 1
    /\ Stays

\* The first source of the kind, or a new one.
ChooseKind ==
    /\ Key({"setup"})
    /\ \E kind \in Kinds :
         LET i == SelectInSeq(profiles, LAMBDA p : p[1] = kind)
         IN  IF i > 0 THEN Settings(i) ELSE NewSource(kind)

\* The page of a source that has gone offers a new one on every row.
OnLostSource ==
    /\ Key({"profile"}) /\ selected \notin DOMAIN profiles
    /\ NewSource(Jellyfin)

NextSource ==
    /\ Key({"profile"}) /\ selected \in DOMAIN profiles
    /\ Settings((selected % Len(profiles)) + 1)

EditField ==
    /\ Key({"profile"}) /\ selected \in DOMAIN profiles
    /\ Push("editor") /\ home' = profiles[selected]
    /\ UNCHANGED <<profiles, selected, boot, disk>>

\* Mutant: only the source that was changed is written.
PersistOne == stored' \in {stored, <<>>, <<profiles[selected]>>}

\* The list is written over the file, which stays as it is when it cannot be opened and
\* is cut short when a write fails or the program ends.
Persist == stored' \in {stored} \cup Prefixes(profiles)

\* The rows that switch a policy and the row that saves.
Save ==
    /\ Key({"profile"}) /\ selected \in DOMAIN profiles
    /\ Persist /\ UNCHANGED <<ui, boot, command, left>>

\* Enter is the only way out of the editor.
Commit ==
    /\ Key({"editor"})
    /\ IF selected \in DOMAIN profiles THEN Persist ELSE UNCHANGED stored
    /\ Pop /\ home' = NoSource
    /\ UNCHANGED <<profiles, selected, boot, command, left>>

User ==
    \/ Back \/ Home \/ Shortcut \/ Open \/ Play \/ Browse \/ Setup \/ ChooseKind
    \/ OnLostSource \/ NextSource \/ EditField \/ Save \/ Commit

-----------------------------------------------------------------------------
(* The frame: the library is polled, the boot page left, the request opened. *)

\* The first poll starts a scan, the first after its end takes what it found.
Polled ==
    CASE library = "none"                -> "loading"
      [] library = "loading"             -> "loading"
      [] library \in {"scanned", "ready"} -> "ready"

LeaveBoot == IF Page = "boot" /\ animated /\ Polled = "ready" THEN <<"menu">> ELSE stack

\* Mutant: a request waits for the library whatever it is.
OpenRequestLate(state) == opening # "nothing" /\ state = "ready"

\* Mutant: a file waits for a library that has not loaded.
OpenRequestEarly(state) == opening = "address" \/ (opening = "file" /\ state = "none")

\* An address is tried at once, a file when the library is ready.
OpenRequest(state) == opening = "address" \/ (opening = "file" /\ state = "ready")

\* A client asks for a refresh at any time; a scan that runs serves it, and the
\* result of one that has ended is taken before the next begins.
Refreshable(state) == state # "loading" /\ left.scans > 0

ClientRefresh ==
    /\ Refreshable(library)
    /\ library' = "loading" /\ left' = [left EXCEPT !.scans = @ - 1]
    /\ UNCHANGED <<ui, animated, opening, stored, command>>

\* A client's refresh may come between the poll and the look at the request.
\* What starts replaces every page by the menu and the player.
Frame ==
    /\ \/ library' = Polled /\ UNCHANGED left
       \/ Refreshable(Polled) /\ library' = "loading" /\ left' = [left EXCEPT !.scans = @ - 1]
    /\ IF OpenRequest(library')
       THEN /\ opening' = "nothing"
            /\ selected' = IF opening = "address" THEN 0 ELSE selected
            /\ \/ stack' = <<"menu", "other">> /\ home' = NoSource
               \/ stack' = LeaveBoot /\ UNCHANGED home
       ELSE stack' = LeaveBoot /\ UNCHANGED <<opening, selected, home>>
    /\ UNCHANGED <<profiles, animated, stored, command>>

AnimationEnds ==
    /\ ~animated /\ animated' = TRUE
    /\ UNCHANGED <<ui, library, opening, disk>>

ScanEnds ==
    /\ library = "loading" /\ library' = "scanned"
    /\ UNCHANGED <<ui, animated, opening, disk>>

-----------------------------------------------------------------------------
(* The command line reads the file, changes its copy and writes it. *)

CommandReads ==
    /\ command.at = "idle" /\ left.commands > 0
    /\ \E list \in Prefixes(stored) : command' = [at |-> "read", list |-> list]
    /\ left' = [left EXCEPT !.commands = @ - 1]
    /\ UNCHANGED <<ui, boot, stored>>

Added(list) == {Append(list, DefaultId(kind, Len(list))) : kind \in Kinds}
Removed(list) == {RemoveAt(list, i) : i \in DOMAIN list}

\* source add, update and remove; the file may stay as it is or be cut short here too.
CommandWrites ==
    /\ command.at = "read"
    /\ command' = [at |-> "idle", list |-> <<>>]
    /\ LET list == command.list
           Writes(lists, removed) ==
               /\ \E new \in lists : stored' \in Prefixes(new)
               /\ left' = [left EXCEPT !.removed = @ \/ removed, !.fresh = FALSE]
       IN  \/ UNCHANGED <<stored, left>>
           \/ Writes({list}, FALSE)
           \/ Len(list) < MaxSources /\ Writes(Added(list), FALSE)
           \/ Writes(Removed(list), TRUE)
    /\ UNCHANGED <<ui, boot>>

Next ==
    \/ User \/ Frame \/ AnimationEnds \/ ScanEnds \/ ClientRefresh
    \/ CommandReads \/ CommandWrites

Spec == Init /\ [][Next]_vars

(***************************************************************************)
(* Frames come, scans and the animation end; the user need not do anything. *)
(***************************************************************************)
FairSpec ==
    Spec /\ WF_vars(Frame) /\ WF_vars(AnimationEnds) /\ WF_vars(ScanEnds)

-----------------------------------------------------------------------------
(* Properties. *)

(* The field editor writes to the source whose page opened it: reloads of the *)
(* list, starts of other sources and requests opened meanwhile never leave it  *)
(* on the screen with another source, or none, selected.                      *)
EditorKnowsItsSource ==
    Page = "editor" => selected \in DOMAIN profiles /\ profiles[selected] = home

(* Memory has what the file has, at its place, so that a save of the program  *)
(* drops no source: through drafts, reloads, saves that fail or are cut short, *)
(* and writes of the command line that were read since.  A save that is cut    *)
(* short still shortens the file, and after a read that failed, or before one   *)
(* that sees what the command line wrote, a save does drop sources.            *)
MemoryCoversTheFile == left.fresh => IsPrefix(stored, profiles)

(* Numbered by the length of a list, no two sources of the program or of the *)
(* file get one id, with drafts dropped and numbers used again and with       *)
(* sources added by another process, as long as none is removed.             *)
IdsAreUnique ==
    ~left.removed => IsInjective(profiles) /\ IsInjective(stored)

(* The boot page is left and what the program was asked to open is tried,    *)
(* although clients refresh the library between the poll and the look at it.  *)
StartupEnds ==
    LET Starting == Page = "boot" \/ opening # "nothing"
    IN  Starting ~> ~Starting
=============================================================================
