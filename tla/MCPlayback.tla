----------------------------- MODULE MCPlayback -----------------------------
(* Instances of Playback for TLC: two local files and one remote track. *)
EXTENDS Playback

MCMedia == {"a", "b", "r"}
MCRemote == {"r"}
MCGoverned == {"r"}
\* a has a known length, b has none, r is shorter than a.
MCDuration == [a |-> 2, b |-> 0, r |-> 1, none |-> 0]
MCUntimed == [a |-> 0, b |-> 0, r |-> 0, none |-> 0]

Shelf(media, ids) == [medium |-> media, order |-> ids]

TwoFiles == {Shelf(<<"a", "b">>, <<1, 2>>)}
OneLibrary == {Shelf(<<"a", "b", "r">>, <<2, 1, 3>>)}
\* Both files, b's gone, and, one scan later, another that took over its id.
Moving == {Shelf(<<"a", "b">>, <<1, 2>>), Shelf(<<"a", "none">>, <<1>>),
           Shelf(<<"b", "a">>, <<2, 1>>)}

OneList == {<<1, 2>>}
ShortList == {<<2>>}
NoLists == {}
=============================================================================
