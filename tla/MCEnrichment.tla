---------------------------- MODULE MCEnrichment ----------------------------
(* Instance of Enrichment for TLC. *)
EXTENDS Enrichment, TLC

\* A file without tags, with the lyrics of something else.
MCContents == {[tags |-> "none", words |-> "clash", cover |-> FALSE]}

\* The first is an unsure match, the other one, by its sound, has other names than the file.
MCOffers == {Identity("weak", "guess"), Identity("verified", "clash")}

\* Nothing tells lookup threads apart.
AnyLookup == Permutations(Lookups)
=============================================================================
