SPECIFICATION Spec
CONSTANTS
  Files = {f}
  Streams = {s}
  Lookups = {l1, l2}
  Nothing = nothing
  Contents <- MCContents
  Offers <- MCOffers
  Sources = {"lrclib"}
  MaxItems = 1
SYMMETRY AnyLookup
PROPERTY AnsweredIsNotAsked
PROPERTY FittingTagsStay
