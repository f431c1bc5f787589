SPECIFICATION Spec
CONSTANTS
  Levels <- AllLevels
  Empty = ""
  Hash = "#"
  Plus = "+"
  Share = "$share"
  WithHash = {"#", "a#"}
  WithPlus = {"+", "+a"}
  StartsWild = {"#", "+", "+a"}
  StartsDollar = {"$share"}
  Illegal = {"nul"}
  Filters <- AllFilters
  Names <- AllNames
INVARIANTS
  MatchIsMeaning
CHECK_DEADLOCK FALSE
