CONSTANTS
  w1 = w1
  w2 = w2
  k1 = k1
  k2 = k2
  plain = plain
  empty = empty
  split = split
  headless = headless
  long = long
  None = None
  Keys <- MCKeys
  Rank <- MCRank
  Head <- MCHead
  Tail <- MCTail
  Empty = empty
  Writers = {w1}
  Values = {plain, empty, split, headless, long}
  Long = {long}
  HandMade <- ByHand
SPECIFICATION Spec
PROPERTY
  NoneInjected
