SPECIFICATION FairSpec
CONSTANTS
  host = host
  lang = lang
  t1 = t1
  t2 = t2
  num = num
  c1 = c1
  c2 = c2
  ghost = ghost
  mine = mine
  yours = yours
  blue = blue
  Undefined = Undefined
  Keys <- TwoKeys
  Words = {t1, t2}
  Others = {num}
  Posts <- ManyPosts
  Views <- ManyViews
  Pieces <- AllPieces
  CaseNames <- NamesOnServer
  CaseOf <- OnServer
  Unknown <- Nowhere
  here = here
  there = there
  Tabs = {here, there}
  Here = here
  SaveNames = {mine, yours}
  Typed <- TypedCases
  Filled <- FilledForms
  Saved <- OtherCases
  Searches <- Addresses
  MaxPending = 2
  MaxExecs = 2
  MaxSteps = 5
INVARIANTS TypeOK RoundTrip RequestsScoped
PROPERTIES TextAgreesWithForm ValidatesWhatItSends ConsoleKeepsUp LoadingEnds SavesAreKept
CHECK_DEADLOCK FALSE
