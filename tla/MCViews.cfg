\* MCViews: tables with a lost connection, cells with two downloads, four
\* calls of the HUD
SPECIFICATION Spec
CONSTANTS
  l1 = l1
  l2 = l2
  u1 = u1
  u2 = u2
  c1 = c1
  c2 = c2
  p1 = p1
  p2 = p2
  p3 = p3
  r1 = r1
  r2 = r2
  r3 = r3
  r4 = r4
  NoList = NoList
  Nobody = Nobody
  NoCall = NoCall
  Lists <- TwoLists
  Users <- TwoUsers
  Restricted = TRUE
  MaxDrops = 1
  Cells <- TwoCells
  People <- ThreePeople
  NoURL <- Unreachable
  MaxDownloads = 2
  Calls <- FourCalls
CHECK_DEADLOCK FALSE
INVARIANTS
  NobodyTwice
  ListensAreCounted
  PicturesAreOwn
  NeverStuckInvisible
  TimerIsForContent
PROPERTIES
  ListsCatchUp
  WritesAreAnswered
  PicturesArrive
  MessagesLeave
  DismissIsObeyed
