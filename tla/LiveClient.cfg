SPECIFICATION FairSpec
CONSTANTS
  s1 = s1
  s2 = s2
  Session = {s1, s2}
  Default <- DefaultTopics
  Paths = {"/", "/sessions"}
  Keys <- SomeKeys
  First <- NewestFirst
  None = None
  Asked = Asked
  MaxVersion = 1
  MaxEvents = 1
INVARIANT StreamsWhatIsShown
PROPERTY AnnouncedIsShown
CHECK_DEADLOCK FALSE
