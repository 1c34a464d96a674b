SPECIFICATION FairSpec
CONSTANTS
  t1 = t1
  v1 = v1
  v2 = v2
  Topic = {t1}
  Version = {v1, v2}
  NoHash = NoHash
  NoTopic = NoTopic
  MaxChanges = 2
  MaxRequests = 3
INVARIANTS TypeOK NoSeqIsLost AtMostOneStray SeqsAreUnique EventsAreChanges
PROPERTIES NewestBecomesData ImplementsLiveChannel
