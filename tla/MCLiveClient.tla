---- MODULE MCLiveClient ----
EXTENDS LiveClient
CONSTANTS s1, s2
DefaultTopics == {<<"sessions", "all">>}
NewestFirst == [v \in 0..MaxVersion |-> IF v = 0 THEN s1 ELSE s2]
SomeKeys == {<<"sessions", "all">>} \union ({"session"} \X Session)
====
