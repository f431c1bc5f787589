----------------------------- MODULE MCTopics -----------------------------
EXTENDS Topics

UpTo(n, S) == UNION {[1 .. k -> S] : k \in 1 .. n}

AllLevels == {"", "a", "$share", "+", "#", "+a", "a#", "nul"}
AllFilters == UpTo(3, AllLevels \ {"nul"}) \cup UpTo(2, AllLevels)
              \cup {<<"$share">> \o f : f \in UpTo(3, AllLevels \ {"nul"})}
AllNames == UpTo(3, {"", "a", "$share"}) \cup UpTo(1, AllLevels)

===========================================================================
