------------------------------- MODULE Topics -------------------------------
(***************************************************************************)
(* protocol/topic.go: how a received topic is matched with a subscription's *)
(* filter, and which filters and names are accepted.  A filter or topic is *)
(* the sequence of its '/'-separated levels; a level is a value that only  *)
(* the classes below tell apart.  The loop of matchLevels is a behaviour,  *)
(* one action for each way through its body.                               *)
(***************************************************************************)
EXTENDS Integers, Sequences

CONSTANTS
  Levels,
  Empty, Hash, Plus, Share,     \* the levels "", "#", "+" and "$share"
  WithHash, WithPlus,           \* levels that contain '#' or '+'
  StartsWild,                   \* levels whose first byte is '#' or '+'
  StartsDollar,                 \* levels whose first byte is '$'
  Illegal,                      \* levels with U+0000, ill-formed UTF-8 or over 65535 bytes
  Filters, Names                \* the arguments that are tried

ASSUME TopicsAssumption ==
  /\ {Empty, Hash, Plus, Share} \subseteq Levels
  /\ Hash \in WithHash \ WithPlus /\ Plus \in WithPlus \ WithHash /\ Hash # Plus
  /\ {Hash, Plus} \subseteq StartsWild /\ StartsWild \subseteq WithHash \cup WithPlus
  /\ Share \in StartsDollar
  /\ {Empty, Share} \cap (WithHash \cup WithPlus \cup StartsWild) = {}
  /\ WithHash \cup WithPlus \cup StartsDollar \cup Illegal \subseteq Levels
  /\ Filters \subseteq Seq(Levels) \ {<<>>} /\ Names \subseteq Seq(Levels) \ {<<>>}

VARIABLES
  filter, topic,        \* MatchTopic's arguments
  levels,               \* the filter matchLevels gets
  i,                    \* levels it has compared
  result                \* "start", "loop", "match" or "nomatch"

vars == <<filter, topic, levels, i, result>>

EmptyString == <<Empty>>

-----------------------------------------------------------------------------
(* Shared subscriptions and validation.                                    *)

\* strings.CutPrefix(s, "$share/")
hasSharedPrefix(f) == Len(f) >= 2 /\ f[1] = Share

wrapped(f) == SubSeq(f, 3, Len(f))

\* splitShared: ok
isShared(f) ==
  /\ hasSharedPrefix(f) /\ Len(f) >= 3
  /\ f[2] # Empty /\ wrapped(f) # EmptyString /\ f[2] \notin WithHash \cup WithPlus

validateFilterLevels(f) ==
  \A k \in 1 .. Len(f) :
    /\ f[k] \in WithHash => f[k] = Hash /\ k = Len(f)
    /\ f[k] \in WithPlus => f[k] = Plus

LegalString(s) == s # EmptyString /\ \A k \in 1 .. Len(s) : s[k] \notin Illegal

ValidateTopicName(s) ==
  LegalString(s) /\ \A k \in 1 .. Len(s) : s[k] \notin WithHash \cup WithPlus

ValidateTopicFilter(f) ==
  /\ LegalString(f)
  /\ IF hasSharedPrefix(f)
     THEN /\ Len(f) >= 3 /\ f[2] # Empty
          /\ f[2] \notin WithHash \cup WithPlus /\ wrapped(f) # EmptyString
          /\ validateFilterLevels(wrapped(f))
     ELSE validateFilterLevels(f)

-----------------------------------------------------------------------------
(* MatchTopic and the loop of matchLevels.                                 *)

effective(f) == IF isShared(f) THEN wrapped(f) ELSE f

\* A filter that begins with a wildcard does not see '$' topics.
hidden(f, t) == t[1] \in StartsDollar /\ f[1] \in StartsWild

MatchTopic ==
  /\ result = "start"
  /\ levels' = effective(filter)
  /\ result' = IF hidden(levels', topic) THEN "nomatch" ELSE "loop"
  /\ UNCHANGED <<filter, topic, i>>

matchHash ==
  /\ result = "loop" /\ i < Len(levels) /\ levels[i + 1] = Hash
  /\ result' = "match" /\ UNCHANGED <<filter, topic, levels, i>>

\* The topic is too short, or a level differs.
matchFails ==
  /\ result = "loop" /\ i < Len(levels) /\ levels[i + 1] # Hash
  /\ i < Len(topic) => levels[i + 1] # Plus /\ levels[i + 1] # topic[i + 1]
  /\ result' = "nomatch" /\ UNCHANGED <<filter, topic, levels, i>>

\* The level agrees, literally or by '+': on to the next one.
matchNext ==
  /\ result = "loop" /\ i < Len(levels) /\ levels[i + 1] # Hash /\ i < Len(topic)
  /\ levels[i + 1] = Plus \/ levels[i + 1] = topic[i + 1]
  /\ i' = i + 1 /\ UNCHANGED <<filter, topic, levels, result>>

\* Mutant: a longer topic is taken for a match.
matchEndsEarly ==
  /\ result = "loop" /\ i = Len(levels)
  /\ result' = "match"
  /\ UNCHANGED <<filter, topic, levels, i>>

matchEnds ==
  /\ result = "loop" /\ i = Len(levels)
  /\ result' = IF Len(levels) = Len(topic) THEN "match" ELSE "nomatch"
  /\ UNCHANGED <<filter, topic, levels, i>>

Init ==
  /\ filter \in Filters /\ topic \in Names
  /\ levels = filter /\ i = 0 /\ result = "start"

Next == MatchTopic \/ matchHash \/ matchFails \/ matchNext \/ matchEnds

Spec == Init /\ [][Next]_vars

-----------------------------------------------------------------------------
(* What a filter means, MQTT 5.0 section 4.7.                               *)

Agrees(f, t, n) == \A k \in 1 .. n : f[k] = Plus \/ f[k] = t[k]

\* A last level '#' stands for the parent and everything below it.
Denotes(f, t) ==
  IF f[Len(f)] = Hash
  THEN Len(t) >= Len(f) - 1 /\ Agrees(f, t, Len(f) - 1)
  ELSE Len(t) = Len(f) /\ Agrees(f, t, Len(f))

Meaning(f, t) ==
  ~(t[1] \in StartsDollar /\ f[1] \in {Hash, Plus}) /\ Denotes(f, t)

\* Every variable has its type.
TypeOK ==
  /\ filter \in Filters /\ topic \in Names /\ levels \in Seq(Levels) \ {<<>>}
  /\ i \in 0 .. Len(levels) /\ result \in {"start", "loop", "match", "nomatch"}

\* MatchTopic: for a filter that ValidateTopicFilter accepts and a name that
\* ValidateTopicName accepts, the early exits of the loop compute exactly
\* what the filter, or the filter inside "$share/name/", denotes.
MatchIsMeaning ==
  ValidateTopicFilter(filter) /\ ValidateTopicName(topic) =>
    LET f == IF hasSharedPrefix(filter) THEN wrapped(filter) ELSE filter
    IN  /\ result = "match" => Meaning(f, topic)
        /\ result = "nomatch" => ~Meaning(f, topic)

\* splitShared and ValidateTopicFilter decide the shape of a shared filter
\* each for itself: what the one accepts, the other strips.
SharedShapesAgree ==
  LegalString(filter) /\ hasSharedPrefix(filter) =>
    (ValidateTopicFilter(filter) <=> isShared(filter) /\ validateFilterLevels(wrapped(filter)))

=============================================================================
