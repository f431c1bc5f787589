--------------------------- MODULE TopicsProofs ---------------------------
(***************************************************************************)
(* The loop of matchLevels computes what a filter denotes, for filters and *)
(* topics of any length over any set of levels.                            *)
(***************************************************************************)
EXTENDS Topics, SequenceTheorems, TLAPS

\* A shared filter has at least one level behind its ShareName.
LEMMA EffectiveType ==
  ASSUME NEW f \in Seq(Levels), f # << >> PROVE effective(f) \in Seq(Levels) \ {<< >>}
<1>1. CASE isShared(f)
  <2>1. Len(f) \in Nat /\ Len(f) >= 3
    BY <1>1, SMTT(60) DEF isShared
  <2>2. wrapped(f) \in Seq(Levels) /\ Len(wrapped(f)) = Len(f) - 2
    BY <2>1, SubSeqProperties, SMTT(60) DEF wrapped
  <2> QED BY <1>1, <2>1, <2>2, SMTT(60) DEF effective
<1>2. CASE ~isShared(f)
  BY <1>2, Zenon DEF effective
<1> QED BY <1>1, <1>2, Zenon

\* What validation accepts, splitShared strips: MatchTopic works on the
\* levels that ValidateTopicFilter looked at.
LEMMA ValidatedLevels ==
  ASSUME NEW f \in Seq(Levels), ValidateTopicFilter(f)
  PROVE  /\ effective(f) = IF hasSharedPrefix(f) THEN wrapped(f) ELSE f
         /\ validateFilterLevels(effective(f))
BY Zenon DEF ValidateTopicFilter, effective, isShared

\* splitShared and ValidateTopicFilter agree on the shape of shared filters.
THEOREM SharedShapes == Spec => []SharedShapesAgree
<1>1. SharedShapesAgree
  BY Zenon DEF SharedShapesAgree, ValidateTopicFilter, isShared
<1> QED BY <1>1, PTL

-----------------------------------------------------------------------------
(* The loop.                                                               *)

\* The levels compared so far agree, and none of them was '#'.
LoopInv ==
  /\ result = "start" => i = 0
  /\ result # "start" => levels = effective(filter)
  /\ result = "loop" => /\ ~hidden(levels, topic) /\ i <= Len(topic)
                        /\ Agrees(levels, topic, i)
                        /\ \A k \in 1 .. i : levels[k] # Hash

\* The verdict is right whenever the levels are those of a valid filter.
Verdict ==
  validateFilterLevels(levels) =>
    /\ result = "match" => Meaning(levels, topic)
    /\ result = "nomatch" => ~Meaning(levels, topic)

\* Init, and each way through the body of the loop.
LEMMA LoopCorrect == Spec => [](TypeOK /\ LoopInv /\ Verdict)
<1>1. Init => TypeOK /\ LoopInv /\ Verdict
  BY TopicsAssumption, SMTT(60) DEF Init, TypeOK, LoopInv, Verdict
<1>2. TypeOK /\ LoopInv /\ Verdict /\ [Next]_vars => (TypeOK /\ LoopInv /\ Verdict)'
  <2> SUFFICES ASSUME TypeOK, LoopInv, Verdict, [Next]_vars
               PROVE  (TypeOK /\ LoopInv /\ Verdict)'
    BY Zenon
  <2>0. /\ filter \in Seq(Levels) /\ filter # << >> /\ topic \in Seq(Levels) /\ topic # << >>
        /\ levels \in Seq(Levels) /\ levels # << >>
        /\ i \in Nat /\ i <= Len(levels) /\ Len(levels) \in Nat \ {0} /\ Len(topic) \in Nat \ {0}
    BY TopicsAssumption, SMTT(60) DEF TypeOK
  <2>1. CASE MatchTopic
    <3>1. levels' \in Seq(Levels) \ {<< >>} /\ i' = 0
      BY <2>0, <2>1, EffectiveType, Zenon DEF MatchTopic, LoopInv
    <3>2. TypeOK'
      BY <2>1, <3>1, SMTT(60) DEF MatchTopic, TypeOK
    <3>3. LoopInv'
      BY <2>0, <2>1, <3>1, SMTT(60) DEF MatchTopic, LoopInv, Agrees
    <3>4. Verdict'
      <4> SUFFICES ASSUME validateFilterLevels(levels'), hidden(levels', topic)
                   PROVE  ~Meaning(levels', topic)
        BY <2>1, Zenon DEF MatchTopic, Verdict
      <4>1. 1 \in 1 .. Len(levels') /\ levels'[1] \in WithHash \cup WithPlus
        BY <3>1, TopicsAssumption, SMTT(60) DEF hidden
      <4>2. levels'[1] \in {Hash, Plus}
        BY <4>1, Zenon DEF validateFilterLevels
      <4> QED BY <4>2, Zenon DEF hidden, Meaning
    <3> QED BY <3>2, <3>3, <3>4, Zenon
  <2>2. CASE matchHash
    <3>1. TypeOK' /\ LoopInv'
      BY <2>2, Zenon DEF matchHash, TypeOK, LoopInv
    <3>2. ASSUME validateFilterLevels(levels) PROVE Meaning(levels, topic)
      <4>1. i + 1 \in 1 .. Len(levels) /\ levels[i + 1] \in WithHash
        BY <2>0, <2>2, TopicsAssumption, SMTT(60) DEF matchHash
      <4>2. i + 1 = Len(levels)
        BY <3>2, <4>1, Zenon DEF validateFilterLevels
      <4>3. Denotes(levels, topic)
        BY <2>0, <2>2, <4>2, SMTT(60) DEF Denotes, LoopInv, matchHash
      <4>4. 1 \in 1 .. Len(levels) /\ {Hash, Plus} \subseteq StartsWild
        BY <2>0, TopicsAssumption, SMTT(60)
      <4> QED BY <2>2, <4>3, <4>4, Zenon DEF Meaning, LoopInv, matchHash, hidden
    <3> QED BY <2>2, <3>1, <3>2, Zenon DEF Verdict, matchHash
  <2>3. CASE matchFails
    <3>1. TypeOK' /\ LoopInv'
      BY <2>3, Zenon DEF matchFails, TypeOK, LoopInv
    <3>2. ~Denotes(levels, topic)
      <4>1. i + 1 \in 1 .. Len(levels) /\ levels[i + 1] # Hash /\ i <= Len(topic)
        BY <2>0, <2>3, SMTT(60) DEF matchFails, LoopInv
      <4>2. CASE i = Len(topic)
        BY <2>0, <4>1, <4>2, SMTT(60) DEF Denotes
      <4>3. CASE i < Len(topic)
        BY <2>0, <2>3, <4>1, <4>3, SMTT(60) DEF matchFails, Denotes, Agrees
      <4> QED BY <2>0, <4>1, <4>2, <4>3, SMTT(60)
    <3> QED BY <2>3, <3>1, <3>2, Zenon DEF Verdict, matchFails, Meaning
  <2>4. CASE matchNext
    <3>1. TypeOK' /\ LoopInv'
      BY <2>0, <2>4, SMTT(60) DEF matchNext, TypeOK, LoopInv, Agrees
    <3> QED BY <2>4, <3>1, Zenon DEF Verdict, matchNext
  <2>5. CASE matchEnds
    <3>1. TypeOK' /\ LoopInv'
      BY <2>5, Zenon DEF matchEnds, TypeOK, LoopInv
    <3>2. levels[Len(levels)] # Hash
      BY <2>0, <2>5, SMTT(60) DEF matchEnds, LoopInv
    <3>3. Denotes(levels, topic) <=> Len(levels) = Len(topic)
      BY <2>0, <2>5, <3>2, Zenon DEF matchEnds, LoopInv, Denotes
    <3>4. Meaning(levels, topic) <=> Len(levels) = Len(topic)
      BY <2>5, <3>3, TopicsAssumption, Zenon DEF Meaning, matchEnds, LoopInv, hidden
    <3> QED BY <2>5, <3>1, <3>4, Zenon DEF Verdict, matchEnds
  <2>6. CASE UNCHANGED vars
    BY <2>6, Zenon DEF vars, TypeOK, LoopInv, Verdict
  <2> QED BY <2>1, <2>2, <2>3, <2>4, <2>5, <2>6, Zenon DEF Next
<1> QED BY <1>1, <1>2, PTL DEF Spec

\* MatchTopic: for every valid filter, plain or shared, and every topic, the
\* loop's answer is the one the filter denotes.
THEOREM MatchCorrect == Spec => []MatchIsMeaning
<1>1. TypeOK /\ LoopInv /\ Verdict => MatchIsMeaning
  <2> SUFFICES ASSUME TypeOK, LoopInv, Verdict, ValidateTopicFilter(filter), result # "start"
               PROVE  LET f == IF hasSharedPrefix(filter) THEN wrapped(filter) ELSE filter
                      IN  /\ result = "match" => Meaning(f, topic)
                          /\ result = "nomatch" => ~Meaning(f, topic)
    BY Zenon DEF MatchIsMeaning
  <2>1. filter \in Seq(Levels)
    BY TopicsAssumption, Zenon DEF TypeOK
  <2> QED BY <2>1, ValidatedLevels, Zenon DEF LoopInv, Verdict
<1> QED BY <1>1, LoopCorrect, PTL

=============================================================================
