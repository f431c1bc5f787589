---------------------------- MODULE MCReceiver ----------------------------
EXTENDS Receiver

CONSTANTS m1, m2, m3, x, y

\* Two messages on one topic, a third on another.
OneTopicEach == [m \in Messages |-> IF m = m3 THEN y ELSE x]
TwoTopics == [m \in Messages |-> IF m = m1 THEN x ELSE y]

===========================================================================
