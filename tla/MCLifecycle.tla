---------------------------- MODULE MCLifecycle ----------------------------
EXTENDS Lifecycle

CONSTANTS s1, s2, t1

TwoAttempts == <<s1, s2>>
OneAttempt == <<s1>>

=============================================================================
