---------------------------- MODULE MCCrashLoop ----------------------------
(* What RTC memory may hold after a power loss: nothing, or a count.        *)
EXTENDS CrashLoop

MCRtcGarbage == {0, 4, 6}
=============================================================================
