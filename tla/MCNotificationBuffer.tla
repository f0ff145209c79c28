------------------------ MODULE MCNotificationBuffer ------------------------
(* NotificationBuffer on a small instance, for TLC.                        *)
EXTENDS NotificationBuffer, TLC

CONSTANTS w1, w2

MCWaiters == {w1, w2}

WaiterSymmetry == Permutations(MCWaiters)
=============================================================================
