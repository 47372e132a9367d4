SPECIFICATION UpdaterFairSpec
CONSTANTS Wakers = {w1, w2, w3}  Slots = {1, 2, 3}
INVARIANT OnlyLateWakesLost
PROPERTY FreshIsFlushed
CHECK_DEADLOCK FALSE
