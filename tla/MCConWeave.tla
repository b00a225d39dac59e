---- MODULE MCConWeave ----
EXTENDS ConWeaveProperties, TLC

CONSTANTS p1, p2

MCSlotOf == p1 :> 1 @@ p2 :> 2
MCOneSlot == p1 :> 1 @@ p2 :> 1

MCMinDelay == p1 :> 1 @@ p2 :> 1
MCJitter == p1 :> 4 @@ p2 :> 4
MCSmall == p1 :> 3 @@ p2 :> 1
====
