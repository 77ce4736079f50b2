SPECIFICATION FairSpec
CONSTANTS
    t1 = t1
    t2 = t2
    big = big
    small = small
    Callers = {t1, t2}
    Urls = {big, small}
    NoUrl = NoUrl
    SlotChoices = {0, 2}
    Primary <- Crossed
    Fallbacks <- BothBoxes
    Order <- BigFirst
    Threshold = 2
    Cooldown = 1
INVARIANTS SlotsConserved NoIdleSlot SlotEndsWithAttempt
PROPERTIES NeverOverAdmit RoutedAround PassEnds
