SPECIFICATION GateSpec
CONSTANTS
    Callers = {c1, c2, c3, c4, c5}
    Urls = {gpu, cpu}
    NoUrl = NoUrl
    SlotChoices = {0, 2, 3}
SYMMETRY CallerSym
INVARIANTS SlotsConserved NoIdleSlot
PROPERTIES NeverOverAdmit AdmittedInOrder
