SPECIFICATION Spec
INVARIANTS
    EveryRequestLogged
