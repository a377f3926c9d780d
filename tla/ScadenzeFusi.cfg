\* West of Greenwich, Greenwich, and east of it; three days in steps of 8 hours.
CONSTANTS
    Fusi <- FusiScelti
    Passo = 8
    MaxOra = 80
SPECIFICATION Spec
INVARIANTS
    TypeOK
    
    CalendarioAggiungi
    OltreSpiegato
