\* One account: logout with operations of the old NavGraph still in flight;
\* every awaited call returns or throws.
CONSTANTS
    a1 = a1  a2 = a2  o1 = o1  o2 = o2
    Account = {a1}
    Operazioni = {o1, o2}
    MaxGrafi = 2
    MaxPila = 2
    Nessuno = Nessuno
SPECIFICATION FairSpec
INVARIANTS
    TypeOK
    DentroSoloDopoLogin
PROPERTY CaricamentoFinisce
