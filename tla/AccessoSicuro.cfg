\* Two accounts, two operations at a time, one logout.
CONSTANTS
    a1 = a1  a2 = a2  o1 = o1  o2 = o2
    Account = {a1, a2}
    Operazioni = {o1, o2}
    MaxGrafi = 2
    MaxPila = 1
    Nessuno = Nessuno
SPECIFICATION Spec
SYMMETRY Simmetria
INVARIANTS
    ProfiloSpiegato
    SoloVerificati
PROPERTIES PrimoAccessoNonTorna 
