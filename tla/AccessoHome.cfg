\* A second login in the same NavGraph.
CONSTANTS
    a1 = a1  a2 = a2  o1 = o1  o2 = o2
    Account = {a1, a2}
    Operazioni = {o1, o2}
    MaxGrafi = 1
    MaxPila = 2
    Nessuno = Nessuno
SPECIFICATION Spec
SYMMETRY Simmetria
INVARIANT HomeCoerente
