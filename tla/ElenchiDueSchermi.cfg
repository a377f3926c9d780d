\* Two projects, two screens, two calls at a time, one write.
CONSTANTS
    p1 = p1  p2 = p2  k1 = k1  k2 = k2
    Progetti = {p1, p2}
    MaxSchermi = 2
    Slot = {k1, k2}
    MaxPila = 4
    MaxOra = 1
    Nessuno = Nessuno
SPECIFICATION Spec
SYMMETRY Simmetria
INVARIANTS
    TypeOK
    SpinnerSpiegato
    
