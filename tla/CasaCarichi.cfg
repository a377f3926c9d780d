\* Two projects, one of them completed; three activities at a time.
CONSTANTS
    p1 = p1  p2 = p2  k1 = k1  k2 = k2  k3 = k3
    Progetti = {p1, p2}
    Completi = {p1}
    Slot = {k1, k2, k3}
    MaxPila = 2
    Nessuno = Nessuno
SPECIFICATION Spec
SYMMETRY Simmetria
INVARIANTS
    TypeOK
    
    
    VuotoSpiegato
    CaricandoSpiegato
