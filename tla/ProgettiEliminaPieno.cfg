\* A join between the reading of the empty list and the deletion.
CONSTANTS
    u1 = u1  u2 = u2  p1 = p1  c1 = c1  c2 = c2
    o1 = o1  o2 = o2
    Utenti = {u1, u2}
    IdProgetti = {p1}
    Codici = {c1}
    Operazioni = {o1, o2}
    Nessuno = Nessuno
SPECIFICATION Spec
SYMMETRY Simmetria
PROPERTY EliminaSoloVuoti
