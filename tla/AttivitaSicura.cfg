\* One task, two users, two activities at a time.
CONSTANTS
    u1 = u1  u2 = u2  t1 = t1  o1 = o1  o2 = o2
    Utenti = {u1, u2}
    IdTodo = {t1}
    Operazioni = {o1, o2}
    MaxVolte = 2
    Nessuno = Nessuno
SPECIFICATION Spec
SYMMETRY Simmetria
INVARIANTS
    TypeOK
    SenzaUtentiSpiegato
PROPERTIES
    CompletatoNonDelegato
    EliminazioneDefinitiva
    RaffinaIncarichi
