\* Liveness: every awaited call returns or throws.
CONSTANTS
    u1 = u1  u2 = u2  t1 = t1  o1 = o1  o2 = o2
    Utenti = {u1}
    IdTodo = {t1}
    Operazioni = {o1, o2}
    MaxVolte = 2
    Nessuno = Nessuno
SPECIFICATION FairSpec
PROPERTIES
    OgniAttesaFinisce
    SenzaUtentiCancellato
