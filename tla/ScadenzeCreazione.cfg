\* An edit of a task, some hours after it was added.
CONSTANTS
    Fusi <- FusiScelti
    Passo = 8
    MaxOra = 48
SPECIFICATION Spec
PROPERTY CreazioneOriginale
