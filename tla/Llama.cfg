SPECIFICATION Spec
CONSTANTS
    N_CTX = 9
    N_BATCH = 3
    N_PREDICT = 16
    N_KEEP = 0
    MaxPrompt = 6
INVARIANTS ContextFits ResultIsText SamplesFromText
PROPERTY Terminates
CHECK_DEADLOCK FALSE
