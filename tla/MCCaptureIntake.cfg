\* Three requests at the Worker, two events, repeats and failures.
SPECIFICATION Spec
CONSTANTS
    Events <- MCEvents
    Payloads <- MCPayloads
    Workers = {w1, w2, w3}
    Locals = {}
    Runs = {}
    Pending = {}
    MaxNumber = 3
INVARIANTS
    TypeOK
    LinksAgree
    SameDraft
PROPERTIES
    DraftedOnce
