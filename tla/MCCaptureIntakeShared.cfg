\* A request at the Worker and one at the fallback.
SPECIFICATION Spec
CONSTANTS
    Events <- MCEvents
    Payloads <- MCPayloads
    Workers = {w1}
    Locals = {l1}
    Runs = {}
    Pending = {}
    MaxNumber = 3
INVARIANTS
    OwnDraft
