\* The Worker, its fallback and the run at once, one event pending; fair.
SPECIFICATION FairSpec
CONSTANTS
    Events <- MCEvents
    Payloads <- MCPayloads
    Workers = {w1}
    Locals = {l1}
    Runs = {r1}
    Pending = {"soc"}
    MaxNumber = 4
PROPERTIES
    RejectedStaysOut RunsConvert
