SPECIFICATION GatewaySpec
CONSTANTS
    Keys = {r1}
    Batches = {}
    MaxItems = 3
    Bodies <- MCBodies
INVARIANTS
    TranslationIsExact
    MissingIsUnreachable
