\* Every environment of four options, and what an operator may type.
SPECIFICATION Spec
CONSTANTS
    Varied = {"-t", "--node-role", "-i", "--session-id"}
    Typed <- MCTyped
INVARIANT TypeOK
INVARIANT EnvironmentArrives
INVARIANT RefusedOnlyIfInvalid
INVARIANT SeedersHavePayload
