SPECIFICATION Spec
CONSTANTS
    Characters <- MCCharacters
    Patterns <- MCPatterns
    Repatterns <- MCRepatterns
    Messages <- MCMessages
    localtime <- Local
    gmtime <- Utc
    Pid = 99
    Now = 1700000000
    CustomFlags = {"*", "!"}
    Keys <- MCKeys
    MaxFormats = 3
INVARIANTS
    TimeCacheInvisible
    FieldsFit
    CompiledByGrammar
