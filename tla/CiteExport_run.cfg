SPECIFICATION Spec
CONSTANTS
    Citations <- MCCitations
    Claims <- MCClaims
    CitationOf <- MCCitationOf
    Corpora = {"a", "b"}
    NoCorpus = "none"
    Concurrency = 2
    MaxEdits = 1
    MaxLapses = 1
    MaxFaults = 1
INVARIANTS TypeOK ReceiptIsTrue DuplicatesAreCounted
PROPERTIES RetriesConverge
