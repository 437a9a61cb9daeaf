SPECIFICATION Spec
CONSTANTS
    Citations <- MCCitations
    Claims <- MCClaims
    CitationOf <- MCCitationOf
    Corpora = {"a", "b"}
    NoCorpus = "none"
    Concurrency = 2
    MaxEdits = 0
    MaxLapses = 1
    MaxFaults = 0
INVARIANTS NothingWrittenTwice
