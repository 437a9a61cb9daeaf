------------------------------ MODULE CiteExport -------------------------------
(***************************************************************************)
(* The export of a bundle to cite (adapters/cite/exporter.py, run by       *)
(* cli.py): one annotation per citation, one per claim and citation, and a *)
(* relationship between the two.  The remote side has no idempotency; what *)
(* keeps a retry from writing twice is the receipt of the invocation       *)
(* before it, in which an entry is looked up by key and fingerprint.       *)
(*                                                                         *)
(* Nobody reads the remote records back.  A write lost before it was       *)
(* applied, an answer lost after it, and a write that lands after the      *)
(* client gave up therefore differ only in whether there is a record.      *)
(* A record's id is its key and its place among the records of that key;   *)
(* entries keep the place, and 0 for no id.                                *)
(***************************************************************************)
EXTENDS Naturals, Sequences, FiniteSets

CONSTANTS
    Citations, Claims,   \* sequences: the bundle's citations and claim-citation pairs
    CitationOf,          \* the citation of each pair
    Corpora, NoCorpus,
    Concurrency,         \* --concurrency, 1 to 5
    MaxEdits,            \* how often the bundle's text changes
    MaxLapses,           \* how often an invocation is given less than it needs
    MaxFaults            \* how often a write or an invocation fails

Named(names) == {names[i] : i \in DOMAIN names}
Text == Named(Citations) \cup Named(Claims)

ASSUME BundleAssumption ==
    /\ Citations \in Seq(Named(Citations)) /\ Claims \in Seq(Named(Claims))
    /\ CitationOf \in [Named(Claims) -> Named(Citations)]
    /\ Named(Citations) \cap Named(Claims) = {}
    /\ NoCorpus \notin Corpora
ASSUME BoundsAssumption ==
    Concurrency \in Nat \ {0} /\ MaxEdits \in Nat /\ MaxLapses \in Nat /\ MaxFaults \in Nat

(* The idempotency keys, in the order of the plan. *)
Citation(c) == [kind |-> "citation", of |-> c]
Claim(p) == [kind |-> "claim", of |-> p]
Relationship(p) == [kind |-> "relationship", of |-> p]
Annotations ==
    [i \in DOMAIN Citations |-> Citation(Citations[i])] \o [i \in DOMAIN Claims |-> Claim(Claims[i])]
Relationships == [i \in DOMAIN Claims |-> Relationship(Claims[i])]
Key == {Citation(c) : c \in Named(Citations)} \cup {Claim(p) : p \in Named(Claims)}
       \cup {Relationship(p) : p \in Named(Claims)}
Cited(k) == IF k.kind = "citation" THEN k.of ELSE CitationOf[k.of]

Entry == [status : {"none", "created", "reused", "skipped", "failed"},
          id : Nat, fingerprint : Seq(Nat)]
Blank == [status |-> "none", id |-> 0, fingerprint |-> <<>>]
NothingAsked == [corpus |-> NoCorpus, targets |-> {}, label |-> FALSE, links |-> FALSE]
NoReceipt == [corpus |-> NoCorpus, entries |-> [k \in Key |-> Blank]]

VARIABLES
    text,      \* the version of the wording of each citation and claim
    asked,     \* what the running invocation was given
    at,        \* where it is
    writing,   \* the keys whose writes are in flight
    entries,   \* what it has so far, by key
    receipt,   \* cite-export.json
    remote,    \* every record ever written to cite, by key
    edits, lapses, faults
vars == <<text, asked, at, writing, entries, receipt, remote, edits, lapses, faults>>

(***************************************************************************)
(* The plan.  A claim's annotation quotes its citation, and a relationship *)
(* is fingerprinted by those of its two ends.  Page, document, run and     *)
(* relationship label change with the text here; the annotation label is   *)
(* in no fingerprint.                                                      *)
(***************************************************************************)
FingerprintAlone(k) ==
    IF k.kind = "citation" THEN <<text[k.of]>>
    ELSE IF k.kind = "claim" THEN <<text[k.of], text[CitationOf[k.of]]>> ELSE <<0, 0>>

Fingerprint(k) ==
    IF k.kind = "citation" THEN <<text[k.of]>> ELSE <<text[k.of], text[CitationOf[k.of]]>>

Targeted(k) == Cited(k) \in asked.targets
Planned(k) == Targeted(k) /\ (k.kind = "relationship" => asked.label /\ asked.links)
PlanSkips(k) ==
    IF k.kind = "relationship" THEN Targeted(k) /\ asked.label /\ ~asked.links ELSE ~Targeted(k)

(* _reusable_entries, and the comparison each task begins with. *)
ReusableWhenCreated(k) ==
    /\ receipt.entries[k].id # 0
    /\ receipt.entries[k].status = "created"
    /\ receipt.entries[k].fingerprint = Fingerprint(k)

ReusableWithoutId(k) ==
    receipt.entries[k].status # "none" /\ receipt.entries[k].fingerprint = Fingerprint(k)

Reusable(k) ==
    /\ receipt.entries[k].id # 0
    /\ receipt.entries[k].status \in {"created", "reused"}
    /\ receipt.entries[k].fingerprint = Fingerprint(k)
Reused(k) == [receipt.entries[k] EXCEPT !.status = "reused"]
Outcome(k, status, id) == [status |-> status, id |-> id, fingerprint |-> Fingerprint(k)]

(***************************************************************************)
(* An invocation: the inputs and the receipt are loaded, a receipt of      *)
(* another corpus is refused, capabilities are discovered, annotations are *)
(* written, then relationships, then the receipt.                          *)
(***************************************************************************)
Init ==
    /\ text = [t \in Text |-> 0]
    /\ asked = NothingAsked
    /\ at = "idle" /\ writing = {}
    /\ entries = [k \in Key |-> Blank]
    /\ receipt = NoReceipt
    /\ remote = [k \in Key |-> <<>>]
    /\ edits = 0 /\ lapses = 0 /\ faults = 0

Begin(corpus, targets, label) ==
    /\ at = "idle" /\ receipt.corpus \in {NoCorpus, corpus}
    /\ asked' = [corpus |-> corpus, targets |-> targets, label |-> label, links |-> FALSE]
    /\ at' = "discovering"
    /\ UNCHANGED <<writing, entries, receipt, remote, faults>>

Retry ==
    /\ \E corpus \in Corpora : Begin(corpus, Named(Citations), TRUE)
    /\ UNCHANGED <<text, edits, lapses>>

Lapse ==
    /\ lapses < MaxLapses /\ lapses' = lapses + 1
    /\ \E corpus \in Corpora, targets \in SUBSET Named(Citations), label \in BOOLEAN :
        (targets # Named(Citations) \/ ~label) /\ Begin(corpus, targets, label)
    /\ UNCHANGED <<text, edits>>

(* The bundle is exported under the same ids with a wording it never had: the
   receipt does not know the wordings before the last one. *)
Edit ==
    /\ edits < MaxEdits /\ edits' = edits + 1
    /\ \E t \in Text : text' = [text EXCEPT ![t] = edits + 1]
    /\ \E corpus \in Corpora : Begin(corpus, Named(Citations), TRUE)
    /\ UNCHANGED lapses

Discover ==
    /\ at = "discovering"
    /\ \/ asked' = [asked EXCEPT !.links = TRUE] /\ UNCHANGED lapses
       \/ lapses < MaxLapses /\ lapses' = lapses + 1 /\ UNCHANGED asked
    /\ at' = "annotations"
    /\ entries' = [k \in Key |-> IF k.kind # "relationship" /\ Targeted(k) /\ Reusable(k)
                                 THEN Reused(k) ELSE Blank]
    /\ UNCHANGED <<text, writing, receipt, remote, edits, faults>>

(* The tasks that have nothing yet; the semaphore lets them in in order. *)
Tasks == IF at = "annotations" THEN Annotations ELSE Relationships
Waiting == {i \in DOMAIN Tasks : /\ Planned(Tasks[i])
                                 /\ entries[Tasks[i]] = Blank /\ Tasks[i] \notin writing}

SendAtOnce ==
    /\ at \in {"annotations", "relationships"} /\ Waiting # {}
    /\ writing' = writing \cup {Tasks[i] : i \in Waiting}
    /\ UNCHANGED <<text, asked, at, entries, receipt, remote, edits, lapses, faults>>

Send ==
    /\ at \in {"annotations", "relationships"} /\ Cardinality(writing) < Concurrency
    /\ \E i \in Waiting :
        /\ \A j \in Waiting : i <= j
        /\ writing' = writing \cup {Tasks[i]}
    /\ UNCHANGED <<text, asked, at, entries, receipt, remote, edits, lapses, faults>>

Ends(es, k) == <<es[Claim(k.of)].id, es[Citation(CitationOf[k.of])].id>>
Record(k) == [corpus |-> asked.corpus, fingerprint |-> Fingerprint(k),
              ends |-> IF k.kind = "relationship" THEN Ends(entries, k) ELSE <<>>]
Written(keys) ==
    [k \in Key |-> IF k \in keys THEN Append(remote[k], Record(k)) ELSE remote[k]]

Answered(k) ==
    /\ k \in writing /\ writing' = writing \ {k}
    /\ remote' = Written({k})
    /\ entries' = [entries EXCEPT ![k] = Outcome(k, "created", Len(remote[k]) + 1)]
    /\ UNCHANGED <<text, asked, at, receipt, edits, lapses, faults>>

(* A refusal, a timeout or an unreadable answer: written or not. *)
Fails(k) ==
    /\ k \in writing /\ writing' = writing \ {k}
    /\ faults < MaxFaults /\ faults' = faults + 1
    /\ remote' \in {remote, Written({k})}
    /\ entries' = [entries EXCEPT ![k] = Outcome(k, "failed", 0)]
    /\ UNCHANGED <<text, asked, at, receipt, edits, lapses>>

(* The tasks of the relationships: reuse, no remote id at an end, or a write. *)
Dependent(k) == Planned(k) /\ 0 \in Named(Ends(entries, k))
Gathered ==
    /\ at = "annotations" /\ Waiting = {} /\ writing = {}
    /\ at' = "relationships"
    /\ entries' = [k \in Key |->
        IF k.kind # "relationship" \/ ~Planned(k) THEN entries[k]
        ELSE IF Reusable(k) THEN Reused(k)
        ELSE IF Dependent(k) THEN Outcome(k, "skipped", 0)
        ELSE entries[k]]
    /\ UNCHANGED <<text, asked, writing, receipt, remote, edits, lapses, faults>>

Closed ==
    /\ at' = "idle" /\ writing' = {}
    /\ entries' = [k \in Key |-> Blank]
    /\ asked' = NothingAsked

WriteReceipt ==
    /\ at = "relationships" /\ Waiting = {} /\ writing = {}
    /\ receipt' = [corpus |-> asked.corpus, entries |->
        [k \in Key |-> IF PlanSkips(k) THEN [Blank EXCEPT !.status = "skipped"] ELSE entries[k]]]
    /\ Closed
    /\ UNCHANGED <<text, remote, edits, lapses, faults>>

(* The invocation ends without its receipt: addAnnotation is not advertised,
   the process is killed, or the receipt cannot be written. *)
Kill ==
    /\ at # "idle"
    /\ faults < MaxFaults /\ faults' = faults + 1
    /\ \E landed \in SUBSET writing : remote' = Written(landed)
    /\ Closed
    /\ UNCHANGED <<text, receipt, edits, lapses>>

Step == Discover \/ Send \/ (\E k \in writing : Answered(k)) \/ Gathered \/ WriteReceipt
Next == Retry \/ Lapse \/ Edit \/ Step \/ (\E k \in writing : Fails(k)) \/ Kill

(* The caller runs the command again, and cite answers all but MaxFaults
   times. *)
Spec == Init /\ [][Next]_vars /\ WF_vars(Retry) /\ WF_vars(Step)

--------------------------------------------------------------------------------
(* TypeOK: everything is of its kind, and writes in flight are planned ones
   without an entry, no more of them than --concurrency. *)
TypeOK ==
    /\ text \in [Text -> Nat]
    /\ asked \in [corpus : Corpora \cup {NoCorpus}, targets : SUBSET Named(Citations),
                  label : BOOLEAN, links : BOOLEAN]
    /\ at \in {"idle", "discovering", "annotations", "relationships"}
    /\ writing \subseteq Key /\ Cardinality(writing) <= Concurrency
    /\ \A k \in writing : Planned(k) /\ entries[k] = Blank
    /\ entries \in [Key -> Entry]
    /\ receipt \in [corpus : Corpora \cup {NoCorpus}, entries : [Key -> Entry]]
    /\ remote \in [Key -> Seq([corpus : Corpora, fingerprint : Seq(Nat), ends : Seq(Nat)])]
    /\ edits \in 0..MaxEdits /\ lapses \in 0..MaxLapses /\ faults \in 0..MaxFaults

(* ReceiptIsTrue: an entry of cite-export.json has an id exactly when it was
   created or reused, the id is that of a record of the receipt's corpus and
   of the entry's key and fingerprint, and a relationship the receipt names
   joins the very annotations the receipt names: what is reused, what is
   written again and what that joins agree over any sequence of partial
   exports (exporter.py:366-425). *)
Backed(es, k, corpus) ==
    /\ es[k].status \in {"created", "reused"}
    /\ es[k].id \in DOMAIN remote[k]
    /\ remote[k][es[k].id].corpus = corpus
    /\ remote[k][es[k].id].fingerprint = es[k].fingerprint
Sound(es, corpus) ==
    \A k \in Key : IF es[k].id = 0 THEN es[k].status \notin {"created", "reused"}
                  ELSE Backed(es, k, corpus)
Joined(es) ==
    \A p \in Named(Claims) : LET k == Relationship(p) IN
        es[k].id # 0 => remote[k][es[k].id].ends = Ends(es, k)
ReceiptIsTrue == Sound(receipt.entries, receipt.corpus) /\ Joined(receipt.entries)

(* DuplicatesAreCounted: a corpus never has more extra records of one key and
   fingerprint than writes and invocations failed and invocations were given
   less than they needed; no edit to a new wording, other corpus or concurrency
   writes a record again (docs/integrations/cite.md:90-98). *)
DuplicatesAreCounted ==
    \A k \in Key : \A i \in DOMAIN remote[k] :
        Cardinality({j \in DOMAIN remote[k] : /\ remote[k][j].corpus = remote[k][i].corpus
                                              /\ remote[k][j].fingerprint = remote[k][i].fingerprint})
            <= 1 + faults + lapses

(* NothingWrittenTwice: "Retrying a partial or completed export must not
   duplicate harvested records" (tests/adapters/cite/test_exporter.py:232). *)
NothingWrittenTwice ==
    \A k \in Key : \A i, j \in DOMAIN remote[k] :
        /\ remote[k][i].corpus = remote[k][j].corpus
        /\ remote[k][i].fingerprint = remote[k][j].fingerprint
        => i = j

(* RetriesConverge: a caller who keeps retrying with its last receipt comes
   to have a receipt that names a record of the bundle's present wording for
   every citation, claim and relationship, and keeps it
   (docs/integrations/cite.md:105). *)
Complete == \A k \in Key : receipt.entries[k].id # 0 /\ receipt.entries[k].fingerprint = Fingerprint(k)
RetriesConverge == <>[]Complete
================================================================================
