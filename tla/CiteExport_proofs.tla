--------------------------- MODULE CiteExport_proofs ---------------------------
(***************************************************************************)
(* The safety of an export, for every bundle, any corpora and any bounds:  *)
(* first ReceiptIsTrue, then TypeOK and DuplicatesAreCounted.              *)
(*                                                                         *)
(* A receipt is made of the entries of an invocation, and these of an      *)
(* earlier receipt and of new writes.  What has to be carried along is why *)
(* a reused relationship still joins the annotations of its receipt: it is *)
(* reused only under the fingerprints of both its ends, these ends have    *)
(* their ids in the earlier receipt under the same fingerprints, and so    *)
(* they were reused themselves.                                            *)
(***************************************************************************)
EXTENDS CiteExport, FiniteSetTheorems, TLAPS

(* What is true of a receipt, and of the entries of an invocation, when the
   records are r: ReceiptIsTrue, and that the ends of a relationship with an
   id have ids, under the wording the relationship was made for. *)
SoundIn(r, es, corpus) ==
    \A k \in Key :
        IF es[k].id = 0 THEN es[k].status \notin {"created", "reused"}
        ELSE /\ es[k].status \in {"created", "reused"}
             /\ es[k].id \in DOMAIN r[k]
             /\ r[k][es[k].id].corpus = corpus
             /\ r[k][es[k].id].fingerprint = es[k].fingerprint
EndsNamed(es, p) ==
    LET k == Relationship(p) IN
    /\ es[Claim(p)].id # 0 /\ es[Claim(p)].fingerprint = es[k].fingerprint
    /\ es[Citation(CitationOf[p])].id # 0
    /\ es[Citation(CitationOf[p])].fingerprint = <<es[k].fingerprint[2]>>
JoinedIn(r, es) ==
    \A p \in Named(Claims) : LET k == Relationship(p) IN
        es[k].id # 0 => r[k][es[k].id].ends = Ends(es, k) /\ EndsNamed(es, p)

RecordSet == [corpus : Corpora, fingerprint : Seq(Nat), ends : Seq(Nat)]
Records == [Key -> Seq(RecordSet)]
Working == at \in {"annotations", "relationships"}

Types ==
    /\ text \in [Text -> Nat] /\ edits \in Nat
    /\ asked \in [corpus : Corpora \cup {NoCorpus}, targets : SUBSET Named(Citations),
                  label : BOOLEAN, links : BOOLEAN]
    /\ receipt \in [corpus : Corpora \cup {NoCorpus}, entries : [Key -> Entry]]
    /\ at \in {"idle", "discovering", "annotations", "relationships"}
    /\ entries \in [Key -> Entry]
    /\ remote \in Records
    /\ writing \subseteq Key

(* The running invocation: its corpus is the receipt's, its entries hold and
   are of this plan and wording, and what could be reused was. *)
Corpus ==
    at # "idle" => asked.corpus \in Corpora /\ receipt.corpus \in {NoCorpus, asked.corpus}
Planning ==
    \A k \in Key : entries[k] # Blank => Planned(k) /\ entries[k].fingerprint = Fingerprint(k)
Reusing ==
    \A k \in Key : k.kind # "relationship" /\ Targeted(k) /\ Reusable(k) => entries[k] = Reused(k)
(* Annotations are finished before relationships are begun, and a
   relationship is written between two ids. *)
Writing ==
    \A k \in Key : k \in writing =>
        /\ Planned(k) /\ entries[k] = Blank
        /\ IF at = "annotations" THEN k.kind # "relationship" ELSE k.kind = "relationship"
Phases ==
    \A p \in Named(Claims) : LET k == Relationship(p) IN
        IF at = "annotations" THEN entries[k] = Blank
        ELSE Planned(k) /\ entries[k] = Blank => Ends(entries, k)[1] # 0 /\ Ends(entries, k)[2] # 0
Run ==
    IF Working THEN /\ SoundIn(remote, entries, asked.corpus) /\ JoinedIn(remote, entries)
                    /\ Planning /\ Reusing /\ Writing /\ Phases
    ELSE writing = {}

IInv ==
    /\ Types
    /\ SoundIn(remote, receipt.entries, receipt.corpus) /\ JoinedIn(remote, receipt.entries)
    /\ Corpus
    /\ Run

--------------------------------------------------------------------------------
(* Keys. *)
LEMMA Keys ==
    /\ \A p \in Named(Claims) :
        /\ Relationship(p) \in Key /\ Relationship(p).kind = "relationship" /\ Relationship(p).of = p
        /\ Claim(p) \in Key /\ Claim(p).kind = "claim" /\ Claim(p).of = p
        /\ CitationOf[p] \in Named(Citations)
        /\ Citation(CitationOf[p]) \in Key
        /\ Citation(CitationOf[p]).kind = "citation" /\ Citation(CitationOf[p]).of = CitationOf[p]
    /\ \A k \in Key :
        \/ k.kind = "citation" /\ k.of \in Named(Citations) /\ k = Citation(k.of)
        \/ k.kind = "claim" /\ k.of \in Named(Claims) /\ k = Claim(k.of)
        \/ k.kind = "relationship" /\ k.of \in Named(Claims) /\ k = Relationship(k.of)
<1>1. \A p \in Named(Claims) : CitationOf[p] \in Named(Citations)
  BY BundleAssumption
<1>2. \A p \in Named(Claims) : Relationship(p) \in Key /\ Claim(p) \in Key
  BY DEF Key
<1>3. \A c \in Named(Citations) : Citation(c) \in Key
  BY DEF Key
<1>4. \A x :
        /\ Relationship(x).kind = "relationship" /\ Relationship(x).of = x
        /\ Claim(x).kind = "claim" /\ Claim(x).of = x
        /\ Citation(x).kind = "citation" /\ Citation(x).of = x
  BY DEF Relationship, Claim, Citation
<1>5. \A k \in Key :
        \/ \E c \in Named(Citations) : k = Citation(c)
        \/ \E p \in Named(Claims) : k = Claim(p)
        \/ \E p \in Named(Claims) : k = Relationship(p)
  BY DEF Key
<1> QED BY <1>1, <1>2, <1>3, <1>4, <1>5

LEMMA TasksAreKeys ==
    /\ \A i \in DOMAIN Annotations : Annotations[i] \in Key /\ Annotations[i].kind # "relationship"
    /\ \A i \in DOMAIN Relationships : Relationships[i] \in Key /\ Relationships[i].kind = "relationship"
<1> DEFINE cs == [i \in DOMAIN Citations |-> Citation(Citations[i])]
           ps == [i \in DOMAIN Claims |-> Claim(Claims[i])]
           A == {k \in Key : k.kind # "relationship"}
<1>1. \A i \in DOMAIN Citations : Citation(Citations[i]) \in A
  BY DEF Key, Citation, Named
<1>2. \A i \in DOMAIN Claims : Claim(Claims[i]) \in A
  BY DEF Key, Claim, Named
<1>3. cs \in Seq(A) /\ ps \in Seq(A)
  <2>1. DOMAIN Citations = 1..Len(Citations) /\ Len(Citations) \in Nat
    BY BundleAssumption
  <2>2. DOMAIN Claims = 1..Len(Claims) /\ Len(Claims) \in Nat
    BY BundleAssumption
  <2> QED BY <1>1, <1>2, <2>1, <2>2
<1>4. cs \o ps \in Seq(A)
  BY <1>3
<1>5. \A i \in DOMAIN (cs \o ps) : (cs \o ps)[i] \in A
  BY <1>4
<1>6. \A i \in DOMAIN Annotations : Annotations[i] \in A
  BY <1>5 DEF Annotations
<1>7. \A i \in DOMAIN Relationships : Relationships[i] \in Key /\ Relationships[i].kind = "relationship"
  BY DEF Relationships, Key, Relationship, Named
<1> QED BY <1>6, <1>7

(* A fingerprint is a sequence of versions, and those of a relationship's
   ends are its own parts. *)
LEMMA Fingerprints ==
    ASSUME text \in [Text -> Nat]
    PROVE  /\ \A k \in Key : Fingerprint(k) \in Seq(Nat)
           /\ \A p \in Named(Claims) :
                /\ Fingerprint(Claim(p)) = Fingerprint(Relationship(p))
                /\ Fingerprint(Citation(CitationOf[p])) = <<Fingerprint(Relationship(p))[2]>>
<1>1. \A p \in Named(Claims) : text[p] \in Nat /\ text[CitationOf[p]] \in Nat
  BY Keys DEF Text
<1>2. \A c \in Named(Citations) : text[c] \in Nat
  BY DEF Text
<1>3. \A k \in Key : Fingerprint(k) \in Seq(Nat)
  BY <1>1, <1>2, Keys DEF Fingerprint
<1>4. \A p \in Named(Claims) :
        /\ Fingerprint(Claim(p)) = <<text[p], text[CitationOf[p]]>>
        /\ Fingerprint(Relationship(p)) = <<text[p], text[CitationOf[p]]>>
        /\ Fingerprint(Citation(CitationOf[p])) = <<text[CitationOf[p]]>>
  BY Keys DEF Fingerprint
<1> QED BY <1>3, <1>4

(* What holds of entries survives further records. *)
LEMMA RecordsStay ==
    ASSUME NEW r \in Records, NEW s, NEW es \in [Key -> Entry], NEW corpus,
           \A k \in Key : s[k] = r[k] \/ \E x \in RecordSet : s[k] = Append(r[k], x),
           SoundIn(r, es, corpus), JoinedIn(r, es)
    PROVE  SoundIn(s, es, corpus) /\ JoinedIn(s, es)
<1>1. \A k \in Key : \A i \in DOMAIN r[k] : i \in DOMAIN s[k] /\ s[k][i] = r[k][i]
  <2> SUFFICES ASSUME NEW k \in Key, NEW i \in DOMAIN r[k]
               PROVE  i \in DOMAIN s[k] /\ s[k][i] = r[k][i]
    OBVIOUS
  <2>1. DOMAIN r[k] = 1..Len(r[k]) /\ Len(r[k]) \in Nat /\ r[k] \in Seq(RecordSet)
    BY DEF Records
  <2>2. CASE \E x \in RecordSet : s[k] = Append(r[k], x)
    BY <2>1, <2>2
  <2> QED BY <2>2
<1>2. SoundIn(s, es, corpus)
  BY <1>1 DEF SoundIn
<1>3. JoinedIn(s, es)
  BY <1>1, Keys DEF SoundIn, JoinedIn
<1> QED BY <1>2, <1>3

(* What is reused has a record in the running invocation's corpus: the
   receipt of another corpus was refused. *)
LEMMA ReusedHolds ==
    ASSUME IInv, at # "idle", NEW k \in Key, Reusable(k)
    PROVE  /\ Reused(k) \in Entry /\ Reused(k).status = "reused"
           /\ Reused(k).id = receipt.entries[k].id /\ Reused(k).id # 0
           /\ Reused(k).fingerprint = Fingerprint(k)
           /\ Reused(k).id \in DOMAIN remote[k]
           /\ remote[k][Reused(k).id].corpus = asked.corpus
           /\ remote[k][Reused(k).id].fingerprint = Fingerprint(k)
<1>1. receipt.entries[k] \in Entry
  BY DEF IInv, Types
<1>2. /\ Reused(k) \in Entry /\ Reused(k).status = "reused"
      /\ Reused(k).id = receipt.entries[k].id /\ Reused(k).fingerprint = receipt.entries[k].fingerprint
  BY <1>1 DEF Reused, Entry
<1>3. /\ receipt.entries[k].id \in DOMAIN remote[k]
      /\ remote[k][receipt.entries[k].id].corpus = receipt.corpus
      /\ remote[k][receipt.entries[k].id].fingerprint = receipt.entries[k].fingerprint
  BY DEF IInv, SoundIn, Reusable
<1>4. remote[k][receipt.entries[k].id] \in RecordSet
  BY <1>3 DEF IInv, Types, Records
<1>5. receipt.corpus = asked.corpus
  BY <1>3, <1>4, BundleAssumption DEF IInv, Corpus, RecordSet
<1> QED BY <1>2, <1>3, <1>5 DEF Reusable

LEMMA RecordTyped == ASSUME IInv, at # "idle", NEW k \in Key PROVE Record(k) \in RecordSet
<1>1. k.kind = "relationship" => Ends(entries, k) \in Seq(Nat)
  <2> SUFFICES ASSUME k.kind = "relationship" PROVE Ends(entries, k) \in Seq(Nat)
    OBVIOUS
  <2>1. k.of \in Named(Claims)
    BY Keys
  <2>2. entries[Claim(k.of)].id \in Nat /\ entries[Citation(CitationOf[k.of])].id \in Nat
    BY <2>1, Keys DEF IInv, Types, Entry
  <2> QED BY <2>2 DEF Ends
<1>2. Fingerprint(k) \in Seq(Nat)
  BY Fingerprints DEF IInv, Types
<1>3. asked.corpus \in Corpora
  BY DEF IInv, Corpus
<1>4. <<>> \in Seq(Nat)
  OBVIOUS
<1> QED BY <1>1, <1>2, <1>3, <1>4 DEF Record, RecordSet

(* Records are only added, one of a key at a time. *)
LEMMA WrittenAdds ==
    ASSUME IInv, at # "idle", NEW keys \in SUBSET Key
    PROVE  /\ Written(keys) \in Records
           /\ \A k \in Key : \/ Written(keys)[k] = remote[k]
                            \/ \E x \in RecordSet : Written(keys)[k] = Append(remote[k], x)
<1>1. \A k \in Key : remote[k] \in Seq(RecordSet)
  BY DEF IInv, Types, Records
<1>2. \A k \in Key : Append(remote[k], Record(k)) \in Seq(RecordSet)
  BY <1>1, RecordTyped
<1> QED BY <1>1, <1>2, RecordTyped DEF Written, Records

--------------------------------------------------------------------------------
LEMMA Initially == Init => IInv
<1> SUFFICES ASSUME Init PROVE IInv
  OBVIOUS
<1> USE DEF Init
<1>1. Blank \in Entry /\ Blank.id = 0 /\ Blank.status = "none"
  BY DEF Blank, Entry
<1>2. /\ receipt = [corpus |-> NoCorpus, entries |-> [k \in Key |-> Blank]]
      /\ entries = [k \in Key |-> Blank]
  BY DEF NoReceipt
<1>3. Types
  BY <1>1, <1>2 DEF Types, Records, NothingAsked
<1>4. SoundIn(remote, receipt.entries, receipt.corpus) /\ JoinedIn(remote, receipt.entries)
  BY <1>1, <1>2, Keys DEF SoundIn, JoinedIn
<1> QED BY <1>3, <1>4 DEF IInv, Corpus, Run, Working

(* An invocation begins: Retry, Lapse, Edit. *)
LEMMA BeginHolds ==
    ASSUME IInv, NEW corpus \in Corpora, NEW targets \in SUBSET Named(Citations), NEW label \in BOOLEAN,
           Begin(corpus, targets, label), text' \in [Text -> Nat], edits' \in Nat
    PROVE  IInv'
<1> USE DEF Begin
<1>1. Types'
  BY DEF IInv, Types
<1>2. SoundIn(remote, receipt.entries, receipt.corpus)' /\ JoinedIn(remote, receipt.entries)'
  BY DEF IInv, SoundIn, JoinedIn, Ends, EndsNamed
<1>3. Corpus'
  BY DEF IInv, Corpus
<1>4. Run'
  BY DEF IInv, Run, Working
<1> QED BY <1>1, <1>2, <1>3, <1>4 DEF IInv

LEMMA DiscoverHolds == ASSUME IInv, Discover PROVE IInv'
<1> USE DEF Discover
<1>1. \A k \in Key : (Targeted(k) <=> Targeted(k)') /\ Fingerprint(k)' = Fingerprint(k) /\ (Reusable(k) <=> Reusable(k)') /\ Reused(k)' = Reused(k)
  BY DEF IInv, Types, Targeted, Fingerprint, Reusable, Reused
<1>2. asked'.corpus = asked.corpus
  BY DEF IInv, Types
<1>3. \A k \in Key :
        entries'[k] = IF k.kind # "relationship" /\ Targeted(k) /\ Reusable(k) THEN Reused(k) ELSE Blank
  OBVIOUS
<1>4. Blank \in Entry /\ Blank.id = 0 /\ Blank.status = "none"
  BY DEF Blank, Entry
<1>5. \A k \in Key : entries'[k] \in Entry
  BY <1>3, <1>4, ReusedHolds
<1>6. Types'
  BY <1>5 DEF IInv, Types
<1>7. SoundIn(remote, receipt.entries, receipt.corpus)' /\ JoinedIn(remote, receipt.entries)'
  BY DEF IInv, SoundIn, JoinedIn, Ends, EndsNamed
<1>8. Corpus'
  BY <1>2 DEF IInv, Corpus
<1>9. Run'
  <2>1. SoundIn(remote, entries, asked.corpus)'
    BY <1>2, <1>3, <1>4, ReusedHolds DEF SoundIn
  <2>2. \A p \in Named(Claims) : entries'[Relationship(p)] = Blank
    BY <1>3, Keys
  <2>3. JoinedIn(remote, entries)'
    BY <2>2, <1>4 DEF JoinedIn
  <2>4. Planning'
    BY <1>1, <1>3, ReusedHolds DEF Planning, Planned
  <2>5. Reusing'
    BY <1>1, <1>3 DEF Reusing
  <2>6. Writing' /\ Phases'
    BY <2>2 DEF IInv, Run, Working, Writing, Phases
  <2>7. Working'
    BY DEF Working
  <2> QED BY <2>1, <2>3, <2>4, <2>5, <2>6, <2>7 DEF Run
<1> QED BY <1>6, <1>7, <1>8, <1>9 DEF IInv

(* The steps of the tasks leave plan, wording and receipt as they are. *)
LEMMA PlanStays ==
    ASSUME UNCHANGED <<text, asked, receipt>>
    PROVE  /\ \A k \in Key :
                /\ Planned(k)' <=> Planned(k)
                /\ Targeted(k)' <=> Targeted(k)
                /\ Fingerprint(k)' = Fingerprint(k)
                /\ Reusable(k)' <=> Reusable(k)
                /\ Reused(k)' = Reused(k)
           /\ Corpus /\ at # "idle" => Corpus'
<1> SUFFICES ASSUME NEW k \in Key
             PROVE  /\ Planned(k)' <=> Planned(k)
                    /\ Targeted(k)' <=> Targeted(k)
                    /\ Fingerprint(k)' = Fingerprint(k)
                    /\ Reusable(k)' <=> Reusable(k)
                    /\ Reused(k)' = Reused(k)
  BY DEF Corpus
<1>1. Targeted(k)' <=> Targeted(k)
  BY DEF Targeted
<1>2. Planned(k)' <=> Planned(k)
  BY DEF Planned, Targeted
<1>3. Fingerprint(k)' = Fingerprint(k)
  BY DEF Fingerprint
<1>4. Reusable(k)' <=> Reusable(k)
  BY DEF Reusable, Fingerprint
<1>5. Reused(k)' = Reused(k)
  BY DEF Reused
<1> QED BY <1>1, <1>2, <1>3, <1>4, <1>5

LEMMA SendHolds == ASSUME IInv, Send PROVE IInv'
<1> USE DEF Send
<1>1. PICK i \in Waiting : writing' = writing \cup {Tasks[i]}
  OBVIOUS
<1>2. /\ Tasks[i] \in Key /\ Planned(Tasks[i]) /\ entries[Tasks[i]] = Blank
      /\ IF at = "annotations" THEN Tasks[i].kind # "relationship" ELSE Tasks[i].kind = "relationship"
  BY <1>1, TasksAreKeys DEF Waiting, Tasks
<1>3. Types'
  BY <1>1, <1>2 DEF IInv, Types
<1>4. SoundIn(remote, receipt.entries, receipt.corpus)' /\ JoinedIn(remote, receipt.entries)'
  BY DEF IInv, SoundIn, JoinedIn, Ends, EndsNamed
<1>5. Corpus'
  BY PlanStays DEF IInv
<1>6. Run'
  <2>1. SoundIn(remote, entries, asked.corpus)' /\ JoinedIn(remote, entries)'
    BY DEF IInv, Run, Working, SoundIn, JoinedIn, Ends, EndsNamed
  <2>2. Planning' /\ Reusing'
    BY PlanStays DEF IInv, Run, Working, Planning, Reusing
  <2>3. Writing'
    BY <1>1, <1>2, PlanStays DEF IInv, Run, Working, Writing
  <2>4. Phases'
    BY PlanStays, Keys DEF IInv, Run, Working, Phases, Ends
  <2>5. Working'
    BY DEF Working
  <2> QED BY <2>1, <2>2, <2>3, <2>4, <2>5 DEF Run
<1> QED BY <1>3, <1>4, <1>5, <1>6 DEF IInv

(* What a task in flight ends with: an entry with or without an id. *)
LEMMA OutcomeHolds ==
    ASSUME IInv, NEW k \in writing, NEW status \in {"created", "failed"}, NEW id \in Nat,
           (status = "created") <=> (id # 0),
           entries' = [entries EXCEPT ![k] = Outcome(k, status, id)],
           writing' = writing \ {k},
           UNCHANGED <<text, asked, at, receipt, edits>>,
           remote' \in Records,
           \A j \in Key : remote'[j] = remote[j] \/ \E x \in RecordSet : remote'[j] = Append(remote[j], x),
           id # 0 => id \in DOMAIN remote'[k] /\ remote'[k][id] = Record(k)
    PROVE  IInv'
<1>1. Working /\ k \in Key /\ Planned(k) /\ entries[k] = Blank
  BY DEF IInv, Types, Run, Writing
<1>2. Outcome(k, status, id) \in Entry /\ Outcome(k, status, id).fingerprint = Fingerprint(k)
      /\ Outcome(k, status, id).status = status /\ Outcome(k, status, id).id = id
      /\ Outcome(k, status, id) # Blank
  BY <1>1, Fingerprints DEF Outcome, Entry, IInv, Types, Blank
<1>3. /\ entries'[k] = Outcome(k, status, id)
      /\ \A j \in Key : j # k => entries'[j] = entries[j]
  BY <1>1 DEF IInv, Types
<1>4. Types'
  BY <1>1, <1>2, <1>3 DEF IInv, Types
<1>5. SoundIn(remote, receipt.entries, receipt.corpus)' /\ JoinedIn(remote, receipt.entries)'
  <2>1. SoundIn(remote', receipt.entries, receipt.corpus) /\ JoinedIn(remote', receipt.entries)
    BY RecordsStay DEF IInv, Types
  <2> QED BY <2>1 DEF SoundIn, JoinedIn, Ends, EndsNamed
<1>6. Corpus'
  BY <1>1, PlanStays DEF IInv, Working
<1>7. SoundIn(remote', entries, asked.corpus) /\ JoinedIn(remote', entries)
  BY <1>1, RecordsStay DEF IInv, Types, Run
<1>8. SoundIn(remote, entries, asked.corpus)'
  <2>1. id # 0 => remote'[k][id].corpus = asked.corpus /\ remote'[k][id].fingerprint = Fingerprint(k)
    BY DEF Record
  <2> QED BY <1>2, <1>3, <1>7, <2>1 DEF SoundIn
<1>9. JoinedIn(remote, entries)'
  <2> SUFFICES ASSUME NEW p \in Named(Claims), entries'[Relationship(p)].id # 0
               PROVE  /\ remote'[Relationship(p)][entries'[Relationship(p)].id].ends = Ends(entries', Relationship(p))
                      /\ EndsNamed(entries', p)
    BY DEF JoinedIn, Ends, EndsNamed
  <2>1. at = "relationships"
    <3> SUFFICES ASSUME at = "annotations" PROVE FALSE
      BY <1>1 DEF Working
    <3>1. entries[Relationship(p)] = Blank
      BY <1>1 DEF IInv, Run, Phases
    <3>2. k # Relationship(p)
      BY Keys DEF IInv, Run, Writing
    <3> QED BY <1>3, <3>1, <3>2, Keys DEF Blank
  <2>2. k.kind = "relationship"
    BY <1>1, <2>1 DEF IInv, Run, Writing
  <2>3. /\ entries'[Claim(p)] = entries[Claim(p)]
        /\ entries'[Citation(CitationOf[p])] = entries[Citation(CitationOf[p])]
    BY <1>3, <2>2, Keys
  <2>4. Ends(entries', Relationship(p)) = Ends(entries, Relationship(p))
    BY <2>3, Keys DEF Ends
  <2>5. CASE k # Relationship(p)
    <3>1. entries'[Relationship(p)] = entries[Relationship(p)]
      BY <1>3, <2>5, Keys
    <3>2. /\ remote'[Relationship(p)][entries[Relationship(p)].id].ends = Ends(entries, Relationship(p))
          /\ EndsNamed(entries, p)
      BY <1>7, <3>1 DEF JoinedIn
    <3>3. EndsNamed(entries', p)
      BY <2>3, <3>1, <3>2 DEF EndsNamed
    <3> QED BY <2>4, <3>1, <3>2, <3>3
  <2>6. CASE k = Relationship(p)
    <3>1. id # 0 /\ entries'[k].id = id /\ entries'[k].fingerprint = Fingerprint(k)
      BY <1>2, <1>3, <2>6
    <3>2. remote'[k][id].ends = Ends(entries, k)
      BY <2>2, <3>1 DEF Record
    <3>3. entries[Claim(p)].id # 0 /\ entries[Citation(CitationOf[p])].id # 0
      BY <1>1, <2>1, <2>6, Keys DEF IInv, Run, Phases, Ends
    <3>4. /\ entries[Claim(p)].fingerprint = Fingerprint(Claim(p))
          /\ entries[Citation(CitationOf[p])].fingerprint = Fingerprint(Citation(CitationOf[p]))
      BY <1>1, <3>3, Keys DEF IInv, Run, Planning, Blank
    <3>5. EndsNamed(entries', p)
      BY <2>3, <2>6, <3>1, <3>3, <3>4, Fingerprints DEF EndsNamed, IInv, Types
    <3> QED BY <2>4, <2>6, <3>1, <3>2, <3>5
  <2> QED BY <2>5, <2>6
<1>10. Planning'
  BY <1>1, <1>2, <1>3, PlanStays DEF IInv, Run, Planning
<1>11. Reusing'
  <2>1. \A j \in Key : j.kind # "relationship" /\ Targeted(j) /\ Reusable(j) => entries[j] # Blank
    <3>1. \A j \in Key : Reusable(j) => Reused(j) # Blank
      BY <1>1, ReusedHolds DEF Working, Blank
    <3> QED BY <1>1, <3>1 DEF IInv, Run, Reusing
  <2> QED BY <1>1, <1>3, <2>1, PlanStays DEF IInv, Run, Reusing
<1>12. Writing'
  BY <1>1, <1>3, PlanStays DEF IInv, Run, Writing
<1>13. Phases'
  <2> SUFFICES ASSUME NEW p \in Named(Claims)
               PROVE  IF at = "annotations" THEN entries'[Relationship(p)] = Blank
                      ELSE Planned(Relationship(p)) /\ entries'[Relationship(p)] = Blank =>
                           Ends(entries', Relationship(p))[1] # 0 /\ Ends(entries', Relationship(p))[2] # 0
    BY PlanStays, Keys DEF Phases, Ends
  <2>1. CASE at = "annotations"
    BY <1>1, <1>3, <2>1, Keys DEF IInv, Run, Phases, Writing
  <2>2. CASE at # "annotations"
    <3>1. k.kind = "relationship"
      BY <1>1, <2>2 DEF IInv, Run, Writing
    <3>2. Ends(entries', Relationship(p)) = Ends(entries, Relationship(p))
      BY <1>3, <3>1, Keys DEF Ends
    <3>3. entries'[Relationship(p)] = Blank => entries[Relationship(p)] = Blank
      BY <1>2, <1>3, <1>1, Keys
    <3> QED BY <1>1, <2>2, <3>2, <3>3 DEF IInv, Run, Phases
  <2> QED BY <2>1, <2>2
<1>14. Working'
  BY <1>1 DEF Working
<1> QED BY <1>4, <1>5, <1>6, <1>8, <1>9, <1>10, <1>11, <1>12, <1>13, <1>14 DEF IInv, Run

LEMMA AnsweredHolds == ASSUME IInv, NEW k \in writing, Answered(k) PROVE IInv'
<1>1. at # "idle" /\ k \in Key
  BY DEF IInv, Types, Run, Working
<1>2. /\ Written({k}) \in Records
      /\ \A j \in Key : Written({k})[j] = remote[j] \/ \E x \in RecordSet : Written({k})[j] = Append(remote[j], x)
      /\ Written({k})[k] = Append(remote[k], Record(k))
  <2>1. {k} \in SUBSET Key
    BY <1>1
  <2>2. Written({k})[k] = Append(remote[k], Record(k))
    BY <1>1 DEF Written
  <2> QED BY <1>1, <2>1, <2>2, WrittenAdds
<1>3. remote[k] \in Seq(RecordSet) /\ Len(remote[k]) \in Nat
  BY <1>1 DEF IInv, Types, Records
<1>4. Written({k})[k] \in Seq(RecordSet)
  BY <1>1, <1>2 DEF Records
<1>5. Record(k) \in RecordSet
  BY <1>1, RecordTyped
<1>6. Len(remote[k]) + 1 \in DOMAIN Written({k})[k] /\ Written({k})[k][Len(remote[k]) + 1] = Record(k)
  BY <1>2, <1>3, <1>5
<1>7. Len(remote[k]) + 1 \in Nat /\ Len(remote[k]) + 1 # 0
  BY <1>3
<1> QED BY <1>2, <1>6, <1>7, OutcomeHolds DEF Answered

LEMMA FailsHolds == ASSUME IInv, NEW k \in writing, Fails(k) PROVE IInv'
<1>1. at # "idle" /\ k \in Key
  BY DEF IInv, Types, Run, Working
<1>2. /\ remote' \in Records
      /\ \A j \in Key : remote'[j] = remote[j] \/ \E x \in RecordSet : remote'[j] = Append(remote[j], x)
  BY <1>1, WrittenAdds DEF Fails, IInv, Types
<1> QED BY <1>2, OutcomeHolds DEF Fails

LEMMA GatheredHolds == ASSUME IInv, Gathered PROVE IInv'
<1> USE DEF Gathered
<1>1. Working /\ at # "idle" /\ Working' /\ at' = "relationships"
  BY DEF Working
<1>2. \A k \in Key :
        entries'[k] = IF k.kind # "relationship" \/ ~Planned(k) THEN entries[k]
                      ELSE IF Reusable(k) THEN Reused(k)
                      ELSE IF Dependent(k) THEN Outcome(k, "skipped", 0)
                      ELSE entries[k]
  OBVIOUS
<1>3. \A k \in Key :
        /\ Outcome(k, "skipped", 0) \in Entry /\ Outcome(k, "skipped", 0).fingerprint = Fingerprint(k)
        /\ Outcome(k, "skipped", 0).status = "skipped" /\ Outcome(k, "skipped", 0).id = 0
        /\ Outcome(k, "skipped", 0) # Blank
  BY Fingerprints DEF Outcome, Entry, IInv, Types, Blank
<1>4. \A k \in Key : entries'[k] \in Entry
  BY <1>1, <1>2, <1>3, ReusedHolds DEF IInv, Types
<1>5. Types'
  BY <1>4 DEF IInv, Types
<1>6. SoundIn(remote, receipt.entries, receipt.corpus)' /\ JoinedIn(remote, receipt.entries)'
  BY DEF IInv, SoundIn, JoinedIn, Ends, EndsNamed
<1>7. Corpus'
  BY <1>1, PlanStays DEF IInv
<1>8. SoundIn(remote, entries, asked.corpus)'
  BY <1>1, <1>2, <1>3, ReusedHolds DEF IInv, Run, SoundIn
<1>9. \A p \in Named(Claims) :
        /\ entries'[Claim(p)] = entries[Claim(p)]
        /\ entries'[Citation(CitationOf[p])] = entries[Citation(CitationOf[p])]
        /\ Ends(entries', Relationship(p)) = Ends(entries, Relationship(p))
  BY <1>2, Keys DEF Ends
<1>10. JoinedIn(remote, entries)'
  <2> SUFFICES ASSUME NEW p \in Named(Claims), entries'[Relationship(p)].id # 0
               PROVE  /\ remote[Relationship(p)][entries'[Relationship(p)].id].ends = Ends(entries', Relationship(p))
                      /\ EndsNamed(entries', p)
    BY DEF JoinedIn, Ends, EndsNamed
  <2> DEFINE k == Relationship(p)
             c == Citation(CitationOf[p])
  <2>1. k \in Key /\ Claim(p) \in Key /\ c \in Key
    BY Keys
  <2>2. CASE entries'[k] = entries[k]
    <3>1. remote[k][entries[k].id].ends = Ends(entries, k) /\ EndsNamed(entries, p)
      BY <1>1, <2>2 DEF IInv, Run, JoinedIn
    <3>2. EndsNamed(entries', p)
      BY <1>9, <2>2, <3>1 DEF EndsNamed
    <3> QED BY <1>9, <2>2, <3>1, <3>2
  <2>3. CASE entries'[k] # entries[k]
    <3>1. Planned(k) /\ Reusable(k) /\ entries'[k] = Reused(k)
      BY <1>2, <1>3, <2>1, <2>3
    <3>2. /\ receipt.entries[k].id # 0 /\ entries'[k].id = receipt.entries[k].id
          /\ receipt.entries[k].fingerprint = Fingerprint(k) /\ entries'[k].fingerprint = Fingerprint(k)
      BY <1>1, <2>1, <3>1, ReusedHolds DEF Reusable
    <3>3. /\ remote[k][receipt.entries[k].id].ends = Ends(receipt.entries, k)
          /\ EndsNamed(receipt.entries, p)
      BY <3>2 DEF IInv, JoinedIn
    <3>4. Reusable(Claim(p)) /\ Reusable(c)
      BY <2>1, <3>2, <3>3, Fingerprints DEF EndsNamed, Reusable, IInv, Types, SoundIn
    <3>5. Targeted(Claim(p)) /\ Targeted(c)
      BY <3>1, Keys DEF Planned, Targeted, Cited
    <3>6. entries[Claim(p)] = Reused(Claim(p)) /\ entries[c] = Reused(c)
      BY <1>1, <2>1, <3>4, <3>5, Keys DEF IInv, Run, Reusing
    <3>7. /\ entries[Claim(p)].id = receipt.entries[Claim(p)].id
          /\ entries[Claim(p)].fingerprint = Fingerprint(Claim(p))
          /\ entries[c].id = receipt.entries[c].id
          /\ entries[c].fingerprint = Fingerprint(c)
      BY <1>1, <2>1, <3>4, <3>6, ReusedHolds
    <3>8. Ends(entries', k) = Ends(receipt.entries, k)
      BY <1>9, <3>7, Keys DEF Ends
    <3>9. EndsNamed(entries', p)
      <4>1. /\ Fingerprint(Claim(p)) = Fingerprint(k)
            /\ Fingerprint(c) = <<Fingerprint(k)[2]>>
        BY Fingerprints DEF IInv, Types
      <4>2. receipt.entries[Claim(p)].id # 0 /\ receipt.entries[c].id # 0
        BY <3>3 DEF EndsNamed
      <4> QED BY <1>9, <3>2, <3>7, <4>1, <4>2 DEF EndsNamed
    <3> QED BY <3>2, <3>3, <3>8, <3>9
  <2> QED BY <2>2, <2>3
<1>11. Planning'
  BY <1>1, <1>2, <1>3, PlanStays, ReusedHolds DEF IInv, Run, Planning
<1>12. Reusing'
  BY <1>1, <1>2, PlanStays DEF IInv, Run, Reusing
<1>13. Writing'
  BY DEF Writing
<1>14. Phases'
  <2> SUFFICES ASSUME NEW p \in Named(Claims), Planned(Relationship(p)), entries'[Relationship(p)] = Blank
               PROVE  Ends(entries', Relationship(p))[1] # 0 /\ Ends(entries', Relationship(p))[2] # 0
    BY <1>1, PlanStays, Keys DEF Phases, Ends
  <2>1. ~Dependent(Relationship(p))
    BY <1>1, <1>2, <1>3, Keys, ReusedHolds DEF Blank
  <2>2. Ends(entries, Relationship(p))[1] # 0 /\ Ends(entries, Relationship(p))[2] # 0
    BY <2>1 DEF Dependent, Named, Ends
  <2> QED BY <1>9, <2>2
<1> QED BY <1>1, <1>5, <1>6, <1>7, <1>8, <1>10, <1>11, <1>12, <1>13, <1>14 DEF IInv, Run

LEMMA WriteReceiptHolds == ASSUME IInv, WriteReceipt PROVE IInv'
<1> USE DEF WriteReceipt, Closed
<1> DEFINE es == [k \in Key |-> IF PlanSkips(k) THEN [Blank EXCEPT !.status = "skipped"] ELSE entries[k]]
<1>1. Working /\ ~Working' /\ receipt' = [corpus |-> asked.corpus, entries |-> es]
  BY DEF Working
<1>2. /\ [Blank EXCEPT !.status = "skipped"] \in Entry
      /\ [Blank EXCEPT !.status = "skipped"].id = 0
      /\ [Blank EXCEPT !.status = "skipped"].status = "skipped"
      /\ Blank \in Entry
  <2>1. [Blank EXCEPT !.status = "skipped"] = [status |-> "skipped", id |-> 0, fingerprint |-> <<>>]
    BY DEF Blank
  <2>2. Blank \in Entry /\ [status |-> "skipped", id |-> 0, fingerprint |-> <<>>] \in Entry
    BY DEF Blank, Entry
  <2> QED BY <2>1, <2>2
<1>3. es \in [Key -> Entry]
  BY <1>2 DEF IInv, Types
<1>4. asked.corpus \in Corpora
  BY <1>1 DEF IInv, Corpus, Working
<1>5. Types'
  BY <1>1, <1>2, <1>3, <1>4 DEF IInv, Types, NothingAsked
<1>6. SoundIn(remote, es, asked.corpus)
  BY <1>1, <1>2 DEF IInv, Run, SoundIn
<1>7. JoinedIn(remote, es)
  <2> SUFFICES ASSUME NEW p \in Named(Claims), es[Relationship(p)].id # 0
               PROVE  /\ remote[Relationship(p)][es[Relationship(p)].id].ends = Ends(es, Relationship(p))
                      /\ EndsNamed(es, p)
    BY DEF JoinedIn
  <2> DEFINE k == Relationship(p)
             c == Citation(CitationOf[p])
  <2>1. k \in Key /\ Claim(p) \in Key /\ c \in Key
    BY Keys
  <2>2. es[k] = entries[k] /\ entries[k].id # 0
    BY <1>2, <2>1
  <2>3. Planned(k)
    BY <1>1, <2>1, <2>2 DEF IInv, Run, Planning, Blank
  <2>4. ~PlanSkips(Claim(p)) /\ ~PlanSkips(c)
    BY <2>3, Keys DEF Planned, PlanSkips, Targeted, Cited
  <2>5. es[Claim(p)] = entries[Claim(p)] /\ es[c] = entries[c]
    BY <2>1, <2>4
  <2>6. remote[k][entries[k].id].ends = Ends(entries, k) /\ EndsNamed(entries, p)
    BY <1>1, <2>2 DEF IInv, Run, JoinedIn
  <2>7. Ends(es, k) = Ends(entries, k)
    BY <2>5, Keys DEF Ends
  <2>8. EndsNamed(es, p)
    BY <2>2, <2>5, <2>6 DEF EndsNamed
  <2> QED BY <2>2, <2>6, <2>7, <2>8
<1>8. SoundIn(remote, receipt.entries, receipt.corpus)' /\ JoinedIn(remote, receipt.entries)'
  <2>1. receipt'.corpus = asked.corpus /\ receipt'.entries = es /\ remote' = remote
    BY <1>1
  <2>2. SoundIn(remote', receipt'.entries, receipt'.corpus) /\ JoinedIn(remote', receipt'.entries)
    BY <1>6, <1>7, <2>1
  <2> QED BY <2>2 DEF SoundIn, JoinedIn, Ends, EndsNamed
<1> QED BY <1>1, <1>5, <1>8 DEF IInv, Corpus, Run

LEMMA KillHolds == ASSUME IInv, Kill PROVE IInv'
<1> USE DEF Kill, Closed
<1>1. PICK landed \in SUBSET writing : remote' = Written(landed)
  OBVIOUS
<1>2. /\ remote' \in Records
      /\ \A j \in Key : remote'[j] = remote[j] \/ \E x \in RecordSet : remote'[j] = Append(remote[j], x)
  BY <1>1, WrittenAdds DEF IInv, Types
<1>3. Blank \in Entry
  BY DEF Blank, Entry
<1>4. Types'
  BY <1>2, <1>3 DEF IInv, Types, NothingAsked
<1>5. SoundIn(remote, receipt.entries, receipt.corpus)' /\ JoinedIn(remote, receipt.entries)'
  <2>1. SoundIn(remote', receipt.entries, receipt.corpus) /\ JoinedIn(remote', receipt.entries)
    BY <1>2, RecordsStay DEF IInv, Types
  <2> QED BY <2>1 DEF SoundIn, JoinedIn, Ends, EndsNamed
<1> QED BY <1>4, <1>5 DEF IInv, Corpus, Run, Working

LEMMA IInvStep == IInv /\ [Next]_vars => IInv'
<1> SUFFICES ASSUME IInv, [Next]_vars PROVE IInv'
  OBVIOUS
<1>1. CASE Retry
  BY <1>1, BeginHolds DEF Retry, IInv, Types
<1>2. CASE Lapse
  <2>1. PICK corpus \in Corpora, targets \in SUBSET Named(Citations), label \in BOOLEAN :
          Begin(corpus, targets, label)
    BY <1>2 DEF Lapse
  <2>2. text' \in [Text -> Nat] /\ edits' \in Nat
    BY <1>2 DEF Lapse, IInv, Types
  <2> QED BY <2>1, <2>2, BeginHolds
<1>3. CASE Edit
  <2>1. text' \in [Text -> Nat] /\ edits' \in Nat
    BY <1>3 DEF Edit, IInv, Types
  <2> QED BY <1>3, <2>1, BeginHolds DEF Edit
<1>4. CASE Step
  BY <1>4, DiscoverHolds, SendHolds, AnsweredHolds, GatheredHolds, WriteReceiptHolds DEF Step
<1>5. CASE \E k \in writing : Fails(k)
  BY <1>5, FailsHolds
<1>6. CASE Kill
  BY <1>6, KillHolds
<1>7. CASE UNCHANGED vars
  <2> USE <1>7 DEF vars
  <2>1. Types' /\ Corpus'
    BY DEF IInv, Types, Corpus
  <2>2. SoundIn(remote, receipt.entries, receipt.corpus)' /\ JoinedIn(remote, receipt.entries)'
    BY DEF IInv, SoundIn, JoinedIn, Ends, EndsNamed
  <2>3. (Working' <=> Working) /\ writing' = writing
    BY DEF Working
  <2>4. CASE Working
    <3>1. SoundIn(remote, entries, asked.corpus)' /\ JoinedIn(remote, entries)'
      BY <2>4 DEF IInv, Run, SoundIn, JoinedIn, Ends, EndsNamed
    <3>2. Planning' /\ Reusing' /\ Writing'
      BY <2>4, PlanStays DEF IInv, Run, Planning, Reusing, Writing
    <3>3. Phases'
      BY <2>4, PlanStays, Keys DEF IInv, Run, Phases, Ends
    <3> QED BY <2>1, <2>2, <2>3, <2>4, <3>1, <3>2, <3>3 DEF IInv, Run
  <2>5. CASE ~Working
    BY <2>1, <2>2, <2>3, <2>5 DEF IInv, Run
  <2> QED BY <2>4, <2>5
<1> QED BY <1>1, <1>2, <1>3, <1>4, <1>5, <1>6, <1>7 DEF Next

LEMMA IInvHolds == Spec => []IInv
  BY Initially, IInvStep, PTL DEF Spec

(* Every receipt names records that are there and belong together, whatever
   failed, was left out or changed between the exports that made it
   (export_bundle_to_cite). *)
THEOREM ReceiptsAreTrue == Spec => []ReceiptIsTrue
<1>1. IInv => ReceiptIsTrue
  BY DEF IInv, ReceiptIsTrue, SoundIn, JoinedIn, Sound, Backed, Joined
<1> QED BY <1>1, IInvHolds, PTL

--------------------------------------------------------------------------------
(***************************************************************************)
(* TypeOK and DuplicatesAreCounted.  Faults and lapses are counted; each    *)
(* pays for one record of a key.  The one record a key may have besides is  *)
(* named, by the receipt or by the entries of the invocation that runs     *)
(* (Spoken).  A key whose record is spoken for is not written, and one that *)
(* is written has none.                                                     *)
(***************************************************************************)
Alike(log, c, f) == {j \in DOMAIN log : log[j].corpus = c /\ log[j].fingerprint = f}
Copies(log, c, f) == Cardinality(Alike(log, c, f))
Events == faults + lapses

(* An invocation that discovers will plan this key, unless it lapses. *)
WillPlan(k) == Targeted(k) /\ (k.kind = "relationship" => asked.label)
Spoken(k, c) ==
    CASE at = "idle" -> c = receipt.corpus /\ Reusable(k)
      [] at = "discovering" -> c = asked.corpus /\ WillPlan(k) /\ Reusable(k)
      [] OTHER -> /\ c = asked.corpus
                  /\ \/ entries[k].id # 0
                     \/ k.kind = "relationship" /\ at = "annotations" /\ Planned(k) /\ Reusable(k)

Counters ==
    /\ IsFiniteSet(writing) /\ Cardinality(writing) <= Concurrency
    /\ edits \in 0..MaxEdits /\ lapses \in 0..MaxLapses /\ faults \in 0..MaxFaults
(* A new wording has a version that no record was made from. *)
Versions ==
    /\ \A t \in Text : text[t] <= edits
    /\ \A k \in Key : \A i \in DOMAIN remote[k] : \A j \in DOMAIN remote[k][i].fingerprint :
        remote[k][i].fingerprint[j] <= edits
Counted ==
    \A k \in Key, c \in Corpora :
        /\ \A f \in Seq(Nat) : Copies(remote[k], c, f) <= 1 + Events
        /\ ~Spoken(k, c) => Copies(remote[k], c, Fingerprint(k)) <= Events
CountInv == Counters /\ Versions /\ Counted

LEMMA CopiesAre ==
    ASSUME NEW log \in Seq(RecordSet), NEW c, NEW f
    PROVE  /\ IsFiniteSet(Alike(log, c, f)) /\ Copies(log, c, f) \in Nat
           /\ (\A j \in DOMAIN log : log[j].fingerprint # f) => Copies(log, c, f) = 0
<1>1. DOMAIN log = 1..Len(log) /\ Len(log) \in Nat
  OBVIOUS
<1>2. IsFiniteSet(DOMAIN log)
  BY <1>1, FS_Interval
<1>3. Alike(log, c, f) \in SUBSET DOMAIN log
  BY DEF Alike
<1>4. IsFiniteSet(Alike(log, c, f))
  BY <1>2, <1>3, FS_Subset
<1>5. (\A j \in DOMAIN log : log[j].fingerprint # f) => Alike(log, c, f) = {}
  BY DEF Alike
<1> QED BY <1>4, <1>5, FS_CardinalityType, FS_EmptySet DEF Copies

LEMMA AppendCounts ==
    ASSUME NEW log \in Seq(RecordSet), NEW x \in RecordSet, NEW c, NEW f
    PROVE  /\ Copies(Append(log, x), c, f) <= Copies(log, c, f) + 1
           /\ ~(x.corpus = c /\ x.fingerprint = f) => Copies(Append(log, x), c, f) = Copies(log, c, f)
<1> DEFINE n == Len(log) + 1
           s == Append(log, x)
<1>1. DOMAIN log = 1..Len(log) /\ Len(log) \in Nat
  OBVIOUS
<1>2. /\ DOMAIN s = 1..n /\ s[n] = x
      /\ \A j \in DOMAIN log : s[j] = log[j]
  BY <1>1
<1>3. DOMAIN s = DOMAIN log \cup {n} /\ n \notin DOMAIN log
  BY <1>1, <1>2
<1> HIDE DEF n, s
<1>4. CASE x.corpus = c /\ x.fingerprint = f
  <2>1. Alike(s, c, f) = Alike(log, c, f) \cup {n} /\ n \notin Alike(log, c, f)
    BY <1>2, <1>3, <1>4 DEF Alike
  <2>2. Cardinality(Alike(s, c, f)) = Cardinality(Alike(log, c, f)) + 1
    BY <2>1, CopiesAre, FS_AddElement
  <2>3. Copies(s, c, f) = Copies(log, c, f) + 1
    BY <2>2 DEF Copies
  <2> QED BY <1>4, <2>3, CopiesAre DEF s
<1>5. CASE ~(x.corpus = c /\ x.fingerprint = f)
  <2>1. Alike(s, c, f) = Alike(log, c, f)
    BY <1>2, <1>3, <1>5 DEF Alike
  <2>2. Copies(s, c, f) = Copies(log, c, f)
    BY <2>1 DEF Copies
  <2> QED BY <1>5, <2>2, CopiesAre DEF s
<1> QED BY <1>4, <1>5

LEMMA Remote == ASSUME IInv, NEW k \in Key PROVE remote[k] \in Seq(RecordSet)
  BY DEF IInv, Types, Records

LEMMA EventsAre == ASSUME Counters PROVE Events \in Nat
<1>1. faults \in Nat /\ lapses \in Nat
  BY BoundsAssumption DEF Counters
<1> QED BY <1>1 DEF Events

(* Nothing is written while its record is spoken for. *)
LEMMA WrittenIsUnspoken ==
    ASSUME IInv, NEW k \in writing, NEW c
    PROVE  ~Spoken(k, c)
<1>1. Working /\ k \in Key
  BY DEF IInv, Types, Run
<1>2. entries[k].id = 0 /\ (at = "annotations" => k.kind # "relationship")
  BY <1>1 DEF IInv, Run, Writing, Blank
<1> QED BY <1>1, <1>2 DEF Spoken, Working

(* So one write of it makes no more records than one and the events. *)
LEMMA WriteCounts ==
    ASSUME IInv, Counters, Counted, NEW k \in writing, NEW c \in Corpora, NEW f \in Seq(Nat)
    PROVE  Copies(Append(remote[k], Record(k)), c, f) <= 1 + Events
<1>1. at # "idle" /\ k \in Key
  BY DEF IInv, Types, Run, Working
<1>2. Record(k) \in RecordSet /\ remote[k] \in Seq(RecordSet) /\ Events \in Nat
  BY <1>1, RecordTyped, Remote, EventsAre
<1>3. Record(k).fingerprint = Fingerprint(k)
  BY DEF Record
<1>4. Copies(remote[k], c, f) \in Nat /\ Copies(remote[k], c, Fingerprint(k)) \in Nat
  BY <1>2, CopiesAre
<1>5. CASE f = Fingerprint(k)
  <2>1. Copies(remote[k], c, f) <= Events
    BY <1>1, <1>5, WrittenIsUnspoken DEF Counted
  <2>2. Copies(Append(remote[k], Record(k)), c, f) <= Copies(remote[k], c, f) + 1
    BY <1>2, AppendCounts
  <2>3. Copies(Append(remote[k], Record(k)), c, f) \in Nat
    <3>1. Append(remote[k], Record(k)) \in Seq(RecordSet)
      BY <1>2
    <3> QED BY <3>1, CopiesAre
  <2> QED BY <1>2, <1>4, <2>1, <2>2, <2>3
<1>6. CASE f # Fingerprint(k)
  <2>1. Copies(Append(remote[k], Record(k)), c, f) = Copies(remote[k], c, f)
    BY <1>2, <1>3, <1>6, AppendCounts
  <2> QED BY <1>1, <2>1 DEF Counted
<1> QED BY <1>5, <1>6

(* A step that is a fault or a lapse pays for whatever it writes. *)
LEMMA PaidCounts ==
    ASSUME IInv, IInv', Counters, Counted, Events' = Events + 1,
           NEW S \in SUBSET writing, remote' = Written(S)
    PROVE  Counted'
<1>1. \A k \in Key, c \in Corpora, f \in Seq(Nat) : Copies(remote'[k], c, f) <= 1 + Events
  <2> SUFFICES ASSUME NEW k \in Key, NEW c \in Corpora, NEW f \in Seq(Nat)
               PROVE  Copies(remote'[k], c, f) <= 1 + Events
    OBVIOUS
  <2>1. CASE k \in S
    <3>1. remote'[k] = Append(remote[k], Record(k))
      BY <2>1 DEF Written
    <3> QED BY <2>1, <3>1, WriteCounts
  <2>2. CASE k \notin S
    BY <2>2 DEF Written, Counted
  <2> QED BY <2>1, <2>2
<1>2. \A k \in Key : Fingerprint(k)' \in Seq(Nat)
  <2>1. (text \in [Text -> Nat] => \A k \in Key : Fingerprint(k) \in Seq(Nat))'
    BY Fingerprints, PTL
  <2> QED BY <2>1 DEF IInv, Types
<1>3. \A k \in Key, c \in Corpora, f \in Seq(Nat) : Copies(remote'[k], c, f) \in Nat
  <2>1. \A k \in Key : remote'[k] \in Seq(RecordSet)
    BY DEF IInv, Types, Records
  <2> QED BY <2>1, CopiesAre
<1>4. Events \in Nat
  BY EventsAre
<1>5. \A k \in Key, c \in Corpora :
        /\ \A f \in Seq(Nat) : Copies(remote'[k], c, f) <= 1 + Events'
        /\ Copies(remote'[k], c, Fingerprint(k)') <= Events'
  BY <1>1, <1>2, <1>3, <1>4
<1> QED BY <1>5 DEF Counted, Copies, Alike

--------------------------------------------------------------------------------
LEMMA CountInvStarts == Init => CountInv
<1> SUFFICES ASSUME Init PROVE CountInv
  OBVIOUS
<1> USE DEF Init
<1>1. Counters
  BY BoundsAssumption, FS_EmptySet DEF Counters
<1>2. Versions
  BY DEF Versions
<1>3. Events = 0
  BY DEF Events
<1>4. \A k \in Key : \A c, f : Copies(remote[k], c, f) = 0
  BY FS_EmptySet DEF Copies, Alike
<1>5. Counted
  BY <1>3, <1>4 DEF Counted
<1> QED BY <1>1, <1>2, <1>5 DEF CountInv

LEMMA CountersStep ==
    ASSUME IInv, Counters, [Next]_vars
    PROVE  Counters'
<1> USE DEF Counters
<1>1. /\ edits \in Nat /\ lapses \in Nat /\ faults \in Nat
      /\ MaxEdits \in Nat /\ MaxLapses \in Nat /\ MaxFaults \in Nat /\ Concurrency \in Nat
  BY BoundsAssumption
<1>2. Cardinality(writing) \in Nat
  BY FS_CardinalityType
<1>3. \A k \in writing : IsFiniteSet(writing \ {k}) /\ Cardinality(writing \ {k}) <= Concurrency
  <2> SUFFICES ASSUME NEW k \in writing
               PROVE  IsFiniteSet(writing \ {k}) /\ Cardinality(writing \ {k}) <= Concurrency
    OBVIOUS
  <2>1. IsFiniteSet(writing \ {k}) /\ Cardinality(writing \ {k}) = Cardinality(writing) - 1
    BY FS_RemoveElement
  <2> QED BY <1>1, <1>2, <2>1
<1>4. IsFiniteSet({}) /\ Cardinality({}) <= Concurrency
  BY <1>1, FS_EmptySet
<1>5. CASE Retry
  BY <1>5 DEF Retry, Begin
<1>6. CASE Lapse
  BY <1>1, <1>6 DEF Lapse, Begin
<1>7. CASE Edit
  BY <1>1, <1>7 DEF Edit, Begin
<1>8. CASE Discover
  BY <1>1, <1>8 DEF Discover
<1>9. CASE Send
  <2>1. PICK k : writing' = writing \cup {k}
    BY <1>9 DEF Send
  <2>2. IsFiniteSet(writing') /\ Cardinality(writing') <= Cardinality(writing) + 1
    BY <1>2, <2>1, FS_AddElement
  <2>3. Cardinality(writing') \in Nat
    BY <2>2, FS_CardinalityType
  <2> QED BY <1>1, <1>2, <1>9, <2>2, <2>3 DEF Send
<1>10. CASE \E k \in writing : Answered(k)
  BY <1>3, <1>10 DEF Answered
<1>11. CASE Gathered
  BY <1>11 DEF Gathered
<1>12. CASE WriteReceipt
  BY <1>4, <1>12 DEF WriteReceipt, Closed
<1>13. CASE \E k \in writing : Fails(k)
  BY <1>1, <1>3, <1>13 DEF Fails
<1>14. CASE Kill
  BY <1>1, <1>4, <1>14 DEF Kill, Closed
<1>15. CASE UNCHANGED vars
  BY <1>15 DEF vars
<1> QED BY <1>5, <1>6, <1>7, <1>8, <1>9, <1>10, <1>11, <1>12, <1>13, <1>14, <1>15 DEF Next, Step

(* Records are only added, under the wording of now. *)
LEMMA RecordsGrow ==
    ASSUME IInv, [Next]_vars
    PROVE  \/ remote' = remote
           \/ /\ at # "idle" /\ text' = text /\ edits' = edits
              /\ \E S \in SUBSET writing : remote' = Written(S)
<1>1. \A k \in writing : at # "idle" /\ {k} \in SUBSET writing
  BY DEF IInv, Run, Working
<1>2. CASE Retry \/ Lapse \/ Edit
  BY <1>2 DEF Retry, Lapse, Edit, Begin
<1>3. CASE Discover \/ Send \/ Gathered \/ WriteReceipt
  BY <1>3 DEF Discover, Send, Gathered, WriteReceipt
<1>4. CASE \E k \in writing : Answered(k)
  BY <1>1, <1>4 DEF Answered
<1>5. CASE \E k \in writing : Fails(k)
  BY <1>1, <1>5 DEF Fails
<1>6. CASE Kill
  BY <1>6 DEF Kill
<1>7. CASE UNCHANGED vars
  BY <1>7 DEF vars
<1> QED BY <1>2, <1>3, <1>4, <1>5, <1>6, <1>7 DEF Next, Step

(* Every part of a fingerprint is the version of a wording. *)
LEMMA FingerprintParts ==
    ASSUME text \in [Text -> Nat], NEW k \in Key
    PROVE  \A j \in DOMAIN Fingerprint(k) : \E t \in Text : Fingerprint(k)[j] = text[t]
<1>1. CASE k.kind = "citation"
  <2>1. k.of \in Text /\ Fingerprint(k) = <<text[k.of]>>
    BY <1>1, Keys DEF Text, Fingerprint
  <2> QED BY <2>1
<1>2. CASE k.kind # "citation"
  <2>1. k.of \in Text /\ CitationOf[k.of] \in Text /\ Fingerprint(k) = <<text[k.of], text[CitationOf[k.of]]>>
    BY <1>2, Keys DEF Text, Fingerprint
  <2> QED BY <2>1
<1> QED BY <1>1, <1>2

LEMMA VersionsStep ==
    ASSUME IInv, Counters, Versions, [Next]_vars
    PROVE  Versions'
<1>1. edits \in Nat /\ text \in [Text -> Nat]
  BY DEF IInv, Types
<1>2. edits' \in Nat /\ edits <= edits' /\ \A t \in Text : text'[t] <= edits'
  <2>1. CASE Edit
    <3>1. edits' = edits + 1 /\ \E t \in Text : text' = [text EXCEPT ![t] = edits + 1]
      BY <2>1 DEF Edit
    <3> QED BY <1>1, <3>1 DEF Versions
  <2>2. CASE ~Edit
    <3>1. edits' = edits /\ text' = text
      BY <2>2 DEF Next, Step, Retry, Lapse, Begin, Discover, Send, Answered, Gathered, WriteReceipt, Fails, Kill, vars
    <3> QED BY <1>1, <3>1 DEF Versions
  <2> QED BY <2>1, <2>2
<1>3. \A k \in Key : \A i \in DOMAIN remote[k] : \A j \in DOMAIN remote[k][i].fingerprint :
        remote[k][i].fingerprint[j] <= edits'
  <2>1. \A k \in Key : \A i \in DOMAIN remote[k] : \A j \in DOMAIN remote[k][i].fingerprint :
          remote[k][i].fingerprint[j] \in Nat
    <3> SUFFICES ASSUME NEW k \in Key, NEW i \in DOMAIN remote[k], NEW j \in DOMAIN remote[k][i].fingerprint
                 PROVE  remote[k][i].fingerprint[j] \in Nat
      OBVIOUS
    <3>1. remote[k][i] \in RecordSet
      BY Remote
    <3>2. remote[k][i].fingerprint \in Seq(Nat)
      BY <3>1 DEF RecordSet
    <3> QED BY <3>2
  <2> QED BY <1>1, <1>2, <2>1 DEF Versions
<1>4. \A k \in Key : \A i \in DOMAIN remote'[k] : \A j \in DOMAIN remote'[k][i].fingerprint :
        remote'[k][i].fingerprint[j] <= edits'
  <2>1. CASE remote' = remote
    BY <1>3, <2>1
  <2>2. CASE remote' # remote
    <3>1. PICK S \in SUBSET writing : remote' = Written(S)
      BY <2>2, RecordsGrow
    <3>2. at # "idle" /\ text' = text /\ edits' = edits
      BY <2>2, RecordsGrow
    <3> SUFFICES ASSUME NEW k \in Key, NEW i \in DOMAIN remote'[k], NEW j \in DOMAIN remote'[k][i].fingerprint
                 PROVE  remote'[k][i].fingerprint[j] <= edits'
      OBVIOUS
    <3>3. CASE remote'[k] = remote[k]
      BY <1>3, <3>3
    <3>4. CASE remote'[k] # remote[k]
      <4>1. remote'[k] = Append(remote[k], Record(k)) /\ remote[k] \in Seq(RecordSet) /\ Record(k) \in RecordSet
        BY <3>1, <3>2, <3>4, Remote, RecordTyped DEF Written
      <4>2. (i \in DOMAIN remote[k] /\ remote'[k][i] = remote[k][i]) \/ remote'[k][i] = Record(k)
        BY <4>1
      <4>3. CASE remote'[k][i] = Record(k)
        BY <1>1, <3>2, <4>3, FingerprintParts DEF Record, Versions
      <4> QED BY <1>3, <4>2, <4>3
    <3> QED BY <3>3, <3>4
  <2> QED BY <2>1, <2>2
<1> QED BY <1>2, <1>4 DEF Versions

--------------------------------------------------------------------------------
(* A step that writes nothing, is no event and keeps every claim to a record
   leaves the counts as they are. *)
LEMMA QuietCounts ==
    ASSUME Counted, remote' = remote, Events' = Events,
           \A k \in Key : Fingerprint(k)' = Fingerprint(k),
           \A k \in Key, c \in Corpora : Spoken(k, c) => Spoken(k, c)'
    PROVE  Counted'
<1>1. \A k \in Key, c \in Corpora :
        /\ \A f \in Seq(Nat) : Copies(remote'[k], c, f) <= 1 + Events'
        /\ ~Spoken(k, c)' => Copies(remote'[k], c, Fingerprint(k)') <= Events'
  BY DEF Counted
<1> QED BY <1>1 DEF Counted, Copies, Alike

(* A full invocation plans every key: what the receipt names and the wording
   still has stays spoken for. *)
LEMMA BeginSpeaks ==
    ASSUME IInv, NEW corpus \in Corpora, Begin(corpus, Named(Citations), TRUE),
           NEW k \in Key, NEW c \in Corpora, Fingerprint(k)' = Fingerprint(k),
           Spoken(k, c)
    PROVE  Spoken(k, c)'
<1> USE DEF Begin
<1>1. c = receipt.corpus /\ Reusable(k)
  BY DEF Spoken
<1>2. Reusable(k)' /\ c = corpus
  BY <1>1, BundleAssumption DEF Reusable
<1>3. asked'.targets = Named(Citations) /\ asked'.label = TRUE /\ asked'.corpus = corpus
  OBVIOUS
<1>4. Cited(k) \in Named(Citations)
  BY Keys, BundleAssumption DEF Cited
<1>5. WillPlan(k)'
  BY <1>3, <1>4 DEF WillPlan, Targeted
<1> QED BY <1>2, <1>3, <1>5 DEF Spoken

LEMMA RetryCounts == ASSUME IInv, Counted, Retry PROVE Counted'
<1>1. PICK corpus \in Corpora : Begin(corpus, Named(Citations), TRUE)
  BY DEF Retry
<1>2. \A k \in Key : Fingerprint(k)' = Fingerprint(k)
  BY DEF Retry, Fingerprint
<1>3. remote' = remote /\ Events' = Events
  BY <1>1 DEF Retry, Begin, Events
<1>4. \A k \in Key, c \in Corpora : Spoken(k, c) => Spoken(k, c)'
  BY <1>1, <1>2, BeginSpeaks
<1> QED BY <1>2, <1>3, <1>4, QuietCounts

(* A new wording has a fingerprint that no record has. *)
LEMMA EditCounts == ASSUME IInv, IInv', CountInv, Edit PROVE Counted'
<1>1. PICK corpus \in Corpora : Begin(corpus, Named(Citations), TRUE)
  BY DEF Edit
<1>2. PICK t \in Text : text' = [text EXCEPT ![t] = edits + 1]
  BY DEF Edit
<1>3. remote' = remote /\ Events' = Events /\ Events \in Nat
  BY <1>1, EventsAre DEF Edit, Begin, Events, CountInv
<1>4. text \in [Text -> Nat] /\ text' \in [Text -> Nat] /\ edits \in Nat
  BY DEF IInv, Types
<1>5. \A k \in Key, c \in Corpora : Fingerprint(k)' # Fingerprint(k) => Copies(remote[k], c, Fingerprint(k)') = 0
  <2> SUFFICES ASSUME NEW k \in Key, NEW c \in Corpora, Fingerprint(k)' # Fingerprint(k)
               PROVE  Copies(remote[k], c, Fingerprint(k)') = 0
    OBVIOUS
  <2>1. \E j \in DOMAIN Fingerprint(k)' : Fingerprint(k)'[j] = edits + 1
    <3>1. CASE k.kind = "citation"
      <4>1. k.of \in Text /\ Fingerprint(k) = <<text[k.of]>> /\ Fingerprint(k)' = <<text'[k.of]>>
        BY <3>1, Keys DEF Text, Fingerprint
      <4>2. text'[k.of] # text[k.of]
        BY <4>1
      <4>3. text'[k.of] = edits + 1
        BY <1>2, <1>4, <4>1, <4>2
      <4>4. 1 \in DOMAIN Fingerprint(k)' /\ Fingerprint(k)'[1] = edits + 1
        BY <4>1, <4>3
      <4> QED BY <4>4
    <3>2. CASE k.kind # "citation"
      <4> DEFINE a == k.of
                 b == CitationOf[k.of]
      <4>1. a \in Text /\ b \in Text /\ Fingerprint(k) = <<text[a], text[b]>> /\ Fingerprint(k)' = <<text'[a], text'[b]>>
        BY <3>2, Keys DEF Text, Fingerprint
      <4>2. text'[a] # text[a] \/ text'[b] # text[b]
        BY <4>1
      <4>3. text'[a] = edits + 1 \/ text'[b] = edits + 1
        BY <1>2, <1>4, <4>1, <4>2
      <4>4. /\ 1 \in DOMAIN Fingerprint(k)' /\ Fingerprint(k)'[1] = text'[a]
            /\ 2 \in DOMAIN Fingerprint(k)' /\ Fingerprint(k)'[2] = text'[b]
        BY <4>1
      <4> QED BY <4>3, <4>4
    <3> QED BY <3>1, <3>2
  <2>2. \A i \in DOMAIN remote[k] : remote[k][i].fingerprint # Fingerprint(k)'
    BY <1>4, <2>1 DEF CountInv, Versions
  <2> QED BY <2>2, Remote, CopiesAre
<1>6. \A k \in Key, c \in Corpora : Fingerprint(k)' = Fingerprint(k) /\ Spoken(k, c) => Spoken(k, c)'
  BY <1>1, BeginSpeaks
<1>7. \A k \in Key, c \in Corpora :
        /\ \A f \in Seq(Nat) : Copies(remote'[k], c, f) <= 1 + Events'
        /\ ~Spoken(k, c)' => Copies(remote'[k], c, Fingerprint(k)') <= Events'
  BY <1>3, <1>5, <1>6 DEF CountInv, Counted
<1> QED BY <1>7 DEF Counted, Copies, Alike

LEMMA NothingWritten == ASSUME IInv PROVE Written({}) = remote
  BY DEF IInv, Types, Records, Written

(* A lapse pays for what its receipt will forget. *)
LEMMA DiscoverCounts == ASSUME IInv, IInv', CountInv, Discover PROVE Counted'
<1> USE DEF Discover
<1>1. CASE lapses' = lapses + 1
  <2>1. Events' = Events + 1
    BY <1>1, BoundsAssumption DEF Events, CountInv, Counters
  <2>2. remote' = Written({}) /\ {} \in SUBSET writing
    BY NothingWritten
  <2> QED BY <2>1, <2>2, PaidCounts DEF CountInv
<1>2. CASE asked' = [asked EXCEPT !.links = TRUE] /\ UNCHANGED lapses
  <2>1. Events' = Events /\ remote' = remote
    BY <1>2 DEF Events
  <2>2. \A k \in Key : /\ Fingerprint(k)' = Fingerprint(k) /\ (Reusable(k)' <=> Reusable(k))
                       /\ (Targeted(k)' <=> Targeted(k)) /\ (WillPlan(k) => Planned(k)')
    BY <1>2 DEF Fingerprint, Reusable, Targeted, WillPlan, Planned, IInv, Types
  <2>3. asked'.corpus = asked.corpus
    BY <1>2 DEF IInv, Types
  <2>4. \A k \in Key, c \in Corpora : Spoken(k, c) => Spoken(k, c)'
    <3> SUFFICES ASSUME NEW k \in Key, NEW c \in Corpora, Spoken(k, c)
                 PROVE  Spoken(k, c)'
      OBVIOUS
    <3>1. c = asked.corpus /\ WillPlan(k) /\ Reusable(k)
      BY DEF Spoken
    <3>2. at' = "annotations"
      OBVIOUS
    <3>3. CASE k.kind = "relationship"
      BY <2>2, <2>3, <3>1, <3>2, <3>3 DEF Spoken
    <3>4. CASE k.kind # "relationship"
      <4>1. entries'[k] = Reused(k) /\ Reused(k).id # 0
        BY <3>1, <3>4, ReusedHolds DEF WillPlan
      <4> QED BY <2>3, <3>1, <3>2, <4>1 DEF Spoken
    <3> QED BY <3>3, <3>4
  <2> QED BY <2>1, <2>2, <2>4, QuietCounts DEF CountInv
<1> QED BY <1>1, <1>2

LEMMA AnsweredCounts == ASSUME IInv, IInv', CountInv, NEW k \in writing, Answered(k) PROVE Counted'
<1> USE DEF Answered
<1>1. Working /\ k \in Key
  BY DEF IInv, Types, Run
<1>2. Events' = Events /\ \A j \in Key : /\ Fingerprint(j)' = Fingerprint(j) /\ (Reusable(j)' <=> Reusable(j))
                                        /\ (Planned(j)' <=> Planned(j))
  BY PlanStays DEF Events
<1>3. \A j \in Key : j # k => remote'[j] = remote[j] /\ entries'[j] = entries[j]
  BY <1>1 DEF Written, IInv, Types
<1>4. remote[k] \in Seq(RecordSet) /\ Record(k) \in RecordSet
  BY <1>1, Remote, RecordTyped DEF Working
<1>5. remote'[k] = Append(remote[k], Record(k)) /\ entries'[k].id # 0
  <2>1. entries'[k] = Outcome(k, "created", Len(remote[k]) + 1)
    BY <1>1 DEF IInv, Types
  <2>2. Outcome(k, "created", Len(remote[k]) + 1).id = Len(remote[k]) + 1
    BY DEF Outcome
  <2>3. Len(remote[k]) \in Nat
    BY <1>4
  <2> QED BY <1>1, <2>1, <2>2, <2>3 DEF Written
<1>6. \A c \in Corpora : ~Spoken(k, c)' => c # asked.corpus
  BY <1>1, <1>5 DEF Spoken, Working
<1>7. \A j \in Key, c \in Corpora : j # k => (Spoken(j, c) => Spoken(j, c)')
  BY <1>1, <1>2, <1>3 DEF Spoken, Working
<1>8. \A j \in Key, c \in Corpora, f \in Seq(Nat) : Copies(remote'[j], c, f) <= 1 + Events'
  <2> SUFFICES ASSUME NEW j \in Key, NEW c \in Corpora, NEW f \in Seq(Nat)
               PROVE  Copies(remote'[j], c, f) <= 1 + Events'
    OBVIOUS
  <2>1. CASE j = k
    BY <1>2, <1>5, <2>1, WriteCounts DEF CountInv
  <2>2. CASE j # k
    BY <1>2, <1>3, <2>2 DEF CountInv, Counted
  <2> QED BY <2>1, <2>2
<1>9. \A j \in Key, c \in Corpora : ~Spoken(j, c)' => Copies(remote'[j], c, Fingerprint(j)') <= Events'
  <2> SUFFICES ASSUME NEW j \in Key, NEW c \in Corpora, ~Spoken(j, c)'
               PROVE  Copies(remote'[j], c, Fingerprint(j)') <= Events'
    OBVIOUS
  <2>1. CASE j = k
    <3>1. Record(k).corpus # c
      BY <1>6, <2>1 DEF Record
    <3>2. Copies(Append(remote[k], Record(k)), c, Fingerprint(k)) = Copies(remote[k], c, Fingerprint(k))
      BY <1>4, <3>1, AppendCounts
    <3> QED BY <1>1, <1>2, <1>5, <2>1, <3>2, WrittenIsUnspoken DEF CountInv, Counted
  <2>2. CASE j # k
    BY <1>2, <1>3, <1>7, <2>2 DEF CountInv, Counted
  <2> QED BY <2>1, <2>2
<1> QED BY <1>8, <1>9 DEF Counted, Copies, Alike

LEMMA GatheredCounts == ASSUME IInv, CountInv, Gathered PROVE Counted'
<1> USE DEF Gathered
<1>1. Working /\ at # "idle" /\ at' = "relationships"
  BY DEF Working
<1>2. /\ remote' = remote /\ Events' = Events
      /\ \A k \in Key : Fingerprint(k)' = Fingerprint(k)
  BY PlanStays DEF Events
<1>3. \A k \in Key, c \in Corpora : Spoken(k, c) => Spoken(k, c)'
  <2> SUFFICES ASSUME NEW k \in Key, NEW c \in Corpora, Spoken(k, c)
               PROVE  c = asked.corpus /\ entries'[k].id # 0
    BY <1>1 DEF Spoken
  <2>1. /\ c = asked.corpus
        /\ entries[k].id # 0 \/ (k.kind = "relationship" /\ Planned(k) /\ Reusable(k))
    BY <1>1 DEF Spoken
  <2>2. CASE k.kind # "relationship"
    <3>1. entries'[k] = entries[k]
      BY <2>2
    <3> QED BY <2>1, <2>2, <3>1
  <2>3. CASE k.kind = "relationship"
    <3>1. entries[k].id = 0
      BY <1>1, <2>3, Keys DEF IInv, Run, Phases, Blank
    <3>2. entries'[k] = Reused(k)
      BY <2>1, <2>3, <3>1
    <3> QED BY <1>1, <2>1, <3>1, <3>2, ReusedHolds
  <2> QED BY <2>2, <2>3
<1> QED BY <1>2, <1>3, QuietCounts DEF CountInv

(* An id of the entries is an id of the receipt, under the wording of now. *)
LEMMA WriteReceiptCounts == ASSUME IInv, CountInv, WriteReceipt PROVE Counted'
<1> USE DEF WriteReceipt, Closed
<1>1. Working
  BY DEF Working
<1>2. /\ remote' = remote /\ Events' = Events
      /\ \A k \in Key : Fingerprint(k)' = Fingerprint(k)
  BY DEF Events, Fingerprint
<1>3. \A k \in Key, c \in Corpora : Spoken(k, c) => Spoken(k, c)'
  <2> SUFFICES ASSUME NEW k \in Key, NEW c \in Corpora, Spoken(k, c)
               PROVE  c = receipt'.corpus /\ Reusable(k)'
    BY DEF Spoken
  <2>1. c = asked.corpus /\ entries[k].id # 0
    BY DEF Spoken
  <2>2. Planned(k) /\ entries[k].fingerprint = Fingerprint(k)
    BY <1>1, <2>1 DEF IInv, Run, Planning, Blank
  <2>3. ~PlanSkips(k)
    BY <2>2 DEF Planned, PlanSkips
  <2>4. receipt'.corpus = asked.corpus /\ receipt'.entries[k] = entries[k]
    BY <2>3
  <2>5. entries[k].status \in {"created", "reused"}
    BY <1>1, <2>1 DEF IInv, Run, SoundIn
  <2> QED BY <1>2, <2>1, <2>2, <2>4, <2>5 DEF Reusable
<1> QED BY <1>2, <1>3, QuietCounts DEF CountInv

LEMMA CountedStep ==
    ASSUME IInv, IInv', CountInv, [Next]_vars
    PROVE  Counted'
<1>1. faults \in Nat /\ lapses \in Nat
  BY BoundsAssumption DEF CountInv, Counters
<1>2. {} \in SUBSET writing /\ remote = Written({})
  BY NothingWritten
<1>3. CASE Retry
  BY <1>3, RetryCounts DEF CountInv
<1>4. CASE Lapse
  <2>1. Events' = Events + 1 /\ remote' = Written({})
    BY <1>1, <1>2, <1>4 DEF Lapse, Begin, Events
  <2> QED BY <1>2, <2>1, PaidCounts DEF CountInv
<1>5. CASE Edit
  BY <1>5, EditCounts
<1>6. CASE Discover
  BY <1>6, DiscoverCounts
<1>7. CASE Send
  <2>1. UNCHANGED <<text, asked, at, entries, receipt, remote, lapses, faults>>
    BY <1>7 DEF Send
  <2>2. Events' = Events /\ \A k \in Key : Fingerprint(k)' = Fingerprint(k)
    BY <2>1 DEF Events, Fingerprint
  <2>3. \A k \in Key, c \in Corpora : Spoken(k, c) => Spoken(k, c)'
    BY <2>1 DEF Spoken, Reusable, Fingerprint, WillPlan, Targeted, Planned
  <2> QED BY <2>1, <2>2, <2>3, QuietCounts DEF CountInv
<1>8. CASE \E k \in writing : Answered(k)
  BY <1>8, AnsweredCounts
<1>9. CASE Gathered
  BY <1>9, GatheredCounts
<1>10. CASE WriteReceipt
  BY <1>10, WriteReceiptCounts
<1>11. CASE \E k \in writing : Fails(k)
  <2>1. PICK k \in writing : Fails(k)
    BY <1>11
  <2>2. Events' = Events + 1
    BY <1>1, <2>1 DEF Fails, Events
  <2>3. {k} \in SUBSET writing /\ remote' \in {Written({}), Written({k})}
    BY <1>2, <2>1 DEF Fails
  <2> QED BY <1>2, <2>2, <2>3, PaidCounts DEF CountInv
<1>12. CASE Kill
  <2>1. Events' = Events + 1
    BY <1>1, <1>12 DEF Kill, Events
  <2> QED BY <1>12, <2>1, PaidCounts DEF CountInv, Kill
<1>13. CASE UNCHANGED vars
  <2>1. UNCHANGED <<text, asked, at, entries, receipt, remote, lapses, faults>>
    BY <1>13 DEF vars
  <2>2. Events' = Events /\ \A k \in Key : Fingerprint(k)' = Fingerprint(k)
    BY <2>1 DEF Events, Fingerprint
  <2>3. \A k \in Key, c \in Corpora : Spoken(k, c) => Spoken(k, c)'
    BY <2>1 DEF Spoken, Reusable, Fingerprint, WillPlan, Targeted, Planned
  <2> QED BY <2>1, <2>2, <2>3, QuietCounts DEF CountInv
<1> QED BY <1>3, <1>4, <1>5, <1>6, <1>7, <1>8, <1>9, <1>10, <1>11, <1>12, <1>13 DEF Next, Step

LEMMA CountInvHolds == Spec => []CountInv
<1>1. IInv /\ IInv' /\ CountInv /\ [Next]_vars => CountInv'
  BY CountersStep, VersionsStep, CountedStep DEF CountInv
<1> QED BY CountInvStarts, IInvHolds, <1>1, PTL DEF Spec

(* Everything keeps its kind, and what is in flight is planned and within
   --concurrency. *)
THEOREM TypeCorrect == Spec => []TypeOK
<1>1. IInv /\ CountInv => TypeOK
  <2> SUFFICES ASSUME IInv, CountInv PROVE TypeOK
    OBVIOUS
  <2>1. \A k \in writing : Planned(k) /\ entries[k] = Blank
    BY DEF IInv, Types, Run, Writing
  <2>2. /\ IsFiniteSet(writing) /\ Cardinality(writing) <= Concurrency
        /\ edits \in 0..MaxEdits /\ lapses \in 0..MaxLapses /\ faults \in 0..MaxFaults
    BY DEF CountInv, Counters
  <2> QED BY <2>1, <2>2 DEF TypeOK, IInv, Types, Records, RecordSet
<1> QED BY <1>1, IInvHolds, CountInvHolds, PTL

(* Each failure and each lapse is worth one more record of a key, and nothing
   else is (_reusable_entries, and what the receipt of a partial export
   forgets). *)
THEOREM DuplicatesAreBounded == Spec => []DuplicatesAreCounted
<1>1. IInv /\ CountInv => DuplicatesAreCounted
  <2> SUFFICES ASSUME IInv, CountInv, NEW k \in Key, NEW i \in DOMAIN remote[k]
               PROVE  Copies(remote[k], remote[k][i].corpus, remote[k][i].fingerprint) <= 1 + faults + lapses
    BY DEF DuplicatesAreCounted, Copies, Alike
  <2>1. remote[k][i] \in RecordSet
    BY Remote
  <2>2. Copies(remote[k], remote[k][i].corpus, remote[k][i].fingerprint) <= 1 + Events
    BY <2>1 DEF CountInv, Counted, RecordSet
  <2>3. 1 + Events = 1 + faults + lapses
    BY BoundsAssumption DEF Events, CountInv, Counters
  <2> QED BY <2>2, <2>3
<1> QED BY <1>1, IInvHolds, CountInvHolds, PTL
================================================================================
