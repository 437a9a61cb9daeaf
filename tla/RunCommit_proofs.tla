---------------------------- MODULE RunCommit_proofs ----------------------------
(***************************************************************************)
(* Proofs about RunCommit for any writers, answers and bounds.             *)
(***************************************************************************)
EXTENDS RunCommit, TLAPS

--------------------------------------------------------------------------------
(***************************************************************************)
(* The data: histories, what they determine, the places of the directory.  *)
(***************************************************************************)
(* The empty history, and a history with one more answer, are histories. *)
LEMMA Histories ==
    /\ <<>> \in History
    /\ \A h \in History : /\ Len(h) \in Nat
                          /\ Len(h) < MaxCalls =>
                                \A a \in Answers : Append(h, a) \in History
  BY MaxCallsAssumption DEF History

(* What a history says its files hold is a type-correct content. *)
LEMMA Contents ==
    ASSUME NEW h \in History, NEW x \in PathsOf(h)
    PROVE  x \in Path /\ Content(x, h) \in History
<1>0. MaxCalls \in Nat /\ MaxCalls >= 1 /\ h \in Seq(Answers) /\ Len(h) \in Nat /\ Len(h) <= MaxCalls
  BY MaxCallsAssumption DEF History
<1>1. x \in Path
  BY <1>0 DEF PathsOf, Path, Kind
<1>2. CASE x[1] = "response"
  <2>1. x[2] \in 1..Len(h)
    BY <1>0, <1>2 DEF PathsOf
  <2>2. <<h[x[2]]>> \in Seq(Answers) /\ Len(<<h[x[2]]>>) = 1
    BY <1>0, <2>1
  <2> QED BY <1>0, <1>1, <1>2, <2>2 DEF Content, History
<1>3. CASE x[1] # "response"
  <2>1. x[2] \in 1..(Len(h) + 1)
    BY <1>0, <1>3 DEF PathsOf
  <2>2. SubSeq(h, 1, x[2] - 1) \in Seq(Answers) /\ Len(SubSeq(h, 1, x[2] - 1)) = x[2] - 1
    BY <1>0, <2>1
  <2> QED BY <1>0, <1>1, <1>3, <2>1, <2>2 DEF Content, History
<1> QED BY <1>2, <1>3

(* A transition writes one or two files, and its history says what they hold. *)
LEMMA Snapshots ==
    ASSUME NEW h \in History
    PROVE  /\ Len(Snapshot(h)) \in 1..2 /\ DOMAIN Snapshot(h) = 1..Len(Snapshot(h))
           /\ \A i \in 1..Len(Snapshot(h)) : Snapshot(h)[i] \in PathsOf(h)
           /\ \A i, j \in 1..Len(Snapshot(h)) : Snapshot(h)[i] = Snapshot(h)[j] => i = j
<1>0. MaxCalls \in Nat /\ MaxCalls >= 1 /\ h \in Seq(Answers) /\ Len(h) \in Nat /\ Len(h) <= MaxCalls
  BY MaxCallsAssumption DEF History
<1>1. CASE h = <<>>
  BY <1>0, <1>1 DEF Snapshot, PathsOf
<1>2. CASE h # <<>> /\ Len(h) = MaxCalls
  BY <1>0, <1>2 DEF Snapshot, PathsOf
<1>3. CASE h # <<>> /\ Len(h) # MaxCalls
  <2>1. Len(h) >= 1
    BY <1>0, <1>3
  <2>2. Snapshot(h) = << <<"request", Len(h) + 1>>, <<"response", Len(h)>> >>
    BY <1>3 DEF Snapshot
  <2>3. /\ Len(Snapshot(h)) = 2 /\ DOMAIN Snapshot(h) = 1..2
        /\ Snapshot(h)[1] = <<"request", Len(h) + 1>>
        /\ Snapshot(h)[2] = <<"response", Len(h)>>
    BY <2>2
  <2>4. <<"request", Len(h) + 1>> \in PathsOf(h) /\ <<"response", Len(h)>> \in PathsOf(h)
    BY <1>0, <1>3, <2>1 DEF PathsOf
  <2>5. \A i \in 1..2 : i = 1 \/ i = 2
    OBVIOUS
  <2>6. Snapshot(h)[1] # Snapshot(h)[2]
    BY <2>3
  <2> HIDE <2>2
  <2>7. ASSUME NEW i \in 1..2, NEW j \in 1..2, Snapshot(h)[i] = Snapshot(h)[j] PROVE i = j
    BY <2>5, <2>6, <2>7
  <2> QED BY <2>3, <2>4, <2>5, <2>7
<1> QED BY <1>1, <1>2, <1>3

(* A file is in a directory of its kind, everything else in the root. *)
LEMMA Places ==
    /\ Path \cap Directory = {} /\ ManifestPath \notin Path \cup Directory /\ Root \notin Place
    /\ \A x \in Path : Parent(x) \in Directory
    /\ \A x \in Place \ Path : Parent(x) = Root
    /\ \A h \in History : Expected(h) \subseteq Place
<1>1. Path \cap Directory = {} /\ ManifestPath \notin Path \cup Directory /\ Root \notin Place
  BY MaxCallsAssumption DEF Path, Directory, Kind, ManifestPath, Root, Place
<1>2. ASSUME NEW x \in Path PROVE Parent(x) \in Directory
  BY <1>2 DEF Parent, Path, Directory
<1>3. \A x \in Place \ Path : Parent(x) = Root
  BY DEF Parent
<1>4. ASSUME NEW h \in History PROVE Expected(h) \subseteq Place
  BY <1>2, Contents DEF Expected, Place
<1> QED BY <1>1, <1>2, <1>3, <1>4

(* A rollback that has created files has a last one. *)
LEMMA LastIsCreated ==
    ASSUME NEW w \in Writers, txn[w].next \in History, Created(w) # {}
    PROVE  LastCreated(w) \in Created(w)
<1> DEFINE s == Snapshot(txn[w].next)
           C == Created(w)
           Last(x) == \A i, j \in DOMAIN s : s[i] = x /\ s[j] \in C => j <= i
<1>1. /\ Len(s) \in 1..2 /\ DOMAIN s = 1..Len(s)
      /\ \A i, j \in 1..Len(s) : s[i] = s[j] => i = j
  BY Snapshots
<1>2. \E x \in C : Last(x)
  <2> HIDE DEF s, C
  <2>0. \A i \in DOMAIN s : i \in 1..2
    BY <1>1
  <2>1. CASE Len(s) = 2 /\ s[2] \in C
    <3>1. Last(s[2])
      BY <1>1, <2>0, <2>1
    <3> QED BY <2>1, <3>1
  <2>2. CASE ~(Len(s) = 2 /\ s[2] \in C) /\ s[1] \in C
    <3>1. Last(s[1])
      BY <1>1, <2>0, <2>2
    <3> QED BY <2>2, <3>1
  <2>3. CASE ~(Len(s) = 2 /\ s[2] \in C) /\ s[1] \notin C
    <3>1. \A j \in DOMAIN s : s[j] \notin C
      BY <1>1, <2>0, <2>3
    <3>2. C # {}
      BY DEF C
    <3> QED BY <3>1, <3>2
  <2> QED BY <2>1, <2>2, <2>3
<1> QED BY <1>2 DEF LastCreated

--------------------------------------------------------------------------------
(***************************************************************************)
(* Type correctness, with what each label of pc says of the other          *)
(* variables.                                                              *)
(***************************************************************************)
Labels(w) ==
    /\ pc[w] = "idle" => goal[w] = "read"
    /\ pc[w] = "rescan" => seen[w] # None
    /\ goal[w] = "submit" /\ pc[w] \in Verifying =>
           /\ view[w] # None /\ Len(view[w]) < MaxCalls
           /\ txn[w].answer # None
    /\ pc[w] = "link" => txn[w].index <= Len(Snapshot(txn[w].next))
    /\ pc[w] = "restore" => txn[w].back # None
    /\ pc[w] = "prune" => txn[w].gone # None

TypeInv == TypeOK /\ \A w \in Writers : Labels(w)

DiskType ==
    /\ files \in [Path -> History \cup {None}]
    /\ dirs \subseteq Directory
    /\ manifest \in History \cup {None}
    /\ temps \subseteq Writers \X (Directory \cup {Root})

NotesType == scan \in [Writers -> [Place -> Note]]
OwnedType == owned \in [Writers -> SUBSET Place]

(* The empty transaction is a transaction, the empty listing a listing. *)
LEMMA NoTxnType == NoTxn \in Txn /\ NoScan \in [Place -> Note]
  BY Histories DEF NoTxn, Txn, NoScan, Note

(* The types hold initially. *)
LEMMA TypeInit == Init => TypeInv
<1> SUFFICES ASSUME Init PROVE TypeInv
  OBVIOUS
<1>0. faults \in 0..MaxFaults /\ crashes \in 0..MaxCrashes
  BY BoundsAssumption DEF Init
<1>1. TypeOK
  <2>1. /\ files \in [Path -> History \cup {None}] /\ dirs \subseteq Directory
        /\ manifest \in History \cup {None} /\ temps \subseteq Writers \X (Directory \cup {Root})
    BY DEF Init
  <2>2. /\ scan \in [Writers -> [Place -> Note]] /\ txn \in [Writers -> Txn]
    BY NoTxnType DEF Init
  <2>3. /\ lock \in Writers \cup {None}
        /\ pc \in [Writers -> {"idle"} \cup Verifying \cup Forward \cup Rollback]
        /\ goal \in [Writers -> {"read", "submit", "confirm"}]
        /\ todo \in [Writers -> SUBSET (Place \cup {Root})]
        /\ seen \in [Writers -> History \cup {None}]
        /\ stood \in [Writers -> History \cup {None}]
        /\ view \in [Writers -> History \cup {None}]
        /\ owned \in [Writers -> SUBSET Place]
        /\ acked \subseteq History /\ unreported \subseteq History
        /\ gap \in BOOLEAN
    BY DEF Init
  <2> QED BY <1>0, <2>1, <2>2, <2>3 DEF TypeOK
<1>2. \A w \in Writers : Labels(w)
  BY DEF Init, Labels, Verifying
<1> QED BY <1>1, <1>2 DEF TypeInv

(* Marking notes and recording receipts keeps their types. *)
LEMMA NotesKept == ASSUME TypeInv, NEW X, Changes(X) PROVE NotesType'
<1>1. scan \in [Writers -> [Place -> Note]]
  BY DEF TypeInv, TypeOK
<1>2. \A p \in Writers, x \in Place :
         (IF x \in X /\ scan[p][x] # "absent" THEN "changed" ELSE scan[p][x]) \in Note
  BY <1>1 DEF Note
<1> QED BY <1>2 DEF Changes, NotesType

(* Receipts stay receipts for places. *)
LEMMA OwnedKept ==
    ASSUME TypeInv, NEW w \in Writers, NEW x \in Place, Owns(w, x) \/ NoneOwns(x)
    PROVE  OwnedType'
<1>1. owned \in [Writers -> SUBSET Place]
  BY DEF TypeInv, TypeOK
<1>2. CASE Owns(w, x)
  BY <1>1, <1>2 DEF Owns, OwnedType
<1>3. CASE NoneOwns(x)
  BY <1>1, <1>3 DEF NoneOwns, OwnedType
<1> QED BY <1>2, <1>3

(* The end of an operation keeps the types. *)
LEMMA EndType ==
    ASSUME TypeInv, NEW p \in Writers, End(p),
           UNCHANGED <<disk, gap, crashes>>, acked' \subseteq History,
           unreported' \subseteq History, faults' \in 0..MaxFaults,
           view' \in [Writers -> History \cup {None}],
           \A w \in Writers \ {p} : view'[w] = view[w]
    PROVE  TypeInv'
<1>1. TypeOK'
  BY NoTxnType DEF TypeInv, TypeOK, End, Finish, GoTo, Unlock, DropWalk, disk
<1>2. ASSUME NEW w \in Writers PROVE Labels(w)'
  <2>1. CASE w = p
    BY <2>1 DEF TypeInv, TypeOK, Labels, End, Finish, GoTo, Verifying
  <2>2. CASE w # p
    BY <2>2 DEF TypeInv, TypeOK, Labels, End, Finish, GoTo, DropWalk, Verifying
  <2> QED BY <2>1, <2>2
<1> QED BY <1>1, <1>2 DEF TypeInv

(* A step inside an open transaction: the label moves, the record changes. *)
LEMMA MoveType ==
    ASSUME TypeInv, NEW w \in Writers, NEW label \in Forward \cup Rollback, NEW t \in Txn,
           pc' = [pc EXCEPT ![w] = label], txn' = [txn EXCEPT ![w] = t],
           UNCHANGED <<lock, goal, todo, seen, stood, view, acked, unreported, crashes>>,
           DiskType', NotesType', OwnedType', gap' \in BOOLEAN, faults' \in 0..MaxFaults,
           label = "link" => t.index <= Len(Snapshot(t.next)),
           label = "restore" => t.back # None,
           label = "prune" => t.gone # None
    PROVE  TypeInv'
<1>1. TypeOK'
  BY DEF TypeInv, TypeOK, DiskType, NotesType, OwnedType
<1>2. ASSUME NEW v \in Writers PROVE Labels(v)'
  <2>1. CASE v = w
    BY <2>1 DEF TypeInv, TypeOK, Labels, Verifying, Forward, Rollback
  <2>2. CASE v # w
    BY <2>2 DEF TypeInv, TypeOK, Labels
  <2> QED BY <2>1, <2>2
<1> QED BY <1>1, <1>2 DEF TypeInv

(* The same, when the record does not change. *)
LEMMA RollsType ==
    ASSUME TypeInv, NEW w \in Writers,
           NEW label \in (Forward \cup Rollback) \ {"link", "restore", "prune"},
           Rolls(w, label),
           UNCHANGED <<todo, seen, stood, outcome, crashes>>,
           DiskType', NotesType', OwnedType', gap' \in BOOLEAN, faults' \in 0..MaxFaults
    PROVE  TypeInv'
<1>1. txn[w] \in Txn /\ txn' = [txn EXCEPT ![w] = txn[w]]
  BY DEF TypeInv, TypeOK, Rolls
<1> QED BY <1>1, MoveType DEF Rolls, GoTo, outcome

(* Starting to roll back keeps the types. *)
LEMMA UndoType ==
    ASSUME TypeInv, NEW p \in Writers, Undo(p), UNCHANGED <<todo, seen, stood, outcome, crashes>>,
           DiskType', NotesType', gap' \in BOOLEAN, faults' \in 0..MaxFaults
    PROVE  TypeInv'
<1>1. Rolls(p, "undo")
  BY DEF Undo, Rolls
<1>2. OwnedType'
  BY DEF Undo, TypeInv, TypeOK, OwnedType
<1> QED BY <1>1, <1>2, RollsType DEF Rollback

(* So does a refused verification. *)
LEMMA FailsType ==
    ASSUME TypeInv, NEW p \in Writers, VerificationFails(p), UNCHANGED <<disk, outcome, gap, crashes>>,
           faults' \in 0..MaxFaults
    PROVE  TypeInv'
<1>1. CASE goal[p] = "confirm"
  <2>1. TypeOK'
    BY <1>1, NoTxnType DEF TypeInv, TypeOK, VerificationFails, Undo, GoTo, DropWalk, disk, outcome, Rollback
  <2>2. ASSUME NEW v \in Writers PROVE Labels(v)'
    <3>1. CASE v = p
      BY <1>1, <3>1 DEF TypeInv, TypeOK, Labels, VerificationFails, Undo, GoTo, Verifying
    <3>2. CASE v # p
      BY <1>1, <3>2 DEF TypeInv, TypeOK, Labels, VerificationFails, Undo, GoTo, DropWalk, outcome
    <3> QED BY <3>1, <3>2
  <2> QED BY <2>1, <2>2 DEF TypeInv
<1>2. CASE goal[p] # "confirm"
  BY <1>2, EndType DEF VerificationFails, TypeInv, TypeOK, outcome
<1> QED BY <1>1, <1>2

(* A verifier goes on: only its walk changes. *)
LEMMA WalkType ==
    ASSUME TypeInv, NEW p \in Writers, NEW label \in Verifying,
           pc' = [pc EXCEPT ![p] = label],
           UNCHANGED <<disk, lock, goal, txn, owned, outcome, bounds>>,
           todo' \in [Writers -> SUBSET (Place \cup {Root})], NotesType',
           seen' \in [Writers -> History \cup {None}], stood' \in [Writers -> History \cup {None}],
           \A v \in Writers \ {p} : seen'[v] = seen[v],
           label = "rescan" => seen'[p] # None,
           pc[p] \in Verifying \/ goal[p] # "submit"
    PROVE  TypeInv'
<1>1. TypeOK'
  BY DEF TypeInv, TypeOK, NotesType, disk, outcome, bounds
<1>2. ASSUME NEW v \in Writers PROVE Labels(v)'
  <2>1. CASE v = p
    BY <2>1 DEF TypeInv, TypeOK, Labels, Verifying, outcome
  <2>2. CASE v # p
    BY <2>2 DEF TypeInv, TypeOK, Labels, outcome
  <2> QED BY <2>1, <2>2
<1> QED BY <1>1, <1>2 DEF TypeInv

(* Reads and verifications keep the types. *)
LEMMA TypeVerify ==
    ASSUME TypeInv, NEW p \in Writers, Verify(p)
    PROVE  TypeInv'
<1>0. /\ scan \in [Writers -> [Place -> Note]] /\ faults \in 0..MaxFaults
      /\ seen \in [Writers -> History \cup {None}] /\ stood \in [Writers -> History \cup {None}]
      /\ todo \in [Writers -> SUBSET (Place \cup {Root})]
      /\ goal \in [Writers -> {"read", "submit", "confirm"}]
      /\ view \in [Writers -> History \cup {None}] /\ acked \subseteq History
      /\ unreported \subseteq History /\ txn \in [Writers -> Txn]
      /\ manifest \in History \cup {None} /\ Labels(p)
  BY DEF TypeInv, TypeOK
<1>a. ASSUME VerificationFails(p), UNCHANGED <<disk, outcome, bounds>> PROVE TypeInv'
  BY <1>0, <1>a, FailsType DEF bounds
<1>1. CASE StartRead(p)
  <2>1. /\ pc[p] = "idle" /\ pc' = [pc EXCEPT ![p] = "scan"]
        /\ todo' = [todo EXCEPT ![p] = {Root}]
        /\ UNCHANGED <<disk, lock, goal, scan, seen, stood, txn, owned, outcome, bounds>>
    BY <1>1 DEF StartRead, GoTo, StartWalk
  <2>2. goal[p] # "submit"
    BY <1>0, <2>1 DEF Labels
  <2>3. todo' \in [Writers -> SUBSET (Place \cup {Root})] /\ NotesType'
    BY <1>0, <2>1 DEF NotesType
  <2> QED BY <1>0, <2>1, <2>2, <2>3, WalkType DEF Verifying
<1>2. CASE Scan(p)
  <2>1. PICK x \in Listable \cup Place : Scan(p)!(x)
    BY <1>2 DEF Scan
  <2> DEFINE left == (todo[p] \ {x}) \cup Entries(x)
  <2>2. pc[p] = "scan" /\ UNCHANGED <<disk, outcome, bounds>>
    BY <2>1 DEF Reaches
  <2>3. CASE VerificationFails(p)
    BY <1>a, <2>2, <2>3
  <2>4. CASE ~VerificationFails(p)
    <3>1. /\ scan' = [scan EXCEPT ![p] = [y \in Place |-> IF y = x THEN "same" ELSE scan[p][y]]]
          /\ todo' = [todo EXCEPT ![p] = left]
          /\ pc' = [pc EXCEPT ![p] = IF left = {} THEN "load" ELSE "scan"]
          /\ UNCHANGED <<lock, goal, seen, stood, txn, owned>>
      BY <2>1, <2>4 DEF GoTo
    <3>2. NotesType'
      <4>1. [y \in Place |-> IF y = x THEN "same" ELSE scan[p][y]] \in [Place -> Note]
        BY <1>0 DEF Note
      <4> QED BY <1>0, <3>1, <4>1 DEF NotesType
    <3>3. left \in SUBSET (Place \cup {Root})
      BY <1>0 DEF Entries
    <3> HIDE DEF left
    <3>4. todo' \in [Writers -> SUBSET (Place \cup {Root})]
      BY <1>0, <3>1, <3>3
    <3>5. (IF left = {} THEN "load" ELSE "scan") \in Verifying \ {"rescan"}
      BY DEF Verifying
    <3> QED BY <1>0, <2>2, <3>1, <3>2, <3>4, <3>5, WalkType DEF Verifying
  <2> QED BY <2>3, <2>4
<1>3. CASE LoadManifest(p)
  <2>2. pc[p] = "load" /\ UNCHANGED <<disk, outcome, bounds>>
    BY <1>3 DEF LoadManifest
  <2>3. CASE VerificationFails(p)
    BY <1>a, <2>2, <2>3
  <2>4. CASE ~VerificationFails(p)
    <3>1. /\ manifest # None
          /\ seen' = [seen EXCEPT ![p] = manifest]
          /\ todo' = [todo EXCEPT ![p] = PathsOf(manifest)]
          /\ UNCHANGED <<lock, pc, goal, scan, stood, txn, owned>>
      BY <1>3, <2>4 DEF LoadManifest
    <3>2. PathsOf(manifest) \in SUBSET (Place \cup {Root})
      BY <1>0, <3>1, Contents DEF Place
    <3>3. /\ todo' \in [Writers -> SUBSET (Place \cup {Root})] /\ NotesType'
          /\ pc' = [pc EXCEPT ![p] = "load"]
      BY <1>0, <2>2, <3>1, <3>2 DEF NotesType, TypeInv, TypeOK
    <3>4. /\ seen' \in [Writers -> History \cup {None}] /\ stood' \in [Writers -> History \cup {None}]
          /\ \A v \in Writers \ {p} : seen'[v] = seen[v]
      BY <1>0, <3>1
    <3> QED BY <2>2, <3>1, <3>3, <3>4, WalkType DEF Verifying
  <2> QED BY <2>3, <2>4
<1>4. CASE LoadFile(p)
  <2>1. PICK x \in Path : LoadFile(p)!(x)
    BY <1>4 DEF LoadFile
  <2>2. pc[p] = "load" /\ seen[p] # None /\ UNCHANGED <<disk, outcome, bounds>>
    BY <2>1 DEF Reaches
  <2>3. CASE VerificationFails(p)
    BY <1>a, <2>2, <2>3
  <2>4. CASE ~VerificationFails(p) /\ todo[p] = {x}
    <3>1. /\ pc' = [pc EXCEPT ![p] = "rescan"]
          /\ todo' = [todo EXCEPT ![p] = {Root} \cup Expected(seen[p])]
          /\ stood' = [stood EXCEPT ![p] = StandsNow]
          /\ UNCHANGED <<lock, goal, scan, seen, txn, owned>>
      BY <2>1, <2>4 DEF GoTo
    <3>2. {Root} \cup Expected(seen[p]) \in SUBSET (Place \cup {Root}) /\ StandsNow \in History \cup {None}
      BY <1>0, <2>2, Places DEF StandsNow
    <3>3. /\ todo' \in [Writers -> SUBSET (Place \cup {Root})] /\ NotesType'
          /\ stood' \in [Writers -> History \cup {None}]
      BY <1>0, <3>1, <3>2 DEF NotesType
    <3> QED BY <1>0, <2>2, <3>1, <3>3, WalkType DEF Verifying
  <2>5. CASE ~VerificationFails(p) /\ todo[p] # {x}
    <3>1. /\ todo' = [todo EXCEPT ![p] = todo[p] \ {x}]
          /\ UNCHANGED <<lock, goal, scan, seen, txn, owned, pc, stood>>
      BY <2>1, <2>5
    <3>2. todo[p] \ {x} \in SUBSET (Place \cup {Root}) /\ pc' = [pc EXCEPT ![p] = "load"]
      BY <1>0, <2>2, <3>1 DEF TypeInv, TypeOK
    <3>3. todo' \in [Writers -> SUBSET (Place \cup {Root})] /\ NotesType'
      BY <1>0, <3>1, <3>2 DEF NotesType
    <3> QED BY <1>0, <2>2, <3>1, <3>2, <3>3, WalkType DEF Verifying
  <2> QED BY <2>3, <2>4, <2>5
<1>5. CASE Rescan(p)
  <2>1. PICK x \in Listable \cup Place : SecondVisit(p, x, Unchanged(p, x))
    BY <1>5 DEF Rescan
  <2>2. pc[p] = "rescan" /\ seen[p] \in History /\ UNCHANGED <<disk, bounds>>
    BY <1>0, <2>1 DEF SecondVisit, Reaches, Labels
  <2>3. CASE VerificationFails(p) /\ UNCHANGED outcome
    BY <1>a, <2>2, <2>3
  <2>4. CASE todo[p] # {x} /\ Unchanged(p, x)
    <3>1. /\ todo' = [todo EXCEPT ![p] = todo[p] \ {x}]
          /\ UNCHANGED <<lock, pc, goal, scan, seen, stood, txn, owned, outcome>>
      BY <2>1, <2>4 DEF SecondVisit
    <3>2. todo[p] \ {x} \in SUBSET (Place \cup {Root}) /\ pc' = [pc EXCEPT ![p] = "rescan"]
      BY <1>0, <2>2, <3>1 DEF TypeInv, TypeOK
    <3>3. todo' \in [Writers -> SUBSET (Place \cup {Root})] /\ NotesType'
      BY <1>0, <3>1, <3>2 DEF NotesType
    <3> QED BY <1>0, <2>2, <3>1, <3>2, <3>3, NoneAssumption, WalkType DEF Verifying
  <2>5. CASE Verified(p) /\ goal[p] = "read"
    <3>1. /\ End(p) /\ view' = [view EXCEPT ![p] = seen[p]]
          /\ UNCHANGED <<disk, gap, crashes, acked, unreported, faults>>
      BY <2>2, <2>5 DEF Verified, bounds
    <3> QED BY <1>0, <2>2, <3>1, EndType
  <2>6. CASE Verified(p) /\ goal[p] = "submit" /\ AnswersPending(p, seen[p])
    <3>1. /\ pc' = [pc EXCEPT ![p] = "write"]
          /\ txn' = [txn EXCEPT ![p].base = seen[p],
                                ![p].next = Append(seen[p], txn[p].answer)]
          /\ todo' = [todo EXCEPT ![p] = {}]
          /\ scan' = [scan EXCEPT ![p] = NoScan]
          /\ seen' = [seen EXCEPT ![p] = None]
          /\ stood' = [stood EXCEPT ![p] = None]
          /\ UNCHANGED <<lock, goal, owned, outcome, disk, bounds>>
      BY <2>2, <2>6 DEF Verified, GoTo, DropWalk
    <3>2. Append(seen[p], txn[p].answer) \in History
      <4>1. Len(seen[p]) < MaxCalls
        BY <1>0, <2>2, <2>6 DEF AnswersPending, Labels, Verifying
      <4>2. txn[p].answer \in Answers
        BY <1>0, <2>2, <2>6 DEF Labels, Verifying, Txn
      <4> QED BY <2>2, <4>1, <4>2, Histories
    <3>3. txn' \in [Writers -> Txn]
      <4>1. txn[p] \in Txn
        BY <1>0
      <4>2. [txn[p] EXCEPT !.base = seen[p], !.next = Append(seen[p], txn[p].answer)] \in Txn
        BY <2>2, <3>2, <4>1 DEF Txn
      <4>3. txn' = [txn EXCEPT ![p] = [txn[p] EXCEPT !.base = seen[p],
                                           !.next = Append(seen[p], txn[p].answer)]]
        BY <3>1
      <4> QED BY <1>0, <4>2, <4>3
    <3>4. scan' \in [Writers -> [Place -> Note]]
      BY <1>0, <3>1, NoTxnType
    <3>5. /\ todo' \in [Writers -> SUBSET (Place \cup {Root})]
          /\ seen' \in [Writers -> History \cup {None}] /\ stood' \in [Writers -> History \cup {None}]
          /\ pc' \in [Writers -> {"idle"} \cup Verifying \cup Forward \cup Rollback]
      BY <1>0, <3>1 DEF TypeInv, TypeOK, Forward
    <3>6. TypeOK'
      BY <3>1, <3>3, <3>4, <3>5 DEF TypeInv, TypeOK, disk, outcome, bounds
    <3>7. ASSUME NEW w \in Writers PROVE Labels(w)'
      <4>1. CASE w = p
        BY <2>6, <3>1, <4>1 DEF TypeInv, TypeOK, Labels, Verifying
      <4>2. CASE w # p
        BY <3>1, <4>2 DEF TypeInv, TypeOK, Labels, outcome
      <4> QED BY <4>1, <4>2
    <3> QED BY <3>6, <3>7 DEF TypeInv
  <2>7. CASE Verified(p) /\ goal[p] = "submit" /\ ~AnswersPending(p, seen[p])
    <3>1. End(p) /\ UNCHANGED <<outcome, disk, bounds>>
      BY <2>2, <2>7 DEF Verified
    <3> QED BY <1>0, <3>1, EndType DEF outcome, bounds
  <2>8. CASE Verified(p) /\ goal[p] = "confirm" /\ seen[p] = txn[p].next
    <3>1. /\ End(p) /\ acked' = acked \cup {txn[p].next} /\ view' = [view EXCEPT ![p] = txn[p].next]
          /\ UNCHANGED <<unreported, disk, bounds>>
      BY <2>2, <2>8 DEF Verified
    <3>2. txn[p].next \in History
      BY <1>0 DEF Txn
    <3> QED BY <1>0, <3>1, <3>2, EndType DEF bounds
  <2>9. CASE Verified(p) /\ goal[p] = "confirm" /\ seen[p] # txn[p].next
    BY <1>a, <2>2, <2>9 DEF Verified
  <2> QED BY <1>0, <2>1, <2>3, <2>4, <2>5, <2>6, <2>7, <2>8, <2>9 DEF SecondVisit
<1> QED BY <1>1, <1>2, <1>3, <1>4, <1>5 DEF Verify

(* Opening a run or asking for the lock keeps the types. *)
LEMMA TypeStart ==
    ASSUME TypeInv, NEW w \in Writers,
           Initialize(w) \/ \E a \in Answers : StartSubmit(w, a)
    PROVE  TypeInv'
<1>1. CASE Initialize(w)
  <2>1. TypeOK'
    BY <1>1 DEF TypeInv, TypeOK, Initialize, GoTo, disk, walk, outcome, bounds, Forward
  <2>2. ASSUME NEW v \in Writers PROVE Labels(v)'
    <3>1. CASE v = w
      BY <1>1, <3>1 DEF TypeInv, TypeOK, Labels, Initialize, GoTo, Verifying
    <3>2. CASE v # w
      BY <1>1, <3>2 DEF TypeInv, TypeOK, Labels, Initialize, GoTo, walk, outcome
    <3> QED BY <3>1, <3>2
  <2> QED BY <2>1, <2>2 DEF TypeInv
<1>2. ASSUME NEW a \in Answers, StartSubmit(w, a) PROVE TypeInv'
  <2>0. /\ pc[w] = "idle" /\ view[w] # None /\ Len(view[w]) < MaxCalls
        /\ lock' = IF SharedLock THEN w ELSE lock
        /\ pc' = [pc EXCEPT ![w] = "scan"] /\ todo' = [todo EXCEPT ![w] = {Root}]
        /\ goal' = [goal EXCEPT ![w] = "submit"]
        /\ txn' = [txn EXCEPT ![w].answer = a]
        /\ UNCHANGED <<disk, scan, seen, stood, owned, outcome, bounds>>
    BY <1>2 DEF StartSubmit, Submit, GoTo, StartWalk
  <2>1. txn' \in [Writers -> Txn] /\ txn'[w].answer = a
    <3>1. txn[w] \in Txn /\ txn \in [Writers -> Txn]
      BY DEF TypeInv, TypeOK
    <3>2. [txn[w] EXCEPT !.answer = a] \in Txn /\ [txn[w] EXCEPT !.answer = a].answer = a
      BY <3>1 DEF Txn
    <3>3. txn' = [txn EXCEPT ![w] = [txn[w] EXCEPT !.answer = a]]
      BY <2>0
    <3> QED BY <3>1, <3>2, <3>3
  <2>2. TypeOK'
    BY <2>0, <2>1 DEF TypeInv, TypeOK, disk, outcome, bounds, Verifying
  <2>3. a # None
    BY NoneAssumption
  <2>4. ASSUME NEW v \in Writers PROVE Labels(v)'
    <3>1. CASE v = w
      BY <2>0, <2>1, <2>3, <3>1 DEF TypeInv, TypeOK, Labels, outcome
    <3>2. CASE v # w
      BY <2>0, <3>2 DEF TypeInv, TypeOK, Labels, outcome
    <3> QED BY <3>1, <3>2
  <2> QED BY <2>2, <2>4 DEF TypeInv
<1> QED BY <1>1, <1>2

(* The file a transaction is writing is one of its history's. *)
LEMMA WritingType ==
    ASSUME TypeInv, NEW w \in Writers, txn[w].index <= Len(Snapshot(txn[w].next))
    PROVE  /\ txn[w].next \in History /\ txn[w].index \in 1..Len(Snapshot(txn[w].next))
           /\ Len(Snapshot(txn[w].next)) \in 1..2
           /\ Writing(w) \in PathsOf(txn[w].next) /\ Writing(w) \in Path
           /\ Content(Writing(w), txn[w].next) \in History
           /\ Parent(Writing(w)) \in Directory
           /\ Writing(w) \in Place /\ Parent(Writing(w)) \in Place
           /\ NewFile(w, Writing(w)) => files' \in [Path -> History \cup {None}]
<1>1. txn[w].next \in History /\ txn[w].index \in 1..3
  BY DEF TypeInv, TypeOK, Txn
<1>2. txn[w].index \in 1..Len(Snapshot(txn[w].next))
  BY <1>1, Snapshots
<1>3. Writing(w) \in PathsOf(txn[w].next)
  BY <1>1, <1>2, Snapshots DEF Writing
<1>4. Writing(w) \in Path /\ Content(Writing(w), txn[w].next) \in History
  BY <1>1, <1>3, Contents
<1>5. NewFile(w, Writing(w)) => files' \in [Path -> History \cup {None}]
  BY <1>4 DEF NewFile, TypeInv, TypeOK
<1> QED BY <1>1, <1>2, <1>3, <1>4, <1>5, Snapshots, Places DEF Place

(* Moving on to the next artifact keeps the types. *)
LEMMA NextFileType ==
    ASSUME TypeInv, NEW w \in Writers, NextFile(w),
           txn[w].index <= Len(Snapshot(txn[w].next)),
           UNCHANGED <<todo, seen, stood, outcome, bounds>>,
           DiskType', NotesType', OwnedType'
    PROVE  TypeInv'
<1> DEFINE t == [txn[w] EXCEPT !.index = @ + 1]
<1>1. txn[w] \in Txn
  BY DEF TypeInv, TypeOK
<1>2. t \in Txn
  <2>1. txn[w].index \in 1..3 /\ txn[w].index <= Len(Snapshot(txn[w].next))
        /\ Len(Snapshot(txn[w].next)) \in 1..2
    BY <1>1, WritingType DEF Txn
  <2>2. txn[w].index + 1 \in 1..3
    <3>1. \A i \in 1..3, n \in 1..2 : i <= n => i + 1 \in 1..3
      OBVIOUS
    <3> HIDE DEF t
    <3> QED BY <2>1, <3>1
  <2> QED BY <1>1, <2>2 DEF Txn
<1>3. txn' = [txn EXCEPT ![w] = t] /\ pc' = [pc EXCEPT ![w] = "write"]
  BY DEF NextFile, GoTo, TypeInv, TypeOK
<1> HIDE DEF t
<1> QED BY <1>2, <1>3, MoveType DEF NextFile, Forward, TypeInv, TypeOK, outcome, bounds

(* So does going on to verify what was installed. *)
LEMMA ConfirmType ==
    ASSUME TypeInv, NEW w \in Writers, Confirm(w), UNCHANGED bounds,
           DiskType', NotesType', OwnedType'
    PROVE  TypeInv'
<1>1. TypeOK'
  BY DEF TypeInv, TypeOK, Confirm, Reverify, StartWalk, GoTo, Verifying, DiskType, NotesType,
         OwnedType, bounds
<1>2. ASSUME NEW v \in Writers PROVE Labels(v)'
  <2>1. CASE v = w
    BY <2>1 DEF TypeInv, TypeOK, Labels, Verifying, Confirm, Reverify, GoTo
  <2>2. CASE v # w
    BY <2>2 DEF TypeInv, TypeOK, Labels, Confirm, Reverify, GoTo
  <2> QED BY <2>1, <2>2
<1> QED BY <1>1, <1>2 DEF TypeInv

(* The directory, the notes and the receipts of a step that leaves them alone. *)
LEMMA SameTypes ==
    ASSUME TypeInv
    PROVE  /\ DiskType /\ NotesType /\ OwnedType
           /\ (UNCHANGED <<files, dirs, manifest, temps>> => DiskType')
           /\ (scan' = scan => NotesType')
           /\ (owned' = owned => OwnedType')
           /\ gap \in BOOLEAN /\ faults \in 0..MaxFaults /\ txn \in [Writers -> Txn]
  BY DEF TypeInv, TypeOK, DiskType, NotesType, OwnedType, disk

(* Until all is written there is a file to write. *)
LEMMA StillWriting ==
    ASSUME TypeInv, NEW w \in Writers, ~Wrote(w)
    PROVE  txn[w].index <= Len(Snapshot(txn[w].next))
<1>1. txn[w].next \in History /\ txn[w].index \in 1..3
  BY DEF TypeInv, TypeOK, Txn
<1>2. Len(Snapshot(txn[w].next)) \in 1..2
  BY <1>1, Snapshots
<1> QED BY <1>1, <1>2 DEF Wrote

(* The forward half of a commit keeps the types. *)
LEMMA TypeCommit ==
    ASSUME TypeInv, NEW w \in Writers, Commit(w)
    PROVE  TypeInv'
<1>0. /\ DiskType /\ NotesType /\ OwnedType
      /\ (UNCHANGED <<files, dirs, manifest, temps>> => DiskType') /\ (scan' = scan => NotesType')
      /\ (owned' = owned => OwnedType')
      /\ gap \in BOOLEAN /\ faults \in 0..MaxFaults /\ txn[w] \in Txn
  BY SameTypes
<1>r. ManifestPath \in Place
  BY DEF Place
<1>1. CASE MakeDirectory(w)
  <2>0. txn[w].index <= Len(Snapshot(txn[w].next))
    BY <1>1, StillWriting DEF MakeDirectory
  <2>1. Parent(Writing(w)) \in Directory /\ Parent(Writing(w)) \in Place
    BY <2>0, WritingType
  <2>2. DiskType' /\ OwnedType'
    BY <1>0, <1>1, <2>1, OwnedKept DEF MakeDirectory, DiskType
  <2>3. /\ Rolls(w, "write") /\ UNCHANGED <<todo, seen, stood, outcome, scan, bounds>>
    BY <1>1 DEF MakeDirectory, Rolls, GoTo, walk, TypeInv, TypeOK
  <2>4. "write" \in (Forward \cup Rollback) \ {"link", "restore", "prune"}
    BY DEF Forward
  <2> QED BY <1>0, <2>2, <2>3, <2>4, RollsType DEF bounds
<1>2. CASE WriteFile(w)
  <2>0. txn[w].index <= Len(Snapshot(txn[w].next))
    BY <1>2, StillWriting DEF WriteFile
  <2>1. Parent(Writing(w)) \in Directory /\ Parent(Writing(w)) \in Place
    BY <2>0, WritingType
  <2>2. UNCHANGED <<files, dirs, manifest, todo, seen, stood, outcome, bounds>>
    BY <1>2 DEF WriteFile
  <2>3. CASE /\ temps' = temps \cup {<<w, Parent(Writing(w))>>}
             /\ Changes({Parent(Writing(w))}) /\ GoTo(w, "link")
             /\ UNCHANGED <<lock, goal, txn, owned>>
    <3>1. DiskType' /\ NotesType'
      BY <1>0, <2>1, <2>2, <2>3, NotesKept DEF DiskType
    <3>2. txn' = [txn EXCEPT ![w] = txn[w]]
      BY <2>3 DEF TypeInv, TypeOK
    <3> QED BY <1>0, <2>0, <2>2, <2>3, <3>1, <3>2, MoveType DEF GoTo, outcome, bounds, Forward
  <2>4. CASE NextFile(w) /\ UNCHANGED <<temps, scan, owned>>
    BY <1>0, <2>0, <2>2, <2>4, NextFileType DEF disk
  <2>5. CASE Undo(w) /\ UNCHANGED <<temps, scan>>
    BY <1>0, <2>2, <2>5, UndoType DEF disk, bounds
  <2> QED BY <1>2, <2>3, <2>4, <2>5 DEF WriteFile
<1>3. CASE LinkFile(w)
  <2>0. txn[w].index <= Len(Snapshot(txn[w].next))
    BY <1>3 DEF LinkFile, TypeInv, Labels
  <2>1. UNCHANGED <<dirs, manifest, todo, seen, stood, outcome, bounds>> /\ Unlink(w, Writing(w))
    BY <1>3 DEF LinkFile
  <2>2. NotesType' /\ temps' \subseteq temps
    BY <2>1, NotesKept DEF Unlink
  <2>3. CASE NewFile(w, Writing(w)) /\ Owns(w, Writing(w)) /\ NextFile(w)
    <3>1. DiskType' /\ OwnedType'
      BY <1>0, <2>0, <2>1, <2>2, <2>3, WritingType, OwnedKept DEF DiskType
    <3> QED BY <2>0, <2>1, <2>2, <2>3, <3>1, NextFileType
  <2>4. CASE NextFile(w) /\ UNCHANGED <<files, owned>>
    BY <1>0, <2>0, <2>1, <2>2, <2>4, NextFileType DEF DiskType
  <2>5. CASE Undo(w) /\ UNCHANGED files
    BY <1>0, <2>1, <2>2, <2>5, UndoType DEF DiskType, bounds
  <2> QED BY <1>3, <2>3, <2>4, <2>5 DEF LinkFile
<1>4. CASE Recheck(w)
  <2>1. CASE GoTo(w, "install") /\ UNCHANGED <<lock, goal, txn, owned>>
    BY <1>0, <1>4, <2>1, RollsType DEF Recheck, Rolls, walk, bounds, disk, Forward
  <2>2. CASE Undo(w)
    BY <1>0, <1>4, <2>2, UndoType DEF Recheck, walk, bounds, disk
  <2> QED BY <1>4, <2>1, <2>2 DEF Recheck
<1>5. CASE StageManifest(w)
  <2>1. UNCHANGED <<files, dirs, manifest, scan, bounds>>
    BY <1>5 DEF StageManifest
  <2>2. CASE Confirm(w) /\ UNCHANGED <<temps, owned>>
    BY <1>0, <2>1, <2>2, ConfirmType DEF disk
  <2>3. CASE Undo(w) /\ UNCHANGED <<temps, todo, seen, stood, outcome>>
    BY <1>0, <2>1, <2>3, UndoType DEF disk, bounds
  <2>4. CASE /\ temps' = temps \cup {<<w, Root>>} /\ GoTo(w, "replace")
             /\ UNCHANGED <<lock, goal, todo, seen, stood, txn, owned, outcome>>
    <3>1. DiskType' /\ NotesType' /\ OwnedType'
      BY <1>0, <2>1, <2>4 DEF DiskType
    <3>2. Rolls(w, "replace") /\ UNCHANGED <<todo, seen, stood, outcome, bounds>>
      BY <2>1, <2>4 DEF Rolls
    <3>3. "replace" \in (Forward \cup Rollback) \ {"link", "restore", "prune"}
      BY DEF Forward
    <3> QED BY <1>0, <3>1, <3>2, <3>3, RollsType DEF bounds
  <2> QED BY <1>5, <2>2, <2>3, <2>4 DEF StageManifest
<1>6. CASE ReplaceManifest(w)
  <2>1. UNCHANGED <<files, dirs, bounds>> /\ temps' \subseteq temps
    BY <1>6 DEF ReplaceManifest
  <2>2. CASE /\ manifest' = txn[w].next /\ Names(ManifestPath) /\ Owns(w, ManifestPath)
             /\ Confirm(w)
    <3>1. DiskType'
      BY <1>0, <2>1, <2>2 DEF DiskType, Txn
    <3>2. NotesType' /\ OwnedType'
      BY <1>r, <2>2, NotesKept, OwnedKept DEF Names
    <3> QED BY <2>1, <2>2, <3>1, <3>2, ConfirmType
  <2>3. CASE Confirm(w) /\ UNCHANGED <<manifest, scan, owned>>
    <3>1. DiskType' /\ NotesType' /\ OwnedType'
      BY <1>0, <2>1, <2>3 DEF DiskType
    <3> QED BY <2>1, <2>3, <3>1, ConfirmType
  <2>4. CASE Undo(w) /\ UNCHANGED <<manifest, walk, outcome>>
    <3>1. DiskType' /\ NotesType'
      BY <1>0, <2>1, <2>4 DEF DiskType, walk
    <3> QED BY <1>0, <2>1, <2>4, <3>1, UndoType DEF bounds, walk
  <2> QED BY <1>6, <2>2, <2>3, <2>4 DEF ReplaceManifest
<1> QED BY <1>1, <1>2, <1>3, <1>4, <1>5, <1>6 DEF Commit

(* What a claim, a removal and a pruning do to the types. *)
LEMMA ClaimType ==
    ASSUME TypeInv, NEW w \in Writers, NEW back \in History \cup {None}, Claim(w, back),
           UNCHANGED <<files, dirs, temps, todo, seen, stood, outcome, gap, crashes>>,
           faults' \in 0..MaxFaults
    PROVE  TypeInv'
<1>0. DiskType /\ gap \in BOOLEAN /\ txn[w] \in Txn
  BY SameTypes
<1>1. NotesType' /\ OwnedType'
  BY NotesKept, OwnedKept DEF Claim, Names, Place
<1>2. DiskType'
  BY <1>0 DEF DiskType, Claim
<1>3. [txn[w] EXCEPT !.back = back] \in Txn /\ [txn[w] EXCEPT !.back = back].back = back
  BY <1>0 DEF Txn
<1>4. txn' = [txn EXCEPT ![w] = [txn[w] EXCEPT !.back = back]]
  BY DEF Claim
<1>5. /\ pc' = [pc EXCEPT ![w] = IF back = None THEN "remove" ELSE "restore"]
      /\ UNCHANGED <<lock, goal>>
  BY DEF Claim, GoTo
<1> DEFINE label == IF back = None THEN "remove" ELSE "restore"
<1>6. /\ label \in Forward \cup Rollback /\ label \notin {"link", "prune"}
      /\ label = "restore" => back # None
  BY DEF Rollback
<1> HIDE DEF label
<1>7. pc' = [pc EXCEPT ![w] = label]
  BY <1>5 DEF label
<1> QED BY <1>0, <1>1, <1>2, <1>3, <1>4, <1>5, <1>6, <1>7, MoveType DEF outcome

(* Putting a claimed manifest back keeps the types. *)
LEMMA ReinstallType ==
    ASSUME TypeInv, NEW w \in Writers, pc[w] = "restore", Reinstall(w),
           UNCHANGED <<files, dirs, temps, todo, seen, stood, outcome, gap, crashes>>,
           faults' \in 0..MaxFaults
    PROVE  TypeInv'
<1>0. DiskType /\ gap \in BOOLEAN /\ txn[w] \in Txn /\ NotesType' /\ OwnedType'
  BY SameTypes DEF Reinstall
<1>1. DiskType'
  BY <1>0 DEF DiskType, Reinstall, Txn
<1> QED BY <1>0, <1>1, RollsType DEF Reinstall, Rollback

(* So does going on to the next created file, *)
LEMMA GoOnType ==
    ASSUME TypeInv, NEW w \in Writers, GoOn(w), DiskType', NotesType', OwnedType',
           UNCHANGED <<todo, seen, stood, outcome, gap, crashes>>, faults' \in 0..MaxFaults
    PROVE  TypeInv'
<1>0. gap \in BOOLEAN /\ txn[w] \in Txn
  BY SameTypes
<1>1. [txn[w] EXCEPT !.gone = None] \in Txn
  BY <1>0 DEF Txn
<1>2. txn' = [txn EXCEPT ![w] = [txn[w] EXCEPT !.gone = None]]
  BY DEF GoOn
<1> QED BY <1>0, <1>1, <1>2, MoveType DEF GoOn, GoTo, outcome, Rollback

(* removing a file, *)
LEMMA RemovedType ==
    ASSUME TypeInv, NEW w \in Writers, NEW x \in Path, Removed(x), UNCHANGED <<dirs, manifest, temps>>
    PROVE  DiskType' /\ NotesType' /\ OwnedType'
<1>0. x \in Place /\ Names(x) /\ NoneOwns(x)
  BY DEF Removed, Place
<1>1. NotesType' /\ OwnedType'
  <2>1. NotesType'
    BY <1>0, NotesKept DEF Names
  <2>2. OwnedType'
    BY <1>0, OwnedKept
  <2> QED BY <2>1, <2>2
<1>2. DiskType /\ files' = [files EXCEPT ![x] = None]
  BY SameTypes DEF Removed
<1> QED BY <1>1, <1>2 DEF DiskType

(* and removing its directory. *)
LEMMA PrunedType ==
    ASSUME TypeInv, NEW w \in Writers, txn[w].gone # None,
           Pruned(w, Parent(txn[w].gone)) \/ UNCHANGED <<dirs, scan, owned>>,
           UNCHANGED <<files, manifest, temps>>
    PROVE  DiskType' /\ NotesType' /\ OwnedType'
<1>0. DiskType /\ txn[w] \in Txn
  BY SameTypes
<1>1. txn[w].gone \in Path
  BY <1>0 DEF Txn
<1>2. Parent(txn[w].gone) \in Place
  BY <1>1, Places DEF Place
<1>3. dirs' \subseteq dirs
  BY DEF Pruned
<1>4. DiskType'
  BY <1>0, <1>3 DEF DiskType
<1>5. NotesType' /\ OwnedType'
  BY <1>2, SameTypes, NotesKept, OwnedKept DEF Pruned, Names
<1> QED BY <1>4, <1>5

(* The rollback half of a commit keeps the types. *)
LEMMA TypeRollBack ==
    ASSUME TypeInv, NEW w \in Writers, RollBack(w)
    PROVE  TypeInv'
<1>0. /\ DiskType /\ NotesType /\ OwnedType
      /\ (UNCHANGED <<files, dirs, manifest, temps>> => DiskType') /\ (scan' = scan => NotesType')
      /\ (owned' = owned => OwnedType')
      /\ gap \in BOOLEAN /\ faults \in 0..MaxFaults /\ txn[w] \in Txn
      /\ manifest \in History \cup {None} /\ Labels(w)
  BY SameTypes DEF TypeInv, TypeOK
<1>1. CASE UndoManifest(w)
  <2>1. (IF Mine(w) THEN "claim" ELSE "remove") \in Rollback \ {"link", "restore", "prune"}
    BY DEF Rollback
  <2>2. /\ UNCHANGED <<files, dirs, manifest, temps, todo, scan, seen, stood, owned, outcome, bounds>>
        /\ Rolls(w, IF Mine(w) THEN "claim" ELSE "remove")
    BY <1>1 DEF UndoManifest, walk, disk
  <2> QED BY <1>0, <2>1, <2>2, RollsType DEF bounds
<1>2. CASE ClaimManifest(w)
  <2>1. CASE Rolls(w, "remove") /\ UNCHANGED <<manifest, scan, owned>>
    BY <1>0, <1>2, <2>1, RollsType DEF ClaimManifest, disk, bounds, Rollback
  <2>2. CASE Claim(w, IF Mine(w) THEN txn[w].base ELSE manifest)
    <3>1. (IF Mine(w) THEN txn[w].base ELSE manifest) \in History \cup {None}
      BY <1>0 DEF Txn
    <3> QED BY <1>0, <1>2, <2>2, <3>1, ClaimType DEF ClaimManifest, bounds
  <2> QED BY <1>2, <2>1, <2>2 DEF ClaimManifest
<1>3. CASE RestoreManifest(w)
  BY <1>0, <1>3, ReinstallType DEF RestoreManifest, bounds
<1>4. CASE RemoveFile(w)
  <2> DEFINE x == LastCreated(w)
  <2>1. x \in Path
    BY <1>0, <1>4, LastIsCreated DEF RemoveFile, Created, Txn
  <2>2. /\ Removed(x) /\ pc' = [pc EXCEPT ![w] = "prune"]
        /\ txn' = [txn EXCEPT ![w] = [txn[w] EXCEPT !.gone = x]]
        /\ UNCHANGED <<dirs, manifest, temps, lock, goal, todo, seen, stood, outcome, bounds>>
    BY <1>4 DEF RemoveFile, GoTo
  <2> HIDE DEF x
  <2>3. [txn[w] EXCEPT !.gone = x] \in Txn /\ [txn[w] EXCEPT !.gone = x].gone = x
    BY <1>0, <2>1 DEF Txn
  <2>4. x # None
    BY <2>1, NoneAssumption
  <2> QED BY <1>0, <2>1, <2>2, <2>3, <2>4, RemovedType, MoveType DEF outcome, bounds, Rollback
<1>5. CASE Prune(w)
  <2>1. txn[w].gone # None
    BY <1>0, <1>5 DEF Prune, Labels
  <2>2. DiskType' /\ NotesType' /\ OwnedType'
    BY <1>5, <2>1, PrunedType DEF Prune
  <2> QED BY <1>0, <1>5, <2>2, GoOnType DEF Prune, bounds
<1>6. CASE Settle(w)
  BY <1>0, <1>6, EndType DEF Settle, TypeInv, TypeOK, outcome, bounds
<1> QED BY <1>1, <1>2, <1>3, <1>4, <1>5, <1>6 DEF RollBack

(* I/O errors keep the types. *)
LEMMA TypeFault ==
    ASSUME TypeInv, NEW w \in Writers, Fault(w)
    PROVE  TypeInv'
<1>0. /\ DiskType /\ NotesType /\ OwnedType
      /\ (UNCHANGED <<files, dirs, manifest, temps>> => DiskType') /\ (scan' = scan => NotesType')
      /\ (owned' = owned => OwnedType')
      /\ gap \in BOOLEAN /\ txn[w] \in Txn
      /\ manifest \in History \cup {None} /\ Labels(w)
      /\ acked \subseteq History /\ unreported \subseteq History
      /\ view \in [Writers -> History \cup {None}]
  BY SameTypes DEF TypeInv, TypeOK
<1>f. faults' \in 0..MaxFaults /\ UNCHANGED crashes
  BY BoundsAssumption DEF Fault, TypeInv, TypeOK
<1>r. ManifestPath \in Place
  BY DEF Place
<1>1. CASE FailsReading(w)
  BY <1>f, <1>1, FailsType DEF FailsReading
<1>2. CASE FailsReporting(w)
  <2>1. unreported' \subseteq History
    BY <1>0, <1>2 DEF FailsReporting, Txn
  <2> QED BY <1>0, <1>f, <1>2, <2>1, EndType DEF FailsReporting
<1>3. CASE FailsWriting(w)
  <2>1. gap' \in BOOLEAN
    BY <1>3 DEF FailsWriting
  <2>2. UNCHANGED <<files, dirs, manifest, temps, todo, scan, seen, stood, outcome>> /\ Undo(w)
    BY <1>3 DEF FailsWriting, walk, disk
  <2> QED BY <1>0, <1>f, <2>1, <2>2, UndoType
<1>4. CASE FailsLinking(w)
  <2>0. pc[w] = "link" /\ UNCHANGED <<dirs, manifest, todo, seen, stood, outcome>>
    BY <1>4 DEF FailsLinking
  <2>p. /\ Writing(w) \in Place /\ Parent(Writing(w)) \in Place
        /\ NewFile(w, Writing(w)) => files' \in [Path -> History \cup {None}]
    BY <1>0, <2>0, WritingType DEF Labels
  <2>1. CASE /\ Unlink(w, Writing(w)) /\ Undo(w) /\ gap' = (gap \/ InNewDirectory(w))
             /\ UNCHANGED files
    <3>1. DiskType' /\ NotesType' /\ gap' \in BOOLEAN
      BY <1>0, <2>0, <2>1, NotesKept DEF DiskType, Unlink
    <3> QED BY <1>f, <2>0, <2>1, <3>1, UndoType
  <2>2. CASE Undo(w) /\ gap' = TRUE /\ UNCHANGED <<files, temps, scan>>
    BY <1>0, <1>f, <2>0, <2>2, UndoType DEF disk
  <2>3. ASSUME NEW fresh \in BOOLEAN, Unlink(w, Writing(w)), NewFile(w, Writing(w)),
               UndoVisible(w, Writing(w), fresh)
        PROVE  TypeInv'
    <3>1. DiskType' /\ NotesType'
      BY <1>0, <2>0, <2>p, <2>3, NotesKept DEF DiskType, Unlink
    <3>2. OwnedType' /\ Rolls(w, "undo") /\ gap' \in BOOLEAN
      BY <2>p, <2>3, OwnedKept DEF UndoVisible, Rolls
    <3> QED BY <1>f, <2>0, <3>1, <3>2, RollsType DEF Rollback
  <2> QED BY <1>4, <2>1, <2>2, <2>3 DEF FailsLinking
<1>5. CASE FailsReplacing(w)
  <2>0. UNCHANGED <<files, dirs, todo, seen, stood, outcome>> /\ temps' \subseteq temps
    BY <1>5 DEF FailsReplacing
  <2>1. CASE Undo(w) /\ UNCHANGED <<manifest, scan, gap>>
    <3>1. DiskType' /\ NotesType'
      BY <1>0, <2>0, <2>1 DEF DiskType
    <3> QED BY <1>0, <1>f, <2>0, <2>1, <3>1, UndoType
  <2>2. ASSUME NEW fresh \in BOOLEAN, manifest' = txn[w].next, Names(ManifestPath),
               UndoVisible(w, ManifestPath, fresh)
        PROVE  TypeInv'
    <3>1. DiskType' /\ NotesType'
      BY <1>0, <2>0, <2>2, NotesKept DEF DiskType, Names, Txn
    <3>2. OwnedType' /\ Rolls(w, "undo") /\ gap' \in BOOLEAN
      BY <1>r, <2>2, OwnedKept DEF UndoVisible, Rolls
    <3> QED BY <1>f, <2>0, <3>1, <3>2, RollsType DEF Rollback
  <2> QED BY <1>5, <2>1, <2>2 DEF FailsReplacing
<1>6. CASE FailsRestoring(w)
  <2>0. UNCHANGED <<files, dirs, temps, todo, seen, stood, outcome, gap>>
    BY <1>6 DEF FailsRestoring
  <2>1. CASE Rolls(w, "remove") /\ UNCHANGED <<manifest, scan, owned>>
    BY <1>0, <1>f, <2>0, <2>1, RollsType DEF disk, Rollback
  <2>2. CASE Claim(w, manifest) \/ Claim(w, None)
    BY <1>0, <1>f, <2>0, <2>2, ClaimType
  <2>3. CASE pc[w] = "restore" /\ Reinstall(w)
    BY <1>f, <2>0, <2>3, ReinstallType
  <2> QED BY <1>6, <2>1, <2>2, <2>3 DEF FailsRestoring
<1>7. CASE FailsRemoving(w)
  <2>0. GoOn(w) /\ UNCHANGED <<manifest, temps, todo, seen, stood, outcome, gap>>
    BY <1>7 DEF FailsRemoving
  <2>1. CASE pc[w] = "remove" /\ Created(w) # {} /\ UNCHANGED dirs /\
             \/ NoneOwns(LastCreated(w)) /\ UNCHANGED <<files, scan>>
             \/ NoneOwns(LastCreated(w)) /\ Names(LastCreated(w)) /\ UNCHANGED files
             \/ Removed(LastCreated(w))
    <3>1. LastCreated(w) \in Path /\ LastCreated(w) \in Place
      BY <1>0, <2>1, LastIsCreated DEF Created, Txn, Place
    <3>2. DiskType' /\ NotesType' /\ OwnedType'
      <4>1. CASE NoneOwns(LastCreated(w)) /\ UNCHANGED <<files, scan>>
        BY <1>0, <2>0, <2>1, <3>1, <4>1, OwnedKept DEF disk
      <4>2. CASE NoneOwns(LastCreated(w)) /\ Names(LastCreated(w)) /\ UNCHANGED files
        BY <1>0, <2>0, <2>1, <3>1, <4>2, OwnedKept, NotesKept DEF disk, Names
      <4>3. CASE Removed(LastCreated(w))
        BY <2>0, <2>1, <3>1, <4>3, RemovedType
      <4> QED BY <2>1, <4>1, <4>2, <4>3
    <3> QED BY <1>f, <2>0, <3>2, GoOnType
  <2>2. CASE /\ pc[w] = "prune" /\ UNCHANGED files
             /\ Pruned(w, Parent(txn[w].gone)) \/ UNCHANGED <<dirs, scan, owned>>
    <3>1. DiskType' /\ NotesType' /\ OwnedType'
      BY <1>0, <2>0, <2>2, PrunedType DEF Labels
    <3> QED BY <1>f, <2>0, <3>1, GoOnType
  <2> QED BY <1>7, <2>1, <2>2 DEF FailsRemoving
<1>8. CASE FailsSettling(w)
  BY <1>0, <1>f, <1>8, EndType DEF FailsSettling, outcome
<1> QED BY <1>1, <1>2, <1>3, <1>4, <1>5, <1>6, <1>7, <1>8 DEF Fault

(* A kill keeps the types. *)
LEMMA TypeCrash ==
    ASSUME TypeInv, NEW w \in Writers, Crash(w)
    PROVE  TypeInv'
<1> DEFINE dead == Killed(w)
<1>1. /\ pc' = [p \in Writers |-> IF p \in dead THEN "idle" ELSE pc[p]]
      /\ goal' = [p \in Writers |-> IF p \in dead THEN "read" ELSE goal[p]]
      /\ todo' = [p \in Writers |-> IF p \in dead THEN {} ELSE todo[p]]
      /\ scan' = [p \in Writers |-> IF p \in dead THEN NoScan ELSE scan[p]]
      /\ seen' = [p \in Writers |-> IF p \in dead THEN None ELSE seen[p]]
      /\ stood' = [p \in Writers |-> IF p \in dead THEN None ELSE stood[p]]
      /\ view' = [p \in Writers |-> IF p \in dead THEN None ELSE view[p]]
      /\ txn' = [p \in Writers |-> IF p \in dead THEN NoTxn ELSE txn[p]]
      /\ owned' = [p \in Writers |-> IF p \in dead THEN {} ELSE owned[p]]
      /\ lock' = IF lock \in dead THEN None ELSE lock
      /\ crashes < MaxCrashes /\ crashes' = crashes + 1
      /\ UNCHANGED <<disk, acked, unreported, gap, faults>>
  BY DEF Crash
<1> HIDE DEF dead
<1>2. crashes' \in 0..MaxCrashes
  BY <1>1, BoundsAssumption DEF TypeInv, TypeOK
<1>3. scan' \in [Writers -> [Place -> Note]] /\ txn' \in [Writers -> Txn]
  BY <1>1, NoTxnType DEF TypeInv, TypeOK
<1>4. TypeOK'
  BY <1>1, <1>2, <1>3 DEF TypeInv, TypeOK, disk
<1>5. ASSUME NEW v \in Writers PROVE Labels(v)'
  <2>1. CASE v \in dead
    BY <1>1, <2>1 DEF Labels, Verifying
  <2>2. CASE v \notin dead
    BY <1>1, <2>2 DEF TypeInv, Labels
  <2> QED BY <2>1, <2>2
<1> QED BY <1>4, <1>5 DEF TypeInv

(* Every step keeps the types. *)
LEMMA TypeNext == TypeInv /\ [Next]_vars => TypeInv'
<1> SUFFICES ASSUME TypeInv, [Next]_vars PROVE TypeInv'
  OBVIOUS
<1>1. ASSUME NEW w \in Writers, Verify(w) \/ Commit(w) \/ RollBack(w) \/ Fault(w) \/ Crash(w)
      PROVE  TypeInv'
  BY <1>1, TypeVerify, TypeCommit, TypeRollBack, TypeFault, TypeCrash
<1>2. ASSUME NEW w \in Writers, Initialize(w) \/ \E a \in Answers : StartSubmit(w, a)
      PROVE  TypeInv'
  BY <1>2, TypeStart
<1>3. CASE UNCHANGED vars
  BY <1>3 DEF vars, TypeInv, TypeOK, Labels
<1>4. CASE Next
  BY <1>1, <1>2, <1>4 DEF Next
<1> QED BY <1>3, <1>4

(* The types are invariant. *)
LEMMA TypeInvariant == Spec => []TypeInv
<1>1. Init => TypeInv
  BY TypeInit
<1>2. TypeInv /\ [Next]_vars => TypeInv'
  BY TypeNext
<1> QED BY <1>1, <1>2, PTL DEF Spec

(* Type correctness of the run storage, for every number of processes, with or
   without a shared lock, and whatever fails or is killed. *)
THEOREM TypeCorrect == Spec => []TypeOK
<1>1. TypeInv => TypeOK
  BY DEF TypeInv
<1> QED BY <1>1, TypeInvariant, PTL

--------------------------------------------------------------------------------
(***************************************************************************)
(* What a verifier knows while others change the directory: a note that    *)
(* still says "same" speaks of a node nobody has touched since.            *)
(***************************************************************************)
Noted(p) == {x \in Place : scan[p][x] # "absent"}
Found(p) == Noted(p) \cup (IF pc[p] = "scan" THEN todo[p] ELSE {})

NotesHold(p) ==
    /\ \A x \in Path \cup {ManifestPath} : scan[p][x] = "same" => Present(x)
    /\ \A d \in Directory : scan[p][d] = "same" =>
           TempsIn(d) = {} /\ Entries(d) = {x \in Found(p) : Parent(x) = d}

InOrder(p) ==
    pc[p] = "scan" => /\ \A x \in Found(p) \cap Path : Parent(x) \in Noted(p)
                      /\ Noted(p) \cap todo[p] = {}
                      /\ Root \in todo[p] => todo[p] = {Root} /\ Noted(p) = {}

Loaded(p) ==
    seen[p] # None =>
        /\ Noted(p) = Expected(seen[p])
        /\ scan[p][ManifestPath] = "same" => manifest = seen[p]
        /\ \A x \in PathsOf(seen[p]) :
               scan[p][x] = "same" /\ (pc[p] = "load" => x \notin todo[p]) => Holds(x, seen[p])

Resting(p) ==
    /\ pc[p] \notin Verifying => todo[p] = {} /\ scan[p] = NoScan /\ seen[p] = None
    /\ pc[p] = "scan" => seen[p] = None

(* Unless the run it loaded stood there when its second walk began, that walk has
   an entry to come that is not what the first one noted. *)
Sure(p) ==
    pc[p] = "rescan" =>
        stood[p] = seen[p] \/ \E x \in todo[p] : x # Root /\ scan[p][x] # "same"

WalkInv(p) == NotesHold(p) /\ InOrder(p) /\ Loaded(p) /\ Resting(p) /\ Sure(p)
ReadInv == TypeInv /\ \A p \in Writers : WalkInv(p)

(***************************************************************************)
(* The ways a step may go, for one verifier p.                             *)
(***************************************************************************)
(* Whatever the step has done to the directory, p's notes tell. *)
Watched(p) ==
    /\ \A x \in Place : scan'[p][x] # scan[p][x] =>
           scan[p][x] # "absent" /\ scan'[p][x] = "changed"
    /\ \A d \in Directory : scan'[p][d] = "same" =>
           TempsIn(d)' = TempsIn(d) /\ Entries(d)' = Entries(d)
    /\ \A x \in Path : scan'[p][x] = "same" => files'[x] = files[x] \/ files[x] = None
    /\ scan'[p][ManifestPath] = "same" => manifest' = manifest \/ manifest = None

WalkKept(p) == todo'[p] = todo[p] /\ seen'[p] = seen[p] /\ stood'[p] = stood[p]

Rests(p) ==
    /\ Watched(p) /\ WalkKept(p)
    /\ pc'[p] = pc[p] \/ (pc[p] \notin Verifying /\ pc'[p] \notin Verifying)

Begins(p) ==
    /\ pc[p] \notin Verifying /\ pc'[p] = "scan" /\ Watched(p)
    /\ todo'[p] = {Root} /\ seen'[p] = seen[p]

Drops(p) ==
    pc'[p] \notin Verifying /\ todo'[p] = {} /\ scan'[p] = NoScan /\ seen'[p] = None

NotesEntry(p) ==
    /\ UNCHANGED disk /\ pc[p] = "scan" /\ pc'[p] \in {"scan", "load"} /\ seen'[p] = seen[p]
    /\ \E x \in todo[p] :
          /\ x \in Listable \cup Place
          /\ x # Root => Present(x)
          /\ x \in Listable => TempsIn(x) = {}
          /\ scan'[p] = [y \in Place |-> IF y = x THEN "same" ELSE scan[p][y]]
          /\ todo'[p] = (todo[p] \ {x}) \cup Entries(x)
          /\ pc'[p] = "load" => todo'[p] = {}

ReadsManifest(p) ==
    /\ UNCHANGED disk /\ pc[p] = "load" /\ pc'[p] = "load"
    /\ scan'[p] = scan[p]
    /\ manifest # None /\ Noted(p) = Expected(manifest)
    /\ seen'[p] = manifest /\ todo'[p] = PathsOf(manifest)

ReadsFile(p) ==
    /\ UNCHANGED disk /\ pc[p] = "load" /\ scan'[p] = scan[p] /\ seen'[p] = seen[p]
    /\ seen[p] # None
    /\ \E x \in todo[p] :
          /\ Holds(x, seen[p])
          /\ \/ pc'[p] = "load" /\ todo'[p] = todo[p] \ {x}
             \/ /\ pc'[p] = "rescan" /\ todo[p] = {x}
                /\ todo'[p] = {Root} \cup Expected(seen[p]) /\ stood'[p] = StandsNow

Revisits(p) ==
    /\ UNCHANGED disk /\ pc[p] = "rescan" /\ pc'[p] = "rescan"
    /\ scan'[p] = scan[p] /\ seen'[p] = seen[p] /\ stood'[p] = stood[p]
    /\ \E x : (x # Root => scan[p][x] = "same") /\ todo'[p] = todo[p] \ {x}

WalkStep(p) == \/ Rests(p) \/ Begins(p) \/ Drops(p)
               \/ NotesEntry(p) \/ ReadsManifest(p) \/ ReadsFile(p) \/ Revisits(p)

(* Each of them keeps what the verifier knows. *)
LEMMA WatchedNotes ==
    ASSUME TypeInv, NEW p \in Writers, WalkInv(p), Watched(p), TypeInv'
    PROVE  /\ \A x \in Place : scan'[p][x] = "same" => scan[p][x] = "same"
           /\ {x \in Place : scan'[p][x] # "absent"} = Noted(p)
           /\ scan[p] = NoScan => scan'[p] = NoScan
<1>0. scan \in [Writers -> [Place -> Note]] /\ scan' \in [Writers -> [Place -> Note]]
  BY DEF TypeInv, TypeOK
<1>1. \A x \in Place : scan'[p][x] = "same" => scan[p][x] = "same"
  BY DEF Watched
<1>2. \A x \in Place : scan'[p][x] # "absent" <=> scan[p][x] # "absent"
  BY DEF Watched
<1>3. ASSUME scan[p] = NoScan PROVE scan'[p] = NoScan
  <2>1. \A x \in Place : scan'[p][x] = "absent"
    BY <1>2, <1>3 DEF NoScan
  <2> QED BY <1>0, <2>1 DEF NoScan
<1> QED BY <1>1, <1>2, <1>3 DEF Noted

(* A verification that stands still keeps what it knows, *)
LEMMA RestsKeeps ==
    ASSUME TypeInv, NEW p \in Writers, WalkInv(p), Rests(p), TypeInv'
    PROVE  WalkInv(p)'
<1>0. /\ \A x \in Place : scan'[p][x] = "same" => scan[p][x] = "same"
      /\ Noted(p)' = Noted(p)
      /\ scan[p] = NoScan => scan'[p] = NoScan
      /\ Watched(p) /\ WalkKept(p)
      /\ pc'[p] = pc[p] \/ (pc[p] \notin Verifying /\ pc'[p] \notin Verifying)
  BY WatchedNotes DEF Rests, Noted
<1>p. Path \subseteq Place /\ Directory \subseteq Place /\ ManifestPath \in Place
      /\ ManifestPath \notin Path \cup Directory
  BY Places DEF Place
<1>1. Found(p)' = Found(p)
  BY <1>0 DEF Found, WalkKept, Verifying
<1>2. NotesHold(p)'
  <2>1. ASSUME NEW x \in Path, scan'[p][x] = "same" PROVE files'[x] # None
    <3>1. files[x] # None
      BY <1>0, <1>p, <2>1 DEF WalkInv, NotesHold, Present
    <3> QED BY <1>0, <2>1, <3>1 DEF Watched
  <2>2. ASSUME scan'[p][ManifestPath] = "same" PROVE manifest' # None
    <3>1. manifest # None
      BY <1>0, <1>p, <2>2 DEF WalkInv, NotesHold, Present
    <3> QED BY <1>0, <2>2, <3>1 DEF Watched
  <2>3. ASSUME NEW d \in Directory, scan'[p][d] = "same"
        PROVE  TempsIn(d)' = {} /\ Entries(d)' = {x \in Found(p)' : Parent(x) = d}
    <3>1. scan[p][d] = "same"
      BY <1>0, <1>p, <2>3
    <3>2. TempsIn(d) = {} /\ Entries(d) = {x \in Found(p) : Parent(x) = d}
      BY <3>1 DEF WalkInv, NotesHold
    <3> QED BY <1>0, <1>1, <2>3, <3>2 DEF Watched
  <2>4. \A x \in Path \cup {ManifestPath} : scan'[p][x] = "same" => Present(x)'
    BY <1>p, <2>1, <2>2 DEF Present
  <2> QED BY <2>3, <2>4 DEF NotesHold
<1>3. InOrder(p)'
  BY <1>0, <1>1 DEF WalkInv, InOrder, WalkKept, Verifying
<1>4. Loaded(p)'
  <2> SUFFICES ASSUME seen'[p] # None
               PROVE  /\ Noted(p)' = Expected(seen'[p])
                      /\ scan'[p][ManifestPath] = "same" => manifest' = seen'[p]
                      /\ \A x \in PathsOf(seen'[p]) :
                            scan'[p][x] = "same" /\ (pc'[p] = "load" => x \notin todo'[p])
                                => files'[x] = Content(x, seen'[p])
    BY DEF Loaded, Holds
  <2>1. seen'[p] = seen[p] /\ todo'[p] = todo[p] /\ Loaded(p) /\ pc'[p] = pc[p]
        /\ seen[p] \in History
    BY <1>0 DEF WalkKept, WalkInv, Resting, TypeInv, TypeOK
  <2>2. ASSUME scan'[p][ManifestPath] = "same" PROVE manifest' = seen'[p]
    <3>1. scan[p][ManifestPath] = "same" /\ manifest = seen[p]
      BY <1>0, <1>p, <2>1, <2>2 DEF Loaded
    <3> QED BY <1>0, <2>1, <2>2, <3>1 DEF Watched
  <2>3. ASSUME NEW x \in PathsOf(seen[p]), scan'[p][x] = "same", pc[p] = "load" => x \notin todo[p]
        PROVE  files'[x] = Content(x, seen[p])
    <3>0. x \in Path
      BY <2>1, Contents
    <3>1. scan[p][x] = "same" /\ files[x] = Content(x, seen[p])
      BY <1>0, <1>p, <2>1, <2>3, <3>0 DEF Loaded, Holds
    <3>2. files[x] # None
      BY <3>0, <3>1 DEF WalkInv, NotesHold, Present
    <3> QED BY <1>0, <2>3, <3>0, <3>1, <3>2 DEF Watched
  <2> QED BY <1>0, <2>1, <2>2, <2>3 DEF Loaded
<1>5. Resting(p)'
  BY <1>0 DEF WalkInv, Resting, WalkKept, Verifying
<1>6. Sure(p)'
  <2> SUFFICES ASSUME pc'[p] = "rescan", stood'[p] # seen'[p]
               PROVE  \E x \in todo'[p] : x # Root /\ scan'[p][x] # "same"
    BY DEF Sure
  <2>1. PICK x \in todo[p] : x # Root /\ scan[p][x] # "same"
    BY <1>0 DEF WalkInv, Sure, WalkKept, Verifying
  <2>2. x \in Place
    BY <2>1 DEF TypeInv, TypeOK
  <2> QED BY <1>0, <2>1, <2>2 DEF WalkKept
<1> QED BY <1>2, <1>3, <1>4, <1>5, <1>6 DEF WalkInv

(* one that is over knows nothing, *)
LEMMA DropsKeeps ==
    ASSUME TypeInv, NEW p \in Writers, Drops(p)
    PROVE  WalkInv(p)'
<1>1. \A x \in Place : scan'[p][x] = "absent"
  BY DEF Drops, NoScan
<1> QED BY <1>1 DEF Drops, WalkInv, NotesHold, InOrder, Loaded, Resting, Sure, Verifying, Place

(* and so does one that begins. *)
LEMMA BeginsKeeps ==
    ASSUME TypeInv, NEW p \in Writers, WalkInv(p), Begins(p), TypeInv'
    PROVE  WalkInv(p)'
<1>0. /\ scan'[p] = NoScan /\ seen'[p] = None /\ todo'[p] = {Root} /\ pc'[p] = "scan"
  BY WatchedNotes DEF Begins, WalkInv, Resting
<1>1. (\A x \in Place : scan'[p][x] = "absent") /\ Noted(p)' = {}
  BY <1>0 DEF NoScan, Noted
<1>2. Root \notin Path
  BY Places DEF Place
<1> QED BY <1>0, <1>1, <1>2 DEF WalkInv, NotesHold, InOrder, Loaded, Resting, Sure, Verifying, Place, Found

(* The first walk notes one more entry, *)
LEMMA NotesEntryKeeps ==
    ASSUME TypeInv, NEW p \in Writers, WalkInv(p), NotesEntry(p), TypeInv'
    PROVE  WalkInv(p)'
<1>0. /\ UNCHANGED <<files, dirs, manifest, temps>> /\ pc[p] = "scan"
      /\ pc'[p] \in {"scan", "load"} /\ seen'[p] = seen[p] /\ seen[p] = None
      /\ scan[p] \in [Place -> Note] /\ todo[p] \subseteq Place \cup {Root}
  BY DEF NotesEntry, WalkInv, Resting, disk, TypeInv, TypeOK
<1>1. PICK x \in todo[p] :
          /\ x \in Listable \cup Place
          /\ x # Root => Present(x)
          /\ x \in Listable => TempsIn(x) = {}
          /\ scan'[p] = [y \in Place |-> IF y = x THEN "same" ELSE scan[p][y]]
          /\ todo'[p] = (todo[p] \ {x}) \cup Entries(x)
          /\ pc'[p] = "load" => todo'[p] = {}
  BY DEF NotesEntry
<1>p. /\ Path \subseteq Place /\ Directory \subseteq Place /\ ManifestPath \in Place
      /\ ManifestPath \notin Path \cup Directory /\ Path \cap Directory = {} /\ Root \notin Place
      /\ \A y \in Path : Parent(y) \in Directory
      /\ \A y \in Place \ Path : Parent(y) = Root
      /\ Listable = Directory \cup {Root} /\ Place = Path \cup Directory \cup {ManifestPath}
  BY Places DEF Place, Listable
<1>2. Noted(p)' = Noted(p) \cup ({x} \cap Place)
  BY <1>0, <1>1 DEF Noted
<1>3. Found(p) = Noted(p) \cup todo[p] /\ Found(p)' = Noted(p)' \cup todo'[p]
  BY <1>0, <1>1 DEF Found
<1>4. /\ \A y \in Found(p) \cap Path : Parent(y) \in Noted(p)
      /\ Noted(p) \cap todo[p] = {}
      /\ Root \in todo[p] => todo[p] = {Root} /\ Noted(p) = {}
  BY <1>0 DEF WalkInv, InOrder
<1>5. \A y \in Entries(x) : y \in Place /\ Parent(y) = x
  BY DEF Entries
<1>6. \A y \in Entries(x) : x \in Listable
  BY <1>5, <1>p
<1>7. ASSUME NEW y \in Place, Parent(y) = x PROVE y \notin Found(p)
  <2>1. CASE x = Root
    BY <1>1, <1>3, <1>4, <1>7, <1>p, <2>1
  <2>2. CASE x # Root
    <3>1. y \in Path
      BY <1>7, <1>p, <2>2
    <3> QED BY <1>1, <1>4, <1>7, <3>1
  <2> QED BY <2>1, <2>2
<1>8. x # Root => x \notin Noted(p)
  BY <1>1, <1>4
<1>9. NotesHold(p)'
  <2>1. ASSUME NEW y \in Path \cup {ManifestPath}, scan'[p][y] = "same" PROVE Present(y)
    <3>1. CASE y = x
      BY <1>1, <1>p, <3>1
    <3>2. CASE y # x
      BY <1>1, <1>p, <2>1, <3>2 DEF WalkInv, NotesHold
    <3> QED BY <3>1, <3>2
  <2>2. ASSUME NEW d \in Directory, scan'[p][d] = "same"
        PROVE  TempsIn(d) = {} /\ Entries(d) = {y \in Found(p)' : Parent(y) = d}
    <3>1. CASE d = x
      <4>1. TempsIn(d) = {}
        BY <1>1, <1>p, <3>1
      <4>2. \A y \in Found(p)' : Parent(y) = d => y \in Entries(d)
        <5>1. ASSUME NEW y \in Found(p)', Parent(y) = d PROVE y \in Entries(d)
          <6>0. y # Root
            BY <1>p, <5>1 DEF Parent
          <6>1. y \in Place
            BY <1>0, <1>1, <1>2, <1>3, <1>5, <5>1, <6>0 DEF Noted
          <6>2. y \notin Found(p)
            BY <1>7, <3>1, <5>1, <6>1
          <6>3. y # x
            BY <1>p, <3>1, <5>1
          <6> QED BY <1>1, <1>2, <1>3, <3>1, <5>1, <6>2, <6>3
        <5> QED BY <5>1
      <4>3. \A y \in Entries(d) : y \in Found(p)' /\ Parent(y) = d
        BY <1>1, <1>3, <1>5, <3>1
      <4> QED BY <4>1, <4>2, <4>3
    <3>2. CASE d # x
      <4>1. scan[p][d] = "same"
        BY <1>1, <1>p, <2>2, <3>2
      <4>2. TempsIn(d) = {} /\ Entries(d) = {y \in Found(p) : Parent(y) = d}
        BY <4>1 DEF WalkInv, NotesHold
      <4>3. ASSUME NEW y, Parent(y) = d PROVE y \in Found(p) <=> y \in Found(p)'
        <5>1. y \notin Entries(x)
          BY <1>5, <3>2, <4>3
        <5>2. y # Root
          BY <1>p, <4>3 DEF Parent
        <5>3. CASE y = x
          BY <1>1, <1>2, <1>3, <1>p, <5>2, <5>3
        <5>4. CASE y # x
          BY <1>1, <1>2, <1>3, <5>1, <5>4
        <5> QED BY <5>3, <5>4
      <4> QED BY <4>2, <4>3
    <3> QED BY <3>1, <3>2
  <2>3. \A y \in Path \cup {ManifestPath} : Present(y)' <=> Present(y)
    BY <1>0 DEF Present
  <2>4. \A d \in Directory : TempsIn(d)' = TempsIn(d) /\ Entries(d)' = Entries(d)
    BY <1>0 DEF TempsIn, Entries, Present
  <2> QED BY <2>1, <2>2, <2>3, <2>4 DEF NotesHold
<1>10. InOrder(p)'
  <2>1. ASSUME NEW y \in Found(p)' \cap Path PROVE Parent(y) \in Noted(p)'
    <3>1. CASE y \in Entries(x)
      <4>1. Parent(y) = x /\ x \in Place
        BY <1>5, <1>p, <2>1, <3>1
      <4> QED BY <1>2, <4>1
    <3>2. CASE y \notin Entries(x)
      BY <1>1, <1>2, <1>3, <1>4, <2>1, <3>2
    <3> QED BY <3>1, <3>2
  <2>2. Noted(p)' \cap todo'[p] = {}
    <3>1. \A y \in Entries(x) : y \notin Noted(p) /\ y # x
      <4>1. \A y \in Entries(x) : y \notin Found(p)
        BY <1>5, <1>7
      <4> QED BY <1>1, <1>3, <4>1
    <3> QED BY <1>1, <1>2, <1>4, <3>1
  <2>3. Root \notin todo'[p]
    <3>1. Root \notin Entries(x)
      BY <1>5, <1>p
    <3> QED BY <1>1, <1>4, <3>1
  <2> QED BY <2>1, <2>2, <2>3 DEF InOrder
<1> QED BY <1>0, <1>9, <1>10 DEF WalkInv, Loaded, Resting, Sure, Verifying

(* the manifest is read, *)
LEMMA ReadsManifestKeeps ==
    ASSUME TypeInv, NEW p \in Writers, WalkInv(p), ReadsManifest(p), TypeInv'
    PROVE  WalkInv(p)'
<1>0. /\ UNCHANGED <<files, dirs, manifest, temps>> /\ pc[p] = "load" /\ pc'[p] = "load"
      /\ scan'[p] = scan[p] /\ manifest # None /\ Noted(p) = Expected(manifest)
      /\ seen'[p] = manifest /\ todo'[p] = PathsOf(manifest)
  BY DEF ReadsManifest, disk
<1>1. Noted(p)' = Noted(p) /\ Found(p)' = Found(p)
  BY <1>0 DEF Noted, Found
<1>2. NotesHold(p)'
  BY <1>0, <1>1 DEF WalkInv, NotesHold, Present, TempsIn, Entries
<1>3. Loaded(p)'
  BY <1>0, <1>1 DEF Loaded
<1> QED BY <1>0, <1>2, <1>3 DEF WalkInv, InOrder, Resting, Sure, Verifying

(* one more file is read, *)
LEMMA ReadsFileKeeps ==
    ASSUME TypeInv, NEW p \in Writers, WalkInv(p), ReadsFile(p), TypeInv'
    PROVE  WalkInv(p)'
<1>0. /\ UNCHANGED <<files, dirs, manifest, temps>> /\ pc[p] = "load"
      /\ scan'[p] = scan[p] /\ seen'[p] = seen[p] /\ seen[p] # None /\ seen[p] \in History
  BY DEF ReadsFile, disk, TypeInv, TypeOK
<1>1. PICK x \in todo[p] :
          /\ Holds(x, seen[p])
          /\ \/ pc'[p] = "load" /\ todo'[p] = todo[p] \ {x}
             \/ /\ pc'[p] = "rescan" /\ todo[p] = {x}
                /\ todo'[p] = {Root} \cup Expected(seen[p]) /\ stood'[p] = StandsNow
  BY DEF ReadsFile
<1>2. Noted(p)' = Noted(p) /\ Found(p)' = Found(p)
  BY <1>0, <1>1 DEF Noted, Found
<1>3. NotesHold(p)'
  BY <1>0, <1>2 DEF WalkInv, NotesHold, Present, TempsIn, Entries
<1>4. /\ Noted(p) = Expected(seen[p])
      /\ scan[p][ManifestPath] = "same" => manifest = seen[p]
      /\ \A y \in PathsOf(seen[p]) : scan[p][y] = "same" /\ y \notin todo[p] => Holds(y, seen[p])
  BY <1>0 DEF WalkInv, Loaded
<1>5. \A y \in PathsOf(seen[p]) :
          scan[p][y] = "same" /\ (pc'[p] = "load" => y \notin todo'[p]) => Holds(y, seen[p])
  BY <1>1, <1>4
<1>6. Loaded(p)'
  BY <1>0, <1>2, <1>4, <1>5 DEF Loaded, Holds
<1>7. Sure(p)'
  <2> SUFFICES ASSUME pc'[p] = "rescan", \A y \in todo'[p] : y # Root => scan[p][y] = "same"
               PROVE  stood'[p] = seen[p]
    BY <1>0 DEF Sure
  <2>1. todo[p] = {x} /\ todo'[p] = {Root} \cup Expected(seen[p]) /\ stood'[p] = StandsNow
    BY <1>1
  <2>p. /\ Path \cap Directory = {} /\ ManifestPath \notin Path \cup Directory /\ Root \notin Place
        /\ \A y \in Path : Parent(y) \in Directory
        /\ \A y \in Place \ Path : Parent(y) = Root
        /\ Place = Path \cup Directory \cup {ManifestPath}
        /\ \A y \in PathsOf(seen[p]) : y \in Path
    BY <1>0, Places, Contents DEF Place
  <2>2. \A y \in Expected(seen[p]) : scan[p][y] = "same"
    <3>1. Expected(seen[p]) \subseteq Place
      BY <1>0, Places
    <3> QED BY <2>1, <2>p, <3>1
  <2>3. manifest = seen[p]
    BY <1>4, <2>2 DEF Expected
  <2>4. \A y \in PathsOf(seen[p]) : Holds(y, seen[p])
    BY <1>5, <2>2 DEF Expected
  <2>5. ASSUME NEW d \in {Parent(y) : y \in PathsOf(seen[p])}
        PROVE  TempsIn(d) = {} /\ Entries(d) = {y \in PathsOf(seen[p]) : Parent(y) = d}
    <3>1. d \in Directory /\ scan[p][d] = "same"
      BY <2>2, <2>p DEF Expected
    <3>2. TempsIn(d) = {} /\ Entries(d) = {y \in Found(p) : Parent(y) = d}
      BY <3>1 DEF WalkInv, NotesHold
    <3>3. Found(p) = Expected(seen[p])
      BY <1>0, <1>4 DEF Found
    <3>4. ASSUME NEW y \in Expected(seen[p]), Parent(y) = d PROVE y \in PathsOf(seen[p])
      <4>1. Parent(y) # Root
        BY <2>p, <3>1, <3>4 DEF Place
      <4>2. ASSUME y \in Directory \cup {ManifestPath} PROVE FALSE
        BY <2>p, <4>1, <4>2
      <4> QED BY <2>p, <3>4, <4>2 DEF Expected
    <3>5. PathsOf(seen[p]) \subseteq Expected(seen[p])
      BY DEF Expected
    <3> QED BY <3>2, <3>3, <3>4, <3>5
  <2>6. Stands(manifest)
    BY <2>3, <2>4, <2>5 DEF Stands
  <2> QED BY <1>0, <2>1, <2>3, <2>6 DEF StandsNow
<1>8. InOrder(p)' /\ Resting(p)'
  BY <1>0, <1>1 DEF InOrder, Resting, Verifying
<1> QED BY <1>3, <1>6, <1>7, <1>8 DEF WalkInv

(* and the second walk finds one more entry unchanged. *)
LEMMA RevisitsKeeps ==
    ASSUME TypeInv, NEW p \in Writers, WalkInv(p), Revisits(p), TypeInv'
    PROVE  WalkInv(p)'
<1>0. /\ UNCHANGED <<files, dirs, manifest, temps>> /\ pc[p] = "rescan" /\ pc'[p] = "rescan"
      /\ scan'[p] = scan[p] /\ seen'[p] = seen[p] /\ stood'[p] = stood[p]
  BY DEF Revisits, disk
<1>1. PICK x : (x # Root => scan[p][x] = "same") /\ todo'[p] = todo[p] \ {x}
  BY DEF Revisits
<1>2. Noted(p)' = Noted(p) /\ Found(p)' = Found(p)
  BY <1>0 DEF Noted, Found
<1>3. NotesHold(p)'
  BY <1>0, <1>2 DEF WalkInv, NotesHold, Present, TempsIn, Entries
<1>4. Loaded(p)'
  BY <1>0, <1>2 DEF WalkInv, Loaded, Holds
<1>5. Sure(p)'
  BY <1>0, <1>1 DEF WalkInv, Sure
<1> QED BY <1>0, <1>3, <1>4, <1>5 DEF WalkInv, InOrder, Resting, Verifying

(* Every kind of step keeps it. *)
LEMMA WalkKeeps ==
    ASSUME TypeInv, NEW p \in Writers, WalkInv(p), WalkStep(p), TypeInv'
    PROVE  WalkInv(p)'
  BY RestsKeeps, DropsKeeps, BeginsKeeps, NotesEntryKeeps, ReadsManifestKeeps, ReadsFileKeeps,
     RevisitsKeeps DEF WalkStep

(***************************************************************************)
(* Every step is of one of these kinds, for every verifier.                *)
(***************************************************************************)
(* Only what a step marks can look different to a verifier. *)
LEMMA Marked ==
    ASSUME TypeInv, NEW X,
           Changes(X) \/ (X = {} /\ scan' = scan),
           \A x \in Path : files'[x] # files[x] =>
                              Parent(x) \in X /\ (files[x] = None \/ x \in X),
           \A d \in Directory : d \notin X => TempsIn(d)' = TempsIn(d),
           manifest' = manifest \/ manifest = None \/ ManifestPath \in X
    PROVE  \A p \in Writers : Watched(p)
<1> SUFFICES ASSUME NEW p \in Writers PROVE Watched(p)
  OBVIOUS
<1>p. /\ Path \subseteq Place /\ Directory \subseteq Place /\ ManifestPath \in Place
      /\ Path \cap Directory = {} /\ ManifestPath \notin Path \cup Directory
      /\ \A y \in Place \ Path : Parent(y) = Root
      /\ Root \notin Directory
  BY Places DEF Place
<1>1. ASSUME NEW x \in Place
      PROVE  scan'[p][x] = IF x \in X /\ scan[p][x] # "absent" THEN "changed" ELSE scan[p][x]
  BY DEF Changes
<1>2. ASSUME NEW x \in Place, scan'[p][x] = "same" PROVE x \notin X
  <2>1. CASE scan[p][x] # "absent"
    BY <1>1, <1>2, <2>1
  <2>2. CASE scan[p][x] = "absent"
    BY <1>1, <1>2, <2>2
  <2> QED BY <2>1, <2>2
<1>3. ASSUME NEW d \in Directory, scan'[p][d] = "same"
      PROVE  TempsIn(d)' = TempsIn(d) /\ Entries(d)' = Entries(d)
  <2>1. d \notin X
    BY <1>2, <1>3, <1>p
  <2>2. ASSUME NEW x \in Place, Parent(x) = d PROVE Present(x)' <=> Present(x)
    <3>1. x \in Path
      BY <1>p, <2>2
    <3> QED BY <2>1, <2>2, <3>1 DEF Present
  <2> QED BY <2>1, <2>2 DEF Entries
<1> QED BY <1>1, <1>2, <1>3, <1>p DEF Watched

(* A step that leaves files, manifest, temporaries and notes alone, or only puts
   something where there was nothing. *)
LEMMA Unmarked ==
    ASSUME TypeInv, UNCHANGED <<files, scan>>,
           manifest' = manifest \/ manifest = None,
           \A d \in Directory : TempsIn(d)' = TempsIn(d)
    PROVE  \A p \in Writers : Watched(p)
<1> DEFINE X == {}
<1>1. X = {} /\ scan' = scan
  OBVIOUS
<1>2. /\ \A x \in Path : files'[x] # files[x] =>
                              Parent(x) \in X /\ (files[x] = None \/ x \in X)
      /\ \A d \in Directory : d \notin X => TempsIn(d)' = TempsIn(d)
      /\ manifest' = manifest \/ manifest = None \/ ManifestPath \in X
      /\ Changes(X) \/ (X = {} /\ scan' = scan)
  OBVIOUS
<1> HIDE DEF X
<1> QED BY ONLY TypeInv, <1>2, Marked

(* A process that goes on as it was. *)
LEMMA StillRests ==
    ASSUME TypeInv, NEW p \in Writers, UNCHANGED <<files, dirs, manifest, temps>>,
           scan'[p] = scan[p], WalkKept(p), pc'[p] = pc[p]
    PROVE  WalkStep(p)
<1>1. Watched(p)
  BY DEF Watched, TempsIn, Entries, Present
<1> QED BY <1>1 DEF WalkStep, Rests

(* Others rest while a transaction takes a step, marked or not. *)
LEMMA OthersRest ==
    ASSUME TypeInv, NEW w \in Writers, NEW label, pc' = [pc EXCEPT ![w] = label],
           label \notin Verifying, pc[w] \notin Verifying,
           UNCHANGED <<todo, seen, stood>>, \A p \in Writers : Watched(p)
    PROVE  \A p \in Writers : WalkStep(p)
<1> SUFFICES ASSUME NEW p \in Writers PROVE Rests(p)
  BY DEF WalkStep
<1>1. pc'[p] = pc[p] \/ (p = w /\ pc'[p] = label)
  BY DEF TypeInv, TypeOK
<1> QED BY <1>1 DEF Rests, WalkKept

(* The end of a walk, for all. *)
LEMMA EndSteps ==
    ASSUME TypeInv, NEW w \in Writers, End(w) \/ VerificationFails(w) \/ (Undo(w) /\ DropWalk(w)),
           UNCHANGED <<files, dirs, manifest, temps>>
    PROVE  \A p \in Writers : WalkStep(p)
<1> SUFFICES ASSUME NEW p \in Writers PROVE WalkStep(p)
  OBVIOUS
<1>1. /\ pc' = [pc EXCEPT ![w] = "idle"] \/ pc' = [pc EXCEPT ![w] = "undo"]
      /\ DropWalk(w)
  BY DEF End, Finish, VerificationFails, Undo, GoTo
<1>2. CASE p = w
  <2>1. Drops(p)
    BY <1>1, <1>2 DEF Drops, DropWalk, Verifying, TypeInv, TypeOK
  <2> QED BY <2>1 DEF WalkStep
<1>3. CASE p # w
  <2>1. scan'[p] = scan[p] /\ WalkKept(p) /\ pc'[p] = pc[p]
    BY <1>1, <1>3 DEF DropWalk, WalkKept, TypeInv, TypeOK
  <2> QED BY <2>1, StillRests
<1> QED BY <1>2, <1>3

(* The steps of a verification. *)
LEMMA VerifySteps ==
    ASSUME TypeInv, NEW w \in Writers, Verify(w)
    PROVE  \A p \in Writers : WalkStep(p)
<1>0. /\ scan \in [Writers -> [Place -> Note]]
      /\ seen \in [Writers -> History \cup {None}] /\ stood \in [Writers -> History \cup {None}]
      /\ todo \in [Writers -> SUBSET (Place \cup {Root})] /\ DOMAIN pc = Writers
      /\ goal \in [Writers -> {"read", "submit", "confirm"}]
  BY DEF TypeInv, TypeOK
<1>o. ASSUME NEW label, pc' = [pc EXCEPT ![w] = label] \/ pc' = pc,
             UNCHANGED <<files, dirs, manifest, temps>>,
             \A p \in Writers \ {w} : /\ scan'[p] = scan[p] /\ seen'[p] = seen[p]
                                      /\ todo'[p] = todo[p] /\ stood'[p] = stood[p]
      PROVE  \A p \in Writers \ {w} : WalkStep(p)
  BY <1>0, <1>o, StillRests DEF WalkKept
<1>1. CASE StartRead(w)
  <2>0. /\ pc[w] = "idle" /\ pc' = [pc EXCEPT ![w] = "scan"] /\ todo' = [todo EXCEPT ![w] = {Root}]
        /\ UNCHANGED <<files, dirs, manifest, temps, scan, seen, stood>>
    BY <1>1 DEF StartRead, GoTo, StartWalk, disk
  <2>1. \A p \in Writers \ {w} : WalkStep(p)
    <3>1. \A p \in Writers \ {w} : todo'[p] = todo[p]
      BY <1>0, <2>0
    <3> QED BY <1>o, <2>0, <3>1
  <2>2. Watched(w)
    <3>1. \A d \in Directory : TempsIn(d)' = TempsIn(d)
      BY <2>0 DEF TempsIn
    <3> QED BY <2>0, <3>1, Unmarked
  <2>3. Begins(w)
    BY <1>0, <2>0, <2>2 DEF Begins, Verifying
  <2> QED BY <2>1, <2>3 DEF WalkStep
<1>2. CASE Scan(w)
  <2>1. PICK x \in Listable \cup Place : Scan(w)!(x)
    BY <1>2 DEF Scan
  <2>2. pc[w] = "scan" /\ x \in todo[w] /\ UNCHANGED <<files, dirs, manifest, temps>>
    BY <2>1 DEF Reaches, disk
  <2>3. CASE VerificationFails(w)
    BY <2>2, <2>3, EndSteps
  <2>4. CASE ~VerificationFails(w)
    <3> DEFINE left == (todo[w] \ {x}) \cup Entries(x)
               note == [y \in Place |-> IF y = x THEN "same" ELSE scan[w][y]]
               label == IF left = {} THEN "load" ELSE "scan"
    <3>1. /\ x # Root => Present(x)
          /\ x \in Listable => TempsIn(x) = {}
          /\ scan' = [scan EXCEPT ![w] = note]
          /\ todo' = [todo EXCEPT ![w] = left]
          /\ pc' = [pc EXCEPT ![w] = label]
          /\ UNCHANGED <<lock, goal, seen, stood, txn, owned>>
      BY <2>1, <2>4 DEF GoTo
    <3>2. label \in {"scan", "load"} /\ (label = "load" => left = {})
      OBVIOUS
    <3> HIDE DEF left, note, label
    <3>3. scan'[w] = note /\ todo'[w] = left /\ pc'[w] = label /\ seen'[w] = seen[w]
      BY <1>0, <3>1
    <3>4. NotesEntry(w)
      BY <2>2, <3>1, <3>2, <3>3 DEF NotesEntry, left, note, disk
    <3>5. \A p \in Writers \ {w} : WalkStep(p)
      <4>1. \A p \in Writers \ {w} : scan'[p] = scan[p] /\ todo'[p] = todo[p]
        BY <1>0, <3>1
      <4> QED BY <1>o, <2>2, <3>1, <4>1
    <3> QED BY <3>4, <3>5 DEF WalkStep
  <2> QED BY <2>3, <2>4
<1>3. CASE LoadManifest(w)
  <2>1. pc[w] = "load" /\ UNCHANGED <<files, dirs, manifest, temps>>
    BY <1>3 DEF LoadManifest, disk
  <2>2. CASE VerificationFails(w)
    BY <2>1, <2>2, EndSteps
  <2>3. CASE ~VerificationFails(w)
    <3>1. /\ manifest # None /\ Noted(w) = Expected(manifest)
          /\ seen' = [seen EXCEPT ![w] = manifest]
          /\ todo' = [todo EXCEPT ![w] = PathsOf(manifest)]
          /\ UNCHANGED <<pc, scan, stood>>
      BY <1>3, <2>3 DEF LoadManifest, Noted
    <3>2. ReadsManifest(w)
      BY <1>0, <2>1, <3>1 DEF ReadsManifest, disk
    <3>3. \A p \in Writers \ {w} : WalkStep(p)
      <4>1. \A p \in Writers \ {w} : seen'[p] = seen[p] /\ todo'[p] = todo[p]
        BY <1>0, <3>1
      <4> QED BY <1>o, <2>1, <3>1, <4>1
    <3> QED BY <3>2, <3>3 DEF WalkStep
  <2> QED BY <2>2, <2>3
<1>4. CASE LoadFile(w)
  <2>1. PICK x \in Path : LoadFile(w)!(x)
    BY <1>4 DEF LoadFile
  <2>2. /\ pc[w] = "load" /\ x \in todo[w] /\ seen[w] # None
        /\ UNCHANGED <<files, dirs, manifest, temps>>
    BY <2>1 DEF Reaches, disk
  <2>3. CASE VerificationFails(w)
    BY <2>2, <2>3, EndSteps
  <2>4. CASE ~VerificationFails(w)
    <3>1. /\ Holds(x, seen[w]) /\ UNCHANGED <<scan, seen>>
          /\ \/ /\ todo[w] = {x} /\ pc' = [pc EXCEPT ![w] = "rescan"]
                /\ todo' = [todo EXCEPT ![w] = {Root} \cup Expected(seen[w])]
                /\ stood' = [stood EXCEPT ![w] = StandsNow]
             \/ todo' = [todo EXCEPT ![w] = todo[w] \ {x}] /\ UNCHANGED <<pc, stood>>
      BY <2>1, <2>4 DEF GoTo
    <3>2. ReadsFile(w)
      <4>1. \/ pc'[w] = "load" /\ todo'[w] = todo[w] \ {x}
            \/ /\ pc'[w] = "rescan" /\ todo[w] = {x}
               /\ todo'[w] = {Root} \cup Expected(seen[w]) /\ stood'[w] = StandsNow
        BY <1>0, <2>2, <3>1
      <4> QED BY <2>2, <3>1, <4>1 DEF ReadsFile, disk
    <3>3. \A p \in Writers \ {w} : todo'[p] = todo[p] /\ stood'[p] = stood[p] /\ pc'[p] = pc[p]
      BY <1>0, <3>1
    <3>4. \A p \in Writers \ {w} : WalkStep(p)
      BY <2>2, <3>1, <3>3, StillRests DEF WalkKept
    <3> QED BY <3>2, <3>4 DEF WalkStep
  <2> QED BY <2>3, <2>4
<1>5. CASE Rescan(w)
  <2>1. PICK x \in Listable \cup Place : SecondVisit(w, x, Unchanged(w, x))
    BY <1>5 DEF Rescan
  <2>2. pc[w] = "rescan" /\ UNCHANGED <<files, dirs, manifest, temps>>
    BY <2>1 DEF SecondVisit, Reaches, disk
  <2>3. CASE VerificationFails(w)
    BY <2>2, <2>3, EndSteps
  <2>4. CASE Unchanged(w, x) /\ todo[w] # {x}
    <3>1. /\ todo' = [todo EXCEPT ![w] = todo[w] \ {x}]
          /\ UNCHANGED <<pc, scan, seen, stood>>
      BY <2>1, <2>4 DEF SecondVisit
    <3>2. Revisits(w)
      BY <1>0, <2>2, <2>4, <3>1 DEF Revisits, Unchanged, disk
    <3>3. \A p \in Writers \ {w} : WalkStep(p)
      <4>1. \A p \in Writers \ {w} : todo'[p] = todo[p]
        BY <1>0, <3>1
      <4> QED BY <1>o, <2>2, <3>1, <4>1
    <3> QED BY <3>2, <3>3 DEF WalkStep
  <2>5. CASE Verified(w)
    <3>1. End(w) \/ VerificationFails(w) \/ (GoTo(w, "write") /\ DropWalk(w))
      BY <1>0, <2>5 DEF Verified
    <3>2. CASE GoTo(w, "write") /\ DropWalk(w)
      <4>1. Drops(w)
        BY <1>0, <3>2 DEF Drops, GoTo, DropWalk, Verifying
      <4>2. \A p \in Writers \ {w} : WalkStep(p)
        <5>1. \A p \in Writers \ {w} : /\ scan'[p] = scan[p] /\ seen'[p] = seen[p]
                                       /\ todo'[p] = todo[p] /\ stood'[p] = stood[p]
                                       /\ pc'[p] = pc[p]
          BY <1>0, <3>2 DEF DropWalk, GoTo
        <5> QED BY <2>2, <5>1, StillRests DEF WalkKept
      <4> QED BY <4>1, <4>2 DEF WalkStep
    <3> QED BY <2>2, <3>1, <3>2, EndSteps
  <2> QED BY <2>1, <2>3, <2>4, <2>5 DEF SecondVisit
<1> QED BY <1>1, <1>2, <1>3, <1>4, <1>5 DEF Verify

(* A process begins a walk. *)
LEMMA BeginSteps ==
    ASSUME TypeInv, NEW w \in Writers, pc[w] \notin Verifying,
           pc' = [pc EXCEPT ![w] = "scan"], todo' = [todo EXCEPT ![w] = {Root}],
           UNCHANGED <<seen, stood>>, \A p \in Writers : Watched(p)
    PROVE  \A p \in Writers : WalkStep(p)
<1> SUFFICES ASSUME NEW p \in Writers PROVE WalkStep(p)
  OBVIOUS
<1>0. DOMAIN pc = Writers /\ DOMAIN todo = Writers
  BY DEF TypeInv, TypeOK
<1>1. CASE p = w
  BY <1>0, <1>1 DEF WalkStep, Begins
<1>2. CASE p # w
  <2>1. pc'[p] = pc[p] /\ WalkKept(p)
    BY <1>0, <1>2 DEF WalkKept
  <2> QED BY <2>1 DEF WalkStep, Rests
<1> QED BY <1>1, <1>2

(* Marked or not, a step shows in the notes of all. *)
LEMMA LeavesAlone ==
    ASSUME TypeInv, UNCHANGED <<files, manifest, temps, scan>>
    PROVE  \A p \in Writers : Watched(p)
<1>1. \A d \in Directory : TempsIn(d)' = TempsIn(d)
  BY DEF TempsIn
<1> QED BY <1>1, Unmarked

(* Whoever moves the manifest marks it for every walk, *)
LEMMA ManifestMarked ==
    ASSUME TypeInv, Names(ManifestPath), UNCHANGED files,
           \A d \in Directory : TempsIn(d)' = TempsIn(d)
    PROVE  \A p \in Writers : Watched(p)
<1> DEFINE X == {ManifestPath, Parent(ManifestPath)} \cap Place
<1>1. Changes(X)
  BY DEF Names
<1>2. ManifestPath \in X
  BY DEF Place
<1> HIDE DEF X
<1> QED BY <1>1, <1>2, Marked

(* whoever removes a temporary file marks its directory, *)
LEMMA UnlinkMarked ==
    ASSUME TypeInv, NEW w \in Writers, NEW x \in Path, Changes({Parent(x)}),
           \A t \in temps' \cup temps : t[2] = Parent(x) \/ (t \in temps /\ t \in temps'),
           UNCHANGED manifest,
           files' = files \/ (files[x] = None /\ NewFile(w, x))
    PROVE  \A p \in Writers : Watched(p)
<1> DEFINE X == {Parent(x)}
<1>1. \A y \in Path : files'[y] # files[y] => Parent(y) \in X /\ (files[y] = None \/ y \in X)
  BY DEF NewFile, TypeInv, TypeOK
<1>2. \A d \in Directory : d \notin X => TempsIn(d)' = TempsIn(d)
  BY DEF TempsIn
<1>3. Changes(X)
  OBVIOUS
<1> HIDE DEF X
<1> QED BY <1>1, <1>2, <1>3, Marked

(* whoever removes a file marks the file and its directory, *)
LEMMA RemovalMarked ==
    ASSUME TypeInv, NEW x \in Path, Names(x),
           files' = files \/ files' = [files EXCEPT ![x] = None],
           UNCHANGED <<manifest, temps>>
    PROVE  \A p \in Writers : Watched(p)
<1> DEFINE X == {x, Parent(x)} \cap Place
<1>0. Changes(X)
  BY DEF Names
<1>1. x \in X /\ Parent(x) \in X
  BY Places DEF Place
<1>2. \A y \in Path : files'[y] # files[y] => y = x
  BY DEF TypeInv, TypeOK
<1>3. \A d \in Directory : TempsIn(d)' = TempsIn(d)
  BY DEF TempsIn
<1> HIDE DEF X
<1> QED BY <1>0, <1>1, <1>2, <1>3, Marked

(* and whoever removes a directory marks the directory. *)
LEMMA PruningMarked ==
    ASSUME TypeInv, NEW w \in Writers, NEW d,
           Pruned(w, d) \/ UNCHANGED <<dirs, scan, owned>>,
           UNCHANGED <<files, manifest, temps>>
    PROVE  \A p \in Writers : Watched(p)
<1>1. CASE scan' = scan
  BY <1>1, LeavesAlone
<1>2. CASE Names(d)
  <2> DEFINE X == {d, Parent(d)} \cap Place
  <2>0. Changes(X)
    BY <1>2 DEF Names
  <2>3. \A e \in Directory : TempsIn(e)' = TempsIn(e)
    BY DEF TempsIn
  <2> HIDE DEF X
  <2> QED BY <2>0, <2>3, Marked
<1> QED BY <1>1, <1>2 DEF Pruned

(* The root is not one of the directories under it. *)
LEMMA RootTemps ==
    ASSUME NEW w, temps' = temps \cup {<<w, Root>>} \/ temps' = temps \ {<<w, Root>>}
           \/ temps' = temps
    PROVE  \A d \in Directory : TempsIn(d)' = TempsIn(d)
<1>1. Root \notin Directory
  BY Places DEF Place
<1> QED BY <1>1 DEF TempsIn

(* The steps of a transaction. *)
LEMMA CommitSteps ==
    ASSUME TypeInv, NEW w \in Writers, Commit(w)
    PROVE  \A p \in Writers : WalkStep(p)
<1>1. CASE MakeDirectory(w)
  <2>1. \A p \in Writers : Watched(p)
    BY <1>1, LeavesAlone DEF MakeDirectory, walk
  <2>2. pc' = [pc EXCEPT ![w] = "write"] /\ pc[w] = "write" /\ UNCHANGED <<todo, seen, stood>>
    BY <1>1 DEF MakeDirectory, walk, TypeInv, TypeOK
  <2> QED BY <2>1, <2>2, OthersRest DEF Verifying
<1>2. CASE WriteFile(w)
  <2>0. txn[w].index <= Len(Snapshot(txn[w].next))
    BY <1>2, StillWriting DEF WriteFile
  <2>1. Writing(w) \in Path
    BY <2>0, WritingType
  <2>2. pc[w] = "write" /\ UNCHANGED <<files, dirs, manifest, todo, seen, stood, outcome, bounds>>
    BY <1>2 DEF WriteFile
  <2>3. \A p \in Writers : Watched(p)
    <3>1. CASE temps' = temps \cup {<<w, Parent(Writing(w))>>} /\ Changes({Parent(Writing(w))})
      <4>1. \A t \in temps' \cup temps : t[2] = Parent(Writing(w)) \/ (t \in temps /\ t \in temps')
        BY <3>1
      <4> QED BY <2>1, <2>2, <3>1, <4>1, UnlinkMarked
    <3>2. CASE UNCHANGED <<temps, scan>>
      BY <2>2, <3>2, LeavesAlone
    <3> QED BY <1>2, <3>1, <3>2 DEF WriteFile
  <2>4. \E label \in {"link", "write", "undo"} : pc' = [pc EXCEPT ![w] = label]
    BY <1>2 DEF WriteFile, NextFile, Undo, GoTo
  <2> QED BY <2>2, <2>3, <2>4, OthersRest DEF Verifying
<1>3. CASE LinkFile(w)
  <2>0. txn[w].index <= Len(Snapshot(txn[w].next))
    BY <1>3 DEF LinkFile, TypeInv, Labels
  <2>1. Writing(w) \in Path
    BY <2>0, WritingType
  <2>2. /\ pc[w] = "link" /\ UNCHANGED <<dirs, manifest, todo, seen, stood, outcome, bounds>>
        /\ Unlink(w, Writing(w))
        /\ files' = files \/ (files[Writing(w)] = None /\ NewFile(w, Writing(w)))
    BY <1>3 DEF LinkFile
  <2>3. \A p \in Writers : Watched(p)
    <3>1. \A t \in temps' \cup temps : t[2] = Parent(Writing(w)) \/ (t \in temps /\ t \in temps')
      BY <2>2 DEF Unlink
    <3> QED BY <2>1, <2>2, <3>1, UnlinkMarked DEF Unlink
  <2>4. \E label \in {"write", "undo"} : pc' = [pc EXCEPT ![w] = label]
    BY <1>3 DEF LinkFile, NextFile, Undo, GoTo
  <2> QED BY <2>2, <2>3, <2>4, OthersRest DEF Verifying
<1>4. CASE Recheck(w)
  <2>1. \A p \in Writers : Watched(p)
    BY <1>4, LeavesAlone DEF Recheck, walk, disk
  <2>2. /\ \E label \in {"install", "undo"} : pc' = [pc EXCEPT ![w] = label]
        /\ pc[w] = "write" /\ UNCHANGED <<todo, seen, stood>>
    BY <1>4 DEF Recheck, walk, Undo, GoTo
  <2> QED BY <2>1, <2>2, OthersRest DEF Verifying
<1>5. CASE StageManifest(w)
  <2>0. /\ pc[w] = "install" /\ UNCHANGED <<files, manifest, scan>>
        /\ temps' = temps \/ temps' = temps \cup {<<w, Root>>}
    BY <1>5 DEF StageManifest
  <2>1. \A p \in Writers : Watched(p)
    BY <2>0, RootTemps, Unmarked
  <2>2. CASE Confirm(w)
    BY <2>0, <2>1, <2>2, BeginSteps DEF Confirm, Reverify, StartWalk, GoTo, Verifying
  <2>3. CASE (Undo(w) \/ GoTo(w, "replace")) /\ UNCHANGED <<todo, seen, stood>>
    BY <2>0, <2>1, <2>3, OthersRest DEF Undo, GoTo, Verifying
  <2> QED BY <1>5, <2>2, <2>3 DEF StageManifest
<1>6. CASE ReplaceManifest(w)
  <2>0. /\ pc[w] = "replace" /\ UNCHANGED files /\ temps' = temps \ {<<w, Root>>}
        /\ Names(ManifestPath) \/ UNCHANGED <<manifest, scan>>
    BY <1>6 DEF ReplaceManifest, walk
  <2>1. \A p \in Writers : Watched(p)
    BY <2>0, RootTemps, Unmarked, ManifestMarked
  <2>2. CASE Confirm(w)
    BY <2>0, <2>1, <2>2, BeginSteps DEF Confirm, Reverify, StartWalk, GoTo, Verifying
  <2>3. CASE Undo(w) /\ UNCHANGED walk
    BY <2>0, <2>1, <2>3, OthersRest DEF Undo, GoTo, Verifying, walk
  <2> QED BY <1>6, <2>2, <2>3 DEF ReplaceManifest
<1> QED BY <1>1, <1>2, <1>3, <1>4, <1>5, <1>6 DEF Commit

(* A claim and a reinstallation, as the notes tell them. *)
LEMMA ClaimMarked ==
    ASSUME TypeInv, NEW w \in Writers, NEW back, Claim(w, back) \/ Reinstall(w),
           UNCHANGED <<files, temps>>
    PROVE  \A p \in Writers : Watched(p)
<1>1. \A d \in Directory : TempsIn(d)' = TempsIn(d)
  BY DEF TempsIn
<1>2. CASE Claim(w, back)
  BY <1>1, <1>2, ManifestMarked DEF Claim
<1>3. CASE Reinstall(w)
  BY <1>1, <1>3, Unmarked DEF Reinstall
<1> QED BY <1>2, <1>3

(* To every verifier a step of a rollback is one of its own kinds of step, *)
LEMMA RollBackSteps ==
    ASSUME TypeInv, NEW w \in Writers, RollBack(w)
    PROVE  \A p \in Writers : WalkStep(p)
<1>1. CASE Settle(w)
  BY <1>1, EndSteps DEF Settle, disk
<1>2. CASE ~Settle(w)
  <2>0. /\ pc[w] \in Rollback /\ pc[w] \notin Verifying
        /\ UNCHANGED <<todo, seen, stood>>
        /\ \E label \in Rollback : pc' = [pc EXCEPT ![w] = label]
    <3>1. CASE UndoManifest(w) \/ ClaimManifest(w) \/ RestoreManifest(w)
      BY <3>1 DEF UndoManifest, ClaimManifest, RestoreManifest, Rolls, Claim, Reinstall, GoTo,
                  walk, Rollback, Verifying
    <3>2. CASE RemoveFile(w) \/ Prune(w)
      BY <3>2 DEF RemoveFile, Prune, GoOn, GoTo, Rollback, Verifying
    <3> QED BY <1>2, <3>1, <3>2 DEF RollBack
  <2>1. \A p \in Writers : Watched(p)
    <3>1. CASE UndoManifest(w)
      BY <3>1, LeavesAlone DEF UndoManifest, disk, walk
    <3>2. CASE ClaimManifest(w)
      <4>1. CASE UNCHANGED <<manifest, scan, owned>>
        BY <3>2, <4>1, LeavesAlone DEF ClaimManifest
      <4>2. CASE Claim(w, IF Mine(w) THEN txn[w].base ELSE manifest)
        BY <3>2, <4>2, ClaimMarked DEF ClaimManifest
      <4> QED BY <3>2, <4>1, <4>2 DEF ClaimManifest
    <3>3. CASE RestoreManifest(w)
      BY <3>3, ClaimMarked DEF RestoreManifest
    <3>4. CASE RemoveFile(w)
      <4>1. LastCreated(w) \in Path
        BY <3>4, LastIsCreated DEF RemoveFile, Created, TypeInv, TypeOK, Txn
      <4> QED BY <3>4, <4>1, RemovalMarked DEF RemoveFile, Removed
    <3>5. CASE Prune(w)
      BY <3>5, PruningMarked DEF Prune
    <3> QED BY <1>2, <3>1, <3>2, <3>3, <3>4, <3>5 DEF RollBack
  <2> QED BY <2>0, <2>1, OthersRest DEF Rollback, Verifying
<1> QED BY <1>1, <1>2

(* so is an error, *)
LEMMA FaultSteps ==
    ASSUME TypeInv, NEW w \in Writers, Fault(w)
    PROVE  \A p \in Writers : WalkStep(p)
<1>1. CASE FailsReading(w) \/ FailsReporting(w) \/ FailsSettling(w)
  BY <1>1, EndSteps DEF FailsReading, FailsReporting, FailsSettling, disk
<1>2. CASE FailsWriting(w) \/ FailsLinking(w) \/ FailsReplacing(w) \/ FailsRestoring(w) \/ FailsRemoving(w)
  <2>0. /\ pc[w] \notin Verifying
        /\ UNCHANGED <<todo, seen, stood>>
        /\ \E label \in Rollback : pc' = [pc EXCEPT ![w] = label]
    <3>1. CASE FailsWriting(w) \/ FailsLinking(w) \/ FailsReplacing(w)
      BY <3>1 DEF FailsWriting, FailsLinking, FailsReplacing, Undo, UndoVisible, GoTo, walk, Rollback,
                  Verifying
    <3>2. CASE FailsRestoring(w)
      BY <3>2 DEF FailsRestoring, Rolls, Claim, Reinstall, GoTo, Rollback, Verifying
    <3>3. CASE FailsRemoving(w)
      BY <3>3 DEF FailsRemoving, GoOn, GoTo, Rollback, Verifying
    <3> QED BY <1>2, <3>1, <3>2, <3>3
  <2>1. \A p \in Writers : Watched(p)
    <3>1. CASE FailsWriting(w)
      BY <3>1, LeavesAlone DEF FailsWriting, disk, walk
    <3>2. CASE FailsLinking(w)
      <4>1. CASE UNCHANGED <<files, temps, scan>>
        BY <3>2, <4>1, LeavesAlone DEF FailsLinking
      <4>2. CASE ~UNCHANGED <<files, temps, scan>>
        <5>0. pc[w] = "link" /\ UNCHANGED manifest
          BY <3>2 DEF FailsLinking
        <5>1. Writing(w) \in Path
          BY <5>0, WritingType DEF TypeInv, Labels
        <5>2. /\ Unlink(w, Writing(w))
              /\ files' = files \/ (files[Writing(w)] = None /\ NewFile(w, Writing(w)))
          BY <3>2, <4>2 DEF FailsLinking
        <5>3. \A t \in temps' \cup temps : t[2] = Parent(Writing(w)) \/ (t \in temps /\ t \in temps')
          BY <5>2 DEF Unlink
        <5> QED BY <5>0, <5>1, <5>2, <5>3, UnlinkMarked DEF Unlink
      <4> QED BY <4>1, <4>2
    <3>3. CASE FailsReplacing(w)
      <4>0. /\ UNCHANGED files /\ temps' = temps \ {<<w, Root>>}
            /\ Names(ManifestPath) \/ UNCHANGED <<manifest, scan>>
        BY <3>3 DEF FailsReplacing
      <4> QED BY <4>0, RootTemps, Unmarked, ManifestMarked
    <3>4. CASE FailsRestoring(w)
      <4>1. UNCHANGED <<files, temps>> /\
               (UNCHANGED <<manifest, scan>> \/ Claim(w, manifest) \/ Claim(w, None) \/ Reinstall(w))
        BY <3>4 DEF FailsRestoring
      <4> QED BY <4>1, LeavesAlone, ClaimMarked
    <3>5. CASE FailsRemoving(w)
      <4>0. UNCHANGED <<manifest, temps>>
        BY <3>5 DEF FailsRemoving
      <4>1. CASE pc[w] = "remove" /\ Created(w) # {}
        <5>1. LastCreated(w) \in Path
          BY <4>1, LastIsCreated DEF Created, TypeInv, TypeOK, Txn
        <5>2. UNCHANGED <<files, scan>> \/ (Names(LastCreated(w)) /\
                 (files' = files \/ files' = [files EXCEPT ![LastCreated(w)] = None]))
          BY <3>5, <4>1 DEF FailsRemoving, Removed
        <5> QED BY <4>0, <5>1, <5>2, LeavesAlone, RemovalMarked
      <4>2. CASE ~(pc[w] = "remove" /\ Created(w) # {})
        BY <3>5, <4>0, <4>2, PruningMarked DEF FailsRemoving
      <4> QED BY <4>1, <4>2
    <3> QED BY <1>2, <3>1, <3>2, <3>3, <3>4, <3>5
  <2> QED BY <2>0, <2>1, OthersRest DEF Rollback, Verifying
<1> QED BY <1>1, <1>2 DEF Fault

(* and so is a start or a kill. *)
LEMMA OtherSteps ==
    ASSUME TypeInv, NEW w \in Writers,
           Initialize(w) \/ (\E a \in Answers : StartSubmit(w, a)) \/ Crash(w)
    PROVE  \A p \in Writers : WalkStep(p)
<1>1. CASE Initialize(w)
  <2>1. \A p \in Writers : Watched(p)
    BY <1>1, LeavesAlone DEF Initialize, disk, walk
  <2>2. pc' = [pc EXCEPT ![w] = "write"] /\ pc[w] = "idle" /\ UNCHANGED <<todo, seen, stood>>
    BY <1>1 DEF Initialize, walk, GoTo
  <2> QED BY <2>1, <2>2, OthersRest DEF Verifying
<1>2. ASSUME NEW a \in Answers, StartSubmit(w, a) PROVE \A p \in Writers : WalkStep(p)
  <2>1. \A p \in Writers : Watched(p)
    BY <1>2, LeavesAlone DEF StartSubmit, Submit, disk
  <2>2. /\ pc' = [pc EXCEPT ![w] = "scan"] /\ pc[w] = "idle" /\ UNCHANGED <<seen, stood>>
        /\ todo' = [todo EXCEPT ![w] = {Root}]
    BY <1>2 DEF StartSubmit, Submit, GoTo, StartWalk
  <2> QED BY <2>1, <2>2, BeginSteps DEF Verifying
<1>3. CASE Crash(w)
  <2> DEFINE dead == Killed(w)
  <2>1. /\ pc' = [p \in Writers |-> IF p \in dead THEN "idle" ELSE pc[p]]
        /\ todo' = [p \in Writers |-> IF p \in dead THEN {} ELSE todo[p]]
        /\ scan' = [p \in Writers |-> IF p \in dead THEN NoScan ELSE scan[p]]
        /\ seen' = [p \in Writers |-> IF p \in dead THEN None ELSE seen[p]]
        /\ stood' = [p \in Writers |-> IF p \in dead THEN None ELSE stood[p]]
        /\ UNCHANGED <<files, dirs, manifest, temps>>
    BY <1>3 DEF Crash, disk
  <2> HIDE DEF dead
  <2> SUFFICES ASSUME NEW p \in Writers PROVE WalkStep(p)
    OBVIOUS
  <2>2. CASE p \in dead
    BY <2>1, <2>2 DEF WalkStep, Drops, Verifying
  <2>3. CASE p \notin dead
    BY <2>1, <2>3, StillRests DEF WalkKept
  <2> QED BY <2>2, <2>3
<1> QED BY <1>1, <1>2, <1>3

(* The invariant of the verifiers. *)
LEMMA ReadNext == ReadInv /\ [Next]_vars => ReadInv'
<1> SUFFICES ASSUME ReadInv, [Next]_vars PROVE ReadInv'
  OBVIOUS
<1>1. TypeInv /\ TypeInv'
  BY TypeNext DEF ReadInv
<1>2. \A p \in Writers : WalkStep(p)
  <2>1. CASE UNCHANGED vars
    <3>1. UNCHANGED <<files, dirs, manifest, temps, scan, pc, todo, seen, stood>>
      BY <2>1 DEF vars
    <3> QED BY <1>1, <3>1, StillRests DEF WalkKept
  <2>2. CASE Next
    BY <1>1, <2>2, VerifySteps, CommitSteps, RollBackSteps, FaultSteps, OtherSteps DEF Next
  <2> QED BY <2>1, <2>2
<1>3. \A p \in Writers : WalkInv(p)'
  BY <1>1, <1>2, WalkKeeps DEF ReadInv
<1> QED BY <1>1, <1>3 DEF ReadInv

(* What verifications know is invariant. *)
LEMMA ReadInvariant == Spec => []ReadInv
<1>1. Init => ReadInv
  <2> SUFFICES ASSUME Init, NEW p \in Writers PROVE WalkInv(p)
    BY TypeInit DEF ReadInv
  <2>1. /\ \A x \in Place : scan[p][x] = "absent"
        /\ scan[p] = NoScan /\ seen[p] = None /\ todo[p] = {} /\ pc[p] = "idle"
    BY DEF Init, NoScan
  <2> QED BY <2>1 DEF WalkInv, NotesHold, InOrder, Loaded, Resting, Sure, Verifying, Place
<1>2. ReadInv /\ [Next]_vars => ReadInv'
  BY ReadNext
<1> QED BY <1>1, <1>2, PTL DEF Spec

(* What a process has read, or what a transaction is built on, changes only at the
   end of a second walk, and to what was loaded. *)
LEMMA ReadChanges ==
    ASSUME TypeInv, [Next]_vars, NEW p \in Writers,
           \/ view'[p] # view[p] /\ view'[p] # None
           \/ txn'[p].base # txn[p].base /\ txn'[p].base # None
    PROVE  /\ pc[p] = "rescan"
           /\ \E x : todo[p] = {x} /\ Unchanged(p, x)
           /\ view'[p] # view[p] => view'[p] = seen[p]
           /\ txn'[p].base # txn[p].base => txn'[p].base = seen[p] \/ txn'[p].base = None
<1>0. /\ view \in [Writers -> History \cup {None}] /\ txn \in [Writers -> Txn]
      /\ goal \in [Writers -> {"read", "submit", "confirm"}] /\ NoTxn.base = None
  BY DEF TypeInv, TypeOK, NoTxn
<1>a. ASSUME UNCHANGED view, \A q \in Writers : txn'[q].base = txn[q].base PROVE FALSE
  BY <1>a
<1>b. ASSUME NEW w \in Writers, UNCHANGED view,
             txn' = txn \/ txn' = [txn EXCEPT ![w] = NoTxn] PROVE FALSE
  BY <1>0, <1>b
<1>c. ASSUME NEW w \in Writers, End(w) \/ VerificationFails(w), UNCHANGED view PROVE FALSE
  <2>1. txn' = txn \/ txn' = [txn EXCEPT ![w] = NoTxn]
    BY <1>c DEF VerificationFails, Undo, End, Finish
  <2> QED BY <1>b, <1>c, <2>1
<1>1. CASE UNCHANGED vars
  BY <1>b, <1>1 DEF vars
<1>2. ASSUME NEW w \in Writers, Rescan(w)
      PROVE  /\ pc[p] = "rescan"
             /\ \E x : todo[p] = {x} /\ Unchanged(p, x)
             /\ view'[p] # view[p] => view'[p] = seen[p]
             /\ txn'[p].base # txn[p].base => txn'[p].base = seen[p] \/ txn'[p].base = None
  <2>1. PICK x \in Listable \cup Place : SecondVisit(w, x, Unchanged(w, x))
    BY <1>2 DEF Rescan
  <2>2. ASSUME VerificationFails(w) /\ UNCHANGED outcome PROVE FALSE
    BY <1>c, <2>2 DEF outcome
  <2>3. ASSUME UNCHANGED <<txn, outcome>> PROVE FALSE
    BY <1>b, <2>3 DEF outcome
  <2>4. /\ pc[w] = "rescan" /\ Verified(w) /\ todo[w] = {x} /\ Unchanged(w, x)
    BY <2>1, <2>2, <2>3 DEF SecondVisit, Reaches
  <2>5. CASE goal[w] = "read"
    <3>1. End(w) /\ view' = [view EXCEPT ![w] = seen[w]]
      BY <2>4, <2>5 DEF Verified
    <3>2. txn' = [txn EXCEPT ![w] = NoTxn]
      BY <3>1 DEF End, Finish
    <3>3. p = w
      BY <1>0, <3>1, <3>2
    <3> QED BY <1>0, <2>4, <3>1, <3>2, <3>3
  <2>6. CASE goal[w] = "submit"
    <3>1. UNCHANGED outcome
      BY <2>4, <2>6 DEF Verified
    <3>2. CASE End(w)
      BY <1>c, <3>1, <3>2 DEF outcome
    <3>3. CASE ~End(w)
      <4>1. txn' = [txn EXCEPT ![w].base = seen[w], ![w].next = Append(seen[w], txn[w].answer)]
        BY <2>4, <2>6, <3>3 DEF Verified
      <4>2. \A q \in Writers \ {w} : txn'[q] = txn[q]
        BY <1>0, <4>1
      <4>3. txn'[w].base = seen[w]
        <5>1. txn[w] \in Txn
          BY <1>0
        <5> QED BY <1>0, <4>1, <5>1 DEF Txn
      <4>4. p = w
        BY <3>1, <4>2 DEF outcome
      <4> QED BY <2>4, <3>1, <4>3, <4>4 DEF outcome
    <3> QED BY <3>2, <3>3
  <2>7. CASE goal[w] = "confirm"
    <3>1. seen[w] = txn[w].next /\ End(w) /\ view' = [view EXCEPT ![w] = txn[w].next]
      BY <2>2, <2>4, <2>7 DEF Verified
    <3>2. txn' = [txn EXCEPT ![w] = NoTxn]
      BY <3>1 DEF End, Finish
    <3>3. p = w
      BY <1>0, <3>1, <3>2
    <3> QED BY <1>0, <2>4, <3>1, <3>2, <3>3
  <2> QED BY <1>0, <2>5, <2>6, <2>7
<1>3. ASSUME NEW w \in Writers, StartRead(w) \/ Scan(w) \/ LoadManifest(w) \/ LoadFile(w) \/ Initialize(w)
      PROVE  FALSE
  <2>1. UNCHANGED outcome
    BY <1>3 DEF StartRead, Scan, LoadManifest, LoadFile, Initialize
  <2>2. UNCHANGED txn \/ VerificationFails(w)
    BY <1>3 DEF StartRead, Scan, LoadManifest, LoadFile, Initialize
  <2> QED BY <1>b, <1>c, <2>1, <2>2 DEF outcome
<1>4. ASSUME NEW w \in Writers, NEW a \in Answers, StartSubmit(w, a) PROVE FALSE
  <2>1. UNCHANGED outcome /\ txn' = [txn EXCEPT ![w].answer = a]
    BY <1>4 DEF StartSubmit, Submit
  <2>2. \A q \in Writers : txn'[q].base = txn[q].base
    BY <1>0, <2>1 DEF Txn
  <2> QED BY <1>a, <2>1, <2>2 DEF outcome
<1>5. ASSUME NEW w \in Writers, Commit(w) PROVE FALSE
  <2>1. UNCHANGED view
    BY <1>5 DEF Commit, MakeDirectory, WriteFile, LinkFile, Recheck, StageManifest, ReplaceManifest,
                Confirm, Reverify, outcome
  <2>2. txn' = txn \/ txn' = [txn EXCEPT ![w].index = @ + 1]
    BY <1>5 DEF Commit, MakeDirectory, WriteFile, LinkFile, Recheck, StageManifest, ReplaceManifest,
                Confirm, Reverify, NextFile, Undo
  <2>3. \A q \in Writers : txn'[q].base = txn[q].base
    BY <1>0, <2>2 DEF Txn
  <2> QED BY <1>a, <2>1, <2>3
<1>6. ASSUME NEW w \in Writers, RollBack(w) PROVE FALSE
  <2>1. CASE Settle(w)
    BY <1>c, <2>1 DEF Settle, outcome
  <2>2. CASE ~Settle(w)
    <3>1. UNCHANGED view
      BY <1>6, <2>2 DEF RollBack, UndoManifest, ClaimManifest, RestoreManifest, RemoveFile, Prune, outcome
    <3>2. \E v : \/ txn' = txn \/ txn' = [txn EXCEPT ![w].back = v]
                 \/ txn' = [txn EXCEPT ![w].gone = v]
      BY <1>6, <2>2 DEF RollBack, UndoManifest, ClaimManifest, RestoreManifest, RemoveFile, Prune,
                        Rolls, Claim, Reinstall, GoOn
    <3>3. \A q \in Writers : txn'[q].base = txn[q].base
      BY <1>0, <3>2 DEF Txn
    <3> QED BY <1>a, <3>1, <3>3
  <2> QED BY <2>1, <2>2
<1>7. ASSUME NEW w \in Writers, Fault(w) PROVE FALSE
  <2>1. UNCHANGED view
    BY <1>7 DEF Fault, FailsReading, FailsReporting, FailsWriting, FailsLinking, FailsReplacing,
                FailsRestoring, FailsRemoving, FailsSettling, outcome
  <2>2. CASE FailsReading(w) \/ FailsReporting(w) \/ FailsSettling(w)
    BY <1>c, <2>1, <2>2 DEF FailsReading, FailsReporting, FailsSettling
  <2>3. CASE FailsWriting(w) \/ FailsLinking(w) \/ FailsReplacing(w) \/ FailsRestoring(w) \/ FailsRemoving(w)
    <3>2. \E v : \/ txn' = txn \/ txn' = [txn EXCEPT ![w].back = v]
                 \/ txn' = [txn EXCEPT ![w].gone = v]
      BY <2>3 DEF FailsWriting, FailsLinking, FailsReplacing, FailsRestoring, FailsRemoving,
                  Undo, UndoVisible, Rolls, Claim, Reinstall, GoOn
    <3>3. \A q \in Writers : txn'[q].base = txn[q].base
      BY <1>0, <3>2 DEF Txn
    <3> QED BY <1>a, <2>1, <3>3
  <2> QED BY <1>7, <2>2, <2>3 DEF Fault
<1>8. ASSUME NEW w \in Writers, Crash(w) PROVE FALSE
  <2> DEFINE dead == Killed(w)
  <2>1. /\ view' = [q \in Writers |-> IF q \in dead THEN None ELSE view[q]]
        /\ txn' = [q \in Writers |-> IF q \in dead THEN NoTxn ELSE txn[q]]
    BY <1>8 DEF Crash
  <2> HIDE DEF dead
  <2> QED BY <1>0, <2>1
<1>9. CASE Next
  BY <1>2, <1>3, <1>4, <1>5, <1>6, <1>7, <1>8, <1>9 DEF Next, Verify
<1> QED BY <1>1, <1>9

(* Whatever the number of processes, with or without a shared lock, and whatever
   fails or is killed while a verification walks and reads one entry at a time: the
   history it returns to a reader, or a submission builds on, stood on disk whole
   when its second walk began (_verify_or_raise). *)
THEOREM ReadsAreExact == Spec => VerifiedReadsAreExact
<1> DEFINE Exact ==
        \A p \in Writers :
            /\ view'[p] # view[p] /\ view'[p] # None => stood[p] = view'[p]
            /\ txn'[p].base # txn[p].base /\ txn'[p].base # None => stood[p] = txn'[p].base
<1>1. ReadInv /\ [Next]_vars => Exact
  <2> SUFFICES ASSUME ReadInv, [Next]_vars, NEW p \in Writers,
                      \/ view'[p] # view[p] /\ view'[p] # None
                      \/ txn'[p].base # txn[p].base /\ txn'[p].base # None
               PROVE  /\ stood[p] = seen[p]
                      /\ view'[p] # view[p] => view'[p] = seen[p]
                      /\ txn'[p].base # txn[p].base => txn'[p].base = seen[p] \/ txn'[p].base = None
    OBVIOUS
  <2>1. /\ pc[p] = "rescan"
        /\ view'[p] # view[p] => view'[p] = seen[p]
        /\ txn'[p].base # txn[p].base => txn'[p].base = seen[p] \/ txn'[p].base = None
    BY ReadChanges DEF ReadInv
  <2>2. PICK x : todo[p] = {x} /\ Unchanged(p, x)
    BY ReadChanges DEF ReadInv
  <2>3. ~\E y \in todo[p] : y # Root /\ scan[p][y] # "same"
    BY <2>2 DEF Unchanged
  <2> QED BY <2>1, <2>3 DEF ReadInv, WalkInv, Sure
<1>2. Exact => [Exact]_vars
  OBVIOUS
<1>3. ReadInv /\ [Next]_vars => [Exact]_vars
  BY <1>1, <1>2
<1> QED BY <1>3, ReadInvariant, PTL DEF Spec, VerifiedReadsAreExact
================================================================================
