---------------------------- MODULE RunAtomic_proofs ----------------------------
(***************************************************************************)
(* What the run storage promises writers that share one submission lock,   *)
(* for any writers, answers, errors and kills: accepted histories never    *)
(* fork, accepted bytes survive, and the whole of RunCommit implements     *)
(* AtomicRun.  And, as long as no process is killed and at most one I/O    *)
(* error comes, the directory is exactly a run between transactions; but   *)
(* for an error in one of two gaps, whose remains no rollback removes and  *)
(* every verification refuses (FailureAtomic).                             *)
(***************************************************************************)
EXTENDS RunCommit_proofs, SequenceTheorems

--------------------------------------------------------------------------------
(***************************************************************************)
(* Histories and their extensions.                                         *)
(***************************************************************************)
(* A history is a sequence of answers, no longer than a run. *)
LEMMA HistoryIsSeq ==
    ASSUME NEW h \in History
    PROVE  h \in Seq(Answers) /\ Len(h) \in Nat /\ Len(h) <= MaxCalls /\ MaxCalls \in Nat
  BY MaxCallsAssumption DEF History

(* A history extends another when it begins with the same answers. *)
LEMMA ExtendsElementwise ==
    ASSUME NEW g \in History, NEW h \in History
    PROVE  Extends(g, h) <=> Len(h) <= Len(g) /\ \A k \in 1..Len(h) : h[k] = g[k]
<1>0. /\ g \in Seq(Answers) /\ Len(g) \in Nat
      /\ h \in Seq(Answers) /\ Len(h) \in Nat
  BY HistoryIsSeq
<1>1. ASSUME Len(h) <= Len(g)
      PROVE  /\ SubSeq(g, 1, Len(h)) \in Seq(Answers)
             /\ Len(SubSeq(g, 1, Len(h))) = Len(h)
             /\ \A k \in 1..Len(h) : SubSeq(g, 1, Len(h))[k] = g[k]
  BY <1>0, <1>1
<1>2. CASE Len(h) <= Len(g) /\ \A k \in 1..Len(h) : h[k] = g[k]
  <2>1. SubSeq(g, 1, Len(h)) = h
    BY <1>0, <1>1, <1>2, SeqEqual
  <2> QED BY <1>2, <2>1 DEF Extends
<1>3. CASE Extends(g, h)
  BY <1>0, <1>1, <1>3 DEF Extends
<1> QED BY <1>2, <1>3

(* What a history promises of its files, its extensions promise too. *)
LEMMA PrefixKeepsContent ==
    ASSUME NEW g \in History, NEW h \in History, Extends(g, h), NEW x \in PathsOf(h)
    PROVE  x \in PathsOf(g) /\ Content(x, g) = Content(x, h)
<1>0. /\ g \in Seq(Answers) /\ Len(g) \in Nat /\ MaxCalls \in Nat
      /\ h \in Seq(Answers) /\ Len(h) \in Nat
      /\ Len(h) <= Len(g) /\ \A k \in 1..Len(h) : h[k] = g[k]
  BY HistoryIsSeq, ExtendsElementwise
<1>1. CASE x \in {<<"response", k>> : k \in 1..Len(h)}
  <2>1. PICK k \in 1..Len(h) : x = <<"response", k>>
    BY <1>1
  <2>2. x[1] = "response" /\ x[2] = k
    BY <2>1
  <2>3. k \in 1..Len(g) /\ h[k] = g[k]
    BY <1>0
  <2>4. x \in PathsOf(g)
    BY <2>1, <2>3 DEF PathsOf
  <2> QED BY <2>2, <2>3, <2>4 DEF Content
<1>2. CASE x \in {<<"request", k>> : k \in (1..Len(h) + 1) \cap (1..MaxCalls)}
  <2>1. PICK k \in (1..Len(h) + 1) \cap (1..MaxCalls) : x = <<"request", k>>
    BY <1>2
  <2>2. x[1] # "response" /\ x[2] = k
    BY <2>1
  <2>3. k \in (1..Len(g) + 1) \cap (1..MaxCalls)
    BY <1>0
  <2>4. x \in PathsOf(g)
    BY <2>1, <2>3 DEF PathsOf
  <2>5. k \in Nat /\ k >= 1 /\ k - 1 \in Nat /\ k - 1 <= Len(h) /\ k - 1 <= Len(g)
    BY <1>0
  <2>6. /\ SubSeq(g, 1, k - 1) \in Seq(Answers) /\ Len(SubSeq(g, 1, k - 1)) = k - 1
        /\ \A j \in 1..(k - 1) : SubSeq(g, 1, k - 1)[j] = g[j]
    BY <1>0, <2>5
  <2>7. /\ SubSeq(h, 1, k - 1) \in Seq(Answers) /\ Len(SubSeq(h, 1, k - 1)) = k - 1
        /\ \A j \in 1..(k - 1) : SubSeq(h, 1, k - 1)[j] = h[j]
    BY <1>0, <2>5
  <2>8. \A j \in 1..(k - 1) : h[j] = g[j]
    BY <1>0, <2>5
  <2>9. SubSeq(g, 1, k - 1) = SubSeq(h, 1, k - 1)
    BY <2>6, <2>7, <2>8, SeqEqual
  <2> QED BY <2>2, <2>4, <2>9 DEF Content
<1> QED BY <1>1, <1>2 DEF PathsOf

(* Conversely, a tree that holds one history whole and another one's files
   holds an extension of the other. *)
LEMMA ContentShowsPrefix ==
    ASSUME NEW g \in History, NEW h \in History, PathsOf(h) \subseteq PathsOf(g),
           \A x \in PathsOf(h) : Content(x, g) = Content(x, h)
    PROVE  Extends(g, h)
<1>0. Len(g) \in Nat /\ Len(h) \in Nat
  BY HistoryIsSeq
<1>1. ASSUME NEW k \in 1..Len(h)
      PROVE  k \in 1..Len(g) /\ h[k] = g[k]
  <2>1. <<"response", k>> \in PathsOf(h)
    BY DEF PathsOf
  <2>2. <<"response", k>> \in PathsOf(g)
    BY <2>1
  <2>3. k \in 1..Len(g)
    BY <2>2 DEF PathsOf
  <2>4. <<g[k]>> = <<h[k]>>
    BY <2>1 DEF Content
  <2> QED BY <2>3, <2>4
<1>2. Len(h) <= Len(g)
  BY <1>0, <1>1
<1> QED BY <1>1, <1>2, ExtendsElementwise

(* Extension is reflexive. *)
LEMMA ExtendsSelf == ASSUME NEW h \in History PROVE Extends(h, h)
  BY ExtendsElementwise, HistoryIsSeq

(* Every history has a file. *)
LEMMA FirstRequest == \A h \in History : <<"request", 1>> \in PathsOf(h) /\ <<"request", 1>> \in Path
<1> SUFFICES ASSUME NEW h \in History
             PROVE  <<"request", 1>> \in PathsOf(h) /\ <<"request", 1>> \in Path
  OBVIOUS
<1>1. Len(h) \in Nat /\ 1 \in 1..MaxCalls
  BY HistoryIsSeq, MaxCallsAssumption
<1>2. 1 \in (1..Len(h) + 1) \cap (1..MaxCalls)
  BY <1>1
<1> QED BY <1>1, <1>2 DEF PathsOf, Path, Kind

--------------------------------------------------------------------------------
(***************************************************************************)
(* The invariant.  A transaction is open from the moment its writer knows  *)
(* what it will install, or has started to initialise, until its call      *)
(* ends; the lock keeps all others out meanwhile.                          *)
(***************************************************************************)
Locked(w) ==
    /\ InTransaction(w) =>
           \/ lock = w
           \/ /\ lock = None /\ goal[w] = "confirm" /\ txn[w].base = None
              /\ \A v \in Writers \ {w} : pc[v] = "idle"
    /\ ~InTransaction(w) =>
           lock # w /\ txn[w] = NoTxn /\ owned[w] = {} /\ goal[w] = "read"
    /\ goal[w] = "read" => pc[w] \in {"idle"} \cup Verifying
    /\ goal[w] = "submit" /\ pc[w] \in Verifying =>
           txn[w].base = None /\ txn[w].index = 1 /\ owned[w] = {}

(* What an open transaction was started from is still there, it extends all
   that was acknowledged, and the transaction owns none of it. *)
FromBase(w) ==
    IF txn[w].base = None THEN txn[w].next = <<>> /\ acked = {}
    ELSE /\ \E a \in Answers : txn[w].next = Append(txn[w].base, a)
         /\ \A h \in acked : Extends(txn[w].base, h)
         /\ \A x \in PathsOf(txn[w].base) : Holds(x, txn[w].base) /\ x \notin owned[w]

Built(w) ==
    /\ FromBase(w)
    /\ manifest # None => manifest \in {txn[w].base, txn[w].next}
    /\ pc[w] = "restore" => txn[w].back \in {txn[w].base, txn[w].next}

LockInv == \A w \in Writers : Locked(w)
DataInv == NoForkedHistory /\ AcceptedBytesSurvive /\ \A w \in Open : Built(w)

(* At most one writer is in a transaction. *)
LEMMA OneTransaction ==
    ASSUME LockInv, NEW v \in Writers, NEW w \in Writers,
           InTransaction(v), InTransaction(w)
    PROVE  v = w
<1>1. CASE lock = v /\ lock = w
  BY <1>1
<1>2. CASE lock # v \/ lock # w
  BY <1>2 DEF LockInv, Locked, InTransaction
<1> QED BY <1>1, <1>2

(***************************************************************************)
(* The ways a step may go.                                                 *)
(***************************************************************************)
(* Nothing of the run changes. *)
Idle == UNCHANGED <<files, dirs, manifest, temps, acked>>

OthersKeep(w) == \A v \in Writers \ {w} : /\ pc'[v] = pc[v] /\ goal'[v] = goal[v]
                                          /\ txn'[v] = txn[v] /\ owned'[v] = owned[v]

(* A reader, or a submission that still verifies, looks at the directory. *)
Looks(w) ==
    /\ Idle /\ OthersKeep(w) /\ lock' = lock
    /\ pc'[w] \in Verifying /\ goal'[w] = goal[w]
    /\ txn'[w] = txn[w] /\ owned'[w] = owned[w]
    /\ \/ goal[w] = "read" /\ (pc[w] = "idle" => ~Initializing)
       \/ goal[w] = "submit" /\ pc[w] \in Verifying

(* A submission takes the lock. *)
Asks(w) ==
    /\ Idle /\ OthersKeep(w) /\ ~Initializing
    /\ lock = None /\ lock' = w /\ pc[w] = "idle"
    /\ pc'[w] \in Verifying /\ goal'[w] = "submit"
    /\ txn'[w].base = None /\ txn'[w].index = 1 /\ owned'[w] = {}

(* A call ends without a word. *)
Leaves(w) == Idle /\ End(w)

(* A transaction is opened on a directory that is exactly its base. *)
Opens(w) ==
    /\ Idle /\ OthersKeep(w) /\ lock' = lock
    /\ pc'[w] = "write" /\ goal'[w] \in {"submit", "confirm"}
    /\ txn'[w].index = 1 /\ owned'[w] = {}
    /\ \/ /\ \A v \in Writers : pc[v] = "idle"
          /\ EmptyDirectory /\ goal'[w] = "confirm"
          /\ txn'[w].base = None /\ txn'[w].next = <<>>
       \/ /\ pc[w] \in Verifying /\ goal[w] = "submit" /\ goal'[w] = "submit"
          /\ txn'[w].base \in History /\ ExactTree(txn'[w].base)
          /\ \E a \in Answers : txn'[w].next = Append(txn'[w].base, a)

(* An open transaction takes a step. *)
Works(w) ==
    /\ w \in Open /\ OthersKeep(w) /\ lock' = lock /\ acked' = acked
    /\ pc'[w] # "idle" /\ goal'[w] \in {goal[w], "confirm"}
    /\ pc'[w] \in Verifying => goal'[w] = "confirm"
    /\ txn'[w].base = txn[w].base /\ txn'[w].next = txn[w].next
    /\ \A x \in Path : files'[x] = files[x] \/ files[x] = None \/ x \in owned[w]
    /\ \A x \in owned'[w] \cap Path : x \in owned[w] \/ files[x] = None
    /\ manifest' # None => manifest' \in {txn[w].base, txn[w].next}
    /\ pc'[w] = "restore" => txn'[w].back \in {txn[w].base, txn[w].next}

(* An open transaction is confirmed and acknowledged. *)
Acknowledges(w) ==
    /\ w \in Open /\ End(w) /\ UNCHANGED <<files, dirs, manifest, temps>>
    /\ ExactTree(txn[w].next) /\ acked' = acked \cup {txn[w].next}

(* The process is killed. *)
Dies == /\ Idle /\ lock' = None /\ crashes' = crashes + 1
        /\ \A v \in Writers : /\ pc'[v] = "idle" /\ goal'[v] = "read"
                              /\ txn'[v] = NoTxn /\ owned'[v] = {}

StepOf(w) == \/ Looks(w) \/ Asks(w) \/ Leaves(w) \/ Opens(w)
             \/ Works(w) \/ Acknowledges(w) \/ Dies

(* What End leaves behind. *)
LEMMA EndLeaves ==
    ASSUME TypeInv, NEW w \in Writers, End(w)
    PROVE  /\ OthersKeep(w) /\ lock' = (IF lock = w THEN None ELSE lock)
           /\ pc'[w] = "idle" /\ goal'[w] = "read" /\ txn'[w] = NoTxn /\ owned'[w] = {}
  BY DEF TypeInv, TypeOK, End, Finish, GoTo, Unlock, OthersKeep

(* Every kind of step keeps the lock's discipline. *)
LEMMA LockNext ==
    ASSUME TypeInv, LockInv, NEW w \in Writers, StepOf(w)
    PROVE  LockInv'
<1> SUFFICES ASSUME NEW v \in Writers PROVE Locked(v)'
  BY DEF LockInv
<1>0. /\ lock \in Writers \cup {None} /\ None \notin Writers
      /\ Locked(v) /\ Locked(w)
      /\ NoTxn.base = None
  BY NoneAssumption DEF TypeInv, TypeOK, LockInv, NoTxn
<1>1. CASE Looks(w)
  <2>1. CASE v = w
    BY <1>0, <1>1, <2>1 DEF Looks, OthersKeep, Locked, InTransaction, Verifying
  <2>2. CASE v # w
    BY <1>0, <1>1, <2>2 DEF Looks, OthersKeep, Locked, InTransaction, Verifying, Initializing
  <2> QED BY <2>1, <2>2
<1>2. CASE Asks(w)
  <2>1. CASE v = w
    BY <1>0, <1>2, <2>1 DEF Asks, OthersKeep, Locked, InTransaction, Verifying
  <2>2. CASE v # w
    BY <1>0, <1>2, <2>2 DEF Asks, OthersKeep, Locked, InTransaction, Verifying, Initializing
  <2> QED BY <2>1, <2>2
<1>3. ASSUME End(w) PROVE Locked(v)'
  <2>1. CASE v = w
    BY <1>0, <1>3, <2>1, EndLeaves DEF Locked, InTransaction, Verifying
  <2>2. CASE v # w
    BY <1>0, <1>3, <2>2, EndLeaves DEF OthersKeep, Locked, InTransaction, Verifying
  <2> QED BY <2>1, <2>2
<1>4. CASE Opens(w)
  <2>1. CASE \A u \in Writers : pc[u] = "idle"
    <3>1. lock = None
      BY <1>0, <2>1 DEF LockInv, Locked, InTransaction
    <3>2. CASE v = w
      BY <1>0, <1>4, <2>1, <3>1, <3>2 DEF Opens, OthersKeep, Locked, InTransaction, Verifying
    <3>3. CASE v # w
      BY <1>0, <1>4, <2>1, <3>1, <3>3 DEF Opens, OthersKeep, Locked, InTransaction, Verifying
    <3> QED BY <3>2, <3>3
  <2>2. CASE pc[w] \in Verifying /\ goal[w] = "submit" /\ goal'[w] = "submit"
    <3>1. lock = w
      BY <1>0, <2>2 DEF Locked, InTransaction, Verifying
    <3>2. CASE v = w
      BY <1>0, <1>4, <2>2, <3>1, <3>2 DEF Opens, OthersKeep, Locked, InTransaction, Verifying
    <3>3. CASE v # w
      BY <1>0, <1>4, <2>2, <3>1, <3>3 DEF Opens, OthersKeep, Locked, InTransaction, Verifying
    <3> QED BY <3>2, <3>3
  <2> QED BY <1>4, <2>1, <2>2 DEF Opens
<1>5. CASE Works(w)
  <2>0. InTransaction(w)
    BY <1>5 DEF Works, Open
  <2>1. CASE v = w
    BY <1>0, <1>5, <2>0, <2>1 DEF Works, OthersKeep, Locked, InTransaction, Verifying
  <2>2. CASE v # w
    BY <1>0, <1>5, <2>0, <2>2 DEF Works, OthersKeep, Locked, InTransaction, Verifying
  <2> QED BY <2>1, <2>2
<1>6. CASE Dies
  BY <1>0, <1>6 DEF Dies, Locked, InTransaction, Verifying
<1> QED BY <1>1, <1>2, <1>3, <1>4, <1>5, <1>6 DEF StepOf, Leaves, Acknowledges

(* Others' transactions are open after a step of w as they were before. *)
LEMMA OthersStayOpen ==
    ASSUME NEW w \in Writers, OthersKeep(w), NEW v \in Writers \ {w}
    PROVE  /\ v \in Open' <=> v \in Open
           /\ txn'[v] = txn[v] /\ pc'[v] = pc[v] /\ owned'[v] = owned[v]
  BY DEF OthersKeep, Open, InTransaction

(* A step that changes nothing of the run... *)
Passes(w) == Looks(w) \/ Asks(w) \/ Leaves(w) \/ Dies

(* ... opens no transaction. *)
LEMMA NothingOpened ==
    ASSUME TypeInv, NEW w \in Writers, Passes(w), NEW v \in Open'
    PROVE  v \in Open /\ txn'[v] = txn[v] /\ pc'[v] = pc[v] /\ owned'[v] = owned[v]
<1>0. v \in Writers /\ InTransaction(v)' /\ (pc'[v] \in Verifying => goal'[v] = "confirm")
  BY DEF Open
<1>1. CASE Looks(w)
  <2>1. v # w
    BY <1>0, <1>1 DEF Looks
  <2> QED BY <1>0, <1>1, <2>1, OthersStayOpen DEF Looks
<1>2. CASE Asks(w)
  <2>1. v # w
    BY <1>0, <1>2 DEF Asks
  <2> QED BY <1>0, <1>2, <2>1, OthersStayOpen DEF Asks
<1>3. CASE Leaves(w)
  <2>1. v # w /\ OthersKeep(w)
    BY <1>0, <1>3, EndLeaves DEF Leaves, InTransaction
  <2> QED BY <1>0, <2>1, OthersStayOpen
<1>4. CASE Dies
  BY <1>0, <1>4 DEF Dies, InTransaction
<1> QED BY <1>1, <1>2, <1>3, <1>4 DEF Passes

(* The other steps belong to the one transaction there is. *)
LEMMA OnlyOpen ==
    ASSUME LockInv, NEW w \in Open
    PROVE  Open = {w}
  BY OneTransaction DEF Open

(* A transaction is opened where none is open. *)
LEMMA OpensAlone ==
    ASSUME TypeInv, LockInv, NEW w \in Writers, Opens(w)
    PROVE  Open = {} /\ Open' = {w}
<1>1. OthersKeep(w) /\ w \in Open' /\ w \notin Open
  BY DEF Opens, Open, InTransaction, Verifying
<1>2. ASSUME NEW v \in Writers \ {w} PROVE ~InTransaction(v)
  <2>1. CASE \A u \in Writers : pc[u] = "idle"
    BY <2>1 DEF InTransaction
  <2>2. CASE pc[w] \in Verifying /\ goal[w] = "submit"
    BY <1>2, <2>2, OneTransaction DEF InTransaction, Verifying
  <2> QED BY <2>1, <2>2 DEF Opens
<1>3. \A v \in Writers \ {w} : v \notin Open /\ v \notin Open'
  BY <1>1, <1>2, OthersStayOpen DEF Open
<1>4. Open \subseteq Writers /\ Open' \subseteq Writers
  BY DEF Open
<1> QED BY <1>1, <1>3, <1>4

(* A step of an open transaction leaves it the only one. *)
LEMMA WorksAlone ==
    ASSUME LockInv, NEW w \in Writers, Works(w)
    PROVE  Open = {w} /\ Open' = {w}
<1>1. OthersKeep(w) /\ Open = {w}
  BY OnlyOpen DEF Works
<1>2. w \in Open'
  BY DEF Works, Open, InTransaction
<1>3. \A v \in Writers \ {w} : v \notin Open'
  BY <1>1, OthersStayOpen
<1>4. Open' \subseteq Writers
  BY DEF Open
<1> QED BY <1>1, <1>2, <1>3, <1>4

(* A transaction that is acknowledged leaves none open. *)
LEMMA AcknowledgesAlone ==
    ASSUME TypeInv, LockInv, NEW w \in Writers, Acknowledges(w)
    PROVE  Open = {w} /\ Open' = {}
<1>1. OthersKeep(w) /\ Open = {w} /\ pc'[w] = "idle"
  BY OnlyOpen, EndLeaves DEF Acknowledges
<1>2. w \notin Open'
  BY <1>1 DEF Open, InTransaction
<1>3. \A v \in Writers \ {w} : v \notin Open'
  BY <1>1, OthersStayOpen
<1>4. Open' \subseteq Writers
  BY DEF Open
<1> QED BY <1>1, <1>2, <1>3, <1>4

(* A file that holds what a history says is there. *)
LEMMA HeldIsThere ==
    ASSUME NEW h \in History, NEW x \in PathsOf(h), Holds(x, h)
    PROVE  x \in Path /\ x \in Place /\ files[x] # None /\ Present(x)
<1>1. x \in Path /\ Content(x, h) # None
  BY Contents, NoneAssumption
<1> QED BY <1>1 DEF Place, Holds, Present

(* An exact tree holds the files of its history and no others. *)
LEMMA ExactFiles ==
    ASSUME NEW h \in History, ExactTree(h)
    PROVE  \A x \in Path : files[x] # None <=> x \in PathsOf(h)
<1>1. \A x \in Path : x \in Place /\ (Present(x) <=> files[x] # None)
  BY DEF Place, Present
<1>2. \A x \in Path : x \in Expected(h) <=> x \in PathsOf(h)
  <2>1. \A x \in Path : x \notin Directory /\ x # ManifestPath
    BY Places
  <2>2. \A x \in PathsOf(h) : Parent(x) \in Directory
    BY Places, Contents
  <2> QED BY <2>1, <2>2 DEF Expected
<1> QED BY <1>1, <1>2 DEF ExactTree

(***************************************************************************)
(* Every kind of step keeps what was acknowledged.                         *)
(***************************************************************************)
(* A step that changes nothing of the run keeps what is known of it. *)
LEMMA DataPasses ==
    ASSUME TypeInv, DataInv, NEW w \in Writers, Passes(w)
    PROVE  DataInv'
<1>1. Idle
  BY DEF Passes, Looks, Asks, Leaves, Dies
<1>2. NoForkedHistory' /\ AcceptedBytesSurvive'
  BY <1>1 DEF DataInv, NoForkedHistory, AcceptedBytesSurvive, Idle, Holds
<1>3. ASSUME NEW v \in Open' PROVE Built(v)'
  <2>1. v \in Open /\ txn'[v] = txn[v] /\ pc'[v] = pc[v] /\ owned'[v] = owned[v]
    BY NothingOpened
  <2>2. Built(v)
    BY <2>1 DEF DataInv
  <2> QED BY <1>1, <2>1, <2>2 DEF Built, FromBase, Idle, Holds
<1> QED BY <1>2, <1>3 DEF DataInv

(* A directory that is exactly a history, and holds what was acknowledged,
   shows that the history extends all that was acknowledged. *)
LEMMA ExactExtendsAll ==
    ASSUME TypeInv, AcceptedBytesSurvive, NEW g \in History, ExactTree(g), NEW h \in acked
    PROVE  Extends(g, h)
<1>1. h \in History
  BY DEF TypeInv, TypeOK
<1>2. \A x \in PathsOf(h) : Holds(x, h) /\ x \in Path
  BY <1>1, Contents DEF AcceptedBytesSurvive
<1>3. \A x \in PathsOf(h) : x \in PathsOf(g)
  BY <1>1, <1>2, HeldIsThere, ExactFiles
<1>4. \A x \in PathsOf(h) : Content(x, g) = Content(x, h)
  BY <1>2, <1>3 DEF ExactTree, Holds
<1> QED BY <1>1, <1>3, <1>4, ContentShowsPrefix

(* A transaction opened on an exact tree is built on it: the tree holds all
   that was acknowledged, so its history extends every acknowledged one. *)
LEMMA DataOpens ==
    ASSUME TypeInv, LockInv, DataInv, NEW w \in Writers, Opens(w)
    PROVE  DataInv'
<1>1. Idle /\ Open' = {w}
  BY OpensAlone DEF Opens
<1>2. NoForkedHistory' /\ AcceptedBytesSurvive'
  BY <1>1 DEF DataInv, NoForkedHistory, AcceptedBytesSurvive, Idle, Holds
<1>3. CASE EmptyDirectory /\ txn'[w].base = None /\ txn'[w].next = <<>>
  <2>1. ASSUME NEW h \in acked PROVE FALSE
    <3>1. h \in History
      BY DEF TypeInv, TypeOK
    <3>2. Holds(<<"request", 1>>, h)
      BY <3>1, FirstRequest DEF DataInv, AcceptedBytesSurvive
    <3>3. Present(<<"request", 1>>) /\ <<"request", 1>> \in Place
      BY <3>1, <3>2, FirstRequest, HeldIsThere
    <3> QED BY <1>3, <3>3 DEF EmptyDirectory
  <2>2. acked' = {} /\ manifest' = None /\ pc'[w] = "write"
    <3>1. ManifestPath \in Place /\ (Present(ManifestPath) <=> manifest # None)
      BY Places DEF Place, Present
    <3> QED BY <1>1, <1>3, <2>1, <3>1 DEF Idle, EmptyDirectory, Opens
  <2>3. Built(w)'
    BY <1>3, <2>2 DEF Built, FromBase
  <2> QED BY <1>1, <1>2, <2>3 DEF DataInv
<1>4. CASE /\ txn'[w].base \in History /\ ExactTree(txn'[w].base)
           /\ \E a \in Answers : txn'[w].next = Append(txn'[w].base, a)
  <2>1. \A h \in acked' : Extends(txn'[w].base, h)
    BY <1>1, <1>4, ExactExtendsAll DEF DataInv, Idle
  <2>2. /\ manifest' # None /\ manifest' = txn'[w].base
        /\ \A x \in PathsOf(txn'[w].base) :
               files'[x] = Content(x, txn'[w].base)
    <3>1. manifest = txn'[w].base /\ manifest # None
      BY <1>4, NoneAssumption DEF ExactTree
    <3> QED BY <1>1, <1>4, <3>1 DEF ExactTree, Idle, Holds
  <2>3. txn'[w].base # None /\ owned'[w] = {} /\ pc'[w] = "write"
    BY <1>4, NoneAssumption DEF Opens
  <2>4. Built(w)'
    BY <1>4, <2>1, <2>2, <2>3 DEF Built, FromBase, Holds
  <2> QED BY <1>1, <1>2, <2>4 DEF DataInv
<1> QED BY <1>3, <1>4 DEF Opens

(* Work never touches a file of the base, and so none that was acknowledged. *)
LEMMA DataWorks ==
    ASSUME TypeInv, LockInv, DataInv, NEW w \in Writers, Works(w)
    PROVE  DataInv'
<1>1. w \in Open /\ Open' = {w} /\ acked' = acked
  BY WorksAlone DEF Works
<1>2. Built(w) /\ NoForkedHistory' /\ acked \subseteq History /\ txn[w] \in Txn
  BY <1>1 DEF DataInv, NoForkedHistory, TypeInv, TypeOK, Open
<1>3. CASE txn[w].base = None
  <2>1. acked' = {} /\ txn'[w].next = <<>> /\ txn'[w].base = None
    BY <1>1, <1>2, <1>3 DEF Built, FromBase, Works
  <2>2. FromBase(w)'
    BY <2>1 DEF FromBase
  <2>3. Built(w)'
    BY <2>2 DEF Built, Works
  <2> QED BY <1>1, <1>2, <2>1, <2>3 DEF DataInv, AcceptedBytesSurvive
<1>4. CASE txn[w].base # None
  <2> DEFINE b == txn[w].base
  <2>0. b \in History /\ txn'[w].base = b /\ txn'[w].next = txn[w].next
    BY <1>2, <1>4 DEF Txn, Works
  <2>1. /\ \E a \in Answers : txn[w].next = Append(b, a)
        /\ \A h \in acked : Extends(b, h)
        /\ \A x \in PathsOf(b) : Holds(x, b) /\ x \notin owned[w]
    BY <1>2, <1>4 DEF Built, FromBase
  <2>2. ASSUME NEW x \in PathsOf(b) PROVE files'[x] = files[x] /\ x \notin owned'[w]
    <3>1. x \in Path
      BY <2>0, Contents
    <3>2. files[x] # None /\ x \notin owned[w]
      BY <2>0, <2>1, HeldIsThere
    <3> QED BY <3>1, <3>2 DEF Works
  <2>3. \A x \in PathsOf(b) : files'[x] = Content(x, b) /\ x \notin owned'[w]
    BY <2>1, <2>2 DEF Holds
  <2>4. FromBase(w)'
    BY <1>1, <1>4, <2>0, <2>1, <2>3 DEF FromBase, Holds
  <2>5. Built(w)'
    BY <2>0, <2>4 DEF Built, Works
  <2>6. ASSUME NEW h \in acked', NEW x \in PathsOf(h) PROVE Holds(x, h)'
    <3>1. h \in History /\ Extends(b, h) /\ h \in acked
      BY <1>1, <1>2, <2>1
    <3>2. x \in PathsOf(b) /\ Content(x, b) = Content(x, h)
      BY <2>0, <3>1, PrefixKeepsContent
    <3> QED BY <2>3, <3>2 DEF Holds
  <2> QED BY <1>1, <1>2, <2>5, <2>6 DEF DataInv, AcceptedBytesSurvive
<1> QED BY <1>3, <1>4

(* An acknowledged history extends its base, and so all those before it. *)
LEMMA DataAcknowledges ==
    ASSUME TypeInv, LockInv, DataInv, NEW w \in Writers, Acknowledges(w)
    PROVE  DataInv'
<1> DEFINE n == txn[w].next
<1>1. /\ w \in Open /\ Open' = {} /\ acked' = acked \cup {n} /\ ExactTree(n)
      /\ UNCHANGED <<files, dirs, manifest, temps>>
  BY AcknowledgesAlone DEF Acknowledges
<1>2. Built(w) /\ acked \subseteq History /\ n \in History
  BY <1>1 DEF DataInv, TypeInv, TypeOK, Txn
<1>3. \A h \in acked : Extends(n, h)
  BY <1>1, <1>2, ExactExtendsAll DEF DataInv
<1>4. NoForkedHistory'
  BY <1>1, <1>2, <1>3, ExtendsSelf DEF DataInv, NoForkedHistory
<1>5. AcceptedBytesSurvive'
  BY <1>1 DEF DataInv, AcceptedBytesSurvive, ExactTree, Holds
<1> QED BY <1>1, <1>4, <1>5 DEF DataInv

(* Every kind of step keeps the files' part of the invariant. *)
LEMMA DataNext ==
    ASSUME TypeInv, LockInv, DataInv, NEW w \in Writers, StepOf(w)
    PROVE  DataInv'
  BY DataPasses, DataOpens, DataWorks, DataAcknowledges DEF StepOf, Passes

--------------------------------------------------------------------------------
(***************************************************************************)
(* The directory: a file or a temporary is in a directory there is, and a  *)
(* writer about to link has its temporary.                                 *)
(***************************************************************************)
Rooted ==
    /\ \A x \in Path : files[x] # None => Parent(x) \in dirs
    /\ \A t \in temps : t[2] \in dirs \cup {Root}

Linking(w) == pc[w] = "link" => <<w, Parent(Writing(w))>> \in temps

RootInv == Rooted /\ \A w \in Writers : Linking(w)

(* What a writer may do. *)
ActionOf(w) ==
    \/ Verify(w) \/ Initialize(w) \/ (\E a \in Answers : StartSubmit(w, a))
    \/ Commit(w) \/ RollBack(w) \/ Fault(w) \/ Crash(w)

(* Only files in standing directories come, only empty directories go. *)
LEMMA RootedKept ==
    ASSUME Rooted,
           \A x \in Path : files'[x] # None => files[x] # None \/ Parent(x) \in dirs,
           \A t \in temps' : t \in temps \/ t[2] \in dirs \cup {Root},
           \/ dirs \subseteq dirs'
           \/ \E d \in dirs : /\ dirs' = dirs \ {d} /\ Entries(d) = {} /\ TempsIn(d) = {}
                              /\ files' = files /\ temps' = temps
    PROVE  Rooted'
<1>1. CASE dirs \subseteq dirs'
  BY <1>1 DEF Rooted
<1>2. ASSUME NEW d \in dirs, dirs' = dirs \ {d}, Entries(d) = {}, TempsIn(d) = {},
             files' = files, temps' = temps
      PROVE  Rooted'
  <2>1. ASSUME NEW x \in Path, files[x] # None PROVE Parent(x) # d
    BY <1>2, <2>1 DEF Entries, Present, Place
  <2>2. ASSUME NEW t \in temps PROVE t[2] # d
    BY <1>2 DEF TempsIn
  <2> QED BY <1>2, <2>1, <2>2 DEF Rooted
<1> QED BY <1>1, <1>2

(* No writer loses a temporary of its own while it is to be linked. *)
LEMMA LinkingKept ==
    ASSUME \A v \in Writers : Linking(v), NEW w \in Writers,
           \A v \in Writers \ {w} : pc'[v] = "link" => pc[v] = "link" /\ txn'[v] = txn[v],
           \A t \in temps : t[1] # w => t \in temps',
           Linking(w)'
    PROVE  \A v \in Writers : Linking(v)'
<1> SUFFICES ASSUME NEW v \in Writers \ {w}, pc'[v] = "link" PROVE Linking(v)'
  BY DEF Linking
<1>1. <<v, Parent(Writing(v))>> \in temps /\ <<v, Parent(Writing(v))>>[1] = v
  BY DEF Linking
<1>2. Writing(v)' = Writing(v)
  BY DEF Writing
<1> QED BY <1>1, <1>2 DEF Linking

(* A step that changes no temporary file, and brings nobody to a link. *)
LEMMA LinkingStays ==
    ASSUME \A v \in Writers : Linking(v), temps' = temps,
           \A v \in Writers : pc'[v] = "link" => pc[v] = "link" /\ txn'[v] = txn[v]
    PROVE  \A v \in Writers : Linking(v)'
<1> SUFFICES ASSUME NEW v \in Writers, pc'[v] = "link" PROVE Linking(v)'
  BY DEF Linking
<1>1. Writing(v)' = Writing(v) /\ pc[v] = "link"
  BY DEF Writing
<1> QED BY <1>1 DEF Linking

(* The label of a process moves, and of no other. *)
LEMMA OneMoves ==
    ASSUME TypeInv, NEW w \in Writers, NEW label, GoTo(w, label),
           txn' = txn \/ \E t : txn' = [txn EXCEPT ![w] = t]
    PROVE  /\ pc'[w] = label
           /\ \A v \in Writers \ {w} : pc'[v] = pc[v] /\ txn'[v] = txn[v]
  BY DEF GoTo, TypeInv, TypeOK

(* Verifying, starting and dying change nothing of the directory. *)
LEMMA NoMarks ==
    ASSUME TypeInv, NEW w \in Writers, ActionOf(w), pc[w] \notin Forward \cup Rollback
    PROVE  /\ UNCHANGED <<files, dirs, manifest, temps>>
           /\ \A p \in Writers, x \in Place : scan'[p][x] = "changed" => scan[p][x] = "changed"
           /\ \A v \in Writers : pc'[v] # "link"  \/ (pc[v] = "link" /\ txn'[v] = txn[v])
<1>0. /\ scan \in [Writers -> [Place -> Note]] /\ DOMAIN pc = Writers /\ DOMAIN txn = Writers
      /\ NoScan \in [Place -> Note] /\ (\A x \in Place : NoScan[x] = "absent")
  BY NoTxnType DEF TypeInv, TypeOK, NoScan
<1>f. ASSUME VerificationFails(w)
      PROVE  /\ \A p \in Writers, x \in Place : scan'[p][x] = "changed" => scan[p][x] = "changed"
             /\ \A v \in Writers : pc'[v] # "link"  \/ (pc[v] = "link" /\ txn'[v] = txn[v])
  <2>1. DropWalk(w)
    BY <1>f DEF VerificationFails, End, Finish
  <2>2. \A p \in Writers, x \in Place : scan'[p][x] = "changed" => scan[p][x] = "changed"
    BY <1>0, <2>1 DEF DropWalk
  <2>3. CASE goal[w] = "confirm"
    BY <1>0, <1>f, <2>2, <2>3 DEF VerificationFails, Undo, GoTo
  <2>4. CASE goal[w] # "confirm"
    BY <1>0, <1>f, <2>2, <2>4 DEF VerificationFails, End, Finish, GoTo
  <2> QED BY <2>3, <2>4
<1>e. ASSUME End(w)
      PROVE  /\ \A p \in Writers, x \in Place : scan'[p][x] = "changed" => scan[p][x] = "changed"
             /\ \A v \in Writers : pc'[v] # "link"  \/ (pc[v] = "link" /\ txn'[v] = txn[v])
  BY <1>0, <1>e DEF End, Finish, GoTo, DropWalk
<1>1. CASE StartRead(w)
  BY <1>0, <1>1 DEF StartRead, GoTo, disk
<1>2. CASE Initialize(w)
  BY <1>0, <1>2 DEF Initialize, GoTo, disk, walk
<1>3. ASSUME NEW a \in Answers, StartSubmit(w, a)
      PROVE  /\ UNCHANGED <<files, dirs, manifest, temps, scan>>
             /\ \A v \in Writers : pc'[v] # "link"  \/ (pc[v] = "link" /\ txn'[v] = txn[v])
  BY <1>0, <1>3 DEF StartSubmit, Submit, GoTo, disk
<1>4. CASE Scan(w)
  <2>1. PICK x \in Listable \cup Place : Scan(w)!(x)
    BY <1>4 DEF Scan
  <2>2. CASE VerificationFails(w)
    BY <1>f, <2>1, <2>2 DEF disk
  <2>3. CASE ~VerificationFails(w)
    <3>1. /\ scan' = [scan EXCEPT ![w] = [y \in Place |-> IF y = x THEN "same" ELSE scan[w][y]]]
          /\ txn' = txn /\ UNCHANGED <<files, dirs, manifest, temps>>
          /\ GoTo(w, "load") \/ GoTo(w, "scan")
      BY <2>1, <2>3 DEF disk
    <3>2. \A p \in Writers, y \in Place : scan'[p][y] = "changed" => scan[p][y] = "changed"
      BY <1>0, <3>1
    <3> QED BY <1>0, <3>1, <3>2 DEF GoTo
  <2> QED BY <2>2, <2>3
<1>5. CASE LoadManifest(w)
  <2>1. CASE VerificationFails(w)
    BY <1>f, <1>5, <2>1 DEF LoadManifest, disk
  <2>2. CASE ~VerificationFails(w)
    BY <1>5, <2>2 DEF LoadManifest, disk
  <2> QED BY <2>1, <2>2
<1>6. CASE LoadFile(w)
  <2>1. CASE VerificationFails(w)
    BY <1>f, <1>6, <2>1 DEF LoadFile, disk
  <2>2. CASE ~VerificationFails(w)
    <3>1. /\ UNCHANGED <<files, dirs, manifest, temps, scan, txn>>
          /\ GoTo(w, "rescan") \/ pc' = pc
      BY <1>6, <2>2 DEF LoadFile, disk
    <3> QED BY <1>0, <3>1 DEF GoTo
  <2> QED BY <2>1, <2>2
<1>7. CASE Rescan(w)
  <2>1. PICK x \in Listable \cup Place : SecondVisit(w, x, Unchanged(w, x))
    BY <1>7 DEF Rescan
  <2>2. UNCHANGED <<files, dirs, manifest, temps>>
    BY <2>1 DEF SecondVisit, disk
  <2>3. CASE VerificationFails(w)
    BY <1>f, <2>2, <2>3
  <2>4. CASE UNCHANGED <<pc, scan, txn>>
    BY <2>2, <2>4
  <2>5. CASE Verified(w)
    <3>1. End(w) \/ VerificationFails(w)
          \/ (/\ GoTo(w, "write") /\ DropWalk(w)
              /\ txn' = [txn EXCEPT ![w].base = seen[w],
                                    ![w].next = Append(seen[w], txn[w].answer)])
      BY <2>5 DEF Verified, TypeInv, TypeOK
    <3>2. CASE GoTo(w, "write") /\ DropWalk(w)
               /\ txn' = [txn EXCEPT ![w].base = seen[w],
                                    ![w].next = Append(seen[w], txn[w].answer)]
      <4>1. \A p \in Writers, y \in Place : scan'[p][y] = "changed" => scan[p][y] = "changed"
        BY <1>0, <3>2 DEF DropWalk
      <4> QED BY <1>0, <2>2, <3>2, <4>1 DEF GoTo
    <3> QED BY <1>e, <1>f, <2>2, <3>1, <3>2
  <2> QED BY <2>1, <2>3, <2>4, <2>5 DEF SecondVisit
<1>8. CASE Commit(w) \/ RollBack(w)
  BY <1>8 DEF Commit, MakeDirectory, WriteFile, LinkFile, Recheck, StageManifest, ReplaceManifest,
     RollBack, UndoManifest, ClaimManifest, RestoreManifest, RemoveFile, Prune, Settle, Forward, Rollback
<1>9. CASE Fault(w)
  <2>1. (VerificationFails(w) \/ End(w)) /\ UNCHANGED <<files, dirs, manifest, temps>>
    BY <1>9 DEF Fault, FailsReading, FailsReporting, FailsWriting, FailsLinking, FailsReplacing,
       FailsRestoring, FailsRemoving, FailsSettling, Forward, Rollback, disk
  <2> QED BY <1>e, <1>f, <2>1
<1>10. CASE Crash(w)
  <2>1. \A p \in Writers : \/ pc'[p] = "idle" /\ scan'[p] = NoScan
                           \/ pc'[p] = pc[p] /\ scan'[p] = scan[p] /\ txn'[p] = txn[p]
    BY <1>10 DEF Crash
  <2> QED BY <1>0, <1>10, <2>1 DEF Crash, disk
<1> QED BY <1>1, <1>2, <1>3, <1>4, <1>5, <1>6, <1>7, <1>8, <1>9, <1>10 DEF ActionOf, Verify

(* The root is no directory of files. *)
LEMMA RootedRoot ==
    ASSUME TypeInv, RootInv, NEW w \in Writers, UNCHANGED <<files, dirs>>,
           temps' = temps \/ temps' = temps \cup {<<w, Root>>} \/ temps' = temps \ {<<w, Root>>},
           \A v \in Writers : pc'[v] = "link" => pc[v] = "link" /\ txn'[v] = txn[v]
    PROVE  RootInv'
<1>1. Rooted'
  <2>1. \A t \in temps' : t \in temps \/ t[2] \in dirs \cup {Root}
    OBVIOUS
  <2> QED BY <2>1, RootedKept DEF RootInv
<1>2. ASSUME NEW v \in Writers, pc'[v] = "link" PROVE Linking(v)'
  <2>1. /\ Writing(v)' = Writing(v) /\ pc[v] = "link"
    BY <1>2 DEF Writing
  <2>2. Parent(Writing(v)) \in Directory
    BY <2>1, WritingType DEF TypeInv, Labels
  <2>3. Root \notin Directory
    BY Places DEF Place
  <2>4. <<v, Parent(Writing(v))>> \in temps /\ <<v, Parent(Writing(v))>> # <<w, Root>>
    BY <2>1, <2>2, <2>3 DEF RootInv, Linking
  <2>5. <<v, Parent(Writing(v))>> \in temps'
    BY <2>4
  <2> QED BY <2>1, <2>5 DEF Linking
<1> QED BY <1>1, <1>2 DEF RootInv, Linking

(* A link goes into the directory of its temporary, which it takes away. *)
LEMMA RootedLink ==
    ASSUME TypeInv, RootInv, NEW w \in Writers, pc[w] = "link", NEW label, label # "link",
           pc' = [pc EXCEPT ![w] = label], txn' = txn \/ \E t : txn' = [txn EXCEPT ![w] = t],
           temps' = temps \ {<<w, Parent(Writing(w))>>} \/ temps' = temps, UNCHANGED dirs,
           files' = files \/ NewFile(w, Writing(w))
    PROVE  RootInv'
<1>0. /\ Writing(w) \in Path /\ <<w, Parent(Writing(w))>> \in temps
      /\ Parent(Writing(w)) \in Directory
  BY WritingType DEF TypeInv, Labels, RootInv, Linking
<1>1. Parent(Writing(w)) \in dirs
  <2>1. <<w, Parent(Writing(w))>>[2] = Parent(Writing(w)) /\ Root \notin Directory
    BY Places DEF Place
  <2> QED BY <1>0, <2>1 DEF RootInv, Rooted
<1>2. \A x \in Path : files'[x] # None => files[x] # None \/ Parent(x) \in dirs
  BY <1>0, <1>1 DEF NewFile, TypeInv, TypeOK
<1>3. Rooted'
  BY <1>2, RootedKept DEF RootInv
<1>4. /\ pc'[w] = label
      /\ \A v \in Writers \ {w} : pc'[v] = pc[v] /\ txn'[v] = txn[v]
  BY DEF TypeInv, TypeOK
<1>5. \A t \in temps : t[1] # w => t \in temps'
  OBVIOUS
<1>6. \A v \in Writers : Linking(v)'
  BY <1>4, <1>5, LinkingKept DEF RootInv, Linking
<1> QED BY <1>3, <1>6 DEF RootInv

(* A step of the rollback: files go, and directories that are empty. *)
LEMMA RootedRemoval ==
    ASSUME TypeInv, RootInv, NEW w \in Writers, NEW label, label # "link",
           pc' = [pc EXCEPT ![w] = label], txn' = txn \/ \E t : txn' = [txn EXCEPT ![w] = t],
           UNCHANGED temps,
           \/ dirs' = dirs /\ (files' = files \/ \E x \in Path : files' = [files EXCEPT ![x] = None])
           \/ \E d : Pruned(w, d) /\ files' = files
    PROVE  RootInv'
<1>1. Rooted'
  <2>1. CASE dirs' = dirs
    <3>1. \A x \in Path : files'[x] # None => files[x] # None
      BY <2>1 DEF TypeInv, TypeOK
    <3> QED BY <2>1, <3>1, RootedKept DEF RootInv
  <2>2. ASSUME NEW d, Pruned(w, d), dirs' # dirs, files' = files PROVE Rooted'
    <3>1. dirs' = dirs \ {d} /\ Entries(d) = {} /\ TempsIn(d) = {} /\ d \in dirs
      BY <2>2 DEF Pruned
    <3> QED BY <2>2, <3>1, RootedKept DEF RootInv
  <2> QED BY <2>1, <2>2
<1>4. /\ pc'[w] = label
      /\ \A v \in Writers \ {w} : pc'[v] = pc[v] /\ txn'[v] = txn[v]
  BY DEF TypeInv, TypeOK
<1>6. \A v \in Writers : Linking(v)'
  BY <1>4, LinkingKept DEF RootInv, Linking
<1> QED BY <1>1, <1>6 DEF RootInv

(* The directory stays in order through a commit... *)
LEMMA RootedCommit ==
    ASSUME TypeInv, RootInv, NEW w \in Writers, Commit(w)
    PROVE  RootInv'
<1>0. /\ DOMAIN pc = Writers /\ DOMAIN txn = Writers
  BY DEF TypeInv, TypeOK
<1>n. ASSUME NextFile(w) PROVE /\ pc' = [pc EXCEPT ![w] = "write"]
                               /\ \E t : txn' = [txn EXCEPT ![w] = t]
  BY <1>n DEF NextFile, GoTo, TypeInv, TypeOK
<1>1. CASE MakeDirectory(w)
  <2>1. Rooted'
    <3>1. dirs \subseteq dirs' /\ files' = files /\ temps' = temps
      BY <1>1 DEF MakeDirectory
    <3> QED BY <3>1, RootedKept DEF RootInv
  <2>2. pc' = pc /\ txn' = txn /\ temps' = temps
    BY <1>1 DEF MakeDirectory
  <2> QED BY <2>1, <2>2, LinkingStays DEF RootInv
<1>2. CASE WriteFile(w)
  <2>0. pc[w] = "write" /\ UNCHANGED <<files, dirs>>
    BY <1>2 DEF WriteFile
  <2>1. CASE /\ temps' = temps \cup {<<w, Parent(Writing(w))>>} /\ GoTo(w, "link")
             /\ txn' = txn
    <3>1. Parent(Writing(w)) \in dirs
      BY <1>2 DEF WriteFile
    <3>2. \A t \in temps' : t \in temps \/ t[2] \in dirs \cup {Root}
      BY <2>1, <3>1
    <3>3. Rooted'
      BY <2>0, <3>2, RootedKept DEF RootInv
    <3>4. Linking(w)'
      BY <2>1 DEF Linking, Writing
    <3>5. \A v \in Writers \ {w} : pc'[v] = pc[v] /\ txn'[v] = txn[v]
      BY <2>1, OneMoves
    <3>6. \A t \in temps : t \in temps'
      BY <2>1
    <3>7. \A v \in Writers : Linking(v)'
      BY <3>4, <3>5, <3>6, LinkingKept DEF RootInv
    <3> QED BY <3>3, <3>7 DEF RootInv
  <2>2. CASE NextFile(w) /\ UNCHANGED <<temps, scan, owned>>
    <3>1. \A v \in Writers : pc'[v] = "link" => pc[v] = "link" /\ txn'[v] = txn[v]
      BY <1>0, <1>n, <2>2
    <3> QED BY <2>0, <2>2, <3>1, RootedRoot
  <2>3. CASE Undo(w) /\ UNCHANGED <<temps, scan>>
    <3>1. \A v \in Writers : pc'[v] = "link" => pc[v] = "link" /\ txn'[v] = txn[v]
      BY <1>0, <2>3 DEF Undo, GoTo
    <3> QED BY <2>0, <2>3, <3>1, RootedRoot
  <2> QED BY <1>2, <2>1, <2>2, <2>3 DEF WriteFile
<1>3. CASE LinkFile(w)
  <2>1. /\ pc[w] = "link" /\ temps' = temps \ {<<w, Parent(Writing(w))>>} /\ dirs' = dirs
        /\ files' = files \/ NewFile(w, Writing(w))
        /\ NextFile(w) \/ Undo(w)
    BY <1>3 DEF LinkFile, Unlink
  <2>2. /\ txn' = txn \/ \E t : txn' = [txn EXCEPT ![w] = t]
        /\ pc' = [pc EXCEPT ![w] = "write"] \/ pc' = [pc EXCEPT ![w] = "undo"]
    BY <1>n, <2>1 DEF Undo, GoTo
  <2> QED BY <2>1, <2>2, RootedLink
<1>4. CASE Recheck(w)
  <2>1. /\ UNCHANGED <<files, dirs, temps, txn>>
        /\ pc' = [pc EXCEPT ![w] = "install"] \/ pc' = [pc EXCEPT ![w] = "undo"]
    BY <1>4 DEF Recheck, Undo, GoTo, disk
  <2> QED BY <1>0, <2>1, RootedRoot
<1>5. CASE StageManifest(w) \/ ReplaceManifest(w)
  <2>1. /\ UNCHANGED <<files, dirs, txn>>
        /\ temps' = temps \/ temps' = temps \cup {<<w, Root>>} \/ temps' = temps \ {<<w, Root>>}
        /\ \E label \in {"scan", "undo", "replace"} : pc' = [pc EXCEPT ![w] = label]
    BY <1>5 DEF StageManifest, ReplaceManifest, Confirm, Reverify, Undo, GoTo
  <2> QED BY <1>0, <2>1, RootedRoot
<1> QED BY <1>1, <1>2, <1>3, <1>4, <1>5 DEF Commit

(* ... its rollback... *)
LEMMA RootedRollBack ==
    ASSUME TypeInv, RootInv, NEW w \in Writers, RollBack(w)
    PROVE  RootInv'
<1>0. /\ DOMAIN pc = Writers /\ DOMAIN txn = Writers
  BY DEF TypeInv, TypeOK
<1>g. ASSUME GoOn(w) PROVE /\ pc' = [pc EXCEPT ![w] = "remove"]
                           /\ \E t : txn' = [txn EXCEPT ![w] = t]
  BY <1>g DEF GoOn, GoTo, TypeInv, TypeOK
<1>1. CASE UndoManifest(w) \/ RestoreManifest(w)
  <2>1. /\ UNCHANGED <<files, dirs, temps, txn>>
        /\ pc' = [pc EXCEPT ![w] = "claim"] \/ pc' = [pc EXCEPT ![w] = "remove"]
    BY <1>1 DEF UndoManifest, RestoreManifest, Reinstall, Rolls, GoTo, disk
  <2> QED BY <1>0, <2>1, RootedRoot
<1>2. CASE ClaimManifest(w)
  <2>1. /\ UNCHANGED <<files, dirs, temps>>
        /\ pc' = [pc EXCEPT ![w] = "restore"] \/ pc' = [pc EXCEPT ![w] = "remove"]
        /\ \A v \in Writers \ {w} : txn'[v] = txn[v]
    BY <1>0, <1>2 DEF ClaimManifest, Claim, Rolls, GoTo
  <2> QED BY <1>0, <2>1, RootedRoot
<1>3. CASE RemoveFile(w)
  <2>1. LastCreated(w) \in Path
    BY <1>3, LastIsCreated DEF RemoveFile, Created, TypeInv, TypeOK, Txn
  <2>2. /\ UNCHANGED <<dirs, temps>> /\ pc' = [pc EXCEPT ![w] = "prune"]
        /\ \E t : txn' = [txn EXCEPT ![w] = t]
        /\ \E x \in Path : files' = [files EXCEPT ![x] = None]
    BY <1>3, <2>1 DEF RemoveFile, Removed, GoTo, TypeInv, TypeOK
  <2> QED BY <2>2, RootedRemoval
<1>4. CASE Prune(w)
  BY <1>g, <1>4, RootedRemoval DEF Prune
<1>5. CASE Settle(w)
  <2>1. UNCHANGED <<files, dirs, temps>> /\ pc' = [pc EXCEPT ![w] = "idle"]
        /\ \A v \in Writers \ {w} : txn'[v] = txn[v]
    BY <1>0, <1>5 DEF Settle, End, Finish, GoTo, disk
  <2> QED BY <1>0, <2>1, RootedRoot
<1> QED BY <1>1, <1>2, <1>3, <1>4, <1>5 DEF RollBack

(* ... and its faults. *)
LEMMA RootedFault ==
    ASSUME TypeInv, RootInv, NEW w \in Writers, Fault(w), pc[w] \in Forward \cup Rollback
    PROVE  RootInv'
<1>0. /\ DOMAIN pc = Writers /\ DOMAIN txn = Writers
  BY DEF TypeInv, TypeOK
<1>u. ASSUME GoTo(w, "undo"), txn' = txn
      PROVE  /\ pc' = [pc EXCEPT ![w] = "undo"]
             /\ \A v \in Writers : pc'[v] = "link" => pc[v] = "link" /\ txn'[v] = txn[v]
  BY <1>0, <1>u DEF GoTo
<1>1. CASE FailsWriting(w)
  BY <1>1, <1>u, RootedRoot DEF FailsWriting, Undo, disk
<1>2. CASE FailsLinking(w)
  <2>1. /\ pc[w] = "link" /\ dirs' = dirs
        /\ temps' = temps \ {<<w, Parent(Writing(w))>>} \/ temps' = temps
        /\ files' = files \/ NewFile(w, Writing(w))
        /\ GoTo(w, "undo") /\ txn' = txn
    BY <1>2 DEF FailsLinking, Unlink, Undo, UndoVisible
  <2> QED BY <1>u, <2>1, RootedLink
<1>3. CASE FailsReplacing(w)
  <2>1. UNCHANGED <<files, dirs>> /\ temps' = temps \ {<<w, Root>>} /\ GoTo(w, "undo") /\ txn' = txn
    BY <1>3 DEF FailsReplacing, Undo, UndoVisible
  <2> QED BY <1>u, <2>1, RootedRoot
<1>4. CASE FailsRestoring(w)
  <2>1. /\ UNCHANGED <<files, dirs, temps>>
        /\ pc' = [pc EXCEPT ![w] = "restore"] \/ pc' = [pc EXCEPT ![w] = "remove"]
        /\ \A v \in Writers \ {w} : txn'[v] = txn[v]
    BY <1>0, <1>4 DEF FailsRestoring, Claim, Reinstall, Rolls, GoTo
  <2> QED BY <1>0, <2>1, RootedRoot
<1>5. CASE FailsRemoving(w)
  <2>1. pc' = [pc EXCEPT ![w] = "remove"] /\ (\E t : txn' = [txn EXCEPT ![w] = t]) /\ temps' = temps
    BY <1>5 DEF FailsRemoving, GoOn, GoTo, TypeInv, TypeOK
  <2>2. CASE pc[w] = "remove"
    <3>1. LastCreated(w) \in Path
      BY <1>5, <2>2, LastIsCreated DEF FailsRemoving, Created, TypeInv, TypeOK, Txn
    <3>2. dirs' = dirs /\ (files' = files \/ \E x \in Path : files' = [files EXCEPT ![x] = None])
      BY <1>5, <2>2, <3>1 DEF FailsRemoving, Removed
    <3> QED BY <2>1, <3>2, RootedRemoval
  <2>3. CASE pc[w] = "prune"
    BY <1>5, <2>1, <2>3, RootedRemoval DEF FailsRemoving
  <2> QED BY <1>5, <2>2, <2>3 DEF FailsRemoving
<1>6. CASE FailsSettling(w)
  <2>1. UNCHANGED <<files, dirs, temps>> /\ pc' = [pc EXCEPT ![w] = "idle"]
        /\ \A v \in Writers \ {w} : txn'[v] = txn[v]
    BY <1>0, <1>6 DEF FailsSettling, End, Finish, GoTo, disk
  <2> QED BY <1>0, <2>1, RootedRoot
<1>7. CASE FailsReading(w) \/ FailsReporting(w)
  BY <1>7 DEF FailsReading, FailsReporting, Forward, Rollback, Verifying
<1> QED BY <1>1, <1>2, <1>3, <1>4, <1>5, <1>6, <1>7 DEF Fault

(* Every step keeps the directory in order. *)
LEMMA RootNext ==
    ASSUME TypeInv, RootInv, NEW w \in Writers, ActionOf(w)
    PROVE  RootInv'
<1>1. CASE pc[w] \notin Forward \cup Rollback
  <2>1. /\ UNCHANGED <<files, dirs, temps>>
        /\ \A v \in Writers : pc'[v] = "link" => pc[v] = "link" /\ txn'[v] = txn[v]
    BY <1>1, NoMarks
  <2> QED BY <2>1, RootedRoot
<1>2. CASE pc[w] \in Forward \cup Rollback
  <2>1. CASE Crash(w)
    <3>1. \A v \in Writers : pc'[v] = "idle" \/ (pc'[v] = pc[v] /\ txn'[v] = txn[v])
      BY <2>1 DEF Crash
    <3>2. UNCHANGED <<files, dirs, temps>>
      BY <2>1 DEF Crash, disk
    <3> QED BY <3>1, <3>2, RootedRoot
  <2>2. ~Verify(w) /\ ~Initialize(w) /\ ~(\E a \in Answers : StartSubmit(w, a))
    <3>1. \A a \in Answers : ~StartSubmit(w, a)
      BY <1>2 DEF StartSubmit, Submit, Forward, Rollback
    <3>2. ~Initialize(w)
      BY <1>2 DEF Initialize, Forward, Rollback
    <3>3. ~Verify(w)
      BY <1>2 DEF Verify, StartRead, Scan, LoadManifest, LoadFile, Rescan, SecondVisit, Reaches,
         Forward, Rollback
    <3> QED BY <3>1, <3>2, <3>3
  <2> QED BY <1>2, <2>1, <2>2, RootedCommit, RootedRollBack, RootedFault DEF ActionOf
<1> QED BY <1>1, <1>2

--------------------------------------------------------------------------------
(***************************************************************************)
(* A verification under the lock.  Nobody changes what it looks at, so     *)
(* what it has noted is what there is, the root's entries included.        *)
(***************************************************************************)
Alone(p) ==
    /\ \A x \in Place : scan[p][x] # "changed"
    /\ \A x \in Found(p) \cap Place : Present(x)
    /\ (pc[p] = "scan" => Root \notin todo[p]) =>
          TempsIn(Root) = {} /\ Entries(Root) = {y \in Found(p) : Parent(y) = Root}
    /\ pc[p] = "load" /\ seen[p] # None => todo[p] \subseteq PathsOf(seen[p])
    /\ pc[p] = "rescan" => todo[p] \subseteq {Root} \cup Expected(seen[p])

LoneInv == \A p \in Writers : goal[p] # "read" /\ pc[p] \in Verifying => Alone(p)

(* The directory as the operators show it. *)
LEMMA DiskSame ==
    ASSUME UNCHANGED <<files, dirs, manifest, temps>>
    PROVE  /\ \A x : Present(x)' <=> Present(x)
           /\ \A d : TempsIn(d)' = TempsIn(d) /\ Entries(d)' = Entries(d)
<1>1. \A x : Present(x)' <=> Present(x)
  BY DEF Present
<1>2. \A d : TempsIn(d)' = TempsIn(d)
  BY DEF TempsIn
<1>3. \A d : Entries(d)' = Entries(d)
  BY DEF Entries, Present
<1> QED BY <1>1, <1>2, <1>3

(* A walk that begins knows nothing yet. *)
LEMMA AloneBegins ==
    ASSUME NEW p, pc'[p] = "scan", todo'[p] = {Root}, scan'[p] = NoScan
    PROVE  Alone(p)'
<1>1. \A x \in Place : scan'[p][x] = "absent"
  BY DEF NoScan
<1>2. Found(p)' = {Root}
  BY <1>1 DEF Found, Noted
<1>3. Root \notin Place
  BY Places
<1> QED BY <1>1, <1>2, <1>3 DEF Alone

(* A directory is listed: its entries are what there is. *)
LEMMA AloneNotes ==
    ASSUME TypeInv, NEW p \in Writers, WalkInv(p), Alone(p), NotesEntry(p)
    PROVE  Alone(p)'
<1>0. /\ pc[p] = "scan" /\ pc'[p] \in {"scan", "load"} /\ seen'[p] = seen[p]
      /\ todo[p] \subseteq Place \cup {Root} /\ Root \notin Place /\ scan[p] \in [Place -> Note]
      /\ UNCHANGED <<files, dirs, manifest, temps>>
  BY Places DEF NotesEntry, disk, TypeInv, TypeOK
<1>1. PICK x \in todo[p] :
          /\ x \in Listable \cup Place
          /\ x # Root => Present(x)
          /\ x \in Listable => TempsIn(x) = {}
          /\ scan'[p] = [y \in Place |-> IF y = x THEN "same" ELSE scan[p][y]]
          /\ todo'[p] = (todo[p] \ {x}) \cup Entries(x)
          /\ pc'[p] = "load" => todo'[p] = {}
  BY DEF NotesEntry
<1>2. Noted(p)' = Noted(p) \cup ({x} \cap Place)
  <2>1. \A y \in Place : scan'[p][y] = IF y = x THEN "same" ELSE scan[p][y]
    BY <1>1
  <2> QED BY <2>1 DEF Noted
<1>3. Found(p)' = Noted(p) \cup ({x} \cap Place) \cup (todo[p] \ {x}) \cup Entries(x)
  <2>1. CASE pc'[p] = "scan"
    BY <1>1, <1>2, <2>1 DEF Found, Noted
  <2>2. CASE pc'[p] = "load"
    <3>1. todo'[p] = {} /\ (todo[p] \ {x}) \cup Entries(x) = {}
      BY <1>1, <2>2
    <3>2. Found(p)' = Noted(p)'
      BY <2>2, <3>1 DEF Found, Noted
    <3> QED BY <1>2, <3>1, <3>2
  <2> QED BY <1>0, <2>1, <2>2
<1>4. Found(p) = Noted(p) \cup todo[p]
  BY <1>0 DEF Found
<1>5. \A y \in Place : scan'[p][y] # "changed"
  BY <1>1 DEF Alone
<1>6. \A y \in Found(p)' \cap Place : Present(y)
  <2>1. \A y \in Entries(x) : Present(y)
    BY DEF Entries
  <2> QED BY <1>3, <1>4, <2>1 DEF Alone
<1>7. ASSUME pc'[p] = "scan" => Root \notin todo'[p]
      PROVE  TempsIn(Root) = {} /\ Entries(Root) = {y \in Found(p)' : Parent(y) = Root}
  <2>1. CASE x = Root
    <3>1. TempsIn(Root) = {} /\ Entries(Root) \subseteq Found(p)'
      BY <1>1, <1>3, <2>1 DEF Listable
    <3>2. Root \notin Found(p)' /\ Found(p)' \subseteq Place \cup {Root}
      BY <1>0, <1>3, <2>1 DEF Entries, Noted
    <3>3. \A y \in Found(p)' : Parent(y) = Root => y \in Entries(Root)
      BY <1>6, <3>2 DEF Entries
    <3>4. \A y \in Entries(Root) : Parent(y) = Root
      BY DEF Entries
    <3> QED BY <3>1, <3>3, <3>4
  <2>2. CASE x # Root
    <3>1. Root \notin todo[p]
      BY <1>0, <1>1, <2>2 DEF WalkInv, InOrder
    <3>2. TempsIn(Root) = {} /\ Entries(Root) = {y \in Found(p) : Parent(y) = Root}
      BY <3>1 DEF Alone
    <3>3. x \in Place /\ Found(p)' = Found(p) \cup Entries(x)
      BY <1>0, <1>1, <1>3, <1>4, <2>2
    <3>4. \A y \in Entries(x) : Parent(y) # Root
      BY <2>2 DEF Entries
    <3> QED BY <3>2, <3>3, <3>4
  <2> QED BY <2>1, <2>2
<1>8. ~(pc'[p] = "load" /\ seen'[p] # None) /\ pc'[p] # "rescan"
  BY <1>0 DEF WalkInv, Resting
<1> QED BY <1>0, <1>5, <1>6, <1>7, <1>8, DiskSame DEF Alone

(* Its later steps change no note. *)
LEMMA AloneReads ==
    ASSUME TypeInv, NEW p \in Writers, Alone(p),
           \/ ReadsManifest(p) \/ ReadsFile(p) \/ Revisits(p)
           \/ /\ Rests(p) /\ pc[p] \in Verifying /\ UNCHANGED <<files, dirs, manifest, temps>>
              /\ scan'[p] = scan[p]
    PROVE  Alone(p)'
<1>0. /\ scan'[p] = scan[p] /\ UNCHANGED <<files, dirs, manifest, temps>>
      /\ pc[p] \in Verifying /\ (pc'[p] = "scan" <=> pc[p] = "scan")
      /\ pc[p] = "scan" => todo'[p] = todo[p]
  BY DEF ReadsManifest, ReadsFile, Revisits, Rests, WalkKept, Verifying, disk
<1>1. Found(p)' = Found(p)
  BY <1>0 DEF Found, Noted
<1>2. /\ pc'[p] = "load" /\ seen'[p] # None => todo'[p] \subseteq PathsOf(seen'[p])
      /\ pc'[p] = "rescan" => todo'[p] \subseteq {Root} \cup Expected(seen'[p])
  <2>1. CASE ReadsManifest(p)
    BY <2>1 DEF ReadsManifest
  <2>2. CASE ReadsFile(p)
    BY <2>2 DEF ReadsFile, Alone
  <2>3. CASE Revisits(p)
    BY <2>3 DEF Revisits, Alone
  <2>4. CASE Rests(p)
    BY <1>0, <2>4 DEF Rests, WalkKept, Alone, Verifying
  <2> QED BY <2>1, <2>2, <2>3, <2>4
<1>3. /\ \A x \in Place : scan'[p][x] # "changed"
      /\ \A x \in Found(p) \cap Place : Present(x)'
      /\ (pc'[p] = "scan" => Root \notin todo'[p]) =>
            TempsIn(Root)' = {} /\ Entries(Root)' = {y \in Found(p) : Parent(y) = Root}
  BY <1>0, DiskSame DEF Alone
<1> QED BY <1>1, <1>2, <1>3 DEF Alone

(* After its first walk it has noted all there is. *)
LEMMA AloneComplete ==
    ASSUME TypeInv, RootInv, NEW p \in Writers, WalkInv(p), Alone(p), pc[p] \in {"load", "rescan"}
    PROVE  /\ {x \in Place : Present(x)} = Noted(p)
           /\ temps = {} /\ \A x \in Noted(p) : scan[p][x] = "same"
<1>0. /\ scan[p] \in [Place -> Note] /\ Found(p) = Noted(p)
      /\ temps \subseteq Writers \X (Directory \cup {Root}) /\ dirs \subseteq Directory
  BY DEF TypeInv, TypeOK, Found
<1>1. \A x \in Noted(p) : scan[p][x] = "same"
  BY <1>0 DEF Noted, Note, Alone
<1>2. TempsIn(Root) = {} /\ Entries(Root) = {y \in Noted(p) : Parent(y) = Root}
  BY <1>0 DEF Alone
<1>3. ASSUME NEW d \in dirs
      PROVE  /\ d \in Noted(p) /\ TempsIn(d) = {}
             /\ Entries(d) = {y \in Noted(p) : Parent(y) = d}
  <2>1. d \in Place /\ d \in Directory /\ Present(d) /\ Parent(d) = Root
    BY <1>0, Places DEF Place, Present
  <2>2. d \in Noted(p)
    BY <1>2, <2>1 DEF Entries
  <2> QED BY <1>0, <1>1, <2>1, <2>2 DEF WalkInv, NotesHold
<1>4. temps = {}
  <2> SUFFICES ASSUME NEW t \in temps PROVE FALSE
    OBVIOUS
  <2>1. t[2] \in dirs \cup {Root} /\ t \in TempsIn(t[2])
    BY DEF RootInv, Rooted, TempsIn
  <2> QED BY <1>2, <1>3, <2>1
<1>5. ASSUME NEW x \in Place, Present(x) PROVE x \in Noted(p)
  <2>1. CASE x \in Path
    <3>1. Parent(x) \in dirs
      BY <1>5, <2>1 DEF Present, RootInv, Rooted
    <3> QED BY <1>3, <1>5, <3>1 DEF Entries
  <2>2. CASE x \notin Path
    <3>1. Parent(x) = Root
      BY <2>2, Places
    <3> QED BY <1>2, <1>5, <3>1 DEF Entries
  <2> QED BY <2>1, <2>2
<1>6. Noted(p) \subseteq Place /\ \A x \in Noted(p) : Present(x)
  BY <1>0 DEF Noted, Alone
<1> QED BY <1>1, <1>4, <1>5, <1>6

(* What its second walk finds is exactly on disk. *)
LEMMA AloneExact ==
    ASSUME TypeInv, RootInv, NEW p \in Writers, WalkInv(p), Alone(p), pc[p] = "rescan"
    PROVE  seen[p] \in History /\ ExactTree(seen[p])
<1>1. seen[p] \in History /\ seen[p] # None
  BY DEF TypeInv, TypeOK, Labels
<1>2. Noted(p) = Expected(seen[p]) /\ (scan[p][ManifestPath] = "same" => manifest = seen[p])
      /\ \A x \in PathsOf(seen[p]) : scan[p][x] = "same" => Holds(x, seen[p])
  BY <1>1 DEF WalkInv, Loaded
<1>3. /\ {x \in Place : Present(x)} = Noted(p) /\ temps = {}
      /\ \A x \in Noted(p) : scan[p][x] = "same"
  BY AloneComplete
<1>4. ManifestPath \in Expected(seen[p]) /\ PathsOf(seen[p]) \subseteq Expected(seen[p])
  BY DEF Expected
<1> QED BY <1>1, <1>2, <1>3, <1>4 DEF ExactTree

(* Nobody disturbs a verification under the lock. *)
LEMMA LoneNext ==
    ASSUME TypeInv, TypeInv', LockInv, LoneInv, NEW w \in Writers, ActionOf(w), StepOf(w),
           \A p \in Writers : WalkInv(p) /\ WalkStep(p)
    PROVE  LoneInv'
<1> SUFFICES ASSUME NEW p \in Writers, goal'[p] # "read", pc'[p] \in Verifying
             PROVE  Alone(p)'
  BY DEF LoneInv
<1>0. scan[p] \in [Place -> Note] /\ scan'[p] \in [Place -> Note]
  BY DEF TypeInv, TypeOK
<1>1. CASE Begins(p)
  <2>1. scan[p] = NoScan /\ pc'[p] = "scan" /\ todo'[p] = {Root} /\ Watched(p)
    BY <1>1 DEF Begins, WalkInv, Resting
  <2>2. scan'[p] = NoScan
    BY <2>1, WatchedNotes
  <2> QED BY <2>1, <2>2, AloneBegins
<1>2. CASE ~Begins(p)
  <2>1. pc[p] \in Verifying
    BY <1>2 DEF WalkStep, Rests, Drops, NotesEntry, ReadsManifest, ReadsFile, Revisits, Verifying
  <2>2. goal[p] # "read" /\ ~Dies /\ (p # w => OthersKeep(w))
    <3>1. CASE p = w
      BY <2>1, <3>1, EndLeaves DEF StepOf, Looks, Asks, Leaves, Opens, Works, Acknowledges, Dies,
         Open, InTransaction, Verifying
    <3>2. CASE p # w
      <4>1. ~Dies
        BY DEF Dies
      <4>2. OthersKeep(w)
        BY <4>1, EndLeaves DEF StepOf, Looks, Asks, Leaves, Opens, Works, Acknowledges
      <4> QED BY <3>2, <4>1, <4>2 DEF OthersKeep
    <3> QED BY <3>1, <3>2
  <2>3. InTransaction(p) /\ Alone(p)
    BY <2>1, <2>2 DEF InTransaction, LoneInv, Verifying
  <2>4. pc[w] \notin Forward \cup Rollback
    <3>1. CASE p = w
      BY <2>1, <3>1 DEF Verifying, Forward, Rollback
    <3>2. CASE p # w
      <4>1. ~InTransaction(w)
        BY <2>3, <3>2, OneTransaction
      <4> QED BY <4>1 DEF LockInv, Locked, InTransaction, Verifying, Forward, Rollback
    <3> QED BY <3>1, <3>2
  <2>5. /\ UNCHANGED <<files, dirs, manifest, temps>>
        /\ \A x \in Place : scan'[p][x] = "changed" => scan[p][x] = "changed"
    BY <2>4, NoMarks
  <2>6. CASE Rests(p)
    <3>1. \A x \in Place : scan'[p][x] = scan[p][x]
      BY <2>3, <2>5, <2>6 DEF Rests, Watched, Alone
    <3>2. scan'[p] = scan[p]
      BY <1>0, <3>1
    <3> QED BY <2>1, <2>3, <2>5, <2>6, <3>2, AloneReads
  <2>7. CASE NotesEntry(p)
    BY <2>3, <2>7, AloneNotes
  <2>8. CASE ReadsManifest(p) \/ ReadsFile(p) \/ Revisits(p)
    BY <2>3, <2>8, AloneReads
  <2> QED BY <1>2, <2>6, <2>7, <2>8 DEF WalkStep, Drops
<1> QED BY <1>1, <1>2

(***************************************************************************)
(* Every step goes one of those ways.                                      *)
(***************************************************************************)
(* While a transaction is open nobody else owns anything, so its receipts are
   taken from nobody. *)
LEMMA OwnsAlone ==
    ASSUME TypeInv, LockInv, NEW w \in Open, NEW x
    PROVE  /\ Owns(w, x) => /\ owned'[w] = owned[w] \cup {x}
                            /\ \A v \in Writers \ {w} : owned'[v] = owned[v]
           /\ NoneOwns(x) => /\ owned'[w] = owned[w] \ {x}
                             /\ \A v \in Writers \ {w} : owned'[v] = owned[v]
<1>0. w \in Writers /\ InTransaction(w) /\ owned \in [Writers -> SUBSET Place]
  BY DEF Open, TypeInv, TypeOK
<1>1. ASSUME NEW v \in Writers \ {w} PROVE owned[v] = {}
  <2>1. ~InTransaction(v)
    BY <1>0, OneTransaction
  <2> QED BY <2>1 DEF LockInv, Locked
<1>2. ASSUME Owns(w, x)
      PROVE  /\ owned'[w] = owned[w] \cup {x}
             /\ \A v \in Writers \ {w} : owned'[v] = owned[v]
  BY <1>0, <1>1, <1>2 DEF Owns
<1>3. ASSUME NoneOwns(x)
      PROVE  /\ owned'[w] = owned[w] \ {x}
             /\ \A v \in Writers \ {w} : owned'[v] = owned[v]
  BY <1>0, <1>1, <1>3 DEF NoneOwns
<1> QED BY <1>2, <1>3

(* A step of an open transaction that goes to another label. *)
LEMMA MoveWorks ==
    ASSUME TypeInv, NEW w \in Open, NEW label, NEW t,
           pc' = [pc EXCEPT ![w] = label], label # "idle",
           txn' = [txn EXCEPT ![w] = t], t.base = txn[w].base, t.next = txn[w].next,
           \/ goal' = goal /\ (label \in Verifying => goal[w] = "confirm")
           \/ goal' = [goal EXCEPT ![w] = "confirm"],
           UNCHANGED <<lock, acked>>,
           \A v \in Writers \ {w} : owned'[v] = owned[v],
           \A x \in Path : files'[x] = files[x] \/ files[x] = None \/ x \in owned[w],
           \A x \in owned'[w] \cap Path : x \in owned[w] \/ files[x] = None,
           manifest' # None => manifest' \in {txn[w].base, txn[w].next},
           label = "restore" => t.back \in {txn[w].base, txn[w].next}
    PROVE  Works(w)
<1>1. w \in Writers
  BY DEF Open
<1>2. OthersKeep(w)
  BY <1>1 DEF TypeInv, TypeOK, OthersKeep
<1>3. pc'[w] = label /\ txn'[w] = t /\ goal'[w] \in {goal[w], "confirm"}
      /\ (label \in Verifying => goal'[w] = "confirm")
  BY <1>1 DEF TypeInv, TypeOK
<1> QED BY <1>2, <1>3 DEF Works

(* The same, when the record does not change. *)
LEMMA RollsWorks ==
    ASSUME TypeInv, LockInv, NEW w \in Open, NEW label \in (Forward \cup Rollback) \ {"restore"},
           pc' = [pc EXCEPT ![w] = label], UNCHANGED <<lock, goal, txn, acked>>,
           manifest' # None => manifest' \in {txn[w].base, txn[w].next},
           \A x \in Path : files'[x] = files[x] \/ files[x] = None \/ x \in owned[w],
           \/ owned' = owned
           \/ \E x \in Place : NoneOwns(x)
           \/ \E x \in Place : Owns(w, x) /\ (x \in Path => files[x] = None)
    PROVE  Works(w)
<1>1. txn' = [txn EXCEPT ![w] = txn[w]]
  BY DEF TypeInv, TypeOK
<1>2. label \notin Verifying /\ label # "idle"
  BY DEF Verifying, Forward, Rollback
<1>3. /\ \A v \in Writers \ {w} : owned'[v] = owned[v]
      /\ \A x \in owned'[w] \cap Path : x \in owned[w] \/ files[x] = None
  BY OwnsAlone
<1> QED BY <1>1, <1>2, <1>3, MoveWorks

(* Starting to roll back is such a step. *)
LEMMA UndoWorks ==
    ASSUME TypeInv, LockInv, NEW w \in Open, Built(w), Undo(w), UNCHANGED <<files, manifest, acked>>
    PROVE  Works(w)
<1>1. manifest' # None => manifest' \in {txn[w].base, txn[w].next}
  BY DEF Built
<1> QED BY <1>1, RollsWorks DEF Undo, GoTo, Rollback

(* So is going on to the next file... *)
LEMMA NextFileWorks ==
    ASSUME TypeInv, LockInv, NEW w \in Open, NextFile(w), UNCHANGED <<manifest, acked>>, Built(w),
           \A x \in Path : files'[x] = files[x] \/ files[x] = None,
           owned' = owned \/ (Writing(w) \in Path /\ Owns(w, Writing(w)) /\ files[Writing(w)] = None)
    PROVE  Works(w)
<1> DEFINE t == [txn[w] EXCEPT !.index = @ + 1]
<1>1. txn[w] \in Txn
  BY DEF TypeInv, TypeOK, Open
<1>2. t.base = txn[w].base /\ t.next = txn[w].next
  BY <1>1 DEF Txn
<1>3. txn' = [txn EXCEPT ![w] = t] /\ pc' = [pc EXCEPT ![w] = "write"]
      /\ UNCHANGED <<lock, goal, acked>>
  BY DEF NextFile, GoTo, TypeInv, TypeOK
<1>4. "write" \notin Verifying
  BY DEF Verifying
<1>5. manifest' # None => manifest' \in {txn[w].base, txn[w].next}
  BY DEF Built
<1>6. /\ \A v \in Writers \ {w} : owned'[v] = owned[v]
      /\ \A x \in owned'[w] \cap Path : x \in owned[w] \/ files[x] = None
  BY OwnsAlone
<1> HIDE DEF t
<1> QED BY <1>2, <1>3, <1>4, <1>5, <1>6, MoveWorks

(* ... and to the verification of what was written. *)
LEMMA ConfirmWorks ==
    ASSUME TypeInv, LockInv, NEW w \in Open, Confirm(w), UNCHANGED files,
           owned' = owned \/ Owns(w, ManifestPath),
           manifest' # None => manifest' \in {txn[w].base, txn[w].next}
    PROVE  Works(w)
<1>1. txn' = [txn EXCEPT ![w] = txn[w]] /\ pc' = [pc EXCEPT ![w] = "scan"]
      /\ goal' = [goal EXCEPT ![w] = "confirm"] /\ UNCHANGED <<lock, acked>>
  BY DEF Confirm, Reverify, GoTo, TypeInv, TypeOK
<1>2. /\ \A v \in Writers \ {w} : owned'[v] = owned[v]
      /\ \A x \in owned'[w] \cap Path : x \in owned[w] \/ files[x] = None
  BY OwnsAlone, Places
<1> QED BY <1>1, <1>2, MoveWorks

(* A transaction at one of its own labels is open. *)
LEMMA OpenLabels ==
    ASSUME TypeInv, LockInv, NEW w \in Writers, pc[w] \in Forward \cup Rollback
    PROVE  w \in Open
  BY DEF LockInv, Locked, Open, InTransaction, Verifying, Forward, Rollback

(* Every step of _commit_with_rollback, up to the manifest. *)
LEMMA CommitWorks ==
    ASSUME TypeInv, LockInv, DataInv, NEW w \in Writers, Commit(w)
    PROVE  Works(w)
<1>0. w \in Open /\ Built(w)
  <2>1. pc[w] \in Forward
    BY DEF Commit, MakeDirectory, WriteFile, LinkFile, Recheck, StageManifest,
           ReplaceManifest, Forward
  <2> QED BY <2>1, OpenLabels DEF DataInv
<1>1. ASSUME NEW label, label \in Forward, GoTo(w, label),
             UNCHANGED <<files, manifest, lock, goal, txn, owned, acked>>
      PROVE  Works(w)
  <2>1. manifest' # None => manifest' \in {txn[w].base, txn[w].next}
    BY <1>0, <1>1 DEF Built
  <2>2. label \in (Forward \cup Rollback) \ {"restore"}
    BY <1>1 DEF Forward
  <2> QED BY <1>0, <1>1, <2>1, <2>2, RollsWorks DEF GoTo
<1>2. CASE MakeDirectory(w)
  <2>1. pc' = [pc EXCEPT ![w] = "write"]
    BY <1>2 DEF MakeDirectory, TypeInv, TypeOK
  <2>2. Parent(Writing(w)) \in Directory /\ Parent(Writing(w)) \in Place /\ Parent(Writing(w)) \notin Path
    BY <1>2, StillWriting, WritingType, Places DEF MakeDirectory
  <2>3. Owns(w, Parent(Writing(w))) /\ UNCHANGED <<files, manifest, lock, goal, txn, acked>>
    BY <1>2 DEF MakeDirectory, outcome
  <2>4. manifest' # None => manifest' \in {txn[w].base, txn[w].next}
    BY <1>0, <2>3 DEF Built
  <2> QED BY <1>0, <2>1, <2>2, <2>3, <2>4, RollsWorks DEF Forward
<1>3. CASE WriteFile(w)
  <2>0. UNCHANGED <<files, manifest, acked>>
    BY <1>3 DEF WriteFile, outcome
  <2>1. CASE GoTo(w, "link") /\ UNCHANGED <<lock, goal, txn, owned>>
    BY <1>1, <2>0, <2>1 DEF Forward
  <2>2. CASE NextFile(w) /\ UNCHANGED <<temps, scan, owned>>
    BY <1>0, <2>0, <2>2, NextFileWorks
  <2>3. CASE Undo(w)
    BY <1>0, <2>0, <2>3, UndoWorks
  <2> QED BY <1>3, <2>1, <2>2, <2>3 DEF WriteFile
<1>4. CASE LinkFile(w)
  <2>0. Writing(w) \in Path /\ UNCHANGED <<manifest, acked>>
    BY <1>4, WritingType DEF LinkFile, TypeInv, Labels, outcome
  <2>1. CASE files[Writing(w)] = None /\ NewFile(w, Writing(w)) /\ Owns(w, Writing(w)) /\ NextFile(w)
    <3>1. \A x \in Path : files'[x] = files[x] \/ files[x] = None
      BY <2>1 DEF NewFile, TypeInv, TypeOK
    <3> QED BY <1>0, <2>0, <2>1, <3>1, NextFileWorks
  <2>2. CASE NextFile(w) /\ UNCHANGED <<files, owned>>
    BY <1>0, <2>0, <2>2, NextFileWorks
  <2>3. CASE Undo(w) /\ UNCHANGED files
    BY <1>0, <2>0, <2>3, UndoWorks
  <2> QED BY <1>4, <2>1, <2>2, <2>3 DEF LinkFile
<1>5. CASE Recheck(w)
  <2>0. UNCHANGED <<files, manifest, acked>>
    BY <1>5 DEF Recheck, disk, outcome
  <2>1. CASE GoTo(w, "install") /\ UNCHANGED <<lock, goal, txn, owned>>
    BY <1>1, <2>0, <2>1 DEF Forward
  <2>2. CASE Undo(w)
    BY <1>0, <2>0, <2>2, UndoWorks
  <2> QED BY <1>5, <2>1, <2>2 DEF Recheck
<1>6. CASE StageManifest(w)
  <2>0. UNCHANGED <<files, manifest>>
    BY <1>6 DEF StageManifest
  <2>1. CASE Confirm(w) /\ UNCHANGED <<temps, owned>>
    BY <1>0, <2>0, <2>1, ConfirmWorks DEF Built
  <2>2. CASE Undo(w) /\ UNCHANGED outcome
    BY <1>0, <2>0, <2>2, UndoWorks DEF outcome
  <2>3. CASE GoTo(w, "replace") /\ UNCHANGED <<lock, goal, txn, owned, outcome>>
    BY <1>1, <2>0, <2>3 DEF Forward, outcome
  <2> QED BY <1>6, <2>1, <2>2, <2>3 DEF StageManifest
<1>7. CASE ReplaceManifest(w)
  <2>0. files' = files
    BY <1>7 DEF ReplaceManifest
  <2>1. CASE manifest' = txn[w].next /\ Owns(w, ManifestPath) /\ Confirm(w)
    BY <1>0, <2>0, <2>1, ConfirmWorks
  <2>2. CASE Confirm(w) /\ UNCHANGED <<manifest, owned>>
    BY <1>0, <2>0, <2>2, ConfirmWorks DEF Built
  <2>3. CASE Undo(w) /\ UNCHANGED <<manifest, outcome>>
    BY <1>0, <2>0, <2>3, UndoWorks DEF outcome
  <2> QED BY <1>7, <2>1, <2>2, <2>3 DEF ReplaceManifest
<1> QED BY <1>2, <1>3, <1>4, <1>5, <1>6, <1>7 DEF Commit

(* A step of the rollback before the files: the manifest is let be, taken or put
   back. *)
LEMMA ManifestWorks ==
    ASSUME TypeInv, LockInv, NEW w \in Open, Built(w), UNCHANGED <<files, acked>>,
           \/ UndoManifest(w)
           \/ /\ pc[w] \in {"undo", "claim", "restore"} /\ Rolls(w, "remove")
              /\ UNCHANGED <<manifest, owned>>
           \/ /\ manifest # None
              /\ Claim(w, None) \/ Claim(w, manifest) \/ Claim(w, txn[w].base)
           \/ pc[w] = "restore" /\ Reinstall(w)
    PROVE  Works(w)
<1>0. /\ w \in Writers /\ txn[w] \in Txn
      /\ manifest # None => manifest \in {txn[w].base, txn[w].next}
  BY DEF Open, TypeInv, TypeOK, Built
<1>1. CASE UndoManifest(w)
  <2>1. \E label \in {"claim", "remove"} : pc' = [pc EXCEPT ![w] = label]
    BY <1>1 DEF UndoManifest, Rolls, GoTo
  <2>2. UNCHANGED <<manifest, owned, lock, goal, txn>>
    BY <1>1 DEF UndoManifest, Rolls, disk
  <2> QED BY <1>0, <2>1, <2>2, RollsWorks DEF Rollback
<1>2. CASE Rolls(w, "remove") /\ UNCHANGED <<manifest, owned>>
  BY <1>0, <1>2, RollsWorks DEF Rolls, GoTo, Rollback
<1>3. ASSUME manifest # None, NEW back \in {None, manifest, txn[w].base}, Claim(w, back)
      PROVE  Works(w)
  <2> DEFINE t == [txn[w] EXCEPT !.back = back]
             label == IF back = None THEN "remove" ELSE "restore"
  <2>1. t.base = txn[w].base /\ t.next = txn[w].next /\ t.back = back
    BY <1>0 DEF Txn
  <2>2. /\ txn' = [txn EXCEPT ![w] = t] /\ pc' = [pc EXCEPT ![w] = label]
        /\ UNCHANGED <<lock, goal>> /\ manifest' = None
    BY <1>0, <1>3 DEF Claim, GoTo, TypeInv, TypeOK
  <2>3. label \notin Verifying /\ label # "idle"
    BY DEF Verifying
  <2>4. label = "restore" => back \in {txn[w].base, txn[w].next}
    BY <1>0, <1>3
  <2>5. /\ \A v \in Writers \ {w} : owned'[v] = owned[v]
        /\ \A x \in owned'[w] \cap Path : x \in owned[w] \/ files[x] = None
    BY <1>3, OwnsAlone DEF Claim
  <2> HIDE DEF t, label
  <2> QED BY <2>1, <2>2, <2>3, <2>4, <2>5, MoveWorks
<1>4. CASE pc[w] = "restore" /\ Reinstall(w)
  <2>1. txn[w].back \in {txn[w].base, txn[w].next}
    BY <1>4 DEF Built
  <2>2. manifest' # None => manifest' \in {txn[w].base, txn[w].next}
    BY <1>0, <1>4, <2>1 DEF Reinstall
  <2> QED BY <1>4, <2>2, RollsWorks DEF Reinstall, Rolls, GoTo, Rollback
<1> QED BY <1>1, <1>2, <1>3, <1>4

(* A step of the rollback over the files gives up nothing but its own. *)
LEMMA RemovalWorks ==
    ASSUME TypeInv, LockInv, NEW w \in Open, Built(w), UNCHANGED <<manifest, lock, goal, acked>>,
           NEW label \in {"remove", "prune"}, NEW gone, pc' = [pc EXCEPT ![w] = label],
           txn' = [txn EXCEPT ![w].gone = gone],
           \A x \in Path : files'[x] = files[x] \/ x \in owned[w],
           owned' = owned \/ \E x : NoneOwns(x)
    PROVE  Works(w)
<1> DEFINE t == [txn[w] EXCEPT !.gone = gone]
<1>0. w \in Writers /\ txn[w] \in Txn
  BY DEF Open, TypeInv, TypeOK
<1>1. t.base = txn[w].base /\ t.next = txn[w].next
  BY <1>0 DEF Txn
<1>2. txn' = [txn EXCEPT ![w] = t]
  BY <1>0 DEF TypeInv, TypeOK
<1>3. label \notin Verifying /\ label # "idle" /\ label # "restore"
  BY DEF Verifying
<1>4. manifest' # None => manifest' \in {txn[w].base, txn[w].next}
  BY DEF Built
<1>5. /\ \A v \in Writers \ {w} : owned'[v] = owned[v]
      /\ \A x \in owned'[w] \cap Path : x \in owned[w] \/ files[x] = None
  BY OwnsAlone
<1> HIDE DEF t
<1> QED BY <1>1, <1>2, <1>3, <1>4, <1>5, MoveWorks

(* What a removal changes. *)
LEMMA RemovedFiles ==
    ASSUME TypeInv, NEW w \in Writers, Created(w) # {}
    PROVE  /\ LastCreated(w) \in owned[w] /\ LastCreated(w) \in Path
           /\ Removed(LastCreated(w)) =>
                 \A x \in Path : files'[x] = files[x] \/ x \in owned[w]
<1>1. LastCreated(w) \in owned[w] /\ LastCreated(w) \in Path
  BY LastIsCreated DEF Created, TypeInv, TypeOK, Txn
<1>2. ASSUME Removed(LastCreated(w))
      PROVE  \A x \in Path : files'[x] = files[x] \/ x \in owned[w]
  BY <1>1, <1>2 DEF Removed, TypeInv, TypeOK
<1> QED BY <1>1, <1>2

(* Every step of the rollback, the last of which ends the call. *)
LEMMA RollBackKind ==
    ASSUME TypeInv, LockInv, DataInv, NEW w \in Writers, RollBack(w)
    PROVE  StepOf(w)
<1>0. w \in Open /\ Built(w)
  <2>1. pc[w] \in Rollback
    BY DEF RollBack, UndoManifest, ClaimManifest, RestoreManifest, RemoveFile, Prune, Settle, Rollback
  <2> QED BY <2>1, OpenLabels DEF DataInv
<1>1. CASE UndoManifest(w) \/ ClaimManifest(w) \/ RestoreManifest(w)
  <2>1. UNCHANGED <<files, acked>>
    BY <1>1 DEF UndoManifest, ClaimManifest, RestoreManifest, disk, outcome
  <2>2. Works(w)
    BY <1>0, <1>1, <2>1, ManifestWorks DEF ClaimManifest, RestoreManifest
  <2> QED BY <2>2 DEF StepOf
<1>2. CASE RemoveFile(w)
  <2>1. /\ UNCHANGED <<manifest, lock, goal, acked>> /\ pc' = [pc EXCEPT ![w] = "prune"]
        /\ txn' = [txn EXCEPT ![w].gone = LastCreated(w)]
        /\ NoneOwns(LastCreated(w)) /\ Removed(LastCreated(w)) /\ Created(w) # {}
    BY <1>2 DEF RemoveFile, Removed, GoTo, outcome
  <2>2. Works(w)
    BY <1>0, <2>1, RemovedFiles, RemovalWorks
  <2> QED BY <2>2 DEF StepOf
<1>3. CASE Prune(w)
  <2>1. /\ UNCHANGED <<files, manifest, lock, goal, acked>> /\ pc' = [pc EXCEPT ![w] = "remove"]
        /\ txn' = [txn EXCEPT ![w].gone = None]
        /\ owned' = owned \/ \E x : NoneOwns(x)
    BY <1>3 DEF Prune, GoOn, GoTo, Pruned, outcome
  <2>2. Works(w)
    BY <1>0, <2>1, RemovalWorks
  <2> QED BY <2>2 DEF StepOf
<1>4. CASE Settle(w)
  BY <1>4 DEF Settle, disk, outcome, StepOf, Leaves, Idle
<1> QED BY <1>1, <1>2, <1>3, <1>4 DEF RollBack

(* A refused verification ends a call, or starts to undo a commit. *)
LEMMA RefusalKind ==
    ASSUME TypeInv, LockInv, DataInv, NEW w \in Writers, pc[w] \in Verifying,
           VerificationFails(w), UNCHANGED <<files, dirs, manifest, temps, acked>>
    PROVE  StepOf(w)
<1>1. CASE goal[w] = "confirm"
  <2>1. w \in Open /\ Built(w)
    BY <1>1 DEF DataInv, Open, InTransaction, Verifying
  <2>2. Works(w)
    BY <1>1, <2>1, UndoWorks DEF VerificationFails
  <2> QED BY <2>2 DEF StepOf
<1>2. CASE goal[w] # "confirm"
  BY <1>2 DEF VerificationFails, StepOf, Leaves, Idle
<1> QED BY <1>1, <1>2

(* An I/O error, before or after the effect of a step, ends the call or starts to
   undo the commit. *)
LEMMA FaultKind ==
    ASSUME TypeInv, LockInv, DataInv, NEW w \in Writers, Fault(w)
    PROVE  StepOf(w)
<1>o. ASSUME pc[w] \in Forward \cup Rollback PROVE w \in Open /\ Built(w)
  BY <1>o, OpenLabels DEF DataInv
<1>u. ASSUME pc[w] \in Forward, GoTo(w, "undo"), UNCHANGED <<lock, goal, txn, acked>>,
             manifest' \in {manifest, txn[w].next},
             \A x \in Path : files'[x] = files[x] \/ files[x] = None,
             \/ owned' = owned
             \/ \E x \in Place : NoneOwns(x)
             \/ \E x \in Place : Owns(w, x) /\ (x \in Path => files[x] = None)
      PROVE  StepOf(w)
  <2>1. manifest' # None => manifest' \in {txn[w].base, txn[w].next}
    BY <1>o, <1>u DEF Built
  <2>2. Works(w)
    BY <1>o, <1>u, <2>1, RollsWorks DEF GoTo, Rollback
  <2> QED BY <2>2 DEF StepOf
<1>1. CASE FailsReading(w)
  BY <1>1, RefusalKind DEF FailsReading, disk, outcome
<1>2. CASE FailsReporting(w) \/ FailsSettling(w)
  BY <1>2 DEF FailsReporting, FailsSettling, disk, outcome, StepOf, Leaves, Idle
<1>3. CASE FailsWriting(w)
  BY <1>3, <1>u DEF FailsWriting, Undo, disk, outcome, Forward
<1>4. CASE FailsLinking(w)
  <2>0. /\ pc[w] \in Forward /\ UNCHANGED <<manifest, acked>>
        /\ Writing(w) \in Path /\ Writing(w) \in Place
    BY <1>4, WritingType DEF FailsLinking, TypeInv, Labels, Forward, outcome
  <2>1. CASE Undo(w) /\ UNCHANGED files
    BY <1>u, <2>0, <2>1 DEF Undo
  <2>2. CASE /\ files[Writing(w)] = None /\ NewFile(w, Writing(w))
             /\ \E fresh \in BOOLEAN : UndoVisible(w, Writing(w), fresh)
    <3>1. \A x \in Path : files'[x] = files[x] \/ files[x] = None
      BY <2>2 DEF NewFile, TypeInv, TypeOK
    <3> QED BY <1>u, <2>0, <2>2, <3>1 DEF UndoVisible
  <2> QED BY <1>4, <2>1, <2>2 DEF FailsLinking
<1>5. CASE FailsReplacing(w)
  <2>0. pc[w] \in Forward /\ UNCHANGED <<files, acked>> /\ ManifestPath \in Place /\ ManifestPath \notin Path
    BY <1>5, Places DEF FailsReplacing, Forward, outcome, Place
  <2>1. CASE Undo(w) /\ UNCHANGED manifest
    BY <1>u, <2>0, <2>1 DEF Undo
  <2>2. CASE manifest' = txn[w].next /\ \E fresh \in BOOLEAN : UndoVisible(w, ManifestPath, fresh)
    BY <1>u, <2>0, <2>2 DEF UndoVisible
  <2> QED BY <1>5, <2>1, <2>2 DEF FailsReplacing
<1>6. CASE FailsRestoring(w)
  <2>1. UNCHANGED <<files, acked>> /\ pc[w] \in {"undo", "claim", "restore"}
    BY <1>6 DEF FailsRestoring, outcome
  <2>2. w \in Open /\ Built(w)
    BY <1>o, <2>1 DEF Rollback
  <2>3. Works(w)
    BY <1>6, <2>1, <2>2, ManifestWorks DEF FailsRestoring
  <2> QED BY <2>3 DEF StepOf
<1>7. CASE FailsRemoving(w)
  <2>0. /\ UNCHANGED <<manifest, lock, goal, acked>> /\ pc' = [pc EXCEPT ![w] = "remove"]
        /\ txn' = [txn EXCEPT ![w].gone = None]
        /\ pc[w] \in {"remove", "prune"}
    BY <1>7 DEF FailsRemoving, GoOn, GoTo, outcome
  <2>1. w \in Open /\ Built(w)
    BY <1>o, <2>0 DEF Rollback
  <2>2. \A x \in Path : files'[x] = files[x] \/ x \in owned[w]
    BY <1>7, RemovedFiles DEF FailsRemoving
  <2>3. owned' = owned \/ \E x : NoneOwns(x)
    BY <1>7 DEF FailsRemoving, Removed, Pruned
  <2>4. Works(w)
    BY <2>0, <2>1, <2>2, <2>3, RemovalWorks
  <2> QED BY <2>4 DEF StepOf
<1> QED BY <1>1, <1>2, <1>3, <1>4, <1>5, <1>6, <1>7 DEF Fault

(* Starting, and being killed. *)
LEMMA StartKind ==
    ASSUME SharedLock, TypeInv, LockInv, NEW w \in Writers,
           StartRead(w) \/ Initialize(w) \/ (\E a \in Answers : StartSubmit(w, a)) \/ Crash(w)
    PROVE  StepOf(w)
<1>0. Locked(w) /\ Idle
  <2>1. UNCHANGED <<disk, acked>>
    BY DEF StartRead, Initialize, StartSubmit, Submit, Crash, outcome
  <2> QED BY <2>1 DEF LockInv, Idle, disk
<1>1. CASE StartRead(w)
  <2>1. goal[w] = "read"
    BY <1>0, <1>1 DEF StartRead, Locked, InTransaction
  <2> QED BY <1>0, <1>1, <2>1 DEF StartRead, GoTo, StepOf, Looks, OthersKeep, Verifying, TypeInv, TypeOK
<1>2. CASE Initialize(w)
  <2>1. txn[w] = NoTxn /\ owned[w] = {}
    BY <1>0, <1>2 DEF Initialize, Locked, InTransaction
  <2> QED BY <1>0, <1>2, <2>1 DEF Initialize, GoTo, StepOf, Opens, OthersKeep, NoTxn, TypeInv, TypeOK
<1>3. ASSUME NEW a \in Answers, StartSubmit(w, a) PROVE StepOf(w)
  <2>1. txn[w] = NoTxn /\ owned[w] = {}
    BY <1>0, <1>3 DEF StartSubmit, Submit, Locked, InTransaction
  <2>2. txn'[w].base = None /\ txn'[w].index = 1 /\ owned'[w] = {}
    BY <1>3, <2>1 DEF StartSubmit, Submit, NoTxn, TypeInv, TypeOK
  <2> QED BY <1>0, <1>3, <2>2 DEF StartSubmit, Submit, GoTo, StepOf, Asks, OthersKeep,
                            Verifying, TypeInv, TypeOK
<1>4. CASE Crash(w)
  <2>1. Killed(w) = Writers
    BY DEF Killed
  <2>2. lock' = None /\ crashes' = crashes + 1
    BY <1>4, <2>1 DEF Crash, TypeInv, TypeOK
  <2>3. \A v \in Writers : /\ pc'[v] = "idle" /\ goal'[v] = "read" /\ txn'[v] = NoTxn
                           /\ owned'[v] = {}
    BY <1>4, <2>1 DEF Crash
  <2> QED BY <1>0, <2>2, <2>3 DEF StepOf, Dies
<1> QED BY <1>1, <1>2, <1>3, <1>4


--------------------------------------------------------------------------------
(***************************************************************************)
(* The invariant of a run whose writers share the lock.                    *)
(***************************************************************************)
RunInv == ReadInv /\ LockInv /\ DataInv /\ RootInv /\ LoneInv

(* A verification that goes on looks at the directory. *)
LEMMA GoesOnKind ==
    ASSUME TypeInv, LockInv, DataInv, NEW w \in Writers, pc[w] \in Verifying,
           NEW label \in Verifying, pc' = [pc EXCEPT ![w] = label],
           UNCHANGED <<files, dirs, manifest, temps, lock, goal, txn, owned, acked>>
    PROVE  StepOf(w)
<1>1. CASE goal[w] = "confirm"
  <2>1. w \in Open /\ Built(w)
    BY <1>1 DEF DataInv, Open, InTransaction, Verifying
  <2>2. txn' = [txn EXCEPT ![w] = txn[w]] /\ label # "idle" /\ label # "restore"
    BY DEF Verifying, TypeInv, TypeOK
  <2>3. manifest' # None => manifest' \in {txn[w].base, txn[w].next}
    BY <2>1 DEF Built
  <2>4. Works(w)
    BY <1>1, <2>1, <2>2, <2>3, MoveWorks
  <2> QED BY <2>4 DEF StepOf
<1>2. CASE goal[w] # "confirm"
  <2>1. goal[w] \in {"read", "submit", "confirm"} /\ pc[w] # "idle"
    BY DEF TypeInv, TypeOK, Verifying
  <2>2. OthersKeep(w) /\ pc'[w] = label
    BY DEF OthersKeep, TypeInv, TypeOK
  <2> QED BY <1>2, <2>1, <2>2 DEF StepOf, Looks, Idle
<1> QED BY <1>1, <1>2

(* What the second walk confirmed is on disk: a reader leaves, a submission opens its
   transaction, a commit is acknowledged. *)
LEMMA VerifiedKind ==
    ASSUME RunInv, NEW w \in Writers, pc[w] = "rescan", Verified(w),
           UNCHANGED <<files, dirs, manifest, temps>>
    PROVE  StepOf(w)
<1>0. /\ TypeInv /\ LockInv /\ DataInv /\ Locked(w) /\ WalkInv(w) /\ RootInv
      /\ goal[w] \in {"read", "submit", "confirm"} /\ pc[w] \in Verifying
  BY DEF RunInv, ReadInv, LockInv, TypeInv, TypeOK, Verifying
<1>1. CASE goal[w] = "read"
  BY <1>1 DEF Verified, StepOf, Leaves, Idle
<1>2. CASE goal[w] = "submit" /\ ~AnswersPending(w, seen[w])
  BY <1>2 DEF Verified, StepOf, Leaves, Idle, outcome
<1>3. ASSUME goal[w] # "read"
      PROVE  seen[w] \in History /\ ExactTree(seen[w])
  <2>1. Alone(w)
    BY <1>0, <1>3 DEF RunInv, LoneInv
  <2> QED BY <1>0, <2>1, AloneExact
<1>4. CASE goal[w] = "submit" /\ AnswersPending(w, seen[w])
  <2>1. /\ pc' = [pc EXCEPT ![w] = "write"]
        /\ txn' = [txn EXCEPT ![w].base = seen[w],
                              ![w].next = Append(seen[w], txn[w].answer)]
        /\ UNCHANGED <<lock, goal, owned, acked>>
    BY <1>4 DEF Verified, GoTo, outcome
  <2>2. /\ txn[w] \in Txn /\ txn[w].answer \in Answers
        /\ txn[w].index = 1 /\ owned[w] = {}
    BY <1>0, <1>4 DEF TypeInv, TypeOK, Labels, Locked, Txn
  <2>3. /\ txn'[w].base = seen[w] /\ txn'[w].next = Append(seen[w], txn[w].answer)
        /\ txn'[w].index = 1
    BY <1>0, <2>1, <2>2 DEF TypeInv, TypeOK, Txn
  <2>4. OthersKeep(w) /\ pc'[w] = "write"
    BY <1>0, <2>1 DEF OthersKeep, TypeInv, TypeOK
  <2>5. Opens(w)
    BY <1>0, <1>3, <1>4, <2>1, <2>2, <2>3, <2>4 DEF Opens, Idle
  <2> QED BY <2>5 DEF StepOf
<1>5. CASE goal[w] = "confirm"
  <2>1. w \in Open
    BY <1>0, <1>5 DEF Open, InTransaction, Verifying
  <2>2. CASE seen[w] = txn[w].next
    <3>1. End(w) /\ acked' = acked \cup {txn[w].next}
      BY <1>5, <2>2 DEF Verified
    <3> QED BY <1>3, <1>5, <2>1, <2>2, <3>1 DEF StepOf, Acknowledges
  <2>3. CASE seen[w] # txn[w].next
    <3>1. VerificationFails(w) /\ acked' = acked
      BY <1>5, <2>3 DEF Verified, outcome
    <3> QED BY <1>0, <3>1, RefusalKind
  <2> QED BY <2>2, <2>3
<1> QED BY <1>0, <1>1, <1>2, <1>4, <1>5

(* Every step of a verification. *)
LEMMA VerifyKind ==
    ASSUME RunInv, NEW w \in Writers, Scan(w) \/ LoadManifest(w) \/ LoadFile(w) \/ Rescan(w)
    PROVE  StepOf(w)
<1>0. /\ TypeInv /\ LockInv /\ DataInv
      /\ pc[w] \in Verifying /\ UNCHANGED <<files, dirs, manifest, temps>>
  BY DEF RunInv, ReadInv, Scan, LoadManifest, LoadFile, Rescan, SecondVisit, Reaches,
         Verifying, disk
<1>1. CASE VerificationFails(w) /\ acked' = acked
  BY <1>0, <1>1, RefusalKind
<1>2. ASSUME NEW label \in Verifying, pc' = [pc EXCEPT ![w] = label],
             UNCHANGED <<lock, goal, txn, owned, acked>>
      PROVE  StepOf(w)
  BY <1>0, <1>2, GoesOnKind
<1>3. pc' = pc => pc' = [pc EXCEPT ![w] = pc[w]]
  BY <1>0 DEF TypeInv, TypeOK
<1>4. CASE Scan(w)
  <2>1. PICK x \in Listable \cup Place : Scan(w)!(x)
    BY <1>4 DEF Scan
  <2>2. acked' = acked
    BY <2>1 DEF outcome
  <2>3. CASE ~VerificationFails(w)
    <3>1. /\ \E label \in Verifying : pc' = [pc EXCEPT ![w] = label]
          /\ UNCHANGED <<lock, goal, txn, owned>>
      BY <2>1, <2>3 DEF GoTo, Verifying
    <3> QED BY <1>2, <2>2, <3>1
  <2> QED BY <1>1, <2>2, <2>3
<1>5. CASE LoadManifest(w)
  <2>1. acked' = acked
    BY <1>5 DEF LoadManifest, outcome
  <2>2. CASE ~VerificationFails(w)
    BY <1>0, <1>2, <1>3, <1>5, <2>1, <2>2 DEF LoadManifest
  <2> QED BY <1>1, <2>1, <2>2
<1>6. CASE LoadFile(w)
  <2>1. PICK x \in Path : LoadFile(w)!(x)
    BY <1>6 DEF LoadFile
  <2>2. acked' = acked
    BY <2>1 DEF outcome
  <2>3. CASE ~VerificationFails(w)
    <3>1. /\ \E label \in Verifying : pc' = [pc EXCEPT ![w] = label]
          /\ UNCHANGED <<lock, goal, txn, owned>>
      BY <1>0, <1>3, <2>1, <2>3 DEF GoTo, Verifying
    <3> QED BY <1>2, <2>2, <3>1
  <2> QED BY <1>1, <2>2, <2>3
<1>7. CASE Rescan(w)
  <2>1. PICK x \in Listable \cup Place : SecondVisit(w, x, Unchanged(w, x))
    BY <1>7 DEF Rescan
  <2>2. CASE VerificationFails(w) /\ UNCHANGED outcome
    BY <1>1, <2>2 DEF outcome
  <2>3. CASE Verified(w)
    BY <1>0, <2>1, <2>3, VerifiedKind DEF SecondVisit, Reaches
  <2>4. CASE UNCHANGED <<lock, pc, goal, scan, seen, stood, txn, owned, outcome>>
    BY <1>0, <1>2, <1>3, <2>4 DEF outcome
  <2> QED BY <2>1, <2>2, <2>3, <2>4 DEF SecondVisit
<1> QED BY <1>4, <1>5, <1>6, <1>7

(* So every action of a writer is a kind of step... *)
LEMMA StepKind ==
    ASSUME SharedLock, RunInv, NEW w \in Writers, ActionOf(w)
    PROVE  StepOf(w)
<1>0. TypeInv /\ LockInv /\ DataInv
  BY DEF RunInv, ReadInv
<1>1. CASE Commit(w)
  BY <1>0, <1>1, CommitWorks DEF StepOf
<1>2. CASE RollBack(w)
  BY <1>0, <1>2, RollBackKind
<1>3. CASE Fault(w)
  BY <1>0, <1>3, FaultKind
<1>4. CASE StartRead(w) \/ Initialize(w) \/ (\E a \in Answers : StartSubmit(w, a)) \/ Crash(w)
  BY <1>0, <1>4, StartKind
<1>5. CASE Scan(w) \/ LoadManifest(w) \/ LoadFile(w) \/ Rescan(w)
  BY <1>5, VerifyKind
<1> QED BY <1>1, <1>2, <1>3, <1>4, <1>5 DEF ActionOf, Verify

(* ... and so is every step. *)
LEMMA StepKinds ==
    ASSUME SharedLock, RunInv, Next
    PROVE  \E w \in Writers : ActionOf(w) /\ StepOf(w)
<1>1. PICK w \in Writers : ActionOf(w)
  BY DEF Next, ActionOf
<1> QED BY <1>1, StepKind

(* Verifiers see every action of a writer as one of their own kinds of step. *)
LEMMA WalkSteps ==
    ASSUME TypeInv, NEW w \in Writers, ActionOf(w)
    PROVE  \A p \in Writers : WalkStep(p)
  BY VerifySteps, CommitSteps, RollBackSteps, FaultSteps, OtherSteps DEF ActionOf

(* A step that changes nothing keeps it all. *)
LEMMA RunStutters ==
    ASSUME RunInv, UNCHANGED vars
    PROVE  LockInv' /\ DataInv' /\ RootInv' /\ LoneInv'
<1>0. UNCHANGED <<files, dirs, manifest, temps, lock, pc, goal, todo, scan, seen, txn, owned, acked>>
  BY DEF vars
<1>1. LockInv' /\ DataInv'
  BY <1>0 DEF RunInv, LockInv, Locked, DataInv, NoForkedHistory, AcceptedBytesSurvive,
     Open, InTransaction, Built, FromBase, Holds
<1>2. RootInv'
  BY <1>0 DEF RunInv, RootInv, Rooted, Linking, Writing
<1>3. LoneInv'
  <2> SUFFICES ASSUME NEW p \in Writers, goal[p] # "read", pc[p] \in Verifying PROVE Alone(p)'
    BY <1>0 DEF LoneInv
  <2>1. Found(p)' = Found(p)
    BY <1>0 DEF Found, Noted
  <2> QED BY <1>0, <2>1, DiskSame DEF RunInv, LoneInv, Alone
<1> QED BY <1>1, <1>2, <1>3

(* The invariant holds. *)
LEMMA RunInvariant ==
    ASSUME SharedLock
    PROVE  Spec => []RunInv
<1>1. Init => LockInv /\ DataInv /\ RootInv /\ LoneInv
  BY NoneAssumption DEF Init, LockInv, Locked, DataInv, NoForkedHistory, AcceptedBytesSurvive,
     Open, InTransaction, Verifying, NoTxn, RootInv, Rooted, Linking, LoneInv
<1>2. RunInv /\ ReadInv' /\ [Next]_vars => (LockInv /\ DataInv /\ RootInv /\ LoneInv)'
  <2> SUFFICES ASSUME RunInv, ReadInv', [Next]_vars
               PROVE  LockInv' /\ DataInv' /\ RootInv' /\ LoneInv'
    OBVIOUS
  <2>0. TypeInv /\ TypeInv' /\ LockInv /\ DataInv /\ RootInv /\ LoneInv /\ \A p \in Writers : WalkInv(p)
    BY DEF RunInv, ReadInv
  <2>1. CASE Next
    <3>1. PICK w \in Writers : ActionOf(w) /\ StepOf(w)
      BY <2>1, StepKinds
    <3>2. LockInv' /\ DataInv' /\ RootInv'
      BY <2>0, <3>1, LockNext, DataNext, RootNext
    <3>3. \A p \in Writers : WalkInv(p) /\ WalkStep(p)
      BY <2>0, <3>1, WalkSteps
    <3>4. LoneInv'
      BY <2>0, <3>1, <3>3, LoneNext
    <3> QED BY <3>2, <3>4
  <2>2. CASE UNCHANGED vars
    BY <2>2, RunStutters
  <2> QED BY <2>1, <2>2
<1>3. LockInv /\ DataInv /\ RootInv /\ LoneInv /\ ReadInv <=> RunInv
  BY DEF RunInv
<1> QED BY <1>1, <1>2, <1>3, ReadInvariant, PTL DEF Spec

(* Two submissions never both succeed with different answers to one call: for any
   number of writers that share the submission lock, whatever fails or is killed,
   the acknowledged histories are prefixes of one another. *)
THEOREM HistoriesNeverFork ==
    ASSUME SharedLock
    PROVE  Spec => []NoForkedHistory
<1>1. RunInv => NoForkedHistory
  BY DEF RunInv, DataInv
<1> QED BY <1>1, RunInvariant, PTL

(* No later commit, rollback, error or kill changes or removes an artifact of an
   acknowledged history (_commit_with_rollback removes what its own transaction
   created, and nothing else). *)
THEOREM AcceptedBytesAreKept ==
    ASSUME SharedLock
    PROVE  Spec => []AcceptedBytesSurvive
<1>1. RunInv => AcceptedBytesSurvive
  BY DEF RunInv, DataInv
<1> QED BY <1>1, RunInvariant, PTL
--------------------------------------------------------------------------------
(***************************************************************************)
(* The commit of many steps implements the log of AtomicRun.               *)
(***************************************************************************)
Log == IF Spoiled THEN None ELSE LoggedHistory

(* A step of the log: it keeps both, grows by one answer, or is lost. *)
LogStep ==
    \/ Log' = Log /\ Spoiled' = Spoiled
    \/ ~Spoiled /\ ~Spoiled' /\ Log = None /\ Log' = <<>>
    \/ /\ ~Spoiled /\ ~Spoiled' /\ Log # None /\ Len(Log) < MaxCalls
       /\ \E a \in Answers : Log' = Append(Log, a)
    \/ ~Spoiled /\ Spoiled' /\ Log' = None

(* The chosen member of a singleton. *)
LEMMA ChooseOnly == \A w : (CHOOSE u \in {w} : TRUE) = w
  OBVIOUS

(* What the log is, by who is in a transaction. *)
LEMMA LogNow ==
    /\ \A w : Open = {w} => ~Spoiled /\ Log = txn[w].base
    /\ Open = {} => /\ Spoiled <=> ~Clean
                    /\ Log = IF ~Clean \/ manifest = None THEN None ELSE manifest
<1>1. ASSUME NEW w, Open = {w} PROVE ~Spoiled /\ Log = txn[w].base
  <2>1. ~Spoiled /\ Open # {}
    BY <1>1 DEF Spoiled
  <2>2. (CHOOSE u \in Open : TRUE) = w
    BY <1>1, ChooseOnly
  <2> QED BY <2>1, <2>2 DEF Log, LoggedHistory
<1>2. ASSUME Open = {}
      PROVE  /\ Spoiled <=> ~Clean
             /\ Log = IF ~Clean \/ manifest = None THEN None ELSE manifest
  BY <1>2 DEF Log, Spoiled, LoggedHistory
<1> QED BY <1>1, <1>2

(* The same after a step. *)
LEMMA LogThen ==
    /\ \A w : Open' = {w} => ~Spoiled' /\ Log' = txn'[w].base
    /\ Open' = {} => /\ Spoiled' <=> ~Clean'
                     /\ Log' = IF ~Clean' \/ manifest' = None THEN None ELSE manifest'
<1>1. ASSUME NEW w, Open' = {w} PROVE ~Spoiled' /\ Log' = txn'[w].base
  <2>1. ~Spoiled' /\ Open' # {}
    BY <1>1 DEF Spoiled
  <2>2. (CHOOSE u \in Open' : TRUE) = w
    BY <1>1, ChooseOnly
  <2> QED BY <2>1, <2>2 DEF Log, LoggedHistory
<1>2. ASSUME Open' = {}
      PROVE  /\ Spoiled' <=> ~Clean'
             /\ Log' = IF ~Clean' \/ manifest' = None THEN None ELSE manifest'
  BY <1>2 DEF Log, Spoiled, LoggedHistory
<1> QED BY <1>1, <1>2

(* The outcome of a transaction's base and of what it installs. *)
LEMMA NextLog ==
    ASSUME TypeInv, NEW w \in Writers, Built(w)
    PROVE  \/ txn[w].base = None /\ txn[w].next = <<>>
           \/ /\ txn[w].base \in History /\ txn[w].base # None /\ Len(txn[w].base) < MaxCalls
              /\ \E a \in Answers : txn[w].next = Append(txn[w].base, a)
<1>1. txn[w].base \in History \cup {None} /\ txn[w].next \in History
  BY DEF TypeInv, TypeOK, Txn
<1>2. CASE txn[w].base # None
  <2>1. PICK a \in Answers : txn[w].next = Append(txn[w].base, a)
    BY <1>2 DEF Built, FromBase
  <2>2. Len(txn[w].next) = Len(txn[w].base) + 1 /\ Len(txn[w].next) <= MaxCalls
    <3>1. txn[w].base \in Seq(Answers) /\ Len(txn[w].base) \in Nat
      BY <1>1, <1>2, HistoryIsSeq
    <3>2. Len(Append(txn[w].base, a)) = Len(txn[w].base) + 1
      BY <2>1, <3>1, AppendProperties
    <3>3. Len(txn[w].next) <= MaxCalls
      BY <1>1, HistoryIsSeq
    <3> QED BY <2>1, <3>2, <3>3
  <2>3. Len(txn[w].base) < MaxCalls
    BY <1>1, <1>2, <2>2, HistoryIsSeq
  <2> QED BY <1>1, <1>2, <2>1, <2>3
<1> QED BY <1>1, <1>2 DEF Built, FromBase

(* While the directory does not change, what verifies does not. *)
LEMMA CleanSame ==
    ASSUME UNCHANGED <<files, dirs, manifest, temps>>
    PROVE  Clean' <=> Clean
<1>1. EmptyDirectory' <=> EmptyDirectory
  BY DiskSame DEF EmptyDirectory
<1>2. \A h : ExactTree(h)' <=> ExactTree(h)
  BY DiskSame DEF ExactTree, Holds
<1> QED BY <1>1, <1>2 DEF Clean

(* A transaction that ends leaves its base, its successor, or nothing a
   verifier accepts. *)
LEMMA ClosingLog ==
    ASSUME TypeInv, NEW w \in Writers, Built(w), Open = {w}, Open' = {},
           UNCHANGED <<files, dirs, manifest, temps>>
    PROVE  LogStep
<1>1. ~Spoiled /\ Log = txn[w].base
  BY LogNow
<1>2. Clean' <=> Clean
  BY CleanSame
<1>3. CASE ~Clean
  BY <1>1, <1>2, <1>3, LogThen DEF LogStep
<1>4. CASE Clean /\ manifest = None
  <2>1. EmptyDirectory
    BY <1>4 DEF Clean
  <2>2. ASSUME txn[w].base # None PROVE FALSE
    <3>1. txn[w].base \in History
      BY <2>2 DEF TypeInv, TypeOK, Txn
    <3>2. Holds(<<"request", 1>>, txn[w].base)
      BY <2>2, <3>1, FirstRequest DEF Built, FromBase
    <3>3. Present(<<"request", 1>>) /\ <<"request", 1>> \in Place
      BY <3>1, <3>2, FirstRequest, HeldIsThere
    <3> QED BY <2>1, <3>3 DEF EmptyDirectory
  <2>3. Log' = None /\ Spoiled' = FALSE /\ Spoiled = FALSE
    BY <1>1, <1>2, <1>4, LogThen DEF Spoiled
  <2> QED BY <1>1, <2>2, <2>3 DEF LogStep
<1>5. CASE Clean /\ manifest # None
  <2>1. Log' = manifest /\ ~Spoiled'
    BY <1>2, <1>5, LogThen
  <2>2. manifest \in {txn[w].base, txn[w].next}
    BY <1>5 DEF Built
  <2>3. CASE manifest = txn[w].base
    BY <1>1, <2>1, <2>3 DEF LogStep, Spoiled
  <2>4. CASE manifest = txn[w].next
    BY <1>1, <2>1, <2>4, NextLog DEF LogStep
  <2> QED BY <2>2, <2>3, <2>4
<1> QED BY <1>3, <1>4, <1>5

(* Every kind of step is a step of the log. *)
LEMMA LogNext ==
    ASSUME RunInv, LockInv', NEW w \in Writers, StepOf(w)
    PROVE  LogStep
<1>0. TypeInv /\ LockInv /\ DataInv /\ (\A v \in Open : v \in Writers /\ Built(v))
  BY DEF RunInv, ReadInv, DataInv, Open
<1>1. CASE Passes(w)
  <2>1. Idle /\ (\A v \in Open' : v \in Open /\ txn'[v] = txn[v])
    BY <1>0, <1>1, NothingOpened DEF Passes, Looks, Asks, Leaves, Dies
  <2>2. CASE Open = {}
    <3>1. Open' = {} /\ (Clean' <=> Clean) /\ manifest' = manifest
      BY <2>1, <2>2, CleanSame DEF Idle
    <3>2. (Spoiled' <=> Spoiled) /\ Log' = Log
      BY <2>2, <3>1, LogNow, LogThen
    <3>3. Spoiled' = Spoiled
      BY <3>2 DEF Spoiled
    <3> QED BY <3>2, <3>3 DEF LogStep
  <2>3. ASSUME NEW v \in Open PROVE LogStep
    <3>1. Open = {v} /\ v \in Writers
      BY <1>0, <2>3, OnlyOpen DEF Open
    <3>2. CASE v \in Open'
      <4>1. Open' = {v} /\ txn'[v] = txn[v]
        BY <2>1, <3>1, <3>2
      <4>2. Log' = Log /\ ~Spoiled /\ ~Spoiled'
        BY <3>1, <4>1, LogNow, LogThen
      <4> QED BY <4>2 DEF LogStep, Spoiled
    <3>3. CASE v \notin Open'
      <4>1. Open' = {}
        BY <2>1, <3>1, <3>3
      <4> QED BY <1>0, <2>1, <2>3, <3>1, <4>1, ClosingLog DEF Idle
    <3> QED BY <3>2, <3>3
  <2> QED BY <2>2, <2>3
<1>2. CASE Opens(w)
  <2>1. Open = {} /\ Open' = {w} /\ Idle
    BY <1>0, <1>2, OpensAlone DEF Opens
  <2>2. Log' = txn'[w].base /\ ~Spoiled'
    BY <2>1, LogThen
  <2>3. CASE EmptyDirectory /\ txn'[w].base = None
    <3>1. Clean /\ manifest = None
      BY <2>3, Places DEF Clean, EmptyDirectory, Present, Place
    <3>2. Log = None /\ ~Spoiled
      BY <2>1, <3>1, LogNow
    <3> QED BY <2>2, <2>3, <3>2 DEF LogStep, Spoiled
  <2>4. CASE txn'[w].base \in History /\ ExactTree(txn'[w].base)
    <3>1. Clean /\ manifest # None /\ manifest = txn'[w].base
      BY <1>2, <2>4, NoneAssumption DEF Opens, Clean, ExactTree
    <3>2. Log = txn'[w].base /\ ~Spoiled
      BY <2>1, <3>1, LogNow
    <3> QED BY <2>2, <3>2 DEF LogStep, Spoiled
  <2> QED BY <1>2, <2>3, <2>4 DEF Opens
<1>3. CASE Works(w)
  <2>1. Open = {w} /\ Open' = {w} /\ txn'[w].base = txn[w].base
    BY <1>0, <1>3, WorksAlone DEF Works
  <2>2. Log' = Log /\ ~Spoiled /\ ~Spoiled'
    BY <2>1, LogNow, LogThen
  <2> QED BY <2>2 DEF LogStep, Spoiled
<1>4. CASE Acknowledges(w)
  <2>1. Open = {w} /\ Open' = {}
    BY <1>0, <1>4, AcknowledgesAlone
  <2> QED BY <1>0, <1>4, <2>1, ClosingLog DEF Acknowledges
<1> QED BY <1>1, <1>2, <1>3, <1>4 DEF StepOf, Passes

(* The whole of the run storage, for writers that share the submission lock, does
   what AtomicRun says: seen from between transactions a run is created, grows by
   one answer at a time, and is at worst refused, never changed. *)
THEOREM CommitsAreAtomic ==
    ASSUME SharedLock
    PROVE  Spec => ImplementsAtomicRun
<1>1. Init => Abstract!Init
  <2> SUFFICES ASSUME Init PROVE Abstract!Init
    OBVIOUS
  <2>1. Open = {} /\ EmptyDirectory
    BY DEF Init, Open, InTransaction, EmptyDirectory, Present
  <2> QED BY <2>1 DEF Init, Abstract!Init, Spoiled, LoggedHistory, Clean
<1>2. RunInv /\ [Next]_vars => [Abstract!Next]_(Abstract!vars)
  <2> SUFFICES ASSUME RunInv, [Next]_vars PROVE [Abstract!Next]_(Abstract!vars)
    OBVIOUS
  <2>1. CASE UNCHANGED vars
    <3>1. UNCHANGED <<files, dirs, manifest, temps, pc, goal, txn>>
      BY <2>1 DEF vars
    <3>2. (Clean' <=> Clean) /\ Open' = Open
      BY <3>1, CleanSame DEF Open, InTransaction
    <3> QED BY <3>1, <3>2 DEF Abstract!vars, Spoiled, LoggedHistory
  <2>2. CASE Next
    <3>1. LogStep
      BY <2>2, StepKinds, LockNext, LogNext DEF RunInv, ReadInv
    <3>2. CASE Log' = Log /\ Spoiled' = Spoiled
      BY <3>2 DEF Log, Abstract!vars
    <3>3. CASE ~Spoiled /\ ~Spoiled' /\ Log = None /\ Log' = <<>>
      <4>1. Spoiled' = Spoiled
        BY <3>3 DEF Spoiled
      <4>2. Abstract!Create
        BY <3>3, <4>1 DEF Log, Abstract!Create
      <4> QED BY <4>2 DEF Abstract!Next
    <3>4. ASSUME ~Spoiled, ~Spoiled', Log # None, Len(Log) < MaxCalls,
                 NEW a \in Answers, Log' = Append(Log, a)
          PROVE  Abstract!Next
      <4>1. Spoiled' = Spoiled
        BY <3>4 DEF Spoiled
      <4>2. Abstract!Accept(a)
        BY <3>4, <4>1 DEF Log, Abstract!Accept
      <4> QED BY <4>2 DEF Abstract!Next
    <3>5. CASE ~Spoiled /\ Spoiled' /\ Log' = None
      <4>1. Spoiled' = TRUE
        BY <3>5 DEF Spoiled
      <4>2. Abstract!Refuse
        BY <3>5, <4>1 DEF Log, Abstract!Refuse
      <4> QED BY <4>2 DEF Abstract!Next
    <3> QED BY <3>1, <3>2, <3>3, <3>4, <3>5 DEF LogStep
  <2> QED BY <2>1, <2>2
<1> QED BY <1>1, <1>2, RunInvariant, PTL DEF Spec, ImplementsAtomicRun, Abstract!Spec

--------------------------------------------------------------------------------
(***************************************************************************)
(* The invariant of a calm run: nobody was killed and at most one step has *)
(* failed, so that a transaction being undone has used up the failure.     *)
(***************************************************************************)
Calm == crashes = 0 /\ faults <= 1

BaseFiles(w) == IF txn[w].base = None THEN {} ELSE PathsOf(txn[w].base)
NewFiles(w) == PathsOf(txn[w].next) \ BaseFiles(w)

(* The artifacts are those of the base and those the transaction created, *)
FilesInv(w) ==
    \A x \in Path :
        /\ files[x] # None <=> x \in BaseFiles(w) \/ x \in owned[w]
        /\ x \in owned[w] => x \in NewFiles(w) /\ Holds(x, txn[w].next)

(* and so are the directories: *)
DirsInv(w) ==
    /\ dirs = {Parent(x) : x \in BaseFiles(w)} \cup (owned[w] \cap Directory)
    /\ \A x \in BaseFiles(w) : Parent(x) \notin owned[w]

(* one the transaction made holds a file it created, or is about to, or just did. *)
Filled(w, d) == \E x \in Created(w) : Parent(x) = d
AllFilled(w) == \A d \in owned[w] \cap Directory : Filled(w, d)
Awaits(w, d) ==
    \/ pc[w] \in {"write", "link"} /\ ~Wrote(w) /\ d = Parent(Writing(w))
    \/ pc[w] = "prune" /\ d = Parent(txn[w].gone)
DirsUsed(w) == \A d \in owned[w] \cap Directory : Filled(w, d) \/ Awaits(w, d)

(* Of the files of the next history, those before the n-th to write are there. *)
WrittenTo(w, n) ==
    \A i \in 1..Len(Snapshot(txn[w].next)) :
        i < n <=> files[Snapshot(txn[w].next)[i]] # None
Whole(w) == \A x \in PathsOf(txn[w].next) : files[x] # None

(* The manifest is the base's, or this transaction's. *)
BaseInPlace(w) == manifest = txn[w].base /\ ~Mine(w)
NextInPlace(w) == manifest = txn[w].next /\ Mine(w)

(* What each label of an open transaction says. *)
Stage(w) ==
    /\ pc[w] # "idle"
    /\ temps = IF pc[w] = "link" THEN {<<w, Parent(Writing(w))>>}
               ELSE IF pc[w] = "replace" THEN {<<w, Root>>} ELSE {}
    /\ pc[w] \in Forward => BaseInPlace(w)
    /\ pc[w] \in {"write", "link"} => WrittenTo(w, txn[w].index)
    /\ pc[w] \in {"install", "replace"} \cup Verifying => Whole(w)
    /\ pc[w] \in Verifying => NextInPlace(w)
    /\ pc[w] \in Rollback => faults # 0
    /\ pc[w] = "undo" => NextInPlace(w) \/ BaseInPlace(w)
    /\ pc[w] = "claim" => NextInPlace(w)
    /\ pc[w] = "restore" => manifest = None /\ txn[w].back = txn[w].base /\ ~Mine(w)
    /\ pc[w] \in {"remove", "prune"} => BaseInPlace(w)
    /\ pc[w] = "prune" => txn[w].gone \in NewFiles(w) /\ files[txn[w].gone] = None

(* An open transaction started from the last history committed. *)
Committed == acked \cup unreported
LastCommitted(b) == IF b = None THEN Committed = {}
                    ELSE b \in Committed /\ \A g \in Committed : Extends(b, g)
Undoable(w) == FilesInv(w) /\ DirsInv(w) /\ DirsUsed(w) /\ Stage(w) /\ LastCommitted(txn[w].base)

(* An error in a gap leaves the rollback something it will not remove: an empty
   directory, a file that is not in its list, or the manifest of a run it takes
   apart. *)
EmptyLeft(w) ==
    \E d \in dirs : /\ Entries(d) = {} /\ ~Filled(w, d)
                    /\ pc[w] = "prune" => Parent(txn[w].gone) # d
FileLeft(w) ==
    BaseInPlace(w) /\ \E x \in Path : files[x] # None /\ x \notin BaseFiles(w) /\ x \notin owned[w]
ManifestLeft(w) ==
    manifest = txn[w].next /\ \E x \in PathsOf(txn[w].next) : x \in owned[w] \/ files[x] = None
Stuck(w) ==
    /\ pc[w] \in {"undo", "remove", "prune"} /\ ~Mine(w)
    /\ EmptyLeft(w) \/ FileLeft(w) \/ ManifestLeft(w)

Settled == IF Committed = {} THEN EmptyDirectory
           ELSE \E h \in Committed : ExactTree(h) /\ \A g \in Committed : Extends(h, g)

CalmInv == Calm => /\ gap => faults # 0
                   /\ Open = {} => IF gap THEN ~Clean ELSE Settled
                   /\ \A w \in Open : IF gap THEN Stuck(w) ELSE Undoable(w)

(***************************************************************************)
(* The next history and its files.                                         *)
(***************************************************************************)
(* What extends an extension extends. *)
LEMMA ExtendsTwice ==
    ASSUME NEW f \in History, NEW g \in History, NEW h \in History, Extends(f, g), Extends(g, h)
    PROVE  Extends(f, h)
<1>1. /\ Len(f) \in Nat /\ Len(g) \in Nat /\ Len(h) \in Nat
      /\ Len(g) <= Len(f) /\ \A k \in 1..Len(g) : g[k] = f[k]
      /\ Len(h) <= Len(g) /\ \A k \in 1..Len(h) : h[k] = g[k]
  BY HistoryIsSeq, ExtendsElementwise
<1>2. Len(h) <= Len(f) /\ \A k \in 1..Len(h) : h[k] = f[k]
  BY <1>1
<1> QED BY <1>2, ExtendsElementwise

(* The files a transition brings are those its history has and the base has not, at
   most one of a kind. *)
LEMMA SnapshotCovers ==
    /\ PathsOf(<<>>) = {<<"request", 1>>} /\ Snapshot(<<>>) = << <<"request", 1>> >>
    /\ \A b \in History, a \in Answers : Append(b, a) \in History =>
          LET n == Append(b, a) IN
          /\ \A x \in PathsOf(n) \ PathsOf(b) :
                x \in {<<"response", Len(b) + 1>>, <<"request", Len(b) + 2>>}
          /\ \A x \in PathsOf(n) \ PathsOf(b) : \E i \in 1..Len(Snapshot(n)) : Snapshot(n)[i] = x
          /\ \A i \in 1..Len(Snapshot(n)) : Snapshot(n)[i] \in PathsOf(n) \ PathsOf(b)
<1>0. MaxCalls \in Nat /\ MaxCalls >= 1
  BY MaxCallsAssumption
<1>1. PathsOf(<<>>) = {<<"request", 1>>} /\ Snapshot(<<>>) = << <<"request", 1>> >>
  BY <1>0 DEF PathsOf, Snapshot
<1>2. ASSUME NEW b \in History, NEW a \in Answers, Append(b, a) \in History
      PROVE  LET n == Append(b, a) IN
          /\ \A x \in PathsOf(n) \ PathsOf(b) :
                x \in {<<"response", Len(b) + 1>>, <<"request", Len(b) + 2>>}
          /\ \A x \in PathsOf(n) \ PathsOf(b) : \E i \in 1..Len(Snapshot(n)) : Snapshot(n)[i] = x
          /\ \A i \in 1..Len(Snapshot(n)) : Snapshot(n)[i] \in PathsOf(n) \ PathsOf(b)
  <2> DEFINE n == Append(b, a)
             len == Len(b)
  <2>1. b \in Seq(Answers) /\ len \in Nat /\ Len(n) <= MaxCalls
    BY <1>2, HistoryIsSeq
  <2>2. Len(n) = len + 1 /\ n # <<>>
    BY <2>1, AppendProperties
  <2>3. ASSUME NEW x \in PathsOf(n) \ PathsOf(b)
        PROVE  x \in {<<"response", len + 1>>, <<"request", len + 2>>}
               /\ (x = <<"request", len + 2>> => Len(n) # MaxCalls)
    <3>1. CASE x \in {<<"response", k>> : k \in 1..(len + 1)}
      <4>1. PICK k \in 1..(len + 1) : x = <<"response", k>>
        BY <3>1
      <4>2. k \notin 1..len
        BY <2>3, <4>1 DEF PathsOf
      <4> QED BY <2>1, <4>1, <4>2
    <3>2. CASE x \in {<<"request", k>> : k \in (1..(len + 2)) \cap (1..MaxCalls)}
      <4>1. PICK k \in (1..(len + 2)) \cap (1..MaxCalls) : x = <<"request", k>>
        BY <3>2
      <4>2. k \notin (1..(len + 1)) \cap (1..MaxCalls)
        BY <2>3, <4>1 DEF PathsOf
      <4> QED BY <1>0, <2>1, <2>2, <4>1, <4>2
    <3>3. PathsOf(n) = {<<"response", k>> : k \in 1..(len + 1)}
                       \cup {<<"request", k>> : k \in (1..(len + 2)) \cap (1..MaxCalls)}
      BY <2>1, <2>2 DEF PathsOf
    <3> QED BY <2>3, <3>1, <3>2, <3>3
  <2>4. <<"response", len + 1>> \in PathsOf(n) \ PathsOf(b)
    BY <1>0, <2>1, <2>2 DEF PathsOf
  <2>5. CASE Len(n) = MaxCalls
    <3>1. Snapshot(n) = << <<"response", len + 1>> >>
      BY <2>2, <2>5 DEF Snapshot
    <3> QED BY <2>3, <2>4, <2>5, <3>1
  <2>6. CASE Len(n) # MaxCalls
    <3>1. Snapshot(n) = << <<"request", len + 2>>, <<"response", len + 1>> >>
      BY <2>1, <2>2, <2>6 DEF Snapshot
    <3>2. <<"request", len + 2>> \in PathsOf(n) \ PathsOf(b)
      BY <1>0, <2>1, <2>2, <2>6 DEF PathsOf
    <3> QED BY <2>3, <2>4, <3>1, <3>2
  <2> QED BY <2>5, <2>6
<1> QED BY <1>1, <1>2

(* The base's files are the next history's too, with the same contents; the new ones
   are those the transaction writes, and no two go into one directory. *)
LEMMA BaseOfNext ==
    ASSUME TypeInv, NEW w \in Writers, Built(w)
    PROVE  /\ txn[w].next \in History /\ txn[w] \in Txn
           /\ txn[w].base # None =>
                  /\ txn[w].base \in History /\ txn[w].base # txn[w].next
                  /\ Extends(txn[w].next, txn[w].base)
           /\ \A x \in BaseFiles(w) : /\ x \in PathsOf(txn[w].next)
                                      /\ Content(x, txn[w].next) = Content(x, txn[w].base)
           /\ \A i \in 1..Len(Snapshot(txn[w].next)) : Snapshot(txn[w].next)[i] \in NewFiles(w)
           /\ \A x \in NewFiles(w) :
                  \E i \in 1..Len(Snapshot(txn[w].next)) : Snapshot(txn[w].next)[i] = x
           /\ \A x, y \in NewFiles(w) : Parent(x) = Parent(y) => x = y
           /\ NewFiles(w) # {}
<1> DEFINE b == txn[w].base
           n == txn[w].next
<1>1. n \in History /\ b \in History \cup {None} /\ txn[w] \in Txn
  BY DEF TypeInv, TypeOK, Txn
<1>s. 1 \in 1..Len(Snapshot(n))
  <2>1. Len(Snapshot(n)) \in 1..2
    BY <1>1, Snapshots
  <2> HIDE DEF n
  <2> QED BY <2>1
<1>2. CASE b = None
  <2>1. n = <<>> /\ BaseFiles(w) = {}
    BY <1>2 DEF Built, FromBase, BaseFiles
  <2>2. NewFiles(w) = {<<"request", 1>>} /\ Len(Snapshot(n)) = 1 /\ Snapshot(n)[1] = <<"request", 1>>
    BY <2>1, SnapshotCovers DEF NewFiles
  <2>3. /\ \A i \in 1..Len(Snapshot(n)) : Snapshot(n)[i] \in NewFiles(w)
        /\ \A x \in NewFiles(w) : \E i \in 1..Len(Snapshot(n)) : Snapshot(n)[i] = x
    <3>1. \A i \in 1..1 : i = 1
      OBVIOUS
    <3> QED BY <1>s, <2>2, <3>1
  <2> QED BY <1>1, <1>2, <2>1, <2>2, <2>3
<1>3. CASE b # None
  <2>1. PICK a \in Answers : n = Append(b, a)
    BY <1>3 DEF Built, FromBase
  <2>2. b \in Seq(Answers) /\ Len(b) \in Nat /\ b \in History
    BY <1>1, <1>3, HistoryIsSeq
  <2>3. Len(n) = Len(b) + 1 /\ \A k \in 1..Len(b) : n[k] = b[k]
    BY <2>1, <2>2, AppendProperties
  <2>4. Extends(n, b) /\ b # n
    BY <1>1, <2>2, <2>3, ExtendsElementwise
  <2>5. BaseFiles(w) = PathsOf(b) /\ NewFiles(w) = PathsOf(n) \ PathsOf(b)
    BY <1>3 DEF BaseFiles, NewFiles
  <2>6. \A x \in PathsOf(b) : x \in PathsOf(n) /\ Content(x, n) = Content(x, b)
    BY <1>1, <2>2, <2>4, PrefixKeepsContent
  <2>7. /\ \A x \in PathsOf(n) \ PathsOf(b) :
              x \in {<<"response", Len(b) + 1>>, <<"request", Len(b) + 2>>}
        /\ \A x \in PathsOf(n) \ PathsOf(b) : \E i \in 1..Len(Snapshot(n)) : Snapshot(n)[i] = x
        /\ \A i \in 1..Len(Snapshot(n)) : Snapshot(n)[i] \in PathsOf(n) \ PathsOf(b)
    BY <1>1, <2>1, <2>2, SnapshotCovers
  <2>8. ASSUME NEW x \in NewFiles(w), NEW y \in NewFiles(w), Parent(x) = Parent(y) PROVE x = y
    <3>1. x \in Path /\ y \in Path
      BY <1>1, Contents DEF NewFiles
    <3>2. x[1] = y[1]
      BY <2>8, <3>1 DEF Parent
    <3> QED BY <2>2, <2>5, <2>7, <3>2
  <2> QED BY <1>1, <1>s, <2>2, <2>4, <2>5, <2>6, <2>7, <2>8
<1> QED BY <1>2, <1>3

(* What there is of an open transaction is what its next history says. *)
LEMMA HeldIsNext ==
    ASSUME TypeInv, NEW w \in Writers, Built(w), FilesInv(w), NEW x \in Path, files[x] # None
    PROVE  x \in PathsOf(txn[w].next) /\ Holds(x, txn[w].next)
<1>1. CASE x \in owned[w]
  BY <1>1 DEF FilesInv, NewFiles
<1>2. CASE x \notin owned[w]
  <2>1. x \in BaseFiles(w)
    BY <1>2 DEF FilesInv
  <2>2. x \in PathsOf(txn[w].base) /\ txn[w].base # None
    BY <2>1 DEF BaseFiles
  <2>3. Holds(x, txn[w].base)
    BY <2>2 DEF Built, FromBase
  <2> QED BY <2>1, <2>3, BaseOfNext DEF Holds
<1> QED BY <1>1, <1>2

(* Every file of the next history is there. *)
LEMMA WholeIsNext ==
    ASSUME TypeInv, NEW w \in Writers, Built(w), FilesInv(w), Whole(w)
    PROVE  /\ {x \in Path : files[x] # None} = PathsOf(txn[w].next)
           /\ \A x \in PathsOf(txn[w].next) : Holds(x, txn[w].next)
           /\ \A x \in NewFiles(w) : x \in owned[w]
<1>1. \A x \in PathsOf(txn[w].next) : x \in Path
  BY BaseOfNext, Contents
<1>2. \A x \in NewFiles(w) : x \in owned[w]
  BY <1>1 DEF Whole, NewFiles, FilesInv
<1> QED BY <1>1, <1>2, HeldIsNext DEF Whole

(* A transaction that has written all it brings is whole. *)
LEMMA WrittenIsWhole ==
    ASSUME TypeInv, NEW w \in Writers, Built(w), FilesInv(w), WrittenTo(w, txn[w].index), Wrote(w)
    PROVE  Whole(w)
<1> SUFFICES ASSUME NEW x \in PathsOf(txn[w].next) PROVE files[x] # None
  BY DEF Whole
<1>0. x \in Path /\ txn[w].index \in 1..3
  BY BaseOfNext, Contents DEF Txn
<1>1. CASE x \in BaseFiles(w)
  BY <1>0, <1>1 DEF FilesInv
<1>2. CASE x \notin BaseFiles(w)
  <2>1. PICK i \in 1..Len(Snapshot(txn[w].next)) : Snapshot(txn[w].next)[i] = x
    BY <1>2, BaseOfNext DEF NewFiles
  <2>2. Len(Snapshot(txn[w].next)) \in Nat
    BY BaseOfNext, Snapshots
  <2>3. i < txn[w].index
    BY <1>0, <2>1, <2>2 DEF Wrote
  <2> QED BY <2>1, <2>3 DEF WrittenTo
<1> QED BY <1>1, <1>2

(* An exact tree, place by place. *)
LEMMA ExactPlaces ==
    ASSUME NEW h \in History, manifest = h, temps = {}, dirs \subseteq Directory,
           dirs = {Parent(x) : x \in PathsOf(h)},
           {x \in Path : files[x] # None} = PathsOf(h), \A x \in PathsOf(h) : Holds(x, h)
    PROVE  ExactTree(h)
<1>0. /\ h # None /\ Path \cap Directory = {} /\ ManifestPath \notin Path \cup Directory
  BY Places, NoneAssumption
<1>1. ASSUME NEW x \in Place PROVE Present(x) <=> x \in Expected(h)
  <2>1. CASE x \in Path
    <3>1. x \notin dirs /\ x # ManifestPath
      BY <1>0, <2>1
    <3> QED BY <2>1, <3>1 DEF Present, Expected
  <2>2. CASE x \in Directory
    <3>1. x \notin Path /\ x # ManifestPath
      BY <1>0, <2>2
    <3> QED BY <2>2, <3>1 DEF Present, Expected
  <2>3. CASE x = ManifestPath
    BY <1>0, <2>3 DEF Present, Expected
  <2> QED BY <2>1, <2>2, <2>3 DEF Place
<1>2. {x \in Place : Present(x)} = Expected(h)
  BY <1>1, Places
<1> QED BY <1>2 DEF ExactTree

--------------------------------------------------------------------------------
(***************************************************************************)
(* The steps of an open transaction.                                       *)
(***************************************************************************)
(* What is known of an open transaction before it takes a step. *)
Going(w) == RunInv /\ w \in Open /\ Built(w) /\ Undoable(w)

(* All of it, by name. *)
LEMMA GoingFacts ==
    ASSUME NEW w \in Writers, Going(w)
    PROVE  /\ TypeInv /\ LockInv /\ DataInv /\ RootInv /\ WalkInv(w) /\ Labels(w)
           /\ w \in Open /\ Built(w) /\ InTransaction(w)
           /\ pc[w] \in Verifying => goal[w] = "confirm" /\ Alone(w)
           /\ FilesInv(w) /\ DirsInv(w) /\ DirsUsed(w) /\ Stage(w) /\ LastCommitted(txn[w].base)
           /\ txn[w] \in Txn /\ txn[w].next \in History /\ txn[w].base \in History \cup {None}
           /\ txn[w].index \in 1..3
           /\ dirs \subseteq Directory /\ txn[w].base # txn[w].next /\ None # txn[w].next
           /\ DOMAIN pc = Writers /\ DOMAIN txn = Writers /\ owned \in [Writers -> SUBSET Place]
           /\ files \in [Path -> History \cup {None}]
<1>1. TypeInv /\ LockInv /\ DataInv /\ RootInv /\ WalkInv(w) /\ Labels(w)
  BY DEF Going, RunInv, ReadInv, TypeInv
<1>2. w \in Open /\ Built(w) /\ InTransaction(w) /\ (pc[w] \in Verifying => goal[w] = "confirm" /\ Alone(w))
  BY DEF Going, Open, RunInv, LoneInv
<1>3. txn[w] \in Txn /\ txn[w].next \in History /\ txn[w].base \in History \cup {None}
      /\ txn[w].index \in 1..3 /\ txn[w].base # txn[w].next /\ None # txn[w].next
  BY <1>1, <1>2, BaseOfNext, NoneAssumption DEF Txn
<1>4. /\ dirs \subseteq Directory /\ DOMAIN pc = Writers /\ DOMAIN txn = Writers
      /\ owned \in [Writers -> SUBSET Place] /\ files \in [Path -> History \cup {None}]
  BY <1>1 DEF TypeInv, TypeOK
<1> QED BY <1>1, <1>2, <1>3, <1>4 DEF Going, Undoable

(* The files and directories are kept as long as neither they nor the list of what the
   transaction created change. *)
LEMMA TreeKept ==
    ASSUME NEW w \in Writers, dirs \subseteq Directory, FilesInv(w), DirsInv(w), LastCommitted(txn[w].base),
           txn'[w].base = txn[w].base, txn'[w].next = txn[w].next,
           UNCHANGED <<files, dirs, acked, unreported>>,
           \A x \in Path \cup Directory : x \in owned'[w] <=> x \in owned[w]
    PROVE  /\ FilesInv(w)' /\ DirsInv(w)' /\ LastCommitted(txn[w].base)'
           /\ \A d : Filled(w, d)' <=> Filled(w, d)
           /\ AllFilled(w) => DirsUsed(w)'
<1>1. BaseFiles(w)' = BaseFiles(w) /\ NewFiles(w)' = NewFiles(w)
  BY DEF BaseFiles, NewFiles
<1>2. owned'[w] \cap Directory = owned[w] \cap Directory /\ Created(w)' = Created(w)
  BY DEF Created
<1>3. FilesInv(w)'
  BY <1>1 DEF FilesInv, Holds
<1>4. DirsInv(w)'
  <2>1. \A x \in BaseFiles(w) : Parent(x) \in Directory /\ Parent(x) \notin owned[w]
    BY DEF DirsInv
  <2> QED BY <1>1, <1>2, <2>1 DEF DirsInv
<1>5. \A d : Filled(w, d)' <=> Filled(w, d)
  BY <1>2 DEF Filled
<1>6. AllFilled(w) => DirsUsed(w)'
  BY <1>2, <1>5 DEF AllFilled, DirsUsed
<1>7. LastCommitted(txn[w].base)'
  BY DEF LastCommitted, Committed
<1> QED BY <1>3, <1>4, <1>5, <1>6, <1>7

(* A directory for the first file of its kind. *)
LEMMA MakeDirectoryCalm ==
    ASSUME NEW w \in Writers, Going(w), MakeDirectory(w)
    PROVE  Undoable(w)'
<1> DEFINE d == Parent(Writing(w))
<1>0. /\ TypeInv /\ LockInv /\ FilesInv(w) /\ DirsInv(w) /\ DirsUsed(w) /\ Stage(w)
      /\ LastCommitted(txn[w].base) /\ w \in Open
  BY GoingFacts
<1>1. /\ pc[w] = "write" /\ ~Wrote(w) /\ d \notin dirs /\ dirs' = dirs \cup {d} /\ Owns(w, d)
      /\ UNCHANGED <<files, manifest, temps, pc, txn, acked, unreported, faults>>
  BY DEF MakeDirectory, outcome, bounds
<1>2. d \in Directory /\ d \notin Path /\ d # ManifestPath
  BY <1>0, <1>1, StillWriting, WritingType, Places
<1>3. owned'[w] = owned[w] \cup {d}
  BY <1>0, <1>1, OwnsAlone
<1>4. FilesInv(w)' /\ BaseFiles(w)' = BaseFiles(w)
  BY <1>0, <1>1, <1>2, <1>3 DEF FilesInv, BaseFiles, NewFiles, Holds
<1> HIDE DEF d
<1>5. DirsInv(w)'
  <2>1. \A x \in BaseFiles(w) : Parent(x) \in dirs
    BY <1>0 DEF DirsInv
  <2>2. \A x \in BaseFiles(w) : Parent(x) \notin owned'[w]
    BY <1>0, <1>1, <1>3, <2>1 DEF DirsInv
  <2>3. dirs' = {Parent(x) : x \in BaseFiles(w)} \cup (owned'[w] \cap Directory)
    BY <1>0, <1>1, <1>2, <1>3 DEF DirsInv
  <2> QED BY <1>4, <2>2, <2>3 DEF DirsInv
<1>6. DirsUsed(w)'
  <2>1. \A e : Awaits(w, e)' <=> Awaits(w, e)
    BY <1>1 DEF Awaits, Wrote, Writing
  <2>2. Awaits(w, d)
    BY <1>1 DEF Awaits, d
  <2>3. Created(w)' = Created(w)
    BY <1>2, <1>3 DEF Created
  <2> QED BY <1>0, <1>3, <2>1, <2>2, <2>3 DEF DirsUsed, Filled
<1>7. Stage(w)'
  <2>1. Mine(w)' <=> Mine(w)
    BY <1>2, <1>3 DEF Mine
  <2>2. WrittenTo(w, txn[w].index)'
    BY <1>0, <1>1 DEF Stage, WrittenTo
  <2> QED BY <1>0, <1>1, <2>1, <2>2 DEF Stage, BaseInPlace, Forward, Verifying, Rollback
<1>8. LastCommitted(txn[w].base)'
  BY <1>0, <1>1 DEF LastCommitted, Committed
<1> QED BY <1>4, <1>5, <1>6, <1>7, <1>8 DEF Undoable

(* The file to write is not there yet. *)
LEMMA NotWritten ==
    ASSUME NEW w \in Writers, Going(w), pc[w] \in {"write", "link"}, ~Wrote(w)
    PROVE  /\ Writing(w) \in NewFiles(w) /\ Writing(w) \in Path /\ Writing(w) \in PathsOf(txn[w].next)
           /\ files[Writing(w)] = None /\ Writing(w) \notin owned[w]
           /\ ~Holds(Writing(w), txn[w].next)
           /\ txn[w].index \in 1..Len(Snapshot(txn[w].next))
           /\ BaseInPlace(w) /\ WrittenTo(w, txn[w].index)
<1>0. TypeInv /\ Built(w) /\ FilesInv(w) /\ Stage(w) /\ txn[w].index \in 1..3
  BY GoingFacts
<1>1. txn[w].index \in 1..Len(Snapshot(txn[w].next)) /\ Writing(w) \in Path
      /\ Writing(w) \in PathsOf(txn[w].next) /\ Content(Writing(w), txn[w].next) \in History
  BY <1>0, StillWriting, WritingType
<1>2. Writing(w) \in NewFiles(w)
  BY <1>0, <1>1, BaseOfNext DEF Writing
<1>3. BaseInPlace(w) /\ WrittenTo(w, txn[w].index)
  BY <1>0 DEF Stage, Forward
<1>4. files[Writing(w)] = None
  BY <1>0, <1>1, <1>3 DEF WrittenTo, Writing
<1> QED BY <1>0, <1>1, <1>2, <1>3, <1>4, NoneAssumption DEF FilesInv, Holds

(* A temporary file for it. *)
LEMMA WriteFileCalm ==
    ASSUME NEW w \in Writers, Going(w), WriteFile(w)
    PROVE  Undoable(w)'
<1>0. /\ TypeInv /\ FilesInv(w) /\ DirsInv(w) /\ DirsUsed(w) /\ Stage(w)
      /\ LastCommitted(txn[w].base) /\ DOMAIN pc = Writers /\ dirs \subseteq Directory
  BY GoingFacts
<1>1. pc[w] = "write" /\ ~Wrote(w) /\ UNCHANGED <<files, dirs, manifest, acked, unreported, faults>>
  BY DEF WriteFile, outcome, bounds
<1>2. files[Writing(w)] = None /\ ~Holds(Writing(w), txn[w].next) /\ BaseInPlace(w)
      /\ WrittenTo(w, txn[w].index) /\ temps = {}
  BY <1>0, <1>1, NotWritten DEF Stage
<1>3. temps' = temps \cup {<<w, Parent(Writing(w))>>} /\ GoTo(w, "link") /\ UNCHANGED <<txn, owned>>
  BY <1>2 DEF WriteFile
<1>4. pc'[w] = "link"
  BY <1>0, <1>3 DEF GoTo
<1>5. FilesInv(w)' /\ DirsInv(w)' /\ LastCommitted(txn[w].base)' /\ \A d : Filled(w, d)' <=> Filled(w, d)
  BY <1>0, <1>1, <1>3, TreeKept
<1>6. DirsUsed(w)'
  <2>1. \A d : Awaits(w, d) => Awaits(w, d)'
    BY <1>1, <1>3, <1>4 DEF Awaits, Wrote, Writing
  <2> QED BY <1>0, <1>3, <1>5, <2>1 DEF DirsUsed
<1>7. Stage(w)'
  <2>1. WrittenTo(w, txn[w].index)' /\ BaseInPlace(w)'
    BY <1>1, <1>2, <1>3 DEF WrittenTo, BaseInPlace, Mine
  <2>2. temps' = {<<w, Parent(Writing(w))>>}' 
    BY <1>2, <1>3 DEF Writing
  <2> QED BY <1>4, <2>1, <2>2 DEF Stage, Forward, Verifying, Rollback
<1> QED BY <1>5, <1>6, <1>7 DEF Undoable

(* The link makes it. *)
LEMMA LinkedFile ==
    ASSUME NEW w \in Writers, Going(w), pc[w] = "link"
    PROVE  /\ ~Wrote(w) /\ Writing(w) \notin Directory /\ Writing(w) # ManifestPath
           /\ temps \ {<<w, Parent(Writing(w))>>} = {}
           /\ NewFile(w, Writing(w)) =>
                  /\ files'[Writing(w)] = Content(Writing(w), txn[w].next) /\ files'[Writing(w)] # None
                  /\ \A y \in Path \ {Writing(w)} : files'[y] = files[y]
<1>0. /\ TypeInv /\ Stage(w) /\ Labels(w) /\ txn[w].index \in 1..3 /\ txn[w].next \in History
      /\ files \in [Path -> History \cup {None}]
  BY GoingFacts
<1>1. ~Wrote(w)
  <2>1. txn[w].index <= Len(Snapshot(txn[w].next)) /\ Len(Snapshot(txn[w].next)) \in 1..2
    BY <1>0, Snapshots DEF Labels
  <2> QED BY <1>0, <2>1 DEF Wrote
<1>2. Writing(w) \in Path /\ Writing(w) \in PathsOf(txn[w].next)
  BY <1>1, NotWritten
<1>3. Content(Writing(w), txn[w].next) \in History
  BY <1>0, <1>2, Contents
<1> QED BY <1>0, <1>1, <1>2, <1>3, NoneAssumption, Places DEF Stage, NewFile

(* The transaction owns it. *)
LEMMA NewFileCalm ==
    ASSUME NEW w \in Writers, Going(w), pc[w] = "link", UNCHANGED <<dirs, acked, unreported>>,
           NewFile(w, Writing(w)), Owns(w, Writing(w)),
           txn'[w].base = txn[w].base, txn'[w].next = txn[w].next
    PROVE  FilesInv(w)' /\ DirsInv(w)' /\ DirsUsed(w)' /\ LastCommitted(txn[w].base)'
<1> DEFINE x == Writing(w)
<1>0. /\ TypeInv /\ LockInv /\ FilesInv(w) /\ DirsInv(w) /\ DirsUsed(w)
      /\ LastCommitted(txn[w].base) /\ w \in Open /\ dirs \subseteq Directory
  BY GoingFacts
<1>1. /\ x \in NewFiles(w) /\ x \in Path /\ x \in PathsOf(txn[w].next) /\ x \notin Directory
      /\ files'[x] = Content(x, txn[w].next) /\ files'[x] # None
      /\ \A y \in Path \ {x} : files'[y] = files[y]
  BY LinkedFile, NotWritten
<1>2. owned'[w] = owned[w] \cup {x}
  BY <1>0, OwnsAlone
<1>8. BaseFiles(w)' = BaseFiles(w) /\ NewFiles(w)' = NewFiles(w)
  BY DEF BaseFiles, NewFiles
<1>9. FilesInv(w)'
  <2> SUFFICES ASSUME NEW y \in Path
               PROVE  /\ files'[y] # None <=> y \in BaseFiles(w) \/ y \in owned'[w]
                      /\ y \in owned'[w] => y \in NewFiles(w) /\ files'[y] = Content(y, txn[w].next)
    BY <1>8 DEF FilesInv, Holds
  <2>1. CASE y = x
    BY <1>1, <1>2, <2>1
  <2>2. CASE y # x
    BY <1>0, <1>1, <1>2, <2>2 DEF FilesInv, Holds
  <2> QED BY <2>1, <2>2
<1>10. DirsInv(w)'
  <2> HIDE DEF x
  <2>1. owned'[w] \cap Directory = owned[w] \cap Directory
    BY <1>1, <1>2
  <2>2. \A y \in BaseFiles(w) : Parent(y) \in dirs /\ Parent(y) \notin owned[w]
    BY <1>0 DEF DirsInv
  <2> QED BY <1>0, <1>1, <1>2, <1>8, <2>1, <2>2 DEF DirsInv
<1>11. DirsUsed(w)'
  <2> SUFFICES ASSUME NEW d \in owned[w] \cap Directory PROVE Filled(w, d)'
    BY <1>1, <1>2 DEF DirsUsed
  <2>1. Created(w)' = Created(w) \cup {x}
    BY <1>1, <1>2 DEF Created
  <2>2. Filled(w, d) \/ d = Parent(x)
    BY <1>0 DEF DirsUsed, Awaits
  <2> QED BY <2>1, <2>2 DEF Filled
<1>12. LastCommitted(txn[w].base)'
  BY <1>0 DEF LastCommitted, Committed
<1> QED BY <1>9, <1>10, <1>11, <1>12

(* It is one more of the files to write. *)
LEMMA LinkFileCalm ==
    ASSUME NEW w \in Writers, Going(w), LinkFile(w)
    PROVE  Undoable(w)'
<1> DEFINE x == Writing(w)
           t == [txn[w] EXCEPT !.index = @ + 1]
<1>0. /\ txn[w] \in Txn /\ txn[w].index \in 1..3 /\ txn[w].next \in History /\ TypeInv /\ LockInv
      /\ DOMAIN pc = Writers /\ DOMAIN txn = Writers /\ w \in Open
  BY GoingFacts
<1>1. /\ pc[w] = "link" /\ UNCHANGED <<dirs, manifest, acked, unreported>>
      /\ temps' = temps \ {<<w, Parent(x)>>}
  BY DEF LinkFile, Unlink, outcome
<1>2. ~Wrote(w) /\ x # ManifestPath /\ temps' = {}
  BY <1>1, LinkedFile
<1>3. /\ x \in Path /\ files[x] = None /\ ~Holds(x, txn[w].next)
      /\ txn[w].index \in 1..Len(Snapshot(txn[w].next))
      /\ BaseInPlace(w) /\ WrittenTo(w, txn[w].index)
  BY <1>1, <1>2, NotWritten
<1>4. NewFile(w, x) /\ Owns(w, x) /\ NextFile(w)
  BY <1>3 DEF LinkFile
<1>5. pc'[w] = "write" /\ txn'[w] = t /\ owned'[w] = owned[w] \cup {x}
      /\ files'[x] # None /\ \A y \in Path \ {x} : files'[y] = files[y]
  BY <1>0, <1>1, <1>4, LinkedFile, OwnsAlone DEF NextFile, GoTo
<1>6. t.base = txn[w].base /\ t.next = txn[w].next /\ t.index = txn[w].index + 1
  BY <1>0 DEF Txn
<1> HIDE DEF t
<1>7. FilesInv(w)' /\ DirsInv(w)' /\ DirsUsed(w)' /\ LastCommitted(txn[w].base)'
  BY <1>1, <1>4, <1>5, <1>6, NewFileCalm
<1>12. WrittenTo(w, txn[w].index)'
  <2> SUFFICES ASSUME NEW i \in 1..Len(Snapshot(txn[w].next))
               PROVE  i < txn[w].index + 1 <=> files'[Snapshot(txn[w].next)[i]] # None
    BY <1>5, <1>6 DEF WrittenTo
  <2>1. i \in Nat /\ txn[w].index \in Nat /\ Snapshot(txn[w].next)[i] \in Path
        /\ (Snapshot(txn[w].next)[i] = x => i = txn[w].index)
    BY <1>0, <1>3, Snapshots, Contents DEF Writing
  <2>2. CASE i = txn[w].index
    BY <1>5, <2>1, <2>2 DEF Writing
  <2>3. CASE i # txn[w].index
    BY <1>3, <1>5, <2>1, <2>3 DEF WrittenTo
  <2> QED BY <2>2, <2>3
<1>13. Stage(w)'
  <2>1. BaseInPlace(w)'
    BY <1>1, <1>2, <1>3, <1>5, <1>6 DEF BaseInPlace, Mine
  <2> QED BY <1>2, <1>5, <1>12, <2>1 DEF Stage, Forward, Verifying, Rollback
<1> QED BY <1>7, <1>13 DEF Undoable

(* No directory is waiting for a file but that of the file to write, or of the one
   just removed. *)
LEMMA NothingAwaited ==
    ASSUME NEW w \in Writers, DirsUsed(w), pc[w] # "prune",
           pc[w] \in {"write", "link"} => Wrote(w)
    PROVE  AllFilled(w)
  BY DEF DirsUsed, AllFilled, Awaits

(* All is written, and nobody has touched it. *)
LEMMA RecheckCalm ==
    ASSUME NEW w \in Writers, Going(w), Recheck(w)
    PROVE  Undoable(w)'
<1>0. /\ TypeInv /\ Built(w) /\ FilesInv(w) /\ DirsInv(w) /\ DirsUsed(w) /\ Stage(w)
      /\ LastCommitted(txn[w].base) /\ DOMAIN pc = Writers /\ dirs \subseteq Directory
  BY GoingFacts
<1>1. pc[w] = "write" /\ Wrote(w) /\ UNCHANGED <<files, dirs, manifest, temps, acked, unreported>>
  BY DEF Recheck, disk, outcome
<1>2. BaseInPlace(w) /\ Whole(w) /\ temps = {} /\ AllFilled(w)
  BY <1>0, <1>1, WrittenIsWhole, NothingAwaited DEF Stage, Forward
<1>3. StillBase(w)
  BY <1>0, <1>2, WholeIsNext DEF StillBase, BaseInPlace
<1>4. pc'[w] = "install" /\ UNCHANGED <<txn, owned>>
  BY <1>0, <1>3 DEF Recheck, GoTo
<1>5. FilesInv(w)' /\ DirsInv(w)' /\ LastCommitted(txn[w].base)' /\ DirsUsed(w)'
  BY <1>0, <1>1, <1>2, <1>4, TreeKept
<1>6. Stage(w)'
  <2>1. Whole(w)' /\ BaseInPlace(w)'
    BY <1>1, <1>2, <1>4 DEF Whole, BaseInPlace, Mine
  <2> QED BY <1>1, <1>2, <1>4, <2>1 DEF Stage, Forward, Verifying, Rollback
<1> QED BY <1>5, <1>6 DEF Undoable

(* The manifest in place is the base's, so that it is to be replaced. *)
LEMMA BaseStays ==
    ASSUME NEW w \in Writers, Going(w), pc[w] \in {"install", "replace"}
    PROVE  /\ BaseInPlace(w) /\ Whole(w) /\ AllFilled(w)
           /\ ~SameManifest(w) /\ ~ManifestConflict(w)
<1>0. /\ Stage(w) /\ DirsUsed(w) /\ txn[w].base # txn[w].next
  BY GoingFacts
<1>1. BaseInPlace(w) /\ Whole(w) /\ AllFilled(w)
  BY <1>0, NothingAwaited DEF Stage, Forward
<1> QED BY <1>0, <1>1 DEF BaseInPlace, SameManifest, ManifestConflict

(* A temporary manifest. *)
LEMMA StageManifestCalm ==
    ASSUME NEW w \in Writers, Going(w), StageManifest(w)
    PROVE  Undoable(w)'
<1>0. /\ FilesInv(w) /\ DirsInv(w) /\ Stage(w)
      /\ LastCommitted(txn[w].base) /\ DOMAIN pc = Writers /\ dirs \subseteq Directory
  BY GoingFacts
<1>1. pc[w] = "install" /\ UNCHANGED <<files, dirs, manifest>>
  BY DEF StageManifest
<1>2. BaseInPlace(w) /\ Whole(w) /\ AllFilled(w) /\ ~SameManifest(w) /\ ~ManifestConflict(w)
  BY <1>1, BaseStays
<1>3. /\ temps' = {<<w, Root>>} /\ pc'[w] = "replace"
      /\ UNCHANGED <<txn, owned, acked, unreported>>
  BY <1>0, <1>1, <1>2 DEF StageManifest, GoTo, Stage, outcome
<1>5. FilesInv(w)' /\ DirsInv(w)' /\ LastCommitted(txn[w].base)' /\ DirsUsed(w)'
  BY <1>0, <1>1, <1>2, <1>3, TreeKept
<1>6. Stage(w)'
  <2>1. Whole(w)' /\ BaseInPlace(w)'
    BY <1>1, <1>2, <1>3 DEF Whole, BaseInPlace, Mine
  <2> QED BY <1>3, <2>1 DEF Stage, Forward, Verifying, Rollback
<1> QED BY <1>5, <1>6 DEF Undoable

(* The successor takes the name of the manifest, and the transaction owns it. *)
LEMMA ManifestMoves ==
    ASSUME NEW w \in Writers, Going(w), pc[w] = "replace", UNCHANGED <<files, dirs, acked, unreported, txn>>,
           manifest' = txn[w].next, temps' = temps \ {<<w, Root>>}, Owns(w, ManifestPath)
    PROVE  /\ FilesInv(w)' /\ DirsInv(w)' /\ LastCommitted(txn[w].base)' /\ DirsUsed(w)'
           /\ NextInPlace(w)' /\ Whole(w)' /\ temps' = {}
<1>0. /\ TypeInv /\ LockInv /\ FilesInv(w) /\ DirsInv(w) /\ Stage(w) /\ w \in Open
      /\ LastCommitted(txn[w].base) /\ dirs \subseteq Directory
  BY GoingFacts
<1>2. BaseInPlace(w) /\ Whole(w) /\ AllFilled(w)
  BY BaseStays
<1>3. owned'[w] = owned[w] \cup {ManifestPath} /\ ManifestPath \notin Path \cup Directory
  BY <1>0, OwnsAlone, Places
<1>5. FilesInv(w)' /\ DirsInv(w)' /\ LastCommitted(txn[w].base)' /\ DirsUsed(w)'
  BY <1>0, <1>2, <1>3, TreeKept
<1>6. NextInPlace(w)' /\ Whole(w)' /\ temps' = {}
  BY <1>0, <1>2, <1>3 DEF Whole, NextInPlace, Mine, Stage
<1> QED BY <1>5, <1>6

(* It does, and is verified. *)
LEMMA ReplaceManifestCalm ==
    ASSUME NEW w \in Writers, Going(w), ReplaceManifest(w)
    PROVE  Undoable(w)'
<1>0. DOMAIN pc = Writers /\ pc[w] = "replace"
  BY GoingFacts DEF ReplaceManifest
<1>1. ~SameManifest(w) /\ ~ManifestConflict(w)
  BY <1>0, BaseStays
<1>2. /\ manifest' = txn[w].next /\ Owns(w, ManifestPath) /\ temps' = temps \ {<<w, Root>>}
      /\ UNCHANGED <<files, dirs, txn, acked, unreported>> /\ pc'[w] = "scan"
  BY <1>0, <1>1 DEF ReplaceManifest, Confirm, Reverify, GoTo
<1>3. /\ FilesInv(w)' /\ DirsInv(w)' /\ LastCommitted(txn[w].base)' /\ DirsUsed(w)'
      /\ NextInPlace(w)' /\ Whole(w)' /\ temps' = {}
  BY <1>0, <1>2, ManifestMoves
<1>4. Stage(w)'
  BY <1>2, <1>3 DEF Stage, Forward, Verifying, Rollback
<1> QED BY <1>3, <1>4 DEF Undoable

(***************************************************************************)
(* The verification of what a transaction installed.                       *)
(***************************************************************************)
(* What it finds is exactly the next history. *)
LEMMA InstalledIsExact ==
    ASSUME NEW w \in Writers, Going(w), pc[w] \in Verifying
    PROVE  ExactTree(txn[w].next) /\ AllFilled(w) /\ NextInPlace(w)
<1> DEFINE n == txn[w].next
<1>0. /\ TypeInv /\ RootInv /\ Built(w) /\ FilesInv(w) /\ DirsInv(w) /\ DirsUsed(w) /\ Stage(w)
      /\ n \in History /\ dirs \subseteq Directory
  BY GoingFacts
<1>1. Whole(w) /\ temps = {} /\ manifest = n /\ AllFilled(w) /\ NextInPlace(w)
  BY <1>0, NothingAwaited DEF Stage, Verifying, NextInPlace
<1>2. {x \in Path : files[x] # None} = PathsOf(n) /\ \A x \in PathsOf(n) : Holds(x, n)
  BY <1>0, <1>1, WholeIsNext
<1>3. ASSUME NEW d \in dirs PROVE \E x \in PathsOf(n) : Parent(x) = d
  <2>1. CASE d \in owned[w]
    <3>1. PICK x \in Created(w) : Parent(x) = d
      BY <1>0, <1>1, <2>1 DEF AllFilled, Filled
    <3>2. x \in PathsOf(n)
      BY <1>0, <3>1 DEF FilesInv, Created, NewFiles
    <3> QED BY <3>1, <3>2
  <2>2. CASE d \notin owned[w]
    <3>1. PICK x \in BaseFiles(w) : Parent(x) = d
      BY <1>0, <2>2 DEF DirsInv
    <3> QED BY <1>0, <3>1, BaseOfNext
  <2> QED BY <2>1, <2>2
<1>4. \A x \in PathsOf(n) : Parent(x) \in dirs
  BY <1>0, <1>2, Contents DEF RootInv, Rooted
<1>5. dirs = {Parent(x) : x \in PathsOf(n)}
  <2> HIDE DEF n
  <2>1. \A d \in {Parent(x) : x \in PathsOf(n)} : d \in dirs
    BY <1>4
  <2>2. \A d \in dirs : d \in {Parent(x) : x \in PathsOf(n)}
    BY <1>3
  <2> QED BY <2>1, <2>2
<1> HIDE DEF n
<1>6. ExactTree(n)
  BY <1>0, <1>1, <1>2, <1>5, ExactPlaces
<1> QED BY <1>1, <1>6 DEF n

(* What it has loaded is the next history. *)
LEMMA LoadedIsNext ==
    ASSUME NEW w \in Writers, Going(w), pc[w] \in {"load", "rescan"}
    PROVE  /\ Noted(w) = Expected(txn[w].next) /\ \A x \in Noted(w) : scan[w][x] = "same"
           /\ {x \in Place : Present(x)} = Noted(w)
           /\ seen[w] # None => seen[w] = txn[w].next
<1> DEFINE n == txn[w].next
<1>0. TypeInv /\ RootInv /\ WalkInv(w) /\ Alone(w) /\ n \in History
  BY GoingFacts DEF Verifying
<1>1. ExactTree(n)
  BY InstalledIsExact DEF Verifying
<1>2. {x \in Place : Present(x)} = Noted(w) /\ \A x \in Noted(w) : scan[w][x] = "same"
  BY <1>0, AloneComplete
<1>3. ASSUME seen[w] # None PROVE seen[w] = n
  <2>1. ManifestPath \in Noted(w)
    BY <1>0, <1>3 DEF WalkInv, Loaded, Expected
  <2> QED BY <1>0, <1>1, <1>2, <1>3, <2>1 DEF WalkInv, Loaded, ExactTree
<1> QED BY <1>1, <1>2, <1>3 DEF ExactTree

(* So it refuses nothing, and ends in a report. *)
LEMMA ConfirmGoesOn ==
    ASSUME NEW w \in Writers, Going(w), Scan(w) \/ LoadManifest(w) \/ LoadFile(w) \/ Rescan(w)
    PROVE  /\ pc[w] \in Verifying /\ UNCHANGED <<files, dirs, manifest, temps, unreported>>
           /\ \/ pc'[w] \in Verifying /\ UNCHANGED <<txn, owned, acked>>
              \/ End(w) /\ acked' = acked \cup {txn[w].next}
<1> DEFINE n == txn[w].next
<1>0. /\ pc[w] \in Verifying /\ UNCHANGED <<files, dirs, manifest, temps>>
  BY DEF Scan, LoadManifest, LoadFile, Rescan, SecondVisit, Reaches, Verifying, disk
<1>1. /\ TypeInv /\ RootInv /\ WalkInv(w) /\ Alone(w) /\ n \in History /\ DOMAIN pc = Writers
      /\ goal[w] = "confirm" /\ Labels(w) /\ n # None
  BY <1>0, GoingFacts
<1>2. ExactTree(n) /\ manifest = n /\ temps = {} /\ \A x \in PathsOf(n) : Holds(x, n)
  BY <1>0, InstalledIsExact DEF ExactTree
<1>3. \A d : TempsIn(d) = {}
  BY <1>2 DEF TempsIn
<1>4. CASE Scan(w)
  <2>1. PICK x \in Listable \cup Place : Scan(w)!(x)
    BY <1>4 DEF Scan
  <2>2. x # Root => Present(x)
    <3>1. x \in Found(w) /\ (x # Root => x \in Place)
      BY <2>1 DEF Reaches, Found, Listable, Place
    <3> QED BY <1>1, <3>1 DEF Alone
  <2>3. GoTo(w, "load") \/ GoTo(w, "scan")
    BY <1>1, <1>2, <1>3, <2>1, <2>2
  <2>4. UNCHANGED <<txn, owned, acked, unreported>>
    BY <1>1, <1>2, <1>3, <2>1, <2>2 DEF outcome
  <2> QED BY <1>0, <1>1, <2>3, <2>4 DEF GoTo, Verifying
<1>5. CASE LoadManifest(w)
  <2>1. {x \in Place : scan[w][x] # "absent"} = Expected(manifest)
    BY <1>2, <1>5, LoadedIsNext DEF LoadManifest, Noted
  <2>2. UNCHANGED <<pc, txn, owned, acked, unreported>>
    BY <1>1, <1>2, <1>5, <2>1 DEF LoadManifest, outcome
  <2> QED BY <1>0, <2>2
<1>6. CASE LoadFile(w)
  <2>1. PICK x \in Path : LoadFile(w)!(x)
    BY <1>6 DEF LoadFile
  <2>2. seen[w] = n /\ x \in PathsOf(n)
    BY <1>1, <2>1, LoadedIsNext DEF Reaches, Alone
  <2>3. Holds(x, seen[w])
    BY <1>2, <2>2
  <2>4. (GoTo(w, "rescan") \/ pc' = pc) /\ UNCHANGED <<txn, owned, acked, unreported>>
    BY <2>1, <2>3 DEF outcome
  <2> QED BY <1>0, <1>1, <2>4 DEF GoTo, Verifying
<1>7. CASE Rescan(w)
  <2>1. PICK x \in Listable \cup Place : SecondVisit(w, x, Unchanged(w, x))
    BY <1>7 DEF Rescan
  <2>2. pc[w] = "rescan" /\ x \in todo[w]
    BY <2>1 DEF SecondVisit, Reaches
  <2>3. seen[w] = n /\ Noted(w) = Expected(n) /\ (\A y \in Noted(w) : scan[w][y] = "same")
        /\ {y \in Place : Present(y)} = Noted(w)
    BY <1>1, <2>2, LoadedIsNext DEF Labels
  <2>4. Unchanged(w, x)
    <3>1. x # Root => scan[w][x] = "same"
      BY <1>1, <2>2, <2>3 DEF Alone
    <3>2. Entries(x) = {y \in Place : Parent(y) = x /\ scan[w][y] # "absent"}
      <4>1. \A y \in Place : Present(y) <=> scan[w][y] # "absent"
        BY <2>3 DEF Noted
      <4> QED BY <4>1 DEF Entries
    <3> QED BY <1>3, <3>1, <3>2 DEF Unchanged
  <2>5. CASE todo[w] = {x}
    <3>1. Verified(w)
      BY <2>1, <2>4, <2>5 DEF SecondVisit
    <3> QED BY <1>0, <1>1, <2>3, <3>1 DEF Verified
  <2>6. CASE todo[w] # {x}
    BY <1>0, <2>1, <2>4, <2>6 DEF SecondVisit, outcome
  <2> QED BY <2>5, <2>6
<1> QED BY <1>4, <1>5, <1>6, <1>7

(* A directory that is not touched stays what it is. *)
LEMMA SettledSame ==
    ASSUME UNCHANGED <<files, dirs, manifest, temps>>
    PROVE  /\ \A h : ExactTree(h)' <=> ExactTree(h)
           /\ EmptyDirectory' <=> EmptyDirectory
           /\ UNCHANGED <<acked, unreported>> => (Settled' <=> Settled)
<1>1. \A h : ExactTree(h)' <=> ExactTree(h)
  BY DiskSame DEF ExactTree, Holds
<1>2. EmptyDirectory' <=> EmptyDirectory
  BY DiskSame DEF EmptyDirectory
<1> QED BY <1>1, <1>2 DEF Settled, Committed

(* The next history, when it is committed, is the last one. *)
LEMMA NextSettles ==
    ASSUME NEW w \in Writers, Going(w), ExactTree(txn[w].next),
           UNCHANGED <<files, dirs, manifest, temps>>, Committed' = Committed \cup {txn[w].next}
    PROVE  Settled'
<1>0. TypeInv /\ Built(w) /\ LastCommitted(txn[w].base) /\ txn[w].next \in History
  BY GoingFacts
<1>n. PICK n \in History : n = txn[w].next
  BY <1>0
<1>1. Committed \subseteq History
  BY <1>0 DEF TypeInv, TypeOK, Committed
<1>2. ASSUME NEW g \in Committed' PROVE Extends(n, g)
  <2>1. CASE g = n
    BY <2>1, ExtendsSelf
  <2>2. CASE g \in Committed
    <3>1. txn[w].base # None /\ Extends(txn[w].base, g)
      BY <1>0, <2>2 DEF LastCommitted
    <3>2. txn[w].base \in History /\ Extends(n, txn[w].base)
      BY <1>0, <1>n, <3>1, BaseOfNext
    <3> QED BY <1>0, <1>1, <2>2, <3>1, <3>2, ExtendsTwice
  <2> QED BY <1>n, <2>1, <2>2
<1>3. ExactTree(n)' /\ n \in Committed'
  BY <1>n, SettledSame
<1> QED BY <1>2, <1>3 DEF Settled

(* The verification keeps the transaction as it is until it reports. *)
LEMMA ConfirmCalm ==
    ASSUME NEW w \in Writers, Going(w), Scan(w) \/ LoadManifest(w) \/ LoadFile(w) \/ Rescan(w)
    PROVE  Undoable(w)' \/ (End(w) /\ Settled')
<1>0. /\ FilesInv(w) /\ DirsInv(w) /\ Stage(w) /\ LastCommitted(txn[w].base) /\ dirs \subseteq Directory
  BY GoingFacts
<1>1. /\ pc[w] \in Verifying /\ UNCHANGED <<files, dirs, manifest, temps, unreported>>
      /\ \/ pc'[w] \in Verifying /\ UNCHANGED <<txn, owned, acked>>
         \/ End(w) /\ acked' = acked \cup {txn[w].next}
  BY ConfirmGoesOn
<1>2. ExactTree(txn[w].next) /\ AllFilled(w) /\ NextInPlace(w) /\ Whole(w) /\ temps = {}
  BY <1>0, <1>1, InstalledIsExact DEF Stage, Verifying
<1>3. CASE pc'[w] \in Verifying /\ UNCHANGED <<txn, owned, acked>>
  <2>1. FilesInv(w)' /\ DirsInv(w)' /\ LastCommitted(txn[w].base)' /\ DirsUsed(w)'
    BY <1>0, <1>1, <1>2, <1>3, TreeKept
  <2>2. Whole(w)' /\ NextInPlace(w)'
    BY <1>1, <1>2, <1>3 DEF Whole, NextInPlace, Mine
  <2>3. Stage(w)'
    BY <1>1, <1>2, <1>3, <2>2 DEF Stage, Forward, Verifying, Rollback
  <2> QED BY <2>1, <2>3 DEF Undoable
<1>4. CASE End(w) /\ acked' = acked \cup {txn[w].next}
  <2>1. Committed' = Committed \cup {txn[w].next}
    BY <1>1, <1>4 DEF Committed
  <2> QED BY <1>1, <1>2, <1>4, <2>1, NextSettles
<1> QED BY <1>1, <1>3, <1>4

(***************************************************************************)
(* The rollback, step by step.                                             *)
(***************************************************************************)
(* The manifest is still this transaction's, or still the base's. *)
LEMMA UndoManifestCalm ==
    ASSUME NEW w \in Writers, Going(w), UndoManifest(w)
    PROVE  Undoable(w)'
<1>0. /\ FilesInv(w) /\ DirsInv(w) /\ DirsUsed(w) /\ Stage(w) /\ LastCommitted(txn[w].base)
      /\ dirs \subseteq Directory /\ DOMAIN pc = Writers
  BY GoingFacts
<1>1. /\ pc[w] = "undo" /\ pc'[w] = (IF Mine(w) THEN "claim" ELSE "remove")
      /\ UNCHANGED <<files, dirs, manifest, temps, txn, owned, acked, unreported, faults>>
  BY <1>0 DEF UndoManifest, Rolls, GoTo, disk, outcome, bounds
<1>2. /\ AllFilled(w) /\ temps = {} /\ faults # 0
      /\ IF Mine(w) THEN NextInPlace(w) ELSE BaseInPlace(w)
  BY <1>0, <1>1, NothingAwaited DEF Stage, NextInPlace, BaseInPlace, Rollback
<1>3. FilesInv(w)' /\ DirsInv(w)' /\ LastCommitted(txn[w].base)' /\ DirsUsed(w)'
  BY <1>0, <1>1, <1>2, TreeKept
<1>4. (NextInPlace(w)' <=> NextInPlace(w)) /\ (BaseInPlace(w)' <=> BaseInPlace(w))
  BY <1>1 DEF NextInPlace, BaseInPlace, Mine
<1>5. Stage(w)'
  BY <1>1, <1>2, <1>4 DEF Stage, Forward, Verifying, Rollback
<1> QED BY <1>3, <1>5 DEF Undoable

(* What is claimed is this transaction's, and the base is what replaces it. *)
LEMMA ClaimManifestCalm ==
    ASSUME NEW w \in Writers, Going(w), ClaimManifest(w)
    PROVE  Undoable(w)'
<1> DEFINE b == txn[w].base
           t == [txn[w] EXCEPT !.back = b]
<1>0. /\ TypeInv /\ LockInv /\ w \in Open /\ FilesInv(w) /\ DirsInv(w) /\ DirsUsed(w) /\ Stage(w)
      /\ LastCommitted(b) /\ dirs \subseteq Directory /\ DOMAIN pc = Writers /\ DOMAIN txn = Writers
      /\ txn[w] \in Txn /\ None # txn[w].next
  BY GoingFacts
<1>1. pc[w] = "claim" /\ UNCHANGED <<files, dirs, temps, acked, unreported, faults>>
  BY DEF ClaimManifest, outcome, bounds
<1>2. AllFilled(w) /\ temps = {} /\ faults # 0 /\ NextInPlace(w)
  BY <1>0, <1>1, NothingAwaited DEF Stage, Rollback
<1>3. Claim(w, b)
  BY <1>0, <1>1, <1>2 DEF ClaimManifest, NextInPlace
<1>4. /\ manifest' = None /\ txn'[w] = t /\ pc'[w] = (IF b = None THEN "remove" ELSE "restore")
      /\ owned'[w] = owned[w] \ {ManifestPath}
  BY <1>0, <1>3, OwnsAlone DEF Claim, GoTo
<1>5. t.base = b /\ t.next = txn[w].next /\ t.back = b /\ ManifestPath \notin Path \cup Directory
  BY <1>0, Places DEF Txn
<1> HIDE DEF t
<1>6. FilesInv(w)' /\ DirsInv(w)' /\ LastCommitted(txn[w].base)' /\ DirsUsed(w)'
  BY <1>0, <1>1, <1>2, <1>4, <1>5, TreeKept
<1>7. Stage(w)'
  <2>1. ~Mine(w)'
    BY <1>4 DEF Mine
  <2>2. b = None => BaseInPlace(w)'
    BY <1>4, <1>5, <2>1 DEF BaseInPlace
  <2> QED BY <1>1, <1>2, <1>4, <1>5, <2>1, <2>2 DEF Stage, Forward, Verifying, Rollback
<1> QED BY <1>6, <1>7 DEF Undoable

(* The base is back. *)
LEMMA RestoreManifestCalm ==
    ASSUME NEW w \in Writers, Going(w), RestoreManifest(w)
    PROVE  Undoable(w)'
<1>0. /\ FilesInv(w) /\ DirsInv(w) /\ DirsUsed(w) /\ Stage(w) /\ LastCommitted(txn[w].base)
      /\ dirs \subseteq Directory /\ DOMAIN pc = Writers
  BY GoingFacts
<1>1. /\ pc[w] = "restore" /\ pc'[w] = "remove"
      /\ UNCHANGED <<files, dirs, temps, txn, owned, acked, unreported, faults>>
      /\ manifest' = IF manifest = None THEN txn[w].back ELSE manifest
  BY <1>0 DEF RestoreManifest, Reinstall, Rolls, GoTo, outcome, bounds
<1>2. /\ AllFilled(w) /\ temps = {} /\ faults # 0
      /\ manifest = None /\ txn[w].back = txn[w].base /\ ~Mine(w)
  BY <1>0, <1>1, NothingAwaited DEF Stage, Rollback
<1>3. FilesInv(w)' /\ DirsInv(w)' /\ LastCommitted(txn[w].base)' /\ DirsUsed(w)'
  BY <1>0, <1>1, <1>2, TreeKept
<1>4. BaseInPlace(w)'
  BY <1>1, <1>2 DEF BaseInPlace, Mine
<1>5. Stage(w)'
  BY <1>1, <1>2, <1>4 DEF Stage, Forward, Verifying, Rollback
<1> QED BY <1>3, <1>5 DEF Undoable

(* The last file created goes; its directory has to wait for the next step. *)
LEMMA RemoveFileCalm ==
    ASSUME NEW w \in Writers, Going(w), RemoveFile(w)
    PROVE  Undoable(w)'
<1> DEFINE x == LastCreated(w)
           t == [txn[w] EXCEPT !.gone = x]
<1>0. /\ TypeInv /\ LockInv /\ w \in Open /\ FilesInv(w) /\ DirsInv(w) /\ DirsUsed(w) /\ Stage(w)
      /\ LastCommitted(txn[w].base) /\ dirs \subseteq Directory /\ DOMAIN pc = Writers
      /\ DOMAIN txn = Writers /\ txn[w] \in Txn /\ files \in [Path -> History \cup {None}]
  BY GoingFacts
<1>1. /\ pc[w] = "remove" /\ Created(w) # {} /\ Removed(x) /\ pc'[w] = "prune" /\ txn'[w] = t
      /\ UNCHANGED <<dirs, manifest, temps, acked, unreported, faults>>
  BY <1>0 DEF RemoveFile, GoTo, outcome, bounds
<1>2. x \in owned[w] /\ x \in Path /\ x \in NewFiles(w) /\ x \notin Directory /\ x # ManifestPath
  BY <1>0, <1>1, RemovedFiles, Places DEF FilesInv
<1>3. t.base = txn[w].base /\ t.next = txn[w].next /\ t.gone = x
  BY <1>0 DEF Txn
<1> HIDE DEF t, x
<1>4. AllFilled(w) /\ temps = {} /\ faults # 0 /\ BaseInPlace(w)
  BY <1>0, <1>1, NothingAwaited DEF Stage, Rollback
<1>5. /\ owned'[w] = owned[w] \ {x} /\ files'[x] = None
      /\ \A y \in Path \ {x} : files'[y] = files[y]
  BY <1>0, <1>1, <1>2, OwnsAlone DEF Removed
<1>6. BaseFiles(w)' = BaseFiles(w) /\ NewFiles(w)' = NewFiles(w)
  BY <1>1, <1>3 DEF BaseFiles, NewFiles
<1>7. FilesInv(w)'
  <2> SUFFICES ASSUME NEW y \in Path
               PROVE  /\ files'[y] # None <=> y \in BaseFiles(w) \/ y \in owned'[w]
                      /\ y \in owned'[w] => y \in NewFiles(w) /\ files'[y] = Content(y, txn[w].next)
    BY <1>1, <1>3, <1>6 DEF FilesInv, Holds
  <2>1. CASE y = x
    BY <1>2, <1>5, <2>1 DEF NewFiles
  <2>2. CASE y # x
    BY <1>0, <1>5, <2>2 DEF FilesInv, Holds
  <2> QED BY <2>1, <2>2
<1>8. owned'[w] \cap Directory = owned[w] \cap Directory
  BY <1>2, <1>5
<1>9. DirsInv(w)'
  <2>1. \A y \in BaseFiles(w) : Parent(y) \notin owned'[w]
    BY <1>0, <1>5 DEF DirsInv
  <2> QED BY <1>0, <1>1, <1>6, <1>8, <2>1 DEF DirsInv
<1>10. DirsUsed(w)'
  <2> SUFFICES ASSUME NEW d \in owned[w] \cap Directory PROVE Filled(w, d)' \/ Awaits(w, d)'
    BY <1>8 DEF DirsUsed
  <2>1. PICK y \in Created(w) : Parent(y) = d
    BY <1>4 DEF AllFilled, Filled
  <2>2. CASE y = x
    BY <1>1, <1>3, <2>1, <2>2 DEF Awaits
  <2>3. CASE y # x
    <3>1. y \in Created(w)'
      BY <1>5, <2>1, <2>3 DEF Created
    <3> QED BY <2>1, <3>1 DEF Filled
  <2> QED BY <2>2, <2>3
<1>11. Stage(w)'
  <2>1. BaseInPlace(w)'
    BY <1>1, <1>2, <1>3, <1>4, <1>5 DEF BaseInPlace, Mine
  <2> QED BY <1>1, <1>2, <1>3, <1>4, <1>5, <1>6, <2>1 DEF Stage, Forward, Verifying, Rollback
<1>12. LastCommitted(txn[w].base)'
  BY <1>0, <1>1, <1>3 DEF LastCommitted, Committed
<1> QED BY <1>7, <1>9, <1>10, <1>11, <1>12 DEF Undoable

(* The directory made for it is empty, and goes too. *)
LEMMA PruneCalm ==
    ASSUME NEW w \in Writers, Going(w), Prune(w)
    PROVE  Undoable(w)'
<1> DEFINE x == txn[w].gone
           d == Parent(x)
           t == [txn[w] EXCEPT !.gone = None]
<1>0. /\ TypeInv /\ LockInv /\ w \in Open /\ FilesInv(w) /\ DirsInv(w) /\ DirsUsed(w) /\ Stage(w)
      /\ LastCommitted(txn[w].base) /\ dirs \subseteq Directory /\ DOMAIN pc = Writers
      /\ DOMAIN txn = Writers /\ txn[w] \in Txn /\ Built(w)
  BY GoingFacts
<1>1. /\ pc[w] = "prune" /\ Pruned(w, d) /\ pc'[w] = "remove" /\ txn'[w] = t
      /\ UNCHANGED <<files, manifest, temps, acked, unreported, faults>>
  BY <1>0 DEF Prune, GoOn, GoTo, outcome, bounds
<1>2. /\ x \in NewFiles(w) /\ files[x] = None /\ temps = {} /\ faults # 0 /\ BaseInPlace(w)
  BY <1>0, <1>1 DEF Stage, Rollback
<1>3. x \in Path /\ d \in Directory /\ d # Root /\ d \notin Path /\ d # ManifestPath
  BY <1>0, <1>2, BaseOfNext, Contents, Places DEF NewFiles, Place
<1>4. t.base = txn[w].base /\ t.next = txn[w].next
  BY <1>0 DEF Txn
<1>w. \A e : Awaits(w, e) => e = d
  BY <1>1 DEF Awaits
<1> HIDE DEF t, d, x
<1>5. ASSUME d \in owned[w] PROVE Entries(d) = {} /\ TempsIn(d) = {}
  <2>1. ASSUME NEW y \in Place, Parent(y) = d, Present(y) PROVE FALSE
    <3>1. y \in Path /\ files[y] # None
      BY <1>3, <2>1, Places DEF Present
    <3>2. y \notin BaseFiles(w)
      BY <1>0, <1>5, <2>1 DEF DirsInv
    <3>3. y \in NewFiles(w)
      BY <1>0, <3>1, <3>2 DEF FilesInv
    <3>4. y = x
      BY <1>0, <1>2, <2>1, <3>3, BaseOfNext DEF d
    <3> QED BY <1>2, <3>1, <3>4
  <2> QED BY <1>2, <2>1 DEF Entries, TempsIn
<1>6. owned'[w] = owned[w] \ {d} /\ dirs' = IF d \in owned[w] THEN dirs \ {d} ELSE dirs
  BY <1>0, <1>1, <1>5, OwnsAlone DEF Pruned
<1>7. BaseFiles(w)' = BaseFiles(w) /\ NewFiles(w)' = NewFiles(w) /\ Created(w)' = Created(w)
  BY <1>1, <1>3, <1>4, <1>6 DEF BaseFiles, NewFiles, Created
<1>8. FilesInv(w)'
  <2>1. \A y \in Path : y \in owned'[w] <=> y \in owned[w]
    BY <1>3, <1>6
  <2> QED BY <1>0, <1>1, <1>4, <1>7, <2>1 DEF FilesInv, Holds
<1>9. DirsInv(w)'
  <2>1. \A y \in BaseFiles(w) : Parent(y) \notin owned'[w] /\ (d \in owned[w] => Parent(y) # d)
    BY <1>0, <1>6 DEF DirsInv
  <2>2. dirs = {Parent(y) : y \in BaseFiles(w)} \cup (owned[w] \cap Directory)
    BY <1>0 DEF DirsInv
  <2>3. dirs' = {Parent(y) : y \in BaseFiles(w)} \cup (owned'[w] \cap Directory)
    BY <1>6, <2>1, <2>2
  <2> QED BY <1>7, <2>1, <2>3 DEF DirsInv
<1>10. DirsUsed(w)'
  BY <1>0, <1>6, <1>7, <1>w DEF DirsUsed, Filled
<1>11. Stage(w)'
  <2>1. BaseInPlace(w)'
    BY <1>1, <1>2, <1>3, <1>4, <1>6 DEF BaseInPlace, Mine
  <2> QED BY <1>1, <1>2, <2>1 DEF Stage, Forward, Verifying, Rollback
<1>12. LastCommitted(txn[w].base)'
  BY <1>0, <1>1, <1>4 DEF LastCommitted, Committed
<1> QED BY <1>8, <1>9, <1>10, <1>11, <1>12 DEF Undoable

(* All it created is gone: what is left is the base. *)
LEMMA SettleCalm ==
    ASSUME NEW w \in Writers, Going(w), Settle(w)
    PROVE  End(w) /\ Settled'
<1> DEFINE b == txn[w].base
<1>0. /\ TypeInv /\ FilesInv(w) /\ DirsInv(w) /\ DirsUsed(w) /\ Stage(w) /\ Built(w)
      /\ LastCommitted(b) /\ dirs \subseteq Directory /\ b \in History \cup {None}
      /\ owned \in [Writers -> SUBSET Place]
  BY GoingFacts
<1>1. /\ pc[w] = "remove" /\ Created(w) = {} /\ End(w)
      /\ UNCHANGED <<files, dirs, manifest, temps, acked, unreported>>
  BY DEF Settle, disk, outcome
<1>2. AllFilled(w) /\ temps = {} /\ manifest = b
  BY <1>0, <1>1, NothingAwaited DEF Stage, BaseInPlace
<1>3. owned[w] \cap Directory = {} /\ \A x \in Path : x \notin owned[w]
  BY <1>1, <1>2 DEF AllFilled, Filled, Created
<1>4. \A x \in Path : files[x] # None <=> x \in BaseFiles(w)
  BY <1>0, <1>3 DEF FilesInv
<1>5. dirs = {Parent(x) : x \in BaseFiles(w)}
  BY <1>0, <1>3 DEF DirsInv
<1>6. CASE b = None
  <2>1. BaseFiles(w) = {} /\ Committed = {} /\ manifest = None
    BY <1>0, <1>2, <1>6 DEF BaseFiles, LastCommitted
  <2>2. EmptyDirectory
    BY <1>2, <1>4, <1>5, <2>1 DEF EmptyDirectory, Present
  <2>3. Settled
    BY <2>1, <2>2 DEF Settled
  <2> QED BY <1>1, <2>3, SettledSame
<1>7. CASE b # None
  <2>1. b \in History /\ BaseFiles(w) = PathsOf(b) /\ \A x \in PathsOf(b) : Holds(x, b) /\ x \in Path
    BY <1>0, <1>7, Contents DEF BaseFiles, Built, FromBase
  <2>2. {x \in Path : files[x] # None} = PathsOf(b)
    BY <1>4, <2>1
  <2>3. ExactTree(b)
    BY <1>0, <1>2, <1>5, <2>1, <2>2, ExactPlaces
  <2>4. Settled
    BY <1>0, <1>7, <2>3 DEF Settled, LastCommitted
  <2> QED BY <1>1, <2>4, SettledSame
<1> QED BY <1>6, <1>7

(***************************************************************************)
(* The error.                                                              *)
(***************************************************************************)
(* A rollback starts on a directory the transaction has left in order. *)
LEMMA UndoCalm ==
    ASSUME NEW w \in Writers, Going(w), pc'[w] = "undo", faults' # 0, temps' = {},
           UNCHANGED <<files, dirs, manifest, txn, owned, acked, unreported>>,
           AllFilled(w), NextInPlace(w) \/ BaseInPlace(w)
    PROVE  Undoable(w)'
<1>0. /\ FilesInv(w) /\ DirsInv(w) /\ LastCommitted(txn[w].base) /\ dirs \subseteq Directory
  BY GoingFacts
<1>1. FilesInv(w)' /\ DirsInv(w)' /\ LastCommitted(txn[w].base)' /\ DirsUsed(w)'
  BY <1>0, TreeKept
<1>2. NextInPlace(w)' \/ BaseInPlace(w)'
  BY DEF NextInPlace, BaseInPlace, Mine
<1>3. Stage(w)'
  BY <1>2 DEF Stage, Forward, Verifying, Rollback
<1> QED BY <1>1, <1>3 DEF Undoable

(* In the first gap the directory made for the file is left without one. *)
LEMMA DirectoryLeft ==
    ASSUME NEW w \in Writers, Going(w), pc[w] \in {"write", "link"}, InNewDirectory(w),
           pc'[w] = "undo", UNCHANGED <<files, dirs, manifest, owned, txn>>
    PROVE  Stuck(w)'
<1>0. Built(w) /\ FilesInv(w) /\ DirsInv(w) /\ dirs \subseteq Directory /\ TypeInv
  BY GoingFacts
<1>1. ~Wrote(w) /\ Parent(Writing(w)) \in owned[w]
  BY DEF InNewDirectory
<1>2. /\ Writing(w) \in NewFiles(w) /\ Writing(w) \in Path /\ files[Writing(w)] = None
      /\ Writing(w) \notin owned[w] /\ BaseInPlace(w)
  BY <1>1, NotWritten
<1>3. PICK d \in Directory : d = Parent(Writing(w))
  BY <1>2, Places
<1>4. d \in dirs /\ d # Root /\ d \in owned[w]
  BY <1>0, <1>1, <1>3, Places DEF DirsInv, Place
<1>5. ASSUME NEW y \in Path, Parent(y) = d, files[y] # None \/ y \in owned[w] PROVE FALSE
  <2>1. y \notin BaseFiles(w)
    BY <1>0, <1>4, <1>5 DEF DirsInv
  <2>2. y \in NewFiles(w)
    BY <1>0, <1>5, <2>1 DEF FilesInv
  <2>3. y = Writing(w)
    BY <1>0, <1>2, <1>3, <1>5, <2>2, BaseOfNext
  <2> QED BY <1>2, <1>5, <2>3
<1>6. Entries(d)' = {}
  <2>1. \A y \in Place : Parent(y) = d => y \in Path
    BY <1>4, Places
  <2> QED BY <1>5, <2>1 DEF Entries, Present
<1>7. ~Filled(w, d)'
  BY <1>5 DEF Filled, Created
<1>8. EmptyLeft(w)'
  BY <1>4, <1>6, <1>7 DEF EmptyLeft
<1>9. ~Mine(w)'
  BY <1>2 DEF BaseInPlace, Mine
<1> QED BY <1>8, <1>9 DEF Stuck

(* An error while a file is written or linked. *)
LEMMA FailsFileCalm ==
    ASSUME NEW w \in Writers, Going(w), faults' # 0, ~gap, FailsWriting(w) \/ FailsLinking(w)
    PROVE  IF gap' THEN Stuck(w)' ELSE Undoable(w)'
<1>0. /\ TypeInv /\ LockInv /\ w \in Open /\ DirsUsed(w) /\ Stage(w) /\ DOMAIN pc = Writers
  BY GoingFacts
<1>1. /\ pc[w] \in {"write", "install", "link"} /\ pc'[w] = "undo"
      /\ UNCHANGED <<dirs, manifest, txn, acked, unreported>>
  BY <1>0 DEF FailsWriting, FailsLinking, Undo, UndoVisible, GoTo, disk, outcome
<1>2. BaseInPlace(w)
  BY <1>0, <1>1 DEF Stage, Forward
<1>3. ASSUME UNCHANGED <<files, owned>>, temps' = {},
             gap' = (gap \/ (pc[w] \in {"write", "link"} /\ InNewDirectory(w)))
      PROVE  IF gap' THEN Stuck(w)' ELSE Undoable(w)'
  <2>1. CASE pc[w] \in {"write", "link"} /\ InNewDirectory(w)
    <3>1. Stuck(w)' /\ gap'
      BY <1>1, <1>3, <2>1, DirectoryLeft
    <3> QED BY <3>1
  <2>2. CASE ~(pc[w] \in {"write", "link"} /\ InNewDirectory(w))
    <3>1. AllFilled(w)
      BY <1>0, <1>1, <2>2 DEF AllFilled, DirsUsed, Awaits, InNewDirectory
    <3>2. Undoable(w)' /\ ~gap'
      BY <1>1, <1>2, <1>3, <2>2, <3>1, UndoCalm
    <3> QED BY <3>2
  <2> QED BY <2>1, <2>2
<1>4. CASE FailsWriting(w)
  <2>1. UNCHANGED <<files, owned>> /\ temps' = {} /\ pc[w] # "link"
    BY <1>0, <1>4 DEF FailsWriting, Undo, disk, Stage
  <2>2. gap' = (gap \/ (pc[w] \in {"write", "link"} /\ InNewDirectory(w)))
    BY <1>4, <2>1 DEF FailsWriting
  <2> QED BY <1>3, <2>1, <2>2
<1>5. CASE FailsLinking(w)
  <2> DEFINE x == Writing(w)
  <2>0. pc[w] = "link" /\ ~Wrote(w) /\ temps \ {<<w, Parent(x)>>} = {} /\ x # ManifestPath
    BY <1>5, LinkedFile DEF FailsLinking
  <2>1. files[x] = None /\ x \in Path /\ x \in NewFiles(w) /\ x \notin owned[w]
    BY <2>0, NotWritten
  <2>2. CASE Unlink(w, x) /\ Undo(w) /\ gap' = (gap \/ InNewDirectory(w)) /\ UNCHANGED files
    <3>1. UNCHANGED <<files, owned>> /\ temps' = {}
          /\ gap' = (gap \/ (pc[w] \in {"write", "link"} /\ InNewDirectory(w)))
      BY <2>0, <2>2 DEF Undo, Unlink
    <3> QED BY <1>3, <3>1
  <2>3. CASE Unlink(w, x) /\ NewFile(w, x) /\ UndoVisible(w, x, TRUE)
    <3>1. Owns(w, x) /\ ~gap' /\ temps' = {}
      BY <2>0, <2>3 DEF UndoVisible, Unlink
    <3>2. FilesInv(w)' /\ DirsInv(w)' /\ DirsUsed(w)' /\ LastCommitted(txn[w].base)'
      BY <1>1, <2>0, <2>3, <3>1, NewFileCalm
    <3>3. owned'[w] = owned[w] \cup {x}
      BY <1>0, <3>1, OwnsAlone
    <3>4. BaseInPlace(w)'
      BY <1>1, <1>2, <2>0, <3>3 DEF BaseInPlace, Mine
    <3>5. Stage(w)'
      BY <1>1, <3>1, <3>4 DEF Stage, Forward, Verifying, Rollback
    <3> QED BY <3>1, <3>2, <3>5 DEF Undoable
  <2>4. CASE Unlink(w, x) /\ NewFile(w, x) /\ UndoVisible(w, x, FALSE)
    <3>1. owned'[w] = owned[w] \ {x} /\ gap' /\ files'[x] # None
      BY <1>0, <2>0, <2>4, OwnsAlone, LinkedFile DEF UndoVisible
    <3>2. ~Mine(w)' /\ BaseInPlace(w)'
      BY <1>1, <1>2, <3>1 DEF BaseInPlace, Mine
    <3>3. x \notin BaseFiles(w)' /\ x \notin owned'[w]
      BY <1>1, <2>1, <3>1 DEF BaseFiles, NewFiles
    <3>4. PICK y \in Path : y = x
      BY <2>1
    <3>5. FileLeft(w)'
      BY <3>1, <3>2, <3>3, <3>4 DEF FileLeft
    <3> QED BY <1>1, <3>1, <3>2, <3>5 DEF Stuck
  <2> QED BY <1>5, <2>1, <2>2, <2>3, <2>4 DEF FailsLinking
<1> QED BY <1>4, <1>5

(* An error while the manifest is replaced. *)
LEMMA FailsReplacingCalm ==
    ASSUME NEW w \in Writers, Going(w), faults' # 0, ~gap, FailsReplacing(w)
    PROVE  IF gap' THEN Stuck(w)' ELSE Undoable(w)'
<1>0. /\ TypeInv /\ LockInv /\ w \in Open /\ Stage(w) /\ DOMAIN pc = Writers /\ Built(w)
      /\ FilesInv(w) /\ txn[w].next \in History
  BY GoingFacts
<1>1. /\ pc[w] = "replace" /\ pc'[w] = "undo" /\ temps' = temps \ {<<w, Root>>}
      /\ UNCHANGED <<files, dirs, txn, acked, unreported>>
  BY <1>0 DEF FailsReplacing, Undo, UndoVisible, GoTo, outcome
<1>2. BaseInPlace(w) /\ Whole(w) /\ AllFilled(w) /\ temps' = {}
  BY <1>0, <1>1, BaseStays DEF Stage
<1>3. CASE Undo(w) /\ UNCHANGED <<manifest, scan, gap>>
  <2>1. Undoable(w)' /\ ~gap'
    BY <1>1, <1>2, <1>3, UndoCalm DEF Undo
  <2> QED BY <2>1
<1>4. CASE manifest' = txn[w].next /\ UndoVisible(w, ManifestPath, TRUE)
  <2>1. Owns(w, ManifestPath) /\ ~gap'
    BY <1>4 DEF UndoVisible
  <2>2. /\ FilesInv(w)' /\ DirsInv(w)' /\ LastCommitted(txn[w].base)' /\ DirsUsed(w)'
        /\ NextInPlace(w)' /\ temps' = {}
    BY <1>1, <1>4, <2>1, ManifestMoves
  <2>3. Stage(w)'
    BY <1>1, <2>2 DEF Stage, Forward, Verifying, Rollback
  <2> QED BY <2>1, <2>2, <2>3 DEF Undoable
<1>5. CASE manifest' = txn[w].next /\ UndoVisible(w, ManifestPath, FALSE)
  <2>1. owned'[w] = owned[w] \ {ManifestPath} /\ gap' /\ ~Mine(w)'
    BY <1>0, <1>5, OwnsAlone DEF UndoVisible, Mine
  <2>2. PICK x \in NewFiles(w) : x \in owned[w]
    BY <1>0, <1>2, WholeIsNext, BaseOfNext
  <2>3. x \in PathsOf(txn[w].next) /\ x # ManifestPath
    BY <1>0, <2>2, Contents, Places DEF NewFiles
  <2>4. ManifestLeft(w)'
    BY <1>1, <1>5, <2>1, <2>2, <2>3 DEF ManifestLeft
  <2> QED BY <1>1, <2>1, <2>4 DEF Stuck
<1> QED BY <1>3, <1>4, <1>5 DEF FailsReplacing

(* The one error a calm run may have, at each place where it may come. *)
LEMMA FaultCalm ==
    ASSUME NEW w \in Writers, Going(w), faults = 0, ~gap, Fault(w)
    PROVE  \/ IF gap' THEN Stuck(w)' ELSE Undoable(w)'
           \/ ~gap' /\ End(w) /\ Settled'
<1>0. Stage(w) /\ DOMAIN pc = Writers /\ (pc[w] \in Verifying => goal[w] = "confirm")
  BY GoingFacts
<1>1. faults' # 0 /\ pc[w] \notin Rollback
  BY <1>0 DEF Fault, Stage
<1>2. CASE FailsReading(w)
  <2>1. /\ pc[w] \in Verifying /\ Undo(w) /\ UNCHANGED <<files, dirs, manifest, temps, acked, unreported, gap>>
    BY <1>0, <1>2 DEF FailsReading, VerificationFails, disk, outcome
  <2>2. pc'[w] = "undo" /\ UNCHANGED <<txn, owned>> /\ temps' = {}
    BY <1>0, <2>1 DEF Undo, GoTo, Stage, Verifying
  <2>3. AllFilled(w) /\ NextInPlace(w)
    BY <2>1, InstalledIsExact
  <2> QED BY <1>1, <2>1, <2>2, <2>3, UndoCalm
<1>3. CASE FailsReporting(w)
  <2>1. /\ pc[w] \in Verifying /\ End(w) /\ unreported' = unreported \cup {txn[w].next}
        /\ UNCHANGED <<files, dirs, manifest, temps, acked, gap>>
    BY <1>3 DEF FailsReporting, disk, Verifying
  <2>2. ExactTree(txn[w].next) /\ Committed' = Committed \cup {txn[w].next}
    BY <2>1, InstalledIsExact DEF Committed
  <2> QED BY <2>1, <2>2, NextSettles
<1>4. CASE FailsWriting(w) \/ FailsLinking(w)
  BY <1>1, <1>4, FailsFileCalm
<1>5. CASE FailsReplacing(w)
  BY <1>1, <1>5, FailsReplacingCalm
<1>6. ~FailsRestoring(w) /\ ~FailsRemoving(w) /\ ~FailsSettling(w)
  BY <1>1 DEF FailsRestoring, FailsRemoving, FailsSettling, Rollback
<1> QED BY <1>2, <1>3, <1>4, <1>5, <1>6 DEF Fault

(***************************************************************************)
(* What an error in a gap has left, no later step removes.                 *)
(***************************************************************************)
Lingering(w) == RunInv /\ w \in Open /\ Built(w) /\ Stuck(w)

(* All of it, by name. *)
LEMMA LingeringFacts ==
    ASSUME NEW w \in Writers, Lingering(w)
    PROVE  /\ TypeInv /\ LockInv /\ w \in Open /\ Built(w) /\ Labels(w)
           /\ pc[w] \in {"undo", "remove", "prune"} /\ ~Mine(w)
           /\ (EmptyLeft(w) \/ FileLeft(w) \/ ManifestLeft(w))
           /\ dirs \subseteq Directory /\ DOMAIN pc = Writers /\ DOMAIN txn = Writers
           /\ owned \in [Writers -> SUBSET Place] /\ files \in [Path -> History \cup {None}]
           /\ txn[w] \in Txn /\ txn[w].next \in History /\ txn[w].base \in History \cup {None}
           /\ None # txn[w].next
<1>1. TypeInv /\ LockInv /\ Labels(w)
  BY DEF Lingering, RunInv, ReadInv, TypeInv
<1>2. /\ dirs \subseteq Directory /\ DOMAIN pc = Writers /\ DOMAIN txn = Writers
      /\ owned \in [Writers -> SUBSET Place] /\ files \in [Path -> History \cup {None}]
      /\ txn[w] \in Txn /\ txn[w].next \in History /\ txn[w].base \in History \cup {None}
  BY <1>1 DEF TypeInv, TypeOK, Txn
<1>3. None # txn[w].next
  BY <1>2, NoneAssumption
<1> QED BY <1>1, <1>2, <1>3 DEF Lingering, Stuck

(* A rollback that goes on removes nothing of it. *)
LEMMA StuckStays ==
    ASSUME NEW w \in Writers, Lingering(w),
           manifest' = manifest, txn'[w].base = txn[w].base, txn'[w].next = txn[w].next,
           pc'[w] \in {"undo", "remove", "prune"},
           NEW X, owned'[w] = owned[w] \ X,
           \A y \in Path : files'[y] = files[y] \/ (files'[y] = None /\ y \in owned[w]),
           \A y \in Path : y \in X => files'[y] = None,
           dirs' \subseteq dirs,
           \A d \in dirs : ~Filled(w, d) /\ (pc[w] = "prune" => Parent(txn[w].gone) # d)
                              => d \in dirs' /\ (pc'[w] = "prune" => Parent(txn'[w].gone) # d)
    PROVE  Stuck(w)'
<1>0. /\ ~Mine(w) /\ (EmptyLeft(w) \/ FileLeft(w) \/ ManifestLeft(w))
      /\ txn[w].next \in History
  BY LingeringFacts
<1>1. ~Mine(w)'
  BY <1>0 DEF Mine
<1>2. CASE EmptyLeft(w)
  <2>1. PICK d \in dirs : /\ Entries(d) = {} /\ ~Filled(w, d)
                          /\ pc[w] = "prune" => Parent(txn[w].gone) # d
    BY <1>2 DEF EmptyLeft
  <2>2. d \in dirs' /\ (pc'[w] = "prune" => Parent(txn'[w].gone) # d)
    BY <2>1
  <2>3. \A y \in Place : Present(y)' => Present(y)
    BY DEF Present
  <2>4. Entries(d)' = {}
    BY <2>1, <2>3 DEF Entries
  <2>5. ~Filled(w, d)'
    BY <2>1 DEF Filled, Created
  <2>6. EmptyLeft(w)'
    BY <2>2, <2>4, <2>5 DEF EmptyLeft
  <2> QED BY <1>1, <2>6 DEF Stuck
<1>3. CASE FileLeft(w)
  <2>1. PICK x \in Path : files[x] # None /\ x \notin BaseFiles(w) /\ x \notin owned[w]
    BY <1>3 DEF FileLeft
  <2>2. files'[x] # None /\ x \notin owned'[w] /\ x \notin BaseFiles(w)'
    BY <2>1 DEF BaseFiles
  <2>3. BaseInPlace(w)'
    BY <1>1, <1>3 DEF FileLeft, BaseInPlace
  <2>4. FileLeft(w)'
    BY <2>2, <2>3 DEF FileLeft
  <2> QED BY <1>1, <2>4 DEF Stuck
<1>4. CASE ManifestLeft(w)
  <2>1. PICK x \in PathsOf(txn[w].next) : x \in owned[w] \/ files[x] = None
    BY <1>4 DEF ManifestLeft
  <2>2. x \in Path
    BY <1>0, <2>1, Contents
  <2>3. x \in owned'[w] \/ files'[x] = None
    BY <2>1, <2>2
  <2>4. ManifestLeft(w)'
    BY <1>4, <2>1, <2>3 DEF ManifestLeft
  <2> QED BY <1>1, <2>4 DEF Stuck
<1> QED BY <1>0, <1>2, <1>3, <1>4

(* When the rollback ends, the directory does not verify. *)
LEMMA StuckSettles ==
    ASSUME NEW w \in Writers, Lingering(w), pc[w] = "remove", Created(w) = {}
    PROVE  ~Clean
<1>0. /\ TypeInv /\ (EmptyLeft(w) \/ FileLeft(w) \/ ManifestLeft(w))
      /\ dirs \subseteq Directory /\ txn[w].next \in History /\ txn[w].base \in History \cup {None}
      /\ None # txn[w].next /\ manifest \in History \cup {None}
  BY LingeringFacts DEF TypeInv, TypeOK
<1>1. CASE EmptyLeft(w)
  <2>1. PICK d \in dirs : Entries(d) = {}
    BY <1>1 DEF EmptyLeft
  <2>2. d \in Directory /\ d \in Place /\ Present(d) /\ d \notin Path /\ d # ManifestPath
    BY <1>0, Places DEF Place, Present
  <2>3. ASSUME manifest # None, ExactTree(manifest) PROVE FALSE
    <3>1. manifest \in History
      BY <1>0, <2>3
    <3>2. d \in Expected(manifest)
      BY <2>2, <2>3 DEF ExactTree
    <3>3. PICK x \in PathsOf(manifest) : Parent(x) = d
      BY <2>2, <3>1, <3>2, Contents DEF Expected
    <3>4. x \in Entries(d)
      BY <2>3, <3>1, <3>3, HeldIsThere DEF ExactTree, Entries
    <3> QED BY <2>1, <3>4
  <2> QED BY <2>2, <2>3 DEF Clean, EmptyDirectory
<1>2. CASE FileLeft(w)
  <2>1. PICK x \in Path : files[x] # None /\ x \notin BaseFiles(w)
    BY <1>2 DEF FileLeft
  <2>2. x \in Place /\ Present(x) /\ manifest = txn[w].base
    BY <1>2, <2>1 DEF Place, Present, FileLeft, BaseInPlace
  <2>3. ASSUME manifest # None, ExactTree(manifest) PROVE FALSE
    <3>1. x \in PathsOf(manifest) /\ manifest \in History
      BY <1>0, <2>1, <2>3, ExactFiles
    <3> QED BY <2>1, <2>2, <2>3, <3>1 DEF BaseFiles
  <2> QED BY <2>2, <2>3 DEF Clean, EmptyDirectory
<1>3. CASE ManifestLeft(w)
  <2>1. PICK x \in PathsOf(txn[w].next) : x \in owned[w] \/ files[x] = None
    BY <1>3 DEF ManifestLeft
  <2>2. x \in Path /\ files[x] = None /\ manifest = txn[w].next
    BY <1>0, <1>3, <2>1, Contents DEF Created, ManifestLeft
  <2>3. ManifestPath \in Place /\ Present(ManifestPath)
    BY <1>0, <2>2, Places DEF Place, Present
  <2>4. ASSUME ExactTree(manifest) PROVE FALSE
    BY <1>0, <2>1, <2>2, <2>4, ExactFiles
  <2> QED BY <2>3, <2>4 DEF Clean, EmptyDirectory
<1> QED BY <1>0, <1>1, <1>2, <1>3

(* Every step there is, for a transaction that is stuck. *)
LEMMA StuckNext ==
    ASSUME NEW w \in Writers, Lingering(w), UndoManifest(w) \/ RemoveFile(w) \/ Prune(w) \/ Settle(w)
    PROVE  Stuck(w)' \/ (End(w) /\ ~Clean')
<1>0. /\ TypeInv /\ LockInv /\ w \in Open /\ Labels(w) /\ ~Mine(w) /\ dirs \subseteq Directory
      /\ DOMAIN pc = Writers /\ DOMAIN txn = Writers /\ txn[w] \in Txn
      /\ files \in [Path -> History \cup {None}]
  BY LingeringFacts
<1>1. CASE UndoManifest(w)
  <2>1. /\ pc[w] = "undo" /\ pc'[w] = "remove"
        /\ UNCHANGED <<files, dirs, manifest, txn, owned>>
    BY <1>0, <1>1 DEF UndoManifest, Rolls, GoTo, disk
  <2> DEFINE X == {}
  <2>0. owned'[w] = owned[w] \ X /\ \A y \in Path : y \notin X
    BY <2>1
  <2> HIDE DEF X
  <2>2. /\ manifest' = manifest /\ dirs' \subseteq dirs
        /\ txn'[w].base = txn[w].base /\ txn'[w].next = txn[w].next
        /\ pc'[w] \in {"undo", "remove", "prune"}
    BY <2>1
  <2>3. \A y \in Path : files'[y] = files[y] \/ (files'[y] = None /\ y \in owned[w])
    BY <2>1
  <2>4. \A y \in Path : y \in X => files'[y] = None
    BY <2>0
  <2>5. \A d \in dirs : ~Filled(w, d) /\ (pc[w] = "prune" => Parent(txn[w].gone) # d)
                            => d \in dirs' /\ (pc'[w] = "prune" => Parent(txn'[w].gone) # d)
    BY <2>1
  <2>6. Stuck(w)'
    BY <2>0, <2>2, <2>3, <2>4, <2>5, StuckStays
  <2> QED BY <2>6
<1>2. CASE RemoveFile(w)
  <2> DEFINE x == LastCreated(w)
             t == [txn[w] EXCEPT !.gone = x]
  <2>1. /\ pc[w] = "remove" /\ pc'[w] = "prune" /\ txn'[w] = t /\ Created(w) # {} /\ Removed(x)
        /\ UNCHANGED <<dirs, manifest>>
    BY <1>0, <1>2 DEF RemoveFile, GoTo
  <2>2. x \in owned[w] /\ x \in Path /\ x \in Created(w)
    BY <1>0, <2>1, RemovedFiles DEF Created
  <2>3. t.base = txn[w].base /\ t.next = txn[w].next /\ t.gone = x
    BY <1>0 DEF Txn
  <2>4. owned'[w] = owned[w] \ {x} /\ \A y \in Path : files'[y] = IF y = x THEN None ELSE files[y]
    BY <1>0, <2>1, <2>2, OwnsAlone DEF Removed
  <2>5. \A d : ~Filled(w, d) => Parent(x) # d
    BY <2>2 DEF Filled
  <2> HIDE DEF t, x
  <2>6. /\ manifest' = manifest /\ dirs' \subseteq dirs
        /\ txn'[w].base = txn[w].base /\ txn'[w].next = txn[w].next
        /\ pc'[w] \in {"undo", "remove", "prune"}
    BY <2>1, <2>3
  <2>7. \A y \in Path : files'[y] = files[y] \/ (files'[y] = None /\ y \in owned[w])
    BY <2>2, <2>4
  <2>8. \A y \in Path : y \in {x} => files'[y] = None
    BY <2>4
  <2>9. \A d \in dirs : ~Filled(w, d) /\ (pc[w] = "prune" => Parent(txn[w].gone) # d)
                            => d \in dirs' /\ (pc'[w] = "prune" => Parent(txn'[w].gone) # d)
    BY <2>1, <2>3, <2>5
  <2>10. owned'[w] = owned[w] \ {x}
    BY <2>4
  <2>11. Stuck(w)'
    BY <2>6, <2>7, <2>8, <2>9, <2>10, StuckStays
  <2> QED BY <2>11
<1>3. CASE Prune(w)
  <2> DEFINE d == Parent(txn[w].gone)
             t == [txn[w] EXCEPT !.gone = None]
  <2>1. /\ pc[w] = "prune" /\ pc'[w] = "remove" /\ txn'[w] = t /\ Pruned(w, d)
        /\ UNCHANGED <<files, manifest>>
    BY <1>0, <1>3 DEF Prune, GoOn, GoTo
  <2>2. d \in Directory /\ d \notin Path
    BY <1>0, <2>1, Places DEF Labels, Txn
  <2>3. t.base = txn[w].base /\ t.next = txn[w].next
    BY <1>0 DEF Txn
  <2> HIDE DEF t
  <2>4. PICK X \in SUBSET {d} : owned'[w] = owned[w] \ X
    <3>1. CASE NoneOwns(d)
      <4>1. owned'[w] = owned[w] \ {d}
        BY <1>0, <3>1 DEF NoneOwns, TypeInv, TypeOK
      <4> QED BY <4>1
    <3>2. CASE UNCHANGED owned
      <4>1. owned'[w] = owned[w] \ {}
        BY <3>2
      <4> QED BY <4>1
    <3> QED BY <2>1, <3>1, <3>2 DEF Pruned
  <2>5. dirs' = dirs \/ dirs' = dirs \ {d}
    BY <2>1 DEF Pruned
  <2>6. /\ manifest' = manifest /\ dirs' \subseteq dirs
        /\ txn'[w].base = txn[w].base /\ txn'[w].next = txn[w].next
        /\ pc'[w] \in {"undo", "remove", "prune"}
    BY <2>1, <2>3, <2>5
  <2>7. \A y \in Path : files'[y] = files[y] \/ (files'[y] = None /\ y \in owned[w])
    BY <2>1
  <2>8. \A y \in Path : y \in X => files'[y] = None
    BY <2>2, <2>4
  <2>9. \A e \in dirs : ~Filled(w, e) /\ (pc[w] = "prune" => Parent(txn[w].gone) # e)
                            => e \in dirs' /\ (pc'[w] = "prune" => Parent(txn'[w].gone) # e)
    BY <2>1, <2>5 DEF d
  <2> HIDE DEF d
  <2>10. Stuck(w)'
    BY <2>4, <2>6, <2>7, <2>8, <2>9, StuckStays
  <2> QED BY <2>10
<1>4. CASE Settle(w)
  <2>1. /\ pc[w] = "remove" /\ Created(w) = {} /\ End(w) /\ UNCHANGED <<files, dirs, manifest, temps>>
    BY <1>4 DEF Settle, disk
  <2> QED BY <2>1, StuckSettles, CleanSame
<1> QED BY <1>1, <1>2, <1>3, <1>4

--------------------------------------------------------------------------------
(***************************************************************************)
(* A calm run.                                                             *)
(***************************************************************************)
(* Only errors and kills count, and only an error can hit a gap. *)
LEMMA Counts ==
    ASSUME NEW w \in Writers, ActionOf(w)
    PROVE  /\ UNCHANGED faults \/ (Fault(w) /\ faults' = faults + 1)
           /\ UNCHANGED crashes \/ (Crash(w) /\ crashes' = crashes + 1)
           /\ Fault(w) \/ UNCHANGED gap
<1>1. CASE Verify(w)
  BY <1>1 DEF Verify, StartRead, Scan, LoadManifest, LoadFile, Rescan, SecondVisit, bounds
<1>2. CASE Initialize(w) \/ \E a \in Answers : StartSubmit(w, a)
  BY <1>2 DEF Initialize, StartSubmit, Submit, bounds
<1>3. CASE Commit(w)
  BY <1>3 DEF Commit, MakeDirectory, WriteFile, LinkFile, Recheck, StageManifest, ReplaceManifest, bounds
<1>4. CASE RollBack(w)
  BY <1>4 DEF RollBack, UndoManifest, ClaimManifest, RestoreManifest, RemoveFile, Prune, Settle, bounds
<1>5. CASE Fault(w)
  BY <1>5 DEF Fault
<1>6. CASE Crash(w)
  BY <1>6 DEF Crash
<1> QED BY <1>1, <1>2, <1>3, <1>4, <1>5, <1>6 DEF ActionOf

(* Outside a transaction nothing is committed and no gap is open. *)
LEMMA OutsideKeeps ==
    ASSUME TypeInv, LockInv, NEW w \in Writers, w \notin Open, ActionOf(w)
    PROVE  UNCHANGED <<unreported, gap>>
<1>0. pc[w] \notin Forward \cup Rollback /\ (pc[w] \in Verifying => goal[w] # "confirm")
  BY DEF LockInv, Locked, Open, InTransaction, Verifying, Forward, Rollback
<1>1. CASE Verify(w)
  <2>1. CASE StartRead(w)
    BY <2>1 DEF StartRead, outcome, bounds
  <2>2. CASE Scan(w) \/ LoadManifest(w) \/ LoadFile(w)
    BY <2>2 DEF Scan, LoadManifest, LoadFile, outcome, bounds
  <2>3. CASE Rescan(w)
    <3>1. pc[w] \in Verifying
      BY <2>3 DEF Rescan, SecondVisit, Reaches, Verifying
    <3>2. goal[w] \in {"read", "submit"}
      BY <1>0, <3>1 DEF TypeInv, TypeOK
    <3>3. Verified(w) => UNCHANGED unreported
      BY <3>2 DEF Verified, outcome
    <3> QED BY <2>3, <3>3 DEF Rescan, SecondVisit, outcome, bounds
  <2> QED BY <1>1, <2>1, <2>2, <2>3 DEF Verify
<1>2. CASE Initialize(w) \/ \E a \in Answers : StartSubmit(w, a)
  BY <1>2 DEF Initialize, StartSubmit, Submit, outcome, bounds
<1>3. ~Commit(w)
  BY <1>0 DEF Commit, MakeDirectory, WriteFile, LinkFile, Recheck, StageManifest, ReplaceManifest, Forward
<1>4. ~RollBack(w)
  BY <1>0 DEF RollBack, UndoManifest, ClaimManifest, RestoreManifest, RemoveFile, Prune, Settle, Rollback
<1>5. CASE Fault(w)
  <2>1. FailsReading(w)
    BY <1>0, <1>5 DEF Fault, FailsReporting, FailsWriting, FailsLinking, FailsReplacing, FailsRestoring,
       FailsRemoving, FailsSettling, Forward, Rollback, Verifying
  <2> QED BY <2>1 DEF FailsReading, outcome
<1>6. CASE Crash(w)
  BY <1>6 DEF Crash
<1> QED BY <1>1, <1>2, <1>3, <1>4, <1>5, <1>6 DEF ActionOf

(* An open transaction goes on, ends well, or is stuck because of its one error. *)
LEMMA OpenCalm ==
    ASSUME RunInv, CalmInv, NEW w \in Open, ActionOf(w), Calm, Calm'
    PROVE  \/ IF gap' THEN Stuck(w)' ELSE Undoable(w)'
           \/ End(w) /\ (IF gap' THEN ~Clean' ELSE Settled')
<1>0. /\ TypeInv /\ w \in Writers /\ Built(w) /\ pc[w] # "idle"
      /\ faults \in Nat /\ crashes \in Nat /\ gap \in BOOLEAN
  BY BoundsAssumption DEF RunInv, ReadInv, TypeInv, TypeOK, DataInv, Open, InTransaction
<1>1. /\ ~Crash(w)
      /\ Fault(w) => faults = 0
      /\ Fault(w) \/ gap' = gap
  BY <1>0, Counts DEF Calm, Crash, Fault
<1>2. ~StartRead(w) /\ ~Initialize(w) /\ \A a \in Answers : ~StartSubmit(w, a)
  BY <1>0 DEF StartRead, Initialize, StartSubmit, Submit
<1>3. CASE gap
  <2>1. Stuck(w) /\ faults # 0
    BY <1>3 DEF CalmInv
  <2>2. Lingering(w) /\ ~Fault(w) /\ pc[w] \in {"undo", "remove", "prune"}
    BY <1>0, <1>1, <2>1 DEF Lingering, Stuck
  <2>3. ~Scan(w) /\ ~LoadManifest(w) /\ ~LoadFile(w) /\ ~Rescan(w)
    BY <2>2 DEF Scan, LoadManifest, LoadFile, Rescan, SecondVisit, Reaches
  <2>4. ~Commit(w)
    BY <2>2 DEF Commit, MakeDirectory, WriteFile, LinkFile, Recheck, StageManifest, ReplaceManifest
  <2>5. ~ClaimManifest(w) /\ ~RestoreManifest(w)
    BY <2>2 DEF ClaimManifest, RestoreManifest
  <2>6. UndoManifest(w) \/ RemoveFile(w) \/ Prune(w) \/ Settle(w)
    BY <1>1, <1>2, <2>2, <2>3, <2>4, <2>5 DEF ActionOf, Verify, RollBack
  <2> QED BY <1>0, <1>1, <1>3, <2>2, <2>6, StuckNext
<1>4. CASE ~gap
  <2>1. Going(w)
    BY <1>0, <1>4 DEF CalmInv, Going
  <2>2. CASE Fault(w)
    BY <1>0, <1>1, <1>4, <2>1, <2>2, FaultCalm
  <2>3. CASE ~Fault(w)
    <3>1. ~gap'
      BY <1>1, <1>4, <2>3
    <3>2. CASE Scan(w) \/ LoadManifest(w) \/ LoadFile(w) \/ Rescan(w)
      BY <1>0, <2>1, <3>1, <3>2, ConfirmCalm
    <3>3. CASE Commit(w)
      BY <1>0, <2>1, <3>1, <3>3, MakeDirectoryCalm, WriteFileCalm, LinkFileCalm, RecheckCalm,
         StageManifestCalm, ReplaceManifestCalm DEF Commit
    <3>4. CASE RollBack(w)
      BY <1>0, <2>1, <3>1, <3>4, UndoManifestCalm, ClaimManifestCalm, RestoreManifestCalm,
         RemoveFileCalm, PruneCalm, SettleCalm DEF RollBack
    <3> QED BY <1>1, <1>2, <2>3, <3>2, <3>3, <3>4 DEF ActionOf, Verify
  <2> QED BY <2>2, <2>3
<1> QED BY <1>3, <1>4

(* The files a transaction brings are not those of its base. *)
Brings == \A w \in Writers : TypeInv /\ Built(w) =>
    \A i \in 1..Len(Snapshot(txn[w].next)) :
        Snapshot(txn[w].next)[i] \in Path /\ Snapshot(txn[w].next)[i] \notin BaseFiles(w)

(* So it is now, *)
LEMMA BringsNow == Brings
<1> SUFFICES ASSUME NEW w \in Writers, TypeInv, Built(w), NEW i \in 1..Len(Snapshot(txn[w].next))
             PROVE  Snapshot(txn[w].next)[i] \in Path /\ Snapshot(txn[w].next)[i] \notin BaseFiles(w)
  BY DEF Brings
<1>1. Snapshot(txn[w].next)[i] \in NewFiles(w) /\ txn[w].next \in History
  BY BaseOfNext
<1> QED BY <1>1, Contents DEF NewFiles

(* and so it is after any step. *)
LEMMA BringsThen == Brings'
  BY BringsNow, PTL

(* What a transaction is opened on is the last run committed, or nothing. *)
LEMMA OpensCalm ==
    ASSUME RunInv, RunInv', Settled, NEW w \in Writers, Opens(w), UNCHANGED unreported
    PROVE  Undoable(w)'
<1> DEFINE b == txn'[w].base
<1>0. /\ TypeInv /\ TypeInv' /\ Built(w)' /\ Committed' = Committed /\ Committed \subseteq History
      /\ UNCHANGED <<files, dirs, manifest, temps>> /\ pc'[w] = "write" /\ owned'[w] = {}
      /\ txn'[w].index = 1 /\ dirs \subseteq Directory
  <2>1. TypeInv /\ TypeInv' /\ LockInv
    BY DEF RunInv, ReadInv
  <2>2. w \in Open'
    BY <2>1, OpensAlone
  <2>3. Built(w)'
    BY <2>2 DEF RunInv, DataInv
  <2> QED BY <2>1, <2>3 DEF Opens, Idle, Committed, TypeInv, TypeOK
<1>1. /\ temps = {} /\ manifest = b
      /\ \A x \in Path : files[x] # None <=> x \in BaseFiles(w)'
      /\ dirs = {Parent(x) : x \in BaseFiles(w)'}
      /\ LastCommitted(txn[w].base)'
  <2>1. CASE EmptyDirectory /\ b = None
    <3>1. ASSUME NEW h \in Committed, ExactTree(h) PROVE FALSE
      <4>1. Present(ManifestPath) /\ ManifestPath \in Place
        BY <1>0, <3>1, NoneAssumption, Places DEF ExactTree, Present, Place
      <4> QED BY <2>1, <4>1 DEF EmptyDirectory
    <3>2. Committed = {}
      BY <3>1 DEF Settled
    <3>3. temps = {} /\ manifest = None /\ dirs = {} /\ \A x \in Path : files[x] = None
      <4>1. \A x \in Place : ~Present(x)
        BY <2>1 DEF EmptyDirectory
      <4>2. manifest = None
        BY <4>1, Places DEF Present, Place
      <4>3. \A d \in Directory : d \notin dirs
        BY <4>1, Places DEF Present, Place
      <4>4. \A x \in Path : files[x] = None
        BY <4>1 DEF Present, Place
      <4> QED BY <1>0, <2>1, <4>2, <4>3, <4>4 DEF EmptyDirectory
    <3>4. BaseFiles(w)' = {}
      BY <2>1 DEF BaseFiles
    <3> QED BY <1>0, <2>1, <3>2, <3>3, <3>4 DEF LastCommitted
  <2>2. CASE b \in History /\ ExactTree(b)
    <3>1. b # None /\ temps = {} /\ manifest = b /\ BaseFiles(w)' = PathsOf(b)
      BY <2>2, NoneAssumption DEF ExactTree, BaseFiles
    <3>2. \A x \in Path : files[x] # None <=> x \in PathsOf(b)
      BY <2>2, ExactFiles
    <3>3. dirs = {Parent(x) : x \in PathsOf(b)}
      <4>1. \A d \in Directory : d \in dirs <=> d \in Expected(b)
        BY <2>2, Places DEF ExactTree, Present, Place
      <4>2. \A x \in PathsOf(b) : x \in Path /\ Parent(x) \in Directory
        BY <2>2, Contents, Places
      <4>3. \A d \in Directory : d \in Expected(b) <=> d \in {Parent(x) : x \in PathsOf(b)}
        BY <4>2, Places DEF Expected
      <4> QED BY <1>0, <4>1, <4>2, <4>3
    <3>4. Committed # {}
      <4>1. Present(ManifestPath) /\ ManifestPath \in Place
        BY <3>1, Places DEF Present, Place
      <4> QED BY <4>1 DEF Settled, EmptyDirectory
    <3>5. PICK h \in Committed : ExactTree(h) /\ \A g \in Committed : Extends(h, g)
      BY <3>4 DEF Settled
    <3>6. h = b
      BY <3>1, <3>5 DEF ExactTree
    <3> QED BY <1>0, <3>1, <3>2, <3>3, <3>5, <3>6 DEF LastCommitted
  <2> QED BY <2>1, <2>2 DEF Opens
<1>2. FilesInv(w)'
  BY <1>0, <1>1 DEF FilesInv
<1>3. DirsInv(w)' /\ DirsUsed(w)'
  BY <1>0, <1>1 DEF DirsInv, DirsUsed
<1>4. BaseInPlace(w)'
  BY <1>0, <1>1 DEF BaseInPlace, Mine
<1>5. WrittenTo(w, txn[w].index)'
  <2>2. \A i \in 1..Len(Snapshot(txn'[w].next)) :
            Snapshot(txn'[w].next)[i] \in Path /\ Snapshot(txn'[w].next)[i] \notin BaseFiles(w)'
    BY <1>0, BringsThen DEF Brings
  <2>3. \A i \in 1..Len(Snapshot(txn'[w].next)) : files'[Snapshot(txn'[w].next)[i]] = None /\ ~(i < 1)
    BY <1>0, <1>1, <2>2
  <2> QED BY <1>0, <2>3 DEF WrittenTo
<1>6. Stage(w)'
  BY <1>0, <1>1, <1>4, <1>5 DEF Stage, Forward, Verifying, Rollback
<1> QED BY <1>0, <1>1, <1>2, <1>3, <1>6 DEF Undoable

(* Whatever is not open stays as it is when another writer looks around. *)
LEMMA OutsideStays ==
    ASSUME TypeInv, NEW w \in Writers, w \notin Open, Passes(w), crashes' = crashes,
           crashes \in Nat
    PROVE  Idle /\ Open' = Open /\ \A v \in Open : txn'[v] = txn[v] /\ pc'[v] = pc[v] /\ owned'[v] = owned[v]
<1>1. ~Dies
  BY DEF Dies
<1>2. Idle /\ OthersKeep(w)
  BY <1>1, EndLeaves DEF Passes, Looks, Asks, Leaves
<1>3. Open' \subseteq Open
  BY NothingOpened
<1>4. \A v \in Open : v \in Open' /\ txn'[v] = txn[v] /\ pc'[v] = pc[v] /\ owned'[v] = owned[v]
  BY <1>2, OthersStayOpen DEF Open
<1> QED BY <1>2, <1>3, <1>4

(* What is known of a transaction depends on nothing else. *)
LEMMA UndoableSame ==
    ASSUME NEW w \in Writers, UNCHANGED <<files, dirs, manifest, temps, acked, unreported>>,
           txn'[w] = txn[w], pc'[w] = pc[w], owned'[w] = owned[w], faults # 0 => faults' # 0
    PROVE  (Undoable(w) => Undoable(w)') /\ (Stuck(w) => Stuck(w)')
<1>1. ASSUME Undoable(w) PROVE Undoable(w)'
  <2>1. BaseFiles(w)' = BaseFiles(w) /\ NewFiles(w)' = NewFiles(w)
    BY DEF BaseFiles, NewFiles
  <2>2. FilesInv(w)' /\ DirsInv(w)'
    BY <1>1, <2>1 DEF Undoable, FilesInv, DirsInv, Holds
  <2>3. DirsUsed(w)'
    BY <1>1 DEF Undoable, DirsUsed, Filled, Created, Awaits, Wrote, Writing
  <2>4. (BaseInPlace(w)' <=> BaseInPlace(w)) /\ (NextInPlace(w)' <=> NextInPlace(w))
        /\ (Whole(w)' <=> Whole(w)) /\ (WrittenTo(w, txn[w].index)' <=> WrittenTo(w, txn[w].index))
        /\ (Mine(w)' <=> Mine(w)) /\ Writing(w)' = Writing(w)
    BY DEF BaseInPlace, NextInPlace, Mine, Whole, WrittenTo, Writing
  <2>5. Stage(w)'
    BY <1>1, <2>1, <2>4 DEF Undoable, Stage
  <2>6. LastCommitted(txn[w].base)'
    BY <1>1 DEF Undoable, LastCommitted, Committed
  <2> QED BY <2>2, <2>3, <2>5, <2>6 DEF Undoable
<1>2. ASSUME Stuck(w) PROVE Stuck(w)'
  <2>1. \A d : Entries(d)' = Entries(d)
    BY DiskSame
  <2>2. EmptyLeft(w) => EmptyLeft(w)'
    BY <2>1 DEF EmptyLeft, Filled, Created
  <2>3. FileLeft(w) => FileLeft(w)'
    BY DEF FileLeft, BaseInPlace, Mine, BaseFiles
  <2>4. ManifestLeft(w) => ManifestLeft(w)'
    BY DEF ManifestLeft
  <2> QED BY <1>2, <2>2, <2>3, <2>4 DEF Stuck, Mine
<1> QED BY <1>1, <1>2

(* One step of a writer keeps a calm run calm. *)
LEMMA CalmAction ==
    ASSUME RunInv, RunInv', CalmInv, NEW w \in Writers, ActionOf(w), StepOf(w), Calm'
    PROVE  /\ gap' => faults' # 0
           /\ Open' = {} => IF gap' THEN ~Clean' ELSE Settled'
           /\ \A v \in Open' : IF gap' THEN Stuck(v)' ELSE Undoable(v)'
<1>0. TypeInv /\ LockInv /\ faults \in Nat /\ crashes \in Nat /\ gap \in BOOLEAN
  BY BoundsAssumption DEF RunInv, ReadInv, TypeInv, TypeOK
<1>1. Calm /\ crashes' = crashes /\ (faults # 0 => faults' # 0)
  BY <1>0, Counts DEF Calm
<1>2. /\ gap => faults # 0
      /\ Open = {} => IF gap THEN ~Clean ELSE Settled
      /\ \A v \in Open : IF gap THEN Stuck(v) ELSE Undoable(v)
  BY <1>1 DEF CalmInv
<1>3. gap' => faults' # 0
  <2>1. CASE Fault(w)
    <3>1. faults' # 0
      BY <1>0, <2>1 DEF Fault
    <3> QED BY <3>1
  <2>2. CASE ~Fault(w)
    <3>1. gap' = gap
      BY <2>2, Counts
    <3> QED BY <1>1, <1>2, <3>1
  <2> QED BY <2>1, <2>2
<1>4. CASE w \in Open
  <2>1. Open = {w} /\ InTransaction(w) /\ (pc[w] \in Verifying => goal[w] = "confirm")
    BY <1>0, <1>4, OnlyOpen DEF Open
  <2>2. CASE End(w) /\ (IF gap' THEN ~Clean' ELSE Settled')
    <3>1. pc'[w] = "idle" /\ OthersKeep(w)
      BY <1>0, <2>2, EndLeaves
    <3>2. w \notin Open' /\ \A v \in Writers \ {w} : v \notin Open'
      BY <2>1, <3>1, OthersStayOpen DEF Open, InTransaction
    <3>3. Open' = {}
      BY <3>2 DEF Open
    <3> QED BY <1>3, <2>2, <3>3
  <2>3. CASE IF gap' THEN Stuck(w)' ELSE Undoable(w)'
    <3>1. pc'[w] # "idle"
      BY <2>3 DEF Stuck, Undoable, Stage
    <3>2. ~Looks(w) /\ ~Asks(w) /\ ~Opens(w) /\ ~Dies
      BY <2>1, <3>1 DEF Looks, Asks, Opens, Dies, InTransaction, Verifying
    <3>3. ~End(w)
      BY <1>0, <3>1, EndLeaves
    <3>4. Works(w)
      BY <3>2, <3>3 DEF StepOf, Leaves, Acknowledges
    <3>5. Open' = {w}
      BY <1>0, <3>4, WorksAlone
    <3> QED BY <1>3, <2>3, <3>5
  <2> QED BY <1>1, <1>4, <2>2, <2>3, OpenCalm
<1>5. CASE w \notin Open
  <2>1. UNCHANGED <<unreported, gap>>
    BY <1>0, <1>5, OutsideKeeps
  <2>2. CASE Passes(w)
    <3>1. Idle /\ Open' = Open /\ \A v \in Open : txn'[v] = txn[v] /\ pc'[v] = pc[v] /\ owned'[v] = owned[v]
      BY <1>0, <1>1, <1>5, <2>2, OutsideStays
    <3>2. (Settled' <=> Settled) /\ (Clean' <=> Clean)
      BY <2>1, <3>1, SettledSame, CleanSame DEF Idle
    <3>3. ASSUME NEW v \in Open PROVE IF gap' THEN Stuck(v)' ELSE Undoable(v)'
      <4>1. v \in Writers
        BY DEF Open
      <4>2. (Undoable(v) => Undoable(v)') /\ (Stuck(v) => Stuck(v)')
        BY <1>1, <2>1, <3>1, <4>1, UndoableSame DEF Idle
      <4> QED BY <1>2, <2>1, <4>2
    <3> QED BY <1>2, <1>3, <2>1, <3>1, <3>2, <3>3
  <2>3. CASE Opens(w)
    <3>1. Open = {} /\ Open' = {w}
      BY <1>0, <2>3, OpensAlone
    <3>2. Clean
      <4>1. CASE EmptyDirectory
        BY <4>1 DEF Clean
      <4>2. CASE txn'[w].base \in History /\ ExactTree(txn'[w].base)
        <5>1. manifest = txn'[w].base /\ manifest # None
          BY <4>2, NoneAssumption DEF ExactTree
        <5> QED BY <4>2, <5>1 DEF Clean
      <4> QED BY <2>3, <4>1, <4>2 DEF Opens
    <3>3. ~gap /\ Settled
      BY <1>2, <3>1, <3>2
    <3>4. Undoable(w)'
      BY <2>1, <2>3, <3>3, OpensCalm
    <3> QED BY <1>3, <2>1, <3>1, <3>3, <3>4
  <2>4. ~Works(w) /\ ~Acknowledges(w)
    BY <1>5 DEF Works, Acknowledges
  <2> QED BY <2>2, <2>3, <2>4 DEF StepOf, Passes
<1> QED BY <1>4, <1>5

(* A step that changes nothing does so too. *)
LEMMA CalmStutters ==
    ASSUME CalmInv, UNCHANGED vars
    PROVE  CalmInv'
<1>0. /\ UNCHANGED <<files, dirs, manifest, temps, acked, unreported, pc, goal, txn, owned>>
      /\ UNCHANGED <<gap, faults, crashes>>
  BY DEF vars
<1>1. Open' = Open /\ (Calm' <=> Calm)
  BY <1>0 DEF Open, InTransaction, Calm
<1>2. (Settled' <=> Settled) /\ (Clean' <=> Clean)
  BY <1>0, SettledSame, CleanSame
<1>3. \A v \in Open : (Undoable(v) => Undoable(v)') /\ (Stuck(v) => Stuck(v)')
  BY <1>0, UndoableSame DEF Open
<1> QED BY <1>0, <1>1, <1>2, <1>3 DEF CalmInv

(* One I/O error and no kill, wherever the error strikes: outside the two gaps the
   transaction is undone, or was committed, and the directory is exactly the last run
   committed, or empty; inside a gap every verification refuses what it leaves.  For
   any number of writers that share the submission lock (_commit_with_rollback). *)
THEOREM OneFailureIsUndone ==
    ASSUME SharedLock
    PROVE  Spec => []FailureAtomic
<1>1. Init => CalmInv
  <2> SUFFICES ASSUME Init PROVE CalmInv
    OBVIOUS
  <2>1. Open = {} /\ EmptyDirectory
    BY DEF Init, Open, InTransaction, EmptyDirectory, Present
  <2> QED BY <2>1 DEF Init, CalmInv, Settled, Committed
<1>2. RunInv /\ RunInv' /\ CalmInv /\ [Next]_vars => CalmInv'
  <2> SUFFICES ASSUME RunInv, RunInv', CalmInv, [Next]_vars PROVE CalmInv'
    OBVIOUS
  <2>1. CASE Next
    <3>1. PICK w \in Writers : ActionOf(w) /\ StepOf(w)
      BY <2>1, StepKinds
    <3>2. Calm' => /\ gap' => faults' # 0
                   /\ Open' = {} => IF gap' THEN ~Clean' ELSE Settled'
                   /\ \A v \in Open' : IF gap' THEN Stuck(v)' ELSE Undoable(v)'
      BY <3>1, CalmAction
    <3> QED BY <3>2 DEF CalmInv
  <2>2. CASE UNCHANGED vars
    BY <2>2, CalmStutters
  <2> QED BY <2>1, <2>2
<1>3. CalmInv => FailureAtomic
  <2> SUFFICES ASSUME CalmInv, Quiet, Calm PROVE IF gap THEN ~Clean ELSE Settled
    BY DEF FailureAtomic, Calm, Settled, Committed
  <2>1. Open = {}
    BY DEF Quiet, Open
  <2> QED BY <2>1 DEF CalmInv
<1> QED BY <1>1, <1>2, <1>3, RunInvariant, PTL DEF Spec
================================================================================
