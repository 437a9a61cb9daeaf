------------------------------- MODULE RunCommit -------------------------------
(***************************************************************************)
(* The evaluator's run storage: _verify_or_raise, commit_v22_transition    *)
(* and _commit_with_rollback of attorney_v22_artifacts.py, over the walks, *)
(* immutable and mutable writes, owned removals and owned replacements of  *)
(* _PosixRunStorage (attorney_artifacts.py).                               *)
(*                                                                         *)
(* A run directory holds requests/ with one file per request issued,       *)
(* responses/ with one per response accepted, and a manifest naming the    *)
(* accepted history.  A manifest is abstracted to that history; everything *)
(* a file holds follows from it.                                           *)
(*                                                                         *)
(* A step is one entry of a walk, one file read, or one change of a name.  *)
(* Two pairs of calls are one step.  The listing of a directory is taken   *)
(* with the identity read just before it: a change between the two calls   *)
(* shows in the other walk.  The link of an artifact is taken with the     *)
(* unlink of its temporary: who lists both names refuses.  What makes a    *)
(* refusal certain refuses at once.                                        *)
(***************************************************************************)
EXTENDS Naturals, Sequences, FiniteSets

CONSTANTS
    Writers,     \* threads or processes: each reads and submits, one operation at a time
    Answers,     \* the answers an evaluator can give to one call
    MaxCalls,    \* bound: calls until the run is terminal
    Embeds,      \* calls whose request quotes the answers accepted before it
    SharedLock,  \* TRUE: the writers share one _SUBMISSION_LOCKS (one process)
    MaxFaults,   \* bound: I/O errors
    MaxCrashes,  \* bound: process kills
    MaxReaders,  \* bound: readers at one time; they change nothing another could see
    None

ASSUME MaxCallsAssumption == MaxCalls \in Nat \ {0}
ASSUME BoundsAssumption == MaxFaults \in Nat /\ MaxCrashes \in Nat /\ MaxReaders \in Nat
ASSUME LockAssumption == SharedLock \in BOOLEAN

VARIABLES
    files,      \* the artifacts: what each holds
    dirs,       \* the directories there are
    manifest,   \* run-manifest.json: the history it names
    temps,      \* the temporary files, by writer and directory
    lock,       \* holder of the in-process submission lock
    pc, goal,   \* control of each process; what its verification is for
    todo,       \* what is left of a process's walk, or of the files it loads
    scan, seen, \* the entries its first walk noted; the history it loaded
    stood,      \* history: the run that stood on disk when its second walk began
    view,       \* the run state each process last read
    txn,        \* the transaction each writer has open
    owned,      \* what it has created and can still prove it has
    acked,      \* history: the runs reported as committed
    unreported, \* history: the runs committed and reported as failed
    gap,        \* history: an I/O error has struck where it cannot be undone
    faults, crashes

disk == <<files, dirs, manifest, temps>>
walk == <<todo, scan, seen, stood>>
outcome == <<view, acked, unreported>>
bounds == <<gap, faults, crashes>>
vars == <<files, dirs, manifest, temps, lock, pc, goal, todo, scan, seen, stood,
          view, txn, owned, acked, unreported, gap, faults, crashes>>

History == {h \in Seq(Answers) : Len(h) <= MaxCalls}

(* The names under the run directory; the root itself has no inventory entry. *)
Kind == {"request", "response"}
Path == Kind \X (1..MaxCalls)
Directory == Kind \X {0}
ManifestPath == <<"manifest", 0>>
Place == Path \cup Directory \cup {ManifestPath}
Root == <<"root", 0>>

Txn == [answer : Answers \cup {None}, base : History \cup {None}, next : History,
        index : 1..3, back : History \cup {None}, gone : Path \cup {None}]

(* None is a value of its own. *)
ASSUME NoneAssumption == None \notin Writers \cup Answers \cup History \cup Path

Verifying == {"scan", "load", "rescan"}
Forward == {"write", "link", "install", "replace"}
Rollback == {"undo", "claim", "restore", "remove", "prune"}

(***************************************************************************)
(* What a history determines: its files and what each of them holds.       *)
(***************************************************************************)
PathsOf(h) == {<<"response", k>> : k \in 1..Len(h)}
              \cup {<<"request", k>> : k \in (1..Len(h) + 1) \cap (1..MaxCalls)}

Parent(x) == IF x \in Path THEN <<x[1], 0>> ELSE Root

(* The inventory a manifest requires: its artifacts, their directories, itself. *)
Expected(h) == PathsOf(h) \cup {Parent(x) : x \in PathsOf(h)} \cup {ManifestPath}

Content(x, h) ==
    IF x[1] = "response" THEN <<h[x[2]]>>
    ELSE IF x[2] \in Embeds THEN SubSeq(h, 1, x[2] - 1) ELSE <<>>

(* The files one transition brings, in the order sorted() writes them. *)
Snapshot(h) ==
    IF h = <<>> THEN << <<"request", 1>> >>
    ELSE IF Len(h) = MaxCalls THEN << <<"response", Len(h)>> >>
    ELSE << <<"request", Len(h) + 1>>, <<"response", Len(h)>> >>

(***************************************************************************)
(* The directory.                                                          *)
(***************************************************************************)
Present(x) == IF x \in Path THEN files[x] # None
              ELSE IF x \in Directory THEN x \in dirs ELSE manifest # None
Entries(d) == {x \in Place : Parent(x) = d /\ Present(x)}
TempsIn(d) == {t \in temps : t[2] = d}

Holds(x, h) == files[x] = Content(x, h)

EmptyDirectory == temps = {} /\ \A x \in Place : ~Present(x)

(* A tree that verifies as history h, and nothing else. *)
ExactTree(h) ==
    /\ manifest = h
    /\ temps = {}
    /\ {x \in Place : Present(x)} = Expected(h)
    /\ \A x \in PathsOf(h) : Holds(x, h)

Clean == EmptyDirectory \/ (manifest # None /\ ExactTree(manifest))

(* The same, but for names that come and go in the root: its own identity is
   not part of an inventory. *)
Stands(h) ==
    /\ manifest = h
    /\ \A x \in PathsOf(h) : Holds(x, h)
    /\ \A d \in {Parent(x) : x \in PathsOf(h)} :
           TempsIn(d) = {} /\ Entries(d) = {x \in PathsOf(h) : Parent(x) = d}

(* A _NodeIdentity holds device, inode, link count, size and times: a node that has
   changed never again has the one a walk noted.  So a note of an entry only says
   whether the node still has it. *)
Note == {"absent", "same", "changed"}

(* The nodes in X are written, removed or replaced. *)
Changes(X) == scan' = [p \in Writers |-> [x \in Place |->
                  IF x \in X /\ scan[p][x] # "absent" THEN "changed" ELSE scan[p][x]]]

(* A name that comes or goes changes the directory it is in. *)
Names(x) == Changes({x, Parent(x)} \cap Place)

(* Nor does a receipt fit it: what a transaction owns are the nodes that have not
   been written, removed or replaced since its receipts for them. *)
Owns(w, x) == owned' = [p \in Writers |-> IF p = w THEN owned[p] \cup {x} ELSE owned[p] \ {x}]
NoneOwns(x) == owned' = [p \in Writers |-> owned[p] \ {x}]

NewFile(w, x) == files' = [files EXCEPT ![x] = Content(x, txn[w].next)]

NoTxn == [answer |-> None, base |-> None, next |-> <<>>, index |-> 1, back |-> None,
          gone |-> None]
NoScan == [x \in Place |-> "absent"]

InTransaction(w) == pc[w] # "idle" /\ goal[w] # "read"
Quiet == \A w \in Writers : ~InTransaction(w)
(* initialize_* returns before its caller hands the run directory to anyone. *)
Initializing == \E w \in Writers : goal[w] = "confirm" /\ txn[w].base = None

Init ==
    /\ files = [x \in Path |-> None]
    /\ dirs = {}
    /\ manifest = None
    /\ temps = {}
    /\ lock = None
    /\ pc = [p \in Writers |-> "idle"]
    /\ goal = [p \in Writers |-> "read"]
    /\ todo = [p \in Writers |-> {}]
    /\ scan = [p \in Writers |-> NoScan]
    /\ seen = [p \in Writers |-> None]
    /\ stood = [p \in Writers |-> None]
    /\ view = [p \in Writers |-> None]
    /\ txn = [w \in Writers |-> NoTxn]
    /\ owned = [w \in Writers |-> {}]
    /\ acked = {} /\ unreported = {}
    /\ gap = FALSE
    /\ faults = 0
    /\ crashes = 0

--------------------------------------------------------------------------------
(***************************************************************************)
(* Ends of an operation.                                                   *)
(***************************************************************************)
GoTo(p, label) == pc' = [pc EXCEPT ![p] = label]
Unlock(p) == lock' = IF lock = p THEN None ELSE lock

DropWalk(p) ==
    /\ todo' = [todo EXCEPT ![p] = {}]
    /\ scan' = [scan EXCEPT ![p] = NoScan]
    /\ seen' = [seen EXCEPT ![p] = None]
    /\ stood' = [stood EXCEPT ![p] = None]

Finish(p, left) ==
    /\ GoTo(p, "idle")
    /\ goal' = [goal EXCEPT ![p] = "read"]
    /\ txn' = [txn EXCEPT ![p] = NoTxn]
    /\ owned' = [owned EXCEPT ![p] = left]
    /\ DropWalk(p)
    /\ Unlock(p)

(* Mutant: the list of created files outlives its transaction. *)
EndKeepingCreated(p) == Finish(p, owned[p])

End(p) == Finish(p, {})

(* Any exception once the first artifact may be on disk starts the rollback. *)
Undo(p) == GoTo(p, "undo") /\ UNCHANGED <<lock, goal, txn, owned>>

(* A refused verification: a reader reports it, a commit rolls back. *)
VerificationFails(p) ==
    IF goal[p] = "confirm" THEN Undo(p) /\ DropWalk(p) ELSE End(p)

--------------------------------------------------------------------------------
(***************************************************************************)
(* Operations a process starts.                                            *)
(***************************************************************************)
StartWalk(p) == todo' = [todo EXCEPT ![p] = {Root}]

StartRead(p) ==
    /\ pc[p] = "idle" /\ ~Initializing
    /\ Cardinality({q \in Writers : pc[q] # "idle" /\ goal[q] = "read"}) < MaxReaders
    /\ GoTo(p, "scan")
    /\ StartWalk(p)
    /\ UNCHANGED <<disk, lock, goal, scan, seen, stood, txn, owned, outcome, bounds>>

(* initialize_v22_run_storage: the root must be empty.  All it ever verifies is
   what it installed, so its goal is "confirm" from the start. *)
Initialize(w) ==
    /\ \A p \in Writers : pc[p] = "idle"
    /\ EmptyDirectory
    /\ GoTo(w, "write")
    /\ goal' = [goal EXCEPT ![w] = "confirm"]
    /\ UNCHANGED <<disk, lock, walk, txn, owned, outcome, bounds>>

(* Mutants of StartSubmit: no lock; a terminal run takes one more answer. *)
Submit(w, a, locked, maxLen) ==
    /\ pc[w] = "idle" /\ ~Initializing
    /\ view[w] # None /\ Len(view[w]) < maxLen
    /\ locked => lock = None
    /\ lock' = IF locked THEN w ELSE lock
    /\ GoTo(w, "scan")
    /\ StartWalk(w)
    /\ goal' = [goal EXCEPT ![w] = "submit"]
    /\ txn' = [txn EXCEPT ![w].answer = a]
    /\ UNCHANGED <<disk, scan, seen, stood, owned, outcome, bounds>>

StartSubmitUnlocked(w, a) == Submit(w, a, FALSE, MaxCalls)
StartSubmitPastTerminal(w, a) == Submit(w, a, SharedLock, MaxCalls + 1)

(* guarded_submit: an answer to the request the writer last read. *)
StartSubmit(w, a) == Submit(w, a, SharedLock, MaxCalls)

--------------------------------------------------------------------------------
(***************************************************************************)
(* _verify_or_raise: walk the directory and note the identity of every     *)
(* entry, load the manifest and what it names file by file, walk again.    *)
(* Any difference is a refusal.                                            *)
(***************************************************************************)
Rank(x) == CASE x = Root -> 0
             [] x[1] = "request" -> 1 + x[2]
             [] x[1] = "response" -> 2 + MaxCalls + x[2]
             [] x = ManifestPath -> 3 + 2 * MaxCalls

(* sorted(): the entries of a directory in order, each child before the next. *)
Reaches(p, label, x) ==
    pc[p] = label /\ x \in todo[p] /\ \A y \in todo[p] : Rank(x) <= Rank(y)

Listable == Directory \cup {Root}

Scan(p) == \E x \in Listable \cup Place :
    /\ Reaches(p, "scan", x)
    /\ IF /\ x # Root => Present(x)
          /\ x = Root => manifest # None
          /\ x \in Listable => TempsIn(x) = {}
       THEN LET left == (todo[p] \ {x}) \cup Entries(x) IN
            /\ scan' = [scan EXCEPT ![p] =
                           [y \in Place |-> IF y = x THEN "same" ELSE scan[p][y]]]
            /\ todo' = [todo EXCEPT ![p] = left]
            /\ GoTo(p, IF left = {} THEN "load" ELSE "scan")
            /\ UNCHANGED <<lock, goal, seen, stood, txn, owned>>
       ELSE VerificationFails(p)
    /\ UNCHANGED <<disk, outcome, bounds>>

LoadManifest(p) ==
    /\ pc[p] = "load" /\ seen[p] = None
    /\ IF manifest # None /\ {x \in Place : scan[p][x] # "absent"} = Expected(manifest)
       THEN /\ seen' = [seen EXCEPT ![p] = manifest]
            /\ todo' = [todo EXCEPT ![p] = PathsOf(manifest)]
            /\ UNCHANGED <<lock, pc, goal, scan, stood, txn, owned>>
       ELSE VerificationFails(p)
    /\ UNCHANGED <<disk, outcome, bounds>>

StandsNow == IF manifest # None /\ Stands(manifest) THEN manifest ELSE None

LoadFile(p) == \E x \in Path :
    /\ Reaches(p, "load", x) /\ seen[p] # None
    /\ IF Holds(x, seen[p])
       THEN /\ IF todo[p] = {x}
               THEN /\ GoTo(p, "rescan")
                    /\ todo' = [todo EXCEPT ![p] = {Root} \cup Expected(seen[p])]
                    /\ stood' = [stood EXCEPT ![p] = StandsNow]
               ELSE /\ todo' = [todo EXCEPT ![p] = @ \ {x}]
                    /\ UNCHANGED <<pc, stood>>
            /\ UNCHANGED <<lock, goal, scan, seen, txn, owned>>
       ELSE VerificationFails(p)
    /\ UNCHANGED <<disk, outcome, bounds>>

(* preflight: the response answers the request that is pending now. *)
AnswersPending(w, h) ==
    /\ Len(h) = Len(view[w])
    /\ Content(<<"request", Len(h) + 1>>, h) = Content(<<"request", Len(h) + 1>>, view[w])

Verified(p) ==
    CASE goal[p] = "read" ->
            /\ End(p)
            /\ view' = [view EXCEPT ![p] = seen[p]]
            /\ UNCHANGED <<acked, unreported>>
      [] goal[p] = "submit" ->
            /\ IF AnswersPending(p, seen[p])
               THEN /\ GoTo(p, "write")
                    /\ txn' = [txn EXCEPT ![p].base = seen[p],
                                          ![p].next = Append(seen[p], txn[p].answer)]
                    /\ DropWalk(p)
                    /\ UNCHANGED <<lock, goal, owned>>
               ELSE End(p)
            /\ UNCHANGED outcome
      [] goal[p] = "confirm" ->
            IF seen[p] = txn[p].next
            THEN /\ End(p)
                 /\ acked' = acked \cup {txn[p].next}
                 /\ view' = [view EXCEPT ![p] = txn[p].next]
                 /\ UNCHANGED unreported
            ELSE VerificationFails(p) /\ UNCHANGED outcome

(* The second walk finds the entry as the first one noted it. *)
Unchanged(p, x) ==
    /\ x # Root => scan[p][x] = "same"
    /\ x \in Listable => /\ TempsIn(x) = {}
                         /\ Entries(x) = {y \in Place : Parent(y) = x /\ scan[p][y] # "absent"}

SecondVisit(p, x, same) ==
    /\ Reaches(p, "rescan", x)
    /\ IF ~same THEN VerificationFails(p) /\ UNCHANGED outcome
       ELSE IF todo[p] = {x} THEN Verified(p)
       ELSE /\ todo' = [todo EXCEPT ![p] = @ \ {x}]
            /\ UNCHANGED <<lock, pc, goal, scan, seen, stood, txn, owned, outcome>>
    /\ UNCHANGED <<disk, bounds>>

(* Mutant: the two walks are compared by name only. *)
RescanNames(p) ==
    \E x \in Listable \cup Place : SecondVisit(p, x, x # Root => Present(x))

Rescan(p) == \E x \in Listable \cup Place : SecondVisit(p, x, Unchanged(p, x))

--------------------------------------------------------------------------------
(***************************************************************************)
(* The forward half of _commit_with_rollback.                              *)
(***************************************************************************)
Writing(w) == Snapshot(txn[w].next)[txn[w].index]
Wrote(w) == txn[w].index > Len(Snapshot(txn[w].next))

NextFile(w) ==
    /\ txn' = [txn EXCEPT ![w].index = @ + 1]
    /\ GoTo(w, "write")
    /\ UNCHANGED <<lock, goal>>

(* _artifact_parent(create=True): nothing removes the directory if the write
   that needed it then fails. *)
MakeDirectory(w) ==
    /\ pc[w] = "write" /\ ~Wrote(w)
    /\ LET d == Parent(Writing(w)) IN
       /\ d \notin dirs
       /\ dirs' = dirs \cup {d}
       /\ Owns(w, d)
    /\ UNCHANGED <<files, manifest, temps, lock, pc, goal, walk, txn, outcome, bounds>>

(* atomic_write(mutable=False), up to the fsync of the temporary file: equal
   bytes are left alone and not owned, different bytes are an error. *)
WriteFile(w) ==
    /\ pc[w] = "write" /\ ~Wrote(w)
    /\ LET x == Writing(w) IN
       /\ Parent(x) \in dirs
       /\ \/ /\ files[x] = None
             /\ temps' = temps \cup {<<w, Parent(x)>>}
             /\ Changes({Parent(x)})
             /\ GoTo(w, "link")
             /\ UNCHANGED <<lock, goal, txn, owned>>
          \/ /\ Holds(x, txn[w].next)
             /\ NextFile(w) /\ UNCHANGED <<temps, scan, owned>>
          \/ /\ files[x] # None /\ ~Holds(x, txn[w].next)
             /\ Undo(w) /\ UNCHANGED <<temps, scan>>
    /\ UNCHANGED <<files, dirs, manifest, todo, seen, stood, outcome, bounds>>

Unlink(w, x) == temps' = temps \ {<<w, Parent(x)>>} /\ Changes({Parent(x)})

(* Mutant: the link is not recorded as this transaction's. *)
LinkFileUnrecorded(w) ==
    /\ pc[w] = "link"
    /\ Unlink(w, Writing(w))
    /\ NewFile(w, Writing(w))
    /\ NextFile(w)
    /\ UNCHANGED <<dirs, manifest, owned, todo, seen, stood, outcome, bounds>>

(* os.link to the final name never replaces: a competing file is compared. *)
LinkFile(w) ==
    /\ pc[w] = "link"
    /\ LET x == Writing(w) IN
       /\ Unlink(w, x)
       /\ \/ /\ files[x] = None
             /\ NewFile(w, x)
             /\ Owns(w, x)
             /\ NextFile(w)
          \/ Holds(x, txn[w].next) /\ NextFile(w) /\ UNCHANGED <<files, owned>>
          \/ files[x] # None /\ ~Holds(x, txn[w].next) /\ Undo(w) /\ UNCHANGED files
    /\ UNCHANGED <<dirs, manifest, todo, seen, stood, outcome, bounds>>

(* Everything is read back, and the manifest compared again, before it moves. *)
StillBase(w) ==
    /\ \A x \in PathsOf(txn[w].next) : Holds(x, txn[w].next)
    /\ txn[w].base # None => manifest = txn[w].base

Recheck(w) ==
    /\ pc[w] = "write" /\ Wrote(w)
    /\ IF StillBase(w)
       THEN GoTo(w, "install") /\ UNCHANGED <<lock, goal, txn, owned>>
       ELSE Undo(w)
    /\ UNCHANGED <<disk, walk, outcome, bounds>>

Reverify(w) ==
    /\ GoTo(w, "scan")
    /\ StartWalk(w)
    /\ goal' = [goal EXCEPT ![w] = "confirm"]
    /\ UNCHANGED <<lock, txn, seen, stood, view, unreported>>

(* Mutant: the commit is reported once its manifest is in place. *)
ConfirmReported(w) == Reverify(w) /\ acked' = acked \cup {txn[w].next}

Confirm(w) == Reverify(w) /\ UNCHANGED acked

SameManifest(w) == manifest = txn[w].next
(* The first manifest is immutable, every later one is replaced. *)
ManifestConflict(w) == txn[w].base = None /\ manifest # None /\ ~SameManifest(w)

StageManifest(w) ==
    /\ pc[w] = "install"
    /\ \/ SameManifest(w) /\ Confirm(w) /\ UNCHANGED <<temps, owned>>
       \/ ManifestConflict(w) /\ Undo(w) /\ UNCHANGED <<temps, todo, seen, stood, outcome>>
       \/ /\ ~SameManifest(w) /\ ~ManifestConflict(w)
          /\ temps' = temps \cup {<<w, Root>>}
          /\ GoTo(w, "replace")
          /\ UNCHANGED <<lock, goal, todo, seen, stood, txn, owned, outcome>>
    /\ UNCHANGED <<files, dirs, manifest, scan, bounds>>

(* os.replace for a successor, os.link for the first manifest. *)
ReplaceManifest(w) ==
    /\ pc[w] = "replace"
    /\ temps' = temps \ {<<w, Root>>}
    /\ \/ /\ txn[w].base = None => manifest = None
          /\ manifest' = txn[w].next
          /\ Names(ManifestPath)
          /\ Owns(w, ManifestPath)
          /\ Confirm(w)
       \/ /\ txn[w].base = None /\ SameManifest(w)
          /\ Confirm(w) /\ UNCHANGED <<manifest, scan, owned>>
       \/ ManifestConflict(w) /\ Undo(w) /\ UNCHANGED <<manifest, walk, outcome>>
    /\ UNCHANGED <<files, dirs, bounds>>

--------------------------------------------------------------------------------
(***************************************************************************)
(* The rollback half: restore the manifest if it is still ours, remove the *)
(* files this transaction created.  It compares with the prior tree last,  *)
(* which decides no more than the error the caller sees.                   *)
(***************************************************************************)
Mine(w) == ManifestPath \in owned[w]

Rolls(w, label) == GoTo(w, label) /\ UNCHANGED <<lock, goal, txn>>

UndoManifest(w) ==
    /\ pc[w] = "undo"
    /\ Rolls(w, IF Mine(w) THEN "claim" ELSE "remove")
    /\ UNCHANGED <<disk, walk, owned, outcome, bounds>>

(* Renaming the manifest aside takes whatever now has that name; only then are the
   claimed bytes compared.  The base replaces the ones this transaction owns, any
   others are put back. *)
Claim(w, back) ==
    /\ manifest' = None
    /\ Names(ManifestPath)
    /\ NoneOwns(ManifestPath)
    /\ txn' = [txn EXCEPT ![w].back = back]
    /\ GoTo(w, IF back = None THEN "remove" ELSE "restore")
    /\ UNCHANGED <<lock, goal>>

ClaimManifest(w) ==
    /\ pc[w] = "claim"
    /\ \/ manifest = None /\ Rolls(w, "remove") /\ UNCHANGED <<manifest, scan, owned>>
       \/ manifest # None /\ Claim(w, IF Mine(w) THEN txn[w].base ELSE manifest)
    /\ UNCHANGED <<files, dirs, temps, todo, seen, stood, outcome, bounds>>

(* _install_recovery_bytes_no_clobber: a new file, never over an existing one. *)
Reinstall(w) ==
    /\ manifest' = IF manifest = None THEN txn[w].back ELSE manifest
    /\ Rolls(w, "remove")
    /\ UNCHANGED <<scan, owned>>

RestoreManifest(w) ==
    /\ pc[w] = "restore"
    /\ Reinstall(w)
    /\ UNCHANGED <<files, dirs, temps, todo, seen, stood, outcome, bounds>>

(* Created files go in reverse order, each only if it is still this writer's; the
   directory made for one goes with it, if nothing else has come into it
   (_claim_owned_empty_directory). *)
Created(w) == owned[w] \cap Path
LastCreated(w) == CHOOSE x \in Created(w) : \A i, j \in DOMAIN Snapshot(txn[w].next) :
    Snapshot(txn[w].next)[i] = x /\ Snapshot(txn[w].next)[j] \in Created(w) => j <= i

Removed(x) == files' = [files EXCEPT ![x] = None] /\ Names(x) /\ NoneOwns(x)

RemoveFile(w) ==
    /\ pc[w] = "remove" /\ Created(w) # {}
    /\ Removed(LastCreated(w))
    /\ GoTo(w, "prune")
    /\ txn' = [txn EXCEPT ![w].gone = LastCreated(w)]
    /\ UNCHANGED <<dirs, manifest, temps, lock, goal, todo, seen, stood, outcome, bounds>>

Pruned(w, d) ==
    IF d \in owned[w] /\ Entries(d) = {} /\ TempsIn(d) = {}
    THEN dirs' = dirs \ {d} /\ Names(d) /\ NoneOwns(d)
    ELSE UNCHANGED <<dirs, scan, owned>>

GoOn(w) ==
    /\ GoTo(w, "remove")
    /\ txn' = [txn EXCEPT ![w].gone = None]
    /\ UNCHANGED <<lock, goal>>

Prune(w) ==
    /\ pc[w] = "prune"
    /\ Pruned(w, Parent(txn[w].gone))
    /\ GoOn(w)
    /\ UNCHANGED <<files, manifest, temps, todo, seen, stood, outcome, bounds>>

Settle(w) ==
    /\ pc[w] = "remove" /\ Created(w) = {}
    /\ End(w)
    /\ UNCHANGED <<disk, outcome, bounds>>

--------------------------------------------------------------------------------
(***************************************************************************)
(* The environment: an I/O error before or after the effect of a step, or  *)
(* a kill of the process.                                                  *)
(***************************************************************************)
FailsReading(w) ==
    /\ pc[w] \in Verifying
    /\ VerificationFails(w)
    /\ UNCHANGED <<disk, outcome, gap>>

(* The last assert_root_identity is outside the try: the successor stays, and its
   caller is told the commit failed. *)
FailsReporting(w) ==
    /\ pc[w] = "rescan" /\ goal[w] = "confirm" /\ seen[w] = txn[w].next
    /\ todo[w] = {ManifestPath} /\ Unchanged(w, ManifestPath)
    /\ End(w)
    /\ unreported' = unreported \cup {txn[w].next}
    /\ UNCHANGED <<disk, view, acked, gap>>

(* Nothing has been linked into the directory made for the file. *)
InNewDirectory(w) == ~Wrote(w) /\ Parent(Writing(w)) \in owned[w]

FailsWriting(w) ==
    /\ pc[w] \in {"write", "install"}
    /\ Undo(w)
    /\ gap' = (gap \/ (pc[w] = "write" /\ InNewDirectory(w)))
    /\ UNCHANGED <<disk, walk, outcome>>

(* The error comes after the rename.  fresh: and after the identity was read again
   from the name; before that the receipt carries the one of the temporary file. *)
UndoVisible(w, x, fresh) ==
    /\ GoTo(w, "undo")
    /\ IF fresh THEN Owns(w, x) ELSE NoneOwns(x)
    /\ gap' = (gap \/ ~fresh)
    /\ UNCHANGED <<lock, goal, txn>>

FailsLinking(w) ==
    /\ pc[w] = "link"
    /\ \/ /\ Unlink(w, Writing(w))
          /\ Undo(w) /\ gap' = (gap \/ InNewDirectory(w)) /\ UNCHANGED files
       \/ /\ files[Writing(w)] # None
          /\ Undo(w) /\ gap' = TRUE /\ UNCHANGED <<files, temps, scan>>
       \/ /\ files[Writing(w)] = None
          /\ Unlink(w, Writing(w))
          /\ NewFile(w, Writing(w))
          /\ \E fresh \in BOOLEAN : UndoVisible(w, Writing(w), fresh)
    /\ UNCHANGED <<dirs, manifest, todo, seen, stood, outcome>>

FailsReplacing(w) ==
    /\ pc[w] = "replace"
    /\ temps' = temps \ {<<w, Root>>}
    /\ \/ Undo(w) /\ UNCHANGED <<manifest, scan, gap>>
       \/ /\ txn[w].base = None => manifest = None
          /\ manifest' = txn[w].next
          /\ Names(ManifestPath)
          /\ \E fresh \in BOOLEAN : UndoVisible(w, ManifestPath, fresh)
    /\ UNCHANGED <<files, dirs, todo, seen, stood, outcome>>

(* A claim whose fsync fails is put back; one that cannot be read or recorded
   stays in the recovery directory. *)
FailsRestoring(w) ==
    /\ \/ pc[w] \in {"undo", "claim", "restore"} /\ Rolls(w, "remove")
          /\ UNCHANGED <<manifest, scan, owned>>
       \/ /\ pc[w] = "claim" /\ manifest # None
          /\ Claim(w, manifest) \/ Claim(w, None)
       \/ pc[w] = "restore" /\ Reinstall(w)
    /\ UNCHANGED <<files, dirs, temps, todo, seen, stood, outcome, gap>>

(* Or an owned file whose claim fails is put back, a file that is not owned. *)
FailsRemoving(w) ==
    /\ \/ /\ pc[w] = "remove" /\ Created(w) # {}
          /\ LET x == LastCreated(w) IN
             \/ NoneOwns(x) /\ UNCHANGED <<files, scan>>
             \/ NoneOwns(x) /\ Names(x) /\ UNCHANGED files
             \/ Removed(x)
          /\ UNCHANGED dirs
       \/ /\ pc[w] = "prune"
          /\ Pruned(w, Parent(txn[w].gone)) \/ UNCHANGED <<dirs, scan, owned>>
          /\ UNCHANGED files
    /\ GoOn(w)
    /\ UNCHANGED <<manifest, temps, todo, seen, stood, outcome, gap>>

FailsSettling(w) ==
    /\ pc[w] = "remove" /\ Created(w) = {}
    /\ End(w)
    /\ UNCHANGED <<disk, outcome, gap>>

Fault(w) ==
    /\ InTransaction(w) /\ faults < MaxFaults
    /\ faults' = faults + 1
    /\ \/ FailsReading(w) \/ FailsReporting(w) \/ FailsWriting(w) \/ FailsLinking(w)
       \/ FailsReplacing(w) \/ FailsRestoring(w) \/ FailsRemoving(w) \/ FailsSettling(w)
    /\ UNCHANGED crashes

(* Writers that share a lock share a process and die together; what they
   had written stays. *)
Killed(w) == IF SharedLock THEN Writers ELSE {w}

Crash(w) ==
    /\ InTransaction(w) /\ crashes < MaxCrashes
    /\ crashes' = crashes + 1
    /\ LET dead == Killed(w)
           Reset(f, v) == [p \in Writers |-> IF p \in dead THEN v ELSE f[p]]
       IN /\ pc' = Reset(pc, "idle")
          /\ goal' = Reset(goal, "read")
          /\ todo' = Reset(todo, {})
          /\ scan' = Reset(scan, NoScan)
          /\ seen' = Reset(seen, None)
          /\ stood' = Reset(stood, None)
          /\ view' = Reset(view, None)
          /\ txn' = Reset(txn, NoTxn)
          /\ owned' = Reset(owned, {})
          /\ lock' = IF lock \in dead THEN None ELSE lock
    /\ UNCHANGED <<disk, acked, unreported, gap, faults>>

--------------------------------------------------------------------------------
Verify(p) == StartRead(p) \/ Scan(p) \/ LoadManifest(p) \/ LoadFile(p) \/ Rescan(p)

Commit(w) ==
    \/ MakeDirectory(w) \/ WriteFile(w) \/ LinkFile(w) \/ Recheck(w)
    \/ StageManifest(w) \/ ReplaceManifest(w)

RollBack(w) ==
    \/ UndoManifest(w) \/ ClaimManifest(w) \/ RestoreManifest(w)
    \/ RemoveFile(w) \/ Prune(w) \/ Settle(w)

Next ==
    \E w \in Writers :
        \/ Verify(w) \/ Initialize(w)
        \/ \E a \in Answers : StartSubmit(w, a)
        \/ Commit(w) \/ RollBack(w)
        \/ Fault(w) \/ Crash(w)

Spec == Init /\ [][Next]_vars

--------------------------------------------------------------------------------
(***************************************************************************)
(* Properties.                                                             *)
(***************************************************************************)
TypeOK ==
    /\ files \in [Path -> History \cup {None}]
    /\ dirs \subseteq Directory
    /\ manifest \in History \cup {None}
    /\ temps \subseteq Writers \X (Directory \cup {Root})
    /\ lock \in Writers \cup {None}
    /\ pc \in [Writers -> {"idle"} \cup Verifying \cup Forward \cup Rollback]
    /\ goal \in [Writers -> {"read", "submit", "confirm"}]
    /\ todo \in [Writers -> SUBSET (Place \cup {Root})]
    /\ scan \in [Writers -> [Place -> Note]]
    /\ seen \in [Writers -> History \cup {None}]
    /\ stood \in [Writers -> History \cup {None}]
    /\ view \in [Writers -> History \cup {None}]
    /\ txn \in [Writers -> Txn]
    /\ owned \in [Writers -> SUBSET Place]
    /\ acked \subseteq History /\ unreported \subseteq History
    /\ gap \in BOOLEAN
    /\ faults \in 0..MaxFaults /\ crashes \in 0..MaxCrashes

Extends(g, h) == Len(h) <= Len(g) /\ SubSeq(g, 1, Len(h)) = h

(* A verification walks and reads one entry at a time while others link, rename
   and remove.  What it returns, to a reader or as the base of a commit, is still a
   history whose files, alone in their directories, were on disk all together with
   its manifest at one moment: when the second walk began (_verify_or_raise). *)
VerifiedReadsAreExact ==
    [][\A p \in Writers :
          /\ view'[p] # view[p] /\ view'[p] # None => stood[p] = view'[p]
          /\ txn'[p].base # txn[p].base /\ txn'[p].base # None => stood[p] = txn'[p].base]_vars

(* Two submissions under one lock never both succeed with different answers to
   one call: the accepted histories are prefixes of one another. *)
NoForkedHistory == \A g, h \in acked : Extends(g, h) \/ Extends(h, g)

(* What one I/O error and no kill may leave between transactions.  In either of two
   gaps, between making a directory and linking its first file, and between moving a
   name into place and reading back its identity, it leaves a directory that every
   verification refuses: no rollback removes what is there.  Anywhere else the
   directory is exactly the last run committed, or empty, also when the error came
   too late to be undone and the caller was told so (_commit_with_rollback). *)
FailureAtomic ==
    Quiet /\ crashes = 0 /\ faults <= 1 =>
        IF gap THEN ~Clean
        ELSE LET committed == acked \cup unreported IN
             IF committed = {} THEN EmptyDirectory
             ELSE \E h \in committed : ExactTree(h) /\ \A g \in committed : Extends(h, g)

(* Whatever fails afterwards, the artifacts of an acknowledged history keep
   their bytes: rollback removes only what its own transaction created. *)
AcceptedBytesSurvive == \A h \in acked : \A x \in PathsOf(h) : Holds(x, h)

(* "A process crash can resume from the exact request already on disk": a process
   killed while it commits to an initialised run leaves a directory that verifies. *)
ResumableAfterCrash == Quiet /\ crashes > 0 /\ faults = 0 /\ acked # {} => Clean

--------------------------------------------------------------------------------
(***************************************************************************)
(* Refinement.  The log is the manifest's history once no transaction is   *)
(* open on it, and the history the open transaction started from before.   *)
(***************************************************************************)
Open == {w \in Writers : InTransaction(w)
                         /\ (pc[w] \in Verifying => goal[w] = "confirm")}

LoggedHistory ==
    IF Open # {} THEN txn[CHOOSE w \in Open : TRUE].base
    ELSE manifest

Spoiled == Open = {} /\ ~Clean

Abstract == INSTANCE AtomicRun WITH
    log <- IF Spoiled THEN None ELSE LoggedHistory,
    refused <- Spoiled

ImplementsAtomicRun == Abstract!Spec
================================================================================
