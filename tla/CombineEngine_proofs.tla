------------------------- MODULE CombineEngine_proofs -------------------------
(***************************************************************************)
(* Mutual exclusion of the run lock, type correctness, what a resumed run  *)
(* skips and keeps, the model a bundle names, and what a call returns: for *)
(* any number of callers, stages, requests and calls, as long as the lock  *)
(* is cleared by a sole caller, or by nobody.                              *)
(***************************************************************************)
EXTENDS CombineEngine, FiniteSetTheorems, WellFoundedInduction, TLAPS

(* Whoever is between the acquisition and the unlink owns the lock file.   *)
(* OneWriter alone is not inductive: a caller about to unlink would free   *)
(* the lock of another.                                                    *)
SoleClearing == MayClear = FALSE \/ \A v, w \in Writers : v = w
Holding(w) == Inside(w) \/ pc[w] = "unlink"
LockInv ==
    /\ DOMAIN pc = Writers
    /\ \A w \in Writers : Holding(w) => lock = w
    /\ \A v, w \in Writers : pc[w] = "clear" => v = w

(* A step that only moves the control of a caller who already holds the    *)
(* lock, from one place inside to another.                                 *)
Inner(w) ==
    /\ Holding(w) /\ lock' = lock
    /\ \E where \in Working \cup {"release"} : pc' = [pc EXCEPT ![w] = where]

(* An inner step keeps the lock's invariant. *)
LEMMA InnerKeeps ==
    ASSUME LockInv, NEW w \in Writers, Inner(w)
    PROVE  LockInv'
<1>1. PICK where \in Working \cup {"release"} : pc' = [pc EXCEPT ![w] = where]
    BY DEF Inner
<1>2. where # "clear"
    BY <1>1 DEF Working
<1>3. lock = w /\ lock' = w
    BY DEF LockInv, Inner
<1>4. DOMAIN pc' = Writers /\ \A v \in Writers \ {w} : pc'[v] = pc[v]
    BY <1>1 DEF LockInv
<1>5. pc'[w] = where
    BY <1>1 DEF LockInv
<1>6. \A v \in Writers : Holding(v)' => lock' = v
    BY <1>3, <1>4, <1>5 DEF LockInv, Holding, Inside
<1>7. \A u, v \in Writers : pc'[v] = "clear" => u = v
    BY <1>2, <1>4, <1>5 DEF LockInv
<1> QED BY <1>4, <1>6, <1>7 DEF LockInv

(* Every step of _run_locked, and its cancellation, is an inner step. *)
LEMMA RunLockedIsInner ==
    ASSUME LockInv, NEW w \in Writers,
           Opening(w) \/ Planning(w) \/ Running(w) \/ Interrupt(w)
    PROVE  Inner(w)
<1>1. CASE Opening(w)
    <2>1. CASE Conflict(w)
        BY <2>1 DEF Conflict, Inner, Holding, Inside, Working, Return, Goto
    <2>2. CASE WriteRequest(w)
        BY <2>2 DEF WriteRequest, Inner, Holding, Inside, Working, Goto
    <2>3. CASE CreateManifest(w)
        BY <2>3 DEF CreateManifest, Inner, Holding, Inside, Working, Goto
    <2>4. CASE LoadManifest(w)
        BY <2>4 DEF LoadManifest, Inner, Holding, Inside, Working, Corrupt, Return, Goto
    <2> QED BY <1>1, <2>1, <2>2, <2>3, <2>4 DEF Opening
<1>2. CASE Planning(w)
    <2>1. CASE Finished(w)
        BY <2>1 DEF Finished, Inner, Holding, Inside, Working, Corrupt, Return, Goto
    <2>2. CASE InvalidateFrom(w)
        BY <2>2 DEF InvalidateFrom, Inner, Holding, Inside, Working, Goto
    <2>3. CASE LoadCheckpoint(w)
        BY <2>3 DEF LoadCheckpoint, Inner, Holding, Inside, Working, Corrupt, Return, Goto
    <2> QED BY <1>2, <2>1, <2>2, <2>3 DEF Planning
<1>3. CASE Running(w)
    <2>1. CASE Begin(w)
        BY <2>1 DEF Begin, Inner, Holding, Inside, Working, Goto
    <2>2. CASE Execute(w)
        BY <2>2 DEF Execute, Inner, Holding, Inside, Working, Goto
    <2>3. CASE Fail(w)
        BY <2>3 DEF Fail, Inner, Holding, Inside, Working, Return, Goto
    <2>4. CASE Record(w)
        BY <2>4 DEF Record, Inner, Holding, Inside, Working, Goto
    <2>5. CASE Rewrite(w)
        BY <2>5 DEF Rewrite, Inner, Holding, Inside, Working, Goto
    <2>6. CASE Export(w)
        <3>1. pc[w] \in {"bundle", "report", "audit"}
            BY <2>6 DEF Export, Exported
        <3>2. ExportOrder[pc[w]] \in Working \cup {"release"}
            BY <3>1 DEF ExportOrder, Working
        <3> QED BY <2>6, <3>1, <3>2 DEF Export, Inner, Holding, Inside, Working, Goto
    <2> QED BY <1>3, <2>1, <2>2, <2>3, <2>4, <2>5, <2>6 DEF Running
<1>4. CASE Interrupt(w)
    BY <1>4 DEF Interrupt, Inner, Holding, Inside, Return, Goto
<1> QED BY <1>1, <1>2, <1>3, <1>4

(* The lock's own steps keep it: the file is created only when absent,     *)
(* unlinked only by the caller whose token it holds.                       *)
LEMMA LockingKeeps ==
    ASSUME LockInv, SoleClearing, NEW w \in Writers, Locking(w) \/ Kill(w)
    PROVE  LockInv'
<1> USE DEF LockInv, Holding, Inside, Working, Goto
<1>0. Free \notin Writers /\ Stale \notin Writers
    BY LockAssumption
<1>1. CASE Call(w)
    BY <1>1 DEF Call, SoleClearing
<1>2. CASE ClearStale(w)
    BY <1>2 DEF ClearStale
<1>3. CASE Acquire(w)
    BY <1>0, <1>3 DEF Acquire
<1>4. CASE Release(w)
    BY <1>4 DEF Release
<1>5. CASE Unlink(w)
    BY <1>0, <1>5 DEF Unlink
<1>6. CASE Kill(w)
    BY <1>0, <1>6 DEF Kill
<1> QED BY <1>1, <1>2, <1>3, <1>4, <1>5, <1>6 DEF Locking

(* The lock's invariant holds throughout. *)
LEMMA LockInvHolds ==
    ASSUME SoleClearing
    PROVE  Spec => []LockInv
<1>1. Init => LockInv
    BY DEF Init, LockInv, Holding, Inside, Working
<1>2. LockInv /\ [Next]_vars => LockInv'
    <2> SUFFICES ASSUME LockInv, [Next]_vars PROVE LockInv'
        OBVIOUS
    <2>1. CASE UNCHANGED vars
        BY <2>1 DEF vars, LockInv, Holding, Inside
    <2>2. ASSUME NEW w \in Writers,
                 Opening(w) \/ Planning(w) \/ Running(w) \/ Interrupt(w)
          PROVE  LockInv'
        BY <2>2, InnerKeeps, RunLockedIsInner
    <2>3. ASSUME NEW w \in Writers, Locking(w) \/ Kill(w)
          PROVE  LockInv'
        BY <2>3, LockingKeeps
    <2> QED BY <2>1, <2>2, <2>3 DEF Next
<1> QED BY <1>1, <1>2, PTL DEF Spec

(* Unless several callers clear the lock, two of them are never inside one *)
(* run at a time, however they are cancelled or killed (FileSystemRunLock).*)
THEOREM MutualExclusion ==
    ASSUME SoleClearing
    PROVE  Spec => []OneWriter
<1>1. LockInv => OneWriter
    BY DEF LockInv, OneWriter, Holding
<1> QED BY <1>1, LockInvHolds, PTL
--------------------------------------------------------------------------------
(***************************************************************************)
(* Type correctness.                                                       *)
(***************************************************************************)
(* The places a call goes through, and what it was called with. *)
Place == Working \cup {"idle", "clear", "acquire", "release", "unlink"}
CallRecord == [request : Requests \cup {NoRequest}, force : 0..N,
               config : Configs \cup {NoConfig}]
Outcome == [result : Result, bundle : Artifact]

(* There are at least two stages. *)
LEMMA StageFacts ==
    N \in Nat /\ N > 1 /\ 1 \in 1..N /\ DOMAIN Stages = 1..N
<1>1. Stages \in Seq({StageName[i] : i \in DOMAIN StageName}) /\ N > 1
    BY StagesAssumption
<1>2. N \in Nat /\ DOMAIN Stages = 1..N
    BY <1>1 DEF N
<1> QED BY <1>1, <1>2

(* The constant values are of their types. *)
LEMMA ValueTypes ==
    /\ Absent \in Artifact
    /\ \A r \in Requests \cup {NoRequest} : RequestFile(r) \in Artifact
    /\ NewManifest \in Manifest
<1>1. Absent \in Artifact
    BY DEF Absent, Artifact, Setting
<1>2. \A r \in Requests \cup {NoRequest} : RequestFile(r) \in Artifact
    BY DEF RequestFile, Artifact, Setting
<1>3. NewManifest \in Manifest
    BY <1>1 DEF NewManifest, Manifest, Status, NoFingerprint, Fingerprint, Setting
<1> QED BY <1>1, <1>2, <1>3

(* A stage's configuration is a string. *)
LEMMA ConfigurationType ==
    ASSUME NEW i \in 1..N, NEW config \in Configs \cup {NoConfig}
    PROVE  StageConfiguration(i, config) \in Setting
BY DEF StageConfiguration, Setting, NoConfig

(* The next fingerprint is a fingerprint. *)
LEMMA ExpectedType ==
    ASSUME TypeOK, NEW i \in 1..N, NEW config \in Configs \cup {NoConfig}
    PROVE  Expected(i, config) \in [upstream : Artifact, conf : Setting]
<1>1. i - 1 \in 0..N
    BY StageFacts
<1>2. file[i - 1] \in Artifact
    BY <1>1 DEF TypeOK
<1> QED BY <1>2, ConfigurationType DEF Expected, Fingerprint

(* Invalidation leaves a manifest. *)
LEMMA InvalidatedType ==
    ASSUME NEW m \in Manifest, NEW s \in 1..N
    PROVE  Invalidated(m, s) \in Manifest
BY ValueTypes DEF Invalidated, Manifest, Status, NoFingerprint, Fingerprint, Setting

(* The changes a running stage makes to the manifest leave a manifest. *)
LEMMA StartedType ==
    ASSUME NEW m \in Manifest, NEW i \in 1..N,
           NEW fingerprint \in [upstream : Artifact, conf : Setting]
    PROVE  Started(m, i, fingerprint) \in Manifest
BY DEF Started, Manifest, Status
(* Ending a stage keeps a manifest a manifest. *)
LEMMA EndingType ==
    ASSUME NEW m \in Manifest, NEW i \in 1..N, NEW status \in Status
    PROVE  Ending(m, i, status) \in Manifest
BY DEF Ending, Manifest, Status

(* The bundle a stage makes, and its checkpoint's second version. *)
LEMMA MadeType ==
    ASSUME TypeOK, NEW w \in Writers, NEW i \in 1..N, NEW m \in Manifest
    PROVE  Made(w, i, m) \in Artifact
<1>1. bundle[w] \in Artifact /\ call[w].config \in Configs \cup {NoConfig}
    BY DEF TypeOK
<1>2. StageConfiguration(i, call[w].config) \in Setting
    BY <1>1, ConfigurationType
<1>3. Ordered(m) \in BOOLEAN
    BY DEF Ordered
<1>4. executions + 1 \in Nat
    BY DEF TypeOK
<1> QED BY <1>1, <1>2, <1>3, <1>4 DEF Made, Artifact, Manifest
(* The bundle of the second write is an artifact. *)
LEMMA RemadeType ==
    ASSUME TypeOK, NEW w \in Writers
    PROVE  Remade(w) \in Artifact
<1>1. bundle[w] \in Artifact
    BY DEF TypeOK
<1>2. Ordered(memory[w]) \in BOOLEAN
    BY DEF Ordered
<1> QED BY <1>1, <1>2 DEF Remade, Artifact

(* Leaving a provider name in a manifest keeps it a manifest. *)
LEMMA NamedType ==
    ASSUME TypeOK, NEW w \in Writers, NEW i \in 1..N, NEW m \in Manifest
    PROVE  Named(w, i, m) \in Manifest
<1>1. call[w].config.model \in Setting
    BY DEF TypeOK, Setting, NoConfig
<1> QED BY <1>1 DEF Named, Manifest

(* A manifest on the disk is one manifest. *)
LEMMA OnDiskType ==
    ASSUME NEW m \in Manifest
    PROVE  <<m>> \in Seq(Manifest) /\ Len(<<m>>) <= 1
OBVIOUS

(* How a call ended is recorded with its type. *)
LEMMA EndedType ==
    ASSUME TypeOK, NEW w \in Writers, NEW result \in Result, NEW artifact \in Artifact,
           Ended(w, result, artifact)
    PROVE  outcome' \in [Writers -> [result : Result, bundle : Artifact]]
BY DEF TypeOK, Ended
(* A call refused as corrupt keeps the types. *)
LEMMA CorruptTypes ==
    ASSUME TypeOK, NEW w \in Writers, Corrupt(w)
    PROVE  TypeOK'
<1>1. outcome' \in [Writers -> [result : Result, bundle : Artifact]]
    BY ValueTypes, EndedType DEF Corrupt, Return, Result
<1> QED BY <1>1 DEF TypeOK, Corrupt, Return, Goto, disk, work

(* The lock's steps keep the types. *)
LEMMA LockingTypes ==
    ASSUME TypeOK, NEW w \in Writers, Locking(w) \/ Kill(w)
    PROVE  TypeOK'
<1> USE ValueTypes DEF TypeOK, Goto, Ended, Result, Working, disk, work
<1>1. CASE Call(w)
    <2>1. PICK r \in Requests, c \in Configs, f \in Forced, place \in {"clear", "acquire"} :
            /\ call' = [call EXCEPT ![w] = [request |-> r, config |-> c, force |-> f]]
            /\ pc' = [pc EXCEPT ![w] = place]
        BY <1>1 DEF Call
    <2>2. f \in 0..N
        BY CallsAssumption
    <2>3. calls' \in 0..MaxCalls
        BY <1>1, CallsAssumption DEF Call
    <2>4. NewManifest \in Manifest /\ Absent \in Artifact /\ 1 \in 1..N
        BY StageFacts
    <2>5. /\ stage' \in [Writers -> 1..N]
          /\ memory' \in [Writers -> Manifest]
          /\ bundle' \in [Writers -> Artifact]
        BY <1>1, <2>4 DEF Call
    <2> QED BY <1>1, <2>1, <2>2, <2>3, <2>5 DEF Call
<1>2. CASE ClearStale(w)
    BY <1>2 DEF ClearStale
<1>3. CASE Acquire(w)
    <2>1. CASE lock = Free
        BY <1>3, <2>1 DEF Acquire
    <2>2. CASE lock # Free
        <3>1. outcome' \in [Writers -> [result : Result, bundle : Artifact]]
            BY <1>3, <2>2, ValueTypes, EndedType DEF Acquire, Result
        <3> QED BY <1>3, <2>2, <3>1 DEF Acquire
    <2> QED BY <2>1, <2>2
<1>4. CASE Release(w)
    BY <1>4 DEF Release
<1>5. CASE Unlink(w)
    BY <1>5 DEF Unlink
<1>6. CASE Kill(w)
    BY <1>6 DEF Kill
<1> QED BY <1>1, <1>2, <1>3, <1>4, <1>5, <1>6 DEF Locking

(* The steps before the first stage keep them. *)
LEMMA OpeningTypes ==
    ASSUME TypeOK, NEW w \in Writers, Opening(w) \/ Interrupt(w)
    PROVE  TypeOK'
<1> USE ValueTypes DEF TypeOK, Goto, Ended, Return, Result, Working, disk, work
<1>1. CASE Conflict(w)
    BY <1>1 DEF Conflict
<1>2. CASE WriteRequest(w)
    <2>1. RequestFile(call[w].request) \in Artifact
        OBVIOUS
    <2>2. file' \in [0..N -> Artifact]
        BY <1>2, <2>1 DEF WriteRequest
    <2> QED BY <1>2, <2>2 DEF WriteRequest
<1>3. CASE CreateManifest(w)
    BY <1>3, OnDiskType DEF CreateManifest
<1>4. CASE LoadManifest(w)
    <2>1. manifest # <<>> => manifest[1] \in Manifest
        OBVIOUS
    <2>2. CASE manifest # <<>> /\ Ordered(manifest[1])
        BY <1>4, <2>1, <2>2 DEF LoadManifest
    <2>3. CASE ~(manifest # <<>> /\ Ordered(manifest[1]))
        BY <1>4, <2>3, CorruptTypes DEF LoadManifest
    <2> QED BY <2>2, <2>3
<1>5. CASE Interrupt(w)
    BY <1>5 DEF Interrupt
<1> QED BY <1>1, <1>2, <1>3, <1>4, <1>5 DEF Opening

(* So do the steps that plan a run and read its checkpoint. *)
LEMMA PlanningTypes ==
    ASSUME TypeOK, NEW w \in Writers, Planning(w)
    PROVE  TypeOK'
<1> USE ValueTypes DEF TypeOK, Goto, Ended, Return, Result, Working, disk, work
<1>1. CASE Finished(w)
    <2>1. CASE Present(exports["bundle"]) /\ exports["bundle"].readable
        <3>1. exports["bundle"] \in Artifact
            BY DEF Exported
        <3>2. outcome' \in [Writers -> [result : Result, bundle : Artifact]]
            BY <1>1, <2>1, <3>1, EndedType DEF Finished, Result
        <3> QED BY <1>1, <2>1, <3>2 DEF Finished
    <2>2. CASE ~(Present(exports["bundle"]) /\ exports["bundle"].readable)
        <3>1. Corrupt(w)
            BY <1>1, <2>2 DEF Finished
        <3> QED BY <3>1, CorruptTypes
    <2> QED BY <2>1, <2>2
<1>2. CASE InvalidateFrom(w)
    <2>1. PICK s \in 1..N : /\ stage' = [stage EXCEPT ![w] = s]
                            /\ memory' = [memory EXCEPT ![w] = Invalidated(@, s)]
        BY <1>2 DEF InvalidateFrom
    <2>2. Invalidated(memory[w], s) \in Manifest
        BY InvalidatedType
    <2>3. memory' \in [Writers -> Manifest] /\ manifest' = <<memory'[w]>>
        BY <1>2, <2>1, <2>2 DEF InvalidateFrom
    <2>4. manifest' \in Seq(Manifest) /\ Len(manifest') <= 1
        BY <2>3, OnDiskType
    <2> QED BY <1>2, <2>1, <2>3, <2>4 DEF InvalidateFrom
<1>3. CASE LoadCheckpoint(w)
    <2>1. stage[w] # 1 => file[stage[w] - 1] \in Artifact
        BY StageFacts
    <2>2. RequestFile(call[w].request) \in Artifact
        OBVIOUS
    <2> DEFINE previous == IF stage[w] = 1 THEN RequestFile(call[w].request)
                           ELSE file[stage[w] - 1]
    <2>3. previous \in Artifact
        BY <2>1, <2>2
    <2> HIDE DEF previous
    <2>4. CASE Present(previous) /\ previous.readable
        <3>1. bundle' = [bundle EXCEPT ![w] = previous] /\ pc' = [pc EXCEPT ![w] = "begin"]
            BY <1>3, <2>4 DEF LoadCheckpoint, previous
        <3>2. UNCHANGED <<lock, disk, call, stage, memory, executions, outcome, calls>>
            BY <1>3, <2>4 DEF LoadCheckpoint, previous
        <3> QED BY <2>3, <3>1, <3>2
    <2>5. CASE ~(Present(previous) /\ previous.readable)
        <3>1. Corrupt(w)
            BY <1>3, <2>5 DEF LoadCheckpoint, previous
        <3> QED BY <3>1, CorruptTypes
    <2> QED BY <2>4, <2>5
<1> QED BY <1>1, <1>2, <1>3 DEF Planning

(* So do the steps that run a stage and export the bundle. *)
LEMMA RunningTypes ==
    ASSUME TypeOK, NEW w \in Writers, Running(w)
    PROVE  TypeOK'
<1> USE ValueTypes DEF TypeOK, Goto, Ended, Return, Result, Working, disk, work
<1> DEFINE i == stage[w]
<1>0. i \in 1..N /\ i \in 0..N /\ memory[w] \in Manifest
    BY StageFacts
<1>1. CASE Begin(w)
    <2>1. Expected(i, call[w].config) \in [upstream : Artifact, conf : Setting]
        BY <1>0, ExpectedType
    <2>2. Started(memory[w], i, Expected(i, call[w].config)) \in Manifest
        BY <1>0, <2>1, StartedType
    <2>3. memory' \in [Writers -> Manifest] /\ manifest' = <<memory'[w]>>
        BY <1>1, <2>2 DEF Begin
    <2>4. manifest' \in Seq(Manifest) /\ Len(manifest') <= 1
        BY <2>3, OnDiskType
    <2> QED BY <1>1, <2>3, <2>4 DEF Begin
<1>2. CASE Execute(w)
    <2>1. Named(w, i, memory[w]) \in Manifest
        BY <1>0, NamedType
    <2>2. Made(w, i, Named(w, i, memory[w])) \in Artifact
        BY <1>0, <2>1, MadeType
    <2>3. file' \in [0..N -> Artifact]
        BY <1>0, <1>2, <2>2 DEF Execute
    <2>4. memory' \in [Writers -> Manifest] /\ bundle' \in [Writers -> Artifact]
        BY <1>2, <2>1, <2>2 DEF Execute
    <2>5. executions' \in Nat
        BY <1>2 DEF Execute
    <2> QED BY <1>2, <2>3, <2>4, <2>5 DEF Execute
<1>3. CASE Fail(w)
    <2>2. Ending(memory[w], i, "failed") \in Manifest
        BY <1>0, EndingType DEF Status
    <2>3. memory' \in [Writers -> Manifest] /\ manifest' = <<memory'[w]>>
        BY <1>3, <2>2 DEF Fail
    <2>4. manifest' \in Seq(Manifest) /\ Len(manifest') <= 1
        BY <2>3, OnDiskType
    <2> QED BY <1>3, <2>3, <2>4 DEF Fail
<1>4. CASE Record(w)
    <2>1. StageStatus(i, call[w].config) \in Status
        BY DEF StageStatus, Status, Terminal
    <2>2. Ending(memory[w], i, StageStatus(i, call[w].config)) \in Manifest
        BY <1>0, <2>1, EndingType
    <2>3. memory' \in [Writers -> Manifest] /\ manifest' = <<memory'[w]>>
        BY <1>4, <2>2 DEF Record
    <2>4. manifest' \in Seq(Manifest) /\ Len(manifest') <= 1
        BY <2>3, OnDiskType
    <2> QED BY <1>4, <2>3, <2>4 DEF Record
<1>5. CASE Rewrite(w)
    <2>1. Remade(w) \in Artifact
        BY RemadeType
    <2>2. file' \in [0..N -> Artifact] /\ bundle' \in [Writers -> Artifact]
        BY <1>0, <1>5, <2>1 DEF Rewrite
    <2>3. i # N => i + 1 \in 1..N
        BY <1>0, StageFacts
    <2>4. stage' \in [Writers -> 1..N]
        BY <1>5, <2>3 DEF Rewrite
    <2> QED BY <1>5, <2>2, <2>4 DEF Rewrite
<1>6. CASE Export(w)
    <2>1. pc[w] \in Exported
        BY <1>6 DEF Export
    <2>2. ExportOrder[pc[w]] \in {"report", "audit", "release"}
        BY <2>1 DEF Exported, ExportOrder
    <2>3. exports' \in [Exported -> Artifact]
        BY <1>6, <2>1 DEF Export
    <2>4. outcome' \in [Writers -> [result : Result, bundle : Artifact]]
        <3>1. bundle[w] \in Artifact
            OBVIOUS
        <3>2. CASE pc[w] = "audit"
            BY <1>6, <3>1, <3>2, EndedType DEF Export, Result
        <3>3. CASE pc[w] # "audit"
            BY <1>6, <3>3 DEF Export
        <3> QED BY <3>2, <3>3
    <2> QED BY <1>6, <2>2, <2>3, <2>4 DEF Export
<1> QED BY <1>1, <1>2, <1>3, <1>4, <1>5, <1>6 DEF Running

(* The values of the engine's state are always of their types: the disk    *)
(* holds artifacts and at most one manifest, every call a stage of the run. *)
THEOREM TypeCorrect == Spec => []TypeOK
<1>1. Init => TypeOK
    BY ValueTypes, StageFacts, CallsAssumption DEF Init, TypeOK, Result
<1>2. TypeOK /\ [Next]_vars => TypeOK'
    <2> SUFFICES ASSUME TypeOK, [Next]_vars PROVE TypeOK'
        OBVIOUS
    <2>1. CASE UNCHANGED vars
        BY <2>1 DEF vars, disk, work, TypeOK
    <2>2. CASE Next
        BY <2>2, LockingTypes, OpeningTypes, PlanningTypes, RunningTypes DEF Next
    <2> QED BY <2>1, <2>2
<1> QED BY <1>1, <1>2, PTL DEF Spec
--------------------------------------------------------------------------------
(***************************************************************************)
(* What a resumed run skips.  PrefixIsDerived compares a manifest with the *)
(* files of the moment; the invariant compares each recorded stage with    *)
(* the fingerprint recorded beside it, which names the content the stage   *)
(* was made from, whatever has become of the file it was read from.        *)
(***************************************************************************)
Linked(m, i) ==
    m.status[i] \in Terminal =>
        /\ file[i].source = m.input[i].upstream.execution
        /\ file[i].request = m.input[i].upstream.request
        /\ file[i].conf = m.input[i].conf

(* What the holder of the lock knows: its manifest is the one on the disk, *)
(* its bundle the content of the checkpoint it is to extend or has made.   *)
Planned == {"plan", "load", "begin", "execute", "record", "rewrite"}
HoldsRequest(w) ==
    pc[w] \in {"create"} \cup Planned => file[0].request = call[w].request
HoldsManifest(w) ==
    pc[w] \in Planned =>
        /\ manifest # <<>>
        /\ manifest[1].status = memory[w].status /\ manifest[1].input = memory[w].input
HoldsUpstream(w) ==
    pc[w] \in {"begin", "execute"} =>
        /\ bundle[w].execution = file[stage[w] - 1].execution
        /\ bundle[w].request = file[stage[w] - 1].request
HoldsStage(w) ==
    /\ pc[w] \in {"execute", "record"} => memory[w].status[stage[w]] = "running"
    /\ pc[w] = "execute" =>
        memory[w].input[stage[w]] = Expected(stage[w], call[w].config)
HoldsOutput(w) ==
    /\ pc[w] \in {"record", "rewrite"} => bundle[w] = file[stage[w]]
    /\ pc[w] = "record" =>
        /\ file[stage[w]].source = memory[w].input[stage[w]].upstream.execution
        /\ file[stage[w]].request = memory[w].input[stage[w]].upstream.request
        /\ file[stage[w]].conf = memory[w].input[stage[w]].conf
HolderInv(w) ==
    HoldsRequest(w) /\ HoldsManifest(w) /\ HoldsUpstream(w) /\ HoldsStage(w) /\ HoldsOutput(w)

DiskInv ==
    /\ file[0].execution = 0
    /\ manifest # <<>> => \A i \in 1..N : Linked(manifest[1], i)
ResumeInv == DiskInv /\ \A w \in Writers : HolderInv(w)

(* Those who do not hold the lock know nothing that could become false. *)
LEMMA OutsideHolds ==
    ASSUME NEW v \in Writers, pc[v] \notin Working
    PROVE  HolderInv(v)
BY DEF HolderInv, HoldsRequest, HoldsManifest, HoldsUpstream, HoldsStage, HoldsOutput,
       Planned, Working
(* While one writer is in the run, the others stay outside and hold nothing. *)
LEMMA OthersHold ==
    ASSUME LockInv, NEW w \in Writers, Inner(w), NEW v \in Writers, v # w
    PROVE  HolderInv(v)'
<1>1. lock = w /\ ~Holding(v)
    BY DEF LockInv, Inner
<1>2. pc'[v] = pc[v]
    BY DEF LockInv, Inner
<1>3. (pc[v] \notin Working)'
    BY <1>1, <1>2 DEF Holding, Inside
<1> QED BY <1>3 DEF HolderInv, HoldsRequest, HoldsManifest, HoldsUpstream, HoldsStage,
                    HoldsOutput, Planned, Working

(* The stages a change of one manifest leaves alone remain linked. *)
LEMMA LinksStay ==
    ASSUME NEW m, NEW n, NEW i \in 1..N, Linked(m, i),
           n.status[i] \in Terminal => /\ m.status[i] \in Terminal
                                       /\ n.input[i] = m.input[i],
           file'[i] = file[i]
    PROVE  Linked(n, i)'
BY DEF Linked

(* What an action does to the control and to the disk, for one caller. *)
LEMMA PcAfter ==
    ASSUME TypeOK, NEW w \in Writers, NEW where, Goto(w, where)
    PROVE  pc'[w] = where
BY DEF TypeOK, Goto

(* A call that returns leaves the disk, and holds the lock only to release it. *)
LEMMA ReturnResumes ==
    ASSUME TypeOK, ResumeInv, NEW w \in Writers, Goto(w, "release"),
           UNCHANGED <<file, manifest>>
    PROVE  DiskInv' /\ HolderInv(w)'
<1>1. pc'[w] = "release"
    BY PcAfter
<1>2. HolderInv(w)'
    BY <1>1 DEF HolderInv, HoldsRequest, HoldsManifest, HoldsUpstream, HoldsStage,
                HoldsOutput, Planned
<1>3. DiskInv'
    BY DEF ResumeInv, DiskInv, Linked
<1> QED BY <1>2, <1>3

(* Opening a run keeps the resume invariant. *)
LEMMA OpeningResumes ==
    ASSUME TypeOK, ResumeInv, NEW w \in Writers, Opening(w)
    PROVE  DiskInv' /\ HolderInv(w)'
<1> USE StageFacts
<1>1. CASE Conflict(w)
    BY <1>1, ReturnResumes DEF Conflict, Return, disk
<1>2. CASE WriteRequest(w)
    <2>1. pc'[w] = "create"
        BY <1>2, PcAfter DEF WriteRequest
    <2>2. file'[0] = RequestFile(call[w].request) /\ \A i \in 1..N : file'[i] = file[i]
        BY <1>2 DEF WriteRequest, TypeOK
    <2>3. DiskInv'
        BY <1>2, <2>2 DEF WriteRequest, ResumeInv, DiskInv, Linked, RequestFile
    <2>4. HolderInv(w)'
        BY <1>2, <2>1, <2>2 DEF WriteRequest, RequestFile, HolderInv, HoldsRequest,
            HoldsManifest, HoldsUpstream, HoldsStage, HoldsOutput, Planned
    <2> QED BY <2>3, <2>4
<1>3. CASE CreateManifest(w)
    <2>1. pc'[w] = "plan"
        BY <1>3, PcAfter DEF CreateManifest
    <2>2. memory'[w] = NewManifest /\ manifest' = <<NewManifest>> /\ manifest'[1] = NewManifest
        BY <1>3 DEF CreateManifest, TypeOK
    <2>3. \A i \in 1..N : NewManifest.status[i] = "pending"
        BY DEF NewManifest
    <2>4. \A i \in 1..N : Linked(manifest[1], i)'
        BY <2>2, <2>3 DEF Linked, Terminal
    <2>5. DiskInv'
        BY <1>3, <2>4 DEF CreateManifest, ResumeInv, DiskInv
    <2>6. file[0].request = call[w].request
        BY <1>3 DEF CreateManifest, ResumeInv, HolderInv, HoldsRequest
    <2>7. HolderInv(w)'
        BY <1>3, <2>1, <2>2, <2>6 DEF CreateManifest, HolderInv, HoldsRequest,
            HoldsManifest, HoldsUpstream, HoldsStage, HoldsOutput, Planned
    <2> QED BY <2>5, <2>7
<1>4. CASE LoadManifest(w)
    <2>1. CASE manifest # <<>> /\ Ordered(manifest[1])
        <3>1. memory' = [memory EXCEPT ![w] = manifest[1]] /\ Goto(w, "plan")
              /\ UNCHANGED <<disk, call>> /\ file[0].request = call[w].request
            BY <1>4, <2>1 DEF LoadManifest, Stored
        <3>2. pc'[w] = "plan"
            BY <3>1, PcAfter
        <3>3. memory'[w] = manifest[1]
            BY <3>1 DEF TypeOK
        <3>4. DiskInv'
            BY <3>1 DEF disk, ResumeInv, DiskInv, Linked
        <3>5. HolderInv(w)'
            BY <2>1, <3>1, <3>2, <3>3 DEF disk, HolderInv, HoldsRequest,
                HoldsManifest, HoldsUpstream, HoldsStage, HoldsOutput, Planned
        <3> QED BY <3>4, <3>5
    <2>2. CASE ~(manifest # <<>> /\ Ordered(manifest[1]))
        <3>1. Corrupt(w)
            BY <1>4, <2>2 DEF LoadManifest
        <3> QED BY <3>1, ReturnResumes DEF Corrupt, Return, disk
    <2> QED BY <2>1, <2>2
<1> QED BY <1>1, <1>2, <1>3, <1>4 DEF Opening

(* So do invalidating its stages and reading the checkpoint before them. *)
LEMMA PlanningResumes ==
    ASSUME TypeOK, ResumeInv, NEW w \in Writers, Planning(w)
    PROVE  DiskInv' /\ HolderInv(w)'
<1> USE StageFacts
<1>1. CASE Finished(w)
    <2>1. Goto(w, "release") /\ UNCHANGED disk
        BY <1>1 DEF Finished, Corrupt, Return
    <2> QED BY <2>1, ReturnResumes DEF disk
<1>2. CASE InvalidateFrom(w)
    <2>1. PICK s \in 1..N : /\ stage' = [stage EXCEPT ![w] = s]
                            /\ memory' = [memory EXCEPT ![w] = Invalidated(@, s)]
        BY <1>2 DEF InvalidateFrom
    <2>2. pc[w] = "plan" /\ pc'[w] = "load"
        BY <1>2, PcAfter DEF InvalidateFrom
    <2>3. memory'[w] = Invalidated(memory[w], s) /\ manifest' = <<memory'[w]>>
        BY <1>2, <2>1 DEF InvalidateFrom, TypeOK
    <2>4. manifest # <<>> /\ manifest[1].status = memory[w].status
          /\ manifest[1].input = memory[w].input
        BY <2>2 DEF ResumeInv, HolderInv, HoldsManifest, Planned
    <2>5. ASSUME NEW i \in 1..N PROVE Linked(manifest[1], i)'
        <3>1. Linked(manifest[1], i)
            BY <2>4 DEF ResumeInv, DiskInv
        <3>2. manifest'[1].status[i] = (IF i < s THEN memory[w].status[i] ELSE "pending")
            BY <2>3 DEF Invalidated
        <3>3. manifest'[1].input[i] = (IF i < s THEN memory[w].input[i] ELSE NoFingerprint)
            BY <2>3 DEF Invalidated
        <3>4. file' = file
            BY <1>2 DEF InvalidateFrom
        <3> QED BY <2>4, <3>1, <3>2, <3>3, <3>4 DEF Linked, Terminal
    <2>6. DiskInv'
        BY <1>2, <2>5 DEF InvalidateFrom, ResumeInv, DiskInv
    <2>7. file[0].request = call[w].request
        BY <2>2 DEF ResumeInv, HolderInv, HoldsRequest, Planned
    <2>8. manifest'[1] = memory'[w] /\ manifest' # <<>>
        BY <2>3
    <2>9. HolderInv(w)'
        BY <1>2, <2>2, <2>7, <2>8 DEF InvalidateFrom, HolderInv, HoldsRequest,
            HoldsManifest, HoldsUpstream, HoldsStage, HoldsOutput, Planned
    <2> QED BY <2>6, <2>9
<1>3. CASE LoadCheckpoint(w)
    <2> DEFINE previous == IF stage[w] = 1 THEN RequestFile(call[w].request)
                           ELSE file[stage[w] - 1]
    <2>1. CASE Present(previous) /\ previous.readable
        <3>1. /\ bundle' = [bundle EXCEPT ![w] = previous] /\ Goto(w, "begin")
              /\ UNCHANGED <<disk, call, stage, memory>>
            BY <1>3, <2>1 DEF LoadCheckpoint
        <3>2. pc[w] = "load" /\ pc'[w] = "begin" /\ bundle'[w] = previous
            BY <1>3, <3>1, PcAfter DEF LoadCheckpoint, TypeOK
        <3>3. file[0].request = call[w].request /\ file[0].execution = 0
            BY <3>2 DEF ResumeInv, DiskInv, HolderInv, HoldsRequest, Planned
        <3>4. /\ previous.execution = file[stage[w] - 1].execution
              /\ previous.request = file[stage[w] - 1].request
            BY <3>3 DEF RequestFile
        <3>5. DiskInv'
            BY <3>1 DEF disk, ResumeInv, DiskInv, Linked
        <3>6. HoldsManifest(w)'
            BY <3>1, <3>2 DEF disk, ResumeInv, HolderInv, HoldsManifest, Planned
        <3> HIDE DEF previous
        <3>7. HolderInv(w)'
            BY <3>1, <3>2, <3>3, <3>4, <3>6 DEF disk, HolderInv, HoldsRequest,
                HoldsUpstream, HoldsStage, HoldsOutput
        <3> QED BY <3>5, <3>7
    <2>2. CASE ~(Present(previous) /\ previous.readable)
        <3>1. Corrupt(w)
            BY <1>3, <2>2 DEF LoadCheckpoint
        <3> QED BY <3>1, ReturnResumes DEF Corrupt, Return, disk
    <2> QED BY <2>1, <2>2
<1> QED BY <1>1, <1>2, <1>3 DEF Planning

(* Beginning a stage records the fingerprint of the upstream on disk. *)
LEMMA BeginResumes ==
    ASSUME TypeOK, ResumeInv, NEW w \in Writers, Begin(w)
    PROVE  DiskInv' /\ HolderInv(w)'
<1> USE StageFacts
<1> DEFINE i == stage[w]
           m == Started(memory[w], i, Expected(i, call[w].config))
<1>1. pc[w] = "begin" /\ pc'[w] = "execute"
    BY PcAfter DEF Begin
<1>2. memory'[w] = m /\ manifest' = <<m>> /\ manifest'[1] = m /\ manifest' # <<>>
    BY DEF Begin, TypeOK
<1>3. i \in 1..N /\ memory[w] \in Manifest
    BY DEF TypeOK
<1>4. /\ m.status[i] = "running" /\ m.input[i] = Expected(i, call[w].config)
      /\ \A j \in 1..N \ {i} : /\ m.status[j] = memory[w].status[j]
                                /\ m.input[j] = memory[w].input[j]
    BY <1>3 DEF Started, Manifest
<1>5. manifest # <<>> /\ manifest[1].status = memory[w].status
      /\ manifest[1].input = memory[w].input
    BY <1>1 DEF ResumeInv, HolderInv, HoldsManifest, Planned
<1>6. UNCHANGED <<file, call, stage, bundle>>
    BY DEF Begin
<1> HIDE DEF m
<1>7. ASSUME NEW j \in 1..N PROVE Linked(manifest[1], j)'
    <2>1. Linked(manifest[1], j)
        BY <1>5 DEF ResumeInv, DiskInv
    <2>2. CASE j = i
        BY <2>2, <1>2, <1>4 DEF Linked, Terminal
    <2>3. CASE j # i
        BY <2>1, <2>3, <1>2, <1>4, <1>5, <1>6 DEF Linked
    <2> QED BY <2>2, <2>3
<1>8. DiskInv'
    BY <1>6, <1>7 DEF ResumeInv, DiskInv
<1>9. HoldsRequest(w)' /\ HoldsUpstream(w)'
    BY <1>1, <1>6 DEF ResumeInv, HolderInv, HoldsRequest, HoldsUpstream, Planned
<1>10. HoldsManifest(w)' /\ HoldsOutput(w)'
    BY <1>1, <1>2 DEF HoldsManifest, HoldsOutput
<1>11. Expected(i, call[w].config)' = Expected(i, call[w].config)
    BY <1>6 DEF Expected, StageConfiguration
<1>12. HoldsStage(w)'
    BY <1>1, <1>2, <1>4, <1>6, <1>11 DEF HoldsStage
<1> QED BY <1>8, <1>9, <1>10, <1>12 DEF HolderInv

(* Executing a stage replaces a checkpoint no recorded stage rests on. *)
LEMMA ExecuteResumes ==
    ASSUME TypeOK, ResumeInv, NEW w \in Writers, Execute(w)
    PROVE  DiskInv' /\ HolderInv(w)'
<1> USE StageFacts
<1> DEFINE i == stage[w]
           m == Named(w, i, memory[w])
           b == Made(w, i, m)
<1>1. pc[w] = "execute" /\ pc'[w] = "record"
    BY PcAfter DEF Execute
<1>2. i \in 1..N /\ i # 0
    BY DEF TypeOK
<1>3. /\ memory' = [memory EXCEPT ![w] = m] /\ bundle' = [bundle EXCEPT ![w] = b]
      /\ file' = [file EXCEPT ![i] = b] /\ UNCHANGED <<manifest, call, stage>>
    BY DEF Execute
<1>4. m.status = memory[w].status /\ m.input = memory[w].input
    BY DEF Named
<1>5. /\ b.source = bundle[w].execution /\ b.request = bundle[w].request
      /\ b.conf = StageConfiguration(i, call[w].config)
    BY DEF Made
<1> HIDE DEF m, b
<1>6. memory'[w] = m /\ bundle'[w] = b /\ file'[i] = b
      /\ \A j \in 0..N : j # i => file'[j] = file[j]
    BY <1>2, <1>3 DEF TypeOK
<1>7. manifest # <<>> /\ manifest[1].status = memory[w].status
      /\ manifest[1].input = memory[w].input
    BY <1>1 DEF ResumeInv, HolderInv, HoldsManifest, Planned
<1>8. /\ memory[w].status[i] = "running"
      /\ memory[w].input[i] = Expected(i, call[w].config)
    BY <1>1 DEF ResumeInv, HolderInv, HoldsStage
<1>9. ASSUME NEW j \in 1..N PROVE Linked(manifest[1], j)'
    <2>1. Linked(manifest[1], j)
        BY <1>7 DEF ResumeInv, DiskInv
    <2>2. CASE j = i
        BY <2>2, <1>3, <1>7, <1>8 DEF Linked, Terminal
    <2>3. CASE j # i
        BY <2>1, <2>3, <1>3, <1>6 DEF Linked
    <2> QED BY <2>2, <2>3
<1>10. DiskInv'
    BY <1>2, <1>3, <1>6, <1>9 DEF ResumeInv, DiskInv
<1>11. HoldsRequest(w)'
    BY <1>1, <1>2, <1>3, <1>6 DEF ResumeInv, HolderInv, HoldsRequest, Planned
<1>12. HoldsManifest(w)' /\ HoldsUpstream(w)'
    BY <1>1, <1>3, <1>4, <1>6, <1>7 DEF HoldsManifest, HoldsUpstream
<1>13. HoldsStage(w)'
    BY <1>1, <1>3, <1>4, <1>6, <1>8 DEF HoldsStage
<1>14. /\ bundle[w].execution = file[i - 1].execution
       /\ bundle[w].request = file[i - 1].request
    BY <1>1 DEF ResumeInv, HolderInv, HoldsUpstream
<1>15. /\ b.source = memory[w].input[i].upstream.execution
       /\ b.request = memory[w].input[i].upstream.request
       /\ b.conf = memory[w].input[i].conf
    BY <1>5, <1>8, <1>14 DEF Expected, Fingerprint
<1>16. HoldsOutput(w)'
    BY <1>1, <1>3, <1>4, <1>6, <1>15 DEF HoldsOutput
<1> QED BY <1>10, <1>11, <1>12, <1>13, <1>16 DEF HolderInv

(* Recording a stage adds its checkpoint, made from its upstream, to the chain. *)
LEMMA RecordResumes ==
    ASSUME TypeOK, ResumeInv, NEW w \in Writers, Record(w)
    PROVE  DiskInv' /\ HolderInv(w)'
<1> USE StageFacts
<1> DEFINE i == stage[w]
           m == Ending(memory[w], i, StageStatus(i, call[w].config))
<1>1. pc[w] = "record" /\ pc'[w] = "rewrite"
    BY PcAfter DEF Record
<1>2. memory'[w] = m /\ manifest' = <<m>> /\ manifest'[1] = m /\ manifest' # <<>>
    BY DEF Record, TypeOK
<1>3. i \in 1..N /\ memory[w] \in Manifest
    BY DEF TypeOK
<1>4. /\ m.input = memory[w].input
      /\ \A j \in 1..N \ {i} : m.status[j] = memory[w].status[j]
    BY <1>3 DEF Ending, Manifest
<1>5. manifest # <<>> /\ manifest[1].status = memory[w].status
      /\ manifest[1].input = memory[w].input
    BY <1>1 DEF ResumeInv, HolderInv, HoldsManifest, Planned
<1>6. UNCHANGED <<file, call, stage, bundle>>
    BY DEF Record
<1>7. /\ file[i].source = memory[w].input[i].upstream.execution
      /\ file[i].request = memory[w].input[i].upstream.request
      /\ file[i].conf = memory[w].input[i].conf
      /\ bundle[w] = file[i]
    BY <1>1 DEF ResumeInv, HolderInv, HoldsOutput
<1> HIDE DEF m
<1>8. ASSUME NEW j \in 1..N PROVE Linked(manifest[1], j)'
    <2>1. Linked(manifest[1], j)
        BY <1>5 DEF ResumeInv, DiskInv
    <2>2. CASE j = i
        BY <2>2, <1>2, <1>4, <1>6, <1>7 DEF Linked
    <2>3. CASE j # i
        BY <2>1, <2>3, <1>2, <1>4, <1>5, <1>6 DEF Linked
    <2> QED BY <2>2, <2>3
<1>9. DiskInv'
    BY <1>6, <1>8 DEF ResumeInv, DiskInv
<1>10. HoldsRequest(w)'
    BY <1>1, <1>6 DEF ResumeInv, HolderInv, HoldsRequest, Planned
<1>11. HoldsManifest(w)' /\ HoldsUpstream(w)' /\ HoldsStage(w)' /\ HoldsOutput(w)'
    BY <1>1, <1>2, <1>6, <1>7 DEF HoldsManifest, HoldsUpstream, HoldsStage, HoldsOutput
<1> QED BY <1>9, <1>10, <1>11 DEF HolderInv

(* A failed stage leaves the chain before it as it was. *)
LEMMA FailResumes ==
    ASSUME TypeOK, ResumeInv, NEW w \in Writers, Fail(w)
    PROVE  DiskInv' /\ HolderInv(w)'
<1> USE StageFacts
<1> DEFINE i == stage[w]
           m == Ending(memory[w], i, "failed")
<1>1. pc[w] = "execute" /\ pc'[w] = "release"
    BY PcAfter DEF Fail, Return
<1>2. manifest' = <<m>> /\ manifest'[1] = m
    BY DEF Fail, TypeOK
<1>3. i \in 1..N /\ memory[w] \in Manifest
    BY DEF TypeOK
<1>4. /\ m.input = memory[w].input /\ m.status[i] = "failed"
      /\ \A j \in 1..N \ {i} : m.status[j] = memory[w].status[j]
    BY <1>3 DEF Ending, Manifest
<1>5. manifest # <<>> /\ manifest[1].status = memory[w].status
      /\ manifest[1].input = memory[w].input
    BY <1>1 DEF ResumeInv, HolderInv, HoldsManifest, Planned
<1>6. file' = file
    BY DEF Fail
<1> HIDE DEF m
<1>7. ASSUME NEW j \in 1..N PROVE Linked(manifest[1], j)'
    <2>1. Linked(manifest[1], j)
        BY <1>5 DEF ResumeInv, DiskInv
    <2>2. CASE j = i
        BY <2>2, <1>2, <1>4 DEF Linked, Terminal
    <2>3. CASE j # i
        BY <2>1, <2>3, <1>2, <1>4, <1>5, <1>6 DEF Linked
    <2> QED BY <2>2, <2>3
<1>8. DiskInv'
    BY <1>6, <1>7 DEF ResumeInv, DiskInv
<1>9. HolderInv(w)'
    BY <1>1 DEF HolderInv, HoldsRequest, HoldsManifest, HoldsUpstream, HoldsStage,
        HoldsOutput, Planned
<1> QED BY <1>8, <1>9

(* The second write changes the bytes of a checkpoint but not its content. *)
LEMMA RewriteResumes ==
    ASSUME TypeOK, ResumeInv, NEW w \in Writers, Rewrite(w)
    PROVE  DiskInv' /\ HolderInv(w)'
<1> USE StageFacts
<1> DEFINE i == stage[w]
           b == Remade(w)
<1>1. pc[w] = "rewrite" /\ pc'[w] \in {"bundle", "begin"}
    BY PcAfter DEF Rewrite
<1>2. i \in 1..N /\ i # 0
    BY DEF TypeOK
<1>3. /\ bundle' = [bundle EXCEPT ![w] = b] /\ file' = [file EXCEPT ![i] = b]
      /\ UNCHANGED <<manifest, call, memory>>
    BY DEF Rewrite
<1>4. bundle[w] = file[i]
    BY <1>1 DEF ResumeInv, HolderInv, HoldsOutput
<1>5. /\ b.execution = file[i].execution /\ b.source = file[i].source
      /\ b.request = file[i].request /\ b.conf = file[i].conf
    BY <1>4 DEF Remade
<1> HIDE DEF b
<1>6. bundle'[w] = b /\ file'[i] = b /\ \A j \in 0..N : j # i => file'[j] = file[j]
    BY <1>2, <1>3 DEF TypeOK
<1>7. DiskInv'
    <2>1. ASSUME NEW j \in 1..N, manifest # <<>> PROVE Linked(manifest[1], j)'
        <3>1. Linked(manifest[1], j)
            BY <2>1 DEF ResumeInv, DiskInv
        <3>2. /\ file'[j].source = file[j].source /\ file'[j].request = file[j].request
              /\ file'[j].conf = file[j].conf
            BY <1>5, <1>6
        <3> QED BY <1>3, <3>1, <3>2 DEF Linked
    <2>2. file'[0].execution = 0
        BY <1>2, <1>6 DEF ResumeInv, DiskInv
    <2> QED BY <1>3, <2>1, <2>2 DEF DiskInv
<1>8. HoldsRequest(w)'
    BY <1>1, <1>2, <1>3, <1>6 DEF ResumeInv, HolderInv, HoldsRequest, Planned
<1>9. HoldsManifest(w)'
    BY <1>1, <1>3 DEF ResumeInv, HolderInv, HoldsManifest, Planned
<1>10. pc'[w] = "begin" => stage'[w] - 1 = i
    BY <1>2, PcAfter DEF Rewrite, TypeOK
<1>11. HoldsUpstream(w)'
    BY <1>1, <1>6, <1>10 DEF HoldsUpstream
<1>12. HoldsStage(w)' /\ HoldsOutput(w)'
    BY <1>1 DEF HoldsStage, HoldsOutput
<1> QED BY <1>7, <1>8, <1>9, <1>11, <1>12 DEF HolderInv

(* Exports are not part of the chain. *)
LEMMA ExportResumes ==
    ASSUME TypeOK, ResumeInv, NEW w \in Writers, Export(w)
    PROVE  DiskInv' /\ HolderInv(w)'
<1>1. pc'[w] \in {"report", "audit", "release"}
    <2>1. pc[w] \in Exported /\ pc'[w] = ExportOrder[pc[w]]
        BY PcAfter DEF Export
    <2> QED BY <2>1 DEF Exported, ExportOrder
<1>2. HolderInv(w)'
    BY <1>1 DEF HolderInv, HoldsRequest, HoldsManifest, HoldsUpstream, HoldsStage,
        HoldsOutput, Planned
<1>3. DiskInv'
    BY DEF Export, ResumeInv, DiskInv, Linked
<1> QED BY <1>2, <1>3

(* The lock's steps touch nothing the invariant is about. *)
LEMMA LockingResumes ==
    ASSUME TypeOK, ResumeInv, NEW w \in Writers, Locking(w) \/ Kill(w)
    PROVE  ResumeInv'
<1>1. /\ UNCHANGED <<disk, executions>>
      /\ \A v \in Writers \ {w} :
            /\ pc'[v] = pc[v] /\ call'[v] = call[v] /\ stage'[v] = stage[v]
            /\ memory'[v] = memory[v] /\ bundle'[v] = bundle[v]
    BY DEF TypeOK, Locking, Call, ClearStale, Acquire, Release, Unlink, Kill, Goto, work
<1>2. pc'[w] \notin {"create"} \cup Planned
    BY DEF TypeOK, Locking, Call, ClearStale, Acquire, Release, Unlink, Kill, Goto, Planned
<1>3. HolderInv(w)'
    BY <1>2 DEF HolderInv, HoldsRequest, HoldsManifest, HoldsUpstream, HoldsStage,
        HoldsOutput, Planned
<1>4. ASSUME NEW v \in Writers \ {w} PROVE HolderInv(v)'
    <2>1. HolderInv(v)
        BY DEF ResumeInv
    <2>2. Expected(stage[v], call[v].config)' = Expected(stage[v], call[v].config)
        BY <1>1 DEF disk, Expected, StageConfiguration
    <2> QED BY <1>1, <2>1, <2>2 DEF disk, HolderInv, HoldsRequest, HoldsManifest,
            HoldsUpstream, HoldsStage, HoldsOutput
<1>5. DiskInv'
    BY <1>1 DEF disk, ResumeInv, DiskInv, Linked
<1> QED BY <1>3, <1>4, <1>5 DEF ResumeInv

(* The invariant holds throughout. *)
LEMMA ResumeInvHolds ==
    ASSUME SoleClearing
    PROVE  Spec => []ResumeInv
<1>1. Init => ResumeInv
    BY StageFacts DEF Init, ResumeInv, DiskInv, Absent, HolderInv, HoldsRequest,
        HoldsManifest, HoldsUpstream, HoldsStage, HoldsOutput, Planned
<1>2. ResumeInv /\ TypeOK /\ LockInv /\ [Next]_vars => ResumeInv'
    <2> SUFFICES ASSUME ResumeInv, TypeOK, LockInv, [Next]_vars PROVE ResumeInv'
        OBVIOUS
    <2>1. CASE UNCHANGED vars
        BY <2>1 DEF vars, disk, work, ResumeInv, DiskInv, Linked, HolderInv, HoldsRequest,
            HoldsManifest, HoldsUpstream, HoldsStage, HoldsOutput, Expected,
            StageConfiguration
    <2>2. ASSUME NEW w \in Writers,
                 Opening(w) \/ Planning(w) \/ Running(w) \/ Interrupt(w)
          PROVE  ResumeInv'
        <3>1. \A v \in Writers : v # w => HolderInv(v)'
            BY <2>2, RunLockedIsInner, OthersHold
        <3>2. Interrupt(w) => DiskInv' /\ HolderInv(w)'
            BY ReturnResumes DEF Interrupt, Return, disk
        <3>3. DiskInv' /\ HolderInv(w)'
            BY <2>2, <3>2, OpeningResumes, PlanningResumes, BeginResumes, ExecuteResumes,
               FailResumes, RecordResumes, RewriteResumes, ExportResumes DEF Running
        <3> QED BY <3>1, <3>3 DEF ResumeInv
    <2>3. ASSUME NEW w \in Writers, Locking(w) \/ Kill(w)
          PROVE  ResumeInv'
        BY <2>3, LockingResumes
    <2> QED BY <2>1, <2>2, <2>3 DEF Next
<1> QED BY <1>1, <1>2, TypeCorrect, LockInvHolds, PTL DEF Spec

(* The invariant is enough: a reusable stage was made from the file that   *)
(* is now its upstream, because that is the file its fingerprint names.    *)
LEMMA ReusableIsDerived ==
    ASSUME ResumeInv
    PROVE  PrefixIsDerived
<1> SUFFICES ASSUME NEW c \in Configs, NEW s \in 1..N, manifest # <<>>,
                    Skipped(manifest[1], s, c)
             PROVE  Derived(s, c)
    BY DEF PrefixIsDerived
<1>1. Reusable(manifest[1], s, c)
    BY StageFacts DEF Skipped
<1>2. Linked(manifest[1], s)
    BY DEF ResumeInv, DiskInv
<1> QED BY <1>1, <1>2 DEF Reusable, Linked, Terminal, Expected, Fingerprint, Derived

(* After any calls, failures, cancellations and kills, the checkpoints an  *)
(* unforced resume skips form a chain from the stored request, made by the *)
(* configuration it is called with (_first_stage_to_run).                  *)
THEOREM ResumeSkipsOnlyDerived ==
    ASSUME SoleClearing
    PROVE  Spec => []PrefixIsDerived
BY ResumeInvHolds, ReusableIsDerived, PTL
--------------------------------------------------------------------------------
(***************************************************************************)
(* What a resumed run need not repeat.  CompletedWorkIsKept speaks of the   *)
(* bytes of the checkpoints; the invariant says which file a recorded stage *)
(* was fingerprinted with, and that it is still there, since a file is only *)
(* replaced after every stage that rests on it is invalidated.              *)
(***************************************************************************)
Upstream(m, i) == m.input[i].upstream
Kept(m, i) ==
    m.status[i] \in Terminal =>
        /\ Present(file[i])
        /\ Upstream(m, i) = IF i = 1 THEN RequestFile(Upstream(m, 1).request) ELSE file[i - 1]
        /\ (\A j \in 1..(i - 1) : m.status[j] \in Terminal) => file[i].readable

(* The holder of the lock: nothing is recorded from the stage it is to     *)
(* start on; the stage it runs was fingerprinted with the file before it;  *)
(* what it extends is there; what it made parses if the stages before it   *)
(* are done.                                                               *)
HoldsAhead(w) ==
    /\ pc[w] \in {"load", "begin"} => \A j \in stage[w]..N : memory[w].status[j] = "pending"
    /\ pc[w] \in {"execute", "record", "rewrite"} =>
        \A j \in (stage[w] + 1)..N : memory[w].status[j] = "pending"
HoldsInput(w) ==
    pc[w] \in {"execute", "record"} =>
        memory[w].input[stage[w]] = Expected(stage[w], call[w].config)
HoldsPresent(w) ==
    pc[w] \in {"begin", "execute", "record", "rewrite"} => Present(bundle[w])
HoldsReadable(w) ==
    pc[w] = "record" /\ (\A j \in 1..(stage[w] - 1) : memory[w].status[j] \in Terminal)
        => file[stage[w]].readable
HoldsFirst(w) ==
    pc[w] = "create" => file[0] = RequestFile(file[0].request)
HolderKept(w) ==
    HoldsAhead(w) /\ HoldsInput(w) /\ HoldsPresent(w) /\ HoldsReadable(w) /\ HoldsFirst(w)

DiskKept ==
    manifest # <<>> =>
        /\ file[0] = RequestFile(file[0].request)
        /\ \A i \in 1..N : Kept(manifest[1], i)
KeptInv == DiskKept /\ \A w \in Writers : HolderKept(w)

(* Only the labels between the creation and the second write say anything. *)
LEMMA OutsideKept ==
    ASSUME NEW w \in Writers,
           pc'[w] \notin {"create", "load", "begin", "execute", "record", "rewrite"}
    PROVE  HolderKept(w)'
BY DEF HolderKept, HoldsAhead, HoldsInput, HoldsPresent, HoldsReadable, HoldsFirst

(* While one writer is in the run, the others say nothing. *)
LEMMA OthersKept ==
    ASSUME LockInv, NEW w \in Writers, Inner(w), NEW v \in Writers, v # w
    PROVE  HolderKept(v)'
<1>1. lock = w /\ ~Holding(v) /\ pc'[v] = pc[v]
    BY DEF LockInv, Inner
<1>2. pc'[v] \notin Working
    BY <1>1 DEF Holding, Inside
<1> QED BY <1>2, OutsideKept DEF Working

(* A stage whose record, whose file and whose upstream a step leaves alone is *)
(* kept, if the step makes no earlier stage terminal.                         *)
LEMMA KeptStays ==
    ASSUME NEW m, NEW i \in 1..N, Kept(m, i),
           manifest'[1].status[i] \in Terminal =>
                /\ m.status[i] \in Terminal
                /\ manifest'[1].input[i] = m.input[i]
                /\ file'[i] = file[i]
                /\ i > 1 => file'[i - 1] = file[i - 1]
                /\ \A j \in 1..(i - 1) :
                        manifest'[1].status[j] \in Terminal => m.status[j] \in Terminal
    PROVE  Kept(manifest[1], i)'
BY DEF Kept, Upstream

(* The same for a step that leaves the files alone. *)
LEMMA KeptIfFilesStay ==
    ASSUME NEW m, file' = file, \A i \in 1..N : Kept(m, i),
           \A i \in 1..N : manifest'[1].status[i] \in Terminal =>
                m.status[i] \in Terminal /\ manifest'[1].input[i] = m.input[i]
    PROVE  \A i \in 1..N : Kept(manifest[1], i)'
<1> TAKE i \in 1..N
<1>1. N \in Nat /\ \A j \in 1..(i - 1) : j \in 1..N
    BY StageFacts
<1>2. \A j \in 1..(i - 1) : manifest'[1].status[j] \in Terminal => m.status[j] \in Terminal
    BY <1>1
<1> QED BY <1>2, KeptStays

(* A call that returns leaves the disk as it is. *)
LEMMA ReturnKeeps ==
    ASSUME TypeOK, KeptInv, NEW w \in Writers, Goto(w, "release"),
           UNCHANGED <<file, manifest>>
    PROVE  DiskKept' /\ HolderKept(w)'
<1>1. pc'[w] = "release"
    BY PcAfter
<1>2. DiskKept'
    BY DEF KeptInv, DiskKept, Kept, Upstream
<1> QED BY <1>1, <1>2, OutsideKept

(* Opening: another request makes the stages stale, a new manifest forgets   *)
(* them.                                                                     *)
LEMMA OpeningKeeps ==
    ASSUME TypeOK, KeptInv, NEW w \in Writers, Opening(w)
    PROVE  DiskKept' /\ HolderKept(w)'
<1> USE StageFacts
<1>1. CASE Conflict(w)
    BY <1>1, ReturnKeeps DEF Conflict, Return, disk
<1>2. CASE WriteRequest(w)
    <2>1. pc'[w] = "create" /\ manifest' = manifest
        BY <1>2, PcAfter DEF WriteRequest
    <2>2. file'[0] = RequestFile(call[w].request) /\ \A i \in 1..N : file'[i] = file[i]
        BY <1>2 DEF WriteRequest, TypeOK
    <2>3. file'[0] = RequestFile(file'[0].request)
        BY <2>2 DEF RequestFile
    <2>4. ASSUME manifest # <<>>, NEW i \in 1..N PROVE Kept(manifest[1], i)'
        <3>1. Kept(manifest[1], i)
            BY <2>4 DEF KeptInv, DiskKept
        <3>2. i > 1 => i - 1 \in 1..N
            OBVIOUS
        <3>3. Kept(manifest[1], i) => Kept(manifest[1], i)'
            BY <2>1, <2>2, <3>2 DEF Kept, Upstream
        <3> QED BY <3>1, <3>3
    <2>5. DiskKept'
        BY <2>1, <2>3, <2>4 DEF DiskKept
    <2>6. HolderKept(w)'
        BY <2>1, <2>3 DEF HolderKept, HoldsAhead, HoldsInput, HoldsPresent, HoldsReadable,
            HoldsFirst
    <2> QED BY <2>5, <2>6
<1>3. CASE CreateManifest(w)
    <2>1. pc[w] = "create" /\ pc'[w] = "plan" /\ manifest'[1] = NewManifest /\ file' = file
        BY <1>3, PcAfter DEF CreateManifest
    <2>2. \A i \in 1..N : Kept(manifest[1], i)'
        BY <2>1 DEF NewManifest, Kept, Terminal
    <2>3. file[0] = RequestFile(file[0].request)
        BY <2>1 DEF KeptInv, HolderKept, HoldsFirst
    <2>4. DiskKept'
        BY <2>1, <2>2, <2>3 DEF DiskKept
    <2> QED BY <2>1, <2>4, OutsideKept
<1>4. CASE LoadManifest(w)
    <2>1. CASE manifest # <<>> /\ Ordered(manifest[1])
        <3>1. Goto(w, "plan") /\ UNCHANGED <<file, manifest>>
            BY <1>4, <2>1 DEF LoadManifest, disk
        <3>2. pc'[w] = "plan"
            BY <3>1, PcAfter
        <3>3. DiskKept'
            BY <3>1 DEF KeptInv, DiskKept, Kept, Upstream
        <3> QED BY <3>2, <3>3, OutsideKept
    <2>2. CASE ~(manifest # <<>> /\ Ordered(manifest[1]))
        <3>1. Corrupt(w)
            BY <1>4, <2>2 DEF LoadManifest
        <3> QED BY <3>1, ReturnKeeps DEF Corrupt, Return, disk
    <2> QED BY <2>1, <2>2
<1> QED BY <1>1, <1>2, <1>3, <1>4 DEF Opening

(* Planning: the stages from the first to run on are invalidated before any  *)
(* checkpoint is replaced.                                                   *)
LEMMA PlanningKeeps ==
    ASSUME TypeOK, ResumeInv, KeptInv, NEW w \in Writers, Planning(w)
    PROVE  DiskKept' /\ HolderKept(w)'
<1> USE StageFacts
<1>1. CASE Finished(w)
    <2>1. Goto(w, "release") /\ UNCHANGED disk
        BY <1>1 DEF Finished, Corrupt, Return
    <2> QED BY <2>1, ReturnKeeps DEF disk
<1>2. CASE InvalidateFrom(w)
    <2>1. PICK s \in 1..N : /\ stage' = [stage EXCEPT ![w] = s]
                            /\ memory' = [memory EXCEPT ![w] = Invalidated(@, s)]
        BY <1>2 DEF InvalidateFrom
    <2>2. pc[w] = "plan" /\ pc'[w] = "load" /\ file' = file /\ stage'[w] = s
        BY <1>2, <2>1, PcAfter DEF InvalidateFrom, TypeOK
    <2>3. memory'[w] = Invalidated(memory[w], s) /\ manifest'[1] = memory'[w]
        BY <1>2, <2>1 DEF InvalidateFrom, TypeOK
    <2>4. manifest # <<>> /\ manifest[1].status = memory[w].status
          /\ manifest[1].input = memory[w].input
        BY <2>2 DEF ResumeInv, HolderInv, HoldsManifest, Planned
    <2>5. \A i \in 1..N : memory'[w].status[i] \in Terminal =>
                manifest[1].status[i] \in Terminal /\ memory'[w].input[i] = manifest[1].input[i]
        BY <2>3, <2>4 DEF Invalidated, Terminal
    <2>6. \A i \in 1..N : Kept(manifest[1], i)
        BY <2>4 DEF KeptInv, DiskKept
    <2>7. \A i \in 1..N : Kept(manifest[1], i)'
        BY <2>2, <2>3, <2>5, <2>6, KeptIfFilesStay
    <2>8. DiskKept'
        BY <2>2, <2>3, <2>4, <2>7 DEF KeptInv, DiskKept
    <2>9. \A j \in s..N : memory'[w].status[j] = "pending"
        BY <2>3 DEF Invalidated
    <2>10. HolderKept(w)'
        BY <2>2, <2>9 DEF HolderKept, HoldsAhead, HoldsInput, HoldsPresent, HoldsReadable,
            HoldsFirst
    <2> QED BY <2>8, <2>10
<1>3. CASE LoadCheckpoint(w)
    <2> DEFINE previous == IF stage[w] = 1 THEN RequestFile(call[w].request)
                           ELSE file[stage[w] - 1]
    <2>1. CASE Present(previous) /\ previous.readable
        <3>1. /\ bundle' = [bundle EXCEPT ![w] = previous] /\ Goto(w, "begin")
              /\ UNCHANGED <<file, manifest, call, stage, memory>> /\ pc[w] = "load"
            BY <1>3, <2>1 DEF LoadCheckpoint, disk
        <3> HIDE DEF previous
        <3>2. pc'[w] = "begin" /\ Present(bundle'[w])
            BY <2>1, <3>1, PcAfter DEF TypeOK
        <3>3. DiskKept'
            BY <3>1 DEF KeptInv, DiskKept, Kept, Upstream
        <3>4. \A j \in stage[w]..N : memory[w].status[j] = "pending"
            BY <3>1 DEF KeptInv, HolderKept, HoldsAhead
        <3>5. HolderKept(w)'
            BY <3>1, <3>2, <3>4 DEF HolderKept, HoldsAhead, HoldsInput, HoldsPresent,
                HoldsReadable, HoldsFirst
        <3> QED BY <3>3, <3>5
    <2>2. CASE ~(Present(previous) /\ previous.readable)
        <3>1. Corrupt(w)
            BY <1>3, <2>2 DEF LoadCheckpoint
        <3> QED BY <3>1, ReturnKeeps DEF Corrupt, Return, disk
    <2> QED BY <2>1, <2>2
<1> QED BY <1>1, <1>2, <1>3 DEF Planning

(* With nothing running but stage i, the stages before it done and none after *)
(* it, a manifest parses.                                                     *)
LEMMA ParsesWhenDone ==
    ASSUME NEW m \in Manifest, NEW i \in 1..N,
           m.status[i] \in Terminal \cup {"running"},
           \A j \in 1..(i - 1) : m.status[j] \in Terminal,
           \A j \in (i + 1)..N : m.status[j] = "pending"
    PROVE  Ordered(m)
<1> DEFINE R == {j \in 1..N : m.status[j] = "running"}
<1>1. N \in Nat /\ \A j \in 1..N : j < i \/ j = i \/ j > i
    BY StageFacts
<1>2. \A j \in 1..N : /\ j < i => m.status[j] \in Terminal
                      /\ j > i => m.status[j] = "pending"
    BY <1>1
<1>3. R \subseteq {i}
    BY <1>1, <1>2 DEF Terminal
<1>4. R = {} \/ R = {i}
    BY <1>3
<1> HIDE DEF R
<1>5. Cardinality(R) = 0 \/ Cardinality(R) = 1
    BY <1>4, FS_EmptySet, FS_Singleton
<1>6. \A j, k \in 1..N : j < k /\ m.status[k] \in Terminal => m.status[j] \in Terminal
    BY <1>1, <1>2 DEF Terminal
<1> QED BY <1>5, <1>6 DEF Ordered, R

(* Beginning a stage: its fingerprint is of the file before it. *)
LEMMA BeginKeeps ==
    ASSUME TypeOK, ResumeInv, KeptInv, NEW w \in Writers, Begin(w)
    PROVE  DiskKept' /\ HolderKept(w)'
<1> USE StageFacts
<1> DEFINE i == stage[w]
           m == Started(memory[w], i, Expected(i, call[w].config))
<1>1. pc[w] = "begin" /\ pc'[w] = "execute" /\ UNCHANGED <<file, call, stage, bundle>>
    BY PcAfter DEF Begin
<1>2. memory'[w] = m /\ manifest'[1] = m
    BY DEF Begin, TypeOK
<1>3. i \in 1..N /\ memory[w] \in Manifest
    BY DEF TypeOK
<1>4. /\ m.status[i] = "running" /\ m.input[i] = Expected(i, call[w].config)
      /\ \A j \in 1..N \ {i} : /\ m.status[j] = memory[w].status[j]
                                /\ m.input[j] = memory[w].input[j]
    BY <1>3 DEF Started, Manifest
<1>5. manifest # <<>> /\ manifest[1].status = memory[w].status
      /\ manifest[1].input = memory[w].input
    BY <1>1 DEF ResumeInv, HolderInv, HoldsManifest, Planned
<1> HIDE DEF m
<1>6. \A j \in 1..N : Kept(manifest[1], j)
    BY <1>5 DEF KeptInv, DiskKept
<1>7. \A j \in 1..N : manifest'[1].status[j] \in Terminal =>
            manifest[1].status[j] \in Terminal /\ manifest'[1].input[j] = manifest[1].input[j]
    BY <1>2, <1>4, <1>5 DEF Terminal
<1>8. \A j \in 1..N : Kept(manifest[1], j)'
    BY <1>1, <1>6, <1>7, KeptIfFilesStay
<1>9. DiskKept'
    BY <1>1, <1>5, <1>8 DEF KeptInv, DiskKept
<1>10. \A j \in (i + 1)..N : j \in i..N /\ j \in 1..N \ {i}
    BY <1>3
<1>11. \A j \in (i + 1)..N : m.status[j] = "pending"
    BY <1>1, <1>4, <1>10 DEF KeptInv, HolderKept, HoldsAhead
<1>12. Expected(i, call[w].config)' = Expected(i, call[w].config) /\ Present(bundle[w])
    BY <1>1 DEF Expected, StageConfiguration, KeptInv, HolderKept, HoldsPresent
<1>13. HolderKept(w)'
    BY <1>1, <1>2, <1>4, <1>11, <1>12 DEF HolderKept, HoldsAhead, HoldsInput, HoldsPresent,
        HoldsReadable, HoldsFirst
<1> QED BY <1>9, <1>13

(* Executing a stage replaces its checkpoint; no recorded stage rests on it. *)
LEMMA ExecuteKeeps ==
    ASSUME TypeOK, ResumeInv, KeptInv, NEW w \in Writers, Execute(w)
    PROVE  DiskKept' /\ HolderKept(w)'
<1> USE StageFacts
<1> DEFINE i == stage[w]
           m == Named(w, i, memory[w])
           b == Made(w, i, m)
<1>1. pc[w] = "execute" /\ pc'[w] = "record"
    BY PcAfter DEF Execute
<1>2. i \in 1..N /\ i # 0
    BY DEF TypeOK
<1>3. /\ memory' = [memory EXCEPT ![w] = m] /\ bundle' = [bundle EXCEPT ![w] = b]
      /\ file' = [file EXCEPT ![i] = b] /\ UNCHANGED <<manifest, call, stage>>
    BY DEF Execute
<1>4. m.status = memory[w].status /\ m.input = memory[w].input /\ m \in Manifest
    BY <1>2, NamedType DEF Named, TypeOK
<1>5. b.request = bundle[w].request /\ b.readable = Ordered(m)
    BY DEF Made
<1> HIDE DEF m, b
<1>6. memory'[w] = m /\ bundle'[w] = b /\ file'[i] = b
      /\ \A j \in 0..N : j # i => file'[j] = file[j]
    BY <1>2, <1>3 DEF TypeOK
<1>7. manifest # <<>> /\ manifest[1].status = memory[w].status
    BY <1>1 DEF ResumeInv, HolderInv, HoldsManifest, Planned
<1>8. memory[w].status[i] = "running" /\ \A j \in (i + 1)..N : memory[w].status[j] = "pending"
    BY <1>1 DEF ResumeInv, HolderInv, HoldsStage, KeptInv, HolderKept, HoldsAhead
<1>9. ASSUME NEW j \in 1..N PROVE Kept(manifest[1], j)'
    <2>1. Kept(manifest[1], j)
        BY <1>7 DEF KeptInv, DiskKept
    <2>2. CASE j < i
        <3>1. file'[j] = file[j] /\ (j > 1 => file'[j - 1] = file[j - 1])
            BY <1>2, <1>6, <2>2
        <3> QED BY <1>3, <2>1, <3>1, KeptStays
    <2>3. CASE j >= i
        <3>1. j = i \/ j \in (i + 1)..N
            BY <1>2, <2>3
        <3>2. manifest'[1].status[j] \notin Terminal
            BY <1>3, <1>7, <1>8, <3>1 DEF Terminal
        <3> QED BY <3>2 DEF Kept
    <2> QED BY <1>2, <2>2, <2>3
<1>10. DiskKept'
    BY <1>2, <1>3, <1>6, <1>7, <1>9 DEF KeptInv, DiskKept
<1>11. Expected(i, call[w].config)' = Expected(i, call[w].config)
    BY <1>2, <1>3, <1>6 DEF Expected, StageConfiguration
<1>12. memory[w].input[i] = Expected(i, call[w].config) /\ Present(b)
    BY <1>1, <1>5 DEF KeptInv, HolderKept, HoldsInput, HoldsPresent, Present
<1>13. (\A j \in 1..(i - 1) : m.status[j] \in Terminal) => b.readable
    BY <1>2, <1>4, <1>5, <1>8, ParsesWhenDone
<1>14. HolderKept(w)'
    BY <1>1, <1>3, <1>4, <1>6, <1>8, <1>11, <1>12, <1>13 DEF HolderKept, HoldsAhead,
        HoldsInput, HoldsPresent, HoldsReadable, HoldsFirst
<1> QED BY <1>10, <1>14

(* Recording a stage keeps it. *)
LEMMA RecordKeeps ==
    ASSUME TypeOK, ResumeInv, KeptInv, NEW w \in Writers, Record(w)
    PROVE  DiskKept' /\ HolderKept(w)'
<1> USE StageFacts
<1> DEFINE i == stage[w]
           m == Ending(memory[w], i, StageStatus(i, call[w].config))
<1>1. pc[w] = "record" /\ pc'[w] = "rewrite" /\ UNCHANGED <<file, call, stage, bundle>>
    BY PcAfter DEF Record
<1>2. memory'[w] = m /\ manifest'[1] = m
    BY DEF Record, TypeOK
<1>3. i \in 1..N /\ memory[w] \in Manifest
    BY DEF TypeOK
<1>4. /\ m.input = memory[w].input
      /\ \A j \in 1..N \ {i} : m.status[j] = memory[w].status[j]
    BY <1>3 DEF Ending, Manifest
<1>5. manifest # <<>> /\ manifest[1].status = memory[w].status
      /\ manifest[1].input = memory[w].input
    BY <1>1 DEF ResumeInv, HolderInv, HoldsManifest, Planned
<1>6. bundle[w] = file[i] /\ Present(bundle[w])
      /\ memory[w].input[i] = Expected(i, call[w].config)
    BY <1>1 DEF ResumeInv, HolderInv, HoldsOutput, KeptInv, HolderKept, HoldsInput, HoldsPresent
<1>7. (\A j \in 1..(i - 1) : memory[w].status[j] \in Terminal) => file[i].readable
    BY <1>1 DEF KeptInv, HolderKept, HoldsReadable
<1>8. file[0] = RequestFile(file[0].request)
    BY <1>5 DEF KeptInv, DiskKept
<1> HIDE DEF m
<1>9. ASSUME NEW j \in 1..N PROVE Kept(manifest[1], j)'
    <2>1. Kept(manifest[1], j)
        BY <1>5 DEF KeptInv, DiskKept
    <2>2. CASE j = i
        <3>1. \A k \in 1..(i - 1) : m.status[k] = memory[w].status[k]
            BY <1>3, <1>4
        <3>2. m.input[i].upstream = file[i - 1]
            BY <1>4, <1>6 DEF Expected, Fingerprint
        <3>3. m.input[i].upstream
                = IF i = 1 THEN RequestFile(m.input[1].upstream.request) ELSE file[i - 1]
            BY <1>8, <3>2
        <3> QED BY <1>1, <1>2, <1>6, <1>7, <2>2, <3>1, <3>3 DEF Kept, Upstream
    <2>3. CASE j < i
        <3>1. \A k \in 1..j : k \in 1..N \ {i}
            BY <1>3, <2>3
        <3>2. j \in 1..j /\ \A k \in 1..(j - 1) : k \in 1..j
            OBVIOUS
        <3>3. /\ m.status[j] = manifest[1].status[j] /\ m.input[j] = manifest[1].input[j]
              /\ \A k \in 1..(j - 1) : m.status[k] = manifest[1].status[k]
            BY <1>4, <1>5, <3>1, <3>2
        <3> QED BY <1>1, <1>2, <2>1, <3>3, KeptStays
    <2>4. CASE j > i
        <3>1. j \in (i + 1)..N /\ j \in 1..N \ {i}
            BY <1>3, <2>4
        <3>2. m.status[j] = "pending"
            BY <1>1, <1>4, <3>1 DEF KeptInv, HolderKept, HoldsAhead
        <3> QED BY <1>2, <3>2 DEF Kept, Terminal
    <2> QED BY <1>3, <2>2, <2>3, <2>4
<1>10. DiskKept'
    BY <1>1, <1>8, <1>9 DEF DiskKept
<1>11. \A j \in (i + 1)..N : j \in 1..N \ {i}
    BY <1>3
<1>12. \A j \in (i + 1)..N : m.status[j] = "pending"
    BY <1>1, <1>4, <1>11 DEF KeptInv, HolderKept, HoldsAhead
<1>13. HolderKept(w)'
    BY <1>1, <1>2, <1>6, <1>12 DEF HolderKept, HoldsAhead, HoldsInput, HoldsPresent,
        HoldsReadable, HoldsFirst
<1> QED BY <1>10, <1>13

(* A stage that fails was not recorded, and no other record changes. *)
LEMMA FailKeeps ==
    ASSUME TypeOK, ResumeInv, KeptInv, NEW w \in Writers, Fail(w)
    PROVE  DiskKept' /\ HolderKept(w)'
<1> USE StageFacts
<1> DEFINE i == stage[w]
           m == Ending(memory[w], i, "failed")
<1>1. pc[w] = "execute" /\ pc'[w] = "release" /\ file' = file
    BY PcAfter DEF Fail, Return
<1>2. manifest'[1] = m
    BY DEF Fail, TypeOK
<1>3. i \in 1..N /\ memory[w] \in Manifest
    BY DEF TypeOK
<1>4. /\ m.input = memory[w].input /\ m.status[i] = "failed"
      /\ \A j \in 1..N \ {i} : m.status[j] = memory[w].status[j]
    BY <1>3 DEF Ending, Manifest
<1>5. manifest # <<>> /\ manifest[1].status = memory[w].status
      /\ manifest[1].input = memory[w].input
    BY <1>1 DEF ResumeInv, HolderInv, HoldsManifest, Planned
<1> HIDE DEF m
<1>6. \A j \in 1..N : Kept(manifest[1], j)
    BY <1>5 DEF KeptInv, DiskKept
<1>7. \A j \in 1..N : manifest'[1].status[j] \in Terminal =>
            manifest[1].status[j] \in Terminal /\ manifest'[1].input[j] = manifest[1].input[j]
    BY <1>2, <1>4, <1>5 DEF Terminal
<1>8. \A j \in 1..N : Kept(manifest[1], j)'
    BY <1>1, <1>6, <1>7, KeptIfFilesStay
<1>9. DiskKept'
    BY <1>1, <1>5, <1>8 DEF KeptInv, DiskKept
<1> QED BY <1>1, <1>9, OutsideKept

(* The second write leaves a checkpoint that parses, if the stages before it *)
(* are done; nothing recorded rests on it yet.                               *)
LEMMA RewriteKeeps ==
    ASSUME TypeOK, ResumeInv, KeptInv, NEW w \in Writers, Rewrite(w)
    PROVE  DiskKept' /\ HolderKept(w)'
<1> USE StageFacts
<1> DEFINE i == stage[w]
           b == Remade(w)
<1>1. pc[w] = "rewrite" /\ pc'[w] \in {"bundle", "begin"}
    BY PcAfter DEF Rewrite
<1>2. i \in 1..N /\ i # 0 /\ memory[w] \in Manifest
    BY DEF TypeOK
<1>3. /\ bundle' = [bundle EXCEPT ![w] = b] /\ file' = [file EXCEPT ![i] = b]
      /\ UNCHANGED <<manifest, call, memory>>
    BY DEF Rewrite
<1>4. b.request = bundle[w].request /\ b.readable = Ordered(memory[w])
    BY DEF Remade
<1>5. Present(b) /\ \A j \in (i + 1)..N : memory[w].status[j] = "pending"
    BY <1>1, <1>4 DEF KeptInv, HolderKept, HoldsPresent, HoldsAhead, Present
<1> HIDE DEF b
<1>6. bundle'[w] = b /\ file'[i] = b /\ \A j \in 0..N : j # i => file'[j] = file[j]
    BY <1>2, <1>3 DEF TypeOK
<1>7. manifest # <<>> /\ manifest[1].status = memory[w].status
      /\ manifest[1].input = memory[w].input
    BY <1>1 DEF ResumeInv, HolderInv, HoldsManifest, Planned
<1>8. ASSUME NEW j \in 1..N PROVE Kept(manifest[1], j)'
    <2>1. Kept(manifest[1], j)
        BY <1>7 DEF KeptInv, DiskKept
    <2>2. CASE j < i
        <3>1. file'[j] = file[j] /\ (j > 1 => file'[j - 1] = file[j - 1])
            BY <1>2, <1>6, <2>2
        <3> QED BY <1>3, <2>1, <3>1, KeptStays
    <2>3. CASE j = i
        <3>1. i > 1 => file'[i - 1] = file[i - 1]
            BY <1>2, <1>6
        <3>2. /\ memory[w].status[i] \in Terminal
              /\ \A k \in 1..(i - 1) : memory[w].status[k] \in Terminal
              => b.readable
            BY <1>2, <1>4, <1>5, ParsesWhenDone
        <3> QED BY <1>2, <1>3, <1>5, <1>6, <1>7, <2>1, <2>3, <3>1, <3>2 DEF Kept, Upstream
    <2>4. CASE j > i
        <3>1. j \in (i + 1)..N
            BY <1>2, <2>4
        <3>2. manifest'[1].status[j] = "pending"
            BY <1>3, <1>5, <1>7, <3>1
        <3> QED BY <3>2 DEF Kept, Terminal
    <2> QED BY <1>2, <2>2, <2>3, <2>4
<1>9. DiskKept'
    BY <1>2, <1>3, <1>6, <1>7, <1>8 DEF KeptInv, DiskKept
<1>10. pc'[w] = "begin" => stage'[w] = i + 1
    BY <1>2, PcAfter DEF Rewrite, TypeOK
<1>11. HolderKept(w)'
    BY <1>1, <1>3, <1>5, <1>6, <1>10 DEF HolderKept, HoldsAhead, HoldsInput, HoldsPresent,
        HoldsReadable, HoldsFirst
<1> QED BY <1>9, <1>11

(* Exports are not read by a resume. *)
LEMMA ExportKeeps ==
    ASSUME TypeOK, KeptInv, NEW w \in Writers, Export(w)
    PROVE  DiskKept' /\ HolderKept(w)'
<1>1. pc'[w] \in {"report", "audit", "release"}
    <2>1. pc[w] \in Exported /\ pc'[w] = ExportOrder[pc[w]]
        BY PcAfter DEF Export
    <2> QED BY <2>1 DEF Exported, ExportOrder
<1>2. DiskKept'
    BY DEF Export, KeptInv, DiskKept, Kept, Upstream
<1> QED BY <1>1, <1>2, OutsideKept

(* The lock's steps touch nothing of it. *)
LEMMA LockingKept ==
    ASSUME TypeOK, KeptInv, NEW w \in Writers, Locking(w) \/ Kill(w)
    PROVE  KeptInv'
<1>1. /\ UNCHANGED disk
      /\ \A v \in Writers \ {w} :
            /\ pc'[v] = pc[v] /\ call'[v] = call[v] /\ stage'[v] = stage[v]
            /\ memory'[v] = memory[v] /\ bundle'[v] = bundle[v]
    BY DEF TypeOK, Locking, Call, ClearStale, Acquire, Release, Unlink, Kill, Goto, work
<1>2. pc'[w] \notin {"create", "load", "begin", "execute", "record", "rewrite"}
    BY DEF TypeOK, Locking, Call, ClearStale, Acquire, Release, Unlink, Kill, Goto
<1>3. ASSUME NEW v \in Writers \ {w} PROVE HolderKept(v)'
    <2>1. HolderKept(v)
        BY DEF KeptInv
    <2>2. Expected(stage[v], call[v].config)' = Expected(stage[v], call[v].config)
        BY <1>1 DEF disk, Expected, StageConfiguration
    <2> QED BY <1>1, <2>1, <2>2 DEF disk, HolderKept, HoldsAhead, HoldsInput, HoldsPresent,
            HoldsReadable, HoldsFirst
<1>4. DiskKept'
    BY <1>1 DEF disk, KeptInv, DiskKept, Kept, Upstream
<1> QED BY <1>2, <1>3, <1>4, OutsideKept DEF KeptInv

(* Both invariants of the chain of checkpoints hold throughout. *)
LEMMA KeptInvHolds ==
    ASSUME SoleClearing
    PROVE  Spec => [](TypeOK /\ LockInv /\ ResumeInv /\ KeptInv)
<1>1. Init => KeptInv
    BY DEF Init, KeptInv, DiskKept, HolderKept, HoldsAhead, HoldsInput, HoldsPresent,
        HoldsReadable, HoldsFirst
<1>2. TypeOK /\ LockInv /\ ResumeInv /\ KeptInv /\ [Next]_vars => KeptInv'
    <2> SUFFICES ASSUME TypeOK, LockInv, ResumeInv, KeptInv, [Next]_vars PROVE KeptInv'
        OBVIOUS
    <2>1. CASE UNCHANGED vars
        BY <2>1 DEF vars, disk, work, KeptInv, DiskKept, Kept, Upstream, HolderKept,
            HoldsAhead, HoldsInput, HoldsPresent, HoldsReadable, HoldsFirst, Expected,
            StageConfiguration
    <2>2. ASSUME NEW w \in Writers,
                 Opening(w) \/ Planning(w) \/ Running(w) \/ Interrupt(w)
          PROVE  KeptInv'
        <3>1. \A v \in Writers : v # w => HolderKept(v)'
            BY <2>2, RunLockedIsInner, OthersKept
        <3>2. Interrupt(w) => DiskKept' /\ HolderKept(w)'
            BY ReturnKeeps DEF Interrupt, Return, disk
        <3>3. DiskKept' /\ HolderKept(w)'
            BY <2>2, <3>2, OpeningKeeps, PlanningKeeps, BeginKeeps, ExecuteKeeps,
               FailKeeps, RecordKeeps, RewriteKeeps, ExportKeeps DEF Running
        <3> QED BY <3>1, <3>3 DEF KeptInv
    <2>3. ASSUME NEW w \in Writers, Locking(w) \/ Kill(w)
          PROVE  KeptInv'
        BY <2>3, LockingKept
    <2> QED BY <2>1, <2>2, <2>3 DEF Next
<1> QED BY <1>1, <1>2, TypeCorrect, LockInvHolds, ResumeInvHolds, PTL DEF Spec

(* Stages recorded as done with their checkpoints in a chain are skipped.    *)
(* An execution number does not tell the two writes of a checkpoint apart;   *)
(* the invariant does: the file fingerprinted is the one that is there.      *)
LEMMA KeptIsReusable ==
    ASSUME TypeOK, ResumeInv, KeptInv
    PROVE  CompletedWorkIsKept
<1> SUFFICES ASSUME NEW c \in Configs, NEW s \in 1..N, manifest # <<>>,
                    \A i \in 1..s : /\ manifest[1].status[i] = StageStatus(i, c)
                                    /\ Derived(i, c),
                    NEW i \in 1..s
             PROVE  Reusable(manifest[1], i, c)
    BY DEF CompletedWorkIsKept, Skipped
<1> DEFINE m == manifest[1]
<1>1. i \in 1..N /\ \A j \in 1..(i - 1) : j \in 1..s
    BY StageFacts
<1>2. \A j \in 1..s : m.status[j] \in Terminal
    BY DEF StageStatus, Terminal
<1>3. Linked(m, i) /\ Kept(m, i) /\ file[0] = RequestFile(file[0].request)
    BY <1>1 DEF ResumeInv, DiskInv, KeptInv, DiskKept
<1>4. m.status[i] \in Terminal /\ \A j \in 1..(i - 1) : m.status[j] \in Terminal
    BY <1>1, <1>2
<1>5. Present(file[i]) /\ file[i].readable
    BY <1>3, <1>4 DEF Kept
<1>6. Derived(i, c)
    OBVIOUS
<1>7. Upstream(m, i) = file[i - 1]
    BY <1>1, <1>3, <1>4, <1>6 DEF Kept, Linked, Derived, Upstream
<1>8. m \in Manifest
    BY DEF TypeOK
<1>9. m.input[i].conf = StageConfiguration(i, c)
    BY <1>3, <1>4, <1>6 DEF Linked, Derived
<1>10. m.input[i] = Expected(i, c)
    BY <1>1, <1>7, <1>8, <1>9 DEF Expected, Fingerprint, Upstream, Manifest
<1>11. \/ m.status[i] = "completed"
       \/ m.status[i] = "skipped" /\ Stages[i] \in Analysis /\ c.model = "none"
    BY DEF StageStatus
<1> QED BY <1>5, <1>10, <1>11 DEF Reusable

(* No resume repeats completed work: whatever was forced, cancelled, failed  *)
(* or killed before, stages recorded as done whose checkpoints form a chain  *)
(* for the configuration of the call are skipped (_first_stage_to_run).      *)
THEOREM ResumeKeepsCompletedWork ==
    ASSUME SoleClearing
    PROVE  Spec => []CompletedWorkIsKept
<1>1. TypeOK /\ LockInv /\ ResumeInv /\ KeptInv => CompletedWorkIsKept
    BY KeptIsReusable
<1> QED BY <1>1, KeptInvHolds, PTL
--------------------------------------------------------------------------------
(***************************************************************************)
(* The model a bundle names.                                               *)
(***************************************************************************)
(* Analysis ends at stage l. *)
AnalysisEnds(l) ==
    Stages[l] \in Analysis /\ \A i \in 1..N : Stages[i] \in Analysis => i <= l

(* A manifest that records the end of the analysis names who made it.      *)
NamesAnalyst(m, l) == m.status[l] = "completed" => m.model = m.input[l].conf

(* The holder of the lock, once the analysis is behind it, has its model's *)
(* name in the manifest and then in the bundle.                            *)
Exporting == {"bundle", "report", "audit"}
Behind(w, l) ==
    \/ pc[w] \in {"load", "begin", "execute"} /\ stage[w] > l
    \/ pc[w] \in {"record", "rewrite"} /\ stage[w] >= l
ReturnsName(w) ==
    pc[w] = "release" /\ outcome[w].result = "ok" /\ Present(bundle[w]) =>
        outcome[w].bundle.model = call[w].config.model
HoldsName(w, l) ==
    /\ pc[w] \in Planned => NamesAnalyst(memory[w], l)
    /\ pc[w] \in {"record", "rewrite"} => bundle[w].model = memory[w].model
    /\ pc[w] = "record" /\ stage[w] = l /\ call[w].config.model # "none" =>
        memory[w].model = call[w].config.model
    /\ call[w].config.model # "none" /\ call[w].force <= l =>
        /\ Behind(w, l) => memory[w].model = call[w].config.model
        /\ pc[w] \in Exporting => bundle[w].model = call[w].config.model
        /\ ReturnsName(w)
NameInv(l) ==
    /\ manifest # <<>> => NamesAnalyst(manifest[1], l)
    /\ \A w \in Writers : HoldsName(w, l)

(* A call is made with one of the values callers force, and has no bundle    *)
(* before it has read a checkpoint.                                          *)
HoldsCall(w) ==
    /\ call[w].force \in Forced \cup {0}
    /\ pc[w] \in {"clear", "acquire", "open", "create", "plan", "load"} => bundle[w] = Absent
CallInv == \A w \in Writers : HoldsCall(w)

(* Calls are made so, and only reading a checkpoint or executing a stage     *)
(* gives one a bundle.                                                       *)
LEMMA CallInvHolds == Spec => []CallInv
<1>1. Init => CallInv
    BY DEF Init, CallInv, HoldsCall
<1>2. TypeOK /\ CallInv /\ [Next]_vars => CallInv'
    <2> SUFFICES ASSUME TypeOK, CallInv, [Next]_vars PROVE CallInv'
        OBVIOUS
    <2>1. CASE UNCHANGED vars
        BY <2>1 DEF vars, work, CallInv, HoldsCall
    <2>2. ASSUME NEW w \in Writers,
                 \/ Locking(w) \/ Opening(w) \/ Planning(w) \/ Running(w)
                 \/ Interrupt(w) \/ Kill(w)
          PROVE  CallInv'
        <3>1. ASSUME NEW v \in Writers \ {w} PROVE HoldsCall(v)'
            <4>1. HoldsCall(v)
                BY DEF CallInv
            <4>2. pc'[v] = pc[v] /\ call'[v] = call[v] /\ bundle'[v] = bundle[v]
                BY <2>2 DEF TypeOK, Locking, Call, ClearStale, Acquire, Release, Unlink,
                    Opening, Conflict, WriteRequest, CreateManifest, LoadManifest, Planning,
                    Finished, InvalidateFrom, LoadCheckpoint, Running, Begin, Execute, Fail,
                    Record, Rewrite, Export, Interrupt, Kill, Corrupt, Return, Goto, work
            <4> QED BY <4>1, <4>2 DEF HoldsCall
        <3>2. HoldsCall(w)
            BY DEF CallInv
        <3>3. ASSUME Locking(w) PROVE HoldsCall(w)'
            BY <2>2, <3>2, <3>3 DEF TypeOK, Locking, Call, ClearStale, Acquire, Release, Unlink,
                Goto, work, HoldsCall
        <3>4. ASSUME Opening(w) PROVE HoldsCall(w)'
            BY <3>2, <3>4 DEF TypeOK, Opening, Conflict, WriteRequest, CreateManifest,
                LoadManifest, Corrupt, Return, Goto, work, HoldsCall
        <3>5. ASSUME Planning(w) PROVE HoldsCall(w)'
            BY <3>2, <3>5 DEF TypeOK, Planning, Finished, InvalidateFrom, LoadCheckpoint,
                Corrupt, Return, Goto, work, HoldsCall
        <3>6. ASSUME Running(w) PROVE HoldsCall(w)'
            <4>1. Export(w) => pc'[w] \in {"report", "audit", "release"}
                <5>1. Export(w) => pc[w] \in Exported /\ pc'[w] = ExportOrder[pc[w]]
                    BY PcAfter DEF Export
                <5> QED BY <5>1 DEF Exported, ExportOrder
            <4>2. pc'[w] \notin {"clear", "acquire", "open", "create", "plan", "load"}
                BY <3>6, <4>1 DEF TypeOK, Running, Begin, Execute, Fail, Record, Rewrite,
                    Return, Goto
            <4>3. call' = call
                BY <3>6 DEF Running, Begin, Execute, Fail, Record, Rewrite, Export
            <4> QED BY <3>2, <4>2, <4>3 DEF HoldsCall
        <3>7. ASSUME Interrupt(w) \/ Kill(w) PROVE HoldsCall(w)'
            BY <3>2, <3>7 DEF TypeOK, Interrupt, Kill, Return, Goto, work, HoldsCall
        <3> QED BY <2>2, <3>1, <3>3, <3>4, <3>5, <3>6, <3>7 DEF CallInv
    <2> QED BY <2>1, <2>2 DEF Next
<1> QED BY <1>1, <1>2, TypeCorrect, PTL DEF Spec

(* An analysis stage is not the first, and completes if there is a model. *)
LEMMA AnalysisFacts ==
    ASSUME NEW l \in 1..N, Stages[l] \in Analysis, NEW config
    PROVE  /\ l # 1 /\ StageConfiguration(l, config) = config.model
           /\ StageStatus(l, config) = IF config.model = "none" THEN "skipped" ELSE "completed"
BY StagesAssumption DEF Analysis, StageConfiguration, StageStatus

(* Skipping the analysis for a call with a model means that it was made by   *)
(* that model.                                                               *)
LEMMA SkippedAnalysisIsOurs ==
    ASSUME TypeOK, NEW l \in 1..N, AnalysisEnds(l),
           NEW w \in Writers, call[w].force <= l, NEW s \in 1..N, StartsAt(w, s), s > l,
           call[w].config.model # "none", NamesAnalyst(memory[w], l)
    PROVE  memory[w].model = call[w].config.model
<1>1. call[w].force = 0
    <2>1. call[w].force # 0 => call[w].force = s /\ s <= l
        BY DEF StartsAt
    <2> QED BY <2>1
<1>2. l \in 1..(s - 1)
    OBVIOUS
<1>3. Reusable(memory[w], l, call[w].config)
    BY <1>1, <1>2 DEF StartsAt, Skipped
<1>4. memory[w].status[l] = "completed" /\ memory[w].input[l] = Expected(l, call[w].config)
    BY <1>3 DEF Reusable
<1>5. memory[w].input[l].conf = call[w].config.model
    BY <1>4, AnalysisFacts DEF AnalysisEnds, Expected, Fingerprint
<1> QED BY <1>4, <1>5 DEF NamesAnalyst

(* Outside, and before the first stage, nothing is claimed of the model. *)
LEMMA OutsideNames ==
    ASSUME NEW l, NEW w \in Writers,
           pc'[w] \notin Planned \cup Exporting \cup {"release"}
    PROVE  HoldsName(w, l)'
BY DEF HoldsName, Behind, ReturnsName, Planned
(* While one writer is in the run, nothing is claimed of the others. *)
LEMMA OthersName ==
    ASSUME LockInv, NEW w \in Writers, Inner(w), NEW v \in Writers, v # w, NEW l
    PROVE  HoldsName(v, l)'
<1>1. lock = w /\ ~Holding(v) /\ pc'[v] = pc[v]
    BY DEF LockInv, Inner
<1>2. pc'[v] \notin Working \cup {"release"}
    BY <1>1 DEF Holding, Inside
<1> QED BY <1>2, OutsideNames DEF Working, Planned, Exporting

(* A call that ends without success returns no bundle. *)
LEMMA FailureNames ==
    ASSUME TypeOK, NEW l, NEW w \in Writers, NEW result, NEW artifact,
           Return(w, result, artifact), result # "ok"
    PROVE  HoldsName(w, l)'
<1>1. pc'[w] = "release" /\ outcome'[w].result # "ok"
    BY DEF TypeOK, Return, Goto, Ended
<1> QED BY <1>1 DEF HoldsName, Behind, ReturnsName, Planned, Exporting

(* Before the first stage the manifest in memory is the one on the disk. *)
LEMMA OpeningNames ==
    ASSUME TypeOK, NEW l \in 1..N, NameInv(l), NEW w \in Writers, Opening(w)
    PROVE  (manifest' # <<>> => NamesAnalyst(manifest'[1], l)) /\ HoldsName(w, l)'
<1>1. CASE Conflict(w)
    BY <1>1, FailureNames DEF Conflict, disk, NameInv
<1>2. CASE WriteRequest(w)
    <2>1. pc'[w] = "create" /\ manifest' = manifest
        BY <1>2, PcAfter DEF WriteRequest
    <2> QED BY <2>1, OutsideNames DEF NameInv, Planned, Exporting
<1>3. CASE CreateManifest(w)
    <2>1. pc'[w] = "plan" /\ memory'[w] = NewManifest /\ manifest'[1] = NewManifest
        BY <1>3, PcAfter DEF CreateManifest, TypeOK
    <2>2. NamesAnalyst(NewManifest, l)
        BY DEF NamesAnalyst, NewManifest
    <2> QED BY <2>1, <2>2 DEF HoldsName, Behind, ReturnsName, Exporting
<1>4. CASE LoadManifest(w)
    <2>1. CASE manifest # <<>> /\ Ordered(manifest[1])
        <3>1. memory' = [memory EXCEPT ![w] = manifest[1]] /\ Goto(w, "plan") /\ manifest' = manifest
            BY <1>4, <2>1 DEF LoadManifest, disk
        <3>2. pc'[w] = "plan" /\ memory'[w] = manifest[1]
            BY <3>1, PcAfter DEF TypeOK
        <3>3. NamesAnalyst(manifest[1], l)
            BY <2>1 DEF NameInv
        <3> QED BY <3>1, <3>2, <3>3 DEF HoldsName, Behind, ReturnsName, Exporting
    <2>2. CASE ~(manifest # <<>> /\ Ordered(manifest[1]))
        <3>1. Corrupt(w)
            BY <1>4, <2>2 DEF LoadManifest
        <3> QED BY <3>1, FailureNames DEF Corrupt, disk, NameInv
    <2> QED BY <2>1, <2>2
<1> QED BY <1>1, <1>2, <1>3, <1>4 DEF Opening

(* A run that starts behind the analysis finds its model's name. *)
LEMMA PlanningNames ==
    ASSUME TypeOK, CallInv, NEW l \in 1..N, AnalysisEnds(l), NameInv(l), NEW w \in Writers, Planning(w)
    PROVE  (manifest' # <<>> => NamesAnalyst(manifest'[1], l)) /\ HoldsName(w, l)'
<1> USE StageFacts
<1>1. CASE Finished(w)
    <2>1. CASE Present(exports["bundle"]) /\ exports["bundle"].readable
        <3>1. pc[w] = "plan" /\ Goto(w, "release") /\ UNCHANGED <<manifest, bundle>>
            BY <1>1, <2>1 DEF Finished, Return, disk, work
        <3>2. pc'[w] = "release" /\ ~Present(bundle'[w])
            BY <3>1, PcAfter DEF CallInv, HoldsCall, Present, Absent
        <3> QED BY <3>1, <3>2 DEF NameInv, HoldsName, Behind, ReturnsName, Planned, Exporting
    <2>2. CASE ~(Present(exports["bundle"]) /\ exports["bundle"].readable)
        <3>1. Corrupt(w)
            BY <1>1, <2>2 DEF Finished
        <3> QED BY <3>1, FailureNames DEF Corrupt, disk, NameInv
    <2> QED BY <2>1, <2>2
<1>2. CASE InvalidateFrom(w)
    <2>1. PICK s \in 1..N : /\ StartsAt(w, s)
                            /\ stage' = [stage EXCEPT ![w] = s]
                            /\ memory' = [memory EXCEPT ![w] = Invalidated(@, s)]
        BY <1>2 DEF InvalidateFrom
    <2>2. pc[w] = "plan" /\ pc'[w] = "load" /\ call' = call /\ stage'[w] = s
        BY <1>2, <2>1, PcAfter DEF InvalidateFrom, TypeOK
    <2>3. memory'[w] = Invalidated(memory[w], s) /\ manifest'[1] = memory'[w]
        BY <1>2, <2>1 DEF InvalidateFrom, TypeOK
    <2>4. NamesAnalyst(memory[w], l)
        BY <2>2 DEF NameInv, HoldsName, Planned
    <2>5. NamesAnalyst(memory'[w], l)
        BY <2>3, <2>4 DEF NamesAnalyst, Invalidated
    <2>6. call[w].config.model # "none" /\ call[w].force <= l /\ s > l => memory'[w].model = call[w].config.model
        BY <2>1, <2>3, <2>4, SkippedAnalysisIsOurs DEF Invalidated
    <2> QED BY <2>2, <2>3, <2>5, <2>6 DEF HoldsName, Behind, ReturnsName, Exporting
<1>3. CASE LoadCheckpoint(w)
    <2>1. CASE Goto(w, "begin") /\ UNCHANGED <<manifest, call, stage, memory>> /\ pc[w] = "load"
        <3>1. pc'[w] = "begin"
            BY <2>1, PcAfter
        <3> QED BY <2>1, <3>1 DEF NameInv, HoldsName, Behind, ReturnsName, Planned, Exporting
    <2>2. CASE Corrupt(w)
        BY <2>2, FailureNames DEF Corrupt, disk, NameInv
    <2> QED BY <1>3, <2>1, <2>2 DEF LoadCheckpoint, disk
<1> QED BY <1>1, <1>2, <1>3 DEF Planning

(* The last analysis stage leaves the name of the call's model, and no later *)
(* stage changes it.                                                         *)
LEMMA RunningNames ==
    ASSUME TypeOK, ResumeInv, KeptInv, NEW l \in 1..N, AnalysisEnds(l), NameInv(l),
           NEW w \in Writers, Running(w)
    PROVE  (manifest' # <<>> => NamesAnalyst(manifest'[1], l)) /\ HoldsName(w, l)'
<1> USE StageFacts
<1> DEFINE i == stage[w]
<1>0. i \in 1..N /\ memory[w] \in Manifest /\ HoldsName(w, l)
    BY DEF TypeOK, NameInv
<1>1. CASE Begin(w)
    <2> DEFINE m == Started(memory[w], i, Expected(i, call[w].config))
    <2>1. pc[w] = "begin" /\ pc'[w] = "execute" /\ UNCHANGED <<call, stage>>
        BY <1>1, PcAfter DEF Begin
    <2>2. memory'[w] = m /\ manifest'[1] = m
        BY <1>1 DEF Begin, TypeOK
    <2>3. /\ m.status[i] = "running" /\ m.model = memory[w].model
          /\ l # i => m.status[l] = memory[w].status[l] /\ m.input[l] = memory[w].input[l]
        BY <1>0 DEF Started, Manifest
    <2> HIDE DEF m
    <2>4. NamesAnalyst(m, l)
        BY <1>0, <2>1, <2>3 DEF HoldsName, NamesAnalyst, Planned
    <2> QED BY <1>0, <2>1, <2>2, <2>3, <2>4 DEF HoldsName, Behind, ReturnsName, Exporting
<1>2. CASE Execute(w)
    <2> DEFINE m == Named(w, i, memory[w])
    <2>1. /\ pc[w] = "execute" /\ pc'[w] = "record" /\ UNCHANGED <<manifest, call, stage>>
          /\ memory'[w] = m /\ bundle'[w].model = m.model
        BY <1>2, PcAfter DEF Execute, TypeOK, Made
    <2>2. /\ m.status = memory[w].status /\ m.input = memory[w].input
          /\ Stages[i] \notin Analysis => m.model = memory[w].model
          /\ i = l /\ call[w].config.model # "none" => m.model = call[w].config.model
        BY AnalysisFacts DEF Named, AnalysisEnds
    <2> HIDE DEF m
    <2>3. CASE i > l
        <3>1. m.model = memory[w].model
            BY <1>0, <2>2, <2>3 DEF AnalysisEnds
        <3>2. NamesAnalyst(m, l)
            BY <1>0, <2>1, <2>2, <3>1 DEF HoldsName, NamesAnalyst, Planned
        <3> QED BY <1>0, <2>1, <2>3, <3>1, <3>2 DEF HoldsName, Behind, ReturnsName, Exporting,
                NameInv
    <2>4. CASE i <= l
        <3>1. memory[w].status[l] # "completed"
            <4>1. i = l \/ l \in (i + 1)..N
                BY <1>0, <2>4
            <4> QED BY <2>1, <4>1 DEF ResumeInv, HolderInv, HoldsStage, KeptInv, HolderKept,
                    HoldsAhead
        <3>2. NamesAnalyst(m, l)
            BY <2>2, <3>1 DEF NamesAnalyst
        <3>3. i >= l => i = l
            BY <1>0, <2>4
        <3> QED BY <2>1, <2>2, <3>2, <3>3 DEF HoldsName, Behind, ReturnsName, Exporting, NameInv
    <2> QED BY <1>0, <2>3, <2>4
<1>3. CASE Fail(w)
    <2> DEFINE m == Ending(memory[w], i, "failed")
    <2>1. pc[w] = "execute" /\ manifest'[1] = m /\ Return(w, "failed", Absent)
        BY <1>3 DEF Fail, TypeOK
    <2>2. /\ m.status[i] = "failed" /\ m.model = memory[w].model /\ m.input = memory[w].input
          /\ l # i => m.status[l] = memory[w].status[l]
        BY <1>0 DEF Ending, Manifest
    <2> HIDE DEF m
    <2>3. NamesAnalyst(m, l)
        BY <1>0, <2>1, <2>2 DEF HoldsName, NamesAnalyst, Planned
    <2> QED BY <2>1, <2>3, FailureNames
<1>4. CASE Record(w)
    <2> DEFINE m == Ending(memory[w], i, StageStatus(i, call[w].config))
    <2>1. pc[w] = "record" /\ pc'[w] = "rewrite" /\ UNCHANGED <<call, stage, bundle>>
        BY <1>4, PcAfter DEF Record
    <2>2. memory'[w] = m /\ manifest'[1] = m
        BY <1>4 DEF Record, TypeOK
    <2>3. /\ m.status[i] = StageStatus(i, call[w].config)
          /\ m.model = memory[w].model /\ m.input = memory[w].input
          /\ l # i => m.status[l] = memory[w].status[l]
        BY <1>0 DEF Ending, Manifest
    <2> HIDE DEF m
    <2>4. NamesAnalyst(m, l)
        <3>1. CASE l # i
            BY <1>0, <2>1, <2>3, <3>1 DEF HoldsName, NamesAnalyst, Planned
        <3>2. CASE l = i
            <4> SUFFICES ASSUME m.status[l] = "completed"
                         PROVE  m.model = m.input[l].conf
                BY DEF NamesAnalyst
            <4>1. call[w].config.model # "none"
                BY <2>3, <3>2, AnalysisFacts DEF AnalysisEnds
            <4>2. memory[w].model = call[w].config.model
                BY <1>0, <2>1, <3>2, <4>1 DEF HoldsName, Behind
            <4>3. memory[w].input[l] = Expected(l, call[w].config)
                BY <2>1, <3>2 DEF KeptInv, HolderKept, HoldsInput
            <4> QED BY <2>3, <4>2, <4>3, AnalysisFacts DEF AnalysisEnds, Expected, Fingerprint
        <3> QED BY <3>1, <3>2
    <2> QED BY <1>0, <2>1, <2>2, <2>3, <2>4 DEF HoldsName, Behind, ReturnsName, Exporting
<1>5. CASE Rewrite(w)
    <2>1. /\ pc[w] = "rewrite" /\ UNCHANGED <<manifest, call, memory>>
          /\ bundle'[w].model = bundle[w].model
          /\ \/ pc'[w] = "bundle" /\ i = N
             \/ pc'[w] = "begin" /\ stage'[w] = i + 1
        BY <1>5, PcAfter DEF Rewrite, TypeOK, Remade
    <2>2. i + 1 > l => i >= l
        BY <1>0
    <2>3. NamesAnalyst(memory[w], l) /\ bundle[w].model = memory[w].model
        BY <1>0, <2>1 DEF HoldsName, Planned
    <2>4. call[w].config.model # "none" /\ call[w].force <= l /\ i >= l => memory[w].model = call[w].config.model
        BY <1>0, <2>1 DEF HoldsName, Behind
    <2> QED BY <1>0, <2>1, <2>2, <2>3, <2>4 DEF NameInv, HoldsName, Behind, ReturnsName,
            Planned, Exporting
<1>6. CASE Export(w)
    <2>1. pc[w] \in Exporting /\ UNCHANGED <<manifest, call, bundle>>
        BY <1>6 DEF Export, Exported, Exporting, work
    <2>2. pc'[w] = ExportOrder[pc[w]]
        BY <1>6, PcAfter DEF Export
    <2>3. \/ pc[w] = "audit" /\ pc'[w] = "release" /\ outcome'[w].bundle = bundle[w]
          \/ pc'[w] \in {"report", "audit"}
        BY <1>6, <2>1, <2>2 DEF Export, Exporting, ExportOrder, Ended, TypeOK
    <2>4. call[w].config.model # "none" /\ call[w].force <= l => bundle[w].model = call[w].config.model
        BY <1>0, <2>1 DEF HoldsName
    <2> QED BY <2>1, <2>3, <2>4 DEF NameInv, HoldsName, Behind, ReturnsName, Planned, Exporting
<1> QED BY <1>1, <1>2, <1>3, <1>4, <1>5, <1>6 DEF Running

(* The lock's steps write no manifest and return nothing. *)
LEMMA LockingNames ==
    ASSUME TypeOK, NEW l \in 1..N, NameInv(l), NEW w \in Writers, Locking(w) \/ Kill(w)
    PROVE  NameInv(l)'
<1>1. /\ UNCHANGED disk
      /\ \A v \in Writers \ {w} :
            /\ pc'[v] = pc[v] /\ call'[v] = call[v] /\ stage'[v] = stage[v]
            /\ memory'[v] = memory[v] /\ bundle'[v] = bundle[v] /\ outcome'[v] = outcome[v]
    BY DEF TypeOK, Locking, Call, ClearStale, Acquire, Release, Unlink, Kill, Goto, Ended, work
<1>2. pc'[w] \notin Planned \cup Exporting \cup {"release"}
    BY DEF TypeOK, Locking, Call, ClearStale, Acquire, Release, Unlink, Kill, Goto, Planned,
        Exporting
<1>3. ASSUME NEW v \in Writers \ {w} PROVE HoldsName(v, l)'
    <2>1. HoldsName(v, l)
        BY DEF NameInv
    <2> QED BY <1>1, <2>1 DEF HoldsName, Behind, ReturnsName
<1> QED BY <1>1, <1>2, <1>3, OutsideNames DEF NameInv, disk

(* What is on the disk, and what the holder of the lock has, names its model. *)
LEMMA NameInvHolds ==
    ASSUME SoleClearing, NEW l \in 1..N, AnalysisEnds(l)
    PROVE  Spec => []NameInv(l)
<1>1. Init => NameInv(l)
    BY DEF Init, NameInv, HoldsName, Behind, ReturnsName, Planned, Exporting
<1> DEFINE Known == TypeOK /\ LockInv /\ ResumeInv /\ KeptInv
<1>2. Known /\ CallInv /\ NameInv(l) /\ [Next]_vars => NameInv(l)'
    <2> SUFFICES ASSUME TypeOK, LockInv, ResumeInv, KeptInv, CallInv, NameInv(l), [Next]_vars
                 PROVE  NameInv(l)'
        OBVIOUS
    <2>1. CASE UNCHANGED vars
        BY <2>1 DEF vars, disk, work, NameInv, HoldsName, Behind, ReturnsName
    <2>2. ASSUME NEW w \in Writers,
                 Opening(w) \/ Planning(w) \/ Running(w) \/ Interrupt(w)
          PROVE  NameInv(l)'
        <3>1. \A v \in Writers : v # w => HoldsName(v, l)'
            BY <2>2, RunLockedIsInner, OthersName
        <3>2. Interrupt(w) => manifest' = manifest /\ HoldsName(w, l)'
            BY FailureNames DEF Interrupt, disk
        <3>3. (manifest' # <<>> => NamesAnalyst(manifest'[1], l)) /\ HoldsName(w, l)'
            BY <2>2, <3>2, OpeningNames, PlanningNames, RunningNames DEF NameInv
        <3> QED BY <3>1, <3>3 DEF NameInv
    <2>3. ASSUME NEW w \in Writers, Locking(w) \/ Kill(w)
          PROVE  NameInv(l)'
        BY <2>3, LockingNames
    <2> QED BY <2>1, <2>2, <2>3 DEF Next
<1> QED BY <1>1, <1>2, KeptInvHolds, CallInvHolds, PTL DEF Spec

(* A nonempty set of natural numbers has a least element. *)
LEMMA LeastStage ==
    ASSUME NEW S \in SUBSET Nat, S # {}
    PROVE  \E x \in S : \A y \in S : x <= y
<1> DEFINE R == OpToRel(<, Nat)
<1>1. \E x \in S : \A y \in S : ~ (<<y, x>> \in R)
    <2>1. IsWellFoundedOn(R, Nat) /\ S \subseteq Nat
        BY NatLessThanWellFounded
    <2> HIDE DEF R
    <2> QED BY <2>1, WFMin
<1>2. PICK x \in S : \A y \in S : ~ (<<y, x>> \in R)
    BY <1>1
<1>3. \A y \in S : ~(y < x)
    BY <1>2 DEF OpToRel
<1> QED BY <1>3

(* If there is any analysis, it ends somewhere. *)
LEMMA AnalysisHasAnEnd ==
    ASSUME NEW i \in 1..N, Stages[i] \in Analysis
    PROVE  \E l \in 1..N : AnalysisEnds(l)
<1> USE StageFacts
<1> DEFINE S == {k \in 0..(N - 1) : Stages[N - k] \in Analysis}
<1>1. S \in SUBSET Nat
    OBVIOUS
<1>2. N - i \in 0..(N - 1) /\ N - (N - i) = i
    OBVIOUS
<1>3. N - i \in S
    BY <1>2
<1>4. PICK k \in S : \A j \in S : k <= j
    <2> HIDE DEF S
    <2> QED BY <1>1, <1>3, LeastStage
<1>5. N - k \in 1..N /\ Stages[N - k] \in Analysis
    BY <1>4
<1>6. ASSUME NEW j \in 1..N, Stages[j] \in Analysis PROVE j <= N - k
    <2>1. N - j \in 0..(N - 1) /\ N - (N - j) = j
        OBVIOUS
    <2>2. k <= N - j
        BY <1>4, <1>6, <2>1
    <2> QED BY <2>2, <1>4
<1> QED BY <1>5, <1>6 DEF AnalysisEnds

(* Whatever runs made the analysis a call did not repeat, and whatever stages *)
(* callers forced before: the bundle a call returns names the call's model,   *)
(* unless the call itself was forced to start behind every analysis stage     *)
(* (map_stage, build_stage, provider_metadata).                               *)
THEOREM BundlesNameTheirModel ==
    ASSUME SoleClearing
    PROVE  Spec => []NamesItsModel
<1>1. CASE \E l \in 1..N : AnalysisEnds(l)
    <2>1. PICK l \in 1..N : AnalysisEnds(l)
        BY <1>1
    <2>2. TypeOK /\ NameInv(l) => NamesItsModel
        <3> SUFFICES ASSUME TypeOK, NameInv(l), NEW w \in Writers,
                            pc[w] = "release", outcome[w].result = "ok", Present(bundle[w]),
                            call[w].config.model # "none",
                            NEW i \in 1..N, Stages[i] \in Analysis, call[w].force <= i
                     PROVE  outcome[w].bundle.model = call[w].config.model
            BY DEF NamesItsModel
        <3>1. call[w].force \in 0..N /\ i <= l
            BY <2>1 DEF TypeOK, AnalysisEnds
        <3>2. call[w].force <= l
            BY <3>1, StageFacts
        <3> QED BY <3>2 DEF NameInv, HoldsName, ReturnsName
    <2>3. Spec => []NameInv(l)
        BY <2>1, NameInvHolds
    <2> QED BY <2>2, <2>3, TypeCorrect, PTL
<1>2. CASE ~ \E l \in 1..N : AnalysisEnds(l)
    <2>1. TypeOK => NamesItsModel
        BY <1>2, AnalysisHasAnEnd DEF NamesItsModel
    <2> QED BY <2>1, TypeCorrect, PTL
<1> QED BY <1>1, <1>2
--------------------------------------------------------------------------------
(***************************************************************************)
(* What a call returns.                                                    *)
(***************************************************************************)
HoldsChain(w) ==
    call[w].force <= 1 =>
        /\ pc[w] = "load" /\ stage[w] # 1 => file[stage[w] - 1].request = call[w].request
        /\ pc[w] \in {"begin", "execute", "record", "rewrite"} \cup Exporting =>
            bundle[w].request = call[w].request
HoldsExports(w) ==
    /\ pc[w] \in Exporting => bundle[w] = file[N]
    /\ pc[w] \in {"report", "audit"} => exports["bundle"] = file[N]
    /\ pc[w] = "audit" => exports["report"] = file[N]
HoldsReturn(w) ==
    pc[w] = "release" /\ outcome[w].result = "ok" /\ Present(bundle[w]) =>
        /\ outcome[w].bundle = file[N]
        /\ outcome[w].bundle = bundle[w]
        /\ call[w].force <= 1 => outcome[w].bundle.request = call[w].request
        /\ \A x \in Exported : exports[x] = file[N]
Returns(w) == HoldsChain(w) /\ HoldsExports(w) /\ HoldsReturn(w)
ReturnInv == \A w \in Writers : Returns(w)

(* Skipped stages are all of the stored request: the first that were not     *)
(* would have been made from one that is.                                    *)
LEMMA SkippedAreOfTheRequest ==
    ASSUME ResumeInv, NEW m, NEW config, NEW s \in 1..N, Skipped(m, s, config),
           \A i \in 1..N : Linked(m, i)
    PROVE  file[s].request = file[0].request
<1> USE StageFacts
<1> DEFINE S == {i \in 1..s : file[i].request # file[0].request}
<1>1. ASSUME NEW i \in 1..s PROVE file[i].request = file[i - 1].request
    <2>1. i \in 1..N /\ Reusable(m, i, config)
        BY DEF Skipped
    <2> QED BY <2>1 DEF Reusable, Linked, Terminal, Expected, Fingerprint
<1>2. SUFFICES ASSUME S # {} PROVE FALSE
    BY <1>2
<1>3. PICK k \in S : \A j \in S : k <= j
    <2>1. S \in SUBSET Nat
        OBVIOUS
    <2> HIDE DEF S
    <2> QED BY <1>2, <2>1, LeastStage
<1>4. k \in 1..s /\ k - 1 \notin S
    BY <1>3
<1>5. k - 1 = 0 \/ k - 1 \in 1..s
    BY <1>4
<1>6. file[k - 1].request = file[0].request
    BY <1>4, <1>5
<1> QED BY <1>1, <1>3, <1>4, <1>6

(* Outside the run nothing is claimed. *)
LEMMA OutsideReturns ==
    ASSUME NEW w \in Writers,
           pc'[w] \notin (Planned \cup Exporting \cup {"release"}) \ {"plan"}
    PROVE  Returns(w)'
BY DEF Returns, HoldsChain, HoldsExports, HoldsReturn, Planned, Exporting
(* While one writer is in the run, nothing is claimed of the others. *)
LEMMA OthersReturn ==
    ASSUME LockInv, NEW w \in Writers, Inner(w), NEW v \in Writers, v # w
    PROVE  Returns(v)'
<1>1. lock = w /\ ~Holding(v) /\ pc'[v] = pc[v]
    BY DEF LockInv, Inner
<1>2. pc'[v] \notin Working \cup {"release"}
    BY <1>1 DEF Holding, Inside
<1> QED BY <1>2, OutsideReturns DEF Working, Planned, Exporting

(* A call that ends without success returns nothing. *)
LEMMA FailureReturns ==
    ASSUME TypeOK, NEW w \in Writers, NEW result, NEW artifact,
           Return(w, result, artifact), result # "ok"
    PROVE  Returns(w)'
<1>1. pc'[w] = "release" /\ outcome'[w].result # "ok"
    BY DEF TypeOK, Return, Goto, Ended
<1> QED BY <1>1 DEF Returns, HoldsChain, HoldsExports, HoldsReturn, Exporting

(* Opening a run claims nothing. *)
LEMMA OpeningReturns ==
    ASSUME TypeOK, NEW w \in Writers, Opening(w)
    PROVE  Returns(w)'
<1>1. CASE Conflict(w)
    BY <1>1, FailureReturns DEF Conflict
<1>2. CASE WriteRequest(w) \/ CreateManifest(w)
    <2>1. pc'[w] \in {"create", "plan"}
        BY <1>2, PcAfter DEF WriteRequest, CreateManifest
    <2> QED BY <2>1, OutsideReturns DEF Planned, Exporting
<1>3. CASE LoadManifest(w)
    <2>1. Goto(w, "plan") => pc'[w] = "plan"
        BY PcAfter
    <2>2. Goto(w, "plan") => Returns(w)'
        BY <2>1, OutsideReturns DEF Planned, Exporting
    <2>3. Corrupt(w) => Returns(w)'
        BY FailureReturns DEF Corrupt
    <2> QED BY <1>3, <2>2, <2>3 DEF LoadManifest
<1> QED BY <1>1, <1>2, <1>3 DEF Opening

(* A run starts from the request it was called with, or from a checkpoint    *)
(* that was made for it.                                                     *)
LEMMA PlanningReturns ==
    ASSUME TypeOK, CallInv, ResumeInv, ReturnInv,
           NEW w \in Writers, Planning(w)
    PROVE  Returns(w)'
<1> USE StageFacts
<1>0. Returns(w)
    BY DEF ReturnInv
<1>1. CASE Finished(w)
    <2>1. CASE Present(exports["bundle"]) /\ exports["bundle"].readable
        <3>1. pc[w] = "plan" /\ Goto(w, "release") /\ UNCHANGED bundle
            BY <1>1, <2>1 DEF Finished, Return, work
        <3>2. pc'[w] = "release" /\ ~Present(bundle'[w])
            BY <3>1, PcAfter DEF CallInv, HoldsCall, Present, Absent
        <3> QED BY <3>2 DEF Returns, HoldsChain, HoldsExports, HoldsReturn, Exporting
    <2>2. CASE ~(Present(exports["bundle"]) /\ exports["bundle"].readable)
        <3>1. Corrupt(w)
            BY <1>1, <2>2 DEF Finished
        <3> QED BY <3>1, FailureReturns DEF Corrupt
    <2> QED BY <2>1, <2>2
<1>2. CASE InvalidateFrom(w)
    <2>1. PICK s \in 1..N : StartsAt(w, s) /\ stage' = [stage EXCEPT ![w] = s]
        BY <1>2 DEF InvalidateFrom
    <2>2. pc[w] = "plan" /\ pc'[w] = "load" /\ UNCHANGED <<file, call>> /\ stage'[w] = s
        BY <1>2, <2>1, PcAfter DEF InvalidateFrom, TypeOK
    <2>3. /\ manifest # <<>> /\ manifest[1].status = memory[w].status
          /\ manifest[1].input = memory[w].input /\ file[0].request = call[w].request
        BY <2>2 DEF ResumeInv, HolderInv, HoldsManifest, HoldsRequest, Planned
    <2>4. \A i \in 1..N : Linked(memory[w], i)
        BY <2>3 DEF ResumeInv, DiskInv, Linked
    <2>5. s # 1 /\ call[w].force <= 1 => file[s - 1].request = call[w].request
        <3> SUFFICES ASSUME s # 1, call[w].force <= 1 PROVE file[s - 1].request = call[w].request
            OBVIOUS
        <3>1. call[w].force = 0
            BY <2>1 DEF TypeOK, StartsAt
        <3>2. Skipped(memory[w], s - 1, call[w].config) /\ s - 1 \in 1..N
            BY <2>1, <3>1 DEF StartsAt
        <3> QED BY <2>3, <2>4, <3>2, SkippedAreOfTheRequest
    <2> QED BY <2>2, <2>5 DEF Returns, HoldsChain, HoldsExports, HoldsReturn, Exporting
<1>3. CASE LoadCheckpoint(w)
    <2> DEFINE previous == IF stage[w] = 1 THEN RequestFile(call[w].request)
                           ELSE file[stage[w] - 1]
    <2>1. CASE Present(previous) /\ previous.readable
        <3>1. /\ bundle' = [bundle EXCEPT ![w] = previous] /\ Goto(w, "begin")
              /\ UNCHANGED call /\ pc[w] = "load"
            BY <1>3, <2>1 DEF LoadCheckpoint
        <3>2. call[w].force <= 1 => previous.request = call[w].request
            BY <1>0, <3>1 DEF RequestFile, Returns, HoldsChain
        <3> HIDE DEF previous
        <3>3. pc'[w] = "begin" /\ bundle'[w] = previous
            BY <3>1, PcAfter DEF TypeOK
        <3> QED BY <3>1, <3>2, <3>3 DEF Returns, HoldsChain, HoldsExports, HoldsReturn, Exporting
    <2>2. CASE ~(Present(previous) /\ previous.readable)
        <3>1. Corrupt(w)
            BY <1>3, <2>2 DEF LoadCheckpoint
        <3> QED BY <3>1, FailureReturns DEF Corrupt
    <2> QED BY <2>1, <2>2
<1> QED BY <1>1, <1>2, <1>3 DEF Planning

(* The stages keep the request; the last checkpoint is what is exported.     *)
LEMMA RunningReturns ==
    ASSUME TypeOK, ReturnInv, NEW w \in Writers, Running(w)
    PROVE  Returns(w)'
<1> USE StageFacts
<1> DEFINE i == stage[w]
<1>0. Returns(w) /\ i \in 1..N
    BY DEF ReturnInv, TypeOK
<1>1. CASE Begin(w) \/ Record(w)
    <2>1. /\ pc[w] \in {"begin", "record"} /\ pc'[w] \in {"execute", "rewrite"}
          /\ UNCHANGED <<call, bundle>>
        BY <1>1, PcAfter DEF Begin, Record
    <2> QED BY <1>0, <2>1 DEF Returns, HoldsChain, HoldsExports, HoldsReturn, Exporting
<1>2. CASE Execute(w)
    <2>1. /\ pc[w] = "execute" /\ pc'[w] = "record" /\ UNCHANGED call
          /\ bundle'[w].request = bundle[w].request
        BY <1>2, PcAfter DEF Execute, TypeOK, Made
    <2> QED BY <1>0, <2>1 DEF Returns, HoldsChain, HoldsExports, HoldsReturn, Exporting
<1>3. CASE Fail(w)
    BY <1>3, FailureReturns DEF Fail
<1>4. CASE Rewrite(w)
    <2> DEFINE b == Remade(w)
    <2>1. /\ pc[w] = "rewrite" /\ UNCHANGED call /\ b.request = bundle[w].request
          /\ bundle' = [bundle EXCEPT ![w] = b] /\ file' = [file EXCEPT ![i] = b]
          /\ \/ pc'[w] = "bundle" /\ i = N
             \/ pc'[w] = "begin"
        BY <1>4, PcAfter DEF Rewrite, Remade
    <2> HIDE DEF b
    <2>2. bundle'[w] = b /\ file'[i] = b
        BY <1>0, <2>1 DEF TypeOK
    <2> QED BY <1>0, <2>1, <2>2 DEF Returns, HoldsChain, HoldsExports, HoldsReturn, Exporting
<1>5. CASE Export(w)
    <2>1. /\ pc[w] \in Exporting /\ UNCHANGED <<file, call, bundle>>
          /\ exports' = [exports EXCEPT ![pc[w]] = bundle[w]]
        BY <1>5 DEF Export, Exported, Exporting, work
    <2>2. pc'[w] = ExportOrder[pc[w]]
        BY <1>5, PcAfter DEF Export
    <2>3. exports'[pc[w]] = bundle[w] /\ \A x \in Exported \ {pc[w]} : exports'[x] = exports[x]
        BY <2>1 DEF TypeOK, Exporting, Exported
    <2>4. bundle[w] = file[N] /\ (call[w].force <= 1 => bundle[w].request = call[w].request)
        BY <1>0, <2>1 DEF Returns, HoldsChain, HoldsExports
    <2>5. CASE pc[w] = "bundle"
        <3>1. pc'[w] = "report" /\ exports'["bundle"] = file[N]
            BY <2>2, <2>3, <2>4, <2>5 DEF ExportOrder
        <3> QED BY <2>1, <2>4, <3>1 DEF Returns, HoldsChain, HoldsExports, HoldsReturn, Exporting
    <2>6. CASE pc[w] = "report"
        <3>1. pc'[w] = "audit" /\ exports'["report"] = file[N]
            BY <2>2, <2>3, <2>4, <2>6 DEF ExportOrder
        <3>2. exports'["bundle"] = file[N]
            BY <1>0, <2>3, <2>6 DEF Returns, HoldsExports, Exported
        <3> QED BY <2>1, <2>4, <3>1, <3>2 DEF Returns, HoldsChain, HoldsExports, HoldsReturn,
                Exporting
    <2>7. CASE pc[w] = "audit"
        <3>1. pc'[w] = "release" /\ exports'["audit"] = file[N]
            BY <2>2, <2>3, <2>4, <2>7 DEF ExportOrder
        <3>2. exports'["bundle"] = file[N] /\ exports'["report"] = file[N]
            BY <1>0, <2>3, <2>7 DEF Returns, HoldsExports, Exported
        <3>3. outcome'[w].bundle = bundle[w]
            BY <1>5, <2>7 DEF Export, Ended, TypeOK
        <3> QED BY <2>1, <2>4, <3>1, <3>2, <3>3 DEF Returns, HoldsChain, HoldsExports,
                HoldsReturn, Exporting, Exported
    <2> QED BY <2>1, <2>5, <2>6, <2>7 DEF Exporting
<1> QED BY <1>1, <1>2, <1>3, <1>4, <1>5 DEF Running

(* The lock's steps touch no file and return nothing. *)
LEMMA LockingReturns ==
    ASSUME TypeOK, ReturnInv, NEW w \in Writers, Locking(w) \/ Kill(w)
    PROVE  ReturnInv'
<1>1. /\ UNCHANGED disk
      /\ \A v \in Writers \ {w} :
            /\ pc'[v] = pc[v] /\ call'[v] = call[v] /\ stage'[v] = stage[v]
            /\ memory'[v] = memory[v] /\ bundle'[v] = bundle[v] /\ outcome'[v] = outcome[v]
    BY DEF TypeOK, Locking, Call, ClearStale, Acquire, Release, Unlink, Kill, Goto, Ended, work
<1>2. pc'[w] \notin Planned \cup Exporting \cup {"release"}
    BY DEF TypeOK, Locking, Call, ClearStale, Acquire, Release, Unlink, Kill, Goto, Planned,
        Exporting
<1>3. ASSUME NEW v \in Writers \ {w} PROVE Returns(v)'
    <2>1. Returns(v)
        BY DEF ReturnInv
    <2> QED BY <1>1, <2>1 DEF Returns, HoldsChain, HoldsExports, HoldsReturn, disk
<1> QED BY <1>2, <1>3, OutsideReturns DEF ReturnInv

(* A call that ran the last stage returns the last checkpoint and left it in *)
(* all three exports, whatever interrupted the calls before it and whatever  *)
(* they forced; it is for the call's own request, unless the call itself was *)
(* forced to start behind the first stage (_write_exports).                  *)
THEOREM CallsReturnTheirBundle ==
    ASSUME SoleClearing
    PROVE  Spec => []ReturnsItsBundle
<1>1. Init => ReturnInv
    BY DEF Init, ReturnInv, Returns, HoldsChain, HoldsExports, HoldsReturn, Exporting
<1> DEFINE Known == TypeOK /\ LockInv /\ ResumeInv /\ KeptInv
<1>2. Known /\ CallInv /\ ReturnInv /\ [Next]_vars => ReturnInv'
    <2> SUFFICES ASSUME TypeOK, LockInv, ResumeInv, CallInv, ReturnInv, [Next]_vars
                 PROVE  ReturnInv'
        OBVIOUS
    <2>1. CASE UNCHANGED vars
        BY <2>1 DEF vars, disk, work, ReturnInv, Returns, HoldsChain, HoldsExports, HoldsReturn
    <2>2. ASSUME NEW w \in Writers,
                 Opening(w) \/ Planning(w) \/ Running(w) \/ Interrupt(w)
          PROVE  ReturnInv'
        <3>1. \A v \in Writers : v # w => Returns(v)'
            BY <2>2, RunLockedIsInner, OthersReturn
        <3>2. Interrupt(w) => Returns(w)'
            BY FailureReturns DEF Interrupt
        <3>3. Returns(w)'
            BY <2>2, <3>2, OpeningReturns, PlanningReturns, RunningReturns
        <3> QED BY <3>1, <3>3 DEF ReturnInv
    <2>3. ASSUME NEW w \in Writers, Locking(w) \/ Kill(w)
          PROVE  ReturnInv'
        BY <2>3, LockingReturns
    <2> QED BY <2>1, <2>2, <2>3 DEF Next
<1>3. ReturnInv => ReturnsItsBundle
    <2> SUFFICES ASSUME ReturnInv, NEW w \in Writers, pc[w] = "release",
                        outcome[w].result = "ok", Present(bundle[w])
                 PROVE  /\ outcome[w].bundle = file[N]
                        /\ call[w].force <= 1 => outcome[w].bundle.request = call[w].request
                        /\ {exports["bundle"], exports["report"], exports["audit"]} = {file[N]}
        BY DEF ReturnsItsBundle
    <2> QED BY DEF ReturnInv, Returns, HoldsReturn, Exported
<1> QED BY <1>1, <1>2, <1>3, KeptInvHolds, CallInvHolds, PTL DEF Spec
================================================================================
