----------------------------- MODULE CombineEngine -----------------------------
(***************************************************************************)
(* The COMBINE pipeline (combine/engine.py): one run directory, the lock   *)
(* beside it, and callers who start, resume, force, interrupt and kill     *)
(* runs of it.  A step is what happens up to one effect on the disk; the   *)
(* reads made before that effect belong to it, since only the lock's       *)
(* holder writes.                                                          *)
(*                                                                         *)
(* Stages are numbered, so that the artifact of stage i is file[i], the    *)
(* request is file[0], and file[i - 1] is the upstream of stage i.         *)
(***************************************************************************)
EXTENDS Naturals, Sequences, FiniteSets

CONSTANTS
    Writers,    \* processes that call run_research, each with its own lock object
    Stages,     \* the stages, in order: StageName, or part of it to keep runs small
    Requests,   \* research requests that share one request_id
    Configs,    \* providers: records [search, model] of fingerprints, "none" for none
    Forced,     \* the stages callers force; 0 forces none
    MayFail,    \* whether a stage may raise
    MayStop,    \* whether a call may be cancelled, hit an I/O error, or be killed
    MayClear,   \* whether callers clear the lock when nobody holds it
    MaxCalls,   \* bound: calls of run
    NoRequest,
    Free, Stale \* the lock file: absent, or left by a process that was killed

StageName == <<"collect", "organize", "map", "build", "inspect", "note", "export">>
N == Len(Stages)

ASSUME StagesAssumption ==
    /\ Stages \in Seq({StageName[i] : i \in DOMAIN StageName})
    /\ N > 1 /\ Stages[1] = "collect" /\ Stages[N] = "export"
ASSUME CallsAssumption == Forced \subseteq 0..N /\ MaxCalls \in Nat
ASSUME SwitchAssumption == {MayFail, MayStop, MayClear} \subseteq BOOLEAN
ASSUME RequestsAssumption == NoRequest \notin Requests
ASSUME LockAssumption == Free # Stale /\ {Free, Stale} \cap Writers = {}

VARIABLES
    lock,       \* .run.lock: Free, Stale, or the writer whose token it holds
    file,       \* request.json and the checkpoints
    exports,    \* bundle.json, report.md, audit.md
    manifest,   \* manifest.json, as a sequence of at most one
    pc, call,   \* control of each writer, and what it was called with
    stage,      \* the stage it runs
    memory,     \* the manifest it holds
    bundle,     \* the bundle it holds
    outcome,    \* how its last call ended, and the bundle it returned
    executions, \* history: stages executed, which number the content they made
    calls

disk == <<file, exports, manifest>>
work == <<stage, memory, bundle, executions>>
vars == <<lock, disk, pc, call, work, outcome, calls>>

(***************************************************************************)
(* An artifact.  Its content is the output of one execution, made from the *)
(* output of another; its bytes also hold the manifest and its timestamps, *)
(* so that two executions, and the two passes in which a checkpoint is     *)
(* written, never leave the same bytes.  readable says whether the         *)
(* manifest inside passes its own validation.                              *)
(***************************************************************************)
NoConfig == [search |-> "none", model |-> "none"]
Setting == {"none", "core"} \cup {c.search : c \in Configs} \cup {c.model : c \in Configs}
Artifact == [request : Requests \cup {NoRequest}, execution : Nat, source : Nat,
             conf : Setting, pass : 0..2, model : Setting, readable : BOOLEAN]
Absent == [request |-> NoRequest, execution |-> 0, source |-> 0, conf |-> "core",
           pass |-> 0, model |-> "none", readable |-> FALSE]
RequestFile(r) == [request |-> r, execution |-> 0, source |-> 0, conf |-> "core",
                   pass |-> 0, model |-> "none", readable |-> TRUE]
Present(artifact) == artifact.request # NoRequest

(* Fingerprints: the bytes of the upstream artifact and the stage's configuration. *)
Fingerprint(upstream, conf) == [upstream |-> upstream, conf |-> conf]
NoFingerprint == Fingerprint(Absent, "none")

Analysis == {"map", "build"}
StageConfiguration(i, config) ==
    IF i = 1 THEN config.search ELSE IF Stages[i] \in Analysis THEN config.model ELSE "core"
Expected(i, config) == Fingerprint(file[i - 1], StageConfiguration(i, config))

Terminal == {"completed", "skipped"}
Status == Terminal \cup {"pending", "running", "failed"}
Manifest == [status : [1..N -> Status],
             input : [1..N -> [upstream : Artifact, conf : Setting]], model : Setting]
NewManifest == [status |-> [i \in 1..N |-> "pending"],
                input |-> [i \in 1..N |-> NoFingerprint], model |-> "none"]

(* validate_stage_order, evaluated when a manifest or a bundle is parsed. *)
Ordered(m) ==
    /\ Cardinality({i \in 1..N : m.status[i] = "running"}) <= 1
    /\ \A i, j \in 1..N : i < j /\ m.status[j] \in Terminal => m.status[i] \in Terminal

(***************************************************************************)
(* _first_stage_to_run: the stages a resumed run skips, and the first it   *)
(* executes; N + 1 when it skips all of them.                              *)
(***************************************************************************)
ReusableBlind(m, i, config) ==   \* mutant: the fingerprint is not compared
    /\ \/ m.status[i] = "completed"
       \/ m.status[i] = "skipped" /\ Stages[i] \in Analysis /\ config.model = "none"
    /\ Present(file[i]) /\ file[i].readable

Reusable(m, i, config) ==
    /\ \/ m.status[i] = "completed"
       \/ m.status[i] = "skipped" /\ Stages[i] \in Analysis /\ config.model = "none"
    /\ m.input[i] = Expected(i, config)
    /\ Present(file[i]) /\ file[i].readable

Skipped(m, s, config) == \A i \in 1..s : Reusable(m, i, config)

StartsAt(w, s) ==
    IF call[w].force # 0 THEN s = call[w].force
    ELSE /\ Skipped(memory[w], s - 1, call[w].config)
         /\ s <= N => ~Reusable(memory[w], s, call[w].config)

InvalidatedForgets(m, s) ==   \* mutant: the provider's name is reset with the stages
    [status |-> [i \in 1..N |-> IF i < s THEN m.status[i] ELSE "pending"],
     input |-> [i \in 1..N |-> IF i < s THEN m.input[i] ELSE NoFingerprint],
     model |-> "none"]

Invalidated(m, s) ==
    [status |-> [i \in 1..N |-> IF i < s THEN m.status[i] ELSE "pending"],
     input |-> [i \in 1..N |-> IF i < s THEN m.input[i] ELSE NoFingerprint],
     model |-> m.model]
Started(m, i, fingerprint) ==
    [status |-> [m.status EXCEPT ![i] = "running"],
     input |-> [m.input EXCEPT ![i] = fingerprint], model |-> m.model]
Ending(m, i, status) ==
    [status |-> [m.status EXCEPT ![i] = status], input |-> m.input, model |-> m.model]

StageStatus(i, config) ==
    IF Stages[i] \in Analysis /\ config.model = "none" THEN "skipped" ELSE "completed"

Goto(w, where) == pc' = [pc EXCEPT ![w] = where]
Ended(w, result, artifact) ==
    outcome' = [outcome EXCEPT ![w] = [result |-> result, bundle |-> artifact]]

(* A call that holds the lock ends: its finally clause releases the lock. *)
Return(w, result, artifact) == Goto(w, "release") /\ Ended(w, result, artifact)

Corrupt(w) == Return(w, "corrupt", Absent) /\ UNCHANGED <<lock, disk, call, work, calls>>

(***************************************************************************)
(* FileSystemRunLock.  A lock is cleared by callers who know that nobody   *)
(* holds it; what they know may be over when the file is unlinked.         *)
(***************************************************************************)
Working == {"open", "create", "plan", "load", "begin", "execute", "record",
            "rewrite", "bundle", "report", "audit"}
Inside(w) == pc[w] \in Working \cup {"release"}

Call(w) ==
    /\ pc[w] = "idle" /\ calls < MaxCalls
    /\ \E r \in Requests, c \in Configs, f \in Forced, clear \in BOOLEAN :
        /\ clear => MayClear /\ \A v \in Writers : ~Inside(v)
        /\ call' = [call EXCEPT ![w] = [request |-> r, config |-> c, force |-> f]]
        /\ Goto(w, IF clear THEN "clear" ELSE "acquire")
    /\ calls' = calls + 1
    /\ outcome' = [outcome EXCEPT ![w] = [result |-> "none", bundle |-> Absent]]
    /\ stage' = [stage EXCEPT ![w] = 1]
    /\ memory' = [memory EXCEPT ![w] = NewManifest]
    /\ bundle' = [bundle EXCEPT ![w] = Absent]
    /\ UNCHANGED <<lock, disk, executions>>

ClearStale(w) ==
    /\ pc[w] = "clear"
    /\ lock' = Free
    /\ Goto(w, "acquire")
    /\ UNCHANGED <<disk, call, work, outcome, calls>>

AcquireAnyway(w) ==   \* mutant: the lock file is opened "w" instead of "x"
    /\ pc[w] = "acquire"
    /\ lock' = w
    /\ Goto(w, "open")
    /\ UNCHANGED <<disk, call, work, outcome, calls>>

Acquire(w) ==
    /\ pc[w] = "acquire"
    /\ IF lock = Free
       THEN lock' = w /\ Goto(w, "open") /\ UNCHANGED outcome
       ELSE Goto(w, "idle") /\ Ended(w, "active", Absent) /\ UNCHANGED lock
    /\ UNCHANGED <<disk, call, work, calls>>

(* release reads the token and unlinks the file if it is its own... *)
Release(w) ==
    /\ pc[w] = "release"
    /\ Goto(w, IF lock = w THEN "unlink" ELSE "idle")
    /\ UNCHANGED <<lock, disk, call, work, outcome, calls>>

(* ...whoever's file it is by then. *)
Unlink(w) ==
    /\ pc[w] = "unlink"
    /\ lock' = Free
    /\ Goto(w, "idle")
    /\ UNCHANGED <<disk, call, work, outcome, calls>>

(***************************************************************************)
(* _run_locked: the request and the manifest.                              *)
(***************************************************************************)
Stored(w) == file[0].request = call[w].request
Restarts(w) == Present(file[0]) => ~Stored(w) /\ call[w].force = 1

Conflict(w) ==
    /\ pc[w] = "open"
    /\ Present(file[0]) /\ ~Stored(w) /\ call[w].force # 1
    /\ Return(w, "conflict", Absent)
    /\ UNCHANGED <<lock, disk, call, work, calls>>

WriteRequest(w) ==
    /\ pc[w] = "open" /\ Restarts(w)
    /\ file' = [file EXCEPT ![0] = RequestFile(call[w].request)]
    /\ Goto(w, "create")
    /\ UNCHANGED <<lock, exports, manifest, call, work, outcome, calls>>

CreateManifest(w) ==
    /\ pc[w] = "create"
    /\ memory' = [memory EXCEPT ![w] = NewManifest]
    /\ manifest' = <<NewManifest>>
    /\ Goto(w, "plan")
    /\ UNCHANGED <<lock, file, exports, call, stage, bundle, executions, outcome, calls>>

LoadManifest(w) ==
    /\ pc[w] = "open" /\ Present(file[0]) /\ Stored(w)
    /\ IF manifest # <<>> /\ Ordered(manifest[1])
       THEN /\ memory' = [memory EXCEPT ![w] = manifest[1]]
            /\ Goto(w, "plan")
            /\ UNCHANGED <<lock, disk, call, stage, bundle, executions, outcome, calls>>
       ELSE Corrupt(w)

(***************************************************************************)
(* Nothing to execute: the bundle is read back.  Otherwise the stages from *)
(* the first on are invalidated, and the checkpoint before them is read.   *)
(***************************************************************************)
Finished(w) ==
    /\ pc[w] = "plan" /\ StartsAt(w, N + 1)
    /\ IF Present(exports["bundle"]) /\ exports["bundle"].readable
       THEN /\ Return(w, "ok", exports["bundle"])
            /\ UNCHANGED <<lock, disk, call, work, calls>>
       ELSE Corrupt(w)

InvalidateFrom(w) ==
    /\ pc[w] = "plan"
    /\ \E s \in 1..N :
        /\ StartsAt(w, s)
        /\ stage' = [stage EXCEPT ![w] = s]
        /\ memory' = [memory EXCEPT ![w] = Invalidated(@, s)]
    /\ manifest' = <<memory'[w]>>
    /\ Goto(w, "load")
    /\ UNCHANGED <<lock, file, exports, call, bundle, executions, outcome, calls>>

LoadCheckpoint(w) ==
    /\ pc[w] = "load"
    /\ LET previous == IF stage[w] = 1 THEN RequestFile(call[w].request)
                       ELSE file[stage[w] - 1]
       IN IF Present(previous) /\ previous.readable
          THEN /\ bundle' = [bundle EXCEPT ![w] = previous]
               /\ Goto(w, "begin")
               /\ UNCHANGED <<lock, disk, call, stage, memory, executions, outcome, calls>>
          ELSE Corrupt(w)

(***************************************************************************)
(* One stage: running, executed, checkpointed, recorded, checkpointed      *)
(* again with the recorded manifest.  The upstream Begin reads is the file *)
(* LoadCheckpoint found, or the one Rewrite wrote, so it is there.         *)
(***************************************************************************)
Begin(w) ==
    /\ pc[w] = "begin"
    /\ memory' = [memory EXCEPT
            ![w] = Started(@, stage[w], Expected(stage[w], call[w].config))]
    /\ manifest' = <<memory'[w]>>
    /\ Goto(w, "execute")
    /\ UNCHANGED <<lock, file, exports, call, stage, bundle, executions, outcome, calls>>

(* The bundle after stage i, holding the manifest as it is in memory. *)
Made(w, i, m) ==
    [request |-> bundle[w].request, execution |-> executions + 1,
     source |-> bundle[w].execution, conf |-> StageConfiguration(i, call[w].config),
     pass |-> 1, model |-> m.model, readable |-> Ordered(m)]
Remade(w) ==
    [request |-> bundle[w].request, execution |-> bundle[w].execution,
     source |-> bundle[w].source, conf |-> bundle[w].conf, pass |-> 2,
     model |-> bundle[w].model, readable |-> Ordered(memory[w])]

(* map_stage and build_stage leave the provider's name in the manifest. *)
Named(w, i, m) ==
    IF StageStatus(i, call[w].config) = "completed" /\ Stages[i] \in Analysis
    THEN [status |-> m.status, input |-> m.input, model |-> call[w].config.model]
    ELSE m

Execute(w) ==
    /\ pc[w] = "execute"
    /\ LET i == stage[w]
           m == Named(w, i, memory[w])
       IN /\ memory' = [memory EXCEPT ![w] = m]
          /\ bundle' = [bundle EXCEPT ![w] = Made(w, i, m)]
          /\ file' = [file EXCEPT ![i] = Made(w, i, m)]
    /\ executions' = executions + 1
    /\ Goto(w, "record")
    /\ UNCHANGED <<lock, exports, manifest, call, stage, outcome, calls>>

Fail(w) ==
    /\ MayFail /\ pc[w] = "execute"
    /\ memory' = [memory EXCEPT ![w] = Ending(@, stage[w], "failed")]
    /\ manifest' = <<memory'[w]>>
    /\ Return(w, "failed", Absent)
    /\ UNCHANGED <<lock, file, exports, call, stage, bundle, executions, calls>>

Record(w) ==
    /\ pc[w] = "record"
    /\ memory' = [memory EXCEPT
            ![w] = Ending(@, stage[w], StageStatus(stage[w], call[w].config))]
    /\ manifest' = <<memory'[w]>>
    /\ Goto(w, "rewrite")
    /\ UNCHANGED <<lock, file, exports, call, stage, bundle, executions, outcome, calls>>

RewriteLate(w) ==   \* mutant: the next stage is fingerprinted before the second write
    /\ pc[w] = "rewrite"
    /\ LET i == stage[w]
       IN /\ file' = [file EXCEPT ![i] = Remade(w)]
          /\ bundle' = [bundle EXCEPT ![w] = Remade(w)]
          /\ IF i = N THEN Goto(w, "bundle") /\ UNCHANGED <<stage, memory, manifest>>
             ELSE /\ Goto(w, "execute")
                  /\ stage' = [stage EXCEPT ![w] = i + 1]
                  /\ memory' = [memory EXCEPT
                        ![w] = Started(@, i + 1, Expected(i + 1, call[w].config))]
                  /\ manifest' = <<memory'[w]>>
    /\ UNCHANGED <<lock, exports, call, executions, outcome, calls>>

RewritePast(w) ==   \* mutant: export is not recognised as the last stage
    /\ pc[w] = "rewrite"
    /\ file' = [file EXCEPT ![stage[w]] = Remade(w)]
    /\ bundle' = [bundle EXCEPT ![w] = Remade(w)]
    /\ Goto(w, "begin") /\ stage' = [stage EXCEPT ![w] = @ + 1]
    /\ UNCHANGED <<lock, exports, manifest, call, memory, executions, outcome, calls>>

Rewrite(w) ==
    /\ pc[w] = "rewrite"
    /\ file' = [file EXCEPT ![stage[w]] = Remade(w)]
    /\ bundle' = [bundle EXCEPT ![w] = Remade(w)]
    /\ IF stage[w] = N THEN Goto(w, "bundle") /\ UNCHANGED stage
       ELSE Goto(w, "begin") /\ stage' = [stage EXCEPT ![w] = @ + 1]
    /\ UNCHANGED <<lock, exports, manifest, call, memory, executions, outcome, calls>>

(* _write_exports, one artifact after another. *)
Exported == {"bundle", "report", "audit"}
ExportOrderSkips ==   \* mutant: a bundle written before keeps its report
    [bundle |-> "audit", report |-> "audit", audit |-> "release"]
ExportOrder == [bundle |-> "report", report |-> "audit", audit |-> "release"]

Export(w) ==
    /\ pc[w] \in Exported
    /\ exports' = [exports EXCEPT ![pc[w]] = bundle[w]]
    /\ Goto(w, ExportOrder[pc[w]])
    /\ IF pc[w] = "audit" THEN Ended(w, "ok", bundle[w]) ELSE UNCHANGED outcome
    /\ UNCHANGED <<lock, file, manifest, call, work, calls>>

(***************************************************************************)
(* Cancellation and I/O errors leave through the finally clause; a kill    *)
(* leaves the lock file behind.                                            *)
(***************************************************************************)
Interrupt(w) ==
    /\ MayStop /\ pc[w] \in Working
    /\ Return(w, "stopped", Absent)
    /\ UNCHANGED <<lock, disk, call, work, calls>>

Kill(w) ==
    /\ MayStop /\ pc[w] # "idle"
    /\ lock' = IF lock = w THEN Stale ELSE lock
    /\ Goto(w, "idle") /\ Ended(w, "stopped", Absent)
    /\ UNCHANGED <<disk, call, work, calls>>

Result == {"none", "ok", "active", "conflict", "corrupt", "failed", "stopped"}

Init ==
    /\ lock = Free
    /\ file = [i \in 0..N |-> Absent]
    /\ exports = [x \in Exported |-> Absent]
    /\ manifest = <<>>
    /\ pc = [w \in Writers |-> "idle"]
    /\ call = [w \in Writers |-> [request |-> NoRequest, config |-> NoConfig, force |-> 0]]
    /\ stage = [w \in Writers |-> 1]
    /\ memory = [w \in Writers |-> NewManifest]
    /\ bundle = [w \in Writers |-> Absent]
    /\ outcome = [w \in Writers |-> [result |-> "none", bundle |-> Absent]]
    /\ executions = 0 /\ calls = 0

Locking(w) == Call(w) \/ ClearStale(w) \/ Acquire(w) \/ Release(w) \/ Unlink(w)
Opening(w) == Conflict(w) \/ WriteRequest(w) \/ CreateManifest(w) \/ LoadManifest(w)
Planning(w) == Finished(w) \/ InvalidateFrom(w) \/ LoadCheckpoint(w)
Running(w) == Begin(w) \/ Execute(w) \/ Fail(w) \/ Record(w) \/ Rewrite(w) \/ Export(w)
Next == \E w \in Writers :
    Locking(w) \/ Opening(w) \/ Planning(w) \/ Running(w) \/ Interrupt(w) \/ Kill(w)

Spec == Init /\ [][Next]_vars
--------------------------------------------------------------------------------
(* The type invariant of the run directory, its lock and its callers. *)
TypeOK ==
    /\ lock \in Writers \cup {Free, Stale}
    /\ file \in [0..N -> Artifact]
    /\ exports \in [Exported -> Artifact]
    /\ manifest \in Seq(Manifest) /\ Len(manifest) <= 1
    /\ pc \in [Writers -> Working \cup {"idle", "clear", "acquire", "release", "unlink"}]
    /\ call \in [Writers -> [request : Requests \cup {NoRequest}, force : 0..N,
                            config : Configs \cup {NoConfig}]]
    /\ stage \in [Writers -> 1..N]
    /\ memory \in [Writers -> Manifest]
    /\ bundle \in [Writers -> Artifact]
    /\ outcome \in [Writers -> [result : Result, bundle : Artifact]]
    /\ executions \in Nat /\ calls \in 0..MaxCalls

(* The content of file[i] was made from the content of file[i - 1], for the *)
(* same request, with the stage's current configuration.                    *)
Derived(i, config) ==
    /\ file[i].source = file[i - 1].execution
    /\ file[i].request = file[i - 1].request
    /\ file[i].conf = StageConfiguration(i, config)

(* Whatever was killed, cancelled or failed, and whatever was forced before: *)
(* the checkpoints an unforced resume would skip are a chain made one from   *)
(* the other, from the stored request and by the present configuration       *)
(* (_first_stage_to_run).                                                    *)
PrefixIsDerived ==
    \A c \in Configs, s \in 1..N :
        manifest # <<>> /\ Skipped(manifest[1], s, c) => Derived(s, c)

(* And the other way round: stages recorded as done whose checkpoints are   *)
(* such a chain are skipped, so a resume repeats no retrieval and no model  *)
(* call ("resumes without repeating completed collection work").            *)
CompletedWorkIsKept ==
    \A c \in Configs, s \in 1..N :
        /\ manifest # <<>>
        /\ \A i \in 1..s : /\ manifest[1].status[i] = StageStatus(i, c)
                           /\ Derived(i, c)
        => Skipped(manifest[1], s, c)

(* What a call made it returns: a call that ran the last stage returns the  *)
(* last checkpoint, and left the same bundle in all three exports, whatever *)
(* interrupted the calls before it; and it is for the call's own request,   *)
(* unless the call itself was forced past the stage that asks for one.      *)
ReturnsItsBundle ==
    \A w \in Writers :
        pc[w] = "release" /\ outcome[w].result = "ok" /\ Present(bundle[w]) =>
            /\ outcome[w].bundle = file[N]
            /\ call[w].force <= 1 => outcome[w].bundle.request = call[w].request
            /\ {exports["bundle"], exports["report"], exports["audit"]} = {file[N]}

(* A bundle names the model that analysed it, also when the analysis is     *)
(* older than the call that exports it (map_stage and build_stage write     *)
(* provider_metadata, and a resume keeps what they wrote).  Only a call     *)
(* forced to start behind every analysis stage takes over another's.        *)
NamesItsModel ==
    \A w \in Writers :
        /\ pc[w] = "release" /\ outcome[w].result = "ok" /\ Present(bundle[w])
        /\ call[w].config.model # "none"
        /\ \E i \in 1..N : Stages[i] \in Analysis /\ call[w].force <= i
        => outcome[w].bundle.model = call[w].config.model

(* Two callers are never inside one run at a time. *)
OneWriter == \A v, w \in Writers : Inside(v) /\ Inside(w) => v = w
--------------------------------------------------------------------------------
(* What a test says, which the code does not keep. *)

(* "Loading checkpoints for a different legal question would mix provenance"*)
(* (test_resume.py): a call returns a bundle for the request it was given.  *)
ReturnsItsRequest ==
    \A w \in Writers : pc[w] = "release" /\ outcome[w].result = "ok" =>
        outcome[w].bundle.request = call[w].request
================================================================================
