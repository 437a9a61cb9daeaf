------------------------------- MODULE AtomicRun -------------------------------
(***************************************************************************)
(* What the run storage of the attorney evaluator promises: a run is a log *)
(* of accepted answers, one per controller-issued call, that only grows.   *)
(* A verifier either sees one exact log or refuses the directory.          *)
(***************************************************************************)
EXTENDS Naturals, Sequences

CONSTANTS
    Answers,    \* what an evaluator can answer to one call
    MaxCalls,   \* bound: calls a run needs to reach its terminal result
    None        \* "there is no run"

VARIABLES
    log,        \* the accepted answers, or None before the run exists
    refused     \* TRUE once the directory holds a tree every verifier refuses

vars == <<log, refused>>

History == {h \in Seq(Answers) : Len(h) <= MaxCalls}

Init == log = None /\ refused = FALSE

(* The first manifest: an empty history with its first pending request. *)
Create == ~refused /\ log = None /\ log' = <<>> /\ UNCHANGED refused

(* One pending call is answered; nothing accepted before it changes. *)
Accept(a) ==
    /\ ~refused
    /\ log # None
    /\ Len(log) < MaxCalls
    /\ log' = Append(log, a)
    /\ UNCHANGED refused

(* An interrupted storage operation leaves a tree no verifier accepts. *)
Refuse == ~refused /\ refused' = TRUE /\ log' = None

Next == Create \/ (\E a \in Answers : Accept(a)) \/ Refuse

Spec == Init /\ [][Next]_vars
================================================================================
