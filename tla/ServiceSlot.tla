----------------------------- MODULE ServiceSlot -----------------------------
(***************************************************************************)
(* What docker/docker.go promises its callers about one service on one     *)
(* host, without the Docker API calls it takes: a call asks for a          *)
(* generation of the service (an image and a command) or for its removal;  *)
(* on the way the service may be down; the call may fail at any point; but *)
(* the generations that have run are given up only for the one asked for,  *)
(* and a call that succeeds has done what it was asked.                    *)
(*                                                                         *)
(* DockerContainer implements this specification.                          *)
(***************************************************************************)
CONSTANTS
    Generations,    \* what a service can be asked to run
    Same(_, _)      \* the code tells the two generations apart or not

VARIABLES
    serving,    \* the generation that runs as the service: a set of at most one
    prepared,   \* a generation made ready and never run: a set of at most one
    kept,       \* generations that have run and can be run again
    call,       \* the call in progress
    asked,      \* the generation it, or the last such call, asks for
    excused,    \* the call found the service stopped, or was interfered with
    outcome     \* how the last call ended

vars == <<serving, prepared, kept, call, asked, excused, outcome>>

Init ==
    /\ serving = {} /\ prepared = {} /\ kept = {}
    /\ call = "none"
    /\ asked \in Generations
    /\ excused = FALSE
    /\ outcome = "none"

\* A service found running, or not found at all, is no excuse.
Ask(g) ==
    /\ call = "none" /\ call' = "run"
    /\ asked' = g
    /\ excused' \in BOOLEAN
    /\ serving # {} \/ (kept = {} /\ prepared = {}) => ~excused'
    /\ outcome' = "none"
    /\ UNCHANGED <<serving, prepared, kept>>

AskRemoval ==
    /\ call = "none" /\ call' = "remove"
    /\ excused' = FALSE
    /\ outcome' = "none"
    /\ UNCHANGED <<serving, prepared, kept, asked>>

Prepare ==
    /\ call = "run" /\ serving = {} /\ prepared = {}
    /\ prepared' = {asked}
    /\ UNCHANGED <<serving, kept, call, asked, excused, outcome>>

\* The service starts: the generation made ready, or one that has run before.
Serve ==
    /\ call = "run" /\ serving = {}
    /\ \E g \in Generations :
          /\ IF prepared = {} THEN g \in kept ELSE g \in prepared
          /\ serving' = {g}
          /\ kept' = kept \cup {g}
    /\ prepared' = {}
    /\ UNCHANGED <<call, asked, excused, outcome>>

Stop ==
    /\ call # "none" /\ serving # {}
    /\ serving' = {}
    /\ UNCHANGED <<prepared, kept, call, asked, excused, outcome>>

\* Earlier generations are given up once the one asked for has run.
Replace ==
    /\ call = "run" /\ asked \in kept
    /\ kept' = {asked}
    /\ UNCHANGED <<serving, prepared, call, asked, excused, outcome>>

Discard ==
    /\ call = "remove" /\ serving = {}
    /\ prepared' = {}
    /\ kept' \in SUBSET kept
    /\ UNCHANGED <<serving, call, asked, excused, outcome>>

\* What a call that returns nil has achieved.
Succeed ==
    /\ \/ call = "run" /\ (excused \/ \E g \in serving : Same(g, asked))
       \/ call = "remove" /\ serving = {} /\ prepared = {}
    /\ call' = "none" /\ outcome' = "ok"
    /\ excused' = FALSE
    /\ UNCHANGED <<serving, prepared, kept, asked>>

GiveUp ==
    /\ call # "none"
    /\ call' = "none" /\ outcome' = "err"
    /\ excused' = FALSE
    /\ UNCHANGED <<serving, prepared, kept, asked>>

\* The service ends on its own, is stopped, or comes back with the host.
Disturb ==
    /\ serving' = {} \/ \E g \in kept : serving' = {g}
    /\ excused' = (call = "run")
    /\ UNCHANGED <<prepared, kept, call, asked, outcome>>

Next ==
    \/ \E g \in Generations : Ask(g)
    \/ AskRemoval \/ Prepare \/ Serve \/ Stop \/ Replace \/ Discard
    \/ Succeed \/ GiveUp \/ Disturb

Spec == Init /\ [][Next]_vars
=============================================================================
