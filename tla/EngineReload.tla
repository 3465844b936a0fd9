------------------------------ MODULE EngineReload ------------------------------
(***************************************************************************)
(* How the engine gets its rules: run of cmd/engine/main.go (initial load, *)
(* watcher, shutdown), Load and WatchContext of internal/infra/ruleset,    *)
(* the push Manager that publishes and retires generations, and the        *)
(* snapshot of the update handler.  Generations are numbered in the order  *)
(* NewGeneration makes them, 0 is none; how one retires is PushGeneration. *)
(***************************************************************************)
EXTENDS Naturals, FiniteSets

CONSTANTS
    Contents,     \* contents the rules file may have
    Valid,        \* those that Load accepts
    NullRule,     \* those with an entry that has no body (rule1: and nothing else)
    Missing,      \* there is no file
    FirstFile,    \* the file when the engine starts
    Facts,        \* source facts of the update handler, for the push endpoints
    MaxEdits      \* bound: changes of the file

ASSUME ReloadAssumption ==
    /\ Valid \subseteq Contents /\ NullRule \subseteq Contents
    /\ Valid \cap NullRule = {}
    /\ Missing \notin Contents
    /\ FirstFile \in Contents \cup {Missing}
    /\ MaxEdits \in Nat

VARIABLES
    file,
    watched,    \* the watcher follows the file
    events,     \* fsnotify events that wait for the watcher goroutine
    unseen,     \* observer: a change no event tells of, since the last Load
    edits,
    main,       \* run: "load", "watch", "run", "closeWatcher", "closeManager",
                \*   "draining", "closeRest", "exited"; "dead": the process panicked
    watcher,    \* the goroutine of WatchContext: "none", "select", "busy", "gone"
    loader,     \* a load in progress: "idle", "load", "apply", "lock", "current",
                \*   "retire", "drain"
    loading,    \* the rules it loaded
    previous,   \* Replace: the generation before its candidate
    openSet,    \* what SourceOpener was told to open
    snapshot,   \* handler: the published rules and generation
    current, closed,   \* push.Manager
    mutex,      \* push.Manager.mu: "free", "replace", "close"
    made,       \* generations made so far
    retired,    \* generations that refuse leases
    drained,    \* generations whose workers ended
    held,       \* the generation a fact's handler took with the snapshot
    outcome     \* what Submit said: "none", "accepted", "retired"

fileVars    == <<file, watched, events, unseen, edits>>
loadVars    == <<loader, loading, previous>>
managerVars == <<current, closed, mutex, made, retired, drained>>
factVars    == <<held, outcome>>
vars == <<fileVars, main, watcher, loadVars, openSet, snapshot, managerVars, factVars>>

NoRules == [rules |-> Missing, gen |-> 0]

TypeOK ==
    /\ file \in Contents \cup {Missing} /\ watched \in BOOLEAN
    /\ events \in 0..MaxEdits /\ unseen \in BOOLEAN /\ edits \in 0..MaxEdits
    /\ main \in {"load", "watch", "run", "closeWatcher", "closeManager", "draining",
                 "closeRest", "exited", "dead"}
    /\ watcher \in {"none", "select", "busy", "gone"}
    /\ loader \in {"idle", "load", "apply", "lock", "current", "retire", "drain"}
    /\ loading \in Valid \cup {Missing}
    /\ {current, previous} \subseteq 0..made /\ made \in 0..(MaxEdits + 1)
    /\ openSet \in Valid \cup {Missing}
    /\ snapshot \in [rules: Valid \cup {Missing}, gen: 0..made]
    /\ closed \in BOOLEAN /\ mutex \in {"free", "replace", "close"}
    /\ drained \subseteq retired /\ retired \subseteq 1..made
    /\ held \in [Facts -> 0..made]
    /\ outcome \in [Facts -> {"none", "accepted", "retired"}]

Init ==
    /\ file = FirstFile /\ watched = FALSE /\ events = 0 /\ unseen = FALSE /\ edits = 0
    /\ main = "load" /\ watcher = "none"
    /\ loader = "load" /\ loading = Missing /\ previous = 0
    /\ openSet = Missing /\ snapshot = NoRules
    /\ current = 0 /\ closed = FALSE /\ mutex = "free" /\ made = 0
    /\ retired = {} /\ drained = {}
    /\ held = [f \in Facts |-> 0] /\ outcome = [f \in Facts |-> "none"]

Alive == main \notin {"exited", "dead"}

(***************************************************************************)
(* The file                                                                *)
(***************************************************************************)

\* The events the goroutine of WatchContext reacts to.
OnlyCreated(kind) == kind = "create"            \* mutant: Write is not handled
Noticed(kind) == kind \in {"write", "create"}

\* The file is written in place.
Write(c) ==
    /\ Alive /\ file # Missing /\ c # file
    /\ edits < MaxEdits /\ edits' = edits + 1
    /\ file' = c
    /\ events' = IF watched /\ Noticed("write") THEN events + 1 ELSE events
    /\ unseen' = (unseen \/ ~watched)
    /\ UNCHANGED <<watched, main, watcher, loadVars, openSet, snapshot, managerVars, factVars>>

\* Another file is renamed over it, or it is removed: the watch ends with the old one.
ReplaceFile(c) ==
    /\ Alive /\ c # file
    /\ edits < MaxEdits /\ edits' = edits + 1
    /\ file' = c /\ watched' = FALSE /\ unseen' = TRUE
    /\ UNCHANGED <<events, main, watcher, loadVars, openSet, snapshot, managerVars, factVars>>

(***************************************************************************)
(* Loading: rulesetRepo.Load and loadSnapshot                              *)
(***************************************************************************)

\* A load that fails leaves everything as it is; validate dereferences every entry.
Load ==
    /\ Alive /\ loader = "load"
    /\ unseen' = FALSE
    /\ IF file \in NullRule THEN main' = "dead" /\ UNCHANGED <<loader, loading, watcher>>
       ELSE IF file \in Valid
       THEN loader' = "apply" /\ loading' = file /\ UNCHANGED <<main, watcher>>
       ELSE /\ loader' = "idle"
            /\ watcher' = IF watcher = "busy" THEN "select" ELSE watcher
            /\ UNCHANGED <<main, loading>>
    /\ UNCHANGED <<file, watched, events, edits, previous, openSet, snapshot, managerVars,
                   factVars>>

NewSources == loading
ApplySet ==
    /\ Alive /\ loader = "apply"
    /\ openSet' = NewSources /\ loader' = "lock"
    /\ UNCHANGED <<fileVars, main, watcher, loading, previous, snapshot, managerVars, factVars>>

\* Replace under the manager's mutex: refused after Close, else it makes the candidate
\* and publishes it to the handler.
Refused == closed
Publish ==
    /\ Alive /\ loader = "lock" /\ mutex = "free"
    /\ IF Refused
       THEN /\ loader' = "idle"
            /\ watcher' = IF watcher = "busy" THEN "select" ELSE watcher
            /\ UNCHANGED <<previous, snapshot, mutex, made>>
       ELSE /\ mutex' = "replace"
            /\ made' = made + 1 /\ previous' = current
            /\ snapshot' = [rules |-> loading, gen |-> made + 1]
            /\ loader' = "current"
            /\ UNCHANGED watcher
    /\ UNCHANGED <<fileVars, main, loading, openSet, current, closed, retired, drained, factVars>>

SetCurrent ==
    /\ Alive /\ loader = "current"
    /\ current' = snapshot.gen /\ loader' = "retire"
    /\ UNCHANGED <<fileVars, main, watcher, loading, previous, openSet, snapshot, closed,
                   mutex, made, retired, drained, factVars>>

\* previous.Retire() refuses new leases at once, then drains; the mutex stays held.
RetireCurrent == current                        \* mutant: retires m.current
Retiree == previous
RetirePrevious ==
    /\ Alive /\ loader = "retire"
    /\ retired' = retired \cup ({Retiree} \ {0})
    /\ loader' = "drain"
    /\ UNCHANGED <<fileVars, main, watcher, loading, previous, openSet, snapshot, current,
                   closed, mutex, made, drained, factVars>>

StaysLocked == mutex                            \* mutant: the mutex is not given back
Unlocked == "free"
EndReplace ==
    /\ Alive /\ loader = "drain"
    /\ drained' = drained \cup (retired \cap {Retiree})
    /\ mutex' = Unlocked /\ loader' = "idle"
    /\ watcher' = IF watcher = "busy" THEN "select" ELSE watcher
    /\ UNCHANGED <<fileVars, main, loading, previous, openSet, snapshot, current, closed,
                   made, retired, factVars>>

LoadSnapshot == Load \/ ApplySet \/ Publish \/ SetCurrent \/ RetirePrevious \/ EndReplace

(***************************************************************************)
(* The watcher and run                                                     *)
(***************************************************************************)

LoadDone ==
    /\ main = "load" /\ loader = "idle" /\ main' = "watch"
    /\ UNCHANGED <<fileVars, watcher, loadVars, openSet, snapshot, managerVars, factVars>>

\* WatchContext: Add fails on a missing file, and the engine runs on unwatched.
WatchContext ==
    /\ main = "watch" /\ main' = "run"
    /\ IF file = Missing THEN UNCHANGED <<watched, watcher>>
       ELSE watched' = TRUE /\ watcher' = "select"
    /\ UNCHANGED <<file, events, unseen, edits, loadVars, openSet, snapshot, managerVars, factVars>>

\* One event, one reload, in the watcher's own goroutine.
Consumed == events - 1
OnChange ==
    /\ Alive /\ watcher = "select" /\ events > 0
    /\ watcher' = "busy" /\ events' = Consumed /\ loader' = "load"
    /\ UNCHANGED <<file, watched, unseen, edits, main, loading, previous, openSet, snapshot,
                   managerVars, factVars>>

\* The context is cancelled, or Close of the repo closed the event channel.
WatcherEnds ==
    /\ watcher = "select" /\ main \in {"closeWatcher", "closeManager", "draining", "closeRest"}
    /\ watcher' = "gone"
    /\ UNCHANGED <<fileVars, main, loadVars, openSet, snapshot, managerVars, factVars>>

\* A signal or a terminal command cancels the context; the deferred calls follow.
Cancel ==
    /\ main = "run" /\ main' = "closeWatcher"
    /\ UNCHANGED <<fileVars, watcher, loadVars, openSet, snapshot, managerVars, factVars>>

\* rulesetRepo.Close does not wait for the goroutine.
CloseWatcher ==
    /\ main = "closeWatcher" /\ main' = "closeManager" /\ watched' = FALSE
    /\ UNCHANGED <<file, events, unseen, edits, watcher, loadVars, openSet, snapshot,
                   managerVars, factVars>>

\* pushManager.Close, under the mutex that Replace holds while it retires.
CloseManager ==
    /\ main = "closeManager" /\ mutex = "free"
    /\ mutex' = "close" /\ closed' = TRUE
    /\ retired' = retired \cup ({current} \ {0})
    /\ main' = "draining"
    /\ UNCHANGED <<fileVars, watcher, loadVars, openSet, snapshot, current, made, drained, factVars>>

ManagerClosed ==
    /\ main = "draining"
    /\ drained' = drained \cup ({current} \ {0})
    /\ mutex' = "free" /\ main' = "closeRest"
    /\ UNCHANGED <<fileVars, watcher, loadVars, openSet, snapshot, current, closed, made,
                   retired, factVars>>

\* The queue, Telegram and the store are closed, the process ends under whatever runs.
Exit ==
    /\ main = "closeRest" /\ main' = "exited"
    /\ UNCHANGED <<fileVars, watcher, loadVars, openSet, snapshot, managerVars, factVars>>

Shutdown == CloseWatcher \/ CloseManager \/ ManagerClosed \/ Exit

(***************************************************************************)
(* The update handler: a task keeps the snapshot it started with           *)
(***************************************************************************)
TakeSnapshot(f) ==
    /\ Alive /\ main # "load" /\ held[f] = 0 /\ snapshot.gen # 0
    /\ held' = [held EXCEPT ![f] = snapshot.gen]
    /\ UNCHANGED <<fileVars, main, watcher, loadVars, openSet, snapshot, managerVars, outcome>>

Submit(f) ==
    /\ Alive /\ held[f] # 0 /\ outcome[f] = "none"
    /\ outcome' = [outcome EXCEPT ![f] = IF held[f] \in retired THEN "retired" ELSE "accepted"]
    /\ UNCHANGED <<fileVars, main, watcher, loadVars, openSet, snapshot, managerVars, held>>

Next ==
    \/ \E c \in Contents : Write(c)
    \/ \E c \in Contents \cup {Missing} : ReplaceFile(c)
    \/ LoadSnapshot \/ LoadDone \/ WatchContext \/ OnChange \/ WatcherEnds
    \/ Cancel \/ Shutdown
    \/ \E f \in Facts : TakeSnapshot(f) \/ Submit(f)

Spec == Init /\ [][Next]_vars

\* The process runs: a load goes on, the goroutine takes an event that waits, a
\* shutdown that began goes on.  Nothing makes the operator edit or stop the engine.
FairSpec == Spec /\ WF_vars(LoadSnapshot) /\ WF_vars(LoadDone \/ WatchContext)
                 /\ WF_vars(OnChange) /\ WF_vars(Shutdown)

(***************************************************************************)
(* Properties                                                              *)
(***************************************************************************)

\* Between two calls of the manager only the published generation is in service; each
\* older one is retired and drained, and after Close all are: no reload, failed reload
\* or shutdown leaks workers.
OnlyPublishedServes ==
    mutex = "free" => (1..made) \ drained = IF closed \/ made = 0 THEN {} ELSE {snapshot.gen}

\* Replace publishes before it retires: until shutdown the published generation takes
\* facts, and a fact is refused as retired only if a later generation serves, or none
\* any more.  What is not published does not linger in service (OnlyPublishedServes).
PublishedIsLive ==
    /\ TypeOK
    /\ ~closed => snapshot.gen \notin retired
    /\ \A f \in Facts : outcome[f] = "retired" => held[f] < current \/ closed
    /\ OnlyPublishedServes

\* Whenever no load is under way the opener's sources and the handler's rules come from the
\* same load, unless the manager was closed under it; and a valid file whose last change
\* the watcher was told of is in force: edits that fall into a reload are not lost.
RestIsCurrent ==
    loader = "idle" =>
        /\ ~closed => openSet = snapshot.rules
        /\ main = "run" /\ events = 0 /\ ~unseen /\ file \in Valid => snapshot.rules = file

\* Shutdown ends, also when a reload holds the manager's mutex.
ShutdownEnds == main = "closeWatcher" ~> main \in {"exited", "dead"}

\* "Edit ruleset.yml: it is reloaded without a restart" (README.md:116).
RulesFollowFile ==
    main = "run" /\ loader = "idle" /\ events = 0 /\ file \in Valid => snapshot.rules = file

\* "On error: WARN reload_failed, the OLD snapshot keeps serving"
\* (.trellis/tasks/archive/2026-10/10-29-budva-push-stall/design.md:107).
KeepsServing == main # "dead"
================================================================================
