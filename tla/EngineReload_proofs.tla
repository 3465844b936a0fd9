-------------------------- MODULE EngineReload_proofs --------------------------
(***************************************************************************)
(* Proofs about the engine's rules, for any contents of the file, any      *)
(* facts and any number of edits.                                          *)
(***************************************************************************)
EXTENDS EngineReload, TLAPS

Replacing == {"current", "retire", "drain"}

\* Every load but the first stands for an event, and every event for an edit.
Budget ==
    /\ events <= edits
    /\ made + events + (IF loader \in {"load", "apply", "lock"} THEN 1 ELSE 0) <= edits + 1

\* Who is in a load: run itself at the start, later only the busy watcher.
LoadInv ==
    /\ main = "load" => watcher = "none"
    /\ main = "watch" => watcher = "none" /\ loader = "idle"
    /\ watcher \in {"none", "select", "gone"} /\ main \notin {"load", "dead"} => loader = "idle"
    /\ main = "dead" => loader # "idle"
    /\ Budget

\* Who holds the mutex, and what it means that the manager is closed.
MutexInv ==
    /\ mutex = "replace" <=> loader \in Replacing
    /\ main \in {"draining", "closeRest", "exited"} => closed
    /\ closed => main \in {"draining", "closeRest", "exited", "dead"}
    /\ main = "draining" => mutex = "close"
    /\ mutex = "close" => main \in {"draining", "dead"}
    /\ closed => mutex # "replace"

\* Where the generations are: all but the last are retired and drained, the one a Replace
\* in progress has superseded perhaps not yet, and a close takes the last as well.
GenerationInv ==
    /\ snapshot.gen = made
    /\ current = IF loader = "current" THEN made - 1 ELSE made
    /\ loader \in Replacing => previous = made - 1 /\ made > 0
    /\ retired = IF closed THEN 1..made
                 ELSE IF loader \in {"current", "retire"} THEN 1..(made - 2) ELSE 1..(made - 1)
    /\ drained = IF mutex = "free" THEN (IF closed THEN 1..made ELSE 1..(made - 1))
                 ELSE IF mutex = "replace" THEN 1..(made - 2) ELSE 1..(made - 1)
    /\ \A f \in Facts : /\ outcome[f] = "retired" => held[f] < current \/ closed
                        /\ held[f] = 0 => outcome[f] = "none"

\* What is loaded, published and open agree, each as far as the load has come.
RulesInv ==
    /\ loader \in {"idle", "load", "apply"} /\ ~closed => openSet = snapshot.rules
    /\ loader \in {"lock"} \cup Replacing => openSet = loading
    /\ loader \in Replacing => snapshot.rules = loading

\* Before shutdown, no event waits, nothing went unseen: the last load had this file.
FreshInv ==
    main \in {"load", "watch", "run"} /\ events = 0 /\ ~unseen /\ file \in Valid =>
        /\ loader = "idle" => snapshot.rules = file
        /\ loader \in {"apply", "lock"} \cup Replacing => loading = file

ReloadInv == TypeOK /\ LoadInv /\ MutexInv /\ GenerationInv /\ RulesInv /\ FreshInv

LEMMA TypesInit == Init => TypeOK
  <1> SUFFICES ASSUME Init PROVE TypeOK
    OBVIOUS
  <1>1. {watched, unseen, closed} \subseteq BOOLEAN
    BY DEF Init
  <1>2. snapshot \in [rules: Valid \cup {Missing}, gen: 0..made]
    BY DEF Init, NoRules
  <1>3. retired \subseteq 1..made /\ held \in [Facts -> 0..made]
    BY DEF Init
  <1>4. {current, previous} \subseteq 0..made /\ made \in 0..(MaxEdits + 1) /\ events \in 0..MaxEdits
           /\ edits \in 0..MaxEdits
    BY ReloadAssumption DEF Init
  <1> QED
    BY <1>1, <1>2, <1>3, <1>4, ReloadAssumption DEF Init, TypeOK

LEMMA InvInit == Init => ReloadInv
  <1> SUFFICES ASSUME Init PROVE ReloadInv
    OBVIOUS
  <1>1. LoadInv /\ MutexInv /\ RulesInv /\ FreshInv
    BY DEF Init, LoadInv, Budget, MutexInv, RulesInv, FreshInv, Replacing, NoRules
  <1>2. GenerationInv
    BY DEF Init, GenerationInv, Replacing, NoRules
  <1> QED
    BY <1>1, <1>2, TypesInit DEF ReloadInv

LEMMA WriteStep ==
    ASSUME ReloadInv, \E c \in Contents : Write(c)
    PROVE  ReloadInv'
  <1> USE ReloadAssumption DEF Write, Noticed, Alive, fileVars, loadVars, managerVars, factVars
  <1>1. TypeOK'
    <2>1. watched' \in BOOLEAN /\ unseen' \in BOOLEAN
      BY DEF ReloadInv, TypeOK
    <2>2. events' \in 0..MaxEdits /\ edits' \in 0..MaxEdits /\ edits' = edits + 1
      BY DEF ReloadInv, TypeOK, LoadInv, Budget
    <2>3. file' \in Contents \cup {Missing}
      OBVIOUS
    <2> QED
      BY <2>1, <2>2, <2>3 DEF ReloadInv, TypeOK
  <1>2. LoadInv'
    BY DEF ReloadInv, TypeOK, LoadInv, Budget, Replacing
  <1>3. MutexInv'
    BY DEF ReloadInv, MutexInv, LoadInv, Replacing
  <1>4. GenerationInv'
    BY DEF ReloadInv, TypeOK, LoadInv, MutexInv, GenerationInv, Replacing
  <1>5. RulesInv' /\ FreshInv'
    <2>1. RulesInv'
      BY DEF ReloadInv, RulesInv, Replacing
    <2>2. unseen' \/ (events \in Nat /\ events' = events + 1)
      <3>1. events \in Nat /\ watched \in BOOLEAN
        BY DEF ReloadInv, TypeOK
      <3>2. watched => events' = events + 1
        BY <3>1
      <3>3. ~watched => unseen'
        BY Zenon
      <3> QED
        BY <3>1, <3>2, <3>3
    <2> QED
      BY <2>1, <2>2 DEF FreshInv
  <1> QED
    BY <1>1, <1>2, <1>3, <1>4, <1>5 DEF ReloadInv

LEMMA ReplaceFileStep ==
    ASSUME ReloadInv, \E c \in Contents \cup {Missing} : ReplaceFile(c)
    PROVE  ReloadInv'
  <1> USE ReloadAssumption DEF ReplaceFile, Alive, fileVars, loadVars, managerVars, factVars
  <1>1. TypeOK'
    <2>1. watched' \in BOOLEAN /\ unseen' \in BOOLEAN
      BY DEF ReloadInv, TypeOK
    <2>2. events' \in 0..MaxEdits /\ edits' \in 0..MaxEdits /\ edits' = edits + 1
      BY DEF ReloadInv, TypeOK, LoadInv, Budget
    <2>3. file' \in Contents \cup {Missing}
      OBVIOUS
    <2> QED
      BY <2>1, <2>2, <2>3 DEF ReloadInv, TypeOK
  <1>2. LoadInv'
    BY DEF ReloadInv, TypeOK, LoadInv, Budget, Replacing
  <1>3. MutexInv'
    BY DEF ReloadInv, MutexInv, LoadInv, Replacing
  <1>4. GenerationInv'
    BY DEF ReloadInv, TypeOK, LoadInv, MutexInv, GenerationInv, Replacing
  <1>5. RulesInv' /\ FreshInv'
    <2>1. RulesInv'
      BY DEF ReloadInv, RulesInv, Replacing
    <2>2. unseen'
      OBVIOUS
    <2> QED
      BY <2>1, <2>2 DEF FreshInv
  <1> QED
    BY <1>1, <1>2, <1>3, <1>4, <1>5 DEF ReloadInv

LEMMA LoadStep ==
    ASSUME ReloadInv, Load
    PROVE  ReloadInv'
  <1> USE ReloadAssumption DEF Load, Alive, fileVars, loadVars, managerVars, factVars
  <1>1. TypeOK'
    BY DEF ReloadInv, TypeOK, LoadInv, Budget, MutexInv, GenerationInv, Replacing
  <1>2. LoadInv'
    BY DEF ReloadInv, TypeOK, LoadInv, Budget, Replacing
  <1>3. MutexInv'
    BY DEF ReloadInv, MutexInv, LoadInv, Replacing
  <1>4. GenerationInv'
    BY DEF ReloadInv, TypeOK, LoadInv, MutexInv, GenerationInv, Replacing
  <1>5. RulesInv' /\ FreshInv'
    BY DEF ReloadInv, TypeOK, LoadInv, MutexInv, RulesInv, FreshInv, Replacing
  <1> QED
    BY <1>1, <1>2, <1>3, <1>4, <1>5 DEF ReloadInv

LEMMA ApplySetStep ==
    ASSUME ReloadInv, ApplySet
    PROVE  ReloadInv'
  <1> USE ReloadAssumption DEF ApplySet, NewSources, Alive, fileVars, loadVars, managerVars, factVars
  <1>1. TypeOK'
    BY DEF ReloadInv, TypeOK, LoadInv, Budget, MutexInv, GenerationInv, Replacing
  <1>2. LoadInv'
    BY DEF ReloadInv, TypeOK, LoadInv, Budget, Replacing
  <1>3. MutexInv'
    BY DEF ReloadInv, MutexInv, LoadInv, Replacing
  <1>4. GenerationInv'
    BY DEF ReloadInv, TypeOK, LoadInv, MutexInv, GenerationInv, Replacing
  <1>5. RulesInv' /\ FreshInv'
    BY DEF ReloadInv, TypeOK, LoadInv, MutexInv, RulesInv, FreshInv, Replacing
  <1> QED
    BY <1>1, <1>2, <1>3, <1>4, <1>5 DEF ReloadInv

LEMMA PublishStep ==
    ASSUME ReloadInv, Publish
    PROVE  ReloadInv'
  <1> USE ReloadAssumption DEF Publish, Refused, Alive, fileVars, loadVars, managerVars, factVars
  <1>1. TypeOK'
    BY DEF ReloadInv, TypeOK, LoadInv, Budget, MutexInv, GenerationInv, Replacing
  <1>2. LoadInv'
    BY DEF ReloadInv, TypeOK, LoadInv, Budget, Replacing
  <1>3. MutexInv'
    BY DEF ReloadInv, MutexInv, LoadInv, Replacing
  <1>4. GenerationInv'
    BY DEF ReloadInv, TypeOK, LoadInv, MutexInv, GenerationInv, Replacing
  <1>5. RulesInv' /\ FreshInv'
    BY DEF ReloadInv, TypeOK, LoadInv, MutexInv, RulesInv, FreshInv, Replacing
  <1> QED
    BY <1>1, <1>2, <1>3, <1>4, <1>5 DEF ReloadInv

LEMMA SetCurrentStep ==
    ASSUME ReloadInv, SetCurrent
    PROVE  ReloadInv'
  <1> USE ReloadAssumption DEF SetCurrent, Alive, fileVars, loadVars, managerVars, factVars
  <1>1. TypeOK'
    BY DEF ReloadInv, TypeOK, LoadInv, Budget, MutexInv, GenerationInv, Replacing
  <1>2. LoadInv'
    BY DEF ReloadInv, TypeOK, LoadInv, Budget, Replacing
  <1>3. MutexInv'
    BY DEF ReloadInv, MutexInv, LoadInv, Replacing
  <1>4. GenerationInv'
    BY DEF ReloadInv, TypeOK, LoadInv, MutexInv, GenerationInv, Replacing
  <1>5. RulesInv' /\ FreshInv'
    BY DEF ReloadInv, TypeOK, LoadInv, MutexInv, RulesInv, FreshInv, Replacing
  <1> QED
    BY <1>1, <1>2, <1>3, <1>4, <1>5 DEF ReloadInv

LEMMA RetirePreviousStep ==
    ASSUME ReloadInv, RetirePrevious
    PROVE  ReloadInv'
  <1> USE ReloadAssumption DEF RetirePrevious, Retiree, Alive, fileVars, loadVars, managerVars, factVars
  <1>1. TypeOK'
    BY DEF ReloadInv, TypeOK, LoadInv, Budget, MutexInv, GenerationInv, Replacing
  <1>2. LoadInv'
    BY DEF ReloadInv, TypeOK, LoadInv, Budget, Replacing
  <1>3. MutexInv'
    BY DEF ReloadInv, MutexInv, LoadInv, Replacing
  <1>4. GenerationInv'
    BY DEF ReloadInv, TypeOK, LoadInv, MutexInv, GenerationInv, Replacing
  <1>5. RulesInv' /\ FreshInv'
    BY DEF ReloadInv, TypeOK, LoadInv, MutexInv, RulesInv, FreshInv, Replacing
  <1> QED
    BY <1>1, <1>2, <1>3, <1>4, <1>5 DEF ReloadInv

LEMMA EndReplaceStep ==
    ASSUME ReloadInv, EndReplace
    PROVE  ReloadInv'
  <1> USE ReloadAssumption DEF EndReplace, Retiree, Unlocked, Alive, fileVars, loadVars, managerVars, factVars
  <1>1. TypeOK'
    BY DEF ReloadInv, TypeOK, LoadInv, Budget, MutexInv, GenerationInv, Replacing
  <1>2. LoadInv'
    BY DEF ReloadInv, TypeOK, LoadInv, Budget, Replacing
  <1>3. MutexInv'
    BY DEF ReloadInv, MutexInv, LoadInv, Replacing
  <1>4. GenerationInv'
    BY DEF ReloadInv, TypeOK, LoadInv, MutexInv, GenerationInv, Replacing
  <1>5. RulesInv' /\ FreshInv'
    BY DEF ReloadInv, TypeOK, LoadInv, MutexInv, RulesInv, FreshInv, Replacing
  <1> QED
    BY <1>1, <1>2, <1>3, <1>4, <1>5 DEF ReloadInv

LEMMA LoadDoneStep ==
    ASSUME ReloadInv, LoadDone
    PROVE  ReloadInv'
  <1> USE ReloadAssumption DEF LoadDone, Alive, fileVars, loadVars, managerVars, factVars
  <1>1. TypeOK'
    BY DEF ReloadInv, TypeOK, LoadInv, Budget, MutexInv, GenerationInv, Replacing
  <1>2. LoadInv'
    BY DEF ReloadInv, TypeOK, LoadInv, Budget, Replacing
  <1>3. MutexInv'
    BY DEF ReloadInv, MutexInv, LoadInv, Replacing
  <1>4. GenerationInv'
    BY DEF ReloadInv, TypeOK, LoadInv, MutexInv, GenerationInv, Replacing
  <1>5. RulesInv' /\ FreshInv'
    BY DEF ReloadInv, TypeOK, LoadInv, MutexInv, RulesInv, FreshInv, Replacing
  <1> QED
    BY <1>1, <1>2, <1>3, <1>4, <1>5 DEF ReloadInv

LEMMA WatchContextStep ==
    ASSUME ReloadInv, WatchContext
    PROVE  ReloadInv'
  <1> USE ReloadAssumption DEF WatchContext, Alive, fileVars, loadVars, managerVars, factVars
  <1>1. TypeOK'
    BY DEF ReloadInv, TypeOK, LoadInv, Budget, MutexInv, GenerationInv, Replacing
  <1>2. LoadInv'
    BY DEF ReloadInv, TypeOK, LoadInv, Budget, Replacing
  <1>3. MutexInv'
    BY DEF ReloadInv, MutexInv, LoadInv, Replacing
  <1>4. GenerationInv'
    BY DEF ReloadInv, TypeOK, LoadInv, MutexInv, GenerationInv, Replacing
  <1>5. RulesInv' /\ FreshInv'
    BY DEF ReloadInv, TypeOK, LoadInv, MutexInv, RulesInv, FreshInv, Replacing
  <1> QED
    BY <1>1, <1>2, <1>3, <1>4, <1>5 DEF ReloadInv

LEMMA OnChangeStep ==
    ASSUME ReloadInv, OnChange
    PROVE  ReloadInv'
  <1> USE ReloadAssumption DEF OnChange, Consumed, Alive, fileVars, loadVars, managerVars, factVars
  <1>1. TypeOK'
    BY DEF ReloadInv, TypeOK, LoadInv, Budget, MutexInv, GenerationInv, Replacing
  <1>2. LoadInv'
    BY DEF ReloadInv, TypeOK, LoadInv, Budget, Replacing
  <1>3. MutexInv'
    BY DEF ReloadInv, MutexInv, LoadInv, Replacing
  <1>4. GenerationInv'
    BY DEF ReloadInv, TypeOK, LoadInv, MutexInv, GenerationInv, Replacing
  <1>5. RulesInv' /\ FreshInv'
    BY DEF ReloadInv, TypeOK, LoadInv, MutexInv, RulesInv, FreshInv, Replacing
  <1> QED
    BY <1>1, <1>2, <1>3, <1>4, <1>5 DEF ReloadInv

LEMMA WatcherEndsStep ==
    ASSUME ReloadInv, WatcherEnds
    PROVE  ReloadInv'
  <1> USE ReloadAssumption DEF WatcherEnds, Alive, fileVars, loadVars, managerVars, factVars
  <1>1. TypeOK'
    BY DEF ReloadInv, TypeOK, LoadInv, Budget, MutexInv, GenerationInv, Replacing
  <1>2. LoadInv'
    BY DEF ReloadInv, TypeOK, LoadInv, Budget, Replacing
  <1>3. MutexInv'
    BY DEF ReloadInv, MutexInv, LoadInv, Replacing
  <1>4. GenerationInv'
    BY DEF ReloadInv, TypeOK, LoadInv, MutexInv, GenerationInv, Replacing
  <1>5. RulesInv' /\ FreshInv'
    BY DEF ReloadInv, TypeOK, LoadInv, MutexInv, RulesInv, FreshInv, Replacing
  <1> QED
    BY <1>1, <1>2, <1>3, <1>4, <1>5 DEF ReloadInv

LEMMA CancelStep ==
    ASSUME ReloadInv, Cancel
    PROVE  ReloadInv'
  <1> USE ReloadAssumption DEF Cancel, Alive, fileVars, loadVars, managerVars, factVars
  <1>1. TypeOK'
    BY DEF ReloadInv, TypeOK, LoadInv, Budget, MutexInv, GenerationInv, Replacing
  <1>2. LoadInv'
    BY DEF ReloadInv, TypeOK, LoadInv, Budget, Replacing
  <1>3. MutexInv'
    BY DEF ReloadInv, MutexInv, LoadInv, Replacing
  <1>4. GenerationInv'
    BY DEF ReloadInv, TypeOK, LoadInv, MutexInv, GenerationInv, Replacing
  <1>5. RulesInv' /\ FreshInv'
    BY DEF ReloadInv, TypeOK, LoadInv, MutexInv, RulesInv, FreshInv, Replacing
  <1> QED
    BY <1>1, <1>2, <1>3, <1>4, <1>5 DEF ReloadInv

LEMMA CloseWatcherStep ==
    ASSUME ReloadInv, CloseWatcher
    PROVE  ReloadInv'
  <1> USE ReloadAssumption DEF CloseWatcher, Alive, fileVars, loadVars, managerVars, factVars
  <1>1. TypeOK'
    BY DEF ReloadInv, TypeOK, LoadInv, Budget, MutexInv, GenerationInv, Replacing
  <1>2. LoadInv'
    BY DEF ReloadInv, TypeOK, LoadInv, Budget, Replacing
  <1>3. MutexInv'
    BY DEF ReloadInv, MutexInv, LoadInv, Replacing
  <1>4. GenerationInv'
    BY DEF ReloadInv, TypeOK, LoadInv, MutexInv, GenerationInv, Replacing
  <1>5. RulesInv' /\ FreshInv'
    BY DEF ReloadInv, TypeOK, LoadInv, MutexInv, RulesInv, FreshInv, Replacing
  <1> QED
    BY <1>1, <1>2, <1>3, <1>4, <1>5 DEF ReloadInv

LEMMA CloseManagerStep ==
    ASSUME ReloadInv, CloseManager
    PROVE  ReloadInv'
  <1> USE ReloadAssumption DEF CloseManager, Alive, fileVars, loadVars, managerVars, factVars
  <1>1. TypeOK'
    BY DEF ReloadInv, TypeOK, LoadInv, Budget, MutexInv, GenerationInv, Replacing
  <1>2. LoadInv'
    BY DEF ReloadInv, TypeOK, LoadInv, Budget, Replacing
  <1>3. MutexInv'
    BY DEF ReloadInv, MutexInv, LoadInv, Replacing
  <1>4. GenerationInv'
    BY DEF ReloadInv, TypeOK, LoadInv, MutexInv, GenerationInv, Replacing
  <1>5. RulesInv' /\ FreshInv'
    BY DEF ReloadInv, TypeOK, LoadInv, MutexInv, RulesInv, FreshInv, Replacing
  <1> QED
    BY <1>1, <1>2, <1>3, <1>4, <1>5 DEF ReloadInv

LEMMA ManagerClosedStep ==
    ASSUME ReloadInv, ManagerClosed
    PROVE  ReloadInv'
  <1> USE ReloadAssumption DEF ManagerClosed, Alive, fileVars, loadVars, managerVars, factVars
  <1>1. TypeOK'
    BY DEF ReloadInv, TypeOK, LoadInv, Budget, MutexInv, GenerationInv, Replacing
  <1>2. LoadInv'
    BY DEF ReloadInv, TypeOK, LoadInv, Budget, Replacing
  <1>3. MutexInv'
    BY DEF ReloadInv, MutexInv, LoadInv, Replacing
  <1>4. GenerationInv'
    BY DEF ReloadInv, TypeOK, LoadInv, MutexInv, GenerationInv, Replacing
  <1>5. RulesInv' /\ FreshInv'
    BY DEF ReloadInv, TypeOK, LoadInv, MutexInv, RulesInv, FreshInv, Replacing
  <1> QED
    BY <1>1, <1>2, <1>3, <1>4, <1>5 DEF ReloadInv

LEMMA ExitStep ==
    ASSUME ReloadInv, Exit
    PROVE  ReloadInv'
  <1> USE ReloadAssumption DEF Exit, Alive, fileVars, loadVars, managerVars, factVars
  <1>1. TypeOK'
    BY DEF ReloadInv, TypeOK, LoadInv, Budget, MutexInv, GenerationInv, Replacing
  <1>2. LoadInv'
    BY DEF ReloadInv, TypeOK, LoadInv, Budget, Replacing
  <1>3. MutexInv'
    BY DEF ReloadInv, MutexInv, LoadInv, Replacing
  <1>4. GenerationInv'
    BY DEF ReloadInv, TypeOK, LoadInv, MutexInv, GenerationInv, Replacing
  <1>5. RulesInv' /\ FreshInv'
    BY DEF ReloadInv, TypeOK, LoadInv, MutexInv, RulesInv, FreshInv, Replacing
  <1> QED
    BY <1>1, <1>2, <1>3, <1>4, <1>5 DEF ReloadInv

LEMMA TakeSnapshotStep ==
    ASSUME ReloadInv, \E f \in Facts : TakeSnapshot(f)
    PROVE  ReloadInv'
  <1> USE ReloadAssumption DEF TakeSnapshot, Alive, fileVars, loadVars, managerVars, factVars
  <1>1. TypeOK'
    BY DEF ReloadInv, TypeOK, LoadInv, Budget, MutexInv, GenerationInv, Replacing
  <1>2. LoadInv'
    BY DEF ReloadInv, TypeOK, LoadInv, Budget, Replacing
  <1>3. MutexInv'
    BY DEF ReloadInv, MutexInv, LoadInv, Replacing
  <1>4. GenerationInv'
    BY DEF ReloadInv, TypeOK, LoadInv, MutexInv, GenerationInv, Replacing
  <1>5. RulesInv' /\ FreshInv'
    BY DEF ReloadInv, TypeOK, LoadInv, MutexInv, RulesInv, FreshInv, Replacing
  <1> QED
    BY <1>1, <1>2, <1>3, <1>4, <1>5 DEF ReloadInv

LEMMA SubmitStep ==
    ASSUME ReloadInv, \E f \in Facts : Submit(f)
    PROVE  ReloadInv'
  <1> USE ReloadAssumption DEF Submit, Alive, fileVars, loadVars, managerVars, factVars
  <1>1. TypeOK'
    BY DEF ReloadInv, TypeOK, LoadInv, Budget, MutexInv, GenerationInv, Replacing
  <1>2. LoadInv'
    BY DEF ReloadInv, TypeOK, LoadInv, Budget, Replacing
  <1>3. MutexInv'
    BY DEF ReloadInv, MutexInv, LoadInv, Replacing
  <1>4. GenerationInv'
    BY DEF ReloadInv, TypeOK, LoadInv, MutexInv, GenerationInv, Replacing
  <1>5. RulesInv' /\ FreshInv'
    BY DEF ReloadInv, TypeOK, LoadInv, MutexInv, RulesInv, FreshInv, Replacing
  <1> QED
    BY <1>1, <1>2, <1>3, <1>4, <1>5 DEF ReloadInv

LEMMA InvStep == ReloadInv /\ [Next]_vars => ReloadInv'
  <1> SUFFICES ASSUME ReloadInv, [Next]_vars PROVE ReloadInv'
    OBVIOUS
  <1>1. CASE UNCHANGED vars
    BY <1>1 DEF ReloadInv, TypeOK, LoadInv, Budget, MutexInv, GenerationInv, RulesInv, FreshInv,
                Replacing, vars, fileVars, loadVars, managerVars, factVars
  <1>2. CASE LoadSnapshot
    BY <1>2, LoadStep, ApplySetStep, PublishStep, SetCurrentStep, RetirePreviousStep,
       EndReplaceStep DEF LoadSnapshot
  <1>3. CASE Shutdown
    BY <1>3, CloseWatcherStep, CloseManagerStep, ManagerClosedStep, ExitStep DEF Shutdown
  <1>4. CASE \E f \in Facts : TakeSnapshot(f) \/ Submit(f)
    BY <1>4, TakeSnapshotStep, SubmitStep
  <1> QED
    BY <1>1, <1>2, <1>3, <1>4, WriteStep, ReplaceFileStep, LoadDoneStep, WatchContextStep,
       OnChangeStep, WatcherEndsStep, CancelStep DEF Next

\* The invariant of loads, generations and rules holds in every reachable state.
THEOREM ReloadSafety == Spec => []ReloadInv
  BY InvInit, InvStep, PTL DEF Spec

\* The published generation is live and no other one is left in service between two calls
\* of the manager; a fact is refused only when a later generation serves, or none.
THEOREM PublishedGenerationIsLive == Spec => []PublishedIsLive
  <1>1. ReloadInv => PublishedIsLive
    <2> SUFFICES ASSUME ReloadInv PROVE PublishedIsLive
      OBVIOUS
    <2> USE DEF ReloadInv, TypeOK, MutexInv, GenerationInv, Replacing
    <2>1. ~closed => snapshot.gen \notin retired
      OBVIOUS
    <2>2. OnlyPublishedServes
      BY DEF OnlyPublishedServes
    <2> QED
      BY <2>1, <2>2 DEF PublishedIsLive
  <1> QED
    BY <1>1, ReloadSafety, PTL

\* At rest the handler's rules are the opener's sources and those of the file.
THEOREM RestIsAlwaysCurrent == Spec => []RestIsCurrent
  <1>1. ReloadInv => RestIsCurrent
    BY DEF ReloadInv, RulesInv, FreshInv, RestIsCurrent
  <1> QED
    BY <1>1, ReloadSafety, PTL
================================================================================
