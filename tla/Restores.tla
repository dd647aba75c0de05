------------------------------ MODULE Restores ------------------------------
(* A backup put in place of the live state (restoreBackup, installRestore, *)
(* restorePostgres and persistence.Copy) once it was extracted and checked *)
(* in staging: files are renamed one by one, the database of a Pro panel   *)
(* is replaced in one transaction, what fails is undone, and the program   *)
(* can be killed at every step and run again.  The panel is stopped, as    *)
(* restoreBackup demands.  Files move in any order where the code has one. *)
EXTENDS Integers

CONSTANT MaxRestores  \* bound: times the program is run

ASSUME RestoresAssumption == MaxRestores \in Nat \ {0}

VARIABLES pro,      \* the panel's data is in PostgreSQL
          live,     \* cfg.StateDir
          database, \* what the PostgreSQL schema holds
          spares,   \* the before-restore directory of each run
          run,      \* the runs begun; the last is under way unless at rest
          before,   \* history: what each run found
          step,     \* where it is
          todo,     \* the files its step has left
          answer,   \* history: what the last run ended with
          unsure    \* history: an undoing failed, or a commit's answer was lost

RestoresVars == <<pro, live, database, spares, run, before, step, todo, answer, unsure>>
HistoryVars == <<pro, run, before>>
-----------------------------------------------------------------------------
(* runtime-mode, runtime-mode.commit and the configurations go the way of  *)
(* master.key.                                                             *)
Installed == {"panel.db", "master.key"}
Logs == {"panel.db-wal"}
RestoredFiles == Installed \union Logs

(* Contents are told apart by where they are from: 0 is the state before   *)
(* any restore, k the backup of run k, NewKey a key made where none was.   *)
Gone == -1
NewKey == -2
Contents == -2 .. MaxRestores
Runs == 1 .. MaxRestores

Trees == [RestoredFiles -> Contents]
NoTree == [n \in RestoredFiles |-> Gone]
States == [live : Trees, database : Contents]

RestoreSteps == {"rest", "snapshot", "copy", "move", "install", "remove", "return",
                 "copyback"}

(* The type invariant of Restores.                                         *)
RestoresTypeOK ==
  /\ pro \in BOOLEAN /\ live \in Trees /\ database \in Contents
  /\ spares \in [Runs -> States] /\ before \in [Runs -> States]
  /\ run \in 0 .. MaxRestores
  /\ step \in RestoreSteps /\ todo \in SUBSET RestoredFiles
  /\ answer \in {"none", "restored", "failed"} /\ unsure \in BOOLEAN

(* A log is left by a panel that was killed; a Pro panel has no panel.db   *)
(* unless a restore left one.                                              *)
RestoresInit ==
  /\ pro \in BOOLEAN
  /\ live \in [RestoredFiles -> {0, Gone}]
  /\ live["master.key"] = 0 /\ (~pro => live["panel.db"] = 0)
  /\ database = IF pro THEN 0 ELSE Gone
  /\ spares = [k \in Runs |-> [live |-> NoTree, database |-> Gone]]
  /\ before = spares
  /\ run = 0 /\ step = "rest" /\ todo = {} /\ answer = "none" /\ unsure = FALSE
-----------------------------------------------------------------------------
PresentIn(tree) == {n \in RestoredFiles : tree[n] # Gone}
MovedAside == PresentIn(spares[run].live)
MovedIn == {n \in Installed : live[n] = run}

(* What installRestore moves aside.                                        *)
(* Mutant: the logs of the database stay where they are.                   *)
AllButLogs(tree) == PresentIn(tree) \ Logs
ToMove(tree) == PresentIn(tree)

Goto(s, files) == step' = s /\ todo' = files /\ UNCHANGED answer
ReturnsWith(a) == step' = "rest" /\ todo' = {} /\ answer' = a

(* openConfiguredStore makes a key where the directory has none.           *)
OpenedTree == IF pro /\ live["master.key"] = Gone
              THEN [live EXCEPT !["master.key"] = NewKey] ELSE live

BeginRestore ==
  /\ step = "rest" /\ run < MaxRestores
  /\ run' = run + 1 /\ answer' = "none"
  /\ live' = OpenedTree
  /\ before' = [before EXCEPT ![run + 1] = [live |-> OpenedTree, database |-> database]]
  /\ step' = IF pro THEN "snapshot" ELSE "move"
  /\ todo' = IF pro THEN {} ELSE ToMove(live)
  /\ UNCHANGED <<pro, database, spares, unsure>>

(* restorePostgres, up to the files.                                       *)
TakeSnapshot(works) ==
  /\ step = "snapshot"
  /\ IF works
     THEN /\ spares' = [spares EXCEPT ![run].database = database]
          /\ Goto("copy", {})
     ELSE ReturnsWith("failed") /\ UNCHANGED spares
  /\ UNCHANGED <<HistoryVars, live, database, unsure>>

(* Copy: one transaction.  That its commit failed may be all one learns of *)
(* a commit that took place.                                               *)
CopyIn(commits, answered) ==
  /\ step = "copy" /\ (answered => commits)
  /\ database' = IF commits THEN run ELSE database
  /\ unsure' = (unsure \/ (commits /\ ~answered))
  /\ IF answered THEN Goto("move", ToMove(live)) ELSE ReturnsWith("failed")
  /\ UNCHANGED <<HistoryVars, live, spares>>
-----------------------------------------------------------------------------
(* installRestore.                                                         *)
MoveAside(n) ==
  /\ step = "move" /\ n \in todo
  /\ live' = [live EXCEPT ![n] = Gone]
  /\ spares' = [spares EXCEPT ![run].live[n] = live[n]]
  /\ Goto(step, todo \ {n})
  /\ UNCHANGED <<HistoryVars, database, unsure>>

AllAside ==
  /\ step = "move" /\ todo = {}
  /\ Goto("install", Installed)
  /\ UNCHANGED <<HistoryVars, live, database, spares, unsure>>

MoveIn(n) ==
  /\ step = "install" /\ n \in todo
  /\ live' = [live EXCEPT ![n] = run]
  /\ Goto(step, todo \ {n})
  /\ UNCHANGED <<HistoryVars, database, spares, unsure>>

AllIn ==
  /\ step = "install" /\ todo = {}
  /\ ReturnsWith("restored")
  /\ UNCHANGED <<HistoryVars, live, database, spares, unsure>>

(* A rename, or the look at a file before it, fails.                       *)
MoveFails ==
  /\ step \in {"move", "install"} /\ todo # {}
  /\ Goto("remove", MovedIn)
  /\ UNCHANGED <<HistoryVars, live, database, spares, unsure>>

(* What is undone; a step of it that fails does not stop the others.       *)
RemoveInstalled(n, works) ==
  /\ step = "remove" /\ n \in todo
  /\ live' = IF works THEN [live EXCEPT ![n] = Gone] ELSE live
  /\ unsure' = (unsure \/ ~works)
  /\ Goto(step, todo \ {n})
  /\ UNCHANGED <<HistoryVars, database, spares>>

AllRemoved ==
  /\ step = "remove" /\ todo = {}
  /\ Goto("return", MovedAside)
  /\ UNCHANGED <<HistoryVars, live, database, spares, unsure>>

MoveBack(n, works) ==
  /\ step = "return" /\ n \in todo
  /\ IF works
     THEN /\ live' = [live EXCEPT ![n] = spares[run].live[n]]
          /\ spares' = [spares EXCEPT ![run].live[n] = Gone]
     ELSE UNCHANGED <<live, spares>>
  /\ unsure' = (unsure \/ ~works)
  /\ Goto(step, todo \ {n})
  /\ UNCHANGED <<HistoryVars, database>>

AllBack ==
  /\ step = "return" /\ todo = {}
  /\ IF pro THEN Goto("copyback", {}) ELSE ReturnsWith("failed")
  /\ UNCHANGED <<HistoryVars, live, database, spares, unsure>>

(* restorePostgres copies the snapshot back.                               *)
CopyBack(works) ==
  /\ step = "copyback"
  /\ database' = IF works THEN spares[run].database ELSE database
  /\ unsure' = (unsure \/ ~works)
  /\ ReturnsWith("failed")
  /\ UNCHANGED <<HistoryVars, live, spares>>

(* Power is lost, or the program is killed; nothing looks for a half-done  *)
(* restore later.                                                          *)
RestoreDies ==
  /\ step # "rest"
  /\ ReturnsWith("none")
  /\ UNCHANGED <<HistoryVars, live, database, spares, unsure>>

RestoresNext ==
  \/ BeginRestore \/ AllAside \/ AllIn \/ MoveFails \/ AllRemoved \/ AllBack
  \/ RestoreDies
  \/ \E works \in BOOLEAN :
       TakeSnapshot(works) \/ CopyBack(works) \/ \E commits \in BOOLEAN : CopyIn(commits, works)
  \/ \E n \in RestoredFiles :
       MoveAside(n) \/ MoveIn(n)
         \/ \E works \in BOOLEAN : RemoveInstalled(n, works) \/ MoveBack(n, works)

RestoresSpec == RestoresInit /\ [][RestoresNext]_RestoresVars
-----------------------------------------------------------------------------
(* What a run found is somewhere still, live or aside, for as long as it   *)
(* takes to be recovered by hand.                                          *)
StillKept(state) ==
  /\ \A n \in PresentIn(state.live) :
       \/ live[n] = state.live[n]
       \/ \E k \in Runs : spares[k].live[n] = state.live[n]
  /\ state.database = Gone \/ database = state.database
       \/ \E k \in Runs : spares[k].database = state.database

(* backup.go, above prepareRestore and installRestore, and ARCHITECTURE.md: *)
(* a restore that succeeds leaves the backup, its key, no log of another   *)
(* database and, on a Pro panel, the backup's data; one that returns an    *)
(* error leaves what it found.  Killed where it may be, and run again, it  *)
(* loses nothing that any run found and never puts a database beside the   *)
(* log of another.                                                         *)
RestoreIsWhole ==
  /\ answer = "restored" =>
       /\ \A n \in Installed : live[n] = run
       /\ \A n \in Logs : live[n] = Gone
       /\ pro => database = run
  /\ answer = "failed" /\ ~unsure =>
       live = before[run].live /\ database = before[run].database
  /\ \A k \in 1 .. run : StillKept(before[k])
  /\ ~unsure => \A n \in Logs : \/ live[n] = Gone \/ live["panel.db"] = Gone
                                \/ live[n] = live["panel.db"]
=============================================================================
