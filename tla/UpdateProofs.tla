---------------------------- MODULE UpdateProofs ----------------------------
(***************************************************************************)
(* What holds of Update for any number of runs and any releases.           *)
(*                                                                         *)
(* The argument: a file gets the target's name, or a set-aside one, only   *)
(* once it is whole and on the disk.  Off Windows one always has the       *)
(* target's.  On Windows a run that sweeps still runs from a file with     *)
(* such a name, which it cannot delete.                                    *)
(***************************************************************************)
EXTENDS Update, WellFoundedInduction, SequenceTheorems, TLAPS

(* What each step of an update has behind it.                              *)
Phases ==
  \A p \in Runs :
    /\ pc[p] \in {"off", "started", "verify", "write"} => place[p] = "nowhere"
    /\ pc[p] \in {"writing", "rename", "setAside", "moveIn", "moveBack", "discard"}
         => place[p] = "temp"
    /\ pc[p] \in {"write", "writing"} => archive[p] \in Contents
    /\ pc[p] \in {"rename", "setAside", "moveIn", "moveBack", "syncDir"}
         => p \in synced /\ binary[p] = archive[p] /\ archive[p] \in Contents
    /\ pc[p] = "done" /\ told[p] = "applied" => binary[p] = archive[p]
    /\ pc[p] \in {"rename", "syncDir"} => system = "other"
    /\ pc[p] \in {"setAside", "moveIn", "moveBack"} => system = "windows"
    /\ pc[p] \in {"moveIn", "moveBack"} => aside[p] \in Files

(* The files that have the target's name or were set aside.                *)
Held ==
  /\ \A f \in Files : place[f] \in {"target"} \cup Runs => binary[f] # None /\ f \in synced
  /\ \A f, g \in Files : place[f] = "target" /\ place[g] = "target" => f = g
  /\ system = "other" =>
       /\ binary[durable] # None /\ durable \in synced
       /\ \E f \in Files : place[f] = "target"

(* A set-aside name is of one file, and of a run that may yet need it.     *)
Asides ==
  \A f \in Files, p \in Runs : place[f] = p =>
    /\ system = "windows" /\ aside[p] = f /\ told[p] # "failed"
    /\ pc[p] \in {"moveIn", "moveBack", "discard", "done", "exited", "killed"}

(* A file that has, or had, the target's name was moved in by its update.  *)
MovedIn(p) == told[p] = "applied" \/ pc[p] \in {"syncDir", "killed"}
MovedInBefore ==
  \A p \in Runs :
    place[p] \in {"target"} \cup Runs \/ durable = p \/ (\E q \in Runs : image[q] = p)
      => MovedIn(p)

(* A run tells something once it is about to end.                          *)
Telling ==
  \A p \in Runs :
    /\ pc[p] \notin {"discard", "done", "exited", "killed"} => told[p] = "nothing"
    /\ pc[p] = "discard" => told[p] \in {"failed", "restore"}

(* On Windows, the file a run was started from keeps a name.               *)
Images ==
  \A p \in Runs : Alive(p) =>
    /\ image[p] \in Files
    /\ system = "windows" => place[image[p]] \in {"target"} \cup Runs

(* What an update installs, and that it was newer than the update itself.  *)
Offers ==
  \A p \in Runs :
    /\ pc[p] \in {"write", "writing", "rename", "setAside", "moveIn", "moveBack", "syncDir"}
       \/ (pc[p] = "done" /\ told[p] = "applied")
         => /\ ~skip => archive[p] = offered[p]
            /\ p \notin DryRuns
    /\ pc[p] \in {"verify", "write", "writing", "rename", "setAside", "moveIn", "moveBack",
                  "syncDir"}
       \/ (pc[p] = "done" /\ told[p] = "applied")
         => /\ p \in DryRuns \/ isUpdateAvailable(binary[image[p]], offered[p])
            /\ offered[p] \in Releases
    /\ Alive(p) => binary[image[p]] \in Releases \cup Installed

IInv ==
  /\ TypeOK /\ Phases /\ Held /\ Asides /\ MovedInBefore /\ Telling /\ Images
  /\ FailureUndoesItself /\ AlwaysABinary /\ Offers

----------------------------------------------------------------------------
(* Every step keeps each part.                                             *)

LEMMA TypeOKStep ==
  ASSUME IInv, [Next]_vars
  PROVE  TypeOK'
<1>. USE UpdateAssumption DEF IInv, TypeOK, Files, Contents, Steps, Ended
<1>1. ASSUME NEW p \in Runs, Run(p) PROVE TypeOK'
  <2>1. CASE Start(p)
    BY <2>1 DEF Start, directory, update, sweep, Goto, AtTarget
  <2>2. CASE ListLeftovers(p)
    BY <2>2 DEF ListLeftovers, directory, update, sweep, Alive, SetAsideNames
  <2>3. CASE RemoveLeftover(p)
    BY <2>3 DEF RemoveLeftover, directory, update, sweep, Alive, RunFrom
  <2>4. CASE Latest(p)
    BY <2>4 DEF Latest, directory, update, sweep, Goto, Tell
  <2>5. CASE VerifyRelease(p)
    BY <2>5 DEF VerifyRelease, directory, update, sweep, Goto, Tell, ChecksumMatches, Manifests
  <2>6. CASE RunFails(p)
    BY <2>6 DEF RunFails, directory, update, sweep, Goto, Tell
  <2>7. CASE CreateTemp(p)
    BY <2>7 DEF CreateTemp, directory, update, sweep, Goto
  <2>8. CASE WriteBeside(p)
    BY <2>8 DEF WriteBeside, directory, update, sweep, Goto, Abandon
  <2>9. CASE RenameOver(p)
    BY <2>9 DEF RenameOver, directory, update, sweep, Goto, Abandon, Onto, AtTarget
  <2>10. CASE SyncDir(p)
    BY <2>10 DEF SyncDir, directory, update, sweep, Goto, Tell, AtTarget
  <2>11. CASE SetAside(p)
    BY <2>11 DEF SetAside, directory, update, sweep, Goto, Abandon, AtTarget
  <2>12. CASE MoveIn(p)
    BY <2>12 DEF MoveIn, directory, update, sweep, Goto, Tell, Onto, AtTarget, RunFrom, Alive
  <2>13. CASE MoveBack(p)
    BY <2>13 DEF MoveBack, directory, update, sweep, Goto, Abandon, Onto, AtTarget, RunFrom, Alive
  <2>14. CASE Discard(p)
    <3>1. CASE place' = [place EXCEPT ![p] = "gone"] /\ UNCHANGED named
      BY <2>14, <3>1 DEF Discard, sweep, Goto
    <3>2. CASE named' = [named EXCEPT ![p] = TRUE] /\ UNCHANGED place
      BY <2>14, <3>2 DEF Discard, sweep, Goto
    <3>. QED
      BY <2>14, <3>1, <3>2 DEF Discard
  <2>15. CASE Exit(p)
    BY <2>15 DEF Exit, directory, update, sweep, Goto, End
  <2>16. CASE Kill(p)
    BY <2>16 DEF Kill, directory, update, sweep, Goto, Alive, End
  <2>. QED
    BY <1>1, <2>1, <2>2, <2>3, <2>4, <2>5, <2>6, <2>7, <2>8, <2>9, <2>10, <2>11, <2>12, <2>13,
       <2>14, <2>15, <2>16 DEF Run
<1>2. CASE PowerLoss
  BY <1>2 DEF PowerLoss, End, AtTarget, Alive
<1>3. CASE UNCHANGED vars
  BY <1>3 DEF vars, directory, update, sweep
<1>. QED
  BY <1>1, <1>2, <1>3 DEF Next

LEMMA PhasesStep ==
  ASSUME IInv, [Next]_vars
  PROVE  Phases'
<1>. USE UpdateAssumption DEF IInv, Phases, Files, Contents, Ended, Steps
<1>1. ASSUME NEW p \in Runs, Run(p) PROVE Phases'
  <2>1. CASE Start(p)
    BY <2>1 DEF Start, directory, update, sweep, Goto, AtTarget, TypeOK, Held, Asides,
       MovedInBefore, Telling
  <2>2. CASE ListLeftovers(p)
    BY <2>2 DEF ListLeftovers, directory, update, sweep, Alive, SetAsideNames, TypeOK, Held,
       Asides, MovedInBefore, Telling
  <2>3. CASE RemoveLeftover(p)
    BY <2>3 DEF RemoveLeftover, directory, update, sweep, Alive, RunFrom, TypeOK, Held, Asides,
       MovedInBefore, Telling
  <2>4. CASE Latest(p)
    BY <2>4 DEF Latest, directory, update, sweep, Goto, Tell, TypeOK, Held, Asides,
       MovedInBefore, Telling
  <2>5. CASE VerifyRelease(p)
    BY <2>5 DEF VerifyRelease, directory, update, sweep, Goto, Tell, ChecksumMatches, Manifests,
       TypeOK, Held, Asides, MovedInBefore, Telling
  <2>6. CASE RunFails(p)
    BY <2>6 DEF RunFails, directory, update, sweep, Goto, Tell, TypeOK, Held, Asides,
       MovedInBefore, Telling
  <2>7. CASE CreateTemp(p)
    BY <2>7 DEF CreateTemp, directory, update, sweep, Goto, TypeOK, Held, Asides, MovedInBefore,
       Telling
  <2>8. CASE WriteBeside(p)
    BY <2>8 DEF WriteBeside, directory, update, sweep, Goto, Abandon, TypeOK, Held, Asides,
       MovedInBefore, Telling
  <2>9. CASE RenameOver(p)
    BY <2>9 DEF RenameOver, directory, update, sweep, Goto, Abandon, Onto, AtTarget, TypeOK,
       Held, Asides, MovedInBefore, Telling
  <2>10. CASE SyncDir(p)
    BY <2>10 DEF SyncDir, directory, update, sweep, Goto, Tell, AtTarget, TypeOK, Held, Asides,
       MovedInBefore, Telling
  <2>11. CASE SetAside(p)
    BY <2>11 DEF SetAside, directory, update, sweep, Goto, Abandon, AtTarget, TypeOK, Held,
       Asides, MovedInBefore, Telling
  <2>12. CASE MoveIn(p)
    BY <2>12 DEF MoveIn, directory, update, sweep, Goto, Tell, Onto, AtTarget, RunFrom, Alive,
       TypeOK, Held, Asides, MovedInBefore, Telling
  <2>13. CASE MoveBack(p)
    BY <2>13 DEF MoveBack, directory, update, sweep, Goto, Abandon, Onto, AtTarget, RunFrom,
       Alive, TypeOK, Held, Asides, MovedInBefore, Telling
  <2>14. CASE Discard(p)
    BY <2>14 DEF Discard, directory, update, sweep, Goto, TypeOK, Held, Asides, MovedInBefore,
       Telling
  <2>15. CASE Exit(p)
    BY <2>15 DEF Exit, directory, update, sweep, Goto, End, TypeOK, Held, Asides, MovedInBefore,
       Telling
  <2>16. CASE Kill(p)
    BY <2>16 DEF Kill, directory, update, sweep, Goto, Alive, End, TypeOK, Held, Asides,
       MovedInBefore, Telling
  <2>. QED
    BY <1>1, <2>1, <2>2, <2>3, <2>4, <2>5, <2>6, <2>7, <2>8, <2>9, <2>10, <2>11, <2>12, <2>13,
       <2>14, <2>15, <2>16 DEF Run
<1>2. CASE PowerLoss
  BY <1>2 DEF PowerLoss, End, AtTarget, Alive, TypeOK, Held, Asides, MovedInBefore, Telling,
     MovedIn
<1>3. CASE UNCHANGED vars
  BY <1>3 DEF vars, directory, update, sweep, TypeOK, Held, Asides, MovedInBefore, Telling
<1>. QED
  BY <1>1, <1>2, <1>3 DEF Next

LEMMA HeldStep ==
  ASSUME IInv, [Next]_vars
  PROVE  Held'
<1>. USE UpdateAssumption DEF IInv, Held, Files, Contents, Whole, AtTarget, Alive, Ended
<1>1. ASSUME NEW p \in Runs, Run(p) PROVE Held'
  <2>1. CASE Start(p)
    BY <2>1 DEF Start, directory, update, sweep, Goto, TypeOK, Phases, Asides, MovedInBefore,
       MovedIn
  <2>2. CASE ListLeftovers(p)
    BY <2>2 DEF ListLeftovers, directory, update, sweep, SetAsideNames, TypeOK, Phases, Asides,
       MovedInBefore, MovedIn
  <2>3. CASE RemoveLeftover(p)
    BY <2>3 DEF RemoveLeftover, directory, update, sweep, RunFrom, TypeOK, Phases, Asides,
       MovedInBefore, MovedIn
  <2>4. CASE Latest(p)
    BY <2>4 DEF Latest, directory, update, sweep, Goto, Tell, TypeOK, Phases, Asides,
       MovedInBefore, MovedIn
  <2>5. CASE VerifyRelease(p)
    BY <2>5 DEF VerifyRelease, directory, update, sweep, Goto, Tell, ChecksumMatches, Manifests,
       TypeOK, Phases, Asides, MovedInBefore, MovedIn
  <2>6. CASE RunFails(p)
    BY <2>6 DEF RunFails, directory, update, sweep, Goto, Tell, TypeOK, Phases, Asides,
       MovedInBefore, MovedIn
  <2>7. CASE CreateTemp(p)
    BY <2>7 DEF CreateTemp, directory, update, sweep, Goto, TypeOK, Phases, Asides,
       MovedInBefore, MovedIn
  <2>8. CASE WriteBeside(p)
    BY <2>8 DEF WriteBeside, directory, update, sweep, Goto, Abandon, TypeOK, Phases, Asides,
       MovedInBefore, MovedIn
  <2>9. CASE RenameOver(p)
    BY <2>9 DEF RenameOver, directory, update, sweep, Goto, Abandon, Onto, TypeOK, Phases,
       Asides, MovedInBefore, MovedIn
  <2>10. CASE SyncDir(p)
    BY <2>10 DEF SyncDir, directory, update, sweep, Goto, Tell, TypeOK, Phases, Asides,
       MovedInBefore, MovedIn
  <2>11. CASE SetAside(p)
    BY <2>11 DEF SetAside, directory, update, sweep, Goto, Abandon, TypeOK, Phases, Asides,
       MovedInBefore, MovedIn
  <2>12. CASE MoveIn(p)
    BY <2>12 DEF MoveIn, directory, update, sweep, Goto, Tell, Onto, RunFrom, TypeOK, Phases,
       Asides, MovedInBefore, MovedIn
  <2>13. CASE MoveBack(p)
    BY <2>13 DEF MoveBack, directory, update, sweep, Goto, Abandon, Onto, RunFrom, TypeOK,
       Phases, Asides, MovedInBefore, MovedIn
  <2>14. CASE Discard(p)
    BY <2>14 DEF Discard, directory, update, sweep, Goto, TypeOK, Phases, Asides, MovedInBefore,
       MovedIn
  <2>15. CASE Exit(p)
    BY <2>15 DEF Exit, directory, update, sweep, Goto, End, TypeOK, Phases, Asides,
       MovedInBefore, MovedIn
  <2>16. CASE Kill(p)
    BY <2>16 DEF Kill, directory, update, sweep, Goto, End, TypeOK, Phases, Asides,
       MovedInBefore, MovedIn
  <2>. QED
    BY <1>1, <2>1, <2>2, <2>3, <2>4, <2>5, <2>6, <2>7, <2>8, <2>9, <2>10, <2>11, <2>12, <2>13,
       <2>14, <2>15, <2>16 DEF Run
<1>2. CASE PowerLoss
  BY <1>2 DEF PowerLoss, End, TypeOK, Phases, Asides, MovedInBefore, MovedIn
<1>3. CASE UNCHANGED vars
  BY <1>3 DEF vars, directory, update, sweep, TypeOK, Phases, Asides, MovedInBefore, MovedIn
<1>. QED
  BY <1>1, <1>2, <1>3 DEF Next

LEMMA AsidesStep ==
  ASSUME IInv, [Next]_vars
  PROVE  Asides'
<1>. USE UpdateAssumption DEF IInv, Asides, Files, Contents
<1>1. ASSUME NEW p \in Runs, Run(p) PROVE Asides'
  <2>1. CASE Start(p)
    BY <2>1 DEF Start, directory, update, sweep, Goto, AtTarget, TypeOK, Phases, Held, Telling
  <2>2. CASE ListLeftovers(p)
    BY <2>2 DEF ListLeftovers, directory, update, sweep, Alive, Ended, SetAsideNames, TypeOK,
       Phases, Held, Telling
  <2>3. CASE RemoveLeftover(p)
    BY <2>3 DEF RemoveLeftover, directory, update, sweep, Alive, Ended, RunFrom, TypeOK, Phases,
       Held, Telling
  <2>4. CASE Latest(p)
    BY <2>4 DEF Latest, directory, update, sweep, Goto, Tell, TypeOK, Phases, Held, Telling
  <2>5. CASE VerifyRelease(p)
    BY <2>5 DEF VerifyRelease, directory, update, sweep, Goto, Tell, ChecksumMatches, Manifests,
       TypeOK, Phases, Held, Telling
  <2>6. CASE RunFails(p)
    BY <2>6 DEF RunFails, directory, update, sweep, Goto, Tell, TypeOK, Phases, Held, Telling
  <2>7. CASE CreateTemp(p)
    BY <2>7 DEF CreateTemp, directory, update, sweep, Goto, TypeOK, Phases, Held, Telling
  <2>8. CASE WriteBeside(p)
    BY <2>8 DEF WriteBeside, directory, update, sweep, Goto, Abandon, TypeOK, Phases, Held,
       Telling
  <2>9. CASE RenameOver(p)
    BY <2>9 DEF RenameOver, directory, update, sweep, Goto, Abandon, Onto, AtTarget, TypeOK,
       Phases, Held, Telling
  <2>10. CASE SyncDir(p)
    BY <2>10 DEF SyncDir, directory, update, sweep, Goto, Tell, AtTarget, TypeOK, Phases, Held,
       Telling
  <2>11. CASE SetAside(p)
    BY <2>11 DEF SetAside, directory, update, sweep, Goto, Abandon, AtTarget, TypeOK, Phases,
       Held, Telling
  <2>12. CASE MoveIn(p)
    BY <2>12 DEF MoveIn, directory, update, sweep, Goto, Tell, Onto, AtTarget, RunFrom, Alive,
       Ended, TypeOK, Phases, Held, Telling
  <2>13. CASE MoveBack(p)
    BY <2>13 DEF MoveBack, directory, update, sweep, Goto, Abandon, Onto, AtTarget, RunFrom,
       Alive, Ended, TypeOK, Phases, Held, Telling
  <2>14. CASE Discard(p)
    BY <2>14 DEF Discard, directory, update, sweep, Goto, TypeOK, Phases, Held, Telling
  <2>15. CASE Exit(p)
    BY <2>15 DEF Exit, directory, update, sweep, Goto, End, TypeOK, Phases, Held, Telling
  <2>16. CASE Kill(p)
    BY <2>16 DEF Kill, directory, update, sweep, Goto, Alive, Ended, End, TypeOK, Phases, Held,
       Telling
  <2>. QED
    BY <1>1, <2>1, <2>2, <2>3, <2>4, <2>5, <2>6, <2>7, <2>8, <2>9, <2>10, <2>11, <2>12, <2>13,
       <2>14, <2>15, <2>16 DEF Run
<1>2. CASE PowerLoss
  BY <1>2 DEF PowerLoss, End, AtTarget, Alive, Ended, TypeOK, Phases, Held, Telling
<1>3. CASE UNCHANGED vars
  BY <1>3 DEF vars, directory, update, sweep, TypeOK, Phases, Held, Telling
<1>. QED
  BY <1>1, <1>2, <1>3 DEF Next

LEMMA MovedInBeforeStep ==
  ASSUME IInv, [Next]_vars
  PROVE  MovedInBefore'
<1>. USE UpdateAssumption DEF IInv, MovedInBefore, MovedIn, Files
<1>1. ASSUME NEW p \in Runs, Run(p) PROVE MovedInBefore'
  <2>1. CASE Start(p)
    BY <2>1 DEF Start, directory, update, sweep, Goto, AtTarget, TypeOK, Phases, Telling, Asides
  <2>2. CASE ListLeftovers(p)
    BY <2>2 DEF ListLeftovers, directory, update, sweep, Alive, Ended, SetAsideNames, TypeOK,
       Phases, Telling, Asides
  <2>3. CASE RemoveLeftover(p)
    BY <2>3 DEF RemoveLeftover, directory, update, sweep, Alive, Ended, RunFrom, TypeOK, Phases,
       Telling, Asides
  <2>4. CASE Latest(p)
    BY <2>4 DEF Latest, directory, update, sweep, Goto, Tell, TypeOK, Phases, Telling, Asides
  <2>5. CASE VerifyRelease(p)
    BY <2>5 DEF VerifyRelease, directory, update, sweep, Goto, Tell, ChecksumMatches, Manifests,
       Contents, TypeOK, Phases, Telling, Asides
  <2>6. CASE RunFails(p)
    BY <2>6 DEF RunFails, directory, update, sweep, Goto, Tell, TypeOK, Phases, Telling, Asides
  <2>7. CASE CreateTemp(p)
    BY <2>7 DEF CreateTemp, directory, update, sweep, Goto, TypeOK, Phases, Telling, Asides
  <2>8. CASE WriteBeside(p)
    BY <2>8 DEF WriteBeside, directory, update, sweep, Goto, Abandon, TypeOK, Phases, Telling,
       Asides
  <2>9. CASE RenameOver(p)
    BY <2>9 DEF RenameOver, directory, update, sweep, Goto, Abandon, Onto, AtTarget, TypeOK,
       Phases, Telling, Asides
  <2>10. CASE SyncDir(p)
    BY <2>10 DEF SyncDir, directory, update, sweep, Goto, Tell, AtTarget, TypeOK, Phases,
       Telling, Asides
  <2>11. CASE SetAside(p)
    BY <2>11 DEF SetAside, directory, update, sweep, Goto, Abandon, AtTarget, TypeOK, Phases,
       Telling, Asides
  <2>12. CASE MoveIn(p)
    BY <2>12 DEF MoveIn, directory, update, sweep, Goto, Tell, Onto, AtTarget, RunFrom, Alive,
       Ended, TypeOK, Phases, Telling, Asides
  <2>13. CASE MoveBack(p)
    BY <2>13 DEF MoveBack, directory, update, sweep, Goto, Abandon, Onto, AtTarget, RunFrom,
       Alive, Ended, TypeOK, Phases, Telling, Asides
  <2>14. CASE Discard(p)
    BY <2>14 DEF Discard, directory, update, sweep, Goto, TypeOK, Phases, Telling, Asides
  <2>15. CASE Exit(p)
    BY <2>15 DEF Exit, directory, update, sweep, Goto, End, TypeOK, Phases, Telling, Asides
  <2>16. CASE Kill(p)
    BY <2>16 DEF Kill, directory, update, sweep, Goto, Alive, Ended, End, TypeOK, Phases,
       Telling, Asides
  <2>. QED
    BY <1>1, <2>1, <2>2, <2>3, <2>4, <2>5, <2>6, <2>7, <2>8, <2>9, <2>10, <2>11, <2>12, <2>13,
       <2>14, <2>15, <2>16 DEF Run
<1>2. CASE PowerLoss
  BY <1>2 DEF PowerLoss, End, AtTarget, Alive, Ended, TypeOK, Phases, Telling, Asides
<1>3. CASE UNCHANGED vars
  BY <1>3 DEF vars, directory, update, sweep, TypeOK, Phases, Telling, Asides
<1>. QED
  BY <1>1, <1>2, <1>3 DEF Next

LEMMA TellingStep ==
  ASSUME IInv, [Next]_vars
  PROVE  Telling'
<1>. USE UpdateAssumption DEF IInv, Telling
<1>1. ASSUME NEW p \in Runs, Run(p) PROVE Telling'
  <2>1. CASE Start(p)
    BY <2>1 DEF Start, directory, update, sweep, Goto, AtTarget, TypeOK, Phases
  <2>2. CASE ListLeftovers(p)
    BY <2>2 DEF ListLeftovers, directory, update, sweep, Alive, Ended, SetAsideNames, TypeOK,
       Phases
  <2>3. CASE RemoveLeftover(p)
    BY <2>3 DEF RemoveLeftover, directory, update, sweep, Alive, Ended, RunFrom, TypeOK, Phases
  <2>4. CASE Latest(p)
    BY <2>4 DEF Latest, directory, update, sweep, Goto, Tell, TypeOK, Phases
  <2>5. CASE VerifyRelease(p)
    BY <2>5 DEF VerifyRelease, directory, update, sweep, Goto, Tell, ChecksumMatches, Manifests,
       Contents, TypeOK, Phases
  <2>6. CASE RunFails(p)
    BY <2>6 DEF RunFails, directory, update, sweep, Goto, Tell, TypeOK, Phases
  <2>7. CASE CreateTemp(p)
    BY <2>7 DEF CreateTemp, directory, update, sweep, Goto, TypeOK, Phases
  <2>8. CASE WriteBeside(p)
    BY <2>8 DEF WriteBeside, directory, update, sweep, Goto, Abandon, TypeOK, Phases
  <2>9. CASE RenameOver(p)
    BY <2>9 DEF RenameOver, directory, update, sweep, Goto, Abandon, Onto, AtTarget, TypeOK,
       Phases
  <2>10. CASE SyncDir(p)
    BY <2>10 DEF SyncDir, directory, update, sweep, Goto, Tell, AtTarget, TypeOK, Phases
  <2>11. CASE SetAside(p)
    BY <2>11 DEF SetAside, directory, update, sweep, Goto, Abandon, AtTarget, TypeOK, Phases
  <2>12. CASE MoveIn(p)
    BY <2>12 DEF MoveIn, directory, update, sweep, Goto, Tell, Onto, AtTarget, RunFrom, Alive,
       Ended, TypeOK, Phases
  <2>13. CASE MoveBack(p)
    BY <2>13 DEF MoveBack, directory, update, sweep, Goto, Abandon, Onto, AtTarget, RunFrom,
       Alive, Ended, TypeOK, Phases
  <2>14. CASE Discard(p)
    BY <2>14 DEF Discard, directory, update, sweep, Goto, TypeOK, Phases
  <2>15. CASE Exit(p)
    BY <2>15 DEF Exit, directory, update, sweep, Goto, End, TypeOK, Phases
  <2>16. CASE Kill(p)
    BY <2>16 DEF Kill, directory, update, sweep, Goto, Alive, Ended, End, TypeOK, Phases
  <2>. QED
    BY <1>1, <2>1, <2>2, <2>3, <2>4, <2>5, <2>6, <2>7, <2>8, <2>9, <2>10, <2>11, <2>12, <2>13,
       <2>14, <2>15, <2>16 DEF Run
<1>2. CASE PowerLoss
  BY <1>2 DEF PowerLoss, End, AtTarget, Alive, Ended, TypeOK, Phases
<1>3. CASE UNCHANGED vars
  BY <1>3 DEF vars, directory, update, sweep, TypeOK, Phases
<1>. QED
  BY <1>1, <1>2, <1>3 DEF Next

LEMMA ImagesStep ==
  ASSUME IInv, [Next]_vars
  PROVE  Images'
<1>. USE UpdateAssumption DEF IInv, Images, Alive, Ended, Files
<1>1. ASSUME NEW p \in Runs, Run(p) PROVE Images'
  <2>1. CASE Start(p)
    BY <2>1 DEF Start, directory, update, sweep, Goto, AtTarget, TypeOK, Phases, Held
  <2>2. CASE ListLeftovers(p)
    BY <2>2 DEF ListLeftovers, directory, update, sweep, SetAsideNames, TypeOK, Phases, Held
  <2>3. CASE RemoveLeftover(p)
    BY <2>3 DEF RemoveLeftover, directory, update, sweep, RunFrom, TypeOK, Phases, Held
  <2>4. CASE Latest(p)
    BY <2>4 DEF Latest, directory, update, sweep, Goto, Tell, TypeOK, Phases, Held
  <2>5. CASE VerifyRelease(p)
    BY <2>5 DEF VerifyRelease, directory, update, sweep, Goto, Tell, ChecksumMatches, Manifests,
       Contents, TypeOK, Phases, Held
  <2>6. CASE RunFails(p)
    BY <2>6 DEF RunFails, directory, update, sweep, Goto, Tell, TypeOK, Phases, Held
  <2>7. CASE CreateTemp(p)
    BY <2>7 DEF CreateTemp, directory, update, sweep, Goto, TypeOK, Phases, Held
  <2>8. CASE WriteBeside(p)
    BY <2>8 DEF WriteBeside, directory, update, sweep, Goto, Abandon, TypeOK, Phases, Held
  <2>9. CASE RenameOver(p)
    BY <2>9 DEF RenameOver, directory, update, sweep, Goto, Abandon, Onto, AtTarget, TypeOK,
       Phases, Held
  <2>10. CASE SyncDir(p)
    BY <2>10 DEF SyncDir, directory, update, sweep, Goto, Tell, AtTarget, TypeOK, Phases, Held
  <2>11. CASE SetAside(p)
    BY <2>11 DEF SetAside, directory, update, sweep, Goto, Abandon, AtTarget, TypeOK, Phases, Held
  <2>12. CASE MoveIn(p)
    BY <2>12 DEF MoveIn, directory, update, sweep, Goto, Tell, Onto, AtTarget, RunFrom, TypeOK,
       Phases, Held
  <2>13. CASE MoveBack(p)
    BY <2>13 DEF MoveBack, directory, update, sweep, Goto, Abandon, Onto, AtTarget, RunFrom,
       TypeOK, Phases, Held
  <2>14. CASE Discard(p)
    BY <2>14 DEF Discard, directory, update, sweep, Goto, TypeOK, Phases, Held
  <2>15. CASE Exit(p)
    BY <2>15 DEF Exit, directory, update, sweep, Goto, End, TypeOK, Phases, Held
  <2>16. CASE Kill(p)
    BY <2>16 DEF Kill, directory, update, sweep, Goto, End, TypeOK, Phases, Held
  <2>. QED
    BY <1>1, <2>1, <2>2, <2>3, <2>4, <2>5, <2>6, <2>7, <2>8, <2>9, <2>10, <2>11, <2>12, <2>13,
       <2>14, <2>15, <2>16 DEF Run
<1>2. CASE PowerLoss
  BY <1>2 DEF PowerLoss, End, AtTarget, TypeOK, Phases, Held
<1>3. CASE UNCHANGED vars
  BY <1>3 DEF vars, directory, update, sweep, TypeOK, Phases, Held
<1>. QED
  BY <1>1, <1>2, <1>3 DEF Next

LEMMA FailureUndoesItselfStep ==
  ASSUME IInv, [Next]_vars
  PROVE  FailureUndoesItself'
<1>. USE UpdateAssumption DEF IInv, FailureUndoesItself, SetAsideNames, Files
<1>1. ASSUME NEW p \in Runs, Run(p) PROVE FailureUndoesItself'
  <2>1. CASE Start(p)
    BY <2>1 DEF Start, directory, update, sweep, Goto, AtTarget, TypeOK, Phases, Asides,
       MovedInBefore, MovedIn, Telling, Held
  <2>2. CASE ListLeftovers(p)
    BY <2>2 DEF ListLeftovers, directory, update, sweep, Alive, Ended, TypeOK, Phases, Asides,
       MovedInBefore, MovedIn, Telling, Held
  <2>3. CASE RemoveLeftover(p)
    BY <2>3 DEF RemoveLeftover, directory, update, sweep, Alive, Ended, RunFrom, TypeOK, Phases,
       Asides, MovedInBefore, MovedIn, Telling, Held
  <2>4. CASE Latest(p)
    BY <2>4 DEF Latest, directory, update, sweep, Goto, Tell, TypeOK, Phases, Asides,
       MovedInBefore, MovedIn, Telling, Held
  <2>5. CASE VerifyRelease(p)
    BY <2>5 DEF VerifyRelease, directory, update, sweep, Goto, Tell, ChecksumMatches, Manifests,
       Contents, TypeOK, Phases, Asides, MovedInBefore, MovedIn, Telling, Held
  <2>6. CASE RunFails(p)
    BY <2>6 DEF RunFails, directory, update, sweep, Goto, Tell, TypeOK, Phases, Asides,
       MovedInBefore, MovedIn, Telling, Held
  <2>7. CASE CreateTemp(p)
    BY <2>7 DEF CreateTemp, directory, update, sweep, Goto, TypeOK, Phases, Asides,
       MovedInBefore, MovedIn, Telling, Held
  <2>8. CASE WriteBeside(p)
    BY <2>8 DEF WriteBeside, directory, update, sweep, Goto, Abandon, TypeOK, Phases, Asides,
       MovedInBefore, MovedIn, Telling, Held
  <2>9. CASE RenameOver(p)
    BY <2>9 DEF RenameOver, directory, update, sweep, Goto, Abandon, Onto, AtTarget, TypeOK,
       Phases, Asides, MovedInBefore, MovedIn, Telling, Held
  <2>10. CASE SyncDir(p)
    BY <2>10 DEF SyncDir, directory, update, sweep, Goto, Tell, AtTarget, TypeOK, Phases,
       Asides, MovedInBefore, MovedIn, Telling, Held
  <2>11. CASE SetAside(p)
    BY <2>11 DEF SetAside, directory, update, sweep, Goto, Abandon, AtTarget, TypeOK, Phases,
       Asides, MovedInBefore, MovedIn, Telling, Held
  <2>12. CASE MoveIn(p)
    BY <2>12 DEF MoveIn, directory, update, sweep, Goto, Tell, Onto, AtTarget, RunFrom, Alive,
       Ended, TypeOK, Phases, Asides, MovedInBefore, MovedIn, Telling, Held
  <2>13. CASE MoveBack(p)
    BY <2>13 DEF MoveBack, directory, update, sweep, Goto, Abandon, Onto, AtTarget, RunFrom,
       Alive, Ended, TypeOK, Phases, Asides, MovedInBefore, MovedIn, Telling, Held
  <2>14. CASE Discard(p)
    BY <2>14 DEF Discard, directory, update, sweep, Goto, TypeOK, Phases, Asides, MovedInBefore,
       MovedIn, Telling, Held
  <2>15. CASE Exit(p)
    BY <2>15 DEF Exit, directory, update, sweep, Goto, End, TypeOK, Phases, Asides,
       MovedInBefore, MovedIn, Telling, Held
  <2>16. CASE Kill(p)
    BY <2>16 DEF Kill, directory, update, sweep, Goto, Alive, Ended, End, TypeOK, Phases,
       Asides, MovedInBefore, MovedIn, Telling, Held
  <2>. QED
    BY <1>1, <2>1, <2>2, <2>3, <2>4, <2>5, <2>6, <2>7, <2>8, <2>9, <2>10, <2>11, <2>12, <2>13,
       <2>14, <2>15, <2>16 DEF Run
<1>2. CASE PowerLoss
  BY <1>2 DEF PowerLoss, End, AtTarget, Alive, Ended, TypeOK, Phases, Asides, MovedInBefore,
     MovedIn, Telling, Held
<1>3. CASE UNCHANGED vars
  BY <1>3 DEF vars, directory, update, sweep, TypeOK, Phases, Asides, MovedInBefore, MovedIn,
     Telling, Held
<1>. QED
  BY <1>1, <1>2, <1>3 DEF Next

LEMMA AlwaysABinaryStep ==
  ASSUME IInv, [Next]_vars
  PROVE  AlwaysABinary'
<1>. USE UpdateAssumption DEF IInv, AlwaysABinary, AtTarget, Whole, BetweenRenames, Files
<1>1. ASSUME NEW p \in Runs, Run(p) PROVE AlwaysABinary'
  <2>1. CASE Start(p)
    BY <2>1 DEF Start, directory, update, sweep, Goto, TypeOK, Phases, Held, Asides, Images,
       Telling, Alive, Ended
  <2>2. CASE ListLeftovers(p)
    BY <2>2 DEF ListLeftovers, directory, update, sweep, Alive, Ended, SetAsideNames, TypeOK,
       Phases, Held, Asides, Images, Telling
  <2>3. CASE RemoveLeftover(p)
    BY <2>3 DEF RemoveLeftover, directory, update, sweep, Alive, Ended, RunFrom, TypeOK, Phases,
       Held, Asides, Images, Telling
  <2>4. CASE Latest(p)
    BY <2>4 DEF Latest, directory, update, sweep, Goto, Tell, TypeOK, Phases, Held, Asides,
       Images, Telling, Alive, Ended
  <2>5. CASE VerifyRelease(p)
    BY <2>5 DEF VerifyRelease, directory, update, sweep, Goto, Tell, ChecksumMatches, Manifests,
       Contents, TypeOK, Phases, Held, Asides, Images, Telling, Alive, Ended
  <2>6. CASE RunFails(p)
    BY <2>6 DEF RunFails, directory, update, sweep, Goto, Tell, TypeOK, Phases, Held, Asides,
       Images, Telling, Alive, Ended
  <2>7. CASE CreateTemp(p)
    BY <2>7 DEF CreateTemp, directory, update, sweep, Goto, TypeOK, Phases, Held, Asides,
       Images, Telling, Alive, Ended
  <2>8. CASE WriteBeside(p)
    BY <2>8 DEF WriteBeside, directory, update, sweep, Goto, Abandon, TypeOK, Phases, Held,
       Asides, Images, Telling, Alive, Ended
  <2>9. CASE RenameOver(p)
    <3>1. CASE Onto(p)
      <4>1. p \in Files /\ binary[p] # None
        BY <2>9, <3>1 DEF RenameOver, TypeOK, Phases, Held, Contents
      <4>2. \A g \in Files : place'[g] = "target" <=> g = p
        BY <3>1, <4>1 DEF Onto
      <4>3. binary' = binary
        BY <2>9 DEF RenameOver
      <4>. QED
        BY <4>1, <4>2, <4>3
    <3>2. CASE Abandon(p, "failed") /\ UNCHANGED place
      BY <2>9, <3>2 DEF RenameOver, Goto, Abandon, TypeOK, Telling, Phases
    <3>. QED
      BY <2>9, <3>1, <3>2 DEF RenameOver
  <2>10. CASE SyncDir(p)
    BY <2>10 DEF SyncDir, directory, update, sweep, Goto, Tell, TypeOK, Phases, Held, Asides,
       Images, Telling, Alive, Ended
  <2>11. CASE SetAside(p)
    BY <2>11 DEF SetAside, directory, update, sweep, Goto, Abandon, TypeOK, Phases, Held,
       Asides, Images, Telling, Alive, Ended
  <2>12. CASE MoveIn(p)
    <3>1. CASE Onto(p)
      <4>1. p \in Files /\ binary[p] # None
        BY <2>12, <3>1 DEF MoveIn, TypeOK, Phases, Held, Contents
      <4>2. \A g \in Files : place'[g] = "target" <=> g = p
        BY <3>1, <4>1 DEF Onto
      <4>3. binary' = binary
        BY <2>12 DEF MoveIn
      <4>. QED
        BY <4>1, <4>2, <4>3
    <3>2. CASE Goto(p, "moveBack") /\ UNCHANGED <<place, told>>
      BY <2>12, <3>2 DEF MoveIn, Goto, Abandon, TypeOK, Telling, Phases
    <3>. QED
      BY <2>12, <3>1, <3>2 DEF MoveIn
  <2>13. CASE MoveBack(p)
    <3>1. CASE place[aside[p]] = p /\ Onto(aside[p])
      <4>1. aside[p] \in Files /\ binary[aside[p]] # None
        BY <2>13, <3>1 DEF MoveBack, TypeOK, Phases, Held, Contents
      <4>2. \A g \in Files : place'[g] = "target" <=> g = aside[p]
        BY <3>1, <4>1 DEF Onto
      <4>3. binary' = binary
        BY <2>13 DEF MoveBack
      <4>. QED
        BY <4>1, <4>2, <4>3
    <3>2. CASE Abandon(p, "restore") /\ UNCHANGED place
      BY <2>13, <3>2 DEF MoveBack, Goto, Abandon, TypeOK, Telling, Phases
    <3>. QED
      BY <2>13, <3>1, <3>2 DEF MoveBack
  <2>14. CASE Discard(p)
    BY <2>14 DEF Discard, directory, update, sweep, Goto, TypeOK, Phases, Held, Asides, Images,
       Telling, Alive, Ended
  <2>15. CASE Exit(p)
    BY <2>15 DEF Exit, directory, update, sweep, Goto, End, TypeOK, Phases, Held, Asides,
       Images, Telling, Alive, Ended
  <2>16. CASE Kill(p)
    BY <2>16 DEF Kill, directory, update, sweep, Goto, Alive, Ended, End, TypeOK, Phases, Held,
       Asides, Images, Telling
  <2>. QED
    BY <1>1, <2>1, <2>2, <2>3, <2>4, <2>5, <2>6, <2>7, <2>8, <2>9, <2>10, <2>11, <2>12, <2>13,
       <2>14, <2>15, <2>16 DEF Run
<1>2. CASE PowerLoss
  BY <1>2 DEF PowerLoss, End, Alive, Ended, TypeOK, Phases, Held, Asides, Images, Telling
<1>3. CASE UNCHANGED vars
  BY <1>3 DEF vars, directory, update, sweep, TypeOK, Phases, Held, Asides, Images, Telling,
     Alive, Ended
<1>. QED
  BY <1>1, <1>2, <1>3 DEF Next

LEMMA OffersStep ==
  ASSUME IInv, [Next]_vars
  PROVE  Offers'
<1>. USE UpdateAssumption DEF IInv, Offers, Files, Contents
<1>1. ASSUME NEW p \in Runs, Run(p) PROVE Offers'
  <2>1. CASE Start(p)
    BY <2>1 DEF Start, directory, update, sweep, Goto, AtTarget, TypeOK, Phases, MovedInBefore,
       MovedIn, Telling, Images, Alive, Ended
  <2>2. CASE ListLeftovers(p)
    BY <2>2 DEF ListLeftovers, directory, update, sweep, Alive, Ended, SetAsideNames, TypeOK,
       Phases, MovedInBefore, MovedIn, Telling, Images
  <2>3. CASE RemoveLeftover(p)
    BY <2>3 DEF RemoveLeftover, directory, update, sweep, Alive, Ended, RunFrom, TypeOK, Phases,
       MovedInBefore, MovedIn, Telling, Images
  <2>4. CASE Latest(p)
    BY <2>4 DEF Latest, directory, update, sweep, Goto, Tell, TypeOK, Phases, MovedInBefore,
       MovedIn, Telling, Images, Alive, Ended
  <2>5. CASE VerifyRelease(p)
    BY <2>5 DEF VerifyRelease, directory, update, sweep, Goto, Tell, ChecksumMatches, Manifests,
       TypeOK, Phases, MovedInBefore, MovedIn, Telling, Images, Alive, Ended
  <2>6. CASE RunFails(p)
    BY <2>6 DEF RunFails, directory, update, sweep, Goto, Tell, TypeOK, Phases, MovedInBefore,
       MovedIn, Telling, Images, Alive, Ended
  <2>7. CASE CreateTemp(p)
    BY <2>7 DEF CreateTemp, directory, update, sweep, Goto, TypeOK, Phases, MovedInBefore,
       MovedIn, Telling, Images, Alive, Ended
  <2>8. CASE WriteBeside(p)
    BY <2>8 DEF WriteBeside, directory, update, sweep, Goto, Abandon, TypeOK, Phases,
       MovedInBefore, MovedIn, Telling, Images, Alive, Ended
  <2>9. CASE RenameOver(p)
    BY <2>9 DEF RenameOver, directory, update, sweep, Goto, Abandon, Onto, AtTarget, TypeOK,
       Phases, MovedInBefore, MovedIn, Telling, Images, Alive, Ended
  <2>10. CASE SyncDir(p)
    BY <2>10 DEF SyncDir, directory, update, sweep, Goto, Tell, AtTarget, TypeOK, Phases,
       MovedInBefore, MovedIn, Telling, Images, Alive, Ended
  <2>11. CASE SetAside(p)
    BY <2>11 DEF SetAside, directory, update, sweep, Goto, Abandon, AtTarget, TypeOK, Phases,
       MovedInBefore, MovedIn, Telling, Images, Alive, Ended
  <2>12. CASE MoveIn(p)
    BY <2>12 DEF MoveIn, directory, update, sweep, Goto, Tell, Onto, AtTarget, RunFrom, Alive,
       Ended, TypeOK, Phases, MovedInBefore, MovedIn, Telling, Images
  <2>13. CASE MoveBack(p)
    BY <2>13 DEF MoveBack, directory, update, sweep, Goto, Abandon, Onto, AtTarget, RunFrom,
       Alive, Ended, TypeOK, Phases, MovedInBefore, MovedIn, Telling, Images
  <2>14. CASE Discard(p)
    BY <2>14 DEF Discard, directory, update, sweep, Goto, TypeOK, Phases, MovedInBefore,
       MovedIn, Telling, Images, Alive, Ended
  <2>15. CASE Exit(p)
    BY <2>15 DEF Exit, directory, update, sweep, Goto, End, TypeOK, Phases, MovedInBefore,
       MovedIn, Telling, Images, Alive, Ended
  <2>16. CASE Kill(p)
    BY <2>16 DEF Kill, directory, update, sweep, Goto, Alive, Ended, End, TypeOK, Phases,
       MovedInBefore, MovedIn, Telling, Images
  <2>. QED
    BY <1>1, <2>1, <2>2, <2>3, <2>4, <2>5, <2>6, <2>7, <2>8, <2>9, <2>10, <2>11, <2>12, <2>13,
       <2>14, <2>15, <2>16 DEF Run
<1>2. CASE PowerLoss
  BY <1>2 DEF PowerLoss, End, AtTarget, Alive, Ended, TypeOK, Phases, MovedInBefore, MovedIn,
     Telling
<1>3. CASE UNCHANGED vars
  BY <1>3 DEF vars, directory, update, sweep, TypeOK, Phases, MovedInBefore, MovedIn, Telling,
     Alive, Ended
<1>. QED
  BY <1>1, <1>2, <1>3 DEF Next

LEMMA StepKeeps ==
  ASSUME IInv, [Next]_vars
  PROVE  IInv'
  BY TypeOKStep, PhasesStep, HeldStep, AsidesStep, MovedInBeforeStep, TellingStep, ImagesStep,
     FailureUndoesItselfStep, AlwaysABinaryStep, OffersStep DEF IInv

LEMMA Starts ==
  ASSUME Init
  PROVE  IInv
<1>. USE UpdateAssumption DEF Init, Files
<1>1. TypeOK
  BY DEF TypeOK, Contents, Steps, Ended
<1>2. Phases /\ Held /\ Asides
  BY DEF Phases, Held, Asides
<1>3. MovedInBefore /\ Telling /\ Images /\ Offers
  BY DEF MovedInBefore, MovedIn, Telling, Images, Offers, Alive, Ended
<1>4. FailureUndoesItself /\ AlwaysABinary
  BY DEF FailureUndoesItself, AlwaysABinary, AtTarget, Whole
<1>. QED
  BY <1>1, <1>2, <1>3, <1>4 DEF IInv

THEOREM Invariance == Spec => []IInv
  BY Starts, StepKeeps, PTL DEF Spec

----------------------------------------------------------------------------
(* The order of versions: what the code finds newer comes later in SemVer. *)

LEMMA LessWellFounded == IsWellFoundedOn({ss \in Nat \X Nat : ss[1] < ss[2]}, Nat)
  BY NatLessThanWellFounded DEF OpToRel

LEMMA Least ==
  ASSUME NEW T \in SUBSET Nat, T # {}
  PROVE  Min(T) \in T /\ \A n \in T : Min(T) <= n
<1>1. PICK m \in T : \A n \in T : ~(<<n, m>> \in {ss \in Nat \X Nat : ss[1] < ss[2]})
  BY LessWellFounded, WFMin
<1>2. ASSUME NEW n \in T PROVE m <= n
  <2>1. n \in Nat /\ m \in Nat /\ <<n, m>> \in Nat \X Nat
    OBVIOUS
  <2>2. <<n, m>>[1] = n /\ <<n, m>>[2] = m
    OBVIOUS
  <2>3. ~(n < m)
    BY <1>1, <2>1, <2>2, Zenon
  <2>. QED
    BY <2>1, <2>3
<1>. QED
  BY <1>2 DEF Min

LEMMA Larger ==
  ASSUME NEW m \in Nat, NEW n \in Nat
  PROVE  Max({m, n}) \in {m, n} /\ m <= Max({m, n}) /\ n <= Max({m, n})
<1>1. \E x \in {m, n} : \A y \in {m, n} : x >= y
  OBVIOUS
<1>2. Max({m, n}) \in {m, n} /\ \A y \in {m, n} : Max({m, n}) >= y
  BY <1>1 DEF Max
<1>. QED
  BY <1>2

(* Two sequences that agree before a place have that beginning in common.  *)
LEMMA SameBeginning ==
  ASSUME NEW S, NEW l \in Seq(S), NEW r \in Seq(S), NEW k \in 1 .. Len(r),
         k - 1 <= Len(l), \A i \in 1 .. k - 1 : l[i] = r[i]
  PROVE  SubSeq(l, 1, k - 1) = SubSeq(r, 1, k - 1)
<1>. DEFINE a == SubSeq(l, 1, k - 1)
            b == SubSeq(r, 1, k - 1)
<1>1. a \in Seq(S) /\ Len(a) = k - 1 /\ \A i \in 1 .. k - 1 : a[i] = l[i]
  OBVIOUS
<1>2. b \in Seq(S) /\ Len(b) = k - 1 /\ \A i \in 1 .. k - 1 : b[i] = r[i]
  OBVIOUS
<1>. QED
  BY <1>1, <1>2, SeqEqual

(* comparePrerelease's walk over the identifiers.                          *)
LEMMA LowerPrerelease ==
  ASSUME NEW l \in Seq(Identifiers), NEW r \in Seq(Identifiers), comparePlaces(l, r) < 0
  PROVE  LowerPlaces(l, r)
<1>. DEFINE longest == Max({Len(l), Len(r)})
            k == Min(Apart(l, r))
<1>1. Len(l) \in Nat /\ Len(r) \in Nat /\ longest \in {Len(l), Len(r)} /\ Len(l) <= longest
      /\ Len(r) <= longest
  BY Larger
<1>2. Apart(l, r) # {} /\ Apart(l, r) \in SUBSET Nat
  <2>1. Apart(l, r) # {}
    BY DEF comparePlaces
  <2>2. Apart(l, r) \in SUBSET Nat
    BY <1>1 DEF Apart
  <2>. QED
    BY <2>1, <2>2
<1>3. k \in Apart(l, r) /\ \A i \in Apart(l, r) : k <= i
  BY <1>2, Least
<1>4. k > Len(l) \/ (~(k > Len(r)) /\ compareIdentifier(l[k], r[k]) < 0)
  BY <1>2 DEF comparePlaces
<1>. HIDE DEF k
<1>5. k \in 1 .. longest
  BY <1>3 DEF Apart
<1>6. \A i \in 1 .. k - 1 :
        i <= Len(l) /\ i <= Len(r) /\ compareIdentifier(l[i], r[i]) = 0
  <2>. SUFFICES ASSUME NEW i \in 1 .. k - 1
                PROVE  i <= Len(l) /\ i <= Len(r) /\ compareIdentifier(l[i], r[i]) = 0
    OBVIOUS
  <2>1. i \in 1 .. longest /\ ~(k <= i)
    BY <1>1, <1>5
  <2>2. i \notin Apart(l, r)
    BY <1>3, <2>1
  <2>. QED
    BY <1>1, <2>1, <2>2 DEF Apart
<1>7. k - 1 <= Len(l) /\ k - 1 <= Len(r) /\ k \in 1 .. Len(r)
  <2>1. k = 1 \/ k - 1 \in 1 .. k - 1
    BY <1>1, <1>5
  <2>2. k - 1 <= Len(l) /\ k - 1 <= Len(r)
    BY <1>1, <1>5, <1>6, <2>1
  <2>3. k <= Len(r)
    BY <1>1, <1>5, <1>4, <2>2
  <2>. QED
    BY <1>1, <1>5, <2>2, <2>3
<1>8. \A i \in 1 .. k - 1 : l[i] = r[i]
  <2>. SUFFICES ASSUME NEW i \in 1 .. k - 1 PROVE l[i] = r[i]
    OBVIOUS
  <2>1. l[i] \in Identifiers /\ r[i] \in Identifiers
    BY <1>1, <1>6
  <2>2. compareIdentifier(l[i], r[i]) = 0
    BY <1>6
  <2>. QED
    <3>1. l[i].number = r[i].number /\ l[i].value = r[i].value
      BY <2>1, <2>2 DEF compareIdentifier, compareInt, Identifiers
    <3>2. /\ l[i] = [number |-> l[i].number, value |-> l[i].value]
          /\ r[i] = [number |-> r[i].number, value |-> r[i].value]
      BY <2>1 DEF Identifiers
    <3>. QED
      BY <3>1, <3>2
<1>9. SubSeq(l, 1, k - 1) = SubSeq(r, 1, k - 1)
  BY <1>7, <1>8, SameBeginning
<1>10. k - 1 = Len(l) \/ LowerIdentifier(l[k], r[k])
  <2>1. CASE k > Len(l)
    BY <1>1, <1>5, <1>7, <2>1
  <2>2. CASE k <= Len(l)
    <3>1. l[k] \in Identifiers /\ r[k] \in Identifiers /\ compareIdentifier(l[k], r[k]) < 0
      BY <1>1, <1>5, <1>4, <1>7, <2>2
    <3>. QED
      BY <3>1 DEF compareIdentifier, compareInt, LowerIdentifier, Identifiers
  <2>. QED
    BY <1>1, <1>5, <2>1, <2>2
<1>. QED
  BY <1>7, <1>9, <1>10 DEF LowerPlaces

LEMMA NewerPrecedes ==
  ASSUME NEW l, NEW r, IsVersion(l), IsVersion(r), IsSemantic(l), IsSemantic(r),
         isUpdateAvailable(l, r)
  PROVE  Precedes(l, r)
<1>1. /\ l.core \in Seq(Nat) /\ r.core \in Seq(Nat) /\ Len(l.core) = 3 /\ Len(r.core) = 3
      /\ l.pre \in Seq(Identifiers) /\ r.pre \in Seq(Identifiers)
  BY DEF IsVersion, IsSemantic
<1>2. compareSemver(l, r) < 0
  BY DEF isUpdateAvailable
<1>3. \A i \in 1 .. 3 : l.core[i] \in Nat /\ r.core[i] \in Nat
  <2>1. \A s \in Seq(Nat) : Len(s) = 3 => \A i \in 1 .. 3 : s[i] \in Nat
    BY ElementOfSeq
  <2>. QED
    BY <1>1, <2>1
<1>4. CASE \E i \in 1 .. 3 : l.core[i] # r.core[i]
  BY <1>2, <1>3, <1>4 DEF compareSemver, compareInt, Precedes, LowerCore
<1>5. CASE \A i \in 1 .. 3 : l.core[i] = r.core[i]
  <2>1. l.core = r.core
    BY <1>1, <1>5, SeqEqual
  <2>2. comparePrerelease(l.pre, r.pre) < 0
    BY <1>2, <1>5 DEF compareSemver
  <2>3. l.pre # <<>> /\ (r.pre = <<>> \/ comparePlaces(l.pre, r.pre) < 0)
    BY <2>2 DEF comparePrerelease
  <2>4. r.pre = <<>> \/ LowerPlaces(l.pre, r.pre)
    BY <1>1, <2>3, LowerPrerelease
  <2>. QED
    BY <2>1, <2>3, <2>4 DEF Precedes
<1>. QED
  BY <1>4, <1>5

----------------------------------------------------------------------------
(* The theorems.                                                           *)

(* Every reachable state is well typed, and what a run sweeps away are     *)
(* only names that updates set a binary aside under (isLeftover).          *)
THEOREM TypeCorrect == Spec => []TypeOK
<1>1. IInv => TypeOK
  BY DEF IInv
<1>. QED
  BY <1>1, Invariance, PTL

(* The target names a whole binary at every moment, or, on Windows, one is *)
(* there to restore, however many updates and sweeps overlap and wherever  *)
(* they are killed (renameOver, renameAside, removeLeftovers).             *)
THEOREM BinaryIsThere == Spec => []AlwaysABinary
<1>1. IInv => AlwaysABinary
  BY DEF IInv
<1>. QED
  BY <1>1, Invariance, PTL

(* An update that failed undid what it did, or says what it left           *)
(* (writeBeside, discard, renameAside).                                    *)
THEOREM FailureIsUndone == Spec => []FailureUndoesItself
<1>1. IInv => FailureUndoesItself
  BY DEF IInv
<1>. QED
  BY <1>1, Invariance, PTL

(* What an update applied is the release it was offered, and comes after   *)
(* its own version in SemVer's order, whatever the releases are called     *)
(* (verifyRelease, isUpdateAvailable, compareSemver).                      *)
THEOREM NewerIsApplied == Spec => []AppliesANewerRelease
<1>1. ASSUME IInv PROVE AppliesANewerRelease
  <2>. SUFFICES ASSUME NEW p \in Runs, pc[p] = "done", told[p] = "applied"
                PROVE  /\ ~skip => binary[p] = offered[p]
                       /\ IsSemantic(binary[image[p]]) => Precedes(binary[image[p]], offered[p])
    BY DEF AppliesANewerRelease
  <2>1. ~skip => binary[p] = offered[p]
    BY <1>1 DEF IInv, Phases, Offers
  <2>2. /\ isUpdateAvailable(binary[image[p]], offered[p])
        /\ binary[image[p]] \in Releases \cup Installed
        /\ offered[p] \in Releases
    BY <1>1 DEF IInv, Offers, Images, Alive, Ended
  <2>. QED
    BY <2>1, <2>2, UpdateAssumption, NewerPrecedes
<1>. QED
  BY <1>1, Invariance, PTL
=============================================================================
