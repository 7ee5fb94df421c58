------------------------------- MODULE Update -------------------------------
(***************************************************************************)
(* Runs of bb that share one installed binary (internal/workflows/update). *)
(* Each may be a bb update: it asks for the latest release, verifies it,   *)
(* writes the new binary beside the old one and renames it over it, or, on *)
(* Windows, sets the old one aside and renames the new one into its place. *)
(* Each run also sweeps away what earlier updates on Windows left.         *)
(*                                                                         *)
(* A file is known by who wrote it: the one that was installed first, or   *)
(* the one an update wrote.  Its place is its name in the directory.       *)
(***************************************************************************)
EXTENDS SemVer, FiniteSets

CONSTANTS
  Runs,        \* runs of bb; a set-aside name is known by the run that made it
  DryRuns,     \* those of them that are a bb update --dry-run
  Original,    \* the binary that was installed first
  Installed,   \* the versions it may have
  Releases,    \* the releases a source may serve as its latest
  Damaged,     \* an archive that is no release's
  None,
  Systems,     \* among "windows" and "other"
  Policies     \* the values of allow_unverified_update

ASSUME UpdateAssumption ==
  /\ Original \notin Runs /\ None \notin Runs /\ None # Original
  /\ None \notin Releases /\ None # Damaged /\ Damaged \notin Releases \cup Installed
  /\ None \notin Installed
  /\ \A v \in Releases \cup Installed : IsVersion(v)
  /\ \A v \in Releases : IsSemantic(v)
  /\ Runs \cap {"nowhere", "temp", "target", "gone"} = {}
  /\ DryRuns \subseteq Runs
  /\ Systems \subseteq {"windows", "other"} /\ Policies \subseteq BOOLEAN

VARIABLES
  system,   \* the platform
  skip,     \* Runner.skipSignature
  place,    \* what each file is called
  binary,   \* what each file holds
  synced,   \* the files whose content is on the disk
  durable,  \* the file the target names on the disk
  pc,
  image,    \* the file each run was started from
  offered,  \* the release Latest returned to it
  archive,  \* the archive it verified
  aside,    \* the file it set aside
  sweeping, \* the runs that have yet to list what they sweep
  leftovers,\* the names a run listed and has not come to yet
  told,     \* what it tells its caller
  named     \* whether its error names a file it could not remove

directory == <<place, binary, synced, durable>>
sweep == <<sweeping, leftovers>>
update == <<offered, archive, aside, told, named>>
vars == <<system, skip, directory, pc, image, update, sweep>>

Files == Runs \cup {Original}
Contents == Releases \cup {Damaged}
Ended == {"off", "exited", "killed"}

Alive(p) == pc[p] \notin Ended
AtTarget == {f \in Files : place[f] = "target"}
SetAsideNames == {place[f] : f \in Files} \cap Runs
Whole(f) == binary[f] # None

(* Windows deletes no file, and replaces none, that a process runs from.   *)
RunFrom(f) == \E p \in Runs : Alive(p) /\ image[p] = f

----------------------------------------------------------------------------
Init ==
  /\ system \in Systems /\ skip \in Policies
  /\ place = [f \in Files |-> IF f = Original THEN "target" ELSE "nowhere"]
  /\ \E v \in Installed : binary = [f \in Files |-> IF f = Original THEN v ELSE None]
  /\ synced = {Original} /\ durable = Original
  /\ pc = [p \in Runs |-> "off"] /\ image = [p \in Runs |-> None]
  /\ offered = [p \in Runs |-> None] /\ archive = [p \in Runs |-> None]
  /\ aside = [p \in Runs |-> None] /\ leftovers = [p \in Runs |-> {}] /\ sweeping = Runs
  /\ told = [p \in Runs |-> "nothing"] /\ named = [p \in Runs |-> FALSE]

Goto(p, step) == pc' = [pc EXCEPT ![p] = step]

Tell(p, what) == Goto(p, "done") /\ told' = [told EXCEPT ![p] = what]

(* What failed has to take its new file away first.                        *)
Abandon(p, what) == Goto(p, "discard") /\ told' = [told EXCEPT ![p] = what]

(* bb starts, from the file that is installed, and lists what to sweep.    *)
Start(p) ==
  /\ pc[p] = "off"
  /\ \E f \in AtTarget :
       binary[f] \in Releases \cup Installed /\ image' = [image EXCEPT ![p] = f]
  /\ Goto(p, "started")
  /\ UNCHANGED <<system, skip, directory, update, sweep>>

(* Mutant: isLeftover takes every file for one.                            *)
ListEverything(p) ==
  /\ system = "windows" /\ Alive(p) /\ p \in sweeping
  /\ sweeping' = sweeping \ {p}
  /\ leftovers' = [leftovers EXCEPT ![p] = {place[f] : f \in Files}]
  /\ UNCHANGED <<system, skip, directory, pc, image, update>>

(* removeLeftovers, in a goroutine of its own: the directory is read once, *)
(* and each name that was there deleted in turn, where Windows lets it.    *)
ListLeftovers(p) ==
  /\ system = "windows" /\ Alive(p) /\ p \in sweeping
  /\ sweeping' = sweeping \ {p}
  /\ leftovers' = [leftovers EXCEPT ![p] = SetAsideNames]
  /\ UNCHANGED <<system, skip, directory, pc, image, update>>

RemoveLeftover(p) ==
  /\ Alive(p)
  /\ \E name \in leftovers[p] :
       /\ leftovers' = [leftovers EXCEPT ![p] = @ \ {name}]
       /\ \/ \E f \in Files :
               /\ place[f] = name /\ ~RunFrom(f)
               /\ place' = [place EXCEPT ![f] = "gone"]
          \/ UNCHANGED place
  /\ UNCHANGED <<system, skip, binary, synced, durable, pc, image, update, sweeping>>

----------------------------------------------------------------------------
(* Runner.Run: what is offered, and whether it may be installed.           *)

(* A source serves whatever release it has: a mirror can be behind.        *)
Latest(p) ==
  /\ pc[p] = "started"
  /\ \E release \in Releases :
       /\ offered' = [offered EXCEPT ![p] = release]
       /\ IF isUpdateAvailable(binary[image[p]], release) \/ p \in DryRuns
          THEN Goto(p, "verify") /\ UNCHANGED told
          ELSE Tell(p, "current")
  /\ UNCHANGED <<system, skip, directory, image, archive, aside, named, sweep>>

(* What a checksum file may say of the archive that is asked for.  The     *)
(* release workflow signs only files that name that release's own archive. *)
Manifests(release) ==
  {m \in [signed : BOOLEAN, names : Contents \cup {None}] :
     m.signed => m.names \in {release, None}}

(* Mutant: the archive is not hashed.                                      *)
AnyChecksum(got, expected) == TRUE

ChecksumMatches(got, expected) == got = expected

(* verifyRelease, which nothing can come between: the checksum file, the   *)
(* signature over it, its entry, and the archive hashed against that.  A   *)
(* dry run ends there, and only then minds a release older than its own.   *)
VerifyRelease(p) ==
  /\ pc[p] = "verify"
  /\ \E m \in Manifests(offered[p]), got \in Contents :
       /\ skip \/ m.signed
       /\ m.names # None /\ ChecksumMatches(got, m.names)
       /\ archive' = [archive EXCEPT ![p] = got]
  /\ IF p \in DryRuns
     THEN Tell(p, IF IsSemantic(binary[image[p]])
                     /\ compareSemver(binary[image[p]], offered[p]) > 0
                  THEN "conflict" ELSE "verified")
     ELSE Goto(p, "write") /\ UNCHANGED told
  /\ UNCHANGED <<system, skip, directory, image, offered, aside, named, sweep>>

(* A lookup, a download, a check or the archive's extraction fails, or no  *)
(* file can be created beside the target.                                  *)
RunFails(p) ==
  /\ pc[p] \in {"started", "verify", "write"}
  /\ Tell(p, "failed")
  /\ UNCHANGED <<system, skip, directory, image, offered, archive, aside, named, sweep>>

----------------------------------------------------------------------------
(* installBinary.                                                          *)

CreateTemp(p) ==
  /\ pc[p] = "write"
  /\ place' = [place EXCEPT ![p] = "temp"]
  /\ Goto(p, "writing")
  /\ UNCHANGED <<system, skip, binary, synced, durable, image, update, sweep>>

(* writeBeside: written, given its permissions, synced and closed.         *)
WriteBeside(p) ==
  /\ pc[p] = "writing"
  /\ \/ /\ binary' = [binary EXCEPT ![p] = archive[p]]
        /\ synced' = synced \cup {p}
        /\ Goto(p, IF system = "windows" THEN "setAside" ELSE "rename")
        /\ UNCHANGED told
     \/ Abandon(p, "failed") /\ UNCHANGED <<binary, synced>>
  /\ UNCHANGED <<system, skip, place, durable, image, offered, archive, aside, named, sweep>>

(* A file takes the target's name from whichever file has it.              *)
Onto(f) ==
  place' = [g \in Files |->
              IF g = f THEN "target" ELSE IF place[g] = "target" THEN "gone" ELSE place[g]]

(* Mutant: the old binary is deleted before the new one is renamed.        *)
ReplaceByDeleting(p) ==
  /\ pc[p] = "rename"
  /\ \/ Onto(p) /\ Goto(p, "syncDir") /\ UNCHANGED told
     \/ /\ Abandon(p, "failed")
        /\ place' = [f \in Files |-> IF f \in AtTarget THEN "gone" ELSE place[f]]
  /\ UNCHANGED <<system, skip, binary, synced, durable, image, offered, archive, aside, named, sweep>>

(* renameOver: the target names one file or the other at every moment.     *)
RenameOver(p) ==
  /\ pc[p] = "rename"
  /\ \/ Onto(p) /\ Goto(p, "syncDir") /\ UNCHANGED told
     \/ Abandon(p, "failed") /\ UNCHANGED place
  /\ UNCHANGED <<system, skip, binary, synced, durable, image, offered, archive, aside, named, sweep>>

(* A directory that cannot be synced does not fail the update.             *)
SyncDir(p) ==
  /\ pc[p] = "syncDir"
  /\ durable' \in {durable} \cup AtTarget
  /\ Tell(p, "applied")
  /\ UNCHANGED <<system, skip, place, binary, synced, image, offered, archive, aside, named, sweep>>

(* renameAside, each of whose renames may outlast its two seconds of being *)
(* refused, or fail in another way.                                        *)
SetAside(p) ==
  /\ pc[p] = "setAside"
  /\ \/ \E f \in AtTarget :
          /\ place' = [place EXCEPT ![f] = p]
          /\ aside' = [aside EXCEPT ![p] = f]
          /\ Goto(p, "moveIn") /\ UNCHANGED told
     \/ Abandon(p, "failed") /\ UNCHANGED <<place, aside>>
  /\ UNCHANGED <<system, skip, binary, synced, durable, image, offered, archive, named, sweep>>

MoveIn(p) ==
  /\ pc[p] = "moveIn"
  /\ \/ (\A f \in AtTarget : ~RunFrom(f)) /\ Onto(p) /\ Tell(p, "applied")
     \/ Goto(p, "moveBack") /\ UNCHANGED <<place, told>>
  /\ UNCHANGED <<system, skip, binary, synced, durable, image, offered, archive, aside, named, sweep>>

(* The old binary goes back to where it was, or the error says where it is.*)
MoveBack(p) ==
  /\ pc[p] = "moveBack"
  /\ \/ /\ place[aside[p]] = p /\ \A f \in AtTarget : ~RunFrom(f)
        /\ Onto(aside[p]) /\ Abandon(p, "failed")
     \/ Abandon(p, "restore") /\ UNCHANGED place
  /\ UNCHANGED <<system, skip, binary, synced, durable, image, offered, archive, aside, named, sweep>>

(* Mutant: the file that could not be removed is not named.                *)
DiscardSilently(p) ==
  /\ pc[p] = "discard"
  /\ Goto(p, "done")
  /\ place' \in {place, [place EXCEPT ![p] = "gone"]}
  /\ UNCHANGED <<system, skip, binary, synced, durable, image, offered, archive, aside, told, named, sweep>>

(* The new file is removed, or the error names it.                         *)
Discard(p) ==
  /\ pc[p] = "discard"
  /\ Goto(p, "done")
  /\ \/ place' = [place EXCEPT ![p] = "gone"] /\ UNCHANGED named
     \/ named' = [named EXCEPT ![p] = TRUE] /\ UNCHANGED place
  /\ UNCHANGED <<system, skip, binary, synced, durable, image, offered, archive, aside, told, sweep>>

----------------------------------------------------------------------------
(* What ends a run, and its memory with it.                                *)

End(ending) ==
  /\ image' = [p \in Runs |-> IF p \in ending THEN None ELSE image[p]]
  /\ offered' = [p \in Runs |-> IF p \in ending THEN None ELSE offered[p]]
  /\ archive' = [p \in Runs |-> IF p \in ending THEN None ELSE archive[p]]
  /\ leftovers' = [p \in Runs |-> IF p \in ending THEN {} ELSE leftovers[p]]
  /\ sweeping' = sweeping \ ending
  /\ UNCHANGED <<system, skip, synced, aside, told, named>>

Exit(p) ==
  /\ pc[p] = "done"
  /\ Goto(p, "exited") /\ End({p})
  /\ UNCHANGED <<place, binary, durable>>

Kill(p) ==
  /\ Alive(p)
  /\ Goto(p, "killed") /\ End({p})
  /\ UNCHANGED <<place, binary, durable>>

(* The machine stops: a file that was not synced is empty afterwards, and  *)
(* a rename that was not may not have happened.                            *)
PowerLoss ==
  /\ system = "other" /\ \E p \in Runs : Alive(p)
  /\ pc' = [p \in Runs |-> IF Alive(p) THEN "killed" ELSE pc[p]]
  /\ binary' = [f \in Files |-> IF f \in synced THEN binary[f] ELSE None]
  /\ \/ durable' \in AtTarget /\ UNCHANGED place
     \/ /\ UNCHANGED durable
        /\ place' = [f \in Files |-> IF f = durable THEN "target"
                                     ELSE IF place[f] = "target" THEN "temp" ELSE place[f]]
  /\ End({p \in Runs : Alive(p)})

Run(p) ==
  \/ Start(p) \/ ListLeftovers(p) \/ RemoveLeftover(p)
  \/ Latest(p) \/ VerifyRelease(p) \/ RunFails(p)
  \/ CreateTemp(p) \/ WriteBeside(p) \/ RenameOver(p) \/ SyncDir(p)
  \/ SetAside(p) \/ MoveIn(p) \/ MoveBack(p) \/ Discard(p) \/ Exit(p) \/ Kill(p)

Next == (\E p \in Runs : Run(p)) \/ PowerLoss

Spec == Init /\ [][Next]_vars

----------------------------------------------------------------------------
(* Properties.                                                             *)

Steps == {"started", "verify", "write", "writing", "rename", "syncDir",
          "setAside", "moveIn", "moveBack", "discard", "done"}

(* Every variable has its type (Runner.Run, fileSystem).                   *)
TypeOK ==
  /\ system \in Systems /\ skip \in Policies
  /\ place \in [Files -> {"nowhere", "temp", "target", "gone"} \cup Runs]
  /\ binary \in [Files -> Contents \cup Installed \cup {None}]
  /\ synced \subseteq Files /\ durable \in Files
  /\ pc \in [Runs -> Ended \cup Steps]
  /\ image \in [Runs -> Files \cup {None}]
  /\ offered \in [Runs -> Releases \cup {None}]
  /\ archive \in [Runs -> Contents \cup {None}]
  /\ aside \in [Runs -> Files \cup {None}]
  /\ sweeping \subseteq Runs /\ leftovers \in [Runs -> SUBSET Runs]
  /\ told \in [Runs -> {"nothing", "current", "conflict", "verified", "applied",
                        "failed", "restore"}]
  /\ named \in [Runs -> BOOLEAN]

(* A file that has the target's name is whole, through kills and, off      *)
(* Windows, a loss of power: the target names one at every moment.  On     *)
(* Windows it may name none, and then an update is between its two         *)
(* renames, or was killed there, or told how to restore bb; and whatever   *)
(* any run sweeps away, a whole binary that was set aside is left         *)
(* (renameOver, renameAside, RemoveUpdateLeftovers).                       *)
BetweenRenames(p) ==
  \/ pc[p] \in {"moveIn", "moveBack"} \/ told[p] = "restore"
  \/ pc[p] = "killed" /\ aside[p] # None /\ place[p] = "temp"

AlwaysABinary ==
  /\ \A f \in AtTarget : Whole(f)
  /\ AtTarget = {} =>
       /\ system = "windows"
       /\ \E p \in Runs : BetweenRenames(p)
       /\ \E f \in Files : place[f] \in Runs /\ Whole(f)

(* An update that failed never had its file under the target's name, moved *)
(* back what it set aside, and left its own file only if its error names   *)
(* it: "A failure before the rename leaves the target as it was"           *)
(* (install.go:61); "When it fails it leaves nothing behind, or its error  *)
(* names what it left" (writeBeside).                                      *)
FailureUndoesItself ==
  \A p \in Runs : pc[p] \in {"done", "exited"} =>
    /\ told[p] = "failed" => p \notin SetAsideNames
    /\ told[p] \in {"failed", "restore"} =>
         place[p] \in {"nowhere", "gone"} \/ (place[p] = "temp" /\ named[p])

(* Unless policy gave up the signature, a binary that was applied is the   *)
(* release that was offered, and SemVer puts that release after the        *)
(* version the update runs as (verifyRelease, isUpdateAvailable).          *)
AppliesANewerRelease ==
  \A p \in Runs : pc[p] = "done" /\ told[p] = "applied" =>
    /\ ~skip => binary[p] = offered[p]
    /\ IsSemantic(binary[image[p]]) => Precedes(binary[image[p]], offered[p])
=============================================================================
