------------------------------ MODULE StartupFile ------------------------------
(***************************************************************************)
(* `bb completion install` and `remove` on the file a shell reads when it  *)
(* starts (internal/completionsetup): a block in a .zshrc or a PowerShell  *)
(* profile, which the person and other programs write too, or a file of    *)
(* bb's own.  A file that is there is rewritten in place, by a write and a *)
(* truncation; when one fails, what was there is put back.                 *)
(*                                                                         *)
(* A text is a sequence of words: ends of lines, the lines of bb's block,  *)
(* and lines of somebody else's, each one word long.                       *)
(***************************************************************************)
EXTENDS SequencesExt

CONSTANTS
  Runs,
  Kinds,    \* of file: "zshrc", "profile" (PowerShell's), "file" (of bb's own)
  Texts,    \* what the file may hold at first
  Said,     \* the lines other people and programs write
  MaxSaid,  \* how many lines they add
  Original,
  Absent

Marks == {"nl", "begin", "body", "old", "end", "own", "generated", "nul"}
Words == Said \cup Marks
Text == Seq(Words)
Files == {Original} \cup Runs \cup 1 .. MaxSaid

ASSUME StartupAssumption ==
  /\ Kinds \subseteq {"zshrc", "profile", "file"}
  /\ Texts \subseteq Text
  /\ MaxSaid \in Nat
  /\ Said \cap Marks = {}
  /\ Original \notin Runs \cup Nat /\ Runs \cap Nat = {}
  /\ Absent \notin Files \cup Text

VARIABLES
  kind,    \* never changes
  at,      \* the file at the path, or Absent
  text,    \* what each file holds
  said,    \* how many lines other people added
  pc,
  op,      \* install or remove
  raw,     \* what the run read
  wanted,  \* what it is to leave, Absent for no file
  opened,  \* the file it has open
  told,
  alone    \* whether nobody else changed the file since it read it

path == <<at, text>>
plan == <<op, raw, wanted>>
vars == <<kind, path, said, pc, plan, opened, told, alone>>

File == IF at = Absent THEN Absent ELSE text[at]

----------------------------------------------------------------------------
(* Texts.                                                                  *)

block == <<"begin", "nl", "body", "nl", "end", "nl">>
ownFile == <<"own", "nl", "body", "nl">>

(* The first line from an offset on that is exactly the marker, or 0.      *)
markerLine(t, marker, from) ==
  LET lines == {i \in from .. Len(t) :
                  /\ t[i] = marker
                  /\ i = 1 \/ t[i - 1] = "nl"
                  /\ i = Len(t) \/ t[i + 1] = "nl"}
  IN IF lines = {} THEN 0 ELSE Min(lines)

Begin(t) == markerLine(t, "begin", 1)
End(t) == markerLine(t, "end", Begin(t))

HasBlock(t) == Begin(t) # 0
LostItsEnd(t) == HasBlock(t) /\ End(t) = 0

(* The offsets of the block, its last end of line included.                *)
Before(t) == SubSeq(t, 1, Begin(t) - 1)
Past(t) == IF End(t) < Len(t) THEN End(t) + 1 ELSE End(t)

(* Mutant: the block reaches to the end of the file.                       *)
NothingAfter(t) == <<>>
Behind(t) == SubSeq(t, Past(t) + 1, Len(t))
Found(t) == SubSeq(t, Begin(t), Past(t))

(* Mutant: a blank line only where there is none.                          *)
AppendedOnce(t) ==
  IF t = <<>> THEN block
  ELSE IF t[Len(t)] # "nl" THEN t \o <<"nl", "nl">> \o block
  ELSE IF Len(t) > 1 /\ t[Len(t) - 1] = "nl" THEN t \o block
  ELSE t \o <<"nl">> \o block

appendBlock(t) ==
  IF t = <<>> THEN block
  ELSE (IF t[Len(t)] # "nl" THEN t \o <<"nl">> ELSE t) \o <<"nl">> \o block

WithoutBlank(t) ==
  IF Len(t) > 1 /\ t[Len(t)] = "nl" /\ t[Len(t) - 1] = "nl" THEN SubSeq(t, 1, Len(t) - 1) ELSE t

removed(t) == WithoutBlank(Before(t)) \o Behind(t)

Blank(t) == \A i \in 1 .. Len(t) : t[i] = "nl"

(* isOwnFile, isGeneratedScript.                                           *)
IsBbs(t) == t # <<>> /\ t[1] \in {"own", "generated"}

Refused(o, t) == IF kind = "file" THEN o = "install" /\ ~IsBbs(t) ELSE LostItsEnd(t)

(* Mutant: an install writes what is there already.                        *)
NeverCurrent(o, t) == o = "remove" /\ IF kind = "file" THEN ~IsBbs(t) ELSE ~HasBlock(t)

AlreadySo(o, t) ==
  IF kind = "file" THEN IF o = "install" THEN t = ownFile ELSE ~IsBbs(t)
  ELSE IF o = "install" THEN HasBlock(t) /\ Found(t) = block ELSE ~HasBlock(t)

Installed(t) ==
  IF kind = "file" THEN ownFile
  ELSE IF HasBlock(t) THEN Before(t) \o block \o Behind(t) ELSE appendBlock(t)

Removed(t) ==
  IF kind = "file" \/ (kind = "profile" /\ Blank(removed(t))) THEN Absent ELSE removed(t)

Outcome(o, t) == IF o = "install" THEN Installed(t) ELSE Removed(t)

(* Writing words over a text from an offset on, and cutting it to a length.*)
(* A file system fills what lies past the end with NUL.                    *)
Longer(m, n) == IF m < n THEN n ELSE m

Over(t, from, words) ==
  [i \in 1 .. Longer(Len(t), from + Len(words)) |->
     IF from < i /\ i <= from + Len(words) THEN words[i - from]
     ELSE IF i <= Len(t) THEN t[i] ELSE "nul"]

Cut(t, length) == [i \in 1 .. length |-> IF i <= Len(t) THEN t[i] ELSE "nul"]

----------------------------------------------------------------------------
Init ==
  /\ kind \in Kinds
  /\ at \in {Original, Absent}
  /\ text \in {[f \in Files |-> IF f = Original THEN t ELSE <<>>] : t \in Texts}
  /\ said = 0
  /\ pc = [p \in Runs |-> "idle"]
  /\ op = [p \in Runs |-> "install"]
  /\ raw = [p \in Runs |-> Absent] /\ wanted = [p \in Runs |-> Absent]
  /\ opened = [p \in Runs |-> Original]
  /\ told = [p \in Runs |-> "nothing"]
  /\ alone = [p \in Runs |-> FALSE]

Goto(p, step) == pc' = [pc EXCEPT ![p] = step]
Tell(p, what) == Goto(p, "done") /\ told' = [told EXCEPT ![p] = what]

(* What a step that changes the file is to everybody else.                 *)
Meddle(ours) == alone' = [q \in Runs |-> alone[q] /\ (q \in ours \/ File' = File)]

Store(p, t) ==
  /\ text' = [text EXCEPT ![opened[p]] = t] /\ UNCHANGED at
  /\ Meddle({p})

Start(p) ==
  /\ pc[p] = "idle"
  /\ \E o \in {"install", "remove"} : op' = [op EXCEPT ![p] = o]
  /\ Goto(p, "read")
  /\ UNCHANGED <<path, kind, said, raw, wanted, opened, told, alone>>

(* Reading the file, and what it comes to.                                 *)
Looks(p, outcome) ==
  /\ pc[p] = "read"
  /\ raw' = [raw EXCEPT ![p] = File]
  /\ wanted' = [wanted EXCEPT ![p] = outcome]
  /\ alone' = [alone EXCEPT ![p] = TRUE]
  /\ UNCHANGED <<path, kind, said, op, opened>>

ReadFails(p) ==
  /\ pc[p] = "read" /\ at # Absent
  /\ Tell(p, "unreadable")
  /\ UNCHANGED <<path, kind, said, plan, opened, alone>>

FindNone(p) ==
  /\ at = Absent
  /\ Looks(p, IF op[p] = "remove" THEN Absent
              ELSE IF kind = "file" THEN ownFile ELSE appendBlock(<<>>))
  /\ IF op[p] = "remove" THEN Tell(p, "notFound") ELSE Goto(p, "create") /\ UNCHANGED told

FindOther(p) ==
  /\ at # Absent /\ Refused(op[p], text[at])
  /\ Looks(p, text[at])
  /\ Tell(p, "conflict")

(* Mutant: a block is current when it is there.                            *)
AnyBlockWillDo(p) ==
  /\ at # Absent /\ ~Refused(op[p], text[at])
  /\ AlreadySo(op[p], text[at]) \/ (op[p] = "install" /\ HasBlock(text[at]))
  /\ Looks(p, text[at])
  /\ Tell(p, IF op[p] = "install" THEN "unchanged" ELSE "notFound")

FindSo(p) ==
  /\ at # Absent /\ ~Refused(op[p], text[at]) /\ AlreadySo(op[p], text[at])
  /\ Looks(p, text[at])
  /\ Tell(p, IF op[p] = "install" THEN "unchanged" ELSE "notFound")

FindWork(p) ==
  /\ at # Absent /\ ~Refused(op[p], text[at]) /\ ~AlreadySo(op[p], text[at])
  /\ Looks(p, Outcome(op[p], text[at]))
  /\ Goto(p, IF Outcome(op[p], text[at]) = Absent THEN "delete" ELSE "open")
  /\ UNCHANGED told

----------------------------------------------------------------------------
(* createFile.                                                             *)
Create(p) ==
  /\ pc[p] = "create"
  /\ \/ /\ at = Absent
        /\ at' = p /\ opened' = [opened EXCEPT ![p] = p]
        /\ UNCHANGED text /\ Meddle({p})
        /\ Goto(p, "fill") /\ UNCHANGED told
     \/ Tell(p, "failed") /\ UNCHANGED <<path, opened, alone>>
  /\ UNCHANGED <<kind, said, plan>>

Fill(p) ==
  /\ pc[p] = "fill"
  /\ \/ /\ Store(p, Over(text[p], 0, wanted[p]))
        /\ Tell(p, "changed") \/ (Goto(p, "uncreate") /\ UNCHANGED told)
     \/ \E words \in Prefixes(wanted[p]) : Store(p, Over(text[p], 0, words))
        /\ Goto(p, "uncreate") /\ UNCHANGED told
  /\ UNCHANGED <<kind, said, plan, opened>>

(* Taking the file out again may fail as well, and is not looked at: the   *)
(* part of it that was written is left, under the same failure.            *)
Uncreate(p) ==
  /\ pc[p] = "uncreate"
  /\ \/ at' = Absent /\ Goto(p, "done") /\ Meddle({p})
     \/ Goto(p, "left") /\ UNCHANGED <<at, alone>>
  /\ told' = [told EXCEPT ![p] = "failed"]
  /\ UNCHANGED <<text, kind, said, plan, opened>>

(* rewriteFile: only what an install adds is written, or the whole of it.  *)
from(p) == IF IsPrefix(raw[p], wanted[p]) THEN Len(raw[p]) ELSE 0

Rest(p, t) == SubSeq(t, from(p) + 1, Len(t))

Open(p) ==
  /\ pc[p] = "open"
  /\ \/ at # Absent /\ opened' = [opened EXCEPT ![p] = at] /\ Goto(p, "write") /\ UNCHANGED told
     \/ Tell(p, "failed") /\ UNCHANGED opened
  /\ UNCHANGED <<path, kind, said, plan, alone>>

WriteAt(p) ==
  /\ pc[p] = "write"
  /\ \/ /\ Store(p, Over(text[opened[p]], from(p), Rest(p, wanted[p])))
        /\ Goto(p, "truncate")
     \/ /\ \E words \in Prefixes(Rest(p, wanted[p])) :
             Store(p, Over(text[opened[p]], from(p), words))
        /\ Goto(p, "putBack")
  /\ UNCHANGED <<kind, said, plan, opened, told>>

(* Mutant: what is written over a longer text is not cut to its length.    *)
WriteAtOnly(p) ==
  /\ pc[p] = "truncate"
  /\ Tell(p, "changed")
  /\ UNCHANGED <<path, kind, said, plan, opened, alone>>

(* Closing can fail too, and then nothing is put back.                     *)
Truncate(p) ==
  /\ pc[p] = "truncate"
  /\ \/ /\ Store(p, Cut(text[opened[p]], Len(wanted[p])))
        /\ Tell(p, "changed") \/ Tell(p, "failed")
     \/ Goto(p, "putBack") /\ UNCHANGED <<path, told, alone>>
  /\ UNCHANGED <<kind, said, plan, opened>>

PutBack(p) ==
  /\ pc[p] = "putBack"
  /\ \/ /\ Store(p, Over(text[opened[p]], from(p), Rest(p, raw[p])))
        /\ Goto(p, "cutBack") /\ UNCHANGED told
     \/ /\ \E words \in Prefixes(Rest(p, raw[p])) :
             Store(p, Over(text[opened[p]], from(p), words))
        /\ Tell(p, "checkByHand")
  /\ UNCHANGED <<kind, said, plan, opened>>

CutBack(p) ==
  /\ pc[p] = "cutBack"
  /\ \/ Store(p, Cut(text[opened[p]], Len(raw[p]))) /\ Tell(p, "failed")
     \/ Tell(p, "checkByHand") /\ UNCHANGED <<path, alone>>
  /\ UNCHANGED <<kind, said, plan, opened>>

Delete(p) ==
  /\ pc[p] = "delete"
  /\ \/ at # Absent /\ at' = Absent /\ Tell(p, "changed") /\ Meddle({p})
     \/ Tell(p, "failed") /\ UNCHANGED <<at, alone>>
  /\ UNCHANGED <<text, kind, said, plan, opened>>

Kill(p) ==
  /\ pc[p] \notin {"idle", "done", "left", "killed"}
  /\ Goto(p, "killed")
  /\ UNCHANGED <<path, kind, said, plan, opened, told, alone>>

(* The person, or another program, adds a line, or makes the file.         *)
SaySomething ==
  /\ said < MaxSaid
  /\ said' = said + 1
  /\ \E line \in Said :
       IF at = Absent
       THEN at' = said + 1 /\ text' = [text EXCEPT ![said + 1] = <<line, "nl">>]
       ELSE text' = [text EXCEPT ![at] = @ \o <<line, "nl">>] /\ UNCHANGED at
  /\ Meddle({})
  /\ UNCHANGED <<kind, pc, plan, opened, told>>

Run(p) ==
  \/ Start(p) \/ ReadFails(p) \/ FindNone(p) \/ FindOther(p) \/ FindSo(p) \/ FindWork(p)
  \/ Create(p) \/ Fill(p) \/ Uncreate(p)
  \/ Open(p) \/ WriteAt(p) \/ Truncate(p) \/ PutBack(p) \/ CutBack(p)
  \/ Delete(p) \/ Kill(p)

Next == (\E p \in Runs : Run(p)) \/ SaySomething

Spec == Init /\ [][Next]_vars

----------------------------------------------------------------------------
(* Properties.                                                             *)

Steps == {"idle", "read", "create", "fill", "uncreate", "open", "write", "truncate", "putBack",
          "cutBack", "delete", "done", "left", "killed"}

(* Every variable has its type, and a run that changes the file leaves it  *)
(* other than it was (installBlock, removeBlock).                          *)
TypeOK ==
  /\ kind \in Kinds
  /\ at \in Files \cup {Absent}
  /\ text \in [Files -> Text]
  /\ said \in 0 .. MaxSaid
  /\ pc \in [Runs -> Steps]
  /\ op \in [Runs -> {"install", "remove"}]
  /\ raw \in [Runs -> Text \cup {Absent}] /\ wanted \in [Runs -> Text \cup {Absent}]
  /\ opened \in [Runs -> Files]
  /\ told \in [Runs -> {"nothing", "changed", "unchanged", "notFound", "conflict", "failed",
                        "unreadable", "checkByHand"}]
  /\ alone \in [Runs -> BOOLEAN]
  /\ \A p \in Runs : told[p] = "changed" => wanted[p] # raw[p]

(* While nobody else changes the file, a run leaves what it set out to     *)
(* leave, or what was there, or says to check by hand: "What was there     *)
(* survives a write that fails part way" (rewriteFile).  One exception: a  *)
(* new file that could be neither filled nor taken out again is left with  *)
(* the start of what it was to hold; there was nothing to lose, but        *)
(* nothing says so either (createFile).                                    *)
WholeOrAsItWas ==
  \A p \in Runs : alone[p] =>
    /\ pc[p] = "done" =>
         CASE told[p] = "changed" -> File = wanted[p]
           [] told[p] = "failed" -> File \in {raw[p], wanted[p]}
           [] told[p] = "checkByHand" -> TRUE
           [] OTHER -> File = raw[p]
    /\ pc[p] = "left" => raw[p] = Absent /\ File \in Prefixes(wanted[p])

(* Whatever else a file holds, torn writes of other runs included, the     *)
(* lines outside bb's block are kept, all and in their order, and a file   *)
(* that is deleted held none: bb "finds exactly what to take out"          *)
(* (installBlock, removeBlock, findBlock).                                 *)
Theirs(t) ==
  IF t = Absent THEN <<>>
  ELSE LET upTo[n \in 0 .. Len(t)] ==
             IF n = 0 THEN <<>>
             ELSE IF t[n] \in Said THEN upTo[n - 1] \o <<t[n]>>
             ELSE upTo[n - 1]
       IN upTo[Len(t)]

Spoiled(t) == HasBlock(t) /\ ~LostItsEnd(t) /\ Theirs(Found(t)) # <<>>

KeepsTheRest ==
  kind # "file" => \A p \in Runs :
    \/ raw[p] # Absent /\ Spoiled(raw[p])
    \/ Theirs(wanted[p]) = Theirs(raw[p])

(* Removing what an install added brings the text back as it was, but for  *)
(* the end of a last line that had none, and an empty profile: "a file has *)
(* to come back as it was" (appendBlock, removeBlock).                     *)
ComesBack ==
  \A p, q \in Runs :
    /\ op[p] = "install" /\ kind # "file" /\ raw[p] # Absent /\ ~HasBlock(raw[p])
    /\ op[q] = "remove" /\ raw[q] = wanted[p] /\ wanted[q] # raw[q]
    => wanted[q] \in {raw[p], raw[p] \o <<"nl">>} \/ (wanted[q] = Absent /\ Blank(raw[p]))

(* Runs that only install, and neither fail nor are killed, leave one      *)
(* current setup however they overlap (installBlock, createFile, findBlock:*)
(* "a second install replaces it").                                        *)
Calm(p) ==
  /\ op[p] = "install"
  /\ pc[p] \notin {"putBack", "cutBack", "uncreate", "killed"}
  /\ told[p] \notin {"failed", "checkByHand"}

SetUpOnce ==
  /\ \A p \in Runs : Calm(p)
  /\ said = 0
  /\ \E p \in Runs : told[p] \in {"changed", "unchanged"}
  => IF kind = "file" THEN IsPrefix(ownFile, File)
     ELSE Found(File) = block /\ markerLine(File, "begin", Begin(File) + 1) = 0
=============================================================================
