--------------------------- MODULE PullRequestWrite ---------------------------
(***************************************************************************)
(* Commands of bb that change one pull request, each as one or two         *)
(* requests at a version (internal/services/pullrequest), while other      *)
(* people change it too.  What can become of a request is what             *)
(* HttpExchange says: PUT and DELETE are sent again when their answer is   *)
(* lost, POST is not, and a copy can land long after bb gave up on it.     *)
(*                                                                         *)
(* Of Bitbucket it is assumed that every change of a pull request bumps    *)
(* its version, and that a change at another version is refused.           *)
(***************************************************************************)
EXTENDS Naturals

CONSTANTS
  Writers,     \* the commands
  Users,       \* who can review
  Commands,    \* what they can be asked for
  Retries,     \* retry_count
  MaxVersion,  \* other people change nothing past it
  NoVersion,   \* a command that leaves the version to bb
  Keep,        \* a field a command does not name
  Nothing

PullRequest ==
  [version : Nat, state : {"OPEN", "DECLINED", "MERGED"}, draft : BOOLEAN,
   reviewers : SUBSET Users]

Participation == {"addReviewer", "removeReviewer"}
Puts == {"update", "draft"}
Transitions == {"decline", "reopen", "merge", "rebase"}

Command ==
  [op : Puts \cup Transitions \cup Participation, draft : BOOLEAN \cup {Keep},
   reviewers : {Keep} \cup SUBSET Users]

ASSUME PullRequestAssumption ==
  /\ Retries \in Nat /\ MaxVersion \in Nat
  /\ Commands \subseteq Command
  /\ \A c \in Commands :
       /\ c.op = "draft" => c.draft # Keep /\ c.reviewers = Keep
       /\ c.op \in Participation => c.reviewers # Keep
  /\ NoVersion \notin Nat /\ Keep \notin BOOLEAN /\ \A u \in SUBSET Users : u # Keep
  /\ Nothing \notin PullRequest \cup Command

VARIABLES
  pr,         \* the pull request, as Bitbucket has it
  travelling, \* the copies of requests on their way
  pc,
  cmd,
  asserted,   \* --version
  seen,       \* the pull request the command read last
  try,        \* which of its writes this is
  attempt,    \* which attempt of that
  answer,     \* what the attempt was answered
  returned,   \* the pull request the command returns
  told,       \* how it ends
  wrote,      \* whether anything was sent
  garbled,    \* whether an answer's body was no use
  landed,     \* the copies of each command that took effect
  unheard     \* the landed ones whose answer never came

command == <<cmd, asserted>>
request == <<try, attempt, answer>>
result == <<returned, told, garbled>>
ghosts == <<landed, unheard>>
vars == <<pr, travelling, pc, command, seen, request, result, wrote, ghosts>>

Tries == 0 .. 2
Attempts == 0 .. Retries

(* retrypolicy.Replayable: what is sent again when its answer is lost.     *)
Replayable(op) == op \in Puts \cup {"removeReviewer"}

----------------------------------------------------------------------------
Init ==
  /\ pr \in [version : {0}, state : {"OPEN", "DECLINED"}, draft : BOOLEAN, reviewers : {Users}]
  /\ travelling = {}
  /\ pc = [w \in Writers |-> "idle"]
  /\ cmd = [w \in Writers |-> Nothing] /\ asserted = [w \in Writers |-> NoVersion]
  /\ seen = [w \in Writers |-> Nothing]
  /\ try = [w \in Writers |-> 0] /\ attempt = [w \in Writers |-> 0]
  /\ answer = [w \in Writers |-> "none"]
  /\ returned = [w \in Writers |-> Nothing] /\ told = [w \in Writers |-> "nothing"]
  /\ wrote = [w \in Writers |-> FALSE] /\ garbled = [w \in Writers |-> FALSE]
  /\ landed = [w \in Writers |-> {}] /\ unheard = [w \in Writers |-> {}]

Goto(w, step) == pc' = [pc EXCEPT ![w] = step]

Tell(w, kind) == Goto(w, "done") /\ told' = [told EXCEPT ![w] = kind]

(* A command may name the version its caller last saw.  Then nothing is    *)
(* read, unless for the reviewers it does not name.                        *)
Start(w) ==
  /\ pc[w] = "idle"
  /\ \E c \in Commands, v \in {NoVersion} \cup 0 .. pr.version :
       /\ v # NoVersion => c.op \in Transitions \cup {"update"}
       /\ cmd' = [cmd EXCEPT ![w] = c]
       /\ asserted' = [asserted EXCEPT ![w] = v]
       /\ Goto(w, IF v = NoVersion \/ (c.op = "update" /\ c.reviewers = Keep)
                  THEN "read" ELSE "write")
  /\ UNCHANGED <<pr, travelling, seen, request, result, wrote, ghosts>>

(* Mutant: of the second read, only the version is taken.                  *)
ReadVersionOnly(w) ==
  /\ pc[w] \in {"read", "reread"}
  /\ seen' = [seen EXCEPT ![w] = IF pc[w] = "read" THEN pr
                                 ELSE [@ EXCEPT !.version = pr.version]]
  /\ Goto(w, "write")
  /\ UNCHANGED <<pr, travelling, command, request, result, wrote, ghosts>>

(* Service.Get.                                                            *)
Read(w) ==
  /\ pc[w] \in {"read", "reread"}
  /\ seen' = [seen EXCEPT ![w] = pr]
  /\ Goto(w, "write")
  /\ UNCHANGED <<pr, travelling, command, request, result, wrote, ghosts>>

(* When the second read fails, the conflict is reported.                   *)
ReadFails(w) ==
  /\ pc[w] \in {"read", "reread"}
  /\ Tell(w, IF pc[w] = "read" THEN "transient" ELSE "refused")
  /\ UNCHANGED <<pr, travelling, command, seen, request, returned, garbled, wrote, ghosts>>

(* SetDraft sends nothing to a pull request that is closed, or already as  *)
(* it should be.                                                           *)
MayChangeDraft(w) == cmd[w].op = "draft" => seen[w].state = "OPEN"
AlreadyTrue(w) == cmd[w].op = "draft" /\ seen[w].draft = cmd[w].draft

RefuseClosed(w) ==
  /\ pc[w] = "write" /\ ~MayChangeDraft(w)
  /\ Tell(w, "refused")
  /\ UNCHANGED <<pr, travelling, command, seen, request, returned, garbled, wrote, ghosts>>

(* Mutant: whether it is open is asked only of one that has to change.     *)
UnchangedAnyway(w) ==
  /\ pc[w] = "write" /\ AlreadyTrue(w)
  /\ returned' = [returned EXCEPT ![w] = seen[w]]
  /\ Tell(w, "unchanged")
  /\ UNCHANGED <<pr, travelling, command, seen, request, garbled, wrote, ghosts>>

Unchanged(w) ==
  /\ pc[w] = "write" /\ MayChangeDraft(w) /\ AlreadyTrue(w)
  /\ returned' = [returned EXCEPT ![w] = seen[w]]
  /\ Tell(w, "unchanged")
  /\ UNCHANGED <<pr, travelling, command, seen, request, garbled, wrote, ghosts>>

(* What travels: the version asserted or read, and the reviewers named, or *)
(* else echoed.                                                            *)
At(w) ==
  IF asserted[w] # NoVersion THEN asserted[w]
  ELSE IF cmd[w].op \in Participation THEN NoVersion ELSE seen[w].version

(* Mutant: the reviewers a command does not name are left out.             *)
OnlyTheNamed(w) == IF cmd[w].reviewers # Keep THEN cmd[w].reviewers ELSE {}

Echo(w) ==
  IF cmd[w].reviewers # Keep THEN cmd[w].reviewers
  ELSE IF cmd[w].op \in Puts THEN seen[w].reviewers ELSE {}

Copy(w, t, a) ==
  [by |-> w, try |-> t, attempt |-> a, version |-> At(w), reviewers |-> Echo(w)]

Dispatch(w, t, a) ==
  /\ travelling' = travelling \cup {Copy(w, t, a)}
  /\ try' = [try EXCEPT ![w] = t]
  /\ attempt' = [attempt EXCEPT ![w] = a]
  /\ answer' = [answer EXCEPT ![w] = "none"]
  /\ wrote' = [wrote EXCEPT ![w] = TRUE]
  /\ Goto(w, "await")
  /\ UNCHANGED <<pr, command, seen, result>>

Send(w) ==
  /\ pc[w] = "write" /\ MayChangeDraft(w) /\ ~AlreadyTrue(w)
  /\ Dispatch(w, try[w] + 1, 0)
  /\ UNCHANGED ghosts

(* No connection, or somebody interrupts bb.                               *)
NotSent(w) ==
  /\ pc[w] = "write" /\ MayChangeDraft(w) /\ ~AlreadyTrue(w)
  /\ Tell(w, "transient") \/ Tell(w, "cancelled")
  /\ UNCHANGED <<pr, travelling, command, seen, request, returned, garbled, wrote, ghosts>>

----------------------------------------------------------------------------
(* Bitbucket.                                                              *)

(* A declined pull request answers 200 to the draft flag it already has.   *)
Legal(p, c) ==
  /\ c.op \in {"update", "decline", "merge", "rebase"} => p.state = "OPEN"
  /\ c.op = "draft" => p.state = "OPEN" \/ (p.state = "DECLINED" /\ p.draft = c.draft)
  /\ c.op = "reopen" => p.state = "DECLINED"
  /\ c.op \in Participation => p.state # "MERGED"

StateAfter(p, op) ==
  IF op = "decline" THEN "DECLINED"
  ELSE IF op = "reopen" THEN "OPEN"
  ELSE IF op = "merge" THEN "MERGED" ELSE p.state

ReviewersAfter(p, op, reviewers) ==
  IF op \in Puts THEN reviewers
  ELSE IF op = "addReviewer" THEN p.reviewers \cup reviewers
  ELSE IF op = "removeReviewer" THEN p.reviewers \ reviewers ELSE p.reviewers

After(p, c, reviewers) ==
  [version |-> p.version + 1,
   state |-> StateAfter(p, c.op),
   draft |-> IF c.op \in Puts /\ c.draft # Keep THEN c.draft ELSE p.draft,
   reviewers |-> ReviewersAfter(p, c.op, reviewers)]

Current(copy) ==
  pc[copy.by] = "await" /\ copy.try = try[copy.by] /\ copy.attempt = attempt[copy.by]

Reply(copy, verdict) ==
  answer' = [answer EXCEPT ![copy.by] = IF Current(copy) THEN verdict ELSE @]

(* A copy takes effect.                                                    *)
Land(copy) ==
  /\ copy.version \in {NoVersion, pr.version} /\ Legal(pr, cmd[copy.by])
  /\ travelling' = travelling \ {copy}
  /\ pr' = After(pr, cmd[copy.by], copy.reviewers)
  /\ returned' = [returned EXCEPT ![copy.by] = IF Current(copy) THEN pr' ELSE @]
  /\ Reply(copy, "ok")
  /\ landed' = [landed EXCEPT ![copy.by] = @ \cup {<<copy.try, copy.attempt>>}]
  /\ unheard' = [unheard EXCEPT ![copy.by] =
                   IF Current(copy) THEN @ ELSE @ \cup {<<copy.try, copy.attempt>>}]
  /\ UNCHANGED <<pc, command, seen, try, attempt, told, garbled, wrote>>

(* A copy is refused: as out of date, or for its state, a merge veto or    *)
(* whatever else; or it is never carried out, and turned away at most.     *)
(* The answer to one that is not may be a 2xx bb reads nothing of: the 204 *)
(* of a rebase with nothing to do, an empty one from a gateway, or, to the *)
(* removal of a reviewer, a login page.                                    *)
Refusals(copy) ==
  IF copy.version \notin {NoVersion, pr.version} THEN {"stale"} ELSE {"conflict"}

Refuse(copy) ==
  /\ travelling' = travelling \ {copy}
  /\ \E verdict \in Refusals(copy) \cup {"throttled", "unread", "none"} : Reply(copy, verdict)
  /\ UNCHANGED <<pr, pc, command, seen, try, attempt, result, wrote, ghosts>>

(* Other people, and their bbs, push, review, decline, reopen and merge.   *)
SomebodyElse ==
  /\ pr.version < MaxVersion /\ pr.state # "MERGED"
  /\ \E state \in {"OPEN", "DECLINED", "MERGED"}, draft \in BOOLEAN,
        reviewers \in SUBSET Users :
       pr' = [version |-> pr.version + 1, state |-> state, draft |-> draft,
              reviewers |-> reviewers]
  /\ UNCHANGED <<travelling, pc, command, seen, request, result, wrote, ghosts>>

----------------------------------------------------------------------------
(* The answer.                                                             *)

NotHeard(w) ==
  unheard' = [unheard EXCEPT ![w] =
    IF answer[w] = "ok" THEN @ \cup {<<try[w], attempt[w]>>} ELSE @]

(* Mutant: a POST is sent again as well.                                   *)
AnswerLostAnyMethod(w) ==
  /\ pc[w] = "await"
  /\ IF attempt[w] < Retries
     THEN Dispatch(w, try[w], attempt[w] + 1)
     ELSE /\ Tell(w, "transient")
          /\ UNCHANGED <<pr, travelling, command, seen, request, returned, garbled, wrote>>
  /\ NotHeard(w) /\ UNCHANGED landed

(* It is lost, or a gateway's, or a 500.                                   *)
AnswerLost(w) ==
  /\ pc[w] = "await"
  /\ \/ /\ Replayable(cmd[w].op) /\ attempt[w] < Retries
        /\ Dispatch(w, try[w], attempt[w] + 1)
     \/ /\ IF ~Replayable(cmd[w].op) THEN Tell(w, "unknown_outcome")
           ELSE Tell(w, "cancelled") \/ (attempt[w] = Retries /\ Tell(w, "transient"))
        /\ UNCHANGED <<pr, travelling, command, seen, request, returned, garbled, wrote>>
  /\ NotHeard(w) /\ UNCHANGED landed

(* 429: it was not carried out, whatever it was.                           *)
Throttled(w) ==
  /\ pc[w] = "await" /\ answer[w] = "throttled"
  /\ \/ attempt[w] < Retries /\ Dispatch(w, try[w], attempt[w] + 1)
     \/ /\ Tell(w, "cancelled") \/ (attempt[w] = Retries /\ Tell(w, "transient"))
        /\ UNCHANGED <<pr, travelling, command, seen, request, returned, garbled, wrote>>
  /\ UNCHANGED ghosts

(* It arrives, but its body is cut short or does not decode, as a login    *)
(* page's does not.                                                        *)
BreakOff(w) ==
  /\ pc[w] = "await" /\ answer[w] # "none"
  /\ garbled' = [garbled EXCEPT ![w] = TRUE]
  /\ Goto(w, "unusable")
  /\ NotHeard(w)
  /\ UNCHANGED <<pr, travelling, command, seen, request, returned, told, wrote, landed>>

Unusable(w) ==
  /\ pc[w] = "unusable"
  /\ Tell(w, "permanent") \/ Tell(w, "transient")
  /\ UNCHANGED <<pr, travelling, command, seen, request, returned, garbled, wrote, ghosts>>

(* doJSON, Rebase: a success whose body is empty leaves the command        *)
(* without a pull request to return, and is a success all the same.        *)
Succeed(w) ==
  /\ pc[w] = "await" /\ answer[w] \in {"ok", "unread"}
  /\ IF cmd[w].op \in Participation THEN Goto(w, "readBack") /\ UNCHANGED <<told, returned>>
     ELSE \E empty \in BOOLEAN :
            /\ answer[w] = "unread" => empty
            /\ returned' = [returned EXCEPT ![w] = IF empty THEN Nothing ELSE @]
            /\ Tell(w, "ok")
  /\ UNCHANGED <<pr, travelling, command, seen, request, garbled, wrote, ghosts>>

(* Mutant: any conflict is taken for a stale version, as often as it comes.*)
IsAlwaysRetried(w) == answer[w] \in {"stale", "conflict"} /\ asserted[w] = NoVersion

(* retryOnceWhenStale: only of a version bb read itself, and only once.    *)
IsRetried(w) == answer[w] = "stale" /\ asserted[w] = NoVersion /\ try[w] = 1

Retry(w) ==
  /\ pc[w] = "await" /\ IsRetried(w)
  /\ Goto(w, "reread")
  /\ UNCHANGED <<pr, travelling, command, seen, request, result, wrote, ghosts>>

Conflict(w) ==
  /\ pc[w] = "await" /\ answer[w] \in {"stale", "conflict"} /\ ~IsRetried(w)
  /\ Tell(w, "refused")
  /\ UNCHANGED <<pr, travelling, command, seen, request, returned, garbled, wrote, ghosts>>

(* readBack: what a participant's change left behind, or what was read     *)
(* before with the change applied to it, as far as the answer names it.    *)
Applied(p, c) ==
  [version |-> p.version, state |-> p.state, draft |-> p.draft,
   reviewers |-> ReviewersAfter(p, c.op, c.reviewers)]

Confirmed(w) ==
  IF answer[w] = "unread" /\ cmd[w].op = "addReviewer" THEN seen[w]
  ELSE Applied(seen[w], cmd[w])

ReadBack(w) ==
  /\ pc[w] = "readBack"
  /\ \E after \in {pr, Confirmed(w)} : returned' = [returned EXCEPT ![w] = after]
  /\ Tell(w, "ok")
  /\ UNCHANGED <<pr, travelling, command, seen, request, garbled, wrote, ghosts>>

Write(w) ==
  \/ Start(w) \/ Read(w) \/ ReadFails(w) \/ RefuseClosed(w) \/ Unchanged(w)
  \/ Send(w) \/ NotSent(w) \/ AnswerLost(w) \/ Throttled(w) \/ BreakOff(w) \/ Unusable(w)
  \/ Succeed(w) \/ Retry(w) \/ Conflict(w) \/ ReadBack(w)

Next ==
  \/ \E w \in Writers : Write(w)
  \/ \E copy \in travelling : Land(copy) \/ Refuse(copy)
  \/ SomebodyElse

Spec == Init /\ [][Next]_vars

----------------------------------------------------------------------------
(* Properties.                                                             *)

Copies == [by : Writers, try : Tries, attempt : Attempts, version : Nat \cup {NoVersion},
           reviewers : SUBSET Users]

(* Every variable has its type (Service.Update, SetDraft, transition).     *)
TypeOK ==
  /\ pr \in PullRequest
  /\ travelling \subseteq Copies
  /\ pc \in [Writers -> {"idle", "read", "reread", "write", "await", "unusable", "readBack",
                      "done"}]
  /\ cmd \in [Writers -> Commands \cup {Nothing}]
  /\ asserted \in [Writers -> Nat \cup {NoVersion}]
  /\ seen \in [Writers -> PullRequest \cup {Nothing}]
  /\ try \in [Writers -> Tries] /\ attempt \in [Writers -> Attempts]
  /\ answer \in [Writers -> {"none", "ok", "unread", "stale", "conflict", "throttled"}]
  /\ returned \in [Writers -> PullRequest \cup {Nothing}]
  /\ told \in [Writers -> {"nothing", "ok", "unchanged", "refused", "transient", "permanent",
                           "cancelled", "unknown_outcome"}]
  /\ wrote \in [Writers -> BOOLEAN] /\ garbled \in [Writers -> BOOLEAN]
  /\ landed \in [Writers -> SUBSET (Tries \X Attempts)]
  /\ unheard \in [Writers -> SUBSET (Tries \X Attempts)]

(* A change that takes effect at a version bb read takes effect on the     *)
(* very pull request bb read it from, however late its copy, and whether   *)
(* it was the first write or the one after a conflict: "advancing the      *)
(* target branch makes Bitbucket rescope the pull request"                 *)
(* (writeAtCurrentVersion, retryOnceWhenStale).                            *)
Lands(w) == landed'[w] # landed[w]

LandsOnWhatWasRead ==
  [][\A w \in Writers :
       Lands(w) /\ asserted[w] = NoVersion /\ cmd[w].op \notin Participation
         => seen[w] = pr]_vars

(* A command that names no reviewers never adds or drops one, and one that *)
(* names a user touches no other -- whoever reviews meanwhile, and whether *)
(* the version was read or asserted: "an update to the description         *)
(* silently emptied a set of six" (Update, reviewerEcho, #511).            *)
ReviewersKept ==
  [][\A w \in Writers : Lands(w) =>
       LET changed == (pr.reviewers \ pr'.reviewers) \cup (pr'.reviewers \ pr.reviewers)
       IN IF cmd[w].reviewers = Keep THEN changed = {}
          ELSE cmd[w].op \in Participation => changed \subseteq cmd[w].reviewers]_vars

(* What ready and draft return is an open pull request in the state that   *)
(* was asked for: "a declined pull request sent the draft flag it already  *)
(* holds answers 200 ... Sending that would report a declined pull request *)
(* as marked ready for review" (DraftChangeRefusal).  Of an answer that    *)
(* was empty nothing is returned.                                          *)
DraftToldOfOpen ==
  \A w \in Writers :
    /\ cmd[w] # Nothing /\ cmd[w].op = "draft"
    /\ told[w] = "unchanged" \/ (told[w] = "ok" /\ returned[w] # Nothing)
    => returned[w].state = "OPEN" /\ returned[w].draft = cmd[w].draft

(* A change takes effect more than once only where the answer to one that  *)
(* took effect never came, and the method is sent again for that; and      *)
(* never more than twice (retryOnceWhenStale).                             *)
RepeatsOnlyTheUnheard ==
  \A w \in Writers : \A one, other \in landed[w] :
    one # other =>
      /\ Replayable(cmd[w].op)
      /\ one \in unheard[w] \/ other \in unheard[w]
      /\ cmd[w].op \in Puts => landed[w] = {one, other}

(* A merge, a decline, a reopen, a rebase or a new reviewer keeps, with    *)
(* both its writes and the read between them, the promise of a single      *)
(* request that is never replayed (transition, Rebase, updateReviewer,     *)
(* ADR-011).                                                               *)
IsPost(w) == cmd[w] # Nothing /\ ~Replayable(cmd[w].op)

Promise(w) == INSTANCE RequestPromise WITH
  Copies <- Tries \X Attempts,
  sent <- IsPost(w) /\ wrote[w],
  landed <- IF IsPost(w) THEN landed[w] ELSE {},
  garbled <- IsPost(w) /\ garbled[w],
  unread <- IsPost(w) /\ answer[w] = "unread",
  told <- IF IsPost(w) THEN told[w] ELSE "nothing"

KeepThePromise ==
  /\ \A w \in Writers : Promise(w)!Init
  /\ [][\A w \in Writers : [Promise(w)!Next]_(Promise(w)!vars)]_vars

(* "The retry is safe because of what the refusal is: ... a stale-version  *)
(* 409 applied nothing" (version.go:27): a command that is about to write  *)
(* again has changed nothing yet.                                          *)
RetryIsSafe == \A w \in Writers : pc[w] = "reread" => landed[w] = {}
=============================================================================
