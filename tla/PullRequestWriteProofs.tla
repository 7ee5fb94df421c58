------------------------ MODULE PullRequestWriteProofs ------------------------
(***************************************************************************)
(* What holds of PullRequestWrite for any number of commands, users and    *)
(* retries.                                                                *)
(*                                                                         *)
(* The argument: a version names one state of the pull request, so a copy  *)
(* at the present version carries what was read of the present state.  A   *)
(* command writes again only when all it sent before is out of date.       *)
(***************************************************************************)
EXTENDS PullRequestWrite, TLAPS

Sent(w) == pc[w] \in {"await", "unusable", "reread", "readBack"}
Waiting(w) == pc[w] \in {"await", "unusable", "reread"}
Versioned(w) == cmd[w].op \notin Participation

(* A command is known once it started, and read what it needs to.          *)
Started ==
  \A w \in Writers :
    /\ (pc[w] = "idle") <=> (cmd[w] = Nothing)
    /\ pc[w] \in {"idle", "read"} => try[w] = 0 /\ ~wrote[w] /\ told[w] = "nothing"
    /\ pc[w] = "idle" => seen[w] = Nothing /\ asserted[w] = NoVersion
    /\ pc[w] # "done" => told[w] = "nothing"
    /\ ~wrote[w] => landed[w] = {} /\ \A c \in travelling : c.by # w
    /\ Sent(w) => wrote[w]
    /\ wrote[w] => 1 <= try[w]
    /\ asserted[w] # NoVersion => cmd[w].op \in Transitions \cup {"update"} /\ try[w] < 2
    /\ pc[w] = "reread" => asserted[w] = NoVersion /\ try[w] = 1
    /\ pc[w] = "readBack" => cmd[w].op \in Participation
    /\ answer[w] = "unread" => pc[w] \in {"await", "unusable", "readBack", "done"}
    /\ pc[w] = "write" => try[w] < 2 /\ (try[w] = 1 => asserted[w] = NoVersion)
    /\ (pc[w] = "write" \/ wrote[w]) /\ seen[w] = Nothing =>
         asserted[w] # NoVersion /\ ~(cmd[w].op = "update" /\ cmd[w].reviewers = Keep)

(* A version names one state.                                              *)
SeenIsOld ==
  \A w \in Writers :
    /\ seen[w] # Nothing =>
         /\ seen[w].version <= pr.version
         /\ (seen[w].version = pr.version => seen[w] = pr)
         /\ asserted[w] # NoVersion => asserted[w] <= seen[w].version
    /\ asserted[w] # NoVersion => asserted[w] <= pr.version

(* A copy lands once, and no two are the same.                             *)
Distinct ==
  /\ \A c \in travelling :
       /\ <<c.try, c.attempt>> \notin landed[c.by]
       /\ c.try = try[c.by] => c.attempt <= attempt[c.by]
  /\ \A c, d \in travelling :
       c.by = d.by /\ c.try = d.try /\ c.attempt = d.attempt => c = d
  /\ \A w \in Writers : \A x \in landed[w] :
       x[1] <= try[w] /\ (x[1] = try[w] => x[2] <= attempt[w])

(* What a copy carries, and which copies are out of date.                  *)
Carried ==
  \A c \in travelling :
    /\ 1 <= c.try /\ c.try <= try[c.by]
    /\ Waiting(c.by) /\ c.try = try[c.by] => c.version = At(c.by) /\ c.reviewers = Echo(c.by)
    /\ ~Versioned(c.by) => c.version = NoVersion /\ c.reviewers = Echo(c.by)
    /\ Versioned(c.by) =>
         /\ c.version \in Nat /\ c.version <= pr.version
         /\ c.version = pr.version => c.version = At(c.by) /\ c.reviewers = Echo(c.by)

OutOfDate ==
  \A w \in Writers :
    /\ pc[w] = "await" /\ answer[w] = "stale" => Versioned(w) /\ At(w) < pr.version
    /\ pc[w] = "reread" => Versioned(w) /\ At(w) < pr.version
    /\ pc[w] \in {"write", "reread"} => \A c \in travelling :
         c.by = w => c.version \in Nat /\ c.version < pr.version

(* Only an open pull request's draft flag is sent.                         *)
DraftOfOpen ==
  \A w \in Writers : Waiting(w) /\ cmd[w].op = "draft" =>
    /\ seen[w].state = "OPEN"
    /\ answer[w] = "ok" => returned[w].state = "OPEN" /\ returned[w].draft = cmd[w].draft

(* A write lands once at its version.                                      *)
OncePerTry ==
  \A w \in Writers : cmd[w] # Nothing /\ Versioned(w) =>
    /\ \A x \in landed[w] : x[1] \in 1 .. try[w]
    /\ \A x, y \in landed[w] : x[1] = y[1] => x = y
    /\ \A x \in landed[w], c \in travelling : c.by = w /\ c.try = x[1] => c.version < pr.version
    /\ \A x \in landed[w] : pc[w] = "await" /\ x[1] = try[w] => At(w) < pr.version

(* Every landed copy but the present one went unheard.                     *)
HeardOnce ==
  \A w \in Writers :
    /\ unheard[w] \subseteq landed[w]
    /\ pc[w] = "await" /\ answer[w] = "ok" => <<try[w], attempt[w]>> \in landed[w]
    /\ \A x \in landed[w] : x \notin unheard[w] =>
         /\ x = <<try[w], attempt[w]>>
         /\ pc[w] = "await" => answer[w] = "ok"
         /\ pc[w] \in {"await", "readBack", "done"}

(* A POST has one copy that can still land, until it has landed.           *)
PostOnce ==
  \A w \in Writers : IsPost(w) =>
    /\ \A c \in travelling : c.by = w =>
         /\ landed[w] = {} /\ c.try = try[w] /\ c.attempt = attempt[w]
         /\ pc[w] \in {"await", "done"}
         /\ pc[w] = "await" => answer[w] = "none"
         /\ pc[w] = "done" => told[w] = "unknown_outcome"
    /\ landed[w] # {} =>
         /\ pc[w] \in {"await", "unusable", "readBack", "done"}
         /\ pc[w] = "await" => answer[w] = "ok"
         /\ pc[w] = "done" => (told[w] \in {"ok", "unknown_outcome"} \/ garbled[w])
         /\ \E x \in Tries \X Attempts : landed[w] = {x}
    /\ pc[w] = "await" /\ answer[w] = "ok" => landed[w] # {}
    /\ pc[w] = "readBack" => landed[w] # {} \/ answer[w] = "unread"
    /\ pc[w] = "unusable" => garbled[w]

IInv ==
  /\ TypeOK /\ Started /\ SeenIsOld /\ Distinct /\ Carried /\ OutOfDate
  /\ DraftOfOpen /\ DraftToldOfOpen /\ OncePerTry /\ HeardOnce /\ PostOnce

----------------------------------------------------------------------------
(* What a write carries, while its command is the same and reads nothing.  *)
LEMMA CarriedKept ==
  ASSUME UNCHANGED <<command, seen>>
  PROVE  \A w \in Writers : At(w)' = At(w) /\ Echo(w)' = Echo(w)
BY DEF At, Echo, command

LEMMA AtIsNumber ==
  ASSUME IInv, NEW w \in Writers, cmd[w] # Nothing, pc[w] = "write" \/ wrote[w]
  PROVE  /\ Versioned(w) => At(w) \in Nat /\ At(w) <= pr.version
         /\ ~Versioned(w) => At(w) = NoVersion
<1>. USE PullRequestAssumption DEF IInv, TypeOK, Started, SeenIsOld, Versioned, Participation,
         Transitions
<1>1. CASE asserted[w] # NoVersion
  BY <1>1 DEF At, PullRequest
<1>2. CASE asserted[w] = NoVersion /\ Versioned(w)
  <2>1. seen[w] \in PullRequest /\ seen[w].version <= pr.version
    BY <1>2
  <2>2. At(w) = seen[w].version
    BY <1>2 DEF At
  <2>. QED
    BY <1>2, <2>1, <2>2 DEF PullRequest
<1>3. CASE asserted[w] = NoVersion /\ ~Versioned(w)
  BY <1>3 DEF At
<1>. QED
  BY <1>1, <1>2, <1>3

(* What sending a copy changes.                                            *)
LEMMA Dispatched ==
  ASSUME TypeOK, NEW w \in Writers, NEW t, NEW a, Dispatch(w, t, a)
  PROVE  /\ travelling \subseteq travelling'
         /\ \E copy \in travelling' :
              copy.by = w /\ copy.try = t /\ copy.attempt = a
         /\ \A c \in travelling' : c \notin travelling =>
              c.by = w /\ c.try = t /\ c.attempt = a /\ c.version = At(w) /\ c.reviewers = Echo(w)
         /\ \A c, d \in travelling' : c \notin travelling /\ d \notin travelling => c = d
         /\ try'[w] = t /\ attempt'[w] = a /\ answer'[w] = "none" /\ wrote'[w] /\ pc'[w] = "await"
         /\ \A v \in Writers : v # w =>
              /\ try'[v] = try[v] /\ attempt'[v] = attempt[v] /\ answer'[v] = answer[v]
              /\ wrote'[v] = wrote[v] /\ pc'[v] = pc[v]
         /\ UNCHANGED <<pr, command, seen, result>>
<1>1. travelling' = travelling \cup {Copy(w, t, a)}
  BY DEF Dispatch
<1>2. /\ Copy(w, t, a).by = w /\ Copy(w, t, a).try = t /\ Copy(w, t, a).attempt = a
      /\ Copy(w, t, a).version = At(w) /\ Copy(w, t, a).reviewers = Echo(w)
  BY DEF Copy
<1>3. /\ try'[w] = t /\ attempt'[w] = a /\ answer'[w] = "none" /\ wrote'[w] /\ pc'[w] = "await"
      /\ \A v \in Writers : v # w =>
           /\ try'[v] = try[v] /\ attempt'[v] = attempt[v] /\ answer'[v] = answer[v]
           /\ wrote'[v] = wrote[v] /\ pc'[v] = pc[v]
  BY DEF Dispatch, Goto, TypeOK
<1>4. UNCHANGED <<pr, command, seen, result>>
  BY DEF Dispatch
<1>. QED
  BY <1>1, <1>2, <1>3, <1>4, Zenon

LEMMA NextVersion ==
  ASSUME TypeOK, SomebodyElse \/ \E copy \in travelling : Land(copy)
  PROVE  pr.version \in Nat /\ pr'.version = pr.version + 1
<1>1. pr.version \in Nat
  BY DEF TypeOK, PullRequest
<1>2. CASE SomebodyElse
  BY <1>1, <1>2 DEF SomebodyElse
<1>3. CASE \E copy \in travelling : Land(copy)
  <2>1. PICK copy \in travelling : pr' = After(pr, cmd[copy.by], copy.reviewers)
    BY <1>3 DEF Land
  <2>. QED
    BY <1>1, <2>1 DEF After
<1>. QED
  BY <1>1, <1>2, <1>3

(* What a copy that takes effect changes, and what one that is refused.    *)
LEMMA LandFacts ==
  ASSUME TypeOK, NEW copy \in travelling, Land(copy)
  PROVE  /\ copy.by \in Writers /\ copy.try \in Tries /\ copy.attempt \in Attempts
         /\ copy.version \in {NoVersion, pr.version}
         /\ pr.version \in Nat /\ pr'.version = pr.version + 1
         /\ travelling' = travelling \ {copy}
         /\ UNCHANGED <<pc, cmd, asserted, seen, try, attempt, told, garbled, wrote>>
         /\ \A v \in Writers : v # copy.by =>
              /\ landed'[v] = landed[v] /\ unheard'[v] = unheard[v]
              /\ answer'[v] = answer[v] /\ returned'[v] = returned[v]
         /\ landed'[copy.by] = landed[copy.by] \cup {<<copy.try, copy.attempt>>}
         /\ Current(copy) =>
              answer'[copy.by] = "ok" /\ returned'[copy.by] = pr' /\ unheard'[copy.by] = unheard[copy.by]
         /\ ~Current(copy) =>
              /\ answer'[copy.by] = answer[copy.by] /\ returned'[copy.by] = returned[copy.by]
              /\ unheard'[copy.by] = unheard[copy.by] \cup {<<copy.try, copy.attempt>>}
<1>1. copy.by \in Writers /\ copy.try \in Tries /\ copy.attempt \in Attempts
  BY DEF TypeOK, Copies
<1>2. pr.version \in Nat /\ pr'.version = pr.version + 1
  BY NextVersion
<1>3. /\ copy.version \in {NoVersion, pr.version} /\ travelling' = travelling \ {copy}
      /\ UNCHANGED <<pc, cmd, asserted, seen, try, attempt, told, garbled, wrote>>
  BY DEF Land, command
<1>. DEFINE by == copy.by
            one == {<<copy.try, copy.attempt>>}
<1>4. /\ landed' = [landed EXCEPT ![by] = landed[by] \cup one]
      /\ unheard' = [unheard EXCEPT ![by] = IF Current(copy) THEN unheard[by] ELSE unheard[by] \cup one]
      /\ answer' = [answer EXCEPT ![by] = IF Current(copy) THEN "ok" ELSE answer[by]]
      /\ returned' = [returned EXCEPT ![by] = IF Current(copy) THEN pr' ELSE returned[by]]
  BY DEF Land, Reply
<1>5. DOMAIN landed = Writers /\ DOMAIN unheard = Writers /\ DOMAIN answer = Writers
      /\ DOMAIN returned = Writers /\ by \in Writers
  BY <1>1 DEF TypeOK
<1>. HIDE DEF by, one
<1>6. /\ \A v \in Writers : v # by =>
           /\ landed'[v] = landed[v] /\ unheard'[v] = unheard[v]
           /\ answer'[v] = answer[v] /\ returned'[v] = returned[v]
      /\ landed'[by] = landed[by] \cup one
      /\ Current(copy) => answer'[by] = "ok" /\ returned'[by] = pr' /\ unheard'[by] = unheard[by]
      /\ ~Current(copy) => /\ answer'[by] = answer[by] /\ returned'[by] = returned[by]
                           /\ unheard'[by] = unheard[by] \cup one
  BY <1>4, <1>5
<1>. QED
  BY <1>1, <1>2, <1>3, <1>6 DEF by, one

LEMMA RefuseFacts ==
  ASSUME TypeOK, NEW copy \in travelling, Refuse(copy)
  PROVE  /\ copy.by \in Writers /\ travelling' = travelling \ {copy}
         /\ UNCHANGED <<pr, pc, cmd, asserted, seen, try, attempt, returned, told, garbled, wrote,
                        landed, unheard>>
         /\ \A v \in Writers : v # copy.by => answer'[v] = answer[v]
         /\ ~Current(copy) => answer'[copy.by] = answer[copy.by]
         /\ Current(copy) =>
              /\ answer'[copy.by] \in {"stale", "conflict", "throttled", "unread", "none"}
              /\ answer'[copy.by] = "stale" => copy.version \notin {NoVersion, pr.version}
<1>1. copy.by \in Writers /\ DOMAIN answer = Writers
  BY DEF TypeOK, Copies
<1>2. PICK verdict \in Refusals(copy) \cup {"throttled", "unread", "none"} : Reply(copy, verdict)
  BY DEF Refuse
<1>3. /\ verdict \in {"stale", "conflict", "throttled", "unread", "none"}
      /\ verdict = "stale" => copy.version \notin {NoVersion, pr.version}
  BY DEF Refusals
<1>4. answer' = [answer EXCEPT ![copy.by] = IF Current(copy) THEN verdict ELSE answer[copy.by]]
  BY <1>2 DEF Reply
<1>5. /\ \A v \in Writers : v # copy.by => answer'[v] = answer[v]
      /\ ~Current(copy) => answer'[copy.by] = answer[copy.by]
      /\ Current(copy) => answer'[copy.by] = verdict
  BY <1>1, <1>4
<1>. QED
  BY <1>1, <1>3, <1>5 DEF Refuse, command, result, ghosts

(* The steps of a command that send nothing, and change neither what it is *)
(* nor what it read: one that ends, or takes in the answer it was given.   *)
Quiet(w) ==
  \/ ReadFails(w) \/ RefuseClosed(w) \/ Unchanged(w) \/ NotSent(w) \/ Unusable(w)
  \/ Conflict(w) \/ ReadBack(w) \/ Succeed(w) \/ BreakOff(w)

LEMMA QuietFacts ==
  ASSUME TypeOK, NEW w \in Writers, Quiet(w)
  PROVE  /\ \A v \in Writers : v # w => pc'[v] = pc[v] /\ returned'[v] = returned[v]
         /\ pc'[w] \in {"readBack", "unusable", "done"}
         /\ pc'[w] # "done" => pc[w] = "await" /\ returned'[w] = returned[w]
         /\ UNCHANGED <<pr, travelling, command, cmd, asserted, seen, try, attempt, answer, wrote,
                        landed>>
<1>. USE DEF TypeOK, Tell, Goto, command, request, result, ghosts
<1>1. CASE ReadFails(w)
  BY <1>1 DEF ReadFails
<1>2. CASE RefuseClosed(w)
  BY <1>2 DEF RefuseClosed
<1>3. CASE Unchanged(w)
  BY <1>3 DEF Unchanged
<1>4. CASE NotSent(w)
  BY <1>4 DEF NotSent
<1>5. CASE Unusable(w)
  BY <1>5 DEF Unusable
<1>6. CASE Conflict(w)
  BY <1>6 DEF Conflict
<1>7. CASE ReadBack(w)
  BY <1>7 DEF ReadBack
<1>8. CASE Succeed(w)
  BY <1>8 DEF Succeed
<1>9. CASE BreakOff(w)
  BY <1>9 DEF BreakOff
<1>. QED
  BY <1>1, <1>2, <1>3, <1>4, <1>5, <1>6, <1>7, <1>8, <1>9 DEF Quiet

LEMMA StartFacts ==
  ASSUME TypeOK, NEW w \in Writers, Start(w)
  PROVE  /\ pc[w] = "idle" /\ pc'[w] \in {"read", "write"}
         /\ \A v \in Writers : v # w =>
              pc'[v] = pc[v] /\ cmd'[v] = cmd[v] /\ asserted'[v] = asserted[v]
         /\ UNCHANGED <<pr, travelling, seen, try, attempt, answer, returned, wrote, landed>>
  BY DEF Start, Goto, TypeOK, request, result, ghosts

LEMMA ReadFacts ==
  ASSUME TypeOK, NEW w \in Writers, Read(w)
  PROVE  /\ pc[w] \in {"read", "reread"} /\ pc'[w] = "write" /\ seen'[w] = pr
         /\ \A v \in Writers : v # w => pc'[v] = pc[v] /\ seen'[v] = seen[v]
         /\ UNCHANGED <<pr, travelling, cmd, asserted, try, attempt, answer, returned, wrote, landed>>
  BY DEF Read, Goto, TypeOK, command, request, result, ghosts

LEMMA RetryFacts ==
  ASSUME TypeOK, NEW w \in Writers, Retry(w)
  PROVE  /\ pc[w] = "await" /\ IsRetried(w) /\ pc'[w] = "reread"
         /\ \A v \in Writers : v # w => pc'[v] = pc[v]
         /\ UNCHANGED <<pr, travelling, command, cmd, asserted, seen, try, attempt, answer, returned,
                        wrote, landed>>
  BY DEF Retry, Goto, TypeOK, command, request, result, ghosts

LEMMA NotHeardAdds ==
  ASSUME TypeOK, NEW w \in Writers, NotHeard(w)
  PROVE  /\ \A v \in Writers : v # w => unheard'[v] = unheard[v]
         /\ unheard' \in [Writers -> SUBSET (Tries \X Attempts)]
         /\ \A x : x \in unheard'[w] <=>
              x \in unheard[w] \/ (answer[w] = "ok" /\ x = <<try[w], attempt[w]>>)
<1>1. <<try[w], attempt[w]>> \in Tries \X Attempts /\ unheard[w] \in SUBSET (Tries \X Attempts)
  BY DEF TypeOK
<1>2. CASE answer[w] = "ok"
  BY <1>1, <1>2 DEF NotHeard, TypeOK
<1>3. CASE answer[w] # "ok"
  BY <1>1, <1>3 DEF NotHeard, TypeOK
<1>. QED
  BY <1>2, <1>3

LEMMA EchoIsUsers ==
  ASSUME IInv, NEW w \in Writers, cmd[w] # Nothing, pc[w] = "write" \/ wrote[w]
  PROVE  Echo(w) \in SUBSET Users
<1>1. cmd[w] \in Command
  BY PullRequestAssumption DEF IInv, TypeOK
<1>2. CASE cmd[w].reviewers # Keep
  BY <1>1, <1>2 DEF Echo, Command
<1>3. CASE cmd[w].reviewers = Keep /\ cmd[w].op \in Puts
  <2>1. seen[w] \in PullRequest
    BY <1>3 DEF IInv, TypeOK, Started, Puts, Transitions
  <2>. QED
    BY <1>3, <2>1 DEF Echo, PullRequest
<1>4. CASE cmd[w].reviewers = Keep /\ cmd[w].op \notin Puts
  BY <1>4 DEF Echo
<1>. QED
  BY <1>2, <1>3, <1>4

LEMMA DispatchTyped ==
  ASSUME IInv, NEW w \in Writers, cmd[w] # Nothing, pc[w] = "write" \/ wrote[w],
         NEW t \in Tries, NEW a \in Attempts, Dispatch(w, t, a),
         landed' = landed, unheard' \in [Writers -> SUBSET (Tries \X Attempts)]
  PROVE  TypeOK'
<1>1. At(w) \in Nat \cup {NoVersion} /\ Echo(w) \in SUBSET Users
  BY AtIsNumber, EchoIsUsers
<1>2. Copy(w, t, a) \in Copies
  BY <1>1 DEF Copy, Copies
<1>3. travelling' \subseteq Copies
  BY <1>2 DEF IInv, TypeOK, Dispatch
<1>4. /\ try' \in [Writers -> Tries] /\ attempt' \in [Writers -> Attempts]
      /\ answer' \in [Writers -> {"none", "ok", "unread", "stale", "conflict", "throttled"}]
      /\ wrote' \in [Writers -> BOOLEAN]
      /\ pc' \in [Writers -> {"idle", "read", "reread", "write", "await", "unusable",
                             "readBack", "done"}]
  BY DEF IInv, TypeOK, Dispatch, Goto
<1>5. UNCHANGED <<pr, cmd, asserted, seen, returned, told, garbled>>
  BY DEF Dispatch, command, result
<1>. QED
  BY <1>3, <1>4, <1>5 DEF IInv, TypeOK

(* A newer copy is none of those there were.                               *)
LEMMA DispatchDistinct ==
  ASSUME IInv, NEW w \in Writers, NEW t \in Nat, NEW a \in Nat, Dispatch(w, t, a),
         landed' = landed, t > try[w] \/ (t = try[w] /\ a > attempt[w])
  PROVE  Distinct'
<1>. DEFINE new == Copy(w, t, a)
<1>1. new.by = w /\ new.try = t /\ new.attempt = a
  BY DEF Copy
<1>2. travelling' = travelling \cup {new}
  BY DEF Dispatch
<1>3. /\ \A v \in Writers : try[v] \in Nat /\ attempt[v] \in Nat
      /\ \A c \in travelling : c.by \in Writers /\ c.try \in Nat /\ c.attempt \in Nat
      /\ \A c \in travelling : c.try <= try[c.by]
      /\ \A v \in Writers : landed[v] \in SUBSET (Tries \X Attempts)
  BY PullRequestAssumption DEF IInv, TypeOK, Tries, Attempts, Copies, Carried
<1>4. /\ \A v \in Writers : v # w => try'[v] = try[v] /\ attempt'[v] = attempt[v]
      /\ try'[w] = t /\ attempt'[w] = a
  BY DEF IInv, TypeOK, Dispatch
<1>. HIDE DEF new
<1>5. \A c \in travelling : c.by = w => ~(c.try = t /\ c.attempt = a)
  <2>1. \A c \in travelling : c.try = try[c.by] => c.attempt <= attempt[c.by]
    BY DEF IInv, Distinct
  <2>. QED
    BY <1>3, <2>1
<1>6. \A x \in landed[w] : x[1] <= t /\ (x[1] = t => x[2] < a) /\ x[1] \in Nat /\ x[2] \in Nat
  <2>. TAKE x \in landed[w]
  <2>1. x \in Tries \X Attempts
    BY <1>3
  <2>2. x[1] \in Nat /\ x[2] \in Nat
    BY <2>1, PullRequestAssumption DEF Tries, Attempts
  <2>. QED
    BY <1>3, <2>2 DEF IInv, Distinct
<1>7. \A c \in travelling' :
        /\ <<c.try, c.attempt>> \notin landed'[c.by]
        /\ c.try = try'[c.by] => c.attempt <= attempt'[c.by]
  <2>. TAKE c \in travelling'
  <2>1. CASE c \in travelling
    BY <1>3, <1>4, <2>1 DEF IInv, Distinct
  <2>2. CASE c = new
    <3>1. <<t, a>> \notin landed[w]
      <4>1. SUFFICES ASSUME <<t, a>> \in landed[w] PROVE FALSE
        OBVIOUS
      <4>. QED
        BY <4>1, <1>6
    <3>. QED
      BY <1>1, <1>4, <2>2, <3>1
  <2>. QED
    BY <1>2, <2>1, <2>2
<1>8. \A c, d \in travelling' :
        c.by = d.by /\ c.try = d.try /\ c.attempt = d.attempt => c = d
  BY <1>1, <1>2, <1>5 DEF IInv, Distinct
<1>9. \A v \in Writers : \A x \in landed'[v] :
        x[1] <= try'[v] /\ (x[1] = try'[v] => x[2] <= attempt'[v])
  <2>. TAKE v \in Writers
  <2>1. CASE v = w
    BY <1>4, <1>6, <2>1
  <2>2. CASE v # w
    BY <1>4, <2>2 DEF IInv, Distinct
  <2>. QED
    BY <2>1, <2>2
<1>. QED
  BY <1>7, <1>8, <1>9 DEF Distinct

(* What a command sends at a version carries what it read at that version. *)
LEMMA DispatchCarried ==
  ASSUME IInv, NEW w \in Writers, cmd[w] # Nothing, pc[w] = "write" \/ wrote[w],
         NEW t \in 1 .. 2, NEW a, Dispatch(w, t, a),
         t > try[w] \/ (t = try[w] /\ Waiting(w))
  PROVE  Carried'
<1>. DEFINE new == Copy(w, t, a)
<1>1. /\ new.by = w /\ new.try = t /\ new.attempt = a
      /\ new.version = At(w) /\ new.reviewers = Echo(w)
  BY DEF Copy
<1>2. travelling' = travelling \cup {new} /\ UNCHANGED <<pr, command, seen, cmd, asserted>>
  BY DEF Dispatch, command
<1>3. /\ \A v \in Writers : v # w => try'[v] = try[v] /\ pc'[v] = pc[v]
      /\ try'[w] = t /\ pc'[w] = "await"
  BY DEF IInv, TypeOK, Dispatch, Goto
<1>4. /\ \A v \in Writers : try[v] \in Nat
      /\ \A c \in travelling : c.by \in Writers /\ c.try \in Nat
  BY PullRequestAssumption DEF IInv, TypeOK, Tries, Copies
<1>5. \A v \in Writers : At(v)' = At(v) /\ Echo(v)' = Echo(v) /\ Versioned(v)' = Versioned(v)
  BY <1>2, CarriedKept DEF Versioned
<1>6. /\ Versioned(w) => At(w) \in Nat /\ At(w) <= pr.version
      /\ ~Versioned(w) => At(w) = NoVersion
  BY AtIsNumber
<1>. HIDE DEF new
<1>. SUFFICES ASSUME NEW c \in travelling'
     PROVE /\ 1 <= c.try /\ c.try <= try'[c.by]
           /\ Waiting(c.by)' /\ c.try = try'[c.by] =>
                c.version = At(c.by)' /\ c.reviewers = Echo(c.by)'
           /\ ~Versioned(c.by)' => c.version = NoVersion /\ c.reviewers = Echo(c.by)'
           /\ Versioned(c.by)' =>
                /\ c.version \in Nat /\ c.version <= pr'.version
                /\ c.version = pr'.version => c.version = At(c.by)' /\ c.reviewers = Echo(c.by)'
  BY DEF Carried
<1>7. CASE c = new
  BY <1>1, <1>2, <1>3, <1>5, <1>6, <1>7
<1>8. CASE c \in travelling
  <2>1. c.by \in Writers /\ pr' = pr
    BY <1>2, <1>4, <1>8
  <2>2. CASE c.by = w
    BY <1>2, <1>3, <1>4, <1>5, <1>8, <2>1, <2>2 DEF IInv, Carried
  <2>3. CASE c.by # w
    <3>1. Waiting(c.by)' = Waiting(c.by)
      BY <1>3, <2>1, <2>3 DEF Waiting
    <3>. QED
      BY <1>3, <1>5, <1>8, <2>1, <2>3, <3>1 DEF IInv, Carried
  <2>. QED
    BY <2>2, <2>3
<1>. QED
  BY <1>2, <1>7, <1>8

(* An attempt that is lost is either sent again or the end.                *)
LEMMA LostOrThrottled ==
  ASSUME IInv, NEW w \in Writers, AnswerLost(w) \/ Throttled(w)
  PROVE  /\ pc[w] = "await" /\ wrote[w] /\ cmd[w] # Nothing /\ landed' = landed
         /\ try[w] \in 1 .. 2 /\ attempt[w] \in Attempts
         /\ unheard' \in [Writers -> SUBSET (Tries \X Attempts)]
         /\ AnswerLost(w) => NotHeard(w)
         /\ Throttled(w) => unheard' = unheard
         /\ \/ attempt[w] + 1 \in Attempts /\ Dispatch(w, try[w], attempt[w] + 1)
            \/ /\ pc' = [pc EXCEPT ![w] = "done"]
               /\ \E kind \in {"unknown_outcome", "cancelled", "transient"} :
                    told' = [told EXCEPT ![w] = kind]
               /\ UNCHANGED <<pr, travelling, cmd, asserted, seen, try, attempt, answer,
                              returned, garbled, wrote>>
<1>1. pc[w] = "await" /\ landed' = landed
  BY DEF AnswerLost, Throttled, ghosts
<1>2. wrote[w] /\ cmd[w] # Nothing
  BY <1>1 DEF IInv, Started, Sent
<1>3. try[w] \in 1 .. 2 /\ attempt[w] \in Attempts
  BY <1>2 DEF IInv, TypeOK, Tries, Started
<1>4. AnswerLost(w) => NotHeard(w)
  BY DEF AnswerLost
<1>5. Throttled(w) => unheard' = unheard
  BY DEF Throttled, ghosts
<1>6. unheard' \in [Writers -> SUBSET (Tries \X Attempts)]
  <2>1. CASE AnswerLost(w)
    BY <1>4, <2>1, NotHeardAdds DEF IInv
  <2>2. CASE Throttled(w)
    BY <1>5, <2>2 DEF IInv, TypeOK
  <2>. QED
    BY <2>1, <2>2
<1>7. attempt[w] < Retries => attempt[w] + 1 \in Attempts
  BY <1>3, PullRequestAssumption DEF Attempts
<1>8. \/ attempt[w] + 1 \in Attempts /\ Dispatch(w, try[w], attempt[w] + 1)
      \/ /\ pc' = [pc EXCEPT ![w] = "done"]
         /\ \E kind \in {"unknown_outcome", "cancelled", "transient"} :
              told' = [told EXCEPT ![w] = kind]
         /\ UNCHANGED <<pr, travelling, cmd, asserted, seen, try, attempt, answer,
                        returned, garbled, wrote>>
  <2>1. CASE AnswerLost(w)
    BY <1>7, <2>1 DEF AnswerLost, Tell, Goto, command, request
  <2>2. CASE Throttled(w)
    BY <1>7, <2>2 DEF Throttled, Tell, Goto, command, request
  <2>. QED
    BY <2>1, <2>2
<1>. QED
  BY <1>1, <1>2, <1>3, <1>4, <1>5, <1>6, <1>8

LEMMA TypeOKStep ==
  ASSUME IInv, [Next]_vars
  PROVE  TypeOK'
<1>. USE PullRequestAssumption DEF IInv, TypeOK
<1>1. ASSUME NEW w \in Writers, Write(w) PROVE TypeOK'
  <2>1. CASE Start(w)
    BY <2>1 DEF Start, command, request, result, ghosts, Goto, PullRequest
  <2>2. CASE Read(w)
    BY <2>2 DEF Read, command, request, result, ghosts, Goto
  <2>3. CASE ReadFails(w)
    BY <2>3 DEF ReadFails, command, request, result, ghosts, Goto, Tell
  <2>4. CASE RefuseClosed(w)
    BY <2>4 DEF RefuseClosed, command, request, result, ghosts, Goto, Tell, MayChangeDraft
  <2>5. CASE Unchanged(w)
    BY <2>5 DEF Unchanged, command, request, result, ghosts, Goto, Tell, MayChangeDraft,
       AlreadyTrue
  <2>6. CASE Send(w)
    <3>1. pc[w] = "write" /\ cmd[w] # Nothing /\ try[w] + 1 \in 1 .. 2 /\ Dispatch(w, try[w] + 1, 0)
          /\ landed' = landed /\ unheard' = unheard
      BY <2>6, PullRequestAssumption DEF Send, Started, TypeOK, Tries, ghosts
    <3>2. 0 \in Attempts /\ try[w] + 1 \in Tries
      BY <3>1 DEF Attempts, Tries
    <3>. QED
      BY <3>1, <3>2, DispatchTyped
  <2>7. CASE NotSent(w)
    BY <2>7 DEF NotSent, command, request, result, ghosts, Goto, Tell, MayChangeDraft, AlreadyTrue
  <2>8. CASE AnswerLost(w)
    <3>1. CASE attempt[w] + 1 \in Attempts /\ Dispatch(w, try[w], attempt[w] + 1)
      BY <2>8, <3>1, LostOrThrottled, DispatchTyped DEF Tries
    <3>2. CASE ~(attempt[w] + 1 \in Attempts /\ Dispatch(w, try[w], attempt[w] + 1))
      <4>. HIDE DEF IInv
      <4>1. /\ pc' \in [Writers -> {"idle", "read", "reread", "write", "await", "unusable",
                                   "readBack", "done"}]
            /\ told' \in [Writers -> {"nothing", "ok", "unchanged", "refused", "transient",
                                     "permanent", "cancelled", "unknown_outcome"}]
        BY <2>8, <3>2, LostOrThrottled DEF IInv, TypeOK
      <4>2. /\ UNCHANGED <<pr, travelling, cmd, asserted, seen, try, attempt, answer, returned,
                           garbled, wrote, landed>>
            /\ unheard' \in [Writers -> SUBSET (Tries \X Attempts)]
        BY <2>8, <3>2, LostOrThrottled
      <4>. QED
        BY <4>1, <4>2 DEF IInv
    <3>. QED
      BY <3>1, <3>2
  <2>9. CASE Throttled(w)
    <3>1. CASE attempt[w] + 1 \in Attempts /\ Dispatch(w, try[w], attempt[w] + 1)
      BY <2>9, <3>1, LostOrThrottled, DispatchTyped DEF Tries
    <3>2. CASE ~(attempt[w] + 1 \in Attempts /\ Dispatch(w, try[w], attempt[w] + 1))
      <4>. HIDE DEF IInv
      <4>1. /\ pc' \in [Writers -> {"idle", "read", "reread", "write", "await", "unusable",
                                   "readBack", "done"}]
            /\ told' \in [Writers -> {"nothing", "ok", "unchanged", "refused", "transient",
                                     "permanent", "cancelled", "unknown_outcome"}]
        BY <2>9, <3>2, LostOrThrottled DEF IInv, TypeOK
      <4>2. /\ UNCHANGED <<pr, travelling, cmd, asserted, seen, try, attempt, answer, returned,
                           garbled, wrote, landed>>
            /\ unheard' \in [Writers -> SUBSET (Tries \X Attempts)]
        BY <2>9, <3>2, LostOrThrottled
      <4>. QED
        BY <4>1, <4>2 DEF IInv
    <3>. QED
      BY <3>1, <3>2
  <2>10. CASE BreakOff(w)
    BY <2>10, NotHeardAdds DEF BreakOff, command, request, result, ghosts, Goto
  <2>11. CASE Unusable(w)
    BY <2>11 DEF Unusable, command, request, result, ghosts, Goto, Tell
  <2>12. CASE Succeed(w)
    BY <2>12 DEF Succeed, command, request, result, ghosts, Goto, Tell
  <2>13. CASE Retry(w)
    BY <2>13 DEF Retry, command, request, result, ghosts, Goto, IsRetried
  <2>14. CASE Conflict(w)
    BY <2>14 DEF Conflict, command, request, result, ghosts, Goto, Tell, IsRetried
  <2>15. CASE ReadBack(w)
    BY <2>15 DEF ReadBack, command, request, result, ghosts, Goto, Tell, ReviewersAfter,
       Applied, Confirmed, PullRequest, Started, Command, Sent, Participation, Puts, Transitions
  <2>. QED
    BY <1>1, <2>1, <2>2, <2>3, <2>4, <2>5, <2>6, <2>7, <2>8, <2>9, <2>10, <2>11, <2>12, <2>13,
       <2>14, <2>15 DEF Write
<1>2. ASSUME NEW copy \in travelling, Land(copy) PROVE TypeOK'
  <2>1. /\ copy.by \in Writers /\ copy.try \in Tries /\ copy.attempt \in Attempts
        /\ copy.reviewers \in SUBSET Users /\ copy.by \in Writers
    BY DEF Copies
  <2>2. cmd[copy.by] \in Command
    BY <2>1 DEF Started
  <2>3. pr' \in PullRequest
    <3>1. /\ pr.version + 1 \in Nat /\ StateAfter(pr, cmd[copy.by].op) \in {"OPEN", "DECLINED", "MERGED"}
          /\ ReviewersAfter(pr, cmd[copy.by].op, copy.reviewers) \in SUBSET Users
      BY <2>1 DEF StateAfter, ReviewersAfter, PullRequest
    <3>2. /\ pr.draft \in BOOLEAN
          /\ cmd[copy.by].draft # Keep => cmd[copy.by].draft \in BOOLEAN
      BY <2>2 DEF PullRequest, Command
    <3>. HIDE DEF IInv, TypeOK
    <3>3. pr' = After(pr, cmd[copy.by], copy.reviewers)
      BY <1>2 DEF Land
    <3>. DEFINE d == IF cmd[copy.by].op \in Puts /\ cmd[copy.by].draft # Keep
                     THEN cmd[copy.by].draft ELSE pr.draft
    <3>4. d \in BOOLEAN
      BY <3>2, Zenon
    <3>5. pr' = [version |-> pr.version + 1, state |-> StateAfter(pr, cmd[copy.by].op), draft |-> d,
                 reviewers |-> ReviewersAfter(pr, cmd[copy.by].op, copy.reviewers)]
      BY <3>3 DEF After
    <3>. HIDE DEF d
    <3>. QED
      BY <3>1, <3>4, <3>5 DEF PullRequest
  <2>4. <<copy.try, copy.attempt>> \in Tries \X Attempts
    BY <2>1
  <2>5. /\ landed' = [landed EXCEPT ![copy.by] = landed[copy.by] \cup {<<copy.try, copy.attempt>>}]
        /\ unheard' = [unheard EXCEPT ![copy.by] =
                         IF Current(copy) THEN unheard[copy.by]
                         ELSE unheard[copy.by] \cup {<<copy.try, copy.attempt>>}]
        /\ answer' = [answer EXCEPT ![copy.by] = IF Current(copy) THEN "ok" ELSE answer[copy.by]]
        /\ returned' = [returned EXCEPT ![copy.by] = IF Current(copy) THEN pr' ELSE returned[copy.by]]
    BY <1>2 DEF Land, Reply
  <2>6. /\ landed' \in [Writers -> SUBSET (Tries \X Attempts)]
        /\ unheard' \in [Writers -> SUBSET (Tries \X Attempts)]
    BY <2>1, <2>4, <2>5
  <2>7. /\ answer' \in [Writers -> {"none", "ok", "unread", "stale", "conflict", "throttled"}]
        /\ returned' \in [Writers -> PullRequest \cup {Nothing}]
    BY <2>1, <2>3, <2>5
  <2>8. /\ travelling' \subseteq travelling
        /\ UNCHANGED <<pc, cmd, asserted, seen, try, attempt, told, garbled, wrote>>
    BY <1>2, LandFacts
  <2>. QED
    BY <2>3, <2>6, <2>7, <2>8
<1>3. ASSUME NEW copy \in travelling, Refuse(copy) PROVE TypeOK'
  BY <1>3 DEF Refuse, Refusals, Current, Reply, command, request, result, ghosts, Copies
<1>4. CASE SomebodyElse
  BY <1>4 DEF SomebodyElse, command, request, result, ghosts, PullRequest
<1>5. CASE UNCHANGED vars
  BY <1>5 DEF vars, command, request, result, ghosts
<1>. QED
  BY <1>1, <1>2, <1>3, <1>4, <1>5 DEF Next

LEMMA StartedStep ==
  ASSUME IInv, [Next]_vars
  PROVE  Started'
<1>. USE PullRequestAssumption DEF IInv, Started, Sent, Command, Participation, Puts, Transitions
<1>1. ASSUME NEW w \in Writers, Write(w) PROVE Started'
  <2>1. CASE Start(w)
    BY <2>1 DEF Start, command, request, result, ghosts, Goto, TypeOK, Tries, Attempts,
       PullRequest
  <2>2. CASE Read(w)
    BY <2>2 DEF Read, command, request, result, ghosts, Goto, TypeOK, Tries, Attempts, PullRequest
  <2>3. CASE ReadFails(w)
    BY <2>3 DEF ReadFails, command, request, result, ghosts, Goto, Tell, TypeOK, Tries,
       Attempts, PullRequest
  <2>4. CASE RefuseClosed(w)
    BY <2>4 DEF RefuseClosed, command, request, result, ghosts, Goto, Tell, MayChangeDraft,
       TypeOK, Tries, Attempts, PullRequest
  <2>5. CASE Unchanged(w)
    BY <2>5 DEF Unchanged, command, request, result, ghosts, Goto, Tell, MayChangeDraft,
       AlreadyTrue, TypeOK, Tries, Attempts, PullRequest
  <2>6. CASE Send(w)
    BY <2>6 DEF Send, command, request, result, ghosts, Goto, MayChangeDraft, AlreadyTrue,
       Dispatch, Copy, TypeOK, Tries, Attempts, PullRequest
  <2>7. CASE NotSent(w)
    BY <2>7 DEF NotSent, command, request, result, ghosts, Goto, Tell, MayChangeDraft,
       AlreadyTrue, TypeOK, Tries, Attempts, PullRequest
  <2>8. CASE AnswerLost(w)
    BY <2>8, NotHeardAdds DEF AnswerLost, command, request, result, ghosts, Goto, Tell,
       Dispatch, Copy, Replayable, TypeOK, Tries, Attempts, PullRequest
  <2>9. CASE Throttled(w)
    BY <2>9 DEF Throttled, command, request, result, ghosts, Goto, Tell, Dispatch, Copy, TypeOK,
       Tries, Attempts, PullRequest
  <2>10. CASE BreakOff(w)
    BY <2>10, NotHeardAdds DEF BreakOff, command, request, result, ghosts, Goto, TypeOK, Tries,
       Attempts, PullRequest
  <2>11. CASE Unusable(w)
    BY <2>11 DEF Unusable, command, request, result, ghosts, Goto, Tell, TypeOK, Tries,
       Attempts, PullRequest
  <2>12. CASE Succeed(w)
    BY <2>12 DEF Succeed, command, request, result, ghosts, Goto, Tell, TypeOK, Tries, Attempts,
       PullRequest
  <2>13. CASE Retry(w)
    BY <2>13 DEF Retry, command, request, result, ghosts, Goto, IsRetried, TypeOK, Tries,
       Attempts, PullRequest
  <2>14. CASE Conflict(w)
    BY <2>14 DEF Conflict, command, request, result, ghosts, Goto, Tell, IsRetried, TypeOK,
       Tries, Attempts, PullRequest
  <2>15. CASE ReadBack(w)
    BY <2>15 DEF ReadBack, command, request, result, ghosts, Goto, Tell, ReviewersAfter,
       Applied, Confirmed, TypeOK, Tries, Attempts, PullRequest
  <2>. QED
    BY <1>1, <2>1, <2>2, <2>3, <2>4, <2>5, <2>6, <2>7, <2>8, <2>9, <2>10, <2>11, <2>12, <2>13,
       <2>14, <2>15 DEF Write
<1>2. ASSUME NEW copy \in travelling, Land(copy) PROVE Started'
  BY <1>2, LandFacts DEF Sent
<1>3. ASSUME NEW copy \in travelling, Refuse(copy) PROVE Started'
  BY <1>3 DEF Refuse, Refusals, Current, Reply, command, request, result, ghosts, TypeOK, Tries,
     Attempts, PullRequest
<1>4. CASE SomebodyElse
  BY <1>4 DEF SomebodyElse, command, request, result, ghosts, TypeOK, Tries, Attempts, PullRequest
<1>5. CASE UNCHANGED vars
  BY <1>5 DEF vars, command, request, result, ghosts, TypeOK, Tries, Attempts, PullRequest
<1>. QED
  BY <1>1, <1>2, <1>3, <1>4, <1>5 DEF Next

LEMMA SeenIsOldStep ==
  ASSUME IInv, [Next]_vars
  PROVE  SeenIsOld'
<1>. USE PullRequestAssumption DEF IInv, SeenIsOld, PullRequest
<1>1. ASSUME NEW w \in Writers, Write(w) PROVE SeenIsOld'
  <2>1. CASE Start(w)
    BY <2>1 DEF Start, command, request, result, ghosts, Goto, TypeOK, Started, Copies
  <2>2. CASE Read(w)
    BY <2>2 DEF Read, command, request, result, ghosts, Goto, TypeOK, Started, Copies
  <2>3. CASE ReadFails(w)
    BY <2>3 DEF ReadFails, command, request, result, ghosts, Goto, Tell, TypeOK, Started, Copies
  <2>4. CASE RefuseClosed(w)
    BY <2>4 DEF RefuseClosed, command, request, result, ghosts, Goto, Tell, MayChangeDraft,
       TypeOK, Started, Copies
  <2>5. CASE Unchanged(w)
    BY <2>5 DEF Unchanged, command, request, result, ghosts, Goto, Tell, MayChangeDraft,
       AlreadyTrue, TypeOK, Started, Copies
  <2>6. CASE Send(w)
    BY <2>6 DEF Send, command, request, result, ghosts, Goto, MayChangeDraft, AlreadyTrue,
       Dispatch, Copy, TypeOK, Started, Copies
  <2>7. CASE NotSent(w)
    BY <2>7 DEF NotSent, command, request, result, ghosts, Goto, Tell, MayChangeDraft,
       AlreadyTrue, TypeOK, Started, Copies
  <2>8. CASE AnswerLost(w)
    BY <2>8, NotHeardAdds DEF AnswerLost, command, request, result, ghosts, Goto, Tell,
       Dispatch, Copy, Replayable, TypeOK, Started, Copies
  <2>9. CASE Throttled(w)
    BY <2>9 DEF Throttled, command, request, result, ghosts, Goto, Tell, Dispatch, Copy, TypeOK,
       Started, Copies
  <2>10. CASE BreakOff(w)
    BY <2>10, NotHeardAdds DEF BreakOff, command, request, result, ghosts, Goto, TypeOK,
       Started, Copies
  <2>11. CASE Unusable(w)
    BY <2>11 DEF Unusable, command, request, result, ghosts, Goto, Tell, TypeOK, Started, Copies
  <2>12. CASE Succeed(w)
    BY <2>12 DEF Succeed, command, request, result, ghosts, Goto, Tell, TypeOK, Started, Copies
  <2>13. CASE Retry(w)
    BY <2>13 DEF Retry, command, request, result, ghosts, Goto, IsRetried, TypeOK, Started, Copies
  <2>14. CASE Conflict(w)
    BY <2>14 DEF Conflict, command, request, result, ghosts, Goto, Tell, IsRetried, TypeOK,
       Started, Copies
  <2>15. CASE ReadBack(w)
    BY <2>15 DEF ReadBack, command, request, result, ghosts, Goto, Tell, ReviewersAfter,
       Applied, Confirmed, TypeOK, Started, Copies
  <2>. QED
    BY <1>1, <2>1, <2>2, <2>3, <2>4, <2>5, <2>6, <2>7, <2>8, <2>9, <2>10, <2>11, <2>12, <2>13,
       <2>14, <2>15 DEF Write
<1>2. ASSUME NEW copy \in travelling, Land(copy) PROVE SeenIsOld'
  <2>1. \A w \in Writers :
          /\ seen[w] # Nothing => seen[w].version \in Nat
          /\ asserted[w] # NoVersion => asserted[w] \in Nat
    BY DEF TypeOK, PullRequest
  <2>2. /\ UNCHANGED <<seen, asserted>>
        /\ pr.version \in Nat /\ pr'.version = pr.version + 1
    BY <1>2, LandFacts
  <2>. HIDE DEF IInv, SeenIsOld
  <2>3. SeenIsOld
    BY DEF IInv
  <2>. QED
    BY <2>1, <2>2, <2>3 DEF SeenIsOld
<1>3. ASSUME NEW copy \in travelling, Refuse(copy) PROVE SeenIsOld'
  BY <1>3 DEF Refuse, Refusals, Current, Reply, command, request, result, ghosts, TypeOK,
     Started, Copies
<1>4. CASE SomebodyElse
  BY <1>4 DEF SomebodyElse, command, request, result, ghosts, TypeOK, Started, Copies
<1>5. CASE UNCHANGED vars
  BY <1>5 DEF vars, command, request, result, ghosts, TypeOK, Started, Copies
<1>. QED
  BY <1>1, <1>2, <1>3, <1>4, <1>5 DEF Next

LEMMA DistinctStep ==
  ASSUME IInv, [Next]_vars
  PROVE  Distinct'
<1>. USE PullRequestAssumption DEF IInv, Distinct
<1>1. ASSUME NEW w \in Writers, Write(w) PROVE Distinct'
  <2>1. CASE Start(w)
    BY <2>1 DEF Start, command, request, result, ghosts, Goto, TypeOK, Copies, PullRequest,
       Started, Sent, Tries, Attempts, Carried
  <2>2. CASE Read(w)
    BY <2>2 DEF Read, command, request, result, ghosts, Goto, TypeOK, Copies, PullRequest,
       Started, Sent, Tries, Attempts, Carried
  <2>3. CASE ReadFails(w)
    BY <2>3 DEF ReadFails, command, request, result, ghosts, Goto, Tell, TypeOK, Copies,
       PullRequest, Started, Sent, Tries, Attempts, Carried
  <2>4. CASE RefuseClosed(w)
    BY <2>4 DEF RefuseClosed, command, request, result, ghosts, Goto, Tell, MayChangeDraft,
       TypeOK, Copies, PullRequest, Started, Sent, Tries, Attempts, Carried
  <2>5. CASE Unchanged(w)
    BY <2>5 DEF Unchanged, command, request, result, ghosts, Goto, Tell, MayChangeDraft,
       AlreadyTrue, TypeOK, Copies, PullRequest, Started, Sent, Tries, Attempts, Carried
  <2>6. CASE Send(w)
    <3>1. pc[w] = "write" /\ cmd[w] # Nothing /\ try[w] + 1 \in 1 .. 2 /\ Dispatch(w, try[w] + 1, 0)
          /\ landed' = landed /\ unheard' = unheard
      BY <2>6, PullRequestAssumption DEF Send, Started, TypeOK, Tries, ghosts
    <3>2. try[w] \in Nat
      BY DEF TypeOK, Tries
    <3>. QED
      BY <3>1, <3>2, DispatchDistinct
  <2>7. CASE NotSent(w)
    BY <2>7 DEF NotSent, command, request, result, ghosts, Goto, Tell, MayChangeDraft,
       AlreadyTrue, TypeOK, Copies, PullRequest, Started, Sent, Tries, Attempts, Carried
  <2>8. CASE AnswerLost(w)
    <3>1. CASE attempt[w] + 1 \in Attempts /\ Dispatch(w, try[w], attempt[w] + 1)
      <4>1. attempt[w] \in Nat /\ try[w] \in Nat
        BY PullRequestAssumption DEF TypeOK, Tries, Attempts
      <4>. QED
        BY <2>8, <3>1, <4>1, LostOrThrottled, DispatchDistinct DEF Waiting, Attempts
    <3>2. CASE ~(attempt[w] + 1 \in Attempts /\ Dispatch(w, try[w], attempt[w] + 1))
      BY <2>8, <3>2, LostOrThrottled DEF TypeOK, Copies, command
    <3>. QED
      BY <3>1, <3>2
  <2>9. CASE Throttled(w)
    <3>1. CASE attempt[w] + 1 \in Attempts /\ Dispatch(w, try[w], attempt[w] + 1)
      <4>1. attempt[w] \in Nat /\ try[w] \in Nat
        BY PullRequestAssumption DEF TypeOK, Tries, Attempts
      <4>. QED
        BY <2>9, <3>1, <4>1, LostOrThrottled, DispatchDistinct DEF Waiting, Attempts
    <3>2. CASE ~(attempt[w] + 1 \in Attempts /\ Dispatch(w, try[w], attempt[w] + 1))
      BY <2>9, <3>2, LostOrThrottled DEF TypeOK, Copies, command
    <3>. QED
      BY <3>1, <3>2
  <2>10. CASE BreakOff(w)
    BY <2>10, NotHeardAdds DEF BreakOff, command, request, result, ghosts, Goto, TypeOK, Copies,
       PullRequest, Started, Sent, Tries, Attempts, Carried
  <2>11. CASE Unusable(w)
    BY <2>11 DEF Unusable, command, request, result, ghosts, Goto, Tell, TypeOK, Copies,
       PullRequest, Started, Sent, Tries, Attempts, Carried
  <2>12. CASE Succeed(w)
    BY <2>12 DEF Succeed, command, request, result, ghosts, Goto, Tell, TypeOK, Copies,
       PullRequest, Started, Sent, Tries, Attempts, Carried
  <2>13. CASE Retry(w)
    BY <2>13 DEF Retry, command, request, result, ghosts, Goto, IsRetried, TypeOK, Copies,
       PullRequest, Started, Sent, Tries, Attempts, Carried
  <2>14. CASE Conflict(w)
    BY <2>14 DEF Conflict, command, request, result, ghosts, Goto, Tell, IsRetried, TypeOK,
       Copies, PullRequest, Started, Sent, Tries, Attempts, Carried
  <2>15. CASE ReadBack(w)
    BY <2>15 DEF ReadBack, command, request, result, ghosts, Goto, Tell, ReviewersAfter,
       Applied, Confirmed, TypeOK, Copies, PullRequest, Started, Sent, Tries, Attempts, Carried
  <2>. QED
    BY <1>1, <2>1, <2>2, <2>3, <2>4, <2>5, <2>6, <2>7, <2>8, <2>9, <2>10, <2>11, <2>12, <2>13,
       <2>14, <2>15 DEF Write
<1>2. ASSUME NEW copy \in travelling, Land(copy) PROVE Distinct'
  <2>1. /\ copy.by \in Writers /\ copy.try \in Nat /\ copy.attempt \in Nat
        /\ travelling' = travelling \ {copy} /\ UNCHANGED <<try, attempt>>
        /\ \A v \in Writers : v # copy.by => landed'[v] = landed[v]
        /\ landed'[copy.by] = landed[copy.by] \cup {<<copy.try, copy.attempt>>}
    BY <1>2, LandFacts DEF Tries, Attempts
  <2>2. \A c \in travelling : c.by \in Writers
    BY DEF TypeOK, Copies
  <2>3. copy.try <= try[copy.by] /\ (copy.try = try[copy.by] => copy.attempt <= attempt[copy.by])
    BY DEF Carried
  <2>4. Distinct
    OBVIOUS
  <2>. HIDE DEF IInv, Distinct
  <2>5. ASSUME NEW c \in travelling'
        PROVE  /\ <<c.try, c.attempt>> \notin landed'[c.by]
               /\ c.try = try'[c.by] => c.attempt <= attempt'[c.by]
    <3>1. c \in travelling /\ c # copy
      BY <2>1
    <3>2. c.by = copy.by => ~(c.try = copy.try /\ c.attempt = copy.attempt)
      BY <2>4, <3>1 DEF Distinct
    <3>3. c.by = copy.by => <<c.try, c.attempt>> # <<copy.try, copy.attempt>>
      BY <3>2
    <3>. QED
      BY <2>1, <2>2, <2>4, <3>1, <3>3 DEF Distinct
  <2>6. \A c, d \in travelling' :
          c.by = d.by /\ c.try = d.try /\ c.attempt = d.attempt => c = d
    BY <2>1, <2>4 DEF Distinct
  <2>7. ASSUME NEW w \in Writers, NEW x \in landed'[w]
        PROVE  x[1] <= try'[w] /\ (x[1] = try'[w] => x[2] <= attempt'[w])
    <3>1. CASE x \in landed[w]
      BY <2>1, <2>4, <3>1 DEF Distinct
    <3>2. CASE x \notin landed[w]
      <4>1. w = copy.by /\ x = <<copy.try, copy.attempt>>
        BY <2>1, <3>2
      <4>. QED
        BY <2>1, <2>3, <4>1
    <3>. QED
      BY <3>1, <3>2
  <2>. QED
    BY <2>5, <2>6, <2>7 DEF Distinct
<1>3. ASSUME NEW copy \in travelling, Refuse(copy) PROVE Distinct'
  BY <1>3 DEF Refuse, Refusals, Current, Reply, command, request, result, ghosts, TypeOK,
     Copies, PullRequest, Started, Sent, Tries, Attempts, Carried
<1>4. CASE SomebodyElse
  BY <1>4 DEF SomebodyElse, command, request, result, ghosts, TypeOK, Copies, PullRequest,
     Started, Sent, Tries, Attempts, Carried
<1>5. CASE UNCHANGED vars
  BY <1>5 DEF vars, command, request, result, ghosts, TypeOK, Copies, PullRequest, Started,
     Sent, Tries, Attempts, Carried
<1>. QED
  BY <1>1, <1>2, <1>3, <1>4, <1>5 DEF Next

LEMMA CarriedStep ==
  ASSUME IInv, [Next]_vars
  PROVE  Carried'
<1>. USE PullRequestAssumption DEF IInv, Carried, Waiting, Versioned, Participation, Puts,
         Transitions
<1>1. ASSUME NEW w \in Writers, Write(w) PROVE Carried'
  <2>0. /\ Carried /\ \A c \in travelling : c.by \in Writers
        /\ \A c \in travelling : c.by = w => pc[w] \notin {"idle", "read"}
    BY DEF TypeOK, Copies, Started
  <2>1. CASE Start(w)
    <3>1. \A v \in Writers : v # w =>
            At(v)' = At(v) /\ Echo(v)' = Echo(v) /\ cmd'[v] = cmd[v] /\ pc'[v] = pc[v]
      BY <2>1, StartFacts DEF At, Echo
    <3>2. UNCHANGED <<pr, travelling, try>> /\ \A c \in travelling : c.by # w
      BY <2>0, <2>1, StartFacts
    <3>. HIDE DEF IInv
    <3>. QED
      BY <2>0, <3>1, <3>2
  <2>2. CASE Read(w)
    <3>1. \A v \in Writers : v # w => At(v)' = At(v) /\ Echo(v)' = Echo(v) /\ pc'[v] = pc[v]
      BY <2>2, ReadFacts DEF At, Echo
    <3>2. UNCHANGED <<pr, travelling, cmd, try>> /\ pc[w] \in {"read", "reread"} /\ pc'[w] = "write"
      BY <2>2, ReadFacts
    <3>3. ASSUME NEW c \in travelling, c.by = w
          PROVE  Versioned(w) /\ c.version \in Nat /\ c.version < pr.version
      BY <2>0, <3>2, <3>3 DEF OutOfDate
    <3>4. pr.version \in Nat
      BY DEF TypeOK, PullRequest
    <3>. HIDE DEF IInv
    <3>. QED
      BY <2>0, <3>1, <3>2, <3>3, <3>4
  <2>3. CASE Quiet(w)
    <3>1. /\ UNCHANGED <<pr, travelling, command, cmd, seen, try>>
          /\ \A v \in Writers : Waiting(v)' => Waiting(v)
      BY <2>3, QuietFacts
    <3>2. \A v \in Writers : At(v)' = At(v) /\ Echo(v)' = Echo(v)
      BY <3>1, CarriedKept
    <3>. HIDE DEF IInv
    <3>. QED
      BY <2>0, <3>1, <3>2
  <2>4. CASE Send(w)
    <3>1. pc[w] = "write" /\ cmd[w] # Nothing /\ try[w] + 1 \in 1 .. 2 /\ Dispatch(w, try[w] + 1, 0)
          /\ landed' = landed /\ unheard' = unheard
      BY <2>4, PullRequestAssumption DEF Send, Started, TypeOK, Tries, ghosts
    <3>2. try[w] \in Nat
      BY DEF TypeOK, Tries
    <3>. QED
      BY <3>1, <3>2, DispatchCarried
  <2>5. CASE AnswerLost(w) \/ Throttled(w)
    <3>1. CASE attempt[w] + 1 \in Attempts /\ Dispatch(w, try[w], attempt[w] + 1)
      <4>1. attempt[w] \in Nat /\ try[w] \in Nat
        BY PullRequestAssumption DEF TypeOK, Tries, Attempts
      <4>. QED
        BY <2>5, <3>1, <4>1, LostOrThrottled, DispatchCarried DEF Waiting, Attempts
    <3>2. CASE ~(attempt[w] + 1 \in Attempts /\ Dispatch(w, try[w], attempt[w] + 1))
      <4>1. /\ UNCHANGED <<pr, travelling, cmd, asserted, seen, try>>
            /\ pc' = [pc EXCEPT ![w] = "done"]
        BY <2>5, <3>2, LostOrThrottled
      <4>2. \A v \in Writers : At(v)' = At(v) /\ Echo(v)' = Echo(v)
        BY <4>1, CarriedKept DEF command
      <4>3. \A v \in Writers : Waiting(v)' => Waiting(v)
        BY <4>1 DEF TypeOK
      <4>. HIDE DEF IInv
      <4>. QED
        BY <2>0, <4>1, <4>2, <4>3
    <3>. QED
      BY <3>1, <3>2
  <2>6. CASE Retry(w)
    <3>1. /\ UNCHANGED <<pr, travelling, command, cmd, seen, try>>
          /\ \A v \in Writers : Waiting(v)' => Waiting(v)
      BY <2>6, RetryFacts
    <3>2. \A v \in Writers : At(v)' = At(v) /\ Echo(v)' = Echo(v)
      BY <3>1, CarriedKept
    <3>. HIDE DEF IInv
    <3>. QED
      BY <2>0, <3>1, <3>2
  <2>. QED
    BY <1>1, <2>1, <2>2, <2>3, <2>4, <2>5, <2>6 DEF Write, Quiet
<1>2. ASSUME NEW copy \in travelling, Land(copy) PROVE Carried'
  <2>1. /\ UNCHANGED <<pc, cmd, asserted, seen, try>> /\ travelling' \subseteq travelling
        /\ pr.version \in Nat /\ pr'.version = pr.version + 1
    BY <1>2, LandFacts
  <2>2. \A w \in Writers : /\ At(w)' = At(w) /\ Echo(w)' = Echo(w)
                           /\ Versioned(w)' = Versioned(w) /\ Waiting(w)' = Waiting(w)
    BY <2>1, CarriedKept DEF command, Versioned, Waiting
  <2>3. \A c \in travelling : c.by \in Writers
    BY DEF TypeOK, Copies
  <2>4. Carried
    OBVIOUS
  <2>. HIDE DEF IInv, Carried
  <2>5. ASSUME NEW c \in travelling
        PROVE  c.version \in Nat /\ c.version <= pr.version =>
                 c.version <= pr'.version /\ c.version # pr'.version
    BY <2>1
  <2>. QED
    BY <2>1, <2>2, <2>3, <2>4, <2>5 DEF Carried
<1>3. ASSUME NEW copy \in travelling, Refuse(copy) PROVE Carried'
  <2>1. /\ travelling' \subseteq travelling /\ UNCHANGED <<pr, pc, cmd, asserted, seen, try>>
    BY <1>3, RefuseFacts
  <2>2. \A w \in Writers : At(w)' = At(w) /\ Echo(w)' = Echo(w)
    BY <2>1, CarriedKept DEF command
  <2>3. Carried /\ \A c \in travelling : c.by \in Writers
    BY DEF TypeOK, Copies
  <2>. HIDE DEF IInv
  <2>. QED
    BY <2>1, <2>2, <2>3
<1>4. CASE SomebodyElse
  <2>1. /\ pr.version \in Nat /\ pr'.version = pr.version + 1
        /\ UNCHANGED <<travelling, pc, cmd, asserted, seen, try, landed>>
    BY <1>4 DEF SomebodyElse, TypeOK, PullRequest, command, request, ghosts
  <2>2. \A w \in Writers : At(w)' = At(w) /\ Echo(w)' = Echo(w)
    BY <2>1, CarriedKept DEF command
  <2>3. Carried /\ \A c \in travelling : c.by \in Writers
    BY DEF TypeOK, Copies
  <2>. HIDE DEF IInv
  <2>. QED
    BY <2>1, <2>2, <2>3
<1>5. CASE UNCHANGED vars
  <2>1. UNCHANGED <<pr, travelling, pc, cmd, asserted, seen, try, landed>>
    BY <1>5 DEF vars, command, request, ghosts
  <2>2. \A w \in Writers : At(w)' = At(w) /\ Echo(w)' = Echo(w)
    BY <2>1, CarriedKept DEF command
  <2>3. Carried /\ \A c \in travelling : c.by \in Writers
    BY DEF TypeOK, Copies
  <2>. HIDE DEF IInv
  <2>. QED
    BY <2>1, <2>2, <2>3
<1>. QED
  BY <1>1, <1>2, <1>3, <1>4, <1>5 DEF Next

(* A command that sends awaits an answer it has not.                       *)
LEMMA OutOfDateKept ==
  ASSUME TypeOK, OutOfDate, NEW w \in Writers, NEW t, NEW a, Dispatch(w, t, a)
  PROVE  OutOfDate'
<1>1. /\ pc'[w] = "await" /\ answer'[w] = "none" /\ UNCHANGED <<pr, command, seen>>
      /\ \A v \in Writers : v # w => answer'[v] = answer[v] /\ pc'[v] = pc[v]
      /\ \A c \in travelling' : c \notin travelling => c.by = w
  BY Dispatched
<1>2. \A v \in Writers : At(v)' = At(v) /\ Versioned(v)' = Versioned(v)
  BY <1>1, CarriedKept DEF command, Versioned
<1>. QED
  BY <1>1, <1>2 DEF OutOfDate

LEMMA OutOfDateStep ==
  ASSUME IInv, [Next]_vars
  PROVE  OutOfDate'
<1>. USE PullRequestAssumption DEF IInv, OutOfDate, Versioned, Participation, Puts,
         Transitions
<1>1. ASSUME NEW w \in Writers, Write(w) PROVE OutOfDate'
  <2>0. /\ OutOfDate /\ \A c \in travelling : c.by = w => pc[w] \notin {"idle", "read"}
    BY DEF Started
  <2>1. CASE Start(w)
    <3>1. \A v \in Writers : v # w => At(v)' = At(v) /\ cmd'[v] = cmd[v] /\ pc'[v] = pc[v]
      BY <2>1, StartFacts DEF At
    <3>2. UNCHANGED <<pr, travelling, answer>> /\ \A c \in travelling : c.by # w
      BY <2>0, <2>1, StartFacts
    <3>3. pc'[w] \in {"read", "write"}
      BY <2>1, StartFacts
    <3>. HIDE DEF IInv
    <3>. QED
      BY <2>0, <3>1, <3>2, <3>3
  <2>2. CASE Read(w)
    <3>1. \A v \in Writers : v # w => At(v)' = At(v) /\ pc'[v] = pc[v]
      BY <2>2, ReadFacts DEF At
    <3>2. UNCHANGED <<pr, travelling, cmd, answer>> /\ pc[w] \in {"read", "reread"} /\ pc'[w] = "write"
      BY <2>2, ReadFacts
    <3>. HIDE DEF IInv
    <3>. QED
      BY <2>0, <3>1, <3>2
  <2>3. CASE Quiet(w)
    <3>1. /\ UNCHANGED <<pr, travelling, command, cmd, seen, answer>>
          /\ \A v \in Writers : pc'[v] \in {"await", "reread", "write"} => pc'[v] = pc[v]
      BY <2>3, QuietFacts
    <3>2. \A v \in Writers : At(v)' = At(v)
      BY <3>1, CarriedKept
    <3>. HIDE DEF IInv
    <3>. QED
      BY <2>0, <3>1, <3>2
  <2>4. CASE Send(w)
    <3>1. Dispatch(w, try[w] + 1, 0)
      BY <2>4 DEF Send
    <3>. QED
      BY <2>0, <3>1, OutOfDateKept
  <2>5. CASE AnswerLost(w) \/ Throttled(w)
    <3>1. CASE Dispatch(w, try[w], attempt[w] + 1)
      BY <2>0, <3>1, OutOfDateKept
    <3>2. CASE ~Dispatch(w, try[w], attempt[w] + 1)
      <4>1. /\ UNCHANGED <<pr, travelling, cmd, asserted, seen, answer>>
            /\ pc' = [pc EXCEPT ![w] = "done"]
        BY <2>5, <3>2, LostOrThrottled
      <4>2. \A v \in Writers : At(v)' = At(v)
        BY <4>1, CarriedKept DEF command
      <4>3. \A v \in Writers : pc'[v] # "done" => pc'[v] = pc[v]
        BY <4>1 DEF TypeOK
      <4>. HIDE DEF IInv
      <4>. QED
        BY <2>0, <4>1, <4>2, <4>3
    <3>. QED
      BY <3>1, <3>2
  <2>6. CASE Retry(w)
    <3>1. /\ UNCHANGED <<pr, travelling, command, cmd, seen, answer>>
          /\ \A v \in Writers : v # w => pc'[v] = pc[v]
          /\ pc[w] = "await" /\ answer[w] = "stale" /\ pc'[w] = "reread"
          /\ try[w] = 1
      BY <2>6, RetryFacts DEF IsRetried
    <3>2. \A v \in Writers : At(v)' = At(v)
      BY <3>1, CarriedKept
    <3>3. ASSUME NEW c \in travelling, c.by = w
          PROVE  c.version \in Nat /\ c.version < pr.version
      <4>1. c.try = 1 /\ c.version = At(w)
        BY <3>1, <3>3 DEF Carried, Waiting, TypeOK, Copies, Tries
      <4>2. Versioned(w) /\ At(w) < pr.version
        BY <3>1
      <4>3. At(w) \in Nat
        BY <3>1, <4>2, AtIsNumber DEF Started, Sent
      <4>. QED
        BY <4>1, <4>2, <4>3
    <3>. HIDE DEF IInv
    <3>. QED
      BY <2>0, <3>1, <3>2, <3>3
  <2>. QED
    BY <1>1, <2>1, <2>2, <2>3, <2>4, <2>5, <2>6 DEF Write, Quiet
<1>2. ASSUME NEW copy \in travelling, Land(copy) PROVE OutOfDate'
  <2>1. /\ UNCHANGED <<pc, cmd, asserted, seen>> /\ travelling' \subseteq travelling
        /\ pr.version \in Nat /\ pr'.version = pr.version + 1 /\ copy.by \in Writers
        /\ \A w \in Writers : answer'[w] = "stale" => answer[w] = "stale"
    BY <1>2, LandFacts
  <2>2. \A w \in Writers : At(w)' = At(w) /\ Versioned(w)' = Versioned(w)
    BY <2>1, CarriedKept DEF command, Versioned
  <2>3. ASSUME NEW w \in Writers, pc[w] \in {"await", "reread"}, Versioned(w)
        PROVE  At(w) \in Nat
    BY <2>3, AtIsNumber DEF Started, Sent
  <2>4. OutOfDate
    OBVIOUS
  <2>. HIDE DEF IInv, OutOfDate
  <2>. QED
    BY <2>1, <2>2, <2>3, <2>4 DEF OutOfDate
<1>3. ASSUME NEW copy \in travelling, Refuse(copy) PROVE OutOfDate'
  <2>1. /\ UNCHANGED <<pr, pc, cmd, asserted, seen, try, attempt>>
        /\ travelling' \subseteq travelling
    BY <1>3 DEF Refuse, command
  <2>2. \A w \in Writers : At(w)' = At(w) /\ Versioned(w)' = Versioned(w)
    BY <2>1, CarriedKept DEF command
  <2>3. ASSUME NEW w \in Writers, pc'[w] = "await", answer'[w] = "stale"
        PROVE  Versioned(w) /\ At(w) < pr.version
    <3>1. CASE answer[w] = "stale"
      BY <2>1, <2>3, <3>1
    <3>2. CASE answer[w] # "stale"
      <4>1. /\ copy.by = w /\ Current(copy)
            /\ copy.version # NoVersion /\ copy.version # pr.version
        BY <1>3, <2>3, <3>2 DEF Refuse, Reply, Refusals, TypeOK
      <4>2. Versioned(w)
        BY <4>1 DEF Carried
      <4>3. copy.version \in Nat /\ copy.version <= pr.version /\ copy.version = At(w)
        BY <4>1, <4>2 DEF Carried, Current, Waiting
      <4>4. pr.version \in Nat
        BY DEF TypeOK, PullRequest
      <4>. HIDE DEF IInv, OutOfDate, Versioned
      <4>. QED
        BY <4>1, <4>2, <4>3, <4>4
    <3>. QED
      BY <3>1, <3>2
  <2>. QED
    BY <2>1, <2>2, <2>3
<1>4. CASE SomebodyElse
  <2>1. pr.version \in Nat /\ pr'.version = pr.version + 1
    BY <1>4, NextVersion
  <2>. QED
    BY <1>4, <2>1, CarriedKept, AtIsNumber DEF SomebodyElse, Current, Reply, command, request,
       result, ghosts, TypeOK, Copies, PullRequest, Started, Sent, SeenIsOld, Carried, Waiting,
       Tries, Attempts, Command
<1>5. CASE UNCHANGED vars
  BY <1>5, CarriedKept, AtIsNumber DEF vars, command, request, result, ghosts, TypeOK, Copies,
     PullRequest, Started, Sent, SeenIsOld, Carried, Waiting, Tries, Attempts, Command
<1>. QED
  BY <1>1, <1>2, <1>3, <1>4, <1>5 DEF Next

LEMMA DraftOfOpenKept ==
  ASSUME TypeOK, DraftOfOpen, NEW w \in Writers, NEW t, NEW a, Dispatch(w, t, a),
         cmd[w].op = "draft" => seen[w].state = "OPEN"
  PROVE  DraftOfOpen'
<1>1. /\ pc'[w] = "await" /\ answer'[w] = "none" /\ UNCHANGED <<cmd, seen, returned>>
      /\ \A v \in Writers : v # w => answer'[v] = answer[v] /\ pc'[v] = pc[v]
  BY Dispatched DEF command, result
<1>. QED
  BY <1>1 DEF DraftOfOpen, Waiting

LEMMA DraftOfOpenStep ==
  ASSUME IInv, [Next]_vars
  PROVE  DraftOfOpen'
<1>. USE PullRequestAssumption DEF IInv, DraftOfOpen, Waiting
<1>1. ASSUME NEW w \in Writers, Write(w) PROVE DraftOfOpen'
  <2>0. DraftOfOpen
    OBVIOUS
  <2>1. CASE Start(w)
    BY <2>0, <2>1, StartFacts
  <2>2. CASE Read(w)
    BY <2>0, <2>2, ReadFacts
  <2>3. CASE Quiet(w)
    <3>1. /\ UNCHANGED <<cmd, seen, answer>>
          /\ \A v \in Writers : Waiting(v)' => Waiting(v) /\ returned'[v] = returned[v]
      BY <2>3, QuietFacts
    <3>. HIDE DEF IInv
    <3>. QED
      BY <2>0, <3>1
  <2>4. CASE Send(w)
    <3>1. Dispatch(w, try[w] + 1, 0) /\ MayChangeDraft(w)
      BY <2>4 DEF Send
    <3>. QED
      BY <2>0, <3>1, DraftOfOpenKept DEF MayChangeDraft
  <2>5. CASE AnswerLost(w) \/ Throttled(w)
    <3>1. pc[w] = "await"
      BY <2>5, LostOrThrottled
    <3>2. CASE Dispatch(w, try[w], attempt[w] + 1)
      BY <2>0, <3>1, <3>2, DraftOfOpenKept
    <3>3. CASE ~Dispatch(w, try[w], attempt[w] + 1)
      <4>1. /\ UNCHANGED <<cmd, seen, answer, returned>> /\ pc' = [pc EXCEPT ![w] = "done"]
        BY <2>5, <3>3, LostOrThrottled
      <4>2. \A v \in Writers : pc'[v] # "done" => pc'[v] = pc[v]
        BY <4>1 DEF TypeOK
      <4>. HIDE DEF IInv
      <4>. QED
        BY <2>0, <4>1, <4>2
    <3>. QED
      BY <3>2, <3>3
  <2>6. CASE Retry(w)
    BY <2>0, <2>6, RetryFacts
  <2>. QED
    BY <1>1, <2>1, <2>2, <2>3, <2>4, <2>5, <2>6 DEF Write, Quiet
<1>2. ASSUME NEW copy \in travelling, Land(copy) PROVE DraftOfOpen'
  <2>1. /\ copy.by \in Writers /\ copy.version \in {NoVersion, pr.version}
        /\ UNCHANGED <<pc, cmd, asserted, seen, try>>
        /\ \A v \in Writers : v # copy.by => answer'[v] = answer[v] /\ returned'[v] = returned[v]
        /\ Current(copy) => returned'[copy.by] = pr'
        /\ ~Current(copy) => answer'[copy.by] = answer[copy.by] /\ returned'[copy.by] = returned[copy.by]
    BY <1>2, LandFacts
  <2>2. ASSUME Current(copy), cmd[copy.by].op = "draft"
        PROVE  pr'.state = "OPEN" /\ pr'.draft = cmd[copy.by].draft
    <3>. DEFINE w == copy.by
    <3>1. pc[w] = "await" /\ copy.try = try[w] /\ wrote[w] /\ cmd[w] # Nothing /\ seen[w].state = "OPEN"
      BY <2>1, <2>2 DEF Current, Started, Sent
    <3>2. cmd[w] \in Commands /\ cmd[w].op \notin Participation \cup Transitions \cup {"update"}
      BY <2>1, <2>2, <3>1 DEF TypeOK, Participation, Transitions
    <3>3. asserted[w] = NoVersion /\ seen[w] # Nothing
      BY <2>1, <3>1, <3>2 DEF Started
    <3>4. At(w) = seen[w].version /\ seen[w] \in PullRequest
      BY <2>1, <3>2, <3>3 DEF At, TypeOK
    <3>5. copy.version = At(w)
      BY <3>1 DEF Carried
    <3>6. seen[w].version = pr.version
      BY <2>1, <3>4, <3>5 DEF PullRequest
    <3>7. pr.state = "OPEN"
      BY <2>1, <3>1, <3>3, <3>6 DEF SeenIsOld
    <3>8. cmd[w].draft # Keep /\ pr' = After(pr, cmd[w], copy.reviewers)
      BY <1>2, <2>2, <3>2 DEF Land
    <3>. QED
      BY <2>2, <3>7, <3>8 DEF After, StateAfter, Puts
  <2>3. DraftOfOpen
    OBVIOUS
  <2>. HIDE DEF IInv
  <2>. QED
    BY <2>1, <2>2, <2>3
<1>3. ASSUME NEW copy \in travelling, Refuse(copy) PROVE DraftOfOpen'
  <2>1. /\ UNCHANGED <<pc, cmd, seen, returned>>
        /\ \A w \in Writers : answer'[w] = "ok" => answer[w] = "ok"
    BY <1>3, RefuseFacts
  <2>2. DraftOfOpen
    OBVIOUS
  <2>. HIDE DEF IInv
  <2>. QED
    BY <2>1, <2>2
<1>4. CASE SomebodyElse
  BY <1>4 DEF SomebodyElse, command, request, result, ghosts, TypeOK, Copies, PullRequest,
     Started, Sent, Carried, SeenIsOld, Versioned, At, Tries, Attempts, Command, Participation,
     Puts, Transitions
<1>5. CASE UNCHANGED vars
  BY <1>5 DEF vars, command, request, result, ghosts, TypeOK, Copies, PullRequest, Started,
     Sent, Carried, SeenIsOld, Versioned, At, Tries, Attempts, Command, Participation, Puts,
     Transitions
<1>. QED
  BY <1>1, <1>2, <1>3, <1>4, <1>5 DEF Next

LEMMA DraftToldOfOpenStep ==
  ASSUME IInv, [Next]_vars
  PROVE  DraftToldOfOpen'
<1>. USE PullRequestAssumption DEF IInv, DraftToldOfOpen
<1>1. ASSUME NEW w \in Writers, Write(w) PROVE DraftToldOfOpen'
  <2>1. CASE Start(w)
    BY <2>1 DEF Start, command, request, result, ghosts, Goto, TypeOK, PullRequest, Started,
       Sent, DraftOfOpen, Waiting, Command, Participation, Puts, Transitions
  <2>2. CASE Read(w)
    BY <2>2 DEF Read, command, request, result, ghosts, Goto, TypeOK, PullRequest, Started,
       Sent, DraftOfOpen, Waiting, Command, Participation, Puts, Transitions
  <2>3. CASE ReadFails(w)
    BY <2>3 DEF ReadFails, command, request, result, ghosts, Goto, Tell, TypeOK, PullRequest,
       Started, Sent, DraftOfOpen, Waiting, Command, Participation, Puts, Transitions
  <2>4. CASE RefuseClosed(w)
    BY <2>4 DEF RefuseClosed, command, request, result, ghosts, Goto, Tell, MayChangeDraft,
       TypeOK, PullRequest, Started, Sent, DraftOfOpen, Waiting, Command, Participation, Puts,
       Transitions
  <2>5. CASE Unchanged(w)
    BY <2>5 DEF Unchanged, command, request, result, ghosts, Goto, Tell, MayChangeDraft,
       AlreadyTrue, TypeOK, PullRequest, Started, Sent, DraftOfOpen, Waiting, Command,
       Participation, Puts, Transitions
  <2>6. CASE Send(w)
    BY <2>6 DEF Send, command, request, result, ghosts, Goto, MayChangeDraft, AlreadyTrue,
       Dispatch, Copy, TypeOK, PullRequest, Started, Sent, DraftOfOpen, Waiting, Command,
       Participation, Puts, Transitions
  <2>7. CASE NotSent(w)
    BY <2>7 DEF NotSent, command, request, result, ghosts, Goto, Tell, MayChangeDraft,
       AlreadyTrue, TypeOK, PullRequest, Started, Sent, DraftOfOpen, Waiting, Command,
       Participation, Puts, Transitions
  <2>8. CASE AnswerLost(w)
    BY <2>8, NotHeardAdds DEF AnswerLost, command, request, result, ghosts, Goto, Tell,
       Dispatch, Copy, Replayable, TypeOK, PullRequest, Started, Sent, DraftOfOpen, Waiting,
       Command, Participation, Puts, Transitions
  <2>9. CASE Throttled(w)
    BY <2>9 DEF Throttled, command, request, result, ghosts, Goto, Tell, Dispatch, Copy, TypeOK,
       PullRequest, Started, Sent, DraftOfOpen, Waiting, Command, Participation, Puts, Transitions
  <2>10. CASE BreakOff(w)
    BY <2>10, NotHeardAdds DEF BreakOff, command, request, result, ghosts, Goto, TypeOK,
       PullRequest, Started, Sent, DraftOfOpen, Waiting, Command, Participation, Puts, Transitions
  <2>11. CASE Unusable(w)
    BY <2>11 DEF Unusable, command, request, result, ghosts, Goto, Tell, TypeOK, PullRequest,
       Started, Sent, DraftOfOpen, Waiting, Command, Participation, Puts, Transitions
  <2>12. CASE Succeed(w)
    BY <2>12 DEF Succeed, command, request, result, ghosts, Goto, Tell, TypeOK, PullRequest,
       Started, Sent, DraftOfOpen, Waiting, Command, Participation, Puts, Transitions
  <2>13. CASE Retry(w)
    BY <2>13 DEF Retry, command, request, result, ghosts, Goto, IsRetried, TypeOK, PullRequest,
       Started, Sent, DraftOfOpen, Waiting, Command, Participation, Puts, Transitions
  <2>14. CASE Conflict(w)
    BY <2>14 DEF Conflict, command, request, result, ghosts, Goto, Tell, IsRetried, TypeOK,
       PullRequest, Started, Sent, DraftOfOpen, Waiting, Command, Participation, Puts, Transitions
  <2>15. CASE ReadBack(w)
    BY <2>15 DEF ReadBack, command, request, result, ghosts, Goto, Tell, ReviewersAfter,
       Applied, Confirmed, TypeOK, PullRequest, Started, Sent, DraftOfOpen, Waiting, Command,
       Participation, Puts, Transitions
  <2>. QED
    BY <1>1, <2>1, <2>2, <2>3, <2>4, <2>5, <2>6, <2>7, <2>8, <2>9, <2>10, <2>11, <2>12, <2>13,
       <2>14, <2>15 DEF Write
<1>2. ASSUME NEW copy \in travelling, Land(copy) PROVE DraftToldOfOpen'
  <2>1. /\ UNCHANGED <<cmd, told>>
        /\ \A w \in Writers : pc[w] = "done" => returned'[w] = returned[w]
    BY <1>2, LandFacts DEF Current
  <2>2. /\ DraftToldOfOpen
        /\ \A w \in Writers : cmd[w] # Nothing /\ told[w] # "nothing" => pc[w] = "done"
    BY DEF Started
  <2>. HIDE DEF IInv
  <2>. QED
    BY <2>1, <2>2
<1>3. ASSUME NEW copy \in travelling, Refuse(copy) PROVE DraftToldOfOpen'
  BY <1>3 DEF Refuse, Refusals, Current, Reply, command, request, result, ghosts, TypeOK,
     PullRequest, Started, Sent, DraftOfOpen, Waiting, Command, Participation, Puts, Transitions
<1>4. CASE SomebodyElse
  BY <1>4 DEF SomebodyElse, command, request, result, ghosts, TypeOK, PullRequest, Started,
     Sent, DraftOfOpen, Waiting, Command, Participation, Puts, Transitions
<1>5. CASE UNCHANGED vars
  BY <1>5 DEF vars, command, request, result, ghosts, TypeOK, PullRequest, Started, Sent,
     DraftOfOpen, Waiting, Command, Participation, Puts, Transitions
<1>. QED
  BY <1>1, <1>2, <1>3, <1>4, <1>5 DEF Next

LEMMA OncePerTryStep ==
  ASSUME IInv, [Next]_vars
  PROVE  OncePerTry'
<1>. USE PullRequestAssumption DEF IInv, OncePerTry, Versioned, Participation, Puts,
         Transitions
<1>1. ASSUME NEW w \in Writers, Write(w) PROVE OncePerTry'
  <2>0. /\ OncePerTry
        /\ pc[w] = "idle" => landed[w] = {}
        /\ \A v \in Writers : try[v] \in Nat
    BY DEF Started, TypeOK, Tries
  <2>1. CASE Start(w)
    <3>1. /\ \A v \in Writers : v # w => At(v)' = At(v) /\ cmd'[v] = cmd[v] /\ pc'[v] = pc[v]
          /\ UNCHANGED <<pr, travelling, try, landed>> /\ landed[w] = {}
      BY <2>0, <2>1, StartFacts DEF At
    <3>. HIDE DEF IInv
    <3>. QED
      BY <2>0, <3>1
  <2>2. CASE Read(w)
    <3>1. /\ \A v \in Writers : v # w => At(v)' = At(v) /\ pc'[v] = pc[v]
          /\ UNCHANGED <<pr, travelling, cmd, try, landed>> /\ pc'[w] = "write"
      BY <2>2, ReadFacts DEF At
    <3>. HIDE DEF IInv
    <3>. QED
      BY <2>0, <3>1
  <2>3. CASE Quiet(w)
    <3>1. /\ UNCHANGED <<pr, travelling, command, cmd, seen, try, landed>>
          /\ \A v \in Writers : pc'[v] = "await" => pc[v] = "await"
      BY <2>3, QuietFacts
    <3>2. \A v \in Writers : At(v)' = At(v)
      BY <3>1, CarriedKept
    <3>. HIDE DEF IInv
    <3>. QED
      BY <2>0, <3>1, <3>2
  <2>4. CASE Send(w)
    <3>1. Dispatch(w, try[w] + 1, 0) /\ landed' = landed
      BY <2>4 DEF Send, ghosts
    <3>2. /\ UNCHANGED <<pr, command, cmd, seen>> /\ try'[w] = try[w] + 1
          /\ \A v \in Writers : v # w => try'[v] = try[v] /\ pc'[v] = pc[v]
          /\ \A c \in travelling' : c \notin travelling => c.by = w /\ c.try = try[w] + 1
      BY <3>1, Dispatched DEF command
    <3>3. \A v \in Writers : At(v)' = At(v)
      BY <3>2, CarriedKept
    <3>. HIDE DEF IInv
    <3>. QED
      BY <2>0, <3>1, <3>2, <3>3
  <2>5. CASE AnswerLost(w) \/ Throttled(w)
    <3>1. pc[w] = "await" /\ landed' = landed
      BY <2>5, LostOrThrottled
    <3>2. CASE Dispatch(w, try[w], attempt[w] + 1)
      <4>1. /\ UNCHANGED <<pr, command, cmd, seen>> /\ try'[w] = try[w]
            /\ \A v \in Writers : v # w => try'[v] = try[v] /\ pc'[v] = pc[v]
            /\ \A c \in travelling' : c \notin travelling =>
                 c.by = w /\ c.try = try[w] /\ c.version = At(w)
        BY <3>2, Dispatched DEF command
      <4>2. \A v \in Writers : At(v)' = At(v)
        BY <4>1, CarriedKept
      <4>. HIDE DEF IInv
      <4>. QED
        BY <2>0, <3>1, <4>1, <4>2
    <3>3. CASE ~Dispatch(w, try[w], attempt[w] + 1)
      <4>1. UNCHANGED <<pr, travelling, cmd, asserted, seen, try>> /\ pc' = [pc EXCEPT ![w] = "done"]
        BY <2>5, <3>3, LostOrThrottled
      <4>2. \A v \in Writers : At(v)' = At(v)
        BY <4>1, CarriedKept DEF command
      <4>3. \A v \in Writers : pc'[v] # "done" => pc'[v] = pc[v]
        BY <4>1 DEF TypeOK
      <4>. HIDE DEF IInv
      <4>. QED
        BY <2>0, <3>1, <4>1, <4>2, <4>3
    <3>. QED
      BY <3>2, <3>3
  <2>6. CASE Retry(w)
    <3>1. /\ UNCHANGED <<pr, travelling, command, cmd, seen, try, landed>>
          /\ \A v \in Writers : pc'[v] = "await" => pc[v] = "await"
      BY <2>6, RetryFacts
    <3>2. \A v \in Writers : At(v)' = At(v)
      BY <3>1, CarriedKept
    <3>. HIDE DEF IInv
    <3>. QED
      BY <2>0, <3>1, <3>2
  <2>. QED
    BY <1>1, <2>1, <2>2, <2>3, <2>4, <2>5, <2>6 DEF Write, Quiet
<1>2. ASSUME NEW copy \in travelling, Land(copy) PROVE OncePerTry'
  <2>1. /\ UNCHANGED <<pc, cmd, asserted, seen, try>> /\ travelling' = travelling \ {copy}
        /\ pr.version \in Nat /\ pr'.version = pr.version + 1 /\ copy.by \in Writers
        /\ copy.version \in {NoVersion, pr.version} /\ copy.try \in Tries
        /\ \A v \in Writers : v # copy.by => landed'[v] = landed[v]
        /\ landed'[copy.by] = landed[copy.by] \cup {<<copy.try, copy.attempt>>}
    BY <1>2, LandFacts
  <2>2. \A w \in Writers : At(w)' = At(w) /\ Versioned(w)' = Versioned(w)
    BY <2>1, CarriedKept DEF command, Versioned
  <2>3. ASSUME Versioned(copy.by)
        PROVE  /\ copy.version = pr.version /\ copy.try \in 1 .. try[copy.by]
               /\ \A x \in landed[copy.by] : x[1] # copy.try
    <3>1. copy.version = pr.version
      BY <2>1, <2>3, PullRequestAssumption DEF Carried
    <3>2. copy.try \in 1 .. try[copy.by]
      BY <2>1 DEF Carried, TypeOK, Tries
    <3>3. cmd[copy.by] # Nothing
      BY <2>1 DEF Started
    <3>. QED
      BY <2>1, <2>3, <3>1, <3>2, <3>3
  <2>4. \A c \in travelling : Versioned(c.by) => c.version \in Nat /\ c.version <= pr.version
    BY DEF Carried
  <2>5. ASSUME NEW w \in Writers, cmd[w] # Nothing, Versioned(w), pc[w] = "await"
        PROVE  At(w) \in Nat /\ At(w) <= pr.version
    BY <2>5, AtIsNumber DEF Started, Sent
  <2>6. OncePerTry
    OBVIOUS
  <2>. HIDE DEF IInv, OncePerTry
  <2>7. \A c \in travelling' : Versioned(c.by) => c.version < pr'.version
    BY <2>1, <2>4
  <2>8. ASSUME NEW w \in Writers, cmd[w] # Nothing, Versioned(w)
        PROVE  /\ \A x \in landed'[w] : x[1] \in 1 .. try[w]
               /\ \A x, y \in landed'[w] : x[1] = y[1] => x = y
    BY <2>1, <2>3, <2>6, <2>8 DEF OncePerTry
  <2>9. ASSUME NEW w \in Writers, cmd[w] # Nothing, Versioned(w), pc[w] = "await"
        PROVE  At(w) < pr'.version
    BY <2>1, <2>5, <2>9
  <2>. QED
    BY <2>1, <2>2, <2>7, <2>8, <2>9 DEF OncePerTry
<1>3. ASSUME NEW copy \in travelling, Refuse(copy) PROVE OncePerTry'
  <2>1. /\ travelling' \subseteq travelling
        /\ UNCHANGED <<pr, pc, cmd, asserted, seen, try, landed>>
    BY <1>3, RefuseFacts
  <2>2. \A w \in Writers : At(w)' = At(w)
    BY <2>1, CarriedKept DEF command
  <2>3. OncePerTry
    OBVIOUS
  <2>. HIDE DEF IInv
  <2>. QED
    BY <2>1, <2>2, <2>3
<1>4. CASE SomebodyElse
  <2>1. /\ pr.version \in Nat /\ pr'.version = pr.version + 1
        /\ UNCHANGED <<travelling, pc, cmd, asserted, seen, try, landed>>
    BY <1>4 DEF SomebodyElse, TypeOK, PullRequest, command, request, ghosts
  <2>2. \A w \in Writers : At(w)' = At(w) /\ Echo(w)' = Echo(w)
    BY <2>1, CarriedKept DEF command
  <2>3. /\ OncePerTry
        /\ \A c \in travelling : Versioned(c.by) => c.version \in Nat
        /\ \A w \in Writers : cmd[w] # Nothing /\ Versioned(w) /\ pc[w] = "await" => At(w) \in Nat
    BY AtIsNumber DEF Carried, Started, Sent
  <2>. HIDE DEF IInv
  <2>. QED
    BY <2>1, <2>2, <2>3
<1>5. CASE UNCHANGED vars
  <2>1. UNCHANGED <<pr, travelling, pc, cmd, asserted, seen, try, landed>>
    BY <1>5 DEF vars, command, request, ghosts
  <2>2. \A w \in Writers : At(w)' = At(w) /\ Echo(w)' = Echo(w)
    BY <2>1, CarriedKept DEF command
  <2>3. OncePerTry
    OBVIOUS
  <2>. HIDE DEF IInv
  <2>. QED
    BY <2>1, <2>2, <2>3
<1>. QED
  BY <1>1, <1>2, <1>3, <1>4, <1>5 DEF Next

LEMMA HeardOnceStep ==
  ASSUME IInv, [Next]_vars
  PROVE  HeardOnce'
<1>. USE PullRequestAssumption DEF IInv, HeardOnce
<1>1. ASSUME NEW w \in Writers, Write(w) PROVE HeardOnce'
  <2>1. CASE Start(w)
    BY <2>1 DEF Start, command, request, result, ghosts, Goto, TypeOK, Copies, Started, Sent,
       Tries, Attempts, Carried, Distinct
  <2>2. CASE Read(w)
    BY <2>2 DEF Read, command, request, result, ghosts, Goto, TypeOK, Copies, Started, Sent,
       Tries, Attempts, Carried, Distinct
  <2>3. CASE ReadFails(w)
    BY <2>3 DEF ReadFails, command, request, result, ghosts, Goto, Tell, TypeOK, Copies,
       Started, Sent, Tries, Attempts, Carried, Distinct
  <2>4. CASE RefuseClosed(w)
    BY <2>4 DEF RefuseClosed, command, request, result, ghosts, Goto, Tell, MayChangeDraft,
       TypeOK, Copies, Started, Sent, Tries, Attempts, Carried, Distinct
  <2>5. CASE Unchanged(w)
    BY <2>5 DEF Unchanged, command, request, result, ghosts, Goto, Tell, MayChangeDraft,
       AlreadyTrue, TypeOK, Copies, Started, Sent, Tries, Attempts, Carried, Distinct
  <2>6. CASE Send(w)
    BY <2>6 DEF Send, command, request, result, ghosts, Goto, MayChangeDraft, AlreadyTrue,
       Dispatch, Copy, TypeOK, Copies, Started, Sent, Tries, Attempts, Carried, Distinct
  <2>7. CASE NotSent(w)
    BY <2>7 DEF NotSent, command, request, result, ghosts, Goto, Tell, MayChangeDraft,
       AlreadyTrue, TypeOK, Copies, Started, Sent, Tries, Attempts, Carried, Distinct
  <2>8. CASE AnswerLost(w)
    <3>1. pc[w] = "await" /\ landed' = landed /\ NotHeard(w)
      BY <2>8, LostOrThrottled DEF AnswerLost
    <3>2. /\ \A v \in Writers : v # w =>
               /\ unheard'[v] = unheard[v] /\ pc'[v] = pc[v] /\ try'[v] = try[v]
               /\ attempt'[v] = attempt[v] /\ answer'[v] = answer[v]
          /\ pc'[w] = "await" => answer'[w] = "none"
      BY <2>8, <3>1, NotHeardAdds, LostOrThrottled, Dispatched DEF TypeOK
    <3>3. \A x : x \in unheard'[w] <=>
            x \in unheard[w] \/ (answer[w] = "ok" /\ x = <<try[w], attempt[w]>>)
      BY <3>1, NotHeardAdds
    <3>4. unheard'[w] \subseteq landed'[w] /\ landed'[w] \subseteq unheard'[w]
      BY <3>1, <3>3
    <3>5. \A v \in Writers : v # w =>
            /\ unheard'[v] \subseteq landed'[v]
            /\ pc'[v] = "await" /\ answer'[v] = "ok" => <<try'[v], attempt'[v]>> \in landed'[v]
            /\ \A x \in landed'[v] : x \notin unheard'[v] =>
                 /\ x = <<try'[v], attempt'[v]>>
                 /\ pc'[v] = "await" => answer'[v] = "ok"
                 /\ pc'[v] \in {"await", "readBack", "done"}
      BY <3>1, <3>2
    <3>. HIDE DEF HeardOnce
    <3>. SUFFICES ASSUME NEW v \in Writers
         PROVE /\ unheard'[v] \subseteq landed'[v]
               /\ pc'[v] = "await" /\ answer'[v] = "ok" =>
                    <<try'[v], attempt'[v]>> \in landed'[v]
               /\ \A x \in landed'[v] : x \notin unheard'[v] =>
                    /\ x = <<try'[v], attempt'[v]>>
                    /\ pc'[v] = "await" => answer'[v] = "ok"
                    /\ pc'[v] \in {"await", "readBack", "done"}
      BY DEF HeardOnce
    <3>. QED
      BY <3>2, <3>4, <3>5
  <2>9. CASE Throttled(w)
    <3>1. pc[w] = "await" /\ answer[w] = "throttled" /\ UNCHANGED <<landed, unheard>>
      BY <2>9 DEF Throttled, ghosts
    <3>2. \/ Dispatch(w, try[w], attempt[w] + 1)
          \/ pc' = [pc EXCEPT ![w] = "done"] /\ UNCHANGED <<try, attempt, answer>>
      BY <2>9, LostOrThrottled
    <3>3. \A v \in Writers : v # w =>
            pc'[v] = pc[v] /\ try'[v] = try[v] /\ attempt'[v] = attempt[v] /\ answer'[v] = answer[v]
      <4>1. CASE Dispatch(w, try[w], attempt[w] + 1)
        BY <4>1, Dispatched
      <4>2. CASE pc' = [pc EXCEPT ![w] = "done"] /\ UNCHANGED <<try, attempt, answer>>
        BY <4>2 DEF TypeOK
      <4>. QED
        BY <3>2, <4>1, <4>2
    <3>4. pc'[w] = "await" => answer'[w] = "none"
      BY <3>2, Dispatched DEF TypeOK
    <3>5. \A x \in landed[w] : x \in unheard[w]
      BY <3>1
    <3>6. \A v \in Writers :
            /\ unheard[v] \subseteq landed[v]
            /\ v # w /\ pc[v] = "await" /\ answer[v] = "ok" => <<try[v], attempt[v]>> \in landed[v]
            /\ v # w => \A x \in landed[v] : x \notin unheard[v] =>
                 /\ x = <<try[v], attempt[v]>>
                 /\ pc[v] = "await" => answer[v] = "ok"
                 /\ pc[v] \in {"await", "readBack", "done"}
      BY DEF HeardOnce
    <3>7. UNCHANGED <<landed, unheard>>
      BY <3>1
    <3>. HIDE DEF IInv, HeardOnce
    <3>. SUFFICES ASSUME NEW v \in Writers
         PROVE /\ unheard'[v] \subseteq landed'[v]
               /\ pc'[v] = "await" /\ answer'[v] = "ok" =>
                    <<try'[v], attempt'[v]>> \in landed'[v]
               /\ \A x \in landed'[v] : x \notin unheard'[v] =>
                    /\ x = <<try'[v], attempt'[v]>>
                    /\ pc'[v] = "await" => answer'[v] = "ok"
                    /\ pc'[v] \in {"await", "readBack", "done"}
      BY DEF HeardOnce
    <3>8. CASE v = w
      BY <3>4, <3>5, <3>6, <3>7, <3>8
    <3>9. CASE v # w
      BY <3>3, <3>6, <3>7, <3>9
    <3>. QED
      BY <3>8, <3>9
  <2>10. CASE BreakOff(w)
    <3>1. pc[w] = "await" /\ landed' = landed /\ NotHeard(w)
      BY <2>10 DEF BreakOff
    <3>2. /\ \A v \in Writers : v # w =>
               /\ unheard'[v] = unheard[v] /\ pc'[v] = pc[v] /\ try'[v] = try[v]
               /\ attempt'[v] = attempt[v] /\ answer'[v] = answer[v]
          /\ pc'[w] = "await" => answer'[w] = "none"
      BY <2>10, <3>1, NotHeardAdds DEF BreakOff, Goto, TypeOK, request
    <3>3. \A x : x \in unheard'[w] <=>
            x \in unheard[w] \/ (answer[w] = "ok" /\ x = <<try[w], attempt[w]>>)
      BY <3>1, NotHeardAdds
    <3>4. unheard'[w] \subseteq landed'[w] /\ landed'[w] \subseteq unheard'[w]
      BY <3>1, <3>3
    <3>5. \A v \in Writers : v # w =>
            /\ unheard'[v] \subseteq landed'[v]
            /\ pc'[v] = "await" /\ answer'[v] = "ok" => <<try'[v], attempt'[v]>> \in landed'[v]
            /\ \A x \in landed'[v] : x \notin unheard'[v] =>
                 /\ x = <<try'[v], attempt'[v]>>
                 /\ pc'[v] = "await" => answer'[v] = "ok"
                 /\ pc'[v] \in {"await", "readBack", "done"}
      BY <3>1, <3>2
    <3>. HIDE DEF HeardOnce
    <3>. SUFFICES ASSUME NEW v \in Writers
         PROVE /\ unheard'[v] \subseteq landed'[v]
               /\ pc'[v] = "await" /\ answer'[v] = "ok" =>
                    <<try'[v], attempt'[v]>> \in landed'[v]
               /\ \A x \in landed'[v] : x \notin unheard'[v] =>
                    /\ x = <<try'[v], attempt'[v]>>
                    /\ pc'[v] = "await" => answer'[v] = "ok"
                    /\ pc'[v] \in {"await", "readBack", "done"}
      BY DEF HeardOnce
    <3>. QED
      BY <3>2, <3>4, <3>5
  <2>11. CASE Unusable(w)
    BY <2>11 DEF Unusable, command, request, result, ghosts, Goto, Tell, TypeOK, Copies,
       Started, Sent, Tries, Attempts, Carried, Distinct
  <2>12. CASE Succeed(w)
    BY <2>12 DEF Succeed, command, request, result, ghosts, Goto, Tell, TypeOK, Copies, Started,
       Sent, Tries, Attempts, Carried, Distinct
  <2>13. CASE Retry(w)
    BY <2>13 DEF Retry, command, request, result, ghosts, Goto, IsRetried, TypeOK, Copies,
       Started, Sent, Tries, Attempts, Carried, Distinct
  <2>14. CASE Conflict(w)
    BY <2>14 DEF Conflict, command, request, result, ghosts, Goto, Tell, IsRetried, TypeOK,
       Copies, Started, Sent, Tries, Attempts, Carried, Distinct
  <2>15. CASE ReadBack(w)
    BY <2>15 DEF ReadBack, command, request, result, ghosts, Goto, Tell, ReviewersAfter,
       Applied, Confirmed, TypeOK, Copies, Started, Sent, Tries, Attempts, Carried, Distinct
  <2>. QED
    BY <1>1, <2>1, <2>2, <2>3, <2>4, <2>5, <2>6, <2>7, <2>8, <2>9, <2>10, <2>11, <2>12, <2>13,
       <2>14, <2>15 DEF Write
<1>2. ASSUME NEW copy \in travelling, Land(copy) PROVE HeardOnce'
  <2>1. /\ copy.by \in Writers /\ UNCHANGED <<pc, try, attempt>>
        /\ \A v \in Writers : v # copy.by =>
             landed'[v] = landed[v] /\ unheard'[v] = unheard[v] /\ answer'[v] = answer[v]
        /\ landed'[copy.by] = landed[copy.by] \cup {<<copy.try, copy.attempt>>}
        /\ Current(copy) => answer'[copy.by] = "ok" /\ unheard'[copy.by] = unheard[copy.by]
        /\ ~Current(copy) =>
             /\ answer'[copy.by] = answer[copy.by]
             /\ unheard'[copy.by] = unheard[copy.by] \cup {<<copy.try, copy.attempt>>}
    BY <1>2, LandFacts
  <2>2. HeardOnce
    OBVIOUS
  <2>. HIDE DEF IInv, HeardOnce
  <2>. QED
    BY <2>1, <2>2 DEF HeardOnce, Current
<1>3. ASSUME NEW copy \in travelling, Refuse(copy) PROVE HeardOnce'
  BY <1>3 DEF Refuse, Refusals, Current, Reply, command, request, result, ghosts, TypeOK,
     Copies, Started, Sent, Tries, Attempts, Carried, Distinct
<1>4. CASE SomebodyElse
  BY <1>4 DEF SomebodyElse, command, request, result, ghosts, TypeOK, Copies, Started, Sent,
     Tries, Attempts, Carried, Distinct
<1>5. CASE UNCHANGED vars
  BY <1>5 DEF vars, command, request, result, ghosts, TypeOK, Copies, Started, Sent, Tries,
     Attempts, Carried, Distinct
<1>. QED
  BY <1>1, <1>2, <1>3, <1>4, <1>5 DEF Next

LEMMA PostOnceStep ==
  ASSUME IInv, [Next]_vars
  PROVE  PostOnce'
<1>. USE PullRequestAssumption DEF IInv, PostOnce, IsPost, Replayable, Participation, Puts,
         Transitions
<1>1. ASSUME NEW w \in Writers, Write(w) PROVE PostOnce'
  <2>1. CASE Start(w)
    BY <2>1 DEF Start, command, request, result, ghosts, Goto, TypeOK, Copies, Started, Sent,
       Tries, Attempts, Carried, OutOfDate, Command, Distinct
  <2>2. CASE Read(w)
    BY <2>2 DEF Read, command, request, result, ghosts, Goto, TypeOK, Copies, Started, Sent,
       Tries, Attempts, Carried, OutOfDate, Command, Distinct
  <2>3. CASE ReadFails(w)
    BY <2>3 DEF ReadFails, command, request, result, ghosts, Goto, Tell, TypeOK, Copies,
       Started, Sent, Tries, Attempts, Carried, OutOfDate, Command, Distinct
  <2>4. CASE RefuseClosed(w)
    BY <2>4 DEF RefuseClosed, command, request, result, ghosts, Goto, Tell, MayChangeDraft,
       TypeOK, Copies, Started, Sent, Tries, Attempts, Carried, OutOfDate, Command, Distinct
  <2>5. CASE Unchanged(w)
    BY <2>5 DEF Unchanged, command, request, result, ghosts, Goto, Tell, MayChangeDraft,
       AlreadyTrue, TypeOK, Copies, Started, Sent, Tries, Attempts, Carried, OutOfDate, Command,
       Distinct
  <2>6. CASE Send(w)
    BY <2>6 DEF Send, command, request, result, ghosts, Goto, MayChangeDraft, AlreadyTrue,
       Dispatch, Copy, TypeOK, Copies, Started, Sent, Tries, Attempts, Carried, OutOfDate,
       Command, Distinct
  <2>7. CASE NotSent(w)
    BY <2>7 DEF NotSent, command, request, result, ghosts, Goto, Tell, MayChangeDraft,
       AlreadyTrue, TypeOK, Copies, Started, Sent, Tries, Attempts, Carried, OutOfDate, Command,
       Distinct
  <2>8. CASE AnswerLost(w)
    BY <2>8, NotHeardAdds DEF AnswerLost, command, request, result, ghosts, Goto, Tell,
       Dispatch, Copy, TypeOK, Copies, Started, Sent, Tries, Attempts, Carried, OutOfDate,
       Command, Distinct
  <2>9. CASE Throttled(w)
    BY <2>9 DEF Throttled, command, request, result, ghosts, Goto, Tell, Dispatch, Copy, TypeOK,
       Copies, Started, Sent, Tries, Attempts, Carried, OutOfDate, Command, Distinct
  <2>10. CASE BreakOff(w)
    BY <2>10, NotHeardAdds DEF BreakOff, command, request, result, ghosts, Goto, TypeOK, Copies,
       Started, Sent, Tries, Attempts, Carried, OutOfDate, Command, Distinct
  <2>11. CASE Unusable(w)
    BY <2>11 DEF Unusable, command, request, result, ghosts, Goto, Tell, TypeOK, Copies,
       Started, Sent, Tries, Attempts, Carried, OutOfDate, Command, Distinct
  <2>12. CASE Succeed(w)
    BY <2>12 DEF Succeed, command, request, result, ghosts, Goto, Tell, TypeOK, Copies, Started,
       Sent, Tries, Attempts, Carried, OutOfDate, Command, Distinct
  <2>13. CASE Retry(w)
    BY <2>13 DEF Retry, command, request, result, ghosts, Goto, IsRetried, TypeOK, Copies,
       Started, Sent, Tries, Attempts, Carried, OutOfDate, Command, Distinct
  <2>14. CASE Conflict(w)
    BY <2>14 DEF Conflict, command, request, result, ghosts, Goto, Tell, IsRetried, TypeOK,
       Copies, Started, Sent, Tries, Attempts, Carried, OutOfDate, Command, Distinct
  <2>15. CASE ReadBack(w)
    BY <2>15 DEF ReadBack, command, request, result, ghosts, Goto, Tell, ReviewersAfter,
       Applied, Confirmed, TypeOK, Copies, Started, Sent, Tries, Attempts, Carried, OutOfDate, Command,
       Distinct
  <2>. QED
    BY <1>1, <2>1, <2>2, <2>3, <2>4, <2>5, <2>6, <2>7, <2>8, <2>9, <2>10, <2>11, <2>12, <2>13,
       <2>14, <2>15 DEF Write
<1>2. ASSUME NEW copy \in travelling, Land(copy) PROVE PostOnce'
  <2>. DEFINE by == copy.by
  <2>1. /\ UNCHANGED <<pc, cmd, try, attempt, told, garbled>>
        /\ travelling' = travelling \ {copy} /\ by \in Writers
        /\ copy.try \in Tries /\ copy.attempt \in Attempts
    BY <1>2 DEF Land, command, TypeOK, Copies
  <2>2. /\ \A w \in Writers : w # by => landed'[w] = landed[w] /\ answer'[w] = answer[w]
        /\ landed'[by] = landed[by] \cup {<<copy.try, copy.attempt>>}
        /\ Current(copy) => answer'[by] = "ok"
    <3>. HIDE DEF IInv, PostOnce
    <3>1. answer' = [answer EXCEPT ![by] = IF Current(copy) THEN "ok" ELSE answer[by]]
      BY <1>2 DEF Land, Reply
    <3>2. landed' = [landed EXCEPT ![by] = landed[by] \cup {<<copy.try, copy.attempt>>}]
      BY <1>2 DEF Land
    <3>3. answer \in [Writers -> {"none", "ok", "unread", "stale", "conflict", "throttled"}]
          /\ landed \in [Writers -> SUBSET (Tries \X Attempts)]
      BY DEF IInv, TypeOK
    <3>. HIDE DEF by
    <3>4. \A w \in Writers : w # by => landed'[w] = landed[w] /\ answer'[w] = answer[w]
      BY <2>1, <3>1, <3>2, <3>3
    <3>5. landed'[by] = landed[by] \cup {<<copy.try, copy.attempt>>}
      BY <2>1, <3>2, <3>3
    <3>6. Current(copy) => answer'[by] = "ok"
      BY <2>1, <3>1, <3>3
    <3>. QED
      BY <3>4, <3>5, <3>6
  <2>. HIDE DEF IInv
  <2>3. ASSUME NEW w \in Writers, w # by, IsPost(w)'
        PROVE  /\ IsPost(w) /\ landed'[w] = landed[w] /\ answer'[w] = answer[w]
               /\ \A c \in travelling' : c \in travelling
    BY <2>1, <2>2, <2>3
  <2>4. ASSUME IsPost(by)'
        PROVE  /\ landed[by] = {} /\ pc[by] \in {"await", "done"}
               /\ pc[by] = "await" => Current(copy)
               /\ pc[by] = "done" => told[by] = "unknown_outcome"
               /\ \A c \in travelling' : c.by # by
    <3>1. IsPost(by)
      BY <2>1, <2>4
    <3>2. \A c \in travelling : c.by = by => c.try = try[by] /\ c.attempt = attempt[by]
      BY <2>1, <3>1 DEF IInv
    <3>3. \A c \in travelling : c.by = by => c = copy
      BY <3>2 DEF IInv, Distinct
    <3>. QED
      BY <2>1, <3>1, <3>2, <3>3 DEF IInv, Current
  <2>5. ASSUME NEW w \in Writers, w = by, IsPost(w)'
        PROVE  /\ landed'[w] = {<<copy.try, copy.attempt>>}
               /\ <<copy.try, copy.attempt>> \in Tries \X Attempts
               /\ pc'[w] \in {"await", "done"}
               /\ pc'[w] = "await" => answer'[w] = "ok"
               /\ pc'[w] = "done" => told'[w] = "unknown_outcome"
               /\ \A c \in travelling' : c.by # w
    BY <2>1, <2>2, <2>4, <2>5
  <2>. QED
    BY <2>1, <2>3, <2>5 DEF IInv
<1>3. ASSUME NEW copy \in travelling, Refuse(copy) PROVE PostOnce'
  <2>1. /\ copy.by \in Writers /\ travelling' \subseteq travelling
        /\ UNCHANGED <<pc, cmd, try, attempt, told, garbled, landed>>
        /\ \A v \in Writers : v # copy.by => answer'[v] = answer[v]
        /\ ~Current(copy) => answer'[copy.by] = answer[copy.by]
    BY <1>3, RefuseFacts
  <2>2. \A w \in Writers : IsPost(w)' = IsPost(w)
    BY <2>1 DEF IsPost
  <2>4. \A c \in travelling : c.by = copy.by /\ c # copy =>
          ~(c.try = copy.try /\ c.attempt = copy.attempt)
    BY DEF Distinct
  <2>5. PostOnce
    OBVIOUS
  <2>. HIDE DEF IInv, PostOnce
  <2>6. ASSUME IsPost(copy.by)
        PROVE  /\ \A c \in travelling' : c.by # copy.by
               /\ landed[copy.by] = {} /\ pc[copy.by] \in {"await", "done"}
               /\ pc[copy.by] = "await" => answer'[copy.by] # "ok"
    <3>1. /\ landed[copy.by] = {} /\ copy.try = try[copy.by] /\ copy.attempt = attempt[copy.by]
          /\ pc[copy.by] \in {"await", "done"}
      BY <2>1, <2>5, <2>6 DEF PostOnce
    <3>2. \A c \in travelling : c.by = copy.by => c = copy
      BY <2>1, <2>4, <2>5, <2>6, <3>1 DEF PostOnce
    <3>3. pc[copy.by] = "await" => answer'[copy.by] # "ok"
      BY <1>3, <3>1, RefuseFacts DEF IInv, Current
    <3>. QED
      BY <1>3, <3>1, <3>2, <3>3, RefuseFacts DEF IInv
  <2>7. ASSUME NEW w \in Writers, w # copy.by, IsPost(w)
        PROVE  /\ \A c \in travelling' : c \in travelling
               /\ answer'[w] = answer[w]
    BY <2>1, <2>7
  <2>. QED
    BY <2>1, <2>2, <2>5, <2>6, <2>7 DEF PostOnce
<1>4. CASE SomebodyElse
  BY <1>4 DEF SomebodyElse, command, request, result, ghosts, TypeOK, Copies, Started, Sent,
     Tries, Attempts, Carried, OutOfDate, Command, Distinct
<1>5. CASE UNCHANGED vars
  BY <1>5 DEF vars, command, request, result, ghosts, TypeOK, Copies, Started, Sent, Tries,
     Attempts, Carried, OutOfDate, Command, Distinct
<1>. QED
  BY <1>1, <1>2, <1>3, <1>4, <1>5 DEF Next

LEMMA Starts == Init => IInv
<1>. SUFFICES ASSUME Init PROVE IInv
  OBVIOUS
<1>1. TypeOK
  BY PullRequestAssumption DEF Init, TypeOK, PullRequest, Tries, Attempts
<1>2. Started /\ DraftOfOpen /\ DraftToldOfOpen
  BY DEF Init, Started, DraftOfOpen, DraftToldOfOpen, Sent, Waiting
<1>3. SeenIsOld /\ Distinct /\ Carried /\ OutOfDate
  BY DEF Init, SeenIsOld, Distinct, Carried, OutOfDate
<1>4. OncePerTry /\ HeardOnce /\ PostOnce
  BY DEF Init, OncePerTry, HeardOnce, PostOnce, IsPost
<1>. QED
  BY <1>1, <1>2, <1>3, <1>4 DEF IInv

LEMMA StepKeeps == IInv /\ [Next]_vars => IInv'
BY TypeOKStep, StartedStep, SeenIsOldStep, DistinctStep, CarriedStep, OutOfDateStep,
   DraftOfOpenStep, DraftToldOfOpenStep, OncePerTryStep, HeardOnceStep, PostOnceStep
   DEF IInv

THEOREM Invariance == Spec => []IInv
BY Starts, StepKeeps, PTL DEF Spec

(* Every variable has its type, in every state (TypeOK).                   *)
THEOREM TypeCorrect == Spec => []TypeOK
BY Invariance, PTL DEF IInv

(* What ready and draft return is open and as asked for (SetDraft).        *)
THEOREM DraftIsOpen == Spec => []DraftToldOfOpen
BY Invariance, PTL DEF IInv

(* Only a change whose answer never came takes effect again                *)
(* (retryOnceWhenStale).                                                   *)
THEOREM RepeatsTheUnheard == Spec => []RepeatsOnlyTheUnheard
<1>1. IInv => RepeatsOnlyTheUnheard
  <2>. SUFFICES ASSUME IInv, NEW w \in Writers, NEW one \in landed[w], NEW other \in landed[w],
                       one # other
       PROVE /\ Replayable(cmd[w].op)
             /\ one \in unheard[w] \/ other \in unheard[w]
             /\ cmd[w].op \in Puts => landed[w] = {one, other}
    BY DEF RepeatsOnlyTheUnheard
  <2>1. cmd[w] # Nothing /\ try[w] \in Tries
    BY DEF IInv, TypeOK, Started
  <2>2. Replayable(cmd[w].op)
    <3>. SUFFICES ASSUME ~Replayable(cmd[w].op) PROVE FALSE
      OBVIOUS
    <3>1. IsPost(w)
      BY <2>1 DEF IsPost
    <3>2. \E x : landed[w] = {x}
      BY <3>1 DEF IInv, PostOnce
    <3>. QED
      BY <3>2
  <2>3. one \in unheard[w] \/ other \in unheard[w]
    BY DEF IInv, HeardOnce
  <2>4. ASSUME cmd[w].op \in Puts PROVE landed[w] = {one, other}
    <3>1. \A x \in landed[w] : x[1] \in 1 .. 2
      BY <2>1, <2>4 DEF IInv, OncePerTry, Versioned, Participation, Puts, Tries
    <3>2. \A x, y \in landed[w] : x[1] = y[1] => x = y
      BY <2>1, <2>4 DEF IInv, OncePerTry, Versioned, Participation, Puts
    <3>3. ASSUME NEW x \in landed[w] PROVE x \in {one, other}
      <4>1. x[1] \in 1 .. 2 /\ one[1] \in 1 .. 2 /\ other[1] \in 1 .. 2 /\ one[1] # other[1]
        BY <3>1, <3>2
      <4>2. x[1] = one[1] \/ x[1] = other[1]
        BY <4>1
      <4>. QED
        BY <3>2, <4>2
    <3>. QED
      BY <3>3
  <2>. QED
    BY <2>2, <2>3, <2>4
<1>. QED
  BY <1>1, Invariance, PTL

----------------------------------------------------------------------------
(* Only a copy that lands adds to what landed.                             *)
LEMMA OnlyLandLands ==
  ASSUME IInv, [Next]_vars, NEW w \in Writers, Lands(w)
  PROVE  \E copy \in travelling : copy.by = w /\ Land(copy)
<1>1. ~(\E v \in Writers : Write(v))
  <2>. SUFFICES ASSUME NEW v \in Writers, Write(v) PROVE FALSE
    OBVIOUS
  <2>1. landed' = landed
    BY DEF Write, Start, Read, ReadFails, RefuseClosed, Unchanged, Send, NotSent, AnswerLost,
       Throttled, BreakOff, Unusable, Succeed, Retry, Conflict, ReadBack, ghosts
  <2>. QED
    BY <2>1 DEF Lands
<1>2. ~(\E copy \in travelling : Refuse(copy)) /\ ~SomebodyElse /\ ~(UNCHANGED vars)
  BY DEF Lands, Refuse, SomebodyElse, vars, ghosts
<1>3. PICK copy \in travelling : Land(copy)
  BY <1>1, <1>2 DEF Next
<1>4. copy.by = w
  BY <1>3 DEF Land, Lands, IInv, TypeOK, Copies
<1>. QED
  BY <1>3, <1>4

(* A change at a version bb read lands on what bb read                     *)
(* (writeAtCurrentVersion).                                                *)
THEOREM ReadBeforeItLands == Spec => LandsOnWhatWasRead
<1>1. IInv /\ [Next]_vars =>
        [\A w \in Writers :
           Lands(w) /\ asserted[w] = NoVersion /\ cmd[w].op \notin Participation
             => seen[w] = pr]_vars
  <2>. SUFFICES ASSUME IInv, [Next]_vars, NEW w \in Writers, Lands(w),
                       asserted[w] = NoVersion, cmd[w].op \notin Participation
       PROVE seen[w] = pr
    OBVIOUS
  <2>1. PICK copy \in travelling : copy.by = w /\ Land(copy)
    BY OnlyLandLands
  <2>2. copy.version \in Nat /\ copy.version \in {NoVersion, pr.version}
    BY <2>1 DEF IInv, Carried, Versioned, Land
  <2>3. copy.version = pr.version /\ copy.version = At(w)
    BY <2>1, <2>2, PullRequestAssumption DEF IInv, Carried, Versioned
  <2>4. At(w) = seen[w].version
    BY DEF At
  <2>5. wrote[w]
    BY <2>1 DEF IInv, Started
  <2>6. seen[w] # Nothing
    BY <2>5 DEF IInv, Started
  <2>. QED
    BY <2>3, <2>4, <2>6 DEF IInv, SeenIsOld
<1>. QED
  BY <1>1, Invariance, PTL DEF Spec, LandsOnWhatWasRead

(* No reviewer is touched but those that were named (Update,               *)
(* reviewerEcho).                                                          *)
THEOREM ReviewersAreKept == Spec => ReviewersKept
<1>1. IInv /\ [Next]_vars =>
        [\A w \in Writers : Lands(w) =>
           LET changed == (pr.reviewers \ pr'.reviewers) \cup (pr'.reviewers \ pr.reviewers)
           IN IF cmd[w].reviewers = Keep THEN changed = {}
              ELSE cmd[w].op \in Participation => changed \subseteq cmd[w].reviewers]_vars
  <2>. DEFINE changed == (pr.reviewers \ pr'.reviewers) \cup (pr'.reviewers \ pr.reviewers)
  <2>. SUFFICES ASSUME IInv, [Next]_vars, NEW w \in Writers, Lands(w)
       PROVE  /\ cmd[w].reviewers = Keep => changed = {}
              /\ cmd[w].reviewers # Keep /\ cmd[w].op \in Participation =>
                   changed \subseteq cmd[w].reviewers
    OBVIOUS
  <2>1. PICK copy \in travelling : copy.by = w /\ Land(copy)
    BY OnlyLandLands
  <2>2. wrote[w] /\ cmd[w] # Nothing /\ cmd[w] \in Command
    <3>1. wrote[w]
      BY <2>1 DEF IInv, Started
    <3>. QED
      BY <3>1, PullRequestAssumption DEF IInv, Started, TypeOK
  <2>3. pr'.reviewers = ReviewersAfter(pr, cmd[w].op, copy.reviewers)
    BY <2>1 DEF Land, After
  <2>4. CASE cmd[w].op \in Participation
    <3>1. cmd[w].reviewers # Keep
      BY <2>2, <2>4, PullRequestAssumption DEF IInv, TypeOK
    <3>2. copy.reviewers = cmd[w].reviewers
      BY <2>1, <2>4, <3>1 DEF IInv, Carried, Versioned, Echo
    <3>. QED
      BY <2>3, <2>4, <3>1, <3>2 DEF ReviewersAfter, Participation, Puts
  <2>5. CASE cmd[w].op \in Puts /\ cmd[w].reviewers = Keep
    <3>1. copy.version \in Nat /\ copy.version \in {NoVersion, pr.version}
      BY <2>1, <2>5 DEF IInv, Carried, Versioned, Land, Puts, Participation
    <3>2. copy.version = pr.version /\ copy.version = At(w) /\ copy.reviewers = Echo(w)
      BY <2>1, <2>5, <3>1, PullRequestAssumption
         DEF IInv, Carried, Versioned, Puts, Participation
    <3>3. seen[w] # Nothing
      BY <2>2, <2>5 DEF IInv, Started, Puts, Transitions
    <3>4. seen[w].version <= pr.version /\ (seen[w].version = pr.version => seen[w] = pr)
      BY <3>3 DEF IInv, SeenIsOld
    <3>5. asserted[w] # NoVersion => asserted[w] <= seen[w].version
      BY <3>3 DEF IInv, SeenIsOld
    <3>6. seen[w].version \in Nat /\ pr.version \in Nat
      BY <3>3 DEF IInv, TypeOK, PullRequest
    <3>7. seen[w].version = pr.version
      BY <2>5, <3>2, <3>4, <3>5, <3>6 DEF At, Puts, Participation
    <3>8. copy.reviewers = pr.reviewers
      BY <2>5, <3>2, <3>4, <3>7 DEF Echo
    <3>. QED
      BY <2>3, <2>5, <3>8 DEF ReviewersAfter, Puts, Participation
  <2>6. CASE cmd[w].op \notin Puts \cup Participation
    BY <2>3, <2>6 DEF ReviewersAfter, Puts, Participation
  <2>7. CASE cmd[w].op \in Puts /\ cmd[w].reviewers # Keep
    BY <2>7 DEF Puts, Participation
  <2>. QED
    BY <2>4, <2>5, <2>6, <2>7
<1>. QED
  BY <1>1, Invariance, PTL DEF Spec, ReviewersKept
----------------------------------------------------------------------------
(* Of one command, what its promise is about.                              *)
Unread(w) == answer[w] = "unread"

Heard(w) == garbled'[w] = garbled[w] /\ Unread(w)' = Unread(w)

Same(w) == wrote'[w] = wrote[w] /\ landed'[w] = landed[w] /\ Heard(w) /\ told'[w] = told[w]

Told(w, kind) == wrote'[w] = wrote[w] /\ landed'[w] = landed[w] /\ Heard(w) /\ told'[w] = kind

Kept(w) ==
  \/ Same(w)
  \/ /\ told[w] = "nothing" /\ wrote'[w]
     /\ landed'[w] = landed[w] /\ Heard(w) /\ told'[w] = told[w]
  \/ /\ told[w] = "nothing"
     /\ wrote'[w] = wrote[w] /\ landed'[w] = landed[w] /\ told'[w] = told[w]
  \/ /\ wrote[w] /\ landed[w] = {} /\ told[w] \in {"nothing", "unknown_outcome"}
     /\ \E x \in Tries \X Attempts : landed'[w] = {x}
     /\ wrote'[w] = wrote[w] /\ Heard(w) /\ told'[w] = told[w]
  \/ /\ told[w] = "nothing"
     /\ \/ Told(w, "ok") /\ (landed[w] # {} \/ Unread(w))
        \/ Told(w, "unknown_outcome") /\ wrote[w]
        \/ /\ \E kind \in {"refused", "transient", "permanent", "cancelled"} : Told(w, kind)
           /\ landed[w] = {} \/ garbled[w]

LEMMA PostFacts ==
  ASSUME IInv, NEW w \in Writers, IsPost(w)
  PROVE  /\ cmd[w] # Nothing /\ ~Replayable(cmd[w].op) /\ cmd[w].op # "draft" /\ pc[w] # "idle"
         /\ pc[w] # "done" => told[w] = "nothing"
         /\ pc[w] \in {"read", "write", "reread"} => landed[w] = {}
         /\ pc[w] = "await" => wrote[w] /\ (answer[w] = "ok" <=> landed[w] # {})
         /\ pc[w] = "unusable" => garbled[w]
         /\ pc[w] = "readBack" => landed[w] # {} \/ Unread(w)
         /\ Unread(w) => pc[w] \in {"await", "unusable", "readBack", "done"}
<1>1. cmd[w] # Nothing /\ ~Replayable(cmd[w].op) /\ cmd[w].op # "draft"
  BY DEF IsPost, Replayable, Puts
<1>2. pc[w] # "idle" /\ (pc[w] # "done" => told[w] = "nothing") /\ (pc[w] = "await" => wrote[w])
  BY <1>1 DEF IInv, Started, Sent
<1>3. /\ pc[w] \in {"read", "write", "reread"} => landed[w] = {}
      /\ pc[w] = "await" => (answer[w] = "ok" <=> landed[w] # {})
      /\ pc[w] = "unusable" => garbled[w]
      /\ pc[w] = "readBack" => landed[w] # {} \/ Unread(w)
  BY DEF IInv, PostOnce, Unread
<1>4. Unread(w) => pc[w] \in {"await", "unusable", "readBack", "done"}
  BY DEF IInv, Started, Unread
<1>. QED
  BY <1>1, <1>2, <1>3, <1>4

LEMMA OthersAreSame ==
  ASSUME IInv, NEW v \in Writers, Write(v), NEW w \in Writers, w # v
  PROVE  Same(w) /\ cmd'[w] = cmd[w]
<1>. USE DEF Same, Heard, Unread, IInv, TypeOK
<1>1. CASE Start(v)
  BY <1>1 DEF Start, Goto, command, request, result, ghosts
<1>2. CASE Read(v)
  BY <1>2 DEF Read, Goto, command, request, result, ghosts
<1>3. CASE ReadFails(v)
  BY <1>3 DEF ReadFails, Tell, Goto, command, request, result, ghosts
<1>4. CASE RefuseClosed(v)
  BY <1>4 DEF RefuseClosed, Tell, Goto, command, request, result, ghosts
<1>5. CASE Unchanged(v)
  BY <1>5 DEF Unchanged, AlreadyTrue, Goto, Tell, command, request, result, ghosts
<1>6. CASE Send(v)
  BY <1>6 DEF Send, Dispatch, command, request, result, ghosts
<1>7. CASE NotSent(v)
  BY <1>7 DEF NotSent, Tell, Goto, command, request, result, ghosts
<1>8. CASE AnswerLost(v)
  BY <1>8 DEF AnswerLost, Tell, Goto, Replayable, Dispatch, command, request, result, ghosts
<1>9. CASE Throttled(v)
  BY <1>9 DEF Throttled, Dispatch, Tell, Goto, command, request, result, ghosts
<1>10. CASE BreakOff(v)
  BY <1>10 DEF BreakOff, Goto, command, request, result, ghosts
<1>11. CASE Unusable(v)
  BY <1>11 DEF Unusable, Tell, Goto, command, request, result, ghosts
<1>12. CASE Succeed(v)
  BY <1>12 DEF Succeed, Tell, Goto, command, request, result, ghosts
<1>13. CASE Retry(v)
  BY <1>13 DEF Retry, Goto, command, request, result, ghosts
<1>14. CASE Conflict(v)
  BY <1>14 DEF Conflict, Tell, Goto, command, request, result, ghosts
<1>15. CASE ReadBack(v)
  BY <1>15 DEF ReadBack, Tell, Goto, command, request, result, ghosts
<1>. QED
  BY <1>1, <1>2, <1>3, <1>4, <1>5, <1>6, <1>7, <1>8, <1>9, <1>10, <1>11, <1>12, <1>13, <1>14,
     <1>15 DEF Write

LEMMA PostStep ==
  ASSUME IInv, NEW w \in Writers, IsPost(w), Write(w)
  PROVE  Kept(w) /\ cmd'[w] = cmd[w]
<1>1. TypeOK
  BY DEF IInv
<1>. USE <1>1, PostFacts DEF Kept, Same, Told, Heard, Unread, TypeOK
<1>2. CASE Start(w)
  BY <1>2 DEF Start, Goto, command, request, result, ghosts
<1>3. CASE Read(w)
  BY <1>3 DEF Read, Goto, command, request, result, ghosts
<1>4. CASE ReadFails(w)
  BY <1>4 DEF ReadFails, Tell, Goto, command, request, result, ghosts
<1>5. CASE RefuseClosed(w)
  BY <1>5 DEF RefuseClosed, Tell, Goto, command, request, result, ghosts
<1>6. CASE Unchanged(w)
  BY <1>6 DEF Unchanged, AlreadyTrue, Goto, Tell, command, request, result, ghosts
<1>7. CASE Send(w)
  BY <1>7 DEF Send, Dispatch, command, request, result, ghosts
<1>8. CASE NotSent(w)
  BY <1>8 DEF NotSent, Tell, Goto, command, request, result, ghosts
<1>9. CASE AnswerLost(w)
  BY <1>9 DEF AnswerLost, Tell, Goto, Replayable, Dispatch, command, request, result, ghosts
<1>10. CASE Throttled(w)
  BY <1>10 DEF Throttled, Dispatch, Tell, Goto, command, request, result, ghosts
<1>11. CASE BreakOff(w)
  BY <1>11 DEF BreakOff, Goto, command, request, result, ghosts
<1>12. CASE Unusable(w)
  BY <1>12 DEF Unusable, Tell, Goto, command, request, result, ghosts
<1>13. CASE Succeed(w)
  BY <1>13 DEF Succeed, Tell, Goto, command, request, result, ghosts
<1>14. CASE Retry(w)
  BY <1>14 DEF Retry, Goto, command, request, result, ghosts
<1>15. CASE Conflict(w)
  BY <1>15 DEF Conflict, Tell, Goto, command, request, result, ghosts
<1>16. CASE ReadBack(w)
  BY <1>16 DEF ReadBack, Tell, Goto, command, request, result, ghosts
<1>. QED
  BY <1>2, <1>3, <1>4, <1>5, <1>6, <1>7, <1>8, <1>9, <1>10, <1>11, <1>12, <1>13, <1>14, <1>15,
     <1>16 DEF Write

LEMMA PostLands ==
  ASSUME IInv, NEW copy \in travelling, Land(copy), NEW w \in Writers, IsPost(w)
  PROVE  Kept(w) /\ cmd'[w] = cmd[w]
<1>1. UNCHANGED <<cmd, wrote, garbled, told>>
  BY DEF Land, command
<1>2. copy.by \in Writers /\ <<copy.try, copy.attempt>> \in Tries \X Attempts
  BY DEF IInv, TypeOK, Copies
<1>3. landed' = [landed EXCEPT ![copy.by] = landed[copy.by] \cup {<<copy.try, copy.attempt>>}]
  BY DEF Land
<1>4. landed \in [Writers -> SUBSET (Tries \X Attempts)]
  BY DEF IInv, TypeOK
<1>5. CASE copy.by # w
  <2>1. answer'[w] = answer[w]
    BY <1>5, LandFacts DEF IInv
  <2>. QED
    BY <1>1, <1>2, <1>3, <1>4, <1>5, <2>1 DEF Kept, Same, Heard, Unread
<1>6. CASE copy.by = w
  <2>1. /\ landed[w] = {} /\ pc[w] \in {"await", "done"}
        /\ pc[w] = "done" => told[w] = "unknown_outcome"
    BY <1>6 DEF IInv, PostOnce
  <2>2. wrote[w] /\ told[w] \in {"nothing", "unknown_outcome"}
    BY <1>6, <2>1 DEF IInv, Started
  <2>3. landed'[w] = {<<copy.try, copy.attempt>>}
    BY <1>2, <1>3, <1>4, <1>6, <2>1
  <2>4. Unread(w)' = Unread(w)
    <3>1. CASE Current(copy)
      <4>1. answer[w] = "none" /\ answer'[w] = "ok"
        BY <1>6, <3>1, LandFacts DEF IInv, PostOnce, Current
      <4>. QED
        BY <4>1 DEF Unread
    <3>2. CASE ~Current(copy)
      BY <1>6, <3>2, LandFacts DEF IInv, Unread
    <3>. QED
      BY <3>1, <3>2
  <2>. QED
    BY <1>1, <1>2, <2>1, <2>2, <2>3, <2>4 DEF Kept, Heard
<1>. QED
  BY <1>5, <1>6

(* An answer to a copy that did not take effect is news, at most.          *)
LEMMA PostRefused ==
  ASSUME IInv, NEW copy \in travelling, Refuse(copy), NEW w \in Writers, IsPost(w)
  PROVE  Kept(w) /\ cmd'[w] = cmd[w]
<1>1. UNCHANGED <<cmd, wrote, garbled, told, landed>>
  BY RefuseFacts DEF IInv
<1>2. CASE copy.by = w /\ Current(copy)
  <2>1. told[w] = "nothing"
    BY <1>2, PostFacts DEF Current
  <2>. QED
    BY <1>1, <2>1 DEF Kept
<1>3. CASE ~(copy.by = w /\ Current(copy))
  <2>1. answer'[w] = answer[w]
    BY <1>3, RefuseFacts DEF IInv
  <2>. QED
    BY <1>1, <2>1 DEF Kept, Same, Heard, Unread
<1>. QED
  BY <1>2, <1>3

LEMMA PromiseStep ==
  ASSUME IInv, IInv', [Next]_vars, NEW w \in Writers
  PROVE  [Promise(w)!Next]_(Promise(w)!vars)
<1>1. CASE IsPost(w)
  <2>1. Kept(w) /\ cmd'[w] = cmd[w]
    <3>1. CASE \E v \in Writers : Write(v)
      BY <1>1, <3>1, PostStep, OthersAreSame DEF Kept
    <3>2. CASE \E copy \in travelling : Land(copy)
      BY <1>1, <3>2, PostLands
    <3>3. CASE \E copy \in travelling : Refuse(copy)
      BY <1>1, <3>3, PostRefused
    <3>4. CASE SomebodyElse \/ UNCHANGED vars
      BY <3>4 DEF SomebodyElse, vars, command, request, result, ghosts, Kept, Same, Heard, Unread
    <3>. QED
      BY <3>1, <3>2, <3>3, <3>4 DEF Next
  <2>2. IsPost(w)'
    BY <1>1, <2>1 DEF IsPost
  <2>3. wrote[w] \in BOOLEAN /\ wrote'[w] \in BOOLEAN /\ garbled[w] \in BOOLEAN
        /\ garbled'[w] \in BOOLEAN
    BY DEF IInv, TypeOK
  <2>. QED
    BY <1>1, <2>1, <2>2, <2>3 DEF Kept, Same, Told, Heard, Unread, Promise!Next, Promise!vars, Promise!Send,
       Promise!Land, Promise!Hear, Promise!Tell, Promise!Tellings, Promise!NotDone
<1>2. CASE ~IsPost(w) /\ ~IsPost(w)'
  BY <1>2 DEF Promise!vars
<1>3. CASE ~IsPost(w) /\ IsPost(w)'
  <2>1. cmd'[w] # cmd[w] \/ cmd[w] = Nothing
    BY <1>3 DEF IsPost
  <2>2. PICK v \in Writers : Write(v)
    BY <1>3 DEF Next, Land, Refuse, SomebodyElse, vars, command, IsPost
  <2>3. v = w /\ Start(w)
    <3>1. v = w
      BY <1>3, <2>2, OthersAreSame DEF IsPost
    <3>. QED
      BY <1>3, <2>2, <3>1 DEF IsPost, Write, Read, ReadFails, RefuseClosed, Unchanged, Send,
         NotSent, AnswerLost, Throttled, BreakOff, Unusable, Succeed, Retry, Conflict, ReadBack,
         Dispatch, command
  <2>4. Same(w) /\ landed[w] = {} /\ ~wrote[w] /\ told[w] = "nothing"
    BY <2>3 DEF Start, Same, Heard, Unread, IInv, Started, request, result, ghosts
  <2>5. garbled'[w] \in BOOLEAN
    BY DEF IInv, TypeOK
  <2>. QED
    BY <1>3, <2>4, <2>5 DEF Same, Promise!Next, Promise!vars, Promise!Hear
<1>. QED
  BY <1>1, <1>2, <1>3

(* What is never sent again keeps RequestPromise, through both its writes  *)
(* and the read between them (transition, Rebase, updateReviewer).         *)
THEOREM PromiseKept == Spec => KeepThePromise
<1>1. Init => \A w \in Writers : Promise(w)!Init
  BY DEF Init, Promise!Init, IsPost
<1>2. IInv /\ IInv' /\ [Next]_vars =>
        [\A w \in Writers : [Promise(w)!Next]_(Promise(w)!vars)]_vars
  BY PromiseStep
<1>. QED
  BY <1>1, <1>2, Invariance, PTL DEF Spec, KeepThePromise
=============================================================================
