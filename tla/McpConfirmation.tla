-------------------------- MODULE McpConfirmation --------------------------
(***************************************************************************)
(* The confirmation an MCP server started with --elicitation-opt-in puts   *)
(* in front of a tool call, and the audit record it leaves                 *)
(* (internal/mcp/confirm.go, asks.go, middleware.go, audit.go).            *)
(*                                                                         *)
(* A client sends tool calls, several at a time.  A call of a tool that    *)
(* asks is answered with a question and a sealed request state; the client *)
(* sends the answer and the state back as a call of its own, or, on the    *)
(* handshake-era protocol, go-sdk asks inside the one call.  The server    *)
(* shares two things between calls: the nonces of answered states, under a *)
(* mutex that open and consume take separately, and the audit sink.        *)
(*                                                                         *)
(* A call seals at most one state, and its nonce is random: the state and  *)
(* the nonce are named here by the call that sealed them.                  *)
(***************************************************************************)
EXTENDS Integers, FiniteSets

CONSTANTS
  Calls,        \* tool calls the client sends while we look
  Requests,     \* what a call can ask for: [tool, input, version] records
  PinTools,     \* tools whose confirmation pins the pull request version
  Refused,      \* requests the tool turns down whatever the person says
  Unasked,      \* requests of a tool that asks only sometimes, which do not
  OutOfScope,   \* requests that name something outside the server's scope
  Eras,         \* protocol revisions in play, among "handshake" and "2026"
  Forms,        \* what clients declare: can they show a form?
  Sends,        \* what a call of theirs can carry as its answer
  AuditFailure, \* --audit-failure: "deny" or "warn"
  SinkFails,    \* whether the audit sink can fail a write
  TTL,          \* confirmationTTL, in clock units
  NoState, Forged, \* a call without a request state; one bb never sealed
  MaxClock, MaxVersion, MaxKey  \* bounds on the clock, pull request, restarts

NoVersion == -1
Never == -1
Versions == 0..MaxVersion
Answers == {"accept", "unticked", "decline", "cancel"}

ASSUME RequestsAssumption ==
  /\ Requests \subseteq [tool : STRING, input : STRING, version : Int]
  /\ PinTools \subseteq STRING
ASSUME DigestAssumption ==  \* inputDigest covers the version; a merge always asks
  /\ \A r, s \in Requests : r.tool = s.tool /\ r.input = s.input => r.version = s.version
  /\ \A r \in Unasked : r.tool \notin PinTools
ASSUME StatesAssumption == NoState \notin Calls /\ Forged \notin Calls /\ NoState # Forged
ASSUME BoundsAssumption ==
  /\ TTL \in Nat /\ MaxClock \in Nat /\ MaxVersion \in Nat /\ MaxKey \in Nat
ASSUME ModesAssumption ==
  /\ Eras \subseteq {"handshake", "2026"}
  /\ Forms \subseteq BOOLEAN
  /\ Sends \subseteq Answers \cup {"none", "malformed"}
  /\ AuditFailure \in {"deny", "warn"}
  /\ SinkFails \in BOOLEAN

VARIABLES
  clock,      \* wall clock of the server, in seconds
  key,        \* which process is serving: its seal's key
  prVersion,  \* the pull request's version, in Bitbucket
  sealed,     \* the request states issued, by the call that sealed them
  answered,   \* nonces remembered as answered
  pc,         \* where each call's goroutine is
  req,        \* what each call carries
  pin,        \* the pin a call read from Bitbucket or from its state
  late,       \* what open said of the state's expiry
  outcome,    \* the recorder's confirmation outcome, "none" when there is none
  refused,    \* the recorder's refused flag
  result,     \* what the handler returned
  record,     \* the audit record written for the call
  reply,      \* what went back to the client
  ran,        \* history: the tool's own handler was entered
  merged,     \* history: the version the call changed the pull request at
  openedAt,   \* history: the clock when open accepted the call's state
  consumedAt  \* history: the clock when consume marked it answered

seal == <<key, sealed, answered>>
world == <<clock, prVersion>>
recorder == <<outcome, refused>>
history == <<ran, merged, openedAt, consumedAt>>
vars == <<clock, key, prVersion, sealed, answered, pc, req, pin, late, outcome,
          refused, result, record, reply, ran, merged, openedAt, consumedAt>>

NotSealed == [tool |-> "none", input |-> "none", pin |-> NoVersion, expires |-> Never,
              key |-> Never]
Sealed == [tool : STRING, input : STRING, pin : Int, expires : Nat, key : Nat]
NoRecord == [status |-> "none", confirmation |-> "none"]
Outcomes == {"none", "accepted", "declined", "cancelled", "unavailable"}
Records == [status : {"success", "denied", "error", "asked"},
            confirmation : Outcomes]
Arriving == [request : Requests, era : Eras, form : Forms,
             state : Calls \cup {NoState, Forged}, answer : Sends]
Carried == [request : Requests, era : Eras, form : Forms,
            state : Calls \cup {NoState, Forged},
            answer : Answers \cup {"none", "malformed"}]
Idle == [state |-> NoState, answer |-> "none"]

Init ==
  /\ clock = 0 /\ key = 0 /\ prVersion = 0
  /\ sealed = [c \in Calls |-> NotSealed]
  /\ answered = {}
  /\ pc = [c \in Calls |-> "idle"]
  /\ req = [c \in Calls |-> Idle]
  /\ pin = [c \in Calls |-> NoVersion]
  /\ late = [c \in Calls |-> FALSE]
  /\ outcome = [c \in Calls |-> "none"]
  /\ refused = [c \in Calls |-> FALSE]
  /\ result = [c \in Calls |-> "none"]
  /\ record = [c \in Calls |-> NoRecord]
  /\ reply = [c \in Calls |-> "none"]
  /\ ran = [c \in Calls |-> FALSE]
  /\ merged = [c \in Calls |-> NoVersion]
  /\ openedAt = [c \in Calls |-> Never]
  /\ consumedAt = [c \in Calls |-> Never]

-----------------------------------------------------------------------------
(* What the call carries, and where it goes next. *)

Tool(c) == req[c].request.tool
Input(c) == req[c].request.input

(* Mutant: the lifetime subtracted. *)
ExpiryBackwards == clock - TTL
Expiry == clock + TTL
Expired(q) == clock > sealed[q].expires

Goto(c, where) == pc' = [pc EXCEPT ![c] = where]
Return(c, what) == result' = [result EXCEPT ![c] = what] /\ Goto(c, "write")
RecordConfirmation(c, what) == outcome' = [outcome EXCEPT ![c] = what]
RefuseConfirmation(c) == refused' = [refused EXCEPT ![c] = TRUE]

-----------------------------------------------------------------------------
(* The governance middleware receives a call and holds it to the scope.    *)

Receive(c, r) ==
  /\ pc[c] = "idle"
  /\ r.era = "handshake" => r.state = NoState /\ r.answer = "none"
  /\ r.state \in Calls => reply[r.state] = "asked"  \* the client was given it
  /\ req' = [req EXCEPT ![c] = r]
  /\ IF r.request \in OutOfScope THEN Return(c, "outOfScope")
     ELSE Goto(c, "confirm") /\ UNCHANGED result
  /\ UNCHANGED <<seal, world, pin, late, recorder, record, reply, history>>

(* confirmed: the checks before any state is opened. *)

TurnDown(c) ==
  /\ pc[c] = "confirm"
  /\ req[c].request \in Refused
  /\ Return(c, "error")
  /\ UNCHANGED <<seal, world, req, pin, late, recorder, record, reply, history>>

RunUnasked(c) ==
  /\ pc[c] = "confirm"
  /\ req[c].request \in Unasked \ Refused
  /\ Goto(c, "run")
  /\ UNCHANGED <<seal, world, req, pin, late, recorder, result, record, reply, history>>

MustAsk(c) == pc[c] = "confirm" /\ req[c].request \notin Refused \cup Unasked

CannotAsk(c) ==
  /\ MustAsk(c)
  /\ ~req[c].form
  /\ RecordConfirmation(c, "unavailable")
  /\ Return(c, "error")
  /\ UNCHANGED <<seal, world, req, pin, late, refused, record, reply, history>>

AnswerWithoutQuestion(c) ==
  /\ MustAsk(c) /\ req[c].form
  /\ req[c].state = NoState /\ req[c].answer # "none"
  /\ RefuseConfirmation(c)
  /\ Return(c, "error")
  /\ UNCHANGED <<seal, world, req, pin, late, outcome, record, reply, history>>

StartAsking(c) ==
  /\ MustAsk(c) /\ req[c].form
  /\ req[c].state = NoState /\ req[c].answer = "none"
  /\ Goto(c, "ask")
  /\ UNCHANGED <<seal, world, req, pin, late, recorder, result, record, reply, history>>

-----------------------------------------------------------------------------
(* askFor: read what the person needs to see, then seal it.  The read is a *)
(* request to Bitbucket, so others run between the two.                    *)

ReadPullRequest(c) ==
  /\ pc[c] = "ask"
  /\ Tool(c) \in PinTools
  /\ req[c].request.version \in {NoVersion, prVersion}  \* versionMatches
  /\ pin' = [pin EXCEPT ![c] = prVersion]
  /\ Goto(c, "seal")
  /\ UNCHANGED <<seal, world, req, late, recorder, result, record, reply, history>>

DescribeFromArguments(c) ==
  /\ pc[c] = "ask"
  /\ Tool(c) \notin PinTools
  /\ pin' = [pin EXCEPT ![c] = NoVersion]
  /\ Goto(c, "seal")
  /\ UNCHANGED <<seal, world, req, late, recorder, result, record, reply, history>>

(* The pull request cannot be read, is closed or a draft, or has moved past *)
(* the version the model named.                                             *)
AskFails(c) ==
  /\ pc[c] = "ask"
  /\ Tool(c) \in PinTools
  /\ Return(c, "error")
  /\ UNCHANGED <<seal, world, req, pin, late, recorder, record, reply, history>>

Seal(c) ==
  /\ pc[c] = "seal"
  /\ sealed' = [sealed EXCEPT ![c] =
       [tool |-> Tool(c), input |-> Input(c), pin |-> pin[c],
        expires |-> Expiry, key |-> key]]
  /\ IF req[c].era = "handshake" THEN Goto(c, "elicit") /\ UNCHANGED result
     ELSE Return(c, "asked")
  /\ UNCHANGED <<key, answered, world, req, pin, late, recorder, record, reply, history>>

(* go-sdk's bridge: elicitation/create within the one call, then the        *)
(* handler again with the answer and the state.                             *)
Answering(r, q, a) ==
  [request |-> r.request, era |-> r.era, form |-> r.form, state |-> q, answer |-> a]

Elicit(c, a) ==
  /\ pc[c] = "elicit"
  /\ req' = [req EXCEPT ![c] = Answering(@, c, a)]
  /\ Goto(c, "confirm")
  /\ UNCHANGED <<seal, world, pin, late, recorder, result, record, reply, history>>

-----------------------------------------------------------------------------
(* The retry that carries a state: open, then consume.  The mutex is       *)
(* released in between.                                                    *)

Verifies(q) == q \in Calls /\ sealed[q].key = key

(* Mutant: the digest of the input is not compared. *)
SameTool(c, q) == sealed[q].tool = Tool(c)
SameCall(c, q) == sealed[q].tool = Tool(c) /\ sealed[q].input = Input(c)

(* Mutant: only consume looks at the nonces. *)
OpensAnswered(c, q) == Verifies(q) /\ SameCall(c, q)
Opens(c, q) == Verifies(q) /\ SameCall(c, q) /\ q \notin answered

OpenRefused(c) ==
  /\ MustAsk(c) /\ req[c].form /\ req[c].state # NoState
  /\ ~Opens(c, req[c].state)
  /\ RefuseConfirmation(c)
  /\ Return(c, "error")
  /\ UNCHANGED <<seal, world, req, pin, late, outcome, record, reply, history>>

Open(c) ==
  /\ MustAsk(c) /\ req[c].form /\ req[c].state # NoState
  /\ Opens(c, req[c].state)
  /\ pin' = [pin EXCEPT ![c] = sealed[req[c].state].pin]
  /\ late' = [late EXCEPT ![c] = Expired(req[c].state)]
  /\ openedAt' = [openedAt EXCEPT ![c] = clock]
  /\ UNCHANGED <<seal, world, req, outcome, record, reply, ran, merged, consumedAt>>

(* The client retried without the answer: ask again. *)
OpenUnanswered(c) ==
  /\ Open(c)
  /\ req[c].answer = "none"
  /\ Goto(c, "ask")
  /\ UNCHANGED <<refused, result>>

(* The answer is not an elicitation result. *)
OpenMalformed(c) ==
  /\ Open(c)
  /\ req[c].answer = "malformed"
  /\ RefuseConfirmation(c)
  /\ Return(c, "error")

OpenAnswered(c) ==
  /\ Open(c)
  /\ req[c].answer \in Answers
  /\ Goto(c, "consume")
  /\ UNCHANGED <<refused, result>>

(* Mutant: a nonce is forgotten in the last second of its state's life. *)
RememberedTooShort == {q \in answered : clock < sealed[q].expires}
Remembered == {q \in answered : ~Expired(q)}

(* Mutant: consume waits on the answered nonce instead of refusing. *)
ConsumeWaits(c) == pc[c] = "consume" /\ req[c].state \in Remembered /\ UNCHANGED vars
ConsumeRefused(c) ==
  /\ pc[c] = "consume"
  /\ req[c].state \in Remembered
  /\ answered' = Remembered
  /\ RefuseConfirmation(c)
  /\ Return(c, "error")
  /\ UNCHANGED <<key, sealed, world, req, pin, late, outcome, record, reply, history>>

Consume(c) ==
  /\ pc[c] = "consume"
  /\ req[c].state \notin Remembered
  /\ answered' = Remembered \cup {req[c].state}
  /\ consumedAt' = [consumedAt EXCEPT ![c] = clock]
  /\ UNCHANGED <<key, sealed, world, req, late, refused, record, reply, ran, merged, openedAt>>

(* The version the call is held to: the model's own when it named one,     *)
(* which was compared when asking, and the one the person was shown if not. *)
(* Mutant: the confirmation's pin is not applied to the input.             *)
HoldNothing(c) == req[c].request.version
HoldVersion(c) ==
  IF Tool(c) \in PinTools /\ req[c].request.version # NoVersion
  THEN req[c].request.version ELSE pin[c]

ConsumeNo(c) ==
  /\ Consume(c)
  /\ req[c].answer # "accept"
  /\ RecordConfirmation(c, IF req[c].answer = "cancel" THEN "cancelled" ELSE "declined")
  /\ Return(c, "error")
  /\ UNCHANGED pin

(* Mutant: the acceptance is recorded before its lateness is looked at. *)
ConsumeLateAccepted(c) ==
  /\ Consume(c)
  /\ req[c].answer = "accept" /\ late[c]
  /\ RecordConfirmation(c, "accepted")
  /\ Return(c, "error")
  /\ UNCHANGED pin
ConsumeTooLate(c) ==
  /\ Consume(c)
  /\ req[c].answer = "accept" /\ late[c]
  /\ Return(c, "error")
  /\ UNCHANGED <<outcome, pin>>

ConsumeYes(c) ==
  /\ Consume(c)
  /\ req[c].answer = "accept" /\ ~late[c]
  /\ RecordConfirmation(c, "accepted")
  /\ pin' = [pin EXCEPT ![c] = HoldVersion(c)]
  /\ Goto(c, "run")
  /\ UNCHANGED result

-----------------------------------------------------------------------------
(* The tool's own handler: one request that changes Bitbucket.  Bitbucket  *)
(* refuses a merge at a version other than the pull request's; a merge     *)
(* without a version goes out at the current one.                          *)

RunHandler(c) ==
  /\ pc[c] = "run"
  /\ ran' = [ran EXCEPT ![c] = TRUE]
  /\ IF Tool(c) \in PinTools /\ pin[c] \in {NoVersion, prVersion}
     THEN merged' = [merged EXCEPT ![c] = prVersion] /\ Return(c, "ok")
     ELSE /\ UNCHANGED merged
          /\ \E what \in {"ok", "error"} :
               /\ Tool(c) \in PinTools => what = "error"
               /\ Return(c, what)
  /\ UNCHANGED <<seal, world, req, pin, late, recorder, record, reply, openedAt, consumedAt>>

HandlerFails(c) ==
  /\ pc[c] = "run"
  /\ Tool(c) \in PinTools
  /\ ran' = [ran EXCEPT ![c] = TRUE]
  /\ Return(c, "error")
  /\ UNCHANGED <<seal, world, req, pin, late, recorder, record, reply, merged, openedAt,
                 consumedAt>>

-----------------------------------------------------------------------------
(* The middleware again: the audit record, then the answer.                *)

Denied(c) ==
  outcome[c] \in {"declined", "cancelled", "unavailable"} \/ refused[c]

AuditRecord(c) ==
  [status |->
     IF result[c] = "asked" THEN "asked"
     ELSE IF result[c] = "outOfScope" \/ Denied(c) THEN "denied"
     ELSE IF result[c] = "error" THEN "error" ELSE "success",
   confirmation |-> IF result[c] \in {"asked", "outOfScope"} THEN "none" ELSE outcome[c]]

WriteAudit(c) ==
  /\ pc[c] = "write"
  /\ record' = [record EXCEPT ![c] = AuditRecord(c)]
  /\ reply' = [reply EXCEPT ![c] = result[c]]
  /\ Goto(c, "done")
  /\ UNCHANGED <<seal, world, req, pin, late, recorder, result, history>>

(* Mutant: --audit-failure=deny warns. *)
AuditFailsOpen(c) ==
  /\ pc[c] = "write"
  /\ SinkFails
  /\ reply' = [reply EXCEPT ![c] = result[c]]
  /\ Goto(c, "done")
  /\ UNCHANGED <<seal, world, req, pin, late, recorder, result, record, history>>
AuditFails(c) ==
  /\ pc[c] = "write"
  /\ SinkFails
  /\ reply' = [reply EXCEPT ![c] = IF AuditFailure = "deny" THEN "unaudited" ELSE result[c]]
  /\ Goto(c, "done")
  /\ UNCHANGED <<seal, world, req, pin, late, recorder, result, record, history>>

-----------------------------------------------------------------------------
(* The rest of the world. *)

Tick ==
  /\ clock < MaxClock
  /\ clock' = clock + 1
  /\ UNCHANGED <<key, sealed, answered, prVersion, pc, req, pin, late, recorder,
                 result, record, reply, history>>

(* Somebody pushes to the pull request's branch. *)
Push ==
  /\ prVersion < MaxVersion
  /\ prVersion' = prVersion + 1
  /\ UNCHANGED <<clock, key, sealed, answered, pc, req, pin, late, recorder,
                 result, record, reply, history>>

(* The server process dies, and the client starts another: a new key, no    *)
(* nonces, and the calls that were under way never answer.                  *)
Restart ==
  /\ key < MaxKey
  /\ key' = key + 1
  /\ answered' = {}
  /\ pc' = [c \in Calls |-> IF pc[c] \in {"idle", "done"} THEN pc[c] ELSE "lost"]
  /\ UNCHANGED <<world, sealed, req, pin, late, recorder, result, record, reply, history>>

Ended == {"done", "lost"}

Terminated ==
  /\ \A c \in Calls : pc[c] \in Ended
  /\ UNCHANGED vars

(* What the server does by itself once it has a call. *)
Serve(c) ==
  \/ TurnDown(c) \/ RunUnasked(c) \/ CannotAsk(c) \/ AnswerWithoutQuestion(c)
  \/ StartAsking(c) \/ ReadPullRequest(c) \/ DescribeFromArguments(c)
  \/ AskFails(c) \/ Seal(c)
  \/ OpenRefused(c) \/ OpenUnanswered(c) \/ OpenMalformed(c) \/ OpenAnswered(c)
  \/ ConsumeRefused(c) \/ ConsumeNo(c) \/ ConsumeTooLate(c) \/ ConsumeYes(c)
  \/ RunHandler(c) \/ HandlerFails(c)
  \/ WriteAudit(c) \/ AuditFails(c)

Next ==
  \/ \E c \in Calls : Serve(c)
  \/ \E c \in Calls, r \in Arriving : Receive(c, r)
  \/ \E c \in Calls, a \in Answers : Elicit(c, a)
  \/ Tick \/ Push \/ Restart
  \/ Terminated

Spec == Init /\ [][Next]_vars

(* Every call has its goroutine, and HTTP requests and writes end. The      *)
(* client, the person, the clock and the world owe nothing.                 *)
FairSpec == Spec /\ \A c \in Calls : WF_vars(Serve(c))

-----------------------------------------------------------------------------
(* Properties *)

TypeOK ==
  /\ clock \in Nat /\ key \in Nat /\ prVersion \in Versions
  /\ sealed \in [Calls -> Sealed \cup {NotSealed}]
  /\ answered \subseteq Calls
  /\ pc \in [Calls -> {"idle", "confirm", "ask", "seal", "elicit", "consume",
                       "run", "write", "done", "lost"}]
  /\ req \in [Calls -> Carried \cup {Idle}]
  /\ \A c \in Calls :
       /\ pc[c] # "idle" => req[c] \in Carried
       /\ pc[c] = "consume" => req[c].state \in Calls
  /\ pin \in [Calls -> Int]
  /\ late \in [Calls -> BOOLEAN]
  /\ outcome \in [Calls -> Outcomes]
  /\ refused \in [Calls -> BOOLEAN]
  /\ result \in [Calls -> {"none", "outOfScope", "asked", "error", "ok"}]
  /\ record \in [Calls -> Records \cup {NoRecord}]
  /\ reply \in [Calls -> {"none", "outOfScope", "asked", "error", "ok", "unaudited"}]
  /\ ran \in [Calls -> BOOLEAN]
  /\ merged \in [Calls -> Int]
  /\ openedAt \in [Calls -> Nat \cup {Never}]
  /\ consumedAt \in [Calls -> Nat \cup {Never}]

Consumed(c) == consumedAt[c] # Never

(* While a question lives, it is answered at most once: two calls that      *)
(* carry the same state cannot both have consumed it on time (confirm.go    *)
(* open and consume), whatever the interleaving and however often sent.     *)
AnsweredOnceOnTime ==
  \A c, d \in Calls :
    /\ Consumed(c) /\ Consumed(d) /\ req[c].state = req[d].state
    /\ consumedAt[c] <= sealed[req[c].state].expires
    /\ consumedAt[d] <= sealed[req[d].state].expires
    => c = d

(* The one way past that: a call that runs after another consumed the same  *)
(* state was already open, on time, when the other consumed it, and itself  *)
(* consumed it only after it expired.  A state sent again once its answer   *)
(* was taken never runs, before its expiry or after (confirm.go 352-404).   *)
RerunWasInFlight ==
  \A c, d \in Calls :
    /\ c # d /\ Consumed(c) /\ Consumed(d) /\ req[c].state = req[d].state
    /\ ran[d] /\ consumedAt[c] <= consumedAt[d]
    => /\ openedAt[d] <= sealed[req[d].state].expires
       /\ openedAt[d] <= consumedAt[c]
       /\ sealed[req[d].state].expires < consumedAt[d]

(* confirm.go:374-376: "a nonce is never forgotten while its state can      *)
(* still be accepted": a question is acted on at most once, and not at all  *)
(* by a call that races the one that declined it.                           *)
NonceUsedOnce ==
  \A c, d \in Calls :
    c # d /\ Consumed(c) /\ Consumed(d) /\ req[c].state = req[d].state
      => ~ran[c] \/ ~ran[d]

(* A tool that asks runs only in a call that carried an acceptance of a     *)
(* question this server sealed, no longer than TTL before it was opened,    *)
(* for this tool and this input, across retries, re-asks and restarts       *)
(* (confirm.go 107-191).                                                    *)
RunsOnlyWhatWasAsked ==
  \A c \in Calls :
    ran[c] /\ req[c].request \notin Unasked =>
      /\ req[c].state \in Calls
      /\ sealed[req[c].state].tool = Tool(c)
      /\ sealed[req[c].state].input = Input(c)
      /\ req[c].answer = "accept"
      /\ openedAt[c] <= sealed[req[c].state].expires
      /\ Consumed(c)
      /\ record[c] # NoRecord => record[c].confirmation = "accepted"

(* A merge goes through only at the version the person was shown, whoever   *)
(* pushed between the reading, the question, the answer and the merge, and  *)
(* whether or not the model named a version (asks.go 31-110).               *)
MergedAsShown ==
  \A c \in Calls :
    merged[c] # NoVersion => merged[c] = sealed[req[c].state].pin

(* mcp-governance.md: a call refused by the scope or by a person declining  *)
(* it "never reaches Bitbucket"; and the other way round, a record that     *)
(* says accepted or success is of a handler that ran (middleware.go 66-139).*)
RecordMatchesDeed ==
  \A c \in Calls :
    record[c] # NoRecord =>
      /\ record[c].status \in {"denied", "asked"} => ~ran[c]
      /\ record[c].status = "success" => ran[c]
      /\ record[c].confirmation = "accepted" => ran[c]

(* --audit-failure=deny: nothing but the audit error goes back to a client  *)
(* for a call without a record, or with one that says otherwise             *)
(* (middleware.go writeAudit).                                              *)
ServedIsRecorded ==
  AuditFailure = "deny" =>
    \A c \in Calls :
      /\ reply[c] = "ok" => record[c].status = "success"
      /\ reply[c] = "asked" => record[c].status = "asked"
      /\ reply[c] \in {"error", "outOfScope"} => record[c].status \in {"denied", "error"}

(* No call hangs in the server: open, consume, the recorder and the sink    *)
(* share locks, and every call that was received ends, unless a person is   *)
(* being asked within it or the process dies.                               *)
CallsEnd ==
  \A c \in Calls :
    pc[c] \notin {"idle", "elicit"} ~> pc[c] \in Ended \cup {"elicit"}
=============================================================================
