---------------------------- MODULE HttpExchange ----------------------------
(***************************************************************************)
(* One API request of bb, sent as often as the retry policy allows and     *)
(* reported as one kind of outcome (internal/transport/outcome,            *)
(* internal/transport/retrypolicy), through either of bb's two transports: *)
(* httpclient, and the generated client of internal/openapi, whose retries *)
(* sit below http.Client and whose decoding sits above it.                 *)
(*                                                                         *)
(* On the other side are Bitbucket and the gateways in front of it: a copy *)
(* that was sent takes effect or never will, at any time, also long after  *)
(* bb gave up waiting for its answer.  Assumed of both: what else answers  *)
(* in Bitbucket's place with a 2xx, a login page or an empty body, is not  *)
(* JSON of the documented type.                                            *)
(***************************************************************************)
EXTENDS Naturals

CONSTANTS
  Transports, \* among "httpclient" and "openapi"
  Methods,    \* the methods of the requests
  Retries,    \* retry_count
  Bodies      \* how a body can arrive: "whole", "cut" short, "empty", or "odd",
              \* not of the documented type

ASSUME RequestsAssumption ==
  /\ Transports \subseteq {"httpclient", "openapi"}
  /\ Retries \in Nat
  /\ "whole" \in Bodies /\ Bodies \subseteq {"whole", "cut", "odd", "empty"}

VARIABLES
  transport,
  method,
  expects,  \* whether the caller has a use for what a success answers
  pc,       \* what the client is at
  attempt,
  wrote,    \* Exchange.wrote: headers of this exchange reached a connection
  answer,   \* what the current attempt was answered
  body,     \* how that answer's body arrives
  copies,   \* what became of the copy each attempt sent
  stop,     \* whether the request was interrupted, or its time ran out
  kind      \* what the caller is told

vars == <<transport, method, expects, pc, attempt, wrote, answer, body, copies, stop, kind>>

Attempts == 0 .. Retries

(* retrypolicy.Replayable: the methods that are idempotent by definition.  *)
Replayable(m) == m \in {"GET", "HEAD", "OPTIONS", "PUT", "DELETE", "TRACE"}

(* The answers, by what their status says: a 2xx; a 4xx but 400 and 429;   *)
(* the 400 of a bad request, and of an answer Bitbucket failed to write;   *)
(* 429; 500; 502 and 504; 503.                                             *)
Status4xx == {"refused", "badRequest", "writeFailed", "throttled"}
Status400 == {"badRequest", "writeFailed"}
Status5xx == {"failed", "gateway", "unavailable"}
Answers == {"ok"} \cup Status4xx \cup Status5xx

(* What a copy can be answered with.  A gateway may give up on any; 429,   *)
(* 503 and a refusal say it was not processed; 500 may come after it was.  *)
(* A login page, too, answers "ok" to a copy nobody carries out.           *)
AnswersTo(copy) ==
  {"gateway"} \cup
    (IF copy = "applied" THEN {"ok", "writeFailed", "failed"}
     ELSE IF copy = "dropped" THEN Answers \ {"writeFailed"} ELSE {})

----------------------------------------------------------------------------
(* What the code decides.                                                  *)

(* retrypolicy.RetriableStatus: 429 whatever the method, 5xx by method.    *)
RetriableAnyway(m, status) == status \in {"throttled"} \cup Status5xx

RetriableStatus(m, status) ==
  status = "throttled" \/ (status \in Status5xx /\ Replayable(m))

(* doJSON asked for no payload (DoRequest asks for none) decodes nothing,  *)
(* and neither does it an empty body; a service over the generated client  *)
(* that returns none looks at the status alone (Watch).                    *)
Reads == expects /\ (transport = "httpclient" => body # "empty")

Undecodable == body \in {"odd", "empty"} /\ Reads
Unread == body \in {"odd", "empty"} /\ ~Reads
Legible == body = "whole" \/ Unread

(* openapi.FailedWritingAnswer: the 400 is told by its body.               *)
FailedWritingAnswer == answer = "writeFailed" /\ body = "whole"

RetriableAnswer ==
  RetriableStatus(method, answer) \/ (Replayable(method) /\ FailedWritingAnswer)

(* Exchange.Classify of an error that came instead of an answer.           *)
MayHaveBeenSent == wrote

MayHaveApplied == wrote /\ ~Replayable(method)

Classify(cause) ==
  IF cause = "rejected" THEN "permanent"
  ELSE IF MayHaveApplied THEN "unknown_outcome"
  ELSE IF cause = "interrupt" THEN "cancelled" ELSE "transient"

(* Exchange.answered: the body failed to read behind a status.             *)
Answered ==
  IF answer \in Status4xx THEN "permanent"
  ELSE IF answer = "ok" /\ ~Replayable(method) THEN "unknown_outcome"
  ELSE IF stop = "interrupt" THEN "cancelled" ELSE "transient"

(* Exchange.Status: a gateway's answer, or a 500, to a mutation.           *)
OutcomeUnknown == ~Replayable(method) /\ answer \in {"gateway", "failed"}

(* MapStatusError, and AnswerFailed where it corrects it.                  *)
Mapped ==
  IF answer = "ok" THEN "ok"
  ELSE IF FailedWritingAnswer
       THEN IF Replayable(method) THEN "transient" ELSE "unknown_outcome"
  ELSE IF answer \in {"throttled"} \cup Status5xx THEN "transient" ELSE "refused"

----------------------------------------------------------------------------
Init ==
  /\ transport \in Transports /\ method \in Methods /\ expects \in BOOLEAN
  /\ pc = "send" /\ attempt = 0
  /\ wrote = FALSE
  /\ answer = "none" /\ body = "none"
  /\ copies = [i \in Attempts |-> "none"]
  /\ stop = "no"
  /\ kind = "nothing"

(* The request ends, or what came of this attempt is put away for another. *)
Report(k) ==
  /\ pc' = "done" /\ kind' = k
  /\ UNCHANGED <<transport, method, expects, attempt, wrote, answer, body, copies, stop>>

OneMoreAttempt == attempt <= Retries

AnotherAttempt == attempt < Retries

Replay ==
  /\ AnotherAttempt
  /\ pc' = "wait" /\ answer' = "none" /\ body' = "none"
  /\ UNCHANGED <<transport, method, expects, attempt, wrote, copies, stop, kind>>

(* The error a stopped request ends with; any other one is a lost          *)
(* connection, or a server this client will never talk to.                 *)
Causes == IF stop = "interrupt" THEN {"interrupt"}
          ELSE IF stop = "deadline" THEN {"lost"} ELSE {"lost", "rejected"}

(* Both transports replay a failed exchange only where it is transient.    *)
Failed(cause) ==
  IF Replayable(method) /\ Classify(cause) = "transient" /\ AnotherAttempt
  THEN Replay
  ELSE Report(Classify(cause))

(* http.Client.Do, until the headers are written: WroteHeaders fires.      *)
Send ==
  /\ pc = "send" /\ stop = "no"
  /\ pc' = "await"
  /\ wrote' = TRUE
  /\ copies' = [copies EXCEPT ![attempt] = "travelling"]
  /\ UNCHANGED <<transport, method, expects, attempt, answer, body, stop, kind>>

NotSent == pc = "send" /\ \E cause \in Causes : Failed(cause)

(* No answer comes: the connection breaks, time runs out, or the server    *)
(* turns the connection down after the headers went out.                   *)
AnswerLost ==
  /\ pc = "await"
  /\ \E cause \in Causes :
       /\ cause = "rejected" => copies[attempt] = "dropped"
       /\ Failed(cause)

(* An answer arrives, with a body that is read later.  Only a 2xx is       *)
(* decoded, and one Bitbucket did not send is not what it documents.       *)
AnswerArrives ==
  /\ pc = "await"
  /\ answer' \in AnswersTo(copies[attempt])
  /\ body' \in Bodies
  /\ answer' # "ok" => body' \in {"whole", "cut"}
  /\ answer' = "ok" /\ copies[attempt] = "dropped" => body' # "whole"
  /\ pc' = "answered"
  /\ UNCHANGED <<transport, method, expects, attempt, wrote, copies, stop, kind>>

(* httpclient.DoRequest and doJSON: the body is read first.  One nobody    *)
(* decodes is as good as any.                                              *)
DoRequest ==
  /\ pc = "answered" /\ transport = "httpclient"
  /\ \/ body = "cut" /\ Report(Answered)
     \/ Undecodable /\ Report("permanent")
     \/ Legible /\ OutcomeUnknown /\ Report("unknown_outcome")
     \/ Legible /\ ~OutcomeUnknown /\ RetriableAnswer /\ Replay
     \/ /\ Legible /\ ~OutcomeUnknown
        /\ ~(RetriableAnswer /\ AnotherAttempt)
        /\ Report(Mapped)

(* retryTransport.RoundTrip: no body is read but a replayed method's 400.  *)
Unreadable400 == answer \in Status400 /\ body = "cut" /\ Replayable(method)

RoundTripFails ==
  /\ pc = "answered" /\ transport = "openapi"
  /\ Unreadable400
  /\ Report(IF stop = "interrupt" THEN "cancelled" ELSE "transient")

RoundTripAgain ==
  /\ pc = "answered" /\ transport = "openapi"
  /\ RetriableAnswer /\ Replay

(* classifyingDoer.Do, then the service that reads and decodes the answer: *)
(* what does not decode is an error nothing classified, or, where the      *)
(* content type does not promise JSON, MissingPayload's; and no error at   *)
(* all where the service has no use for a payload.                         *)
Do ==
  /\ pc = "answered" /\ transport = "openapi"
  /\ ~Unreadable400 /\ ~(RetriableAnswer /\ AnotherAttempt)
  /\ \/ OutcomeUnknown /\ Report("unknown_outcome")
     \/ ~OutcomeUnknown /\ body = "cut" /\ Report(Answered)
     \/ ~OutcomeUnknown /\ Undecodable /\ \E k \in {"transient", "permanent"} : Report(k)
     \/ ~OutcomeUnknown /\ Legible /\ Report(Mapped)

(* The wait is over: httpclient begins an Exchange of its own for every    *)
(* attempt, the generated client has one for them all.                     *)
SendAgainUncounted ==
  /\ pc = "wait"
  /\ pc' = "send"
  /\ wrote' = (wrote /\ transport = "openapi")
  /\ UNCHANGED <<transport, method, expects, attempt, answer, body, copies, stop, kind>>

SendAgain ==
  /\ pc = "wait"
  /\ pc' = "send"
  /\ attempt' = attempt + 1
  /\ wrote' = (wrote /\ transport = "openapi")
  /\ UNCHANGED <<transport, method, expects, answer, body, copies, stop, kind>>

(* sleepWithContext: the request is stopped while it waits.                *)
WaitStopped ==
  /\ pc = "wait" /\ stop # "no"
  /\ IF transport = "openapi"
     THEN \E cause \in Causes : Report(Classify(cause))
     ELSE Report(IF stop = "interrupt" THEN "cancelled" ELSE "transient")

(* Somebody interrupts bb.                                                 *)
Interrupt ==
  /\ pc # "done" /\ stop = "no"
  /\ stop' = "interrupt"
  /\ UNCHANGED <<transport, method, expects, pc, attempt, wrote, answer, body, copies, kind>>

(* http.Client.Timeout: around every attempt of the generated client.      *)
(* httpclient has one for each, so there it is a lost answer.              *)
Timeout ==
  /\ pc # "done" /\ stop = "no" /\ transport = "openapi"
  /\ stop' = "deadline"
  /\ UNCHANGED <<transport, method, expects, pc, attempt, wrote, answer, body, copies, kind>>

(* Bitbucket carries a copy out, or never will.                            *)
Settle(i, fate) ==
  /\ copies[i] = "travelling"
  /\ copies' = [copies EXCEPT ![i] = fate]
  /\ UNCHANGED <<transport, method, expects, pc, attempt, wrote, answer, body, stop, kind>>

Client ==
  \/ Send \/ NotSent \/ AnswerLost \/ AnswerArrives
  \/ DoRequest \/ RoundTripFails \/ RoundTripAgain \/ Do
  \/ SendAgain \/ WaitStopped

Next ==
  \/ Client \/ Interrupt \/ Timeout
  \/ \E i \in Attempts : Settle(i, "applied") \/ Settle(i, "dropped")

Spec == Init /\ [][Next]_vars

(* The client's own code keeps running, and request_timeout, which has to  *)
(* be positive, ends every wait for an answer.                             *)
FairSpec == Spec /\ WF_vars(Client)

----------------------------------------------------------------------------
(* Properties.                                                             *)

(* Every variable has its type (Exchange, and the two transports' loops).  *)
TypeOK ==
  /\ transport \in Transports /\ method \in Methods /\ expects \in BOOLEAN
  /\ pc \in {"send", "await", "answered", "wait", "done"}
  /\ attempt \in Attempts
  /\ wrote \in BOOLEAN
  /\ answer \in Answers \cup {"none"}
  /\ body \in Bodies \cup {"none"}
  /\ copies \in [Attempts -> {"none", "travelling", "applied", "dropped"}]
  /\ stop \in {"no", "interrupt", "deadline"}
  /\ kind \in {"nothing", "ok", "refused", "transient", "permanent", "cancelled",
               "unknown_outcome"}

Garbled == body = "cut" \/ Undecodable

Applied == {i \in Attempts : copies[i] = "applied"}

Promise == INSTANCE RequestPromise WITH
  Copies <- Attempts,
  sent <- ~Replayable(method) /\ \E i \in Attempts : copies[i] # "none",
  landed <- IF Replayable(method) THEN {} ELSE Applied,
  garbled <- ~Replayable(method) /\ pc \in {"answered", "done"} /\ Garbled,
  unread <- ~Replayable(method) /\ pc \in {"answered", "done"} /\ Unread,
  told <- IF Replayable(method) THEN "nothing" ELSE kind

(* A POST or a PATCH keeps the promise of RequestPromise, through either   *)
(* transport, whatever is lost, late, refused, throttled, interrupted or   *)
(* sent again (outcome.go, retrypolicy.go, ADR-009, ADR-011), but for the  *)
(* exceptions named there: a body that could not be used (client.go:203),  *)
(* and a 2xx nobody reads (client.go:199, service.go:1736).                *)
KeepsThePromise == Promise!Spec

(* "A GET, PUT or DELETE in the same position is idempotent: bb sends it   *)
(* again itself, and reports transient when every attempt fails"           *)
(* (machine-mode-diagnostics.md:225): it is never of unknown outcome, and  *)
(* transient only once its attempts are spent, a body could not be used,   *)
(* or its time ran out.                                                    *)
IdempotentIsSentAgain ==
  Replayable(method) =>
    /\ kind # "unknown_outcome"
    /\ kind = "transient" =>
         attempt = Retries \/ Garbled \/ stop = "deadline"

(* A request ends: its retries are bounded, and each wait has a timeout    *)
(* (DoRequest, RoundTrip).                                                 *)
RequestEnds == <>(pc = "done")
=============================================================================
