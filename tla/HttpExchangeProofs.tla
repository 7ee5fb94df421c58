------------------------- MODULE HttpExchangeProofs -------------------------
(***************************************************************************)
(* What holds of HttpExchange for every number of retries, every method    *)
(* and every way a body can arrive: its types, what becomes of an          *)
(* idempotent request, and that a POST or a PATCH keeps the promise of     *)
(* RequestPromise.                                                         *)
(*                                                                         *)
(* The argument: all copies of a request that is never replayed, but the   *)
(* last one, are known never to take effect.  A report is right when it    *)
(* says of the last one what can be known of it.                           *)
(***************************************************************************)
EXTENDS HttpExchange, TLAPS

Tellings == {"ok", "refused", "transient", "permanent", "cancelled", "unknown_outcome"}
NotDone == {"refused", "transient", "permanent", "cancelled"}

(* Copy i did not take effect and never will.                              *)
Harmless(i) == copies[i] \in {"none", "dropped"}

(* The last copy took effect; or it never will, and the answer of somebody *)
(* else was taken for a success.                                           *)
Landed == copies[attempt] = "applied"
Taken == copies[attempt] = "dropped" /\ Unread

(* What a report says is so.                                               *)
Rightly(k) ==
  /\ k \in Tellings
  /\ ~Replayable(method) =>
       /\ k = "ok" => Landed \/ (pc = "answered" /\ Taken)
       /\ k = "unknown_outcome" => wrote
       /\ k \in NotDone => (pc = "answered" /\ Garbled) \/ \A i \in Attempts : Harmless(i)
  /\ Replayable(method) =>
       /\ k # "unknown_outcome"
       /\ k = "transient" => attempt = Retries \/ Garbled \/ stop = "deadline"

(* The copies: none before it is sent, and only the last can take effect.  *)
OnlyTheLast ==
  /\ \A i \in Attempts : i > attempt => copies[i] = "none"
  /\ pc = "send" => copies[attempt] = "none"
  /\ ~Replayable(method) =>
       /\ \A i \in Attempts : i < attempt => Harmless(i)
       /\ pc = "wait" => Harmless(attempt)

(* The exchange knows whether something was sent.                          *)
KnowsWhatItSent ==
  /\ wrote => \E i \in Attempts : copies[i] # "none"
  /\ pc \in {"await", "answered"} => wrote

(* The answer is one to this attempt's copy.                               *)
AnswerFits ==
  /\ pc \in {"send", "await", "wait"} => body = "none" /\ answer = "none"
  /\ pc = "answered" =>
       /\ answer \in AnswersTo(copies[attempt])
       /\ body \in Bodies
       /\ answer # "ok" => body \in {"whole", "cut"}
       /\ answer = "ok" /\ copies[attempt] = "dropped" => body # "whole"

(* What was told stays right.                                              *)
ToldRightly ==
  /\ pc # "done" <=> kind = "nothing"
  /\ pc = "done" /\ ~Replayable(method) =>
       /\ kind = "ok" => Landed \/ Taken
       /\ kind = "unknown_outcome" => \E i \in Attempts : copies[i] # "none"
       /\ kind \in NotDone => Garbled \/ \A i \in Attempts : Harmless(i)
  /\ IdempotentIsSentAgain

IInv == TypeOK /\ OnlyTheLast /\ KnowsWhatItSent /\ AnswerFits /\ ToldRightly

----------------------------------------------------------------------------
(* The initial state satisfies the invariant (Init).                       *)
LEMMA Starts == Init => IInv
<1>. SUFFICES ASSUME Init PROVE IInv
  OBVIOUS
<1>. USE RequestsAssumption DEF Init, Attempts
<1>1. TypeOK
  <2>1. 0 \in Attempts
    OBVIOUS
  <2>2. copies \in [Attempts -> {"none", "travelling", "applied", "dropped"}]
    OBVIOUS
  <2>. QED
    BY <2>1, <2>2 DEF TypeOK
<1>2. OnlyTheLast
  BY DEF OnlyTheLast, Harmless
<1>3. KnowsWhatItSent
  BY DEF KnowsWhatItSent
<1>4. AnswerFits
  BY DEF AnswerFits
<1>5. ToldRightly
  BY DEF ToldRightly, IdempotentIsSentAgain
<1>. QED
  BY <1>1, <1>2, <1>3, <1>4, <1>5 DEF IInv

(* All copies of a request never replayed are harmless once its last one   *)
(* is (OnlyTheLast).                                                       *)
LEMMA LastDecides ==
  ASSUME IInv, ~Replayable(method), Harmless(attempt)
  PROVE  \A i \in Attempts : Harmless(i)
<1>1. attempt \in Nat /\ \A i \in Attempts : i \in Nat
  BY RequestsAssumption DEF IInv, TypeOK, Attempts
<1>2. ASSUME NEW i \in Attempts PROVE i < attempt \/ i = attempt \/ i > attempt
  BY <1>1
<1>. QED
  BY <1>2 DEF IInv, OnlyTheLast, Harmless

(* A failed attempt that reports reports rightly, and one that is sent     *)
(* again may be (Exchange.Classify).                                       *)
LEMMA FailsRightly ==
  ASSUME IInv, NEW cause \in Causes, Failed(cause), pc \in {"send", "await"},
         pc = "await" /\ cause = "rejected" => copies[attempt] = "dropped"
  PROVE  \/ Replay /\ Replayable(method)
         \/ \E k \in Tellings : Report(k) /\ Rightly(k)
<1>1. CASE Replayable(method) /\ Classify(cause) = "transient" /\ AnotherAttempt
  BY <1>1 DEF Failed
<1>2. CASE ~(Replayable(method) /\ Classify(cause) = "transient" /\ AnotherAttempt)
  <2>1. Report(Classify(cause))
    BY <1>2 DEF Failed
  <2>2. Rightly(Classify(cause))
    <3>1. Classify(cause) \in Tellings
      BY DEF Classify, Tellings
    <3>2. CASE Replayable(method)
      <4>1. Classify(cause) # "unknown_outcome"
        BY <3>2 DEF Classify, MayHaveApplied
      <4>2. Classify(cause) = "transient" => attempt = Retries
        BY <1>2, <3>2, RequestsAssumption DEF AnotherAttempt, IInv, TypeOK, Attempts
      <4>. QED
        BY <3>1, <3>2, <4>1, <4>2 DEF Rightly
    <3>3. CASE ~Replayable(method)
      <4>1. Classify(cause) # "ok"
        BY DEF Classify
      <4>2. Classify(cause) = "unknown_outcome" => wrote
        BY DEF Classify, MayHaveApplied
      <4>3. ASSUME Classify(cause) \in NotDone PROVE Harmless(attempt)
        <5>1. CASE pc = "send"
          BY <5>1 DEF IInv, OnlyTheLast, Harmless
        <5>2. CASE pc = "await"
          <6>1. wrote
            BY <5>2 DEF IInv, KnowsWhatItSent
          <6>2. cause = "rejected"
            BY <4>3, <6>1, <3>3 DEF Classify, MayHaveApplied, NotDone
          <6>. QED
            BY <5>2, <6>2 DEF Harmless
        <5>. QED
          BY <5>1, <5>2
      <4>. QED
        BY <3>1, <3>3, <4>1, <4>2, <4>3, LastDecides DEF Rightly
    <3>. QED
      BY <3>2, <3>3
  <2>. QED
    BY <2>1, <2>2 DEF Rightly
<1>. QED
  BY <1>1, <1>2

(* A body that is of no use is reported rightly whatever it says of it, if *)
(* not ok and, but for a mutation, not of unknown outcome.                 *)
LEMMA GarbledRightly ==
  ASSUME IInv, pc = "answered", Garbled, NEW k \in NotDone \cup {"unknown_outcome"},
         k = "unknown_outcome" => ~Replayable(method)
  PROVE  Rightly(k)
BY DEF Rightly, Tellings, NotDone, IInv, KnowsWhatItSent

(* What an answer is mapped to is right, if its body is whole, or nobody   *)
(* reads it (Status, MapStatusError, AnswerFailed).                        *)
LEMMA LegibleRightly ==
  ASSUME IInv, pc = "answered", Legible, ~OutcomeUnknown,
         ~(RetriableAnswer /\ AnotherAttempt)
  PROVE  Rightly(Mapped)
<1>1. Mapped \in Tellings
  BY DEF Mapped, Tellings
<1>2. answer \in AnswersTo(copies[attempt]) /\ answer \in Answers
  BY DEF IInv, AnswerFits, AnswersTo, Answers, Status4xx, Status5xx
<1>3. CASE Replayable(method)
  <2>1. Mapped # "unknown_outcome"
    BY <1>3 DEF Mapped
  <2>2. Mapped = "transient" => RetriableAnswer
    BY <1>3, <1>2 DEF Mapped, RetriableAnswer, RetriableStatus
  <2>3. ~AnotherAttempt => attempt = Retries
    BY RequestsAssumption DEF AnotherAttempt, IInv, TypeOK, Attempts
  <2>. QED
    BY <1>1, <1>3, <2>1, <2>2, <2>3 DEF Rightly
<1>4. CASE ~Replayable(method)
  <2>0. answer # "ok" => body = "whole"
    BY DEF IInv, AnswerFits, Legible, Unread
  <2>1. Mapped = "ok" => Landed \/ Taken
    <3>1. Mapped = "ok" => answer = "ok"
      BY <1>4 DEF Mapped, FailedWritingAnswer
    <3>. QED
      BY <1>2, <3>1 DEF AnswersTo, IInv, AnswerFits, Legible, Landed, Taken
  <2>2. wrote
    BY DEF IInv, KnowsWhatItSent
  <2>3. Mapped \in NotDone => Harmless(attempt)
    BY <1>2, <2>0, <1>4 DEF Mapped, NotDone, OutcomeUnknown, AnswersTo, Harmless, Answers,
         Status4xx, Status5xx, FailedWritingAnswer
  <2>. QED
    BY <1>1, <1>4, <2>1, <2>2, <2>3, LastDecides DEF Rightly
<1>. QED
  BY <1>3, <1>4

(* What the exchange makes of a body that was cut short (answered).        *)
LEMMA CutRightly ==
  ASSUME IInv, pc = "answered", body = "cut"
  PROVE  Rightly(Answered)
<1>1. Answered \in NotDone \cup {"unknown_outcome"}
  BY DEF Answered, NotDone
<1>2. Answered = "unknown_outcome" => ~Replayable(method)
  BY DEF Answered
<1>. QED
  BY <1>1, <1>2, GarbledRightly DEF Garbled

(* A gateway's answer, or a 500, to a mutation (Status).                   *)
LEMMA UnknownRightly ==
  ASSUME IInv, pc = "answered", OutcomeUnknown
  PROVE  Rightly("unknown_outcome")
BY DEF Rightly, OutcomeUnknown, Tellings, NotDone, IInv, KnowsWhatItSent

(* An answer that is sent again to was to a copy that never takes effect,  *)
(* or to an idempotent request (RetriableAnswer).                          *)
LEMMA ReplaysRightly ==
  ASSUME IInv, pc = "answered", RetriableAnswer
  PROVE  Replayable(method) \/ Harmless(attempt)
<1>1. CASE ~Replayable(method)
  <2>1. answer = "throttled"
    BY <1>1 DEF RetriableAnswer, RetriableStatus
  <2>2. answer \in AnswersTo(copies[attempt])
    BY DEF IInv, AnswerFits
  <2>. QED
    BY <2>1, <2>2 DEF AnswersTo, Harmless
<1>. QED
  BY <1>1

(* The steps of the client: it sends, hears, waits rightly or reports      *)
(* rightly (DoRequest, RoundTrip, Do).                                     *)
LEMMA ClientSteps ==
  ASSUME IInv, Client
  PROVE  \/ Send \/ AnswerArrives \/ SendAgain
         \/ pc # "done" /\ Replay /\ (Replayable(method) \/ Harmless(attempt))
         \/ pc # "done" /\ \E k \in Tellings : Report(k) /\ Rightly(k)
<1>1. CASE Send \/ AnswerArrives \/ SendAgain
  BY <1>1
<1>2. CASE NotSent
  <2>1. PICK cause \in Causes : Failed(cause)
    BY <1>2 DEF NotSent
  <2>2. pc = "send"
    BY <1>2 DEF NotSent
  <2>. QED
    BY <2>1, <2>2, FailsRightly
<1>3. CASE AnswerLost
  <2>1. PICK cause \in Causes :
          (cause = "rejected" => copies[attempt] = "dropped") /\ Failed(cause)
    BY <1>3 DEF AnswerLost
  <2>2. pc = "await"
    BY <1>3 DEF AnswerLost
  <2>. QED
    BY <2>1, <2>2, FailsRightly
<1>4. CASE DoRequest
  <2>1. pc = "answered"
    BY <1>4 DEF DoRequest
  <2>2. CASE body = "cut" /\ Report(Answered)
    BY <2>1, <2>2, CutRightly DEF Rightly
  <2>3. CASE Undecodable /\ Report("permanent")
    BY <2>1, <2>3, GarbledRightly DEF Rightly, Garbled, NotDone
  <2>4. CASE Legible /\ OutcomeUnknown /\ Report("unknown_outcome")
    BY <2>1, <2>4, UnknownRightly DEF Rightly
  <2>5. CASE Legible /\ ~OutcomeUnknown /\ RetriableAnswer /\ Replay
    BY <2>1, <2>5, ReplaysRightly
  <2>6. CASE /\ Legible /\ ~OutcomeUnknown
             /\ ~(RetriableAnswer /\ AnotherAttempt)
             /\ Report(Mapped)
    BY <2>1, <2>6, LegibleRightly DEF Rightly
  <2>. QED
    BY <1>4, <2>2, <2>3, <2>4, <2>5, <2>6 DEF DoRequest
<1>5. CASE RoundTripFails
  <2>1. pc = "answered" /\ Garbled
    BY <1>5 DEF RoundTripFails, Unreadable400, Garbled
  <2>2. PICK k \in {"cancelled", "transient"} : Report(k)
    BY <1>5 DEF RoundTripFails
  <2>3. Rightly(k)
    BY <2>1, GarbledRightly DEF NotDone
  <2>. QED
    BY <2>1, <2>2, <2>3 DEF Rightly
<1>6. CASE RoundTripAgain
  BY <1>6, ReplaysRightly DEF RoundTripAgain
<1>7. CASE Do
  <2>1. pc = "answered"
    BY <1>7 DEF Do
  <2>2. CASE OutcomeUnknown /\ Report("unknown_outcome")
    BY <2>1, <2>2, UnknownRightly DEF Rightly
  <2>3. CASE ~OutcomeUnknown /\ body = "cut" /\ Report(Answered)
    BY <2>1, <2>3, CutRightly DEF Rightly
  <2>4. CASE Undecodable /\ \E k \in {"transient", "permanent"} : Report(k)
    <3>1. PICK k \in {"transient", "permanent"} : Report(k)
      BY <2>4
    <3>2. Rightly(k)
      BY <2>1, <2>4, GarbledRightly DEF NotDone, Garbled
    <3>. QED
      BY <2>1, <3>1, <3>2 DEF Rightly
  <2>5. CASE ~OutcomeUnknown /\ Legible /\ Report(Mapped)
    <3>1. ~(RetriableAnswer /\ AnotherAttempt)
      BY <1>7 DEF Do
    <3>. QED
      BY <2>1, <2>5, <3>1, LegibleRightly DEF Rightly
  <2>. QED
    BY <1>7, <2>2, <2>3, <2>4, <2>5 DEF Do
<1>8. CASE WaitStopped
  <2>1. pc = "wait" /\ stop \in {"interrupt", "deadline"}
    BY <1>8 DEF WaitStopped, IInv, TypeOK
  <2>2. PICK k \in {"cancelled", "transient", "unknown_outcome"} :
          /\ Report(k)
          /\ k = "unknown_outcome" => MayHaveApplied
          /\ k = "transient" => stop = "deadline"
    <3>1. CASE transport = "openapi"
      <4>1. PICK cause \in Causes : Report(Classify(cause))
        BY <1>8, <3>1 DEF WaitStopped
      <4>2. cause # "rejected" /\ (cause = "lost" => stop = "deadline")
        BY <2>1 DEF Causes
      <4>. QED
        BY <2>1, <4>1, <4>2 DEF Classify, Causes
    <3>2. CASE transport # "openapi"
      BY <1>8, <2>1, <3>2 DEF WaitStopped
    <3>. QED
      BY <3>1, <3>2
  <2>3. ~Replayable(method) => \A i \in Attempts : Harmless(i)
    BY <2>1, LastDecides DEF IInv, OnlyTheLast
  <2>4. Rightly(k)
    BY <2>2, <2>3 DEF Rightly, MayHaveApplied, Tellings
  <2>. QED
    BY <2>1, <2>2, <2>4 DEF Rightly
<1>. QED
  BY <1>1, <1>2, <1>3, <1>4, <1>5, <1>6, <1>7, <1>8 DEF Client

----------------------------------------------------------------------------
(* Reporting rightly keeps the invariant (Report).                         *)
LEMMA ReportKeeps ==
  ASSUME IInv, pc # "done", NEW k \in Tellings, Report(k), Rightly(k)
  PROVE  IInv'
<1>. USE DEF Report
<1>1. TypeOK'
  BY DEF IInv, TypeOK, Tellings
<1>2. OnlyTheLast'
  BY DEF IInv, OnlyTheLast, Harmless
<1>3. KnowsWhatItSent'
  BY DEF IInv, KnowsWhatItSent
<1>4. AnswerFits'
  BY DEF AnswerFits
<1>5. ToldRightly'
  <2>1. (pc # "done" <=> kind = "nothing")'
    BY DEF Tellings
  <2>2. ASSUME ~Replayable(method)
        PROVE  /\ k = "ok" => Landed' \/ Taken'
               /\ k = "unknown_outcome" => \E i \in Attempts : copies'[i] # "none"
               /\ k \in NotDone => Garbled' \/ \A i \in Attempts : Harmless(i)'
    BY <2>2 DEF Rightly, IInv, KnowsWhatItSent, Garbled, Undecodable, Unread, Reads, Harmless,
         Landed, Taken
  <2>3. IdempotentIsSentAgain'
    BY DEF Rightly, IdempotentIsSentAgain, Garbled, Undecodable, Reads
  <2>. QED
    BY <2>1, <2>2, <2>3 DEF ToldRightly, Harmless
<1>. QED
  BY <1>1, <1>2, <1>3, <1>4, <1>5 DEF IInv

(* Putting an answer away to send the request again keeps it (RoundTrip,   *)
(* DoRequest).                                                             *)
LEMMA ReplayKeeps ==
  ASSUME IInv, pc # "done", Replay, Replayable(method) \/ Harmless(attempt)
  PROVE  IInv'
<1>. USE DEF Replay
<1>1. TypeOK'
  BY DEF IInv, TypeOK
<1>2. OnlyTheLast'
  BY DEF IInv, OnlyTheLast, Harmless
<1>3. KnowsWhatItSent'
  BY DEF IInv, KnowsWhatItSent
<1>4. AnswerFits'
  BY DEF AnswerFits
<1>5. ToldRightly'
  BY DEF IInv, ToldRightly, IdempotentIsSentAgain
<1>. QED
  BY <1>1, <1>2, <1>3, <1>4, <1>5 DEF IInv

(* Sending keeps it (http.Client.Do).                                      *)
LEMMA SendKeeps ==
  ASSUME IInv, Send
  PROVE  IInv'
<1>. USE DEF Send
<1>0. attempt \in Attempts /\ copies \in [Attempts -> {"none", "travelling", "applied", "dropped"}]
  BY DEF IInv, TypeOK
<1>1. TypeOK'
  BY <1>0 DEF IInv, TypeOK
<1>2. OnlyTheLast'
  <2>1. \A i \in Attempts : i # attempt => copies'[i] = copies[i]
    BY <1>0
  <2>2. \A i \in Attempts : i > attempt \/ i < attempt => i # attempt
    BY <1>0, RequestsAssumption DEF Attempts
  <2>. QED
    BY <2>1, <2>2 DEF IInv, OnlyTheLast, Harmless
<1>3. KnowsWhatItSent'
  BY <1>0 DEF KnowsWhatItSent
<1>4. AnswerFits'
  BY DEF IInv, AnswerFits
<1>5. ToldRightly'
  BY DEF IInv, ToldRightly, IdempotentIsSentAgain
<1>. QED
  BY <1>1, <1>2, <1>3, <1>4, <1>5 DEF IInv

(* An answer that arrives keeps it (http.Client.Do).                       *)
LEMMA ArrivalKeeps ==
  ASSUME IInv, AnswerArrives
  PROVE  IInv'
<1>. USE DEF AnswerArrives
<1>1. TypeOK'
  <2>1. answer' \in Answers
    BY DEF AnswersTo, Answers, Status4xx, Status5xx
  <2>. QED
    BY <2>1 DEF IInv, TypeOK
<1>2. OnlyTheLast'
  BY DEF IInv, OnlyTheLast, Harmless
<1>3. KnowsWhatItSent'
  BY DEF IInv, KnowsWhatItSent
<1>4. AnswerFits'
  BY DEF AnswerFits
<1>5. ToldRightly'
  BY DEF IInv, ToldRightly, IdempotentIsSentAgain
<1>. QED
  BY <1>1, <1>2, <1>3, <1>4, <1>5 DEF IInv

WaitsWithinRetries == pc = "wait" => attempt < Retries

(* Sending again keeps it: within retry_count, since only a Replay waits.  *)
LEMMA AgainKeeps ==
  ASSUME IInv, WaitsWithinRetries, SendAgain
  PROVE  IInv'
<1>. USE DEF SendAgain
<1>0. attempt \in Nat /\ attempt' = attempt + 1 /\ attempt' \in Attempts
  BY RequestsAssumption DEF IInv, TypeOK, Attempts, WaitsWithinRetries
<1>1. TypeOK'
  BY <1>0 DEF IInv, TypeOK
<1>2. OnlyTheLast'
  <2>1. \A i \in Attempts : i \in Nat
    BY RequestsAssumption DEF Attempts
  <2>2. \A i \in Attempts : i >= attempt' => i > attempt
    BY <1>0, <2>1
  <2>3. \A i \in Attempts : i < attempt' => i < attempt \/ i = attempt
    BY <1>0, <2>1
  <2>4. \A i \in Attempts : i > attempt' => i >= attempt'
    BY <1>0, <2>1
  <2>5. attempt' >= attempt'
    BY <1>0
  <2>6. \A i \in Attempts : i > attempt' => copies'[i] = "none"
    BY <2>2, <2>4 DEF IInv, OnlyTheLast
  <2>7. copies'[attempt'] = "none"
    BY <1>0, <2>2, <2>5 DEF IInv, OnlyTheLast
  <2>8. ~Replayable(method) => \A i \in Attempts : i < attempt' => copies'[i] \in {"none", "dropped"}
    BY <2>3 DEF IInv, OnlyTheLast, Harmless
  <2>. QED
    BY <2>6, <2>7, <2>8 DEF OnlyTheLast, Harmless
<1>3. KnowsWhatItSent'
  BY DEF IInv, KnowsWhatItSent
<1>4. AnswerFits'
  BY DEF IInv, AnswerFits
<1>5. ToldRightly'
  BY DEF IInv, ToldRightly, IdempotentIsSentAgain
<1>. QED
  BY <1>1, <1>2, <1>3, <1>4, <1>5 DEF IInv

(* An interrupt or a timeout keeps it.                                     *)
LEMMA StopKeeps ==
  ASSUME IInv, Interrupt \/ Timeout
  PROVE  IInv'
<1>. USE DEF Interrupt, Timeout
<1>1. TypeOK'
  BY DEF IInv, TypeOK
<1>2. OnlyTheLast'
  BY DEF IInv, OnlyTheLast, Harmless
<1>3. KnowsWhatItSent'
  BY DEF IInv, KnowsWhatItSent
<1>4. AnswerFits'
  BY DEF IInv, AnswerFits
<1>5. ToldRightly'
  BY DEF IInv, ToldRightly, IdempotentIsSentAgain
<1>. QED
  BY <1>1, <1>2, <1>3, <1>4, <1>5 DEF IInv

(* So does Bitbucket, whenever it carries a copy out or never will.        *)
LEMMA SettleKeeps ==
  ASSUME IInv, NEW i \in Attempts, NEW fate \in {"applied", "dropped"}, Settle(i, fate)
  PROVE  IInv'
<1>. USE DEF Settle
<1>0. /\ attempt \in Attempts
      /\ copies \in [Attempts -> {"none", "travelling", "applied", "dropped"}]
  BY DEF IInv, TypeOK
<1>1. \A j \in Attempts : copies'[j] # copies[j] => copies[j] = "travelling" /\ copies'[j] = fate
  BY <1>0
<1>2. \A j \in Attempts : copies[j] \in {"none", "dropped", "applied"} => copies'[j] = copies[j]
  BY <1>1
<1>3. TypeOK'
  BY <1>0 DEF IInv, TypeOK
<1>4. OnlyTheLast'
  BY <1>0, <1>2 DEF IInv, OnlyTheLast, Harmless
<1>5. KnowsWhatItSent'
  BY <1>1 DEF IInv, KnowsWhatItSent
<1>6. AnswerFits'
  <2>1. AnswersTo(copies[attempt]) \subseteq AnswersTo(copies'[attempt])
    BY <1>0, <1>1 DEF AnswersTo
  <2>2. answer = "ok" /\ pc = "answered" => copies'[attempt] = copies[attempt]
    BY <1>0, <1>2 DEF IInv, AnswerFits, AnswersTo
  <2>. QED
    BY <2>1, <2>2 DEF IInv, AnswerFits
<1>7. ToldRightly'
  <2>1. \A j \in Attempts : copies[j] # "none" => copies'[j] # "none"
    BY <1>1
  <2>2. \A j \in Attempts : Harmless(j) => copies'[j] \in {"none", "dropped"}
    BY <1>2 DEF Harmless
  <2>3. copies[attempt] \in {"applied", "dropped"} => copies'[attempt] = copies[attempt]
    BY <1>0, <1>2
  <2>4. ASSUME pc = "done", ~Replayable(method)
        PROVE  /\ kind = "ok" =>
                    copies'[attempt] = "applied" \/ (copies'[attempt] = "dropped" /\ Unread)
               /\ kind = "unknown_outcome" => \E j \in Attempts : copies'[j] # "none"
               /\ kind \in NotDone => Garbled \/ \A j \in Attempts : copies'[j] \in {"none", "dropped"}
    BY <2>1, <2>2, <2>3, <2>4 DEF IInv, ToldRightly, Landed, Taken
  <2>. QED
    BY <2>4 DEF IInv, ToldRightly, IdempotentIsSentAgain, Harmless, Garbled, Undecodable, Unread,
         Reads, Landed, Taken
<1>. QED
  BY <1>3, <1>4, <1>5, <1>6, <1>7 DEF IInv

(* A waiting request always has an attempt left.                           *)
LEMMA WaitsKept ==
  ASSUME WaitsWithinRetries, [Next]_vars
  PROVE  WaitsWithinRetries'
<1>1. CASE Client
  BY <1>1 DEF Client, WaitsWithinRetries, Send, NotSent, AnswerLost, AnswerArrives, DoRequest,
       RoundTripFails, RoundTripAgain, Do, SendAgain, WaitStopped, Failed, Report, Replay,
       AnotherAttempt
<1>2. CASE Interrupt \/ Timeout \/ UNCHANGED vars
  BY <1>2 DEF WaitsWithinRetries, Interrupt, Timeout, vars
<1>3. CASE \E i \in Attempts : Settle(i, "applied") \/ Settle(i, "dropped")
  BY <1>3 DEF WaitsWithinRetries, Settle
<1>. QED
  BY <1>1, <1>2, <1>3 DEF Next

(* So every step keeps the invariant.                                      *)
LEMMA StepKeeps ==
  ASSUME IInv, WaitsWithinRetries, [Next]_vars
  PROVE  IInv'
<1>1. CASE Client
  BY <1>1, ClientSteps, ReportKeeps, ReplayKeeps, SendKeeps, ArrivalKeeps, AgainKeeps
<1>2. CASE Interrupt \/ Timeout
  BY <1>2, StopKeeps
<1>3. CASE \E i \in Attempts : Settle(i, "applied") \/ Settle(i, "dropped")
  BY <1>3, SettleKeeps
<1>4. CASE UNCHANGED vars
  <2>1. TypeOK'
    BY <1>4 DEF vars, IInv, TypeOK
  <2>2. OnlyTheLast'
    BY <1>4 DEF vars, IInv, OnlyTheLast, Harmless
  <2>3. KnowsWhatItSent'
    BY <1>4 DEF vars, IInv, KnowsWhatItSent
  <2>4. AnswerFits'
    BY <1>4 DEF vars, IInv, AnswerFits
  <2>5. ToldRightly'
    BY <1>4 DEF vars, IInv, ToldRightly, IdempotentIsSentAgain, Garbled, Undecodable, Unread, Reads,
         Harmless, Landed, Taken
  <2>. QED
    BY <2>1, <2>2, <2>3, <2>4, <2>5 DEF IInv
<1>. QED
  BY <1>1, <1>2, <1>3, <1>4 DEF Next

(* The inductive invariant holds, for any retry_count and any methods.     *)
THEOREM Invariance == Spec => [](IInv /\ WaitsWithinRetries)
<1>1. Init => IInv /\ WaitsWithinRetries
  BY Starts DEF Init, WaitsWithinRetries
<1>2. IInv /\ WaitsWithinRetries /\ [Next]_vars => (IInv /\ WaitsWithinRetries)'
  BY StepKeeps, WaitsKept
<1>. QED
  BY <1>1, <1>2, PTL DEF Spec

(* Every variable keeps its type (Exchange and the transports' loops).     *)
THEOREM TypeCorrect == Spec => []TypeOK
<1>1. IInv => TypeOK
  BY DEF IInv
<1>. QED
  BY <1>1, Invariance, PTL

(* An idempotent request is never of unknown outcome, and transient only   *)
(* once its attempts are spent, a body was no use or its time ran out.     *)
THEOREM IdempotentIsReplayed == Spec => []IdempotentIsSentAgain
<1>1. IInv => IdempotentIsSentAgain
  BY DEF IInv, ToldRightly
<1>. QED
  BY <1>1, Invariance, PTL

----------------------------------------------------------------------------
(* The refinement.  The mapped variables change in a few ways only, and of *)
(* an idempotent request, of which nothing is promised, never.             *)

(* A step that leaves the copies, the outcome and the usefulness of the    *)
(* body alone is none of the promise's.                                    *)
LEMMA Stutters ==
  ASSUME UNCHANGED <<method, copies, kind>>,
         (pc' \in {"answered", "done"} /\ Garbled') = (pc \in {"answered", "done"} /\ Garbled),
         (pc' \in {"answered", "done"} /\ Unread') = (pc \in {"answered", "done"} /\ Unread)
  PROVE  UNCHANGED Promise!vars
BY DEF Promise!vars, Applied

(* Sending a copy is the promise's Send (Exchange.wrote).                  *)
LEMMA SendPromised ==
  ASSUME IInv, Send, ~Replayable(method)
  PROVE  Promise!Send
<1>. USE DEF Send
<1>0. attempt \in Attempts /\ copies[attempt] = "none"
      /\ copies \in [Attempts -> {"none", "travelling", "applied", "dropped"}]
  BY DEF IInv, TypeOK, OnlyTheLast
<1>1. copies'[attempt] = "travelling"
  BY <1>0
<1>2. \A i \in Attempts : copies'[i] = "applied" <=> copies[i] = "applied"
  BY <1>0
<1>3. Applied' = Applied
  BY <1>2 DEF Applied
<1>4. kind = "nothing"
  BY DEF IInv, ToldRightly
<1>. QED
  BY <1>0, <1>1, <1>3, <1>4 DEF Promise!Send

(* Hearing an answer, or putting one away, is the promise's Hear.          *)
LEMMA HearPromised ==
  ASSUME IInv, ~Replayable(method), pc # "done", pc' # "done", UNCHANGED <<method, copies, kind>>
  PROVE  Promise!Hear
<1>1. kind = "nothing"
  BY DEF IInv, ToldRightly
<1>. QED
  BY <1>1 DEF Promise!Hear, Applied

(* A right report is one the promise allows (Classify, Status, Answered).  *)
LEMMA TellPromised ==
  ASSUME IInv, ~Replayable(method), pc # "done", NEW k \in Tellings, Report(k), Rightly(k)
  PROVE  Promise!Tell(k)
<1>. USE DEF Report
<1>1. kind = "nothing" /\ attempt \in Attempts
  BY DEF IInv, ToldRightly, TypeOK
<1>2. k = "ok" => Applied # {} \/ (pc \in {"answered", "done"} /\ Unread)
  BY <1>1 DEF Rightly, Applied, Landed, Taken
<1>3. k = "unknown_outcome" => \E i \in Attempts : copies[i] # "none"
  BY DEF Rightly, IInv, KnowsWhatItSent
<1>4. k \in NotDone => Applied = {} \/ (pc \in {"answered", "done"} /\ Garbled)
  BY DEF Rightly, Applied, Harmless
<1>5. /\ (pc' \in {"answered", "done"} /\ Garbled') = (pc \in {"answered", "done"} /\ Garbled)
      /\ (pc' \in {"answered", "done"} /\ Unread') = (pc \in {"answered", "done"} /\ Unread)
  BY DEF IInv, TypeOK, AnswerFits, Garbled, Undecodable, Unread, Reads
<1>6. Applied' = Applied
  BY DEF Applied
<1>. QED
  BY <1>1, <1>2, <1>3, <1>4, <1>5, <1>6 DEF Promise!Tell, Promise!NotDone, NotDone

(* A copy that takes effect is the last one, no other did, and nobody was  *)
(* told that it would not (OnlyTheLast, ToldRightly).                      *)
LEMMA LandPromised ==
  ASSUME IInv, ~Replayable(method), NEW i \in Attempts, Settle(i, "applied")
  PROVE  Promise!Land
<1>. USE DEF Settle
<1>0. /\ attempt \in Nat /\ i \in Nat
      /\ attempt \in Attempts
      /\ copies \in [Attempts -> {"none", "travelling", "applied", "dropped"}]
  BY RequestsAssumption DEF IInv, TypeOK, Attempts
<1>1. copies[i] = "travelling"
  OBVIOUS
<1>2. i = attempt
  <2>1. ~ (i < attempt) /\ ~ (i > attempt)
    BY <1>1 DEF IInv, OnlyTheLast, Harmless
  <2>. QED
    BY <1>0, <2>1
<1>3. \A j \in Attempts : copies[j] # "applied"
  <2>1. SUFFICES ASSUME NEW j \in Attempts PROVE copies[j] # "applied"
    OBVIOUS
  <2>2. j \in Nat
    BY RequestsAssumption DEF Attempts
  <2>3. j < attempt \/ j = attempt \/ j > attempt
    BY <1>0, <2>2
  <2>. QED
    BY <1>1, <1>2, <2>3 DEF IInv, OnlyTheLast, Harmless
<1>4. Applied = {} /\ Applied' = {i}
  BY <1>0, <1>3 DEF Applied
<1>5. kind \in {"nothing", "unknown_outcome"} \/ (pc \in {"answered", "done"} /\ Garbled)
  BY <1>1, <1>2 DEF IInv, TypeOK, ToldRightly, Harmless, NotDone, Landed, Taken
<1>. QED
  BY <1>1, <1>4, <1>5 DEF Promise!Land, Garbled, Undecodable, Unread, Reads

(* A copy that is lost leaves the promise where it was.                    *)
LEMMA DropStutters ==
  ASSUME IInv, NEW i \in Attempts, Settle(i, "dropped")
  PROVE  UNCHANGED Promise!vars
<1>. USE DEF Settle
<1>0. copies \in [Attempts -> {"none", "travelling", "applied", "dropped"}]
  BY DEF IInv, TypeOK
<1>1. \A j \in Attempts : copies'[j] = "applied" <=> copies[j] = "applied"
  BY <1>0
<1>2. \A j \in Attempts : copies'[j] # "none" <=> copies[j] # "none"
  BY <1>0
<1>3. Applied' = Applied
  BY <1>1 DEF Applied
<1>. QED
  BY <1>2, <1>3 DEF Promise!vars, Garbled, Undecodable, Unread, Reads

(* A step of a request nothing is promised of changes nothing of it.       *)
LEMMA IdempotentStutters ==
  ASSUME Replayable(method), [Next]_vars
  PROVE  UNCHANGED Promise!vars
<1>1. method' = method
  BY DEF Next, vars, Client, Send, NotSent, AnswerLost, AnswerArrives, DoRequest,
     RoundTripFails, RoundTripAgain, Do, SendAgain, WaitStopped, Failed, Report, Replay,
     Interrupt, Timeout, Settle
<1>. QED
  BY <1>1 DEF Promise!vars

(* Every step of the client and of Bitbucket is one of the promise.        *)
LEMMA StepPromised ==
  ASSUME IInv, [Next]_vars
  PROVE  [Promise!Next]_Promise!vars
<1>1. CASE Replayable(method)
  BY <1>1, IdempotentStutters
<1>2. CASE ~Replayable(method) /\ Client
  <2>1. CASE Send
    BY <1>2, <2>1, SendPromised DEF Promise!Next
  <2>2. CASE AnswerArrives
    BY <1>2, <2>2, HearPromised DEF AnswerArrives, Promise!Next
  <2>3. CASE SendAgain
    BY <2>3, Stutters DEF SendAgain
  <2>4. CASE pc # "done" /\ Replay
    BY <1>2, <2>4, HearPromised DEF Replay, Promise!Next
  <2>5. CASE pc # "done" /\ \E k \in Tellings : Report(k) /\ Rightly(k)
    <3>1. PICK k \in Tellings : Report(k) /\ Rightly(k)
      BY <2>5
    <3>2. Promise!Tell(k)
      BY <1>2, <2>5, <3>1, TellPromised
    <3>3. k \in Promise!Tellings
      BY DEF Tellings, Promise!Tellings, Promise!NotDone
    <3>. QED
      BY <3>2, <3>3 DEF Promise!Next
  <2>. QED
    BY <1>2, <2>1, <2>2, <2>3, <2>4, <2>5, ClientSteps
<1>3. CASE Interrupt \/ Timeout \/ UNCHANGED vars
  BY <1>3, Stutters DEF Interrupt, Timeout, vars, Garbled, Undecodable, Unread, Reads
<1>4. CASE ~Replayable(method) /\ \E i \in Attempts : Settle(i, "applied") \/ Settle(i, "dropped")
  BY <1>4, LandPromised, DropStutters DEF Promise!Next
<1>. QED
  BY <1>1, <1>2, <1>3, <1>4 DEF Next

(* A POST or a PATCH keeps the promise of RequestPromise, through either   *)
(* transport and for any retry_count (outcome.go, retrypolicy.go).         *)
THEOREM PromiseKept == Spec => KeepsThePromise
<1>1. Init => Promise!Init
  BY DEF Init, Promise!Init, Applied
<1>2. IInv /\ [Next]_vars => [Promise!Next]_Promise!vars
  BY StepPromised
<1>. QED
  BY <1>1, <1>2, Invariance, PTL DEF Spec, KeepsThePromise, Promise!Spec
=============================================================================
