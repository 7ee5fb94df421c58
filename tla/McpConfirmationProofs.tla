----------------------- MODULE McpConfirmationProofs -----------------------
(***************************************************************************)
(* What holds of McpConfirmation for any number of calls, any requests,    *)
(* any lifetime and any clock.                                             *)
(***************************************************************************)
EXTENDS McpConfirmation, TLAPS

Live(c) == pc[c] # "idle"

(* A call seals at most one state: it seals before it has one to answer.   *)
SealsOnce ==
  \A c \in Calls :
    pc[c] \in {"idle", "ask", "seal"} \/ (pc[c] = "confirm" /\ req[c].answer = "none")
      => sealed[c] = NotSealed

(* A call that goes on to seal carries no answer, and one that is asked     *)
(* within the call carried no state.                                       *)
AsksWithoutAnswer ==
  \A c \in Calls :
    /\ pc[c] \in {"ask", "seal", "elicit"} => req[c].answer = "none"
    /\ pc[c] = "elicit" => req[c].era = "handshake"
    /\ Live(c) /\ req[c].era = "handshake" /\ req[c].answer = "none"
         => req[c].state = NoState

(* openedAt is of the state the call carries, and not of the future.       *)
OpenedBefore ==
  \A c \in Calls :
    /\ openedAt[c] <= clock
    /\ openedAt[c] # Never =>
         Live(c) /\ req[c].state \in Calls /\ sealed[req[c].state] # NotSealed
    /\ pc[c] = "consume" =>
         /\ openedAt[c] # Never
         /\ consumedAt[c] = Never
         /\ Verifies(req[c].state)
         /\ late[c] = (openedAt[c] > sealed[req[c].state].expires)
    /\ pc[c] \in {"idle", "confirm"} => openedAt[c] = Never

(* A call consumes once, after it opened, and then only runs and answers.  *)
ConsumedAfterOpening ==
  \A c \in Calls :
    /\ ran[c] => pc[c] \in {"write", "done", "lost"}
    /\ Consumed(c) =>
         /\ openedAt[c] # Never /\ openedAt[c] <= consumedAt[c]
         /\ consumedAt[c] <= clock
         /\ pc[c] \in {"run", "write", "done", "lost"}
    /\ Consumed(c) /\ (pc[c] = "run" \/ ran[c]) =>
         openedAt[c] <= sealed[req[c].state].expires

(* The heart of it: within a process, a consumed state that has not expired *)
(* is remembered.                                                          *)
RememberedWhileAlive ==
  /\ \A q \in Calls : sealed[q].key <= key
  /\ \A c \in Calls :
       Consumed(c) /\ sealed[req[c].state].key = key /\ ~Expired(req[c].state)
         => req[c].state \in answered

(* A state opened on time was opened before anyone consumed it.            *)
OpenedBeforeConsumed ==
  \A c, d \in Calls :
    /\ c # d /\ Consumed(c) /\ openedAt[d] # Never /\ req[c].state = req[d].state
    /\ openedAt[d] <= sealed[req[d].state].expires
    => openedAt[d] <= consumedAt[c]

IInv ==
  /\ TypeOK /\ SealsOnce /\ AsksWithoutAnswer /\ OpenedBefore
  /\ ConsumedAfterOpening /\ RememberedWhileAlive /\ OpenedBeforeConsumed
  /\ AnsweredOnceOnTime

-----------------------------------------------------------------------------
(* Type correctness *)

USE DEF NoVersion, Never, seal, world, recorder, history,
        Tool, Input, Goto, Return, RecordConfirmation, RefuseConfirmation

LEMMA TypeInit == Init => TypeOK
  BY BoundsAssumption DEF Init, TypeOK, NotSealed, Idle, NoRecord, Versions, Outcomes

LEMMA CarriedType ==
  ASSUME NEW c \in Calls, TypeOK, Live(c)
  PROVE  /\ req[c] \in Carried
         /\ Tool(c) \in STRING /\ Input(c) \in STRING
         /\ req[c].request.version \in Int
  BY RequestsAssumption DEF TypeOK, Live, Carried, Tool, Input

LEMMA TypeStep == TypeOK /\ [Next]_vars => TypeOK'
<1> SUFFICES ASSUME TypeOK, [Next]_vars PROVE TypeOK'
  OBVIOUS
<1>1. ASSUME NEW c \in Calls, Serve(c) PROVE TypeOK'
  <2>1. CASE TurnDown(c)
    BY <2>1, CarriedType DEF TurnDown, TypeOK, Live
  <2>2. CASE RunUnasked(c)
    BY <2>2, CarriedType DEF RunUnasked, TypeOK, Live
  <2>3. CASE CannotAsk(c)
    BY <2>3, CarriedType DEF CannotAsk, TypeOK, Live, Outcomes, MustAsk
  <2>4. CASE AnswerWithoutQuestion(c)
    BY <2>4, CarriedType DEF AnswerWithoutQuestion, TypeOK, Live, MustAsk
  <2>5. CASE StartAsking(c)
    BY <2>5, CarriedType DEF StartAsking, TypeOK, Live, MustAsk
  <2>6. CASE ReadPullRequest(c)
    BY <2>6, CarriedType DEF ReadPullRequest, TypeOK, Live, Versions
  <2>7. CASE DescribeFromArguments(c)
    BY <2>7, CarriedType DEF DescribeFromArguments, TypeOK, Live
  <2>8. CASE AskFails(c)
    BY <2>8, CarriedType DEF AskFails, TypeOK, Live
  <2>9. CASE Seal(c)
    BY <2>9, CarriedType, BoundsAssumption DEF Seal, TypeOK, Live, Expiry, Sealed
  <2>10. CASE OpenRefused(c)
    BY <2>10, CarriedType DEF OpenRefused, TypeOK, Live, MustAsk
  <2>11. CASE OpenUnanswered(c)
    BY <2>11, CarriedType DEF OpenUnanswered, TypeOK, Live, Open, Opens, Verifies, Expired,
       Sealed, NotSealed, MustAsk
  <2>12. CASE OpenMalformed(c)
    BY <2>12, CarriedType DEF OpenMalformed, TypeOK, Live, Open, Opens, Verifies, Expired,
       Sealed, NotSealed, MustAsk
  <2>13. CASE OpenAnswered(c)
    BY <2>13, CarriedType DEF OpenAnswered, TypeOK, Live, Open, Opens, Verifies, Expired,
       Sealed, NotSealed, MustAsk
  <2>14. CASE ConsumeRefused(c)
    BY <2>14, CarriedType DEF ConsumeRefused, TypeOK, Live, Remembered
  <2>15. CASE ConsumeNo(c)
    BY <2>15, CarriedType DEF ConsumeNo, TypeOK, Live, Consume, Remembered, Outcomes
  <2>16. CASE ConsumeTooLate(c)
    BY <2>16, CarriedType DEF ConsumeTooLate, TypeOK, Live, Consume, Remembered
  <2>17. CASE ConsumeYes(c)
    BY <2>17, CarriedType DEF ConsumeYes, TypeOK, Live, Consume, Remembered, HoldVersion, Outcomes
  <2>18. CASE RunHandler(c)
    BY <2>18, CarriedType DEF RunHandler, TypeOK, Live, Versions
  <2>19. CASE HandlerFails(c)
    BY <2>19, CarriedType DEF HandlerFails, TypeOK, Live
  <2>20. CASE WriteAudit(c)
    BY <2>20, CarriedType DEF WriteAudit, TypeOK, Live, AuditRecord, Records, Outcomes
  <2>21. CASE AuditFails(c)
    BY <2>21, CarriedType DEF AuditFails, TypeOK, Live
  <2> QED
    BY <1>1, <2>1, <2>2, <2>3, <2>4, <2>5, <2>6, <2>7, <2>8, <2>9, <2>10, <2>11, <2>12, <2>13,
       <2>14, <2>15, <2>16, <2>17, <2>18, <2>19, <2>20, <2>21 DEF Serve
<1>2. ASSUME NEW c \in Calls, NEW r \in Arriving, Receive(c, r) PROVE TypeOK'
  BY <1>2, ModesAssumption DEF Receive, TypeOK, Arriving, Carried
<1>3. ASSUME NEW c \in Calls, NEW a \in Answers, Elicit(c, a) PROVE TypeOK'
  BY <1>3 DEF Elicit, TypeOK, Answering, Carried
<1>4. CASE Tick
  BY <1>4 DEF Tick, TypeOK
<1>5. CASE Push
  BY <1>5, BoundsAssumption DEF Push, TypeOK, Versions
<1>6. CASE Restart
  BY <1>6 DEF Restart, TypeOK
<1>7. CASE UNCHANGED vars
  BY <1>7 DEF vars, TypeOK
<1> QED
  BY <1>1, <1>2, <1>3, <1>4, <1>5, <1>6, <1>7 DEF Next, Terminated

-----------------------------------------------------------------------------
(* The induction, one conjunct at a time. *)

(* What a state holds, in numbers the provers can compare. *)
LEMMA SealedType ==
  ASSUME TypeOK, NEW q \in Calls
  PROVE  sealed[q].expires \in Int /\ sealed[q].key \in Int
  BY DEF TypeOK, Sealed, NotSealed

(* A call that opened a state keeps it, and nobody seals that state anew.  *)
LEMMA Kept ==
  ASSUME IInv, [Next]_vars, NEW d \in Calls, openedAt[d] # Never
  PROVE  /\ req'[d] = req[d]
         /\ req'[d].state = req[d].state
         /\ sealed'[req[d].state] = sealed[req[d].state]
<1> USE DEF IInv, TypeOK, OpenedBefore, Live
<1>1. ASSUME NEW c \in Calls, Serve(c) PROVE req' = req /\ (Seal(c) \/ sealed' = sealed)
  BY <1>1 DEF Serve, TurnDown, RunUnasked, CannotAsk, AnswerWithoutQuestion, StartAsking,
     ReadPullRequest, DescribeFromArguments, AskFails, Seal, OpenRefused, OpenUnanswered,
     OpenMalformed, OpenAnswered, ConsumeRefused, ConsumeNo, ConsumeTooLate, ConsumeYes,
     RunHandler, HandlerFails, WriteAudit, AuditFails, Open, Consume
<1>2. ASSUME NEW c \in Calls, Seal(c)
      PROVE  \A q \in Calls : sealed[q] # NotSealed => sealed'[q] = sealed[q]
  BY <1>2 DEF Seal, SealsOnce
<1>3. ASSUME NEW c \in Calls, NEW r \in Arriving, Receive(c, r)
      PROVE  sealed' = sealed /\ req'[d] = req[d]
  BY <1>3 DEF Receive
<1>4. ASSUME NEW c \in Calls, NEW a \in Answers, Elicit(c, a)
      PROVE  sealed' = sealed /\ req'[d] = req[d]
  BY <1>4, StatesAssumption DEF Elicit, AsksWithoutAnswer
<1>5. CASE Tick \/ Push \/ Restart \/ UNCHANGED vars
  BY <1>5 DEF Tick, Push, Restart, vars
<1> QED
  BY <1>1, <1>2, <1>3, <1>4, <1>5 DEF Next, Terminated

LEMMA SealsOnceStep == IInv /\ [Next]_vars => SealsOnce'
<1> SUFFICES ASSUME IInv, [Next]_vars PROVE SealsOnce'
  OBVIOUS
<1> USE DEF IInv, TypeOK, SealsOnce
<1>1. ASSUME NEW c \in Calls, Serve(c) PROVE SealsOnce'
  <2>1. CASE TurnDown(c)
    BY <2>1 DEF TurnDown
  <2>2. CASE RunUnasked(c)
    BY <2>2 DEF RunUnasked
  <2>3. CASE CannotAsk(c)
    BY <2>3 DEF CannotAsk, MustAsk
  <2>4. CASE AnswerWithoutQuestion(c)
    BY <2>4 DEF AnswerWithoutQuestion, MustAsk
  <2>5. CASE StartAsking(c)
    BY <2>5 DEF StartAsking, MustAsk
  <2>6. CASE ReadPullRequest(c)
    BY <2>6 DEF ReadPullRequest
  <2>7. CASE DescribeFromArguments(c)
    BY <2>7 DEF DescribeFromArguments
  <2>8. CASE AskFails(c)
    BY <2>8 DEF AskFails
  <2>9. CASE Seal(c)
    BY <2>9 DEF Seal, Expiry, NotSealed
  <2>10. CASE OpenRefused(c)
    BY <2>10 DEF OpenRefused, MustAsk
  <2>11. CASE OpenUnanswered(c)
    BY <2>11 DEF OpenUnanswered, MustAsk, Open
  <2>12. CASE OpenMalformed(c)
    BY <2>12 DEF OpenMalformed, MustAsk, Open
  <2>13. CASE OpenAnswered(c)
    BY <2>13 DEF OpenAnswered, MustAsk, Open
  <2>14. CASE ConsumeRefused(c)
    BY <2>14 DEF ConsumeRefused
  <2>15. CASE ConsumeNo(c)
    BY <2>15 DEF ConsumeNo, Consume
  <2>16. CASE ConsumeTooLate(c)
    BY <2>16 DEF ConsumeTooLate, Consume
  <2>17. CASE ConsumeYes(c)
    BY <2>17 DEF ConsumeYes, Consume
  <2>18. CASE RunHandler(c)
    BY <2>18 DEF RunHandler
  <2>19. CASE HandlerFails(c)
    BY <2>19 DEF HandlerFails
  <2>20. CASE WriteAudit(c)
    BY <2>20 DEF WriteAudit
  <2>21. CASE AuditFails(c)
    BY <2>21 DEF AuditFails
  <2> QED
    BY <1>1, <2>1, <2>2, <2>3, <2>4, <2>5, <2>6, <2>7, <2>8, <2>9, <2>10, <2>11, <2>12, <2>13,
       <2>14, <2>15, <2>16, <2>17, <2>18, <2>19, <2>20, <2>21 DEF Serve
<1>2. ASSUME NEW c \in Calls, NEW r \in Arriving, Receive(c, r) PROVE SealsOnce'
  BY <1>2 DEF Receive
<1>3. ASSUME NEW c \in Calls, NEW a \in Answers, Elicit(c, a) PROVE SealsOnce'
  BY <1>3 DEF Elicit, Answering, Answers
<1>4. CASE Tick
  BY <1>4 DEF Tick
<1>5. CASE Push
  BY <1>5 DEF Push
<1>6. CASE Restart
  BY <1>6 DEF Restart
<1>7. CASE UNCHANGED vars
  BY <1>7 DEF vars
<1> QED
  BY <1>1, <1>2, <1>3, <1>4, <1>5, <1>6, <1>7 DEF Next, Terminated

LEMMA AsksWithoutAnswerStep == IInv /\ [Next]_vars => AsksWithoutAnswer'
<1> SUFFICES ASSUME IInv, [Next]_vars PROVE AsksWithoutAnswer'
  OBVIOUS
<1> USE DEF IInv, TypeOK, AsksWithoutAnswer, Live
<1>1. ASSUME NEW c \in Calls, Serve(c) PROVE AsksWithoutAnswer'
  <2>1. CASE TurnDown(c)
    BY <2>1 DEF TurnDown
  <2>2. CASE RunUnasked(c)
    BY <2>2 DEF RunUnasked
  <2>3. CASE CannotAsk(c)
    BY <2>3 DEF CannotAsk, MustAsk
  <2>4. CASE AnswerWithoutQuestion(c)
    BY <2>4 DEF AnswerWithoutQuestion, MustAsk
  <2>5. CASE StartAsking(c)
    BY <2>5 DEF StartAsking, MustAsk
  <2>6. CASE ReadPullRequest(c)
    BY <2>6 DEF ReadPullRequest
  <2>7. CASE DescribeFromArguments(c)
    BY <2>7 DEF DescribeFromArguments
  <2>8. CASE AskFails(c)
    BY <2>8 DEF AskFails
  <2>9. CASE Seal(c)
    BY <2>9 DEF Seal, Expiry, NotSealed
  <2>10. CASE OpenRefused(c)
    BY <2>10 DEF OpenRefused, MustAsk
  <2>11. CASE OpenUnanswered(c)
    BY <2>11 DEF OpenUnanswered, MustAsk, Open
  <2>12. CASE OpenMalformed(c)
    BY <2>12 DEF OpenMalformed, MustAsk, Open
  <2>13. CASE OpenAnswered(c)
    BY <2>13 DEF OpenAnswered, MustAsk, Open
  <2>14. CASE ConsumeRefused(c)
    BY <2>14 DEF ConsumeRefused
  <2>15. CASE ConsumeNo(c)
    BY <2>15 DEF ConsumeNo, Consume
  <2>16. CASE ConsumeTooLate(c)
    BY <2>16 DEF ConsumeTooLate, Consume
  <2>17. CASE ConsumeYes(c)
    BY <2>17 DEF ConsumeYes, Consume
  <2>18. CASE RunHandler(c)
    BY <2>18 DEF RunHandler
  <2>19. CASE HandlerFails(c)
    BY <2>19 DEF HandlerFails
  <2>20. CASE WriteAudit(c)
    BY <2>20 DEF WriteAudit
  <2>21. CASE AuditFails(c)
    BY <2>21 DEF AuditFails
  <2> QED
    BY <1>1, <2>1, <2>2, <2>3, <2>4, <2>5, <2>6, <2>7, <2>8, <2>9, <2>10, <2>11, <2>12, <2>13,
       <2>14, <2>15, <2>16, <2>17, <2>18, <2>19, <2>20, <2>21 DEF Serve
<1>2. ASSUME NEW c \in Calls, NEW r \in Arriving, Receive(c, r) PROVE AsksWithoutAnswer'
  BY <1>2 DEF Receive
<1>3. ASSUME NEW c \in Calls, NEW a \in Answers, Elicit(c, a) PROVE AsksWithoutAnswer'
  BY <1>3 DEF Elicit, Answering, Answers
<1>4. CASE Tick
  BY <1>4 DEF Tick
<1>5. CASE Push
  BY <1>5 DEF Push
<1>6. CASE Restart
  BY <1>6 DEF Restart
<1>7. CASE UNCHANGED vars
  BY <1>7 DEF vars
<1> QED
  BY <1>1, <1>2, <1>3, <1>4, <1>5, <1>6, <1>7 DEF Next, Terminated

LEMMA OpenedBeforeStep == IInv /\ [Next]_vars => OpenedBefore'
<1> SUFFICES ASSUME IInv, [Next]_vars PROVE OpenedBefore'
  OBVIOUS
<1> USE DEF IInv, TypeOK, OpenedBefore, Live, Verifies
<1>1. ASSUME NEW c \in Calls, Serve(c) PROVE OpenedBefore'
  <2>1. CASE TurnDown(c)
    BY <2>1 DEF TurnDown
  <2>2. CASE RunUnasked(c)
    BY <2>2 DEF RunUnasked
  <2>3. CASE CannotAsk(c)
    BY <2>3 DEF CannotAsk, MustAsk
  <2>4. CASE AnswerWithoutQuestion(c)
    BY <2>4 DEF AnswerWithoutQuestion, MustAsk
  <2>5. CASE StartAsking(c)
    BY <2>5 DEF StartAsking, MustAsk
  <2>6. CASE ReadPullRequest(c)
    BY <2>6 DEF ReadPullRequest
  <2>7. CASE DescribeFromArguments(c)
    BY <2>7 DEF DescribeFromArguments
  <2>8. CASE AskFails(c)
    BY <2>8 DEF AskFails
  <2>9. CASE Seal(c)
    BY <2>9, Kept DEF Seal
  <2>10. CASE OpenRefused(c)
    BY <2>10 DEF OpenRefused, MustAsk
  <2>11. CASE OpenUnanswered(c)
    BY <2>11, SealedType DEF OpenUnanswered, Open, Opens, Expired, NotSealed,
       ConsumedAfterOpening, Consumed, MustAsk
  <2>12. CASE OpenMalformed(c)
    BY <2>12, SealedType DEF OpenMalformed, Open, Opens, Expired, NotSealed,
       ConsumedAfterOpening, Consumed, MustAsk
  <2>13. CASE OpenAnswered(c)
    BY <2>13, SealedType DEF OpenAnswered, Open, Opens, Expired, NotSealed,
       ConsumedAfterOpening, Consumed, MustAsk
  <2>14. CASE ConsumeRefused(c)
    BY <2>14 DEF ConsumeRefused
  <2>15. CASE ConsumeNo(c)
    BY <2>15 DEF ConsumeNo, Consume
  <2>16. CASE ConsumeTooLate(c)
    BY <2>16 DEF ConsumeTooLate, Consume
  <2>17. CASE ConsumeYes(c)
    BY <2>17 DEF ConsumeYes, Consume
  <2>18. CASE RunHandler(c)
    BY <2>18 DEF RunHandler
  <2>19. CASE HandlerFails(c)
    BY <2>19 DEF HandlerFails
  <2>20. CASE WriteAudit(c)
    BY <2>20 DEF WriteAudit
  <2>21. CASE AuditFails(c)
    BY <2>21 DEF AuditFails
  <2> QED
    BY <1>1, <2>1, <2>2, <2>3, <2>4, <2>5, <2>6, <2>7, <2>8, <2>9, <2>10, <2>11, <2>12, <2>13,
       <2>14, <2>15, <2>16, <2>17, <2>18, <2>19, <2>20, <2>21 DEF Serve
<1>2. ASSUME NEW c \in Calls, NEW r \in Arriving, Receive(c, r) PROVE OpenedBefore'
  BY <1>2 DEF Receive
<1>3. ASSUME NEW c \in Calls, NEW a \in Answers, Elicit(c, a) PROVE OpenedBefore'
  BY <1>3, StatesAssumption DEF Elicit, AsksWithoutAnswer, Answering
<1>4. CASE Tick
  BY <1>4 DEF Tick
<1>5. CASE Push
  BY <1>5 DEF Push
<1>6. CASE Restart
  BY <1>6 DEF Restart
<1>7. CASE UNCHANGED vars
  BY <1>7 DEF vars
<1> QED
  BY <1>1, <1>2, <1>3, <1>4, <1>5, <1>6, <1>7 DEF Next, Terminated

LEMMA ConsumedAfterOpeningStep == IInv /\ [Next]_vars => ConsumedAfterOpening'
<1> SUFFICES ASSUME IInv, [Next]_vars PROVE ConsumedAfterOpening'
  OBVIOUS
<1> USE DEF IInv, TypeOK, ConsumedAfterOpening, Consumed
<1>1. ASSUME NEW c \in Calls, Serve(c) PROVE ConsumedAfterOpening'
  <2>1. CASE TurnDown(c)
    BY <2>1 DEF TurnDown
  <2>2. CASE RunUnasked(c)
    BY <2>2 DEF RunUnasked
  <2>3. CASE CannotAsk(c)
    BY <2>3 DEF CannotAsk, MustAsk
  <2>4. CASE AnswerWithoutQuestion(c)
    BY <2>4 DEF AnswerWithoutQuestion, MustAsk
  <2>5. CASE StartAsking(c)
    BY <2>5 DEF StartAsking, MustAsk
  <2>6. CASE ReadPullRequest(c)
    BY <2>6 DEF ReadPullRequest
  <2>7. CASE DescribeFromArguments(c)
    BY <2>7 DEF DescribeFromArguments
  <2>8. CASE AskFails(c)
    BY <2>8 DEF AskFails
  <2>9. CASE Seal(c)
    BY <2>9, Kept DEF Seal
  <2>10. CASE OpenRefused(c)
    BY <2>10 DEF OpenRefused, MustAsk
  <2>11. CASE OpenUnanswered(c)
    BY <2>11 DEF OpenUnanswered, MustAsk, Open
  <2>12. CASE OpenMalformed(c)
    BY <2>12 DEF OpenMalformed, MustAsk, Open
  <2>13. CASE OpenAnswered(c)
    BY <2>13 DEF OpenAnswered, MustAsk, Open
  <2>14. CASE ConsumeRefused(c)
    BY <2>14 DEF ConsumeRefused
  <2>15. CASE ConsumeNo(c)
    BY <2>15, SealedType DEF ConsumeNo, Consume, OpenedBefore, Live, Verifies
  <2>16. CASE ConsumeTooLate(c)
    BY <2>16, SealedType DEF ConsumeTooLate, Consume, OpenedBefore, Live, Verifies
  <2>17. CASE ConsumeYes(c)
    BY <2>17, SealedType DEF ConsumeYes, Consume, OpenedBefore, Live, Verifies
  <2>18. CASE RunHandler(c)
    BY <2>18 DEF RunHandler
  <2>19. CASE HandlerFails(c)
    BY <2>19 DEF HandlerFails
  <2>20. CASE WriteAudit(c)
    BY <2>20 DEF WriteAudit
  <2>21. CASE AuditFails(c)
    BY <2>21 DEF AuditFails
  <2> QED
    BY <1>1, <2>1, <2>2, <2>3, <2>4, <2>5, <2>6, <2>7, <2>8, <2>9, <2>10, <2>11, <2>12, <2>13,
       <2>14, <2>15, <2>16, <2>17, <2>18, <2>19, <2>20, <2>21 DEF Serve
<1>2. ASSUME NEW c \in Calls, NEW r \in Arriving, Receive(c, r) PROVE ConsumedAfterOpening'
  BY <1>2 DEF Receive
<1>3. ASSUME NEW c \in Calls, NEW a \in Answers, Elicit(c, a) PROVE ConsumedAfterOpening'
  BY <1>3 DEF Elicit, Answering, Answers
<1>4. CASE Tick
  BY <1>4 DEF Tick
<1>5. CASE Push
  BY <1>5 DEF Push
<1>6. CASE Restart
  BY <1>6 DEF Restart
<1>7. CASE UNCHANGED vars
  BY <1>7 DEF vars
<1> QED
  BY <1>1, <1>2, <1>3, <1>4, <1>5, <1>6, <1>7 DEF Next, Terminated

LEMMA RememberedWhileAliveStep == IInv /\ [Next]_vars => RememberedWhileAlive'
<1> SUFFICES ASSUME IInv, [Next]_vars PROVE RememberedWhileAlive'
  OBVIOUS
<1> USE DEF IInv, TypeOK, RememberedWhileAlive, Consumed, Expired
<1>1. ASSUME NEW c \in Calls, Serve(c) PROVE RememberedWhileAlive'
  <2>1. CASE TurnDown(c)
    BY <2>1 DEF TurnDown
  <2>2. CASE RunUnasked(c)
    BY <2>2 DEF RunUnasked
  <2>3. CASE CannotAsk(c)
    BY <2>3 DEF CannotAsk, MustAsk
  <2>4. CASE AnswerWithoutQuestion(c)
    BY <2>4 DEF AnswerWithoutQuestion, MustAsk
  <2>5. CASE StartAsking(c)
    BY <2>5 DEF StartAsking, MustAsk
  <2>6. CASE ReadPullRequest(c)
    BY <2>6 DEF ReadPullRequest
  <2>7. CASE DescribeFromArguments(c)
    BY <2>7 DEF DescribeFromArguments
  <2>8. CASE AskFails(c)
    BY <2>8 DEF AskFails
  <2>9. CASE Seal(c)
    BY <2>9, Kept DEF Seal, Expiry, OpenedBefore, ConsumedAfterOpening, Verifies, Live
  <2>10. CASE OpenRefused(c)
    BY <2>10 DEF OpenRefused, MustAsk
  <2>11. CASE OpenUnanswered(c)
    BY <2>11 DEF OpenUnanswered, MustAsk, Open
  <2>12. CASE OpenMalformed(c)
    BY <2>12 DEF OpenMalformed, MustAsk, Open
  <2>13. CASE OpenAnswered(c)
    BY <2>13 DEF OpenAnswered, MustAsk, Open
  <2>14. CASE ConsumeRefused(c)
    BY <2>14, SealedType DEF ConsumeRefused, Remembered, ConsumedAfterOpening, OpenedBefore
  <2>15. CASE ConsumeNo(c)
    BY <2>15 DEF ConsumeNo, Consume, Remembered, ConsumedAfterOpening, OpenedBefore, Verifies
  <2>16. CASE ConsumeTooLate(c)
    BY <2>16 DEF ConsumeTooLate, Consume, Remembered, ConsumedAfterOpening, OpenedBefore, Verifies
  <2>17. CASE ConsumeYes(c)
    BY <2>17 DEF ConsumeYes, Consume, Remembered, ConsumedAfterOpening, OpenedBefore, Verifies
  <2>18. CASE RunHandler(c)
    BY <2>18 DEF RunHandler
  <2>19. CASE HandlerFails(c)
    BY <2>19 DEF HandlerFails
  <2>20. CASE WriteAudit(c)
    BY <2>20 DEF WriteAudit
  <2>21. CASE AuditFails(c)
    BY <2>21 DEF AuditFails
  <2> QED
    BY <1>1, <2>1, <2>2, <2>3, <2>4, <2>5, <2>6, <2>7, <2>8, <2>9, <2>10, <2>11, <2>12, <2>13,
       <2>14, <2>15, <2>16, <2>17, <2>18, <2>19, <2>20, <2>21 DEF Serve
<1>2. ASSUME NEW c \in Calls, NEW r \in Arriving, Receive(c, r) PROVE RememberedWhileAlive'
  BY <1>2 DEF Receive, ConsumedAfterOpening
<1>3. ASSUME NEW c \in Calls, NEW a \in Answers, Elicit(c, a) PROVE RememberedWhileAlive'
  BY <1>3 DEF Elicit, ConsumedAfterOpening
<1>4. CASE Tick
  BY <1>4, SealedType DEF Tick, ConsumedAfterOpening, OpenedBefore, Live
<1>5. CASE Push
  BY <1>5 DEF Push
<1>6. CASE Restart
  BY <1>6, SealedType DEF Restart, ConsumedAfterOpening, OpenedBefore, Live
<1>7. CASE UNCHANGED vars
  BY <1>7 DEF vars
<1> QED
  BY <1>1, <1>2, <1>3, <1>4, <1>5, <1>6, <1>7 DEF Next, Terminated

LEMMA OpenedBeforeConsumedStep == IInv /\ [Next]_vars => OpenedBeforeConsumed'
<1> SUFFICES ASSUME IInv, [Next]_vars PROVE OpenedBeforeConsumed'
  OBVIOUS
<1> USE DEF IInv, TypeOK, OpenedBeforeConsumed, Consumed
<1>1. ASSUME NEW c \in Calls, Serve(c) PROVE OpenedBeforeConsumed'
  <2>1. CASE TurnDown(c)
    BY <2>1 DEF TurnDown
  <2>2. CASE RunUnasked(c)
    BY <2>2 DEF RunUnasked
  <2>3. CASE CannotAsk(c)
    BY <2>3 DEF CannotAsk, MustAsk
  <2>4. CASE AnswerWithoutQuestion(c)
    BY <2>4 DEF AnswerWithoutQuestion, MustAsk
  <2>5. CASE StartAsking(c)
    BY <2>5 DEF StartAsking, MustAsk
  <2>6. CASE ReadPullRequest(c)
    BY <2>6 DEF ReadPullRequest
  <2>7. CASE DescribeFromArguments(c)
    BY <2>7 DEF DescribeFromArguments
  <2>8. CASE AskFails(c)
    BY <2>8 DEF AskFails
  <2>9. CASE Seal(c)
    BY <2>9, Kept DEF Seal
  <2>10. CASE OpenRefused(c)
    BY <2>10 DEF OpenRefused, MustAsk
  <2>11. CASE OpenUnanswered(c)
    BY <2>11, SealedType DEF OpenUnanswered, Open, Opens, Verifies, Expired, OpenedBefore,
       RememberedWhileAlive, MustAsk
  <2>12. CASE OpenMalformed(c)
    BY <2>12, SealedType DEF OpenMalformed, Open, Opens, Verifies, Expired, OpenedBefore,
       RememberedWhileAlive, MustAsk
  <2>13. CASE OpenAnswered(c)
    BY <2>13, SealedType DEF OpenAnswered, Open, Opens, Verifies, Expired, OpenedBefore,
       RememberedWhileAlive, MustAsk
  <2>14. CASE ConsumeRefused(c)
    BY <2>14 DEF ConsumeRefused
  <2>15. CASE ConsumeNo(c)
    BY <2>15 DEF ConsumeNo, Consume, OpenedBefore
  <2>16. CASE ConsumeTooLate(c)
    BY <2>16 DEF ConsumeTooLate, Consume, OpenedBefore
  <2>17. CASE ConsumeYes(c)
    BY <2>17 DEF ConsumeYes, Consume, OpenedBefore
  <2>18. CASE RunHandler(c)
    BY <2>18 DEF RunHandler
  <2>19. CASE HandlerFails(c)
    BY <2>19 DEF HandlerFails
  <2>20. CASE WriteAudit(c)
    BY <2>20 DEF WriteAudit
  <2>21. CASE AuditFails(c)
    BY <2>21 DEF AuditFails
  <2> QED
    BY <1>1, <2>1, <2>2, <2>3, <2>4, <2>5, <2>6, <2>7, <2>8, <2>9, <2>10, <2>11, <2>12, <2>13,
       <2>14, <2>15, <2>16, <2>17, <2>18, <2>19, <2>20, <2>21 DEF Serve
<1>2. ASSUME NEW c \in Calls, NEW r \in Arriving, Receive(c, r) PROVE OpenedBeforeConsumed'
  BY <1>2 DEF Receive, OpenedBefore, ConsumedAfterOpening
<1>3. ASSUME NEW c \in Calls, NEW a \in Answers, Elicit(c, a) PROVE OpenedBeforeConsumed'
  BY <1>3, StatesAssumption DEF Elicit, OpenedBefore, ConsumedAfterOpening, AsksWithoutAnswer,
     Answering, Live
<1>4. CASE Tick
  BY <1>4 DEF Tick
<1>5. CASE Push
  BY <1>5 DEF Push
<1>6. CASE Restart
  BY <1>6 DEF Restart
<1>7. CASE UNCHANGED vars
  BY <1>7 DEF vars
<1> QED
  BY <1>1, <1>2, <1>3, <1>4, <1>5, <1>6, <1>7 DEF Next, Terminated

LEMMA AnsweredOnceOnTimeStep == IInv /\ [Next]_vars => AnsweredOnceOnTime'
<1> SUFFICES ASSUME IInv, [Next]_vars PROVE AnsweredOnceOnTime'
  OBVIOUS
<1> USE DEF IInv, TypeOK, AnsweredOnceOnTime, Consumed
<1>1. ASSUME NEW c \in Calls, Serve(c) PROVE AnsweredOnceOnTime'
  <2>1. CASE TurnDown(c)
    BY <2>1 DEF TurnDown
  <2>2. CASE RunUnasked(c)
    BY <2>2 DEF RunUnasked
  <2>3. CASE CannotAsk(c)
    BY <2>3 DEF CannotAsk, MustAsk
  <2>4. CASE AnswerWithoutQuestion(c)
    BY <2>4 DEF AnswerWithoutQuestion, MustAsk
  <2>5. CASE StartAsking(c)
    BY <2>5 DEF StartAsking, MustAsk
  <2>6. CASE ReadPullRequest(c)
    BY <2>6 DEF ReadPullRequest
  <2>7. CASE DescribeFromArguments(c)
    BY <2>7 DEF DescribeFromArguments
  <2>8. CASE AskFails(c)
    BY <2>8 DEF AskFails
  <2>9. CASE Seal(c)
    BY <2>9, Kept DEF Seal, OpenedBefore, ConsumedAfterOpening
  <2>10. CASE OpenRefused(c)
    BY <2>10 DEF OpenRefused, MustAsk
  <2>11. CASE OpenUnanswered(c)
    BY <2>11 DEF OpenUnanswered, MustAsk, Open
  <2>12. CASE OpenMalformed(c)
    BY <2>12 DEF OpenMalformed, MustAsk, Open
  <2>13. CASE OpenAnswered(c)
    BY <2>13 DEF OpenAnswered, MustAsk, Open
  <2>14. CASE ConsumeRefused(c)
    BY <2>14 DEF ConsumeRefused
  <2>15. CASE ConsumeNo(c)
    BY <2>15, SealedType DEF ConsumeNo, Consume, Remembered, Expired, OpenedBefore,
       RememberedWhileAlive, Verifies
  <2>16. CASE ConsumeTooLate(c)
    BY <2>16, SealedType DEF ConsumeTooLate, Consume, Remembered, Expired, OpenedBefore,
       RememberedWhileAlive, Verifies
  <2>17. CASE ConsumeYes(c)
    BY <2>17, SealedType DEF ConsumeYes, Consume, Remembered, Expired, OpenedBefore,
       RememberedWhileAlive, Verifies
  <2>18. CASE RunHandler(c)
    BY <2>18 DEF RunHandler
  <2>19. CASE HandlerFails(c)
    BY <2>19 DEF HandlerFails
  <2>20. CASE WriteAudit(c)
    BY <2>20 DEF WriteAudit
  <2>21. CASE AuditFails(c)
    BY <2>21 DEF AuditFails
  <2> QED
    BY <1>1, <2>1, <2>2, <2>3, <2>4, <2>5, <2>6, <2>7, <2>8, <2>9, <2>10, <2>11, <2>12, <2>13,
       <2>14, <2>15, <2>16, <2>17, <2>18, <2>19, <2>20, <2>21 DEF Serve
<1>2. ASSUME NEW c \in Calls, NEW r \in Arriving, Receive(c, r) PROVE AnsweredOnceOnTime'
  BY <1>2 DEF Receive, ConsumedAfterOpening
<1>3. ASSUME NEW c \in Calls, NEW a \in Answers, Elicit(c, a) PROVE AnsweredOnceOnTime'
  BY <1>3 DEF Elicit, ConsumedAfterOpening
<1>4. CASE Tick
  BY <1>4 DEF Tick
<1>5. CASE Push
  BY <1>5 DEF Push
<1>6. CASE Restart
  BY <1>6 DEF Restart
<1>7. CASE UNCHANGED vars
  BY <1>7 DEF vars
<1> QED
  BY <1>1, <1>2, <1>3, <1>4, <1>5, <1>6, <1>7 DEF Next, Terminated

-----------------------------------------------------------------------------
(* The theorems *)

LEMMA InvInit == Init => IInv
<1> SUFFICES ASSUME Init PROVE IInv
  OBVIOUS
<1>1. TypeOK
  BY TypeInit
<1>2. SealsOnce /\ AsksWithoutAnswer /\ OpenedBefore /\ ConsumedAfterOpening
  BY DEF Init, SealsOnce, AsksWithoutAnswer, OpenedBefore, ConsumedAfterOpening, Consumed, Live
<1>3. RememberedWhileAlive /\ OpenedBeforeConsumed /\ AnsweredOnceOnTime
  BY DEF Init, RememberedWhileAlive, OpenedBeforeConsumed, AnsweredOnceOnTime, Consumed, NotSealed
<1> QED
  BY <1>1, <1>2, <1>3 DEF IInv

LEMMA InvStep == IInv /\ [Next]_vars => IInv'
  BY TypeStep, SealsOnceStep, AsksWithoutAnswerStep, OpenedBeforeStep,
     ConsumedAfterOpeningStep, RememberedWhileAliveStep, OpenedBeforeConsumedStep,
     AnsweredOnceOnTimeStep DEF IInv

THEOREM Invariance == Spec => []IInv
  BY InvInit, InvStep, PTL DEF Spec

(* Every reachable state is well typed (confirm.go, middleware.go). *)
THEOREM TypeCorrect == Spec => []TypeOK
<1>1. IInv => TypeOK
  BY DEF IInv
<1> QED
  BY <1>1, Invariance, PTL

(* Within its lifetime a question is answered at most once (confirm.go      *)
(* open and consume), for any number of concurrent calls.                   *)
THEOREM AnsweredOnce == Spec => []AnsweredOnceOnTime
<1>1. IInv => AnsweredOnceOnTime
  BY DEF IInv
<1> QED
  BY <1>1, Invariance, PTL

(* The only second run there can be is of a call that was in flight, opened *)
(* on time, when the first consumed the state, and consumed it too late     *)
(* (confirm.go 352-404).                                                    *)
THEOREM RerunOnlyInFlight == Spec => []RerunWasInFlight
<1>1. ASSUME IInv PROVE RerunWasInFlight
  <2> SUFFICES ASSUME NEW c \in Calls, NEW d \in Calls, c # d, Consumed(c), Consumed(d),
                      req[c].state = req[d].state, ran[d], consumedAt[c] <= consumedAt[d]
               PROVE  /\ openedAt[d] <= sealed[req[d].state].expires
                      /\ openedAt[d] <= consumedAt[c]
                      /\ sealed[req[d].state].expires < consumedAt[d]
    BY DEF RerunWasInFlight
  <2> DEFINE expires == sealed[req[d].state].expires
  <2>1. openedAt[d] # Never /\ openedAt[d] <= expires
    BY <1>1 DEF IInv, ConsumedAfterOpening
  <2>2. expires \in Int /\ consumedAt[c] \in Int /\ consumedAt[d] \in Int
    BY <1>1, <2>1, SealedType DEF IInv, TypeOK, OpenedBefore
  <2>3. openedAt[d] <= consumedAt[c]
    BY <1>1, <2>1 DEF IInv, OpenedBeforeConsumed
  <2>4. ~(consumedAt[d] <= expires)
    BY <1>1, <2>2 DEF IInv, AnsweredOnceOnTime
  <2> QED
    BY <2>1, <2>2, <2>3, <2>4
<1> QED
  BY <1>1, Invariance, PTL

-----------------------------------------------------------------------------
(* What a call does, says and leaves on record. *)

(* Until it is answered, run or turned down, a call has done nothing.      *)
Undecided ==
  \A c \in Calls :
    pc[c] \in {"idle", "confirm", "ask", "seal", "elicit", "consume"} =>
      /\ outcome[c] = "none" /\ ~refused[c] /\ ~ran[c]
      /\ result[c] = "none" /\ merged[c] = NoVersion

(* The recorder and the handler agree: what ran was not denied, what was    *)
(* accepted ran, and what succeeded ran.                                   *)
Decided ==
  \A c \in Calls :
    /\ pc[c] = "run" =>
         ~ran[c] /\ result[c] = "none" /\ ~Denied(c) /\ merged[c] = NoVersion
    /\ ran[c] => ~Denied(c) /\ result[c] \in {"ok", "error"}
    /\ result[c] = "ok" => ran[c]
    /\ outcome[c] = "accepted" => pc[c] \in {"run", "lost"} \/ ran[c]
    /\ pc[c] \in {"write", "done"} => result[c] # "none"

(* What was written and what was sent is of the call as it ended.          *)
Recorded ==
  \A c \in Calls :
    /\ record[c] # NoRecord => pc[c] = "done" /\ record[c] = AuditRecord(c)
    /\ reply[c] # "none" =>
         /\ pc[c] = "done"
         /\ reply[c] # "unaudited" => reply[c] = result[c]
         /\ AuditFailure = "deny" /\ reply[c] # "unaudited" => record[c] = AuditRecord(c)

(* The state a call opened is of the same tool and input, and what runs     *)
(* after a question runs on a yes.                                         *)
AskedFor ==
  \A c \in Calls :
    /\ openedAt[c] # Never => SameCall(c, req[c].state)
    /\ pc[c] = "consume" => req[c].request \notin Unasked
    /\ (pc[c] = "run" \/ ran[c]) /\ req[c].request \notin Unasked =>
         req[c].answer = "accept" /\ Consumed(c) /\ outcome[c] = "accepted"

(* A sealed pin is the version the person was shown, which is the model's   *)
(* own when it named one, and the call that runs holds to it.              *)
PinsShown ==
  \A c \in Calls :
    /\ pc[c] = "seal" /\ Tool(c) \in PinTools =>
         pin[c] # NoVersion /\ req[c].request.version \in {NoVersion, pin[c]}
    /\ sealed[c] # NotSealed =>
         /\ Live(c) /\ SameCall(c, c)
         /\ Tool(c) \in PinTools =>
              /\ sealed[c].pin # NoVersion
              /\ req[c].request.version \in {NoVersion, sealed[c].pin}
    /\ pc[c] = "consume" => pin[c] = sealed[req[c].state].pin
    /\ pc[c] = "run" /\ Tool(c) \in PinTools =>
         openedAt[c] # Never /\ pin[c] = sealed[req[c].state].pin
    /\ merged[c] # NoVersion =>
         openedAt[c] # Never /\ merged[c] = sealed[req[c].state].pin

Governed == Undecided /\ Decided /\ Recorded /\ AskedFor /\ PinsShown

(* What a call carries stays, but for the answer put to it when asked.     *)
LEMMA SameRequest ==
  ASSUME [Next]_vars, NEW d \in Calls, Live(d)
  PROVE  req'[d].request = req[d].request
<1>1. ASSUME NEW c \in Calls, Serve(c) PROVE req' = req
  BY <1>1 DEF Serve, TurnDown, RunUnasked, CannotAsk, AnswerWithoutQuestion, StartAsking,
     ReadPullRequest, DescribeFromArguments, AskFails, Seal, OpenRefused, OpenUnanswered,
     OpenMalformed, OpenAnswered, ConsumeRefused, ConsumeNo, ConsumeTooLate, ConsumeYes,
     RunHandler, HandlerFails, WriteAudit, AuditFails, Open, Consume
<1>2. ASSUME NEW c \in Calls, NEW r \in Arriving, Receive(c, r) PROVE req'[d] = req[d]
  BY <1>2 DEF Receive, Live
<1>3. ASSUME NEW c \in Calls, NEW a \in Answers, Elicit(c, a)
      PROVE  req'[d].request = req[d].request
  BY <1>3 DEF Elicit, Answering
<1>4. CASE Tick \/ Push \/ Restart \/ UNCHANGED vars
  BY <1>4 DEF Tick, Push, Restart, vars
<1> QED
  BY <1>1, <1>2, <1>3, <1>4 DEF Next, Terminated

LEMMA UndecidedStep == IInv /\ Governed /\ [Next]_vars => Undecided'
<1> SUFFICES ASSUME IInv, Governed, [Next]_vars PROVE Undecided'
  OBVIOUS
<1> USE DEF IInv, Governed, TypeOK, Undecided
<1>1. ASSUME NEW c \in Calls, Serve(c) PROVE Undecided'
  <2>1. CASE TurnDown(c)
    BY <2>1 DEF TurnDown
  <2>2. CASE RunUnasked(c)
    BY <2>2 DEF RunUnasked
  <2>3. CASE CannotAsk(c)
    BY <2>3 DEF CannotAsk, MustAsk
  <2>4. CASE AnswerWithoutQuestion(c)
    BY <2>4 DEF AnswerWithoutQuestion, MustAsk
  <2>5. CASE StartAsking(c)
    BY <2>5 DEF StartAsking, MustAsk
  <2>6. CASE ReadPullRequest(c)
    BY <2>6 DEF ReadPullRequest
  <2>7. CASE DescribeFromArguments(c)
    BY <2>7 DEF DescribeFromArguments
  <2>8. CASE AskFails(c)
    BY <2>8 DEF AskFails
  <2>9. CASE Seal(c)
    BY <2>9 DEF Seal
  <2>10. CASE OpenRefused(c)
    BY <2>10 DEF OpenRefused, MustAsk
  <2>11. CASE OpenUnanswered(c)
    BY <2>11 DEF OpenUnanswered, MustAsk, Open
  <2>12. CASE OpenMalformed(c)
    BY <2>12 DEF OpenMalformed, MustAsk, Open
  <2>13. CASE OpenAnswered(c)
    BY <2>13 DEF OpenAnswered, MustAsk, Open
  <2>14. CASE ConsumeRefused(c)
    BY <2>14 DEF ConsumeRefused
  <2>15. CASE ConsumeNo(c)
    BY <2>15 DEF ConsumeNo, Consume
  <2>16. CASE ConsumeTooLate(c)
    BY <2>16 DEF ConsumeTooLate, Consume
  <2>17. CASE ConsumeYes(c)
    BY <2>17 DEF ConsumeYes, Consume
  <2>18. CASE RunHandler(c)
    BY <2>18 DEF RunHandler
  <2>19. CASE HandlerFails(c)
    BY <2>19 DEF HandlerFails
  <2>20. CASE WriteAudit(c)
    BY <2>20 DEF WriteAudit
  <2>21. CASE AuditFails(c)
    BY <2>21 DEF AuditFails
  <2> QED
    BY <1>1, <2>1, <2>2, <2>3, <2>4, <2>5, <2>6, <2>7, <2>8, <2>9, <2>10, <2>11, <2>12, <2>13,
       <2>14, <2>15, <2>16, <2>17, <2>18, <2>19, <2>20, <2>21 DEF Serve
<1>2. ASSUME NEW c \in Calls, NEW r \in Arriving, Receive(c, r) PROVE Undecided'
  BY <1>2 DEF Receive
<1>3. ASSUME NEW c \in Calls, NEW a \in Answers, Elicit(c, a) PROVE Undecided'
  BY <1>3 DEF Elicit, Answering
<1>4. CASE Tick
  BY <1>4 DEF Tick
<1>5. CASE Push
  BY <1>5 DEF Push
<1>6. CASE Restart
  BY <1>6 DEF Restart
<1>7. CASE UNCHANGED vars
  BY <1>7 DEF vars
<1> QED
  BY <1>1, <1>2, <1>3, <1>4, <1>5, <1>6, <1>7 DEF Next, Terminated

LEMMA DecidedStep == IInv /\ Governed /\ [Next]_vars => Decided'
<1> SUFFICES ASSUME IInv, Governed, [Next]_vars PROVE Decided'
  OBVIOUS
<1> USE DEF IInv, Governed, TypeOK, Decided, Denied, Undecided, Outcomes
<1>1. ASSUME NEW c \in Calls, Serve(c) PROVE Decided'
  <2>1. CASE TurnDown(c)
    BY <2>1 DEF TurnDown
  <2>2. CASE RunUnasked(c)
    BY <2>2 DEF RunUnasked
  <2>3. CASE CannotAsk(c)
    BY <2>3 DEF CannotAsk, MustAsk
  <2>4. CASE AnswerWithoutQuestion(c)
    BY <2>4 DEF AnswerWithoutQuestion, MustAsk
  <2>5. CASE StartAsking(c)
    BY <2>5 DEF StartAsking, MustAsk
  <2>6. CASE ReadPullRequest(c)
    BY <2>6 DEF ReadPullRequest
  <2>7. CASE DescribeFromArguments(c)
    BY <2>7 DEF DescribeFromArguments
  <2>8. CASE AskFails(c)
    BY <2>8 DEF AskFails
  <2>9. CASE Seal(c)
    BY <2>9 DEF Seal
  <2>10. CASE OpenRefused(c)
    BY <2>10 DEF OpenRefused, MustAsk
  <2>11. CASE OpenUnanswered(c)
    BY <2>11 DEF OpenUnanswered, MustAsk, Open
  <2>12. CASE OpenMalformed(c)
    BY <2>12 DEF OpenMalformed, MustAsk, Open
  <2>13. CASE OpenAnswered(c)
    BY <2>13 DEF OpenAnswered, MustAsk, Open
  <2>14. CASE ConsumeRefused(c)
    BY <2>14 DEF ConsumeRefused
  <2>15. CASE ConsumeNo(c)
    BY <2>15 DEF ConsumeNo, Consume
  <2>16. CASE ConsumeTooLate(c)
    BY <2>16 DEF ConsumeTooLate, Consume
  <2>17. CASE ConsumeYes(c)
    BY <2>17 DEF ConsumeYes, Consume
  <2>18. CASE RunHandler(c)
    BY <2>18 DEF RunHandler
  <2>19. CASE HandlerFails(c)
    BY <2>19 DEF HandlerFails
  <2>20. CASE WriteAudit(c)
    BY <2>20 DEF WriteAudit
  <2>21. CASE AuditFails(c)
    BY <2>21 DEF AuditFails
  <2> QED
    BY <1>1, <2>1, <2>2, <2>3, <2>4, <2>5, <2>6, <2>7, <2>8, <2>9, <2>10, <2>11, <2>12, <2>13,
       <2>14, <2>15, <2>16, <2>17, <2>18, <2>19, <2>20, <2>21 DEF Serve
<1>2. ASSUME NEW c \in Calls, NEW r \in Arriving, Receive(c, r) PROVE Decided'
  BY <1>2 DEF Receive
<1>3. ASSUME NEW c \in Calls, NEW a \in Answers, Elicit(c, a) PROVE Decided'
  BY <1>3 DEF Elicit, Answering
<1>4. CASE Tick
  BY <1>4 DEF Tick
<1>5. CASE Push
  BY <1>5 DEF Push
<1>6. CASE Restart
  BY <1>6 DEF Restart
<1>7. CASE UNCHANGED vars
  BY <1>7 DEF vars
<1> QED
  BY <1>1, <1>2, <1>3, <1>4, <1>5, <1>6, <1>7 DEF Next, Terminated

LEMMA RecordedStep == IInv /\ Governed /\ [Next]_vars => Recorded'
<1> SUFFICES ASSUME IInv, Governed, [Next]_vars PROVE Recorded'
  OBVIOUS
<1> USE DEF IInv, Governed, TypeOK, Recorded, AuditRecord, Denied, Undecided, NoRecord
<1>1. ASSUME NEW c \in Calls, Serve(c) PROVE Recorded'
  <2>1. CASE TurnDown(c)
    BY <2>1 DEF TurnDown
  <2>2. CASE RunUnasked(c)
    BY <2>2 DEF RunUnasked
  <2>3. CASE CannotAsk(c)
    BY <2>3 DEF CannotAsk, MustAsk
  <2>4. CASE AnswerWithoutQuestion(c)
    BY <2>4 DEF AnswerWithoutQuestion, MustAsk
  <2>5. CASE StartAsking(c)
    BY <2>5 DEF StartAsking, MustAsk
  <2>6. CASE ReadPullRequest(c)
    BY <2>6 DEF ReadPullRequest
  <2>7. CASE DescribeFromArguments(c)
    BY <2>7 DEF DescribeFromArguments
  <2>8. CASE AskFails(c)
    BY <2>8 DEF AskFails
  <2>9. CASE Seal(c)
    BY <2>9 DEF Seal
  <2>10. CASE OpenRefused(c)
    BY <2>10 DEF OpenRefused, MustAsk
  <2>11. CASE OpenUnanswered(c)
    BY <2>11 DEF OpenUnanswered, MustAsk, Open
  <2>12. CASE OpenMalformed(c)
    BY <2>12 DEF OpenMalformed, MustAsk, Open
  <2>13. CASE OpenAnswered(c)
    BY <2>13 DEF OpenAnswered, MustAsk, Open
  <2>14. CASE ConsumeRefused(c)
    BY <2>14 DEF ConsumeRefused
  <2>15. CASE ConsumeNo(c)
    BY <2>15 DEF ConsumeNo, Consume
  <2>16. CASE ConsumeTooLate(c)
    BY <2>16 DEF ConsumeTooLate, Consume
  <2>17. CASE ConsumeYes(c)
    BY <2>17 DEF ConsumeYes, Consume
  <2>18. CASE RunHandler(c)
    BY <2>18 DEF RunHandler
  <2>19. CASE HandlerFails(c)
    BY <2>19 DEF HandlerFails
  <2>20. CASE WriteAudit(c)
    BY <2>20 DEF WriteAudit
  <2>21. CASE AuditFails(c)
    BY <2>21 DEF AuditFails
  <2> QED
    BY <1>1, <2>1, <2>2, <2>3, <2>4, <2>5, <2>6, <2>7, <2>8, <2>9, <2>10, <2>11, <2>12, <2>13,
       <2>14, <2>15, <2>16, <2>17, <2>18, <2>19, <2>20, <2>21 DEF Serve
<1>2. ASSUME NEW c \in Calls, NEW r \in Arriving, Receive(c, r) PROVE Recorded'
  BY <1>2 DEF Receive
<1>3. ASSUME NEW c \in Calls, NEW a \in Answers, Elicit(c, a) PROVE Recorded'
  BY <1>3 DEF Elicit, Answering
<1>4. CASE Tick
  BY <1>4 DEF Tick
<1>5. CASE Push
  BY <1>5 DEF Push
<1>6. CASE Restart
  BY <1>6 DEF Restart
<1>7. CASE UNCHANGED vars
  BY <1>7 DEF vars
<1> QED
  BY <1>1, <1>2, <1>3, <1>4, <1>5, <1>6, <1>7 DEF Next, Terminated

LEMMA AskedForStep == IInv /\ Governed /\ [Next]_vars => AskedFor'
<1> SUFFICES ASSUME IInv, Governed, [Next]_vars PROVE AskedFor'
  OBVIOUS
<1> USE DEF IInv, Governed, TypeOK, AskedFor, Consumed, SameCall, Undecided
<1>1. ASSUME NEW c \in Calls, Serve(c) PROVE AskedFor'
  <2>1. CASE TurnDown(c)
    BY <2>1 DEF TurnDown
  <2>2. CASE RunUnasked(c)
    BY <2>2 DEF RunUnasked
  <2>3. CASE CannotAsk(c)
    BY <2>3 DEF CannotAsk, MustAsk
  <2>4. CASE AnswerWithoutQuestion(c)
    BY <2>4 DEF AnswerWithoutQuestion, MustAsk
  <2>5. CASE StartAsking(c)
    BY <2>5 DEF StartAsking, MustAsk
  <2>6. CASE ReadPullRequest(c)
    BY <2>6 DEF ReadPullRequest
  <2>7. CASE DescribeFromArguments(c)
    BY <2>7 DEF DescribeFromArguments
  <2>8. CASE AskFails(c)
    BY <2>8 DEF AskFails
  <2>9. CASE Seal(c)
    BY <2>9, Kept DEF Seal, OpenedBefore, Live
  <2>10. CASE OpenRefused(c)
    BY <2>10 DEF OpenRefused, MustAsk
  <2>11. CASE OpenUnanswered(c)
    BY <2>11 DEF OpenUnanswered, MustAsk, Open, Opens, Verifies
  <2>12. CASE OpenMalformed(c)
    BY <2>12 DEF OpenMalformed, MustAsk, Open, Opens, Verifies
  <2>13. CASE OpenAnswered(c)
    BY <2>13 DEF OpenAnswered, MustAsk, Open, Opens, Verifies
  <2>14. CASE ConsumeRefused(c)
    BY <2>14 DEF ConsumeRefused
  <2>15. CASE ConsumeNo(c)
    BY <2>15 DEF ConsumeNo, Consume
  <2>16. CASE ConsumeTooLate(c)
    BY <2>16 DEF ConsumeTooLate, Consume
  <2>17. CASE ConsumeYes(c)
    BY <2>17 DEF ConsumeYes, Consume
  <2>18. CASE RunHandler(c)
    BY <2>18 DEF RunHandler
  <2>19. CASE HandlerFails(c)
    BY <2>19 DEF HandlerFails
  <2>20. CASE WriteAudit(c)
    BY <2>20 DEF WriteAudit
  <2>21. CASE AuditFails(c)
    BY <2>21 DEF AuditFails
  <2> QED
    BY <1>1, <2>1, <2>2, <2>3, <2>4, <2>5, <2>6, <2>7, <2>8, <2>9, <2>10, <2>11, <2>12, <2>13,
       <2>14, <2>15, <2>16, <2>17, <2>18, <2>19, <2>20, <2>21 DEF Serve
<1>2. ASSUME NEW c \in Calls, NEW r \in Arriving, Receive(c, r) PROVE AskedFor'
  BY <1>2, Kept DEF Receive, OpenedBefore, ConsumedAfterOpening, Live
<1>3. ASSUME NEW c \in Calls, NEW a \in Answers, Elicit(c, a) PROVE AskedFor'
  BY <1>3, Kept DEF Elicit, Answering, OpenedBefore, Live, Answers
<1>4. CASE Tick
  BY <1>4 DEF Tick
<1>5. CASE Push
  BY <1>5 DEF Push
<1>6. CASE Restart
  BY <1>6 DEF Restart
<1>7. CASE UNCHANGED vars
  BY <1>7 DEF vars
<1> QED
  BY <1>1, <1>2, <1>3, <1>4, <1>5, <1>6, <1>7 DEF Next, Terminated

(* The version a call is held to is the one the person was shown.          *)
LEMMA ShownPin ==
  ASSUME IInv, Governed, NEW c \in Calls, openedAt[c] # Never, Tool(c) \in PinTools
  PROVE  /\ sealed[req[c].state].pin # NoVersion
         /\ HoldVersion(c) \in {pin[c], sealed[req[c].state].pin}
<1> DEFINE q == req[c].state
<1>1. q \in Calls /\ sealed[q] # NotSealed /\ SameCall(c, q) /\ Live(c)
  BY DEF IInv, Governed, OpenedBefore, AskedFor
<1>2. Live(q) /\ SameCall(q, q)
  BY <1>1 DEF Governed, PinsShown
<1>3. Tool(q) = Tool(c) /\ Input(q) = Input(c)
  BY <1>1, <1>2 DEF SameCall
<1>4. sealed[q].pin # NoVersion /\ req[q].request.version \in {NoVersion, sealed[q].pin}
  BY <1>1, <1>2, <1>3 DEF Governed, PinsShown
<1>5. req[q].request \in Requests /\ req[c].request \in Requests
  BY <1>1, <1>2 DEF IInv, TypeOK, Live, Carried
<1>6. req[q].request.version = req[c].request.version
  BY <1>3, <1>5, DigestAssumption
<1> QED
  BY <1>4, <1>6 DEF HoldVersion

LEMMA HeldToShown ==
  ASSUME IInv, Governed, NEW c \in Calls, pc[c] = "consume"
  PROVE  /\ Tool(c) \in PinTools => HoldVersion(c) = sealed[req[c].state].pin
         /\ Tool(c) \notin PinTools => HoldVersion(c) = pin[c]
<1>1. openedAt[c] # Never /\ pin[c] = sealed[req[c].state].pin
  BY DEF IInv, Governed, OpenedBefore, PinsShown
<1> QED
  BY <1>1, ShownPin DEF HoldVersion

LEMMA PinsShownStep == IInv /\ Governed /\ [Next]_vars => PinsShown'
<1> SUFFICES ASSUME IInv, Governed, [Next]_vars PROVE PinsShown'
  OBVIOUS
<1> USE DEF IInv, Governed, TypeOK, PinsShown, SameCall, Live, Undecided
<1>1. ASSUME NEW c \in Calls, Serve(c) PROVE PinsShown'
  <2>1. CASE TurnDown(c)
    BY <2>1 DEF TurnDown
  <2>2. CASE RunUnasked(c)
    BY <2>2, DigestAssumption DEF RunUnasked
  <2>3. CASE CannotAsk(c)
    BY <2>3 DEF CannotAsk, MustAsk
  <2>4. CASE AnswerWithoutQuestion(c)
    BY <2>4 DEF AnswerWithoutQuestion, MustAsk
  <2>5. CASE StartAsking(c)
    BY <2>5 DEF StartAsking, MustAsk
  <2>6. CASE ReadPullRequest(c)
    BY <2>6 DEF ReadPullRequest, Versions
  <2>7. CASE DescribeFromArguments(c)
    BY <2>7 DEF DescribeFromArguments
  <2>8. CASE AskFails(c)
    BY <2>8 DEF AskFails
  <2>9. CASE Seal(c)
    BY <2>9, Kept DEF Seal, OpenedBefore, SealsOnce
  <2>10. CASE OpenRefused(c)
    BY <2>10 DEF OpenRefused, MustAsk
  <2>11. CASE OpenUnanswered(c)
    BY <2>11 DEF OpenUnanswered, MustAsk, Open
  <2>12. CASE OpenMalformed(c)
    BY <2>12 DEF OpenMalformed, MustAsk, Open
  <2>13. CASE OpenAnswered(c)
    BY <2>13 DEF OpenAnswered, MustAsk, Open
  <2>14. CASE ConsumeRefused(c)
    BY <2>14 DEF ConsumeRefused
  <2>15. CASE ConsumeNo(c)
    BY <2>15 DEF ConsumeNo, Consume
  <2>16. CASE ConsumeTooLate(c)
    BY <2>16 DEF ConsumeTooLate, Consume
  <2>17. CASE ConsumeYes(c)
    BY <2>17, HeldToShown DEF ConsumeYes, Consume, OpenedBefore
  <2>18. CASE RunHandler(c)
    BY <2>18, ShownPin, CarriedType DEF RunHandler
  <2>19. CASE HandlerFails(c)
    BY <2>19 DEF HandlerFails
  <2>20. CASE WriteAudit(c)
    BY <2>20 DEF WriteAudit
  <2>21. CASE AuditFails(c)
    BY <2>21 DEF AuditFails
  <2> QED
    BY <1>1, <2>1, <2>2, <2>3, <2>4, <2>5, <2>6, <2>7, <2>8, <2>9, <2>10, <2>11, <2>12, <2>13,
       <2>14, <2>15, <2>16, <2>17, <2>18, <2>19, <2>20, <2>21 DEF Serve
<1>2. ASSUME NEW c \in Calls, NEW r \in Arriving, Receive(c, r) PROVE PinsShown'
  BY <1>2, Kept DEF Receive
<1>3. ASSUME NEW c \in Calls, NEW a \in Answers, Elicit(c, a) PROVE PinsShown'
  BY <1>3, Kept, SameRequest DEF Elicit, Answering
<1>4. CASE Tick
  BY <1>4 DEF Tick
<1>5. CASE Push
  BY <1>5 DEF Push
<1>6. CASE Restart
  BY <1>6 DEF Restart
<1>7. CASE UNCHANGED vars
  BY <1>7 DEF vars
<1> QED
  BY <1>1, <1>2, <1>3, <1>4, <1>5, <1>6, <1>7 DEF Next, Terminated

LEMMA GovernedInit == Init => Governed
  BY DEF Init, Governed, Undecided, Decided, Recorded, AskedFor, PinsShown, Denied, NoRecord, NotSealed

LEMMA GovernedStep == IInv /\ Governed /\ [Next]_vars => Governed'
  BY UndecidedStep, DecidedStep, RecordedStep, AskedForStep, PinsShownStep DEF Governed

THEOREM GovernedAlways == Spec => [](IInv /\ Governed)
  BY InvInit, InvStep, GovernedInit, GovernedStep, PTL DEF Spec

(* A tool that asks runs only in a call that carried a person's yes to a    *)
(* question about this tool and this input, opened on time, and it is on    *)
(* record as accepted (confirm.go 107-191).                                *)
THEOREM RunsWhatWasAsked == Spec => []RunsOnlyWhatWasAsked
<1>1. ASSUME IInv, Governed PROVE RunsOnlyWhatWasAsked
  <2> SUFFICES ASSUME NEW c \in Calls, ran[c], req[c].request \notin Unasked
               PROVE  /\ req[c].state \in Calls
                      /\ sealed[req[c].state].tool = Tool(c)
                      /\ sealed[req[c].state].input = Input(c)
                      /\ req[c].answer = "accept"
                      /\ openedAt[c] <= sealed[req[c].state].expires
                      /\ Consumed(c)
                      /\ record[c] # NoRecord => record[c].confirmation = "accepted"
    BY DEF RunsOnlyWhatWasAsked
  <2>1. req[c].answer = "accept" /\ Consumed(c) /\ outcome[c] = "accepted"
    BY <1>1 DEF Governed, AskedFor
  <2>2. openedAt[c] # Never /\ openedAt[c] <= sealed[req[c].state].expires
    BY <1>1, <2>1 DEF IInv, ConsumedAfterOpening
  <2>3. req[c].state \in Calls /\ SameCall(c, req[c].state)
    BY <1>1, <2>2 DEF IInv, OpenedBefore, Governed, AskedFor
  <2>4. result[c] \in {"ok", "error"}
    BY <1>1 DEF Governed, Decided
  <2>5. AuditRecord(c).confirmation = "accepted"
    BY <2>1, <2>4 DEF AuditRecord
  <2>6. record[c] # NoRecord => record[c].confirmation = "accepted"
    BY <1>1, <2>5 DEF Governed, Recorded
  <2> QED
    BY <2>1, <2>2, <2>3, <2>6 DEF SameCall
<1> QED
  BY <1>1, GovernedAlways, PTL

(* A merge goes through only at the version the person was shown (asks.go   *)
(* 31-110), whoever pushes, and whatever Bitbucket's version numbers are.   *)
THEOREM MergesAsShown == Spec => []MergedAsShown
<1>1. Governed => MergedAsShown
  BY DEF Governed, MergedAsShown, PinsShown
<1> QED
  BY <1>1, GovernedAlways, PTL

(* The audit record and the deed agree (middleware.go 66-139).              *)
THEOREM RecordIsTrue == Spec => []RecordMatchesDeed
<1>1. ASSUME IInv, Governed, NEW c \in Calls, record[c] # NoRecord
      PROVE  /\ record[c].status \in {"denied", "asked"} => ~ran[c]
             /\ record[c].status = "success" => ran[c]
             /\ record[c].confirmation = "accepted" => ran[c]
  <2>1. pc[c] = "done" /\ record[c] = AuditRecord(c)
    BY <1>1 DEF Governed, Recorded
  <2>2. result[c] \in {"outOfScope", "asked", "error", "ok"}
    BY <1>1, <2>1 DEF IInv, TypeOK, Governed, Decided
  <2>3. /\ ran[c] => ~Denied(c) /\ result[c] \in {"ok", "error"}
        /\ result[c] = "ok" => ran[c]
        /\ outcome[c] = "accepted" => ran[c]
    BY <1>1, <2>1 DEF Governed, Decided
  <2>4. /\ record[c].status = "asked" => result[c] = "asked"
        /\ record[c].status = "denied" => result[c] = "outOfScope" \/ Denied(c)
        /\ record[c].status = "success" => result[c] = "ok"
        /\ record[c].confirmation = "accepted" => outcome[c] = "accepted"
    BY <2>1, <2>2 DEF AuditRecord
  <2> QED
    BY <2>3, <2>4
<1>2. IInv /\ Governed => RecordMatchesDeed
  BY <1>1 DEF RecordMatchesDeed
<1> QED
  BY <1>2, GovernedAlways, PTL

(* With --audit-failure=deny a client is told nothing that is not on record *)
(* (middleware.go writeAudit).                                              *)
THEOREM ToldIsRecorded == Spec => []ServedIsRecorded
<1>1. IInv /\ Governed => ServedIsRecorded
  BY DEF IInv, TypeOK, Governed, ServedIsRecorded, Decided, Recorded, AuditRecord, Denied
<1> QED
  BY <1>1, GovernedAlways, PTL
=============================================================================
