--------------------------- MODULE DownloadProofs ---------------------------
(***************************************************************************)
(* What holds of Download for bodies of every length, any number of        *)
(* retries and any limit: its types, that a body is resumed only with its  *)
(* own validator, that a failure leaves nothing behind, and that what      *)
(* arrives is the beginning of one body, and whole where it is told to be. *)
(*                                                                         *)
(* The argument: what the destination holds is always the beginning of one *)
(* body, the one of the answer being read and, while the download can be   *)
(* resumed, the one its validator names and its total measures.            *)
(***************************************************************************)
EXTENDS Download, SequenceTheorems, TLAPS

(* The destination holds as much of this body as was received.             *)
Holds(version) ==
  /\ received <= Length[version]
  /\ \A i \in 1 .. received : out[i] = <<version, i>>

(* transfer.received counts the bytes the destination holds.               *)
Counted == received = Len(out)

(* The bytes held begin the body that is being read, which goes on where   *)
(* they end, and whose length is transfer.total where that is known.       *)
ReadsOn ==
  pc \in {"copy", "got", "synced"} =>
    /\ Holds(reply.of)
    /\ total >= 0 => total = Length[reply.of]
    /\ pc = "copy" => reply.at = received + 1 /\ reply.end <= Length[reply.of]
    /\ pc = "copy" /\ ~reply.partial => reply.end = Length[reply.of]

(* While it can be resumed, they begin the body the validator names.       *)
Resumes ==
  resumable =>
    /\ validator \in Versions /\ Holds(validator)
    /\ total >= 0 => total = Length[validator]
    /\ pc = "copy" => validator = reply.of

(* An attempt that asks for the rest of a body can be answered with it.    *)
AsksForTheRest == pc \in {"request", "wait"} /\ received > 0 => resumable

(* A body that was got is whole, unless nobody told how long it is.        *)
GotWhole ==
  pc \in {"got", "synced"} => received = Length[reply.of] \/ Unmeasured

(* The temporary file, the target and the caller.                          *)
PutAway ==
  /\ pc \in {"start", "done"} => ~temporary
  /\ temporary \/ pc = "synced" => destination = "file"
  /\ pc = "start" => out = <<>>
  /\ pc # "done" => told = "nothing" /\ ~replaced
  /\ pc = "done" => told # "nothing" /\ (replaced <=> destination = "file" /\ told = "ok")

(* Another attempt is made only while one is left.                         *)
AttemptLeft == pc \in {"start", "request", "wait"} => attempts <= Retries

(* All of it, which every step keeps.                                      *)
IInv ==
  /\ TypeOK /\ Counted /\ AttemptLeft /\ ReadsOn /\ Resumes /\ AsksForTheRest /\ GotWhole
  /\ PutAway

----------------------------------------------------------------------------
(* The initial states: nothing was asked for yet.                          *)
LEMMA Starts ==
  ASSUME Init
  PROVE  IInv
<1>. USE DownloadAssumption DEF Init
<1>1. TypeOK
  <2>1. reply \in Replies
    <3>1. PICK framing \in Framings :
            reply = [of |-> serving, at |-> 1, end |-> 0, framing |-> framing, partial |-> FALSE]
      OBVIOUS
    <3>. QED
      BY <3>1 DEF Replies
  <2>2. <<>> \in Seq(Versions \X Nat)
    OBVIOUS
  <2>3. attempts \in 0 .. Retries + 1 /\ validator \in Versions \cup {"none"}
    OBVIOUS
  <2>. QED
    BY <2>1, <2>2, <2>3 DEF TypeOK
<1>2. Counted /\ AttemptLeft /\ ReadsOn /\ Resumes /\ AsksForTheRest /\ GotWhole /\ PutAway
  BY DEF Counted, AttemptLeft, ReadsOn, Resumes, AsksForTheRest, GotWhole, PutAway
<1>. QED
  BY <1>1, <1>2 DEF IInv

(* The server's body changes, or bb is killed: the download is as it was.  *)
LEMMA ChangeKeeps ==
  ASSUME IInv, Change
  PROVE  IInv'
BY DEF Change, IInv, TypeOK, Counted, AttemptLeft, ReadsOn, Resumes, AsksForTheRest, GotWhole, PutAway,
   Holds, Unmeasured, request, transfer, files

LEMMA KillKeeps ==
  ASSUME IInv, Kill
  PROVE  IInv'
BY DEF Kill, IInv, TypeOK, Counted, AttemptLeft, ReadsOn, Resumes, AsksForTheRest, GotWhole, PutAway,
   Holds, Unmeasured, request, transfer, files

LEMMA CreateFileKeeps ==
  ASSUME IInv, CreateFile
  PROVE  IInv'
<1>. USE DEF CreateFile, Tell, request, transfer
<1>1. TypeOK' /\ Counted' /\ AttemptLeft'
  BY DEF IInv, TypeOK, Counted, AttemptLeft
<1>2. received = 0
  BY DEF IInv, TypeOK, Counted, PutAway
<1>3. ReadsOn' /\ Resumes' /\ AsksForTheRest' /\ GotWhole'
  BY <1>2 DEF IInv, TypeOK, ReadsOn, Resumes, AsksForTheRest, GotWhole, Holds
<1>4. PutAway'
  BY DEF IInv, TypeOK, PutAway
<1>. QED
  BY <1>1, <1>3, <1>4 DEF IInv

(* With nothing received there is nothing in the destination.              *)
LEMMA NothingHeld ==
  ASSUME IInv
  PROVE  received \in Nat /\ (received = 0 <=> out = <<>>)
<1>1. out \in Seq(Versions \X Nat) /\ received = Len(out)
  BY DEF IInv, TypeOK, Counted
<1>. QED
  BY <1>1, EmptySeq, LenProperties

(* An attempt is one of those that were left.                              *)
LEMMA AttemptCounted ==
  ASSUME IInv, Attempt
  PROVE  pc = "request" /\ attempts' \in 0 .. Retries + 1
BY DownloadAssumption DEF IInv, TypeOK, AttemptLeft, Attempt

(* An attempt that brings nothing (failure).                               *)
LEMMA UnansweredKeeps ==
  ASSUME IInv, Unanswered \/ RangeNotSatisfiable \/ PartUnasked
  PROVE  IInv'
<1>. USE DEF Unanswered, RangeNotSatisfiable, PartUnasked, Fail, request, files
<1>0. pc = "request" /\ attempts' \in 0 .. Retries + 1
  BY AttemptCounted
<1>1. TypeOK' /\ Counted'
  BY <1>0 DEF IInv, TypeOK, Counted
<1>2. AttemptLeft' /\ ReadsOn' /\ Resumes' /\ AsksForTheRest' /\ GotWhole' /\ PutAway'
  BY <1>0 DEF IInv, AttemptLeft, ReadsOn, Resumes, AsksForTheRest, GotWhole, PutAway, Holds
<1>. QED
  BY <1>1, <1>2 DEF IInv

(* A whole body starts over from its first byte (accept, learn).           *)
LEMMA WholeKeeps ==
  ASSUME IInv, Whole
  PROVE  IInv'
<1>. USE DownloadAssumption DEF Fail, request, files
<1>0. pc = "request" /\ attempts' \in 0 .. Retries + 1
  BY AttemptCounted DEF Whole
<1>1. CASE \E framing \in Framings, ranges \in BOOLEAN : AcceptWhole(framing, ranges)
  <2>1. PICK framing \in Framings, ranges \in BOOLEAN : AcceptWhole(framing, ranges)
    BY <1>1
  <2>. USE DEF AcceptWhole
  <2>2. received \in Nat /\ (received = 0 => out = <<>>)
    BY NothingHeld
  <2>3. out' = <<>> /\ received' = 0
    BY <2>1, <2>2
  <2>4. serving \in Versions /\ Length[serving] \in Nat
    BY DEF IInv, TypeOK
  <2>5. /\ reply' \in Replies
        /\ reply'.of = serving /\ reply'.at = 1 /\ reply'.end = Length[serving]
        /\ reply'.partial = FALSE
    BY <2>1, <2>4 DEF Replies
  <2>6. /\ total' \in {-1, Length[serving]}
        /\ validator' \in {serving, "none"} /\ resumable' \in BOOLEAN
        /\ resumable' => validator' = serving
        /\ pc' \in {"failed", "copy"} /\ retriable' \in BOOLEAN
    BY <2>1 DEF IInv, TypeOK
  <2>7. TypeOK'
    BY <1>0, <2>3, <2>4, <2>5, <2>6 DEF Whole, IInv, TypeOK
  <2>8. Counted' /\ AttemptLeft' /\ ReadsOn' /\ Resumes' /\ AsksForTheRest' /\ GotWhole'
    BY <2>3, <2>4, <2>5, <2>6 DEF Whole, Counted, AttemptLeft, ReadsOn, Resumes, AsksForTheRest, GotWhole, Holds
  <2>9. PutAway'
    BY <1>0, <2>6 DEF Whole, IInv, TypeOK, PutAway
  <2>. QED
    BY <2>7, <2>8, <2>9 DEF IInv
<1>2. CASE Fail(FALSE) /\ UNCHANGED <<out, received, total, validator, resumable, reply>>
  <2>1. TypeOK' /\ Counted' /\ AttemptLeft'
    BY <1>0, <1>2 DEF Whole, IInv, TypeOK, Counted, AttemptLeft
  <2>2. ReadsOn' /\ Resumes' /\ AsksForTheRest' /\ GotWhole' /\ PutAway'
    BY <1>0, <1>2 DEF Whole, IInv, ReadsOn, Resumes, AsksForTheRest, GotWhole, PutAway, Holds
  <2>. QED
    BY <2>1, <2>2 DEF IInv
<1>. QED
  BY <1>1, <1>2 DEF Whole

(* A range goes on where the body broke off, or is no use (checkRange).    *)
LEMMA PartKeeps ==
  ASSUME IInv, Part
  PROVE  IInv'
<1>. USE DownloadAssumption DEF Fail, request, files
<1>0. pc = "request" /\ attempts' \in 0 .. Retries + 1
  BY AttemptCounted DEF Part
<1>1. PICK start \in 1 .. Length[serving], end \in 1 .. Length[serving],
           declared \in {-1, Length[serving]} :
        /\ validator = serving \/ (declared >= 0 /\ total >= 0 /\ declared # total)
        /\ start <= end
        /\ IF CheckRange(start, end, declared) /\ ~OverLimit(declared)
           THEN /\ total' = IF total < 0 THEN declared ELSE total
                /\ \E framing \in Framings :
                     reply' = [of |-> serving, at |-> start, end |-> end,
                               framing |-> framing, partial |-> declared = -1]
                /\ pc' = "copy" /\ UNCHANGED <<resumable, retriable>>
           ELSE /\ resumable' = FALSE
                /\ Fail(~CheckRange(start, end, declared))
                /\ UNCHANGED <<total, reply>>
  BY DEF Part
<1>2. /\ Attempt /\ received > 0
      /\ UNCHANGED <<serving, request, out, received, validator, files, told>>
  BY DEF Part
<1>3. /\ serving \in Versions /\ Length[serving] \in Nat /\ received \in Nat
      /\ total \in Nat \cup {-1} /\ resumable
  BY <1>0, <1>2 DEF IInv, TypeOK, AsksForTheRest
<1>4. CASE CheckRange(start, end, declared) /\ ~OverLimit(declared)
  <2>1. /\ validator = serving /\ start = received + 1
        /\ declared >= 0 => end = Length[serving]
    BY <1>1, <1>3, <1>4 DEF CheckRange
  <2>2. PICK framing \in Framings :
          reply' = [of |-> serving, at |-> start, end |-> end,
                    framing |-> framing, partial |-> declared = -1]
    BY <1>1, <1>4
  <2>3. /\ reply' \in Replies
        /\ reply'.of = serving /\ reply'.at = received + 1 /\ reply'.end = end
        /\ reply'.partial = (declared = -1)
    BY <1>3, <2>1, <2>2 DEF Replies
  <2>4. Holds(serving) /\ (total >= 0 => total = Length[serving])
    BY <1>3, <2>1 DEF IInv, Resumes
  <2>5. /\ total' \in Nat \cup {-1} /\ pc' = "copy" /\ resumable' = resumable
        /\ total' >= 0 => total' = Length[serving]
        /\ retriable' = retriable
    BY <1>1, <1>3, <1>4, <2>4
  <2>6. TypeOK'
    BY <1>0, <1>2, <2>3, <2>5 DEF IInv, TypeOK
  <2>7. Counted' /\ AttemptLeft' /\ AsksForTheRest' /\ GotWhole' /\ PutAway'
    BY <1>0, <1>2, <2>5 DEF IInv, Counted, AttemptLeft, AsksForTheRest, GotWhole, PutAway
  <2>8. Holds(serving)' /\ serving' = serving /\ validator' = serving
    BY <1>2, <2>1, <2>4 DEF Holds
  <2>9. ReadsOn'
    <3>1. end <= Length[serving]
      BY <1>3
    <3>2. declared # -1 => end = Length[serving]
      BY <1>3, <2>1
    <3>3. ~reply'.partial => declared # -1
      BY <2>3
    <3>. QED
      BY <1>2, <2>3, <2>5, <2>8, <3>1, <3>2, <3>3 DEF ReadsOn
  <2>10. Resumes'
    BY <1>3, <2>3, <2>5, <2>8 DEF Resumes
  <2>. QED
    BY <2>6, <2>7, <2>9, <2>10 DEF IInv
<1>5. CASE ~(CheckRange(start, end, declared) /\ ~OverLimit(declared))
  <2>1. /\ resumable' = FALSE /\ pc' = "failed" /\ UNCHANGED <<total, reply>>
        /\ retriable' = ~CheckRange(start, end, declared)
    BY <1>1, <1>5
  <2>2. retriable' \in BOOLEAN
    BY <2>1 DEF CheckRange
  <2>3. TypeOK' /\ Counted'
    BY <1>0, <1>2, <2>1, <2>2 DEF IInv, TypeOK, Counted
  <2>4. AttemptLeft' /\ ReadsOn' /\ Resumes' /\ AsksForTheRest' /\ GotWhole' /\ PutAway'
    BY <1>0, <1>2, <2>1 DEF IInv, AttemptLeft, ReadsOn, Resumes, AsksForTheRest, GotWhole, PutAway
  <2>. QED
    BY <2>3, <2>4 DEF IInv
<1>. QED
  BY <1>4, <1>5
(* A byte of the body being read follows those that are held (copy).       *)
LEMMA CopyKeeps ==
  ASSUME IInv, Copy
  PROVE  IInv'
<1>. USE DownloadAssumption
<1>0. /\ pc = "copy" /\ reply.at <= reply.end
      /\ UNCHANGED <<serving, destination, limit, total, validator, resumable, attempts,
                     temporary, replaced, told>>
  BY DEF Copy, request, files
<1>1. CASE OverLimit(received + 1)
  <2>1. pc' = "failed" /\ retriable' = FALSE /\ UNCHANGED <<out, received, reply>>
    BY <1>1 DEF Copy, Fail
  <2>2. TypeOK' /\ Counted' /\ AttemptLeft'
    BY <1>0, <2>1 DEF IInv, TypeOK, Counted, AttemptLeft
  <2>3. ReadsOn' /\ Resumes' /\ AsksForTheRest' /\ GotWhole' /\ PutAway'
    BY <1>0, <2>1 DEF IInv, ReadsOn, Resumes, AsksForTheRest, GotWhole, PutAway, Holds
  <2>. QED
    BY <2>2, <2>3 DEF IInv
<1>2. CASE ~OverLimit(received + 1)
  <2>1. /\ out' = Append(out, <<reply.of, reply.at>>) /\ received' = received + 1
        /\ reply' = [reply EXCEPT !.at = @ + 1] /\ UNCHANGED <<pc, retriable>>
    BY <1>2 DEF Copy
  <2>2. /\ reply \in Replies /\ reply.of \in Versions /\ reply.at \in Nat /\ reply.end \in Nat
        /\ received \in Nat /\ Length[reply.of] \in Nat
        /\ reply.at = received + 1 /\ reply.end <= Length[reply.of]
    BY <1>0 DEF IInv, TypeOK, Replies, ReadsOn
  <2>3. /\ reply' \in Replies /\ reply'.at = reply.at + 1
        /\ reply'.of = reply.of /\ reply'.end = reply.end /\ reply'.partial = reply.partial
    BY <2>1, <2>2 DEF Replies
  <2>4. /\ out' \in Seq(Versions \X Nat) /\ Len(out') = Len(out) + 1
        /\ \A i \in 1 .. Len(out) : out'[i] = out[i]
        /\ out'[Len(out) + 1] = <<reply.of, reply.at>>
    <3>1. out \in Seq(Versions \X Nat) /\ <<reply.of, reply.at>> \in Versions \X Nat
      BY <2>2 DEF IInv, TypeOK
    <3>2. out' = Append(out, <<reply.of, reply.at>>)
      BY <2>1
    <3>. QED
      BY <3>1, <3>2, AppendProperties
  <2>5. TypeOK' /\ Counted' /\ AttemptLeft'
    BY <1>0, <2>1, <2>2, <2>3, <2>4 DEF IInv, TypeOK, Counted, AttemptLeft
  <2>6. Holds(reply.of)'
    <3>1. received' <= Length[reply.of]
      BY <1>0, <2>1, <2>2
    <3>2. ASSUME NEW i \in 1 .. received' PROVE out'[i] = <<reply.of, i>>
      <4>1. CASE i = received + 1
        BY <2>2, <2>4, <4>1 DEF IInv, Counted
      <4>2. CASE i # received + 1
        <5>1. i \in 1 .. received
          BY <2>1, <2>2, <4>2
        <5>. QED
          BY <1>0, <2>4, <5>1 DEF IInv, Counted, ReadsOn, Holds
      <4>. QED
        BY <4>1, <4>2
    <3>. QED
      BY <2>3, <3>1, <3>2 DEF Holds
  <2>7. ReadsOn'
    BY <1>0, <2>1, <2>2, <2>3, <2>6 DEF IInv, ReadsOn
  <2>8. Resumes'
    BY <1>0, <2>1, <2>3, <2>6 DEF IInv, Resumes
  <2>9. AsksForTheRest' /\ GotWhole' /\ PutAway'
    BY <1>0, <2>1 DEF IInv, AsksForTheRest, GotWhole, PutAway
  <2>. QED
    BY <2>5, <2>7, <2>8, <2>9 DEF IInv
<1>. QED
  BY <1>1, <1>2

LEMMA BreakOffKeeps ==
  ASSUME IInv, BreakOff
  PROVE  IInv'
<1>. USE DEF BreakOff, Fail, request, transfer, files
<1>1. TypeOK' /\ Counted' /\ AttemptLeft'
  BY DEF IInv, TypeOK, Counted, AttemptLeft
<1>2. ReadsOn' /\ Resumes' /\ AsksForTheRest' /\ GotWhole' /\ PutAway'
  BY DEF IInv, ReadsOn, Resumes, AsksForTheRest, GotWhole, PutAway, Holds
<1>. QED
  BY <1>1, <1>2 DEF IInv

(* A body that ended is whole where anybody said how long it is (complete).*)
LEMMA EndKeeps ==
  ASSUME IInv, End
  PROVE  IInv'
<1>. USE DEF End, Fail, request, transfer, files
<1>1. TypeOK' /\ Counted' /\ AttemptLeft'
  BY DEF IInv, TypeOK, Counted, AttemptLeft
<1>2. ReadsOn' /\ Resumes' /\ AsksForTheRest' /\ PutAway'
  BY DEF IInv, ReadsOn, Resumes, AsksForTheRest, PutAway, Holds
<1>3. CASE Complete
  <2>1. /\ received \in Nat /\ Holds(reply.of) /\ Length[reply.of] \in Nat
        /\ reply.at = received + 1 /\ reply.end <= Length[reply.of] /\ reply.end \in Nat
        /\ reply.framing \in Framings /\ reply.partial \in BOOLEAN
    BY DownloadAssumption DEF IInv, TypeOK, ReadsOn, Replies
  <2>2. total >= 0 => GotWhole'
    BY <1>3 DEF IInv, TypeOK, ReadsOn, GotWhole, Complete
  <2>3. ~(total >= 0) /\ (reply.framing = "close" \/ reply.partial) => GotWhole'
    BY DEF IInv, TypeOK, GotWhole, Unmeasured
  <2>4. reply.framing # "close" /\ ~reply.partial => GotWhole'
    <3>1. SUFFICES ASSUME reply.framing # "close", ~reply.partial PROVE GotWhole'
      OBVIOUS
    <3>2. reply.at > reply.end /\ reply.end = Length[reply.of]
      BY <3>1 DEF IInv, ReadsOn
    <3>3. received = Length[reply.of]
      BY <2>1, <3>2 DEF Holds
    <3>. QED
      BY <3>3 DEF GotWhole
  <2>5. GotWhole'
    BY <2>2, <2>3, <2>4
  <2>. QED
    BY <1>1, <1>2, <2>5 DEF IInv
<1>4. CASE ~Complete
  BY <1>1, <1>2, <1>4 DEF IInv, GotWhole
<1>. QED
  BY <1>3, <1>4

(* The next attempt goes on, or starts over with nothing (run).            *)
LEMMA RetryKeeps ==
  ASSUME IInv, Retry
  PROVE  IInv'
<1>. USE DEF Retry, request, files
<1>1. CASE UNCHANGED <<out, received>>
  <2>1. TypeOK' /\ Counted' /\ AttemptLeft'
    BY <1>1 DEF IInv, TypeOK, Counted, AttemptLeft
  <2>2. pc' = "gone" \/ ~(received > 0 /\ ~resumable)
    <3>1. SUFFICES ASSUME received > 0 /\ ~resumable, pc' # "gone" PROVE FALSE
      OBVIOUS
    <3>2. received' = 0
      BY <3>1
    <3>. QED
      BY <1>1, <3>1, <3>2
  <2>3. resumable' = resumable
    OBVIOUS
  <2>4. AsksForTheRest'
    BY <1>1, <2>2, <2>3 DEF AsksForTheRest
  <2>5. ReadsOn' /\ Resumes' /\ GotWhole' /\ PutAway'
    BY <1>1 DEF IInv, ReadsOn, Resumes, GotWhole, PutAway, Holds
  <2>. QED
    BY <2>1, <2>4, <2>5 DEF IInv
<1>2. CASE received > 0 /\ ~resumable /\ pc' = "wait" /\ out' = <<>> /\ received' = 0
  <2>1. TypeOK' /\ Counted' /\ AttemptLeft'
    BY <1>2 DEF IInv, TypeOK, Counted, AttemptLeft
  <2>2. ReadsOn' /\ Resumes' /\ AsksForTheRest' /\ GotWhole' /\ PutAway'
    BY <1>2 DEF IInv, ReadsOn, Resumes, AsksForTheRest, GotWhole, PutAway
  <2>. QED
    BY <2>1, <2>2 DEF IInv
<1>. QED
  BY <1>1, <1>2

LEMMA WaitKeeps ==
  ASSUME IInv, Wait \/ GiveUp
  PROVE  IInv'
<1>. USE DEF Wait, GiveUp, request, transfer, files
<1>1. TypeOK' /\ Counted' /\ AttemptLeft'
  BY DEF IInv, TypeOK, Counted, AttemptLeft
<1>2. ReadsOn' /\ Resumes' /\ AsksForTheRest' /\ GotWhole' /\ PutAway'
  BY DEF IInv, ReadsOn, Resumes, AsksForTheRest, GotWhole, PutAway, Holds
<1>. QED
  BY <1>1, <1>2 DEF IInv

(* The destination is finished with (Commit, Discard).                     *)
LEMMA FinishKeeps ==
  ASSUME IInv, Sync \/ Rename \/ Discard
  PROVE  IInv'
<1>. USE DEF Sync, Rename, Discard, Tell, request, transfer
<1>1. TypeOK' /\ Counted' /\ AttemptLeft'
  BY DEF IInv, TypeOK, Counted, AttemptLeft
<1>2. ReadsOn' /\ Resumes' /\ AsksForTheRest' /\ GotWhole'
  BY DEF IInv, ReadsOn, Resumes, AsksForTheRest, GotWhole, Holds, Unmeasured
<1>3. PutAway'
  BY DEF IInv, TypeOK, PutAway
<1>. QED
  BY <1>1, <1>2, <1>3 DEF IInv

(* Every step keeps the invariant.                                         *)
LEMMA StepKeeps ==
  ASSUME IInv, [Next]_vars
  PROVE  IInv'
<1>1. CASE UNCHANGED vars
  BY <1>1 DEF vars, request, transfer, files, IInv, TypeOK, Counted, AttemptLeft, ReadsOn,
     Resumes, AsksForTheRest, GotWhole, PutAway, Holds, Unmeasured
<1>. QED
  BY <1>1, ChangeKeeps, KillKeeps, CreateFileKeeps, UnansweredKeeps, WholeKeeps, PartKeeps,
     CopyKeeps, BreakOffKeeps, EndKeeps, RetryKeeps, WaitKeeps, FinishKeeps
  DEF Next, Downloader

(* The inductive invariant, for bodies of any length and any retry_count.  *)
THEOREM Invariance == Spec => []IInv
BY Starts, StepKeeps, PTL DEF Spec

(* Every variable keeps its type: no attempt is made past retry_count.     *)
THEOREM TypeCorrect == Spec => []TypeOK
<1>1. IInv => TypeOK
  BY DEF IInv
<1>. QED
  BY <1>1, Invariance, PTL

(* The rest of a body is asked for with that body's own validator.         *)
THEOREM ResumedWithItsValidator == Spec => []ResumesWhatItHolds
<1>1. IInv => ResumesWhatItHolds
  BY DEF IInv, Counted, AsksForTheRest, Resumes, Holds, ResumesWhatItHolds
<1>. QED
  BY <1>1, Invariance, PTL

(* A download that ended left no temporary file, and replaced its target   *)
(* exactly when it succeeded.                                              *)
THEOREM NothingLeftBehind == Spec => []LeavesNothingBehind
<1>1. IInv => LeavesNothingBehind
  BY DEF IInv, PutAway, LeavesNothingBehind
<1>. QED
  BY <1>1, Invariance, PTL
----------------------------------------------------------------------------
(* The refinement.                                                         *)

(* A step that changes nothing the promise is about.                       *)
LEMMA Stutters ==
  ASSUME UNCHANGED <<destination, limit, out, replaced, told>>, Unmeasured' = Unmeasured
  PROVE  UNCHANGED Delivered!vars
BY DEF Delivered!vars

(* An answer, before any of its body: the promise's Answered.              *)
LEMMA AnswerDelivers ==
  ASSUME IInv, pc # "done", UNCHANGED <<destination, limit, out, replaced, told>>
  PROVE  Delivered!Answered
<1>1. told = "nothing" /\ ~replaced
  BY DEF IInv, PutAway
<1>2. Unmeasured' \in BOOLEAN
  BY DEF Unmeasured
<1>. QED
  BY <1>1, <1>2 DEF Delivered!Answered, Delivered!Same

(* Taking back what is held is its StartOver (Rewind).                     *)
LEMMA RewindDelivers ==
  ASSUME IInv, pc # "done", received > 0, TRUE \in Rewinds,
         out' = <<>>, UNCHANGED <<destination, limit, replaced, told>>
  PROVE  Delivered!StartOver
<1>1. told = "nothing" /\ ~replaced
  BY DEF IInv, PutAway
<1>2. Unmeasured' \in BOOLEAN
  BY DEF Unmeasured
<1>3. out # <<>>
  BY NothingHeld
<1>4. destination \in {"memory", "stream", "device", "file"}
  BY DownloadAssumption DEF IInv, TypeOK
<1>5. destination \in {"memory", "file"}
  <2>1. CASE destination \in {"stream", "device"}
    BY <1>3, <2>1 DEF Rewinds
  <2>. QED
    BY <1>4, <2>1
<1>. QED
  BY <1>1, <1>2, <1>5 DEF Delivered!StartOver, Delivered!Same

(* A byte copied is the next one of the body that is held (Extend).        *)
LEMMA CopyDelivers ==
  ASSUME IInv, Copy
  PROVE  [Delivered!Next]_Delivered!vars
<1>0. /\ pc = "copy" /\ reply.at <= reply.end
      /\ UNCHANGED <<destination, limit, total, replaced, told>>
  BY DEF Copy, request, files
<1>1. CASE OverLimit(received + 1)
  <2>1. UNCHANGED <<out, reply>>
    BY <1>1 DEF Copy, Fail
  <2>. QED
    BY <1>0, <2>1, Stutters DEF Unmeasured
<1>2. CASE ~OverLimit(received + 1)
  <2>1. out' = Append(out, <<reply.of, reply.at>>) /\ reply' = [reply EXCEPT !.at = @ + 1]
    BY <1>2 DEF Copy
  <2>2. /\ reply \in Replies /\ reply.of \in Versions /\ Length[reply.of] \in Nat
        /\ received \in Nat /\ received = Len(out) /\ limit \in Nat /\ reply.end \in Nat
        /\ reply.at = received + 1 /\ reply.end <= Length[reply.of]
    BY <1>0, DownloadAssumption DEF IInv, TypeOK, Replies, Counted, ReadsOn
  <2>3. reply'.framing = reply.framing /\ reply'.partial = reply.partial
    BY <2>1, <2>2 DEF Replies
  <2>4. UNCHANGED Unmeasured
    BY <1>0, <2>3 DEF Unmeasured
  <2>5. limit = 0 \/ Len(out) < limit
    BY <1>2, <2>2 DEF OverLimit
  <2>6. out = <<>> \/ out[1] = <<reply.of, 1>>
    BY <1>0, <2>2, NothingHeld DEF IInv, ReadsOn, Holds
  <2>7. Len(out) < Length[reply.of]
    BY <1>0, <2>2
  <2>8. told = "nothing" /\ ~replaced
    BY <1>0 DEF IInv, PutAway
  <2>. QED
    BY <1>0, <2>1, <2>2, <2>4, <2>5, <2>6, <2>7, <2>8
    DEF Delivered!Next, Delivered!Extend, Delivered!Same
<1>. QED
  BY <1>1, <1>2

(* A body that was got is whole, or nobody told how long it is.            *)
LEMMA GotIsWhole ==
  ASSUME IInv, pc \in {"got", "synced"}
  PROVE  Delivered!IsWhole \/ Unmeasured
<1>1. CASE ~Unmeasured
  <2>1. received = Length[reply.of] /\ Holds(reply.of) /\ reply.of \in Versions
    BY <1>1 DEF IInv, GotWhole, ReadsOn, TypeOK, Replies
  <2>2. received = Len(out) /\ out \in Seq(Versions \X Nat)
    BY DEF IInv, Counted, TypeOK
  <2>3. out = [i \in 1 .. Length[reply.of] |-> <<reply.of, i>>]
    <3>1. out = [i \in 1 .. Len(out) |-> out[i]]
      BY <2>2
    <3>2. \A i \in 1 .. Len(out) : out[i] = <<reply.of, i>>
      BY <2>1, <2>2 DEF Holds
    <3>. QED
      BY <2>1, <2>2, <3>1, <3>2
  <2>. QED
    BY <2>1, <2>3 DEF Delivered!IsWhole, Delivered!Body
<1>. QED
  BY <1>1

(* Telling the caller (Sync, Rename, Discard, CreateFile).                 *)
LEMMA TellDelivers ==
  ASSUME IInv, pc # "done", NEW what \in {"ok", "failed"},
         what = "ok" => pc \in {"got", "synced"}, told' = what,
         UNCHANGED <<destination, limit, out, total, reply, replaced>>
  PROVE  Delivered!Next
<1>1. told = "nothing" /\ ~replaced
  BY DEF IInv, PutAway
<1>2. what = "ok" => Delivered!IsWhole \/ Unmeasured
  BY GotIsWhole
<1>3. UNCHANGED Unmeasured
  BY DEF Unmeasured
<1>4. Delivered!Tell(what)
  BY <1>1, <1>2, <1>3 DEF Delivered!Tell, Delivered!Same
<1>. QED
  BY <1>4 DEF Delivered!Next

(* Renaming the file over its target is the promise's Replace (Commit).    *)
LEMMA RenameDelivers ==
  ASSUME IInv, Rename
  PROVE  Delivered!Next
<1>. USE DEF Rename, Tell, request, transfer
<1>1. CASE replaced' = TRUE /\ told' = "ok"
  <2>1. told = "nothing" /\ ~replaced /\ destination = "file"
    BY DEF IInv, PutAway
  <2>2. Delivered!IsWhole \/ Unmeasured
    BY GotIsWhole
  <2>3. UNCHANGED Unmeasured
    BY DEF Unmeasured
  <2>4. Delivered!Replace
    BY <1>1, <2>1, <2>2, <2>3 DEF Delivered!Replace, Delivered!Same
  <2>. QED
    BY <2>4 DEF Delivered!Next
<1>2. CASE UNCHANGED replaced /\ told' = "failed"
  BY <1>2, TellDelivers
<1>. QED
  BY <1>1, <1>2

(* Every step of a download, the server and a kill is one of the promise.  *)
LEMMA StepDelivers ==
  ASSUME IInv, [Next]_vars
  PROVE  [Delivered!Next]_Delivered!vars
<1>. USE DEF request, transfer, files
<1>1. CASE Change \/ Kill \/ Wait \/ GiveUp \/ BreakOff \/ End \/ UNCHANGED vars
  BY <1>1, Stutters DEF Change, Kill, Wait, GiveUp, BreakOff, End, vars, Unmeasured
<1>2. CASE Unanswered \/ RangeNotSatisfiable \/ PartUnasked
  BY <1>2, Stutters DEF Unanswered, RangeNotSatisfiable, PartUnasked, Unmeasured
<1>3. CASE Part
  <2>1. pc # "done" /\ UNCHANGED <<destination, limit, out, replaced, told>>
    BY <1>3 DEF Part, Attempt
  <2>. QED
    BY <2>1, AnswerDelivers DEF Delivered!Next
<1>4. CASE Whole
  <2>1. pc # "done" /\ UNCHANGED <<destination, limit, replaced, told>>
    BY <1>4 DEF Whole, Attempt
  <2>2. CASE out' = out
    BY <2>1, <2>2, AnswerDelivers DEF Delivered!Next
  <2>3. CASE received > 0 /\ TRUE \in Rewinds /\ out' = <<>>
    BY <2>1, <2>3, RewindDelivers DEF Delivered!Next
  <2>. QED
    BY <1>4, <2>2, <2>3 DEF Whole, AcceptWhole
<1>5. CASE Retry
  <2>1. pc # "done" /\ UNCHANGED <<destination, limit, total, reply, replaced, told>>
    BY <1>5 DEF Retry
  <2>2. CASE out' = out
    BY <2>1, <2>2, Stutters DEF Unmeasured
  <2>3. CASE received > 0 /\ TRUE \in Rewinds /\ out' = <<>>
    BY <2>1, <2>3, RewindDelivers DEF Delivered!Next
  <2>. QED
    BY <1>5, <2>2, <2>3 DEF Retry
<1>6. CASE CreateFile
  <2>1. pc = "start" /\ UNCHANGED <<destination, limit, out, total, reply, replaced>>
    BY <1>6 DEF CreateFile
  <2>2. CASE told' = told
    BY <2>1, <2>2, Stutters DEF Unmeasured
  <2>3. CASE told' = "failed"
    BY <2>1, <2>3, TellDelivers
  <2>. QED
    BY <1>6, <2>2, <2>3 DEF CreateFile, Tell
<1>7. CASE Sync
  <2>1. pc = "got" /\ UNCHANGED <<destination, limit, out, total, reply, replaced>>
    BY <1>7 DEF Sync
  <2>2. CASE told' = told
    BY <2>1, <2>2, Stutters DEF Unmeasured
  <2>3. CASE told' = "ok"
    BY <2>1, <2>3, TellDelivers
  <2>4. CASE told' = "failed"
    BY <2>1, <2>4, TellDelivers
  <2>. QED
    BY <1>7, <2>2, <2>3, <2>4 DEF Sync, Tell
<1>8. CASE Discard
  BY <1>8, TellDelivers DEF Discard, Tell
<1>. QED
  BY <1>1, <1>2, <1>3, <1>4, <1>5, <1>6, <1>7, <1>8, CopyDelivers, RenameDelivers
  DEF Next, Downloader

(* What arrives is the beginning of one body, whatever its length and      *)
(* however often it changes or breaks off; it replaces a file, or is told  *)
(* to have arrived, only once it is whole (download.go, destination.go).   *)
THEOREM OneBodyDelivered == Spec => DeliversOneBody
<1>1. Init => Delivered!Init
  <2>1. SUFFICES ASSUME Init PROVE Delivered!Init
    OBVIOUS
  <2>2. limit \in Nat /\ out = <<>> /\ replaced = FALSE /\ told = "nothing"
    BY <2>1, DownloadAssumption DEF Init
  <2>3. Unmeasured \in BOOLEAN /\ (destination \in {"memory", "file"}) \in BOOLEAN
    BY DEF Unmeasured
  <2>. QED
    BY <2>2, <2>3 DEF Delivered!Init
<1>2. IInv /\ [Next]_vars => [Delivered!Next]_Delivered!vars
  BY StepDelivers
<1>. QED
  BY <1>1, <1>2, Invariance, PTL DEF Spec, DeliversOneBody, Delivered!Spec
=============================================================================
