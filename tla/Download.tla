------------------------------ MODULE Download ------------------------------
(***************************************************************************)
(* One download of internal/transport/download: a body that breaks off is  *)
(* resumed with Range and If-Range where the server offers that, started   *)
(* again where the destination can take back what it holds, and reported   *)
(* where it cannot; into memory, onto a stream or a device, or into a file *)
(* beside its target that is renamed over it (destination.go).             *)
(*                                                                         *)
(* The server's body changes whenever it likes.  A download whose caller   *)
(* sent a Range of its own, which turns resuming off, is not modelled.     *)
(***************************************************************************)
EXTENDS Integers, Sequences

CONSTANTS
  Versions,     \* the bodies one URL has over time
  Length,       \* how many bytes each has
  Retries,      \* retry_count
  Limits,       \* the limits callers set, 0 for none
  Destinations, \* among "memory", "stream", "device" and "file"
  Framings      \* how a body's end is told: by its "length", "chunked", "close"

ASSUME DownloadAssumption ==
  /\ Length \in [Versions -> Nat]
  /\ "none" \notin Versions
  /\ Retries \in Nat /\ Limits \subseteq Nat
  /\ Destinations \subseteq {"memory", "stream", "device", "file"}
  /\ Framings \subseteq {"length", "chunked", "close"}

VARIABLES
  serving,     \* the body the server has now
  destination,
  limit,       \* Request.Limit
  pc,
  out,         \* the bytes the destination holds, by body and place
  received,    \* transfer.received
  total,       \* transfer.total, -1 while it is not known
  validator,   \* transfer.validator: a strong ETag names one body
  resumable,   \* transfer.resumable
  attempts,    \* transfer.attempts
  reply,       \* the answer whose body is being read
  retriable,   \* failure.retriable of the attempt that failed
  temporary,   \* whether the temporary file is there
  replaced,    \* whether it was renamed over its target
  told         \* what the caller is told

request == <<destination, limit>>
transfer == <<received, total, validator, resumable, attempts>>
files == <<temporary, replaced>>
vars == <<serving, request, pc, out, transfer, reply, retriable, files, told>>

(* A reply sends bytes at..end of one body, of one that was not resumed or *)
(* as a range of one that was.                                             *)
Replies == [of : Versions, at : Nat, end : Nat, framing : Framings, partial : BOOLEAN]

----------------------------------------------------------------------------
(* What the code decides.                                                  *)

(* Destination.Rewind: memory always can, a stream or a device only before *)
(* its first byte, and a file unless truncating it fails.                  *)
Rewinds ==
  CASE destination = "memory" -> {TRUE}
    [] destination = "file" -> BOOLEAN
    [] OTHER -> {out = <<>>}

OverLimit(size) == limit > 0 /\ size > limit

(* transfer.checkRange: the range starts where the body broke off, belongs *)
(* to a body of the same length, and runs to its end.                      *)
StartsAnywhere(start, end, declared) ==
  /\ total >= 0 /\ declared >= 0 => declared = total
  /\ declared >= 0 => end = declared

CheckRange(start, end, declared) ==
  /\ start = received + 1
  /\ total >= 0 /\ declared >= 0 => declared = total
  /\ declared >= 0 => end = declared

(* transfer.complete: a body that ended against the length it declared.    *)
Complete == total < 0 \/ received = total

----------------------------------------------------------------------------
Init ==
  /\ serving \in Versions /\ destination \in Destinations /\ limit \in Limits
  /\ pc = "start" /\ out = <<>>
  /\ received = 0 /\ total = -1 /\ validator = "none" /\ resumable = FALSE
  /\ attempts = 0
  /\ \E framing \in Framings :
       reply = [of |-> serving, at |-> 1, end |-> 0, framing |-> framing, partial |-> FALSE]
  /\ retriable = FALSE /\ temporary = FALSE /\ replaced = FALSE
  /\ told = "nothing"

Fail(again) == pc' = "failed" /\ retriable' = again

Tell(what) == pc' = "done" /\ told' = what

(* The server has another body from now on.                                *)
Change ==
  /\ serving' \in Versions \ {serving}
  /\ UNCHANGED <<request, pc, out, transfer, reply, retriable, files, told>>

(* CreateFile: a target that cannot be written fails before anything is    *)
(* fetched.                                                                *)
CreateFile ==
  /\ pc = "start"
  /\ \/ /\ pc' = "request" /\ temporary' = (destination = "file")
        /\ UNCHANGED told
     \/ destination \in {"device", "file"} /\ Tell("failed") /\ UNCHANGED temporary
  /\ UNCHANGED <<serving, request, out, transfer, reply, retriable, replaced>>

AttemptUncounted == pc = "request" /\ UNCHANGED attempts

Attempt == pc = "request" /\ attempts' = attempts + 1

(* No answer within the timeout, no connection, or a status outside 2xx.   *)
Unanswered ==
  /\ Attempt
  /\ \E again \in BOOLEAN : Fail(again)
  /\ UNCHANGED <<serving, request, out, received, total, validator, resumable, reply, files, told>>

(* transfer.refused: 416, nothing past what was received.                  *)
RangeNotSatisfiable ==
  /\ Attempt /\ received > 0 /\ received >= Length[serving]
  /\ resumable' = FALSE
  /\ Fail(TRUE)
  /\ UNCHANGED <<serving, request, out, received, total, validator, reply, files, told>>

(* transfer.accept, given part of a body that was not asked for.           *)
PartUnasked ==
  /\ Attempt /\ received = 0
  /\ Fail(FALSE)
  /\ UNCHANGED <<serving, request, out, received, total, validator, resumable, reply, files, told>>

(* transfer.accept and learn, given the whole body: a range that was asked *)
(* for is forgotten, and what was written taken back.  The destination may *)
(* refuse what it sees of it (Opener).                                     *)
AcceptWhole(framing, ranges) ==
  /\ out' = (IF received > 0 THEN <<>> ELSE out) /\ received' = 0
  /\ total' = IF framing = "length" THEN Length[serving] ELSE -1
  /\ validator' = IF ranges THEN serving ELSE "none"
  /\ resumable' = ranges
  /\ reply' = [of |-> serving, at |-> 1, end |-> Length[serving],
               framing |-> framing, partial |-> FALSE]
  /\ \/ Fail(FALSE)
     \/ ~OverLimit(total') /\ pc' = "copy" /\ UNCHANGED retriable

Whole ==
  /\ Attempt
  /\ \/ /\ received > 0 => TRUE \in Rewinds
        /\ \E framing \in Framings, ranges \in BOOLEAN : AcceptWhole(framing, ranges)
     \/ /\ received > 0 /\ FALSE \in Rewinds /\ Fail(FALSE)
        /\ UNCHANGED <<out, received, total, validator, resumable, reply>>
  /\ UNCHANGED <<serving, request, files, told>>

(* transfer.accept, given a range in answer to one.  The server honours    *)
(* If-Range; one that does not is found out only by the length it tells.   *)
(* Whatever range it sends, it sends its own body's bytes.                 *)
Part ==
  /\ Attempt /\ received > 0
  /\ \E start, end \in 1 .. Length[serving], declared \in {-1, Length[serving]} :
       /\ validator = serving \/ (declared >= 0 /\ total >= 0 /\ declared # total)
       /\ start <= end
       /\ IF CheckRange(start, end, declared) /\ ~OverLimit(declared)
          THEN /\ total' = IF total < 0 THEN declared ELSE total
               /\ \E framing \in Framings :
                    reply' = [of |-> serving, at |-> start, end |-> end,
                              framing |-> framing, partial |-> declared = -1]
               /\ pc' = "copy" /\ UNCHANGED <<resumable, retriable>>
          ELSE /\ resumable' = FALSE
               /\ Fail(~CheckRange(start, end, declared))
               /\ UNCHANGED <<total, reply>>
  /\ UNCHANGED <<serving, request, out, received, validator, files, told>>

(* transfer.copy, a byte at a time.                                        *)
Copy ==
  /\ pc = "copy" /\ reply.at <= reply.end
  /\ IF OverLimit(received + 1)
     THEN Fail(FALSE) /\ UNCHANGED <<out, received, reply>>
     ELSE /\ out' = Append(out, <<reply.of, reply.at>>)
          /\ received' = received + 1
          /\ reply' = [reply EXCEPT !.at = @ + 1]
          /\ UNCHANGED <<pc, retriable>>
  /\ UNCHANGED <<serving, request, total, validator, resumable, attempts, files, told>>

(* The connection breaks off, the watchdog stops waiting, the download is  *)
(* interrupted, or the destination does not take the bytes.                *)
BreakOff ==
  /\ pc = "copy"
  /\ \E again \in BOOLEAN : Fail(again)
  /\ UNCHANGED <<serving, request, out, transfer, reply, files, told>>

(* transfer.complete: the body ends.  Only one that ends with its          *)
(* connection can end too early without being noticed as broken off.       *)
End ==
  /\ pc = "copy"
  /\ reply.at > reply.end \/ reply.framing = "close"
  /\ IF Complete THEN pc' = "got" /\ UNCHANGED retriable ELSE Fail(TRUE)
  /\ UNCHANGED <<serving, request, out, transfer, reply, files, told>>

RetryWithoutRewind ==
  /\ pc = "failed" /\ retriable /\ attempts <= Retries
  /\ pc' = "wait"
  /\ UNCHANGED <<serving, request, out, transfer, reply, retriable, files, told>>

RetryOnceMore ==
  /\ pc = "failed" /\ retriable /\ attempts <= Retries + 1
  /\ received = 0 \/ resumable
  /\ pc' = "wait"
  /\ UNCHANGED <<serving, request, out, transfer, reply, retriable, files, told>>

(* transfer.run: another attempt, from where this one broke off or, once   *)
(* what was written is taken back, from the first byte.                    *)
Retry ==
  /\ pc = "failed" /\ retriable /\ attempts <= Retries
  /\ IF received > 0 /\ ~resumable
     THEN \/ TRUE \in Rewinds /\ pc' = "wait" /\ out' = <<>> /\ received' = 0
          \/ FALSE \in Rewinds /\ pc' = "gone" /\ UNCHANGED <<out, received>>
     ELSE pc' = "wait" /\ UNCHANGED <<out, received>>
  /\ UNCHANGED <<serving, request, total, validator, resumable, attempts, reply, retriable, files, told>>

(* None is left, or somebody interrupted it.                               *)
GiveUp ==
  /\ pc = "failed"
  /\ pc' = "gone"
  /\ UNCHANGED <<serving, request, out, transfer, reply, retriable, files, told>>

Wait ==
  /\ pc = "wait"
  /\ pc' \in {"request", "gone"}
  /\ UNCHANGED <<serving, request, out, transfer, reply, retriable, files, told>>

(* Get returned what it downloaded; a file is synced and closed first, and *)
(* a device closed.                                                        *)
Sync ==
  /\ pc = "got"
  /\ \/ destination = "file" /\ pc' = "synced" /\ UNCHANGED <<temporary, told>>
     \/ destination \in {"device", "file"} /\ temporary' = FALSE /\ Tell("failed")
     \/ destination # "file" /\ Tell("ok") /\ UNCHANGED temporary
  /\ UNCHANGED <<serving, request, out, transfer, reply, retriable, replaced>>

(* File.Commit: it gets the permissions of the file it is renamed over.    *)
Rename ==
  /\ pc = "synced"
  /\ temporary' = FALSE
  /\ \/ replaced' = TRUE /\ Tell("ok")
     \/ UNCHANGED replaced /\ Tell("failed")
  /\ UNCHANGED <<serving, request, out, transfer, reply, retriable>>

DiscardNothing ==
  /\ pc = "gone"
  /\ Tell("failed")
  /\ UNCHANGED <<serving, request, out, transfer, reply, retriable, files>>

(* File.Discard, deferred.                                                 *)
Discard ==
  /\ pc = "gone"
  /\ temporary' = FALSE
  /\ Tell("failed")
  /\ UNCHANGED <<serving, request, out, transfer, reply, retriable, replaced>>

Kill ==
  /\ pc \notin {"done", "killed"}
  /\ pc' = "killed"
  /\ UNCHANGED <<serving, request, out, transfer, reply, retriable, files, told>>

Downloader ==
  \/ CreateFile \/ Unanswered \/ RangeNotSatisfiable \/ PartUnasked \/ Whole \/ Part
  \/ Copy \/ BreakOff \/ End \/ Retry \/ GiveUp \/ Wait \/ Sync \/ Rename \/ Discard

Next == Downloader \/ Change \/ Kill

Spec == Init /\ [][Next]_vars

(* bb keeps running until it is killed, and its timeout ends every wait.   *)
FairSpec == Spec /\ WF_vars(Downloader)

----------------------------------------------------------------------------
(* Properties.                                                             *)

(* Every variable has its type (transfer, failure, File).                  *)
TypeOK ==
  /\ serving \in Versions /\ destination \in Destinations /\ limit \in Limits
  /\ pc \in {"start", "request", "copy", "failed", "wait", "got", "synced", "gone",
             "done", "killed"}
  /\ out \in Seq(Versions \X Nat)
  /\ received \in Nat /\ total \in Nat \cup {-1}
  /\ validator \in Versions \cup {"none"} /\ resumable \in BOOLEAN
  /\ attempts \in 0 .. Retries + 1
  /\ reply \in Replies
  /\ retriable \in BOOLEAN /\ temporary \in BOOLEAN /\ replaced \in BOOLEAN
  /\ told \in {"nothing", "ok", "failed"}

(* Nobody told how long the body is: it ends with its connection, or is a  *)
(* range of a body of unknown length.                                      *)
Unmeasured == total < 0 /\ (reply.framing = "close" \/ reply.partial)

Delivered == INSTANCE Delivery WITH
  takesBack <- destination \in {"memory", "file"},
  open <- Unmeasured

(* What arrives is always the beginning of one body, whatever changes,     *)
(* breaks off or is sent twice, and replaces a file, or is told to have    *)
(* arrived, only once it is whole (transfer.run, File, ADR-093).           *)
DeliversOneBody == Delivered!Spec

(* A request for the rest of a body is made with the validator of the body *)
(* whose beginning is held (transfer.newRequest): "so a resumed request is *)
(* answered from the same body or not at all" (download.go:131).           *)
ResumesWhatItHolds ==
  pc = "request" /\ received > 0 =>
    resumable /\ received = Len(out) /\ \A i \in 1 .. received : out[i] = <<validator, i>>

(* "A download that fails leaves nothing behind, and a file already there  *)
(* stays as it was" (destination.go:83), unless bb is killed.              *)
LeavesNothingBehind ==
  pc = "done" => ~temporary /\ (replaced <=> destination = "file" /\ told = "ok")

(* A download ends, unless bb is killed: its attempts are bounded and each *)
(* wait has a timeout.                                                     *)
DownloadEnds == <>(pc \in {"done", "killed"})
=============================================================================
