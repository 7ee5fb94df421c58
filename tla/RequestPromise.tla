--------------------------- MODULE RequestPromise ---------------------------
(***************************************************************************)
(* What bb promises about a request it never replays (ADR-009, ADR-011): a *)
(* POST or a PATCH takes effect at most once, and the error kind it ends   *)
(* with says whether it may have: transient, permanent, cancelled and a    *)
(* refusal say it did not and will not, unknown_outcome says somebody has  *)
(* to look.  A copy that is still on its way when bb answers may land      *)
(* later; only an unknown outcome leaves room for that.                    *)
(*                                                                         *)
(* The code makes two exceptions, both for a body that is no use.  One     *)
(* that could not be used -- cut short, or no JSON of the documented type  *)
(* -- may end a request that was carried out as one that was not.  And a   *)
(* success whose body nobody reads is taken for one, whoever sent it, so   *)
(* that bb may tell ok of a request nobody carried out.                    *)
(***************************************************************************)
CONSTANT Copies    \* the times one request can be sent

VARIABLES
  sent,     \* whether a copy of it was written to a connection
  landed,   \* the copies that took effect
  garbled,  \* whether the last answer's body could not be used
  unread,   \* whether it is no use, and nobody reads it
  told      \* what the caller was told

vars == <<sent, landed, garbled, unread, told>>

NotDone == {"refused", "transient", "permanent", "cancelled"}
Tellings == NotDone \cup {"ok", "unknown_outcome"}

Init == sent = FALSE /\ landed = {} /\ garbled = FALSE /\ unread = FALSE /\ told = "nothing"

Send ==
  /\ told = "nothing"
  /\ sent' = TRUE
  /\ UNCHANGED <<landed, garbled, unread, told>>

(* It takes effect, maybe after the caller was told that nobody knows.     *)
Land ==
  /\ sent /\ landed = {}
  /\ told \in {"nothing", "unknown_outcome"} \/ garbled
  /\ \E copy \in Copies : landed' = {copy}
  /\ UNCHANGED <<sent, garbled, unread, told>>

Hear ==
  /\ told = "nothing"
  /\ garbled' \in BOOLEAN /\ unread' \in BOOLEAN
  /\ UNCHANGED <<sent, landed, told>>

Tell(kind) ==
  /\ told = "nothing"
  /\ told' = kind
  /\ kind = "ok" => landed # {} \/ unread
  /\ kind = "unknown_outcome" => sent
  /\ kind \in NotDone => landed = {} \/ garbled
  /\ UNCHANGED <<sent, landed, garbled, unread>>

Next == Send \/ Land \/ Hear \/ \E kind \in Tellings : Tell(kind)

Spec == Init /\ [][Next]_vars
=============================================================================
