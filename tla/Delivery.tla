------------------------------ MODULE Delivery ------------------------------
(***************************************************************************)
(* What a download promises (ADR-093): what arrives is always the          *)
(* beginning of one body, and never more of it than the limit; it starts   *)
(* over only where the destination can take back what it holds; and a file *)
(* is replaced, or the caller told that all went well, only by a body that *)
(* is complete, as far as anybody told how long it is.                     *)
(***************************************************************************)
EXTENDS Naturals, Sequences

CONSTANTS
  Versions,  \* the bodies one URL has over time
  Length     \* how many bytes each has

VARIABLES
  limit,     \* the most bytes it may have, or 0 for no limit
  takesBack, \* whether the destination can give up what it holds
  out,       \* the bytes it holds, each named by its body and its place
  open,      \* whether nobody told how long the body is
  replaced,  \* whether the file that was there before is gone
  told       \* what the caller is told

vars == <<limit, takesBack, out, open, replaced, told>>

Body(version) == [i \in 1 .. Length[version] |-> <<version, i>>]

IsWhole == \E version \in Versions : out = Body(version)

Init ==
  /\ limit \in Nat /\ takesBack \in BOOLEAN
  /\ out = <<>> /\ open \in BOOLEAN /\ replaced = FALSE /\ told = "nothing"

Same == UNCHANGED <<limit, takesBack>>

Answered ==
  /\ open' \in BOOLEAN
  /\ told = "nothing" /\ ~replaced
  /\ Same /\ UNCHANGED <<out, replaced, told>>

Extend ==
  /\ told = "nothing" /\ ~replaced
  /\ limit = 0 \/ Len(out) < limit
  /\ \E version \in Versions :
       /\ out = <<>> \/ out[1] = <<version, 1>>
       /\ Len(out) < Length[version]
       /\ out' = Append(out, <<version, Len(out) + 1>>)
  /\ Same /\ UNCHANGED <<open, replaced, told>>

StartOver ==
  /\ told = "nothing" /\ ~replaced /\ takesBack
  /\ out' = <<>> /\ open' \in BOOLEAN
  /\ Same /\ UNCHANGED <<replaced, told>>

Replace ==
  /\ told = "nothing" /\ ~replaced /\ takesBack
  /\ IsWhole \/ open
  /\ replaced' = TRUE
  /\ told' \in {"nothing", "ok"}
  /\ Same /\ UNCHANGED <<out, open>>

Tell(what) ==
  /\ told = "nothing"
  /\ what = "ok" => IsWhole \/ open
  /\ what = "failed" => ~replaced
  /\ told' = what
  /\ Same /\ UNCHANGED <<out, open, replaced>>

Next == Answered \/ Extend \/ StartOver \/ Replace \/ Tell("ok") \/ Tell("failed")

Spec == Init /\ [][Next]_vars
=============================================================================
