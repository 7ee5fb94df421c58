------------------------- MODULE MCPullRequestWrite -------------------------
(* Small instances of PullRequestWrite for TLC. *)
EXTENDS PullRequestWrite

CONSTANTS w1, u1, u2

Asked(op) == [op |-> op, draft |-> Keep, reviewers |-> Keep]

MCCommands ==
  {Asked("update"), [Asked("update") EXCEPT !.reviewers = {u1}],
   [Asked("draft") EXCEPT !.draft = FALSE],
   Asked("decline"), Asked("reopen"), Asked("merge"), Asked("rebase"),
   [Asked("addReviewer") EXCEPT !.reviewers = {u1}],
   [Asked("removeReviewer") EXCEPT !.reviewers = {u1}]}
=============================================================================
