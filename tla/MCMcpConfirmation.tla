------------------------- MODULE MCMcpConfirmation -------------------------
(* Small instances of McpConfirmation for TLC. *)
EXTENDS McpConfirmation, TLC

Request(t, i, v) == [tool |-> t, input |-> i, version |-> v]

(* A merge that leaves the version to the confirmation, one that names it,  *)
(* and a tag, which pins nothing.                                           *)
MCMerge == Request("merge", "pr", NoVersion)
MCMergeAt0 == Request("merge", "pr@0", 0)
MCTag == Request("tag", "v1", NoVersion)
MCOtherTag == Request("tag", "v2", NoVersion)
MCTitle == Request("update", "title", NoVersion)

MCPinTools == {"merge"}
MCOneTag == {MCTag}
MCAll == {MCMerge, MCMergeAt0, MCTag, MCOtherTag, MCTitle}

MCRefused == {MCOtherTag}
MCUnasked == {MCTitle}
MCOutOfScope == {MCTag}

MCSymmetry == Permutations(Calls)
=============================================================================
