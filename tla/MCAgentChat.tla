----------------------------- MODULE MCAgentChat -----------------------------
(* Small instances of AgentChat: an empty page, and one reopened while the    *)
(* picture of its only answer is being drawn.                                 *)
EXTENDS AgentChat

NewChat == <<>>
Watching ==
  <<[role |-> "user", turn |-> None, images |-> {}, status |-> "none"],
    [role |-> "assistant", turn |-> None, images |-> {}, status |-> "drafting"]>>
MCHistories == {NewChat, Watching}
=============================================================================
