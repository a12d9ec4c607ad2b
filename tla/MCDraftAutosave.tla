--------------------------- MODULE MCDraftAutosave ---------------------------
(* Small instances of DraftAutosave: an empty body and two others, one title *)
(* a user types, one tag, one property.                                      *)
EXTENDS DraftAutosave, TLC

CONSTANTS t1, t2, b0, b1, b2, h1, h2, own, tag, p0, p1

MCBodies == {b0, b1, b2}
MCDerived == b0 :> Untitled @@ b1 :> h1 @@ b2 :> h2
MCCustom == {own}
MCTags == {tag}
MCProps == {p0, p1}

StoredForm == [body |-> b1, title |-> h1, manual |-> FALSE, tags |-> {}, props |-> p0]
UntitledForm == [body |-> b1, title |-> Untitled, manual |-> TRUE, tags |-> {}, props |-> p0]

\* Everything in one tab, on a stored memo, one without a title and a new one;
\* bodies, titles and suggestions in two tabs.
MCScenes ==
  [form : {StoredForm, UntitledForm, NoForm}, doing : {t1 :> Ops @@ t2 :> {}}]
  \cup [form : {StoredForm}, doing : {[t \in Tabs |-> {"body", "title", "suggest"}]}]
=============================================================================
