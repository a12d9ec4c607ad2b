---------------------------- MODULE MCMemoCommit ----------------------------
(* Small instances of MemoCommit for TLC: two titles with different stems,  *)
(* a body of up to two fragments, one tag.                                  *)
EXTENDS MemoCommit, TLC

CONSTANTS t1, t2, s1, s2, x, y, tag

MCTitles == {t1, t2}
MCStems == {s1, s2}
MCFrags == {x, y}
MCTags == {tag}
MCStemOf == t1 :> s1 @@ t2 :> s2

Form(title, body, tags) == [title |-> title, body |-> body, tags |-> tags]
\* Every title with every body, with and without the tag.
AllForms == [title : MCTitles, body : SUBSET MCFrags, tags : SUBSET MCTags]
\* Two titles for one text, and a third form that only adds a tag.
TwoTitles == {Form(t1, {x}, {}), Form(t2, {x}, {})}
FewForms == TwoTitles \cup {Form(t1, {x}, {tag})}

AllOps == [p \in Procs |-> Ops]
\* The requests that write or move a file under the lock.
FileOps == [p \in Procs |-> {"create", "draft", "update", "commit"}]

CONSTANTS p1, p2
\* p1 commits what is stored; p2 saves drafts, marks, tags and replies meanwhile.
CommitOrSave == p1 :> {"create", "apiCreate", "commit"}
             @@ p2 :> {"draft", "append", "toggle", "updateTags", "destroy"}
RevertOrUpdate == p1 :> {"create", "apiCreate", "commit", "revert"}
               @@ p2 :> {"create", "draft", "update"}
=============================================================================
