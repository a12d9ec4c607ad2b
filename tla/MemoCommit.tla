----------------------------- MODULE MemoCommit -----------------------------
(***************************************************************************)
(* The memo store: rows in the database, .adoc files in a Git work tree.   *)
(* MemosController handles one request per process; a request loads a row, *)
(* changes an in-memory copy of it, and writes the row, the memo's tags,   *)
(* the work tree, the index and HEAD in separate steps.  Nothing but the   *)
(* flock of MemoRepository#with_repo_lock orders the steps of two requests.*)
(***************************************************************************)
EXTENDS Integers, FiniteSets

CONSTANTS
  Memos, Procs, Titles, Frags, Tags, Stems,
  StemOf,          \* the slug stem derived from a title
  Payloads,        \* the form contents a user may submit
  OpsOf,           \* the operations each process may be asked for
  CanCrash,        \* TRUE: a process may die between two steps
  TicksPerSecond,  \* updated_at is finer than a commit's epoch second
  MaxClock,        \* bound: no request starts once the clock is here
  NoFile, NotYet, Deleted, Nobody

Ops == {"create", "apiCreate", "draft", "update", "commit", "revert",
        "append", "toggle", "updateTags", "destroy"}

Contents == [title : Titles, body : SUBSET Frags, tags : SUBSET Tags]

ASSUME StemOfAssumption   == StemOf \in [Titles -> Stems]
ASSUME PayloadsAssumption == Payloads \subseteq Contents
ASSUME OpsAssumption      == OpsOf \in [Procs -> SUBSET Ops]
ASSUME TicksAssumption    == TicksPerSecond \in Nat \ {0} /\ MaxClock \in Nat
ASSUME CrashAssumption    == CanCrash \in BOOLEAN

\* A row of memos with its tags. fca is file_committed_at, 0 when blank.
Rows == [title : Titles, body : SUBSET Frags, tags : SUBSET Tags,
         slug : Stems, fca : Nat, upd : Nat]
Absent == {NotYet, Deleted}

ASSUME NoFileAssumption == NoFile \notin Contents
ASSUME AbsentAssumption == Absent \cap Rows = {} /\ NotYet # Deleted
ASSUME NobodyAssumption == Nobody \notin Procs

Pcs == {"tags", "check", "relocate", "write", "add", "gitcommit", "save",
        "stamp", "touch", "path", "blob", "restore", "remove", "unstamp"}
Idle == [pc |-> "idle"]

\* A request: the row as set_memo loaded it, the changed copy, and the path it
\* found (the old path of a draft, the committed path of a revert).
Requests == [pc : Pcs, op : Ops, memo : Memos, ld : Rows, mem : Rows, at : Stems]

VARIABLES
  db,      \* memo -> row
  tree,    \* memo -> stem -> file in the work tree
  index,   \* memo -> stem -> staged blob
  head,    \* memo -> stem -> blob of HEAD
  stamp,   \* memo -> stem -> epoch second of the last commit touching the path
  lock,    \* holder of .kbmemo_git.lock
  clock,   \* Time.current
  req      \* process -> request

git == <<tree, index, head, stamp>>
vars == <<db, tree, index, head, stamp, lock, clock, req>>

Files == [Memos -> [Stems -> Contents \cup {NoFile}]]

TypeOK ==
  /\ db \in [Memos -> Rows \cup Absent]
  /\ tree \in Files /\ index \in Files /\ head \in Files
  /\ stamp \in [Memos -> [Stems -> Nat]]
  /\ lock \in Procs \cup {Nobody}
  /\ clock \in Nat
  /\ req \in [Procs -> Requests \cup {Idle}]

-----------------------------------------------------------------------------
\* Helpers

Exists(m) == db[m] \notin Absent
Content(row) == [title |-> row.title, body |-> row.body, tags |-> row.tags]
Text(c) == <<c.title, c.body>>
Draft(row) == row.fca = 0 \/ row.upd > row.fca
Second(t) == t \div TicksPerSecond
HeadPaths(m) == {s \in Stems : head[m][s] # NoFile}

\* Mutated: the slug follows the title even after the first commit.
SlugAlwaysDerived(row, title) == StemOf[title]

\* prepare_slug_from_title_and_manual: derived from the title until committed.
SlugFor(row, title) == IF row.fca # 0 THEN row.slug ELSE StemOf[title]

\* The copy of row after the form contents c are assigned to it.
Assigned(row, c) ==
  [row EXCEPT !.title = c.title, !.body = c.body, !.tags = c.tags,
              !.slug = SlugFor(row, c.title)]

Columns(row) == <<row.title, row.body, row.slug>>
Changed(r) == Columns(r.mem) # Columns(r.ld)

\* Mutated: updated_at stays as it was.
MergedWithoutTouch(row, r, now) ==
  [row EXCEPT !.title = r.mem.title, !.body = r.mem.body, !.slug = r.mem.slug]

\* UPDATE of the columns that differ from the loaded copy, and of updated_at.
Merged(row, r, now) ==
  [row EXCEPT !.title = IF r.mem.title # r.ld.title THEN r.mem.title ELSE @,
              !.body  = IF r.mem.body  # r.ld.body  THEN r.mem.body  ELSE @,
              !.slug  = IF r.mem.slug  # r.ld.slug  THEN r.mem.slug  ELSE @,
              !.upd   = now]

\* UPDATE of a row that is gone touches nothing.
PutRow(m, row) == db' = IF Exists(m) THEN [db EXCEPT ![m] = row] ELSE db

At(p, pc) == req[p].pc = pc
Go(p, pc) == req' = [req EXCEPT ![p].pc = pc]
Finish(p) == req' = [req EXCEPT ![p] = Idle]

Init ==
  /\ db = [m \in Memos |-> NotYet]
  /\ tree = [m \in Memos |-> [s \in Stems |-> NoFile]]
  /\ index = tree /\ head = tree
  /\ stamp = [m \in Memos |-> [s \in Stems |-> 0]]
  /\ lock = Nobody
  /\ clock = 1
  /\ req = [p \in Procs |-> Idle]

-----------------------------------------------------------------------------
\* Starting a request: set_memo loads the row, the action changes the copy.

CanStart(p, op) == At(p, "idle") /\ op \in OpsOf[p] /\ clock < MaxClock

Start(p, op, m, mem, pc) ==
  req' = [req EXCEPT ![p] = [pc |-> pc, op |-> op, memo |-> m,
                             ld |-> db[m], mem |-> mem, at |-> db[m].slug]]

\* PATCH draft (the autosave) and PATCH update carry the whole form.
BeginDraft(p, m, c) ==
  /\ CanStart(p, "draft") /\ Exists(m)
  /\ Start(p, "draft", m, Assigned(db[m], c), "tags")
  /\ UNCHANGED <<db, git, lock, clock>>

BeginUpdate(p, m, c) ==
  /\ CanStart(p, "update") /\ Exists(m)
  /\ Start(p, "update", m, Assigned(db[m], c), "tags")
  /\ UNCHANGED <<db, git, lock, clock>>

\* Mutated: the database is stamped without going through Git.
BeginCommitDbOnly(p, m) ==
  /\ CanStart(p, "commit") /\ Exists(m) /\ Draft(db[m])
  /\ Start(p, "commit", m, Assigned(db[m], Content(db[m])), "save")
  /\ UNCHANGED <<db, git, lock, clock>>

\* POST commit writes the row as loaded; a memo that is no draft is left alone.
BeginCommit(p, m) ==
  /\ CanStart(p, "commit") /\ Exists(m) /\ Draft(db[m])
  /\ Start(p, "commit", m, Assigned(db[m], Content(db[m])), "write")
  /\ UNCHANGED <<db, git, lock, clock>>

BeginRevert(p, m) ==
  /\ CanStart(p, "revert") /\ Exists(m) /\ db[m].fca # 0
  /\ Start(p, "revert", m, db[m], "path")
  /\ UNCHANGED <<db, git, lock, clock>>

\* PATCH checklist_toggle flips one mark of the body, the title stays.
BeginToggle(p, m, f) ==
  /\ CanStart(p, "toggle") /\ Exists(m)
  /\ LET body == IF f \in db[m].body THEN db[m].body \ {f} ELSE db[m].body \cup {f}
     IN  Start(p, "toggle", m, [db[m] EXCEPT !.body = body], "save")
  /\ UNCHANGED <<db, git, lock, clock>>

BeginUpdateTags(p, m, tags) ==
  /\ CanStart(p, "updateTags") /\ Exists(m)
  /\ Start(p, "updateTags", m, [db[m] EXCEPT !.tags = tags], "tags")
  /\ UNCHANGED <<db, git, lock, clock>>

\* POST create inserts the row and its tags in one transaction.
NewRow(c) ==
  [title |-> c.title, body |-> c.body, tags |-> c.tags, slug |-> StemOf[c.title],
   fca |-> 0, upd |-> clock + 1]

Create(p, m, c) ==
  /\ CanStart(p, "create") /\ db[m] = NotYet
  /\ db' = [db EXCEPT ![m] = NewRow(c)]
  /\ clock' = clock + 1
  /\ UNCHANGED <<git, lock, req>>

\* Api::V1::MemoWriter#create! inserts, then runs the commit pipeline.
ApiCreate(p, m, c) ==
  /\ CanStart(p, "apiCreate") /\ db[m] = NotYet
  /\ db' = [db EXCEPT ![m] = NewRow(c)]
  /\ clock' = clock + 1
  /\ req' = [req EXCEPT ![p] = [pc |-> "write", op |-> "apiCreate", memo |-> m,
                                ld |-> NewRow(c), mem |-> NewRow(c), at |-> StemOf[c.title]]]
  /\ UNCHANGED <<git, lock>>

\* append_ai_reply re-reads the row under a row lock and saves in that transaction.
Append(p, m, f) ==
  /\ CanStart(p, "append") /\ Exists(m) /\ f \notin db[m].body
  /\ db' = [db EXCEPT ![m].body = @ \cup {f}, ![m].upd = clock + 1]
  /\ clock' = clock + 1
  /\ UNCHANGED <<git, lock, req>>

\* Deleting a memo leaves its files in Git.
Destroy(p, m) ==
  /\ CanStart(p, "destroy") /\ Exists(m)
  /\ db' = [db EXCEPT ![m] = Deleted]
  /\ UNCHANGED <<git, lock, clock, req>>

-----------------------------------------------------------------------------
\* Steps of a request

\* Assigning tags to a persisted memo writes memo_tags at once, as the
\* difference from the loaded tags, and leaves updated_at alone.  A tag another
\* request has added meanwhile, or a memo that is gone, fails the insert.
AfterTags(r) ==
  CASE r.op = "draft"      -> IF r.at # r.mem.slug THEN "check" ELSE "save"
    [] r.op = "update"     -> "write"
    [] r.op = "revert"     -> "restore"
    [] r.op = "updateTags" -> "touch"

WriteTags(p) ==
  LET r == req[p]
      m == r.memo
      added == r.mem.tags \ r.ld.tags
      removed == r.ld.tags \ r.mem.tags
      conflict == IF Exists(m) THEN added \cap db[m].tags # {} ELSE added # {}
  IN  /\ At(p, "tags")
      /\ \/ /\ ~conflict
            /\ PutRow(m, [db[m] EXCEPT !.tags = (@ \ removed) \cup added])
            /\ Go(p, AfterTags(r))
         \/ conflict /\ Finish(p) /\ UNCHANGED db
      /\ UNCHANGED <<git, lock, clock>>

\* draft looks for a file at the old path before it takes the lock.
CheckOld(p) ==
  LET r == req[p] IN
  /\ At(p, "check")
  /\ Go(p, IF tree[r.memo][r.at] # NoFile THEN "relocate" ELSE "save")
  /\ UNCHANGED <<db, git, lock, clock>>

\* relocate_path!, locked from ls-files to mv.  A source that has vanished is
\* noticed before the lock (nothing to move) or by mv (the request fails).
Relocate(p) ==
  LET r == req[p]
      m == r.memo
      from == r.at
      to == r.mem.slug
      moved(files) == [files EXCEPT ![m][to] = files[m][from], ![m][from] = NoFile]
      tracked == index[m][from] # NoFile
      source == tree[m][from] # NoFile
  IN  /\ At(p, "relocate") /\ lock = Nobody
      /\ \/ /\ source /\ tracked /\ tree[m][to] = NoFile
            /\ tree' = moved(tree) /\ index' = moved(index)
            /\ Go(p, "save")
         \/ /\ source /\ ~tracked
            /\ tree' = moved(tree) /\ UNCHANGED index
            /\ Go(p, "save")
         \/ source /\ tracked /\ tree[m][to] # NoFile /\ Finish(p) /\ UNCHANGED <<tree, index>>
         \/ ~source /\ (Go(p, "save") \/ Finish(p)) /\ UNCHANGED <<tree, index>>
      /\ UNCHANGED <<db, head, stamp, lock, clock>>

\* write_and_commit! writes the file before it takes the lock.
WriteFile(p) ==
  LET r == req[p] IN
  /\ At(p, "write")
  /\ tree' = [tree EXCEPT ![r.memo][r.mem.slug] = Content(r.mem)]
  /\ Go(p, "add")
  /\ UNCHANGED <<db, index, head, stamp, lock, clock>>

\* Mutated: git add runs before the lock is taken.
AddUnlocked(p) ==
  LET r == req[p] IN
  /\ At(p, "add") /\ tree[r.memo][r.mem.slug] # NoFile
  /\ index' = [index EXCEPT ![r.memo][r.mem.slug] = tree[r.memo][r.mem.slug]]
  /\ lock' = p
  /\ Go(p, "gitcommit")
  /\ UNCHANGED <<db, tree, head, stamp, clock>>

\* git add stages the file as it is now, or its deletion if it has vanished;
\* a path known neither to the work tree nor to the index is an error.
Add(p) ==
  LET r == req[p]
      m == r.memo
      s == r.mem.slug
  IN  /\ At(p, "add") /\ lock = Nobody
      /\ IF tree[m][s] = NoFile /\ index[m][s] = NoFile
         THEN Finish(p) /\ UNCHANGED <<index, lock>>
         ELSE /\ index' = [index EXCEPT ![m][s] = tree[m][s]]
              /\ lock' = p
              /\ Go(p, "gitcommit")
      /\ UNCHANGED <<db, tree, head, stamp, clock>>

\* Mutated: the lock is not released after the commit.
GitCommitKeepsLock(p) ==
  /\ At(p, "gitcommit")
  /\ head' = index
  /\ Go(p, "save")
  /\ UNCHANGED <<db, tree, index, stamp, lock, clock>>

\* git commit records the whole index, staged changes of other memos included.
GitCommit(p) ==
  /\ At(p, "gitcommit")
  /\ head' = index
  /\ stamp' = [m \in Memos |-> [s \in Stems |->
                 IF head[m][s] # index[m][s] THEN Second(clock) ELSE stamp[m][s]]]
  /\ lock' = Nobody
  /\ Go(p, "save")
  /\ UNCHANGED <<db, tree, index, clock>>

\* Mutated: a saved draft is left without an end.
AfterSaveForgets(op) == IF op = "draft" THEN "saved" ELSE "stamp"

\* save writes the columns that changed; only then does updated_at move.
AfterSave(op) ==
  CASE op \in {"update", "commit", "apiCreate"} -> "stamp"
    [] op = "revert"                            -> "unstamp"
    [] OTHER                                    -> "idle"

Save(p) ==
  LET r == req[p]
      pc == AfterSave(r.op)
      saved == IF Changed(r) THEN [r EXCEPT !.mem.upd = clock + 1] ELSE r
  IN  /\ At(p, "save")
      /\ IF Changed(r)
         THEN clock' = clock + 1 /\ PutRow(r.memo, Merged(db[r.memo], r, clock + 1))
         ELSE UNCHANGED <<clock, db>>
      /\ req' = [req EXCEPT ![p] = IF pc = "idle" THEN Idle ELSE [saved EXCEPT !.pc = pc]]
      /\ UNCHANGED <<git, lock>>

\* Mutated: stamped with the present time instead of the copy's updated_at.
StampNow(p) ==
  LET r == req[p] IN
  /\ At(p, "stamp")
  /\ PutRow(r.memo, [db[r.memo] EXCEPT !.fca = clock])
  /\ Finish(p)
  /\ UNCHANGED <<git, lock, clock>>

\* Mutated: the whole copy is saved along with the stamp.
StampWholeRow(p) ==
  LET r == req[p] IN
  /\ At(p, "stamp")
  /\ PutRow(r.memo, [r.mem EXCEPT !.fca = r.mem.upd])
  /\ Finish(p)
  /\ UNCHANGED <<git, lock, clock>>

\* update_column(:file_committed_at, updated_at of the copy just saved)
StampCommitted(p) ==
  LET r == req[p] IN
  /\ At(p, "stamp")
  /\ PutRow(r.memo, [db[r.memo] EXCEPT !.fca = r.mem.upd])
  /\ Finish(p)
  /\ UNCHANGED <<git, lock, clock>>

Touch(p) ==
  LET r == req[p] IN
  /\ At(p, "touch")
  /\ clock' = clock + 1
  /\ PutRow(r.memo, [db[r.memo] EXCEPT !.upd = clock + 1])
  /\ Finish(p)
  /\ UNCHANGED <<git, lock>>

\* committed_relative_path_for: of the memo's paths in HEAD one committed last.
FindCommittedPath(p) ==
  LET r == req[p]
      paths == HeadPaths(r.memo)
  IN  /\ At(p, "path")
      /\ \/ paths = {} /\ Finish(p)
         \/ \E s \in paths :
              /\ \A t \in paths : stamp[r.memo][s] >= stamp[r.memo][t]
              /\ req' = [req EXCEPT ![p].at = s, ![p].pc = "blob"]
      /\ UNCHANGED <<db, git, lock, clock>>

\* git show HEAD:path, then the copy takes the committed fields and the path's slug.
ReadBlob(p) ==
  LET r == req[p]
      blob == head[r.memo][r.at]
  IN  /\ At(p, "blob")
      /\ IF blob = NoFile
         THEN Finish(p)
         ELSE req' = [req EXCEPT ![p].pc = "tags",
                        ![p].mem = [r.mem EXCEPT !.title = blob.title, !.body = blob.body,
                                                 !.tags = blob.tags, !.slug = r.at]]
      /\ UNCHANGED <<db, git, lock, clock>>

\* The revert rewrites the work tree without the lock and without git.
RestoreFile(p) ==
  LET r == req[p] IN
  /\ At(p, "restore")
  /\ tree' = [tree EXCEPT ![r.memo][r.at] = Content(r.mem)]
  /\ Go(p, "remove")
  /\ UNCHANGED <<db, index, head, stamp, lock, clock>>

RemoveOtherFiles(p) ==
  LET r == req[p] IN
  /\ At(p, "remove")
  /\ tree' = [tree EXCEPT ![r.memo] = [s \in Stems |-> IF s = r.at THEN @[s] ELSE NoFile]]
  /\ Go(p, "save")
  /\ UNCHANGED <<db, index, head, stamp, lock, clock>>

\* Mutated: updated_at stays where the save put it.
KeepUpdatedAt(p) ==
  At(p, "unstamp") /\ Finish(p) /\ UNCHANGED <<db, git, lock, clock>>

\* update_columns(updated_at: file_committed_at as loaded)
RestoreUpdatedAt(p) ==
  LET r == req[p] IN
  /\ At(p, "unstamp")
  /\ PutRow(r.memo, [db[r.memo] EXCEPT !.upd = r.ld.fca])
  /\ Finish(p)
  /\ UNCHANGED <<git, lock, clock>>

\* The process dies; flock goes with it, everything written stays.
Crash(p) ==
  /\ CanCrash /\ ~At(p, "idle")
  /\ Finish(p)
  /\ lock' = IF lock = p THEN Nobody ELSE lock
  /\ UNCHANGED <<db, git, clock>>

-----------------------------------------------------------------------------
Begin(p) ==
  \E m \in Memos :
    \/ \E c \in Payloads :
         BeginDraft(p, m, c) \/ BeginUpdate(p, m, c) \/ Create(p, m, c) \/ ApiCreate(p, m, c)
    \/ \E f \in Frags : BeginToggle(p, m, f) \/ Append(p, m, f)
    \/ \E tags \in SUBSET Tags : BeginUpdateTags(p, m, tags)
    \/ BeginCommit(p, m) \/ BeginRevert(p, m) \/ Destroy(p, m)

LockingStep(p) == Relocate(p) \/ Add(p)

FreeStep(p) ==
  \/ WriteTags(p) \/ CheckOld(p) \/ WriteFile(p) \/ GitCommit(p)
  \/ Save(p) \/ StampCommitted(p) \/ Touch(p)
  \/ FindCommittedPath(p) \/ ReadBlob(p) \/ RestoreFile(p) \/ RemoveOtherFiles(p)
  \/ RestoreUpdatedAt(p)

Next == \E p \in Procs : Begin(p) \/ LockingStep(p) \/ FreeStep(p) \/ Crash(p)

Spec == Init /\ [][Next]_vars

\* A started request goes on (the server schedules its threads); flock serves
\* those who wait for it.  Users owe nothing, and a crash never has to happen.
Fairness == \A p \in Procs : WF_vars(FreeStep(p)) /\ SF_vars(LockingStep(p))

FairSpec == Spec /\ Fairness

-----------------------------------------------------------------------------
\* Properties

Quiet(m) == \A p \in Procs : At(p, "idle") \/ req[p].memo # m
Clean(m) == Exists(m) /\ Quiet(m) /\ ~Draft(db[m])

\* A memo that no request is working on and that is not shown as a draft
\* (display_as_draft?) has its title and body in HEAD, at the path of its slug.
CleanTextMatchesHead ==
  \A m \in Memos : Clean(m) =>
    /\ head[m][db[m].slug] # NoFile
    /\ Text(head[m][db[m].slug]) = Text(db[m])

\* A memo with a file_committed_at has a file in HEAD that revert_draft can
\* read, whatever other requests, renames and crashes do to the repository.
CommittedHasHead ==
  \A m \in Memos : Exists(m) /\ db[m].fca # 0 => HeadPaths(m) # {}

\* What a request has staged is still what the index holds when it commits: from
\* git add to git commit no other commit or rename touches the index.
StagedEntrySurvives ==
  [][(\E p \in Procs : At(p, "gitcommit")) => UNCHANGED index]_vars

\* Text leaves a body only with a request whose form changed that body: a reply
\* appended by append_ai_reply survives commits, tag changes and retitling drafts
\* that have loaded the row before it.
AppendedTextSurvives ==
  [][\A m \in Memos : Exists(m) /\ Exists(m)' /\ ~(db[m].body \subseteq db'[m].body)
       => \E p \in Procs : /\ At(p, "save") /\ req[p].memo = m
                          /\ req[p].mem.body # req[p].ld.body]_vars

\* Once a memo is committed, its slug (its path in Git) is kept.
SlugKeptOnceCommitted ==
  [][\A m \in Memos : Exists(m) /\ Exists(m)' /\ db[m].fca # 0
       => db'[m].slug = db[m].slug]_vars

\* A memo keeps one path in HEAD and one in the work tree.
OnePathPerMemo ==
  \A m \in Memos :
    /\ Cardinality(HeadPaths(m)) <= 1
    /\ Cardinality({s \in Stems : tree[m][s] # NoFile}) <= 1

\* When revert_draft ends, the row, the work tree and HEAD agree again and the
\* memo is no draft.
RevertRestores ==
  [][\A p \in Procs : RestoreUpdatedAt(p) /\ Exists(req[p].memo) =>
       LET m == req[p].memo IN
       /\ ~Draft(db'[m])
       /\ Content(db'[m]) = head[m][db'[m].slug]
       /\ tree[m] = head[m]]_vars

\* Every request that is started ends.
EveryRequestEnds == \A p \in Procs : ~At(p, "idle") ~> At(p, "idle")

-----------------------------------------------------------------------------
\* What makes the invariants inductive

\* The steps a handler takes.
StepsOf(op) ==
  CASE op = "draft"                   -> {"tags", "check", "relocate", "save"}
    [] op = "update"                  -> {"tags", "write", "add", "gitcommit", "save", "stamp"}
    [] op \in {"commit", "apiCreate"} -> {"write", "add", "gitcommit", "save", "stamp"}
    [] op = "revert"                  -> {"path", "blob", "tags", "restore", "remove", "save",
                                          "unstamp"}
    [] op = "toggle"                  -> {"save"}
    [] op = "updateTags"              -> {"tags", "touch"}
    [] OTHER                          -> {}

HandlersKeepTheirSteps ==
  \A p \in Procs : ~At(p, "idle") =>
    req[p].op \in OpsOf[p] /\ req[p].pc \in StepsOf(req[p].op)

CommitterHoldsLock == \A p \in Procs : At(p, "gitcommit") => lock = p

RelocateMoves ==
  \A p \in Procs : At(p, "check") \/ At(p, "relocate") => req[p].at # req[p].mem.slug

Has(files, m) == \E s \in Stems : files[m][s] # NoFile

\* Without reverts a staged path keeps its file, and the index loses no memo.
IndexHasTree == \A m \in Memos, s \in Stems : index[m][s] # NoFile => tree[m][s] # NoFile
HeadStaysStaged == \A m \in Memos : Has(head, m) => Has(index, m)

StagedHasEntry ==
  \A p \in Procs : At(p, "gitcommit") => index[req[p].memo][req[p].mem.slug] # NoFile

\* A commit that has passed git commit has its memo in HEAD.
CommittedBeforeStamp ==
  \A p \in Procs :
    /\ ~At(p, "idle")
    /\ req[p].pc \in {"save", "stamp"} /\ req[p].op \in {"update", "commit", "apiCreate"}
    => Has(head, req[p].memo)

HeadInv ==
  /\ RelocateMoves /\ IndexHasTree /\ HeadStaysStaged /\ StagedHasEntry
  /\ CommittedBeforeStamp /\ CommittedHasHead
=============================================================================
