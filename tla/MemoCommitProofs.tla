-------------------------- MODULE MemoCommitProofs --------------------------
(* Proofs about MemoCommit for every number of memos, processes and texts. *)
EXTENDS MemoCommit, FiniteSetTheorems, TLAPS

-----------------------------------------------------------------------------
\* Helpers

\* A form assigned to a row (assign_memo_fields) gives a row with a slug.
LEMMA AssignedType ==
  ASSUME NEW row \in Rows, NEW c \in Contents
  PROVE  /\ SlugFor(row, c.title) \in Stems
         /\ Assigned(row, c) \in Rows
BY StemOfAssumption DEF Assigned, SlugFor, Rows, Contents

\* What the file of a row records is a content.
LEMMA ContentType == ASSUME NEW row \in Rows PROVE Content(row) \in Contents
BY DEF Content, Rows, Contents

\* A row is neither unwritten nor deleted.
LEMMA RowIsNotAbsent == ASSUME NEW row \in Rows PROVE row \notin Absent
BY AbsentAssumption

\* An UPDATE of the changed columns leaves a row.
LEMMA MergedType ==
  ASSUME NEW row \in Rows, NEW r \in Requests, NEW now \in Nat
  PROVE  Merged(row, r, now) \in Rows
BY DEF Merged, Rows, Requests

\* A commit's epoch second is a natural number.
LEMMA SecondType == ASSUME NEW t \in Nat PROVE Second(t) \in Nat
<1> DEFINE k == TicksPerSecond
<1>1. k \in Nat \ {0}
  BY TicksAssumption
<1> HIDE DEF k
<1>2. t \div k \in Int
  BY <1>1, SMT
<1>3. k * (t \div k) <= t /\ t < k * (t \div k) + k
  BY <1>1, SMT
<1>4. t \div k \in Nat
  BY <1>1, <1>2, <1>3, SMT
<1> QED BY <1>4 DEF Second, k

\* No step of a handler is called idle.
LEMMA IdleIsNoRequest == Idle.pc = "idle" /\ \A r \in Requests : r.pc # "idle"
BY DEF Idle, Requests, Pcs

\* A process at a step of a handler has a request.
LEMMA ActiveRequest ==
  ASSUME TypeOK, NEW p \in Procs, NEW pc, At(p, pc), pc # "idle"
  PROVE  req[p] \in Requests
BY DEF TypeOK, At, Idle

\* Going on to another step keeps the requests typed.
LEMMA GoType ==
  ASSUME TypeOK, NEW p \in Procs, req[p] \in Requests, NEW pc \in Pcs, Go(p, pc)
  PROVE  req' \in [Procs -> Requests \cup {Idle}]
BY DEF TypeOK, Go, Requests

\* Ending a request keeps the requests typed.
LEMMA FinishType ==
  ASSUME TypeOK, NEW p \in Procs, Finish(p)
  PROVE  req' \in [Procs -> Requests \cup {Idle}]
BY DEF TypeOK, Finish

\* An UPDATE of one row keeps the database typed.
LEMMA PutRowType ==
  ASSUME TypeOK, NEW m \in Memos, NEW row, PutRow(m, row), Exists(m) => row \in Rows
  PROVE  db' \in [Memos -> Rows \cup Absent]
BY DEF TypeOK, PutRow

\* A memo that exists has a row.
LEMMA ExistingRow ==
  ASSUME TypeOK, NEW m \in Memos, Exists(m) PROVE db[m] \in Rows
BY DEF TypeOK, Exists

\* A handler that starts with a typed copy is a request.
LEMMA StartType ==
  ASSUME TypeOK, NEW p \in Procs, NEW op, CanStart(p, op), NEW m \in Memos, Exists(m),
         NEW mem \in Rows, NEW pc \in Pcs, Start(p, op, m, mem, pc)
  PROVE  req' \in [Procs -> Requests \cup {Idle}]
<1>1. op \in Ops
  BY OpsAssumption DEF CanStart
<1>2. db[m] \in Rows /\ db[m].slug \in Stems
  BY ExistingRow DEF Rows
<1> DEFINE r == [pc |-> pc, op |-> op, memo |-> m, ld |-> db[m], mem |-> mem,
                 at |-> db[m].slug]
<1>3. r \in Requests
  BY <1>1, <1>2 DEF Requests
<1>4. req' = [req EXCEPT ![p] = r]
  BY DEF Start
<1> HIDE DEF r
<1> QED BY <1>3, <1>4 DEF TypeOK

-----------------------------------------------------------------------------
\* Type correctness

\* The initial state has its type.
LEMMA InitType == Init => TypeOK
BY TicksAssumption DEF Init, TypeOK, Files, Absent

\* Loading a row and starting a request keeps the types.
LEMMA BeginType ==
  ASSUME TypeOK, NEW p \in Procs, Begin(p)
  PROVE  TypeOK'
<1>1. PICK m \in Memos :
        \/ \E c \in Payloads :
             BeginDraft(p, m, c) \/ BeginUpdate(p, m, c) \/ Create(p, m, c) \/ ApiCreate(p, m, c)
        \/ \E f \in Frags : BeginToggle(p, m, f) \/ Append(p, m, f)
        \/ \E tags \in SUBSET Tags : BeginUpdateTags(p, m, tags)
        \/ BeginCommit(p, m) \/ BeginRevert(p, m) \/ Destroy(p, m)
  BY DEF Begin
<1> SUFFICES /\ db' \in [Memos -> Rows \cup Absent]
             /\ clock' \in Nat
             /\ req' \in [Procs -> Requests \cup {Idle}]
             /\ UNCHANGED <<git, lock>>
  BY DEF TypeOK, git, Files
<1>2. ASSUME NEW c \in Payloads, BeginDraft(p, m, c) \/ BeginUpdate(p, m, c)
      PROVE  req' \in [Procs -> Requests \cup {Idle}] /\ UNCHANGED <<db, git, lock, clock>>
  <2>1. c \in Contents
    BY PayloadsAssumption
  <2>2. Exists(m) /\ db[m] \in Rows
    BY <1>2, ExistingRow DEF BeginDraft, BeginUpdate
  <2>3. Assigned(db[m], c) \in Rows
    BY <2>1, <2>2, AssignedType
  <2>4. "tags" \in Pcs
    BY DEF Pcs
  <2> QED BY <1>2, <2>2, <2>3, <2>4, StartType DEF BeginDraft, BeginUpdate
<1>3. ASSUME NEW c \in Payloads, Create(p, m, c) \/ ApiCreate(p, m, c)
      PROVE  /\ db' \in [Memos -> Rows \cup Absent] /\ clock' \in Nat
             /\ req' \in [Procs -> Requests \cup {Idle}] /\ UNCHANGED <<git, lock>>
  <2>1. NewRow(c) \in Rows /\ StemOf[c.title] \in Stems
    BY PayloadsAssumption, StemOfAssumption DEF NewRow, Rows, Contents, TypeOK
  <2>2. CASE Create(p, m, c)
    BY <2>1, <2>2 DEF Create, TypeOK
  <2>3. CASE ApiCreate(p, m, c)
    <3> DEFINE r == [pc |-> "write", op |-> "apiCreate", memo |-> m, ld |-> NewRow(c),
                     mem |-> NewRow(c), at |-> StemOf[c.title]]
    <3>1. r \in Requests
      BY <2>1 DEF Requests, Pcs, Ops
    <3>2. req' = [req EXCEPT ![p] = r]
      BY <2>3 DEF ApiCreate
    <3> HIDE DEF r
    <3>3. req' \in [Procs -> Requests \cup {Idle}]
      BY <3>1, <3>2 DEF TypeOK
    <3> QED BY <2>1, <2>3, <3>3 DEF ApiCreate, TypeOK
  <2> QED BY <1>3, <2>2, <2>3
<1>4. ASSUME NEW f \in Frags, BeginToggle(p, m, f)
      PROVE  req' \in [Procs -> Requests \cup {Idle}] /\ UNCHANGED <<db, git, lock, clock>>
  <2> DEFINE body == IF f \in db[m].body THEN db[m].body \ {f} ELSE db[m].body \cup {f}
             mem == [db[m] EXCEPT !.body = body]
  <2>1. Exists(m) /\ db[m] \in Rows
    BY <1>4, ExistingRow DEF BeginToggle
  <2>a. body \in SUBSET Frags
    BY <2>1 DEF Rows
  <2> HIDE DEF body
  <2>2. mem \in Rows /\ "save" \in Pcs
    BY <2>1, <2>a DEF Rows, Pcs
  <2>3. CanStart(p, "toggle") /\ Start(p, "toggle", m, mem, "save")
    BY <1>4 DEF BeginToggle, body
  <2> HIDE DEF mem
  <2>4. req' \in [Procs -> Requests \cup {Idle}]
    BY <2>1, <2>2, <2>3, StartType
  <2> QED BY <1>4, <2>4 DEF BeginToggle
<1>5. ASSUME NEW f \in Frags, Append(p, m, f)
      PROVE  /\ db' \in [Memos -> Rows \cup Absent] /\ clock' \in Nat
             /\ UNCHANGED <<git, lock, req>>
  <2>1. db[m] \in Rows
    BY <1>5, ExistingRow DEF Append
  <2> DEFINE body == db[m].body \cup {f}
  <2>2. body \in SUBSET Frags /\ clock + 1 \in Nat
    BY <2>1 DEF Rows, TypeOK
  <2>3. db' = [db EXCEPT ![m] = [@ EXCEPT !.body = body, !.upd = clock + 1]]
    BY <1>5, <2>1 DEF Append, Rows, TypeOK
  <2> HIDE DEF body
  <2>4. [db[m] EXCEPT !.body = body, !.upd = clock + 1] \in Rows
    BY <2>1, <2>2 DEF Rows
  <2> QED BY <1>5, <2>2, <2>3, <2>4 DEF Append, TypeOK
<1>6. ASSUME NEW tags \in SUBSET Tags, BeginUpdateTags(p, m, tags)
      PROVE  req' \in [Procs -> Requests \cup {Idle}] /\ UNCHANGED <<db, git, lock, clock>>
  <2> DEFINE mem == [db[m] EXCEPT !.tags = tags]
  <2>1. Exists(m) /\ db[m] \in Rows
    BY <1>6, ExistingRow DEF BeginUpdateTags
  <2>2. mem \in Rows /\ "tags" \in Pcs
    BY <2>1 DEF Rows, Pcs
  <2>3. CanStart(p, "updateTags") /\ Start(p, "updateTags", m, mem, "tags")
    BY <1>6 DEF BeginUpdateTags
  <2> HIDE DEF mem
  <2>4. req' \in [Procs -> Requests \cup {Idle}]
    BY <2>1, <2>2, <2>3, StartType
  <2> QED BY <1>6, <2>4 DEF BeginUpdateTags
<1>7. ASSUME BeginCommit(p, m) \/ BeginRevert(p, m)
      PROVE  req' \in [Procs -> Requests \cup {Idle}] /\ UNCHANGED <<db, git, lock, clock>>
  <2>1. Exists(m) /\ db[m] \in Rows
    BY <1>7, ExistingRow DEF BeginCommit, BeginRevert
  <2>2. Assigned(db[m], Content(db[m])) \in Rows
    BY <2>1, AssignedType, ContentType
  <2>3. "write" \in Pcs /\ "path" \in Pcs
    BY DEF Pcs
  <2> QED BY <1>7, <2>1, <2>2, <2>3, StartType DEF BeginCommit, BeginRevert
<1>8. ASSUME Destroy(p, m)
      PROVE  db' \in [Memos -> Rows \cup Absent] /\ UNCHANGED <<git, lock, clock, req>>
  BY <1>8 DEF Destroy, TypeOK, Absent
<1> QED BY <1>1, <1>2, <1>3, <1>4, <1>5, <1>6, <1>7, <1>8 DEF TypeOK

\* Writing or removing one file keeps a tree of files.
LEMMA FilesType ==
  ASSUME NEW files \in Files, NEW m \in Memos, NEW s \in Stems, NEW c \in Contents \cup {NoFile}
  PROVE  [files EXCEPT ![m][s] = c] \in Files
BY DEF Files

\* The steps that write rows keep the types.
LEMMA DbStepType ==
  ASSUME TypeOK, HandlersKeepTheirSteps, NEW p \in Procs,
         WriteTags(p) \/ Save(p) \/ StampCommitted(p) \/ Touch(p) \/ RestoreUpdatedAt(p)
  PROVE  TypeOK'
<1> DEFINE r == req[p]
<1>1. r \in Requests
  BY ActiveRequest DEF WriteTags, Save, StampCommitted, Touch, RestoreUpdatedAt
<1>2. /\ r.memo \in Memos /\ r.ld \in Rows /\ r.mem \in Rows
      /\ r.mem.upd \in Nat /\ r.ld.fca \in Nat /\ clock \in Nat /\ clock + 1 \in Nat
  BY <1>1 DEF Requests, Rows, TypeOK
<1>3. Exists(r.memo) => db[r.memo] \in Rows
  BY <1>2, ExistingRow
<1> SUFFICES /\ db' \in [Memos -> Rows \cup Absent]
             /\ clock' \in Nat
             /\ req' \in [Procs -> Requests \cup {Idle}]
             /\ UNCHANGED <<git, lock>>
  BY DEF TypeOK, git, Files
<1>4. CASE WriteTags(p)
  <2>1. r.op \in {"draft", "update", "revert", "updateTags"}
    BY <1>4 DEF WriteTags, At, HandlersKeepTheirSteps, StepsOf
  <2>2. AfterTags(r) \in Pcs
    BY <2>1 DEF AfterTags, Pcs
  <2> DEFINE added == r.mem.tags \ r.ld.tags
             removed == r.ld.tags \ r.mem.tags
             row == [db[r.memo] EXCEPT !.tags = (@ \ removed) \cup added]
  <2>3. Exists(r.memo) => row \in Rows
    <3> DEFINE tags == (db[r.memo].tags \ removed) \cup added
    <3>1. SUFFICES ASSUME Exists(r.memo) PROVE row \in Rows
      OBVIOUS
    <3>2. tags \in SUBSET Tags
      BY <1>2, <1>3, <3>1 DEF Rows
    <3>3. row = [db[r.memo] EXCEPT !.tags = tags]
      BY <1>3, <3>1 DEF Rows
    <3> HIDE DEF tags, row
    <3> QED BY <1>3, <3>1, <3>2, <3>3 DEF Rows
  <2>4. CASE PutRow(r.memo, row) /\ Go(p, AfterTags(r)) /\ UNCHANGED <<git, lock, clock>>
    <3> HIDE DEF row
    <3> QED BY <1>1, <1>2, <2>2, <2>3, <2>4, PutRowType, GoType
  <2>5. CASE Finish(p) /\ UNCHANGED <<db, git, lock, clock>>
    BY <1>2, <2>5, FinishType DEF TypeOK
  <2> QED BY <1>4, <2>4, <2>5 DEF WriteTags
<1>5. CASE Save(p)
  <2>1. Merged(db[r.memo], r, clock + 1) \in Rows \/ ~Exists(r.memo)
    BY <1>1, <1>2, <1>3, MergedType
  <2>2. db' \in [Memos -> Rows \cup Absent] /\ clock' \in Nat
    BY <1>2, <1>5, <2>1, PutRowType DEF Save, TypeOK
  <2> DEFINE mem == [r.mem EXCEPT !.upd = clock + 1]
             saved == IF Changed(r) THEN [r EXCEPT !.mem = mem] ELSE r
  <2>3. mem \in Rows
    BY <1>2 DEF Rows
  <2> HIDE DEF mem
  <2>4. \A pc \in Pcs : [[r EXCEPT !.mem = mem] EXCEPT !.pc = pc] \in Requests
    BY <1>1, <2>3 DEF Requests
  <2>5. \A pc \in Pcs : [r EXCEPT !.pc = pc] \in Requests
    BY <1>1 DEF Requests
  <2>6. AfterSave(r.op) = "idle" \/ AfterSave(r.op) \in Pcs
    BY DEF AfterSave, Pcs
  <2>7. req' = [req EXCEPT ![p] = IF AfterSave(r.op) = "idle" THEN Idle
                                  ELSE [saved EXCEPT !.pc = AfterSave(r.op)]]
    BY <1>1, <1>5 DEF Save, mem, Requests
  <2>8. req' \in [Procs -> Requests \cup {Idle}]
    BY <2>4, <2>5, <2>6, <2>7 DEF TypeOK
  <2> QED BY <1>5, <2>2, <2>8 DEF Save
<1>6. CASE StampCommitted(p)
  <2>1. Exists(r.memo) => [db[r.memo] EXCEPT !.fca = r.mem.upd] \in Rows
    BY <1>2, <1>3 DEF Rows
  <2> QED BY <1>2, <1>6, <2>1, PutRowType, FinishType DEF StampCommitted
<1>7. CASE Touch(p)
  <2>1. Exists(r.memo) => [db[r.memo] EXCEPT !.upd = clock + 1] \in Rows
    BY <1>2, <1>3 DEF Rows
  <2> QED BY <1>2, <1>7, <2>1, PutRowType, FinishType DEF Touch
<1>8. CASE RestoreUpdatedAt(p)
  <2>1. Exists(r.memo) => [db[r.memo] EXCEPT !.upd = r.ld.fca] \in Rows
    BY <1>2, <1>3 DEF Rows
  <2> QED BY <1>2, <1>8, <2>1, PutRowType, FinishType DEF RestoreUpdatedAt
<1> QED BY <1>4, <1>5, <1>6, <1>7, <1>8

\* The steps that write files, the index or HEAD keep the types.
LEMMA GitStepType ==
  ASSUME TypeOK, NEW p \in Procs,
         CheckOld(p) \/ Relocate(p) \/ WriteFile(p) \/ Add(p) \/ GitCommit(p)
  PROVE  TypeOK'
<1> DEFINE r == req[p]
           m == r.memo
<1>1. r \in Requests
  BY ActiveRequest DEF CheckOld, Relocate, WriteFile, Add, GitCommit
<1>2. m \in Memos /\ r.at \in Stems /\ r.mem \in Rows /\ r.mem.slug \in Stems
  BY <1>1 DEF Requests, Rows
<1>3. tree \in Files /\ index \in Files /\ head \in Files
  BY DEF TypeOK
<1>4. \A f \in Files, t \in Stems : f[m][t] \in Contents \cup {NoFile}
  BY <1>2 DEF Files
<1>5. {"relocate", "add", "gitcommit", "save"} \subseteq Pcs
  BY DEF Pcs
<1>6. CASE CheckOld(p)
  BY <1>1, <1>5, <1>6, GoType DEF CheckOld, TypeOK, git, Files
<1>7. CASE Relocate(p)
  <2> DEFINE moved(f) == [f EXCEPT ![m][r.mem.slug] = f[m][r.at], ![m][r.at] = NoFile]
  <2>1. \A f \in Files : moved(f) \in Files
    <3> SUFFICES ASSUME NEW f \in Files PROVE moved(f) \in Files
      OBVIOUS
    <3>1. f[m][r.at] \in Contents \cup {NoFile}
      BY <1>2, <1>4
    <3> QED BY <1>2, <3>1, FilesType
  <2>2. moved(tree) \in Files /\ moved(index) \in Files
    BY <2>1, <1>3
  <2>3. /\ tree' = moved(tree) \/ UNCHANGED tree
        /\ index' = moved(index) \/ UNCHANGED index
        /\ Go(p, "save") \/ Finish(p)
        /\ UNCHANGED <<db, head, stamp, lock, clock>>
    BY <1>7 DEF Relocate
  <2> HIDE DEF moved
  <2>4. tree' \in Files /\ index' \in Files
    BY <1>3, <2>2, <2>3
  <2>5. req' \in [Procs -> Requests \cup {Idle}]
    BY <1>1, <1>5, <2>3, GoType, FinishType
  <2> QED BY <2>3, <2>4, <2>5 DEF TypeOK, Files
<1>8. CASE WriteFile(p)
  <2>1. tree' \in Files
    BY <1>2, <1>3, <1>8, ContentType, FilesType DEF WriteFile
  <2>2. req' \in [Procs -> Requests \cup {Idle}]
    BY <1>1, <1>5, <1>8, GoType DEF WriteFile
  <2> QED BY <1>8, <2>1, <2>2 DEF WriteFile, TypeOK, Files
<1>9. CASE Add(p)
  <2>1. index' \in Files
    BY <1>2, <1>3, <1>4, <1>9, FilesType DEF Add
  <2>2. req' \in [Procs -> Requests \cup {Idle}]
    BY <1>1, <1>5, <1>9, GoType, FinishType DEF Add
  <2> QED BY <1>9, <2>1, <2>2 DEF Add, TypeOK, Files
<1>10. CASE GitCommit(p)
  <2>1. stamp' \in [Memos -> [Stems -> Nat]]
    <3>1. Second(clock) \in Nat
      BY SecondType DEF TypeOK
    <3> QED BY <1>10, <3>1 DEF GitCommit, TypeOK
  <2>2. req' \in [Procs -> Requests \cup {Idle}]
    BY <1>1, <1>5, <1>10, GoType DEF GitCommit
  <2> QED BY <1>10, <2>1, <2>2 DEF GitCommit, TypeOK, Files
<1> QED BY <1>6, <1>7, <1>8, <1>9, <1>10

\* The steps of revert_draft keep the types.
LEMMA RevertStepType ==
  ASSUME TypeOK, NEW p \in Procs,
         FindCommittedPath(p) \/ ReadBlob(p) \/ RestoreFile(p) \/ RemoveOtherFiles(p)
  PROVE  TypeOK'
<1> DEFINE r == req[p]
           m == r.memo
<1>1. r \in Requests
  BY ActiveRequest DEF FindCommittedPath, ReadBlob, RestoreFile, RemoveOtherFiles
<1>2. m \in Memos /\ r.at \in Stems /\ r.mem \in Rows
  BY <1>1 DEF Requests
<1>3. {"blob", "tags", "remove", "save"} \subseteq Pcs
  BY DEF Pcs
<1>4. CASE FindCommittedPath(p)
  <2>1. CASE Finish(p)
    BY <1>4, <2>1, FinishType DEF FindCommittedPath, TypeOK, git, Files
  <2>2. CASE \E s \in Stems : req' = [req EXCEPT ![p].at = s, ![p].pc = "blob"]
    <3>1. PICK s \in Stems : req' = [req EXCEPT ![p].at = s, ![p].pc = "blob"]
      BY <2>2
    <3>2. [r EXCEPT !.at = s, !.pc = "blob"] \in Requests
      BY <1>1, <1>3 DEF Requests
    <3>3. req' = [req EXCEPT ![p] = [r EXCEPT !.at = s, !.pc = "blob"]]
      BY <3>1 DEF TypeOK
    <3>4. req' \in [Procs -> Requests \cup {Idle}]
      BY <3>2, <3>3 DEF TypeOK
    <3> QED BY <1>4, <3>4 DEF FindCommittedPath, TypeOK, git, Files
  <2> QED BY <1>4, <2>1, <2>2 DEF FindCommittedPath, HeadPaths
<1>5. CASE ReadBlob(p)
  <2> DEFINE blob == head[m][r.at]
             mem == [r.mem EXCEPT !.title = blob.title, !.body = blob.body,
                                  !.tags = blob.tags, !.slug = r.at]
  <2>1. CASE blob = NoFile
    BY <1>5, <2>1, FinishType DEF ReadBlob, TypeOK, git, Files
  <2>2. CASE blob # NoFile
    <3>1. blob \in Contents
      BY <1>2, <2>2 DEF TypeOK, Files
    <3>2. mem \in Rows
      BY <1>2, <3>1 DEF Rows, Contents
    <3>3. req' = [req EXCEPT ![p] = [r EXCEPT !.pc = "tags", !.mem = mem]]
      BY <1>5, <2>2 DEF ReadBlob, TypeOK
    <3> HIDE DEF mem
    <3>4. [r EXCEPT !.pc = "tags", !.mem = mem] \in Requests
      BY <1>1, <1>3, <3>2 DEF Requests
    <3>5. req' \in [Procs -> Requests \cup {Idle}]
      BY <3>3, <3>4 DEF TypeOK
    <3> QED BY <1>5, <3>5 DEF ReadBlob, TypeOK, git, Files
  <2> QED BY <2>1, <2>2
<1>6. CASE RestoreFile(p)
  <2>1. tree' \in Files
    BY <1>2, <1>6, ContentType, FilesType DEF RestoreFile, TypeOK
  <2>2. req' \in [Procs -> Requests \cup {Idle}]
    BY <1>1, <1>3, <1>6, GoType DEF RestoreFile
  <2> QED BY <1>6, <2>1, <2>2 DEF RestoreFile, TypeOK, Files
<1>7. CASE RemoveOtherFiles(p)
  <2>1. tree' \in Files
    BY <1>2, <1>7 DEF RemoveOtherFiles, TypeOK, Files
  <2>2. req' \in [Procs -> Requests \cup {Idle}]
    BY <1>1, <1>3, <1>7, GoType DEF RemoveOtherFiles
  <2> QED BY <1>7, <2>1, <2>2 DEF RemoveOtherFiles, TypeOK, Files
<1> QED BY <1>4, <1>5, <1>6, <1>7

\* The death of a process keeps the types.
LEMMA CrashType == ASSUME TypeOK, NEW p \in Procs, Crash(p) PROVE TypeOK'
BY FinishType DEF Crash, TypeOK, git, Files

\* Every step keeps the types of requests that are at steps of their handlers.
LEMMA StepType == TypeOK /\ HandlersKeepTheirSteps /\ [Next]_vars => TypeOK'
<1> SUFFICES ASSUME TypeOK, HandlersKeepTheirSteps, [Next]_vars PROVE TypeOK'
  OBVIOUS
<1>1. CASE UNCHANGED vars
  BY <1>1 DEF vars, TypeOK, Files
<1>2. ASSUME NEW p \in Procs, Begin(p) \/ LockingStep(p) \/ FreeStep(p) \/ Crash(p)
      PROVE  TypeOK'
  BY <1>2, BeginType, DbStepType, GitStepType, RevertStepType, CrashType
     DEF LockingStep, FreeStep
<1> QED BY <1>1, <1>2 DEF Next

-----------------------------------------------------------------------------
\* A request stays on the steps of its handler

\* A request starts at a step of its handler.
LEMMA BeginSteps ==
  ASSUME TypeOK, HandlersKeepTheirSteps, NEW p \in Procs, Begin(p)
  PROVE  HandlersKeepTheirSteps'
<1>1. CASE UNCHANGED req
  BY <1>1 DEF HandlersKeepTheirSteps, At
<1>2. CASE \E op \in OpsOf[p], pc \in Pcs :
             /\ pc \in StepsOf(op)
             /\ req'[p].op = op /\ req'[p].pc = pc
             /\ \A q \in Procs \ {p} : req'[q] = req[q]
  BY <1>2 DEF HandlersKeepTheirSteps, At
<1>3. ASSUME NEW op, NEW m \in Memos, NEW mem, NEW pc \in Pcs, CanStart(p, op),
             Start(p, op, m, mem, pc), pc \in StepsOf(op)
      PROVE  HandlersKeepTheirSteps'
  <2>1. /\ req'[p].op = op /\ req'[p].pc = pc
        /\ \A q \in Procs \ {p} : req'[q] = req[q]
    BY <1>3 DEF Start, TypeOK
  <2> QED BY <1>2, <1>3, <2>1 DEF CanStart
<1>4. /\ {"tags", "write", "path", "save"} \subseteq Pcs
      /\ "tags" \in StepsOf("draft") /\ "tags" \in StepsOf("update")
      /\ "tags" \in StepsOf("updateTags") /\ "write" \in StepsOf("commit")
      /\ "write" \in StepsOf("apiCreate") /\ "path" \in StepsOf("revert")
      /\ "save" \in StepsOf("toggle")
  BY DEF StepsOf, Pcs
<1>5. PICK m \in Memos :
        \/ \E c \in Payloads :
             BeginDraft(p, m, c) \/ BeginUpdate(p, m, c) \/ Create(p, m, c) \/ ApiCreate(p, m, c)
        \/ \E f \in Frags : BeginToggle(p, m, f) \/ Append(p, m, f)
        \/ \E tags \in SUBSET Tags : BeginUpdateTags(p, m, tags)
        \/ BeginCommit(p, m) \/ BeginRevert(p, m) \/ Destroy(p, m)
  BY DEF Begin
<1>6. ASSUME NEW c \in Payloads, BeginDraft(p, m, c) \/ BeginUpdate(p, m, c)
      PROVE  HandlersKeepTheirSteps'
  BY <1>3, <1>4, <1>6 DEF BeginDraft, BeginUpdate
<1>7. ASSUME NEW c \in Payloads, Create(p, m, c) PROVE HandlersKeepTheirSteps'
  BY <1>1, <1>7 DEF Create
<1>8. ASSUME NEW c \in Payloads, ApiCreate(p, m, c) PROVE HandlersKeepTheirSteps'
  <2>1. /\ req'[p].op = "apiCreate" /\ req'[p].pc = "write"
        /\ \A q \in Procs \ {p} : req'[q] = req[q]
    BY <1>8 DEF ApiCreate, TypeOK
  <2> QED BY <1>2, <1>4, <1>8, <2>1 DEF ApiCreate, CanStart
<1>9. ASSUME NEW f \in Frags, BeginToggle(p, m, f) PROVE HandlersKeepTheirSteps'
  BY <1>3, <1>4, <1>9 DEF BeginToggle
<1>10. ASSUME NEW f \in Frags, Append(p, m, f) PROVE HandlersKeepTheirSteps'
  BY <1>1, <1>10 DEF Append
<1>11. ASSUME NEW tags \in SUBSET Tags, BeginUpdateTags(p, m, tags)
       PROVE  HandlersKeepTheirSteps'
  BY <1>3, <1>4, <1>11 DEF BeginUpdateTags
<1>12. ASSUME BeginCommit(p, m) \/ BeginRevert(p, m) PROVE HandlersKeepTheirSteps'
  BY <1>3, <1>4, <1>12 DEF BeginCommit, BeginRevert
<1>13. ASSUME Destroy(p, m) PROVE HandlersKeepTheirSteps'
  BY <1>1, <1>13 DEF Destroy
<1> QED BY <1>5, <1>6, <1>7, <1>8, <1>9, <1>10, <1>11, <1>12, <1>13

\* A step leaves the other requests alone; its own goes on in its handler or ends.
LEMMA GoingOn ==
  ASSUME TypeOK, HandlersKeepTheirSteps, NEW p \in Procs, ~At(p, "idle"),
         \A q \in Procs \ {p} : req'[q] = req[q],
         \/ req'[p].pc = "idle"
         \/ req'[p].op = req[p].op /\ req'[p].pc \in StepsOf(req[p].op)
  PROVE  HandlersKeepTheirSteps'
BY DEF HandlersKeepTheirSteps, At

\* A request that goes on to a step of its handler is still in it.
LEMMA GoSteps ==
  ASSUME TypeOK, HandlersKeepTheirSteps, NEW p \in Procs, req[p] \in Requests, NEW pc,
         Go(p, pc), pc \in StepsOf(req[p].op)
  PROVE  HandlersKeepTheirSteps'
<1>1. ~At(p, "idle")
  BY IdleIsNoRequest DEF At
<1>2. req' = [req EXCEPT ![p] = [req[p] EXCEPT !.pc = pc]]
  BY DEF Go, TypeOK
<1>3. [req[p] EXCEPT !.pc = pc].op = req[p].op /\ [req[p] EXCEPT !.pc = pc].pc = pc
  BY DEF Requests
<1>4. req'[p].op = req[p].op /\ req'[p].pc = pc
  BY <1>2, <1>3 DEF TypeOK
<1> QED BY <1>1, <1>2, <1>4, GoingOn DEF TypeOK

\* A request that ends leaves the others in their handlers.
LEMMA FinishSteps ==
  ASSUME TypeOK, HandlersKeepTheirSteps, NEW p \in Procs, Finish(p)
  PROVE  HandlersKeepTheirSteps'
BY DEF TypeOK, HandlersKeepTheirSteps, At, Finish, Idle

\* Where each step may lead, given that its handler contains it.
LEMMA OpOfStep ==
  ASSUME HandlersKeepTheirSteps, NEW p \in Procs, req[p].pc # "idle"
  PROVE  LET op == req[p].op
             pc == req[p].pc
         IN  /\ pc = "tags" => op \in {"draft", "update", "revert", "updateTags"}
             /\ pc \in {"check", "relocate"} => op = "draft"
             /\ pc \in {"write", "add", "gitcommit", "stamp"}
                  => op \in {"update", "commit", "apiCreate"}
             /\ pc = "save" => op \in {"draft", "update", "commit", "apiCreate", "revert", "toggle"}
             /\ pc \in {"path", "blob", "restore", "remove", "unstamp"} => op = "revert"
BY DEF HandlersKeepTheirSteps, At, StepsOf

\* Every step of a request leads to a step of the same handler or ends it.
LEMMA StepSteps ==
  ASSUME TypeOK, HandlersKeepTheirSteps, NEW p \in Procs, LockingStep(p) \/ FreeStep(p)
  PROVE  HandlersKeepTheirSteps'
<1> DEFINE r == req[p]
<1>1. r \in Requests /\ r.pc # "idle" /\ ~At(p, "idle")
  <2>1. r \in Requests
    BY ActiveRequest DEF LockingStep, FreeStep, WriteTags, CheckOld, WriteFile, GitCommit,
       Save, StampCommitted, Touch, FindCommittedPath, ReadBlob, RestoreFile,
       RemoveOtherFiles, RestoreUpdatedAt, Relocate, Add
  <2> QED BY <2>1, IdleIsNoRequest DEF At
<1>2. CASE WriteTags(p)
  <2>1. r.op \in {"draft", "update", "revert", "updateTags"}
    BY <1>1, <1>2, OpOfStep DEF WriteTags, At
  <2>2. AfterTags(r) \in StepsOf(r.op)
    BY <2>1 DEF AfterTags, StepsOf
  <2>3. Go(p, AfterTags(r)) \/ Finish(p)
    BY <1>2 DEF WriteTags
  <2> QED BY <1>1, <2>2, <2>3, GoSteps, FinishSteps
<1>3. CASE CheckOld(p) \/ Relocate(p)
  <2>1. r.op = "draft"
    BY <1>1, <1>3, OpOfStep DEF CheckOld, Relocate, At
  <2>2. {"relocate", "save"} \subseteq StepsOf(r.op)
    BY <2>1 DEF StepsOf
  <2>3. Go(p, "relocate") \/ Go(p, "save") \/ Finish(p)
    BY <1>3 DEF CheckOld, Relocate
  <2> QED BY <1>1, <2>2, <2>3, GoSteps, FinishSteps
<1>4. CASE WriteFile(p) \/ Add(p) \/ GitCommit(p)
  <2>1. r.op \in {"update", "commit", "apiCreate"}
    BY <1>1, <1>4, OpOfStep DEF WriteFile, Add, GitCommit, At
  <2>2. {"add", "gitcommit", "save"} \subseteq StepsOf(r.op)
    BY <2>1 DEF StepsOf
  <2>3. Go(p, "add") \/ Go(p, "gitcommit") \/ Go(p, "save") \/ Finish(p)
    BY <1>4 DEF WriteFile, Add, GitCommit
  <2> QED BY <1>1, <2>2, <2>3, GoSteps, FinishSteps
<1>5. CASE Save(p)
  <2>1. r.op \in {"draft", "update", "commit", "apiCreate", "revert", "toggle"}
    BY <1>1, <1>5, OpOfStep DEF Save, At
  <2>2. AfterSave(r.op) # "idle" => AfterSave(r.op) \in StepsOf(r.op)
    BY <2>1 DEF AfterSave, StepsOf
  <2> DEFINE saved == IF Changed(r) THEN [r EXCEPT !.mem.upd = clock + 1] ELSE r
  <2>3. req' = [req EXCEPT ![p] = IF AfterSave(r.op) = "idle" THEN Idle
                                  ELSE [saved EXCEPT !.pc = AfterSave(r.op)]]
    BY <1>5 DEF Save
  <2>4. [saved EXCEPT !.pc = AfterSave(r.op)].op = r.op
    BY <1>1 DEF Requests
  <2>5. [saved EXCEPT !.pc = AfterSave(r.op)].pc = AfterSave(r.op)
    BY <1>1 DEF Requests
  <2> HIDE DEF saved
  <2>6. \/ req'[p].pc = "idle"
        \/ req'[p].op = r.op /\ req'[p].pc \in StepsOf(r.op)
    BY <2>2, <2>3, <2>4, <2>5 DEF TypeOK, Idle
  <2>7. \A q \in Procs \ {p} : req'[q] = req[q]
    BY <2>3 DEF TypeOK
  <2> QED BY <1>1, <2>6, <2>7, GoingOn
<1>6. CASE StampCommitted(p) \/ Touch(p) \/ RestoreUpdatedAt(p)
  BY <1>6, FinishSteps DEF StampCommitted, Touch, RestoreUpdatedAt
<1>7. CASE FindCommittedPath(p) \/ ReadBlob(p) \/ RestoreFile(p) \/ RemoveOtherFiles(p)
  <2>1. r.op = "revert"
    BY <1>1, <1>7, OpOfStep DEF FindCommittedPath, ReadBlob, RestoreFile, RemoveOtherFiles, At
  <2>2. {"blob", "tags", "remove", "save"} \subseteq StepsOf(r.op)
    BY <2>1 DEF StepsOf
  <2>3. CASE Finish(p)
    BY <2>3, FinishSteps
  <2>4. CASE Go(p, "remove") \/ Go(p, "save")
    BY <1>1, <2>2, <2>4, GoSteps
  <2>5. CASE \E s : req' = [req EXCEPT ![p].at = s, ![p].pc = "blob"]
    <3>1. PICK s : req' = [req EXCEPT ![p].at = s, ![p].pc = "blob"]
      BY <2>5
    <3>2. /\ req'[p].op = r.op /\ req'[p].pc = "blob"
          /\ \A q \in Procs \ {p} : req'[q] = req[q]
      BY <1>1, <3>1 DEF TypeOK, Requests
    <3> QED BY <1>1, <2>2, <3>2, GoingOn
  <2>6. CASE \E mem : req' = [req EXCEPT ![p].pc = "tags", ![p].mem = mem]
    <3>1. PICK mem : req' = [req EXCEPT ![p].pc = "tags", ![p].mem = mem]
      BY <2>6
    <3>2. /\ req'[p].op = r.op /\ req'[p].pc = "tags"
          /\ \A q \in Procs \ {p} : req'[q] = req[q]
      BY <1>1, <3>1 DEF TypeOK, Requests
    <3> QED BY <1>1, <2>2, <3>2, GoingOn
  <2> QED BY <1>7, <2>3, <2>4, <2>5, <2>6
         DEF FindCommittedPath, ReadBlob, RestoreFile, RemoveOtherFiles
<1> QED BY <1>2, <1>3, <1>4, <1>5, <1>6, <1>7 DEF LockingStep, FreeStep

\* TypeOK together with the handlers' steps is inductive: a step finds the
\* operations it distinguishes, so what it makes of a request is a request.
THEOREM TypeCorrect == Spec => [](TypeOK /\ HandlersKeepTheirSteps)
<1>1. Init => TypeOK /\ HandlersKeepTheirSteps
  BY InitType DEF Init, HandlersKeepTheirSteps, At, Idle
<1>2. TypeOK /\ HandlersKeepTheirSteps /\ [Next]_vars => (TypeOK /\ HandlersKeepTheirSteps)'
  <2> SUFFICES ASSUME TypeOK, HandlersKeepTheirSteps, [Next]_vars
               PROVE  TypeOK' /\ HandlersKeepTheirSteps'
    OBVIOUS
  <2>1. TypeOK'
    BY StepType
  <2>2. CASE UNCHANGED vars
    BY <2>1, <2>2 DEF vars, HandlersKeepTheirSteps, At
  <2>3. ASSUME NEW p \in Procs, Begin(p) \/ LockingStep(p) \/ FreeStep(p) \/ Crash(p)
        PROVE  HandlersKeepTheirSteps'
    BY <2>3, BeginSteps, StepSteps, FinishSteps DEF Crash
  <2> QED BY <2>1, <2>2, <2>3 DEF Next
<1> QED BY <1>1, <1>2, PTL DEF Spec

-----------------------------------------------------------------------------
\* The repository lock

\* At first nobody is between git add and git commit.
LEMMA LockInit == Init => CommitterHoldsLock
BY DEF Init, CommitterHoldsLock, At, Idle

\* A step of p that leaves the lock and does not reach git commit.
LEMMA LockKept ==
  ASSUME TypeOK, CommitterHoldsLock, NEW p \in Procs, UNCHANGED lock,
         \A q \in Procs \ {p} : req'[q] = req[q], req'[p].pc # "gitcommit"
  PROVE  CommitterHoldsLock'
BY DEF CommitterHoldsLock, At

\* A step of one process leaves the requests of the others alone.
LEMMA OthersKept ==
  ASSUME TypeOK, NEW p \in Procs, Begin(p) \/ LockingStep(p) \/ FreeStep(p) \/ Crash(p)
  PROVE  \A q \in Procs \ {p} : req'[q] = req[q]
BY DEF Begin, LockingStep, FreeStep, Crash, BeginDraft, BeginUpdate, BeginCommit, BeginRevert,
       BeginToggle, BeginUpdateTags, Create, ApiCreate, Append, Destroy, Start, Go, Finish,
       WriteTags, CheckOld, WriteFile, GitCommit, Save, StampCommitted, Touch,
       FindCommittedPath, ReadBlob, RestoreFile, RemoveOtherFiles, RestoreUpdatedAt,
       Relocate, Add, TypeOK

\* Starting a request neither takes the lock nor stages anything.
LEMMA BeginPc ==
  ASSUME TypeOK, NEW p \in Procs, Begin(p)
  PROVE  UNCHANGED lock /\ req'[p].pc # "gitcommit"
<1>1. At(p, "idle")
  BY DEF Begin, BeginDraft, BeginUpdate, BeginCommit, BeginRevert, BeginToggle,
     BeginUpdateTags, Create, ApiCreate, Append, Destroy, CanStart
<1>2. CASE UNCHANGED <<lock, req>>
  BY <1>1, <1>2 DEF At
<1>3. CASE UNCHANGED lock /\ \E r : r.pc # "gitcommit" /\ req' = [req EXCEPT ![p] = r]
  BY <1>3 DEF TypeOK
<1>4. ASSUME NEW op, NEW m, NEW mem, NEW pc \in {"tags", "write", "path", "save"},
             Start(p, op, m, mem, pc), UNCHANGED lock
      PROVE  UNCHANGED lock /\ \E r : r.pc # "gitcommit" /\ req' = [req EXCEPT ![p] = r]
  BY <1>4 DEF Start
<1> QED BY <1>2, <1>3, <1>4 DEF Begin, BeginDraft, BeginUpdate, BeginCommit, BeginRevert,
           BeginToggle, BeginUpdateTags, Create, ApiCreate, Append, Destroy

\* Go leads to the step it names.
LEMMA GoPc ==
  ASSUME TypeOK, NEW p \in Procs, req[p] \in Requests, NEW pc, Go(p, pc)
  PROVE  req'[p].pc = pc
BY DEF TypeOK, Go, Requests

\* Finish leaves the process idle.
LEMMA FinishPc ==
  ASSUME TypeOK, NEW p \in Procs, Finish(p) PROVE req'[p].pc = "idle"
BY DEF TypeOK, Finish, Idle

\* Only Add reaches git commit.
LEMMA FreeStepPc ==
  ASSUME TypeOK, HandlersKeepTheirSteps, NEW p \in Procs, FreeStep(p) \/ Relocate(p)
  PROVE  req'[p].pc # "gitcommit"
<1> DEFINE r == req[p]
<1>1. r \in Requests /\ r.pc # "idle"
  <2>1. r \in Requests
    BY ActiveRequest DEF FreeStep, WriteTags, CheckOld, WriteFile, GitCommit,
       Save, StampCommitted, Touch, FindCommittedPath, ReadBlob, RestoreFile,
       RemoveOtherFiles, RestoreUpdatedAt, Relocate
  <2> QED BY <2>1, IdleIsNoRequest
<1>2. CASE WriteTags(p)
  <2>1. AfterTags(r) # "gitcommit"
    BY <1>1, <1>2, OpOfStep DEF WriteTags, At, AfterTags
  <2>2. Go(p, AfterTags(r)) \/ Finish(p)
    BY <1>2 DEF WriteTags
  <2> QED BY <1>1, <2>1, <2>2, GoPc, FinishPc
<1>3. CASE Save(p)
  <2> DEFINE saved == IF Changed(r) THEN [r EXCEPT !.mem.upd = clock + 1] ELSE r
  <2>1. req' = [req EXCEPT ![p] = IF AfterSave(r.op) = "idle" THEN Idle
                                  ELSE [saved EXCEPT !.pc = AfterSave(r.op)]]
    BY <1>3 DEF Save
  <2>2. AfterSave(r.op) # "gitcommit"
    BY DEF AfterSave
  <2>3. [saved EXCEPT !.pc = AfterSave(r.op)].pc = AfterSave(r.op)
    BY <1>1 DEF Requests
  <2> HIDE DEF saved
  <2> QED BY <2>1, <2>2, <2>3 DEF TypeOK, Idle
<1>4. CASE FindCommittedPath(p)
  BY <1>1, <1>4, FinishPc DEF FindCommittedPath, TypeOK, Requests
<1>5. CASE ReadBlob(p)
  BY <1>1, <1>5, FinishPc DEF ReadBlob, TypeOK, Requests
<1>6. CASE Relocate(p)
  BY <1>1, <1>6, GoPc, FinishPc DEF Relocate
<1>7. CASE \/ CheckOld(p) \/ WriteFile(p) \/ GitCommit(p) \/ StampCommitted(p) \/ Touch(p)
           \/ RestoreFile(p) \/ RemoveOtherFiles(p) \/ RestoreUpdatedAt(p)
  BY <1>1, <1>7, GoPc, FinishPc DEF CheckOld, WriteFile, GitCommit, StampCommitted, Touch,
     RestoreFile, RemoveOtherFiles, RestoreUpdatedAt
<1> QED BY <1>2, <1>3, <1>4, <1>5, <1>6, <1>7 DEF FreeStep

\* Whoever is between git add and git commit holds the lock, after every step.
LEMMA LockStep ==
  TypeOK /\ HandlersKeepTheirSteps /\ CommitterHoldsLock /\ [Next]_vars => CommitterHoldsLock'
<1> SUFFICES ASSUME TypeOK, HandlersKeepTheirSteps, CommitterHoldsLock, [Next]_vars
             PROVE  CommitterHoldsLock'
  OBVIOUS
<1>1. CASE UNCHANGED vars
  BY <1>1 DEF vars, CommitterHoldsLock, At
<1>2. SUFFICES ASSUME NEW p \in Procs, Begin(p) \/ LockingStep(p) \/ FreeStep(p) \/ Crash(p)
               PROVE  CommitterHoldsLock'
  BY <1>1 DEF Next
<1>3. \A q \in Procs \ {p} : req'[q] = req[q]
  BY <1>2, OthersKept
<1>4. CASE Begin(p)
  BY <1>3, <1>4, BeginPc, LockKept
<1>5. CASE Relocate(p)
  BY <1>3, <1>5, FreeStepPc, LockKept DEF Relocate
<1>6. CASE Add(p)
  <2>1. lock = Nobody
    BY <1>6 DEF Add
  <2>2. \A q \in Procs : ~At(q, "gitcommit")
    BY <2>1, NobodyAssumption DEF CommitterHoldsLock
  <2>3. lock' = p \/ Finish(p)
    BY <1>6 DEF Add
  <2> QED BY <1>3, <2>2, <2>3, FinishPc DEF CommitterHoldsLock, At
<1>7. CASE GitCommit(p)
  <2>1. \A q \in Procs \ {p} : ~At(q, "gitcommit")
    BY <1>7 DEF GitCommit, CommitterHoldsLock
  <2>2. req'[p].pc # "gitcommit"
    BY <1>7, FreeStepPc DEF FreeStep
  <2> QED BY <1>3, <2>1, <2>2 DEF CommitterHoldsLock, At
<1>8. CASE FreeStep(p) /\ ~GitCommit(p)
  <2>1. UNCHANGED lock
    BY <1>8 DEF FreeStep, WriteTags, CheckOld, WriteFile, Save, StampCommitted, Touch,
       FindCommittedPath, ReadBlob, RestoreFile, RemoveOtherFiles, RestoreUpdatedAt
  <2> QED BY <1>3, <1>8, <2>1, FreeStepPc, LockKept
<1>9. CASE Crash(p)
  BY <1>3, <1>9, FinishPc DEF Crash, CommitterHoldsLock, At
<1> QED BY <1>2, <1>4, <1>5, <1>6, <1>7, <1>8, <1>9 DEF LockingStep

\* From git add to git commit nobody else stages anything: whoever is there
\* holds the lock, and the index changes only in steps that take it.
THEOREM StagedSurvives == Spec => StagedEntrySurvives
<1> DEFINE Inv == TypeOK /\ HandlersKeepTheirSteps /\ CommitterHoldsLock
           Step == (\E p \in Procs : At(p, "gitcommit")) => UNCHANGED index
<1>1. Spec => []Inv
  <2>1. Init => CommitterHoldsLock
    BY LockInit
  <2>2. (TypeOK /\ HandlersKeepTheirSteps) /\ CommitterHoldsLock /\ [Next]_vars
          => CommitterHoldsLock'
    BY LockStep
  <2> QED BY <2>1, <2>2, TypeCorrect, PTL DEF Spec
<1>2. Inv /\ [Next]_vars => [Step]_vars
  <2> SUFFICES ASSUME Inv, Next, NEW q \in Procs, At(q, "gitcommit") PROVE UNCHANGED index
    BY DEF vars
  <2>1. lock = q /\ lock # Nobody
    BY NobodyAssumption DEF CommitterHoldsLock
  <2>2. PICK p \in Procs : Begin(p) \/ LockingStep(p) \/ FreeStep(p) \/ Crash(p)
    BY DEF Next
  <2>3. ~LockingStep(p)
    BY <2>1 DEF LockingStep, Relocate, Add
  <2>4. CASE Begin(p)
    BY <2>4 DEF Begin, BeginDraft, BeginUpdate, BeginCommit, BeginRevert, BeginToggle,
       BeginUpdateTags, Create, ApiCreate, Append, Destroy, git
  <2>5. CASE FreeStep(p) \/ Crash(p)
    BY <2>5 DEF FreeStep, Crash, WriteTags, CheckOld, WriteFile, GitCommit, Save, StampCommitted,
       Touch, FindCommittedPath, ReadBlob, RestoreFile, RemoveOtherFiles, RestoreUpdatedAt, git
  <2> QED BY <2>2, <2>3, <2>4, <2>5
<1> QED BY <1>1, <1>2, PTL DEF Spec, StagedEntrySurvives

-----------------------------------------------------------------------------
\* Text leaves a body only with a request that changed that body

TextKept == \A m \in Memos : Exists(m) /\ Exists(m)' => db[m].body \subseteq db'[m].body

\* An UPDATE that keeps the body of its row removes no text from any memo.
LEMMA PutRowKeepsText ==
  ASSUME TypeOK, NEW n \in Memos, NEW row, PutRow(n, row),
         Exists(n) => db[n].body \subseteq row.body
  PROVE  TextKept
BY DEF TypeOK, PutRow, TextKept

\* Among the steps that write rows only save can remove text, and only with a copy
\* whose body differs from the loaded one.
LEMMA DbStepKeepsText ==
  ASSUME TypeOK, HandlersKeepTheirSteps, NEW p \in Procs,
         WriteTags(p) \/ Save(p) \/ StampCommitted(p) \/ Touch(p) \/ RestoreUpdatedAt(p),
         Save(p) => req[p].mem.body = req[p].ld.body
  PROVE  TextKept
<1> DEFINE r == req[p]
           m == r.memo
<1>1. r \in Requests /\ m \in Memos
  <2>1. r \in Requests
    BY ActiveRequest DEF WriteTags, Save, StampCommitted, Touch, RestoreUpdatedAt
  <2> QED BY <2>1 DEF Requests
<1>2. Exists(m) => db[m] \in Rows
  BY <1>1, ExistingRow
<1>3. CASE UNCHANGED db
  BY <1>3 DEF TextKept
<1>4. ASSUME NEW tags, PutRow(m, [db[m] EXCEPT !.tags = tags]) PROVE TextKept
  BY <1>1, <1>2, <1>4, PutRowKeepsText DEF Rows
<1>5. ASSUME NEW t, PutRow(m, [db[m] EXCEPT !.upd = t]) PROVE TextKept
  BY <1>1, <1>2, <1>5, PutRowKeepsText DEF Rows
<1>6. CASE StampCommitted(p)
  <2>1. Exists(m) => db[m].body \subseteq [db[m] EXCEPT !.fca = r.mem.upd].body
    BY <1>2 DEF Rows
  <2> QED BY <1>1, <1>6, <2>1, PutRowKeepsText DEF StampCommitted
<1>7. CASE WriteTags(p)
  BY <1>3, <1>4, <1>7 DEF WriteTags
<1>8. CASE Touch(p)
  BY <1>5, <1>8 DEF Touch
<1>9. CASE RestoreUpdatedAt(p)
  BY <1>5, <1>9 DEF RestoreUpdatedAt
<1>10. CASE Save(p)
  <2>1. Exists(m) => Merged(db[m], r, clock + 1).body = db[m].body
    BY <1>2, <1>10 DEF Merged, Rows
  <2>2. PutRow(m, Merged(db[m], r, clock + 1)) \/ UNCHANGED db
    BY <1>10 DEF Save
  <2> QED BY <1>1, <1>3, <2>1, <2>2, PutRowKeepsText
<1> QED BY <1>6, <1>7, <1>8, <1>9, <1>10

\* A request that is starting removes no text: it inserts a row, appends to a
\* body, deletes a row or leaves the database alone.
LEMMA BeginKeepsText ==
  ASSUME TypeOK, NEW p \in Procs, Begin(p)
  PROVE  TextKept
<1>1. CASE UNCHANGED db
  BY <1>1 DEF TextKept
<1>2. ASSUME NEW m \in Memos, NEW c, Create(p, m, c) \/ ApiCreate(p, m, c) PROVE TextKept
  BY <1>2 DEF Create, ApiCreate, TypeOK, TextKept, Exists, Absent
<1>3. ASSUME NEW m \in Memos, NEW f, Append(p, m, f) PROVE TextKept
  <2>1. db[m] \in Rows
    BY <1>3, ExistingRow DEF Append
  <2> DEFINE row == [db[m] EXCEPT !.body = @ \cup {f}, !.upd = clock + 1]
  <2>2. db' = [db EXCEPT ![m] = row]
    BY <1>3 DEF Append
  <2>3. db[m].body \subseteq row.body
    BY <2>1 DEF Rows
  <2> HIDE DEF row
  <2> QED BY <2>2, <2>3 DEF TypeOK, TextKept
<1>4. ASSUME NEW m \in Memos, Destroy(p, m) PROVE TextKept
  BY <1>4 DEF Destroy, TypeOK, TextKept, Exists, Absent
<1> QED BY <1>1, <1>2, <1>3, <1>4 DEF Begin, BeginDraft, BeginUpdate, BeginCommit, BeginRevert,
           BeginToggle, BeginUpdateTags

\* A reply appended to a body is never removed by a commit, a stamp, a change of
\* tags, a revert of updated_at or a draft of another title, however stale the copy
\* they work on: text is lost only to a save whose own form changed the body.
THEOREM TextStays == Spec => AppendedTextSurvives
<1> DEFINE Inv == TypeOK /\ HandlersKeepTheirSteps
           Changer(m) == \E p \in Procs : /\ At(p, "save") /\ req[p].memo = m
                                         /\ req[p].mem.body # req[p].ld.body
           Step == \A m \in Memos :
                     Exists(m) /\ Exists(m)' /\ ~(db[m].body \subseteq db'[m].body) => Changer(m)
<1>1. Inv /\ [Next]_vars => [Step]_vars
  <2> SUFFICES ASSUME Inv, Next PROVE Step
    OBVIOUS
  <2>1. PICK p \in Procs : Begin(p) \/ LockingStep(p) \/ FreeStep(p) \/ Crash(p)
    BY DEF Next
  <2>2. CASE TextKept
    BY <2>2 DEF TextKept
  <2>3. CASE Begin(p)
    BY <2>2, <2>3, BeginKeepsText
  <2>4. CASE UNCHANGED db
    BY <2>2, <2>4 DEF TextKept
  <2>5. CASE Save(p) /\ req[p].mem.body # req[p].ld.body
    <3>1. At(p, "save")
      BY <2>5 DEF Save
    <3>2. ASSUME NEW m \in Memos, m # req[p].memo PROVE db'[m] = db[m]
      BY <2>5, <3>2 DEF Save, PutRow, TypeOK
    <3> QED BY <2>5, <3>1, <3>2
  <2>6. CASE FreeStep(p) /\ ~(Save(p) /\ req[p].mem.body # req[p].ld.body)
    <3>1. CASE WriteTags(p) \/ Save(p) \/ StampCommitted(p) \/ Touch(p) \/ RestoreUpdatedAt(p)
      BY <2>2, <2>6, <3>1, DbStepKeepsText
    <3>2. CASE \/ CheckOld(p) \/ WriteFile(p) \/ GitCommit(p) \/ FindCommittedPath(p)
               \/ ReadBlob(p) \/ RestoreFile(p) \/ RemoveOtherFiles(p)
      BY <2>4, <3>2 DEF CheckOld, WriteFile, GitCommit, FindCommittedPath, ReadBlob, RestoreFile,
         RemoveOtherFiles
    <3> QED BY <2>6, <3>1, <3>2 DEF FreeStep
  <2>7. CASE LockingStep(p) \/ Crash(p)
    BY <2>4, <2>7 DEF LockingStep, Relocate, Add, Crash
  <2> QED BY <2>1, <2>3, <2>5, <2>6, <2>7
<1> QED BY <1>1, TypeCorrect, PTL DEF Spec, AppendedTextSurvives

-----------------------------------------------------------------------------
\* A committed memo keeps a file in HEAD, as long as nothing is reverted

NoReverts == \A p \in Procs : "revert" \notin OpsOf[p]

\* Without reverts no step of revert_draft is taken.
LEMMA NoRevertSteps ==
  ASSUME NoReverts, HandlersKeepTheirSteps, NEW p \in Procs
  PROVE  /\ ~FindCommittedPath(p) /\ ~ReadBlob(p) /\ ~RestoreFile(p) /\ ~RemoveOtherFiles(p)
         /\ ~RestoreUpdatedAt(p)
<1>1. req[p].pc # "idle" => req[p].op # "revert"
  BY DEF NoReverts, HandlersKeepTheirSteps, At
<1> QED BY <1>1, OpOfStep DEF FindCommittedPath, ReadBlob, RestoreFile, RemoveOtherFiles,
           RestoreUpdatedAt, At

\* Which steps write which part of the repository.
LEMMA RepositoryWriters ==
  ASSUME NoReverts, HandlersKeepTheirSteps, NEW p \in Procs,
         Begin(p) \/ LockingStep(p) \/ FreeStep(p) \/ Crash(p)
  PROVE  /\ ~GitCommit(p) => UNCHANGED head
         /\ ~Relocate(p) /\ ~Add(p) => UNCHANGED index
         /\ ~Relocate(p) /\ ~WriteFile(p) => UNCHANGED tree
<1>1. CASE Begin(p)
  BY <1>1 DEF Begin, BeginDraft, BeginUpdate, BeginCommit, BeginRevert, BeginToggle,
     BeginUpdateTags, Create, ApiCreate, Append, Destroy, git
<1>2. CASE LockingStep(p)
  BY <1>2 DEF LockingStep, Relocate, Add
<1>3. CASE FreeStep(p)
  BY <1>3, NoRevertSteps DEF FreeStep, WriteTags, CheckOld, WriteFile, GitCommit, Save,
     StampCommitted, Touch, git
<1>4. CASE Crash(p)
  BY <1>4 DEF Crash, git
<1> QED BY <1>1, <1>2, <1>3, <1>4

\* A rename takes the index entry along with the file.
LEMMA RelocateFiles ==
  ASSUME TypeOK, RelocateMoves, IndexHasTree, HeadStaysStaged, NEW p \in Procs, Relocate(p)
  PROVE  IndexHasTree' /\ HeadStaysStaged'
<1> DEFINE r == req[p]
           m == r.memo
           from == r.at
           to == r.mem.slug
           moved(f) == [f EXCEPT ![m][to] = f[m][from], ![m][from] = NoFile]
<1>1. m \in Memos /\ from \in Stems /\ to \in Stems /\ from # to
  BY ActiveRequest DEF Relocate, Requests, Rows, RelocateMoves
<1>2. UNCHANGED head /\ tree \in Files /\ index \in Files
  BY DEF Relocate, TypeOK
<1>3. ASSUME NEW f \in Files, NEW n \in Memos, NEW s \in Stems
      PROVE  moved(f)[n][s] = IF n = m /\ s = from THEN NoFile
                              ELSE IF n = m /\ s = to THEN f[m][from] ELSE f[n][s]
  BY <1>1, <1>3 DEF Files
<1>4. \/ UNCHANGED <<tree, index>>
      \/ tree' = moved(tree) /\ index' = moved(index) /\ index[m][from] # NoFile
      \/ /\ tree' = moved(tree) /\ UNCHANGED index /\ index[m][from] = NoFile
         /\ tree[m][from] # NoFile
  BY DEF Relocate
<1> HIDE DEF moved
<1>5. CASE UNCHANGED <<tree, index>>
  BY <1>2, <1>5 DEF IndexHasTree, HeadStaysStaged, Has
<1>6. CASE tree' = moved(tree) /\ index' = moved(index) /\ index[m][from] # NoFile
  <2>1. ASSUME NEW n \in Memos, NEW s \in Stems
        PROVE  /\ tree'[n][s] = IF n = m /\ s = from THEN NoFile
                                ELSE IF n = m /\ s = to THEN tree[m][from] ELSE tree[n][s]
               /\ index'[n][s] = IF n = m /\ s = from THEN NoFile
                                 ELSE IF n = m /\ s = to THEN index[m][from] ELSE index[n][s]
    BY <1>2, <1>3, <1>6
  <2>2. IndexHasTree'
    BY <1>1, <2>1 DEF IndexHasTree
  <2>3. \A n \in Memos : Has(index, n) => Has(index', n)
    BY <1>1, <1>6, <2>1 DEF Has
  <2> QED BY <1>2, <2>2, <2>3 DEF HeadStaysStaged, Has
<1>7. CASE /\ tree' = moved(tree) /\ UNCHANGED index /\ index[m][from] = NoFile
           /\ tree[m][from] # NoFile
  <2>1. ASSUME NEW n \in Memos, NEW s \in Stems, n # m \/ s # from
        PROVE  tree[n][s] # NoFile => tree'[n][s] # NoFile
    BY <1>2, <1>3, <1>7, <2>1
  <2>2. IndexHasTree'
    BY <1>7, <2>1 DEF IndexHasTree
  <2> QED BY <1>2, <1>7, <2>2 DEF HeadStaysStaged, Has
<1> QED BY <1>4, <1>5, <1>6, <1>7

\* Under the assumption of the theorem, the invariant of all that precedes it.
Inv == TypeOK /\ HandlersKeepTheirSteps /\ CommitterHoldsLock /\ HeadInv

\* Without reverts every staged path keeps its file, and no memo leaves the index.
LEMMA FilesStep ==
  ASSUME NoReverts, Inv, NEW p \in Procs, Begin(p) \/ LockingStep(p) \/ FreeStep(p) \/ Crash(p)
  PROVE  IndexHasTree' /\ HeadStaysStaged'
<1> USE DEF Inv, HeadInv
<1> DEFINE r == req[p]
           m == r.memo
           s == r.mem.slug
<1>1. CASE Relocate(p)
  BY <1>1, RelocateFiles
<1>2. CASE Add(p)
  <2>1. m \in Memos /\ s \in Stems /\ index \in Files
    BY <1>2, ActiveRequest DEF Add, Requests, Rows, TypeOK
  <2>2. \/ UNCHANGED index
        \/ index' = [index EXCEPT ![m][s] = tree[m][s]] /\ tree[m][s] # NoFile
    BY <1>2, <2>1 DEF Add, IndexHasTree
  <2>3. ASSUME NEW n \in Memos, NEW t \in Stems
        PROVE  \/ index'[n][t] = index[n][t]
               \/ index'[n][t] = tree[n][t] /\ tree[n][t] # NoFile
    BY <2>1, <2>2 DEF Files
  <2>4. UNCHANGED <<tree, head>>
    BY <1>2 DEF Add
  <2>5. IndexHasTree'
    BY <2>3, <2>4 DEF IndexHasTree
  <2>6. \A n \in Memos : Has(index, n) => Has(index', n)
    BY <2>3 DEF Has
  <2> QED BY <2>4, <2>5, <2>6 DEF HeadStaysStaged, Has
<1>3. CASE WriteFile(p)
  <2>1. Content(r.mem) # NoFile /\ m \in Memos /\ s \in Stems
    BY <1>3, ActiveRequest, ContentType, NoFileAssumption DEF WriteFile, Requests, Rows
  <2>2. UNCHANGED <<index, head>> /\ tree' = [tree EXCEPT ![m][s] = Content(r.mem)]
    BY <1>3 DEF WriteFile
  <2>3. ASSUME NEW n \in Memos, NEW t \in Stems, tree[n][t] # NoFile PROVE tree'[n][t] # NoFile
    BY <2>1, <2>2, <2>3 DEF TypeOK, Files
  <2> QED BY <2>2, <2>3 DEF IndexHasTree, HeadStaysStaged, Has
<1>4. CASE GitCommit(p)
  BY <1>4 DEF GitCommit, IndexHasTree, HeadStaysStaged, Has
<1>5. CASE ~Relocate(p) /\ ~Add(p) /\ ~WriteFile(p) /\ ~GitCommit(p)
  <2>1. UNCHANGED <<tree, index, head>>
    BY <1>5, RepositoryWriters
  <2> QED BY <2>1 DEF IndexHasTree, HeadStaysStaged, Has
<1> QED BY <1>1, <1>2, <1>3, <1>4, <1>5

\* Without reverts a memo that has a file in HEAD keeps one.
LEMMA HeadKept ==
  ASSUME NoReverts, Inv, NEW p \in Procs, Begin(p) \/ LockingStep(p) \/ FreeStep(p) \/ Crash(p),
         NEW m \in Memos, Has(head, m)
  PROVE  Has(head', m)
<1>1. CASE GitCommit(p)
  BY <1>1 DEF GitCommit, Inv, HeadInv, HeadStaysStaged, Has
<1>2. CASE ~GitCommit(p)
  BY <1>2, RepositoryWriters DEF Inv, Has
<1> QED BY <1>1, <1>2

\* What is staged between add and commit: only Add gets there, and with an entry.
LEMMA StagedStep ==
  ASSUME NoReverts, Inv, NEW p \in Procs, Begin(p) \/ LockingStep(p) \/ FreeStep(p) \/ Crash(p)
  PROVE  StagedHasEntry'
<1> USE DEF Inv, HeadInv
<1> SUFFICES ASSUME NEW q \in Procs, req'[q].pc = "gitcommit"
             PROVE  index'[req'[q].memo][req'[q].mem.slug] # NoFile
  BY DEF StagedHasEntry, At
<1>1. CASE q # p
  <2>1. req'[q] = req[q] /\ At(q, "gitcommit")
    BY <1>1, OthersKept DEF At
  <2>2. lock # Nobody
    BY <2>1, NobodyAssumption DEF CommitterHoldsLock
  <2>3. UNCHANGED index
    BY <2>2, RepositoryWriters DEF Relocate, Add
  <2> QED BY <2>1, <2>3 DEF StagedHasEntry
<1>2. CASE q = p
  <2>1. Add(p)
    BY <1>2, BeginPc, FreeStepPc, FinishPc DEF LockingStep, Crash
  <2>2. req[p] \in Requests
    BY <2>1, ActiveRequest DEF Add
  <2>3. Go(p, "gitcommit") /\ ~(tree[req[p].memo][req[p].mem.slug] = NoFile
                                 /\ index[req[p].memo][req[p].mem.slug] = NoFile)
    BY <1>2, <2>1, FinishPc DEF Add
  <2>4. req'[p].memo = req[p].memo /\ req'[p].mem = req[p].mem
    BY <2>2, <2>3 DEF Go, Requests, TypeOK
  <2>5. req[p].memo \in Memos /\ req[p].mem.slug \in Stems
    BY <2>2 DEF Requests, Rows
  <2>6. tree[req[p].memo][req[p].mem.slug] # NoFile
    BY <2>3, <2>5 DEF IndexHasTree
  <2>7. index'[req[p].memo][req[p].mem.slug] = tree[req[p].memo][req[p].mem.slug]
    BY <2>1, <2>3, <2>5, <2>6 DEF Add, TypeOK, Files
  <2> QED BY <1>2, <2>4, <2>6, <2>7
<1> QED BY <1>1, <1>2

\* A request starts before its git commit, or is one that writes no file.
LEMMA BeginRequest ==
  ASSUME TypeOK, NEW p \in Procs, Begin(p)
  PROVE  \/ req'[p].pc \in {"idle", "tags", "write", "path"}
         \/ req'[p].pc = "save" /\ req'[p].op = "toggle"
<1>1. At(p, "idle")
  BY DEF Begin, BeginDraft, BeginUpdate, BeginCommit, BeginRevert, BeginToggle,
     BeginUpdateTags, Create, ApiCreate, Append, Destroy, CanStart
<1>2. CASE UNCHANGED req
  BY <1>1, <1>2 DEF At
<1>3. CASE \E r : /\ r.pc \in {"tags", "write", "path"} \/ (r.pc = "save" /\ r.op = "toggle")
                  /\ req' = [req EXCEPT ![p] = r]
  BY <1>3 DEF TypeOK
<1>4. ASSUME NEW op, NEW m, NEW mem, NEW pc, Start(p, op, m, mem, pc),
             pc \in {"tags", "write", "path"} \/ (pc = "save" /\ op = "toggle")
      PROVE  \E r : /\ r.pc \in {"tags", "write", "path"} \/ (r.pc = "save" /\ r.op = "toggle")
                    /\ req' = [req EXCEPT ![p] = r]
  BY <1>4 DEF Start
<1> QED BY <1>2, <1>3, <1>4 DEF Begin, BeginDraft, BeginUpdate, BeginCommit, BeginRevert,
           BeginToggle, BeginUpdateTags, Create, ApiCreate, Append, Destroy

\* Going on changes nothing but the step.
LEMMA GoKeeps ==
  ASSUME TypeOK, NEW p \in Procs, req[p] \in Requests, NEW pc, Go(p, pc)
  PROVE  /\ req'[p].pc = pc
         /\ req'[p].op = req[p].op /\ req'[p].memo = req[p].memo
         /\ req'[p].ld = req[p].ld /\ req'[p].mem = req[p].mem /\ req'[p].at = req[p].at
<1>1. req'[p] = [req[p] EXCEPT !.pc = pc]
  BY DEF Go, TypeOK
<1> QED BY <1>1 DEF Requests

\* A save ends the request or goes on with the same memo.
LEMMA SaveKeeps ==
  ASSUME TypeOK, NEW p \in Procs, req[p] \in Requests, Save(p)
  PROVE  \/ req'[p].pc = "idle"
         \/ /\ req'[p].pc \in {"stamp", "unstamp"}
            /\ req'[p].op = req[p].op /\ req'[p].memo = req[p].memo
<1> DEFINE r == req[p]
           saved == IF Changed(r) THEN [r EXCEPT !.mem.upd = clock + 1] ELSE r
<1>1. req' = [req EXCEPT ![p] = IF AfterSave(r.op) = "idle" THEN Idle
                                ELSE [saved EXCEPT !.pc = AfterSave(r.op)]]
  BY DEF Save
<1>2. /\ [saved EXCEPT !.pc = AfterSave(r.op)].op = r.op
      /\ [saved EXCEPT !.pc = AfterSave(r.op)].memo = r.memo
      /\ [saved EXCEPT !.pc = AfterSave(r.op)].pc = AfterSave(r.op)
  BY DEF Requests
<1>3. AfterSave(r.op) \in {"idle", "stamp", "unstamp"}
  BY DEF AfterSave
<1> HIDE DEF saved
<1> QED BY <1>1, <1>2, <1>3 DEF TypeOK, Idle

\* What a step of p makes of the request of p, when nothing is reverted.
LEMMA OwnStep ==
  ASSUME NoReverts, Inv, NEW p \in Procs, Begin(p) \/ LockingStep(p) \/ FreeStep(p) \/ Crash(p)
  PROVE  /\ At(p, "check")' \/ At(p, "relocate")' => req'[p].at # req'[p].mem.slug
         /\ /\ req'[p].pc \in {"save", "stamp"}
            /\ req'[p].op \in {"update", "commit", "apiCreate"}
            => Has(head', req[p].memo) /\ req'[p].memo = req[p].memo
<1> USE DEF Inv, HeadInv, At
<1> DEFINE r == req[p]
<1>1. CASE Begin(p)
  BY <1>1, BeginRequest
<1>2. CASE Crash(p)
  BY <1>2, FinishPc DEF Crash
<1>3. CASE LockingStep(p) \/ FreeStep(p)
  <2>1. r \in Requests
    BY <1>3, ActiveRequest DEF LockingStep, FreeStep, WriteTags, CheckOld, WriteFile, GitCommit,
       Save, StampCommitted, Touch, FindCommittedPath, ReadBlob, RestoreFile,
       RemoveOtherFiles, RestoreUpdatedAt, Relocate, Add
  <2>2. r.pc # "idle"
    BY <2>1, IdleIsNoRequest
  <2>3. CASE WriteTags(p)
    <3>1. r.op \in {"draft", "update", "revert", "updateTags"}
      BY <2>2, <2>3, OpOfStep DEF WriteTags
    <3>2. AfterTags(r) = "check" => r.at # r.mem.slug
      BY <3>1 DEF AfterTags
    <3>3. AfterTags(r) = "save" => r.op = "draft"
      BY <3>1 DEF AfterTags
    <3>4. AfterTags(r) \notin {"relocate", "stamp"}
      BY <3>1 DEF AfterTags
    <3>5. Go(p, AfterTags(r)) \/ Finish(p)
      BY <2>3 DEF WriteTags
    <3> QED BY <2>1, <3>2, <3>3, <3>4, <3>5, GoKeeps, FinishPc
  <2>4. CASE CheckOld(p) \/ Relocate(p)
    <3>1. r.op = "draft" /\ r.at # r.mem.slug
      BY <2>2, <2>4, OpOfStep DEF CheckOld, Relocate, RelocateMoves
    <3>2. Go(p, "relocate") \/ Go(p, "save") \/ Finish(p)
      BY <2>4 DEF CheckOld, Relocate
    <3> QED BY <2>1, <3>1, <3>2, GoKeeps, FinishPc
  <2>5. CASE WriteFile(p) \/ Add(p)
    BY <2>1, <2>5, GoKeeps, FinishPc DEF WriteFile, Add
  <2>6. CASE GitCommit(p)
    <3>1. r.memo \in Memos /\ r.mem.slug \in Stems
      BY <2>1 DEF Requests, Rows
    <3>2. Has(head', r.memo)
      BY <2>6, <3>1 DEF GitCommit, StagedHasEntry, Has
    <3> QED BY <2>1, <2>6, <3>2, GoKeeps DEF GitCommit
  <2>7. CASE Save(p)
    <3>1. r.memo \in Memos
      BY <2>1 DEF Requests
    <3>2. r.op \in {"update", "commit", "apiCreate"} => Has(head', r.memo)
      BY <1>3, <2>2, <2>7, <3>1, HeadKept DEF CommittedBeforeStamp, Save
    <3> QED BY <2>1, <2>7, <3>2, SaveKeeps
  <2>8. CASE StampCommitted(p) \/ Touch(p)
    BY <2>8, FinishPc DEF StampCommitted, Touch
  <2> QED BY <1>3, <2>3, <2>4, <2>5, <2>6, <2>7, <2>8, NoRevertSteps DEF LockingStep, FreeStep
<1> QED BY <1>1, <1>2, <1>3

\* A request that has passed git commit has its memo in HEAD, and a rename has two paths.
LEMMA OwnInvStep ==
  ASSUME NoReverts, Inv, NEW p \in Procs, Begin(p) \/ LockingStep(p) \/ FreeStep(p) \/ Crash(p)
  PROVE  RelocateMoves' /\ CommittedBeforeStamp'
<1>1. RelocateMoves'
  BY OwnStep, OthersKept DEF Inv, HeadInv, RelocateMoves, At
<1>2. CommittedBeforeStamp'
  <2> SUFFICES ASSUME NEW q \in Procs, req'[q].pc \in {"save", "stamp"},
                      req'[q].op \in {"update", "commit", "apiCreate"}
               PROVE  Has(head', req'[q].memo)
    BY DEF CommittedBeforeStamp, Has
  <2>1. CASE q = p
    BY <2>1, OwnStep
  <2>2. CASE q # p
    <3>1. req'[q] = req[q] /\ ~At(q, "idle")
      BY <2>2, OthersKept DEF Inv, At
    <3>2. req[q].memo \in Memos
      BY <3>1 DEF Inv, TypeOK, Requests, Idle, At
    <3> QED BY <3>1, <3>2, HeadKept DEF Inv, HeadInv, CommittedBeforeStamp
  <2> QED BY <2>1, <2>2
<1> QED BY <1>1, <1>2

\* file_committed_at is written by the stamp alone.
LEMMA StampWrites ==
  ASSUME TypeOK, NoReverts, HandlersKeepTheirSteps, NEW p \in Procs,
         Begin(p) \/ LockingStep(p) \/ FreeStep(p) \/ Crash(p),
         NEW m \in Memos, Exists(m)', db'[m].fca # 0
  PROVE  \/ Exists(m) /\ db[m].fca # 0
         \/ StampCommitted(p) /\ req[p].memo = m
<1>1. ASSUME NEW n \in Memos, NEW row, PutRow(n, row), n = m /\ Exists(n) => row.fca = db[m].fca
      PROVE  Exists(m) /\ db[m].fca # 0
  BY <1>1 DEF PutRow, TypeOK, Exists
<1>2. CASE UNCHANGED db
  BY <1>2 DEF Exists
<1>3. CASE Begin(p)
  <2>1. PICK n \in Memos :
          \/ UNCHANGED db
          \/ \E c \in Payloads : db' = [db EXCEPT ![n] = NewRow(c)]
          \/ \E f \in Frags : /\ Exists(n)
                              /\ db' = [db EXCEPT ![n].body = @ \cup {f}, ![n].upd = clock + 1]
          \/ db' = [db EXCEPT ![n] = Deleted]
    BY <1>3 DEF Begin, BeginDraft, BeginUpdate, BeginCommit, BeginRevert, BeginToggle,
       BeginUpdateTags, Create, ApiCreate, Append, Destroy
  <2>2. ASSUME NEW c \in Payloads, db' = [db EXCEPT ![n] = NewRow(c)]
        PROVE  Exists(m) /\ db[m].fca # 0
    BY <2>2 DEF TypeOK, Exists, NewRow
  <2>3. ASSUME NEW f \in Frags, Exists(n),
               db' = [db EXCEPT ![n].body = @ \cup {f}, ![n].upd = clock + 1]
        PROVE  Exists(m) /\ db[m].fca # 0
    BY <2>3, ExistingRow DEF TypeOK, Exists, Rows
  <2>4. CASE db' = [db EXCEPT ![n] = Deleted]
    BY <2>4 DEF TypeOK, Exists, Absent
  <2> QED BY <1>2, <2>1, <2>2, <2>3, <2>4 DEF Exists
<1>4. CASE LockingStep(p) \/ Crash(p)
  BY <1>2, <1>4 DEF LockingStep, Relocate, Add, Crash
<1>5. CASE FreeStep(p)
  <2> DEFINE r == req[p]
             n == r.memo
  <2>1. n \in Memos
    BY <1>5, ActiveRequest DEF FreeStep, WriteTags, CheckOld, WriteFile, GitCommit,
       Save, StampCommitted, Touch, FindCommittedPath, ReadBlob, RestoreFile,
       RemoveOtherFiles, RestoreUpdatedAt, Requests
  <2>2. Exists(n) => db[n] \in Rows
    BY <2>1, ExistingRow
  <2>3. CASE WriteTags(p)
    <3> DEFINE row == [db[n] EXCEPT !.tags = (@ \ (r.ld.tags \ r.mem.tags))
                                              \cup (r.mem.tags \ r.ld.tags)]
    <3>1. Exists(n) => row.fca = db[n].fca
      BY <2>2 DEF Rows
    <3>2. PutRow(n, row) \/ UNCHANGED db
      BY <2>3 DEF WriteTags
    <3> HIDE DEF row
    <3> QED BY <1>1, <1>2, <2>1, <3>1, <3>2
  <2>4. CASE Save(p)
    <3> DEFINE row == Merged(db[n], r, clock + 1)
    <3>1. Exists(n) => row.fca = db[n].fca
      BY <2>2 DEF Rows, Merged
    <3>2. PutRow(n, row) \/ UNCHANGED db
      BY <2>4 DEF Save
    <3> HIDE DEF row
    <3> QED BY <1>1, <1>2, <2>1, <3>1, <3>2
  <2>5. CASE Touch(p)
    <3> DEFINE row == [db[n] EXCEPT !.upd = clock + 1]
    <3>1. Exists(n) => row.fca = db[n].fca
      BY <2>2 DEF Rows
    <3>2. PutRow(n, row)
      BY <2>5 DEF Touch
    <3> HIDE DEF row
    <3> QED BY <1>1, <2>1, <3>1, <3>2
  <2>6. CASE StampCommitted(p)
    <3> DEFINE row == [db[n] EXCEPT !.fca = r.mem.upd]
    <3>1. PutRow(n, row)
      BY <2>6 DEF StampCommitted
    <3> HIDE DEF row
    <3>2. CASE n # m
      BY <1>1, <2>1, <3>1, <3>2
    <3> QED BY <2>6, <3>2
  <2>7. CASE CheckOld(p) \/ WriteFile(p) \/ GitCommit(p)
    BY <1>2, <2>7 DEF CheckOld, WriteFile, GitCommit
  <2> QED BY <1>5, <2>3, <2>4, <2>5, <2>6, <2>7, NoRevertSteps DEF FreeStep
<1> QED BY <1>3, <1>4, <1>5

\* A memo gets a file_committed_at only when HEAD has a file of it.
LEMMA CommittedStep ==
  ASSUME NoReverts, Inv, NEW p \in Procs, Begin(p) \/ LockingStep(p) \/ FreeStep(p) \/ Crash(p)
  PROVE  CommittedHasHead'
<1> SUFFICES ASSUME NEW m \in Memos, Exists(m)', db'[m].fca # 0 PROVE Has(head', m)
  BY DEF CommittedHasHead, HeadPaths, Has
<1>1. CASE Exists(m) /\ db[m].fca # 0
  <2>1. Has(head, m)
    BY <1>1 DEF Inv, HeadInv, CommittedHasHead, HeadPaths, Has
  <2> QED BY <2>1, HeadKept
<1>2. CASE StampCommitted(p) /\ req[p].memo = m
  <2>1. req[p].pc = "stamp" /\ req[p].op \in {"update", "commit", "apiCreate"}
    BY <1>2, OpOfStep DEF StampCommitted, At, Inv
  <2>2. Has(head, m)
    BY <1>2, <2>1 DEF Inv, HeadInv, CommittedBeforeStamp, At
  <2> QED BY <2>2, HeadKept
<1> QED BY <1>1, <1>2, StampWrites DEF Inv

\* The invariant holds at first and is kept by every step.
LEMMA HeadInvInit == Init => Inv
<1>1. Init => TypeOK /\ HandlersKeepTheirSteps /\ CommitterHoldsLock
  BY InitType, LockInit DEF Init, HandlersKeepTheirSteps, At, Idle
<1>2. Init => HeadInv
  BY AbsentAssumption DEF Init, HeadInv, RelocateMoves, IndexHasTree, HeadStaysStaged,
     StagedHasEntry, CommittedBeforeStamp, CommittedHasHead, Has, Exists, Absent, At, Idle
<1> QED BY <1>1, <1>2 DEF Inv

LEMMA HeadInvStep ==
  ASSUME NoReverts PROVE Inv /\ [Next]_vars => Inv'
<1> SUFFICES ASSUME Inv, [Next]_vars PROVE Inv'
  OBVIOUS
<1>1. CASE UNCHANGED vars
  BY <1>1 DEF vars, Inv, TypeOK, Files, HandlersKeepTheirSteps, CommitterHoldsLock, HeadInv,
     RelocateMoves, IndexHasTree, HeadStaysStaged, StagedHasEntry, CommittedBeforeStamp,
     CommittedHasHead, HeadPaths, Has, Exists, At
<1>2. CASE Next
  <2>1. PICK p \in Procs : Begin(p) \/ LockingStep(p) \/ FreeStep(p) \/ Crash(p)
    BY <1>2 DEF Next
  <2>2. TypeOK' /\ CommitterHoldsLock'
    BY StepType, LockStep DEF Inv
  <2>3. HandlersKeepTheirSteps'
    BY <2>1, BeginSteps, StepSteps, FinishSteps DEF Inv, Crash
  <2>4. HeadInv'
    BY <2>1, OwnInvStep, FilesStep, StagedStep, CommittedStep DEF HeadInv
  <2> QED BY <2>2, <2>3, <2>4 DEF Inv
<1> QED BY <1>1, <1>2

\* As long as no draft is reverted, a memo that has been committed has a file in
\* HEAD for ever, through every interleaving of commits, renames, autosaves,
\* deletions and crashes of any number of requests.
THEOREM CommittedStaysInHead ==
  ASSUME \A p \in Procs : "revert" \notin OpsOf[p]
  PROVE  Spec => []CommittedHasHead
<1>1. NoReverts
  BY DEF NoReverts
<1>2. Inv => CommittedHasHead
  BY DEF Inv, HeadInv
<1> QED BY <1>1, <1>2, HeadInvInit, HeadInvStep, PTL DEF Spec

-----------------------------------------------------------------------------
\* One thread that never dies: the invariant

OneThread == ~CanCrash /\ \A p, q \in Procs : p = q

\* The path of m is known to the work tree, the index or HEAD.
Used(m, s) == tree[m][s] # NoFile \/ index[m][s] # NoFile \/ head[m][s] # NoFile

OnlyAt(m, s) == \A t \in Stems : Used(m, t) => t = s
NoFiles(m) == \A t \in Stems : ~Used(m, t)
OnePath(m) == \A s, t \in Stems : Used(m, s) /\ Used(m, t) => s = t

\* A request of p has written the file of m and not yet stamped the row.
Wrote(p, m) ==
  /\ req[p].memo = m
  /\ \/ req[p].pc \in {"add", "gitcommit", "stamp"}
     \/ req[p].pc = "save" /\ req[p].op \in {"update", "commit", "apiCreate"}

\* A memo has files at one path: the slug of its row once it is stamped, before
\* that the slug its commit has written.
FilesOf(m) ==
  /\ db[m] = NotYet => NoFiles(m)
  /\ db[m] = Deleted => OnePath(m)
  /\ Exists(m) =>
       /\ db[m].upd # 0
       /\ db[m].fca # 0 => OnlyAt(m, db[m].slug)
       /\ db[m].fca = 0 => \/ NoFiles(m)
                           \/ \E p \in Procs : Wrote(p, m) /\ OnlyAt(m, req[p].mem.slug)

\* The row a request has loaded is the row as it stands, but for what the
\* request itself has written of it.
RowIsLoaded(r) ==
  LET row == db[r.memo] IN
  /\ Exists(r.memo) /\ row.fca = r.ld.fca /\ r.mem.fca = r.ld.fca /\ r.mem.upd # 0
  /\ r.pc \in {"path", "blob", "tags"} => row = r.ld
  /\ r.pc \in {"check", "write", "add", "gitcommit", "restore", "remove", "save"} =>
       row = [r.ld EXCEPT !.tags = r.mem.tags]
  /\ r.pc \notin {"stamp", "unstamp"} => r.mem.upd = r.ld.upd
  /\ r.pc \in {"stamp", "unstamp"} =>
       Content(row) = Content(r.mem) /\ row.slug = r.mem.slug /\ row.upd = r.mem.upd

\* Nothing of a stamped memo moves, and a memo that is not stamped has nothing to move.
PathIsKept(r) ==
  /\ r.ld.fca # 0 => r.mem.slug = r.ld.slug /\ r.at = r.ld.slug /\ db[r.memo].slug = r.ld.slug
  /\ r.pc = "check" => r.at # r.mem.slug
  /\ r.pc # "relocate"
  /\ r.pc = "add" => tree[r.memo][r.mem.slug] # NoFile

\* A revert carries what HEAD has, and leaves the work tree as HEAD is.
RevertCarriesHead(r) ==
  r.op = "revert" =>
    /\ r.ld.fca # 0
    /\ r.pc \notin {"path", "blob"} => head[r.memo][r.at] = Content(r.mem)
    /\ r.pc = "remove" => tree[r.memo][r.at] = head[r.memo][r.at]
    /\ r.pc \in {"save", "unstamp"} => tree[r.memo] = head[r.memo]

RequestOK(r) == RowIsLoaded(r) /\ PathIsKept(r) /\ RevertCarriesHead(r)

SoloInv ==
  /\ TypeOK /\ HandlersKeepTheirSteps
  /\ \A m \in Memos : FilesOf(m)
  /\ \A p \in Procs : ~At(p, "idle") => RequestOK(req[p])

-----------------------------------------------------------------------------
\* One thread: what each step does

\* A request that takes a step is under way and agrees with its row.
LEMMA OwnRequest ==
  ASSUME SoloInv, NEW p \in Procs, LockingStep(p) \/ FreeStep(p)
  PROVE  /\ req[p] \in Requests /\ req[p].pc # "idle" /\ RequestOK(req[p])
         /\ req[p].memo \in Memos /\ db[req[p].memo] \in Rows
<1>1. req[p] \in Requests
  BY ActiveRequest DEF SoloInv, LockingStep, FreeStep, WriteTags, CheckOld, WriteFile, GitCommit,
     Save, StampCommitted, Touch, FindCommittedPath, ReadBlob, RestoreFile, RemoveOtherFiles,
     RestoreUpdatedAt, Relocate, Add
<1>2. req[p].pc # "idle" /\ req[p].memo \in Memos
  BY <1>1, IdleIsNoRequest DEF Requests
<1>3. RequestOK(req[p])
  BY <1>2 DEF SoloInv, At
<1> QED BY <1>1, <1>2, <1>3, ExistingRow DEF SoloInv, RequestOK, RowIsLoaded

\* A path of a memo is first known by a written or restored file.
LEMMA UsedFrom ==
  ASSUME TypeOK, NEW p \in Procs, LockingStep(p) \/ FreeStep(p), ~Relocate(p),
         NEW n \in Memos, NEW t \in Stems, Used(n, t)'
  PROVE  \/ Used(n, t)
         \/ WriteFile(p) /\ n = req[p].memo /\ t = req[p].mem.slug
         \/ RestoreFile(p) /\ n = req[p].memo /\ t = req[p].at
<1>1. tree \in Files /\ index \in Files /\ head \in Files
  BY DEF TypeOK
<1>2. CASE WriteFile(p)
  BY <1>1, <1>2 DEF WriteFile, Used, Files
<1>3. CASE RestoreFile(p)
  BY <1>1, <1>3 DEF RestoreFile, Used, Files
<1>4. CASE RemoveOtherFiles(p)
  BY <1>1, <1>4 DEF RemoveOtherFiles, Used, Files
<1>5. CASE Add(p)
  BY <1>1, <1>5 DEF Add, Used, Files
<1>6. CASE GitCommit(p)
  BY <1>1, <1>6 DEF GitCommit, Used
<1>7. CASE \/ WriteTags(p) \/ CheckOld(p) \/ Save(p) \/ StampCommitted(p) \/ Touch(p)
           \/ FindCommittedPath(p) \/ ReadBlob(p) \/ RestoreUpdatedAt(p)
  BY <1>7 DEF WriteTags, CheckOld, Save, StampCommitted, Touch, FindCommittedPath, ReadBlob,
     RestoreUpdatedAt, git, Used
<1> QED BY <1>2, <1>3, <1>4, <1>5, <1>6, <1>7 DEF LockingStep, FreeStep

\* An UPDATE of a row that exists.
LEMMA PutExisting ==
  ASSUME TypeOK, NEW m \in Memos, Exists(m), NEW row, PutRow(m, row)
  PROVE  db' = [db EXCEPT ![m] = row] /\ db'[m] = row /\ \A n \in Memos : n # m => db'[n] = db[n]
BY DEF PutRow, TypeOK

\* What a step of the request makes of its row: the slug of a stamped memo stays.
RowAfter(p) ==
  LET m == req[p].memo IN
  /\ \A n \in Memos : n # m => db'[n] = db[n]
  /\ db'[m] \in Rows /\ db'[m].upd # 0
  /\ db[m].fca # 0 => db'[m].slug = db[m].slug /\ db'[m].fca # 0
  /\ StampCommitted(p) => db'[m].fca # 0 /\ db'[m].slug = req[p].mem.slug
  /\ ~StampCommitted(p) => db'[m].fca = db[m].fca

LEMMA RowStep ==
  ASSUME SoloInv, NEW p \in Procs, LockingStep(p) \/ FreeStep(p)
  PROVE  RowAfter(p)
<1> DEFINE r == req[p]
           m == r.memo
<1>1. /\ r \in Requests /\ r.pc # "idle" /\ m \in Memos /\ db[m] \in Rows
      /\ RowIsLoaded(r) /\ PathIsKept(r) /\ RevertCarriesHead(r)
  BY OwnRequest DEF RequestOK
<1>2. Exists(m) /\ db[m].upd # 0 /\ clock + 1 \in Nat /\ clock + 1 # 0 /\ TypeOK
  BY <1>1 DEF RowIsLoaded, SoloInv, FilesOf, TypeOK
<1>3. r.ld \in Rows /\ r.mem \in Rows
  BY <1>1 DEF Requests
<1>4. CASE Save(p)
  <2>1. CASE Changed(r)
    <3>1. Merged(db[m], r, clock + 1) \in Rows
      BY <1>1, <1>2, MergedType
    <3>2. db'[m] = Merged(db[m], r, clock + 1) /\ \A n \in Memos : n # m => db'[n] = db[n]
      BY <1>1, <1>2, <1>4, <2>1, PutExisting DEF Save
    <3>3. Merged(db[m], r, clock + 1).upd = clock + 1
      BY <1>1 DEF Merged, Rows
    <3>4. Merged(db[m], r, clock + 1).fca = db[m].fca
      BY <1>1 DEF Merged, Rows
    <3>5. db[m].fca # 0 => Merged(db[m], r, clock + 1).slug = db[m].slug
      BY <1>1 DEF Merged, Rows, RowIsLoaded, PathIsKept
    <3>6. ~StampCommitted(p)
      BY <1>4 DEF Save, StampCommitted, At
    <3> QED BY <1>1, <1>2, <3>1, <3>2, <3>3, <3>4, <3>5, <3>6 DEF RowAfter
  <2>2. CASE ~Changed(r)
    BY <1>1, <1>2, <1>4, <2>2 DEF Save, StampCommitted, At, RowAfter
  <2> QED BY <2>1, <2>2
<1>5. CASE StampCommitted(p)
  <2>1. /\ db'[m] = [db[m] EXCEPT !.fca = r.mem.upd] /\ \A n \in Memos : n # m => db'[n] = db[n]
    BY <1>1, <1>2, <1>5, PutExisting DEF StampCommitted
  <2>2. r.mem.upd \in Nat /\ r.mem.upd # 0 /\ db[m].slug = r.mem.slug
    BY <1>1, <1>3, <1>5 DEF StampCommitted, At, RowIsLoaded, Rows
  <2> QED BY <1>1, <1>2, <1>5, <2>1, <2>2 DEF RowAfter, Rows
<1>6. CASE Touch(p)
  <2>1. /\ db'[m] = [db[m] EXCEPT !.upd = clock + 1] /\ \A n \in Memos : n # m => db'[n] = db[n]
    BY <1>1, <1>2, <1>6, PutExisting DEF Touch
  <2> QED BY <1>1, <1>2, <1>6, <2>1 DEF RowAfter, Rows, Touch, StampCommitted, At
<1>7. CASE RestoreUpdatedAt(p)
  <2>1. /\ db'[m] = [db[m] EXCEPT !.upd = r.ld.fca] /\ \A n \in Memos : n # m => db'[n] = db[n]
    BY <1>1, <1>2, <1>7, PutExisting DEF RestoreUpdatedAt
  <2>2. r.op = "revert" /\ r.ld.fca \in Nat
    BY <1>1, <1>3, <1>7, OpOfStep DEF RestoreUpdatedAt, At, SoloInv, Rows
  <2>3. r.ld.fca # 0
    BY <1>1, <2>2 DEF RevertCarriesHead
  <2> QED BY <1>1, <1>2, <1>7, <2>1, <2>2, <2>3
          DEF RowAfter, Rows, RestoreUpdatedAt, StampCommitted, At
<1>8. CASE WriteTags(p)
  <2>1. CASE UNCHANGED db
    BY <1>1, <1>2, <1>8, <2>1 DEF RowAfter, WriteTags, StampCommitted, At
  <2>2. CASE ~UNCHANGED db
    <3> DEFINE tags == (db[m].tags \ (r.ld.tags \ r.mem.tags)) \cup (r.mem.tags \ r.ld.tags)
    <3>1. [db[m] EXCEPT !.tags = (@ \ (r.ld.tags \ r.mem.tags)) \cup (r.mem.tags \ r.ld.tags)]
            = [db[m] EXCEPT !.tags = tags]
      BY <1>1 DEF Rows
    <3>2. db'[m] = [db[m] EXCEPT !.tags = tags] /\ \A n \in Memos : n # m => db'[n] = db[n]
      BY <1>1, <1>2, <1>8, <2>2, <3>1, PutExisting DEF WriteTags
    <3>3. tags \in SUBSET Tags
      BY <1>1, <1>3 DEF Rows
    <3> HIDE DEF tags
    <3> QED BY <1>1, <1>2, <1>8, <3>2, <3>3 DEF RowAfter, Rows, WriteTags, StampCommitted, At
  <2> QED BY <2>1, <2>2
<1>9. CASE UNCHANGED db /\ ~StampCommitted(p)
  BY <1>1, <1>2, <1>9 DEF RowAfter
<1>10. \/ CheckOld(p) \/ WriteFile(p) \/ GitCommit(p) \/ FindCommittedPath(p) \/ ReadBlob(p)
       \/ RestoreFile(p) \/ RemoveOtherFiles(p) \/ Relocate(p) \/ Add(p)
       => UNCHANGED db /\ ~StampCommitted(p)
  BY DEF CheckOld, WriteFile, GitCommit, FindCommittedPath, ReadBlob, RestoreFile,
     RemoveOtherFiles, Relocate, Add, StampCommitted, At
<1> QED BY <1>4, <1>5, <1>6, <1>7, <1>8, <1>9, <1>10 DEF LockingStep, FreeStep

\* A request goes on in agreement with its row, and what it has written is known.
GoesOn(p) ==
  /\ RequestOK(req[p])'
  /\ req'[p].memo = req[p].memo
  /\ Wrote(p, req[p].memo) \/ WriteFile(p) =>
       Wrote(p, req[p].memo)' /\ req'[p].mem.slug = req[p].mem.slug

EndsQuietly(p) == At(p, "idle")' /\ (Wrote(p, req[p].memo) => StampCommitted(p))

LEMMA GoOn ==
  ASSUME SoloInv, NEW p \in Procs, LockingStep(p) \/ FreeStep(p), NEW pc, Go(p, pc),
         UNCHANGED db,
         req[p].pc \in {"check", "write", "add", "gitcommit", "restore", "remove"},
         pc \in {"add", "gitcommit", "remove", "save"},
         pc = "add" => tree'[req[p].memo][req[p].mem.slug] # NoFile,
         req[p].op = "revert" =>
           /\ head'[req[p].memo][req[p].at] = head[req[p].memo][req[p].at]
           /\ pc = "remove" => tree'[req[p].memo][req[p].at] = head'[req[p].memo][req[p].at]
           /\ pc = "save" => tree'[req[p].memo] = head'[req[p].memo]
  PROVE  RequestOK(req[p])' /\ req'[p].memo = req[p].memo /\ req'[p].mem = req[p].mem
         /\ req'[p].op = req[p].op /\ req'[p].pc = pc
<1> DEFINE r == req[p]
<1>1. r \in Requests /\ RowIsLoaded(r) /\ PathIsKept(r) /\ RevertCarriesHead(r)
  BY OwnRequest DEF RequestOK
<1>2. /\ req'[p].pc = pc /\ req'[p].op = r.op /\ req'[p].memo = r.memo
      /\ req'[p].ld = r.ld /\ req'[p].mem = r.mem /\ req'[p].at = r.at
  BY <1>1, GoKeeps DEF SoloInv
<1>3. RowIsLoaded(req[p])'
  BY <1>1, <1>2 DEF RowIsLoaded, Exists
<1>4. PathIsKept(req[p])'
  BY <1>1, <1>2 DEF PathIsKept
<1>5. RevertCarriesHead(req[p])'
  BY <1>1, <1>2 DEF RevertCarriesHead
<1> QED BY <1>2, <1>3, <1>4, <1>5 DEF RequestOK

\* The steps that write files, the index or HEAD.
LEMMA FileRequestStep ==
  ASSUME SoloInv, OneThread, NEW p \in Procs,
         \/ CheckOld(p) \/ WriteFile(p) \/ Add(p) \/ GitCommit(p) \/ RestoreFile(p)
         \/ RemoveOtherFiles(p)
  PROVE  GoesOn(p)
<1> DEFINE r == req[p]
           m == r.memo
<1>0. LockingStep(p) \/ FreeStep(p)
  BY DEF LockingStep, FreeStep
<1>1. /\ r \in Requests /\ r.pc # "idle" /\ m \in Memos /\ db[m] \in Rows
      /\ RowIsLoaded(r) /\ PathIsKept(r) /\ RevertCarriesHead(r)
  BY <1>0, OwnRequest DEF RequestOK
<1>2. /\ tree \in Files /\ index \in Files /\ head \in Files
      /\ r.at \in Stems /\ r.mem \in Rows /\ r.mem.slug \in Stems
  BY <1>1 DEF SoloInv, TypeOK, Requests, Rows
<1>3. HandlersKeepTheirSteps /\ TypeOK
  BY DEF SoloInv
<1>4. CASE CheckOld(p)
  <2>1. r.at # r.mem.slug /\ r.op = "draft" /\ db[m].fca = 0
    BY <1>1, <1>3, <1>4, OpOfStep DEF CheckOld, At, PathIsKept, RowIsLoaded
  <2>2. tree[m][r.at] = NoFile
    <3>1. ~\E q \in Procs : Wrote(q, m)
      BY <1>4 DEF CheckOld, At, Wrote, OneThread
    <3>2. NoFiles(m)
      BY <1>1, <2>1, <3>1 DEF SoloInv, FilesOf, RowIsLoaded
    <3> QED BY <1>2, <3>2 DEF NoFiles, Used
  <2>3. Go(p, "save") /\ UNCHANGED db
    BY <1>4, <2>2 DEF CheckOld
  <2>4. req'[p].memo = req[p].memo /\ RequestOK(req[p])'
    BY <1>0, <1>4, <2>1, <2>3, GoOn DEF CheckOld, At
  <2> QED BY <1>4, <2>4 DEF GoesOn, Wrote, CheckOld, WriteFile, At
<1>5. CASE WriteFile(p)
  <2>1. r.op # "revert"
    BY <1>1, <1>3, <1>5, OpOfStep DEF WriteFile, At
  <2>2. tree'[m][r.mem.slug] = Content(r.mem) /\ Content(r.mem) # NoFile
    BY <1>1, <1>2, <1>5, ContentType, NoFileAssumption DEF WriteFile, Files
  <2>3. Go(p, "add") /\ UNCHANGED db
    BY <1>5 DEF WriteFile
  <2>4. /\ RequestOK(req[p])' /\ req'[p].memo = m /\ req'[p].mem = r.mem /\ req'[p].pc = "add"
    BY <1>0, <1>5, <2>1, <2>2, <2>3, GoOn DEF WriteFile, At
  <2> QED BY <2>4 DEF GoesOn, Wrote
<1>6. CASE Add(p)
  <2>1. r.op # "revert" /\ tree[m][r.mem.slug] # NoFile
    BY <1>1, <1>3, <1>6, OpOfStep DEF Add, At, PathIsKept
  <2>2. Go(p, "gitcommit") /\ UNCHANGED db
    BY <1>6, <2>1 DEF Add
  <2>3. /\ RequestOK(req[p])' /\ req'[p].memo = m /\ req'[p].mem = r.mem
        /\ req'[p].pc = "gitcommit"
    BY <1>0, <1>6, <2>1, <2>2, GoOn DEF Add, At
  <2> QED BY <2>3 DEF GoesOn, Wrote
<1>7. CASE GitCommit(p)
  <2>1. r.op \in {"update", "commit", "apiCreate"}
    BY <1>1, <1>3, <1>7, OpOfStep DEF GitCommit, At
  <2>2. Go(p, "save") /\ UNCHANGED db
    BY <1>7 DEF GitCommit
  <2>3. /\ RequestOK(req[p])' /\ req'[p].memo = m /\ req'[p].mem = r.mem /\ req'[p].op = r.op
        /\ req'[p].pc = "save"
    BY <1>0, <1>7, <2>1, <2>2, GoOn DEF GitCommit, At
  <2> QED BY <2>1, <2>3 DEF GoesOn, Wrote
<1>8. CASE RestoreFile(p)
  <2>1. r.op = "revert"
    BY <1>1, <1>3, <1>8, OpOfStep DEF RestoreFile, At
  <2>2. tree'[m][r.at] = Content(r.mem) /\ UNCHANGED head
    BY <1>1, <1>2, <1>8 DEF RestoreFile, Files
  <2>3. head[m][r.at] = Content(r.mem)
    BY <1>1, <1>8, <2>1 DEF RestoreFile, At, RevertCarriesHead
  <2>4. Go(p, "remove") /\ UNCHANGED db
    BY <1>8 DEF RestoreFile
  <2>5. RequestOK(req[p])' /\ req'[p].memo = m
    BY <1>0, <1>8, <2>2, <2>3, <2>4, GoOn DEF RestoreFile, At
  <2> QED BY <1>8, <2>5 DEF GoesOn, Wrote, RestoreFile, WriteFile, At
<1>9. CASE RemoveOtherFiles(p)
  <2>1. r.op = "revert"
    BY <1>1, <1>3, <1>9, OpOfStep DEF RemoveOtherFiles, At
  <2>2. db[m].fca # 0 /\ r.at = db[m].slug /\ tree[m][r.at] = head[m][r.at]
    BY <1>1, <1>9, <2>1 DEF RemoveOtherFiles, At, RevertCarriesHead, PathIsKept, RowIsLoaded
  <2>3. OnlyAt(m, r.at)
    BY <1>1, <2>2 DEF SoloInv, FilesOf, RowIsLoaded
  <2>4. /\ UNCHANGED head
        /\ tree'[m] = [s \in Stems |-> IF s = r.at THEN tree[m][s] ELSE NoFile]
    BY <1>1, <1>2, <1>9 DEF RemoveOtherFiles, Files
  <2>5. tree'[m] = head'[m]
    <3>1. head[m] \in [Stems -> Contents \cup {NoFile}]
      BY <1>1, <1>2 DEF Files
    <3>2. \A s \in Stems : tree'[m][s] = head[m][s]
      BY <2>2, <2>3, <2>4 DEF OnlyAt, Used
    <3> QED BY <2>4, <3>1, <3>2
  <2>6. Go(p, "save") /\ UNCHANGED db
    BY <1>9 DEF RemoveOtherFiles
  <2>7. RequestOK(req[p])' /\ req'[p].memo = m
    BY <1>0, <1>9, <2>4, <2>5, <2>6, GoOn DEF RemoveOtherFiles, At
  <2> QED BY <1>9, <2>1, <2>7 DEF GoesOn, Wrote, RemoveOtherFiles, WriteFile, At
<1> QED BY <1>4, <1>5, <1>6, <1>7, <1>8, <1>9

\* The steps that read HEAD for a revert.
LEMMA RevertRequestStep ==
  ASSUME SoloInv, OneThread, NEW p \in Procs, FindCommittedPath(p) \/ ReadBlob(p)
  PROVE  GoesOn(p) \/ EndsQuietly(p)
<1> DEFINE r == req[p]
           m == r.memo
<1>0. LockingStep(p) \/ FreeStep(p)
  BY DEF LockingStep, FreeStep
<1>1. /\ r \in Requests /\ r.pc # "idle" /\ m \in Memos /\ db[m] \in Rows
      /\ RowIsLoaded(r) /\ PathIsKept(r) /\ RevertCarriesHead(r)
  BY <1>0, OwnRequest DEF RequestOK
<1>2. HandlersKeepTheirSteps /\ TypeOK
  BY DEF SoloInv
<1>3. /\ r.op = "revert" /\ r.ld.fca # 0 /\ db[m].fca # 0
      /\ ~Wrote(p, m) /\ ~WriteFile(p) /\ db[m] = r.ld
  BY <1>1, <1>2, OpOfStep
     DEF FindCommittedPath, ReadBlob, At, RevertCarriesHead, RowIsLoaded, Wrote, WriteFile
<1>4. OnlyAt(m, db[m].slug)
  BY <1>1, <1>3 DEF SoloInv, FilesOf, RowIsLoaded
<1>5. UNCHANGED <<db, tree, head>>
  BY DEF FindCommittedPath, ReadBlob, git
<1>6. CASE Finish(p)
  BY <1>2, <1>3, <1>6, FinishPc DEF EndsQuietly, At
<1>7. CASE FindCommittedPath(p) /\ ~Finish(p)
  <2>1. PICK s \in HeadPaths(m) : req' = [req EXCEPT ![p].at = s, ![p].pc = "blob"]
    BY <1>7 DEF FindCommittedPath
  <2>2. s = db[m].slug
    BY <1>4, <2>1 DEF HeadPaths, OnlyAt, Used
  <2>3. req'[p] = [r EXCEPT !.at = s, !.pc = "blob"]
    BY <1>2, <2>1 DEF TypeOK
  <2>4. /\ req'[p].pc = "blob" /\ req'[p].op = r.op /\ req'[p].memo = m
        /\ req'[p].ld = r.ld /\ req'[p].mem = r.mem /\ req'[p].at = s
    BY <1>1, <2>3 DEF Requests
  <2>5. RowIsLoaded(req[p])'
    BY <1>1, <1>3, <1>5, <1>7, <2>4 DEF RowIsLoaded, FindCommittedPath, At, Exists
  <2>6. PathIsKept(req[p])'
    BY <1>1, <1>3, <1>5, <2>2, <2>4 DEF PathIsKept
  <2>7. RevertCarriesHead(req[p])'
    BY <1>3, <2>4 DEF RevertCarriesHead
  <2> QED BY <1>3, <2>4, <2>5, <2>6, <2>7 DEF GoesOn, RequestOK
<1>8. CASE ReadBlob(p) /\ ~Finish(p)
  <2> DEFINE blob == head[m][r.at]
             mem == [r.mem EXCEPT !.title = blob.title, !.body = blob.body,
                                  !.tags = blob.tags, !.slug = r.at]
  <2>1. blob # NoFile /\ req' = [req EXCEPT ![p].pc = "tags", ![p].mem = mem]
    BY <1>8 DEF ReadBlob
  <2>2. blob \in Contents
    BY <1>1, <1>2, <2>1 DEF TypeOK, Files, Requests
  <2>3. /\ mem.title = blob.title /\ mem.body = blob.body /\ mem.tags = blob.tags
        /\ mem.slug = r.at /\ mem.fca = r.mem.fca /\ mem.upd = r.mem.upd
    BY <1>1 DEF Requests, Rows
  <2>4. Content(mem) = blob
    BY <2>2, <2>3 DEF Content, Contents
  <2> HIDE DEF mem
  <2>5. req'[p] = [r EXCEPT !.pc = "tags", !.mem = mem]
    BY <1>2, <2>1 DEF TypeOK
  <2>6. /\ req'[p].pc = "tags" /\ req'[p].op = r.op /\ req'[p].memo = m
        /\ req'[p].ld = r.ld /\ req'[p].mem = mem /\ req'[p].at = r.at
    BY <1>1, <2>5 DEF Requests
  <2>7. RowIsLoaded(req[p])'
    BY <1>1, <1>3, <1>5, <1>8, <2>3, <2>6 DEF RowIsLoaded, ReadBlob, At, Exists
  <2>8. PathIsKept(req[p])'
    BY <1>1, <1>3, <1>5, <2>3, <2>6 DEF PathIsKept
  <2>9. RevertCarriesHead(req[p])'
    BY <1>3, <1>5, <2>4, <2>6 DEF RevertCarriesHead
  <2> QED BY <1>3, <2>6, <2>7, <2>8, <2>9 DEF GoesOn, RequestOK
<1> QED BY <1>6, <1>7, <1>8

\* Tags are written over the tags the request has loaded: nothing conflicts.
LEMMA TagsRequestStep ==
  ASSUME SoloInv, NEW p \in Procs, WriteTags(p)
  PROVE  GoesOn(p) \/ EndsQuietly(p)
<1> DEFINE r == req[p]
           m == r.memo
<1>0. LockingStep(p) \/ FreeStep(p)
  BY DEF FreeStep
<1>1. /\ r \in Requests /\ r.pc # "idle" /\ m \in Memos /\ db[m] \in Rows
      /\ RowIsLoaded(r) /\ PathIsKept(r) /\ RevertCarriesHead(r)
  BY <1>0, OwnRequest DEF RequestOK
<1>2. HandlersKeepTheirSteps /\ TypeOK /\ r.ld \in Rows /\ r.mem \in Rows
  BY <1>1 DEF SoloInv, Requests
<1>3. /\ db[m] = r.ld /\ r.op \in {"draft", "update", "revert", "updateTags"} /\ Exists(m)
      /\ ~Wrote(p, m) /\ ~WriteFile(p)
  BY <1>1, <1>2, OpOfStep DEF WriteTags, At, RowIsLoaded, Wrote, WriteFile
<1> DEFINE added == r.mem.tags \ r.ld.tags
           removed == r.ld.tags \ r.mem.tags
           tags == (db[m].tags \ removed) \cup added
           row == [db[m] EXCEPT !.tags = (@ \ removed) \cup added]
<1>4. added \cap db[m].tags = {} /\ tags = r.mem.tags
  BY <1>2, <1>3 DEF Rows
<1>5. row = [db[m] EXCEPT !.tags = tags]
  BY <1>1 DEF Rows
<1>6. PutRow(m, row) /\ Go(p, AfterTags(r)) /\ UNCHANGED <<git, lock, clock>>
  BY <1>3, <1>4 DEF WriteTags
<1>7. row = [r.ld EXCEPT !.tags = r.mem.tags]
  BY <1>3, <1>4, <1>5
<1> HIDE DEF row, tags, added, removed
<1>8. db'[m] = [r.ld EXCEPT !.tags = r.mem.tags]
  BY <1>1, <1>2, <1>3, <1>6, <1>7, PutExisting
<1>9. /\ db'[m] \in Rows /\ db'[m].fca = r.ld.fca /\ db'[m].slug = r.ld.slug
  BY <1>2, <1>8 DEF Rows
<1>10. /\ req'[p].pc = AfterTags(r) /\ req'[p].op = r.op /\ req'[p].memo = m
       /\ req'[p].ld = r.ld /\ req'[p].mem = r.mem /\ req'[p].at = r.at
  BY <1>1, <1>2, <1>6, GoKeeps
<1>11. /\ AfterTags(r) \in {"check", "save", "write", "restore", "touch"}
       /\ AfterTags(r) = "check" => r.at # r.mem.slug
       /\ AfterTags(r) = "save" => r.op = "draft"
  BY <1>3 DEF AfterTags
<1>12. RowIsLoaded(req[p])'
  <2>1. req'[p].pc \notin {"stamp", "unstamp", "path", "blob", "tags"}
    BY <1>10, <1>11
  <2>2. r.mem.upd = r.ld.upd
    BY <1>1 DEF RowIsLoaded, WriteTags, At
  <2>3. db'[m] \notin Absent
    BY <1>9, RowIsNotAbsent
  <2> QED BY <1>1, <1>8, <1>9, <1>10, <2>1, <2>2, <2>3 DEF RowIsLoaded, Exists
<1>13. PathIsKept(req[p])'
  BY <1>1, <1>9, <1>10, <1>11 DEF PathIsKept
<1>14. RevertCarriesHead(req[p])'
  <2>1. UNCHANGED <<tree, head>>
    BY <1>6 DEF git
  <2>2. r.pc = "tags"
    BY DEF WriteTags, At
  <2>3. req'[p].pc \in {"save", "unstamp"} => req'[p].op # "revert"
    BY <1>10, <1>11
  <2>4. req'[p].pc \notin {"remove", "path", "blob"}
    BY <1>10, <1>11
  <2> QED BY <1>1, <1>10, <2>1, <2>2, <2>3, <2>4 DEF RevertCarriesHead
<1> QED BY <1>3, <1>10, <1>12, <1>13, <1>14 DEF GoesOn, RequestOK

\* A save writes the columns of the copy over the columns it was loaded with.
LEMMA SaveRequestStep ==
  ASSUME SoloInv, NEW p \in Procs, Save(p)
  PROVE  GoesOn(p) \/ EndsQuietly(p)
<1> DEFINE r == req[p]
           m == r.memo
           s == req'[p]
<1>0. LockingStep(p) \/ FreeStep(p)
  BY DEF FreeStep
<1>1. /\ r \in Requests /\ r.pc # "idle" /\ m \in Memos /\ db[m] \in Rows
      /\ RowIsLoaded(r) /\ PathIsKept(r) /\ RevertCarriesHead(r)
  BY <1>0, OwnRequest DEF RequestOK
<1>2. HandlersKeepTheirSteps /\ TypeOK /\ r.ld \in Rows /\ r.mem \in Rows
  BY <1>1 DEF SoloInv, Requests
<1>3. /\ r.pc = "save" /\ Exists(m) /\ db[m] = [r.ld EXCEPT !.tags = r.mem.tags]
      /\ r.mem.upd = r.ld.upd /\ clock + 1 \in Nat /\ clock + 1 # 0
      /\ r.op \in {"draft", "update", "commit", "apiCreate", "revert", "toggle"}
  BY <1>1, <1>2, OpOfStep DEF Save, At, RowIsLoaded, TypeOK
<1>4. CASE AfterSave(r.op) = "idle"
  <2>1. ~Wrote(p, m)
    BY <1>3, <1>4 DEF AfterSave, Wrote
  <2>2. req'[p] = Idle
    BY <1>2, <1>4 DEF Save, TypeOK
  <2> QED BY <2>1, <2>2 DEF EndsQuietly, At, Idle
<1>5. CASE AfterSave(r.op) # "idle"
  <2> DEFINE mem == [r.mem EXCEPT !.upd = clock + 1]
             saved == IF Changed(r) THEN mem ELSE r.mem
  <2>1. req'[p] = [r EXCEPT !.mem = saved, !.pc = AfterSave(r.op)]
    <3>1. req'[p] = [(IF Changed(r) THEN [r EXCEPT !.mem.upd = clock + 1] ELSE r)
                        EXCEPT !.pc = AfterSave(r.op)]
      BY <1>2, <1>5 DEF Save, TypeOK
    <3>2. [r EXCEPT !.mem.upd = clock + 1] = [r EXCEPT !.mem = mem]
      BY <1>1 DEF Requests
    <3>3. r = [r EXCEPT !.mem = r.mem]
      BY <1>1 DEF Requests
    <3> QED BY <1>1, <3>1, <3>2, <3>3 DEF Requests
  <2> HIDE DEF saved
  <2>2. /\ s.pc = AfterSave(r.op) /\ s.op = r.op /\ s.memo = m /\ s.ld = r.ld
        /\ s.mem = saved /\ s.at = r.at
    BY <1>1, <2>1 DEF Requests
  <2>3. /\ AfterSave(r.op) \in {"stamp", "unstamp"}
        /\ AfterSave(r.op) = "unstamp" <=> r.op = "revert"
    BY <1>3, <1>5 DEF AfterSave
  <2>4. /\ saved.title = r.mem.title /\ saved.body = r.mem.body /\ saved.tags = r.mem.tags
        /\ saved.slug = r.mem.slug /\ saved.fca = r.mem.fca
        /\ saved.upd = IF Changed(r) THEN clock + 1 ELSE r.mem.upd
    BY <1>2 DEF saved, Rows
  <2>5. /\ db'[m].title = saved.title /\ db'[m].body = saved.body /\ db'[m].tags = saved.tags
        /\ db'[m].slug = saved.slug /\ db'[m].upd = saved.upd /\ db'[m].fca = r.ld.fca
    <3>1. CASE Changed(r)
      <4>1. db'[m] = Merged(db[m], r, clock + 1)
        BY <1>1, <1>2, <1>3, <3>1, PutExisting DEF Save
      <4>2. /\ db[m].title = r.ld.title /\ db[m].body = r.ld.body /\ db[m].slug = r.ld.slug
            /\ db[m].tags = r.mem.tags /\ db[m].fca = r.ld.fca
        BY <1>2, <1>3 DEF Rows
      <4>3. /\ db'[m].title = r.mem.title /\ db'[m].body = r.mem.body
            /\ db'[m].slug = r.mem.slug /\ db'[m].tags = r.mem.tags
            /\ db'[m].upd = clock + 1 /\ db'[m].fca = r.ld.fca
        BY <1>1, <4>1, <4>2 DEF Merged, Rows
      <4> QED BY <2>4, <3>1, <4>3
    <3>2. CASE ~Changed(r)
      <4>1. db'[m] = db[m]
        BY <3>2 DEF Save
      <4>2. r.mem.title = r.ld.title /\ r.mem.body = r.ld.body /\ r.mem.slug = r.ld.slug
        BY <3>2 DEF Changed, Columns
      <4> QED BY <1>2, <1>3, <2>4, <3>2, <4>1, <4>2 DEF Rows
    <3> QED BY <3>1, <3>2
  <2>6. RowIsLoaded(req[p])'
    <3>1. db'[m] \notin Absent
      <4>1. RowAfter(p)
        BY <1>0, RowStep
      <4> QED BY <4>1, RowIsNotAbsent DEF RowAfter
    <3>2. saved.upd # 0 /\ saved.fca = r.ld.fca
      BY <1>1, <1>3, <2>4 DEF RowIsLoaded
    <3>3. Content(db'[m]) = Content(saved)
      BY <2>5 DEF Content
    <3> QED BY <2>2, <2>3, <2>5, <3>1, <3>2, <3>3 DEF RowIsLoaded, Exists
  <2>7. PathIsKept(req[p])'
    BY <1>1, <2>2, <2>3, <2>4, <2>5 DEF PathIsKept
  <2>8. RevertCarriesHead(req[p])'
    <3>1. UNCHANGED <<tree, head>>
      BY DEF Save, git
    <3>2. Content(saved) = Content(r.mem)
      BY <2>4 DEF Content
    <3> QED BY <1>1, <1>3, <2>2, <2>3, <3>1, <3>2 DEF RevertCarriesHead
  <2>9. Wrote(p, m) => Wrote(p, m)'
    BY <1>3, <2>2, <2>3 DEF Wrote
  <2> QED BY <1>3, <2>2, <2>4, <2>6, <2>7, <2>8, <2>9 DEF GoesOn, RequestOK, WriteFile, At
<1> QED BY <1>4, <1>5

\* Every step of a request keeps it in agreement with its row, or ends it.
LEMMA OwnRequestStep ==
  ASSUME SoloInv, OneThread, NEW p \in Procs, LockingStep(p) \/ FreeStep(p)
  PROVE  GoesOn(p) \/ EndsQuietly(p)
<1>1. req[p].pc # "idle" /\ PathIsKept(req[p]) /\ TypeOK /\ HandlersKeepTheirSteps
  BY OwnRequest DEF RequestOK, SoloInv
<1>2. ~Relocate(p)
  BY <1>1 DEF PathIsKept, Relocate, At
<1>3. CASE StampCommitted(p) \/ Touch(p) \/ RestoreUpdatedAt(p)
  <2>1. Finish(p) /\ (Wrote(p, req[p].memo) => StampCommitted(p))
    BY <1>3 DEF StampCommitted, Touch, RestoreUpdatedAt, At, Wrote
  <2> QED BY <1>1, <2>1, FinishPc DEF EndsQuietly, At
<1> QED BY <1>2, <1>3, FileRequestStep, RevertRequestStep, TagsRequestStep, SaveRequestStep
        DEF LockingStep, FreeStep

\* Files stay at the one path their memo has.
LEMMA OwnFilesStep ==
  ASSUME SoloInv, OneThread, NEW p \in Procs, LockingStep(p) \/ FreeStep(p), NEW n \in Memos
  PROVE  FilesOf(n)'
<1> DEFINE r == req[p]
           m == r.memo
<1>1. /\ r \in Requests /\ r.pc # "idle" /\ m \in Memos /\ db[m] \in Rows
      /\ RowIsLoaded(r) /\ PathIsKept(r) /\ RevertCarriesHead(r)
  BY OwnRequest DEF RequestOK
<1>2. /\ TypeOK /\ HandlersKeepTheirSteps /\ FilesOf(n) /\ FilesOf(m) /\ Exists(m)
      /\ r.mem.slug \in Stems /\ r.at \in Stems
  BY <1>1 DEF SoloInv, RowIsLoaded, Requests, Rows
<1>3. /\ \A k \in Memos : k # m => db'[k] = db[k]
      /\ db'[m] \in Rows /\ db'[m].upd # 0
      /\ db[m].fca # 0 => db'[m].slug = db[m].slug /\ db'[m].fca # 0
      /\ StampCommitted(p) => db'[m].fca # 0 /\ db'[m].slug = r.mem.slug
      /\ ~StampCommitted(p) => db'[m].fca = db[m].fca
  BY RowStep DEF RowAfter
<1>4. ~Relocate(p)
  BY <1>1 DEF PathIsKept, Relocate, At
<1>5. \A t \in Stems : Used(n, t)' => \/ Used(n, t)
                                      \/ WriteFile(p) /\ n = m /\ t = r.mem.slug
                                      \/ RestoreFile(p) /\ n = m /\ t = r.at
  BY <1>2, <1>4, UsedFrom
<1>6. CASE n # m
  <2>1. db'[n] = db[n] /\ \A t \in Stems : Used(n, t)' => Used(n, t)
    BY <1>3, <1>5, <1>6
  <2>2. \A q \in Procs : ~Wrote(q, n)
    BY <1>6 DEF OneThread, Wrote
  <2>3. NoFiles(n) => NoFiles(n)'
    BY <2>1 DEF NoFiles
  <2>4. OnePath(n) => OnePath(n)'
    BY <2>1 DEF OnePath
  <2>5. OnlyAt(n, db[n].slug) => OnlyAt(n, db[n].slug)'
    BY <2>1 DEF OnlyAt
  <2> QED BY <1>2, <2>1, <2>2, <2>3, <2>4, <2>5 DEF FilesOf, Exists
<1>7. CASE n = m
  <2>1. /\ db'[n] \notin Absent /\ db'[n].upd # 0
    BY <1>3, <1>7, RowIsNotAbsent
  <2>2. SUFFICES /\ db'[n].fca # 0 => \A t \in Stems : Used(n, t)' => t = db'[n].slug
                 /\ db'[n].fca = 0 => \/ \A t \in Stems : ~Used(n, t)'
                                      \/ /\ Wrote(p, n)'
                                         /\ \A t \in Stems : Used(n, t)' => t = req'[p].mem.slug
    BY <2>1 DEF FilesOf, Exists, OnlyAt, NoFiles, Absent
  <2>3. WriteFile(p) \/ Wrote(p, n) => r.op \in {"update", "commit", "apiCreate"}
    BY <1>1, <1>2, OpOfStep DEF WriteFile, Wrote, At
  <2>4. RestoreFile(p) => r.op = "revert"
    BY <1>1, <1>2, OpOfStep DEF RestoreFile, At
  <2>5. CASE db[n].fca # 0
    <3>1. \A t \in Stems : Used(n, t) => t = db[n].slug
      BY <1>2, <1>7, <2>5 DEF FilesOf, OnlyAt
    <3>2. r.mem.slug = db[n].slug /\ r.at = db[n].slug
      BY <1>1, <1>7, <2>5 DEF RowIsLoaded, PathIsKept
    <3> QED BY <1>3, <1>5, <1>7, <2>5, <3>1, <3>2
  <2>6. CASE db[n].fca = 0
    <3>1. ~RestoreFile(p)
      BY <1>1, <1>7, <2>4, <2>6 DEF RevertCarriesHead, RowIsLoaded
    <3>2. \/ \A t \in Stems : ~Used(n, t)
          \/ Wrote(p, n) /\ \A t \in Stems : Used(n, t) => t = r.mem.slug
      BY <1>2, <1>7, <2>6 DEF FilesOf, NoFiles, OnlyAt, OneThread
    <3>3. \A t \in Stems : Used(n, t)' => t = r.mem.slug
      BY <1>5, <1>7, <3>1, <3>2
    <3>4. CASE StampCommitted(p)
      BY <1>3, <1>7, <3>3, <3>4
    <3>5. CASE ~StampCommitted(p) /\ (WriteFile(p) \/ Wrote(p, n))
      <4>1. GoesOn(p)
        BY <1>7, <3>5, FileRequestStep, OwnRequestStep DEF EndsQuietly
      <4>2. Wrote(p, n)' /\ req'[p].mem.slug = r.mem.slug
        BY <1>7, <3>5, <4>1 DEF GoesOn, Wrote
      <4> QED BY <1>3, <1>7, <2>6, <3>3, <3>5, <4>2
    <3>6. CASE ~StampCommitted(p) /\ ~WriteFile(p) /\ ~Wrote(p, n)
      BY <1>3, <1>5, <1>7, <2>6, <3>1, <3>2, <3>6
    <3> QED BY <3>4, <3>5, <3>6
  <2> QED BY <2>5, <2>6
<1> QED BY <1>6, <1>7

\* Starting a request: the row it loads is the row as it stands.
LEMMA BeginRequestOK ==
  ASSUME SoloInv, OneThread, NEW p \in Procs, Begin(p)
  PROVE  ~At(p, "idle")' => RequestOK(req[p])'
<1>1. TypeOK /\ At(p, "idle")
  BY DEF SoloInv, Begin, BeginDraft, BeginUpdate, BeginCommit, BeginRevert, BeginToggle,
     BeginUpdateTags, Create, ApiCreate, Append, Destroy, CanStart
<1>2. ASSUME NEW m \in Memos, Exists(m), NEW op, NEW mem \in Rows, NEW pc, UNCHANGED db,
             Start(p, op, m, mem, pc), pc \in {"tags", "write", "path", "save"},
             mem.fca = db[m].fca, mem.upd = db[m].upd,
             pc \in {"write", "save"} => mem.tags = db[m].tags,
             db[m].fca # 0 => mem.slug = db[m].slug,
             op = "revert" => pc = "path" /\ db[m].fca # 0
      PROVE  RequestOK(req[p])'
  <2> DEFINE r == req'[p]
  <2>1. r = [pc |-> pc, op |-> op, memo |-> m, ld |-> db[m], mem |-> mem, at |-> db[m].slug]
    BY <1>1, <1>2 DEF Start, TypeOK
  <2>2. /\ r.pc = pc /\ r.op = op /\ r.memo = m /\ r.ld = db[m] /\ r.mem = mem
        /\ r.at = db[m].slug
    BY <2>1
  <2>3. db[m] \in Rows /\ db[m].upd # 0
    BY <1>1, <1>2, ExistingRow DEF SoloInv, FilesOf
  <2>4. db'[m] = db[m] /\ db'[m] \notin Absent
    BY <1>2, <2>3, RowIsNotAbsent
  <2>5. pc \in {"write", "save"} => db[m] = [db[m] EXCEPT !.tags = mem.tags]
    BY <1>2, <2>3 DEF Rows
  <2>6. RowIsLoaded(req[p])'
    BY <1>2, <2>2, <2>3, <2>4, <2>5 DEF RowIsLoaded, Exists
  <2>7. PathIsKept(req[p])'
    BY <1>2, <2>2, <2>4 DEF PathIsKept
  <2>8. RevertCarriesHead(req[p])'
    BY <1>2, <2>2 DEF RevertCarriesHead
  <2> QED BY <2>6, <2>7, <2>8 DEF RequestOK
<1>3. PICK m \in Memos :
        \/ \E c \in Payloads :
             BeginDraft(p, m, c) \/ BeginUpdate(p, m, c) \/ Create(p, m, c) \/ ApiCreate(p, m, c)
        \/ \E f \in Frags : BeginToggle(p, m, f) \/ Append(p, m, f)
        \/ \E tags \in SUBSET Tags : BeginUpdateTags(p, m, tags)
        \/ BeginCommit(p, m) \/ BeginRevert(p, m) \/ Destroy(p, m)
  BY DEF Begin
<1>4. ASSUME NEW c \in Contents, Exists(m)
      PROVE  /\ Assigned(db[m], c) \in Rows
             /\ Assigned(db[m], c).fca = db[m].fca /\ Assigned(db[m], c).upd = db[m].upd
             /\ Assigned(db[m], c).tags = c.tags
             /\ db[m].fca # 0 => Assigned(db[m], c).slug = db[m].slug
  <2>1. db[m] \in Rows
    BY <1>1, <1>4, ExistingRow
  <2>2. Assigned(db[m], c) \in Rows
    BY <1>4, <2>1, AssignedType
  <2> QED BY <2>1, <2>2 DEF Assigned, SlugFor, Rows
<1>5. ASSUME NEW c \in Payloads, BeginDraft(p, m, c) \/ BeginUpdate(p, m, c)
      PROVE  RequestOK(req[p])'
  <2>1. c \in Contents /\ Exists(m)
    BY <1>5, PayloadsAssumption DEF BeginDraft, BeginUpdate
  <2>2. /\ Start(p, "draft", m, Assigned(db[m], c), "tags")
           \/ Start(p, "update", m, Assigned(db[m], c), "tags")
        /\ UNCHANGED db
    BY <1>5 DEF BeginDraft, BeginUpdate
  <2> QED BY <1>2, <1>4, <2>1, <2>2
<1>6. ASSUME BeginCommit(p, m) PROVE RequestOK(req[p])'
  <2>1. Exists(m) /\ Start(p, "commit", m, Assigned(db[m], Content(db[m])), "write") /\ UNCHANGED db
    BY <1>6 DEF BeginCommit
  <2>2. Content(db[m]) \in Contents /\ Content(db[m]).tags = db[m].tags
    BY <1>1, <2>1, ExistingRow, ContentType DEF Content
  <2> QED BY <1>2, <1>4, <2>1, <2>2
<1>7. ASSUME BeginRevert(p, m) PROVE RequestOK(req[p])'
  <2>1. Exists(m) /\ Start(p, "revert", m, db[m], "path") /\ UNCHANGED db /\ db[m].fca # 0
    BY <1>7 DEF BeginRevert
  <2> QED BY <1>1, <1>2, <2>1, ExistingRow
<1>8. ASSUME NEW f \in Frags, BeginToggle(p, m, f) PROVE RequestOK(req[p])'
  <2> DEFINE body == IF f \in db[m].body THEN db[m].body \ {f} ELSE db[m].body \cup {f}
             mem == [db[m] EXCEPT !.body = body]
  <2>1. Exists(m) /\ Start(p, "toggle", m, mem, "save") /\ UNCHANGED db
    BY <1>8 DEF BeginToggle
  <2>2. db[m] \in Rows
    BY <1>1, <2>1, ExistingRow
  <2>3. body \in SUBSET Frags
    BY <2>2 DEF Rows
  <2> HIDE DEF body
  <2>4. /\ mem \in Rows /\ mem.fca = db[m].fca /\ mem.upd = db[m].upd
        /\ mem.tags = db[m].tags /\ mem.slug = db[m].slug
    BY <2>2, <2>3 DEF Rows
  <2> HIDE DEF mem
  <2> QED BY <1>2, <2>1, <2>4
<1>9. ASSUME NEW tags \in SUBSET Tags, BeginUpdateTags(p, m, tags) PROVE RequestOK(req[p])'
  <2> DEFINE mem == [db[m] EXCEPT !.tags = tags]
  <2>1. Exists(m) /\ Start(p, "updateTags", m, mem, "tags") /\ UNCHANGED db
    BY <1>9 DEF BeginUpdateTags
  <2>2. db[m] \in Rows
    BY <1>1, <2>1, ExistingRow
  <2>3. /\ mem \in Rows /\ mem.fca = db[m].fca /\ mem.upd = db[m].upd /\ mem.slug = db[m].slug
    BY <2>2 DEF Rows
  <2> HIDE DEF mem
  <2> QED BY <1>2, <2>1, <2>3
<1>10. ASSUME NEW c \in Payloads, ApiCreate(p, m, c) PROVE RequestOK(req[p])'
  <2> DEFINE row == NewRow(c)
             r == req'[p]
  <2>1. row \in Rows /\ row.upd # 0
    BY <1>1, PayloadsAssumption, StemOfAssumption DEF NewRow, Rows, Contents, TypeOK
  <2>2. row.slug = StemOf[c.title] /\ row.fca = 0
    BY DEF NewRow
  <2>3. db'[m] = row /\ db'[m] \notin Absent
    BY <1>1, <1>10, <2>1, RowIsNotAbsent DEF ApiCreate, TypeOK
  <2>4. r = [pc |-> "write", op |-> "apiCreate", memo |-> m, ld |-> row, mem |-> row,
             at |-> StemOf[c.title]]
    BY <1>1, <1>10 DEF ApiCreate, TypeOK
  <2>5. /\ r.pc = "write" /\ r.op = "apiCreate" /\ r.memo = m /\ r.ld = row /\ r.mem = row
    BY <2>4
  <2>6. row = [row EXCEPT !.tags = row.tags]
    BY <2>1 DEF Rows
  <2> HIDE DEF row
  <2>7. RowIsLoaded(req[p])'
    BY <2>1, <2>3, <2>5, <2>6 DEF RowIsLoaded, Exists
  <2>8. PathIsKept(req[p])' /\ RevertCarriesHead(req[p])'
    BY <2>2, <2>5 DEF PathIsKept, RevertCarriesHead
  <2> QED BY <2>7, <2>8 DEF RequestOK
<1>11. CASE UNCHANGED req
  BY <1>1, <1>11 DEF At
<1> QED BY <1>3, <1>5, <1>6, <1>7, <1>8, <1>9, <1>10, <1>11 DEF Create, Append, Destroy

\* Starting a request moves no file; a row is new, appended to or deleted.
LEMMA BeginFilesStep ==
  ASSUME SoloInv, OneThread, NEW p \in Procs, Begin(p), NEW n \in Memos
  PROVE  FilesOf(n)'
<1>1. /\ TypeOK /\ At(p, "idle") /\ FilesOf(n) /\ UNCHANGED git
      /\ clock + 1 \in Nat /\ clock + 1 # 0
  <2>1. TypeOK /\ FilesOf(n) /\ clock + 1 \in Nat /\ clock + 1 # 0
    BY DEF SoloInv, TypeOK
  <2>2. At(p, "idle") /\ UNCHANGED git
    BY DEF Begin, BeginDraft, BeginUpdate, BeginCommit, BeginRevert, BeginToggle,
       BeginUpdateTags, Create, ApiCreate, Append, Destroy, CanStart
  <2> QED BY <2>1, <2>2
<1>2. \A q \in Procs : ~Wrote(q, n)
  BY <1>1 DEF OneThread, Wrote, At
<1>3. /\ \A t \in Stems : Used(n, t)' <=> Used(n, t)
  BY <1>1 DEF git, Used
<1>4. /\ NoFiles(n)' <=> NoFiles(n)
      /\ OnePath(n)' <=> OnePath(n)
  BY <1>3 DEF NoFiles, OnePath
<1>5. Exists(n) => \/ NoFiles(n)
                   \/ db[n].fca # 0 /\ OnlyAt(n, db[n].slug)
  BY <1>1, <1>2 DEF FilesOf
<1>6. NoFiles(n) => OnePath(n)
  BY DEF NoFiles, OnePath
<1>7. OnlyAt(n, db[n].slug) => OnePath(n)
  BY DEF OnlyAt, OnePath
<1>8. CASE db'[n] = db[n]
  <2>1. db[n].fca # 0 /\ OnlyAt(n, db[n].slug) => OnlyAt(n, db[n].slug)'
    BY <1>3, <1>8 DEF OnlyAt
  <2> QED BY <1>1, <1>2, <1>4, <1>8, <2>1 DEF FilesOf, Exists
<1>9. CASE db'[n] = Deleted
  BY <1>1, <1>4, <1>5, <1>6, <1>7, <1>9, AbsentAssumption DEF FilesOf, Exists, Absent
<1>10. CASE db[n] = NotYet /\ \E c \in Payloads : db'[n] = NewRow(c)
  <2>1. NoFiles(n)'
    BY <1>1, <1>4, <1>10 DEF FilesOf
  <2>2. PICK c \in Payloads : db'[n] = NewRow(c)
    BY <1>10
  <2>3. NewRow(c) \in Rows /\ NewRow(c).upd # 0 /\ NewRow(c).fca = 0
    BY <1>1, PayloadsAssumption, StemOfAssumption DEF NewRow, Rows, Contents
  <2> QED BY <2>1, <2>2, <2>3, RowIsNotAbsent DEF FilesOf, Exists, Absent
<1>11. CASE Exists(n) /\ \E f \in Frags : db'[n] = [db[n] EXCEPT !.body = @ \cup {f}, !.upd = clock + 1]
  <2>1. PICK f \in Frags : db'[n] = [db[n] EXCEPT !.body = @ \cup {f}, !.upd = clock + 1]
    BY <1>11
  <2>2. db[n] \in Rows
    BY <1>1, <1>11, ExistingRow
  <2>3. /\ db'[n] \in Rows /\ db'[n].upd = clock + 1 /\ db'[n].fca = db[n].fca
        /\ db'[n].slug = db[n].slug
    BY <1>1, <2>1, <2>2 DEF Rows
  <2>4. db[n].fca # 0 => \A t \in Stems : Used(n, t)' => t = db'[n].slug
    BY <1>1, <1>3, <1>11, <2>3 DEF FilesOf, OnlyAt
  <2>5. db[n].fca = 0 => NoFiles(n)'
    BY <1>4, <1>5, <1>11
  <2>6. db'[n] \notin Absent
    BY <2>3, RowIsNotAbsent
  <2> QED BY <1>1, <2>3, <2>4, <2>5, <2>6 DEF FilesOf, Exists, OnlyAt, Absent
<1>12. PICK m \in Memos :
         \/ UNCHANGED db
         \/ db[m] = NotYet /\ \E c \in Payloads : db' = [db EXCEPT ![m] = NewRow(c)]
         \/ Exists(m) /\ \E f \in Frags : db' = [db EXCEPT ![m].body = @ \cup {f}, ![m].upd = clock + 1]
         \/ db' = [db EXCEPT ![m] = Deleted]
  BY DEF Begin, BeginDraft, BeginUpdate, BeginCommit, BeginRevert, BeginToggle,
     BeginUpdateTags, Create, ApiCreate, Append, Destroy
<1>13. CASE n # m
  <2>1. db'[n] = db[n]
    BY <1>1, <1>12, <1>13 DEF TypeOK
  <2> QED BY <1>8, <2>1
<1>14. CASE n = m
  <2>1. ASSUME NEW f \in Frags, Exists(m), db' = [db EXCEPT ![m].body = @ \cup {f}, ![m].upd = clock + 1]
        PROVE  db'[m] = [db[m] EXCEPT !.body = @ \cup {f}, !.upd = clock + 1]
    <3>1. db[m] \in Rows
      BY <1>1, <2>1, ExistingRow
    <3> QED BY <1>1, <2>1, <3>1 DEF TypeOK, Rows
  <2>2. ASSUME NEW c \in Payloads, db' = [db EXCEPT ![m] = NewRow(c)]
        PROVE  db'[m] = NewRow(c)
    BY <1>1, <2>2 DEF TypeOK
  <2>3. db' = [db EXCEPT ![m] = Deleted] => db'[m] = Deleted
    BY <1>1 DEF TypeOK
  <2> QED BY <1>8, <1>9, <1>10, <1>11, <1>12, <1>14, <2>1, <2>2, <2>3
<1> QED BY <1>13, <1>14

\* The invariant of one thread is kept by every step.
LEMMA SoloStep ==
  ASSUME OneThread PROVE SoloInv /\ [Next]_vars => SoloInv'
<1> SUFFICES ASSUME SoloInv, [Next]_vars PROVE SoloInv'
  OBVIOUS
<1>1. CASE UNCHANGED vars
  BY <1>1 DEF vars, git, SoloInv, TypeOK, HandlersKeepTheirSteps, FilesOf, NoFiles, OnePath, OnlyAt,
     Used, Wrote, Exists, At, RequestOK, RowIsLoaded, PathIsKept, RevertCarriesHead
<1>2. CASE Next
  <2>1. PICK p \in Procs : Begin(p) \/ LockingStep(p) \/ FreeStep(p)
    BY <1>2 DEF Next, Crash, OneThread
  <2>2. TypeOK' /\ HandlersKeepTheirSteps'
    BY <2>1, StepType, BeginSteps, StepSteps DEF SoloInv
  <2>3. \A m \in Memos : FilesOf(m)'
    BY <2>1, OwnFilesStep, BeginFilesStep
  <2>4. ~At(p, "idle")' => RequestOK(req[p])'
    BY <2>1, OwnRequestStep, BeginRequestOK DEF GoesOn, EndsQuietly
  <2>5. \A q \in Procs : ~At(q, "idle")' => RequestOK(req[q])'
    BY <2>4 DEF OneThread
  <2> QED BY <2>2, <2>3, <2>5 DEF SoloInv
<1> QED BY <1>1, <1>2

LEMMA SoloInit == Init => SoloInv
<1> SUFFICES ASSUME Init PROVE SoloInv
  OBVIOUS
<1>1. TypeOK /\ HandlersKeepTheirSteps /\ \A p \in Procs : At(p, "idle")
  BY InitType DEF Init, HandlersKeepTheirSteps, At, Idle
<1>2. \A m \in Memos : FilesOf(m)
  BY AbsentAssumption DEF Init, FilesOf, NoFiles, Used, Exists, Absent
<1> QED BY <1>1, <1>2 DEF SoloInv

-----------------------------------------------------------------------------
\* One thread: what it shows

\* While one thread works at a time and none dies, a memo keeps one path in HEAD
\* and one in the work tree, whatever it is retitled to, committed and reverted.
THEOREM OnePathKept ==
  ASSUME OneThread PROVE Spec => []OnePathPerMemo
<1>1. ASSUME SoloInv PROVE OnePathPerMemo
  <2> SUFFICES ASSUME NEW m \in Memos
               PROVE  /\ Cardinality(HeadPaths(m)) <= 1
                      /\ Cardinality({s \in Stems : tree[m][s] # NoFile}) <= 1
    BY DEF OnePathPerMemo
  <2>1. OnePath(m)
    BY <1>1 DEF SoloInv, TypeOK, FilesOf, NoFiles, OnlyAt, OnePath, Exists, Absent
  <2>2. ASSUME NEW S, \A s, t \in S : s = t PROVE Cardinality(S) <= 1
    <3>1. CASE S = {}
      BY <3>1, FS_EmptySet
    <3>2. CASE S # {}
      <4>1. PICK s : S = {s}
        BY <2>2, <3>2
      <4> QED BY <4>1, FS_Singleton
    <3> QED BY <3>1, <3>2
  <2>3. \A s, t \in HeadPaths(m) : s = t
    BY <2>1 DEF OnePath, HeadPaths, Used
  <2>4. \A s, t \in {u \in Stems : tree[m][u] # NoFile} : s = t
    BY <2>1 DEF OnePath, Used
  <2> QED BY <2>2, <2>3, <2>4
<1> QED BY <1>1, SoloInit, SoloStep, PTL DEF Spec

\* While one thread works at a time and none dies, the slug of a committed memo is kept.
THEOREM SlugIsKept ==
  ASSUME OneThread PROVE Spec => SlugKeptOnceCommitted
<1>1. ASSUME SoloInv, [Next]_vars
      PROVE  [\A m \in Memos : Exists(m) /\ Exists(m)' /\ db[m].fca # 0
                => db'[m].slug = db[m].slug]_vars
  <2> SUFFICES ASSUME Next, NEW m \in Memos, Exists(m), Exists(m)', db[m].fca # 0
               PROVE  db'[m].slug = db[m].slug
    BY <1>1
  <2>1. PICK p \in Procs : Begin(p) \/ LockingStep(p) \/ FreeStep(p)
    BY DEF Next, Crash, OneThread
  <2>2. TypeOK /\ db[m] \in Rows
    BY <1>1, ExistingRow DEF SoloInv
  <2>3. CASE Begin(p)
    <3>1. PICK n \in Memos :
            \/ UNCHANGED db
            \/ db[n] = NotYet /\ \E c \in Payloads : db' = [db EXCEPT ![n] = NewRow(c)]
            \/ \E f \in Frags : db' = [db EXCEPT ![n].body = @ \cup {f}, ![n].upd = clock + 1]
            \/ db' = [db EXCEPT ![n] = Deleted]
      BY <2>3 DEF Begin, BeginDraft, BeginUpdate, BeginCommit, BeginRevert, BeginToggle,
         BeginUpdateTags, Create, ApiCreate, Append, Destroy
    <3>2. ASSUME NEW f \in Frags, db' = [db EXCEPT ![n].body = @ \cup {f}, ![n].upd = clock + 1]
          PROVE  db'[m].slug = db[m].slug
      BY <2>2, <3>2 DEF TypeOK, Rows
    <3>3. ASSUME NEW c \in Payloads, db[n] = NotYet, db' = [db EXCEPT ![n] = NewRow(c)]
          PROVE  db'[m] = db[m]
      BY <2>2, <3>3 DEF TypeOK, Exists, Absent
    <3>4. CASE db' = [db EXCEPT ![n] = Deleted]
      BY <2>2, <3>4 DEF TypeOK, Exists, Absent
    <3> QED BY <3>1, <3>2, <3>3, <3>4
  <2>4. CASE LockingStep(p) \/ FreeStep(p)
    <3>1. RowAfter(p)
      BY <1>1, <2>4, RowStep
    <3> QED BY <3>1 DEF RowAfter
  <2> QED BY <2>1, <2>3, <2>4
<1> QED BY <1>1, SoloInit, SoloStep, PTL DEF Spec, SlugKeptOnceCommitted

\* While one thread works at a time and none dies, a revert leaves the row, the
\* work tree and HEAD in agreement and the memo no draft.
THEOREM RevertEndsRestored ==
  ASSUME OneThread PROVE Spec => RevertRestores
<1>1. ASSUME SoloInv, [Next]_vars
      PROVE  [\A p \in Procs : RestoreUpdatedAt(p) /\ Exists(req[p].memo) =>
                LET m == req[p].memo IN
                /\ ~Draft(db'[m])
                /\ Content(db'[m]) = head[m][db'[m].slug]
                /\ tree[m] = head[m]]_vars
  <2> SUFFICES ASSUME NEW p \in Procs, RestoreUpdatedAt(p)
               PROVE  LET m == req[p].memo IN
                      /\ ~Draft(db'[m])
                      /\ Content(db'[m]) = head[m][db'[m].slug]
                      /\ tree[m] = head[m]
    BY <1>1
  <2> DEFINE r == req[p]
             m == r.memo
  <2>1. /\ r \in Requests /\ r.pc # "idle" /\ m \in Memos /\ db[m] \in Rows
        /\ RowIsLoaded(r) /\ PathIsKept(r) /\ RevertCarriesHead(r)
    BY <1>1, OwnRequest DEF RequestOK, FreeStep
  <2>2. r.pc = "unstamp" /\ r.op = "revert" /\ TypeOK /\ Exists(m)
    BY <1>1, <2>1, OpOfStep DEF RestoreUpdatedAt, At, SoloInv, RowIsLoaded
  <2>3. db'[m] = [db[m] EXCEPT !.upd = r.ld.fca]
    BY <2>1, <2>2, PutExisting DEF RestoreUpdatedAt
  <2>4. /\ r.ld.fca # 0 /\ r.ld.fca \in Nat /\ db[m].fca = r.ld.fca
        /\ tree[m] = head[m] /\ head[m][r.at] = Content(r.mem)
        /\ Content(db[m]) = Content(r.mem) /\ r.at = db[m].slug
    BY <2>1, <2>2 DEF RevertCarriesHead, RowIsLoaded, PathIsKept, Requests, Rows
  <2>5. /\ db'[m].upd = r.ld.fca /\ db'[m].fca = r.ld.fca /\ db'[m].slug = db[m].slug
        /\ db'[m].title = db[m].title /\ db'[m].body = db[m].body /\ db'[m].tags = db[m].tags
    <3> DEFINE row == db[m]
               u == r.ld.fca
    <3>1. row \in Rows /\ row.fca = u /\ db'[m] = [row EXCEPT !.upd = u]
      BY <2>1, <2>3, <2>4
    <3> HIDE DEF row, u
    <3>2. /\ db'[m].upd = u /\ db'[m].fca = row.fca /\ db'[m].slug = row.slug
          /\ db'[m].title = row.title /\ db'[m].body = row.body /\ db'[m].tags = row.tags
      BY <3>1 DEF Rows
    <3> QED BY <3>1, <3>2 DEF row, u
  <2>6. ~Draft(db'[m])
    BY <2>4, <2>5 DEF Draft
  <2>7. Content(db'[m]) = Content(db[m])
    BY <2>5 DEF Content
  <2> QED BY <2>4, <2>5, <2>6, <2>7
<1> QED BY <1>1, SoloInit, SoloStep, PTL DEF Spec, RevertRestores

-----------------------------------------------------------------------------
\* One thread commits while another saves drafts: the invariant

Committing == {"commit", "apiCreate"}

\* No form is submitted and nothing reverted; one thread commits, one saves the
\* drafts of a page, others do the rest.  A crash is let in with one memo only: a
\* draft that dies between git mv and its save leaves the renamed entry in the
\* index, and the commit of another memo would take the old path from HEAD.
CommitsBesideDrafts ==
  /\ \A p \in Procs : OpsOf[p] \cap {"update", "revert"} = {}
  /\ \A p, q \in Procs :
       OpsOf[p] \cap Committing # {} /\ OpsOf[q] \cap Committing # {} => p = q
  /\ \A p, q \in Procs : "draft" \in OpsOf[p] /\ "draft" \in OpsOf[q] => p = q
  /\ CanCrash => \A m, n \in Memos : m = n

\* The file at the slug of the row has its title and body.
Holds(files, m, row) ==
  files[m][row.slug] # NoFile /\ Text(files[m][row.slug]) = Text(row)

\* A draft of m is about to save a new slug: its file may have been moved.
Moving(m) ==
  \E q \in Procs : /\ req[q].pc = "save" /\ req[q].op = "draft" /\ req[q].memo = m
                   /\ req[q].at # req[q].mem.slug

RowOK(m) ==
  Exists(m) =>
    /\ db[m].upd # 0 /\ db[m].upd <= clock /\ db[m].fca <= db[m].upd
    /\ db[m].fca = 0 => db[m].slug = StemOf[db[m].title]

\* HEAD has the text of a memo that is no draft, and so has the index, which the
\* commit of any memo takes, but while its file is on the move.
CleanOK(m) ==
  Exists(m) /\ ~Draft(db[m]) =>
    /\ Holds(head, m, db[m]) \/ (~CanCrash /\ Moving(m))
    /\ ~CanCrash => Holds(index, m, db[m]) \/ Moving(m)

LoadedOK(r) ==
  /\ db[r.memo] # NotYet
  /\ r.ld.upd # 0 /\ r.ld.upd <= clock
  /\ r.op # "draft" => r.mem.title = r.ld.title /\ r.mem.slug = r.ld.slug
  /\ Exists(r.memo) => r.ld.upd <= db[r.memo].upd /\ (r.ld.fca # 0 => db[r.memo].fca # 0)

\* Title and slug are written by drafts alone.
DraftOK(r) ==
  r.op = "draft" =>
    /\ r.at = r.ld.slug /\ r.mem.slug = SlugFor(r.ld, r.mem.title)
    /\ Exists(r.memo) => db[r.memo].title = r.ld.title /\ db[r.memo].slug = r.ld.slug

\* Nothing has been written to the row since the request has loaded it.
Fresh(r) == Exists(r.memo) /\ db[r.memo].upd = r.ld.upd

\* What a commit has brought into Git is the text of a row that is still as it
\* was loaded; if it is not, the stamp leaves the memo a draft.
CommitOK(r) ==
  r.op \in Committing =>
    /\ r.mem.body = r.ld.body /\ r.mem.upd = r.ld.upd
    /\ Exists(r.memo) => Draft(db[r.memo])
    /\ Fresh(r) =>
         /\ Text(db[r.memo]) = Text(r.mem) /\ db[r.memo].slug = r.mem.slug
         /\ r.pc = "add" => tree[r.memo][r.mem.slug] = NoFile \/ Holds(tree, r.memo, r.mem)
         /\ r.pc = "gitcommit" => Holds(index, r.memo, r.mem)
         /\ r.pc \in {"save", "stamp"} =>
              /\ Holds(head, r.memo, r.mem)
              /\ ~CanCrash => Holds(index, r.memo, r.mem) \/ Moving(r.memo)

TextInv ==
  /\ Inv
  /\ \A m \in Memos : RowOK(m) /\ CleanOK(m)
  /\ \A p \in Procs : req[p].pc # "idle" => LoadedOK(req[p]) /\ DraftOK(req[p]) /\ CommitOK(req[p])

-----------------------------------------------------------------------------
\* Commits beside drafts: what a step does to a row

Step(p) == Begin(p) \/ LockingStep(p) \/ FreeStep(p) \/ Crash(p)

SameName(m) == db'[m].title = db[m].title /\ db'[m].slug = db[m].slug

\* The row of m is new, as it was but for its tags, touched, stamped or gone.
IsNew(m) == /\ db[m] = NotYet /\ db'[m] \in Rows
            /\ \E c \in Payloads : db'[m] = NewRow(c)
            /\ clock' = clock + 1

IsKept(m) == /\ Exists(m) /\ db'[m] \in Rows /\ SameName(m)
             /\ db'[m].body = db[m].body /\ db'[m].upd = db[m].upd /\ db'[m].fca = db[m].fca

IsTouched(p, m) ==
  /\ Exists(m) /\ db'[m] \in Rows
  /\ clock' = clock + 1 /\ db'[m].upd = clock + 1 /\ db'[m].fca = db[m].fca
  /\ \/ SameName(m)
     \/ /\ Save(p) /\ req[p].op = "draft" /\ req[p].memo = m
        /\ db'[m].title = req[p].mem.title /\ db'[m].slug = req[p].mem.slug

IsStamped(p, m) ==
  /\ Exists(m) /\ db'[m] \in Rows
  /\ StampCommitted(p) /\ req[p].memo = m /\ SameName(m)
  /\ db'[m].body = db[m].body /\ db'[m].upd = db[m].upd /\ db'[m].fca = req[p].mem.upd

IsGone(m) == (~Exists(m) /\ db'[m] = db[m]) \/ db'[m] = Deleted

\* The request of a process at a step of a handler.
LEMMA TextRequest ==
  ASSUME TextInv, NEW p \in Procs, req[p].pc # "idle"
  PROVE  /\ req[p] \in Requests /\ req[p].memo \in Memos /\ req[p].ld \in Rows
         /\ req[p].mem \in Rows /\ req[p].at \in Stems /\ req[p].mem.slug \in Stems
         /\ LoadedOK(req[p]) /\ DraftOK(req[p]) /\ CommitOK(req[p])
         /\ req[p].op \in OpsOf[p]
<1>1. req[p] \in Requests
  BY DEF TextInv, Inv, TypeOK, Idle
<1> QED BY <1>1 DEF TextInv, Inv, HandlersKeepTheirSteps, At, Requests, Rows

\* A save writes a new title and slug only for a draft.
LEMMA SaveRow ==
  ASSUME TextInv, NEW p \in Procs, Save(p), NEW m \in Memos, Exists(m)
  PROVE  IsKept(m) \/ IsTouched(p, m)
<1> DEFINE r == req[p]
           n == r.memo
<1>1. r.pc # "idle" /\ TypeOK
  BY DEF Save, At, TextInv, Inv
<1>2. /\ r \in Requests /\ n \in Memos /\ r.ld \in Rows /\ r.mem \in Rows
      /\ LoadedOK(r) /\ DraftOK(r)
  BY <1>1, TextRequest
<1>3. db[m] \in Rows
  BY <1>1, ExistingRow
<1>4. CASE db'[m] = db[m]
  BY <1>3, <1>4 DEF IsKept, SameName
<1>5. CASE db'[m] # db[m]
  <2>1. Changed(r) /\ m = n /\ clock' = clock + 1
    BY <1>1, <1>5 DEF Save, PutRow, TypeOK
  <2>2. db'[m] = Merged(db[m], r, clock + 1)
    BY <1>1, <2>1, PutExisting DEF Save
  <2>a. db'[m] \in Rows
    BY <1>1, <1>2, <1>3, <2>2, MergedType DEF TypeOK
  <2>3. /\ db'[m].upd = clock + 1 /\ db'[m].fca = db[m].fca
        /\ db'[m].title = IF r.mem.title # r.ld.title THEN r.mem.title ELSE db[m].title
        /\ db'[m].slug = IF r.mem.slug # r.ld.slug THEN r.mem.slug ELSE db[m].slug
    BY <1>3, <2>2 DEF Merged, Rows
  <2>4. CASE r.op # "draft"
    BY <1>2, <2>1, <2>a, <2>3, <2>4 DEF LoadedOK, IsTouched, SameName
  <2>5. CASE r.op = "draft"
    BY <1>2, <2>1, <2>a, <2>3, <2>5 DEF DraftOK, IsTouched
  <2> QED BY <2>4, <2>5
<1> QED BY <1>4, <1>5

\* What a step makes of a row.
LEMMA RowEffect ==
  ASSUME TextInv, NoReverts, NEW p \in Procs, Step(p), NEW m \in Memos
  PROVE  IsNew(m) \/ IsKept(m) \/ IsTouched(p, m) \/ IsStamped(p, m) \/ IsGone(m)
<1>0. TypeOK /\ HandlersKeepTheirSteps
  BY DEF TextInv, Inv
<1>1. ASSUME db'[m] = db[m] PROVE IsKept(m) \/ IsGone(m)
  BY <1>0, <1>1, ExistingRow DEF IsKept, IsGone, SameName
<1>2. CASE UNCHANGED db
  BY <1>1, <1>2
<1>3. ASSUME NEW n \in Memos, Exists(n), NEW row, row \in Rows, PutRow(n, row),
             m = n => IsKept(m) \/ IsTouched(p, m) \/ IsStamped(p, m)
      PROVE  IsKept(m) \/ IsTouched(p, m) \/ IsStamped(p, m) \/ IsGone(m)
  BY <1>0, <1>1, <1>3, PutExisting
<1>4. CASE Begin(p)
  <2>1. PICK n \in Memos :
          \/ UNCHANGED db
          \/ /\ db[n] = NotYet /\ clock' = clock + 1
             /\ \E c \in Payloads : db' = [db EXCEPT ![n] = NewRow(c)]
          \/ /\ Exists(n) /\ clock' = clock + 1
             /\ \E f \in Frags : db' = [db EXCEPT ![n].body = @ \cup {f}, ![n].upd = clock + 1]
          \/ db' = [db EXCEPT ![n] = Deleted]
    BY <1>4 DEF Begin, BeginDraft, BeginUpdate, BeginCommit, BeginRevert, BeginToggle,
       BeginUpdateTags, Create, ApiCreate, Append, Destroy
  <2>2. CASE m # n
    <3>1. db'[m] = db[m]
      BY <1>0, <2>1, <2>2 DEF TypeOK
    <3> QED BY <1>1, <3>1
  <2>3. CASE m = n
    <3>1. ASSUME NEW c \in Payloads, db' = [db EXCEPT ![n] = NewRow(c)]
          PROVE  db'[m] = NewRow(c) /\ NewRow(c) \in Rows
      <4>1. NewRow(c) \in Rows
        BY <1>0, PayloadsAssumption, StemOfAssumption DEF NewRow, Rows, Contents, TypeOK
      <4> QED BY <1>0, <2>3, <3>1, <4>1 DEF TypeOK
    <3>2. ASSUME NEW f \in Frags, Exists(n), clock' = clock + 1,
                 db' = [db EXCEPT ![n].body = @ \cup {f}, ![n].upd = clock + 1]
          PROVE  IsTouched(p, m)
      <4>1. db[m] \in Rows
        BY <1>0, <2>3, <3>2, ExistingRow
      <4>2. /\ db'[m].upd = clock + 1 /\ db'[m].fca = db[m].fca
            /\ db'[m].title = db[m].title /\ db'[m].slug = db[m].slug
        BY <1>0, <2>3, <3>2, <4>1 DEF TypeOK, Rows
      <4>3. db'[m] \in Rows
        <5> DEFINE body == db[m].body \cup {f}
        <5>1. body \in SUBSET Frags /\ clock + 1 \in Nat
          BY <1>0, <4>1 DEF Rows, TypeOK
        <5>2. db'[m] = [db[m] EXCEPT !.body = body, !.upd = clock + 1]
          BY <1>0, <2>3, <3>2, <4>1 DEF Rows, TypeOK
        <5> HIDE DEF body
        <5> QED BY <4>1, <5>1, <5>2 DEF Rows
      <4> QED BY <2>3, <3>2, <4>2, <4>3 DEF IsTouched, SameName
    <3>3. db' = [db EXCEPT ![n] = Deleted] => IsGone(m)
      BY <1>0, <2>3 DEF TypeOK, IsGone
    <3> QED BY <1>2, <2>1, <2>3, <3>1, <3>2, <3>3 DEF IsNew
  <2> QED BY <2>2, <2>3
<1>5. CASE LockingStep(p) \/ Crash(p)
  BY <1>2, <1>5 DEF LockingStep, Relocate, Add, Crash
<1>6. CASE FreeStep(p)
  <2> DEFINE r == req[p]
             n == r.memo
  <2>1. /\ r \in Requests /\ n \in Memos /\ r.ld \in Rows /\ r.mem \in Rows
    <3>1. r.pc # "idle"
      BY <1>6 DEF FreeStep, WriteTags, CheckOld, WriteFile, GitCommit, Save, StampCommitted,
         Touch, FindCommittedPath, ReadBlob, RestoreFile, RemoveOtherFiles, RestoreUpdatedAt, At
    <3> QED BY <3>1, TextRequest
  <2>2. Exists(n) => db[n] \in Rows
    BY <1>0, <2>1, ExistingRow
  <2>3. CASE ~Exists(n) /\ ~Save(p)
    <3>1. UNCHANGED db
      BY <1>0, <1>6, <2>3, NoRevertSteps DEF FreeStep, WriteTags, CheckOld, WriteFile, GitCommit,
         StampCommitted, Touch, PutRow
    <3> QED BY <1>2, <3>1
  <2>4. CASE WriteTags(p) /\ Exists(n)
    <3> DEFINE tags == (db[n].tags \ (r.ld.tags \ r.mem.tags)) \cup (r.mem.tags \ r.ld.tags)
               row == [db[n] EXCEPT !.tags = tags]
    <3>1. [db[n] EXCEPT !.tags = (@ \ (r.ld.tags \ r.mem.tags)) \cup (r.mem.tags \ r.ld.tags)] = row
      BY <2>2, <2>4 DEF Rows
    <3>2. PutRow(n, row) \/ UNCHANGED db
      BY <2>4, <3>1 DEF WriteTags
    <3>3. tags \in SUBSET Tags
      BY <2>1, <2>2, <2>4 DEF Rows
    <3> HIDE DEF tags
    <3>4. /\ row \in Rows /\ row.title = db[n].title /\ row.body = db[n].body
          /\ row.slug = db[n].slug /\ row.upd = db[n].upd /\ row.fca = db[n].fca
      BY <2>2, <2>4, <3>3 DEF Rows
    <3> HIDE DEF row
    <3>5. PutRow(n, row) /\ m = n => IsKept(m)
      BY <1>0, <2>1, <2>4, <3>4, PutExisting DEF IsKept, SameName
    <3> QED BY <1>2, <1>3, <2>1, <2>4, <3>2, <3>4, <3>5
  <2>5. CASE Save(p)
    <3>1. CASE Exists(m)
      BY <2>5, <3>1, SaveRow
    <3>2. CASE ~Exists(m)
      <4>1. db'[m] = db[m]
        BY <1>0, <2>1, <2>5, <3>2 DEF Save, PutRow, TypeOK
      <4> QED BY <3>2, <4>1 DEF IsGone
    <3> QED BY <3>1, <3>2
  <2>6. CASE Touch(p) /\ Exists(n)
    <3> DEFINE now == clock + 1
               row == [db[n] EXCEPT !.upd = now]
    <3>1. PutRow(n, row) /\ clock' = now
      BY <2>6 DEF Touch
    <3>a. now \in Nat
      BY <1>0 DEF TypeOK
    <3> HIDE DEF now
    <3>2. /\ row \in Rows /\ row.title = db[n].title /\ row.slug = db[n].slug
          /\ row.upd = now /\ row.fca = db[n].fca
      BY <2>2, <2>6, <3>a DEF Rows
    <3> HIDE DEF row
    <3>3. m = n => IsTouched(p, m)
      BY <1>0, <2>1, <2>6, <3>1, <3>2, PutExisting DEF IsTouched, SameName, now
    <3> QED BY <1>3, <2>1, <2>6, <3>1, <3>2, <3>3
  <2>7. CASE StampCommitted(p) /\ Exists(n)
    <3> DEFINE row == [db[n] EXCEPT !.fca = r.mem.upd]
    <3>1. PutRow(n, row)
      BY <2>7 DEF StampCommitted
    <3>2. /\ row \in Rows /\ row.title = db[n].title /\ row.slug = db[n].slug
          /\ row.body = db[n].body /\ row.upd = db[n].upd /\ row.fca = r.mem.upd
      BY <2>1, <2>2, <2>7 DEF Rows
    <3> HIDE DEF row
    <3>3. m = n => IsStamped(p, m)
      BY <1>0, <2>1, <2>7, <3>1, <3>2, PutExisting DEF IsStamped, SameName
    <3> QED BY <1>3, <2>1, <2>7, <3>1, <3>2, <3>3
  <2>8. CASE CheckOld(p) \/ WriteFile(p) \/ GitCommit(p)
    BY <1>2, <2>8 DEF CheckOld, WriteFile, GitCommit
  <2> QED BY <1>0, <1>6, <2>3, <2>4, <2>5, <2>6, <2>7, <2>8, NoRevertSteps DEF FreeStep
<1> QED BY <1>4, <1>5, <1>6 DEF Step

-----------------------------------------------------------------------------
\* Commits beside drafts: what a step does to the files

\* The thread that commits is the only one to write, stage, commit or stamp, the
\* one that saves drafts the only one to move files.
LEMMA WhoWrites ==
  ASSUME TextInv, CommitsBesideDrafts, NEW p \in Procs
  PROVE  /\ WriteFile(p) \/ Add(p) \/ GitCommit(p) \/ StampCommitted(p) =>
              req[p].pc # "idle" /\ req[p].op \in Committing
         /\ CheckOld(p) \/ Relocate(p) => req[p].pc # "idle" /\ req[p].op = "draft"
         /\ \A q \in Procs : /\ req[p].pc # "idle" /\ req[q].pc # "idle"
                             /\ \/ req[p].op \in Committing /\ req[q].op \in Committing
                                \/ req[p].op = "draft" /\ req[q].op = "draft"
                             => p = q
<1>1. HandlersKeepTheirSteps
  BY DEF TextInv, Inv
<1>2. \A q \in Procs : req[q].pc # "idle" => req[q].op \in OpsOf[q] /\ req[q].op # "update"
  BY TextRequest DEF CommitsBesideDrafts
<1>3. WriteFile(p) \/ Add(p) \/ GitCommit(p) \/ StampCommitted(p) =>
        req[p].pc # "idle" /\ req[p].op \in {"update", "commit", "apiCreate"}
  BY <1>1, OpOfStep DEF WriteFile, Add, GitCommit, StampCommitted, At
<1>4. CheckOld(p) \/ Relocate(p) => req[p].pc # "idle" /\ req[p].op = "draft"
  BY <1>1, OpOfStep DEF CheckOld, Relocate, At
<1>5. \A q \in Procs : /\ req[p].pc # "idle" /\ req[q].pc # "idle"
                       /\ \/ req[p].op \in Committing /\ req[q].op \in Committing
                          \/ req[p].op = "draft" /\ req[q].op = "draft"
                       => p = q
  BY <1>2 DEF CommitsBesideDrafts
<1> QED BY <1>2, <1>3, <1>4, <1>5 DEF Committing

\* A file on the move is saved at its new slug, and its row touched.
LEMMA MovingStep ==
  ASSUME TextInv, CommitsBesideDrafts, ~CanCrash, NEW p \in Procs, Step(p),
         NEW m \in Memos, Exists(m), Moving(m)
  PROVE  Moving(m)' \/ (db'[m] \notin Absent => db'[m].upd = clock + 1)
<1>1. PICK q \in Procs : /\ req[q].pc = "save" /\ req[q].op = "draft" /\ req[q].memo = m
                         /\ req[q].at # req[q].mem.slug
  BY DEF Moving
<1>2. TypeOK /\ req[q].pc # "idle" /\ DraftOK(req[q])
  BY <1>1, TextRequest DEF TextInv, Inv
<1>3. CASE q # p
  <2>1. req'[q] = req[q]
    BY <1>2, <1>3, OthersKept DEF Step
  <2> QED BY <1>1, <2>1 DEF Moving
<1>4. CASE q = p
  <2>1. Save(p)
    BY <1>1, <1>4 DEF Step, Crash, Begin, BeginDraft, BeginUpdate, BeginCommit, BeginRevert,
       BeginToggle, BeginUpdateTags, Create, ApiCreate, Append, Destroy, CanStart, LockingStep,
       Relocate, Add, FreeStep, WriteTags, CheckOld, WriteFile, GitCommit, StampCommitted, Touch,
       FindCommittedPath, ReadBlob, RestoreFile, RemoveOtherFiles, RestoreUpdatedAt, At
  <2>2. Changed(req[p])
    BY <1>1, <1>2, <1>4 DEF DraftOK, Changed, Columns
  <2>3. db'[m] = Merged(db[m], req[p], clock + 1)
    BY <1>1, <1>2, <1>4, <2>1, <2>2, PutExisting DEF Save
  <2>4. db[m] \in Rows
    BY <1>2, ExistingRow
  <2> QED BY <2>3, <2>4 DEF Merged, Rows
<1> QED BY <1>3, <1>4

\* The index entry at the slug of a row is moved or committed anew, or stays.
LEMMA IndexStep ==
  ASSUME TextInv, CommitsBesideDrafts, NoReverts, NEW p \in Procs, Step(p),
         NEW m \in Memos, Exists(m)
  PROVE  \/ index'[m][db[m].slug] = index[m][db[m].slug]
         \/ Moving(m)'
         \/ Add(p) /\ req[p].memo = m
<1> DEFINE r == req[p]
           s == db[m].slug
<1>1. TypeOK /\ HandlersKeepTheirSteps /\ RelocateMoves /\ s \in Stems
  BY ExistingRow DEF TextInv, Inv, HeadInv, Rows
<1>2. CASE Relocate(p)
  <2>1. r.pc # "idle" /\ r.op = "draft"
    BY <1>2, WhoWrites
  <2>2. /\ r \in Requests /\ r.at \in Stems /\ r.mem.slug \in Stems /\ r.memo \in Memos
        /\ DraftOK(r) /\ r.at # r.mem.slug
    BY <1>1, <1>2, <2>1, TextRequest DEF RelocateMoves, Relocate, At
  <2>3. CASE r.memo # m \/ UNCHANGED index
    <3>1. index'[m] = index[m]
      BY <1>1, <1>2, <2>2, <2>3 DEF Relocate, TypeOK, Files
    <3> QED BY <3>1
  <2>4. CASE r.memo = m /\ Go(p, "save")
    <3>1. /\ req'[p].pc = "save" /\ req'[p].op = "draft" /\ req'[p].memo = m
          /\ req'[p].at # req'[p].mem.slug
      BY <1>1, <2>1, <2>2, <2>4, GoKeeps
    <3> QED BY <3>1 DEF Moving
  <2> QED BY <1>2, <2>3, <2>4 DEF Relocate
<1>3. CASE Add(p)
  <2>1. r \in Requests /\ r.memo \in Memos
    BY <1>3, TextRequest DEF Add, At
  <2>2. CASE r.memo # m
    <3>1. index'[m] = index[m]
      BY <1>1, <1>3, <2>1, <2>2 DEF Add, TypeOK, Files
    <3> QED BY <3>1
  <2> QED BY <1>3, <2>2
<1>4. CASE ~Relocate(p) /\ ~Add(p)
  <2>1. UNCHANGED index
    BY <1>1, <1>4, RepositoryWriters DEF Step
  <2> QED BY <2>1
<1> QED BY <1>2, <1>3, <1>4

-----------------------------------------------------------------------------
\* Commits beside drafts: the invariant is kept

LEMMA DraftsDoNotRevert == CommitsBesideDrafts => NoReverts
BY DEF CommitsBesideDrafts, NoReverts

\* The clock never goes back.
LEMMA ClockStep ==
  ASSUME TextInv, NEW p \in Procs, Step(p)
  PROVE  clock \in Nat /\ clock' \in Nat /\ clock <= clock'
<1>1. clock \in Nat
  BY DEF TextInv, Inv, TypeOK
<1>2. clock' = clock \/ clock' = clock + 1
  BY DEF Step, Begin, BeginDraft, BeginUpdate, BeginCommit, BeginRevert, BeginToggle,
     BeginUpdateTags, Create, ApiCreate, Append, Destroy, LockingStep, Relocate, Add, FreeStep,
     WriteTags, CheckOld, WriteFile, GitCommit, Save, StampCommitted, Touch, FindCommittedPath,
     ReadBlob, RestoreFile, RemoveOtherFiles, RestoreUpdatedAt, Crash
<1> QED BY <1>1, <1>2

\* The numbers of a row.
LEMMA RowNumbers ==
  ASSUME TextInv, NEW m \in Memos, Exists(m)
  PROVE  /\ db[m] \in Rows /\ db[m].upd \in Nat /\ db[m].fca \in Nat
         /\ db[m].upd # 0 /\ db[m].upd <= clock /\ db[m].fca <= db[m].upd
  BY ExistingRow DEF TextInv, Inv, RowOK, Rows

\* A row that is there after a step.
LEMMA RowThere ==
  ASSUME TextInv, CommitsBesideDrafts, NEW p \in Procs, Step(p), NEW m \in Memos,
         db'[m] \notin Absent
  PROVE  IsNew(m) \/ IsKept(m) \/ IsTouched(p, m) \/ IsStamped(p, m)
BY RowEffect, DraftsDoNotRevert DEF IsGone, Exists, Absent

\* A memo's slug is derived from its title until it is stamped, and nothing it is
\* stamped with lies in the future.
LEMMA RowOKStep ==
  ASSUME TextInv, CommitsBesideDrafts, NEW p \in Procs, Step(p), NEW m \in Memos
  PROVE  RowOK(m)'
<1> SUFFICES ASSUME db'[m] \notin Absent
             PROVE  /\ db'[m].upd # 0 /\ db'[m].upd <= clock' /\ db'[m].fca <= db'[m].upd
                    /\ db'[m].fca = 0 => db'[m].slug = StemOf[db'[m].title]
  BY DEF RowOK, Exists
<1>1. clock \in Nat /\ clock' \in Nat /\ clock <= clock'
  BY ClockStep
<1>2. Exists(m) => /\ db[m] \in Rows /\ db[m].upd \in Nat /\ db[m].fca \in Nat
                   /\ db[m].upd # 0 /\ db[m].upd <= clock /\ db[m].fca <= db[m].upd
                   /\ db[m].fca = 0 => db[m].slug = StemOf[db[m].title]
  BY RowNumbers DEF TextInv, RowOK
<1>3. CASE IsNew(m)
  BY <1>1, <1>3 DEF IsNew, NewRow
<1>4. CASE IsKept(m)
  BY <1>1, <1>2, <1>4 DEF IsKept, SameName
<1>5. CASE IsTouched(p, m)
  <2>1. db'[m].upd # 0 /\ db'[m].upd <= clock' /\ db'[m].fca <= db'[m].upd
    BY <1>1, <1>2, <1>5 DEF IsTouched
  <2>2. db'[m].fca = db[m].fca /\ Exists(m)
    BY <1>5 DEF IsTouched
  <2>3. ASSUME db[m].fca = 0, Save(p), req[p].op = "draft", req[p].memo = m,
               db'[m].title = req[p].mem.title, db'[m].slug = req[p].mem.slug
        PROVE  db'[m].slug = StemOf[db'[m].title]
    <3>1. LoadedOK(req[p]) /\ DraftOK(req[p])
      BY <2>3, TextRequest DEF Save, At
    <3>2. req[p].ld.fca = 0
      BY <2>2, <2>3, <3>1 DEF LoadedOK
    <3> QED BY <2>3, <3>1, <3>2 DEF DraftOK, SlugFor
  <2> QED BY <1>2, <1>5, <2>1, <2>2, <2>3 DEF IsTouched, SameName
<1>6. CASE IsStamped(p, m)
  <2>1. LoadedOK(req[p]) /\ CommitOK(req[p]) /\ req[p].op \in Committing
    BY <1>6, TextRequest, WhoWrites DEF IsStamped
  <2>2. Exists(m) /\ req[p].mem.upd # 0 /\ req[p].mem.upd <= db[m].upd
    BY <1>6, <2>1 DEF LoadedOK, CommitOK, IsStamped
  <2> QED BY <1>1, <1>2, <1>6, <2>2 DEF IsStamped, SameName
<1> QED BY <1>3, <1>4, <1>5, <1>6, RowThere

\* HEAD and the index keep the text of a memo that is no draft.
LEMMA CleanStep ==
  ASSUME TextInv, CommitsBesideDrafts, NEW p \in Procs, Step(p), NEW m \in Memos
  PROVE  CleanOK(m)'
<1> SUFFICES ASSUME db'[m] \notin Absent, ~Draft(db'[m])
             PROVE  /\ Holds(head', m, db'[m]) \/ (~CanCrash /\ Moving(m)')
                    /\ ~CanCrash => Holds(index', m, db'[m]) \/ Moving(m)'
  BY DEF CleanOK, Exists, Holds, Moving
<1>0. NoReverts /\ TypeOK /\ HandlersKeepTheirSteps /\ clock \in Nat
  BY DraftsDoNotRevert DEF TextInv, Inv, TypeOK
<1>1. Exists(m) => /\ db[m] \in Rows /\ db[m].upd \in Nat /\ db[m].fca \in Nat
                   /\ db[m].upd # 0 /\ db[m].upd <= clock /\ db[m].fca <= db[m].upd
  BY RowNumbers
<1>2. ~IsNew(m)
  <2>1. ASSUME NEW c \in Payloads, db'[m] = NewRow(c) PROVE FALSE
    <3>1. db'[m].fca = 0
      BY <2>1 DEF NewRow
    <3> QED BY <3>1 DEF Draft
  <2> QED BY <2>1 DEF IsNew
<1>3. ~IsTouched(p, m)
  BY <1>0, <1>1 DEF IsTouched, Draft
<1>4. ASSUME Exists(m), db'[m].upd = db[m].upd, ~CanCrash, Moving(m) PROVE Moving(m)'
  BY <1>0, <1>1, <1>4, MovingStep
<1>5. CASE IsKept(m)
  <2>1. Exists(m) /\ ~Draft(db[m]) /\ db'[m].upd = db[m].upd /\ db'[m].slug = db[m].slug
    BY <1>5 DEF IsKept, SameName, Draft
  <2>2. /\ Holds(head, m, db[m]) \/ (~CanCrash /\ Moving(m))
        /\ ~CanCrash => Holds(index, m, db[m]) \/ Moving(m)
    BY <2>1 DEF TextInv, CleanOK
  <2>3. ASSUME NEW files, Holds(files, m, db[m]) PROVE Holds(files, m, db'[m])
    BY <1>5, <2>3 DEF Holds, IsKept, SameName, Text
  <2>4. Add(p) \/ GitCommit(p) => req[p].memo # m
    <3>1. ASSUME Add(p) \/ GitCommit(p) PROVE req[p].memo # m
      <4>1. CommitOK(req[p]) /\ req[p].op \in Committing
        BY <3>1, TextRequest, WhoWrites
      <4> QED BY <2>1, <4>1 DEF CommitOK
    <3> QED BY <3>1
  <2>5. CASE ~GitCommit(p)
    <3>1. head' = head
      BY <1>0, <2>5, RepositoryWriters DEF Step
    <3>2. index'[m][db[m].slug] = index[m][db[m].slug] \/ Moving(m)'
      BY <1>0, <2>1, <2>4, IndexStep
    <3>3. Holds(index, m, db[m]) => Holds(index', m, db[m]) \/ Moving(m)'
      BY <3>2 DEF Holds
    <3> QED BY <1>4, <2>1, <2>2, <2>3, <3>1, <3>3
  <2>6. CASE GitCommit(p)
    <3>1. ~CanCrash
      <4>1. req[p].memo \in Memos /\ req[p].memo # m
        BY <2>4, <2>6, TextRequest DEF GitCommit, At
      <4> QED BY <4>1 DEF CommitsBesideDrafts
    <3>2. head' = index /\ index' = index
      BY <2>6 DEF GitCommit
    <3> QED BY <1>4, <2>1, <2>2, <2>3, <3>1, <3>2
  <2> QED BY <2>5, <2>6
<1>6. CASE IsStamped(p, m)
  <2> DEFINE r == req[p]
  <2>1. /\ LoadedOK(r) /\ CommitOK(r) /\ r.op \in Committing /\ r.pc = "stamp" /\ r.memo = m
        /\ r.ld \in Rows
    BY <1>6, TextRequest, WhoWrites DEF IsStamped, StampCommitted, At
  <2>2. /\ Exists(m) /\ db'[m].upd = db[m].upd /\ db'[m].fca = r.ld.upd /\ r.ld.upd <= db[m].upd
        /\ r.ld.upd \in Nat
    BY <1>6, <2>1 DEF IsStamped, CommitOK, LoadedOK, Rows
  <2>3. Fresh(r)
    BY <1>1, <2>1, <2>2 DEF Fresh, Draft
  <2>4. /\ Text(db[m]) = Text(r.mem) /\ db[m].slug = r.mem.slug /\ Holds(head, m, r.mem)
        /\ ~CanCrash => Holds(index, m, r.mem) \/ Moving(m)
    BY <2>1, <2>3 DEF CommitOK
  <2>5. ASSUME NEW files, Holds(files, m, r.mem) PROVE Holds(files, m, db'[m])
    BY <1>6, <2>4, <2>5 DEF Holds, IsStamped, SameName, Text
  <2>6. UNCHANGED <<index, head>>
    BY <1>6 DEF IsStamped, StampCommitted, git
  <2> QED BY <1>4, <2>2, <2>4, <2>5, <2>6
<1> QED BY <1>2, <1>3, <1>5, <1>6, RowThere

\* A row that a request has loaded only gets older, and a row is written once.
LEMMA LoadedStep ==
  ASSUME TextInv, CommitsBesideDrafts, NEW p \in Procs, Step(p),
         NEW r \in Requests, LoadedOK(r)
  PROVE  /\ db'[r.memo] # NotYet /\ r.ld.upd <= clock'
         /\ db'[r.memo] \notin Absent =>
              /\ Exists(r.memo) /\ ~IsNew(r.memo)
              /\ r.ld.upd <= db'[r.memo].upd /\ (r.ld.fca # 0 => db'[r.memo].fca # 0)
<1> DEFINE m == r.memo
<1>0. m \in Memos /\ r.ld.upd \in Nat /\ TypeOK
  BY DEF TextInv, Inv, Requests, Rows
<1>1. r.ld.upd <= clock'
  BY <1>0, ClockStep DEF LoadedOK
<1>2. db[m] # NotYet /\ ~IsNew(m)
  BY DEF LoadedOK, IsNew
<1>3. IsKept(m) \/ IsTouched(p, m) \/ IsStamped(p, m) \/ IsGone(m)
  BY <1>0, <1>2, RowEffect, DraftsDoNotRevert
<1>4. db'[m] # NotYet
  <2>1. IsGone(m) => db'[m] # NotYet
    BY <1>2, AbsentAssumption DEF IsGone, Absent
  <2>2. db'[m] \in Rows => db'[m] # NotYet
    BY RowIsNotAbsent DEF Absent
  <2> QED BY <1>3, <2>1, <2>2 DEF IsKept, IsTouched, IsStamped
<1>5. ASSUME db'[m] \notin Absent
      PROVE  Exists(m) /\ r.ld.upd <= db'[m].upd /\ (r.ld.fca # 0 => db'[m].fca # 0)
  <2>1. IsKept(m) \/ IsTouched(p, m) \/ IsStamped(p, m)
    BY <1>3, <1>5 DEF IsGone, Exists, Absent
  <2>2. Exists(m)
    BY <2>1 DEF IsKept, IsTouched, IsStamped
  <2>3. /\ db[m].upd \in Nat /\ db[m].upd <= clock /\ clock \in Nat
        /\ r.ld.upd <= db[m].upd /\ (r.ld.fca # 0 => db[m].fca # 0)
    BY <1>0, <2>2, RowNumbers DEF LoadedOK, TypeOK
  <2>4. IsStamped(p, m) => req[p].mem.upd # 0
    <3>1. ASSUME IsStamped(p, m) PROVE req[p].mem.upd # 0
      <4>1. LoadedOK(req[p]) /\ CommitOK(req[p]) /\ req[p].op \in Committing
        BY <3>1, TextRequest, WhoWrites DEF IsStamped
      <4> QED BY <4>1 DEF LoadedOK, CommitOK
    <3> QED BY <3>1
  <2> QED BY <1>0, <2>1, <2>2, <2>3, <2>4 DEF IsKept, IsTouched, IsStamped
<1> QED BY <1>0, <1>1, <1>2, <1>4, <1>5

\* Requests that stay as they are, up to the step they are at.
SameRequest(q) ==
  /\ req'[q].op = req[q].op /\ req'[q].memo = req[q].memo
  /\ req'[q].ld = req[q].ld /\ req'[q].mem = req[q].mem /\ req'[q].at = req[q].at

\* Title and slug of the row of a draft change only when that draft is saved.
LEMMA RequestKept ==
  ASSUME TextInv, CommitsBesideDrafts, NEW p \in Procs, Step(p), NEW q \in Procs,
         req[q].pc # "idle", SameRequest(q), q = p => ~Save(p) \/ req[p].op # "draft"
  PROVE  LoadedOK(req[q])' /\ DraftOK(req[q])'
<1> DEFINE r == req[q]
           m == r.memo
<1>1. /\ r \in Requests /\ m \in Memos /\ LoadedOK(r) /\ DraftOK(r)
  BY TextRequest
<1>2. /\ db'[m] # NotYet /\ r.ld.upd <= clock'
      /\ db'[m] \notin Absent =>
           /\ Exists(m) /\ ~IsNew(m)
           /\ r.ld.upd <= db'[m].upd /\ (r.ld.fca # 0 => db'[m].fca # 0)
  BY <1>1, LoadedStep
<1>3. LoadedOK(req[q])'
  BY <1>1, <1>2 DEF LoadedOK, SameRequest, Exists
<1>4. ASSUME r.op = "draft", db'[m] \notin Absent PROVE SameName(m)
  <2>1. IsKept(m) \/ IsTouched(p, m) \/ IsStamped(p, m)
    BY <1>1, <1>2, <1>4, RowThere
  <2>2. ~(Save(p) /\ req[p].op = "draft" /\ req[p].memo = m)
    BY <1>4, WhoWrites DEF Save, At
  <2> QED BY <2>1, <2>2 DEF IsKept, IsTouched, IsStamped
<1>5. DraftOK(req[q])'
  BY <1>1, <1>2, <1>4 DEF DraftOK, SameRequest, SameName, Exists, SlugFor
<1> QED BY <1>3, <1>5

\* A row that has not been written to is the row of before.
LEMMA FreshStep ==
  ASSUME TextInv, CommitsBesideDrafts, NEW p \in Procs, Step(p),
         NEW r \in Requests, LoadedOK(r), db'[r.memo] \notin Absent, db'[r.memo].upd = r.ld.upd
  PROVE  Fresh(r) /\ SameName(r.memo) /\ db'[r.memo].body = db[r.memo].body
<1> DEFINE m == r.memo
<1>1. m \in Memos /\ r.ld.upd \in Nat
  BY DEF Requests, Rows
<1>2. Exists(m) /\ ~IsNew(m)
  BY LoadedStep
<1>3. ~IsTouched(p, m)
  <2>1. clock \in Nat /\ r.ld.upd <= clock
    BY DEF LoadedOK, TextInv, Inv, TypeOK
  <2> QED BY <1>1, <2>1 DEF IsTouched
<1>4. IsKept(m) \/ IsStamped(p, m)
  BY <1>1, <1>2, <1>3, RowThere
<1> QED BY <1>2, <1>4 DEF Fresh, IsKept, IsStamped

\* A memo whose row a commit has loaded stays a draft until the stamp.
LEMMA CommittedIsDraft ==
  ASSUME TextInv, CommitsBesideDrafts, NEW p \in Procs, Step(p), ~StampCommitted(p),
         NEW r \in Requests, LoadedOK(r), CommitOK(r), r.op \in Committing,
         db'[r.memo] \notin Absent
  PROVE  Draft(db'[r.memo])
<1> DEFINE m == r.memo
<1>1. m \in Memos
  BY DEF Requests
<1>2. Exists(m) /\ ~IsNew(m)
  BY LoadedStep
<1>3. Draft(db[m]) /\ db[m].fca \in Nat /\ db[m].fca <= clock /\ clock \in Nat
  <2>1. /\ db[m].upd \in Nat /\ db[m].fca \in Nat /\ db[m].upd <= clock /\ db[m].fca <= db[m].upd
    BY <1>1, <1>2, RowNumbers
  <2> QED BY <1>2, <2>1 DEF CommitOK, TextInv, Inv, TypeOK
<1>4. IsKept(m) \/ IsTouched(p, m)
  BY <1>1, <1>2, RowThere DEF IsStamped
<1> QED BY <1>3, <1>4 DEF IsKept, IsTouched, Draft

\* The step of another thread leaves what a commit has done of its row's text.
LEMMA OtherCommitKept ==
  ASSUME TextInv, CommitsBesideDrafts, NEW p \in Procs, Step(p), NEW q \in Procs, q # p,
         req[q].pc # "idle"
  PROVE  CommitOK(req[q])'
<1> DEFINE r == req[q]
           m == r.memo
           s == r.mem.slug
<1>0. NoReverts /\ TypeOK /\ HandlersKeepTheirSteps /\ CommitterHoldsLock
  BY DraftsDoNotRevert DEF TextInv, Inv
<1>1. /\ r \in Requests /\ m \in Memos /\ s \in Stems /\ LoadedOK(r) /\ CommitOK(r)
      /\ req'[q] = r
  BY <1>0, TextRequest, OthersKept DEF Step
<1> SUFFICES ASSUME r.op \in Committing PROVE CommitOK(req[q])'
  BY <1>1 DEF CommitOK
<1>2. ~WriteFile(p) /\ ~Add(p) /\ ~GitCommit(p) /\ ~StampCommitted(p)
  BY WhoWrites
<1>3. db'[m] \notin Absent => Draft(db'[m])
  BY <1>1, <1>2, CommittedIsDraft
<1>4. SUFFICES ASSUME db'[m] \notin Absent, db'[m].upd = r.ld.upd
               PROVE  /\ Text(db'[m]) = Text(r.mem) /\ db'[m].slug = s
                      /\ r.pc = "add" => tree'[m][s] = NoFile \/ Holds(tree', m, r.mem)
                      /\ r.pc = "gitcommit" => Holds(index', m, r.mem)
                      /\ r.pc \in {"save", "stamp"} =>
                           /\ Holds(head', m, r.mem)
                           /\ ~CanCrash => Holds(index', m, r.mem) \/ Moving(m)'
  BY <1>1, <1>3 DEF CommitOK, Fresh, Exists, Holds, Moving
<1>5. Fresh(r) /\ SameName(m) /\ db'[m].body = db[m].body
  BY <1>1, <1>4, FreshStep
<1>6. /\ Text(db[m]) = Text(r.mem) /\ db[m].slug = s
      /\ r.pc = "add" => tree[m][s] = NoFile \/ Holds(tree, m, r.mem)
      /\ r.pc = "gitcommit" => Holds(index, m, r.mem)
      /\ r.pc \in {"save", "stamp"} =>
           /\ Holds(head, m, r.mem)
           /\ ~CanCrash => Holds(index, m, r.mem) \/ Moving(m)
  BY <1>1, <1>5 DEF CommitOK
<1>7. head' = head
  BY <1>0, <1>2, RepositoryWriters DEF Step
<1>8. tree'[m][s] = tree[m][s] \/ tree'[m][s] = NoFile
  <2>1. CASE Relocate(p)
    <3>1. req[p].pc # "idle" /\ req[p].op = "draft"
      BY <2>1, WhoWrites
    <3>2. /\ req[p] \in Requests /\ req[p].at \in Stems /\ req[p].mem.slug \in Stems
          /\ req[p].memo \in Memos /\ DraftOK(req[p]) /\ req[p].at # req[p].mem.slug
      BY <2>1, <3>1, TextRequest DEF TextInv, Inv, HeadInv, RelocateMoves, Relocate, At
    <3>3. req[p].memo = m => req[p].at = s
      BY <1>5, <1>6, <3>1, <3>2 DEF DraftOK, Fresh
    <3> QED BY <1>0, <1>1, <2>1, <3>2, <3>3 DEF Relocate, TypeOK, Files
  <2>2. CASE ~Relocate(p)
    BY <1>0, <1>2, <2>2, RepositoryWriters DEF Step
  <2> QED BY <2>1, <2>2
<1>9. r.pc = "gitcommit" => index' = index
  <2>1. r.pc = "gitcommit" => lock # Nobody
    BY <1>0, NobodyAssumption DEF CommitterHoldsLock, At
  <2> QED BY <1>0, <1>2, <2>1, RepositoryWriters DEF Step, Relocate
<1>10. ~CanCrash /\ Moving(m) => Moving(m)'
  <2>1. clock \in Nat /\ r.ld.upd \in Nat /\ r.ld.upd <= clock
    BY <1>0, <1>1 DEF LoadedOK, TypeOK, Requests, Rows
  <2> QED BY <1>1, <1>4, <1>5, <2>1, MovingStep DEF Fresh
<1>11. Holds(index, m, r.mem) => Holds(index', m, r.mem) \/ Moving(m)'
  <2>1. index'[m][s] = index[m][s] \/ Moving(m)'
    BY <1>0, <1>1, <1>2, <1>5, <1>6, IndexStep DEF Fresh
  <2> QED BY <2>1 DEF Holds
<1>12. Text(db'[m]) = Text(db[m]) /\ db'[m].slug = db[m].slug
  BY <1>5 DEF SameName, Text
<1>13. Holds(tree, m, r.mem) => tree'[m][s] = NoFile \/ Holds(tree', m, r.mem)
  BY <1>8 DEF Holds
<1> QED BY <1>6, <1>7, <1>8, <1>9, <1>10, <1>11, <1>12, <1>13

\* The steps of a commit bring the text of a fresh row into the index and HEAD.
LEMMA OwnCommitStep ==
  ASSUME TextInv, CommitsBesideDrafts, NEW p \in Procs, LockingStep(p) \/ FreeStep(p),
         req[p].op \in Committing
  PROVE  req'[p].pc = "idle" \/ (SameRequest(p) /\ CommitOK(req[p])')
<1> DEFINE r == req[p]
           m == r.memo
           s == r.mem.slug
<1>0. NoReverts /\ TypeOK /\ HandlersKeepTheirSteps /\ Step(p)
  BY DraftsDoNotRevert DEF TextInv, Inv, Step
<1>a. r.pc # "idle"
  BY DEF LockingStep, Relocate, Add, FreeStep, WriteTags, CheckOld, WriteFile, GitCommit, Save,
     StampCommitted, Touch, FindCommittedPath, ReadBlob, RestoreFile, RemoveOtherFiles,
     RestoreUpdatedAt, At
<1>1. /\ r \in Requests /\ m \in Memos /\ s \in Stems /\ LoadedOK(r) /\ CommitOK(r)
      /\ r.mem \in Rows
  BY <1>a, TextRequest
<1>2. ~WriteTags(p) /\ ~CheckOld(p) /\ ~Relocate(p) /\ ~Touch(p)
  <2>1. r.pc \in {"write", "add", "gitcommit", "save", "stamp"}
    BY <1>0, <1>a DEF HandlersKeepTheirSteps, StepsOf, At, Committing
  <2> QED BY <2>1 DEF WriteTags, CheckOld, Relocate, Touch, At
<1>3. CASE StampCommitted(p) \/ Finish(p)
  BY <1>0, <1>3, FinishPc DEF StampCommitted
<1>4. ASSUME NEW pc \in {"add", "gitcommit", "save", "stamp"}, Go(p, pc), UNCHANGED db,
             ~StampCommitted(p),
             Fresh(r) =>
               /\ pc = "add" => Holds(tree', m, r.mem)
               /\ pc = "gitcommit" => Holds(index', m, r.mem)
               /\ pc \in {"save", "stamp"} =>
                    /\ Holds(head', m, r.mem)
                    /\ ~CanCrash => Holds(index', m, r.mem) \/ Moving(m)'
      PROVE  SameRequest(p) /\ CommitOK(req[p])'
  <2>1. /\ req'[p].pc = pc /\ SameRequest(p)
    BY <1>0, <1>1, <1>4, GoKeeps DEF SameRequest
  <2>2. /\ req'[p].op = r.op /\ req'[p].memo = m /\ req'[p].ld = r.ld /\ req'[p].mem = r.mem
        /\ db' = db
    BY <1>4, <2>1 DEF SameRequest
  <2>3. CommitOK(req[p])'
    BY <1>1, <1>4, <2>1, <2>2 DEF CommitOK, Fresh, Exists, Holds, Moving
  <2> QED BY <2>1, <2>3
<1>5. CASE WriteFile(p)
  <2>1. tree'[m][s] = Content(r.mem) /\ Content(r.mem) # NoFile
    BY <1>0, <1>1, <1>5, ContentType, NoFileAssumption DEF WriteFile, TypeOK, Files
  <2>2. Holds(tree', m, r.mem)
    BY <2>1 DEF Holds, Text, Content
  <2> QED BY <1>4, <1>5, <2>2 DEF WriteFile, StampCommitted, At
<1>6. CASE Add(p) /\ ~Finish(p)
  <2>1. /\ index'[m][s] = tree[m][s] /\ Go(p, "gitcommit") /\ UNCHANGED db
        /\ tree[m][s] # NoFile \/ index[m][s] # NoFile
    BY <1>0, <1>1, <1>6 DEF Add, TypeOK, Files
  <2>2. tree[m][s] # NoFile
    BY <1>1, <2>1 DEF TextInv, Inv, HeadInv, IndexHasTree
  <2>3. Fresh(r) => Holds(tree, m, r.mem)
    BY <1>1, <1>6, <2>2 DEF CommitOK, Add, At
  <2>4. Fresh(r) => Holds(index', m, r.mem)
    BY <2>1, <2>3 DEF Holds
  <2> QED BY <1>4, <1>6, <2>1, <2>4 DEF Add, StampCommitted, At
<1>7. CASE GitCommit(p)
  <2>1. head' = index /\ index' = index /\ Go(p, "save") /\ UNCHANGED db
    BY <1>7 DEF GitCommit
  <2>2. Fresh(r) => Holds(index, m, r.mem)
    BY <1>1, <1>7 DEF CommitOK, GitCommit, At
  <2> QED BY <1>4, <1>7, <2>1, <2>2 DEF GitCommit, StampCommitted, At
<1>8. CASE Save(p)
  <2>1. AfterSave(r.op) = "stamp"
    BY DEF AfterSave, Committing
  <2>2. ~Changed(r)
    BY <1>1 DEF CommitOK, LoadedOK, Changed, Columns, Committing
  <2>3. Go(p, "stamp") /\ UNCHANGED <<db, git>>
    BY <1>8, <2>1, <2>2 DEF Save, Go
  <2>4. Fresh(r) => /\ Holds(head, m, r.mem)
                    /\ ~CanCrash => Holds(index, m, r.mem) \/ Moving(m)
    BY <1>1, <1>8 DEF CommitOK, Save, At
  <2>5. Moving(m) => Moving(m)'
    <3>1. \A q \in Procs : req[q].pc = "save" /\ req[q].op = "draft" => req'[q] = req[q]
      BY <1>0, OthersKept DEF Step, Committing
    <3>2. req'[p].memo = m
      BY <1>0, <1>1, <2>3, GoKeeps
    <3> QED BY <3>1, <3>2 DEF Moving
  <2>6. head' = head /\ index' = index
    BY <2>3 DEF git
  <2> QED BY <1>4, <1>8, <2>3, <2>4, <2>5, <2>6 DEF Save, StampCommitted, At
<1> QED BY <1>0, <1>2, <1>3, <1>5, <1>6, <1>7, <1>8, NoRevertSteps DEF LockingStep, FreeStep, Add

\* A request that starts has loaded the row as it stands.
LEMMA BeginTextRequest ==
  ASSUME TextInv, CommitsBesideDrafts, NEW p \in Procs, Begin(p), req'[p].pc # "idle"
  PROVE  LoadedOK(req[p])' /\ DraftOK(req[p])' /\ CommitOK(req[p])'
<1>1. TypeOK /\ At(p, "idle") /\ clock \in Nat
  BY DEF TextInv, Inv, TypeOK, Begin, BeginDraft, BeginUpdate, BeginCommit, BeginRevert,
     BeginToggle, BeginUpdateTags, Create, ApiCreate, Append, Destroy, CanStart
<1>2. ASSUME NEW m \in Memos, Exists(m), NEW op, NEW mem \in Rows, NEW pc,
             UNCHANGED <<db, clock>>, Start(p, op, m, mem, pc), pc \in {"tags", "write", "save"},
             op # "draft" => mem.title = db[m].title /\ mem.slug = db[m].slug,
             op = "draft" => mem.slug = SlugFor(db[m], mem.title),
             op \in Committing => /\ pc = "write" /\ Draft(db[m])
                                  /\ mem.body = db[m].body /\ mem.upd = db[m].upd
      PROVE  LoadedOK(req[p])' /\ DraftOK(req[p])' /\ CommitOK(req[p])'
  <2> DEFINE r == req'[p]
  <2>1. r = [pc |-> pc, op |-> op, memo |-> m, ld |-> db[m], mem |-> mem, at |-> db[m].slug]
    BY <1>1, <1>2 DEF Start, TypeOK
  <2>2. /\ r.pc = pc /\ r.op = op /\ r.memo = m /\ r.ld = db[m] /\ r.mem = mem
        /\ r.at = db[m].slug
    BY <2>1
  <2>3. db[m].upd \in Nat /\ db[m].upd # 0 /\ db[m].upd <= clock
    BY <1>2, RowNumbers
  <2>4. db'[m] = db[m] /\ clock' = clock /\ db[m] # NotYet
    BY <1>2 DEF Exists, Absent
  <2>5. LoadedOK(req[p])'
    BY <1>2, <2>2, <2>3, <2>4 DEF LoadedOK, Exists
  <2>6. DraftOK(req[p])'
    BY <1>2, <2>2, <2>4 DEF DraftOK, Exists, SlugFor
  <2>7. CommitOK(req[p])'
    <3>1. op \in Committing => Text(db[m]) = Text(mem)
      BY <1>2 DEF Text, Committing
    <3> QED BY <1>2, <2>2, <2>4, <3>1 DEF CommitOK, Fresh, Exists, Committing
  <2> QED BY <2>5, <2>6, <2>7
<1>3. PICK m \in Memos :
        \/ \E c \in Payloads :
             BeginDraft(p, m, c) \/ BeginUpdate(p, m, c) \/ Create(p, m, c) \/ ApiCreate(p, m, c)
        \/ \E f \in Frags : BeginToggle(p, m, f) \/ Append(p, m, f)
        \/ \E tags \in SUBSET Tags : BeginUpdateTags(p, m, tags)
        \/ BeginCommit(p, m) \/ BeginRevert(p, m) \/ Destroy(p, m)
  BY DEF Begin
<1>4. ASSUME NEW c \in Contents, Exists(m)
      PROVE  /\ Assigned(db[m], c) \in Rows
             /\ Assigned(db[m], c).title = c.title /\ Assigned(db[m], c).body = c.body
             /\ Assigned(db[m], c).upd = db[m].upd
             /\ Assigned(db[m], c).slug = SlugFor(db[m], c.title)
  <2>1. db[m] \in Rows
    BY <1>1, <1>4, ExistingRow
  <2>2. Assigned(db[m], c) \in Rows
    BY <1>4, <2>1, AssignedType
  <2> QED BY <2>1, <2>2 DEF Assigned, Rows
<1>5. ASSUME NEW c \in Payloads, BeginDraft(p, m, c)
      PROVE  LoadedOK(req[p])' /\ DraftOK(req[p])' /\ CommitOK(req[p])'
  <2>1. c \in Contents /\ Exists(m)
    BY <1>5, PayloadsAssumption DEF BeginDraft
  <2>2. Start(p, "draft", m, Assigned(db[m], c), "tags") /\ UNCHANGED <<db, clock>>
    BY <1>5 DEF BeginDraft
  <2>3. "draft" \notin Committing
    BY DEF Committing
  <2> QED BY <1>2, <1>4, <2>1, <2>2, <2>3
<1>6. ASSUME BeginCommit(p, m)
      PROVE  LoadedOK(req[p])' /\ DraftOK(req[p])' /\ CommitOK(req[p])'
  <2>1. /\ Exists(m) /\ Start(p, "commit", m, Assigned(db[m], Content(db[m])), "write")
        /\ UNCHANGED <<db, clock>> /\ Draft(db[m])
    BY <1>6 DEF BeginCommit
  <2>2. /\ Content(db[m]) \in Contents /\ Content(db[m]).title = db[m].title
        /\ Content(db[m]).body = db[m].body
    BY <1>1, <2>1, ExistingRow, ContentType DEF Content
  <2>3. SlugFor(db[m], db[m].title) = db[m].slug
    BY <2>1 DEF SlugFor, TextInv, RowOK
  <2> DEFINE mem == Assigned(db[m], Content(db[m]))
  <2>4. /\ mem \in Rows /\ mem.title = db[m].title /\ mem.body = db[m].body
        /\ mem.upd = db[m].upd /\ mem.slug = db[m].slug
    BY <1>4, <2>1, <2>2, <2>3
  <2>5. Start(p, "commit", m, mem, "write")
    BY <2>1
  <2> HIDE DEF mem
  <2> QED BY <1>2, <2>1, <2>4, <2>5
<1>7. ASSUME NEW f \in Frags, BeginToggle(p, m, f)
      PROVE  LoadedOK(req[p])' /\ DraftOK(req[p])' /\ CommitOK(req[p])'
  <2> DEFINE body == IF f \in db[m].body THEN db[m].body \ {f} ELSE db[m].body \cup {f}
             mem == [db[m] EXCEPT !.body = body]
  <2>1. Exists(m) /\ Start(p, "toggle", m, mem, "save") /\ UNCHANGED <<db, clock>>
    BY <1>7 DEF BeginToggle
  <2>2. db[m] \in Rows
    BY <1>1, <2>1, ExistingRow
  <2>3. body \in SUBSET Frags
    BY <2>2 DEF Rows
  <2> HIDE DEF body
  <2>4. mem \in Rows /\ mem.title = db[m].title /\ mem.slug = db[m].slug
    BY <2>2, <2>3 DEF Rows
  <2>5. "toggle" \notin Committing
    BY DEF Committing
  <2> HIDE DEF mem
  <2> QED BY <1>2, <2>1, <2>4, <2>5
<1>8. ASSUME NEW tags \in SUBSET Tags, BeginUpdateTags(p, m, tags)
      PROVE  LoadedOK(req[p])' /\ DraftOK(req[p])' /\ CommitOK(req[p])'
  <2> DEFINE mem == [db[m] EXCEPT !.tags = tags]
  <2>1. Exists(m) /\ Start(p, "updateTags", m, mem, "tags") /\ UNCHANGED <<db, clock>>
    BY <1>8 DEF BeginUpdateTags
  <2>2. db[m] \in Rows
    BY <1>1, <2>1, ExistingRow
  <2>3. mem \in Rows /\ mem.title = db[m].title /\ mem.slug = db[m].slug
    BY <2>2 DEF Rows
  <2>4. "updateTags" \notin Committing
    BY DEF Committing
  <2> HIDE DEF mem
  <2> QED BY <1>2, <2>1, <2>3, <2>4
<1>9. ASSUME NEW c \in Payloads, ApiCreate(p, m, c)
      PROVE  LoadedOK(req[p])' /\ DraftOK(req[p])' /\ CommitOK(req[p])'
  <2> DEFINE row == NewRow(c)
             r == req'[p]
  <2>1. row \in Rows /\ row.upd # 0 /\ row.upd = clock + 1 /\ row.fca = 0
    BY <1>1, PayloadsAssumption, StemOfAssumption DEF NewRow, Rows, Contents
  <2>2. db'[m] = row /\ clock' = clock + 1
    BY <1>1, <1>9 DEF ApiCreate, TypeOK
  <2>3. r = [pc |-> "write", op |-> "apiCreate", memo |-> m, ld |-> row, mem |-> row,
             at |-> StemOf[c.title]]
    BY <1>1, <1>9 DEF ApiCreate, TypeOK
  <2>4. /\ r.pc = "write" /\ r.op = "apiCreate" /\ r.memo = m /\ r.ld = row /\ r.mem = row
    BY <2>3
  <2>5. db'[m] # NotYet
    BY <2>1, <2>2, RowIsNotAbsent DEF Absent
  <2> HIDE DEF row
  <2>6. LoadedOK(req[p])'
    BY <1>1, <2>1, <2>2, <2>4, <2>5 DEF LoadedOK
  <2>7. DraftOK(req[p])' /\ CommitOK(req[p])'
    BY <2>1, <2>2, <2>4 DEF DraftOK, CommitOK, Draft, Fresh
  <2> QED BY <2>6, <2>7
<1>10. ~BeginRevert(p, m) /\ \A c \in Payloads : ~BeginUpdate(p, m, c)
  BY DEF CommitsBesideDrafts, BeginRevert, BeginUpdate, CanStart
<1>11. CASE UNCHANGED req
  BY <1>1, <1>11 DEF At
<1> QED BY <1>3, <1>5, <1>6, <1>7, <1>8, <1>9, <1>10, <1>11 DEF Create, Append, Destroy

\* The step of a request that is none of a commit keeps the request or ends it.
LEMMA OwnOtherStep ==
  ASSUME TextInv, CommitsBesideDrafts, NEW p \in Procs, LockingStep(p) \/ FreeStep(p),
         req[p].op \notin Committing
  PROVE  req'[p].pc = "idle" \/ (SameRequest(p) /\ ~Save(p))
<1> DEFINE r == req[p]
<1>0. NoReverts /\ TypeOK /\ HandlersKeepTheirSteps
  BY DraftsDoNotRevert DEF TextInv, Inv
<1>a. r.pc # "idle"
  BY DEF LockingStep, Relocate, Add, FreeStep, WriteTags, CheckOld, WriteFile, GitCommit, Save,
     StampCommitted, Touch, FindCommittedPath, ReadBlob, RestoreFile, RemoveOtherFiles,
     RestoreUpdatedAt, At
<1>1. r \in Requests
  BY <1>a, TextRequest
<1>2. CASE Save(p)
  <2>1. r.op \in {"draft", "update", "revert", "toggle"} /\ r.op \in OpsOf[p]
    BY <1>0, <1>2, <1>a, OpOfStep, TextRequest DEF Save, At, Committing
  <2>2. r.op \in {"draft", "toggle"}
    BY <2>1 DEF CommitsBesideDrafts
  <2>3. AfterSave(r.op) = "idle"
    BY <2>2 DEF AfterSave
  <2>4. req'[p] = Idle
    BY <1>0, <1>2, <2>3 DEF Save, TypeOK
  <2> QED BY <2>4 DEF Idle
<1>3. CASE ~Save(p)
  <2>1. Finish(p) \/ \E pc : Go(p, pc)
    BY <1>0, <1>3, NoRevertSteps DEF LockingStep, Relocate, Add, FreeStep, WriteTags, CheckOld,
       WriteFile, GitCommit, StampCommitted, Touch
  <2>2. CASE Finish(p)
    BY <1>0, <2>2, FinishPc
  <2>3. ASSUME NEW pc, Go(p, pc) PROVE SameRequest(p)
    BY <1>0, <1>1, <2>3, GoKeeps DEF SameRequest
  <2> QED BY <1>3, <2>1, <2>2, <2>3
<1> QED BY <1>2, <1>3

\* The requests keep what they know of their rows and of Git.
LEMMA TextRequestStep ==
  ASSUME TextInv, CommitsBesideDrafts, NEW p \in Procs, Step(p), NEW q \in Procs,
         req'[q].pc # "idle"
  PROVE  LoadedOK(req[q])' /\ DraftOK(req[q])' /\ CommitOK(req[q])'
<1>0. TypeOK
  BY DEF TextInv, Inv
<1>1. CASE q # p
  <2>1. req'[q] = req[q]
    BY <1>0, <1>1, OthersKept DEF Step
  <2> QED BY <1>1, <2>1, RequestKept, OtherCommitKept DEF SameRequest
<1>2. CASE q = p /\ Begin(p)
  BY <1>2, BeginTextRequest
<1>3. CASE q = p /\ Crash(p)
  BY <1>0, <1>3, FinishPc DEF Crash
<1>4. CASE q = p /\ (LockingStep(p) \/ FreeStep(p))
  <2>1. req[p].pc # "idle"
    BY <1>4 DEF LockingStep, Relocate, Add, FreeStep, WriteTags, CheckOld, WriteFile, GitCommit,
       Save, StampCommitted, Touch, FindCommittedPath, ReadBlob, RestoreFile, RemoveOtherFiles,
       RestoreUpdatedAt, At
  <2>2. CASE req[p].op \in Committing
    <3>1. SameRequest(p) /\ CommitOK(req[p])'
      BY <1>4, <2>2, OwnCommitStep
    <3>2. req[p].op # "draft"
      BY <2>2 DEF Committing
    <3> QED BY <1>4, <2>1, <3>1, <3>2, RequestKept
  <2>3. CASE req[p].op \notin Committing
    <3>1. SameRequest(p) /\ ~Save(p)
      BY <1>4, <2>3, OwnOtherStep
    <3>2. CommitOK(req[p])'
      BY <2>3, <3>1 DEF CommitOK, SameRequest
    <3> QED BY <1>4, <2>1, <3>1, <3>2, RequestKept
  <2> QED BY <2>2, <2>3
<1> QED BY <1>1, <1>2, <1>3, <1>4 DEF Step

-----------------------------------------------------------------------------
\* Commits beside drafts: what it shows

\* While one thread commits and one saves the drafts of a page, beside any that
\* create, mark, tag, append to and delete memos, a memo that is shown as no draft
\* has its title and body in HEAD: no stamp hides a save that came in between.
THEOREM CleanTextIsCommitted ==
  ASSUME CommitsBesideDrafts PROVE Spec => []CleanTextMatchesHead
<1>1. Init => TextInv
  <2> SUFFICES ASSUME Init PROVE TextInv
    OBVIOUS
  <2>1. \A m \in Memos : ~Exists(m)
    BY DEF Init, Exists, Absent
  <2>2. \A p \in Procs : req[p].pc = "idle"
    BY DEF Init, Idle
  <2> QED BY <2>1, <2>2, HeadInvInit DEF TextInv, RowOK, CleanOK
<1>2. TextInv /\ [Next]_vars => TextInv'
  <2> SUFFICES ASSUME TextInv, [Next]_vars PROVE TextInv'
    OBVIOUS
  <2>1. Inv'
    BY HeadInvStep, DraftsDoNotRevert DEF TextInv
  <2>2. CASE Next
    <3>1. PICK p \in Procs : Step(p)
      BY <2>2 DEF Next, Step
    <3> QED BY <2>1, <3>1, RowOKStep, CleanStep, TextRequestStep DEF TextInv
  <2>3. CASE UNCHANGED vars
    <3>1. UNCHANGED <<db, tree, index, head, clock, req>>
      BY <2>3 DEF vars, git
    <3>2. \A m \in Memos : RowOK(m)' /\ CleanOK(m)'
      BY <3>1 DEF TextInv, RowOK, CleanOK, Exists, Holds, Moving
    <3>3. \A p \in Procs : req'[p].pc # "idle" => LoadedOK(req[p])' /\ DraftOK(req[p])'
      BY <3>1 DEF TextInv, LoadedOK, DraftOK, Exists
    <3>4. \A p \in Procs : req'[p].pc # "idle" => CommitOK(req[p])'
      BY <3>1 DEF TextInv, CommitOK, Exists, Holds, Moving, Fresh
    <3> QED BY <2>1, <3>2, <3>3, <3>4 DEF TextInv
  <2> QED BY <2>2, <2>3
<1>3. TextInv => CleanTextMatchesHead
  <2> SUFFICES ASSUME TextInv, NEW m \in Memos, Clean(m)
               PROVE  Holds(head, m, db[m])
    BY DEF CleanTextMatchesHead, Holds
  <2>1. Exists(m) /\ ~Draft(db[m]) /\ ~Moving(m)
    BY DEF Clean, Quiet, Moving, At
  <2> QED BY <2>1 DEF TextInv, CleanOK
<1> QED BY <1>1, <1>2, <1>3, PTL DEF Spec
=============================================================================
