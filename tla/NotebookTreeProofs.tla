------------------------- MODULE NotebookTreeProofs -------------------------
(* Proofs about NotebookTree, for any entries, pages, moves and bounds.     *)
EXTENDS NotebookTree, FiniteSetTheorems, TLAPS

-----------------------------------------------------------------------------
\* The invariant

Rows == [parent : Ids \cup {Root}, pos : Nat]
Trees == [Ids -> Rows \cup {Out, Gone}]
Writes == [Ids -> Rows \cup {Out}]
Moves == [at : Steps \cup {"unsent", "sent", "answer", "over"}, tab : Tabs \cup {0}, entry : Ids \cup {0},
          parent : Ids \cup {Root}, pos : Nat, old : Rows \cup {Out}, up : Ids \cup {Root},
          seen : SUBSET Ids, plan : [Ids -> Nat \cup {Nil}], met : BOOLEAN, still : BOOLEAN, page : Trees]

Types ==
  /\ row \in Trees /\ view \in [Tabs -> Trees] /\ drag \in [Tabs -> Ids \cup {0}]
  /\ call \in [Calls -> Moves] /\ wrote \in [Calls -> Writes]
  /\ add \in Rows \cup {Out} /\ crossed \subseteq Ids

\* The steps of a transaction that has come to its UPDATE.
Written == {"list", "number", "numberOld"}

\* What a move has loaded has been there.
StepOK(r, m) ==
  m.at \in Steps =>
    /\ m.entry \in Ids /\ r[m.entry] # Out /\ m.old \in Rows
    /\ m.parent # Root /\ m.at # "find" => m.parent # m.entry /\ r[m.parent] # Out

WalkOK(r, m) ==
  /\ m.at \notin {"walk", "check"} => m.seen = {}
  /\ m.at \in {"walk", "check"} => m.parent # Root /\ (m.up # Root => r[m.up] # Out)

\* Entries whose parents are among them, or among the ends.
Leads(r, chain, ends) ==
  \A x \in chain : r[x] # Out /\ (x \in Entries(r) => r[x].parent \in chain \cup ends)

\* Unless another move has committed since, the ancestors of the new parent that the
\* validation has come by are still above it, and the entry is not among them.
ChainOK(r, m) ==
  ~m.met /\ m.parent \in Entries(r) =>
    /\ m.at = "check" => m.entry \notin m.seen /\ Leads(r, m.seen \cup {m.parent}, {Root, m.up})
    /\ m.at \in Written \cup {"write"} =>
         \E chain \in SUBSET Ids : m.parent \in chain /\ m.entry \notin chain /\ Leads(r, chain, {Root})

\* A row that has been written stays where it is until its transaction is over,
\* and a move has written its entry, with the new parent.
LockOK(r, m, w) ==
  /\ \A e \in Ids : w[e] # Out =>
       /\ m.at \in Written /\ r[e] \in Rows /\ w[e].parent \in Entries(r) \cup {Root}
       /\ w[e].parent = IF e = m.entry /\ m.parent # m.old.parent THEN m.parent ELSE r[e].parent
  /\ m.at \in Written /\ m.parent # m.old.parent /\ m.entry \in Entries(r) => w[m.entry] # Out

\* What a transaction reads.
Reading(r, w) == [e \in Ids |-> IF w[e] = Out THEN r[e] ELSE w[e]]

Dense(r, p) == {r[e].pos : e \in Children(r, p)} = 0 .. Cardinality(Children(r, p)) - 1

\* The numbers the children of p have when the plan has been carried out.
PlanOK(r, plan, p) ==
  /\ \A e \in Ids : plan[e] # Nil => e \in Children(r, p)
  /\ {IF plan[e] = Nil THEN r[e].pos ELSE plan[e] : e \in Children(r, p)} = 0 .. Cardinality(Children(r, p)) - 1

NumberOK(r, m, w) ==
  m.still =>
    /\ m.at = "number" => PlanOK(Reading(r, w), m.plan, m.parent)
    /\ m.at = "numberOld" =>
         /\ m.parent # m.old.parent /\ Dense(Reading(r, w), m.parent)
         /\ PlanOK(Reading(r, w), m.plan, m.old.parent)

CallOK(r, m, w) ==
  /\ StepOK(r, m) /\ WalkOK(r, m) /\ ChainOK(r, m)
  /\ LockOK(r, m, w) /\ NumberOK(r, m, w)

Locks == \A c, d \in Calls : c # d => \A e \in Ids : wrote[c][e] = Out \/ wrote[d][e] = Out

\* EntriesAreForest, of any rows.
Forest(r, x) ==
  /\ \A e \in Entries(r) : r[e].parent \in Entries(r) \cup {Root}
  /\ \A circle \in Circles(r) : circle \cap x # {}

TreeInv ==
  /\ Types /\ Locks /\ Forest(row, crossed)
  /\ \A c \in Calls : CallOK(row, call[c], wrote[c])

-----------------------------------------------------------------------------
\* Rows, entries and their children

LEMMA MarkersDiffer ==
  ASSUME NotebookAssumption
  PROVE  /\ Root \notin Ids /\ Nil \notin Ids \cup {Root} /\ Nil \notin Nat
         /\ Out.parent = Nil /\ Gone.parent = Nil
         /\ Out \notin Rows /\ Gone \notin Rows /\ Gone # Out
<1>1. Nil = 0 - 1 /\ Root = 0
  BY DEF Nil, Root
<1>2. Root \notin Ids /\ Nil \notin Ids \cup {Root} /\ Nil \notin Nat
  BY <1>1 DEF NotebookAssumption
<1>3. Out.parent = Nil /\ Gone.parent = Nil /\ Gone # Out
  BY DEF Out, Gone
<1>4. Out \notin Rows /\ Gone \notin Rows
  BY <1>2, <1>3 DEF Rows
<1> QED BY <1>2, <1>3, <1>4

LEMMA EntryRows ==
  ASSUME NotebookAssumption, NEW r \in Trees, NEW e \in Ids
  PROVE  /\ e \in Entries(r) <=> r[e] \in Rows
         /\ e \notin Entries(r) <=> r[e] \in {Out, Gone}
<1>1. r[e] \in Rows \cup {Out, Gone}
  BY DEF Trees
<1> QED BY <1>1, MarkersDiffer DEF Entries, Rows

LEMMA ChildRows ==
  ASSUME NotebookAssumption, NEW r \in Trees, NEW p
  PROVE  /\ Children(r, p) \subseteq Ids /\ IsFiniteSet(Children(r, p))
         /\ Cardinality(Children(r, p)) \in Nat
         /\ \A c \in Children(r, p) : c \in Nat /\ r[c] \in Rows /\ r[c].pos \in Nat /\ r[c].parent = p
<1>1. Children(r, p) \subseteq Ids
  BY DEF Children, Entries
<1>2. IsFiniteSet(Children(r, p)) /\ Cardinality(Children(r, p)) \in Nat
  BY <1>1, FS_Subset, FS_CardinalityType DEF NotebookAssumption
<1>3. ASSUME NEW c \in Children(r, p)
      PROVE  c \in Nat /\ r[c] \in Rows /\ r[c].pos \in Nat /\ r[c].parent = p
  <2>1. c \in Ids /\ c \in Entries(r) /\ r[c].parent = p
    BY <1>1 DEF Children
  <2>2. r[c] \in Rows
    BY <2>1, EntryRows
  <2> QED BY <2>1, <2>2 DEF Rows, NotebookAssumption
<1> QED BY <1>1, <1>2, <1>3

-----------------------------------------------------------------------------
\* Ranks among the children of one parent

LEMMA BeforeOrders ==
  ASSUME NotebookAssumption, NEW r \in Trees, NEW p, NEW c \in Children(r, p), NEW d \in Children(r, p)
  PROVE  /\ ~Before(r, c, c)
         /\ c # d => Before(r, c, d) \/ Before(r, d, c)
         /\ \A e \in Children(r, p) : Before(r, e, c) /\ Before(r, c, d) => Before(r, e, d)
<1>1. \A e \in Children(r, p) : e \in Nat /\ r[e].pos \in Nat
  BY ChildRows
<1> QED BY <1>1 DEF Before

LEMMA RankFollows ==
  ASSUME NotebookAssumption, NEW r \in Trees, NEW p, NEW c \in Children(r, p)
  PROVE  /\ Rank(r, p, c) \in Nat /\ Rank(r, p, c) < Cardinality(Children(r, p))
         /\ \A d \in Children(r, p) : Before(r, c, d) => Rank(r, p, c) < Rank(r, p, d)
<1> DEFINE S == Children(r, p)
           Ahead(e) == {x \in S : Before(r, x, e)}
<1>1. IsFiniteSet(S) /\ Cardinality(S) \in Nat
  BY ChildRows
<1>2. \A e : IsFiniteSet(Ahead(e)) /\ Cardinality(Ahead(e)) \in Nat /\ Rank(r, p, e) = Cardinality(Ahead(e))
  BY <1>1, FS_Subset, FS_CardinalityType DEF Rank
<1>3. Ahead(c) \subseteq S \ {c}
  BY BeforeOrders
<1>4. Cardinality(Ahead(c)) < Cardinality(S)
  <2>1. IsFiniteSet(S \ {c}) /\ Cardinality(S \ {c}) = Cardinality(S) - 1
    BY <1>1, FS_RemoveElement
  <2>2. Cardinality(Ahead(c)) <= Cardinality(S \ {c})
    BY <1>3, <2>1, FS_Subset
  <2> QED BY <1>1, <1>2, <2>1, <2>2
<1>5. ASSUME NEW d \in S, Before(r, c, d) PROVE Cardinality(Ahead(c)) < Cardinality(Ahead(d))
  <2>1. \A e \in S : Before(r, e, c) => Before(r, e, d)
    BY <1>5, BeforeOrders
  <2>2. Ahead(c) \subseteq Ahead(d) /\ c \in Ahead(d) /\ c \notin Ahead(c)
    BY <1>3, <1>5, <2>1
  <2>3. Cardinality(Ahead(c)) <= Cardinality(Ahead(d)) /\ Cardinality(Ahead(c)) # Cardinality(Ahead(d))
    BY <1>2, <2>2, FS_Subset
  <2> QED BY <1>2, <2>3
<1> QED BY <1>2, <1>4, <1>5

\* The ranks of the children are the numbers from 0 on.
LEMMA RanksAreNumbers ==
  ASSUME NotebookAssumption, NEW r \in Trees, NEW p
  PROVE  {Rank(r, p, c) : c \in Children(r, p)} = 0 .. Cardinality(Children(r, p)) - 1
<1> DEFINE S == Children(r, p)
           T == 0 .. Cardinality(S) - 1
           f == [c \in S |-> Rank(r, p, c)]
<1>1. IsFiniteSet(S) /\ Cardinality(S) \in Nat
  BY ChildRows
<1>2. \A c \in S : Rank(r, p, c) \in T
  BY <1>1, RankFollows
<1>3. ASSUME NEW c \in S, NEW d \in S, c # d PROVE Rank(r, p, c) # Rank(r, p, d)
  <2>1. Before(r, c, d) \/ Before(r, d, c)
    BY <1>3, BeforeOrders
  <2>2. Rank(r, p, c) < Rank(r, p, d) \/ Rank(r, p, d) < Rank(r, p, c)
    BY <2>1, RankFollows
  <2>3. Rank(r, p, c) \in Nat /\ Rank(r, p, d) \in Nat
    BY RankFollows
  <2> QED BY <2>2, <2>3
<1>4. f \in Injection(S, T)
  BY <1>2, <1>3 DEF Injection, IsInjective
<1>5. IsFiniteSet(T) /\ Cardinality(T) = Cardinality(S)
  BY <1>1, FS_Interval
<1>6. f \in Surjection(S, T)
  BY <1>4, <1>5, <1>1, FS_Injection
<1>7. \A i \in T : \E c \in S : Rank(r, p, c) = i
  BY <1>6 DEF Surjection
<1> QED BY <1>2, <1>7

-----------------------------------------------------------------------------
\* Numbering

\* The numbers that are written together with those that are right already are
\* the numbers from 0 on.
LEMMA Numbered ==
  ASSUME NotebookAssumption, NEW r \in Trees, NEW p
  PROVE  Numbering(r, p) \in [Ids -> Nat \cup {Nil}] /\ PlanOK(r, Numbering(r, p), p)
<1> DEFINE plan == Numbering(r, p)
           S == Children(r, p)
           number(e) == IF plan[e] = Nil THEN r[e].pos ELSE plan[e]
<1>1. \A e \in Ids : plan[e] = IF e \in S /\ r[e].pos # Rank(r, p, e) THEN Rank(r, p, e) ELSE Nil
  BY DEF Numbering
<1>2. \A e \in S : e \in Ids /\ Rank(r, p, e) \in Nat /\ Rank(r, p, e) # Nil
  BY ChildRows, RankFollows, MarkersDiffer
<1>3. plan = [e \in Ids |-> plan[e]]
  BY DEF Numbering
<1> HIDE DEF plan, S
<1>4. \A e \in S : number(e) = Rank(r, p, e)
  BY <1>1, <1>2
<1>5. plan \in [Ids -> Nat \cup {Nil}]
  <2>1. \A e \in Ids : plan[e] \in Nat \cup {Nil}
    BY <1>1, <1>2
  <2> QED BY <1>3, <2>1
<1>6. \A e \in Ids : plan[e] # Nil => e \in S
  BY <1>1
<1>7. {number(e) : e \in S} = {Rank(r, p, e) : e \in S}
  BY <1>4
<1>8. {number(e) : e \in S} = 0 .. Cardinality(S) - 1
  BY <1>7, RanksAreNumbers DEF S
<1> QED BY <1>5, <1>6, <1>8 DEF PlanOK, plan, S

\* When the plan has been carried out, the children are numbered.
LEMMA PlanDone ==
  ASSUME NEW r, NEW p, PlanOK(r, Unplanned, p)
  PROVE  Dense(r, p)
<1>1. \A e \in Children(r, p) : Unplanned[e] = Nil
  BY DEF Unplanned, Children, Entries
<1>2. {IF Unplanned[e] = Nil THEN r[e].pos ELSE Unplanned[e] : e \in Children(r, p)}
        = {r[e].pos : e \in Children(r, p)}
  BY <1>1
<1> QED BY <1>2 DEF PlanOK, Dense

\* One number of a plan is written.
LEMMA NumberWritten ==
  ASSUME NotebookAssumption, NEW r \in Trees, NEW q \in Trees, NEW plan \in [Ids -> Nat \cup {Nil}], NEW e \in Ids,
         plan[e] # Nil, r[e] \in Rows, q = [r EXCEPT ![e].pos = plan[e]]
  PROVE  /\ \A p : Children(q, p) = Children(r, p)
         /\ \A p : PlanOK(r, plan, p) => PlanOK(q, [plan EXCEPT ![e] = Nil], p)
         /\ \A p : Dense(r, p) /\ e \notin Children(r, p) => Dense(q, p)
<1> DEFINE left == [plan EXCEPT ![e] = Nil]
<1>1. /\ \A x \in Ids \ {e} : q[x] = r[x] /\ left[x] = plan[x]
      /\ q[e].pos = plan[e] /\ q[e].parent = r[e].parent /\ left[e] = Nil
  BY DEF Trees, Rows
<1>2. \A x \in Ids : q[x].parent = r[x].parent
  BY <1>1
<1>3. ASSUME NEW p PROVE Children(q, p) = Children(r, p)
  BY <1>2 DEF Children, Entries
<1> HIDE DEF left
<1>4. ASSUME NEW p, PlanOK(r, plan, p) PROVE PlanOK(q, left, p)
  <2> DEFINE S == Children(r, p)
             before(x) == IF plan[x] = Nil THEN r[x].pos ELSE plan[x]
             after(x) == IF left[x] = Nil THEN q[x].pos ELSE left[x]
  <2>1. S \subseteq Ids
    BY DEF Children, Entries
  <2>2. \A x \in S : before(x) = after(x)
    BY <1>1, <2>1
  <2>3. {before(x) : x \in S} = {after(x) : x \in S}
    BY <2>2
  <2>4. \A x \in Ids : left[x] # Nil => x \in S
    BY <1>1, <1>4 DEF PlanOK
  <2> QED BY <1>3, <1>4, <2>3, <2>4 DEF PlanOK
<1>5. ASSUME NEW p, Dense(r, p), e \notin Children(r, p) PROVE Dense(q, p)
  <2>1. \A x \in Children(r, p) : q[x] = r[x]
    BY <1>1, <1>5 DEF Children, Entries
  <2>2. {q[x].pos : x \in Children(r, p)} = {r[x].pos : x \in Children(r, p)}
    BY <2>1
  <2> QED BY <1>3, <1>5, <2>2 DEF Dense
<1> QED BY <1>3, <1>4, <1>5 DEF left

-----------------------------------------------------------------------------
\* The steps of one move

LEMMA InvFacts ==
  ASSUME NotebookAssumption, TreeInv, NEW c \in Calls
  PROVE  /\ row \in Trees /\ call[c] \in Moves /\ wrote[c] \in Writes
         /\ CallOK(row, call[c], wrote[c])
         /\ \A e \in Entries(row) : e \in Ids /\ row[e] \in Rows /\ row[e].parent \in Entries(row) \cup {Root}
         /\ \A e \in Entries(row) : row[e] # Out
         /\ Reads(c) = Reading(row, wrote[c])
<1>1. row \in Trees /\ call[c] \in Moves /\ wrote[c] \in Writes /\ CallOK(row, call[c], wrote[c])
  BY DEF TreeInv, Types
<1>2. \A e \in Entries(row) : e \in Ids
  BY DEF Entries
<1>3. \A e \in Entries(row) : row[e] \in Rows /\ row[e] # Out
  BY <1>1, <1>2, EntryRows, MarkersDiffer
<1>4. \A e \in Entries(row) : row[e].parent \in Entries(row) \cup {Root}
  BY DEF TreeInv, Forest
<1> QED BY <1>1, <1>2, <1>3, <1>4 DEF Reads, Reading

LEMMA WritesGoOn ==
  ASSUME TreeInv, NEW c \in Calls, NEW n \in Moves, NEW w \in Writes,
         call' = [call EXCEPT ![c] = n], wrote' = [wrote EXCEPT ![c] = w], UNCHANGED others,
         CallOK(row, n, w),
         \A e \in Ids : w[e] # Out => wrote[c][e] # Out \/ ~Held(c, e)
  PROVE  TreeInv'
<1>1. /\ row' = row /\ crossed' = crossed
      /\ \A d \in Calls : /\ call'[d] = IF d = c THEN n ELSE call[d]
                          /\ wrote'[d] = IF d = c THEN w ELSE wrote[d]
  BY DEF TreeInv, Types, others
<1>2. Types'
  BY DEF TreeInv, Types, others
<1>3. \A d \in Calls : CallOK(row', call'[d], wrote'[d])
  BY <1>1 DEF TreeInv
<1>4. \A d \in Calls \ {c}, e \in Ids : w[e] = Out \/ wrote[d][e] = Out
  BY DEF TreeInv, Locks, Held
<1>5. Locks'
  BY <1>1, <1>4 DEF TreeInv, Locks
<1>6. Forest(row', crossed')
  BY <1>1 DEF TreeInv
<1> QED BY <1>2, <1>3, <1>5, <1>6 DEF TreeInv

LEMMA MoveGoesOn ==
  ASSUME TreeInv, NEW c \in Calls, NEW n \in Moves, CallOK(row, n, wrote[c]),
         call' = [call EXCEPT ![c] = n], wrote' = wrote, UNCHANGED others
  PROVE  TreeInv'
<1>1. wrote[c] \in Writes /\ wrote' = [wrote EXCEPT ![c] = wrote[c]]
  BY DEF TreeInv, Types
<1> QED BY <1>1, WritesGoOn

\* A move that is not in its transaction has nothing to keep.
LEMMA Idle ==
  ASSUME NotebookAssumption, NEW r, NEW n \in Moves, n.at \notin Steps, n.seen = {}
  PROVE  Unwritten \in Writes /\ CallOK(r, n, Unwritten)
<1>1. Unwritten \in Writes /\ \A e \in Ids : Unwritten[e] = Out
  BY DEF Unwritten, Writes
<1>2. n.at \notin {"walk", "check", "write"} \cup Written
  BY DEF Steps, Written
<1>3. StepOK(r, n) /\ WalkOK(r, n) /\ ChainOK(r, n)
  BY <1>2 DEF StepOK, WalkOK, ChainOK
<1>4. LockOK(r, n, Unwritten) /\ NumberOK(r, n, Unwritten)
  BY <1>1, <1>2 DEF LockOK, NumberOK, Written
<1> QED BY <1>1, <1>3, <1>4 DEF CallOK

LEMMA NoCalls ==
  ASSUME NotebookAssumption
  PROVE  /\ NoCall \in Moves /\ NoCall.at = "unsent" /\ NoCall.seen = {}
         /\ Over \in Moves /\ Over.at = "over" /\ Over.seen = {}
<1>1. Unwritten \in Trees /\ Unplanned \in [Ids -> Nat \cup {Nil}]
  BY DEF Unwritten, Unplanned, Trees
<1>2. NoCall \in Moves /\ NoCall.at = "unsent" /\ NoCall.seen = {}
  BY <1>1 DEF NoCall, Moves, Root
<1> QED BY <1>2 DEF Over, Moves

LEMMA FailsStep ==
  ASSUME NotebookAssumption, TreeInv, NEW c \in Calls, Fails(c)
  PROVE  TreeInv'
<1>1. Over \in Moves /\ Unwritten \in Writes /\ CallOK(row, Over, Unwritten)
  BY NoCalls, Idle DEF Steps
<1>2. \A e \in Ids : Unwritten[e] = Out
  BY DEF Unwritten
<1> QED BY <1>1, <1>2, WritesGoOn DEF Fails

LEMMA LoadStep ==
  ASSUME NotebookAssumption, TreeInv, NEW c \in Calls, Load(c)
  PROVE  TreeInv'
<1> DEFINE m == call[c]
           n == [m EXCEPT !.at = IF m.parent = Root THEN "site" ELSE "find", !.old = row[m.entry]]
<1>1. CASE m.entry \notin Entries(row)
  BY <1>1, FailsStep DEF Load
<1>2. CASE m.entry \in Entries(row)
  <2>1. /\ m.at = "sent" /\ call' = [call EXCEPT ![c] = n]
        /\ wrote' = wrote /\ UNCHANGED others
    BY <1>2 DEF Load
  <2>2. /\ m \in Moves /\ m.entry \in Ids /\ row[m.entry] \in Rows /\ row[m.entry] # Out
        /\ CallOK(row, m, wrote[c])
    BY <1>2, InvFacts
  <2>3. /\ n \in Moves /\ n.at = (IF m.parent = Root THEN "site" ELSE "find") /\ n.entry = m.entry
        /\ n.parent = m.parent /\ n.old \in Rows /\ n.seen = m.seen
    BY <2>2 DEF Moves, Steps
  <2> HIDE DEF n
  <2>4. n.at \notin {"walk", "check", "write"} \cup Written /\ m.at \notin {"walk", "check", "write"} \cup Written
    BY <2>1, <2>3 DEF Written
  <2>5. StepOK(row, n)
    BY <2>2, <2>3 DEF StepOK
  <2>6. WalkOK(row, n) /\ ChainOK(row, n)
    BY <2>2, <2>3, <2>4 DEF CallOK, WalkOK, ChainOK
  <2>7. LockOK(row, n, wrote[c]) /\ NumberOK(row, n, wrote[c])
    BY <2>2, <2>4 DEF CallOK, LockOK, NumberOK, Written
  <2> QED BY <2>1, <2>3, <2>5, <2>6, <2>7, MoveGoesOn DEF CallOK, n
<1> QED BY <1>1, <1>2

LEMMA FindStep ==
  ASSUME NotebookAssumption, TreeInv, NEW c \in Calls, Find(c)
  PROVE  TreeInv'
<1> DEFINE m == call[c]
           n == [m EXCEPT !.at = "walk", !.up = row[m.parent].parent]
<1>1. CASE m.parent \notin Entries(row) \ {m.entry}
  BY <1>1, FailsStep DEF Find
<1>2. CASE m.parent \in Entries(row) \ {m.entry}
  <2>1. /\ m.at = "find" /\ call' = [call EXCEPT ![c] = n]
        /\ wrote' = wrote /\ UNCHANGED others
    BY <1>2 DEF Find
  <2>2. /\ m \in Moves /\ CallOK(row, m, wrote[c])
        /\ m.parent \in Ids /\ m.parent # m.entry /\ row[m.parent] # Out
        /\ row[m.parent].parent \in Entries(row) \cup {Root} /\ Entries(row) \subseteq Ids
        /\ \A e \in Entries(row) : row[e] # Out
    BY <1>2, InvFacts
  <2>3. /\ n \in Moves /\ n.at = "walk" /\ n.entry = m.entry /\ n.parent = m.parent /\ n.old = m.old
        /\ n.up = row[m.parent].parent
    BY <2>2 DEF Moves, Steps
  <2> HIDE DEF n
  <2>4. StepOK(row, n)
    BY <2>1, <2>2, <2>3 DEF CallOK, StepOK, Steps
  <2>5. WalkOK(row, n) /\ ChainOK(row, n)
    BY <2>2, <2>3, MarkersDiffer DEF WalkOK, ChainOK, Written
  <2>6. LockOK(row, n, wrote[c]) /\ NumberOK(row, n, wrote[c])
    BY <2>1, <2>2, <2>3 DEF CallOK, LockOK, NumberOK, Written
  <2> QED BY <2>1, <2>3, <2>4, <2>5, <2>6, MoveGoesOn DEF CallOK, n
<1> QED BY <1>1, <1>2

LEMMA WalkStep ==
  ASSUME NotebookAssumption, TreeInv, NEW c \in Calls, Walk(c)
  PROVE  TreeInv'
<1> DEFINE m == call[c]
           up == m.up
           done == up = Root \/ up \in m.seen
           ended == [m EXCEPT !.at = IF m.at = "walk" THEN "site" ELSE "write", !.up = Root, !.seen = {}]
           further == [m EXCEPT !.seen = m.seen \cup {up},
                                !.up = IF up \in Entries(row) THEN row[up].parent ELSE Root]
<1>1. CASE up = m.entry
  BY <1>1, FailsStep DEF Walk
<1>2. /\ m \in Moves /\ CallOK(row, m, wrote[c]) /\ m.at \in {"walk", "check"}
      /\ m.at \in Steps /\ m.parent \in Ids /\ m.parent # Root /\ m.parent # m.entry /\ row[m.parent] # Out
      /\ row \in Trees /\ Entries(row) \subseteq Ids
      /\ \A e \in Entries(row) : row[e] # Out /\ row[e].parent \in Entries(row) \cup {Root}
  <2>1. m \in Moves /\ CallOK(row, m, wrote[c]) /\ m.at \in {"walk", "check"} /\ row \in Trees
    BY InvFacts DEF Walk
  <2>2. m.at \in Steps /\ m.parent # Root
    BY <2>1 DEF CallOK, WalkOK, Steps
  <2>3. m.parent \in Ids /\ m.parent # m.entry /\ row[m.parent] # Out
    BY <2>1, <2>2 DEF Moves, CallOK, StepOK
  <2> QED BY <2>1, <2>2, <2>3, InvFacts
<1>3. ASSUME up # m.entry, done PROVE TreeInv'
  <2>1. call' = [call EXCEPT ![c] = ended] /\ wrote' = wrote /\ UNCHANGED others
    BY <1>3 DEF Walk
  <2>2. /\ ended \in Moves /\ ended.at = (IF m.at = "walk" THEN "site" ELSE "write") /\ ended.seen = {}
        /\ ended.entry = m.entry /\ ended.parent = m.parent /\ ended.old = m.old /\ ended.met = m.met
    BY <1>2 DEF Moves, Steps
  <2> HIDE DEF ended
  <2>3. StepOK(row, ended) /\ WalkOK(row, ended)
    BY <1>2, <2>2 DEF CallOK, StepOK, WalkOK
  <2>4. ChainOK(row, ended)
    <3> SUFFICES ASSUME ~m.met, m.parent \in Entries(row), m.at = "check"
                 PROVE  \E chain \in SUBSET Ids :
                          m.parent \in chain /\ m.entry \notin chain /\ Leads(row, chain, {Root})
      BY <1>2, <2>2 DEF ChainOK, Written
    <3>1. m.entry \notin m.seen /\ Leads(row, m.seen \cup {m.parent}, {Root, up})
      BY <1>2 DEF CallOK, ChainOK
    <3>2. Leads(row, m.seen \cup {m.parent}, {Root})
      BY <1>3, <3>1 DEF Leads
    <3>3. m.seen \cup {m.parent} \in SUBSET Ids
      BY <1>2 DEF Moves
    <3> QED BY <1>2, <3>1, <3>2, <3>3
  <2>5. LockOK(row, ended, wrote[c]) /\ NumberOK(row, ended, wrote[c])
    BY <1>2, <2>2 DEF CallOK, LockOK, NumberOK, Written
  <2> QED BY <2>1, <2>2, <2>3, <2>4, <2>5, MoveGoesOn DEF CallOK
<1>4. ASSUME up # m.entry, ~done PROVE TreeInv'
  <2>1. call' = [call EXCEPT ![c] = further] /\ wrote' = wrote /\ UNCHANGED others
    BY <1>4 DEF Walk
  <2>2. up \in Ids /\ row[up] # Out
    BY <1>2, <1>4 DEF Moves, CallOK, WalkOK
  <2>3. /\ further \in Moves /\ further.at = m.at /\ further.seen = m.seen \cup {up}
        /\ further.entry = m.entry /\ further.parent = m.parent /\ further.old = m.old
        /\ further.met = m.met
        /\ further.up = IF up \in Entries(row) THEN row[up].parent ELSE Root
    BY <1>2, <2>2 DEF Moves
  <2> HIDE DEF further
  <2>4. StepOK(row, further)
    BY <1>2, <2>3 DEF CallOK, StepOK
  <2>5. WalkOK(row, further)
    BY <1>2, <2>3 DEF WalkOK
  <2>6. ChainOK(row, further)
    <3> SUFFICES ASSUME ~m.met, m.parent \in Entries(row), m.at = "check"
                 PROVE  /\ m.entry \notin m.seen \cup {up}
                        /\ Leads(row, m.seen \cup {up} \cup {m.parent}, {Root, further.up})
      BY <1>2, <2>3 DEF ChainOK, Written
    <3>1. m.entry \notin m.seen /\ Leads(row, m.seen \cup {m.parent}, {Root, up})
      BY <1>2 DEF CallOK, ChainOK
    <3>2. Leads(row, m.seen \cup {up} \cup {m.parent}, {Root, further.up})
      BY <2>2, <2>3, <3>1 DEF Leads
    <3> QED BY <1>4, <3>1, <3>2
  <2>7. LockOK(row, further, wrote[c]) /\ NumberOK(row, further, wrote[c])
    BY <1>2, <2>3 DEF CallOK, LockOK, NumberOK, Written
  <2> QED BY <2>1, <2>3, <2>4, <2>5, <2>6, <2>7, MoveGoesOn DEF CallOK
<1> QED BY <1>1, <1>3, <1>4

LEMMA SiteStep ==
  ASSUME NotebookAssumption, TreeInv, NEW c \in Calls, Site(c)
  PROVE  TreeInv'
<1> DEFINE m == call[c]
           count == Cardinality(Children(row, m.parent) \ {m.entry})
           n == [m EXCEPT !.at = "validate", !.pos = IF m.pos > count THEN count ELSE m.pos]
<1>1. m.at = "site" /\ call' = [call EXCEPT ![c] = n] /\ wrote' = wrote /\ UNCHANGED others
  BY DEF Site
<1>2. m \in Moves /\ CallOK(row, m, wrote[c]) /\ row \in Trees
  BY InvFacts
<1>3. count \in Nat
  BY <1>2, ChildRows, FS_Subset, FS_CardinalityType
<1> HIDE DEF count
<1>4. /\ n \in Moves /\ n.at = "validate" /\ n.entry = m.entry /\ n.parent = m.parent /\ n.old = m.old
      /\ n.seen = m.seen
  BY <1>2, <1>3 DEF Moves, Steps
<1> HIDE DEF n
<1>5. StepOK(row, n) /\ WalkOK(row, n) /\ ChainOK(row, n)
  BY <1>1, <1>2, <1>4 DEF CallOK, StepOK, WalkOK, ChainOK, Steps, Written
<1>6. LockOK(row, n, wrote[c]) /\ NumberOK(row, n, wrote[c])
  BY <1>1, <1>2, <1>4 DEF CallOK, LockOK, NumberOK, Written
<1> QED BY <1>1, <1>4, <1>5, <1>6, MoveGoesOn DEF CallOK

LEMMA ValidateStep ==
  ASSUME NotebookAssumption, TreeInv, NEW c \in Calls, Validate(c)
  PROVE  TreeInv'
<1> DEFINE m == call[c]
           n == IF m.parent \notin Entries(row) THEN [m EXCEPT !.at = "write"]
                ELSE [m EXCEPT !.at = "check", !.up = row[m.parent].parent]
<1>1. m.at = "validate" /\ call' = [call EXCEPT ![c] = n] /\ wrote' = wrote /\ UNCHANGED others
  BY DEF Validate
<1>2. /\ m \in Moves /\ CallOK(row, m, wrote[c]) /\ row \in Trees /\ Entries(row) \subseteq Ids
      /\ \A e \in Entries(row) : row[e] # Out /\ row[e].parent \in Entries(row) \cup {Root}
      /\ m.seen = {}
  BY <1>1, InvFacts DEF CallOK, WalkOK
<1>3. /\ n \in Moves /\ n.entry = m.entry /\ n.parent = m.parent /\ n.old = m.old /\ n.seen = {}
      /\ n.at = IF m.parent \in Entries(row) THEN "check" ELSE "write"
      /\ m.parent \in Entries(row) => n.up = row[m.parent].parent
  BY <1>2 DEF Moves, Steps
<1> HIDE DEF n
<1>4. StepOK(row, n)
  BY <1>1, <1>2, <1>3 DEF CallOK, StepOK, Steps
<1>5. WalkOK(row, n)
  BY <1>2, <1>3, MarkersDiffer DEF WalkOK
<1>6. ChainOK(row, n)
  <2>1. m.parent \in Entries(row) => Leads(row, {m.parent}, {Root, row[m.parent].parent})
    BY <1>2 DEF Leads
  <2> QED BY <1>3, <2>1 DEF ChainOK, Written
<1>7. LockOK(row, n, wrote[c]) /\ NumberOK(row, n, wrote[c])
  BY <1>1, <1>2, <1>3 DEF CallOK, LockOK, NumberOK, Written
<1> QED BY <1>1, <1>3, <1>4, <1>5, <1>6, <1>7, MoveGoesOn DEF CallOK

\* What a transaction reads of the rows it has written: the same entries, under the
\* parents it has given them.
LEMMA ReadingRows ==
  ASSUME NotebookAssumption, NEW r \in Trees, NEW m, NEW w \in Writes, LockOK(r, m, w),
         \A e \in Entries(r) : r[e].parent \in Entries(r) \cup {Root}
  PROVE  /\ Reading(r, w) \in Trees /\ Entries(Reading(r, w)) = Entries(r)
         /\ \A e \in Ids : Reading(r, w)[e] = IF w[e] = Out THEN r[e] ELSE w[e]
         /\ \A e \in Entries(r) : Reading(r, w)[e] \in Rows /\ Reading(r, w)[e].parent \in Entries(r) \cup {Root}
<1> DEFINE q == Reading(r, w)
<1>1. \A e \in Ids : q[e] = IF w[e] = Out THEN r[e] ELSE w[e]
  BY DEF Reading
<1>2. q = [e \in Ids |-> q[e]]
  BY DEF Reading
<1>3. \A e \in Ids : w[e] \in Rows \cup {Out} /\ r[e] \in Rows \cup {Out, Gone}
  BY DEF Writes, Trees
<1> HIDE DEF q
<1>4. \A e \in Ids : q[e] \in Rows \cup {Out, Gone}
  BY <1>1, <1>3
<1>5. q \in Trees
  BY <1>2, <1>4 DEF Trees
<1>6. \A e \in Ids : w[e] # Out => e \in Entries(r) /\ q[e] \in Rows /\ w[e].parent \in Entries(r) \cup {Root}
  BY <1>1, <1>3, EntryRows DEF LockOK
<1>7. \A e \in Ids : e \in Entries(q) <=> e \in Entries(r)
  BY <1>1, <1>5, <1>6, EntryRows
<1>8. Entries(q) \subseteq Ids /\ Entries(r) \subseteq Ids
  BY DEF Entries
<1>9. \A e \in Entries(r) : q[e] \in Rows /\ q[e].parent \in Entries(r) \cup {Root}
  BY <1>1, <1>6, <1>8, EntryRows
<1> QED BY <1>1, <1>5, <1>7, <1>8, <1>9 DEF q

LEMMA WriteStep ==
  ASSUME NotebookAssumption, TreeInv, NEW c \in Calls, Write(c)
  PROVE  TreeInv'
<1> DEFINE m == call[c]
           n == [m EXCEPT !.at = "list"]
           new == [parent |-> IF m.parent = m.old.parent THEN row[m.entry].parent ELSE m.parent,
                   pos |-> IF m.pos = m.old.pos THEN row[m.entry].pos ELSE m.pos]
           none == (m.parent = m.old.parent /\ m.pos = m.old.pos) \/ m.entry \notin Entries(row)
           refused == ~none /\ m.parent # m.old.parent /\ m.parent \notin Entries(row) \cup {Root}
           w == IF none THEN wrote[c] ELSE [wrote[c] EXCEPT ![m.entry] = new]
<1>1. CASE refused
  BY <1>1, FailsStep DEF Write
<1>2. CASE ~refused
  <2>1. /\ m.at = "write" /\ call' = [call EXCEPT ![c] = n] /\ UNCHANGED others
        /\ none \/ ~Held(c, m.entry)
    BY <1>2 DEF Write
  <2>2. wrote' = IF none THEN wrote ELSE [wrote EXCEPT ![c][m.entry] = new]
    BY <1>2 DEF Write
  <2>3. wrote' = [wrote EXCEPT ![c] = w]
    BY <2>2 DEF TreeInv, Types
  <2>4. /\ m \in Moves /\ CallOK(row, m, wrote[c]) /\ row \in Trees /\ wrote[c] \in Writes
        /\ \A e \in Entries(row) : e \in Ids /\ row[e] \in Rows /\ row[e].parent \in Entries(row) \cup {Root}
        /\ \A e \in Ids : wrote[c][e] = Out
        /\ m.entry \in Ids
    BY <2>1, InvFacts DEF CallOK, LockOK, StepOK, Steps, Written
  <2>5. /\ n \in Moves /\ n.at = "list" /\ n.entry = m.entry /\ n.parent = m.parent /\ n.old = m.old
        /\ n.seen = m.seen /\ n.met = m.met
    BY <2>4 DEF Moves, Steps
  <2> HIDE DEF n
  <2>6. ASSUME ~none
        PROVE  /\ new \in Rows /\ row[m.entry] \in Rows
               /\ new.parent = IF m.parent # m.old.parent THEN m.parent ELSE row[m.entry].parent
               /\ new.parent \in Entries(row) \cup {Root}
    <3>1. m.entry \in Entries(row) /\ row[m.entry] \in Rows /\ row[m.entry].parent \in Entries(row) \cup {Root}
      BY <2>4, <2>6
    <3>2. new.parent \in Entries(row) \cup {Root}
      BY <1>2, <2>6, <3>1
    <3>3. new \in Rows
      BY <2>4, <3>1, <3>2 DEF Rows, Moves
    <3> QED BY <3>1, <3>2, <3>3
  <2> HIDE DEF new
  <2>7. w \in Writes /\ \A e \in Ids : w[e] = IF ~none /\ e = m.entry THEN new ELSE Out
    BY <2>4, <2>6 DEF Writes
  <2>8. StepOK(row, n) /\ WalkOK(row, n)
    BY <2>1, <2>4, <2>5 DEF CallOK, StepOK, WalkOK, Steps
  <2>9. ChainOK(row, n)
    BY <2>1, <2>4, <2>5 DEF CallOK, ChainOK, Written
  <2>10. LockOK(row, n, w)
    <3>1. ~none => new # Out
      BY <2>6, MarkersDiffer
    <3>2. m.parent # m.old.parent /\ m.entry \in Entries(row) => ~none
      OBVIOUS
    <3> HIDE DEF w, none
    <3> QED BY <2>4, <2>5, <2>6, <2>7, <3>1, <3>2 DEF LockOK, Written
  <2>11. NumberOK(row, n, w)
    BY <2>5 DEF NumberOK
  <2>12. \A e \in Ids : w[e] # Out => wrote[c][e] # Out \/ ~Held(c, e)
    BY <2>1, <2>7
  <2> QED BY <2>1, <2>3, <2>5, <2>7, <2>8, <2>9, <2>10, <2>11, <2>12, WritesGoOn DEF CallOK, n
<1> QED BY <1>1, <1>2

LEMMA ListStep ==
  ASSUME NotebookAssumption, TreeInv, NEW c \in Calls, List(c)
  PROVE  TreeInv'
<1> DEFINE m == call[c]
           plan == Numbering(Reads(c), m.parent)
           n == [m EXCEPT !.at = "number", !.still = TRUE, !.plan = plan]
<1>1. m.at = "list" /\ call' = [call EXCEPT ![c] = n] /\ wrote' = wrote /\ UNCHANGED others
  BY DEF List
<1>2. /\ m \in Moves /\ CallOK(row, m, wrote[c]) /\ row \in Trees /\ wrote[c] \in Writes
      /\ \A e \in Entries(row) : row[e].parent \in Entries(row) \cup {Root}
      /\ Reads(c) = Reading(row, wrote[c])
  BY InvFacts
<1>3. plan \in [Ids -> Nat \cup {Nil}] /\ PlanOK(Reading(row, wrote[c]), plan, m.parent)
  BY <1>2, ReadingRows, Numbered DEF CallOK
<1> HIDE DEF plan
<1>4. /\ n \in Moves /\ n.at = "number" /\ n.entry = m.entry /\ n.parent = m.parent /\ n.old = m.old
      /\ n.seen = m.seen /\ n.met = m.met /\ n.plan = plan
  BY <1>2, <1>3 DEF Moves, Steps
<1> HIDE DEF n
<1>5. StepOK(row, n) /\ WalkOK(row, n) /\ ChainOK(row, n)
  BY <1>1, <1>2, <1>4 DEF CallOK, StepOK, WalkOK, ChainOK, Steps, Written
<1>6. LockOK(row, n, wrote[c])
  BY <1>1, <1>2, <1>4 DEF CallOK, LockOK, Written
<1>7. NumberOK(row, n, wrote[c])
  BY <1>3, <1>4 DEF NumberOK
<1> QED BY <1>1, <1>4, <1>5, <1>6, <1>7, MoveGoesOn DEF CallOK, n

LEMMA ListOldStep ==
  ASSUME NotebookAssumption, TreeInv, NEW c \in Calls, ListOld(c)
  PROVE  TreeInv'
<1> DEFINE m == call[c]
           plan == Numbering(Reads(c), m.old.parent)
           n == [m EXCEPT !.at = "numberOld", !.plan = plan]
<1>1. /\ m.at = "number" /\ m.plan = Unplanned /\ m.old.parent # m.parent
      /\ call' = [call EXCEPT ![c] = n] /\ wrote' = wrote /\ UNCHANGED others
  BY DEF ListOld
<1>2. /\ m \in Moves /\ CallOK(row, m, wrote[c]) /\ row \in Trees /\ wrote[c] \in Writes
      /\ \A e \in Entries(row) : row[e].parent \in Entries(row) \cup {Root}
      /\ Reads(c) = Reading(row, wrote[c])
  BY InvFacts
<1>3. plan \in [Ids -> Nat \cup {Nil}] /\ PlanOK(Reading(row, wrote[c]), plan, m.old.parent)
  BY <1>2, ReadingRows, Numbered DEF CallOK
<1> HIDE DEF plan
<1>4. /\ n \in Moves /\ n.at = "numberOld" /\ n.entry = m.entry /\ n.parent = m.parent /\ n.old = m.old
      /\ n.seen = m.seen /\ n.met = m.met /\ n.plan = plan /\ n.still = m.still
  BY <1>2, <1>3 DEF Moves, Steps
<1> HIDE DEF n
<1>5. StepOK(row, n) /\ WalkOK(row, n) /\ ChainOK(row, n)
  BY <1>1, <1>2, <1>4 DEF CallOK, StepOK, WalkOK, ChainOK, Steps, Written
<1>6. LockOK(row, n, wrote[c])
  BY <1>1, <1>2, <1>4 DEF CallOK, LockOK, Written
<1>7. NumberOK(row, n, wrote[c])
  <2>1. m.still => Dense(Reading(row, wrote[c]), m.parent)
    BY <1>1, <1>2, PlanDone DEF CallOK, NumberOK
  <2> QED BY <1>1, <1>3, <1>4, <2>1 DEF NumberOK
<1> QED BY <1>1, <1>4, <1>5, <1>6, <1>7, MoveGoesOn DEF CallOK, n

LEMMA NumberStep ==
  ASSUME NotebookAssumption, TreeInv, NEW c \in Calls, Number(c)
  PROVE  TreeInv'
<1> DEFINE m == call[c]
<1>1. PICK e \in Ids :
        /\ m.plan[e] # Nil /\ ~Held(c, e) /\ call' = [call EXCEPT ![c].plan[e] = Nil]
        /\ wrote' = IF e \in Entries(row) THEN [wrote EXCEPT ![c][e] = [Reads(c)[e] EXCEPT !.pos = m.plan[e]]]
                    ELSE wrote
  BY DEF Number
<1> DEFINE plan == [m.plan EXCEPT ![e] = Nil]
           n == [m EXCEPT !.plan = plan]
           r == Reading(row, wrote[c])
           new == [r[e] EXCEPT !.pos = m.plan[e]]
           w == IF e \in Entries(row) THEN [wrote[c] EXCEPT ![e] = new] ELSE wrote[c]
<1>2. /\ m \in Moves /\ CallOK(row, m, wrote[c]) /\ row \in Trees /\ wrote[c] \in Writes
      /\ \A x \in Entries(row) : x \in Ids /\ row[x] \in Rows /\ row[x].parent \in Entries(row) \cup {Root}
      /\ Reads(c) = r
  BY InvFacts
<1>3. m.at \in {"number", "numberOld"} /\ UNCHANGED others
  BY DEF Number
<1>4. call' = [call EXCEPT ![c] = n]
  BY <1>1 DEF TreeInv, Types
<1>5. wrote' = [wrote EXCEPT ![c] = w]
  BY <1>1, <1>2 DEF TreeInv, Types
<1>6. m.plan \in [Ids -> Nat \cup {Nil}] /\ m.plan[e] \in Nat /\ plan \in [Ids -> Nat \cup {Nil}]
  BY <1>1, <1>2 DEF Moves
<1> HIDE DEF plan
<1>7. /\ n \in Moves /\ n.at = m.at /\ n.entry = m.entry /\ n.parent = m.parent /\ n.old = m.old
      /\ n.seen = m.seen /\ n.met = m.met /\ n.plan = plan /\ n.still = m.still
  BY <1>2, <1>6 DEF Moves
<1> HIDE DEF n
<1>8. /\ r \in Trees /\ Entries(r) = Entries(row)
      /\ \A x \in Ids : r[x] = IF wrote[c][x] = Out THEN row[x] ELSE wrote[c][x]
      /\ \A x \in Entries(row) : r[x] \in Rows /\ r[x].parent \in Entries(row) \cup {Root}
  BY <1>2, ReadingRows DEF CallOK
<1> HIDE DEF r
<1>9. StepOK(row, n) /\ WalkOK(row, n) /\ ChainOK(row, n)
  <2>1. StepOK(row, n) /\ WalkOK(row, n)
    <3>1. StepOK(row, m) /\ WalkOK(row, m)
      BY <1>2 DEF CallOK
    <3>2. n.at = m.at /\ n.at \notin {"walk", "check"}
      BY <1>3, <1>7
    <3> QED BY <1>7, <3>1, <3>2 DEF StepOK, WalkOK
  <2>2. m.at \in Written \cup {"write"} /\ n.at \in Written \cup {"write"} /\ n.at # "check"
    BY <1>3, <1>7 DEF Written
  <2>3. ChainOK(row, n)
    BY <1>2, <1>7, <2>2 DEF CallOK, ChainOK
  <2> QED BY <2>1, <2>3
<1>10. CASE e \in Entries(row)
  <2>1. new \in Rows /\ new.parent = r[e].parent /\ new # Out
    BY <1>6, <1>8, <1>10, MarkersDiffer DEF Rows
  <2> HIDE DEF new
  <2>2. w \in Writes /\ \A x \in Ids : w[x] = IF x = e THEN new ELSE wrote[c][x]
    BY <1>2, <1>10, <2>1 DEF Writes
  <2> HIDE DEF w
  <2>3. new.parent = IF e = m.entry /\ m.parent # m.old.parent THEN m.parent ELSE row[e].parent
    BY <1>2, <1>3, <1>8, <1>10, <2>1 DEF CallOK, LockOK, Written
  <2>4. LockOK(row, n, w)
    <3>1. m.at \in Written
      BY <1>3 DEF Written
    <3> QED BY <1>2, <1>7, <1>8, <1>10, <2>1, <2>2, <2>3, <3>1 DEF CallOK, LockOK
  <2>5. Reading(row, w) = [r EXCEPT ![e].pos = m.plan[e]]
    <3>1. \A x \in Ids : Reading(row, w)[x] = IF x = e THEN new ELSE r[x]
      BY <1>8, <2>1, <2>2 DEF Reading
    <3>2. Reading(row, w) = [x \in Ids |-> IF x = e THEN new ELSE r[x]]
      BY <3>1 DEF Reading
    <3>3. [r EXCEPT ![e].pos = m.plan[e]] = [x \in Ids |-> IF x = e THEN new ELSE r[x]]
      BY <1>8 DEF Trees, new
    <3> QED BY <3>2, <3>3
  <2>6. Reading(row, w) \in Trees
    BY <1>2, <2>2, <2>4, ReadingRows
  <2>7. /\ \A p : PlanOK(r, m.plan, p) => PlanOK(Reading(row, w), plan, p)
        /\ \A p : Dense(r, p) /\ e \notin Children(r, p) => Dense(Reading(row, w), p)
    <3>1. r[e] \in Rows
      BY <1>8, <1>10
    <3> QED BY <1>1, <1>6, <1>8, <2>5, <2>6, <3>1, NumberWritten DEF plan
  <2>8. NumberOK(row, n, w)
    <3>1. m.still /\ m.at = "numberOld" => e \notin Children(r, m.parent)
      BY <1>1, <1>2 DEF CallOK, NumberOK, PlanOK, Children, r
    <3> QED BY <1>2, <1>7, <2>7, <3>1 DEF CallOK, NumberOK, r
  <2>9. \A x \in Ids : w[x] # Out => wrote[c][x] # Out \/ ~Held(c, x)
    BY <1>1, <2>2
  <2> QED BY <1>3, <1>4, <1>5, <1>7, <1>9, <2>2, <2>4, <2>8, <2>9, WritesGoOn DEF CallOK, w
<1>11. CASE e \notin Entries(row)
  <2>1. w = wrote[c]
    BY <1>11
  <2> HIDE DEF w
  <2>2. LockOK(row, n, w)
    BY <1>2, <1>7, <2>1 DEF CallOK, LockOK
  <2>3. NumberOK(row, n, w)
    <3> SUFFICES ASSUME m.still PROVE FALSE
      BY <1>7 DEF NumberOK
    <3>1. e \in Entries(r)
      BY <1>1, <1>2, <1>3 DEF CallOK, NumberOK, PlanOK, Children, r
    <3> QED BY <1>8, <1>11, <3>1
  <2> QED BY <1>2, <1>3, <1>4, <1>5, <1>7, <1>9, <2>1, <2>2, <2>3, WritesGoOn DEF CallOK
<1> QED BY <1>10, <1>11

LEMMA AnsweredStep ==
  ASSUME NotebookAssumption, TreeInv, NEW c \in Calls, Answered(c)
  PROVE  TreeInv'
<1> DEFINE m == call[c]
<1>1. /\ m.at = "answer" /\ call' = [call EXCEPT ![c] = Over]
      /\ UNCHANGED <<row, wrote, add, crossed, drag>>
  BY DEF Answered, database
<1>2. m \in Moves /\ CallOK(row, m, wrote[c]) /\ row \in Trees
  BY InvFacts
<1>3. view' \in [Tabs -> Trees]
  <2>1. m.page \in Trees /\ view \in [Tabs -> Trees]
    BY <1>2 DEF Moves, TreeInv, Types
  <2> QED BY <1>2, <2>1 DEF Answered
<1>4. wrote[c] = Unwritten
  <2>1. \A e \in Ids : wrote[c][e] = Out
    BY <1>1, <1>2 DEF CallOK, LockOK, Written
  <2> QED BY <2>1 DEF TreeInv, Types, Writes, Unwritten
<1>5. Over \in Moves /\ CallOK(row, Over, wrote[c])
  BY <1>4, NoCalls, Idle DEF Steps
<1>6. Types'
  BY <1>1, <1>3, <1>5 DEF TreeInv, Types
<1>7. \A d \in Calls : CallOK(row', call'[d], wrote'[d])
  BY <1>1, <1>5 DEF TreeInv, Types
<1> QED BY <1>1, <1>6, <1>7 DEF TreeInv, Locks

-----------------------------------------------------------------------------
\* The pages

LEMMA PatchStep ==
  ASSUME NotebookAssumption, TreeInv, NEW t \in Tabs, NEW p \in Ids \cup {Root}, NEW pos \in Nat, Patch(t, p, pos)
  PROVE  TreeInv'
<1>1. PICK c \in Calls :
        /\ call[c] = NoCall
        /\ call' = [call EXCEPT ![c] = [NoCall EXCEPT !.at = "sent", !.tab = t, !.entry = drag[t],
                                                      !.parent = p, !.pos = pos]]
        /\ drag' = [drag EXCEPT ![t] = 0] /\ UNCHANGED <<database, view>>
  BY DEF Patch
<1> DEFINE n == [NoCall EXCEPT !.at = "sent", !.tab = t, !.entry = drag[t], !.parent = p, !.pos = pos]
<1>2. n \in Moves /\ n.at = "sent" /\ n.seen = {}
  BY NoCalls DEF Moves, TreeInv, Types
<1> HIDE DEF n
<1>3. wrote[c] = Unwritten
  <2>1. \A e \in Ids : wrote[c][e] = Out
    BY <1>1, NoCalls DEF TreeInv, CallOK, LockOK, Written
  <2> QED BY <2>1 DEF TreeInv, Types, Writes, Unwritten
<1>4. CallOK(row, n, wrote[c])
  BY <1>2, <1>3, Idle DEF Steps
<1>5. call' = [call EXCEPT ![c] = n] /\ row' = row /\ wrote' = wrote /\ crossed' = crossed
  BY <1>1 DEF database, n
<1>6. Types'
  BY <1>1, <1>2, <1>5 DEF TreeInv, Types, database
<1>7. \A d \in Calls : CallOK(row', call'[d], wrote'[d])
  BY <1>4, <1>5 DEF TreeInv, Types
<1> QED BY <1>5, <1>6, <1>7 DEF TreeInv, Locks

LEMMA DropStep ==
  ASSUME NotebookAssumption, TreeInv, NEW t \in Tabs,
         DropOnRoot(t) \/ \E e \in Ids : DropOnRow(t, e) \/ DropOnChildren(t, e)
  PROVE  TreeInv'
<1>1. view[t] \in Trees
  BY DEF TreeInv, Types
<1>2. \A p : Cardinality(Children(view[t], p)) \in Nat
  BY <1>1, ChildRows
<1>3. CASE DropOnRoot(t)
  BY <1>2, <1>3, PatchStep DEF DropOnRoot
<1>4. ASSUME NEW e \in Ids, DropOnRow(t, e) PROVE TreeInv'
  <2>1. e \in Entries(view[t])
    BY <1>4 DEF DropOnRow, Shown
  <2>2. view[t][e].parent \in Ids \cup {Root} /\ view[t][e].pos \in Nat /\ view[t][e].pos + 1 \in Nat
    BY <1>1, <2>1, EntryRows DEF Rows
  <2>3. 0 \in Nat
    OBVIOUS
  <2> QED BY <1>4, <2>2, <2>3, PatchStep DEF DropOnRow
<1>5. ASSUME NEW e \in Ids, DropOnChildren(t, e) PROVE TreeInv'
  BY <1>2, <1>5, PatchStep DEF DropOnChildren
<1> QED BY <1>3, <1>4, <1>5

LEMMA PageStep ==
  ASSUME NotebookAssumption, TreeInv, NEW t \in Tabs,
         DragEnd(t) \/ Reload(t) \/ \E e \in Ids : DragStart(t, e)
  PROVE  TreeInv'
<1>1. UNCHANGED <<database, call>>
  BY DEF DragEnd, Reload, DragStart
<1>2. view' \in [Tabs -> Trees] /\ drag' \in [Tabs -> Ids \cup {0}]
  BY DEF DragEnd, Reload, DragStart, TreeInv, Types
<1> QED BY <1>1, <1>2 DEF TreeInv, Types, Locks, database

-----------------------------------------------------------------------------
\* The rows change

\* What other requests have made of the rows a move depends on.
LEMMA MoveStands ==
  ASSUME NotebookAssumption, NEW r \in Trees, NEW q \in Trees, NEW m \in Moves, NEW w \in Writes,
         CallOK(r, m, w), NEW b \in BOOLEAN, NEW n \in Moves, n = [m EXCEPT !.met = b, !.still = FALSE], m.met => b,
         \A e \in Ids : r[e] # Out => q[e] # Out /\ (e \in Entries(q) => e \in Entries(r)),
         \A e \in Ids : w[e] # Out => q[e] = r[e] /\ w[e].parent \in Entries(q) \cup {Root},
         b \/ m.at \notin Steps \/ \A e \in Entries(q) : r[e] # Out => q[e].parent \in {r[e].parent, Root}
  PROVE  CallOK(q, n, w)
<1>1. /\ n.at = m.at /\ n.entry = m.entry /\ n.parent = m.parent /\ n.old = m.old /\ n.up = m.up
      /\ n.seen = m.seen /\ n.met = b /\ n.still = FALSE
  BY DEF Moves
<1>2. m.entry \in Ids \cup {0} /\ m.parent \in Ids \cup {Root} /\ m.up \in Ids \cup {Root} /\ m.seen \subseteq Ids
  BY DEF Moves
<1>3. StepOK(q, n)
  <2>1. m.at \in Steps /\ m.parent # Root /\ m.at # "find" => m.parent \in Ids /\ m.parent # m.entry /\ r[m.parent] # Out
    BY <1>2 DEF CallOK, StepOK
  <2>2. m.at \in Steps => m.entry \in Ids /\ r[m.entry] # Out /\ m.old \in Rows
    BY DEF CallOK, StepOK
  <2> QED BY <1>1, <2>1, <2>2 DEF StepOK
<1>4. WalkOK(q, n)
  BY <1>1, <1>2 DEF CallOK, WalkOK
<1>5. ChainOK(q, n)
  <2> SUFFICES ASSUME ~b, m.parent \in Entries(q), m.at \in Written \cup {"write", "check"}
               PROVE  /\ m.at = "check" => m.entry \notin m.seen /\ Leads(q, m.seen \cup {m.parent}, {Root, m.up})
                      /\ m.at \in Written \cup {"write"} =>
                           \E chain \in SUBSET Ids :
                             m.parent \in chain /\ m.entry \notin chain /\ Leads(q, chain, {Root})
    BY <1>1 DEF ChainOK
  <2>1. m.at \in Steps /\ m.at # "find" /\ m.parent \in Ids /\ m.parent # Root
    BY <1>2, MarkersDiffer DEF Steps, Written, Entries
  <2>2. r[m.parent] # Out
    BY <2>1 DEF CallOK, StepOK
  <2>3. m.parent \in Entries(r) /\ ~m.met
    BY <2>1, <2>2
  <2>4. \A e \in Entries(q) : r[e] # Out => q[e].parent \in {r[e].parent, Root}
    BY <2>1
  <2>5. ASSUME NEW chain \in SUBSET Ids, NEW ends, Root \in ends, Leads(r, chain, ends)
        PROVE  Leads(q, chain, ends)
    <3> SUFFICES ASSUME NEW x \in chain
                 PROVE  q[x] # Out /\ (x \in Entries(q) => q[x].parent \in chain \cup ends)
      BY DEF Leads
    <3>1. r[x] # Out /\ (x \in Entries(r) => r[x].parent \in chain \cup ends)
      BY <2>5 DEF Leads
    <3>2. q[x] # Out /\ (x \in Entries(q) => x \in Entries(r))
      BY <3>1
    <3> QED BY <2>4, <2>5, <3>1, <3>2
  <2>6. ASSUME m.at = "check"
        PROVE  m.entry \notin m.seen /\ Leads(q, m.seen \cup {m.parent}, {Root, m.up})
    <3>1. m.entry \notin m.seen /\ Leads(r, m.seen \cup {m.parent}, {Root, m.up})
      BY <2>3, <2>6 DEF CallOK, ChainOK
    <3>2. m.seen \cup {m.parent} \in SUBSET Ids
      BY <1>2, <2>1
    <3> QED BY <2>5, <3>1, <3>2
  <2>7. ASSUME m.at \in Written \cup {"write"}
        PROVE  \E chain \in SUBSET Ids : m.parent \in chain /\ m.entry \notin chain /\ Leads(q, chain, {Root})
    <3>1. PICK chain \in SUBSET Ids : m.parent \in chain /\ m.entry \notin chain /\ Leads(r, chain, {Root})
      BY <2>3, <2>7 DEF CallOK, ChainOK
    <3> QED BY <2>5, <3>1
  <2> QED BY <2>6, <2>7
<1>6. LockOK(q, n, w)
  <2>1. ASSUME NEW e \in Ids, w[e] # Out
        PROVE  /\ n.at \in Written /\ q[e] \in Rows /\ w[e].parent \in Entries(q) \cup {Root}
               /\ w[e].parent = IF e = n.entry /\ n.parent # n.old.parent THEN n.parent ELSE q[e].parent
    BY <1>1, <2>1 DEF CallOK, LockOK
  <2>2. ASSUME n.at \in Written, n.parent # n.old.parent, n.entry \in Entries(q) PROVE w[n.entry] # Out
    <3>1. m.at \in Steps
      BY <1>1, <2>2 DEF Written, Steps
    <3>2. m.entry \in Ids /\ r[m.entry] # Out
      BY <3>1 DEF CallOK, StepOK
    <3>3. m.entry \in Entries(r)
      BY <1>1, <2>2, <3>2
    <3> QED BY <1>1, <2>2, <3>3 DEF CallOK, LockOK
  <2> QED BY <2>1, <2>2 DEF LockOK
<1>7. NumberOK(q, n, w)
  BY <1>1 DEF NumberOK
<1> QED BY <1>3, <1>4, <1>5, <1>6, <1>7 DEF CallOK

LEMMA DisturbedRecord ==
  ASSUME TreeInv, NEW moved \in BOOLEAN, NEW d \in Calls
  PROVE  \E b \in BOOLEAN :
           /\ b = (call[d].met \/ (moved /\ call[d].at \in Steps))
           /\ Disturbed(call, moved)[d] = [call[d] EXCEPT !.met = b, !.still = FALSE]
           /\ Disturbed(call, moved)[d] \in Moves
<1> DEFINE b == call[d].met \/ (moved /\ call[d].at \in Steps)
<1>1. call[d] \in Moves
  BY DEF TreeInv, Types
<1>2. b \in BOOLEAN
  BY <1>1 DEF Moves
<1>3. Disturbed(call, moved)[d] = [call[d] EXCEPT !.met = b, !.still = FALSE]
  BY DEF Disturbed
<1>4. [call[d] EXCEPT !.met = b, !.still = FALSE] \in Moves
  BY <1>1, <1>2 DEF Moves
<1> HIDE DEF b
<1> QED BY <1>2, <1>3, <1>4 DEF b

\* Nobody has written a row that is not there.
LEMMA AddStep ==
  ASSUME NotebookAssumption, TreeInv, NEW e \in Ids, AddMemo(e)
  PROVE  TreeInv'
<1>1. /\ add \in Rows /\ row[e] = Out /\ add' = Out /\ UNCHANGED <<view, drag, wrote, crossed>> /\ row \in Trees
  BY DEF AddMemo, TreeInv, Types
<1>2. CASE add.parent \notin Entries(row) \cup {Root}
  <2>1. UNCHANGED <<row, call>>
    BY <1>2 DEF AddMemo
  <2> QED BY <1>1, <2>1 DEF TreeInv, Types, Locks
<1>3. CASE add.parent \in Entries(row) \cup {Root}
  <2>1. row' = [row EXCEPT ![e] = add] /\ call' = Disturbed(call, FALSE)
    BY <1>3 DEF AddMemo
  <2>2. row' \in Trees /\ \A x \in Ids : row'[x] = IF x = e THEN add ELSE row[x]
    BY <1>1, <2>1 DEF Trees
  <2>3. Entries(row') = Entries(row) \cup {e} /\ e \notin Entries(row) /\ Entries(row) \subseteq Ids
    BY <1>1, <2>2, EntryRows, MarkersDiffer DEF Entries, Rows
  <2>4. \A x \in Entries(row) : row[x].parent \in Entries(row) \cup {Root}
    BY DEF TreeInv, Forest
  <2>5. ASSUME NEW d \in Calls PROVE call'[d] \in Moves /\ CallOK(row', call'[d], wrote[d])
    <3>1. PICK b \in BOOLEAN :
            /\ b = (call[d].met \/ (FALSE /\ call[d].at \in Steps))
            /\ call'[d] = [call[d] EXCEPT !.met = b, !.still = FALSE] /\ call'[d] \in Moves
      BY <2>1, DisturbedRecord
    <3>2. call[d] \in Moves /\ wrote[d] \in Writes /\ CallOK(row, call[d], wrote[d])
      BY DEF TreeInv, Types
    <3>3. \A x \in Ids : row[x] # Out => row'[x] # Out /\ (x \in Entries(row') => x \in Entries(row))
      BY <1>1, <2>2, <2>3
    <3>4. \A x \in Ids : wrote[d][x] # Out => row'[x] = row[x] /\ wrote[d][x].parent \in Entries(row') \cup {Root}
      BY <1>1, <2>2, <2>3, <3>2, MarkersDiffer DEF CallOK, LockOK
    <3>5. \A x \in Entries(row') : row[x] # Out => row'[x].parent \in {row[x].parent, Root}
      BY <1>1, <2>2, <2>3
    <3>6. call[d].met => b
      BY <3>1
    <3> QED BY <2>2, <1>1, <3>1, <3>2, <3>3, <3>4, <3>5, <3>6, MoveStands
  <2>6. call' \in [Calls -> Moves]
    <3>1. call' = [d \in Calls |-> call'[d]]
      BY <2>1 DEF Disturbed
    <3> QED BY <2>5, <3>1
  <2>7. ASSUME NEW circle \in Circles(row') PROVE circle \cap crossed # {}
    <3>1. circle \subseteq Entries(row) \cup {e} /\ circle # {} /\ \A x \in circle : row'[x].parent \in circle
      BY <2>3, <2>7 DEF Circles
    <3> DEFINE old == circle \ {e}
    <3>2. old # {}
      <4>1. add.parent # e /\ row'[e].parent = add.parent
        BY <1>3, <2>2, <2>3, MarkersDiffer
      <4> QED BY <3>1, <4>1
    <3>3. \A x \in old : row[x].parent \in old
      <4> SUFFICES ASSUME NEW x \in old PROVE row[x].parent \in old
        OBVIOUS
      <4>1. x \in Entries(row) /\ row[x].parent \in circle
        BY <2>2, <2>3, <3>1
      <4>2. row[x].parent # e
        BY <2>3, <2>4, <4>1, MarkersDiffer
      <4> QED BY <4>1, <4>2
    <3>4. old \in Circles(row)
      BY <3>1, <3>2, <3>3 DEF Circles
    <3> QED BY <3>4 DEF TreeInv, Forest
  <2>8. \A x \in Entries(row') : row'[x].parent \in Entries(row') \cup {Root}
    BY <1>3, <2>2, <2>3, <2>4
  <2>9. Forest(row', crossed')
    BY <1>1, <2>7, <2>8 DEF Forest
  <2> QED BY <1>1, <2>2, <2>5, <2>6, <2>9 DEF TreeInv, Types, Locks
<1> QED BY <1>2, <1>3

\* The children of an entry that goes are hung below the root: no circle is closed.
LEMMA RemoveStep ==
  ASSUME NotebookAssumption, TreeInv, NEW e \in Ids, RemoveMemo(e)
  PROVE  TreeInv'
<1>1. /\ e \in Entries(row) /\ row' = Removed(row, e) /\ call' = Disturbed(call, FALSE)
      /\ UNCHANGED <<view, drag, wrote, add, crossed>> /\ row \in Trees
      /\ \A c \in Calls, x \in Ids : wrote[c][x] # Out => e \notin {x, row[x].parent, wrote[c][x].parent}
  BY DEF RemoveMemo, TreeInv, Types
<1>2. \A x \in Ids : row'[x] = IF x = e THEN Gone
                               ELSE IF row[x].parent = e THEN [row[x] EXCEPT !.parent = Root] ELSE row[x]
  BY <1>1 DEF Removed
<1>3. ASSUME NEW x \in Ids, x # e
      PROVE  /\ row'[x] \in Rows \cup {Out, Gone} /\ (x \in Entries(row') <=> x \in Entries(row))
             /\ row[x] # Out => row'[x] # Out
             /\ x \in Entries(row) => row'[x].parent = IF row[x].parent = e THEN Root ELSE row[x].parent
  <2>1. CASE row[x].parent = e
    <3>1. row[x] \in Rows /\ x \in Entries(row)
      BY <1>1, <2>1, EntryRows, MarkersDiffer
    <3>2. row'[x] \in Rows /\ row'[x].parent = Root
      BY <1>2, <1>3, <2>1, <3>1 DEF Rows
    <3> QED BY <2>1, <3>1, <3>2, MarkersDiffer DEF Entries
  <2>2. CASE row[x].parent # e
    BY <1>1, <1>2, <1>3, <2>2 DEF Trees, Entries
  <2> QED BY <2>1, <2>2
<1>4. row'[e] = Gone
  BY <1>2
<1>5. row' \in Trees
  <2>1. \A x \in Ids : row'[x] \in Rows \cup {Out, Gone}
    BY <1>3, <1>4
  <2>2. row' = [x \in Ids |-> row'[x]]
    BY <1>1 DEF Removed
  <2> QED BY <2>1, <2>2 DEF Trees
<1>6. Entries(row') = Entries(row) \ {e} /\ Entries(row) \subseteq Ids
  BY <1>3, <1>4, MarkersDiffer DEF Entries
<1>7. \A x \in Entries(row) : row[x].parent \in Entries(row) \cup {Root}
  BY DEF TreeInv, Forest
<1>8. ASSUME NEW d \in Calls PROVE call'[d] \in Moves /\ CallOK(row', call'[d], wrote[d])
  <2>1. PICK b \in BOOLEAN :
          /\ b = (call[d].met \/ (FALSE /\ call[d].at \in Steps))
          /\ call'[d] = [call[d] EXCEPT !.met = b, !.still = FALSE] /\ call'[d] \in Moves
    BY <1>1, DisturbedRecord
  <2>2. call[d] \in Moves /\ wrote[d] \in Writes /\ CallOK(row, call[d], wrote[d])
    BY DEF TreeInv, Types
  <2>3. \A x \in Ids : row[x] # Out => row'[x] # Out /\ (x \in Entries(row') => x \in Entries(row))
    BY <1>3, <1>4, <1>6, MarkersDiffer
  <2>4. \A x \in Ids : wrote[d][x] # Out => row'[x] = row[x] /\ wrote[d][x].parent \in Entries(row') \cup {Root}
    BY <1>1, <1>2, <1>6, <2>2 DEF CallOK, LockOK
  <2>5. \A x \in Entries(row') : row[x] # Out => row'[x].parent \in {row[x].parent, Root}
    BY <1>3, <1>6
  <2>6. call[d].met => b
    BY <2>1
  <2>7. CallOK(row', [call[d] EXCEPT !.met = b, !.still = FALSE], wrote[d])
    <3> DEFINE n == [call[d] EXCEPT !.met = b, !.still = FALSE]
    <3>1. n \in Moves
      BY <2>1
    <3>2. b \/ call[d].at \notin Steps
            \/ \A x \in Entries(row') : row[x] # Out => row'[x].parent \in {row[x].parent, Root}
      BY <2>5
    <3> HIDE DEF n
    <3> QED BY <1>1, <1>5, <2>2, <2>3, <2>4, <2>6, <3>1, <3>2, MoveStands DEF n
  <2> QED BY <2>1, <2>7
<1>9. call' \in [Calls -> Moves]
  <2>1. call' = [d \in Calls |-> call'[d]]
    BY <1>1 DEF Disturbed
  <2> QED BY <1>8, <2>1
<1>10. ASSUME NEW circle \in Circles(row') PROVE circle \cap crossed # {}
  <2>1. circle \subseteq Entries(row) \ {e} /\ circle # {} /\ \A x \in circle : row'[x].parent \in circle
    BY <1>6, <1>10 DEF Circles
  <2>2. Root \notin circle
    BY <1>6, <2>1, MarkersDiffer
  <2>3. \A x \in circle : row[x].parent \in circle
    BY <1>3, <1>6, <2>1, <2>2
  <2>4. circle \in Circles(row)
    BY <2>1, <2>3 DEF Circles
  <2> QED BY <2>4 DEF TreeInv, Forest
<1>11. \A x \in Entries(row') : row'[x].parent \in Entries(row') \cup {Root}
  BY <1>3, <1>6, <1>7
<1>12. Forest(row', crossed')
  BY <1>1, <1>10, <1>11 DEF Forest
<1> QED BY <1>1, <1>5, <1>8, <1>9, <1>12 DEF TreeInv, Types, Locks

\* What a transaction commits.  An entry that is hung below one that is not below
\* it closes no circle: the chain above the new parent would have held one before.
LEMMA CommitRows ==
  ASSUME NotebookAssumption, TreeInv, NEW c \in Calls, Commit(c)
  PROVE  /\ row' \in Trees /\ Forest(row', crossed') /\ crossed' \subseteq Ids
         /\ Entries(row') = Entries(row)
         /\ \A x \in Ids : row'[x] = IF wrote[c][x] = Out THEN row[x] ELSE wrote[c][x]
<1> DEFINE m == call[c]
<1>1. /\ m \in Moves /\ CallOK(row, m, wrote[c]) /\ row \in Trees /\ wrote[c] \in Writes
      /\ \A e \in Entries(row) : e \in Ids /\ row[e].parent \in Entries(row) \cup {Root}
      /\ row' = Reading(row, wrote[c])
  BY InvFacts DEF Commit
<1>2. m.at \in Written /\ m.at \in Steps
  BY DEF Commit, Written, Steps
<1>3. /\ row' \in Trees /\ Entries(row') = Entries(row)
      /\ \A x \in Ids : row'[x] = IF wrote[c][x] = Out THEN row[x] ELSE wrote[c][x]
      /\ \A x \in Entries(row) : row'[x].parent \in Entries(row) \cup {Root}
  BY <1>1, ReadingRows DEF CallOK
<1>4. \A x \in Entries(row) : ~(x = m.entry /\ m.parent # m.old.parent) => row'[x].parent = row[x].parent
  BY <1>1, <1>3 DEF CallOK, LockOK
<1>5. m.parent # m.old.parent /\ m.entry \in Entries(row) => row'[m.entry].parent = m.parent
  BY <1>1, <1>2, <1>3 DEF CallOK, LockOK
<1>6. m.entry \in Ids /\ crossed \subseteq Ids
  BY <1>1, <1>2 DEF CallOK, StepOK, TreeInv, Types
<1>7. crossed' \subseteq Ids
  BY <1>6 DEF Commit
<1>8. \A circle \in Circles(row) : circle \cap crossed # {}
  BY DEF TreeInv, Forest
<1>9. ASSUME NEW circle \in Circles(row'), m.entry \notin circle \/ m.parent = m.old.parent \/ m.entry \notin Entries(row)
      PROVE  circle \in Circles(row)
  <2>1. circle \subseteq Entries(row) /\ circle # {} /\ \A x \in circle : row'[x].parent \in circle
    BY <1>3, <1>9 DEF Circles
  <2>2. \A x \in circle : row[x].parent = row'[x].parent
    BY <1>4, <1>9, <2>1
  <2> QED BY <2>1, <2>2 DEF Circles
<1>10. ASSUME NEW circle \in Circles(row') PROVE circle \cap crossed' # {}
  <2>1. CASE m.parent = m.old.parent \/ m.entry \notin Entries(row)
    <3>1. crossed' = crossed
      BY <2>1 DEF Commit
    <3> QED BY <1>8, <1>9, <2>1, <3>1
  <2>2. CASE ~(m.parent = m.old.parent \/ m.entry \notin Entries(row)) /\ m.met
    <3>1. crossed' = crossed \cup {m.entry}
      BY <2>2 DEF Commit
    <3> QED BY <1>8, <1>9, <3>1
  <2>3. CASE ~(m.parent = m.old.parent \/ m.entry \notin Entries(row)) /\ ~m.met
    <3>1. crossed' = crossed \ {m.entry}
      BY <2>3 DEF Commit
    <3>2. CASE m.entry \notin circle
      BY <1>8, <1>9, <3>1, <3>2
    <3>3. CASE m.entry \in circle
      <4>1. circle \subseteq Entries(row) /\ \A x \in circle : row'[x].parent \in circle
        BY <1>3, <1>10 DEF Circles
      <4>2. m.parent \in circle
        BY <1>5, <2>3, <3>3, <4>1
      <4>3. PICK chain \in SUBSET Ids : m.parent \in chain /\ m.entry \notin chain /\ Leads(row, chain, {Root})
        BY <1>1, <1>2, <2>3, <4>1, <4>2 DEF CallOK, ChainOK
      <4> DEFINE old == circle \cap chain
      <4>4. \A x \in old : row[x].parent \in old
        <5> SUFFICES ASSUME NEW x \in old PROVE row[x].parent \in old
          OBVIOUS
        <5>1. x \in Entries(row) /\ x # m.entry
          BY <4>1, <4>3
        <5>2. row[x].parent \in circle
          BY <1>4, <4>1, <5>1
        <5>3. row[x].parent \in chain \cup {Root}
          BY <4>3, <5>1 DEF Leads
        <5>4. row[x].parent # Root
          BY <1>1, <4>1, <5>2, MarkersDiffer
        <5> QED BY <5>2, <5>3, <5>4
      <4>5. old \in Circles(row)
        BY <4>1, <4>2, <4>3, <4>4 DEF Circles
      <4>6. old \cap crossed # {} /\ m.entry \notin old
        BY <1>8, <4>3, <4>5
      <4> QED BY <3>1, <4>6
    <3> QED BY <3>2, <3>3
  <2> QED BY <2>1, <2>2, <2>3
<1> QED BY <1>3, <1>7, <1>10 DEF Forest

LEMMA CommitStep ==
  ASSUME NotebookAssumption, TreeInv, NEW c \in Calls, Commit(c)
  PROVE  TreeInv'
<1> DEFINE m == call[c]
           n == [NoCall EXCEPT !.at = "answer", !.tab = m.tab, !.page = row']
           calls == IF row' = row THEN call ELSE Disturbed(call, TRUE)
<1>1. /\ row' \in Trees /\ Forest(row', crossed') /\ crossed' \subseteq Ids
      /\ Entries(row') = Entries(row)
      /\ \A x \in Ids : row'[x] = IF wrote[c][x] = Out THEN row[x] ELSE wrote[c][x]
  BY CommitRows
<1>2. /\ wrote' = [wrote EXCEPT ![c] = Unwritten] /\ call' = [calls EXCEPT ![c] = n]
      /\ UNCHANGED <<view, drag, add>>
  BY DEF Commit
<1>3. m \in Moves /\ row \in Trees
  BY InvFacts
<1>4. n \in Moves /\ n.at = "answer" /\ n.seen = {}
  BY <1>1, <1>3, NoCalls DEF Moves
<1> HIDE DEF n
<1>5. Unwritten \in Writes /\ CallOK(row', n, Unwritten)
  BY <1>4, Idle DEF Steps
<1>6. ASSUME NEW d \in Calls, d # c PROVE calls[d] \in Moves /\ CallOK(row', calls[d], wrote[d])
  <2>1. call[d] \in Moves /\ wrote[d] \in Writes /\ CallOK(row, call[d], wrote[d])
    BY DEF TreeInv, Types
  <2>2. CASE row' = row
    BY <2>1, <2>2
  <2>3. CASE row' # row
    <3>1. PICK b \in BOOLEAN :
            /\ b = (call[d].met \/ (TRUE /\ call[d].at \in Steps))
            /\ calls[d] = [call[d] EXCEPT !.met = b, !.still = FALSE] /\ calls[d] \in Moves
      BY <2>3, DisturbedRecord
    <3> HIDE DEF calls
    <3>2. \A x \in Ids : row[x] # Out => row'[x] # Out /\ (x \in Entries(row') => x \in Entries(row))
      BY <1>1
    <3>3. \A x \in Ids : wrote[d][x] # Out => row'[x] = row[x] /\ wrote[d][x].parent \in Entries(row') \cup {Root}
      BY <1>1, <1>6, <2>1 DEF TreeInv, Locks, CallOK, LockOK
    <3>4. (call[d].met => b) /\ (b \/ call[d].at \notin Steps)
      BY <3>1
    <3> QED BY <1>1, <1>3, <2>1, <3>1, <3>2, <3>3, <3>4, MoveStands
  <2> QED BY <2>2, <2>3
<1>7. calls \in [Calls -> Moves]
  <2>1. calls = [d \in Calls |-> calls[d]]
    BY DEF Disturbed, TreeInv, Types
  <2>2. calls[c] \in Moves
    <3>1. call[c] \in Moves /\ Disturbed(call, TRUE)[c] \in Moves
      BY <1>3, DisturbedRecord
    <3> QED BY <3>1
  <2> QED BY <1>6, <2>1, <2>2
<1> HIDE DEF calls
<1>8. \A d \in Calls : call'[d] = (IF d = c THEN n ELSE calls[d]) /\ wrote'[d] = IF d = c THEN Unwritten ELSE wrote[d]
  BY <1>2, <1>7 DEF TreeInv, Types
<1>9. Types'
  BY <1>1, <1>2, <1>4, <1>5, <1>7 DEF TreeInv, Types
<1>10. \A d \in Calls : CallOK(row', call'[d], wrote'[d])
  BY <1>5, <1>6, <1>8
<1>11. Locks'
  <2>1. \A e \in Ids : Unwritten[e] = Out
    BY DEF Unwritten
  <2> QED BY <1>8, <2>1 DEF TreeInv, Locks
<1> QED BY <1>1, <1>9, <1>10, <1>11 DEF TreeInv

-----------------------------------------------------------------------------
\* Every step

LEMMA InitTree == ASSUME NotebookAssumption, Init PROVE TreeInv
<1>1. /\ row = [e \in Ids |-> Out] /\ view = [t \in Tabs |-> row] /\ drag = [t \in Tabs |-> 0]
      /\ call = [c \in Calls |-> NoCall] /\ wrote = [c \in Calls |-> Unwritten] /\ add = Out /\ crossed = {}
  BY DEF Init
<1>2. NoCall \in Moves /\ Unwritten \in Writes /\ CallOK(row, NoCall, Unwritten)
  BY NoCalls, Idle DEF Steps
<1>3. Types
  BY <1>1, <1>2 DEF Types, Trees
<1>4. Locks
  BY <1>1 DEF Locks, Unwritten
<1>5. Entries(row) = {}
  BY <1>1, MarkersDiffer DEF Entries
<1>6. Forest(row, crossed)
  BY <1>5 DEF Forest, Circles
<1> QED BY <1>1, <1>2, <1>3, <1>4, <1>6 DEF TreeInv

\* There is a greatest position, and the next one is behind it.
LEMMA NextPosition ==
  ASSUME NotebookAssumption, NEW r \in Trees, NEW p
  PROVE  Max({r[c].pos : c \in Children(r, p)} \cup {0}) + 1 \in Nat
<1> DEFINE S == Children(r, p)
           P == {r[c].pos : c \in S} \cup {0}
<1>1. Cardinality(S) \in Nat /\ IsFiniteSet(S) /\ \A c \in S : c \in Nat /\ r[c].pos \in Nat
  BY ChildRows
<1>2. P \subseteq Nat
  BY <1>1
<1>3. \E x \in P : \A y \in P : x >= y
  <2>1. CASE S = {}
    BY <2>1
  <2>2. CASE S # {}
    <3>1. Cardinality(S) - 1 \in 0 .. Cardinality(S) - 1
      BY <1>1, <2>2, FS_EmptySet
    <3>2. PICK d \in S : Rank(r, p, d) = Cardinality(S) - 1
      BY <3>1, RanksAreNumbers
    <3>3. ASSUME NEW c \in S PROVE r[d].pos >= r[c].pos
      <4>1. ~(Rank(r, p, d) < Rank(r, p, c))
        BY <1>1, <3>2, RankFollows
      <4>2. ~Before(r, d, c)
        BY <4>1, RankFollows
      <4> QED BY <1>1, <4>2 DEF Before
    <3> QED BY <1>1, <3>3
  <2> QED BY <2>1, <2>2
<1>4. Max(P) \in P
  BY <1>3 DEF Max
<1> QED BY <1>2, <1>4

LEMMA ReadLastStep ==
  ASSUME NotebookAssumption, TreeInv, NEW p \in Ids \cup {Root}, ReadLast(p)
  PROVE  TreeInv'
<1> DEFINE pos == Max({row[x].pos : x \in Children(row, p)} \cup {0}) + 1
<1>1. pos \in Nat
  BY NextPosition DEF TreeInv, Types
<1>2. add' = [parent |-> p, pos |-> pos] /\ UNCHANGED <<row, view, drag, call, wrote, crossed>>
  BY DEF ReadLast
<1> HIDE DEF pos
<1>3. add' \in Rows
  BY <1>1, <1>2 DEF Rows
<1> QED BY <1>2, <1>3 DEF TreeInv, Types, Locks

LEMMA TreeKept == ASSUME NotebookAssumption, TreeInv, [Next]_vars PROVE TreeInv'
<1>1. CASE UNCHANGED vars
  BY <1>1 DEF vars, TreeInv, Types, Locks
<1>2. ASSUME NEW t \in Tabs,
             \/ DragEnd(t) \/ DropOnRoot(t) \/ Reload(t)
             \/ \E e \in Ids : DragStart(t, e) \/ DropOnRow(t, e) \/ DropOnChildren(t, e)
      PROVE  TreeInv'
  BY <1>2, DropStep, PageStep
<1>3. ASSUME NEW c \in Calls,
             \/ Load(c) \/ Find(c) \/ Walk(c) \/ Site(c) \/ Validate(c) \/ Write(c) \/ List(c)
             \/ Number(c) \/ ListOld(c) \/ Commit(c) \/ Rollback(c) \/ Answered(c)
      PROVE  TreeInv'
  BY <1>3, LoadStep, FindStep, WalkStep, SiteStep, ValidateStep, WriteStep, ListStep, NumberStep,
     ListOldStep, CommitStep, FailsStep, AnsweredStep DEF Rollback
<1>4. ASSUME \/ \E p \in Ids \cup {Root} : ReadLast(p)
             \/ \E e \in Ids : AddMemo(e) \/ RemoveMemo(e)
      PROVE  TreeInv'
  BY <1>4, ReadLastStep, AddStep, RemoveStep
<1> QED BY <1>1, <1>2, <1>3, <1>4 DEF Next

\* Only a commit has an answer.
LEMMA Answers ==
  ASSUME NotebookAssumption, TreeInv, [Next]_vars, NEW c \in Calls, call[c].at # "answer", call'[c].at = "answer"
  PROVE  Commit(c)
<1>1. call \in [Calls -> Moves]
  BY DEF TreeInv, Types
<1>2. ASSUME NEW d \in Calls, NEW n, call' = [call EXCEPT ![d] = n], n.at # "answer" PROVE FALSE
  BY <1>1, <1>2
<1>3. ASSUME UNCHANGED call PROVE FALSE
  BY <1>3
<1>4. Over.at # "answer" /\ NoCall.at = "unsent"
  BY DEF Over, NoCall
<1>5. ASSUME NEW moved \in BOOLEAN PROVE Disturbed(call, moved)[c].at = call[c].at
  BY <1>1 DEF Disturbed, Moves
<1>6. ASSUME NEW t \in Tabs,
             \/ DragEnd(t) \/ DropOnRoot(t) \/ Reload(t)
             \/ \E e \in Ids : DragStart(t, e) \/ DropOnRow(t, e) \/ DropOnChildren(t, e)
      PROVE  FALSE
  <2>1. ASSUME NEW p, NEW pos, Patch(t, p, pos) PROVE FALSE
    <3>1. PICK d \in Calls : call' = [call EXCEPT ![d] = [NoCall EXCEPT !.at = "sent", !.tab = t, !.entry = drag[t],
                                                                        !.parent = p, !.pos = pos]]
      BY <2>1 DEF Patch
    <3>2. [NoCall EXCEPT !.at = "sent", !.tab = t, !.entry = drag[t], !.parent = p, !.pos = pos].at = "sent"
      BY DEF NoCall
    <3> QED BY <1>2, <3>1, <3>2
  <2> QED BY <1>3, <1>6, <2>1 DEF DragEnd, Reload, DragStart, DropOnRoot, DropOnRow, DropOnChildren
<1>7. ASSUME NEW d \in Calls, Fails(d) PROVE FALSE
  BY <1>2, <1>4, <1>7 DEF Fails
<1>8. ASSUME NEW d \in Calls,
             \/ Load(d) \/ Find(d) \/ Walk(d) \/ Site(d) \/ Validate(d) \/ Write(d) \/ List(d)
             \/ Number(d) \/ ListOld(d) \/ Answered(d)
      PROVE  FALSE
  <2>1. call[d] \in Moves
    BY <1>1
  <2>2. CASE Load(d)
    BY <1>1, <1>7, <2>2 DEF Load, Moves
  <2>3. CASE Find(d)
    BY <1>1, <1>7, <2>3 DEF Find, Moves
  <2>4. CASE Walk(d)
    <3>1. CASE call[d].up = call[d].entry
      BY <1>7, <2>4, <3>1 DEF Walk
    <3>2. CASE call[d].up # call[d].entry
      <4>1. /\ call[d].at \in {"walk", "check"}
            /\ call' = IF call[d].up = Root \/ call[d].up \in call[d].seen
                       THEN [call EXCEPT ![d].at = IF @ = "walk" THEN "site" ELSE "write",
                                         ![d].up = Root, ![d].seen = {}]
                       ELSE [call EXCEPT ![d].seen = @ \cup {call[d].up},
                                         ![d].up = IF call[d].up \in Entries(row) THEN row[call[d].up].parent ELSE Root]
        BY <2>4, <3>2 DEF Walk
      <4>2. call'[d].at \in {"site", "write", "walk", "check"}
        BY <1>1, <2>1, <4>1 DEF Moves
      <4>3. d # c => call'[c] = call[c]
        BY <1>1, <4>1
      <4> QED BY <4>2, <4>3
    <3> QED BY <3>1, <3>2
  <2>5. CASE Site(d)
    BY <1>1, <2>5 DEF Site, Moves
  <2>6. CASE Validate(d)
    BY <1>1, <2>6 DEF Validate, Moves
  <2>7. CASE Write(d)
    BY <1>1, <1>7, <2>7 DEF Write, Moves
  <2>8. CASE List(d)
    BY <1>1, <2>8 DEF List, Moves
  <2>9. CASE Number(d)
    BY <1>1, <2>9 DEF Number, Moves
  <2>10. CASE ListOld(d)
    BY <1>1, <2>10 DEF ListOld, Moves
  <2>11. CASE Answered(d)
    BY <1>2, <1>4, <2>11 DEF Answered
  <2> QED BY <1>8, <2>2, <2>3, <2>4, <2>5, <2>6, <2>7, <2>8, <2>9, <2>10, <2>11
<1>9. ASSUME \/ \E p \in Ids \cup {Root} : ReadLast(p)
             \/ \E e \in Ids : AddMemo(e) \/ RemoveMemo(e)
      PROVE  FALSE
  BY <1>3, <1>5, <1>9 DEF ReadLast, AddMemo, RemoveMemo
<1>10. ASSUME NEW d \in Calls, Commit(d), d # c PROVE FALSE
  <2> DEFINE calls == IF row' = row THEN call ELSE Disturbed(call, TRUE)
  <2>1. \E n : call' = [calls EXCEPT ![d] = n]
    BY <1>10 DEF Commit
  <2>2. c \in DOMAIN calls
    BY <1>1 DEF Disturbed
  <2>3. calls[c].at = call[c].at
    BY <1>5
  <2> HIDE DEF calls
  <2> QED BY <1>10, <2>1, <2>2, <2>3
<1> QED BY <1>3, <1>6, <1>7, <1>8, <1>9, <1>10 DEF Next, vars, Rollback

-----------------------------------------------------------------------------
\* Theorems

\* The rows, what the pages show of them, and the moves keep their types; only
\* a move in its transaction has written rows.
THEOREM TypeCorrect == ASSUME NotebookAssumption PROVE Spec => []TypeOK
<1>1. Init => TreeInv
  BY InitTree
<1>2. TreeInv /\ [Next]_vars => TreeInv'
  BY TreeKept
<1>3. TreeInv => TypeOK
  <2> SUFFICES ASSUME TreeInv PROVE TypeOK
    OBVIOUS
  <2>1. \A e \in Ids : row[e] \in {Out, Gone} \/ (row[e].parent \in Ids \cup {Root} /\ row[e].pos \in Nat)
    BY DEF TreeInv, Types, Trees, Rows
  <2>2. ASSUME NEW c \in Calls
        PROVE  /\ call[c].at \in Steps \cup {"unsent", "sent", "answer", "over"}
               /\ call[c].at \in Steps => call[c].old.pos \in Nat /\ call[c].pos \in Nat
               /\ \A e \in Ids : wrote[c][e] # Out => wrote[c][e].pos \in Nat /\ call[c].at \in Steps
    <3>1. call[c] \in Moves /\ wrote[c] \in Writes /\ CallOK(row, call[c], wrote[c])
      BY DEF TreeInv, Types
    <3>2. call[c].at \in Steps \cup {"unsent", "sent", "answer", "over"} /\ call[c].pos \in Nat
      BY <3>1 DEF Moves
    <3>3. call[c].at \in Steps => call[c].old.pos \in Nat
      BY <3>1 DEF CallOK, StepOK, Rows
    <3>4. ASSUME NEW e \in Ids, wrote[c][e] # Out PROVE wrote[c][e].pos \in Nat /\ call[c].at \in Steps
      BY <3>1, <3>4 DEF CallOK, LockOK, Written, Steps, Writes, Rows
    <3> QED BY <3>2, <3>3, <3>4
  <2> QED BY <2>1, <2>2 DEF TypeOK, TreeInv, Types
<1> QED BY <1>1, <1>2, <1>3, PTL DEF Spec

\* However many pages move at once, and whatever is added and removed between the
\* statements of a move: no entry hangs below one that is gone, and every circle of
\* entries holds one that was hung there while another move was committed.  Moves
\* that do not overlap leave a forest (MoveMemo, NotebookMemo#descendant_of?,
\* dependent: :nullify).
THEOREM StaysForest == ASSUME NotebookAssumption PROVE Spec => []EntriesAreForest
<1>1. Init => TreeInv
  BY InitTree
<1>2. TreeInv /\ [Next]_vars => TreeInv'
  BY TreeKept
<1>3. TreeInv => EntriesAreForest
  BY DEF TreeInv, Forest, EntriesAreForest
<1> QED BY <1>1, <1>2, <1>3, PTL DEF Spec

\* A move that nobody else has committed into since it read the new siblings
\* leaves the children of both its parents numbered from 0, whatever gaps and
\* ties there were (renumber!).
THEOREM SiblingsNumbered == ASSUME NotebookAssumption PROVE Spec => [][MoveNumbersSiblings]_vars
<1>1. Init => TreeInv
  BY InitTree
<1>2. TreeInv /\ [Next]_vars => TreeInv'
  BY TreeKept
<1>3. TreeInv /\ [Next]_vars => MoveNumbersSiblings
  <2> SUFFICES ASSUME TreeInv, [Next]_vars, NEW c \in Calls,
                      call[c].at # "answer", call'[c].at = "answer", call[c].still,
                      NEW p \in {call[c].parent, call[c].old.parent}
               PROVE  Dense(row', p)
    BY DEF MoveNumbersSiblings, Dense
  <2>1. Commit(c)
    BY Answers
  <2> DEFINE m == call[c]
             r == Reading(row, wrote[c])
  <2>2. row' = r /\ NumberOK(row, m, wrote[c])
    BY <2>1, InvFacts DEF Commit, CallOK
  <2>3. m.plan = Unplanned /\ m.at = IF m.old.parent = m.parent THEN "number" ELSE "numberOld"
    BY <2>1 DEF Commit
  <2>4. CASE m.old.parent = m.parent
    BY <2>2, <2>3, <2>4, PlanDone DEF NumberOK
  <2>5. CASE m.old.parent # m.parent
    BY <2>2, <2>3, <2>5, PlanDone DEF NumberOK
  <2> QED BY <2>4, <2>5
<1> QED BY <1>1, <1>2, <1>3, PTL DEF Spec

=============================================================================
