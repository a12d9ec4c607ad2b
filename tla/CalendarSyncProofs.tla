---------------------- MODULE CalendarSyncProofs ----------------------
(* Proofs about CalendarSync for any events, workers, changes and failures. *)
EXTENDS CalendarSync, FiniteSetTheorems, WellFoundedInduction, TLAPS

-----------------------------------------------------------------------------
\* The invariant

TypeInv ==
  TypeOK /\ IsFiniteSet(memos) /\ \A r \in Runs : run[r].step = "save" => run[r].item \in Items

\* What is kept and known was so at Google no later than now.
PastOK ==
  /\ google.floor <= google.at /\ account.token <= google.at
  /\ \A e \in Events : google.event[e] <= google.at /\ google.occurrence[e] <= google.at
  /\ \A r \in Runs : run[r].token <= google.at /\ run[r].next <= google.at

\* A worker that has been alone since it began is the only one, nobody else has stored
\* a token, and what it clears is all there is.
AloneOK ==
  \A r \in Active : run[r].alone =>
    /\ Active = {r} /\ account.token \in {run[r].token, None}
    /\ run[r].step = "clear" => {m.id : m \in memos} \subseteq run[r].ids

\* The memos of an event are as of its last change (TokenCoversImport).
Good(e) ==
  {m.etag : m \in {m \in memos : m.event = e}} = IF e \in google.alive THEN {google.event[e]} ELSE {}
CoveredTo(token) == \A e \in Events : google.event[e] \in 1 .. token => Good(e)

\* An event that a run has still to bring into its memo: not yet on a page, on this
\* one, or about to be saved.
Pending(s, e) ==
  \/ <<e, "event">> \in s.rest
  \/ \E i \in s.items : i.kind = "event" /\ i.event = e
  \/ s.step = "save" /\ s.item.kind = "event" /\ s.item.event = e

\* An entry says what Google has, unless the event is changed since the list began.
ItemOK(i, next) ==
  IF i.kind = "event"
  THEN google.event[i.event] \in 1 .. next =>
         i.v = google.event[i.event] /\ (i.alive <=> i.event \in google.alive)
  ELSE ~i.alive

Importing == {"page", "items", "save", "touch"}

\* A run that is alone: what it has listed is in the memos or still pending, and
\* what it saves belongs to the row it has loaded.
RunOK(s) ==
  /\ s.step = "first" => CoveredTo(s.token)
  /\ s.step \in Importing =>
       /\ account.token <= s.next
       /\ \A e \in Events : google.event[e] \in 1 .. s.next => Good(e) \/ Pending(s, e)
       /\ \A i \in s.items : ItemOK(i, s.next)
  /\ s.step \in {"first", "page", "touch"} => s.items = {}
  /\ s.step = "touch" => s.rest = {}
  /\ s.step = "save" =>
       /\ ItemOK(s.item, s.next)
       /\ \/ /\ s.ld = NoRow /\ (\A m \in memos : m.event # s.item.event)
             /\ s.item.kind = "event" /\ s.item.alive
          \/ s.ld \in memos /\ s.ld.event = s.item.event

NoDoubtOK ==
  ~doubt =>
    /\ \A r \in Active : run[r].alone
    /\ \A m, n \in memos : m.event = n.event => m = n
    /\ (\A r \in Runs : run[r].step # "clear") => CoveredTo(account.token)
    /\ \A r \in Runs : RunOK(run[r])

Inv == TypeInv /\ PastOK /\ AloneOK /\ NoDoubtOK

-----------------------------------------------------------------------------
\* Types

\* A set of numbers has a least one.
LEMMA LeastNumber ==
  ASSUME NEW S \in SUBSET Nat, S # {}
  PROVE  \E x \in S : \A y \in S : x <= y
<1>1. PICK x \in S : \A y \in S : ~(<<y, x>> \in OpToRel(<, Nat))
  BY WFMin, NatLessThanWellFounded
<1>2. ASSUME NEW y \in S PROVE x <= y
  <2>1. ~(y < x)
    BY <1>1 DEF OpToRel
  <2> QED BY <2>1
<1> QED BY <1>2

\* There is an id that no row has and no worker holds: those are finitely many.
LEMMA FreshId ==
  ASSUME CalendarAssumption, TypeInv
  PROVE  NewId \in Ids /\ NewId \notin UsedIds
<1> DEFINE held == {run[r].ld.id : r \in Runs}
           rows == {m.id : m \in memos}
<1>1. IsFiniteSet(held)
  <2> DEFINE f == [r \in Runs |-> run[r].ld.id]
  <2>1. f \in Surjection(Runs, held)
    BY DEF Surjection
  <2> QED BY <2>1, FS_Surjection DEF CalendarAssumption
<1>2. IsFiniteSet(rows)
  <2> DEFINE f == [m \in memos |-> m.id]
  <2>1. f \in Surjection(memos, rows)
    BY DEF Surjection
  <2> QED BY <2>1, FS_Surjection DEF TypeInv
<1>3. IsFiniteSet(UsedIds) /\ Cardinality(UsedIds) \in Nat
  BY <1>1, <1>2, FS_Union, FS_CardinalityType DEF UsedIds
<1> DEFINE n == Cardinality(UsedIds)
           some == 1 .. n + 1
<1>4. ~(some \subseteq UsedIds)
  <2>1. Cardinality(some) = n + 1
    BY <1>3, FS_Interval
  <2>2. some \subseteq UsedIds => Cardinality(some) <= n
    BY <1>3, FS_Subset
  <2> QED BY <1>3, <2>1, <2>2
<1>5. NewId \in some /\ NewId \notin UsedIds
  BY <1>4 DEF NewId
<1> QED BY <1>3, <1>5 DEF Ids

\* What a worker may be when it begins or ends.
LEMMA IdleTypes ==
  ASSUME CalendarAssumption
  PROVE  /\ Idle \in Workers /\ None \in Versions /\ Idle.step = "idle"
         /\ \A alone \in BOOLEAN : [Idle EXCEPT !.step = "first", !.alone = alone] \in Workers
         /\ \A ids \in SUBSET Ids, token \in Versions, alone \in BOOLEAN :
              [[Idle EXCEPT !.step = "clear", !.ids = ids] EXCEPT !.token = token, !.alone = alone]
                 \in Workers
         /\ \A token \in Versions, alone \in BOOLEAN :
              [[Idle EXCEPT !.step = "first"] EXCEPT !.token = token, !.alone = alone] \in Workers
<1>1. None \in Versions
  BY DEF CalendarAssumption, Versions, None
<1>2. NoItem \in Items \cup {NoItem} /\ NoRow \in MemoRows \cup {NoRow}
  OBVIOUS
<1>3. {} \in SUBSET (Events \X {"event", "occurrence"}) /\ {} \in SUBSET Items /\ {} \in SUBSET Ids
  OBVIOUS
<1>4. Idle \in Workers
  BY <1>1, <1>2, <1>3 DEF Idle, Workers
<1>5. \A s \in Workers, alone \in BOOLEAN : [s EXCEPT !.step = "first", !.alone = alone] \in Workers
  BY DEF Workers
<1>6. \A s \in Workers, ids \in SUBSET Ids, token \in Versions, alone \in BOOLEAN :
        [[s EXCEPT !.step = "clear", !.ids = ids] EXCEPT !.token = token, !.alone = alone] \in Workers
  BY DEF Workers
<1>7. \A s \in Workers, token \in Versions, alone \in BOOLEAN :
        [[s EXCEPT !.step = "first"] EXCEPT !.token = token, !.alone = alone] \in Workers
  BY DEF Workers
<1>8. Idle.step = "idle"
  BY DEF Idle
<1> QED BY ONLY <1>1, <1>4, <1>5, <1>6, <1>7, <1>8

\* The parts of the types, one by one.
LEMMA TypesKnown ==
  ASSUME TypeInv
  PROVE  /\ google \in Calendars /\ account \in [connected : BOOLEAN, token : Versions]
         /\ account.token \in Versions /\ google.at \in Versions
         /\ memos \subseteq MemoRows /\ IsFiniteSet(memos)
         /\ \A m, n \in memos : m.id = n.id => m = n
         /\ run \in [Runs -> Workers]
         /\ \A r \in Runs : run[r] \in Workers /\ (run[r].step = "save" => run[r].item \in Items)
         /\ doubt \in BOOLEAN /\ starts \in Nat /\ faults \in Nat
BY DEF TypeInv, TypeOK, Calendars

\* A step of one worker that leaves the memos alone.
LEMMA WorkerTypes ==
  ASSUME TypeInv, NEW r \in Runs, run' = [run EXCEPT ![r] = run'[r]], run'[r] \in Workers,
         run'[r].step = "save" => run'[r].item \in Items,
         account' \in [connected : BOOLEAN, token : Versions],
         memos' \subseteq MemoRows, IsFiniteSet(memos'), \A m, n \in memos' : m.id = n.id => m = n,
         google' = google, doubt' \in BOOLEAN, starts' \in Nat, faults' \in Nat
  PROVE  TypeInv'
<1>1. run \in [Runs -> Workers] /\ \A q \in Runs : run[q].step = "save" => run[q].item \in Items
  BY DEF TypeInv, TypeOK
<1>2. run' \in [Runs -> Workers] /\ \A q \in Runs : q # r => run'[q] = run[q]
  BY <1>1
<1>3. \A q \in Runs : run'[q].step = "save" => run'[q].item \in Items
  BY <1>1, <1>2
<1> QED BY <1>2, <1>3 DEF TypeInv, TypeOK

LEMMA ListEventsTypes ==
  ASSUME TypeInv, NEW r \in Runs, ListEvents(r)
  PROVE  TypeInv'
<1> DEFINE first == run[r].step = "first"
           rest == IF first THEN Changed(run[r].token) ELSE run[r].rest
<1>1. PICK keys \in SUBSET rest :
        /\ keys # {} \/ rest = {}
        /\ Becomes(r, [run[r] EXCEPT !.step = "items", !.rest = rest \ keys, !.items = Listed(keys),
                                     !.next = IF first THEN google.at ELSE @])
  BY DEF ListEvents
<1>2. run \in [Runs -> Workers] /\ run[r] \in Workers /\ google \in Calendars
  BY DEF TypeInv, TypeOK
<1>3. rest \in SUBSET (Events \X {"event", "occurrence"})
  BY <1>2 DEF Changed, Workers
<1>4. Listed(keys) \in SUBSET Items
  <2> SUFFICES ASSUME NEW k \in keys
               PROVE  [event |-> k[1], kind |-> k[2], alive |-> k[2] = "event" /\ k[1] \in google.alive,
                       v |-> google[k[2]][k[1]]] \in Items
    BY DEF Listed
  <2>1. k[1] \in Events /\ k[2] \in {"event", "occurrence"}
    BY <1>3
  <2>2. google.event[k[1]] \in Versions /\ google.occurrence[k[1]] \in Versions
    BY <1>2, <2>1 DEF Calendars
  <2>3. google[k[2]][k[1]] \in Versions
    BY <2>1, <2>2
  <2> QED BY <2>1, <2>3 DEF Items
<1> DEFINE s == [run[r] EXCEPT !.step = "items", !.rest = rest \ keys, !.items = Listed(keys),
                               !.next = IF first THEN google.at ELSE @]
<1>5. s \in Workers /\ s.step = "items"
  <2>1. rest \ keys \in SUBSET (Events \X {"event", "occurrence"})
    BY <1>3
  <2>2. google.at \in Versions /\ run[r].next \in Versions
    BY <1>2 DEF Calendars, Workers
  <2> HIDE DEF rest, first
  <2> QED BY <1>2, <1>4, <2>1, <2>2 DEF Workers
<1>6. run'[r] \in Workers /\ run'[r].step = "items" /\ run' = [run EXCEPT ![r] = run'[r]]
  BY <1>1, <1>2, <1>5 DEF Becomes
<1>7. UNCHANGED <<account, memos, faults, google, doubt, starts>>
  BY DEF ListEvents, Quiet
<1> QED BY <1>6, <1>7, WorkerTypes DEF TypeInv, TypeOK

LEMMA StartTypes ==
  ASSUME CalendarAssumption, TypeInv, NEW r \in Runs, StartSync(r) \/ StartClear(r)
  PROVE  TypeInv'
<1>1. \A q \in Runs : run[q] \in Workers /\ (run[q].step = "save" => run[q].item \in Items)
  BY DEF TypeInv, TypeOK
<1>2. account.token \in Versions /\ (Active = {}) \in BOOLEAN /\ {m.id : m \in memos} \in SUBSET Ids
  BY DEF TypeInv, TypeOK, MemoRows
<1>3. ASSUME NEW q \in Runs
      PROVE  run'[q] \in Workers /\ (run'[q].step = "save" => run'[q].item \in Items)
  <2>1. q # r => run'[q] \in {run[q], [run[q] EXCEPT !.alone = FALSE]}
    BY DEF StartSync, StartClear, Starts
  <2>2. [run[q] EXCEPT !.alone = FALSE] \in Workers /\ [run[q] EXCEPT !.alone = FALSE].step = run[q].step
        /\ [run[q] EXCEPT !.alone = FALSE].item = run[q].item
    BY <1>1 DEF Workers
  <2>3. CASE StartSync(r)
    <3>1. run'[r] = [[Idle EXCEPT !.step = "first"] EXCEPT !.token = account.token, !.alone = Active = {}]
      BY <2>3 DEF StartSync, Starts
    <3>2. run'[r] \in Workers
      BY <1>2, <3>1, IdleTypes
    <3>3. run'[r].step = "first"
      BY <3>1 DEF Idle
    <3> QED BY <1>1, <2>1, <2>2, <3>2, <3>3
  <2>4. CASE StartClear(r)
    <3>1. run'[r] = [[Idle EXCEPT !.step = "clear", !.ids = {m.id : m \in memos}]
                       EXCEPT !.token = account.token, !.alone = Active = {}]
      BY <2>4 DEF StartClear, Starts
    <3>2. run'[r] \in Workers
      <4> DEFINE ids == {m.id : m \in memos}
      <4>1. ids \in SUBSET Ids /\ run'[r] = [[Idle EXCEPT !.step = "clear", !.ids = ids]
                                              EXCEPT !.token = account.token, !.alone = Active = {}]
        BY <1>2, <3>1
      <4> HIDE DEF ids
      <4>2. \A alone \in BOOLEAN : [[Idle EXCEPT !.step = "clear", !.ids = ids]
                                    EXCEPT !.token = account.token, !.alone = alone] \in Workers
        BY <1>2, <4>1, IdleTypes
      <4> QED BY <1>2, <4>1, <4>2
    <3>3. run'[r].step = "clear"
      BY <3>1 DEF Idle
    <3> QED BY <1>1, <2>1, <2>2, <3>2, <3>3
  <2> QED BY <2>3, <2>4
<1>4. run' \in [Runs -> Workers]
  <2>1. run' = [q \in Runs |-> run'[q]]
    BY DEF StartSync, StartClear, Starts
  <2> QED BY <1>3, <2>1
<1>5. UNCHANGED <<google, account, memos, faults>> /\ starts' \in Nat /\ doubt' \in BOOLEAN
  <2>1. UNCHANGED <<google, account, memos, faults>> /\ starts' = starts + 1
        /\ doubt' = (doubt \/ Active # {})
    BY DEF StartSync, StartClear, Starts
  <2> QED BY <2>1, TypesKnown
<1> QED BY <1>3, <1>4, <1>5 DEF TypeInv, TypeOK

LEMMA EndTypes ==
  ASSUME CalendarAssumption, TypeInv, NEW r \in Runs,
         TokenExpired(r) \/ ListFails(r) \/ TouchSyncMeta(r) \/ Dies(r) \/ ClearToken(r)
  PROVE  TypeInv'
<1>1. /\ run' = [run EXCEPT ![r] = run'[r]]
      /\ run'[r] \in {Idle, [Idle EXCEPT !.step = "first", !.alone = run[r].alone]}
  BY DEF TokenExpired, ListFails, TouchSyncMeta, Dies, ClearToken, Becomes, FailedEnds, TypeInv, TypeOK
<1>2. run[r].alone \in BOOLEAN /\ run[r].next \in Versions /\ account.token \in Versions /\ None \in Versions
  <2>1. run[r] \in Workers
    BY TypesKnown
  <2> QED BY <2>1, IdleTypes, TypesKnown DEF Workers
<1>3. run'[r] \in Workers /\ run'[r].step # "save"
  <2>1. run'[r] \in Workers
    BY <1>1, <1>2, IdleTypes
  <2>2. run'[r].step # "save"
    <3>1. CASE run'[r] = Idle
      BY <3>1 DEF Idle
    <3>2. CASE run'[r] = [Idle EXCEPT !.step = "first", !.alone = run[r].alone]
      BY <3>2 DEF Idle
    <3> QED BY <1>1, <3>1, <3>2
  <2> QED BY <2>1, <2>2
<1>4. account' \in [connected : BOOLEAN, token : Versions]
  BY <1>2 DEF TokenExpired, ListFails, TouchSyncMeta, Dies, ClearToken, TypeInv, TypeOK
<1>5. memos' = memos /\ google' = google /\ starts' = starts
  BY DEF TokenExpired, ListFails, TouchSyncMeta, Dies, ClearToken, Quiet
<1>6. faults' \in {faults, faults + 1}
  BY DEF TokenExpired, ListFails, TouchSyncMeta, Dies, ClearToken
<1>7. doubt' \in BOOLEAN
  BY TypesKnown DEF TokenExpired, ListFails, TouchSyncMeta, Dies, ClearToken, Quiet
<1> QED BY <1>1, <1>3, <1>4, <1>5, <1>6, <1>7, TypesKnown, WorkerTypes


\* The memo of an event is a row of it, if there is one.
LEMMA FoundRow ==
  ASSUME TypeInv, NEW e \in Events
  PROVE  \/ Found(e) = NoRow /\ \A m \in memos : m.event # e
         \/ Found(e) \in memos /\ Found(e).event = e
<1> DEFINE rows == {m \in memos : m.event = e}
<1>1. CASE rows = {}
  BY <1>1 DEF Found
<1>2. CASE rows # {}
  <2>2. rows \subseteq MemoRows
    BY TypesKnown
  <2>3. \E m \in rows : \A n \in rows : m.id <= n.id
    <3>1. \A n \in rows : n.id \in Nat
      BY <2>2 DEF MemoRows, Ids
    <3> DEFINE ids == {n.id : n \in rows}
    <3>2. ids \in SUBSET Nat /\ ids # {}
      BY <1>2, <3>1
    <3>3. PICK x \in ids : \A y \in ids : x <= y
      <4> HIDE DEF ids
      <4> QED BY <3>2, LeastNumber
    <3> QED BY <3>3
  <2>4. Found(e) \in rows
    BY <1>2, <2>3 DEF Found
  <2> QED BY <2>4
<1> QED BY <1>1, <1>2

LEMMA LoadTypes ==
  ASSUME TypeInv, NEW r \in Runs, NEW i \in run[r].items, LoadMemo(r, i)
  PROVE  TypeInv'
<1>1. run[r] \in Workers /\ i \in Items /\ i.event \in Events
  BY TypesKnown DEF Workers, Items
<1>2. Found(i.event) \in MemoRows \cup {NoRow}
  <2>1. Found(i.event) = NoRow \/ Found(i.event) \in memos
    BY <1>1, FoundRow
  <2> QED BY <2>1, TypesKnown
<1> DEFINE s == [run[r] EXCEPT !.items = @ \ {i}]
           t == [s EXCEPT !.step = "save", !.item = i, !.ld = Found(i.event)]
<1>3. s \in Workers /\ s.step = run[r].step /\ run[r].step = "items"
  BY <1>1 DEF Workers, LoadMemo
<1>4. t \in Workers /\ t.item = i
  <2> HIDE DEF s
  <2> QED BY <1>1, <1>2, <1>3 DEF Workers
<1>5. run' = [run EXCEPT ![r] = IF Skips(i, Found(i.event)) THEN s ELSE t]
  BY DEF LoadMemo, Becomes
<1>6. run'[r] = IF Skips(i, Found(i.event)) THEN s ELSE t
  BY <1>5, TypesKnown
<1>7. UNCHANGED <<account, memos, faults, google, doubt, starts>>
  BY DEF LoadMemo, Quiet
<1> HIDE DEF s, t
<1>8. run'[r] \in Workers /\ (run'[r].step = "save" => run'[r].item \in Items)
  BY <1>1, <1>3, <1>4, <1>6
<1> QED BY <1>5, <1>6, <1>7, <1>8, TypesKnown, WorkerTypes

\* What a row becomes is a row with its id.
LEMMA SavedRow ==
  ASSUME NEW i \in Items, NEW m \in MemoRows
  PROVE  /\ Saved(i, m) \in MemoRows /\ Saved(i, m).id = m.id /\ Saved(i, m).event = m.event
         /\ Saved(i, m).etag = (IF i.kind = "event" THEN i.v ELSE m.etag)
         /\ m.out => Saved(i, m).out
<1>1. i.v \in Versions /\ m.out \in BOOLEAN
  BY DEF Items, MemoRows
<1>2. CASE i.kind = "event"
  BY <1>1, <1>2 DEF Saved, Kept, MemoRows
<1>3. CASE i.kind # "event"
  BY <1>1, <1>3 DEF Saved, MemoRows
<1> QED BY <1>2, <1>3

\* The rows behind the saving of an item i with the loaded copy m.
Others(m) == {n \in memos : n.id # m.id}
Fresh(i) == [id |-> NewId, event |-> i.event, etag |-> i.v, out |-> FALSE]

LEMMA SaveRows ==
  ASSUME TypeInv, NEW r \in Runs, SaveMemo(r)
  PROVE  /\ run[r].item \in Items /\ run[r].ld \in MemoRows \cup {NoRow} /\ run[r].step = "save"
         /\ \/ memos' = Others(run[r].ld) /\ run[r].item.kind = "event" /\ ~run[r].item.alive
            \/ ~(run[r].item.kind = "event" /\ ~run[r].item.alive) /\
               \/ run[r].ld = NoRow /\ memos' = memos \cup {Fresh(run[r].item)}
               \/ run[r].ld \in MemoRows /\ memos' = Others(run[r].ld) \cup {Saved(run[r].item, run[r].ld)}
               \/ run[r].ld \in MemoRows /\ memos' = memos /\ \A n \in memos : n.id # run[r].ld.id
<1>1. run[r].item \in Items /\ run[r].ld \in MemoRows \cup {NoRow} /\ run[r].step = "save"
  <2>1. run[r].step = "save"
    BY DEF SaveMemo
  <2>2. run[r] \in Workers /\ run[r].item \in Items
    BY <2>1, TypesKnown
  <2> QED BY <2>1, <2>2 DEF Workers
<1> DEFINE i == run[r].item
           m == run[r].ld
<1>2. memos' = IF i.kind = "event" /\ ~i.alive THEN Others(m)
               ELSE IF m = NoRow THEN memos \cup {Fresh(i)}
               ELSE IF \E n \in memos : n.id = m.id THEN Others(m) \cup {Saved(i, m)} ELSE memos
  BY DEF SaveMemo, Others, Fresh
<1> HIDE DEF i, m
<1>3. i = run[r].item /\ m = run[r].ld
  BY DEF i, m
<1> QED BY <1>1, <1>2, <1>3

LEMMA SaveTypes ==
  ASSUME CalendarAssumption, TypeInv, NEW r \in Runs, SaveMemo(r)
  PROVE  TypeInv'
<1> DEFINE i == run[r].item
           m == run[r].ld
<1>1. run[r] \in Workers /\ i \in Items /\ i.event \in Events /\ i.v \in Versions
  BY SaveRows, TypesKnown DEF Items
<1>2. Fresh(i) \in MemoRows /\ Fresh(i).id = NewId /\ \A n \in memos : n.id # NewId
  BY <1>1, FreshId DEF Fresh, MemoRows, UsedIds
<1>3. memos \subseteq MemoRows /\ IsFiniteSet(memos) /\ \A a, b \in memos : a.id = b.id => a = b
  BY TypesKnown
<1>4. IsFiniteSet(Others(m)) /\ Others(m) \subseteq memos /\ \A n \in Others(m) : n.id # m.id
  BY <1>3, FS_Subset DEF Others
<1>5. m \in MemoRows => Saved(i, m) \in MemoRows /\ Saved(i, m).id = m.id
  BY <1>1, SavedRow
<1>6. /\ memos' \in {Others(m), memos, memos \cup {Fresh(i)}, Others(m) \cup {Saved(i, m)}}
      /\ memos' = Others(m) \cup {Saved(i, m)} =>
               m \in MemoRows \/ memos' \in {Others(m), memos, memos \cup {Fresh(i)}}
  BY SaveRows
<1>7. IsFiniteSet(memos \cup {Fresh(i)}) /\ IsFiniteSet(Others(m) \cup {Saved(i, m)})
  BY <1>3, <1>4, FS_AddElement
<1>8. memos' \subseteq MemoRows /\ IsFiniteSet(memos') /\ \A a, b \in memos' : a.id = b.id => a = b
  <2> HIDE DEF m, i
  <2>1. CASE memos' \in {Others(m), memos}
    BY <1>3, <1>4, <2>1
  <2>2. CASE memos' = memos \cup {Fresh(i)}
    BY <1>2, <1>3, <1>7, <2>2
  <2>3. CASE memos' = Others(m) \cup {Saved(i, m)} /\ m \in MemoRows
    BY <1>3, <1>4, <1>5, <1>7, <2>3
  <2> QED BY <1>6, <2>1, <2>2, <2>3
<1>9. run' = [run EXCEPT ![r] = run'[r]]
      /\ run'[r] \in {Idle, [run[r] EXCEPT !.step = "items", !.item = NoItem, !.ld = NoRow]}
  BY TypesKnown DEF SaveMemo, Becomes
<1>10. [run[r] EXCEPT !.step = "items", !.item = NoItem, !.ld = NoRow] \in Workers
  BY <1>1 DEF Workers
<1>11. [run[r] EXCEPT !.step = "items", !.item = NoItem, !.ld = NoRow].step # "save"
  BY <1>1 DEF Workers
<1>12. run'[r] \in Workers /\ run'[r].step # "save"
  BY <1>9, <1>10, <1>11, IdleTypes
<1>13. UNCHANGED <<account, faults, google, doubt, starts>>
  BY DEF SaveMemo, Quiet
<1> QED BY <1>8, <1>9, <1>12, <1>13, TypesKnown, WorkerTypes

LEMMA PageDoneTypes ==
  ASSUME TypeInv, NEW r \in Runs, PageDone(r)
  PROVE  TypeInv'
<1>1. run' = [run EXCEPT ![r] = run'[r]]
      /\ run'[r] \in {[run[r] EXCEPT !.step = "touch"], [run[r] EXCEPT !.step = "page"]}
  BY TypesKnown DEF PageDone, Becomes
<1>2. run[r] \in Workers
  BY TypesKnown
<1>3. run'[r] \in Workers /\ run'[r].step # "save"
  BY <1>1, <1>2 DEF Workers
<1>4. UNCHANGED <<account, memos, faults, google, doubt, starts>>
  BY DEF PageDone, Quiet
<1> QED BY <1>1, <1>3, <1>4, TypesKnown, WorkerTypes

LEMMA ClearMemoTypes ==
  ASSUME TypeInv, NEW r \in Runs, NEW id \in run[r].ids, ClearMemo(r, id)
  PROVE  TypeInv'
<1>1. run' = [run EXCEPT ![r] = run'[r]] /\ run'[r] = [run[r] EXCEPT !.ids = @ \ {id}]
  BY TypesKnown DEF ClearMemo, Becomes
<1>2. run[r] \in Workers /\ run[r].step = "clear"
  BY TypesKnown DEF ClearMemo
<1>3. run'[r] \in Workers /\ run'[r].step # "save"
  BY <1>1, <1>2 DEF Workers
<1>4. memos' \subseteq memos /\ IsFiniteSet(memos')
  BY TypesKnown, FS_Subset DEF ClearMemo
<1>5. UNCHANGED <<account, faults, google, doubt, starts>>
  BY DEF ClearMemo, Quiet
<1> QED BY <1>1, <1>3, <1>4, <1>5, TypesKnown, WorkerTypes

LEMMA GoogleTypes ==
  ASSUME CalendarAssumption, TypeInv, NEW e \in Events, Change(e) \/ Forget(e)
  PROVE  TypeInv'
<1>1. google \in Calendars /\ MaxVersion \in Nat
  BY TypesKnown DEF CalendarAssumption
<1>2. UNCHANGED <<account, memos, run, doubt, starts, faults>>
  BY DEF Change, Forget, Google
<1>3. ASSUME Change(e) PROVE google' \in Calendars
  <2> DEFINE g == [google EXCEPT !.at = @ + 1]
  <2>1. google.at < MaxVersion
    BY <1>3 DEF Change
  <2>2. g \in Calendars /\ g.at \in Versions
    BY <1>1, <2>1 DEF Calendars, Versions
  <2>3. \/ google' = [g EXCEPT !.event[e] = g.at, !.alive = @ \cup {e}]
        \/ google' = [g EXCEPT !.event[e] = g.at, !.alive = @ \ {e}]
        \/ google' = [g EXCEPT !.occurrence[e] = g.at]
    BY <1>3 DEF Change, Google
  <2> HIDE DEF g
  <2>4. g.alive \cup {e} \in SUBSET Events /\ g.alive \ {e} \in SUBSET Events
    BY <2>2 DEF Calendars
  <2>5. CASE google' = [g EXCEPT !.event[e] = g.at, !.alive = @ \cup {e}]
    BY <2>2, <2>4, <2>5 DEF Calendars
  <2>6. CASE google' = [g EXCEPT !.event[e] = g.at, !.alive = @ \ {e}]
    BY <2>2, <2>4, <2>6 DEF Calendars
  <2>7. CASE google' = [g EXCEPT !.occurrence[e] = g.at]
    BY <2>2, <2>7 DEF Calendars
  <2> QED BY <2>3, <2>5, <2>6, <2>7
<1>4. ASSUME Forget(e) PROVE google' \in Calendars
  <2>1. google' = [google EXCEPT !.event[e] = 0, !.occurrence[e] = 0, !.floor = google.at]
    BY <1>4 DEF Forget, Google
  <2>2. 0 \in Versions
    BY <1>1 DEF Versions
  <2> QED BY <1>1, <2>1, <2>2 DEF Calendars
<1> QED BY <1>2, <1>3, <1>4 DEF TypeInv, TypeOK

LEMMA TypesKept ==
  ASSUME CalendarAssumption, TypeInv, [Next]_vars
  PROVE  TypeInv'
<1>1. CASE UNCHANGED vars
  BY <1>1 DEF vars, TypeInv, TypeOK
<1>2. CASE Disconnect \/ Connect
  <2>1. account' \in [connected : BOOLEAN, token : Versions]
    <3>1. CASE Disconnect
      BY <3>1, IdleTypes DEF Disconnect
    <3>2. CASE Connect
      BY <3>2, TypesKnown DEF Connect
    <3> QED BY <1>2, <3>1, <3>2
  <2>2. UNCHANGED <<google, memos, run, doubt, starts, faults>>
    BY <1>2 DEF Disconnect, Connect
  <2> QED BY <2>1, <2>2 DEF TypeInv, TypeOK
<1> QED
  BY <1>1, <1>2, GoogleTypes, StartTypes, ListEventsTypes, EndTypes, LoadTypes, SaveTypes,
     PageDoneTypes, ClearMemoTypes DEF Next

-----------------------------------------------------------------------------
\* Workers that are alone

LEMMA AloneKnown ==
  ASSUME Inv, NEW r \in Active, run[r].alone \/ ~doubt
  PROVE  /\ run[r].alone /\ \A q \in Runs : q # r => run[q].step = "idle"
         /\ account.token \in {run[r].token, None}
         /\ run[r].step = "clear" => {m.id : m \in memos} \subseteq run[r].ids
<1>1. run[r].alone
  BY DEF Inv, NoDoubtOK
<1>2. Active = {r}
  BY <1>1 DEF Inv, AloneOK
<1> QED BY <1>1, <1>2 DEF Inv, AloneOK, Active

LEMMA AloneFollows ==
  ASSUME Inv, NEW r \in Active, run' = [run EXCEPT ![r] = run'[r]],
         run'[r].step # "idle" /\ run'[r].alone =>
           /\ run[r].alone /\ account'.token \in {run'[r].token, None}
           /\ run'[r].step = "clear" => {m.id : m \in memos'} \subseteq run'[r].ids
  PROVE  AloneOK'
<1>1. \A q \in Runs : q # r => run'[q] = run[q]
  BY TypesKnown DEF Inv, Active
<1>2. SUFFICES ASSUME NEW q \in Active', run'[q].alone
               PROVE  /\ Active' = {q} /\ account'.token \in {run'[q].token, None}
                      /\ run'[q].step = "clear" => {m.id : m \in memos'} \subseteq run'[q].ids
  BY DEF AloneOK
<1>3. q = r
  <2> SUFFICES ASSUME q # r PROVE FALSE
    OBVIOUS
  <2>1. q \in Active /\ run[q].alone
    BY <1>1, <1>2 DEF Active
  <2> QED BY <2>1 DEF Inv, AloneOK
<1>4. run[r].alone /\ run'[r].step # "idle"
  BY <1>2, <1>3 DEF Active
<1>5. \A p \in Runs : p # r => run'[p].step = "idle"
  BY <1>1, <1>4, AloneKnown
<1>6. Active' = {r}
  BY <1>2, <1>3, <1>5 DEF Active
<1> QED BY <1>2, <1>3, <1>4, <1>6

\* A step of the only worker: the others are idle.
LEMMA DoubtFollows ==
  ASSUME Inv, NEW r \in Active, run' = [run EXCEPT ![r] = run'[r]],
         doubt' = doubt,
         ~doubt => /\ run'[r].step # "idle" => run'[r].alone = run[r].alone
                   /\ \A m, n \in memos' : m.event = n.event => m = n
                   /\ run'[r].step # "clear" => CoveredTo(account.token)'
                   /\ RunOK(run[r])'
  PROVE  NoDoubtOK'
<1> SUFFICES ASSUME ~doubt
             PROVE  /\ \A q \in Active' : run'[q].alone
                    /\ \A m, n \in memos' : m.event = n.event => m = n
                    /\ (\A q \in Runs : run'[q].step # "clear") => CoveredTo(account.token)'
                    /\ \A q \in Runs : RunOK(run[q])'
  BY DEF NoDoubtOK
<1>1. \A q \in Runs : q # r => run'[q].step = "idle"
  BY AloneKnown, TypesKnown DEF Inv, Active
<1>2. \A q \in Runs : q # r => RunOK(run[q])'
  BY <1>1 DEF RunOK, Importing
<1>3. run[r].alone
  BY AloneKnown
<1>4. \A q \in Active' : run'[q].alone
  BY <1>1, <1>3 DEF Active
<1>5. r \in Runs
  BY DEF Active
<1> QED BY <1>2, <1>4, <1>5

-----------------------------------------------------------------------------
\* The memos of an event

LEMMA GoodMeans ==
  ASSUME NEW e
  PROVE  /\ Good(e) <=> IF e \in google.alive
                        THEN /\ \E m \in memos : m.event = e
                             /\ \A m \in memos : m.event = e => m.etag = google.event[e]
                        ELSE \A m \in memos : m.event # e
         /\ Good(e)' <=> IF e \in google'.alive
                         THEN /\ \E m \in memos' : m.event = e
                              /\ \A m \in memos' : m.event = e => m.etag = google'.event[e]
                         ELSE \A m \in memos' : m.event # e
BY DEF Good

\* What Google has changed last before a version it has not changed since.
LEMMA GoogleStays ==
  ASSUME Inv, NEW e \in Events, Change(e) \/ Forget(e), NEW d \in Events, NEW n \in Versions,
         n <= google.at, google'.event[d] \in 1 .. n
  PROVE  google'.event[d] = google.event[d] /\ (d \in google'.alive <=> d \in google.alive)
<1>1. google \in Calendars
  BY TypesKnown DEF Inv
<1>2. CASE Forget(e)
  <2>1. google'.event = [google.event EXCEPT ![e] = 0] /\ google'.alive = google.alive
    BY <1>1, <1>2 DEF Forget, Google, Calendars
  <2>2. d # e
    BY <1>1, <2>1 DEF Calendars
  <2> QED BY <1>1, <2>1, <2>2 DEF Calendars
<1>3. CASE Change(e)
  <2> DEFINE g == [google EXCEPT !.at = @ + 1]
  <2>1. \/ google' = [g EXCEPT !.event[e] = g.at, !.alive = @ \cup {e}]
        \/ google' = [g EXCEPT !.event[e] = g.at, !.alive = @ \ {e}]
        \/ google' = [g EXCEPT !.occurrence[e] = g.at]
    BY <1>3 DEF Change, Google
  <2>2. g.at = google.at + 1 /\ g.event = google.event /\ g.alive = google.alive
        /\ g \in [at : Nat, floor : Versions, alive : SUBSET Events,
              event : [Events -> Versions], occurrence : [Events -> Versions]]
    BY <1>1 DEF Calendars, Versions
  <2> HIDE DEF g
  <2>3. \/ google'.event = [google.event EXCEPT ![e] = google.at + 1]
           /\ google'.alive \in {google.alive \cup {e}, google.alive \ {e}}
        \/ google'.event = google.event /\ google'.alive = google.alive
    BY <2>1, <2>2
  <2>4. CASE google'.event = google.event /\ google'.alive = google.alive
    BY <2>4
  <2>5. CASE google'.event = [google.event EXCEPT ![e] = google.at + 1]
                /\ google'.alive \in {google.alive \cup {e}, google.alive \ {e}}
    <3>1. google.event \in [Events -> Versions] /\ google.at \in Nat /\ n \in Nat
      BY <1>1 DEF Calendars, Versions
    <3>2. d # e
      BY <2>5, <3>1
    <3> QED BY <2>5, <3>1, <3>2
  <2> QED BY <2>3, <2>4, <2>5
<1> QED BY <1>2, <1>3

LEMMA Bounds ==
  ASSUME Inv
  PROVE  /\ google.at \in Versions /\ account.token \in Versions /\ account.token <= google.at
         /\ google \in Calendars
         /\ \A r \in Runs : /\ run[r].token \in Versions /\ run[r].token <= google.at
                            /\ run[r].next \in Versions /\ run[r].next <= google.at
         /\ \A e \in Events : google.event[e] \in Versions /\ google.event[e] <= google.at
<1>1. TypeInv /\ PastOK
  BY DEF Inv
<1>2. \A r \in Runs : run[r].token \in Versions /\ run[r].next \in Versions
  BY <1>1, TypesKnown DEF Workers
<1>3. \A e \in Events : google.event[e] \in Versions
  BY <1>1, TypesKnown DEF Calendars
<1> QED BY <1>1, <1>2, <1>3, TypesKnown DEF PastOK

\* Google's own steps.
LEMMA GoogleKeeps ==
  ASSUME CalendarAssumption, Inv, NEW e \in Events, Change(e) \/ Forget(e)
  PROVE  Inv'
<1>1. TypeInv' /\ UNCHANGED <<account, memos, run, doubt>>
  BY GoogleTypes DEF Inv, Change, Forget, Google
<1>2. google'.at \in Nat /\ google.at <= google'.at /\ google'.floor <= google'.at
      /\ \A d \in Events : google'.event[d] <= google'.at /\ google'.occurrence[d] <= google'.at
  <2>1. google \in Calendars /\ google.floor <= google.at
        /\ \A d \in Events : google.event[d] <= google.at /\ google.occurrence[d] <= google.at
    BY TypesKnown DEF Inv, PastOK
  <2>2. CASE Forget(e)
    <3>1. /\ google'.event = [google.event EXCEPT ![e] = 0] /\ google'.at = google.at
          /\ google'.occurrence = [google.occurrence EXCEPT ![e] = 0] /\ google'.floor = google.at
      BY <2>1, <2>2 DEF Forget, Google, Calendars
    <3> QED BY <2>1, <3>1 DEF Calendars, Versions
  <2>3. CASE Change(e)
    <3> DEFINE g == [google EXCEPT !.at = @ + 1]
    <3>1. \/ google' = [g EXCEPT !.event[e] = g.at, !.alive = @ \cup {e}]
          \/ google' = [g EXCEPT !.event[e] = g.at, !.alive = @ \ {e}]
          \/ google' = [g EXCEPT !.occurrence[e] = g.at]
      BY <2>3 DEF Change, Google
    <3>2. /\ g \in [at : Nat, floor : Versions, alive : SUBSET Events,
                    event : [Events -> Versions], occurrence : [Events -> Versions]]
          /\ g.at = google.at + 1 /\ g.floor = google.floor
          /\ g.event = google.event /\ g.occurrence = google.occurrence
      BY <2>1 DEF Calendars, Versions
    <3> HIDE DEF g
    <3>3. /\ google'.at = google.at + 1 /\ google'.floor = google.floor
          /\ google'.event \in {google.event, [google.event EXCEPT ![e] = google.at + 1]}
          /\ google'.occurrence \in {google.occurrence, [google.occurrence EXCEPT ![e] = google.at + 1]}
      BY <3>1, <3>2
    <3> QED BY <2>1, <3>3 DEF Calendars, Versions
  <2> QED BY <2>2, <2>3
<1>3. PastOK'
  BY <1>1, <1>2, Bounds DEF PastOK, Versions
<1>4. AloneOK'
  BY <1>1 DEF Inv, AloneOK, Active
<1>5. ASSUME NEW n \in Versions, n <= google.at, NEW d \in Events, google'.event[d] \in 1 .. n
      PROVE  google.event[d] \in 1 .. n /\ (Good(d)' <=> Good(d))
              /\ \A i \in Items : i.event = d => (ItemOK(i, n) <=> ItemOK(i, n)')
  <2>1. google'.event[d] = google.event[d] /\ (d \in google'.alive <=> d \in google.alive)
    BY <1>5, GoogleStays
  <2> QED BY <1>1, <1>5, <2>1 DEF Good, ItemOK
<1>6. ASSUME NEW n \in Versions, n <= google.at, CoveredTo(n) PROVE CoveredTo(n)'
  BY <1>5, <1>6 DEF CoveredTo
<1>7. ASSUME NEW r \in Runs, RunOK(run[r]) PROVE RunOK(run[r])'
  <2>1. run'[r] = run[r] /\ account' = account /\ memos' = memos
    BY <1>1
  <2>2. run[r] \in Workers /\ run[r].token \in Versions /\ run[r].next \in Versions
         /\ run[r].items \subseteq Items
        /\ run[r].token <= google.at /\ run[r].next <= google.at
         /\ (run[r].step = "save" => run[r].item \in Items)
    BY Bounds, TypesKnown DEF Inv, Workers
  <2>3. run[r].step = "first" => CoveredTo(run[r].token)'
    BY <1>6, <1>7, <2>1, <2>2 DEF RunOK
  <2>4. ASSUME NEW i \in Items, ItemOK(i, run[r].next) PROVE ItemOK(i, run[r].next)'
    <3>1. i.event \in Events
      BY DEF Items
    <3>2. CASE google'.event[i.event] \in 1 .. run[r].next
      BY <1>5, <2>1, <2>2, <2>4, <3>1, <3>2
    <3> QED BY <2>1, <2>4, <3>2 DEF ItemOK
  <2>5. ASSUME NEW d \in Events, google'.event[d] \in 1 .. run[r].next, Good(d) \/ Pending(run[r], d)
        PROVE  Good(d)' \/ Pending(run[r], d)'
    <3>1. Pending(run[r], d) <=> Pending(run[r], d)'
      BY <2>1 DEF Pending
    <3> QED BY <1>5, <2>2, <2>5, <3>1
  <2>6. ASSUME NEW d \in Events, google'.event[d] \in 1 .. run[r].next
            PROVE google.event[d] \in 1 .. run[r].next
    BY <1>5, <2>2, <2>6
  <2> QED BY <1>7, <2>1, <2>2, <2>3, <2>4, <2>5, <2>6 DEF RunOK, Importing
<1>8. NoDoubtOK'
  BY <1>1, <1>6, <1>7, Bounds DEF Inv, NoDoubtOK, Active
<1> QED BY <1>1, <1>3, <1>4, <1>8 DEF Inv

-----------------------------------------------------------------------------
\* Runs begin and end

LEMMA StartKeeps ==
  ASSUME CalendarAssumption, Inv, NEW r \in Runs, StartSync(r) \/ StartClear(r)
  PROVE  Inv'
<1>1. TypeInv' /\ UNCHANGED <<google, account, memos, faults>> /\ doubt' = (doubt \/ Active # {})
      /\ run[r].step = "idle"
  BY StartTypes DEF Inv, StartSync, StartClear, Starts
<1>2. \/ StartSync(r)
                        /\ run'[r] = [[Idle EXCEPT !.step = "first"] EXCEPT !.token = account.token, !.alone = Active = {}]
      \/ /\ StartClear(r)
         /\ run'[r] = [[Idle EXCEPT !.step = "clear", !.ids = {m.id : m \in memos}]
                         EXCEPT !.token = account.token, !.alone = Active = {}]
  BY DEF StartSync, StartClear, Starts
<1>3. /\ run'[r].token = account.token /\ run'[r].alone = (Active = {}) /\ run'[r].next = 0
      /\ run'[r].items = {} /\ run'[r].step \in {"first", "clear"}
      /\ run'[r].step = "clear" => run'[r].ids = {m.id : m \in memos}
  BY <1>2 DEF Idle, None
<1>4. \A q \in Runs : q # r => run'[q] = IF q \in Active THEN [run[q] EXCEPT !.alone = FALSE] ELSE run[q]
  BY DEF StartSync, StartClear, Starts
<1>5. \A q \in Runs : run[q] \in Workers
  BY TypesKnown DEF Inv
<1>6. \A q \in Runs : q # r => /\ run'[q].step = run[q].step /\ run'[q].token = run[q].token
                               /\ run'[q].next = run[q].next
                               /\ run'[q].alone = (run[q].alone /\ q \notin Active)
  BY <1>4, <1>5 DEF Workers
<1>7. PastOK'
  <2>1. \A q \in Runs : run'[q].token <= google.at /\ run'[q].next <= google.at
    BY <1>3, <1>6, Bounds DEF Versions
  <2> QED BY <1>1, <2>1 DEF Inv, PastOK
<1>8. AloneOK'
  <2> SUFFICES ASSUME NEW q \in Active', run'[q].alone
               PROVE  /\ Active' = {q} /\ account'.token \in {run'[q].token, None}
                      /\ run'[q].step = "clear" => {m.id : m \in memos'} \subseteq run'[q].ids
    BY DEF AloneOK
  <2>1. q = r
    BY <1>6 DEF Active
  <2>2. Active = {}
    BY <1>3, <2>1
  <2>3. Active' = {r}
    BY <1>6, <2>1, <2>2 DEF Active
  <2> QED BY <1>1, <1>3, <2>1, <2>3
<1>9. NoDoubtOK'
  <2> SUFFICES ASSUME ~doubt, Active = {} PROVE NoDoubtOK'
    BY <1>1 DEF NoDoubtOK
  <2>1. \A q \in Runs : q # r => run'[q].step = "idle"
    BY <1>6 DEF Active
  <2>2. \A q \in Active' : run'[q].alone
    BY <1>3, <2>1 DEF Active
  <2>3. CoveredTo(account.token) /\ \A m, n \in memos : m.event = n.event => m = n
    BY DEF Inv, NoDoubtOK, Active
  <2>4. CoveredTo(account.token)' /\ CoveredTo(run[r].token)'
    BY <1>1, <1>3, <2>3 DEF CoveredTo, Good
  <2>5. RunOK(run[r])'
    BY <1>3, <2>4 DEF RunOK, Importing
  <2>6. \A q \in Runs : RunOK(run[q])'
    BY <2>1, <2>5 DEF RunOK, Importing
  <2> QED BY <1>1, <2>2, <2>3, <2>4, <2>6 DEF NoDoubtOK
<1> QED BY <1>1, <1>7, <1>8, <1>9 DEF Inv

\* A worker that is done, however it ends, leaves no other.
LEMMA IdleKeeps ==
  ASSUME Inv, TypeInv', NEW r \in Active, run' = [run EXCEPT ![r] = Idle], google' = google, memos' = memos,
         account'.token = account.token,
         doubt' = (doubt \/ run[r].step = "clear")
  PROVE  Inv'
<1>1. r \in Runs /\ run'[r] = Idle /\ \A q \in Runs : q # r => run'[q] = run[q]
  BY TypesKnown DEF Inv, Active
<1>2. run'[r].step = "idle" /\ run'[r].token = 0 /\ run'[r].next = 0
  BY <1>1 DEF Idle, None
<1>3. PastOK'
  BY <1>1, <1>2, Bounds DEF Inv, PastOK, Versions
<1>4. AloneOK'
  BY <1>1, <1>2, AloneFollows
<1>5. NoDoubtOK'
  <2> SUFFICES ASSUME ~doubt, run[r].step # "clear" PROVE NoDoubtOK'
    BY DEF NoDoubtOK
  <2>1. \A q \in Runs : run'[q].step = "idle"
    BY <1>1, <1>2, AloneKnown
  <2>2. \A q \in Runs : run[q].step # "clear"
    BY AloneKnown
  <2>3. CoveredTo(account.token) /\ \A m, n \in memos : m.event = n.event => m = n
    BY <2>2 DEF Inv, NoDoubtOK
  <2>4. CoveredTo(account.token)'
    BY <2>3 DEF CoveredTo, Good
  <2>5. \A q \in Runs : RunOK(run[q])'
    BY <2>1 DEF RunOK, Importing
  <2> QED BY <2>1, <2>3, <2>4, <2>5 DEF NoDoubtOK, Active
<1> QED BY <1>3, <1>4, <1>5 DEF Inv

LEMMA FailKeeps ==
  ASSUME CalendarAssumption, Inv, NEW r \in Runs, ListFails(r) \/ Dies(r)
  PROVE  Inv'
<1>1. r \in Active /\ run' = [run EXCEPT ![r] = Idle]
  BY DEF ListFails, Dies, Becomes, FailedEnds, Active
<1>2. google' = google /\ memos' = memos /\ account' = account
  BY DEF ListFails, Dies, Quiet
<1>3. doubt' = (doubt \/ run[r].step = "clear")
  BY TypesKnown DEF ListFails, Dies, Quiet, Inv
<1>4. TypeInv'
  BY EndTypes DEF Inv
<1> QED BY <1>1, <1>2, <1>3, <1>4, IdleKeeps

\* A refused token is given up: nothing is covered, and nothing is said to be.
LEMMA ExpiredKeeps ==
  ASSUME CalendarAssumption, Inv, NEW r \in Runs, TokenExpired(r)
  PROVE  Inv'
<1>1. /\ r \in Active /\ run[r].step \in {"first", "page"}
      /\ run' = [run EXCEPT ![r] = [Idle EXCEPT !.step = "first", !.alone = run[r].alone]]
      /\ account' = [account EXCEPT !.token = None]
      /\ google' = google /\ memos' = memos /\ doubt' = doubt
  BY DEF TokenExpired, Becomes, Quiet, Active
<1>2. run'[r] = [Idle EXCEPT !.step = "first", !.alone = run[r].alone]
      /\ \A q \in Runs : q # r => run'[q] = run[q]
  BY <1>1, TypesKnown DEF Inv
<1>3. /\ run'[r].step = "first" /\ run'[r].token = 0 /\ run'[r].next = 0 /\ run'[r].items = {}
      /\ run'[r].alone = run[r].alone
  BY <1>2 DEF Idle, None
<1>4. account'.token = 0
  BY <1>1, TypesKnown DEF Inv, None
<1>5. TypeInv'
  BY EndTypes DEF Inv
<1>6. PastOK'
  BY <1>1, <1>2, <1>3, <1>4, Bounds DEF Inv, PastOK, Versions
<1>7. AloneOK'
  BY <1>1, <1>2, <1>3, <1>4, AloneFollows DEF None
<1>8. CoveredTo(account.token)' /\ RunOK(run[r])'
  BY <1>3, <1>4 DEF CoveredTo, RunOK, Importing
<1>9. ~doubt => \A m, n \in memos : m.event = n.event => m = n
  BY DEF Inv, NoDoubtOK
<1>10. NoDoubtOK'
  BY <1>1, <1>2, <1>3, <1>8, <1>9, DoubtFollows
<1> QED BY <1>5, <1>6, <1>7, <1>10 DEF Inv

\* The next token is stored when nothing is left to be imported.
LEMMA TouchKeeps ==
  ASSUME CalendarAssumption, Inv, NEW r \in Runs, TouchSyncMeta(r)
  PROVE  Inv'
<1>1. /\ r \in Active /\ run[r].step = "touch" /\ run' = [run EXCEPT ![r] = Idle]
      /\ account' = [account EXCEPT !.token = run[r].next]
      /\ google' = google /\ memos' = memos /\ doubt' = doubt
  BY DEF TouchSyncMeta, Becomes, Quiet, Active
<1>2. run'[r] = Idle /\ \A q \in Runs : q # r => run'[q] = run[q]
  BY <1>1, TypesKnown DEF Inv
<1>3. run'[r].step = "idle" /\ run'[r].token = 0 /\ run'[r].next = 0
  BY <1>2 DEF Idle, None
<1>4. account'.token = run[r].next
  BY <1>1, TypesKnown DEF Inv
<1>5. TypeInv'
  BY EndTypes DEF Inv
<1>6. PastOK'
  BY <1>1, <1>2, <1>3, <1>4, Bounds DEF Inv, PastOK, Versions
<1>7. AloneOK'
  BY <1>1, <1>2, <1>3, AloneFollows
<1>8. ASSUME ~doubt
      PROVE  CoveredTo(account.token)' /\ \A m, n \in memos : m.event = n.event => m = n
  <2>1. RunOK(run[r]) /\ \A m, n \in memos : m.event = n.event => m = n
    BY <1>8 DEF Inv, NoDoubtOK
  <2>2. \A e \in Events : ~Pending(run[r], e)
    BY <1>1, <2>1 DEF RunOK, Pending
  <2>3. CoveredTo(run[r].next)
    BY <1>1, <2>1, <2>2 DEF RunOK, Importing, CoveredTo
  <2> QED BY <1>1, <1>4, <2>1, <2>3 DEF CoveredTo, Good
<1>9. RunOK(run[r])'
  BY <1>3 DEF RunOK, Importing
<1>10. NoDoubtOK'
  BY <1>1, <1>2, <1>3, <1>8, <1>9, DoubtFollows
<1> QED BY <1>5, <1>6, <1>7, <1>10 DEF Inv

-----------------------------------------------------------------------------
\* Pages and their entries

\* What is changed since the token is listed: it is left for a page, or on this one.
LEMMA ListEventsKeeps ==
  ASSUME CalendarAssumption, Inv, NEW r \in Runs, ListEvents(r)
  PROVE  Inv'
<1> DEFINE first == run[r].step = "first"
           rest == IF first THEN Changed(run[r].token) ELSE run[r].rest
           next == IF first THEN google.at ELSE run[r].next
<1>1. PICK keys \in SUBSET rest :
        Becomes(r, [run[r] EXCEPT !.step = "items", !.rest = rest \ keys, !.items = Listed(keys),
                                  !.next = next])
  BY DEF ListEvents
<1>2. /\ run[r].step \in {"first", "page"} /\ r \in Active
      /\ UNCHANGED <<account, memos, faults, google, doubt, starts>>
  BY DEF ListEvents, Quiet, Active
<1>3. run[r] \in Workers /\ run \in [Runs -> Workers]
  BY TypesKnown DEF Inv
<1>4. /\ run'[r] = [run[r] EXCEPT !.step = "items", !.rest = rest \ keys, !.items = Listed(keys),
                     !.next = next]
      /\ run' = [run EXCEPT ![r] = run'[r]]
      /\ \A q \in Runs : q # r => run'[q] = run[q]
  BY <1>1, <1>3 DEF Becomes
<1>5. /\ run'[r].step = "items" /\ run'[r].rest = rest \ keys /\ run'[r].items = Listed(keys)
      /\ run'[r].next = next /\ run'[r].token = run[r].token /\ run'[r].alone = run[r].alone
  BY <1>3, <1>4 DEF Workers
<1>6. TypeInv'
  BY ListEventsTypes DEF Inv
<1>7. next \in Versions /\ next <= google.at
  BY Bounds DEF Versions
<1>8. PastOK'
  BY <1>2, <1>4, <1>5, <1>7 DEF Inv, PastOK
<1>9. AloneOK'
  BY <1>2, <1>4, <1>5, AloneKnown, AloneFollows
<1>10. ASSUME ~doubt
       PROVE  RunOK(run[r])' /\ CoveredTo(account.token)' /\ \A m, n \in memos : m.event = n.event => m = n
  <2>1. /\ RunOK(run[r]) /\ CoveredTo(account.token) /\ \A m, n \in memos : m.event = n.event => m = n
        /\ account.token \in {run[r].token, None}
    <3>1. \A q \in Runs : run[q].step # "clear"
      BY <1>2, <1>10, AloneKnown
    <3> QED BY <1>2, <1>10, <3>1, AloneKnown DEF Inv, NoDoubtOK
  <2>2. account.token <= next
    <3>1. CASE first
      BY <3>1, Bounds
    <3>2. CASE ~first
      BY <1>2, <2>1, <3>2 DEF RunOK, Importing
    <3> QED BY <3>1, <3>2
  <2>3. ASSUME NEW e \in Events, google.event[e] \in 1 .. next PROVE Good(e) \/ <<e, "event">> \in rest
    <3>1. CASE first
      <4>1. google.event[e] \in 1 .. run[r].token => Good(e)
        BY <2>1, <3>1 DEF RunOK, CoveredTo
      <4>2. google.event[e] > run[r].token => <<e, "event">> \in Changed(run[r].token)
        BY DEF Changed
      <4> QED BY <2>3, <3>1, <4>1, <4>2, Bounds DEF Versions
    <3>2. CASE ~first
      <4>1. run[r].step = "page" /\ run[r].items = {}
        BY <1>2, <2>1, <3>2 DEF RunOK
      <4>2. Good(e) \/ Pending(run[r], e)
        BY <2>1, <2>3, <3>2, <4>1 DEF RunOK, Importing
      <4> QED BY <3>2, <4>1, <4>2 DEF Pending
    <3> QED BY <3>1, <3>2
  <2>4. ASSUME NEW e \in Events, google.event[e] \in 1 .. next, <<e, "event">> \in keys
        PROVE  \E i \in Listed(keys) : i.kind = "event" /\ i.event = e
    <3> DEFINE k == <<e, "event">>
               i == [event |-> k[1], kind |-> k[2], alive |-> k[2] = "event" /\ k[1] \in google.alive,
                     v |-> google[k[2]][k[1]]]
    <3>1. k \in keys /\ google[k[2]][k[1]] # 0
      BY <2>4, <1>7 DEF Versions
    <3>2. i \in Listed(keys)
      BY <3>1 DEF Listed
    <3> QED BY <3>2
  <2>5. ASSUME NEW i \in Listed(keys) PROVE ItemOK(i, next)
    <3>1. PICK k \in keys :
            i = [event |-> k[1], kind |-> k[2], alive |-> k[2] = "event" /\ k[1] \in google.alive,
                 v |-> google[k[2]][k[1]]]
      BY DEF Listed
    <3> HIDE DEF next
    <3>2. CASE k[2] = "event"
      BY <3>1, <3>2 DEF ItemOK
    <3>3. CASE k[2] # "event"
      BY <3>1, <3>3 DEF ItemOK
    <3> QED BY <3>2, <3>3
  <2>6. \A e \in Events : google.event[e] \in 1 .. next => Good(e)' \/ Pending(run[r], e)'
    <3> SUFFICES ASSUME NEW e \in Events, google.event[e] \in 1 .. next, ~Good(e) PROVE Pending(run[r], e)'
      BY <1>2 DEF Good
    <3>1. <<e, "event">> \in rest
      BY <2>3
    <3>2. CASE <<e, "event">> \in keys
      BY <1>5, <2>4, <3>2 DEF Pending
    <3>3. CASE <<e, "event">> \notin keys
      BY <1>5, <3>1, <3>3 DEF Pending
    <3> QED BY <3>2, <3>3
  <2>7. \A i \in Listed(keys) : ItemOK(i, run[r].next)'
    <3> HIDE DEF next
    <3> QED BY <1>2, <1>5, <2>5 DEF ItemOK
  <2>8. RunOK(run[r])'
    <3> HIDE DEF next, rest
    <3>1. run'[r].next = next /\ run'[r].items = Listed(keys) /\ run'[r].step = "items"
      BY <1>5
    <3>2. account'.token <= run'[r].next
      BY <1>2, <2>2, <3>1
    <3>3. \A e \in Events : google'.event[e] \in 1 .. run'[r].next => Good(e)' \/ Pending(run[r], e)'
      BY <1>2, <2>6, <3>1
    <3>4. \A i \in run'[r].items : ItemOK(i, run[r].next)'
      BY <2>7, <3>1
    <3> QED BY <3>1, <3>2, <3>3, <3>4 DEF RunOK, Importing
  <2>9. CoveredTo(account.token)'
    BY <1>2, <2>1 DEF CoveredTo, Good
  <2> QED BY <2>1, <2>8, <2>9
<1>11. NoDoubtOK'
  BY <1>2, <1>4, <1>5, <1>10, DoubtFollows
<1> QED BY <1>6, <1>8, <1>9, <1>11 DEF Inv

LEMMA PageDoneKeeps ==
  ASSUME Inv, NEW r \in Runs, PageDone(r)
  PROVE  Inv'
<1>1. /\ run[r].step = "items" /\ run[r].items = {} /\ r \in Active
      /\ run' = [run EXCEPT ![r] = [run[r] EXCEPT !.step = IF run[r].rest = {} THEN "touch" ELSE "page"]]
      /\ UNCHANGED <<account, memos, faults, google, doubt, starts>>
  BY DEF PageDone, Becomes, Quiet, Active
<1>2. run[r] \in Workers /\ run \in [Runs -> Workers]
  BY TypesKnown DEF Inv
<1>3. /\ run'[r] = [run[r] EXCEPT !.step = IF run[r].rest = {} THEN "touch" ELSE "page"]
      /\ run' = [run EXCEPT ![r] = run'[r]]
      /\ \A q \in Runs : q # r => run'[q] = run[q]
  BY <1>1, <1>2
<1>4. /\ run'[r].step \in {"touch", "page"} /\ run'[r].step = "touch" => run[r].rest = {}
      /\ run'[r].rest = run[r].rest /\ run'[r].items = {} /\ run'[r].next = run[r].next
      /\ run'[r].token = run[r].token /\ run'[r].alone = run[r].alone
  BY <1>1, <1>2, <1>3 DEF Workers
<1>5. TypeInv'
  BY PageDoneTypes DEF Inv
<1>6. PastOK'
  BY <1>1, <1>3, <1>4 DEF Inv, PastOK
<1>7. AloneOK'
  BY <1>1, <1>3, <1>4, AloneKnown, AloneFollows
<1>8. ASSUME ~doubt
      PROVE  RunOK(run[r])' /\ CoveredTo(account.token)' /\ \A m, n \in memos : m.event = n.event => m = n
  <2>1. \A q \in Runs : run[q].step # "clear"
    BY <1>1, <1>8, AloneKnown
  <2>2. RunOK(run[r]) /\ CoveredTo(account.token) /\ \A m, n \in memos : m.event = n.event => m = n
    BY <1>1, <1>8, <2>1 DEF Inv, NoDoubtOK
  <2>3. \A e \in Events : Pending(run[r], e) => Pending(run[r], e)'
    BY <1>1, <1>4 DEF Pending
  <2>4. RunOK(run[r])'
    BY <1>1, <1>4, <2>2, <2>3 DEF RunOK, Importing, Good
  <2>5. CoveredTo(account.token)'
    BY <1>1, <2>2 DEF CoveredTo, Good
  <2> QED BY <2>2, <2>4, <2>5
<1>9. NoDoubtOK'
  BY <1>1, <1>3, <1>4, <1>8, DoubtFollows
<1> QED BY <1>5, <1>6, <1>7, <1>9 DEF Inv

-----------------------------------------------------------------------------
\* One entry and its memo

\* An entry is left out when its memo is as it says, and else its memo is loaded.
LEMMA LoadKeeps ==
  ASSUME CalendarAssumption, Inv, NEW r \in Runs, NEW i \in run[r].items, LoadMemo(r, i)
  PROVE  Inv'
<1> DEFINE m == Found(i.event)
           s == [run[r] EXCEPT !.items = @ \ {i}]
           t == [s EXCEPT !.step = "save", !.item = i, !.ld = m]
<1>1. /\ run[r].step = "items" /\ r \in Active
      /\ run' = [run EXCEPT ![r] = IF Skips(i, m) THEN s ELSE t]
      /\ UNCHANGED <<account, memos, faults, google, doubt, starts>>
  BY DEF LoadMemo, Becomes, Quiet, Active
<1>2. run[r] \in Workers /\ run \in [Runs -> Workers] /\ i \in Items /\ i.event \in Events
  BY TypesKnown DEF Inv, Workers, Items
<1>3. /\ run'[r] = (IF Skips(i, m) THEN s ELSE t) /\ run' = [run EXCEPT ![r] = run'[r]]
      /\ \A q \in Runs : q # r => run'[q] = run[q]
  BY <1>1, <1>2
<1>4. /\ run'[r].rest = run[r].rest /\ run'[r].items = run[r].items \ {i} /\ run'[r].next = run[r].next
      /\ run'[r].token = run[r].token /\ run'[r].alone = run[r].alone
      /\ Skips(i, m) => run'[r].step = "items"
      /\ ~Skips(i, m) => run'[r].step = "save" /\ run'[r].item = i /\ run'[r].ld = m
  <2> HIDE DEF m
  <2> QED BY <1>1, <1>2, <1>3 DEF Workers
<1>5. TypeInv'
  BY LoadTypes DEF Inv
<1>6. PastOK'
  BY <1>1, <1>3, <1>4 DEF Inv, PastOK
<1>7. AloneOK'
  BY <1>1, <1>3, <1>4, AloneKnown, AloneFollows
<1>8. \/ m = NoRow /\ \A n \in memos : n.event # i.event
      \/ m \in memos /\ m.event = i.event /\ m # NoRow
  <2>1. m \in memos => m \in MemoRows
    BY TypesKnown DEF Inv
  <2>2. NoRow \notin MemoRows
    BY DEF NoRow, MemoRows, Ids, None
  <2> QED BY <1>2, <2>1, <2>2, FoundRow DEF Inv
<1>9. ASSUME ~doubt
      PROVE  RunOK(run[r])' /\ CoveredTo(account.token)' /\ \A a, b \in memos : a.event = b.event => a = b
  <2>1. \A q \in Runs : run[q].step # "clear"
    BY <1>1, <1>9, AloneKnown
  <2>2. RunOK(run[r]) /\ CoveredTo(account.token) /\ \A a, b \in memos : a.event = b.event => a = b
    BY <1>1, <1>9, <2>1 DEF Inv, NoDoubtOK
  <2>3. ItemOK(i, run[r].next)
    BY <1>1, <2>2 DEF RunOK, Importing
  <2>4. ASSUME NEW e \in Events, google.event[e] \in 1 .. run[r].next
        PROVE  Good(e) \/ Pending(run[r], e)'
    <3>1. Good(e) \/ Pending(run[r], e)
      BY <1>1, <2>2, <2>4 DEF RunOK, Importing
    <3>2. CASE i.kind = "event" /\ i.event = e /\ Skips(i, m)
      <4>1. i.v = google.event[e] /\ (i.alive <=> e \in google.alive)
        BY <2>3, <2>4, <3>2 DEF ItemOK
      <4>2. CASE m = NoRow
        BY <1>8, <3>2, <4>1, <4>2, GoodMeans DEF Skips
      <4>3. CASE m # NoRow
        <5>1. m \in memos /\ m.event = e /\ i.alive /\ m.etag = google.event[e]
          BY <1>8, <3>2, <4>1, <4>3 DEF Skips
        <5>2. \A n \in memos : n.event = e => n = m
          BY <2>2, <5>1
        <5> QED BY <4>1, <5>1, <5>2, GoodMeans
      <4> QED BY <4>2, <4>3
    <3>3. CASE i.kind = "event" /\ i.event = e /\ ~Skips(i, m)
      BY <1>4, <3>3 DEF Pending
    <3>4. CASE ~(i.kind = "event" /\ i.event = e)
      BY <1>1, <1>4, <3>1, <3>4 DEF Pending
    <3> QED BY <3>2, <3>3, <3>4
  <2>5. ~Skips(i, m) /\ m = NoRow => i.kind = "event" /\ i.alive
    BY <2>3 DEF Skips, ItemOK
  <2>6. RunOK(run[r])'
    <3> HIDE DEF m
    <3>1. run'[r].step \in {"items", "save"} /\ account'.token <= run'[r].next
      BY <1>1, <1>4, <2>2 DEF RunOK, Importing
    <3>2. \A e \in Events : google'.event[e] \in 1 .. run'[r].next => Good(e)' \/ Pending(run[r], e)'
      BY <1>1, <1>4, <2>4 DEF Good
    <3>3. \A j \in run'[r].items : ItemOK(j, run[r].next)'
      BY <1>1, <1>4, <2>2 DEF RunOK, Importing, ItemOK
    <3>4. run'[r].step = "save" =>
            /\ ItemOK(run[r].item, run[r].next)'
            /\ \/ /\ run'[r].ld = NoRow /\ (\A n \in memos' : n.event # run'[r].item.event)
                  /\ run'[r].item.kind = "event" /\ run'[r].item.alive
               \/ run'[r].ld \in memos' /\ run'[r].ld.event = run'[r].item.event
      BY <1>1, <1>4, <1>8, <2>3, <2>5 DEF ItemOK
    <3> QED BY <3>1, <3>2, <3>3, <3>4 DEF RunOK
  <2>7. CoveredTo(account.token)'
    BY <1>1, <2>2 DEF CoveredTo, Good
  <2> QED BY <2>2, <2>6, <2>7
<1>10. NoDoubtOK'
  BY <1>1, <1>3, <1>4, <1>9, DoubtFollows
<1> QED BY <1>5, <1>6, <1>7, <1>10 DEF Inv

\* What saving an entry does, outside of doubt: its memo is as it says, and the
\* memos of other events are as they were.
LEMMA SaveWrites ==
  ASSUME CalendarAssumption, Inv, NEW r \in Runs, SaveMemo(r), ~doubt
  PROVE  /\ run[r].ld # NoRow => run[r].ld \in memos
         /\ \A a, b \in memos' : a.event = b.event => a = b
         /\ \A e \in Events :
              google.event[e] \in 1 .. run[r].next
                /\ (Good(e) \/ (run[r].item.kind = "event" /\ run[r].item.event = e)) => Good(e)'
<1> DEFINE i == run[r].item
           m == run[r].ld
<1>1. /\ run[r].step = "save" /\ r \in Active /\ google' = google
      /\ i \in Items /\ i.event \in Events /\ m \in MemoRows \cup {NoRow}
  BY SaveRows DEF Inv, Items, SaveMemo, Quiet, Active
<1>2. RunOK(run[r]) /\ \A a, b \in memos : a.event = b.event => a = b
  BY <1>1 DEF Inv, NoDoubtOK
<1>3. /\ ItemOK(i, run[r].next)
      /\ \/ m = NoRow /\ (\A n \in memos : n.event # i.event) /\ i.kind = "event" /\ i.alive
         \/ m \in memos /\ m.event = i.event
  BY <1>1, <1>2 DEF RunOK
<1>4. /\ memos \subseteq MemoRows /\ NoRow \notin MemoRows
      /\ \A a, b \in memos : a.id = b.id => a = b
  BY TypesKnown DEF Inv, NoRow, MemoRows, Ids, None
<1>5. \/ m \in memos /\ i.kind = "event" /\ ~i.alive /\ memos' = Others(m)
      \/ m = NoRow /\ memos' = memos \cup {Fresh(i)}
      \/ m \in memos /\ ~(i.kind = "event" /\ ~i.alive) /\ memos' = Others(m) \cup {Saved(i, m)}
  BY <1>3, <1>4, SaveRows DEF Inv
<1>6. m \in memos => Others(m) = memos \ {m}
  BY <1>4 DEF Others
<1>7. /\ Fresh(i).event = i.event /\ Fresh(i).etag = i.v
      /\ m \in memos => /\ Saved(i, m).event = i.event
                        /\ Saved(i, m).etag = (IF i.kind = "event" THEN i.v ELSE m.etag)
  BY <1>1, <1>3, <1>4, SavedRow DEF Fresh
<1>8. /\ m # NoRow => m \in memos
      /\ i.kind = "event" /\ google.event[i.event] \in 1 .. run[r].next =>
           i.v = google.event[i.event] /\ (i.alive <=> i.event \in google.alive)
  BY <1>3 DEF ItemOK
<1> HIDE DEF i, m
<1>9. \A a, b \in memos' : a.event = b.event => a = b
  <2>1. CASE memos' = Others(m) /\ m \in memos
    BY <1>2, <1>6, <2>1
  <2>2. CASE m = NoRow /\ memos' = memos \cup {Fresh(i)}
    BY <1>2, <1>3, <1>4, <1>7, <2>2
  <2>3. CASE m \in memos /\ memos' = Others(m) \cup {Saved(i, m)}
    BY <1>2, <1>3, <1>4, <1>6, <1>7, <2>3
  <2> QED BY <1>5, <2>1, <2>2, <2>3
<1>10. ASSUME NEW e \in Events, google.event[e] \in 1 .. run[r].next,
              Good(e) \/ (i.kind = "event" /\ i.event = e)
       PROVE  Good(e)'
  <2>1. CASE e = i.event /\ i.kind = "event"
    <3>1. i.v = google.event[e] /\ (i.alive <=> e \in google.alive)
      BY <1>8, <1>10, <2>1
    <3>2. CASE memos' = Others(m) /\ m \in memos /\ ~i.alive
      <4>1. \A n \in memos' : n.event # e
        BY <1>2, <1>3, <1>4, <1>6, <2>1, <3>2
      <4> QED BY <1>1, <3>1, <3>2, <4>1, GoodMeans
    <3>3. CASE m = NoRow /\ memos' = memos \cup {Fresh(i)}
      <4>1. e \in google'.alive /\ \A n \in memos' : n.event = e => n = Fresh(i)
        BY <1>1, <1>3, <1>4, <2>1, <3>1, <3>3
      <4>2. Fresh(i) \in memos' /\ Fresh(i).event = e /\ Fresh(i).etag = google'.event[e]
        BY <1>1, <1>7, <2>1, <3>1, <3>3
      <4> QED BY <4>1, <4>2, GoodMeans
    <3>4. CASE m \in memos /\ memos' = Others(m) \cup {Saved(i, m)} /\ i.alive
      <4>1. e \in google'.alive /\ \A n \in memos' : n.event = e => n = Saved(i, m)
        BY <1>1, <1>2, <1>3, <1>4, <1>6, <2>1, <3>1, <3>4
      <4>2. Saved(i, m) \in memos' /\ Saved(i, m).event = e /\ Saved(i, m).etag = google'.event[e]
        BY <1>1, <1>7, <2>1, <3>1, <3>4
      <4> QED BY <4>1, <4>2, GoodMeans
    <3> QED BY <1>5, <2>1, <3>2, <3>3, <3>4
  <2>2. CASE e # i.event
    <3>1. Good(e)
      BY <1>10, <2>2
    <3>2. \A n : n.event = e => (n \in memos' <=> n \in memos)
      <4>1. CASE memos' = Others(m) /\ m \in memos
        BY <1>3, <1>4, <1>6, <2>2, <4>1
      <4>2. CASE m = NoRow /\ memos' = memos \cup {Fresh(i)}
        BY <1>7, <2>2, <4>2
      <4>3. CASE m \in memos /\ memos' = Others(m) \cup {Saved(i, m)}
        BY <1>3, <1>4, <1>6, <1>7, <2>2, <4>3
      <4> QED BY <1>5, <4>1, <4>2, <4>3
    <3> QED BY <1>1, <3>1, <3>2 DEF Good
  <2>3. CASE e = i.event /\ i.kind # "event"
    <3>1. Good(e) /\ m \in memos /\ memos' = Others(m) \cup {Saved(i, m)} /\ m.event = e
      BY <1>3, <1>4, <1>5, <1>10, <2>3
    <3>2. \A n \in memos : n.event = e => n = m
      BY <1>2, <3>1
    <3>3. Saved(i, m) \in memos' /\ Saved(i, m).event = e /\ Saved(i, m).etag = m.etag
      BY <1>7, <2>3, <3>1
    <3>4. \A n \in memos' : n.event = e => n = Saved(i, m)
      BY <1>6, <3>1, <3>2
    <3>5. e \in google.alive /\ m.etag = google.event[e]
      BY <3>1, GoodMeans
    <3> QED BY <1>1, <3>3, <3>4, <3>5, GoodMeans
  <2> QED BY <2>1, <2>2, <2>3
<1> QED BY <1>8, <1>9, <1>10 DEF i, m

LEMMA SaveKeeps ==
  ASSUME CalendarAssumption, Inv, NEW r \in Runs, SaveMemo(r)
  PROVE  Inv'
<1> DEFINE i == run[r].item
           m == run[r].ld
           s == [run[r] EXCEPT !.step = "items", !.item = NoItem, !.ld = NoRow]
           gone == i.kind = "event" /\ i.alive /\ m # NoRow /\ ~\E n \in memos : n.id = m.id
<1>1. /\ run[r].step = "save" /\ r \in Active
      /\ run' = [run EXCEPT ![r] = IF gone THEN Idle ELSE s]
      /\ UNCHANGED <<account, faults, google, doubt, starts>>
  BY DEF SaveMemo, Becomes, Quiet, Active
<1>2. run[r] \in Workers /\ run \in [Runs -> Workers]
  BY TypesKnown DEF Inv
<1>3. /\ run'[r] = (IF gone THEN Idle ELSE s) /\ run' = [run EXCEPT ![r] = run'[r]]
      /\ \A q \in Runs : q # r => run'[q] = run[q]
  BY <1>1, <1>2
<1>4. /\ s.step = "items" /\ s.rest = run[r].rest /\ s.items = run[r].items /\ s.next = run[r].next
      /\ s.token = run[r].token /\ s.alone = run[r].alone
  BY <1>2 DEF Workers
<1>5. Idle.step = "idle" /\ Idle.token = 0 /\ Idle.next = 0
  BY DEF Idle, None
<1>6. TypeInv'
  BY SaveTypes DEF Inv
<1> HIDE DEF s, gone
<1>7. PastOK'
  <2>1. run'[r].token <= google.at /\ run'[r].next <= google.at
    BY <1>3, <1>4, <1>5, Bounds DEF Versions
  <2> QED BY <1>1, <1>3, <2>1 DEF Inv, PastOK
<1>8. AloneOK'
  <2>1. run'[r].step # "idle" => run'[r] = s
    BY <1>3, <1>5
  <2>2. run'[r].step # "idle" /\ run'[r].alone =>
          /\ run[r].alone /\ account'.token \in {run'[r].token, None}
          /\ run'[r].step # "clear"
    BY <1>1, <1>4, <2>1, AloneKnown
  <2> QED BY <1>1, <1>3, <2>2, AloneFollows
<1>9. ASSUME ~doubt
      PROVE  /\ RunOK(run[r])' /\ CoveredTo(account.token)' /\ run'[r].alone = run[r].alone
             /\ \A a, b \in memos' : a.event = b.event => a = b
  <2>1. \A q \in Runs : run[q].step # "clear"
    BY <1>1, <1>9, AloneKnown
  <2>2. RunOK(run[r]) /\ CoveredTo(account.token)
    BY <1>1, <1>9, <2>1 DEF Inv, NoDoubtOK
  <2>3. ~gone
    BY <1>9, SaveWrites DEF gone
  <2>4. run'[r] = s
    BY <1>3, <2>3
  <2>5. account.token <= run[r].next
    BY <1>1, <2>2 DEF RunOK, Importing
  <2>9. \A e \in Events : google.event[e] \in 1 .. run[r].next
                            /\ (Good(e) \/ (i.kind = "event" /\ i.event = e)) => Good(e)'
    BY <1>9, SaveWrites
  <2>6. \A e \in Events : google'.event[e] \in 1 .. run'[r].next => Good(e)' \/ Pending(run[r], e)'
    <3> SUFFICES ASSUME NEW e \in Events, google.event[e] \in 1 .. run[r].next, ~Pending(run[r], e)'
                 PROVE  Good(e)'
      BY <1>1, <1>4, <2>4
    <3>1. Good(e) \/ Pending(run[r], e)
      BY <1>1, <2>2 DEF RunOK, Importing
    <3>2. Pending(run[r], e) => i.kind = "event" /\ i.event = e
      BY <1>4, <2>4 DEF Pending
    <3> QED BY <2>9, <3>1, <3>2
  <2>7. RunOK(run[r])'
    <3>1. run'[r].step = "items" /\ run'[r].next = run[r].next /\ run'[r].items = run[r].items
      BY <1>4, <2>4
    <3>2. \A j \in run'[r].items : ItemOK(j, run[r].next)'
      BY <1>1, <2>2, <3>1 DEF RunOK, Importing, ItemOK
    <3> QED BY <1>1, <2>5, <2>6, <3>1, <3>2 DEF RunOK, Importing
  <2>8. CoveredTo(account.token)'
    <3> SUFFICES ASSUME NEW e \in Events, google.event[e] \in 1 .. account.token PROVE Good(e)'
      BY <1>1 DEF CoveredTo
    <3>1. Good(e)
      BY <2>2 DEF CoveredTo
    <3>2. google.event[e] \in 1 .. run[r].next
      BY <2>5, Bounds DEF Versions
    <3> QED BY <2>9, <3>1, <3>2
  <2> QED BY <1>4, <1>9, <2>4, <2>7, <2>8, SaveWrites
<1>10. NoDoubtOK'
  BY <1>1, <1>3, <1>4, <1>9, DoubtFollows
<1> QED BY <1>6, <1>7, <1>8, <1>10 DEF Inv

-----------------------------------------------------------------------------
\* Clearing, and the account

LEMMA ClearMemoKeeps ==
  ASSUME Inv, NEW r \in Runs, NEW id \in run[r].ids, ClearMemo(r, id)
  PROVE  Inv'
<1>1. /\ run[r].step = "clear" /\ r \in Active /\ memos' = {m \in memos : m.id # id}
      /\ run' = [run EXCEPT ![r] = [run[r] EXCEPT !.ids = @ \ {id}]]
      /\ UNCHANGED <<account, faults, google, doubt, starts>>
  BY DEF ClearMemo, Becomes, Quiet, Active
<1>2. run[r] \in Workers /\ run \in [Runs -> Workers]
  BY TypesKnown DEF Inv
<1>3. /\ run'[r] = [run[r] EXCEPT !.ids = @ \ {id}] /\ run' = [run EXCEPT ![r] = run'[r]]
      /\ \A q \in Runs : q # r => run'[q] = run[q]
  BY <1>1, <1>2
<1>4. /\ run'[r].ids = run[r].ids \ {id} /\ run'[r].step = "clear" /\ run'[r].next = run[r].next
      /\ run'[r].token = run[r].token /\ run'[r].alone = run[r].alone
  BY <1>1, <1>2, <1>3 DEF Workers
<1>5. TypeInv'
  BY ClearMemoTypes DEF Inv
<1>6. PastOK'
  BY <1>1, <1>3, <1>4 DEF Inv, PastOK
<1>7. AloneOK'
  <2>1. run[r].alone => {m.id : m \in memos'} \subseteq run'[r].ids
    BY <1>1, <1>4, AloneKnown
  <2> QED BY <1>1, <1>3, <1>4, <2>1, AloneKnown, AloneFollows
<1>8. ~doubt => \A a, b \in memos' : a.event = b.event => a = b
  BY <1>1 DEF Inv, NoDoubtOK
<1>9. RunOK(run[r])'
  BY <1>4 DEF RunOK, Importing
<1>10. NoDoubtOK'
  BY <1>1, <1>3, <1>4, <1>8, <1>9, DoubtFollows
<1> QED BY <1>5, <1>6, <1>7, <1>10 DEF Inv

\* A clearing that was alone leaves no memo and no token, and ends every doubt.
LEMMA ClearTokenKeeps ==
  ASSUME CalendarAssumption, Inv, NEW r \in Runs, ClearToken(r)
  PROVE  Inv'
<1>1. /\ run[r].step = "clear" /\ run[r].ids = {} /\ r \in Active
      /\ run' = [run EXCEPT ![r] = Idle] /\ google' = google /\ memos' = memos
      /\ account' = [account EXCEPT !.token = IF run[r].token = None THEN @ ELSE None]
      /\ doubt' = (doubt /\ ~(run[r].alone /\ Active = {r}))
  BY DEF ClearToken, Becomes, Active
<1>2. run'[r] = Idle /\ \A q \in Runs : q # r => run'[q] = run[q]
  BY <1>1, TypesKnown DEF Inv
<1>3. run'[r].step = "idle" /\ run'[r].token = 0 /\ run'[r].next = 0
  BY <1>2 DEF Idle, None
<1>4. account'.token \in {account.token, 0} /\ (run[r].token # 0 => account'.token = 0)
  BY <1>1, TypesKnown DEF Inv, None
<1>5. TypeInv'
  BY EndTypes DEF Inv
<1>6. PastOK'
  BY <1>1, <1>2, <1>3, <1>4, Bounds DEF Inv, PastOK, Versions
<1>7. AloneOK'
  BY <1>1, <1>2, <1>3, AloneFollows
<1>8. NoDoubtOK'
  <2> SUFFICES ASSUME ~doubt' PROVE NoDoubtOK'
    BY DEF NoDoubtOK
  <2>1. run[r].alone
    BY <1>1, AloneKnown
  <2>2. \A q \in Runs : run'[q].step = "idle"
    BY <1>1, <1>2, <1>3, <2>1, AloneKnown
  <2>3. memos' = {} /\ account'.token = 0
    <3>1. {m.id : m \in memos} \subseteq {} /\ account.token \in {run[r].token, 0}
      BY <1>1, <2>1, AloneKnown DEF None
    <3>2. memos = {}
      BY <3>1
    <3> QED BY <1>1, <1>4, <3>1, <3>2
  <2>4. CoveredTo(account.token)' /\ \A q \in Runs : RunOK(run[q])'
    BY <2>2, <2>3 DEF CoveredTo, RunOK, Importing
  <2> QED BY <2>2, <2>3, <2>4 DEF NoDoubtOK, Active
<1> QED BY <1>5, <1>6, <1>7, <1>8 DEF Inv

LEMMA AccountKeeps ==
  ASSUME CalendarAssumption, Inv, Disconnect \/ Connect
  PROVE  Inv'
<1>1. TypeInv'
  BY TypesKept DEF Inv, Next
<1>2. account'.token \in {account.token, 0} /\ UNCHANGED <<google, memos, run, doubt>>
  BY TypesKnown DEF Disconnect, Connect, None, Inv
<1>3. PastOK'
  BY <1>2, Bounds DEF Inv, PastOK, Versions
<1>4. AloneOK'
  BY <1>2 DEF Inv, AloneOK, Active, None
<1>5. \A n : CoveredTo(n) => CoveredTo(n)'
  BY <1>2 DEF CoveredTo, Good
<1>6. CoveredTo(0)'
  BY DEF CoveredTo
<1>7. CoveredTo(account.token) => CoveredTo(account.token)'
  BY <1>2, <1>5, <1>6
<1>8. \A r \in Runs : RunOK(run[r]) => RunOK(run[r])'
  <2> SUFFICES ASSUME NEW r \in Runs, RunOK(run[r]) PROVE RunOK(run[r])'
    OBVIOUS
  <2>1. account'.token <= run[r].next \/ ~(account.token <= run[r].next)
    BY <1>2, Bounds DEF Versions
  <2> QED BY <1>2, <2>1 DEF RunOK, Importing, CoveredTo, Good, Pending, ItemOK
<1>9. NoDoubtOK'
  BY <1>2, <1>7, <1>8 DEF Inv, NoDoubtOK, Active
<1> QED BY <1>1, <1>3, <1>4, <1>9 DEF Inv

-----------------------------------------------------------------------------
\* Theorems

LEMMA InitInv == ASSUME CalendarAssumption PROVE Init => Inv
<1> SUFFICES ASSUME Init PROVE Inv
  OBVIOUS
<1>1. Idle \in Workers /\ 0 \in Versions /\ 1 \in Versions
         /\ Idle.step = "idle" /\ Idle.token = 0 /\ Idle.next = 0
  <2>1. 0 \in Versions /\ 1 \in Versions
    BY DEF CalendarAssumption, Versions
  <2>2. Idle.step = "idle" /\ Idle.token = 0 /\ Idle.next = 0
    BY DEF Idle, None
  <2> QED BY <2>1, <2>2, IdleTypes
<1>2. TypeInv
  BY <1>1, FS_EmptySet DEF Init, TypeInv, TypeOK, Calendars, None
<1>3. PastOK /\ AloneOK
  BY <1>1 DEF Init, PastOK, AloneOK, Active, None
<1>4. NoDoubtOK
  BY <1>1 DEF Init, NoDoubtOK, Active, CoveredTo, RunOK, Importing, None
<1> QED BY <1>2, <1>3, <1>4 DEF Inv

LEMMA InvKept == ASSUME CalendarAssumption, Inv, [Next]_vars PROVE Inv'
<1>1. CASE UNCHANGED vars
  <2> USE <1>1 DEF vars
  <2>1. TypeInv'
    BY TypesKept DEF Inv
  <2>2. PastOK' /\ AloneOK'
    BY DEF Inv, PastOK, AloneOK, Active
  <2>3. \A n : CoveredTo(n) => CoveredTo(n)'
    BY DEF CoveredTo, Good
  <2>4. ASSUME NEW r \in Runs, RunOK(run[r]) PROVE RunOK(run[r])'
    BY <2>3, <2>4 DEF RunOK, Importing, Good, Pending, ItemOK
  <2>5. NoDoubtOK'
    BY <2>3, <2>4 DEF Inv, NoDoubtOK, Active
  <2> QED BY <2>1, <2>2, <2>5 DEF Inv
<1> QED
  BY <1>1, GoogleKeeps, StartKeeps, ListEventsKeeps, ExpiredKeeps, FailKeeps, LoadKeeps, SaveKeeps,
     PageDoneKeeps, TouchKeeps, ClearMemoKeeps, ClearTokenKeeps, AccountKeeps DEF Next

\* The calendar, the account, the memos and what each worker holds keep their types,
\* and no two memos have one id, however the workers overlap.
THEOREM TypeCorrect == ASSUME CalendarAssumption PROVE Spec => []TypeOK
<1>1. Inv => TypeOK
  BY DEF Inv, TypeInv
<1> QED BY <1>1, InitInv, InvKept, PTL DEF Spec

\* Whatever Google changes, forgets and refuses while a run lists and saves, and
\* wherever a run fails or dies: outside of doubt the memos are the events as of the
\* token that is stored, so that the next run may leave out what is older (Sync#call).
THEOREM CoversImport == ASSUME CalendarAssumption PROVE Spec => []TokenCoversImport
<1>1. Inv => TokenCoversImport
  BY DEF Inv, NoDoubtOK, TokenCoversImport, CoveredTo, Good
<1> QED BY <1>1, InitInv, InvKept, PTL DEF Spec

\* No step writes a series anew without the occurrence that was cancelled, unless
\* runs have overlapped (EventMapper.apply!, RecurringExceptions).
THEOREM OccurrencesStay == ASSUME CalendarAssumption PROVE Spec => [][OccurrencesStayOut]_vars
<1>1. Inv /\ [Next]_vars => OccurrencesStayOut
  <2> SUFFICES ASSUME Inv, [Next]_vars, ~doubt, NEW m \in memos, m.out, NEW n \in memos', n.id = m.id
               PROVE  n.out
    BY DEF OccurrencesStayOut
  <2>1. TypeInv /\ (\A a, b \in memos : a.id = b.id => a = b) /\ memos \subseteq MemoRows
    BY TypesKnown DEF Inv
  <2>2. CASE \E r \in Runs : SaveMemo(r)
    <3>1. PICK r \in Runs : SaveMemo(r)
      BY <2>2
    <3> DEFINE i == run[r].item
               l == run[r].ld
    <3>2. /\ i \in Items /\ l \in MemoRows \cup {NoRow}
          /\ \/ memos' = Others(l) \/ memos' = memos \cup {Fresh(i)} \/ memos' = memos
             \/ l \in MemoRows /\ memos' = Others(l) \cup {Saved(i, l)}
      BY <2>1, <3>1, SaveRows
    <3>3. Others(l) \subseteq memos /\ \A a \in memos : a.id # NewId
      BY <2>1, FreshId DEF Others, UsedIds
    <3>4. CASE n \in memos
      BY <2>1, <3>4
    <3>5. n # Fresh(i)
      BY <3>3 DEF Fresh
    <3>6. CASE l \in MemoRows /\ n = Saved(i, l)
      <4>1. n.id = l.id /\ (l.out => n.out) /\ l # NoRow
        BY <3>2, <3>6, SavedRow DEF NoRow, MemoRows, Ids, None
      <4>2. l \in memos
        BY <3>1, <4>1, SaveWrites
      <4> QED BY <2>1, <4>1, <4>2
    <3> QED BY <3>2, <3>3, <3>4, <3>5, <3>6
  <2>3. CASE ~\E r \in Runs : SaveMemo(r)
    <3>1. memos' \subseteq memos
      BY <2>3 DEF Next, vars, Change, Forget, Google, StartSync, StartClear, Starts, ListEvents, TokenExpired,
                  ListFails, LoadMemo, PageDone, TouchSyncMeta, Dies, ClearToken, ClearMemo, Quiet,
                  Disconnect, Connect
    <3> QED BY <2>1, <3>1
  <2> QED BY <2>2, <2>3
<1> QED BY <1>1, InitInv, InvKept, PTL DEF Spec
=============================================================================
