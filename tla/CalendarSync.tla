---------------------------- MODULE CalendarSync ----------------------------
(***************************************************************************)
(* The events of a Google Calendar as memos of an account                  *)
(* (google_calendar/sync.rb and clear.rb).  A run lists what has changed   *)
(* since the sync token the account keeps, page by page, brings it into    *)
(* memos one event at a time, and stores the next token at the end.        *)
(* Google goes on changing meanwhile, refuses tokens that are too old, and *)
(* a run may fail or die anywhere.                                         *)
(***************************************************************************)
EXTENDS Integers, FiniteSets

CONSTANTS
  Events,     \* events that are no occurrence of another: single ones and series
  Runs,       \* workers: jobs, the rake task, the request that clears
  MaxVersion, MaxStarts, MaxFaults   \* bounds on changes, runs and failures

CalendarAssumption ==
  IsFiniteSet(Runs) /\ MaxVersion \in Nat \ {0} /\ {MaxStarts, MaxFaults} \subseteq Nat

VARIABLES
  google,    \* the calendar, each event and one occurrence of it at its last change
  account,   \* whether a refresh token is stored, and the sync token or None
  memos,     \* synced memos: event_id, etag and whether the occurrence is cancelled
  run,       \* what each worker is doing
  doubt,     \* runs have overlapped, or a clearing was cut short, since all was cleared
  starts, faults

vars == <<google, account, memos, run, doubt, starts, faults>>

None == 0
Versions == 0 .. MaxVersion
Ids == Nat \ {0}

MemoRows == [id : Ids, event : Events, etag : Versions, out : BOOLEAN]
NoRow == [id |-> None]
Items == [event : Events, kind : {"event", "occurrence"}, alive : BOOLEAN, v : Versions]
NoItem == [kind |-> "none"]
Idle == [step |-> "idle", token |-> None, rest |-> {}, items |-> {}, next |-> None, item |-> NoItem,
         ld |-> NoRow, ids |-> {}, alone |-> TRUE]
Calendars == [at : Versions, floor : Versions, alive : SUBSET Events,
              event : [Events -> Versions], occurrence : [Events -> Versions]]
Workers == [step : {"idle", "first", "page", "items", "save", "touch", "clear"},
            token : Versions, rest : SUBSET (Events \X {"event", "occurrence"}),
            items : SUBSET Items, next : Versions, item : Items \cup {NoItem},
            ld : MemoRows \cup {NoRow}, ids : SUBSET Ids, alone : BOOLEAN]

TypeOK ==
  /\ google \in Calendars
  /\ account \in [connected : BOOLEAN, token : Versions]
  /\ memos \subseteq MemoRows
  /\ \A m, n \in memos : m.id = n.id => m = n
  /\ run \in [Runs -> Workers]
  /\ doubt \in BOOLEAN /\ starts \in Nat /\ faults \in Nat

Init ==
  /\ google = [at |-> 1, floor |-> 0, alive |-> Events, event |-> [e \in Events |-> 1],
               occurrence |-> [e \in Events |-> 0]]
  /\ account = [connected |-> TRUE, token |-> None]
  /\ memos = {} /\ run = [r \in Runs |-> Idle]
  /\ doubt = FALSE /\ starts = 0 /\ faults = 0

-----------------------------------------------------------------------------
\* Google

Google(g) == google' = g /\ UNCHANGED <<account, memos, run, doubt, starts, faults>>

\* An event is edited, cancelled or put back, or its occurrence is cancelled.
Change(e) ==
  /\ google.at < MaxVersion
  /\ LET g == [google EXCEPT !.at = @ + 1]
     IN  \/ Google([g EXCEPT !.event[e] = g.at, !.alive = @ \cup {e}])
         \/ e \in g.alive /\ Google([g EXCEPT !.event[e] = g.at, !.alive = @ \ {e}])
         \/ e \in g.alive /\ g.occurrence[e] = 0 /\ Google([g EXCEPT !.occurrence[e] = g.at])

\* A cancelled event is listed no more; tokens from before its end are refused.
Forget(e) ==
  /\ e \notin google.alive /\ google.event[e] # 0
  /\ Google([google EXCEPT !.event[e] = 0, !.occurrence[e] = 0, !.floor = google.at])

\* What a list holds: everything changed since the token, or since ever.
Changed(token) ==
  {k \in Events \X {"event", "occurrence"} : google[k[2]][k[1]] > token}

\* The entries of a page, as they are when it is asked for.
Listed(keys) ==
  LET there == {k \in keys : google[k[2]][k[1]] # 0}
  IN  {[event |-> k[1], kind |-> k[2], alive |-> k[2] = "event" /\ k[1] \in google.alive,
        v |-> google[k[2]][k[1]]] : k \in there}

-----------------------------------------------------------------------------
\* A run of the import

Active == {r \in Runs : run[r].step # "idle"}

\* A run begins with a copy of the account; those under way are no longer alone.
Starts(r, doing) ==
  /\ starts < MaxStarts /\ starts' = starts + 1 /\ run[r].step = "idle"
  /\ run' = [q \in Runs |->
       IF q = r THEN [doing EXCEPT !.token = account.token, !.alone = Active = {}]
       ELSE IF q \in Active THEN [run[q] EXCEPT !.alone = FALSE] ELSE run[q]]
  /\ doubt' = (doubt \/ Active # {})
  /\ UNCHANGED <<google, account, memos, faults>>

\* GoogleCalendarSyncJob and the rake task, up to the first list_events of call.
StartSync(r) == account.connected /\ Starts(r, [Idle EXCEPT !.step = "first"])

Becomes(r, s) == run' = [run EXCEPT ![r] = s]
Quiet == UNCHANGED <<google, doubt, starts>>

\* list_events answers with a page, and behind the last one with the next token.
ListEvents(r) ==
  LET first == run[r].step = "first"
      rest == IF first THEN Changed(run[r].token) ELSE run[r].rest
  IN  /\ run[r].step \in {"first", "page"}
      /\ run[r].token = None \/ run[r].token >= google.floor
      /\ \E keys \in SUBSET rest :
           /\ keys # {} \/ rest = {}
           /\ Becomes(r, [run[r] EXCEPT !.step = "items", !.rest = rest \ keys, !.items = Listed(keys),
                                        !.next = IF first THEN google.at ELSE @])
      /\ UNCHANGED <<account, memos, faults>> /\ Quiet

\* Google refuses the token: it is given up, and call begins again without one.
TokenExpired(r) ==
  /\ run[r].step \in {"first", "page"} /\ run[r].token # None /\ run[r].token < google.floor
  /\ account' = [account EXCEPT !.token = None]
  /\ Becomes(r, [Idle EXCEPT !.step = "first", !.alone = run[r].alone])
  /\ UNCHANGED <<memos, faults>> /\ Quiet

\* Mutated: what was imported before a failure counts as everything.
FailedTouches(s) == [s EXCEPT !.step = "touch"]
\* The rescue of Client::Error: no token is stored.
FailedEnds(s) == Idle

ListFails(r) ==
  /\ run[r].step \in {"first", "page"} /\ faults < MaxFaults /\ faults' = faults + 1
  /\ Becomes(r, FailedEnds(run[r]))
  /\ UNCHANGED <<account, memos>> /\ Quiet

\* find_memo: the first one with the event's id.
Found(e) ==
  LET rows == {m \in memos : m.event = e}
  IN  IF rows = {} THEN NoRow ELSE CHOOSE m \in rows : \A n \in rows : m.id <= n.id

\* What sync_event and sync_recurring_exception skip.  An occurrence that is moved,
\* not cancelled, changes nothing in RecurringExceptions and is left out.
Skips(i, m) ==
  IF m = NoRow THEN ~i.alive
  ELSE IF i.kind = "event" THEN i.alive /\ m.etag = i.v ELSE m.out

\* An entry of the page, in whichever order they come, and its memo are loaded.
LoadMemo(r, i) ==
  LET s == [run[r] EXCEPT !.items = @ \ {i}]
  IN  /\ run[r].step = "items" /\ i \in run[r].items
      /\ Becomes(r, IF Skips(i, Found(i.event)) THEN s
                    ELSE [s EXCEPT !.step = "save", !.item = i, !.ld = Found(i.event)])
      /\ UNCHANGED <<account, memos, faults>> /\ Quiet

\* Mutated: an event that is written anew forgets its cancelled occurrences.
NotKept(m) == FALSE
\* EventMapper.apply! takes over cancelled_occurrences.
Kept(m) == m.out

\* An id no row has and no run holds.
UsedIds == {m.id : m \in memos} \cup {run[r].ld.id : r \in Runs}
NewId == CHOOSE id \in 1 .. Cardinality(UsedIds) + 1 : id \notin UsedIds

Saved(i, m) == IF i.kind = "event" THEN [m EXCEPT !.etag = i.v, !.out = Kept(m)]
               ELSE [m EXCEPT !.out = TRUE]

\* create_memo!, update_memo!, delete_memo, or apply! of an occurrence: the loaded
\* copy replaces the row.  Tagging a memo that is gone fails, and the run with it.
SaveMemo(r) ==
  LET i == run[r].item
      m == run[r].ld
      there == \E n \in memos : n.id = m.id
      others == {n \in memos : n.id # m.id}
      new == [id |-> NewId, event |-> i.event, etag |-> i.v, out |-> FALSE]
  IN  /\ run[r].step = "save"
      /\ memos' = IF i.kind = "event" /\ ~i.alive THEN others
                  ELSE IF m = NoRow THEN memos \cup {new}
                  ELSE IF there THEN others \cup {Saved(i, m)} ELSE memos
      /\ Becomes(r, IF i.kind = "event" /\ i.alive /\ m # NoRow /\ ~there THEN Idle
                    ELSE [run[r] EXCEPT !.step = "items", !.item = NoItem, !.ld = NoRow])
      /\ UNCHANGED <<account, faults>> /\ Quiet

\* Behind the last event of a page.
PageDone(r) ==
  /\ run[r].step = "items" /\ run[r].items = {}
  /\ Becomes(r, [run[r] EXCEPT !.step = IF run[r].rest = {} THEN "touch" ELSE "page"])
  /\ UNCHANGED <<account, memos, faults>> /\ Quiet

\* touch_sync_meta!: the loaded copy with the new token replaces the whole column.
TouchSyncMeta(r) ==
  /\ run[r].step = "touch"
  /\ account' = [account EXCEPT !.token = run[r].next]
  /\ Becomes(r, Idle)
  /\ UNCHANGED <<memos, faults>> /\ Quiet

\* A worker dies.
Dies(r) ==
  /\ run[r].step # "idle" /\ faults < MaxFaults /\ faults' = faults + 1
  /\ Becomes(r, Idle) /\ doubt' = (doubt \/ run[r].step = "clear")
  /\ UNCHANGED <<google, account, memos, starts>>

-----------------------------------------------------------------------------
\* The account

\* clear_data: the memos there are, to be destroyed one by one.
StartClear(r) == Starts(r, [Idle EXCEPT !.step = "clear", !.ids = {m.id : m \in memos}])

ClearMemo(r, id) ==
  /\ run[r].step = "clear" /\ id \in run[r].ids
  /\ memos' = {m \in memos : m.id # id}
  /\ Becomes(r, [run[r] EXCEPT !.ids = @ \ {id}])
  /\ UNCHANGED <<account, faults>> /\ Quiet

\* clear_google_calendar_sync_token!, which writes only what its copy lets change.
ClearToken(r) ==
  /\ run[r].step = "clear" /\ run[r].ids = {}
  /\ account' = [account EXCEPT !.token = IF run[r].token = None THEN @ ELSE None]
  /\ Becomes(r, Idle)
  /\ doubt' = (doubt /\ ~(run[r].alone /\ Active = {r}))
  /\ UNCHANGED <<google, memos, starts, faults>>

Disconnect ==
  /\ account.connected /\ starts < MaxStarts
  /\ account' = [connected |-> FALSE, token |-> None]
  /\ UNCHANGED <<google, memos, run, doubt, starts, faults>>

\* connect_google_calendar!; a token that a run has stored meanwhile is kept.
Connect ==
  /\ ~account.connected /\ account' = [account EXCEPT !.connected = TRUE]
  /\ UNCHANGED <<google, memos, run, doubt, starts, faults>>

Next ==
  \/ \E e \in Events : Change(e) \/ Forget(e)
  \/ \E r \in Runs : \/ StartSync(r) \/ ListEvents(r) \/ TokenExpired(r) \/ ListFails(r)
                     \/ \E i \in run[r].items : LoadMemo(r, i)
                     \/ SaveMemo(r) \/ PageDone(r) \/ TouchSyncMeta(r) \/ Dies(r)
                     \/ StartClear(r) \/ ClearToken(r) \/ \E id \in run[r].ids : ClearMemo(r, id)
  \/ Disconnect \/ Connect

Spec == Init /\ [][Next]_vars

-----------------------------------------------------------------------------
\* The stored token never passes a change that was not imported: every event Google
\* still lists and last changed before the token has one memo as of that change, or
\* none if it is cancelled, whatever failed or changed in the middle of a run.  Runs
\* that overlap break this, until the data is cleared.
TokenCoversImport ==
  ~doubt =>
    /\ \A m, n \in memos : m.event = n.event => m = n
    /\ \A e \in Events :
         google.event[e] \in 1 .. account.token /\ (\A r \in Runs : run[r].step # "clear") =>
           {m.etag : m \in {m \in memos : m.event = e}}
             = IF e \in google.alive THEN {google.event[e]} ELSE {}

\* An occurrence that is cancelled stays so while its series is written anew.
OccurrencesStayOut ==
  ~doubt => \A m \in memos : m.out => \A n \in memos' : n.id = m.id => n.out
=============================================================================
